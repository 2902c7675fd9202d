--------------------------- MODULE MCRouteEditing ---------------------------
(***************************************************************************)
(* Instances of RouteEditing for TLC.                                      *)
(***************************************************************************)
EXTENDS RouteEditing, TLC

CONSTANTS tabA, tabB, postA, postB, route1

\* A row of the post-deployment script, but created at an hour of the day and
\* with a distance from beyond the spinner.
Seeded == [name |-> "Ruta 1", distance |-> 4, day |-> 1, time |-> "later",
           createdBy |-> "Carlos", isDeleted |-> FALSE]
Deleted == [Seeded EXCEPT !.isDeleted = TRUE]

OneRow == [{route1} -> {Seeded, Deleted, None}]

MCNames == {"Ruta 1", "Ruta 2"}
MCUsers == {"Carlos"}
=============================================================================
