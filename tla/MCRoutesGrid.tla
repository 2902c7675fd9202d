---------------------------- MODULE MCRoutesGrid ----------------------------
(***************************************************************************)
(* The instance of RoutesGrid for TLC: two routes, two columns, one of     *)
(* them missing, pages of one or two rows, and one search.                 *)
(***************************************************************************)
EXTENDS RoutesGrid

MCRoutes == 1 .. 2
MCColumns == {"Name", "Updated"}
MCMissing == {"Updated"}

\* By name, the second route comes first; by the missing column, none does.
MCKey == [c \in MCColumns |->
            IF c = "Name" THEN <<1, 2>> ELSE <<0, 0>>]

MCTexts == {"", "a"}
MCMatches == [x \in MCTexts |-> IF x = "" THEN MCRoutes ELSE {1}]
MCLengths == {1, 2}

=============================================================================
