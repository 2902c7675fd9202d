---------------------------- MODULE MCUnitOfWork ----------------------------
(***************************************************************************)
(* Instances of UnitOfWork for TLC.                                        *)
(***************************************************************************)
EXTENDS UnitOfWork, FiniteSets, TLC

CONSTANTS row1, row2, old, young, bad, new1, unitA, unitB

\* What the new entity holds.
OneYoung == new1 :> young

Symmetry == Permutations({row1, row2}) \cup Permutations({unitA, unitB})

\* The bound on what the units may have left over from failed calls and touched
\* entities when one of them makes its next call.
MaxLeftovers == 1
FewLeftovers ==
  Cardinality(UNION {{u} \X failed[u] : u \in Units}) <= MaxLeftovers
=============================================================================
