----------------------------- MODULE MCAccounts -----------------------------
(***************************************************************************)
(* Instances of Accounts for TLC.                                          *)
(***************************************************************************)
EXTENDS Accounts, TLC

CONSTANTS ana, beto, google1, google2, browserA, browserB, slot1, slot2

Symmetry == Permutations({ana, beto}) \cup Permutations({google1, google2})
            \cup Permutations({browserA, browserB}) \cup Permutations({slot1, slot2})
=============================================================================
