--------------------------- MODULE MCProductList ---------------------------
(***************************************************************************)
(* The instance of ProductList for TLC.                                    *)
(***************************************************************************)
EXTENDS ProductList, TLC

CONSTANTS tele, radio, mouse, pageA, pageB, call1, call2, call3, call4

Symmetry == Permutations({call1, call2, call3, call4}) \cup Permutations({pageA, pageB})
            \cup Permutations({radio, mouse})
=============================================================================
