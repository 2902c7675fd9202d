------------------------- MODULE MCMembershipInit -------------------------
(***************************************************************************)
(* The instance of MembershipInit for TLC.                                    *)
(***************************************************************************)
EXTENDS MembershipInit

CONSTANTS domA, domB, req1, req2, req3
=============================================================================
