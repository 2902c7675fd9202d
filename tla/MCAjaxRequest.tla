--------------------------- MODULE MCAjaxRequest ----------------------------
(***************************************************************************)
(* Instances of AjaxRequest for TLC.                                       *)
(***************************************************************************)
EXTENDS AjaxRequest, TLC

CONSTANTS post, poll, h1, h2, h3
=============================================================================
