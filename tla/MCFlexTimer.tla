---------------------------- MODULE MCFlexTimer ----------------------------
(***************************************************************************)
(* Instances of FlexTimer for TLC.                                         *)
(***************************************************************************)
EXTENDS FlexTimer

(* Callers that keep the contract. *)
Contract == {}
=============================================================================
