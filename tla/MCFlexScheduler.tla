-------------------------- MODULE MCFlexScheduler --------------------------
(***************************************************************************)
(* Instances of FlexScheduler for TLC.  Thread ids are ordered (slots are  *)
(* searched, ids are handed out in order), so there is no symmetry.        *)
(***************************************************************************)
EXTENDS FlexScheduler
=============================================================================
