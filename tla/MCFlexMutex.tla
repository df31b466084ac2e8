---------------------------- MODULE MCFlexMutex ----------------------------
(***************************************************************************)
(* The instance of FlexMutex for TLC; liveness is checked, so the threads  *)
(* are no symmetry set.                                                    *)
(***************************************************************************)
EXTENDS FlexMutex
=============================================================================
