--------------------------- MODULE MCHwScheduler ---------------------------
(***************************************************************************)
(* Instances of HwScheduler for TLC.                                       *)
(***************************************************************************)
EXTENDS HwScheduler

(* Every value the operating system writes into a slot. *)
OsSlotValues == Threads \cup {SLOT_S, SLOT_D}
=============================================================================
