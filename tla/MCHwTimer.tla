----------------------------- MODULE MCHwTimer -----------------------------
(***************************************************************************)
(* Instances of HwTimer for TLC.                                           *)
(***************************************************************************)
EXTENDS HwTimer

T0 == "t0"
T1 == "t1"
Both == {T0, T1}
One  == {T0}

NoLine  == {}
OneLine == {T1}
ItsLine == {T0}

(* Compare times soon, later, now and missed. *)
FewOffsets  == {-1, 2, 3}
SomeOffsets == {0, 1}

SleepOps     == {"other", "compare", "du", "zombie"}
AllOps       == {"other", "compare", "du", "ie", "ee", "enable", "disable", "ack",
                 "return", "fault", "zombie", "soft"}
TimerOps     == {"compare", "ie", "enable", "disable", "return", "zombie"}
=============================================================================
