--------------------------- MODULE MCFlexThreads ---------------------------
(***************************************************************************)
(* Instances of FlexThreads for TLC, together with the programs that the   *)
(* threads run and the functions that all of them call.                    *)
(***************************************************************************)
EXTENDS FlexThreads, Workloads, Utilities

Contract == {}

(* The simulation of a program ends with PASSED whatever its main returned *)
(* to it: what the programs compute is right when that is written.         *)
ProgramsCompute == tohost = 1 => ResultsAreRight

(* osThreadEnumerate lists as many of the active threads, thread 0 among   *)
(* them, as its array has items for ("maximum number of items in array",   *)
(* cmsis_os2.h:447).  The code does not: with thread 1 terminated, room for *)
(* two lists thread 0 alone although thread 2 is active.                    *)
Started == {0} \cup {t \in Workers : func[t] # NULL}

EnumerateFillsTheList ==
  \A items \in 0 .. N :
    Len(osThreadEnumerate(Started, items)) = Min({items, osThreadGetCount(Started)})

(* A thread that runs, and thread 0 in a call, rely on the utilities.      *)
UtilitiesHold ==
  (main.pc # "idle" \/ \E t \in Workers : pc[t] = "run") => ServicesAreRight
=============================================================================
