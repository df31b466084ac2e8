---------------------------- MODULE AbstractTimers ----------------------------
(***************************************************************************)
(* What the timer calls promise, without comparators, vectors and          *)
(* handlers: a timer that is started calls back when its ticks are over,   *)
(* once or again and again, and not early; a timer that is stopped, in its *)
(* own callback too, does not.  What they do not promise: a thread is deaf *)
(* from the end of its callback to the end of its handler and after the    *)
(* interrupt of another, and loses the alarm that comes then.              *)
(***************************************************************************)
EXTENDS Naturals

CONSTANTS Threads, Ticks

VARIABLES
  known,     (* the timer exists                                           *)
  type,      (* "once" or "periodic"                                       *)
  interval,  (* the ticks of a timer that runs, or 0                       *)
  alarm,     (* "off"; "next" when it is about to be set; "set"            *)
  wait,      (* ticks until an alarm that is set                           *)
  calling,   (* whose callbacks are running                                *)
  deaf       (* whose interrupts are disabled                              *)

Init ==
  /\ known = [t \in Threads |-> FALSE]
  /\ type = [t \in Threads |-> "once"]
  /\ interval = [t \in Threads |-> 0]
  /\ alarm = [t \in Threads |-> "off"]
  /\ wait = [t \in Threads |-> 0]
  /\ calling = {} /\ deaf = {}

New(t, kind) ==
  /\ ~ known[t]
  /\ known' = [known EXCEPT ![t] = TRUE]
  /\ type' = [type EXCEPT ![t] = kind]
  /\ UNCHANGED <<interval, alarm, wait, calling, deaf>>

Delete(t) ==
  /\ interval[t] = 0 /\ alarm[t] = "off"
  /\ known' = [known EXCEPT ![t] = FALSE]
  /\ UNCHANGED <<type, interval, alarm, wait, calling, deaf>>

Start(t, n) ==
  /\ known[t] /\ interval[t] = 0 /\ alarm[t] = "off" /\ t \notin calling
  /\ interval' = [interval EXCEPT ![t] = n]
  /\ alarm' = [alarm EXCEPT ![t] = "next"]
  /\ UNCHANGED <<known, type, wait, calling, deaf>>

Set(t) ==
  /\ alarm[t] = "next" /\ t \notin calling
  /\ alarm' = [alarm EXCEPT ![t] = "set"]
  /\ wait' = [wait EXCEPT ![t] = interval[t]]
  /\ UNCHANGED <<known, type, interval, calling, deaf>>

Tick ==
  /\ wait' = [t \in Threads |-> IF wait[t] > 0 THEN wait[t] - 1 ELSE 0]
  /\ UNCHANGED <<known, type, interval, alarm, calling, deaf>>

Ringing(t) == alarm[t] = "set" /\ wait[t] = 0

(* The interrupt of one thread makes others deaf. *)
Ring(t) ==
  /\ Ringing(t) /\ t \notin deaf
  /\ \E S \in SUBSET (Threads \ {t}) : deaf' = deaf \cup S
  /\ UNCHANGED <<known, type, interval, alarm, wait, calling>>

Call(t) ==
  /\ Ringing(t) /\ t \notin deaf \cup calling /\ known[t]
  /\ calling' = calling \cup {t}
  /\ alarm' = [alarm EXCEPT
       ![t] = IF type[t] = "periodic" /\ interval[t] # 0 THEN "next" ELSE "off"]
  /\ UNCHANGED <<known, type, interval, wait, deaf>>

Return(t) ==
  /\ calling' = calling \ {t}
  /\ deaf' = deaf \cup {t}
  /\ UNCHANGED <<known, type, interval, alarm, wait>>

(* The timer has done what it was started for. *)
Done(t) ==
  /\ type[t] = "once" /\ alarm[t] = "off" /\ t \notin calling
  /\ interval' = [interval EXCEPT ![t] = 0]
  /\ UNCHANGED <<known, type, alarm, wait, calling, deaf>>

Silence(t) ==
  /\ alarm' = [alarm EXCEPT ![t] = "off"]
  /\ wait' = [wait EXCEPT ![t] = 0]

(* An alarm that is set may still ring until Stop has ended. *)
Stop(t) ==
  /\ interval[t] # 0
  /\ interval' = [interval EXCEPT ![t] = 0]
  /\ (alarm[t] = "set" /\ UNCHANGED <<alarm, wait>>) \/ Silence(t)
  /\ UNCHANGED <<known, type, calling, deaf>>

Stopped(t) ==
  /\ interval[t] = 0 /\ Silence(t)
  /\ UNCHANGED <<known, type, interval, calling, deaf>>

Lose(t) ==
  /\ t \in deaf /\ Ringing(t) /\ Silence(t)
  /\ UNCHANGED <<known, type, interval, calling, deaf>>

Hear(t) ==
  /\ deaf' = deaf \ {t}
  /\ UNCHANGED <<known, type, interval, alarm, wait, calling>>

Next ==
  \/ Tick
  \/ \E t \in Threads :
       \/ \E kind \in {"once", "periodic"} : New(t, kind)
       \/ \E n \in Ticks : Start(t, n)
       \/ Delete(t) \/ Set(t) \/ Ring(t) \/ Call(t) \/ Return(t) \/ Done(t)
       \/ Stop(t) \/ Stopped(t) \/ Lose(t) \/ Hear(t)

Spec == Init /\ [][Next]_<<known, type, interval, alarm, wait, calling, deaf>>
=============================================================================
