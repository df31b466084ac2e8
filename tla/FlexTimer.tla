----------------------------- MODULE FlexTimer -----------------------------
(***************************************************************************)
(* The software timers of FlexPRET OS (flexpret_timing.c) on the one       *)
(* comparator that each hardware thread has: the timer block               *)
(* startup_timer_state[tid], its attribute entry, the timer slot of the    *)
(* trap vector, the compare register with its mode, and osDelay and        *)
(* osDelayUntil, which use the same register.                              *)
(*                                                                         *)
(* An interrupt may come between any two instructions of its thread, so an *)
(* API call is cut where a handler could see the difference.  A handler    *)
(* runs with interrupts disabled; the callback inside it may call the API  *)
(* again.  Csr and trap are the ones of HwTimer, reduced to what timers    *)
(* use: the comparison expires at the next instruction of its thread, the  *)
(* trap of one thread disables the interrupts of all, and the csrrsi that  *)
(* enables them drops an interrupt that is already pending.                *)
(*                                                                         *)
(* left counts the ticks until the comparison expires.  Ticks of a         *)
(* start are below 2^31, where the comparison does not wrap.               *)
(***************************************************************************)
EXTENDS Naturals

CONSTANTS
  Threads,   (* the hardware threads, each with its timer                  *)
  Ticks,     (* the ticks that callers pass: positive numbers              *)
  Uses       (* what callers do beyond the contract that the README states *)

ASSUME TimerAssumption ==
  /\ Ticks \subseteq Nat \ {0}
  /\ Uses \subseteq {"restart", "callbackStart", "remote", "delay", "nullFunc"}

VARIABLES
  entry,     (* flexpret_timer_attr_entry[t] # NULL: the timer is active   *)
  ticks,     (* startup_timer_state[t].ticks                               *)
  type,      (* startup_timer_state[t].type                                *)
  func,      (* startup_timer_state[t].func # NULL                         *)
  handler,   (* trap_handler_vector[t].handler[InterruptOnExpire]          *)
  mode,      (* what the comparator of t is for                            *)
  left,      (* ticks until its comparison expires                         *)
  pending,   (* a timer interrupt was captured and not taken               *)
  missed,    (* the comparison expired while interrupts were disabled: not *)
             (* in the code, which keeps no trace of it                    *)
  ie,        (* interrupts are enabled                                     *)
  pc,        (* the next step of t; "idle" in the program, "callback" in   *)
             (* a callback                                                 *)
  call,      (* the timer and the ticks of the call that t is in           *)
  saved      (* what the handler of t interrupted: a pc and its call, and  *)
             (* which handler it is                                        *)

block == <<entry, ticks, type, func, handler>>
csrs  == <<mode, left, pending, ie, missed>>
vars  == <<block, csrs, pc, call, saved>>

CallPcs == {"startTicks", "startCompare", "startArm", "stopCompare", "stopHandler",
            "deleteCompare", "deleteEntry", "deleteFunc", "setFunc", "delaying"}
HandlerPcs == {"call", "callback", "onceDone", "rearm", "rearmArm",
               "trapRet", "trapJump"}
Calls == [timer : Threads, ticks : Ticks \cup {0}]
Handlers == {"default", "once", "periodic"}
Interrupted == [pc : {"idle", "trapJump"} \cup CallPcs, call : Calls, handler : Handlers]

NotInHandler == [pc |-> "none"]
InHandler(t) == saved[t] # NotInHandler

TypeOK ==
  /\ entry \in [Threads -> BOOLEAN]
  /\ ticks \in [Threads -> Ticks \cup {0}]
  /\ type \in [Threads -> {"once", "periodic"}]
  /\ func \in [Threads -> BOOLEAN]
  /\ handler \in [Threads -> Handlers]
  /\ mode \in [Threads -> {"off", "ie", "du"}]
  /\ left \in [Threads -> Nat]
  /\ pending \in [Threads -> BOOLEAN]
  /\ missed \in [Threads -> BOOLEAN]
  /\ ie \in [Threads -> BOOLEAN]
  /\ pc \in [Threads -> {"idle"} \cup CallPcs \cup HandlerPcs]
  /\ call \in [Threads -> Calls]
  /\ saved \in [Threads -> Interrupted \cup {NotInHandler}]

(* startup.S has enabled interrupts of each thread before its function. *)
Init ==
  /\ entry = [t \in Threads |-> FALSE]
  /\ ticks = [t \in Threads |-> 0]
  /\ type = [t \in Threads |-> "once"]
  /\ func = [t \in Threads |-> FALSE]
  /\ handler = [t \in Threads |-> "default"]
  /\ mode = [t \in Threads |-> "off"]
  /\ left = [t \in Threads |-> 0]
  /\ pending = [t \in Threads |-> FALSE]
  /\ missed = [t \in Threads |-> FALSE]
  /\ ie = [t \in Threads |-> TRUE]
  /\ pc = [t \in Threads |-> "idle"]
  /\ call = [t \in Threads |-> [timer |-> t, ticks |-> 0]]
  /\ saved = [t \in Threads |-> NotInHandler]

-----------------------------------------------------------------------------
(***************************************************************************)
(* The comparator and the trap                                             *)
(***************************************************************************)

Expired(t) == mode[t] = "ie" /\ left[t] = 0

(* The next instruction of t does nothing but trap or capture. *)
TrapDue(t)    == ie[t] /\ (pending[t] \/ Expired(t))
CaptureDue(t) == ~ ie[t] /\ Expired(t)

(* t executes the step named from, and goes to the step named to. *)
Goto(t, from, to) ==
  /\ pc[t] = from
  /\ ~ TrapDue(t) /\ ~ CaptureDue(t)
  /\ pc' = [pc EXCEPT ![t] = to]

(* Where an API call returns to. *)
Home(t) == IF InHandler(t) THEN "callback" ELSE "idle"

(* set_compare: a write to the register also turns its comparison off. *)
set_compare(t, n) ==
  /\ left' = [left EXCEPT ![t] = n]
  /\ mode' = [mode EXCEPT ![t] = "off"]
  /\ missed' = [missed EXCEPT ![t] = FALSE]
  /\ UNCHANGED <<pending, ie>>

(* interrupt_expire *)
interrupt_expire(t) ==
  /\ mode' = [mode EXCEPT ![t] = "ie"]
  /\ UNCHANGED <<left, pending, ie, missed>>

(* An interrupt that expires while interrupts are disabled is remembered. *)
Capture(t) ==
  /\ CaptureDue(t)
  /\ mode' = [mode EXCEPT ![t] = "off"]
  /\ pending' = [pending EXCEPT ![t] = TRUE]
  /\ missed' = [missed EXCEPT ![t] = TRUE]
  /\ UNCHANGED <<block, left, ie, pc, call, saved>>

(* trap_entry: the context is saved on the stack of the thread and its pc  *)
(* in epc_vector, and the handler in the vector runs.                      *)
(* default_ie_handler prints.                                              *)
Trap(t) ==
  /\ TrapDue(t)
  /\ mode' = [mode EXCEPT ![t] = IF Expired(t) THEN "off" ELSE @]
  /\ pending' = [pending EXCEPT ![t] = TRUE]
  /\ ie' = [u \in Threads |-> FALSE]
  /\ saved' = [saved EXCEPT ![t] = [pc |-> pc[t], call |-> call[t], handler |-> handler[t]]]
  /\ pc' = [pc EXCEPT ![t] = IF handler[t] = "default" THEN "trapRet" ELSE "call"]
  /\ UNCHANGED <<block, left, missed, call>>

(* Slip: csrrsi leaves the interrupt pending. *)
trap_retKeepsPending(t) ==
  /\ Goto(t, "trapRet", "trapJump")
  /\ ie' = [ie EXCEPT ![t] = TRUE]
  /\ UNCHANGED <<block, mode, left, pending, missed, call, saved>>

(* trap_ret: csrrsi sets the enable, and clears the pending interrupt:     *)
(* status shows it in bit 30 and is written in bit 26.                     *)
trap_ret(t) ==
  /\ Goto(t, "trapRet", "trapJump")
  /\ pending' = [pending EXCEPT ![t] = FALSE]
  /\ ie' = [ie EXCEPT ![t] = TRUE]
  /\ UNCHANGED <<block, mode, left, missed, call, saved>>

(* jalr x0, tp, 0 with the address of epc_vector in tp: a trap of the jalr *)
(* itself leaves the address of the jalr there, because load_context does  *)
(* not restore tp.                                                         *)
TrapJump(t) ==
  /\ Goto(t, "trapJump", saved[t].pc)
  /\ call' = [call EXCEPT ![t] = saved[t].call]
  /\ saved' = [saved EXCEPT ![t] = IF @.pc = "trapJump" THEN @ ELSE NotInHandler]
  /\ UNCHANGED <<block, csrs>>

(* enable_interrupts: the same csrrsi, in the program.                     *)
enable_interrupts(t) ==
  /\ Goto(t, "idle", "idle")
  /\ pending' = [pending EXCEPT ![t] = FALSE]
  /\ ie' = [ie EXCEPT ![t] = TRUE]
  /\ UNCHANGED <<block, mode, left, missed, call, saved>>

(* Time passes, and waits for no handler. *)
Tick ==
  /\ \E t \in Threads : left[t] > 0
  /\ left' = [t \in Threads |-> IF left[t] > 0 THEN left[t] - 1 ELSE 0]
  /\ UNCHANGED <<block, mode, pending, ie, missed, pc, call, saved>>

-----------------------------------------------------------------------------
(***************************************************************************)
(* timer_handler and timer_periodic_handler                                *)
(***************************************************************************)

(* tmp->func(tmp->arg) *)
CallFunc(t) ==
  /\ Goto(t, "call", "callback")
  /\ UNCHANGED <<block, csrs, call, saved>>

CallbackReturns(t) ==
  /\ Goto(t, "callback", IF saved[t].handler = "once" THEN "onceDone" ELSE "rearm")
  /\ UNCHANGED <<block, csrs, call, saved>>

(* tmp->ticks = 0 *)
OnceDone(t) ==
  /\ Goto(t, "onceDone", "trapRet")
  /\ ticks' = [ticks EXCEPT ![t] = 0]
  /\ UNCHANGED <<entry, type, func, handler, csrs, call, saved>>

(* Slip: the compare register is not set again. *)
RearmForgotten(t) ==
  /\ Goto(t, "rearm", "trapRet")
  /\ UNCHANGED <<block, csrs, call, saved>>

(* get_time and set_compare(tmp->ticks + time) *)
Rearm(t) ==
  /\ Goto(t, "rearm", "rearmArm")
  /\ set_compare(t, ticks[t])
  /\ UNCHANGED <<block, call, saved>>

RearmArm(t) ==
  /\ Goto(t, "rearmArm", "trapRet")
  /\ interrupt_expire(t)
  /\ UNCHANGED <<block, call, saved>>

-----------------------------------------------------------------------------
(***************************************************************************)
(* The timer API.  Thread c calls, for the timer of t.  A call with a NULL *)
(* timer, with ticks 0 or on a timer that is not active returns an error   *)
(* and changes nothing.                                                    *)
(***************************************************************************)

NoCall(c) == [timer |-> c, ticks |-> 0]

(* osTimerIsRunning *)
osTimerIsRunning(t) == entry[t] /\ ticks[t] # 0

(* osTimerNew: one active timer for each thread.  It is stopped when made, *)
(* so that no handler sees the block half written.                         *)
osTimerNew(c, kind) ==
  /\ ~ entry[c]
  /\ Goto(c, Home(c), Home(c))
  /\ entry' = [entry EXCEPT ![c] = TRUE]
  /\ func' = [func EXCEPT ![c] = TRUE]
  /\ type' = [type EXCEPT ![c] = kind]
  /\ ticks' = [ticks EXCEPT ![c] = 0]
  /\ UNCHANGED <<handler, csrs, call, saved>>

(* osThreadSetTrapHandler for InterruptOnExpire. *)
osThreadSetTrapHandler(t, h) == handler' = [handler EXCEPT ![t] = h]

(* osTimerStart: the handler is set for the thread that calls; a timer     *)
(* that runs is started again.                                             *)
osTimerStart(c, t, n) ==
  /\ entry[t]
  /\ Goto(c, Home(c), "startTicks")
  /\ call' = [call EXCEPT ![c] = [timer |-> t, ticks |-> n]]
  /\ osThreadSetTrapHandler(c, type[t])
  /\ UNCHANGED <<entry, ticks, type, func, csrs, saved>>

(* timer->ticks = ticks *)
StartTicks(c) ==
  /\ Goto(c, "startTicks", "startCompare")
  /\ ticks' = [ticks EXCEPT ![call[c].timer] = call[c].ticks]
  /\ UNCHANGED <<entry, type, func, handler, csrs, call, saved>>

(* get_time and set_compare(ticks + time) *)
StartCompare(c) ==
  /\ Goto(c, "startCompare", "startArm")
  /\ set_compare(c, call[c].ticks)
  /\ call' = [call EXCEPT ![c] = NoCall(c)]
  /\ UNCHANGED <<block, saved>>

(* Slip: interrupt_expire is left out. *)
StartArmForgotten(c) ==
  /\ Goto(c, "startArm", Home(c))
  /\ UNCHANGED <<block, csrs, call, saved>>

StartArm(c) ==
  /\ Goto(c, "startArm", Home(c))
  /\ interrupt_expire(c)
  /\ UNCHANGED <<block, call, saved>>

(* osTimerStop: a timer that does not run is an error. *)
osTimerStop(c, t) ==
  /\ osTimerIsRunning(t)
  /\ Goto(c, Home(c), "stopCompare")
  /\ ticks' = [ticks EXCEPT ![t] = 0]
  /\ UNCHANGED <<entry, type, func, handler, csrs, call, saved>>

StopCompare(c) ==
  /\ Goto(c, "stopCompare", "stopHandler")
  /\ set_compare(c, 0)
  /\ UNCHANGED <<block, call, saved>>

StopHandler(c) ==
  /\ Goto(c, "stopHandler", Home(c))
  /\ osThreadSetTrapHandler(c, "default")
  /\ UNCHANGED <<entry, ticks, type, func, csrs, call, saved>>

(* Slip: a running timer is not stopped before it is deleted. *)
osTimerDeleteRunning(c, t) ==
  /\ Goto(c, Home(c), "deleteEntry")
  /\ call' = [call EXCEPT ![c] = [timer |-> t, ticks |-> 0]]
  /\ UNCHANGED <<block, csrs, saved>>

(* osTimerDelete stops a running timer first; the trap vector keeps its    *)
(* handler.  A timer that is not active is deleted again.                  *)
osTimerDelete(c, t) ==
  /\ Goto(c, Home(c), IF ticks[t] # 0 THEN "deleteCompare" ELSE "deleteEntry")
  /\ call' = [call EXCEPT ![c] = [timer |-> t, ticks |-> 0]]
  /\ ticks' = [ticks EXCEPT ![t] = 0]
  /\ UNCHANGED <<entry, type, func, handler, csrs, saved>>

DeleteCompare(c) ==
  /\ Goto(c, "deleteCompare", "deleteEntry")
  /\ set_compare(c, 0)
  /\ UNCHANGED <<block, call, saved>>

DeleteEntry(c) ==
  /\ Goto(c, "deleteEntry", "deleteFunc")
  /\ entry' = [entry EXCEPT ![call[c].timer] = FALSE]
  /\ UNCHANGED <<ticks, type, func, handler, csrs, call, saved>>

DeleteFunc(c) ==
  /\ Goto(c, "deleteFunc", Home(c))
  /\ func' = [func EXCEPT ![call[c].timer] = FALSE]
  /\ ticks' = [ticks EXCEPT ![call[c].timer] = 0]
  /\ call' = [call EXCEPT ![c] = NoCall(c)]
  /\ UNCHANGED <<entry, type, handler, csrs, saved>>

(* osTimerSetFunc: only for the timer of the caller, which it stops.  The  *)
(* new function is not checked.                                            *)
osTimerSetFunc(c) ==
  /\ entry[c]
  /\ Goto(c, Home(c), "setFunc")
  /\ set_compare(c, 0)
  /\ UNCHANGED <<block, call, saved>>

SetFunc(c, f) ==
  /\ Goto(c, "setFunc", Home(c))
  /\ func' = [func EXCEPT ![c] = f]
  /\ ticks' = [ticks EXCEPT ![c] = 0]
  /\ UNCHANGED <<entry, type, handler, csrs, call, saved>>

(* delay_until after set_compare: the comparator is that of the timer.     *)
(* A handler does not delay.                                               *)
DelayFor(t, n) ==
  /\ Goto(t, "idle", "delaying")
  /\ left' = [left EXCEPT ![t] = n]
  /\ mode' = [mode EXCEPT ![t] = "du"]
  /\ UNCHANGED <<block, pending, ie, missed, call, saved>>

(* osDelay: the test for a running timer is commented out. *)
osDelay(t, n) == DelayFor(t, n)

(* osDelayUntil returns osError while the timer of the thread runs.  A time *)
(* that has passed is no delay.                                             *)
osDelayUntil(t, n) ==
  /\ ~ osTimerIsRunning(t)
  /\ DelayFor(t, n)

DelayOver(t) ==
  /\ left[t] = 0
  /\ Goto(t, "delaying", "idle")
  /\ mode' = [mode EXCEPT ![t] = "off"]
  /\ UNCHANGED <<block, left, pending, ie, missed, call, saved>>

-----------------------------------------------------------------------------
(***************************************************************************)
(* Who calls what.  The code refuses none of these calls: the contract is  *)
(* that of the program, which starts a timer only when it does not run and *)
(* not in a callback, calls for its own timer, passes a function, and does *)
(* not delay while its timer runs.  Uses names the parts it leaves.        *)
(***************************************************************************)

StartAllowed(c, t) ==
  /\ "restart" \in Uses \/ ticks[t] = 0
  /\ "callbackStart" \in Uses \/ ~ InHandler(c)
Targets(c)         == IF "remote" \in Uses THEN Threads ELSE {c}
Functions          == IF "nullFunc" \in Uses THEN BOOLEAN ELSE {TRUE}
DelayAllowed(t)    == "delay" \in Uses \/ ~ osTimerIsRunning(t)

(* What a thread does without its program: it finishes calls and handlers. *)
Step(t) ==
  \/ Capture(t) \/ Trap(t) \/ trap_ret(t) \/ TrapJump(t)
  \/ CallFunc(t) \/ CallbackReturns(t) \/ OnceDone(t) \/ Rearm(t) \/ RearmArm(t)
  \/ StartTicks(t) \/ StartCompare(t) \/ StartArm(t)
  \/ StopCompare(t) \/ StopHandler(t)
  \/ DeleteCompare(t) \/ DeleteEntry(t) \/ DeleteFunc(t)
  \/ \E f \in Functions : SetFunc(t, f)
  \/ DelayOver(t)

Program(t) ==
  \/ \E kind \in {"once", "periodic"} : osTimerNew(t, kind)
  \/ \E u \in Targets(t), n \in Ticks : StartAllowed(t, u) /\ osTimerStart(t, u, n)
  \/ \E u \in Targets(t) : osTimerStop(t, u) \/ osTimerDelete(t, u)
  \/ osTimerSetFunc(t)
  \/ DelayAllowed(t) /\ \E n \in Ticks : osDelay(t, n)
  \/ \E n \in Ticks \cup {0} : osDelayUntil(t, n)

Next == Tick \/ \E t \in Threads : Step(t) \/ Program(t) \/ enable_interrupts(t)

Spec == Init /\ [][Next]_vars

(* Every thread has a slot and the clock runs; a program that is idle may  *)
(* stay so, and callbacks return.                                          *)
FairSpec == Spec /\ WF_vars(Tick) /\ \A t \in Threads : WF_vars(Step(t))

-----------------------------------------------------------------------------
(***************************************************************************)
(* Properties                                                              *)
(***************************************************************************)

(* flexpret_timing.c:102 has "A timer is running <=> timer->ticks != 0".   *)
(* When a thread is in no call and no handler, its comparator is armed for *)
(* its timer exactly if that holds, or else the comparison expired while   *)
(* interrupts were disabled: osTimerIsRunning, osTimerStop and             *)
(* osTimerDelete decide by ticks alone.  No interrupt that will be taken   *)
(* outlives a stop.                                                        *)
RunningIsArmed ==
  \A t \in Threads : pc[t] = "idle" =>
    /\ osTimerIsRunning(t) => mode[t] = "ie" \/ missed[t]
    /\ mode[t] = "ie" => osTimerIsRunning(t)
    /\ pending[t] /\ ie[t] => osTimerIsRunning(t)

(* A handler never calls the function of a timer that was deleted.  Stop   *)
(* and Delete disarm in several steps, the vector keeps the handler, and a *)
(* callback may delete the timer that calls it.                            *)
NoNullCallback == \A t \in Threads : pc[t] = "call" => func[t]

(* A thread is deaf while its interrupts are disabled, except from its own *)
(* trap to the end of its callback.                                        *)
InCallback(t) == InHandler(t) /\ pc[t] \in {"callback"} \cup CallPcs
Deaf(t)       == ~ ie[t] /\ pc[t] # "call" /\ ~ InCallback(t)

(* The callback of a timer that runs is called, unless the timer stops or  *)
(* its interrupt came, or comes, while interrupts are disabled by the trap *)
(* of another thread: the trap of the timer itself is no excuse.           *)
StartedFires ==
  \A t \in Threads :
    (pc[t] = "idle" /\ osTimerIsRunning(t) /\ ~ missed[t])
      ~> (pc[t] = "callback" \/ ticks[t] = 0 \/ Deaf(t))

(* A handler always gets back to what it interrupted: epc_vector holds one *)
(* address, and interrupts are enabled one instruction before the jump.    *)
HandlersReturn ==
  \A t \in Threads : pc[t] \in HandlerPcs ~> pc[t] \notin HandlerPcs

(* The timers as a program sees them.  A handler ends its call before it   *)
(* drops the interrupt: what its callback has stopped expires at once.     *)
Interval(t) == IF pc[t] = "setFunc" THEN 0 ELSE ticks[t]

Alarm(t) ==
  IF \/ mode[t] = "ie" /\ (InHandler(t) => ticks[t] # 0)
     \/ pc[t] = "rearmArm" /\ ticks[t] # 0
     \/ pc[t] \in {"startArm", "call"}
  THEN "set"
  ELSE IF \/ pc[t] = "startCompare"
          \/ /\ InCallback(t) \/ pc[t] = "rearm"
             /\ saved[t].handler = "periodic" /\ Interval(t) # 0
       THEN "next" ELSE "off"

Wait(t) == IF Alarm(t) = "set" THEN left[t] ELSE 0

interval == [t \in Threads |-> Interval(t)]
alarm    == [t \in Threads |-> Alarm(t)]
wait     == [t \in Threads |-> Wait(t)]
calling  == {t \in Threads : InCallback(t)}
deaf     == {t \in Threads : Deaf(t)}

Abstract == INSTANCE AbstractTimers WITH known <- entry

(* A callback comes when the ticks of its timer are over and not before,   *)
(* once for each start or period, and never of a timer that has been       *)
(* stopped or deleted, although ticks, handler and comparator change one   *)
(* after the other and a stop in a callback is followed by the rearming.   *)
ImplementsTimers == Abstract!Spec
=============================================================================
