-------------------------- MODULE FlexTimer_proofs --------------------------
(***************************************************************************)
(* Proofs about FlexTimer for any set of threads and of ticks: within the  *)
(* contract of the README what a timer block says agrees with the          *)
(* comparator, and no handler calls a function that is not there.          *)
(***************************************************************************)
EXTENDS FlexTimer, TLAPS

-----------------------------------------------------------------------------
(***************************************************************************)
(* The inductive invariant, for one thread                                 *)
(***************************************************************************)

Starting == {"startTicks", "startCompare", "startArm"}
Stopping == {"stopCompare", "deleteCompare"}  \* ticks are 0, the comparison on

(* A handler runs with interrupts disabled up to its last jump; only that  *)
(* and a program that waits or is about to turn its comparison off are     *)
(* interrupted.                                                            *)
HandlerShape(t) ==
  /\ pc[t] \in HandlerPcs => InHandler(t)
  /\ pc[t] \in {"idle", "delaying"} \cup Starting => ~ InHandler(t)
  /\ call[t].timer = t
  /\ pending[t] => ~ ie[t]
  /\ InHandler(t) =>
       /\ pc[t] # "trapJump" => ~ ie[t]
       /\ saved[t].pc \in {"idle", "trapJump"} \cup Stopping
       /\ saved[t].pc \in Stopping => ticks[t] = 0
       /\ saved[t].handler # "default"
       /\ saved[t].call.timer = t

(* A timer that runs is complete; so is one whose comparison is on, except *)
(* at the end of a handler, where the comparison of a timer that its       *)
(* callback has stopped expires at once and the interrupt is dropped.      *)
TimerIsComplete(t) ==
  /\ ticks[t] # 0 => entry[t] /\ handler[t] = type[t]
  /\ entry[t] => func[t]
  /\ pc[t] = "call" => entry[t] /\ left[t] = 0
  /\ mode[t] = "ie" =>
       \/ entry[t] /\ handler[t] # "default"
       \/ pc[t] = "trapRet" /\ left[t] = 0

(* What a call has done so far. *)
CallShape(t) ==
  /\ pc[t] \in Starting => handler[t] # "default" /\ mode[t] # "ie"
  /\ pc[t] = "startTicks" => entry[t] /\ call[t].ticks \in Ticks /\ ticks[t] = 0
                             /\ handler[t] = type[t]
  /\ pc[t] = "startCompare" => call[t].ticks = ticks[t]
  /\ pc[t] \in {"startCompare", "startArm"} => ticks[t] # 0
  /\ pc[t] \in Stopping \cup {"stopHandler", "deleteEntry", "deleteFunc", "delaying"}
       => ticks[t] = 0
  /\ pc[t] \in {"stopHandler", "deleteEntry", "deleteFunc", "setFunc", "delaying"}
       => mode[t] # "ie"
  /\ pc[t] = "deleteFunc" => ~ entry[t]

(* What a handler has done so far. *)
RearmShape(t) ==
  /\ InHandler(t) /\ ticks[t] # 0 => saved[t].handler = type[t]
  /\ pc[t] = "onceDone" => saved[t].handler = "once"
  /\ pc[t] \in {"rearm", "rearmArm"} => saved[t].handler = "periodic"
  /\ InHandler(t) /\ pc[t] \notin {"trapRet", "trapJump"} => mode[t] # "ie"
  /\ pc[t] = "rearmArm" => (ticks[t] = 0 => left[t] = 0)
  /\ pc[t] = "trapRet" => /\ ticks[t] # 0 => mode[t] = "ie" \/ missed[t]
                          /\ mode[t] = "ie" /\ ticks[t] = 0 => left[t] = 0
  /\ pc[t] = "trapJump" => /\ mode[t] = "ie" => ticks[t] # 0
                           /\ ticks[t] # 0 => mode[t] = "ie" \/ missed[t]

(* The agreement of the block with the comparator. *)
IdleShape(t) ==
  pc[t] = "idle" => /\ mode[t] = "ie" => ticks[t] # 0
                    /\ ticks[t] # 0 => mode[t] = "ie" \/ missed[t]

Shape(t) ==
  /\ HandlerShape(t)
  /\ TimerIsComplete(t)
  /\ CallShape(t)
  /\ RearmShape(t)
  /\ IdleShape(t)

IInv == TypeOK /\ \A t \in Threads : Shape(t)

-----------------------------------------------------------------------------
(***************************************************************************)
(* One step of a thread                                                    *)
(***************************************************************************)

(* What thread t may do, when every call is about its own timer. *)
Own(t) ==
  \/ Step(t)
  \/ \E kind \in {"once", "periodic"} : osTimerNew(t, kind)
  \/ \E n \in Ticks : StartAllowed(t, t) /\ osTimerStart(t, t, n)
  \/ osTimerStop(t, t) \/ osTimerDelete(t, t)
  \/ osTimerSetFunc(t)
  \/ DelayAllowed(t) /\ \E n \in Ticks : osDelay(t, n)
  \/ \E n \in Ticks \cup {0} : osDelayUntil(t, n)
  \/ enable_interrupts(t)

(* It leaves the timer of another thread alone. *)
Frame(u) ==
  /\ entry'[u] = entry[u] /\ ticks'[u] = ticks[u] /\ type'[u] = type[u]
  /\ func'[u] = func[u] /\ handler'[u] = handler[u]
  /\ mode'[u] = mode[u] /\ left'[u] = left[u] /\ pending'[u] = pending[u]
  /\ missed'[u] = missed[u]
  /\ pc'[u] = pc[u] /\ call'[u] = call[u] /\ saved'[u] = saved[u]

(* Only its trap disables their interrupts. *)
Spares(t, u) == IF Trap(t) THEN ~ ie'[u] ELSE ie'[u] = ie[u]

(* Ticks are numbers, also when there are none. *)
LEMMA TicksAreNumbers ==
  \A n \in Ticks \cup {0} : n \in Nat
  BY TimerAssumption

(* A step of a thread keeps the types. *)
LEMMA OwnKeepsTypes ==
  ASSUME IInv, NEW t \in Threads, Own(t)
  PROVE  TypeOK'
  <1> USE TimerAssumption DEF IInv, TypeOK, Shape, HandlerShape, block, csrs, Goto, Home,
        InHandler, NoCall, CallPcs, HandlerPcs, Calls, Handlers, Interrupted, Starting, Stopping,
        set_compare, interrupt_expire, osThreadSetTrapHandler, DelayFor
  <1>1. CASE Capture(t)
    BY <1>1 DEF Capture
  <1>2. CASE Trap(t)
    <2>1. pc[t] \in {"idle", "trapJump"} \cup CallPcs
      BY <1>2 DEF Trap, TrapDue
    <2>2. [pc |-> pc[t], call |-> call[t], handler |-> handler[t]] \in Interrupted
      BY <2>1
    <2>3. saved' \in [Threads -> Interrupted \cup {NotInHandler}]
      BY <1>2, <2>2 DEF Trap
    <2>4. QED
      BY <1>2, <2>3 DEF Trap
  <1>3. CASE trap_ret(t)
    BY <1>3 DEF trap_ret
  <1>4. CASE TrapJump(t)
    BY <1>4 DEF TrapJump
  <1>5. CASE CallFunc(t)
    BY <1>5 DEF CallFunc
  <1>6. CASE CallbackReturns(t)
    BY <1>6 DEF CallbackReturns
  <1>7. CASE OnceDone(t)
    BY <1>7 DEF OnceDone
  <1>8. CASE Rearm(t)
    <2>1. ticks[t] \in Ticks \cup {0}
      OBVIOUS
    <2>2. left' \in [Threads -> Nat]
      BY <1>8, <2>1, TicksAreNumbers DEF Rearm
    <2>3. QED
      BY <1>8, <2>2 DEF Rearm
  <1>9. CASE RearmArm(t)
    BY <1>9 DEF RearmArm
  <1>10. CASE StartTicks(t)
    BY <1>10 DEF StartTicks
  <1>11. CASE StartCompare(t)
    <2>1. call[t].ticks \in Ticks \cup {0} /\ NoCall(t) \in Calls
      OBVIOUS
    <2>2. left' \in [Threads -> Nat] /\ call' \in [Threads -> Calls]
      BY <1>11, <2>1, TicksAreNumbers DEF StartCompare
    <2>3. QED
      BY <1>11, <2>2 DEF StartCompare
  <1>12. CASE StartArm(t)
    BY <1>12 DEF StartArm
  <1>13. CASE StopCompare(t)
    BY <1>13 DEF StopCompare
  <1>14. CASE StopHandler(t)
    BY <1>14 DEF StopHandler
  <1>15. CASE DeleteCompare(t)
    BY <1>15 DEF DeleteCompare
  <1>16. CASE DeleteEntry(t)
    BY <1>16 DEF DeleteEntry
  <1>17. CASE DeleteFunc(t)
    BY <1>17 DEF DeleteFunc
  <1>18. ASSUME NEW f \in BOOLEAN, SetFunc(t,f)
        PROVE  TypeOK'
    BY <1>18 DEF SetFunc
  <1>19. CASE DelayOver(t)
    BY <1>19 DEF DelayOver
  <1>20. ASSUME NEW kind \in {"once", "periodic"}, osTimerNew(t, kind)
        PROVE  TypeOK'
    BY <1>20 DEF osTimerNew
  <1>21. ASSUME NEW n \in Ticks, osTimerStart(t, t, n)
        PROVE  TypeOK'
    BY <1>21 DEF osTimerStart
  <1>22. CASE osTimerStop(t, t)
    BY <1>22 DEF osTimerStop
  <1>23. CASE osTimerDelete(t, t)
    BY <1>23 DEF osTimerDelete
  <1>24. CASE osTimerSetFunc(t)
    BY <1>24 DEF osTimerSetFunc
  <1>25. ASSUME NEW n \in Ticks, osDelay(t, n)
        PROVE  TypeOK'
    BY <1>25 DEF osDelay
  <1>26. ASSUME NEW n \in Ticks \cup {0}, osDelayUntil(t, n)
        PROVE  TypeOK'
    BY <1>26 DEF osDelayUntil
  <1>27. CASE enable_interrupts(t)
    BY <1>27 DEF enable_interrupts
  <1> HIDE DEF IInv, TypeOK, Shape, HandlerShape, block, csrs, Goto, Home,
        InHandler, NoCall, CallPcs, HandlerPcs, Calls, Handlers, Interrupted, Starting, Stopping,
        set_compare, interrupt_expire, osThreadSetTrapHandler, DelayFor
  <1>28. QED
    BY <1>1, <1>2, <1>3, <1>4, <1>5, <1>6, <1>7, <1>8, <1>9, <1>10, <1>11,
       <1>12, <1>13, <1>14, <1>15, <1>16, <1>17, <1>18, <1>19, <1>20, <1>21, <1>22,
       <1>23, <1>24, <1>25, <1>26, <1>27
       DEF Own, Step, Functions

(* A step of a thread is seen by another one only in its interrupts. *)
LEMMA OwnLeavesOthers ==
  ASSUME IInv, NEW t \in Threads, NEW u \in Threads \ {t}, Own(t)
  PROVE  Frame(u) /\ Spares(t, u)
  <1>0. /\ call[t].timer = t /\ t # u
        /\ DOMAIN entry = Threads /\ DOMAIN ticks = Threads /\ DOMAIN type = Threads
        /\ DOMAIN func = Threads /\ DOMAIN handler = Threads /\ DOMAIN mode = Threads
        /\ DOMAIN left = Threads /\ DOMAIN pending = Threads /\ DOMAIN ie = Threads
        /\ DOMAIN missed = Threads
        /\ DOMAIN pc = Threads /\ DOMAIN call = Threads /\ DOMAIN saved = Threads
    BY DEF IInv, TypeOK, Shape, HandlerShape
  <1> USE <1>0 DEF Frame, Spares, block, csrs, Goto, Home,
        set_compare, interrupt_expire, osThreadSetTrapHandler, DelayFor
  <1>1. CASE Capture(t)
    BY <1>1 DEF Capture, Trap
  <1>2. CASE Trap(t)
    BY <1>2 DEF Trap
  <1>3. CASE trap_ret(t)
    BY <1>3 DEF trap_ret, Trap
  <1>4. CASE TrapJump(t)
    BY <1>4 DEF TrapJump, Trap
  <1>5. CASE CallFunc(t)
    BY <1>5 DEF CallFunc, Trap
  <1>6. CASE CallbackReturns(t)
    BY <1>6 DEF CallbackReturns, Trap
  <1>7. CASE OnceDone(t)
    BY <1>7 DEF OnceDone, Trap
  <1>8. CASE Rearm(t)
    BY <1>8 DEF Rearm, Trap
  <1>9. CASE RearmArm(t)
    BY <1>9 DEF RearmArm, Trap
  <1>10. CASE StartTicks(t)
    BY <1>10 DEF StartTicks, Trap
  <1>11. CASE StartCompare(t)
    BY <1>11 DEF StartCompare, Trap
  <1>12. CASE StartArm(t)
    BY <1>12 DEF StartArm, Trap
  <1>13. CASE StopCompare(t)
    BY <1>13 DEF StopCompare, Trap
  <1>14. CASE StopHandler(t)
    BY <1>14 DEF StopHandler, Trap
  <1>15. CASE DeleteCompare(t)
    BY <1>15 DEF DeleteCompare, Trap
  <1>16. CASE DeleteEntry(t)
    BY <1>16 DEF DeleteEntry, Trap
  <1>17. CASE DeleteFunc(t)
    BY <1>17 DEF DeleteFunc, Trap
  <1>18. ASSUME NEW f \in BOOLEAN, SetFunc(t,f)
        PROVE  Frame(u) /\ Spares(t, u)
    BY <1>18 DEF SetFunc, Trap
  <1>19. CASE DelayOver(t)
    BY <1>19 DEF DelayOver, Trap
  <1>20. ASSUME NEW kind \in {"once", "periodic"}, osTimerNew(t, kind)
        PROVE  Frame(u) /\ Spares(t, u)
    BY <1>20 DEF osTimerNew, Trap
  <1>21. ASSUME NEW n \in Ticks, osTimerStart(t, t, n)
        PROVE  Frame(u) /\ Spares(t, u)
    BY <1>21 DEF osTimerStart, Trap
  <1>22. CASE osTimerStop(t, t)
    BY <1>22 DEF osTimerStop, Trap
  <1>23. CASE osTimerDelete(t, t)
    BY <1>23 DEF osTimerDelete, Trap
  <1>24. CASE osTimerSetFunc(t)
    BY <1>24 DEF osTimerSetFunc, Trap
  <1>25. ASSUME NEW n \in Ticks, osDelay(t, n)
        PROVE  Frame(u) /\ Spares(t, u)
    BY <1>25 DEF osDelay, Trap
  <1>26. ASSUME NEW n \in Ticks \cup {0}, osDelayUntil(t, n)
        PROVE  Frame(u) /\ Spares(t, u)
    BY <1>26 DEF osDelayUntil, Trap
  <1>27. CASE enable_interrupts(t)
    BY <1>27 DEF enable_interrupts, Trap
  <1> HIDE <1>0 DEF Frame, Spares, block, csrs, Goto, Home,
        set_compare, interrupt_expire, osThreadSetTrapHandler, DelayFor
  <1>28. QED
    BY <1>1, <1>2, <1>3, <1>4, <1>5, <1>6, <1>7, <1>8, <1>9, <1>10, <1>11,
       <1>12, <1>13, <1>14, <1>15, <1>16, <1>17, <1>18, <1>19, <1>20, <1>21, <1>22,
       <1>23, <1>24, <1>25, <1>26, <1>27
       DEF Own, Step, Functions

(* A step of a thread keeps its timer and its comparator in agreement. *)
LEMMA OwnKeepsShape ==
  ASSUME IInv, TypeOK', NEW t \in Threads, Own(t), Uses = {}
  PROVE  Shape(t)'
  <1> USE TimerAssumption DEF IInv, TypeOK, Shape, HandlerShape, TimerIsComplete, CallShape,
        RearmShape, IdleShape, block, csrs, Goto, Home, InHandler, NotInHandler, NoCall,
        CallPcs, HandlerPcs, Calls, Handlers, Interrupted, Starting, Stopping, Expired,
        TrapDue, CaptureDue, StartAllowed, DelayAllowed, osTimerIsRunning,
        set_compare, interrupt_expire, osThreadSetTrapHandler, DelayFor
  <1>1. CASE Capture(t)
    BY <1>1 DEF Capture
  <1>2. CASE Trap(t)
    BY <1>2 DEF Trap
  <1>3. CASE trap_ret(t)
    BY <1>3 DEF trap_ret
  <1>4. CASE TrapJump(t)
    <2>1. /\ pc[t] = "trapJump" /\ InHandler(t) /\ pc'[t] = saved[t].pc
          /\ call'[t] = saved[t].call
          /\ saved'[t] = IF saved[t].pc = "trapJump" THEN saved[t] ELSE NotInHandler
          /\ UNCHANGED <<block, csrs>> /\ ~ TrapDue(t) /\ ~ CaptureDue(t)
      BY <1>4 DEF TrapJump
    <2>2. CASE saved[t].pc = "trapJump"
      BY <2>1, <2>2
    <2>3. CASE saved[t].pc # "trapJump"
      <3>1. /\ saved[t].pc \in {"idle"} \cup Stopping /\ saved[t].call.timer = t
            /\ saved[t].pc \in Stopping => ticks[t] = 0
            /\ saved'[t] = NotInHandler
        BY ONLY <2>1, <2>3, IInv, t \in Threads DEF IInv, Shape, HandlerShape
      <3>2. HandlerShape(t)'
        BY <2>1, <3>1
      <3>3. TimerIsComplete(t)' /\ CallShape(t)'
        BY <2>1, <3>1
      <3>4. RearmShape(t)' /\ IdleShape(t)'
        BY <2>1, <3>1
      <3>5. QED
        BY ONLY <3>2, <3>3, <3>4 DEF Shape
    <2>4. QED
      BY <2>2, <2>3
  <1>5. CASE CallFunc(t)
    BY <1>5 DEF CallFunc
  <1>6. CASE CallbackReturns(t)
    <2>1. /\ pc[t] = "callback" /\ InHandler(t) /\ ~ TrapDue(t) /\ ~ CaptureDue(t)
          /\ pc'[t] = IF saved[t].handler = "once" THEN "onceDone" ELSE "rearm"
          /\ UNCHANGED <<block, csrs, call, saved>>
      BY <1>6 DEF CallbackReturns
    <2>2. saved[t] \in Interrupted /\ saved[t].handler # "default"
      BY ONLY <2>1, IInv, t \in Threads DEF IInv, TypeOK, Shape, HandlerShape, InHandler
    <2>3. saved[t].handler \in {"once", "periodic"}
      BY ONLY <2>2 DEF Interrupted, Handlers
    <2>4. QED
      BY <2>1, <2>3
  <1>7. CASE OnceDone(t)
    BY <1>7 DEF OnceDone
  <1>8. CASE Rearm(t)
    BY <1>8 DEF Rearm
  <1>9. CASE RearmArm(t)
    BY <1>9 DEF RearmArm
  <1>10. CASE StartTicks(t)
    BY <1>10 DEF StartTicks
  <1>11. CASE StartCompare(t)
    BY <1>11 DEF StartCompare
  <1>12. CASE StartArm(t)
    BY <1>12 DEF StartArm
  <1>13. CASE StopCompare(t)
    BY <1>13 DEF StopCompare
  <1>14. CASE StopHandler(t)
    BY <1>14 DEF StopHandler
  <1>15. CASE DeleteCompare(t)
    BY <1>15 DEF DeleteCompare
  <1>16. CASE DeleteEntry(t)
    BY <1>16 DEF DeleteEntry
  <1>17. CASE DeleteFunc(t)
    BY <1>17 DEF DeleteFunc
  <1>18. ASSUME NEW f \in Functions, SetFunc(t,f)
        PROVE  Shape(t)'
    BY <1>18 DEF SetFunc, Functions
  <1>19. CASE DelayOver(t)
    BY <1>19 DEF DelayOver
  <1>20. ASSUME NEW kind \in {"once", "periodic"}, osTimerNew(t, kind)
        PROVE  Shape(t)'
    BY <1>20 DEF osTimerNew
  <1>21. ASSUME NEW n \in Ticks, StartAllowed(t, t), osTimerStart(t, t, n)
        PROVE  Shape(t)'
    <2>1. /\ ~ InHandler(t) /\ ticks[t] = 0 /\ entry[t] /\ mode[t] # "ie" /\ pc'[t] = "startTicks"
          /\ call'[t] = [timer |-> t, ticks |-> n] /\ handler'[t] = type[t]
          /\ UNCHANGED <<entry, ticks, type, func, csrs, saved>>
      BY <1>21 DEF osTimerStart
    <2>2. call'[t].timer = t /\ call'[t].ticks = n
      BY ONLY <2>1
    <2>3. type[t] # "default"
      BY ONLY IInv, t \in Threads DEF IInv, TypeOK
    <2>4. QED
      BY <1>21, <2>1, <2>2, <2>3
  <1>22. CASE osTimerStop(t, t)
    BY <1>22 DEF osTimerStop
  <1>23. CASE osTimerDelete(t, t)
    BY <1>23 DEF osTimerDelete
  <1>24. CASE osTimerSetFunc(t)
    BY <1>24 DEF osTimerSetFunc
  <1>25. ASSUME NEW n \in Ticks, DelayAllowed(t), osDelay(t, n)
        PROVE  Shape(t)'
    BY <1>25 DEF osDelay
  <1>26. ASSUME NEW n \in Ticks \cup {0}, osDelayUntil(t, n)
        PROVE  Shape(t)'
    BY <1>26 DEF osDelayUntil
  <1>27. CASE enable_interrupts(t)
    BY <1>27 DEF enable_interrupts
  <1> HIDE DEF IInv, TypeOK, Shape, HandlerShape, TimerIsComplete, CallShape,
        RearmShape, IdleShape, block, csrs, Goto, Home, InHandler, NotInHandler, NoCall,
        CallPcs, HandlerPcs, Calls, Handlers, Interrupted, Starting, Stopping, Expired,
        TrapDue, CaptureDue, StartAllowed, DelayAllowed, osTimerIsRunning,
        set_compare, interrupt_expire, osThreadSetTrapHandler, DelayFor
  <1>28. QED
    BY <1>1, <1>2, <1>3, <1>4, <1>5, <1>6, <1>7, <1>8, <1>9, <1>10, <1>11,
       <1>12, <1>13, <1>14, <1>15, <1>16, <1>17, <1>18, <1>19, <1>20, <1>21, <1>22,
       <1>23, <1>24, <1>25, <1>26, <1>27
       DEF Own, Step

(* Time passes. *)
LEMMA TickKeeps ==
  ASSUME IInv, Tick
  PROVE  IInv'
  <1>1. TypeOK'
    BY DEF IInv, TypeOK, Tick, block
  <1>2. ASSUME NEW t \in Threads
        PROVE  Shape(t)'
    BY <1>1, <1>2 DEF IInv, TypeOK, Tick, Shape, HandlerShape, TimerIsComplete, CallShape, RearmShape,
       IdleShape, InHandler, Starting, Stopping, HandlerPcs, block
  <1>3. QED
    BY <1>1, <1>2 DEF IInv

-----------------------------------------------------------------------------
(***************************************************************************)
(* Theorems                                                                *)
(***************************************************************************)

(* IInv holds as long as callers keep the contract. *)
THEOREM Invariance ==
  ASSUME Uses = {}
  PROVE  Spec => []IInv
  <1>1. Init => IInv
    BY TimerAssumption DEF Init, IInv, TypeOK, Shape, HandlerShape, TimerIsComplete, CallShape,
       RearmShape, IdleShape, InHandler, NotInHandler, Calls, Handlers, HandlerPcs, CallPcs,
       Starting, Stopping
  <1>2. IInv /\ [Next]_vars => IInv'
    <2> SUFFICES ASSUME IInv, [Next]_vars PROVE IInv'
      OBVIOUS
    <2>1. CASE Tick
      BY <2>1, TickKeeps
    <2>2. ASSUME NEW t \in Threads, Own(t)
          PROVE  IInv'
      <3>1. TypeOK'
        BY <2>2, OwnKeepsTypes
      <3>2. Shape(t)'
        BY <2>2, <3>1, OwnKeepsShape
      <3>3. ASSUME NEW u \in Threads \ {t}
            PROVE  Shape(u)'
        <4>1. Frame(u) /\ (ie'[u] => ie[u])
          BY <2>2, OwnLeavesOthers DEF Spares
        <4>2. QED
          BY <4>1 DEF IInv, Frame, Shape, HandlerShape, TimerIsComplete, CallShape, RearmShape,
             IdleShape, InHandler
      <3>4. QED
        BY <3>1, <3>2, <3>3 DEF IInv
    <2>3. CASE UNCHANGED vars
      BY <2>3 DEF IInv, TypeOK, Shape, HandlerShape, TimerIsComplete, CallShape, RearmShape,
         IdleShape, InHandler, vars, block, csrs
    <2>4. ASSUME NEW t \in Threads, Step(t) \/ Program(t) \/ enable_interrupts(t)
          PROVE  Own(t)
      BY <2>4 DEF Own, Program, Targets
    <2>5. QED
      BY <2>1, <2>2, <2>3, <2>4 DEF Next
  <1>3. QED
    BY <1>1, <1>2, PTL DEF Spec

(* The types are kept. *)
THEOREM TypeCorrectness ==
  ASSUME Uses = {}
  PROVE  Spec => []TypeOK
  <1>1. IInv => TypeOK
    BY DEF IInv
  <1>2. QED
    BY Invariance, <1>1, PTL

(* ticks # 0 of a timer, by which osTimerIsRunning, osTimerStop and        *)
(* osTimerDelete decide, means that its comparator is armed.               *)
THEOREM Agreement ==
  ASSUME Uses = {}
  PROVE  Spec => []RunningIsArmed
  <1>1. IInv => RunningIsArmed
    BY DEF IInv, Shape, HandlerShape, TimerIsComplete, IdleShape, RunningIsArmed, osTimerIsRunning
  <1>2. QED
    BY Invariance, <1>1, PTL

(* timer_handler and timer_periodic_handler call no function that          *)
(* osTimerDelete has taken away.                                           *)
THEOREM CallbackExists ==
  ASSUME Uses = {}
  PROVE  Spec => []NoNullCallback
  <1>1. IInv => NoNullCallback
    BY DEF IInv, Shape, TimerIsComplete, NoNullCallback
  <1>2. QED
    BY Invariance, <1>1, PTL

-----------------------------------------------------------------------------
(***************************************************************************)
(* The implementation of AbstractTimers                                    *)
(***************************************************************************)

View == <<entry, type, interval, alarm, wait, calling, deaf>>

(* A thread that is not deaf although its interrupts are disabled. *)
Sheltered(t) == pc[t] = "call" \/ InCallback(t)

(* How the timer of t looks after a step of t that is not its trap. *)
Looks(t, i, a, w, c) ==
  /\ ~ TrapDue(t) /\ (Deaf(t)' <=> Deaf(t))
  /\ Interval(t)' = i /\ Alarm(t)' = a /\ Wait(t)' = w /\ (InCallback(t)' <=> c)

(* As before. *)
Same(t) == Looks(t, Interval(t), Alarm(t), Wait(t), InCallback(t))

(* The timers of the others look as before. *)
LEMMA OthersLookSame ==
  ASSUME IInv, NEW t \in Threads, NEW u \in Threads \ {t}, Own(t)
  PROVE  /\ Interval(u)' = Interval(u) /\ Alarm(u)' = Alarm(u) /\ Wait(u)' = Wait(u)
         /\ InCallback(u)' <=> InCallback(u)
         /\ Sheltered(u)' <=> Sheltered(u)
  BY OwnLeavesOthers DEF Frame, Interval, Alarm, Wait, InCallback, Sheltered, InHandler

(* So a step changes what a program sees of one timer. *)
LEMMA OneLooks ==
  ASSUME IInv, NEW t \in Threads, Own(t)
  PROVE  /\ interval' = [interval EXCEPT ![t] = Interval(t)']
         /\ alarm' = [alarm EXCEPT ![t] = Alarm(t)']
         /\ wait' = [wait EXCEPT ![t] = Wait(t)']
         /\ calling' = IF InCallback(t)' THEN calling \cup {t} ELSE calling \ {t}
  BY OthersLookSame DEF interval, alarm, wait, calling

(* Nobody becomes deaf or hears again. *)
LEMMA NobodyIsDeafened ==
  ASSUME IInv, NEW t \in Threads, Own(t), ~ TrapDue(t), Deaf(t)' <=> Deaf(t)
  PROVE  deaf' = deaf
  <1>1. ASSUME NEW u \in Threads \ {t}
        PROVE  Deaf(u)' <=> Deaf(u)
    BY <1>1, OwnLeavesOthers, OthersLookSame DEF Spares, Trap, Deaf, Sheltered
  <1>2. QED
    BY <1>1 DEF deaf

(* What the step has changed then, as AbstractTimers says it. *)
Seen(t, i, a, w, c) ==
  /\ interval' = [interval EXCEPT ![t] = i]
  /\ alarm' = [alarm EXCEPT ![t] = a]
  /\ wait' = [wait EXCEPT ![t] = w]
  /\ calling' = IF c THEN calling \cup {t} ELSE calling \ {t}
  /\ deaf' = deaf

(* What a step does that is no trap. *)
LEMMA LooksAbstract ==
  ASSUME IInv, NEW t \in Threads, Own(t), NEW i, NEW a, NEW w, NEW c \in BOOLEAN,
         Looks(t, i, a, w, c)
  PROVE  Seen(t, i, a, w, c)
  <1>1. deaf' = deaf
    BY NobodyIsDeafened DEF Looks
  <1>2. QED
    BY <1>1, OneLooks DEF Looks, Seen

(* A step after which the timer looks as before. *)
LEMMA NothingIsSeen ==
  ASSUME IInv, NEW t \in Threads, Own(t), Interval(t)' = Interval(t), Alarm(t)' = Alarm(t),
         Wait(t)' = Wait(t), InCallback(t)' <=> InCallback(t)
  PROVE  UNCHANGED <<interval, alarm, wait, calling>>
  <1>1. ASSUME NEW u \in Threads
        PROVE  /\ Interval(u)' = Interval(u) /\ Alarm(u)' = Alarm(u) /\ Wait(u)' = Wait(u)
               /\ InCallback(u)' <=> InCallback(u)
    BY OthersLookSame
  <1>2. QED
    BY <1>1 DEF interval, alarm, wait, calling

(* And after which nobody is deafened. *)
LEMMA Unseen ==
  ASSUME IInv, NEW t \in Threads, Own(t), Same(t)
  PROVE  UNCHANGED <<interval, alarm, wait, calling, deaf>>
  BY NothingIsSeen, NobodyIsDeafened DEF Same, Looks

(* What a step of t does to its timer that changes nobody's hearing, in    *)
(* the order of the actions of AbstractTimers.                             *)
Moves(t) ==
  \/ UNCHANGED <<entry, type>> /\ Same(t)
  \/ /\ ~ entry[t] /\ Same(t)
     /\ entry' = [entry EXCEPT ![t] = TRUE]
     /\ \E kind \in {"once", "periodic"} : type' = [type EXCEPT ![t] = kind]
  \/ /\ Interval(t) = 0 /\ Alarm(t) = "off" /\ Same(t)
     /\ entry' = [entry EXCEPT ![t] = FALSE] /\ type' = type
  \/ /\ UNCHANGED <<entry, type>>
     /\ \/ /\ entry[t] /\ Interval(t) = 0 /\ Alarm(t) = "off" /\ ~ InCallback(t)
           /\ \E n \in Ticks : Looks(t, n, "next", Wait(t), FALSE)
        \/ /\ Alarm(t) = "next" /\ ~ InCallback(t)
           /\ Looks(t, Interval(t), "set", Interval(t), FALSE)
        \/ /\ Alarm(t) = "set" /\ Wait(t) = 0 /\ entry[t] /\ ~ Deaf(t) /\ ~ InCallback(t)
           /\ Looks(t, Interval(t),
                    IF type[t] = "periodic" /\ Interval(t) # 0 THEN "next" ELSE "off",
                    Wait(t), TRUE)
        \/ /\ type[t] = "once" /\ Alarm(t) = "off" /\ ~ InCallback(t)
           /\ Looks(t, 0, "off", Wait(t), FALSE)
        \/ /\ Interval(t) # 0
           /\ \/ Alarm(t) = "set" /\ Looks(t, 0, "set", Wait(t), InCallback(t))
              \/ Looks(t, 0, "off", 0, InCallback(t))
        \/ Interval(t) = 0 /\ Looks(t, 0, "off", 0, InCallback(t))
        \/ /\ Deaf(t) /\ Alarm(t) = "set" /\ Wait(t) = 0
           /\ Looks(t, Interval(t), "off", 0, InCallback(t))

(* Every step is one of these. *)
LEMMA OwnMoves ==
  ASSUME IInv, NEW t \in Threads, Own(t), Uses = {}, ~ Trap(t), ~ CallbackReturns(t),
         ~ trap_ret(t), ~ enable_interrupts(t)
  PROVE  Moves(t)
  <1>0. /\ Shape(t) /\ ticks[t] \in Ticks \cup {0} /\ Ticks \subseteq Nat \ {0}
        /\ type[t] \in {"once", "periodic"} /\ left[t] \in Nat
        /\ entry[t] \in BOOLEAN /\ pending[t] \in BOOLEAN /\ ie[t] \in BOOLEAN
        /\ DOMAIN entry = Threads /\ DOMAIN ticks = Threads /\ DOMAIN type = Threads
        /\ DOMAIN func = Threads /\ DOMAIN handler = Threads /\ DOMAIN mode = Threads
        /\ DOMAIN left = Threads /\ DOMAIN pending = Threads /\ DOMAIN ie = Threads
        /\ DOMAIN missed = Threads
        /\ DOMAIN pc = Threads /\ DOMAIN call = Threads /\ DOMAIN saved = Threads
    BY TimerAssumption DEF IInv, TypeOK
  <1> USE <1>0 DEF Shape, HandlerShape, TimerIsComplete, CallShape, RearmShape, IdleShape, block,
        csrs, Goto, Home, InHandler, NotInHandler, NoCall, CallPcs, HandlerPcs, Starting, Stopping,
        Expired, TrapDue, CaptureDue, StartAllowed, DelayAllowed, osTimerIsRunning, Interval,
        InCallback, Deaf, set_compare, interrupt_expire, osThreadSetTrapHandler, DelayFor
  <1>1. CASE Capture(t)
    <2>1. /\ UNCHANGED <<entry, type>>
          /\ ~ TrapDue(t) /\ (Deaf(t)' <=> Deaf(t))
          /\ Interval(t)' = Interval(t) /\ (InCallback(t)' <=> InCallback(t))
      BY <1>1 DEF Capture
    <2>2. \/ Alarm(t)' = Alarm(t) /\ (Alarm(t) = "set" => left'[t] = left[t])
          \/ /\ Deaf(t) /\ Alarm(t) = "set" /\ left[t] = 0
             /\ Alarm(t)' = "off"
      BY <1>1 DEF Capture, Alarm
    <2>3. QED
      BY <2>1, <2>2 DEF Moves, Same, Looks, Wait
  <1>3. CASE TrapJump(t)
    <2>1. /\ UNCHANGED <<entry, type>>
          /\ ~ TrapDue(t) /\ (Deaf(t)' <=> Deaf(t))
          /\ Interval(t)' = Interval(t) /\ (InCallback(t)' <=> InCallback(t))
      BY <1>3 DEF TrapJump
    <2>2. Alarm(t)' = Alarm(t) /\ (Alarm(t) = "set" => left'[t] = left[t])
      BY <1>3 DEF TrapJump, Alarm
    <2>3. QED
      BY <2>1, <2>2 DEF Moves, Same, Looks, Wait
  <1>4. CASE CallFunc(t)
    <2>1. /\ UNCHANGED <<entry, type>>
          /\ entry[t] /\ ~ Deaf(t) /\ ~ InCallback(t)
          /\ ~ TrapDue(t) /\ (Deaf(t)' <=> Deaf(t))
          /\ Interval(t)' = Interval(t) /\ InCallback(t)'
      BY <1>4 DEF CallFunc
    <2>2. /\ Alarm(t) = "set" /\ left[t] = 0
          /\ Alarm(t)' = IF type[t] = "periodic" /\ Interval(t) # 0 THEN "next" ELSE "off"
      BY <1>4 DEF CallFunc, Alarm
    <2>3. QED
      BY <2>1, <2>2 DEF Moves, Same, Looks, Wait
  <1>6. CASE OnceDone(t)
    <2>1. /\ UNCHANGED <<entry, type>>
          /\ Interval(t) = 0 \/ type[t] = "once"
          /\ ~ InCallback(t)
          /\ ~ TrapDue(t) /\ (Deaf(t)' <=> Deaf(t))
          /\ Interval(t)' = 0 /\ ~ InCallback(t)'
      BY <1>6 DEF OnceDone
    <2>2. /\ Alarm(t) = "off"
          /\ Alarm(t)' = Alarm(t) /\ (Alarm(t) = "set" => left'[t] = left[t])
      BY <1>6 DEF OnceDone, Alarm
    <2>3. QED
      BY <2>1, <2>2 DEF Moves, Same, Looks, Wait
  <1>7. CASE Rearm(t)
    <2>1. /\ UNCHANGED <<entry, type>>
          /\ ~ InCallback(t)
          /\ ~ TrapDue(t) /\ (Deaf(t)' <=> Deaf(t))
          /\ Interval(t)' = Interval(t) /\ ~ InCallback(t)'
      BY <1>7 DEF Rearm
    <2>2. \/ Alarm(t)' = Alarm(t) /\ (Alarm(t) = "set" => left'[t] = left[t])
          \/ Alarm(t) = "next" /\ Alarm(t)' = "set" /\ left'[t] = Interval(t)
      BY <1>7 DEF Rearm, Alarm
    <2>3. QED
      BY <2>1, <2>2 DEF Moves, Same, Looks, Wait
  <1>8. CASE RearmArm(t)
    <2>1. /\ UNCHANGED <<entry, type>>
          /\ ~ TrapDue(t) /\ (Deaf(t)' <=> Deaf(t))
          /\ Interval(t)' = Interval(t) /\ (InCallback(t)' <=> InCallback(t))
      BY <1>8 DEF RearmArm
    <2>2. Alarm(t)' = Alarm(t) /\ (Alarm(t) = "set" => left'[t] = left[t])
      BY <1>8 DEF RearmArm, Alarm
    <2>3. QED
      BY <2>1, <2>2 DEF Moves, Same, Looks, Wait
  <1>9. CASE StartTicks(t)
    <2>1. /\ UNCHANGED <<entry, type>>
          /\ entry[t] /\ Interval(t) = 0 /\ call[t].ticks \in Ticks /\ ~ InCallback(t)
          /\ ~ TrapDue(t) /\ (Deaf(t)' <=> Deaf(t))
          /\ Interval(t)' = call[t].ticks /\ ~ InCallback(t)'
      BY <1>9 DEF StartTicks
    <2>2. Alarm(t) = "off" /\ Alarm(t)' = "next"
      BY <1>9 DEF StartTicks, Alarm
    <2>3. QED
      BY <2>1, <2>2 DEF Moves, Same, Looks, Wait
  <1>10. CASE StartCompare(t)
    <2>1. /\ UNCHANGED <<entry, type>>
          /\ ~ InCallback(t)
          /\ ~ TrapDue(t) /\ (Deaf(t)' <=> Deaf(t))
          /\ Interval(t)' = Interval(t) /\ ~ InCallback(t)'
      BY <1>10 DEF StartCompare
    <2>2. Alarm(t) = "next" /\ Alarm(t)' = "set" /\ left'[t] = Interval(t)
      BY <1>10 DEF StartCompare, Alarm
    <2>3. QED
      BY <2>1, <2>2 DEF Moves, Same, Looks, Wait
  <1>11. CASE StartArm(t)
    <2>1. /\ UNCHANGED <<entry, type>>
          /\ ~ TrapDue(t) /\ (Deaf(t)' <=> Deaf(t))
          /\ Interval(t)' = Interval(t) /\ (InCallback(t)' <=> InCallback(t))
      BY <1>11 DEF StartArm
    <2>2. Alarm(t)' = Alarm(t) /\ (Alarm(t) = "set" => left'[t] = left[t])
      BY <1>11 DEF StartArm, Alarm
    <2>3. QED
      BY <2>1, <2>2 DEF Moves, Same, Looks, Wait
  <1>12. CASE StopCompare(t)
    <2>1. /\ UNCHANGED <<entry, type>>
          /\ Interval(t) = 0
          /\ ~ TrapDue(t) /\ (Deaf(t)' <=> Deaf(t))
          /\ Interval(t)' = Interval(t) /\ (InCallback(t)' <=> InCallback(t))
      BY <1>12 DEF StopCompare
    <2>2. Alarm(t)' = "off"
      BY <1>12 DEF StopCompare, Alarm
    <2>3. QED
      BY <2>1, <2>2 DEF Moves, Same, Looks, Wait
  <1>13. CASE StopHandler(t)
    <2>1. /\ UNCHANGED <<entry, type>>
          /\ ~ TrapDue(t) /\ (Deaf(t)' <=> Deaf(t))
          /\ Interval(t)' = Interval(t) /\ (InCallback(t)' <=> InCallback(t))
      BY <1>13 DEF StopHandler
    <2>2. Alarm(t)' = Alarm(t) /\ (Alarm(t) = "set" => left'[t] = left[t])
      BY <1>13 DEF StopHandler, Alarm
    <2>3. QED
      BY <2>1, <2>2 DEF Moves, Same, Looks, Wait
  <1>14. CASE DeleteCompare(t)
    <2>1. /\ UNCHANGED <<entry, type>>
          /\ Interval(t) = 0
          /\ ~ TrapDue(t) /\ (Deaf(t)' <=> Deaf(t))
          /\ Interval(t)' = Interval(t) /\ (InCallback(t)' <=> InCallback(t))
      BY <1>14 DEF DeleteCompare
    <2>2. Alarm(t)' = "off"
      BY <1>14 DEF DeleteCompare, Alarm
    <2>3. QED
      BY <2>1, <2>2 DEF Moves, Same, Looks, Wait
  <1>15. CASE DeleteEntry(t)
    <2>1. /\ entry' = [entry EXCEPT ![t] = FALSE] /\ type' = type
          /\ Interval(t) = 0
          /\ ~ TrapDue(t) /\ (Deaf(t)' <=> Deaf(t))
          /\ Interval(t)' = Interval(t) /\ (InCallback(t)' <=> InCallback(t))
      BY <1>15 DEF DeleteEntry
    <2>2. /\ Alarm(t) = "off"
          /\ Alarm(t)' = Alarm(t) /\ (Alarm(t) = "set" => left'[t] = left[t])
      BY <1>15 DEF DeleteEntry, Alarm
    <2>3. QED
      BY <2>1, <2>2 DEF Moves, Same, Looks, Wait
  <1>16. CASE DeleteFunc(t)
    <2>1. /\ UNCHANGED <<entry, type>>
          /\ ~ TrapDue(t) /\ (Deaf(t)' <=> Deaf(t))
          /\ Interval(t)' = Interval(t) /\ (InCallback(t)' <=> InCallback(t))
      BY <1>16 DEF DeleteFunc
    <2>2. Alarm(t)' = Alarm(t) /\ (Alarm(t) = "set" => left'[t] = left[t])
      BY <1>16 DEF DeleteFunc, Alarm
    <2>3. QED
      BY <2>1, <2>2 DEF Moves, Same, Looks, Wait
  <1>17. ASSUME NEW f \in BOOLEAN, SetFunc(t, f)
        PROVE  Moves(t)
    <2>1. /\ UNCHANGED <<entry, type>>
          /\ ~ TrapDue(t) /\ (Deaf(t)' <=> Deaf(t))
          /\ Interval(t)' = Interval(t) /\ (InCallback(t)' <=> InCallback(t))
      BY <1>17 DEF SetFunc
    <2>2. Alarm(t)' = Alarm(t) /\ (Alarm(t) = "set" => left'[t] = left[t])
      BY <1>17 DEF SetFunc, Alarm
    <2>3. QED
      BY <2>1, <2>2 DEF Moves, Same, Looks, Wait
  <1>18. CASE DelayOver(t)
    <2>1. /\ UNCHANGED <<entry, type>>
          /\ ~ TrapDue(t) /\ (Deaf(t)' <=> Deaf(t))
          /\ Interval(t)' = Interval(t) /\ (InCallback(t)' <=> InCallback(t))
      BY <1>18 DEF DelayOver
    <2>2. Alarm(t)' = Alarm(t) /\ (Alarm(t) = "set" => left'[t] = left[t])
      BY <1>18 DEF DelayOver, Alarm
    <2>3. QED
      BY <2>1, <2>2 DEF Moves, Same, Looks, Wait
  <1>19. ASSUME NEW kind \in {"once", "periodic"}, osTimerNew(t, kind)
        PROVE  Moves(t)
    <2>1. /\ ~ entry[t]
          /\ entry' = [entry EXCEPT ![t] = TRUE]
          /\ type' = [type EXCEPT ![t] = kind]
          /\ ~ TrapDue(t) /\ (Deaf(t)' <=> Deaf(t))
          /\ Interval(t)' = Interval(t) /\ (InCallback(t)' <=> InCallback(t))
      BY <1>19 DEF osTimerNew
    <2>2. Alarm(t)' = Alarm(t) /\ (Alarm(t) = "set" => left'[t] = left[t])
      BY <1>19 DEF osTimerNew, Alarm
    <2>3. QED
      BY <1>19, <2>1, <2>2 DEF Moves, Same, Looks, Wait
  <1>20. ASSUME NEW n \in Ticks, StartAllowed(t, t), osTimerStart(t, t, n)
        PROVE  Moves(t)
    <2>1. /\ UNCHANGED <<entry, type>>
          /\ ~ TrapDue(t) /\ (Deaf(t)' <=> Deaf(t))
          /\ Interval(t)' = Interval(t) /\ (InCallback(t)' <=> InCallback(t))
      BY <1>20 DEF osTimerStart
    <2>2. Alarm(t)' = Alarm(t) /\ (Alarm(t) = "set" => left'[t] = left[t])
      BY <1>20 DEF osTimerStart, Alarm
    <2>3. QED
      BY <2>1, <2>2 DEF Moves, Same, Looks, Wait
  <1>21. CASE osTimerStop(t, t)
    <2>1. /\ UNCHANGED <<entry, type>>
          /\ Interval(t) # 0
          /\ ~ TrapDue(t) /\ (Deaf(t)' <=> Deaf(t))
          /\ Interval(t)' = 0 /\ (InCallback(t)' <=> InCallback(t))
      BY <1>21 DEF osTimerStop
    <2>2. \/ Alarm(t) = "set" /\ Alarm(t)' = Alarm(t) /\ (Alarm(t) = "set" => left'[t] = left[t])
          \/ Alarm(t)' = "off"
      BY <1>21 DEF osTimerStop, Alarm
    <2>3. QED
      BY <2>1, <2>2 DEF Moves, Same, Looks, Wait
  <1>22. CASE osTimerDelete(t, t)
    <2>1. /\ UNCHANGED <<entry, type>>
          /\ ~ TrapDue(t) /\ (Deaf(t)' <=> Deaf(t))
          /\ Interval(t)' = 0 /\ (InCallback(t)' <=> InCallback(t))
      BY <1>22 DEF osTimerDelete
    <2>2. /\ Interval(t) = 0 => (Alarm(t)' = Alarm(t) /\ (Alarm(t) = "set" => left'[t] = left[t]))
          /\ \/ Alarm(t) = "set" /\ Alarm(t)' = Alarm(t) /\ (Alarm(t) = "set" => left'[t] = left[t])
             \/ Alarm(t)' = "off"
      BY <1>22 DEF osTimerDelete, Alarm
    <2>3. QED
      BY <2>1, <2>2 DEF Moves, Same, Looks, Wait
  <1>23. CASE osTimerSetFunc(t)
    <2>1. /\ UNCHANGED <<entry, type>>
          /\ ~ TrapDue(t) /\ (Deaf(t)' <=> Deaf(t))
          /\ Interval(t)' = 0 /\ (InCallback(t)' <=> InCallback(t))
      BY <1>23 DEF osTimerSetFunc
    <2>2. Alarm(t)' = "off"
      BY <1>23 DEF osTimerSetFunc, Alarm
    <2>3. QED
      BY <2>1, <2>2 DEF Moves, Same, Looks, Wait
  <1>24. ASSUME NEW n \in Ticks, DelayAllowed(t), osDelay(t, n)
        PROVE  Moves(t)
    <2>1. /\ UNCHANGED <<entry, type>>
          /\ ~ TrapDue(t) /\ (Deaf(t)' <=> Deaf(t))
          /\ Interval(t)' = Interval(t) /\ (InCallback(t)' <=> InCallback(t))
      BY <1>24 DEF osDelay
    <2>2. Alarm(t)' = Alarm(t) /\ (Alarm(t) = "set" => left'[t] = left[t])
      BY <1>24 DEF osDelay, Alarm
    <2>3. QED
      BY <2>1, <2>2 DEF Moves, Same, Looks, Wait
  <1>25. ASSUME NEW n \in Ticks \cup {0}, osDelayUntil(t, n)
        PROVE  Moves(t)
    <2>1. /\ UNCHANGED <<entry, type>>
          /\ ~ TrapDue(t) /\ (Deaf(t)' <=> Deaf(t))
          /\ Interval(t)' = Interval(t) /\ (InCallback(t)' <=> InCallback(t))
      BY <1>25 DEF osDelayUntil
    <2>2. Alarm(t)' = Alarm(t) /\ (Alarm(t) = "set" => left'[t] = left[t])
      BY <1>25 DEF osDelayUntil, Alarm
    <2>3. QED
      BY <2>1, <2>2 DEF Moves, Same, Looks, Wait
  <1> HIDE <1>0 DEF Shape, HandlerShape, TimerIsComplete, CallShape, RearmShape, IdleShape, block,
        csrs, Goto, Home, InHandler, NotInHandler, NoCall, CallPcs, HandlerPcs, Starting, Stopping,
        Expired, TrapDue, CaptureDue, StartAllowed, DelayAllowed, osTimerIsRunning, Interval,
        InCallback, Deaf, set_compare, interrupt_expire, osThreadSetTrapHandler, DelayFor
  <1>26. QED
    BY <1>1, <1>3, <1>4, <1>6, <1>7, <1>8, <1>9, <1>10, <1>11, <1>12, <1>13,
       <1>14, <1>15, <1>16, <1>17, <1>18, <1>19, <1>20, <1>21, <1>22, <1>23, <1>24, <1>25
       DEF Own, Step, Functions

(* The moves are the steps of AbstractTimers. *)
LEMMA MovesAreSteps ==
  ASSUME IInv, NEW t \in Threads, Own(t), Moves(t)
  PROVE  Abstract!Next \/ UNCHANGED View
  <1>1. ASSUME UNCHANGED <<entry, type>>, Same(t)
        PROVE  UNCHANGED View
    BY <1>1, Unseen DEF View
  <1>2. /\ interval[t] = Interval(t) /\ alarm[t] = Alarm(t) /\ wait[t] = Wait(t)
        /\ t \in calling <=> InCallback(t)
        /\ t \in deaf <=> Deaf(t)
    BY DEF interval, alarm, wait, calling, deaf
  <1>3. ASSUME ~ entry[t], Same(t), entry' = [entry EXCEPT ![t] = TRUE],
               NEW kind \in {"once", "periodic"}, type' = [type EXCEPT ![t] = kind]
        PROVE  Abstract!Next
    <2>1. Abstract!New(t, kind)
      BY <1>3, Unseen DEF Abstract!New
    <2>2. QED
      BY <2>1 DEF Abstract!Next
  <1>4. ASSUME Interval(t) = 0, Alarm(t) = "off", Same(t),
               entry' = [entry EXCEPT ![t] = FALSE], type' = type
        PROVE  Abstract!Next
    <2>1. Abstract!Delete(t)
      BY <1>2, <1>4, Unseen DEF Abstract!Delete
    <2>2. QED
      BY <2>1 DEF Abstract!Next
  <1>5. /\ InCallback(t) \in BOOLEAN
        /\ interval = [interval EXCEPT ![t] = interval[t]]
        /\ alarm = [alarm EXCEPT ![t] = alarm[t]]
        /\ wait = [wait EXCEPT ![t] = wait[t]]
        /\ calling = IF InCallback(t) THEN calling \cup {t} ELSE calling \ {t}
    BY DEF interval, alarm, wait, calling, InCallback
  <1>6. CASE UNCHANGED <<entry, type>>
    <2>1. ASSUME entry[t], Interval(t) = 0, Alarm(t) = "off", ~ InCallback(t), NEW n \in Ticks,
                 Looks(t, n, "next", Wait(t), FALSE)
          PROVE  Abstract!Next
      <3>1. Seen(t, n, "next", Wait(t), FALSE)
        BY <1>5, <2>1, LooksAbstract
      <3>2. Abstract!Start(t, n)
        BY <1>2, <1>5, <1>6, <2>1, <3>1 DEF Seen, Abstract!Start
      <3>3. QED
        BY <3>2 DEF Abstract!Next
    <2>2. ASSUME Alarm(t) = "next", ~ InCallback(t),
                 Looks(t, Interval(t), "set", Interval(t), FALSE)
          PROVE  Abstract!Next
      <3>1. Seen(t, Interval(t), "set", Interval(t), FALSE)
        BY <1>5, <2>2, LooksAbstract
      <3>2. Abstract!Set(t)
        BY <1>2, <1>5, <1>6, <2>2, <3>1 DEF Seen, Abstract!Set
      <3>3. QED
        BY <3>2 DEF Abstract!Next
    <2>3. ASSUME Alarm(t) = "set", Wait(t) = 0, entry[t], ~ Deaf(t), ~ InCallback(t),
                 Looks(t, Interval(t),
                       IF type[t] = "periodic" /\ Interval(t) # 0 THEN "next" ELSE "off",
                       Wait(t), TRUE)
          PROVE  Abstract!Next
      <3>1. Seen(t, Interval(t),
                       IF type[t] = "periodic" /\ Interval(t) # 0 THEN "next" ELSE "off",
                       Wait(t), TRUE)
        BY <1>5, <2>3, LooksAbstract
      <3>2. Abstract!Call(t)
        BY <1>2, <1>5, <1>6, <2>3, <3>1 DEF Seen, Abstract!Call, Abstract!Ringing
      <3>3. QED
        BY <3>2 DEF Abstract!Next
    <2>5. ASSUME type[t] = "once", Alarm(t) = "off", ~ InCallback(t),
                 Looks(t, 0, "off", Wait(t), FALSE)
          PROVE  Abstract!Next
      <3>1. Seen(t, 0, "off", Wait(t), FALSE)
        BY <1>5, <2>5, LooksAbstract
      <3>2. Abstract!Done(t)
        BY <1>2, <1>5, <1>6, <2>5, <3>1 DEF Seen, Abstract!Done
      <3>3. QED
        BY <3>2 DEF Abstract!Next
    <2>6. ASSUME Interval(t) # 0, Alarm(t) = "set",
                 Looks(t, 0, "set", Wait(t), InCallback(t))
          PROVE  Abstract!Next
      <3>1. Seen(t, 0, "set", Wait(t), InCallback(t))
        BY <1>5, <2>6, LooksAbstract
      <3>2. Abstract!Stop(t)
        BY <1>2, <1>5, <1>6, <2>6, <3>1 DEF Seen, Abstract!Stop
      <3>3. QED
        BY <3>2 DEF Abstract!Next
    <2>7. ASSUME Interval(t) # 0,
                 Looks(t, 0, "off", 0, InCallback(t))
          PROVE  Abstract!Next
      <3>1. Seen(t, 0, "off", 0, InCallback(t))
        BY <1>5, <2>7, LooksAbstract
      <3>2. Abstract!Stop(t)
        BY <1>2, <1>5, <1>6, <2>7, <3>1 DEF Seen, Abstract!Stop, Abstract!Silence
      <3>3. QED
        BY <3>2 DEF Abstract!Next
    <2>8. ASSUME Interval(t) = 0,
                 Looks(t, 0, "off", 0, InCallback(t))
          PROVE  Abstract!Next
      <3>1. Seen(t, 0, "off", 0, InCallback(t))
        BY <1>5, <2>8, LooksAbstract
      <3>2. Abstract!Stopped(t)
        BY <1>2, <1>5, <1>6, <2>8, <3>1 DEF Seen, Abstract!Stopped, Abstract!Silence
      <3>3. QED
        BY <3>2 DEF Abstract!Next
    <2>9. ASSUME Deaf(t), Alarm(t) = "set", Wait(t) = 0,
                 Looks(t, Interval(t), "off", 0, InCallback(t))
          PROVE  Abstract!Next
      <3>1. Seen(t, Interval(t), "off", 0, InCallback(t))
        BY <1>5, <2>9, LooksAbstract
      <3>2. Abstract!Lose(t)
        BY <1>2, <1>5, <1>6, <2>9, <3>1 DEF Seen, Abstract!Lose, Abstract!Ringing, Abstract!Silence
      <3>3. QED
        BY <3>2 DEF Abstract!Next
    <2>10. QED
      BY <1>1, <1>3, <1>4, <1>6, <2>1, <2>2, <2>3, <2>5, <2>6, <2>7, <2>8, <2>9 DEF Moves
  <1>7. QED
    BY <1>3, <1>4, <1>6 DEF Moves

(* The trap of a thread rings: its alarm is over, and others become deaf. *)
LEMMA TrapRings ==
  ASSUME IInv, NEW t \in Threads, Own(t), Trap(t)
  PROVE  Abstract!Ring(t)
  <1>1. /\ ie[t] /\ mode[t] = "ie" /\ left[t] = 0 /\ handler[t] # "default"
        /\ InHandler(t) => pc[t] = "trapJump" /\ ticks[t] # 0
        /\ ~ pending[t] /\ pc[t] # "setFunc"
    BY DEF IInv, TypeOK, Shape, HandlerShape, TimerIsComplete, CallShape, RearmShape, Trap, TrapDue,
       Expired, HandlerPcs
  <1>2. /\ pc'[t] = "call" /\ left'[t] = left[t] /\ ticks'[t] = ticks[t]
        /\ saved'[t].pc = pc[t] /\ saved'[t] # NotInHandler
    <2>1. saved'[t] = [pc |-> pc[t], call |-> call[t], handler |-> handler[t]]
      BY DEF IInv, TypeOK, Trap
    <2>2. pc[t] # "none"
      BY DEF IInv, TypeOK, CallPcs, HandlerPcs
    <2>3. pc'[t] = "call" /\ left'[t] = left[t] /\ ticks'[t] = ticks[t]
      BY <1>1 DEF IInv, TypeOK, Trap, block
    <2>4. saved'[t].pc = pc[t] /\ NotInHandler.pc = "none"
      BY <2>1 DEF NotInHandler
    <2>5. QED
      BY <2>2, <2>3, <2>4
  <1>3. /\ Alarm(t) = "set" /\ Alarm(t)' = "set" /\ Wait(t) = 0 /\ Wait(t)' = 0
        /\ Interval(t)' = Interval(t) /\ ~ InCallback(t) /\ ~ InCallback(t)'
        /\ ~ Deaf(t) /\ Sheltered(t)'
    BY <1>1, <1>2 DEF Alarm, Wait, Interval, InCallback, InHandler, Deaf, Sheltered, CallPcs
  <1>4. UNCHANGED <<interval, alarm, wait, calling>>
    BY <1>3, NothingIsSeen
  <1>5. alarm[t] = "set" /\ wait[t] = 0 /\ t \notin deaf
    BY <1>3 DEF alarm, wait, deaf
  <1>6. deaf' = deaf \cup {u \in Threads \ {t} : ~ Sheltered(u)}
    <2>1. ASSUME NEW u \in Threads \ {t}
          PROVE  Deaf(u)' <=> ~ Sheltered(u)
      BY <2>1, OwnLeavesOthers, OthersLookSame DEF Spares, Deaf, Sheltered
    <2>2. ~ Deaf(t)'
      BY <1>3 DEF Deaf, Sheltered
    <2>3. \A u \in Threads : Deaf(u) => ~ Sheltered(u)
      BY DEF Deaf, Sheltered
    <2>4. QED
      BY <1>3, <2>1, <2>2, <2>3 DEF deaf
  <1>7. UNCHANGED <<entry, type>>
    BY DEF Trap, block
  <1>8. \E S \in SUBSET (Threads \ {t}) : deaf' = deaf \cup S
    BY <1>6
  <1>9. QED
    BY <1>4, <1>5, <1>7, <1>8 DEF Abstract!Ring, Abstract!Ringing

(* enable_interrupts and the end of a handler make a thread hear. *)
LEMMA EnablingHears ==
  ASSUME IInv, NEW t \in Threads, Own(t), trap_ret(t) \/ enable_interrupts(t)
  PROVE  Abstract!Hear(t)
  <1>1. /\ pc[t] \in {"idle", "trapRet"} /\ pc'[t] \in {"idle", "trapJump"}
        /\ ie'[t] /\ ~ TrapDue(t)
        /\ UNCHANGED <<entry, type, ticks, mode, left, saved>>
    BY DEF IInv, TypeOK, trap_ret, enable_interrupts, Goto, block
  <1>2. /\ Alarm(t)' = Alarm(t) /\ Wait(t)' = Wait(t) /\ Interval(t)' = Interval(t)
        /\ InCallback(t)' <=> InCallback(t)
        /\ ~ Deaf(t)'
    BY <1>1 DEF Alarm, Wait, Interval, InCallback, InHandler, Deaf, CallPcs
  <1>3. UNCHANGED <<interval, alarm, wait, calling>>
    BY <1>2, NothingIsSeen
  <1>4. ASSUME NEW u \in Threads \ {t}
        PROVE  Deaf(u)' <=> Deaf(u)
    BY <1>1, <1>4, OwnLeavesOthers, OthersLookSame DEF Spares, Trap, Deaf, Sheltered
  <1>5. deaf' = deaf \ {t}
    BY <1>2, <1>4 DEF deaf
  <1>6. QED
    BY <1>1, <1>3, <1>5 DEF Abstract!Hear

(* From the end of its callback a thread is deaf. *)
LEMMA ReturnDeafens ==
  ASSUME IInv, NEW t \in Threads, Own(t), CallbackReturns(t)
  PROVE  Abstract!Return(t)
  <1>1. /\ pc[t] = "callback" /\ InHandler(t) /\ ~ ie[t] /\ ~ ie'[t] /\ ~ TrapDue(t)
        /\ mode[t] # "ie"
        /\ pc'[t] = IF saved[t].handler = "once" THEN "onceDone" ELSE "rearm"
        /\ UNCHANGED <<entry, type, ticks, mode, left, saved>>
    BY DEF IInv, TypeOK, Shape, HandlerShape, RearmShape, HandlerPcs, CallbackReturns, Goto, block,
       csrs, TrapDue
  <1>2. saved[t].handler # "periodic" => saved[t].handler = "once"
    <2>1. saved[t] \in Interrupted /\ saved[t].handler # "default"
      BY <1>1 DEF IInv, TypeOK, Shape, HandlerShape, InHandler
    <2>2. QED
      BY <2>1 DEF Interrupted, Handlers
  <1>3. /\ Alarm(t)' = Alarm(t) /\ Wait(t)' = Wait(t) /\ Interval(t)' = Interval(t)
        /\ ~ InCallback(t)' /\ Deaf(t)'
    BY <1>1, <1>2 DEF Alarm, Wait, Interval, InCallback, InHandler, Deaf, CallPcs
  <1>4. ASSUME NEW u \in Threads \ {t}
        PROVE  Deaf(u)' <=> Deaf(u)
    BY <1>1, <1>4, OwnLeavesOthers, OthersLookSame DEF Spares, Trap, Deaf, Sheltered
  <1>5. deaf' = deaf \cup {t}
    BY <1>3, <1>4 DEF deaf
  <1>6. interval' = interval /\ alarm' = alarm /\ wait' = wait /\ calling' = calling \ {t}
    BY <1>3, OneLooks DEF interval, alarm, wait, calling
  <1>7. QED
    BY <1>1, <1>5, <1>6 DEF Abstract!Return

(* Time passes for every alarm alike. *)
LEMMA TimePasses ==
  ASSUME IInv, Tick
  PROVE  Abstract!Tick
  <1>1. ASSUME NEW t \in Threads
        PROVE  /\ Alarm(t)' = Alarm(t) /\ Interval(t)' = Interval(t)
               /\ InCallback(t)' <=> InCallback(t)
               /\ Deaf(t)' <=> Deaf(t)
               /\ left[t] \in Nat
               /\ left'[t] = IF left[t] > 0 THEN left[t] - 1 ELSE 0
    BY <1>1 DEF IInv, TypeOK, Tick, block, Alarm, Interval, InCallback, InHandler, Deaf
  <1>2. ASSUME NEW t \in Threads
        PROVE  Wait(t)' = IF Wait(t) > 0 THEN Wait(t) - 1 ELSE 0
    BY <1>1, <1>2 DEF Wait
  <1>3. wait' = [t \in Threads |-> IF wait[t] > 0 THEN wait[t] - 1 ELSE 0]
    BY <1>2 DEF wait
  <1>4. UNCHANGED <<interval, alarm, calling, deaf>>
    BY <1>1 DEF interval, alarm, calling, deaf
  <1>5. QED
    BY <1>3, <1>4 DEF Abstract!Tick, Tick, block

(* Every behaviour within the contract is one of AbstractTimers: no        *)
(* callback is early, repeated or of a timer that is stopped.              *)
THEOREM TimersAsPromised ==
  ASSUME Uses = {}
  PROVE  Spec => ImplementsTimers
  <1>1. Init => Abstract!Init
    BY DEF Init, Abstract!Init, interval, alarm, wait, calling, deaf, Interval, Alarm, Wait,
       InCallback, InHandler, Deaf
  <1>2. IInv /\ [Next]_vars => [Abstract!Next]_View
    <2> SUFFICES ASSUME IInv, [Next]_vars PROVE Abstract!Next \/ UNCHANGED View
      BY DEF View
    <2>1. CASE Tick
      BY <2>1, TimePasses DEF Abstract!Next
    <2>2. ASSUME NEW t \in Threads, Own(t)
          PROVE  Abstract!Next \/ UNCHANGED View
      <3>1. CASE Trap(t)
        BY <2>2, <3>1, TrapRings DEF Abstract!Next
      <3>2. CASE CallbackReturns(t)
        BY <2>2, <3>2, ReturnDeafens DEF Abstract!Next
      <3>3. CASE trap_ret(t) \/ enable_interrupts(t)
        BY <2>2, <3>3, EnablingHears DEF Abstract!Next
      <3>4. CASE ~ (Trap(t) \/ CallbackReturns(t) \/ trap_ret(t) \/ enable_interrupts(t))
        BY <2>2, <3>4, OwnMoves, MovesAreSteps
      <3>5. QED
        BY <3>1, <3>2, <3>3, <3>4
    <2>3. CASE UNCHANGED vars
      BY <2>3 DEF vars, block, csrs, View, interval, alarm, wait, calling, deaf, Interval, Alarm,
         Wait, InCallback, InHandler, Deaf
    <2>4. ASSUME NEW t \in Threads, Step(t) \/ Program(t) \/ enable_interrupts(t)
          PROVE  Own(t)
      BY <2>4 DEF Own, Program, Targets
    <2>5. QED
      BY <2>1, <2>2, <2>3, <2>4 DEF Next
  <1>3. QED
    BY <1>1, <1>2, Invariance, PTL DEF Spec, ImplementsTimers, Abstract!Spec, View
=============================================================================
