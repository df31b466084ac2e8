------------------------- MODULE FlexThreads_proofs -------------------------
(***************************************************************************)
(* Proofs about FlexThreads for any number of threads and of lives: each   *)
(* creation runs its own function, with its own argument and stack, and    *)
(* runs it once, a main that waits for all threads ends the simulation     *)
(* only when they are done, and the calls and startup.S together implement *)
(* AbstractThreads.                                                        *)
(* They hold within the contract of osKernelReset.                         *)
(***************************************************************************)
EXTENDS FlexThreads, TLAPS

-----------------------------------------------------------------------------
(***************************************************************************)
(* The inductive invariant                                                 *)
(***************************************************************************)

Rest == {"poll", "wait", "asleep"}   \* the worker looks at func next
Busy == {"loadSp", "loadArg", "jump"}
RawPcs == {"rawSlots", "rawModes", "rawDone"}

(* Thread 0 acts on a worker, except at the end of a pass of               *)
(* osThreadJoinAll, and it calls the kernel or is app/main.c.              *)
MainTarget ==
  /\ main.pc # "joinAll" => main.t \in Workers
  /\ main.pc \in {"newFunc", "newArg", "newMode", "newSlot"} => main.t < num
  /\ main.pc \in RawPcs => kernel = "raw"
  /\ kernel = "raw" => main.pc \in RawPcs \cup {"idle", "halt"}

(* Once a creation has run, no function is left for startup.S to see. *)
RanMeansCleared ==
  \A t \in Workers :
    /\ runs[t] <= 1
    /\ pc[t] \in Busy => runs[t] = 0
    /\ pc[t] \in Rest /\ func[t] # NULL => runs[t] = 0

Untouched(t) == func[t] = NULL /\ stack[t] = InitStack /\ pc[t] \in Rest /\ ~ slot[t]

(* A thread that osThreadNew has not taken has nothing to run and no slot. *)
FreeIsUntouched ==
  kernel # "raw" => \A t \in Workers : t >= num => Untouched(t)

(* The same for app/main.c before it has given out slots. *)
RawIsUntouched ==
  kernel = "raw" /\ main.pc = "idle" =>
    \A t \in Workers : ~ slot[t] /\ pc[t] = "poll" /\ runs[t] = 0
                       /\ arg[t] = NULL /\ stack[t] = InitStack

(* While osThreadNew fills the block the thread is not scheduled. *)
CreatingIsQuiet ==
  main.pc \in {"newFunc", "newArg"} =>
    LET t == main.t
    IN  /\ ~ slot[t] /\ pc[t] \in Rest /\ runs[t] = 0
        /\ given[t].func = life[t] /\ given[t].arg = life[t]
        /\ given[t].sp = stack[t]
        /\ func[t] = IF main.pc = "newFunc" THEN NULL ELSE life[t]

(* While osKernelReset clears the blocks nothing runs. *)
ResetIsQuiet ==
  main.pc = "resetModes" => \A t \in Workers : ~ slot[t] /\ pc[t] \in Rest

(* A block that startup.S reads is complete, and what it has read is of    *)
(* the last creation.                                                      *)
ReadsOwnBlock ==
  \A t \in Workers : given[t] # NothingGiven =>
    /\ pc[t] \in Rest /\ func[t] # NULL /\ ~ (main.pc = "newArg" /\ main.t = t)
         => func[t] = given[t].func /\ arg[t] = given[t].arg /\ stack[t] = given[t].sp
    /\ pc[t] \in Busy \cup {"run"} => reg[t].func = given[t].func
    /\ pc[t] = "loadSp" => stack[t] = given[t].sp
    /\ pc[t] \in {"loadSp", "loadArg"} => arg[t] = given[t].arg
    /\ pc[t] \in {"loadArg", "jump", "run"} => reg[t].sp = given[t].sp
    /\ pc[t] \in {"jump", "run"} => reg[t].arg = given[t].arg

(* What holds of thread 0 and the workers together. *)
Consistent ==
  /\ MainTarget
  /\ RanMeansCleared
  /\ FreeIsUntouched
  /\ RawIsUntouched
  /\ CreatingIsQuiet
  /\ ResetIsQuiet
  /\ ReadsOwnBlock

IInv == TypeOK /\ Consistent

-----------------------------------------------------------------------------
(***************************************************************************)
(* The end of the simulation                                               *)
(***************************************************************************)

Created(t) == given[t] # NothingGiven   \* and not terminated

(* A creation whose function pointer is gone has run, but for the moment   *)
(* in which osThreadNew has not written the pointer.                       *)
ClearedMeansDone ==
  \A t \in Workers : Created(t) =>
    /\ func[t] = NULL /\ ~ (main.pc = "newFunc" /\ main.t = t)
         => runs[t] = 1 /\ pc[t] \in {"wait", "asleep"}
    /\ pc[t] \notin Rest => func[t] # NULL
    /\ pc[t] \in {"run", "cleanFunc"} => runs[t] = 1

(* What has no pointer that startup.S must clear, and what gets one. *)
NothingLeft ==
  /\ main.pc = "newFunc" => life[main.t] # NULL
  /\ main.pc = "cleanFunc" => ~ Created(main.t)
  /\ kernel # "raw" => \A t \in Workers : t >= num => ~ Created(t)
  /\ kernel = "raw" /\ main.pc = "idle" => \A t \in Workers : t >= main.t => ~ Created(t)
  /\ main.pc \in {"reapSlot", "reapZombie"} => func[main.t] = NULL

(* What the loops that wait for all threads have seen, and what thread 0   *)
(* knows when it ends the simulation.                                      *)
LoopsHaveSeen ==
  /\ main.pc \in {"join", "cleanFunc"} => main.len = 0
  /\ main.pc = "joinAll" \/ (main.pc \in {"reapSlot", "reapZombie"} /\ main.len # 0)
       => /\ main.len = num - 1
          /\ \A t \in Workers : t < num /\ t \notin main.flag => func[t] = NULL
  /\ main.pc = "rawDone" => \A t \in Workers : t < main.t => func[t] = NULL
  /\ main.pc = "halt" => \A t \in Workers : Created(t) => func[t] = NULL
  /\ tohost = 1 => main.pc \in {"halt", "leave"}

Ended == ClearedMeansDone /\ NothingLeft /\ LoopsHaveSeen

-----------------------------------------------------------------------------
(***************************************************************************)
(* Types                                                                   *)
(***************************************************************************)

MainRecords == [pc : MainPcs, t : 1 .. N, len : 0 .. N - 1, flag : SUBSET Workers]

(* The ways in which thread 0 goes on keep the type of main. *)
LEMMA MainUpdates ==
  ASSUME NEW A, NEW B, NEW C, NEW D, NEW m \in [pc : A, t : B, len : C, flag : D],
         NEW p \in A, NEW u \in B, NEW l \in C, NEW f \in D
  PROVE  /\ [m EXCEPT !.t = u] \in [pc : A, t : B, len : C, flag : D]
         /\ [m EXCEPT !.pc = p] \in [pc : A, t : B, len : C, flag : D]
         /\ [m EXCEPT !.pc = p, !.t = u] \in [pc : A, t : B, len : C, flag : D]
         /\ [m EXCEPT !.pc = p, !.flag = f] \in [pc : A, t : B, len : C, flag : D]
         /\ [m EXCEPT !.pc = p, !.t = u, !.flag = f] \in [pc : A, t : B, len : C, flag : D]
         /\ [m EXCEPT !.pc = p, !.t = u, !.len = l] \in [pc : A, t : B, len : C, flag : D]
         /\ [m EXCEPT !.pc = p, !.t = u, !.len = l, !.flag = f] \in [pc : A, t : B, len : C, flag : D]
  OBVIOUS

(* The same for the loads of startup.S and the creations of thread 0. *)
LEMMA GivenUpdates ==
  ASSUME NEW A, NEW B, NEW C, NEW r \in [func : A, arg : B, sp : C],
         NEW a \in A, NEW b \in B, NEW c \in C
  PROVE  /\ [r EXCEPT !.func = a] \in [func : A, arg : B, sp : C]
         /\ [r EXCEPT !.arg = b] \in [func : A, arg : B, sp : C]
         /\ [r EXCEPT !.sp = c] \in [func : A, arg : B, sp : C]
  OBVIOUS

(* A worker keeps the types. *)
LEMMA WorkerKeepsTypes ==
  ASSUME IInv, NEW t \in Workers, Worker(t)
  PROVE  TypeOK'
  <1>types. TypeOK
    BY DEF IInv
  <1>pcs. \A p \in WorkerPcs : [pc EXCEPT ![t] = p] \in [Workers -> WorkerPcs]
    BY <1>types DEF TypeOK
  <1>flags. \A b \in BOOLEAN : /\ [due EXCEPT ![t] = b] \in [Workers -> BOOLEAN]
                               /\ [zombie EXCEPT ![t] = b] \in [Workers -> BOOLEAN]
    BY <1>types DEF TypeOK
  <1>regs. \A r \in Given : [reg EXCEPT ![t] = r] \in [Workers -> Given]
    BY <1>types DEF TypeOK
  <1>reg. reg[t] \in Given /\ func[t] \in Lives \cup {NULL} /\ arg[t] \in Lives \cup {NULL}
          /\ stack[t] \in Lives \cup {InitStack} /\ NothingGiven \in Given
    BY <1>types DEF TypeOK, Given, NothingGiven
  <1>names. /\ {"poll", "loadSp", "loadArg", "jump"} \subseteq WorkerPcs
            /\ {"run", "cleanFunc", "wait", "asleep"} \subseteq WorkerPcs
    BY DEF WorkerPcs
  <1>1. CASE Poll(t)
    <2>1. [reg[t] EXCEPT !.func = func[t]] \in Given
      BY <1>reg, GivenUpdates DEF Given
    <2>2. reg' \in [Workers -> Given] /\ pc' \in [Workers -> WorkerPcs]
      BY <1>1, <1>pcs, <1>regs, <1>names, <2>1 DEF Poll, Goto
    <2>3. QED
      BY <1>1, <1>types, <2>2 DEF Poll, TypeOK, startup_state, os, modes, ghosts
  <1>2. CASE LoadSp(t)
    <2>1. [reg[t] EXCEPT !.sp = stack[t]] \in Given
      BY <1>reg, GivenUpdates DEF Given
    <2>2. reg' \in [Workers -> Given] /\ pc' \in [Workers -> WorkerPcs]
      BY <1>2, <1>pcs, <1>regs, <1>names, <2>1 DEF LoadSp, Goto
    <2>3. QED
      BY <1>2, <1>types, <2>2 DEF LoadSp, TypeOK, startup_state, os, modes, ghosts
  <1>3. CASE LoadArg(t)
    <2>1. [reg[t] EXCEPT !.arg = arg[t]] \in Given
      BY <1>reg, GivenUpdates DEF Given
    <2>2. reg' \in [Workers -> Given] /\ pc' \in [Workers -> WorkerPcs]
      BY <1>3, <1>pcs, <1>regs, <1>names, <2>1 DEF LoadArg, Goto
    <2>3. QED
      BY <1>3, <1>types, <2>2 DEF LoadArg, TypeOK, startup_state, os, modes, ghosts
  <1>4. CASE Jump(t)
    <2>1. runs' \in [Workers -> Nat]
      BY <1>4, <1>types DEF Jump, TypeOK
    <2>2. pc' \in [Workers -> WorkerPcs]
      BY <1>4, <1>pcs, <1>names DEF Jump, Goto
    <2>3. QED
      BY <1>4, <1>types, <2>1, <2>2 DEF Jump, TypeOK, startup_state, os, modes
  <1>5. CASE Return(t)
    <2>1. arg' \in [Workers -> Lives \cup {NULL}] /\ stack' \in [Workers -> Lives \cup {InitStack}]
      BY <1>5, <1>types DEF Return, CleanBlock, TypeOK
    <2>2. state' \in [Workers -> {"INACTIVE", "ACTIVE", "TERMINATED"}]
      BY <1>5, <1>types DEF Return, CleanBlock, TypeOK
    <2>3. reg' \in [Workers -> Given] /\ pc' \in [Workers -> WorkerPcs]
      BY <1>5, <1>pcs, <1>regs, <1>reg, <1>names DEF Return, Goto
    <2>4. QED
      BY <1>5, <1>types, <2>1, <2>2, <2>3 DEF Return, TypeOK, os, modes, ghosts
  <1>6. CASE CleanFunc(t)
    <2>1. func' \in [Workers -> Lives \cup {NULL}]
      BY <1>6, <1>types DEF CleanFunc, TypeOK
    <2>2. pc' \in [Workers -> WorkerPcs]
      BY <1>6, <1>pcs, <1>names DEF CleanFunc, Goto
    <2>3. QED
      BY <1>6, <1>types, <2>1, <2>2 DEF CleanFunc, TypeOK, os, modes, ghosts
  <1>7. CASE WaitOver(t)
    <2>1. pc' \in [Workers -> WorkerPcs]
      BY <1>7, <1>pcs, <1>names DEF WaitOver, Goto
    <2>2. QED
      BY <1>7, <1>types, <2>1 DEF WaitOver, TypeOK, startup_state, os, modes, ghosts
  <1>8. CASE Sleep(t)
    <2>1. pc' \in [Workers -> WorkerPcs] /\ zombie' \in [Workers -> BOOLEAN]
      BY <1>8, <1>pcs, <1>flags, <1>names DEF Sleep, Goto
    <2>2. QED
      BY <1>8, <1>types, <2>1 DEF Sleep, TypeOK, startup_state, os, ghosts
  <1>9. CASE SleepAgain(t)
    <2>1. pc' \in [Workers -> WorkerPcs] /\ zombie' \in [Workers -> BOOLEAN]
      BY <1>9, <1>pcs, <1>flags, <1>names DEF SleepAgain, Goto
    <2>2. QED
      BY <1>9, <1>types, <2>1 DEF SleepAgain, TypeOK, startup_state, os, ghosts
  <1>10. CASE Expire(t)
    <2>1. due' \in [Workers -> BOOLEAN] /\ zombie' \in [Workers -> BOOLEAN]
      BY <1>10, <1>flags DEF Expire
    <2>2. QED
      BY <1>10, <1>types, <2>1 DEF Expire, TypeOK, startup_state, os, ghosts
  <1>11. CASE DelayOver(t)
    <2>1. pc' \in [Workers -> WorkerPcs] /\ due' \in [Workers -> BOOLEAN]
      BY <1>11, <1>pcs, <1>flags, <1>names DEF DelayOver, Goto
    <2>2. QED
      BY <1>11, <1>types, <2>1 DEF DelayOver, TypeOK, startup_state, os, modes, ghosts
  <1>12. QED
    BY <1>1, <1>2, <1>3, <1>4, <1>5, <1>6, <1>7, <1>8, <1>9, <1>10, <1>11
       DEF Worker

(* Thread 0 goes on to a step of its own, about a thread that there is. *)
LEMMA MainKeepsMain ==
  ASSUME IInv, Call \/ Step
  PROVE  main' \in MainRecords
  <1>1. main \in MainRecords /\ (main.pc # "joinAll" => main.t \in Workers)
    BY DEF IInv, TypeOK, Consistent, MainTarget, MainRecords
  <1>2. CASE osKernelStart
    <2>1. "startModes" \in MainPcs /\ {t \in Workers : func[t] = NULL} \in SUBSET Workers
      BY <1>2, <1>1, ThreadsAssumption
         DEF osKernelStart, IInv, Consistent, MainTarget, TypeOK,
         MainRecords, MainPcs, Workers, At, Attributes
    <2>2. QED
      BY <1>2, <1>1, <2>1, MainUpdates DEF osKernelStart, MainRecords
  <1>3. ASSUME NEW attr \in Attributes, osThreadNew(attr)
        PROVE  main' \in MainRecords
    <2>1. "newFunc" \in MainPcs /\ num \in 1 .. N
      BY <1>3, <1>1, ThreadsAssumption
         DEF osThreadNew, IInv, Consistent, MainTarget, TypeOK,
         MainRecords, MainPcs, Workers, At, Attributes
    <2>2. QED
      BY <1>3, <1>1, <2>1, MainUpdates DEF osThreadNew, MainRecords
  <1>4. ASSUME NEW t \in Workers, osThreadJoin(t)
        PROVE  main' \in MainRecords
    <2>1. "join" \in MainPcs /\ t \in 1 .. N /\ 0 \in 0 .. N - 1
      BY <1>4, <1>1, ThreadsAssumption
         DEF osThreadJoin, IInv, Consistent, MainTarget, TypeOK,
         MainRecords, MainPcs, Workers, At, Attributes
    <2>2. QED
      BY <1>4, <1>1, <2>1, MainUpdates DEF osThreadJoin, MainRecords
  <1>5. ASSUME NEW t \in Workers, osThreadTerminate(t)
        PROVE  main' \in MainRecords
    <2>1. "cleanFunc" \in MainPcs /\ t \in 1 .. N /\ 0 \in 0 .. N - 1
      BY <1>5, <1>1, ThreadsAssumption
         DEF osThreadTerminate, IInv, Consistent, MainTarget, TypeOK,
         MainRecords, MainPcs, Workers, At, Attributes
    <2>2. QED
      BY <1>5, <1>1, <2>1, MainUpdates DEF osThreadTerminate, MainRecords
  <1>6. CASE osThreadJoinAll
    <2>1. "joinAll" \in MainPcs /\ 1 \in 1 .. N /\ num - 1 \in 0 .. N - 1
          /\ 1 .. num - 1 \in SUBSET Workers
      BY <1>6, <1>1, ThreadsAssumption
         DEF osThreadJoinAll, IInv, Consistent, MainTarget, TypeOK,
         MainRecords, MainPcs, Workers, At, Attributes
    <2>2. QED
      BY <1>6, <1>1, <2>1, MainUpdates DEF osThreadJoinAll, MainRecords
  <1>7. CASE ReapZombie
    <2>1. /\ Idle \in MainRecords /\ "joinAll" \in MainPcs
          /\ main.t + 1 \in 1 .. N /\ main.flag \ {main.t} \in SUBSET Workers
      BY <1>7, <1>1, ThreadsAssumption
         DEF ReapZombie, IInv, Consistent, MainTarget, TypeOK,
         MainRecords, MainPcs, Workers, At, Attributes, Idle
    <2>2. QED
      BY <1>7, <1>1, <2>1, MainUpdates DEF ReapZombie, MainRecords
  <1>8. CASE JoinAllCheck
    <2>1. "reapSlot" \in MainPcs /\ main.t + 1 \in 1 .. N
      BY <1>8, <1>1, ThreadsAssumption
         DEF JoinAllCheck, IInv, Consistent, MainTarget, TypeOK,
         MainRecords, MainPcs, Workers, At, Attributes
    <2>2. QED
      BY <1>8, <1>1, <2>1, MainUpdates DEF JoinAllCheck, MainRecords
  <1>9. ASSUME NEW to \in {"idle", "halt"}, JoinAllPass(to)
        PROVE  main' \in MainRecords
    <2>1. 1 \in 1 .. N /\ to \in MainPcs /\ Idle \in MainRecords
      BY <1>9, <1>1, ThreadsAssumption
         DEF JoinAllPass, IInv, Consistent, MainTarget, TypeOK,
         MainRecords, MainPcs, Workers, At, Attributes, Idle
    <2>2. QED
      BY <1>9, <1>1, <2>1, MainUpdates DEF JoinAllPass, MainRecords
  <1>10. CASE hwthread_start
    <2>1. "rawSlots" \in MainPcs /\ (main.t # N - 1 => main.t + 1 \in 1 .. N)
      BY <1>10, <1>1, ThreadsAssumption
         DEF hwthread_start, IInv, Consistent, MainTarget, TypeOK,
         MainRecords, MainPcs, Workers, At, Attributes
    <2>2. QED
      BY <1>10, <1>1, <2>1, MainUpdates DEF hwthread_start, MainRecords
  <1>11. CASE RawModes
    <2>1. "rawDone" \in MainPcs /\ 1 \in 1 .. N
      BY <1>11, <1>1, ThreadsAssumption
         DEF RawModes, IInv, Consistent, MainTarget, TypeOK,
         MainRecords, MainPcs, Workers, At, Attributes
    <2>2. QED
      BY <1>11, <1>1, <2>1, MainUpdates DEF RawModes, MainRecords
  <1>12. CASE hwthread_done
    <2>1. "halt" \in MainPcs /\ 1 \in 1 .. N /\ (main.t < N - 1 => main.t + 1 \in 1 .. N)
      BY <1>12, <1>1, ThreadsAssumption
         DEF hwthread_done, IInv, Consistent, MainTarget, TypeOK,
         MainRecords, MainPcs, Workers, At, Attributes
    <2>2. QED
      BY <1>12, <1>1, <2>1, MainUpdates DEF hwthread_done, MainRecords
  <1>13. CASE osKernelReset \/ NewFunc \/ NewArg \/ NewMode
    BY <1>13, <1>1, ThreadsAssumption
       DEF osKernelReset, NewFunc, NewArg, NewMode, Main, Idle, MainRecords, MainPcs, Workers
  <1>14. CASE NewSlot \/ StartModes \/ Joined \/ ReapSlot
    BY <1>14, <1>1, ThreadsAssumption
       DEF NewSlot, StartModes, Joined, ReapSlot, Main, Idle, MainRecords, MainPcs, Workers
  <1>15. CASE TerminateFunc \/ ResetModes
    BY <1>15, <1>1, ThreadsAssumption
       DEF TerminateFunc, ResetModes, Main, Idle, MainRecords, MainPcs, Workers
  <1>16. CASE RawSlots \/ MainReturns \/ Done
    BY <1>16, <1>1, ThreadsAssumption
       DEF RawSlots, MainReturns, Done, Main, Idle, MainRecords, MainPcs, Workers
  <1>17. QED
    BY <1>2, <1>3, <1>4, <1>5, <1>6, <1>7, <1>8, <1>9, <1>10, <1>11, <1>12, <1>13, <1>14,
       <1>15, <1>16
       DEF Call, Step

(* Thread 0 keeps the types. *)
LEMMA MainKeepsTypes ==
  ASSUME IInv, Call \/ Step
  PROVE  TypeOK'
  <1> USE ThreadsAssumption DEF IInv, TypeOK, startup_state, os, modes, worker, ghosts,
        At, Main, Idle, CleanBlock, MainRecords, Lives, NULL, InitStack
  <1>1. ASSUME NEW attr \in Attributes, osThreadNew(attr)
        PROVE  TypeOK'
    <2>1. given' \in [Workers -> Given] /\ life' \in [Workers -> Lives \cup {0}]
      BY <1>1 DEF osThreadNew, Given
    <2>2. stack' \in [Workers -> Lives \cup {InitStack}] /\ runs' \in [Workers -> Nat]
      BY <1>1 DEF osThreadNew, Attributes
    <2>3. num' \in 1 .. N
      BY <1>1 DEF osThreadNew
    <2>4. QED
      BY <1>1, <2>1, <2>2, <2>3, MainKeepsMain DEF osThreadNew
  <1>2. CASE osKernelStart
    BY <1>2, MainKeepsMain DEF osKernelStart
  <1>3. CASE osKernelReset
    BY <1>3, MainKeepsMain DEF osKernelReset
  <1>4. CASE osThreadJoinAll
    BY <1>4, MainKeepsMain DEF osThreadJoinAll
  <1>5. ASSUME NEW t \in Workers, osThreadJoin(t)
        PROVE  TypeOK'
    BY <1>5, MainKeepsMain DEF osThreadJoin
  <1>6. ASSUME NEW t \in Workers, osThreadTerminate(t)
        PROVE  TypeOK'
    <2>1. given' \in [Workers -> Given]
      BY <1>6 DEF osThreadTerminate, Given, NothingGiven
    <2>2. QED
      BY <1>6, <2>1, MainKeepsMain DEF osThreadTerminate
  <1>7. CASE NewFunc
    BY <1>7, MainKeepsMain DEF NewFunc
  <1>8. CASE NewArg
    BY <1>8, MainKeepsMain DEF NewArg
  <1>9. CASE NewMode
    BY <1>9, MainKeepsMain DEF NewMode
  <1>10. CASE NewSlot
    BY <1>10, MainKeepsMain DEF NewSlot
  <1>11. CASE StartModes
    <2>1. zombie' \in [Workers -> BOOLEAN] /\ kernel' \in {"ready", "running", "raw"}
      BY <1>11 DEF StartModes
    <2>2. main' \in MainRecords
      BY MainKeepsMain
    <2>3. QED
      BY <1>11, <2>1, <2>2 DEF StartModes
  <1>12. CASE Joined
    BY <1>12, MainKeepsMain DEF Joined
  <1>13. CASE ReapSlot
    BY <1>13, MainKeepsMain DEF ReapSlot
  <1>14. CASE ReapZombie
    BY <1>14, MainKeepsMain DEF ReapZombie
  <1>15. CASE JoinAllCheck
    BY <1>15, MainKeepsMain DEF JoinAllCheck
  <1>16. ASSUME NEW to \in {"idle", "halt"}, JoinAllPass(to)
        PROVE  TypeOK'
    BY <1>16, MainKeepsMain DEF JoinAllPass
  <1>17. CASE TerminateFunc
    BY <1>17, MainKeepsMain DEF TerminateFunc
  <1>18. CASE ResetModes
    BY <1>18, MainKeepsMain DEF ResetModes, Given, NothingGiven
  <1>19. CASE hwthread_start
    <2>1. given' \in [Workers -> Given] /\ life' \in [Workers -> Lives \cup {0}]
      BY <1>19 DEF hwthread_start, Given, NothingGiven, Consistent, MainTarget, Workers
    <2>2. func' \in [Workers -> Lives \cup {NULL}]
      BY <1>19 DEF hwthread_start, Consistent, MainTarget, Workers
    <2>3. QED
      BY <1>19, <2>1, <2>2, MainKeepsMain DEF hwthread_start
  <1>20. CASE RawSlots
    BY <1>20, MainKeepsMain DEF RawSlots
  <1>21. CASE RawModes
    BY <1>21, MainKeepsMain DEF RawModes
  <1>22. CASE hwthread_done
    BY <1>22, MainKeepsMain DEF hwthread_done
  <1>23. CASE Done
    BY <1>23, MainKeepsMain DEF Done
  <1>24. CASE MainReturns
    BY <1>24, MainKeepsMain DEF MainReturns
  <1>25. QED
    BY <1>1, <1>2, <1>3, <1>4, <1>5, <1>6, <1>7, <1>8, <1>9, <1>10, <1>11,
       <1>12, <1>13, <1>14, <1>15, <1>16, <1>17, <1>18, <1>19, <1>20, <1>21,
       <1>22, <1>23, <1>24
       DEF Call, Step

-----------------------------------------------------------------------------
(***************************************************************************)
(* Thread 0 and the workers                                                *)
(***************************************************************************)

(* A thread that is not at rest has been taken. *)
LEMMA MovingIsTaken ==
  ASSUME IInv, NEW t \in Workers, pc[t] \notin Rest, kernel # "raw"
  PROVE  t < num
  <1>1. num \in 1 .. N
    BY DEF IInv, TypeOK
  <1>2. t \in Nat /\ num \in Nat
    BY <1>1, ThreadsAssumption DEF Workers
  <1>3. ~ (t >= num)
    BY DEF IInv, Consistent, FreeIsUntouched, Untouched
  <1>4. QED
    BY <1>2, <1>3

(* A worker takes its function from a complete block and leaves none behind. *)
LEMMA WorkerKeeps ==
  ASSUME IInv, TypeOK', NEW t \in Workers, Worker(t)
  PROVE  Consistent'
  <1>blocks. /\ Consistent
             /\ DOMAIN func = Workers /\ DOMAIN state = Workers /\ DOMAIN arg = Workers
             /\ DOMAIN stack = Workers /\ DOMAIN slot = Workers /\ DOMAIN zombie = Workers
             /\ DOMAIN pc = Workers /\ DOMAIN reg = Workers /\ DOMAIN due = Workers
             /\ DOMAIN life = Workers /\ DOMAIN given = Workers /\ DOMAIN runs = Workers
             /\ \A u \in Workers : DOMAIN reg[u] = {"func", "arg", "sp"} /\ runs[u] \in Nat
    BY DEF IInv, TypeOK, Given
  <1> USE <1>blocks DEF Consistent, MainTarget, RanMeansCleared,
        FreeIsUntouched, RawIsUntouched, CreatingIsQuiet, ResetIsQuiet, ReadsOwnBlock,
        Untouched, Rest, Busy, RawPcs, startup_state, os, modes, worker, ghosts,
        Goto, CleanBlock, NULL, InitStack, NothingGiven
  <1>1. CASE Poll(t)
    <2>1. reg'[t].func = func[t] /\ \A u \in Workers \ {t} : reg'[u] = reg[u]
      BY <1>1 DEF Poll
    <2>2. pc' = [pc EXCEPT ![t] = "loadSp"] /\ UNCHANGED <<func, state, arg, stack, num, kernel,
                                  slot, zombie, due, main, tohost, life, given, runs>>
      BY <1>1 DEF Poll
    <2>3. pc[t] = "poll" /\ func[t] # NULL /\ slot[t]
      BY <1>1 DEF Poll, Runs
    <2>4. Consistent'
      BY <2>1, <2>2, <2>3
    <2>5. QED
      BY <2>4
  <1>2. CASE LoadSp(t)
    BY <1>2 DEF LoadSp
  <1>3. CASE LoadArg(t)
    BY <1>3 DEF LoadArg
  <1>4. CASE Jump(t)
    BY <1>4 DEF Jump
  <1>5. CASE Return(t)
    <2>1. MainTarget'
      BY <1>5 DEF Return
    <2>2. RanMeansCleared'
      BY <1>5 DEF Return
    <2>3. FreeIsUntouched'
      <3>1. pc[t] = "run"
        BY <1>5 DEF Return
      <3>2. kernel # "raw" => t < num
        BY <3>1, MovingIsTaken
      <3>3. QED
        BY <1>5, <3>2 DEF Return
    <2>4. RawIsUntouched'
      BY <1>5 DEF Return
    <2>5. CreatingIsQuiet'
      BY <1>5 DEF Return
    <2>6. ResetIsQuiet'
      BY <1>5 DEF Return
    <2>7. ReadsOwnBlock'
      BY <1>5 DEF Return
    <2>8. QED
      BY <2>1, <2>2, <2>3, <2>4, <2>5, <2>6, <2>7 DEF Consistent
  <1>6. CASE CleanFunc(t)
    BY <1>6 DEF CleanFunc
  <1>7. CASE WaitOver(t)
    BY <1>7 DEF WaitOver
  <1>8. CASE Sleep(t)
    BY <1>8 DEF Sleep
  <1>9. CASE SleepAgain(t)
    BY <1>9 DEF SleepAgain
  <1>10. CASE Expire(t)
    BY <1>10 DEF Expire
  <1>11. CASE DelayOver(t)
    BY <1>11 DEF DelayOver
  <1>12. QED
    BY <1>1, <1>2, <1>3, <1>4, <1>5, <1>6, <1>7, <1>8, <1>9, <1>10, <1>11
       DEF Worker

(* Thread 0 fills, reads and clears the block of a thread that is at rest. *)
LEMMA MainKeeps ==
  ASSUME IInv, TypeOK', Call \/ Step, "resetAnyTime" \notin Uses
  PROVE  Consistent'
  <1>blocks. /\ Consistent
             /\ DOMAIN func = Workers /\ DOMAIN state = Workers /\ DOMAIN arg = Workers
             /\ DOMAIN stack = Workers /\ DOMAIN slot = Workers /\ DOMAIN zombie = Workers
             /\ DOMAIN pc = Workers /\ DOMAIN reg = Workers /\ DOMAIN due = Workers
             /\ DOMAIN life = Workers /\ DOMAIN given = Workers /\ DOMAIN runs = Workers
             /\ \A u \in Workers : DOMAIN reg[u] = {"func", "arg", "sp"} /\ runs[u] \in Nat
             /\ \A u \in Workers : life[u] \in Nat
    <2>1. Consistent
      BY DEF IInv
    <2>2. /\ DOMAIN func = Workers /\ DOMAIN state = Workers /\ DOMAIN arg = Workers
          /\ DOMAIN stack = Workers /\ DOMAIN slot = Workers /\ DOMAIN zombie = Workers
          /\ DOMAIN pc = Workers /\ DOMAIN reg = Workers /\ DOMAIN due = Workers
          /\ DOMAIN life = Workers /\ DOMAIN given = Workers /\ DOMAIN runs = Workers
      BY DEF IInv, TypeOK
    <2>3. ASSUME NEW u \in Workers
          PROVE  DOMAIN reg[u] = {"func", "arg", "sp"} /\ runs[u] \in Nat /\ life[u] \in Nat
      BY DEF IInv, TypeOK, Given, Lives
    <2>4. QED
      BY <2>1, <2>2, <2>3
  <1>workers. /\ \A u \in Workers : u \in Nat /\ u >= 1 /\ u <= N - 1
              /\ \A n \in Nat : n >= 1 /\ n <= N - 1 => n \in Workers
              /\ 0 \notin Lives /\ N \in Nat /\ N > 1
    BY ThreadsAssumption DEF Workers, Lives
  <1>num. num \in Nat /\ num >= 1 /\ num <= N
    BY ThreadsAssumption DEF IInv, TypeOK
  <1>main. /\ DOMAIN main = {"pc", "t", "len", "flag"}
           /\ main.t \in Nat /\ main.t >= 1 /\ main.len \in Nat /\ main.len <= N - 1
    BY ThreadsAssumption DEF IInv, TypeOK
  <1> USE <1>blocks, <1>workers, <1>num, <1>main DEF Consistent, MainTarget, RanMeansCleared,
        FreeIsUntouched, RawIsUntouched, CreatingIsQuiet, ResetIsQuiet, ReadsOwnBlock,
        Untouched, Rest, Busy, RawPcs, startup_state, os, modes, worker, ghosts,
        At, Main, Idle, CleanBlock, NULL, InitStack, NothingGiven
  <1>1. ASSUME NEW attr \in Attributes, osThreadNew(attr)
        PROVE  Consistent'
    <2>1. MainTarget'
      BY <1>1 DEF osThreadNew
    <2>2. RanMeansCleared'
      BY <1>1 DEF osThreadNew
    <2>3. FreeIsUntouched'
      BY <1>1 DEF osThreadNew
    <2>4. RawIsUntouched'
      BY <1>1 DEF osThreadNew
    <2>5. CreatingIsQuiet'
      BY <1>1 DEF osThreadNew, Attributes
    <2>6. ResetIsQuiet'
      BY <1>1 DEF osThreadNew
    <2>7. ReadsOwnBlock'
      BY <1>1 DEF osThreadNew
    <2>8. QED
      BY <2>1, <2>2, <2>3, <2>4, <2>5, <2>6, <2>7 DEF Consistent
  <1>2. CASE osKernelStart
    <2>1. MainTarget'
      BY <1>2 DEF osKernelStart
    <2>2. RanMeansCleared'
      BY <1>2 DEF osKernelStart
    <2>3. FreeIsUntouched'
      BY <1>2 DEF osKernelStart
    <2>4. RawIsUntouched'
      BY <1>2 DEF osKernelStart
    <2>5. CreatingIsQuiet'
      BY <1>2 DEF osKernelStart
    <2>6. ResetIsQuiet'
      BY <1>2 DEF osKernelStart
    <2>7. ReadsOwnBlock'
      <3>1. main.pc = "idle" /\ main'.pc = "startModes"
        BY <1>2 DEF osKernelStart
      <3>2. UNCHANGED <<func, arg, stack, pc, reg, given>>
        BY <1>2 DEF osKernelStart
      <3>3. QED
        BY <3>1, <3>2
    <2>8. QED
      BY <2>1, <2>2, <2>3, <2>4, <2>5, <2>6, <2>7 DEF Consistent
  <1>3. ASSUME ResetAllowed, osKernelReset
        PROVE  Consistent'
    BY <1>3 DEF ResetAllowed, osKernelReset
  <1>4. CASE osThreadJoinAll
    BY <1>4 DEF osThreadJoinAll
  <1>5. ASSUME NEW t \in Workers, osThreadJoin(t)
        PROVE  Consistent'
    BY <1>5 DEF osThreadJoin
  <1>6. ASSUME NEW t \in Workers, osThreadTerminate(t)
        PROVE  Consistent'
    BY <1>6 DEF osThreadTerminate
  <1>7. CASE NewFunc
    BY <1>7 DEF NewFunc
  <1>8. CASE NewArg
    BY <1>8 DEF NewArg
  <1>9. CASE NewMode
    BY <1>9 DEF NewMode
  <1>10. CASE NewSlot
    BY <1>10 DEF NewSlot
  <1>11. CASE StartModes
    BY <1>11 DEF StartModes
  <1>12. CASE Joined
    BY <1>12 DEF Joined
  <1>13. CASE ReapSlot
    BY <1>13 DEF ReapSlot
  <1>14. CASE ReapZombie
    BY <1>14 DEF ReapZombie
  <1>15. CASE JoinAllCheck
    BY <1>15 DEF JoinAllCheck
  <1>16. ASSUME NEW to \in {"idle", "halt"}, JoinAllPass(to)
        PROVE  Consistent'
    <2>1. main.pc = "joinAll" /\ kernel # "raw" /\ main'.t = 1
          /\ main'.pc \in {"joinAll", "idle", "halt"}
      BY <1>16 DEF JoinAllPass
    <2>2. 1 \in Workers
      BY ThreadsAssumption DEF Workers
    <2>3. UNCHANGED <<func, state, arg, stack, num, kernel, slot, zombie, pc, reg, due,
                      tohost, life, given, runs>>
      BY <1>16 DEF JoinAllPass
    <2>4. QED
      BY <2>1, <2>2, <2>3
  <1>17. CASE TerminateFunc
    BY <1>17 DEF TerminateFunc
  <1>18. CASE ResetModes
    BY <1>18 DEF ResetModes
  <1>19. CASE hwthread_start
    BY <1>19 DEF hwthread_start
  <1>20. CASE RawSlots
    BY <1>20 DEF RawSlots
  <1>21. CASE RawModes
    BY <1>21 DEF RawModes
  <1>22. CASE hwthread_done
    BY <1>22 DEF hwthread_done
  <1>23. CASE Done
    BY <1>23 DEF Done
  <1>24. CASE MainReturns
    BY <1>24 DEF MainReturns
  <1> HIDE <1>blocks, <1>workers, <1>num, <1>main DEF Consistent, MainTarget, RanMeansCleared,
        FreeIsUntouched, RawIsUntouched, CreatingIsQuiet, ResetIsQuiet, ReadsOwnBlock,
        Untouched, Rest, Busy, RawPcs, startup_state, os, modes, worker, ghosts,
        At, Main, Idle, CleanBlock, NULL, InitStack, NothingGiven
  <1>25. QED
    BY <1>1, <1>2, <1>3, <1>4, <1>5, <1>6, <1>7, <1>8, <1>9, <1>10, <1>11,
       <1>12, <1>13, <1>14, <1>15, <1>16, <1>17, <1>18, <1>19, <1>20, <1>21,
       <1>22, <1>23, <1>24
       DEF Call, Step

(* A worker that clears its function pointer has run the function. *)
LEMMA WorkerKeepsEnd ==
  ASSUME IInv, Ended, NEW t \in Workers, Worker(t)
  PROVE  Ended'
  <1>blocks. /\ Consistent
             /\ DOMAIN func = Workers /\ DOMAIN state = Workers /\ DOMAIN arg = Workers
             /\ DOMAIN stack = Workers /\ DOMAIN slot = Workers /\ DOMAIN zombie = Workers
             /\ DOMAIN pc = Workers /\ DOMAIN reg = Workers /\ DOMAIN due = Workers
             /\ DOMAIN life = Workers /\ DOMAIN given = Workers /\ DOMAIN runs = Workers
             /\ \A u \in Workers : DOMAIN reg[u] = {"func", "arg", "sp"} /\ runs[u] \in Nat
    BY DEF IInv, TypeOK, Given
  <1> USE <1>blocks DEF Ended, ClearedMeansDone, NothingLeft, LoopsHaveSeen, Created,
        Consistent, MainTarget, RanMeansCleared, FreeIsUntouched, RawIsUntouched,
        CreatingIsQuiet, ResetIsQuiet, Untouched, Rest, Busy, RawPcs, startup_state, os, modes,
        worker, ghosts, Goto, Runs, CleanBlock, NULL,
        InitStack, NothingGiven
  <1>1. CASE Poll(t)
    BY <1>1 DEF Poll
  <1>2. CASE LoadSp(t)
    BY <1>2 DEF LoadSp
  <1>3. CASE LoadArg(t)
    BY <1>3 DEF LoadArg
  <1>4. CASE Jump(t)
    BY <1>4 DEF Jump
  <1>5. CASE Return(t)
    BY <1>5 DEF Return
  <1>6. CASE CleanFunc(t)
    BY <1>6 DEF CleanFunc
  <1>7. CASE WaitOver(t)
    BY <1>7 DEF WaitOver
  <1>8. CASE Sleep(t)
    BY <1>8 DEF Sleep
  <1>9. CASE SleepAgain(t)
    BY <1>9 DEF SleepAgain
  <1>10. CASE Expire(t)
    BY <1>10 DEF Expire
  <1>11. CASE DelayOver(t)
    BY <1>11 DEF DelayOver
  <1>12. QED
    BY <1>1, <1>2, <1>3, <1>4, <1>5, <1>6, <1>7, <1>8, <1>9, <1>10, <1>11
       DEF Worker

(* Thread 0 ends the simulation after it has seen all pointers cleared. *)
LEMMA MainKeepsEnd ==
  ASSUME IInv, Ended, Call \/ Step, "resetAnyTime" \notin Uses
  PROVE  Ended'
  <1>blocks. /\ Consistent
             /\ DOMAIN func = Workers /\ DOMAIN state = Workers /\ DOMAIN arg = Workers
             /\ DOMAIN stack = Workers /\ DOMAIN slot = Workers /\ DOMAIN zombie = Workers
             /\ DOMAIN pc = Workers /\ DOMAIN reg = Workers /\ DOMAIN due = Workers
             /\ DOMAIN life = Workers /\ DOMAIN given = Workers /\ DOMAIN runs = Workers
             /\ \A u \in Workers : DOMAIN reg[u] = {"func", "arg", "sp"} /\ runs[u] \in Nat
             /\ \A u \in Workers : life[u] \in Nat
    <2>1. Consistent
      BY DEF IInv
    <2>2. /\ DOMAIN func = Workers /\ DOMAIN state = Workers /\ DOMAIN arg = Workers
          /\ DOMAIN stack = Workers /\ DOMAIN slot = Workers /\ DOMAIN zombie = Workers
          /\ DOMAIN pc = Workers /\ DOMAIN reg = Workers /\ DOMAIN due = Workers
          /\ DOMAIN life = Workers /\ DOMAIN given = Workers /\ DOMAIN runs = Workers
      BY DEF IInv, TypeOK
    <2>3. ASSUME NEW u \in Workers
          PROVE  DOMAIN reg[u] = {"func", "arg", "sp"} /\ runs[u] \in Nat /\ life[u] \in Nat
      BY DEF IInv, TypeOK, Given, Lives
    <2>4. QED
      BY <2>1, <2>2, <2>3
  <1>workers. /\ \A u \in Workers : u \in Nat /\ u >= 1 /\ u <= N - 1
              /\ \A n \in Nat : n >= 1 /\ n <= N - 1 => n \in Workers
              /\ 0 \notin Lives /\ N \in Nat /\ N > 1
    BY ThreadsAssumption DEF Workers, Lives
  <1>num. num \in Nat /\ num >= 1 /\ num <= N
    BY ThreadsAssumption DEF IInv, TypeOK
  <1>main. /\ DOMAIN main = {"pc", "t", "len", "flag"}
           /\ main.t \in Nat /\ main.t >= 1 /\ main.len \in Nat /\ main.len <= N - 1
    BY ThreadsAssumption DEF IInv, TypeOK
  <1> USE <1>blocks, <1>workers, <1>num, <1>main DEF Ended, ClearedMeansDone, NothingLeft, LoopsHaveSeen, Created,
        Consistent, MainTarget, RanMeansCleared, FreeIsUntouched, RawIsUntouched,
        CreatingIsQuiet, ResetIsQuiet, Untouched, Rest, Busy, RawPcs, startup_state, os, modes,
        worker, ghosts, At, Main, Idle,
        CleanBlock, NULL, InitStack, NothingGiven
  <1>1. ASSUME NEW attr \in Attributes, osThreadNew(attr)
        PROVE  Ended'
    BY <1>1 DEF osThreadNew
  <1>2. CASE osKernelStart
    BY <1>2 DEF osKernelStart
  <1>3. ASSUME ResetAllowed, osKernelReset
        PROVE  Ended'
    BY <1>3 DEF ResetAllowed, osKernelReset
  <1>4. CASE osThreadJoinAll
    BY <1>4 DEF osThreadJoinAll
  <1>5. ASSUME NEW t \in Workers, osThreadJoin(t)
        PROVE  Ended'
    BY <1>5 DEF osThreadJoin
  <1>6. ASSUME NEW t \in Workers, osThreadTerminate(t)
        PROVE  Ended'
    BY <1>6 DEF osThreadTerminate
  <1>7. CASE NewFunc
    BY <1>7 DEF NewFunc
  <1>8. CASE NewArg
    BY <1>8 DEF NewArg
  <1>9. CASE NewMode
    BY <1>9 DEF NewMode
  <1>10. CASE NewSlot
    BY <1>10 DEF NewSlot
  <1>11. CASE StartModes
    BY <1>11 DEF StartModes
  <1>12. CASE Joined
    BY <1>12 DEF Joined
  <1>13. CASE ReapSlot
    BY <1>13 DEF ReapSlot
  <1>14. CASE ReapZombie
    BY <1>14 DEF ReapZombie
  <1>15. CASE JoinAllCheck
    BY <1>15 DEF JoinAllCheck
  <1>16. ASSUME NEW to \in {"idle", "halt"}, JoinAllPass(to)
        PROVE  Ended'
    BY <1>16 DEF JoinAllPass
  <1>17. CASE TerminateFunc
    BY <1>17 DEF TerminateFunc
  <1>18. CASE ResetModes
    BY <1>18 DEF ResetModes
  <1>19. CASE hwthread_start
    BY <1>19 DEF hwthread_start
  <1>20. CASE RawSlots
    BY <1>20 DEF RawSlots
  <1>21. CASE RawModes
    BY <1>21 DEF RawModes
  <1>22. CASE hwthread_done
    <2>1. main.t \in Nat /\ main.t <= N - 1
      BY <1>22 DEF hwthread_done
    <2>2. CASE func[main.t] # NULL
      BY <1>22, <2>1, <2>2 DEF hwthread_done
    <2>3. CASE func[main.t] = NULL /\ main.t < N - 1
      BY <1>22, <2>1, <2>3 DEF hwthread_done
    <2>4. CASE func[main.t] = NULL /\ ~ main.t < N - 1
      BY <1>22, <2>1, <2>4 DEF hwthread_done
    <2>5. QED
      BY <2>2, <2>3, <2>4
  <1>23. CASE Done
    BY <1>23 DEF Done
  <1>24. CASE MainReturns
    BY <1>24 DEF MainReturns
  <1> HIDE <1>blocks, <1>workers, <1>num, <1>main DEF Ended, ClearedMeansDone, NothingLeft, LoopsHaveSeen, Created,
        Consistent, MainTarget, RanMeansCleared, FreeIsUntouched, RawIsUntouched,
        CreatingIsQuiet, ResetIsQuiet, Untouched, Rest, Busy, RawPcs, startup_state, os, modes,
        worker, ghosts, At, Main, Idle,
        CleanBlock, NULL, InitStack, NothingGiven
  <1>25. QED
    BY <1>1, <1>2, <1>3, <1>4, <1>5, <1>6, <1>7, <1>8, <1>9, <1>10, <1>11,
       <1>12, <1>13, <1>14, <1>15, <1>16, <1>17, <1>18, <1>19, <1>20, <1>21,
       <1>22, <1>23, <1>24
       DEF Call, Step

-----------------------------------------------------------------------------
(***************************************************************************)
(* The threads that the API promises                                       *)
(***************************************************************************)

View == <<given, phase, does, reaping, tohost = 1 /\ main.pc = "halt",
          tohost = 1 /\ main.pc = "leave">>

(* Nothing is seen of a step that leaves the creations alone and that      *)
(* nobody begins or ends a function in.                                    *)
LEMMA UnseenSteps ==
  ASSUME UNCHANGED <<given, runs>>,
         \A u \in Workers : /\ pc'[u] = "run" <=> pc[u] = "run"
                            /\ pc[u] = "run" => reg'[u] = reg[u]
  PROVE  UNCHANGED <<given, phase, does>>
  <1>1. ASSUME NEW u \in Workers
        PROVE  Phase(u)' = Phase(u) /\ (Phase(u) = "running" => reg'[u] = reg[u])
    BY DEF Phase
  <1>2. phase' = phase
    BY <1>1 DEF phase
  <1>3. does' = does
    BY <1>1 DEF does
  <1>4. QED
    BY <1>2, <1>3

(* A change of one thread in the eyes of its creator. *)
LEMMA SeenSteps ==
  ASSUME NEW t \in Workers, NEW p, NEW j, Phase(t)' = p,
         j = IF p = "running" THEN reg'[t] ELSE NothingGiven,
         \A u \in Workers \ {t} : Phase(u)' = Phase(u) /\ reg'[u] = reg[u]
  PROVE  phase' = [phase EXCEPT ![t] = p] /\ does' = [does EXCEPT ![t] = j]
  <1>1. ASSUME NEW u \in Workers
        PROVE  /\ phase'[u] = [phase EXCEPT ![t] = p][u]
               /\ does'[u] = [does EXCEPT ![t] = j][u]
    BY DEF phase, does
  <1>2. /\ phase' = [u \in Workers |-> phase'[u]]
        /\ [phase EXCEPT ![t] = p] = [u \in Workers |-> [phase EXCEPT ![t] = p][u]]
        /\ does' = [u \in Workers |-> does'[u]]
        /\ [does EXCEPT ![t] = j] = [u \in Workers |-> [does EXCEPT ![t] = j][u]]
    BY DEF phase, does
  <1>3. QED
    BY <1>1, <1>2

(* Of a worker its creator sees that it enters its function, with what it  *)
(* was given, and that it comes back.                                      *)
LEMMA WorkerImplements ==
  ASSUME IInv, Ended, NEW t \in Workers, Worker(t)
  PROVE  Abstract!Next \/ UNCHANGED View
  <1>types. /\ DOMAIN pc = Workers /\ DOMAIN reg = Workers /\ DOMAIN runs = Workers
            /\ runs[t] \in Nat /\ reg[t] \in Given /\ given[t] \in Given
    BY DEF IInv, TypeOK
  <1>main. UNCHANGED <<main, tohost, given>> /\ tohost # 1 /\ reaping' = reaping
    BY DEF Worker, Poll, LoadSp, LoadArg, Jump, Return, CleanFunc, WaitOver, Sleep, SleepAgain,
       Expire, DelayOver, Goto, Runs, ghosts, reaping
  <1>1. CASE Jump(t)
    <2>1. /\ pc[t] = "jump" /\ pc' = [pc EXCEPT ![t] = "run"]
          /\ runs' = [runs EXCEPT ![t] = runs[t] + 1] /\ UNCHANGED <<reg, given>>
      BY <1>1 DEF Jump, Goto
    <2>2. \A u \in Workers \ {t} : Phase(u)' = Phase(u) /\ reg'[u] = reg[u]
      BY <1>types, <2>1 DEF Phase
    <2>3. runs[t] = 0 /\ runs'[t] = 1 /\ pc'[t] = "run"
      BY <1>types, <2>1 DEF IInv, Consistent, RanMeansCleared, Busy
    <2>4. CASE given[t] = NothingGiven
      <3>1. \A u \in Workers : Phase(u)' = Phase(u) /\ (Phase(u) = "running" => reg'[u] = reg[u])
        BY <2>1, <2>2, <2>4 DEF Phase
      <3>2. phase' = phase /\ does' = does
        BY <3>1 DEF phase, does
      <3>3. QED
        BY <1>main, <3>2 DEF View
    <2>5. CASE given[t] # NothingGiven
      <3>1. reg[t].func = given[t].func /\ reg[t].arg = given[t].arg /\ reg[t].sp = given[t].sp
        BY <2>1, <2>5 DEF IInv, Consistent, ReadsOwnBlock, Busy
      <3>2. reg[t] = given[t]
        BY <1>types, <3>1 DEF Given
      <3>3. Phase(t) = "created" /\ Phase(t)' = "running" /\ reg'[t] = given[t]
        BY <2>1, <2>3, <2>5, <3>2 DEF Phase
      <3>4. phase' = [phase EXCEPT ![t] = "running"] /\ does' = [does EXCEPT ![t] = given[t]]
        BY <2>2, <3>3, SeenSteps
      <3>5. phase[t] = "created"
        BY <3>3 DEF phase
      <3>6. Abstract!Enter(t)
        BY <1>main, <3>4, <3>5 DEF Abstract!Enter
      <3>7. QED
        BY <1>main, <3>6 DEF Abstract!Next
    <2>6. QED
      BY <2>4, <2>5
  <1>2. CASE Return(t)
    <2>1. /\ pc[t] = "run" /\ pc' = [pc EXCEPT ![t] = "cleanFunc"]
          /\ reg' = [reg EXCEPT ![t] = NothingGiven] /\ UNCHANGED <<runs, given>>
      BY <1>2 DEF Return, Goto, ghosts
    <2>2. \A u \in Workers \ {t} : Phase(u)' = Phase(u) /\ reg'[u] = reg[u]
      BY <1>types, <2>1 DEF Phase
    <2>3. CASE given[t] = NothingGiven
      <3>1. Phase(t)' = Phase(t) /\ Phase(t) # "running"
        BY <2>1, <2>3 DEF Phase
      <3>2. \A u \in Workers : Phase(u)' = Phase(u) /\ (Phase(u) = "running" => reg'[u] = reg[u])
        BY <2>2, <3>1
      <3>3. phase' = phase /\ does' = does
        BY <3>2 DEF phase, does
      <3>4. QED
        BY <1>main, <3>3 DEF View
    <2>4. CASE given[t] # NothingGiven
      <3>1. runs[t] = 1
        BY <2>1, <2>4 DEF Ended, ClearedMeansDone, Created
      <3>2. Phase(t) = "running" /\ Phase(t)' = "back"
        BY <1>types, <2>1, <2>4, <3>1 DEF Phase
      <3>3. phase' = [phase EXCEPT ![t] = "back"] /\ does' = [does EXCEPT ![t] = NothingGiven]
        BY <2>2, <3>2, SeenSteps
      <3>4. phase[t] = "running"
        BY <3>2 DEF phase
      <3>5. Abstract!Leave(t)
        BY <1>main, <3>3, <3>4 DEF Abstract!Leave
      <3>6. QED
        BY <1>main, <3>5 DEF Abstract!Next
    <2>5. QED
      BY <2>3, <2>4
  <1>3. CASE Poll(t) \/ LoadSp(t) \/ LoadArg(t)
    <2>1. UNCHANGED <<given, runs>> /\ pc[t] # "run" /\ pc'[t] # "run"
          /\ \A u \in Workers \ {t} : pc'[u] = pc[u] /\ reg'[u] = reg[u]
      BY <1>3, <1>types DEF Poll, LoadSp, LoadArg, Goto, ghosts
    <2>2. QED
      BY <1>main, <2>1, UnseenSteps DEF View
  <1>4. CASE \/ CleanFunc(t) \/ WaitOver(t) \/ Sleep(t) \/ SleepAgain(t) \/ Expire(t)
            \/ DelayOver(t)
    <2>1. UNCHANGED <<given, runs, reg>> /\ pc[t] # "run" /\ pc'[t] # "run"
          /\ \A u \in Workers \ {t} : pc'[u] = pc[u]
      BY <1>4, <1>types DEF CleanFunc, WaitOver, Sleep, SleepAgain, Expire, DelayOver, Goto, ghosts
    <2>2. QED
      BY <1>main, <2>1, UnseenSteps DEF View
  <1>5. QED
    BY <1>1, <1>2, <1>3, <1>4 DEF Worker

(* The creation of a thread that its creator knows nothing of. *)
LEMMA CreationImplements ==
  ASSUME NEW t \in Workers, NEW j \in Given, j # NothingGiven,
         DOMAIN given = Workers, given[t] = NothingGiven, given' = [given EXCEPT ![t] = j],
         runs'[t] = 0, \A u \in Workers \ {t} : runs'[u] = runs[u],
         UNCHANGED <<pc, reg, tohost>>, tohost # 1, reaping' = reaping
  PROVE  Abstract!Next
  <1>1. Phase(t) = "none" /\ Phase(t)' = "created"
    BY DEF Phase
  <1>2. \A u \in Workers \ {t} : Phase(u)' = Phase(u) /\ reg'[u] = reg[u]
    BY DEF Phase
  <1>3. phase' = [phase EXCEPT ![t] = "created"] /\ does' = [does EXCEPT ![t] = NothingGiven]
    BY <1>1, <1>2, SeenSteps
  <1>4. does' = does /\ phase[t] = "none"
    BY <1>1, <1>3 DEF does, phase
  <1>5. Abstract!Create(t, j)
    BY <1>3, <1>4 DEF Abstract!Create
  <1>6. QED
    BY <1>5 DEF Abstract!Next

(* Of thread 0 it sees the call that creates, terminates, reaps or resets, *)
(* and the end of the simulation.                                          *)
LEMMA MainImplements ==
  ASSUME IInv, Ended, Call \/ Step, "resetAnyTime" \notin Uses
  PROVE  Abstract!Next \/ UNCHANGED View
  <1>types. /\ DOMAIN given = Workers /\ DOMAIN runs = Workers
            /\ \A u \in Workers : runs[u] \in Nat /\ life[u] \in Nat
            /\ DOMAIN main = {"pc", "t", "len", "flag"}
    BY DEF IInv, TypeOK, Lives
  <1>target. main.pc # "joinAll" => main.t \in Workers
    BY DEF IInv, Consistent, MainTarget
  <1>worker. UNCHANGED <<pc, reg>> /\ tohost # 1
    <2>1. UNCHANGED worker /\ (main.pc \notin {"halt", "leave"} \/ Done)
      BY DEF Call, Step, MainReturns, osThreadNew, osKernelStart, osKernelReset, osThreadJoinAll, osThreadJoin,
         osThreadTerminate, NewFunc, NewArg, NewMode, NewSlot, StartModes, Joined, ReapSlot,
         ReapZombie, JoinAllCheck, JoinAllPass, TerminateFunc, ResetModes, hwthread_start,
         RawSlots, RawModes, hwthread_done, Done, At
    <2>2. QED
      BY <2>1 DEF Done, worker, Ended, LoopsHaveSeen
  <1>back. ASSUME NEW t \in Workers, func[t] = NULL \/ ~ Created(t), main.pc # "newFunc"
           PROVE  phase[t] \in {"none", "back"}
    BY <1>back DEF Ended, ClearedMeansDone, Created, Phase, phase
  <1>quiet. ASSUME UNCHANGED <<given, runs, tohost>>, UNCHANGED reaping
            PROVE  UNCHANGED View
    BY <1>worker, <1>quiet, UnseenSteps DEF View
  <1>reap. ASSUME NEW t \in Workers, UNCHANGED <<given, runs, tohost>>,
                  func[t] = NULL \/ ~ Created(t),
                  main.pc \in {"join", "joinAll", "cleanFunc"}, reaping' = {t}
           PROVE  Abstract!Next
    <2>1. phase[t] \in {"none", "back"}
      BY <1>reap, <1>back
    <2>2. reaping = {}
      BY <1>reap DEF reaping
    <2>3. UNCHANGED <<given, phase, does>>
      BY <1>worker, <1>reap, UnseenSteps
    <2>4. Abstract!Reap(t)
      BY <1>worker, <1>reap, <2>1, <2>2, <2>3 DEF Abstract!Reap
    <2>5. QED
      BY <1>worker, <2>4 DEF Abstract!Next
  <1>1. ASSUME NEW attr \in Attributes, osThreadNew(attr)
        PROVE  Abstract!Next
    <2>1. num \in Workers /\ life[num] + 1 \in Lives
      BY <1>1, ThreadsAssumption DEF osThreadNew, IInv, TypeOK, Workers
    <2>2. PICK t \in Workers, n \in Lives : t = num /\ n = life[t] + 1
      BY <2>1
    <2>3. /\ kernel # "raw" /\ main.pc = "idle" /\ main'.pc = "newFunc" /\ UNCHANGED tohost
          /\ given' = [given EXCEPT ![t] = [func |-> n, arg |-> n,
                         sp |-> IF attr = "stack" THEN n ELSE InitStack]]
          /\ runs' = [runs EXCEPT ![t] = 0]
      BY <1>1, <1>types, <2>2 DEF osThreadNew, At
    <2> DEFINE j == [func |-> n, arg |-> n, sp |-> IF attr = "stack" THEN n ELSE InitStack]
    <2>4. j \in Given /\ j # NothingGiven
      BY DEF Given, NothingGiven, NULL, Lives
    <2>5. given[t] = NothingGiven
      BY <2>2, <2>3 DEF Ended, NothingLeft, Created, Workers
    <2>6. reaping' = reaping
      BY <2>3 DEF reaping
    <2>7. runs'[t] = 0 /\ \A u \in Workers \ {t} : runs'[u] = runs[u]
      BY <1>types, <2>3
    <2>8. QED
      BY <1>types, <1>worker, <2>3, <2>4, <2>5, <2>6, <2>7, CreationImplements
  <1>2. CASE hwthread_start
    <2> DEFINE j == [NothingGiven EXCEPT !.func = 1]
    <2>1. PICK t \in Workers :
            /\ t = main.t /\ kernel = "raw" /\ main.pc = "idle" /\ UNCHANGED <<runs, tohost>>
            /\ main'.pc \in {"idle", "rawSlots"} /\ given' = [given EXCEPT ![t] = j]
      BY <1>2, <1>target, <1>types DEF hwthread_start, At
    <2>2. j \in Given /\ j # NothingGiven
      BY ThreadsAssumption DEF Given, NothingGiven, NULL, Lives, InitStack
    <2>3. given[t] = NothingGiven
      BY <2>1 DEF Ended, NothingLeft, Created, Workers
    <2>4. reaping' = reaping
      BY <2>1 DEF reaping
    <2>5. runs'[t] = 0 /\ \A u \in Workers \ {t} : runs'[u] = runs[u]
      BY <1>types, <2>1 DEF IInv, Consistent, RawIsUntouched
    <2> HIDE DEF j
    <2>6. QED
      BY <1>types, <1>worker, <2>1, <2>2, <2>3, <2>4, <2>5, CreationImplements
  <1>3. ASSUME NEW t \in Workers, osThreadTerminate(t)
        PROVE  Abstract!Next
    <2>1. /\ given' = [given EXCEPT ![t] = NothingGiven] /\ UNCHANGED <<runs, tohost>>
          /\ main.pc = "idle" /\ main'.pc = "cleanFunc"
      BY <1>3, <1>types DEF osThreadTerminate, At
    <2>2. Phase(t)' = "none"
      BY <1>types, <2>1 DEF Phase
    <2>3. \A u \in Workers \ {t} : Phase(u)' = Phase(u) /\ reg'[u] = reg[u]
      BY <1>types, <1>worker, <2>1 DEF Phase
    <2>4. phase' = [phase EXCEPT ![t] = "none"] /\ does' = [does EXCEPT ![t] = NothingGiven]
      BY <2>2, <2>3, SeenSteps
    <2>5. /\ given' = [u \in Workers |-> IF u \in {t} THEN NothingGiven ELSE given[u]]
          /\ phase' = [u \in Workers |-> IF u \in {t} THEN "none" ELSE phase[u]]
          /\ does' = [u \in Workers |-> IF u \in {t} THEN NothingGiven ELSE does[u]]
      BY <1>types, <2>1, <2>4 DEF phase, does
    <2>6. reaping' = reaping
      BY <2>1 DEF reaping
    <2>7. Abstract!Terminate(t)
      BY <2>1, <2>5, <2>6 DEF Abstract!Terminate, Abstract!Forget
    <2>8. QED
      BY <1>worker, <2>7 DEF Abstract!Next
  <1>4. CASE ResetModes
    <2>1. /\ given' = [t \in Workers |-> NothingGiven] /\ UNCHANGED tohost
          /\ main.pc = "resetModes" /\ main'.pc = "idle"
      BY <1>4, <1>types DEF ResetModes, At, Main, Idle
    <2>2. \A t \in Workers : Phase(t) # "running" /\ Phase(t)' = "none"
      BY <2>1 DEF Phase, IInv, Consistent, ResetIsQuiet, Rest
    <2>3. /\ given' = [u \in Workers |-> IF u \in Workers THEN NothingGiven ELSE given[u]]
          /\ phase' = [u \in Workers |-> IF u \in Workers THEN "none" ELSE phase[u]]
          /\ does' = [u \in Workers |-> IF u \in Workers THEN NothingGiven ELSE does[u]]
      BY <2>1, <2>2 DEF phase, does
    <2>4. reaping' = reaping /\ \A t \in Workers : phase[t] # "running"
      BY <2>1, <2>2 DEF reaping, phase
    <2>5. Abstract!Reset
      BY <2>1, <2>3, <2>4 DEF Abstract!Reset, Abstract!Forget
    <2>6. QED
      BY <1>worker, <2>5 DEF Abstract!Next
  <1>5. CASE Joined \/ TerminateFunc
    <2>1. PICK t \in Workers : t = main.t
      BY <1>5, <1>target DEF Joined, TerminateFunc, At
    <2>2. func[t] = NULL \/ ~ Created(t)
      BY <1>5, <2>1 DEF Joined, TerminateFunc, At, Ended, NothingLeft
    <2>3. /\ UNCHANGED <<given, runs, tohost>> /\ main.pc \in {"join", "cleanFunc"}
          /\ main'.pc = "reapSlot" /\ main'.t = t
      BY <1>5, <1>types, <2>1 DEF Joined, TerminateFunc, At, Main, ghosts
    <2>4. QED
      BY <1>reap, <2>2, <2>3 DEF reaping
  <1>6. CASE JoinAllCheck
    <2>1. UNCHANGED <<given, runs, tohost>> /\ main.pc = "joinAll"
      BY <1>6 DEF JoinAllCheck, At, ghosts
    <2>2. CASE func[main.t] = NULL
      <3>1. PICK t \in Workers : t = main.t
        BY <1>6, ThreadsAssumption DEF JoinAllCheck, IInv, TypeOK, Workers
      <3>2. main'.pc = "reapSlot" /\ main'.t = t
        BY <1>6, <1>types, <2>2, <3>1 DEF JoinAllCheck
      <3>3. QED
        BY <1>reap, <2>1, <2>2, <3>1, <3>2 DEF reaping
    <2>3. CASE func[main.t] # NULL
      <3>1. main'.pc = "joinAll"
        BY <1>6, <1>types, <2>1, <2>3 DEF JoinAllCheck
      <3>2. QED
        BY <1>quiet, <2>1, <3>1 DEF reaping
    <2>4. QED
      BY <2>2, <2>3
  <1>7. CASE ReapZombie
    <2>1. /\ UNCHANGED <<given, runs, tohost>> /\ main.pc = "reapZombie"
          /\ main'.pc \in {"idle", "joinAll"}
      BY <1>7, <1>types DEF ReapZombie, At, Idle, ghosts
    <2>2. UNCHANGED <<given, phase, does>>
      BY <1>worker, <2>1, UnseenSteps
    <2>3. Abstract!Reaped
      BY <2>1, <2>2 DEF Abstract!Reaped, reaping
    <2>4. QED
      BY <1>worker, <2>3 DEF Abstract!Next
  <1>8. CASE ReapSlot
    <2>1. UNCHANGED <<given, runs, tohost>> /\ main.pc = "reapSlot"
          /\ main'.pc = "reapZombie" /\ main'.t = main.t
      BY <1>8, <1>types DEF ReapSlot, At, Main, ghosts
    <2>2. QED
      BY <1>quiet, <2>1 DEF reaping
  <1>9. CASE Done
    <2>1. UNCHANGED <<given, runs, main>> /\ main.pc \in {"halt", "leave"} /\ tohost' = 1
      BY <1>9 DEF Done, At, ghosts
    <2>2. UNCHANGED <<given, phase, does>> /\ reaping' = reaping
      BY <1>worker, <2>1, UnseenSteps DEF reaping
    <2>3. CASE main.pc = "halt"
      <3>1. \A t \in Workers : phase[t] \in {"none", "back"}
        BY <1>back, <2>3 DEF Ended, LoopsHaveSeen
      <3>2. Abstract!Pass
        BY <1>worker, <2>1, <2>2, <2>3, <3>1 DEF Abstract!Pass
      <3>3. QED
        BY <1>worker, <3>2 DEF Abstract!Next
    <2>4. CASE main.pc = "leave"
      <3>1. Abstract!GoAway
        BY <1>worker, <2>1, <2>2, <2>4 DEF Abstract!GoAway
      <3>2. QED
        BY <1>worker, <3>1 DEF Abstract!Next
    <2>5. QED
      BY <2>1, <2>3, <2>4
  <1>10. ASSUME UNCHANGED <<given, runs, tohost>>,
                main.pc \notin {"reapSlot", "reapZombie"}, main'.pc \notin {"reapSlot", "reapZombie"}
         PROVE  UNCHANGED View
    BY <1>quiet, <1>10 DEF reaping
  <1>11. CASE osKernelStart \/ osKernelReset \/ osThreadJoinAll \/ MainReturns
    BY <1>10, <1>11, <1>types
       DEF osKernelStart, osKernelReset, osThreadJoinAll, MainReturns, At, Main, ghosts
  <1>12. CASE NewFunc \/ NewArg \/ NewMode \/ NewSlot \/ StartModes \/ RawSlots
    <2>1. /\ UNCHANGED <<given, runs, tohost>> /\ main.pc \notin {"reapSlot", "reapZombie"}
          /\ \E to \in {"newArg", "newMode", "newSlot", "idle", "rawModes"} : Main(to)
      BY <1>12 DEF NewFunc, NewArg, NewMode, NewSlot, StartModes, RawSlots, At, ghosts
    <2>2. main'.pc \notin {"reapSlot", "reapZombie"}
      BY <1>types, <2>1 DEF Main, Idle
    <2>3. QED
      BY <1>10, <2>1, <2>2
  <1>13. CASE RawModes \/ hwthread_done
    <2>1. /\ UNCHANGED <<given, runs, tohost>> /\ main.pc \in {"rawModes", "rawDone"}
          /\ main'.pc \in {"rawDone", "halt"}
      BY <1>13, <1>types DEF RawModes, hwthread_done, At, ghosts
    <2>2. QED
      BY <1>10, <2>1
  <1>14. ASSUME NEW t \in Workers, osThreadJoin(t)
         PROVE  UNCHANGED View
    BY <1>10, <1>14, <1>types DEF osThreadJoin, At, ghosts
  <1>15. ASSUME NEW to \in {"idle", "halt"}, JoinAllPass(to)
         PROVE  UNCHANGED View
    BY <1>10, <1>15, <1>types DEF JoinAllPass, At, Idle, ghosts
  <1>16. QED
    BY <1>1, <1>2, <1>3, <1>4, <1>5, <1>6, <1>7, <1>8, <1>9, <1>11, <1>12, <1>13, <1>14, <1>15
       DEF Call, Step

-----------------------------------------------------------------------------
(***************************************************************************)
(* Theorems                                                                *)
(***************************************************************************)

(* IInv holds as long as osKernelReset is called within its contract. *)
THEOREM Invariance ==
  ASSUME "resetAnyTime" \notin Uses
  PROVE  Spec => []IInv
  <1>1. Init => IInv
    BY ThreadsAssumption
       DEF Init, IInv, TypeOK, Consistent, MainTarget, RanMeansCleared,
       FreeIsUntouched, RawIsUntouched, CreatingIsQuiet, ResetIsQuiet, ReadsOwnBlock,
       Untouched, Rest, Busy, RawPcs, Idle, WorkerPcs, MainPcs, Workers, Lives, NULL,
       InitStack, Given, NothingGiven
  <1>2. IInv /\ [Next]_vars => IInv'
    <2> SUFFICES ASSUME IInv, [Next]_vars PROVE IInv'
      OBVIOUS
    <2>1. CASE Call \/ Step
      BY <2>1, MainKeepsTypes, MainKeeps DEF IInv
    <2>2. ASSUME NEW t \in Workers, Worker(t)
          PROVE  IInv'
      BY <2>2, WorkerKeepsTypes, WorkerKeeps DEF IInv
    <2>3. CASE UNCHANGED vars
      <3>1. TypeOK'
        BY <2>3 DEF IInv, TypeOK, vars, startup_state, os, modes, worker, ghosts
      <3>2. Consistent'
        BY <2>3 DEF IInv, Consistent, MainTarget, RanMeansCleared, FreeIsUntouched,
           RawIsUntouched, CreatingIsQuiet, ResetIsQuiet, ReadsOwnBlock, Untouched,
           vars, startup_state, os, modes, worker, ghosts
      <3>3. QED
        BY <3>1, <3>2 DEF IInv
    <2>4. QED
      BY <2>1, <2>2, <2>3 DEF Next
  <1>3. QED
    BY <1>1, <1>2, PTL DEF Spec

(* The types are kept. *)
THEOREM TypeCorrectness ==
  ASSUME "resetAnyTime" \notin Uses
  PROVE  Spec => []TypeOK
  <1>1. IInv => TypeOK
    BY DEF IInv
  <1>2. QED
    BY Invariance, <1>1, PTL

(* startup.S runs the function, the argument and the stack of the last     *)
(* creation, although the block is written and read in pieces.             *)
THEOREM OwnFunction ==
  ASSUME "resetAnyTime" \notin Uses
  PROVE  Spec => []RunsOwnFunction
  <1>1. IInv => RunsOwnFunction
    <2> SUFFICES ASSUME IInv, NEW t \in Workers, pc[t] = "run", given[t] # NothingGiven
                 PROVE  reg[t] = given[t]
      BY DEF RunsOwnFunction
    <2>1. reg[t] \in Given /\ given[t] \in Given
      BY DEF IInv, TypeOK
    <2>2. reg[t].func = given[t].func /\ reg[t].arg = given[t].arg /\ reg[t].sp = given[t].sp
      BY DEF IInv, Consistent, ReadsOwnBlock
    <2>3. QED
      BY <2>1, <2>2 DEF Given
  <1>2. QED
    BY Invariance, <1>1, PTL

(* No creation is run twice. *)
THEOREM OneRun ==
  ASSUME "resetAnyTime" \notin Uses
  PROVE  Spec => []EachLifeRunsOnce
  <1>1. IInv => EachLifeRunsOnce
    BY DEF IInv, Consistent, RanMeansCleared, EachLifeRunsOnce
  <1>2. QED
    BY Invariance, <1>1, PTL

(* What thread 0 has seen of the ends of the others is so. *)
THEOREM EndInvariance ==
  ASSUME "resetAnyTime" \notin Uses
  PROVE  Spec => []Ended
  <1>1. Init => Ended
    BY DEF Init, Ended, ClearedMeansDone, NothingLeft, LoopsHaveSeen, Created, Idle,
       NothingGiven, Rest
  <1>2. IInv /\ Ended /\ [Next]_vars => Ended'
    <2> SUFFICES ASSUME IInv, Ended, [Next]_vars PROVE Ended'
      OBVIOUS
    <2>1. CASE Call \/ Step
      BY <2>1, MainKeepsEnd
    <2>2. ASSUME NEW t \in Workers, Worker(t)
          PROVE  Ended'
      BY <2>2, WorkerKeepsEnd
    <2>3. CASE UNCHANGED vars
      BY <2>3 DEF Ended, ClearedMeansDone, NothingLeft, LoopsHaveSeen, Created,
         vars, startup_state, os, modes, worker, ghosts
    <2>4. QED
      BY <2>1, <2>2, <2>3 DEF Next
  <1>3. QED
    BY <1>1, <1>2, Invariance, PTL DEF Spec

(* A simulation that ends behind osThreadJoinAll or the loop of app/main.c *)
(* has run every thread that was started and not terminated to its end.    *)
THEOREM PassedThreadsAreDone ==
  ASSUME "resetAnyTime" \notin Uses
  PROVE  Spec => []PassedMeansAllDone
  <1>1. Ended => PassedMeansAllDone
    BY DEF Ended, ClearedMeansDone, LoopsHaveSeen, Created, PassedMeansAllDone
  <1>2. QED
    BY <1>1, EndInvariance, PTL

(* Seen by their creator, threads are created once, run what they were     *)
(* given and come back, and are reaped and passed only then: every step of *)
(* thread 0 and of a worker is one of AbstractThreads or nothing.          *)
THEOREM ThreadsAsPromised ==
  ASSUME "resetAnyTime" \notin Uses
  PROVE  Spec => ImplementsThreads
  <1>1. Init => Abstract!Init
    <2>1. ASSUME Init, NEW t \in Workers
          PROVE  Phase(t) = "none"
      BY <2>1 DEF Init, Phase
    <2>2. Init => phase = [t \in Workers |-> "none"] /\ does = [t \in Workers |-> NothingGiven]
      BY <2>1 DEF phase, does
    <2>3. Init => given = [t \in Workers |-> NothingGiven] /\ reaping = {} /\ (tohost = 1) = FALSE
      BY DEF Init, Idle, reaping
    <2>4. QED
      BY <2>2, <2>3 DEF Abstract!Init
  <1>2. IInv /\ Ended /\ [Next]_vars => [Abstract!Next]_View
    <2> SUFFICES ASSUME IInv, Ended, [Next]_vars PROVE Abstract!Next \/ UNCHANGED View
      OBVIOUS
    <2>1. CASE Call \/ Step
      BY <2>1, MainImplements
    <2>2. ASSUME NEW t \in Workers, Worker(t)
          PROVE  Abstract!Next \/ UNCHANGED View
      BY <2>2, WorkerImplements
    <2>3. CASE UNCHANGED vars
      <3>1. UNCHANGED <<given, runs, pc, reg, main, tohost>>
        BY <2>3 DEF vars, worker, ghosts
      <3>2. QED
        BY <3>1, UnseenSteps DEF View, reaping
    <2>4. QED
      BY <2>1, <2>2, <2>3 DEF Next
  <1>3. QED
    BY <1>1, <1>2, Invariance, EndInvariance, PTL DEF Spec, ImplementsThreads, Abstract!Spec, View
=============================================================================
