-------------------------- MODULE FlexManage_proofs --------------------------
(***************************************************************************)
(* Proofs about FlexScheduler as the programs of the repository use it:    *)
(* one thread creates, tunes and ends the others, which run and return     *)
(* whenever they like.  However many threads there are, modes agree with   *)
(* priorities, and as long as the slot table has room for all of them      *)
(* every thread has the slot of its mode and gives it back.                *)
(***************************************************************************)
EXTENDS FlexScheduler_proofs

-----------------------------------------------------------------------------
(***************************************************************************)
(* One manager                                                             *)
(***************************************************************************)

(* Thread 0, which nobody terminates, is the only one that creates, ends   *)
(* and tunes threads; the others only run and return.                      *)
OneManager == Callers \subseteq {0} /\ 0 \notin Victims

CreatePcs == {"lockCreate", "createHbit", "createLbit", "createSlot"}
HardenPcs == {"lockHarden", "hardenSlot", "hardenMode", "hardenSoft"}
SoftenPcs == {"lockSoften", "softenSoft", "softenMode", "softenSlot"}
EndPcs    == {"reap", "lockEndSoft", "endSlot", "endSoft", "lockEndHard",
              "endHardSlot", "unlockEnd", "zombify"}

(* The modes of osKernelStart are written. *)
Started == running \/ pc[0] = "startRun"

(* The others are not inside a call of flexpret_scheduler.c. *)
OthersRun ==
  \A t \in Threads \ {0} : pc[t] \in {"idle", "exited"} \cup CleanPcs

(* Before that only thread 0 runs, and it only creates threads. *)
BeforeStart ==
  /\ running => pc[0] \notin {"startModes", "startRun"}
  /\ ~ Started =>
       /\ pc[0] \in {"idle", "startModes"} \cup NewPcs
       /\ priority[0] = Realtime /\ reaped = {}
       /\ \A t \in Threads \ {0} :
            /\ zombie[t] /\ pc[t] = "idle"
            /\ t < num => func[t] \/ (pc[0] = "newFunc" /\ target[0] = t)

(* Ids are handed out in order and never again. *)
IdsInOrder ==
  /\ \A u \in Threads : u >= num => ~ func[u] /\ zombie[u] /\ u \notin reaped
  /\ \A u \in reaped : ~ func[u]
  /\ pc[0] = "newStore" => target[0] = num
  /\ pc[0] \in {"newFunc"} \cup CreatePcs \cup PriorityPcs
       => target[0] < num /\ target[0] \notin reaped
  /\ pc[0] \in {"newFunc", "lockCreate", "createHbit", "createLbit"}
       => zombie[target[0]]
  /\ pc[0] \in CleanPcs => target[0] < num /\ target[0] # 0
  /\ pc[0] \in EndPcs => target[0] < num /\ ~ func[target[0]]

(* The mode of a thread is that of its priority, but for the one that is   *)
(* about to change.                                                        *)
ChangingPcs == {"newFunc", "lockCreate", "createHbit", "hardenSoft", "softenSlot",
                "unlockPriority", "setPriority"}

ModesMatch ==
  /\ Started => \A u \in Threads :
       u < num /\ ~ (u = target[0] /\ pc[0] \in ChangingPcs)
         => (soft[u] <=> priority[u] = Normal)
  /\ pc[0] \in HardenPcs => arg[0] = Realtime
  /\ pc[0] \in SoftenPcs => arg[0] = Normal
  /\ pc[0] \in {"hardenSoft", "softenSlot", "unlockPriority", "setPriority"}
       => (soft[target[0]] <=> arg[0] = Normal)
  /\ pc[0] \in {"lockEndHard", "endHardSlot"} => priority[target[0]] # Normal

Managed == OthersRun /\ BeforeStart /\ IdsInOrder /\ ModesMatch

-----------------------------------------------------------------------------
(***************************************************************************)
(* The kinds of steps                                                      *)
(***************************************************************************)

(* A step of another thread than the manager: its function returns. *)
Returning(t) ==
  /\ UNCHANGED <<slots, soft, zombie, running, num, priority, copy, reaped>>
  /\ pc'[0] = pc[0] /\ target'[0] = target[0]
  /\ arg'[0] = arg[0] /\ otherSoft'[0] = otherSoft[0]
  /\ pc'[t] \in {"idle", "exited"} \cup CleanPcs
  /\ \A u \in Threads : u # t => pc'[u] = pc[u]
  /\ \A u \in Threads : func'[u] => func[u]
  /\ ~ zombie[t]

(* Such a step does nothing but that. *)
LEMMA OtherSteps ==
  ASSUME OneManager, IInv, OthersRun, NEW t \in Threads \ {0}, Call(t) \/ Step(t)
  PROVE  Returning(t)
<1>1. /\ TypeOK /\ DOMAIN pc = Threads /\ DOMAIN target = Threads /\ DOMAIN arg = Threads
      /\ DOMAIN otherSoft = Threads /\ DOMAIN func = Threads /\ 0 \in Threads
  BY Constants DEF IInv, TypeOK
<1>2. /\ t \notin Creators /\ t \notin Managers /\ t \notin Tuners
      /\ t # 0 /\ t \in Threads
  BY DEF OneManager, Callers
<1>3. pc[t] \in {"idle", "exited", "cleanMutex", "cleanFunc"}
  BY DEF OthersRun, CleanPcs
<1>4. pc[t] \in CleanPcs => target[t] = t
  BY <1>2 DEF IInv, Shape, ShapeOf
<1>5. ASSUME Schedulable(t)
      PROVE  ~ zombie[t]
  BY <1>5 DEF Schedulable, Serves
<1>6. \A u \in Threads : u # t => pc'[u] = pc[u]
  BY OthersStay
<1>7. CASE Call(t)
  <2>1. Exit(t)
    BY <1>2, <1>7
       DEF Call, ThreadNew, SetPriority, Terminate, Join, SetSlots, Suspend, KernelStart
  <2>. QED
    BY <1>1, <1>2, <1>5, <1>6, <2>1 DEF Exit, Begin, Goto, os, Returning, CleanPcs
<1>8. CASE Step(t)
  <2>1. CASE CleanMutex(t)
    BY <1>1, <1>2, <1>5, <1>6, <2>1
       DEF CleanMutex, Goto, os, local, Returning, CleanPcs
  <2>2. CASE CleanFunc(t)
    <3>1. target[t] = t
      BY <1>4, <2>2 DEF CleanFunc, Goto, CleanPcs
    <3>2. \A u \in Threads : func'[u] => func[u]
      BY <1>1, <2>2, <3>1 DEF CleanFunc
    <3>3. /\ UNCHANGED copy /\ target'[0] = target[0]
          /\ arg'[0] = arg[0] /\ otherSoft'[0] = otherSoft[0]
      BY <1>1, <1>2, <2>2, <3>1 DEF CleanFunc, Returns
    <3>4. pc'[t] = "exited" /\ pc'[0] = pc[0] /\ Schedulable(t)
      BY <1>1, <1>2, <2>2, <3>1 DEF CleanFunc, Goto
    <3>. QED  BY <1>5, <1>6, <2>2, <3>2, <3>3, <3>4 DEF CleanFunc, Returning
  <2>3. pc[t] \in OutsidePcs /\ pc[t] \notin SlotPcs /\ pc[t] \notin NewPcs
    BY <1>3 DEF OutsidePcs, CleanPcs, SlotPcs, NewPcs
  <2>4. ~ Locks(t) /\ ~ Unlocks(t)
    <3>1. ASSUME NEW from, NEW to, Lock(t, from, to) \/ Unlock(t, from, to)
          PROVE  pc[t] = from
      BY <3>1 DEF Lock, Unlock, Goto
    <3>. QED  BY <2>3, <3>1, LockSteps, Edges
  <2>5. ~ SlotWrite(t) /\ ~ ModeWrite(t) /\ ~ GetSlots(t)
    <3>1. ~ SlotWrite(t)
      BY <2>3, Edges DEF SlotWrite, SlotStep, Goto
    <3>2. ~ ModeWrite(t)
      BY <2>3, Edges DEF ModeWrite, ModeStep, Goto
    <3>. QED  BY <2>3, <3>1, <3>2 DEF GetSlots
  <2>6. ~ (NewStore(t) \/ NewFunc(t) \/ StartModes(t) \/ StartRun(t))
    BY <1>3 DEF NewStore, NewFunc, StartModes, StartRun, Goto
  <2>7. ~ (Reap(t) \/ Zombify(t) \/ StorePriority(t))
    BY <1>3 DEF Reap, Zombify, StorePriority, Goto
  <2>. QED
    BY <1>1, <1>8, <2>1, <2>2, <2>4, <2>5, <2>6, <2>7, SlotWrites, ModeWrites DEF Step
<1>. QED  BY <1>7, <1>8

(* A step of the manager that only moves it to its next write. *)
Quiet(from, to) ==
  /\ pc[0] = from /\ pc'[0] = to
  /\ UNCHANGED <<target, arg, soft, zombie, running, num, func, priority, reaped>>

QuietEdges == SlotEdges \cup LockEdges \cup
              {<<"unlockPriority", "setPriority">>, <<"unlockEnd", "zombify">>,
               <<"cleanMutex", "cleanFunc">>}

(* Along such an edge the manager keeps what Managed says of its call. *)
LEMMA QuietEdgesKeep ==
  \A e \in QuietEdges :
    /\ e[1] \notin {"idle", "startModes", "startRun"} \cup NewPcs
    /\ e[2] \notin {"idle", "startModes", "startRun", "newFunc", "newStore"}
    /\ e[2] \in CreatePcs => e[1] \in CreatePcs
    /\ e[2] \in PriorityPcs => e[1] \in PriorityPcs
    /\ e[2] \in {"lockCreate", "createHbit", "createLbit"}
         => e[1] \in {"lockCreate", "createHbit", "createLbit"}
    /\ e[2] \in CleanPcs => e[1] \in CleanPcs
    /\ e[2] \in EndPcs => e[1] \in EndPcs
    /\ e[1] \in ChangingPcs => e[2] \in ChangingPcs
    /\ e[2] \in HardenPcs => e[1] \in HardenPcs
    /\ e[2] \in SoftenPcs => e[1] \in SoftenPcs
    /\ e[2] \in {"hardenSoft", "softenSlot", "unlockPriority", "setPriority"}
         => e[1] \in {"hardenSoft", "softenSlot", "unlockPriority", "setPriority"}
    /\ e[2] \in {"lockEndHard", "endHardSlot"} => e[1] \in {"lockEndHard", "endHardSlot"}
  BY DEF QuietEdges, SlotEdges, LockEdges, CreatePcs, PriorityPcs, CleanPcs, EndPcs,
         ChangingPcs, HardenPcs, SoftenPcs, NewPcs

(* A step of another thread keeps Managed. *)
LEMMA OthersKeepManaged ==
  ASSUME OneManager, IInv, Managed, NEW t \in Threads \ {0}, Call(t) \/ Step(t)
  PROVE  Managed'
<1>1. Returning(t)
  BY OtherSteps DEF Managed
<1>2. Started /\ (Started' <=> Started)
  BY <1>1 DEF Returning, Managed, BeforeStart, Started
<1>3. OthersRun'
  BY <1>1 DEF Returning, Managed, OthersRun
<1>4. BeforeStart'
  BY <1>1, <1>2 DEF Returning, Managed, BeforeStart
<1>5. IdsInOrder'
  <2>1. /\ UNCHANGED <<zombie, num, reaped>> /\ pc'[0] = pc[0] /\ target'[0] = target[0]
        /\ \A u \in Threads : func'[u] => func[u]
        /\ reaped \subseteq Threads
        /\ pc[0] \in EndPcs => target[0] \in Threads
    <3>1. EndPcs \cap SlotCallPcs = {}
      BY DEF EndPcs, SlotCallPcs
    <3>. QED  BY <1>1, <3>1, Constants DEF Returning, IInv, TypeOK, Shape, ShapeOf
  <2>. QED  BY <2>1 DEF Managed, IdsInOrder
<1>6. ModesMatch'
  BY <1>1, <1>2 DEF Returning, Managed, ModesMatch
<1>. QED  BY <1>3, <1>4, <1>5, <1>6 DEF Managed

(* A quiet step of the manager keeps it. *)
LEMMA QuietKeepsManaged ==
  ASSUME IInv, Managed, OthersRun', NEW e \in QuietEdges, Quiet(e[1], e[2])
  PROVE  Managed'
<1>1. pc[0] = e[1] /\ pc'[0] = e[2]
  BY DEF Quiet
<1>2. Started /\ Started' /\ running
  <2>1. Started
    BY <1>1, QuietEdgesKeep DEF Managed, BeforeStart, Started
  <2>2. pc[0] # "startRun"
    BY <1>1, QuietEdgesKeep
  <2>. QED  BY <2>1, <2>2 DEF Started, Quiet
<1>3. BeforeStart'
  BY <1>1, <1>2, QuietEdgesKeep DEF BeforeStart
<1>4. IdsInOrder'
  <2>1. /\ e[2] # "newStore" /\ e[2] # "newFunc"
        /\ e[2] \in CreatePcs \cup PriorityPcs => e[1] \in CreatePcs \cup PriorityPcs
        /\ e[2] \in {"newFunc", "lockCreate", "createHbit", "createLbit"}
             => e[1] \in {"newFunc", "lockCreate", "createHbit", "createLbit"}
        /\ e[2] \in CleanPcs => e[1] \in CleanPcs
        /\ e[2] \in EndPcs => e[1] \in EndPcs
    BY QuietEdgesKeep
  <2>. QED  BY <1>1, <2>1 DEF Quiet, Managed, IdsInOrder
<1>5. ModesMatch'
  <2>1. /\ e[1] \in ChangingPcs => e[2] \in ChangingPcs
        /\ e[2] \in HardenPcs => e[1] \in HardenPcs
        /\ e[2] \in SoftenPcs => e[1] \in SoftenPcs
        /\ e[2] \in {"hardenSoft", "softenSlot", "unlockPriority", "setPriority"}
             => e[1] \in {"hardenSoft", "softenSlot", "unlockPriority", "setPriority"}
        /\ e[2] \in {"lockEndHard", "endHardSlot"} => e[1] \in {"lockEndHard", "endHardSlot"}
    BY QuietEdgesKeep
  <2>. QED  BY <1>1, <1>2, <2>1 DEF Quiet, Managed, ModesMatch
<1>. QED  BY <1>3, <1>4, <1>5 DEF Managed

(* Where a call of the manager ends, no thread is about to change. *)
LEMMA IdleKeepsManaged ==
  ASSUME IInv, OthersRun', pc'[0] = "idle",
         running => running', Started' => running',
         ~ Started' => BeforeStart',
         \A u \in Threads : u >= num' => ~ func'[u] /\ zombie'[u] /\ u \notin reaped',
         \A u \in reaped' : ~ func'[u],
         Started' => \A u \in Threads : u < num' => (soft'[u] <=> priority'[u] = Normal)
  PROVE  Managed'
<1>1. BeforeStart'
  BY DEF BeforeStart
<1>2. IdsInOrder'
  BY DEF IdsInOrder, CreatePcs, PriorityPcs, CleanPcs, EndPcs
<1>3. ModesMatch'
  BY DEF ModesMatch, HardenPcs, SoftenPcs
<1>. QED  BY <1>1, <1>2, <1>3 DEF Managed

(* A call of the manager starts in order. *)
LEMMA CallsKeepManaged ==
  ASSUME OneManager, IInv, Managed, OthersRun', Call(0)
  PROVE  Managed'
<1>1. /\ TypeOK /\ DOMAIN pc = Threads /\ DOMAIN target = Threads /\ DOMAIN arg = Threads
      /\ 0 \in Threads /\ Threads \subseteq Nat /\ num \in Nat /\ num >= 1
      /\ DOMAIN zombie = Threads
  BY Constants DEF IInv, TypeOK
<1>2. ASSUME NEW p, NEW u, NEW a, Begin(0, p, u, a)
      PROVE  /\ pc[0] = "idle" /\ pc'[0] = p /\ target'[0] = u /\ arg'[0] = a
             /\ UNCHANGED <<soft, zombie, running, num, func, priority, reaped>>
             /\ \A t \in Threads \ {0} : pc'[t] = pc[t]
  BY <1>1, <1>2 DEF Begin, Goto, os
<1>3. BeforeStart /\ IdsInOrder /\ ModesMatch
  BY DEF Managed
<1>4. \A u \in Alive : u \in Threads /\ func[u] /\ u < num /\ u \notin reaped
  BY <1>1, <1>3 DEF Alive, IdsInOrder
<1>5. ASSUME NEW p, ThreadNew(0, p)
      PROVE  Managed'
  <2>1. /\ pc[0] = "idle" /\ pc'[0] = "newStore" /\ target'[0] = num
        /\ UNCHANGED <<soft, zombie, running, num, func, priority, reaped>>
        /\ \A t \in Threads \ {0} : pc'[t] = pc[t]
    BY <1>2, <1>5 DEF ThreadNew
  <2>2. BeforeStart'
    BY <1>3, <2>1 DEF BeforeStart, Started, NewPcs
  <2>3. IdsInOrder'
    BY <1>3, <2>1 DEF IdsInOrder, CreatePcs, PriorityPcs, CleanPcs, EndPcs
  <2>4. ModesMatch'
    BY <1>3, <2>1 DEF ModesMatch, Started, ChangingPcs, HardenPcs, SoftenPcs
  <2>. QED  BY <2>2, <2>3, <2>4 DEF Managed
<1>6. ASSUME NEW u \in Threads, NEW p \in Priorities, SetPriority(0, u, p)
      PROVE  Managed'
  <2>1. PICK from : /\ from = IF p = Realtime THEN "lockHarden" ELSE "lockSoften"
                    /\ Begin(0, from, u, p)
    BY <1>6 DEF SetPriority
  <2>2. /\ pc[0] = "idle" /\ pc'[0] = from /\ target'[0] = u /\ arg'[0] = p
        /\ UNCHANGED <<soft, zombie, running, num, func, priority, reaped>>
        /\ running /\ u < num /\ u \notin reaped
    BY <1>2, <1>4, <1>6, <2>1 DEF SetPriority
  <2>3. BeforeStart'
    BY <2>1, <2>2 DEF BeforeStart, Started
  <2>4. IdsInOrder'
    BY <1>3, <2>1, <2>2 DEF IdsInOrder, CreatePcs, PriorityPcs, CleanPcs, EndPcs
  <2>5. ModesMatch'
    <3>1. p = Realtime \/ p = Normal
      BY DEF Priorities
    <3>2. /\ from \in HardenPcs => arg'[0] = Realtime
          /\ from \in SoftenPcs => arg'[0] = Normal
      BY <2>1, <2>2, <3>1 DEF HardenPcs, SoftenPcs
    <3>. QED  BY <1>3, <2>1, <2>2, <3>2 DEF ModesMatch, Started, ChangingPcs
  <2>. QED  BY <2>3, <2>4, <2>5 DEF Managed
<1>7. ASSUME NEW u \in Threads, Terminate(0, u)
      PROVE  Managed'
  <2>1. /\ pc[0] = "idle" /\ pc'[0] = "cleanMutex" /\ target'[0] = u
        /\ UNCHANGED <<soft, zombie, running, num, func, priority, reaped>>
        /\ running /\ u < num /\ u # 0
    BY <1>2, <1>4, <1>7 DEF Terminate
  <2>2. BeforeStart'
    BY <2>1 DEF BeforeStart, Started
  <2>3. IdsInOrder'
    BY <1>3, <2>1 DEF IdsInOrder, CreatePcs, PriorityPcs, EndPcs
  <2>4. ModesMatch'
    BY <1>3, <2>1 DEF ModesMatch, Started, ChangingPcs, HardenPcs, SoftenPcs
  <2>. QED  BY <2>2, <2>3, <2>4 DEF Managed
<1>8. ASSUME NEW u \in Threads, Join(0, u)
      PROVE  Managed'
  <2>1. /\ pc[0] = "idle" /\ pc'[0] = "reap" /\ target'[0] = u
        /\ UNCHANGED <<soft, zombie, running, num, func, priority, reaped>>
        /\ running /\ u < num /\ ~ func[u]
    <3>1. u \in 0 .. num - 1 /\ ~ func[u] /\ running
      BY <1>8 DEF Join, Returned
    <3>2. u < num
      BY <1>1, <3>1
    <3>. QED  BY <1>2, <1>8, <3>1, <3>2 DEF Join
  <2>2. BeforeStart'
    BY <2>1 DEF BeforeStart, Started
  <2>3. IdsInOrder'
    BY <1>3, <2>1 DEF IdsInOrder, CreatePcs, PriorityPcs, CleanPcs
  <2>4. ModesMatch'
    BY <1>3, <2>1 DEF ModesMatch, Started, ChangingPcs, HardenPcs, SoftenPcs
  <2>. QED  BY <2>2, <2>3, <2>4 DEF Managed
<1>9. ASSUME NEW u, NEW n, SetSlots(0, u, n)
      PROVE  Managed'
  <2>1. /\ pc[0] = "idle" /\ pc'[0] = "lockSet"
        /\ UNCHANGED <<soft, zombie, running, num, func, priority, reaped>>
        /\ running
    BY <1>2, <1>9 DEF SetSlots
  <2>2. BeforeStart'
    BY <2>1 DEF BeforeStart, Started
  <2>3. IdsInOrder'
    BY <1>3, <2>1 DEF IdsInOrder, CreatePcs, PriorityPcs, CleanPcs, EndPcs
  <2>4. ModesMatch'
    BY <1>3, <2>1 DEF ModesMatch, Started, ChangingPcs, HardenPcs, SoftenPcs
  <2>. QED  BY <2>2, <2>3, <2>4 DEF Managed
<1>10. ASSUME NEW u \in Threads, Suspend(0, u)
       PROVE  Managed'
  <2>1. /\ pc[0] = "idle" /\ pc'[0] = "idle" /\ running /\ u < num
        /\ UNCHANGED <<soft, running, num, func, priority, reaped>>
        /\ \A v \in Threads : v # u => zombie'[v] = zombie[v]
    BY <1>1, <1>4, <1>10 DEF Suspend, Goto, os, SetZombie
  <2>2. Started' /\ running'
    BY <2>1 DEF Started
  <2>3. \A v \in Threads : v >= num => ~ func[v] /\ zombie'[v] /\ v \notin reaped
    BY <1>1, <1>3, <2>1 DEF IdsInOrder
  <2>4. \A v \in Threads : v < num => (soft[v] <=> priority[v] = Normal)
    BY <1>3, <2>1 DEF ModesMatch, Started, ChangingPcs
  <2>5. \A v \in reaped : ~ func[v]
    BY <1>3 DEF IdsInOrder
  <2>. QED  BY <2>1, <2>2, <2>3, <2>4, <2>5, IdleKeepsManaged
<1>11. CASE KernelStart(0)
  <2>1. /\ pc[0] = "idle" /\ pc'[0] = "startModes" /\ ~ running
        /\ UNCHANGED <<soft, zombie, running, num, func, priority, reaped>>
        /\ \A t \in Threads \ {0} : pc'[t] = pc[t]
    BY <1>1, <1>11 DEF KernelStart, Goto, os
  <2>2. BeforeStart'
    BY <1>3, <2>1 DEF BeforeStart, Started
  <2>3. IdsInOrder'
    BY <1>3, <2>1 DEF IdsInOrder, CreatePcs, PriorityPcs, CleanPcs, EndPcs
  <2>4. ModesMatch'
    BY <2>1 DEF ModesMatch, Started, HardenPcs, SoftenPcs
  <2>. QED  BY <2>2, <2>3, <2>4 DEF Managed
<1>. QED
  BY <1>5, <1>6, <1>7, <1>8, <1>9, <1>10, <1>11 DEF Call, Exit

(* A quiet step is one of these. *)
LEMMA QuietSteps ==
  ASSUME IInv, GetSlots(0) \/ SlotWrite(0) \/ Locks(0) \/ CleanMutex(0)
               \/ Unlock(0, "unlockPriority", "setPriority")
               \/ Unlock(0, "unlockEnd", "zombify")
  PROVE  \/ \E e \in QuietEdges : Quiet(e[1], e[2])
         \/ Quiet(pc[0], pc[0]) /\ running
<1>1. DOMAIN pc = Threads /\ 0 \in Threads
  BY Constants DEF IInv, TypeOK
<1>2. ASSUME NEW from, NEW to, Goto(0, from, to)
      PROVE  pc[0] = from /\ pc'[0] = to
  BY <1>1, <1>2 DEF Goto
<1>3. ASSUME NEW from, NEW to, <<from, to>> \in QuietEdges, Quiet(from, to)
      PROVE  \E e \in QuietEdges : Quiet(e[1], e[2])
  <2>1. <<from, to>>[1] = from /\ <<from, to>>[2] = to
    OBVIOUS
  <2>. QED  BY <1>3, <2>1
<1>4. /\ <<"unlockPriority", "setPriority">> \in QuietEdges
      /\ <<"unlockEnd", "zombify">> \in QuietEdges
      /\ <<"cleanMutex", "cleanFunc">> \in QuietEdges
      /\ SlotEdges \subseteq QuietEdges /\ LockEdges \subseteq QuietEdges
  BY DEF QuietEdges
<1>5. GetSlots(0) => Quiet(pc[0], pc[0]) /\ running
  <2>1. pc[0] \in SlotPcs => running
    BY <1>1, OwningPcs DEF IInv, Shape
  <2>. QED  BY <1>2, <2>1 DEF GetSlots, Quiet, os
<1>6. SlotWrite(0) => \E e \in QuietEdges : Quiet(e[1], e[2])
  BY <1>2, <1>4 DEF SlotWrite, SlotStep, Quiet, os
<1>7. Locks(0) => \/ \E e \in QuietEdges : Quiet(e[1], e[2])
                  \/ Quiet(pc[0], pc[0]) /\ running
  <2>1. ASSUME NEW e \in LockEdges, Lock(0, e[1], e[2])
        PROVE  Quiet(e[1], e[2]) \/ (Quiet(pc[0], pc[0]) /\ running)
    <3>1. pc[0] = e[1]
      BY <1>2, <2>1 DEF Lock
    <3>2. running
      BY <1>1, <3>1, Edges DEF IInv, Shape
    <3>. QED  BY <1>2, <2>1, <3>2 DEF Lock, Quiet, os, local
  <2>. QED  BY <1>4, <2>1, LockSteps, <1>1
<1>8. CleanMutex(0) => Quiet("cleanMutex", "cleanFunc")
  BY <1>2 DEF CleanMutex, Quiet, os, local
<1>9. ASSUME NEW from, NEW to, Unlock(0, from, to), to # "idle"
      PROVE  Quiet(from, to)
  BY <1>2, <1>9 DEF Unlock, Quiet, os, local
<1>. QED  BY <1>3, <1>4, <1>5, <1>6, <1>7, <1>8, <1>9

(* Every write of the manager keeps Managed. *)
LEMMA WritesKeepManaged ==
  ASSUME OneManager, IInv, Managed, OthersRun', Step(0)
  PROVE  Managed'
<1>1. /\ TypeOK /\ DOMAIN pc = Threads /\ DOMAIN target = Threads /\ DOMAIN arg = Threads
      /\ 0 \in Threads /\ Threads \subseteq Nat /\ num \in Nat /\ num >= 1
      /\ DOMAIN soft = Threads /\ DOMAIN zombie = Threads /\ DOMAIN func = Threads
      /\ DOMAIN priority = Threads /\ reaped \subseteq Threads
  BY Constants DEF IInv, TypeOK
<1>2. ASSUME NEW from, NEW to, Goto(0, from, to)
      PROVE  /\ pc[0] = from /\ pc'[0] = to
             /\ \A t \in Threads \ {0} : pc'[t] = pc[t]
  BY <1>1, <1>2 DEF Goto
<1>3. BeforeStart /\ IdsInOrder /\ ModesMatch
  BY DEF Managed
<1>4. /\ pc[0] \notin SlotCallPcs => target[0] \in Threads
      /\ pc[0] \notin OutsidePcs \cup NewPcs => running
      /\ pc[0] \in CleanPcs /\ target[0] # 0 => running
  BY <1>1 DEF IInv, Shape, ShapeOf
<1>5. CASE \/ \E e \in QuietEdges : Quiet(e[1], e[2])
           \/ Quiet(pc[0], pc[0]) /\ running
  <2>1. CASE Quiet(pc[0], pc[0]) /\ running
    <3>1. /\ pc'[0] = pc[0]
          /\ UNCHANGED <<target, arg, soft, zombie, running, num, func, priority, reaped>>
      BY <2>1 DEF Quiet
    <3>2. Started' <=> Started
      BY <3>1 DEF Started
    <3>3. BeforeStart'
      BY <1>3, <2>1, <3>1, <3>2 DEF BeforeStart, Started
    <3>4. IdsInOrder'
      BY <1>3, <3>1 DEF IdsInOrder
    <3>5. ModesMatch'
      BY <1>3, <3>1, <3>2 DEF ModesMatch
    <3>. QED  BY <3>3, <3>4, <3>5 DEF Managed
  <2>. QED  BY <1>5, <2>1, QuietKeepsManaged
<1>6. CASE NewStore(0)
  <2>1. /\ pc[0] = "newStore" /\ pc'[0] = "newFunc"
        /\ num' = target[0] + 1 /\ target[0] = num
        /\ UNCHANGED <<target, arg, soft, zombie, running, func, reaped>>
        /\ \A u \in Threads : u # target[0] => priority'[u] = priority[u]
        /\ \A t \in Threads \ {0} : pc'[t] = pc[t]
    BY <1>1, <1>2, <1>3, <1>6 DEF NewStore, local, IdsInOrder
  <2>2. target[0] \in Threads /\ target[0] # 0 /\ num' = num + 1
    <3>1. "newStore" \notin SlotCallPcs
      BY DEF SlotCallPcs
    <3>. QED  BY <1>1, <1>4, <2>1, <3>1
  <2>3. /\ \A u \in Threads : u < num' => u < num \/ u = target[0]
        /\ \A u \in Threads : u >= num' => u >= num
        /\ target[0] < num'
    <3>1. ASSUME NEW u \in Threads
          PROVE  /\ u < num + 1 => u < num \/ u = num
                 /\ u >= num + 1 => u >= num
      <4>1. u \in Nat
        BY <1>1
      <4>. QED  BY <1>1, <4>1
    <3>2. num < num + 1 /\ target[0] < num'
      BY <1>1, <2>1, <2>2
    <3>3. num' = num + 1 /\ target[0] = num
      BY <2>1, <2>2
    <3>. QED  BY <3>1, <3>2, <3>3
  <2>4. BeforeStart'
    <3>1. priority'[0] = priority[0]
      BY <1>1, <2>1, <2>2
    <3>. QED  BY <1>3, <2>1, <2>3, <3>1 DEF BeforeStart, Started, NewPcs
  <2>5. IdsInOrder'
    <3>1. zombie[target[0]] /\ target[0] \notin reaped
      BY <1>1, <1>3, <2>1, <2>2 DEF IdsInOrder
    <3>. QED
      BY <1>3, <2>1, <2>3, <3>1 DEF IdsInOrder, CreatePcs, PriorityPcs, CleanPcs, EndPcs
  <2>6. ModesMatch'
    BY <1>3, <2>1, <2>2, <2>3
       DEF ModesMatch, Started, ChangingPcs, HardenPcs, SoftenPcs
  <2>. QED  BY <2>4, <2>5, <2>6 DEF Managed
<1>7. CASE NewFunc(0)
  <2>1. /\ pc[0] = "newFunc" /\ target[0] \in Threads /\ target[0] < num
        /\ target[0] \notin reaped /\ zombie[target[0]]
        /\ UNCHANGED <<soft, zombie, running, num, priority, reaped>>
        /\ func'[target[0]] = TRUE
        /\ \A u \in Threads : u # target[0] => func'[u] = func[u]
        /\ \A t \in Threads \ {0} : pc'[t] = pc[t]
    <3>1. pc[0] = "newFunc" /\ "newFunc" \notin SlotCallPcs
      BY <1>2, <1>7 DEF NewFunc, SlotCallPcs
    <3>2. \A t \in Threads \ {0} : pc'[t] = pc[t]
      BY <1>2, <1>7 DEF NewFunc
    <3>3. /\ target[0] \in Threads /\ target[0] < num
          /\ target[0] \notin reaped /\ zombie[target[0]]
      BY <1>3, <1>4, <3>1 DEF IdsInOrder
    <3>. QED  BY <1>1, <1>7, <3>1, <3>2, <3>3 DEF NewFunc
  <2>2. /\ \A u \in Threads : u >= num => ~ func'[u] /\ zombie[u] /\ u \notin reaped
        /\ \A u \in reaped : ~ func'[u]
    BY <1>1, <1>3, <2>1 DEF IdsInOrder
  <2>3. CASE running
    <3>1. pc'[0] = "lockCreate" /\ UNCHANGED <<target, arg>>
      BY <1>2, <1>7, <2>3 DEF NewFunc, local
    <3>2. BeforeStart'
      BY <2>1, <2>3, <3>1 DEF BeforeStart, Started
    <3>3. IdsInOrder'
      BY <2>1, <2>2, <3>1 DEF IdsInOrder, CreatePcs, PriorityPcs, CleanPcs, EndPcs
    <3>4. ModesMatch'
      BY <1>3, <2>1, <2>3, <3>1 DEF ModesMatch, Started, ChangingPcs, HardenPcs, SoftenPcs
    <3>. QED  BY <3>2, <3>3, <3>4 DEF Managed
  <2>4. CASE ~ running
    <3>1. pc'[0] = "idle"
      BY <1>2, <1>7, <2>4 DEF NewFunc
    <3>2. ~ Started /\ ~ Started'
      BY <2>1, <2>4, <3>1 DEF Started
    <3>3. BeforeStart'
      BY <1>3, <2>1, <3>1, <3>2 DEF BeforeStart, Started
    <3>. QED  BY <2>1, <2>2, <2>4, <3>1, <3>2, <3>3, IdleKeepsManaged
  <2>. QED  BY <2>3, <2>4
<1>8. CASE StartModes(0)
  <2>1. /\ pc[0] = "startModes" /\ pc'[0] = "startRun"
        /\ UNCHANGED <<target, arg, running, num, func, priority, reaped>>
        /\ \A u \in Threads : soft'[u] <=> u # 0 /\ (func[u] => priority[u] = Normal)
        /\ \A u \in Threads : zombie'[u] <=> ~ func[u]
    BY <1>2, <1>8 DEF StartModes, os, local
  <2>2. ~ running /\ ~ Started
    BY <1>3, <2>1 DEF BeforeStart, Started
  <2>3. BeforeStart'
    BY <2>1, <2>2 DEF BeforeStart, Started
  <2>4. IdsInOrder'
    BY <1>1, <1>3, <2>1 DEF IdsInOrder, CreatePcs, PriorityPcs, CleanPcs, EndPcs
  <2>5. \A u \in Threads : u < num => (soft'[u] <=> priority[u] = Normal)
    <3>1. priority[0] # Normal
      BY <1>3, <2>2, Constants DEF BeforeStart
    <3>2. \A u \in Threads \ {0} : u < num => func[u]
      BY <1>3, <2>1, <2>2 DEF BeforeStart
    <3>. QED  BY <2>1, <3>1, <3>2
  <2>6. ModesMatch'
    BY <2>1, <2>5 DEF ModesMatch, HardenPcs, SoftenPcs
  <2>. QED  BY <2>3, <2>4, <2>6 DEF Managed
<1>9. CASE StartRun(0)
  <2>1. /\ pc[0] = "startRun" /\ pc'[0] = "idle" /\ running'
        /\ UNCHANGED <<soft, zombie, num, func, priority, reaped>>
    BY <1>2, <1>9 DEF StartRun
  <2>2. Started /\ Started'
    BY <2>1 DEF Started
  <2>3. \A u \in Threads : u < num => (soft[u] <=> priority[u] = Normal)
    BY <1>3, <2>1, <2>2 DEF ModesMatch, ChangingPcs
  <2>4. /\ \A u \in Threads : u >= num => ~ func[u] /\ zombie[u] /\ u \notin reaped
        /\ \A u \in reaped : ~ func[u]
    BY <1>3 DEF IdsInOrder
  <2>. QED  BY <2>1, <2>2, <2>3, <2>4, IdleKeepsManaged
<1>10. CASE CreateHbit(0) \/ CreateLbit(0) \/ HardenMode(0) \/ SoftenMode(0)
  <2>1. /\ UNCHANGED <<target, arg, running, num, func, priority, reaped>>
        /\ pc[0] \in {"createHbit", "createLbit", "hardenMode", "softenMode"}
    BY <1>2, <1>10
       DEF CreateHbit, CreateLbit, HardenMode, SoftenMode, ModeStep, os, local
  <2>2. target[0] \in Threads /\ target[0] < num /\ target[0] \notin reaped /\ running
    <3>1. /\ pc[0] \notin SlotCallPcs \cup OutsidePcs \cup NewPcs
          /\ pc[0] \in CreatePcs \cup PriorityPcs
      BY <2>1 DEF SlotCallPcs, OutsidePcs, CleanPcs, NewPcs, CreatePcs, PriorityPcs
    <3>. QED  BY <1>3, <1>4, <3>1 DEF IdsInOrder
  <2>3. Started /\ Started' /\ running'
    BY <2>1, <2>2 DEF Started
  <2>4. \A u \in Threads : u < num /\ ~ (u = target[0] /\ pc[0] \in ChangingPcs)
                             => (soft[u] <=> priority[u] = Normal)
    BY <1>3, <2>3 DEF ModesMatch
  <2>5. /\ \A u \in Threads : u >= num => ~ func[u] /\ zombie[u] /\ u \notin reaped
        /\ \A u \in reaped : ~ func[u]
    BY <1>3 DEF IdsInOrder
  <2>6. CASE CreateHbit(0)
    <3>1. /\ pc[0] = "createHbit" /\ pc'[0] = "createLbit" /\ UNCHANGED zombie
          /\ soft'[target[0]] <=> priority[target[0]] = Normal
          /\ \A u \in Threads : u # target[0] => soft'[u] = soft[u]
      BY <1>1, <1>2, <2>2, <2>6 DEF CreateHbit, ModeStep, SetSoftBit
    <3>2. BeforeStart'
      BY <2>3, <3>1 DEF BeforeStart
    <3>3. IdsInOrder'
      BY <1>3, <2>1, <3>1 DEF IdsInOrder, CreatePcs, PriorityPcs, CleanPcs, EndPcs
    <3>4. ModesMatch'
      BY <2>1, <2>3, <2>4, <3>1 DEF ModesMatch, ChangingPcs, HardenPcs, SoftenPcs
    <3>. QED  BY <3>2, <3>3, <3>4 DEF Managed
  <2>7. CASE CreateLbit(0)
    <3>1. /\ pc[0] = "createLbit" /\ pc'[0] = "createSlot" /\ UNCHANGED soft
          /\ \A u \in Threads : u # target[0] => zombie'[u] = zombie[u]
      BY <1>1, <1>2, <2>2, <2>7 DEF CreateLbit, ModeStep, SetZombie
    <3>2. BeforeStart'
      BY <2>3, <3>1 DEF BeforeStart
    <3>3. \A u \in Threads : u >= num => zombie'[u]
      BY <1>1, <2>2, <2>5, <3>1
    <3>4. IdsInOrder'
      BY <2>1, <2>2, <2>5, <3>1, <3>3
         DEF IdsInOrder, CreatePcs, PriorityPcs, CleanPcs, EndPcs
    <3>5. ModesMatch'
      BY <2>1, <2>3, <2>4, <3>1 DEF ModesMatch, ChangingPcs, HardenPcs, SoftenPcs
    <3>. QED  BY <3>2, <3>4, <3>5 DEF Managed
  <2>8. CASE HardenMode(0)
    <3>1. /\ pc[0] = "hardenMode" /\ pc'[0] = "hardenSoft" /\ UNCHANGED zombie
          /\ soft'[target[0]] = FALSE
          /\ \A u \in Threads : u # target[0] => soft'[u] = soft[u]
      BY <1>1, <1>2, <2>2, <2>8 DEF HardenMode, ModeStep, SetSoftBit
    <3>2. BeforeStart'
      BY <2>3, <3>1 DEF BeforeStart
    <3>3. IdsInOrder'
      BY <1>3, <2>1, <3>1 DEF IdsInOrder, CreatePcs, PriorityPcs, CleanPcs, EndPcs
    <3>4. arg[0] = Realtime /\ Realtime # Normal
      BY <1>3, <3>1, Constants DEF ModesMatch, HardenPcs
    <3>5. ModesMatch'
      BY <2>1, <2>3, <2>4, <3>1, <3>4 DEF ModesMatch, ChangingPcs, HardenPcs, SoftenPcs
    <3>. QED  BY <3>2, <3>3, <3>5 DEF Managed
  <2>9. CASE SoftenMode(0)
    <3>1. /\ pc[0] = "softenMode" /\ pc'[0] = "softenSlot" /\ UNCHANGED zombie
          /\ soft'[target[0]] = TRUE
          /\ \A u \in Threads : u # target[0] => soft'[u] = soft[u]
      BY <1>1, <1>2, <2>2, <2>9 DEF SoftenMode, ModeStep, SetSoftBit
    <3>2. BeforeStart'
      BY <2>3, <3>1 DEF BeforeStart
    <3>3. IdsInOrder'
      BY <1>3, <2>1, <3>1 DEF IdsInOrder, CreatePcs, PriorityPcs, CleanPcs, EndPcs
    <3>4. arg[0] = Normal
      BY <1>3, <3>1 DEF ModesMatch, SoftenPcs
    <3>5. ModesMatch'
      BY <2>1, <2>3, <2>4, <3>1, <3>4 DEF ModesMatch, ChangingPcs, HardenPcs, SoftenPcs
    <3>. QED  BY <3>2, <3>3, <3>5 DEF Managed
  <2>. QED  BY <1>10, <2>6, <2>7, <2>8, <2>9
<1>11. CASE CleanFunc(0)
  <2>1. pc[0] = "cleanFunc" /\ target[0] # 0 /\ target[0] < num
    BY <1>2, <1>3, <1>11 DEF CleanFunc, IdsInOrder, CleanPcs
  <2>2. target[0] \in Threads /\ running
    BY <1>4, <2>1 DEF SlotCallPcs, CleanPcs
  <2>3. /\ pc'[0] = "reap" /\ UNCHANGED <<target, arg>>
        /\ UNCHANGED <<soft, zombie, running, num, priority, reaped>>
        /\ func'[target[0]] = FALSE
        /\ \A u \in Threads : func'[u] => func[u]
    BY <1>1, <1>2, <1>11, <2>1, <2>2 DEF CleanFunc, local
  <2>4. BeforeStart'
    BY <2>2, <2>3 DEF BeforeStart, Started
  <2>5. IdsInOrder'
    BY <1>1, <1>3, <2>1, <2>3 DEF IdsInOrder, CreatePcs, PriorityPcs, CleanPcs
  <2>6. ModesMatch'
    BY <1>3, <2>1, <2>2, <2>3 DEF ModesMatch, Started, ChangingPcs, HardenPcs, SoftenPcs
  <2>. QED  BY <2>4, <2>5, <2>6 DEF Managed
<1>12. CASE Reap(0)
  <2>1. /\ pc[0] = "reap"
        /\ pc'[0] = IF priority[target[0]] = Normal THEN "lockEndSoft" ELSE "lockEndHard"
        /\ UNCHANGED <<target, arg, soft, zombie, running, num, func, priority, reaped>>
    BY <1>2, <1>12 DEF Reap, local, os
  <2>2. running
    BY <1>4, <2>1 DEF OutsidePcs, CleanPcs, NewPcs
  <2>3. BeforeStart'
    BY <2>1, <2>2 DEF BeforeStart, Started
  <2>4. IdsInOrder'
    BY <1>3, <2>1 DEF IdsInOrder, CreatePcs, PriorityPcs, CleanPcs, EndPcs
  <2>5. ModesMatch'
    BY <1>3, <2>1, <2>2 DEF ModesMatch, Started, ChangingPcs, HardenPcs, SoftenPcs
  <2>. QED  BY <2>3, <2>4, <2>5 DEF Managed
<1>13. CASE Zombify(0)
  <2>1. /\ pc[0] = "zombify" /\ pc'[0] = "idle"
        /\ UNCHANGED <<soft, running, num, func, priority>>
        /\ reaped' = reaped \cup {target[0]}
        /\ zombie' = [zombie EXCEPT ![target[0]] = TRUE]
    BY <1>2, <1>13 DEF Zombify, os, SetZombie
  <2>2. running /\ target[0] < num /\ ~ func[target[0]] /\ target[0] \in Threads
    BY <1>3, <1>4, <2>1
       DEF IdsInOrder, EndPcs, OutsidePcs, CleanPcs, NewPcs, SlotCallPcs
  <2>3. Started /\ Started' /\ running'
    BY <2>1, <2>2 DEF Started
  <2>4. /\ \A u \in Threads : u >= num => ~ func[u] /\ zombie'[u] /\ u \notin reaped'
        /\ \A u \in reaped' : ~ func[u]
    BY <1>1, <1>3, <2>1, <2>2 DEF IdsInOrder
  <2>5. \A u \in Threads : u < num => (soft[u] <=> priority[u] = Normal)
    BY <1>3, <2>1, <2>3 DEF ModesMatch, ChangingPcs
  <2>. QED  BY <2>1, <2>2, <2>3, <2>4, <2>5, IdleKeepsManaged
<1>14. CASE StorePriority(0)
  <2>1. /\ pc[0] = "setPriority" /\ pc'[0] = "idle"
        /\ UNCHANGED <<soft, zombie, running, num, func, reaped>>
        /\ priority' = [priority EXCEPT ![target[0]] = arg[0]]
    BY <1>2, <1>14 DEF StorePriority
  <2>2. running /\ target[0] \in Threads
    BY <1>4, <2>1 DEF OutsidePcs, CleanPcs, NewPcs, SlotCallPcs
  <2>3. Started /\ Started' /\ running'
    BY <2>1, <2>2 DEF Started
  <2>4. /\ \A u \in Threads : u >= num => ~ func[u] /\ zombie[u] /\ u \notin reaped
        /\ \A u \in reaped : ~ func[u]
    BY <1>3 DEF IdsInOrder
  <2>5. \A u \in Threads : u < num => (soft[u] <=> priority'[u] = Normal)
    BY <1>1, <1>3, <2>1, <2>2, <2>3 DEF ModesMatch, ChangingPcs
  <2>. QED  BY <2>1, <2>2, <2>3, <2>4, <2>5, IdleKeepsManaged
<1>15. CASE Unlock(0, "unlock", "idle")
  <2>1. /\ pc[0] = "unlock" /\ pc'[0] = "idle"
        /\ UNCHANGED <<soft, zombie, running, num, func, priority, reaped>>
    BY <1>2, <1>15 DEF Unlock, os
  <2>2. running
    BY <1>4, <2>1 DEF OutsidePcs, CleanPcs, NewPcs
  <2>3. Started /\ Started' /\ running'
    BY <2>1, <2>2 DEF Started
  <2>4. /\ \A u \in Threads : u >= num => ~ func[u] /\ zombie[u] /\ u \notin reaped
        /\ \A u \in reaped : ~ func[u]
    BY <1>3 DEF IdsInOrder
  <2>5. \A u \in Threads : u < num => (soft[u] <=> priority[u] = Normal)
    BY <1>3, <2>1, <2>3 DEF ModesMatch, ChangingPcs
  <2>. QED  BY <2>1, <2>2, <2>3, <2>4, <2>5, IdleKeepsManaged
<1>. QED
  BY <1>1, <1>5, <1>6, <1>7, <1>8, <1>9, <1>10, <1>11, <1>12, <1>13, <1>14, <1>15,
     QuietSteps, SlotWrites DEF Step, Unlocks

(* Managed holds of the program of one manager. *)
THEOREM ManagedInvariance ==
  ASSUME OneManager
  PROVE  Spec => []Managed
<1>1. Init => Managed
  <2> SUFFICES ASSUME Init
               PROVE  Managed
    OBVIOUS
  <2>1. /\ 0 \in Threads /\ pc = [t \in Threads |-> "idle"] /\ running = FALSE /\ num = 1
        /\ priority[0] = Realtime /\ reaped = {}
        /\ \A t \in Threads : (zombie[t] <=> t # 0) /\ (func[t] <=> t = 0)
    BY Constants DEF Init
  <2>2. \A t \in Threads : (t < 1 <=> t = 0) /\ (t >= 1 <=> t # 0)
    <3>1. \A t \in Nat : (t < 1 <=> t = 0) /\ (t >= 1 <=> t # 0)
      OBVIOUS
    <3>. QED  BY <3>1, Constants
  <2>3. OthersRun
    BY <2>1 DEF OthersRun
  <2>4. BeforeStart
    BY <2>1, <2>2 DEF BeforeStart, Started
  <2>5. IdsInOrder
    BY <2>1, <2>2 DEF IdsInOrder, CreatePcs, PriorityPcs, CleanPcs, EndPcs
  <2>6. ModesMatch
    BY <2>1 DEF ModesMatch, Started, HardenPcs, SoftenPcs
  <2>. QED  BY <2>3, <2>4, <2>5, <2>6 DEF Managed
<1>2. IInv /\ Managed /\ [Next]_vars => Managed'
  <2>1. ASSUME IInv, Managed, Call(0) \/ Step(0)
        PROVE  Managed'
    <3>1. OthersRun'
      BY <2>1, OthersStay, Constants DEF Managed, OthersRun
    <3>. QED  BY <2>1, <3>1, CallsKeepManaged, WritesKeepManaged
  <2>2. ASSUME IInv, Managed, NEW t \in Threads \ {0}, Call(t) \/ Step(t)
        PROVE  Managed'
    BY <2>2, OthersKeepManaged
  <2>3. Managed /\ UNCHANGED vars => Managed'
    BY DEF Managed, OthersRun, BeforeStart, IdsInOrder, ModesMatch, Started, vars, os,
           mutex, local
  <2>. QED  BY <2>1, <2>2, <2>3 DEF Next
<1>. QED  BY Invariance, <1>1, <1>2, PTL DEF Spec

(* With one manager the soft or hard mode of a thread agrees with the      *)
(* priority that osThreadNew or osThreadSetPriority has recorded, whenever *)
(* no call is about it.                                                    *)
THEOREM ModesFollowPriorities ==
  ASSUME OneManager
  PROVE  Spec => []PriorityMatchesMode
<1>1. IInv /\ Managed => PriorityMatchesMode
  <2> SUFFICES ASSUME IInv, Managed, running, NEW u \in Threads, func[u], Settled(u)
               PROVE  soft[u] <=> priority[u] = Normal
    BY DEF PriorityMatchesMode
  <2>1. u < num
    <3>1. u \in Nat /\ num \in Nat /\ ~ (u >= num)
      BY Constants DEF IInv, TypeOK, Managed, IdsInOrder
    <3>. QED  BY <3>1
  <2>2. pc[0] \in ChangingPcs => target[0] # u
    BY Constants DEF ChangingPcs, Settled, Pending
  <2>. QED  BY <2>1, <2>2 DEF Managed, ModesMatch, Started
<1>. QED  BY Invariance, ManagedInvariance, <1>1, PTL

-----------------------------------------------------------------------------
(***************************************************************************)
(* Slot tables in which nobody has more than one slot                      *)
(***************************************************************************)

(* A slot for every thread, one for the soft threads and one that stays    *)
(* disabled; nobody asks for more by hand.                                 *)
Room == NThreads + 2 <= NSlots /\ Counts = {}

Users == Threads \cup {SLOT_S}

Has(table, u) == \E i \in SlotIds : table[i] = u

(* Whoever has a slot has a positive count of slots. *)
LEMMA HasCount ==
  ASSUME NEW table, NEW u
  PROVE  /\ Has(table, u) <=> Count(table, u) > 0
         /\ Has(table, u) <=> Count(table, u) # 0
         /\ Single(table) /\ u # SLOT_D => Count(table, u) \in {0, 1}
<1>1. /\ SlotsOf(table, u) \subseteq SlotIds
      /\ Has(table, u) <=> SlotsOf(table, u) # {}
  BY DEF SlotsOf, Has
<1>2. IsFiniteSet(SlotsOf(table, u)) /\ Count(table, u) \in Nat
  BY <1>1, SlotSets DEF Count
<1>3. Count(table, u) = 0 <=> SlotsOf(table, u) = {}
  BY <1>2, FS_EmptySet DEF Count
<1>4. ASSUME Single(table), u # SLOT_D, Has(table, u)
      PROVE  Count(table, u) = 1
  <2>1. PICK i \in SlotIds : table[i] = u
    BY <1>4 DEF Has
  <2>2. SlotsOf(table, u) = {i}
    BY <1>4, <2>1 DEF Single, SlotsOf
  <2>. QED  BY <2>2, FS_Singleton DEF Count
<1>. QED  BY <1>1, <1>2, <1>3, <1>4

(* A table without a slot for one of the threads or for the soft threads   *)
(* gives slots to the others only.                                         *)
LEMMA ActiveBound ==
  ASSUME NEW table \in Tables, Single(table), NEW who \in Users, ~ Has(table, who)
  PROVE  ActiveCount(table) \in Nat /\ ActiveCount(table) <= NThreads
<1> DEFINE Active == {i \in SlotIds : table[i] # SLOT_D}
           Others == Users \ {who}
<1>1. /\ IsFiniteSet(Active) /\ Cardinality(Active) \in Nat
      /\ ActiveCount(table) = Cardinality(Active)
  BY SlotSets DEF ActiveCount
<1>2. IsFiniteSet(Others) /\ Cardinality(Others) = NThreads
  <2>1. IsFiniteSet(Threads) /\ Cardinality(Threads) = NThreads
    <3>1. NThreads \in Nat \ {0}
      BY Constants
    <3>. QED  BY <3>1, FS_Interval DEF Threads
  <2>2. IsFiniteSet(Users) /\ Cardinality(Users) = NThreads + 1
    BY <2>1, Constants, FS_AddElement DEF Users
  <2>3. IsFiniteSet(Others) /\ Cardinality(Others) = Cardinality(Users) - 1
    BY <2>2, FS_RemoveElement
  <2>4. NThreads \in Nat
    BY Constants
  <2>. QED  BY <2>2, <2>3, <2>4
<1>3. ASSUME Cardinality(Others) < Cardinality(Active)
      PROVE  FALSE
  <2> DEFINE f == [i \in Active |-> table[i]]
  <2>1. f \in [Active -> Others]
    <3>1. ASSUME NEW i \in Active
          PROVE  table[i] \in Others
      <4>1. table[i] \in Threads \cup {SLOT_S, SLOT_D} /\ table[i] # SLOT_D
        BY DEF Tables
      <4>2. table[i] # who
        BY DEF Has
      <4>. QED  BY <4>1, <4>2 DEF Users
    <3>. QED  BY <3>1
  <2>2. \E i, j \in Active : i # j /\ f[i] = f[j]
    <3> HIDE DEF f, Active, Others
    <3>. QED  BY <1>1, <1>2, <1>3, <2>1, FS_PigeonHole
  <2>3. \A i, j \in Active : table[i] = table[j] => i = j
    BY DEF Single
  <2>. QED  BY <2>2, <2>3
<1>. QED  BY <1>1, <1>2, <1>3, Constants

(* In such a table, with room, set_slot_num(who, n) for n = 0 or n = 1     *)
(* takes or gives one slot, of who and nobody else.                        *)
LEMMA SetSlotNumGives ==
  ASSUME Room, NEW table \in Tables, Single(table), NEW who \in Users, NEW n \in {0, 1}
  PROVE  /\ Single(SetSlotNum(table, who, n))
         /\ Has(SetSlotNum(table, who, n), who) <=> n = 1
         /\ \A v \in Users \ {who} : Has(SetSlotNum(table, who, n), v) <=> Has(table, v)
<1> DEFINE D       == SlotsOf(table, SLOT_D)
           W       == SlotsOf(table, who)
           have    == Count(table, who)
           taken   == LowestSlots(D, n - have)
           givenUp == LowestSlots(W, have - n)
           new     == [i \in SlotIds |-> IF i \in taken THEN who
                                         ELSE IF i \in givenUp THEN SLOT_D
                                         ELSE table[i]]
<1>1. /\ SLOT_D \notin Users /\ D \subseteq SlotIds /\ W \subseteq SlotIds
      /\ \A i \in D : table[i] = SLOT_D
      /\ \A i \in W : table[i] = who
  BY Constants DEF Users, SlotsOf
<1>2. /\ have \in {0, 1} /\ who # SLOT_D
      /\ Has(table, who) <=> have = 1
  BY <1>1, HasCount
<1>3. SetSlotNumOk(table, who, n)
  <2>1. CASE n <= have
    BY <2>1 DEF SetSlotNumOk
  <2>2. CASE ~ (n <= have)
    <3>1. n = 1 /\ have = 0 /\ ~ Has(table, who)
      BY <1>2, <2>2
    <3>2. ActiveCount(table) \in Nat /\ ActiveCount(table) <= NThreads
      BY <3>1, ActiveBound
    <3>3. ActiveCount(table) + n - have <= NSlots - 1
      <4>1. NThreads \in Nat /\ NSlots \in Nat /\ NThreads + 2 <= NSlots
        BY Constants, SlotSets DEF Room
      <4>. QED  BY <3>1, <3>2, <4>1
    <3>. QED  BY <3>3 DEF SetSlotNumOk
  <2>. QED  BY <2>1, <2>2
<1>4. SetSlotNum(table, who, n) = new
  BY <1>3 DEF SetSlotNum
<1>5. CASE n = have
  <2>1. taken = {} /\ givenUp = {}
    BY <1>1, <1>2, <1>5, LowestNone
  <2>2. new = table
    BY <2>1 DEF Tables
  <2>. QED  BY <1>2, <1>4, <1>5, <2>2
<1>6. CASE n = 1 /\ have = 0
  <2>1. givenUp = {}
    BY <1>1, <1>6, LowestNone
  <2>2. D # {}
    <3>1. ActiveCount(table) \in Nat /\ ActiveCount(table) <= NThreads
      BY <1>2, <1>6, ActiveBound
    <3>2. ASSUME D = {}
          PROVE  FALSE
      <4>1. {i \in SlotIds : table[i] # SLOT_D} = SlotIds
        BY <3>2 DEF SlotsOf
      <4>. QED  BY <3>1, <4>1, SlotSets, Constants DEF ActiveCount, Room
    <3>. QED  BY <3>2
  <2>3. PICK m \in D : taken = {m}
    <3>1. n - have = 1
      BY <1>6
    <3>. QED  BY <1>1, <2>2, <3>1, LowestOne
  <2>4. \A i \in SlotIds : new[i] = IF i = m THEN who ELSE table[i]
    BY <2>1, <2>3
  <2>5. table[m] = SLOT_D /\ m \in SlotIds /\ \A i \in SlotIds : table[i] # who
    BY <1>1, <1>2, <1>6, <2>3 DEF Has
  <2> HIDE DEF new
  <2>6. Single(new)
    BY <2>4, <2>5 DEF Single
  <2>7. Has(new, who)
    BY <2>4, <2>5 DEF Has
  <2>8. \A v \in Users \ {who} : Has(new, v) <=> Has(table, v)
    BY <1>1, <2>4, <2>5 DEF Has
  <2>9. SetSlotNum(table, who, n) = new /\ n = 1
    BY <1>4, <1>6
  <2>. QED  BY <2>6, <2>7, <2>8, <2>9
<1>7. CASE n = 0 /\ have = 1
  <2>1. taken = {}
    BY <1>1, <1>7, LowestNone
  <2>2. PICK m \in W : givenUp = {m}
    <3>1. have - n = 1
      BY <1>7
    <3>2. W # {}
      BY <1>2, <1>7 DEF Has, SlotsOf
    <3>. QED  BY <1>1, <3>1, <3>2, LowestOne
  <2>3. \A i \in SlotIds : new[i] = IF i = m THEN SLOT_D ELSE table[i]
    BY <2>1, <2>2
  <2>4. table[m] = who /\ m \in SlotIds /\ \A i \in SlotIds : i # m => table[i] # who
    BY <1>1, <1>2, <2>2 DEF Single
  <2> HIDE DEF new
  <2>5. Single(new)
    BY <2>3, <2>4 DEF Single
  <2>6. ~ Has(new, who)
    BY <1>2, <2>3, <2>4 DEF Has
  <2>7. \A v \in Users \ {who} : Has(new, v) <=> Has(table, v)
    BY <1>1, <2>3, <2>4 DEF Has
  <2>8. SetSlotNum(table, who, n) = new /\ n # 1
    BY <1>4, <1>7
  <2>. QED  BY <2>5, <2>6, <2>7, <2>8
<1>8. n = have \/ (n = 1 /\ have = 0) \/ (n = 0 /\ have = 1)
  BY <1>2
<1>. QED  BY <1>5, <1>6, <1>7, <1>8, Zenon

-----------------------------------------------------------------------------
(***************************************************************************)
(* The slots of the managed threads                                        *)
(***************************************************************************)

(* A thread the kernel runs has the slot of its mode, but for the one      *)
(* under creation.                                                         *)
Served ==
  Started => \A u \in Threads :
    func[u] /\ ~ (u = target[0] /\ pc[0] \in {"newFunc"} \cup CreatePcs)
      => IF soft[u] THEN Has(slots, SLOT_S) ELSE Has(slots, u)

(* A soft thread other than w, and one at all, that was not reaped. *)
UserBeside(w) ==
  \E v \in Threads \ {w} : v < num /\ v \notin reaped /\ soft[v]
SomeUser ==
  \E v \in Threads : v < num /\ v \notin reaped /\ soft[v]

CountedPcs == {"hardenMode", "hardenSoft", "endSoft"}
FreedPcs   == {"endSoft", "unlockEnd", "zombify"}

(* What was counted at the first write of a section is still so. *)
Counted ==
  pc[0] \in CountedPcs =>
    IF otherSoft[0] THEN UserBeside(target[0])
    ELSE \A v \in Threads \ {target[0]} : ~ (soft[v] /\ func[v])

(* The soft slot has a user, also once the thread that is reaped or created
   is left out.                                                            *)
SoftSlotUsed ==
  /\ ~ Started /\ pc[0] # "startModes" => ~ Has(slots, SLOT_S)
  /\ Started /\ Has(slots, SLOT_S) =>
       /\ pc[0] \in {"newFunc", "unlockEnd", "zombify"} \cup CreatePcs
            => UserBeside(target[0])
       /\ pc[0] \notin CountedPcs \cup {"softenMode"} => SomeUser

(* What a call has given stays given, and what it has taken stays taken. *)
GivenSlots ==
  /\ pc[0] \in {"hardenMode", "hardenSoft"} => Has(slots, target[0])
  /\ pc[0] \in {"softenMode", "softenSlot"} => Has(slots, SLOT_S)
  /\ pc[0] \in FreedPcs => ~ Has(slots, target[0])
  /\ \A u \in reaped : ~ Has(slots, u)

(* The table of osKernelStart, until the modes are written as well. *)
StartTable ==
  pc[0] = "startModes" =>
    /\ Has(slots, 0)
    /\ \A u \in Threads \ {0} : func[u] =>
         IF priority[u] = Normal THEN Has(slots, SLOT_S) ELSE Has(slots, u)
    /\ Has(slots, SLOT_S) =>
         \E u \in Threads \ {0} : u < num /\ func[u] /\ priority[u] = Normal

Slotted ==
  /\ Single(slots) /\ pc[0] \notin {"lockSet", "setSlot"}
  /\ Served /\ Counted /\ SoftSlotUsed /\ GivenSlots /\ StartTable

(* A rewrite of the slot table by the manager gives or takes just the slot
   it is asked for.                                                        *)
Rewritten(from, to, who, n, needed) ==
  /\ pc[0] = from /\ pc'[0] = to
  /\ UNCHANGED <<target, arg, soft, zombie, running, num, func, priority, reaped>>
  /\ Single(slots')
  /\ Has(slots', who) <=> IF needed THEN n = 1 ELSE Has(slots, who)
  /\ \A v \in Users \ {who} : Has(slots', v) <=> Has(slots, v)

(* So it is, as only the manager is in a critical section of slot_mutex.   *)
LEMMA Rewrites ==
  ASSUME Room, IInv, Exclusion, Single(slots),
         NEW from, NEW to, NEW who \in Users, NEW n \in {0, 1}, NEW needed \in BOOLEAN,
         SlotStep(0, from, to, who, n, needed)
  PROVE  copy[0] = slots /\ Rewritten(from, to, who, n, needed)
<1>1. 0 \in Threads /\ DOMAIN pc = Threads /\ slots \in Tables
  BY Constants DEF IInv, TypeOK, Tables
<1>2. copy[0] = slots
  BY <1>1 DEF SlotStep, Exclusion
<1>3. slots' = IF needed THEN SetSlotNum(slots, who, n) ELSE slots
  BY <1>2 DEF SlotStep
<1>4. /\ Single(SetSlotNum(slots, who, n))
      /\ Has(SetSlotNum(slots, who, n), who) <=> n = 1
      /\ \A v \in Users \ {who} : Has(SetSlotNum(slots, who, n), v) <=> Has(slots, v)
  BY <1>1, SetSlotNumGives
<1>5. pc[0] = from /\ pc'[0] = to
  BY <1>1 DEF SlotStep, Goto
<1>6. UNCHANGED <<target, arg, soft, zombie, running, num, func, priority, reaped>>
  BY DEF SlotStep, os
<1>7. CASE needed
  <2>1. slots' = SetSlotNum(slots, who, n)
    BY <1>3, <1>7
  <2>. QED  BY <1>2, <1>4, <1>5, <1>6, <1>7, <2>1 DEF Rewritten
<1>8. CASE ~ needed
  <2>1. slots' = slots
    BY <1>3, <1>8
  <2>. QED  BY <1>2, <1>5, <1>6, <1>8, <2>1 DEF Rewritten
<1>. QED  BY <1>7, <1>8

(* Another thread keeps the slots in order: it may return meanwhile, but   *)
(* nothing else.                                                           *)
LEMMA OthersKeepSlotted ==
  ASSUME OneManager, IInv, Managed, Slotted, NEW t \in Threads \ {0}, Call(t) \/ Step(t)
  PROVE  Slotted'
<1>1. Returning(t)
  BY OtherSteps DEF Managed
<1>2. Started /\ Started'
  BY <1>1 DEF Returning, Managed, BeforeStart, Started
<1>3. /\ UNCHANGED <<slots, soft, num, priority, reaped>>
      /\ pc'[0] = pc[0] /\ target'[0] = target[0] /\ otherSoft'[0] = otherSoft[0]
      /\ \A u \in Threads : func'[u] => func[u]
  BY <1>1 DEF Returning
<1>4. Served'
  BY <1>2, <1>3 DEF Slotted, Served, Has
<1>5. Counted'
  BY <1>3 DEF Slotted, Counted, UserBeside
<1>6. SoftSlotUsed'
  BY <1>2, <1>3 DEF Slotted, SoftSlotUsed, UserBeside, SomeUser, Has
<1>7. GivenSlots'
  BY <1>3 DEF Slotted, GivenSlots, Has
<1>8. StartTable'
  BY <1>2, <1>3 DEF Managed, BeforeStart, Started, StartTable
<1>. QED  BY <1>3, <1>4, <1>5, <1>6, <1>7, <1>8 DEF Slotted, Single

(* A step of the manager that leaves the slots, the modes and the ids. *)
Unmoved == UNCHANGED <<slots, soft, num, func, priority, reaped, running>>

(* The moves of a call that write nothing of this. *)
MoveEdges == LockEdges \cup
             {<<"unlockPriority", "setPriority">>, <<"unlockEnd", "zombify">>,
              <<"cleanMutex", "cleanFunc">>,
              <<"reap", "lockEndSoft">>, <<"reap", "lockEndHard">>}

(* They keep the slots in order. *)
LEMMA MovesKeepSlotted ==
  ASSUME Slotted, running, NEW from, NEW to, <<from, to>> \in MoveEdges \/ from = to,
         pc[0] = from, pc'[0] = to, Unmoved, UNCHANGED <<target, otherSoft>>,
         to \notin {"startModes", "startRun", "lockSet", "setSlot"}
  PROVE  Slotted'
<1>1. ASSUME NEW e \in MoveEdges
      PROVE  /\ e[1] \in {"newFunc"} \cup CreatePcs => e[2] \in {"newFunc"} \cup CreatePcs
             /\ e[2] \notin CountedPcs
             /\ e[2] \in {"newFunc", "unlockEnd", "zombify"} \cup CreatePcs
                  => e[1] \in {"newFunc", "unlockEnd", "zombify"} \cup CreatePcs
             /\ e[1] \notin CountedPcs \cup {"softenMode"}
             /\ e[2] \notin {"hardenMode", "hardenSoft", "softenMode", "softenSlot"}
             /\ e[2] \in FreedPcs => e[1] \in FreedPcs
  BY DEF MoveEdges, LockEdges, CreatePcs, CountedPcs, FreedPcs
<1>2. <<from, to>>[1] = from /\ <<from, to>>[2] = to
  OBVIOUS
<1>3. \/ from = to
      \/ /\ from \in {"newFunc"} \cup CreatePcs => to \in {"newFunc"} \cup CreatePcs
         /\ to \notin CountedPcs
         /\ to \in {"newFunc", "unlockEnd", "zombify"} \cup CreatePcs
              => from \in {"newFunc", "unlockEnd", "zombify"} \cup CreatePcs
         /\ from \notin CountedPcs \cup {"softenMode"}
         /\ to \notin {"hardenMode", "hardenSoft", "softenMode", "softenSlot"}
         /\ to \in FreedPcs => from \in FreedPcs
  <2>1. CASE from = to
    BY <2>1
  <2>2. CASE <<from, to>> \in MoveEdges
    BY <1>1, <1>2, <2>2
  <2>. QED  BY <2>1, <2>2
<1>4. Started /\ Started'
  BY DEF Started, Unmoved
<1>5. Served'
  BY <1>3, <1>4 DEF Slotted, Served, Has, Unmoved
<1>6. Counted'
  BY <1>3 DEF Slotted, Counted, UserBeside, Unmoved
<1>7. SoftSlotUsed'
  BY <1>3, <1>4 DEF Slotted, SoftSlotUsed, UserBeside, SomeUser, Has, Unmoved
<1>8. GivenSlots'
  BY <1>3 DEF Slotted, GivenSlots, Has, Unmoved
<1>9. StartTable'
  BY DEF StartTable
<1>. QED  BY <1>5, <1>6, <1>7, <1>8, <1>9 DEF Slotted, Single, Unmoved

(* Between two calls no thread is left out, and nothing is given or taken. *)
RestPcs == {"idle", "newStore", "lockHarden", "lockSoften", "cleanMutex", "reap"}

Resting ==
  /\ Single(slots)
  /\ Started => \A u \in Threads : func[u] =>
       IF soft[u] THEN Has(slots, SLOT_S) ELSE Has(slots, u)
  /\ Has(slots, SLOT_S) => Started /\ SomeUser
  /\ \A u \in reaped : ~ Has(slots, u)

(* So it is when the manager is between two calls. *)
LEMMA RestSlotted ==
  /\ pc[0] \in RestPcs /\ Resting => Slotted
  /\ pc'[0] \in RestPcs /\ Resting' => Slotted'
  /\ pc[0] \in RestPcs /\ Slotted => Resting
<1>1. ASSUME NEW p \in RestPcs
      PROVE  /\ p \notin {"newFunc", "unlockEnd", "zombify"} \cup CreatePcs
             /\ p \notin CountedPcs \cup {"softenMode"} /\ p \notin CountedPcs
             /\ p \notin {"hardenMode", "hardenSoft", "softenMode", "softenSlot"}
             /\ p \notin FreedPcs /\ p \notin {"startModes", "lockSet", "setSlot"}
             /\ p \notin {"newFunc"} \cup CreatePcs
  BY DEF RestPcs, CreatePcs, CountedPcs, FreedPcs
<1>2. pc[0] \in RestPcs /\ Resting => Slotted
  BY <1>1 DEF Resting, Slotted, Served, Counted, SoftSlotUsed, GivenSlots, StartTable
<1>3. pc'[0] \in RestPcs /\ Resting' => Slotted'
  BY <1>1 DEF Resting, Slotted, Served, Counted, SoftSlotUsed, GivenSlots, StartTable
<1>4. pc[0] \in RestPcs /\ Slotted => Resting
  BY <1>1 DEF Resting, Slotted, Served, Counted, SoftSlotUsed, GivenSlots, StartTable
<1>. QED  BY <1>2, <1>3, <1>4

(* A call of the manager starts with the slots in order. *)
LEMMA CallsKeepSlotted ==
  ASSUME Room, IInv, Managed, Slotted, Call(0)
  PROVE  Slotted'
<1>1. DOMAIN pc = Threads /\ 0 \in Threads
  BY Constants DEF IInv, TypeOK
<1>2. ASSUME Unmoved, Resting, Started' <=> Started
      PROVE  Resting'
  BY <1>2 DEF Unmoved, Resting, Single, Has, SomeUser
<1>3. ASSUME NEW p \in RestPcs, NEW u, NEW a, Begin(0, p, u, a)
      PROVE  Slotted'
  <2>1. pc[0] = "idle" /\ pc'[0] = p /\ Unmoved
    BY <1>1, <1>3 DEF Begin, Goto, os, Unmoved
  <2>2. Started' <=> Started
    BY <2>1 DEF Started, RestPcs, Unmoved
  <2>3. "idle" \in RestPcs
    BY DEF RestPcs
  <2>. QED  BY <1>2, <2>1, <2>2, <2>3, RestSlotted
<1>4. {"newStore", "lockHarden", "lockSoften", "cleanMutex", "reap"} \subseteq RestPcs
  BY DEF RestPcs
<1>5. ASSUME NEW u, NEW p, \/ ThreadNew(0, p) \/ SetPriority(0, u, p)
                           \/ Terminate(0, u) \/ Join(0, u)
      PROVE  Slotted'
  BY <1>3, <1>4, <1>5 DEF ThreadNew, SetPriority, Terminate, Join
<1>6. ASSUME NEW u, Suspend(0, u)
      PROVE  Slotted'
  <2>1. pc[0] = "idle" /\ pc'[0] = "idle" /\ Unmoved
    BY <1>1, <1>6 DEF Suspend, Goto, os, Unmoved
  <2>2. Started' <=> Started
    BY <2>1 DEF Started, Unmoved
  <2>3. "idle" \in RestPcs
    BY DEF RestPcs
  <2>. QED  BY <1>2, <2>1, <2>2, <2>3, RestSlotted
<1>7. ASSUME KernelStart(0)
      PROVE  Slotted'
  <2>1. /\ pc[0] = "idle" /\ pc'[0] = "startModes" /\ slots' = StartSlots
        /\ UNCHANGED <<soft, running, num, func, priority, reaped>> /\ ~ running
    BY <1>1, <1>7 DEF KernelStart, Goto, os
  <2>2. ~ Started /\ ~ Started' /\ reaped = {} /\ priority[0] = Realtime
    BY <2>1 DEF Started, Managed, BeforeStart
  <2> DEFINE Soft == {u \in Alive \ {0} : priority[u] = Normal}
             Hard == {u \in Alive \ {0} : priority[u] = Realtime}
  <2>3. /\ Soft \subseteq SlotIds /\ Hard \subseteq SlotIds /\ 0 \in SlotIds
        /\ Soft \cap ({0} \cup Hard) = {}
        /\ \A i \in SlotIds : i # SLOT_S \/ i \notin Threads
    <3>1. Threads \subseteq SlotIds
      <4>1. NThreads \in Nat /\ NSlots \in Nat /\ NThreads + 2 <= NSlots
        BY Constants, SlotSets DEF Room
      <4>. QED  BY <4>1 DEF Threads, SlotIds
    <3>2. Soft \subseteq Threads /\ Hard \subseteq Threads /\ 0 \in Threads
      BY Constants DEF Alive
    <3>3. Soft \cap ({0} \cup Hard) = {}
      BY Constants
    <3>4. SLOT_S \notin Threads
      BY Constants
    <3>. QED  BY <3>1, <3>2, <3>3, <3>4
  <2>4. \A i \in SlotIds :
          StartSlots[i] = IF i \in {0} \cup Hard THEN i
                          ELSE IF i \in LowestSlots(Soft, 1) THEN SLOT_S ELSE SLOT_D
    BY DEF StartSlots
  <2>5. \/ LowestSlots(Soft, 1) = {} /\ Soft = {}
        \/ \E m \in Soft : LowestSlots(Soft, 1) = {m}
    <3>1. CASE Soft = {}
      BY <3>1 DEF LowestSlots
    <3>2. CASE Soft # {}
      BY <2>3, <3>2, LowestOne
    <3>. QED  BY <3>1, <3>2
  <2>6. /\ SLOT_S \notin Threads /\ SLOT_D \notin Threads /\ SLOT_S # SLOT_D
        /\ {0} \cup Hard \subseteq Threads /\ Soft \subseteq Threads
    BY Constants DEF Alive
  <2>7. Single(StartSlots)
    <3>1. ASSUME NEW i \in SlotIds, NEW j \in SlotIds,
                 StartSlots[i] = StartSlots[j], StartSlots[i] # SLOT_D
          PROVE  i = j
      <4> DEFINE Own == {0} \cup Hard
      <4>1. \A k \in SlotIds :
              /\ k \in Own => StartSlots[k] = k /\ k # SLOT_S /\ k # SLOT_D
              /\ k \notin Own /\ StartSlots[k] # SLOT_D
                   => StartSlots[k] = SLOT_S /\ k \in LowestSlots(Soft, 1)
        BY <2>4, <2>6
      <4>2. \A k, l \in LowestSlots(Soft, 1) : k = l
        BY <2>5
      <4> HIDE DEF Own, Soft
      <4>. QED  BY <3>1, <4>1, <4>2
    <3>. QED  BY <3>1 DEF Single
  <2>8. \A i \in {0} \cup Hard : Has(StartSlots, i)
    BY <2>3, <2>4 DEF Has
  <2>9. Has(StartSlots, SLOT_S) <=> Soft # {}
    BY <2>3, <2>4, <2>5, <2>6 DEF Has
  <2>10. StartTable'
    <3>1. \A u \in Threads \ {0} : func[u] => (IF priority[u] = Normal THEN u \in Soft ELSE u \in Hard)
      BY DEF Alive, Priorities, IInv, TypeOK
    <3>2. \A u \in Soft : u \in Threads \ {0} /\ u < num /\ func[u] /\ priority[u] = Normal
      <4>1. \A u \in Threads : func[u] => u < num
        BY Constants DEF IInv, TypeOK, Managed, IdsInOrder
      <4>. QED  BY <4>1 DEF Alive
    <3>. QED  BY <2>1, <2>8, <2>9, <3>1, <3>2 DEF StartTable
  <2>11. Served' /\ Counted' /\ SoftSlotUsed' /\ GivenSlots'
    BY <2>1, <2>2 DEF Served, Counted, SoftSlotUsed, GivenSlots, CountedPcs, FreedPcs
  <2>. QED  BY <2>1, <2>7, <2>10, <2>11 DEF Slotted
<1>8. \A u, n : n \in Counts => ~ SetSlots(0, u, n)
  BY DEF Room
<1>. QED  BY <1>5, <1>6, <1>7, <1>8 DEF Call, Exit

(* A write of the manager that leaves the slot table keeps them in order. *)
LEMMA WritesKeepSlotted ==
  ASSUME OneManager, IInv, Managed, Slotted,
         \/ NewStore(0) \/ NewFunc(0) \/ StartModes(0) \/ StartRun(0)
         \/ Locks(0) \/ Unlocks(0) \/ GetSlots(0)
         \/ CreateHbit(0) \/ CreateLbit(0) \/ HardenMode(0) \/ SoftenMode(0)
         \/ CleanMutex(0) \/ CleanFunc(0) \/ Reap(0) \/ Zombify(0) \/ StorePriority(0)
  PROVE  Slotted'
<1>1. /\ DOMAIN pc = Threads /\ 0 \in Threads /\ DOMAIN soft = Threads
      /\ DOMAIN func = Threads /\ DOMAIN otherSoft = Threads
      /\ Threads \subseteq Nat /\ num \in Nat
  BY Constants DEF IInv, TypeOK
<1>2. ASSUME NEW from, NEW to, Goto(0, from, to)
      PROVE  pc[0] = from /\ pc'[0] = to
  BY <1>1, <1>2 DEF Goto
<1>3. /\ Single(slots) /\ Served /\ Counted /\ SoftSlotUsed /\ GivenSlots /\ StartTable
      /\ pc[0] \notin {"lockSet", "setSlot"}
  BY DEF Slotted
<1>4. /\ pc[0] \notin SlotCallPcs => target[0] \in Threads
      /\ pc[0] \notin OutsidePcs \cup NewPcs => running
      /\ pc[0] \in CleanPcs /\ target[0] # 0 => running
  BY <1>1 DEF IInv, Shape, ShapeOf
<1>5. CASE NewStore(0)
  <2>1. /\ pc[0] = "newStore" /\ pc'[0] = "newFunc" /\ num' = num + 1 /\ target[0] = num
        /\ UNCHANGED <<slots, soft, func, reaped, running, target, otherSoft>>
    BY <1>2, <1>5 DEF NewStore, local, Managed, IdsInOrder
  <2>2. Resting /\ (Started' <=> Started)
    BY <1>3, <2>1, RestSlotted DEF RestPcs, Started, Slotted
  <2>3. \A v \in Threads : v < num => v < num' /\ v # num
    <3>1. ASSUME NEW v \in Threads, v < num
          PROVE  v < num + 1 /\ v # num
      <4>1. v \in Nat
        BY <1>1
      <4>. QED  BY <1>1, <3>1, <4>1
    <3>. QED  BY <2>1, <3>1
  <2>4. Served'
    BY <2>1, <2>2 DEF Resting, Served, Has
  <2>5. SoftSlotUsed'
    BY <2>1, <2>2, <2>3 DEF Resting, SoftSlotUsed, UserBeside, SomeUser, Has
  <2>6. Counted' /\ GivenSlots' /\ StartTable'
    BY <2>1, <2>2 DEF Resting, Counted, CountedPcs, GivenSlots, FreedPcs, StartTable, Has
  <2>. QED  BY <1>3, <2>1, <2>4, <2>5, <2>6 DEF Slotted, Single
<1>6. CASE NewFunc(0)
  <2>1. /\ pc[0] = "newFunc" /\ target[0] \in Threads
        /\ UNCHANGED <<slots, soft, num, reaped, running>>
        /\ \A u \in Threads : u # target[0] => func'[u] = func[u]
    BY <1>1, <1>2, <1>4, <1>6 DEF NewFunc, SlotCallPcs
  <2>2. CASE running
    <3>1. pc'[0] = "lockCreate" /\ UNCHANGED <<target, otherSoft>>
      BY <1>2, <1>6, <2>2 DEF NewFunc, local
    <3>2. Started /\ Started'
      BY <2>1, <2>2 DEF Started
    <3>3. Served'
      BY <1>3, <2>1, <3>1, <3>2 DEF Served, CreatePcs, Has
    <3>4. SoftSlotUsed'
      BY <1>3, <2>1, <3>1, <3>2
         DEF SoftSlotUsed, CreatePcs, CountedPcs, UserBeside, SomeUser, Has
    <3>5. Counted' /\ GivenSlots' /\ StartTable'
      BY <1>3, <2>1, <3>1 DEF Counted, CountedPcs, GivenSlots, FreedPcs, StartTable, Has
    <3>. QED  BY <1>3, <2>1, <3>1, <3>3, <3>4, <3>5 DEF Slotted, Single
  <2>3. CASE ~ running
    <3>1. pc'[0] = "idle"
      BY <1>2, <1>6, <2>3 DEF NewFunc
    <3>2. ~ Started /\ ~ Started' /\ ~ Has(slots, SLOT_S)
      BY <1>3, <2>1, <2>3, <3>1 DEF Started, SoftSlotUsed
    <3>3. Resting'
      BY <1>3, <2>1, <3>2 DEF Resting, GivenSlots, Single, Has
    <3>. QED  BY <3>1, <3>3, RestSlotted DEF RestPcs
  <2>. QED  BY <2>2, <2>3
<1>7. CASE StartModes(0)
  <2>1. /\ pc[0] = "startModes" /\ pc'[0] = "startRun"
        /\ UNCHANGED <<slots, target, running, num, func, priority, reaped>>
        /\ \A u \in Threads : soft'[u] <=> u # 0 /\ (func[u] => priority[u] = Normal)
    BY <1>2, <1>7 DEF StartModes, os, local
  <2>2. reaped = {}
    BY <2>1 DEF Managed, BeforeStart, Started
  <2>3. Served'
    BY <1>3, <2>1 DEF StartTable, Served, Has
  <2>4. SoftSlotUsed'
    BY <1>1, <1>3, <2>1, <2>2
       DEF StartTable, SoftSlotUsed, CreatePcs, SomeUser, Started, Has
  <2>5. Counted' /\ GivenSlots' /\ StartTable'
    BY <2>1, <2>2 DEF Counted, CountedPcs, GivenSlots, FreedPcs, StartTable
  <2>. QED  BY <1>3, <2>1, <2>3, <2>4, <2>5 DEF Slotted, Single
<1>8. CASE StartRun(0)
  <2>1. /\ pc[0] = "startRun" /\ pc'[0] = "idle" /\ running' = TRUE
        /\ UNCHANGED <<slots, soft, num, func, reaped>>
    BY <1>2, <1>8 DEF StartRun
  <2>2. Started /\ Started'
    BY <2>1 DEF Started
  <2>3. Resting'
    BY <1>3, <2>1, <2>2
       DEF Served, SoftSlotUsed, GivenSlots, CreatePcs, CountedPcs, Resting, Single, Has,
           SomeUser
  <2>. QED  BY <2>1, <2>3, RestSlotted DEF RestPcs
<1>9. CASE CreateHbit(0) \/ CreateLbit(0)
  <2>1. /\ pc[0] \in {"createHbit", "createLbit"} /\ pc'[0] \in {"createLbit", "createSlot"}
        /\ UNCHANGED <<slots, target, running, num, func, reaped>>
        /\ \A u \in Threads : u # target[0] => soft'[u] = soft[u]
    BY <1>1, <1>2, <1>9
       DEF CreateHbit, CreateLbit, ModeStep, SetSoftBit, os, local
  <2>2. Started /\ Started'
    BY <1>4, <2>1 DEF Started, OutsidePcs, CleanPcs, NewPcs
  <2>3. UserBeside(target[0]) => UserBeside(target[0])' /\ SomeUser'
    BY <2>1 DEF UserBeside, SomeUser
  <2>4. Served'
    BY <1>3, <2>1, <2>2 DEF Served, CreatePcs, Has
  <2>5. SoftSlotUsed'
    BY <1>3, <2>1, <2>2, <2>3 DEF SoftSlotUsed, CreatePcs, Has
  <2>6. Counted' /\ GivenSlots' /\ StartTable'
    BY <1>3, <2>1 DEF Counted, CountedPcs, GivenSlots, FreedPcs, StartTable, Has
  <2>. QED  BY <1>3, <2>1, <2>4, <2>5, <2>6 DEF Slotted, Single
<1>10. CASE HardenMode(0)
  <2>1. /\ pc[0] = "hardenMode" /\ pc'[0] = "hardenSoft"
        /\ UNCHANGED <<slots, target, otherSoft, running, num, func, reaped>>
    BY <1>2, <1>10 DEF HardenMode, ModeStep, os, local
  <2>2. running /\ target[0] \in Threads
    BY <1>4, <2>1 DEF OutsidePcs, CleanPcs, NewPcs, SlotCallPcs
  <2>3. /\ \A u \in Threads : u # target[0] => soft'[u] = soft[u]
        /\ soft'[target[0]] = FALSE
    BY <1>1, <1>10, <2>2 DEF HardenMode, SetSoftBit
  <2>4. Started /\ Started'
    BY <2>1, <2>2 DEF Started
  <2>5. Served'
    BY <1>3, <2>1, <2>3, <2>4 DEF Served, GivenSlots, CreatePcs, Has
  <2>6. Counted'
    BY <1>3, <2>1, <2>3 DEF Counted, CountedPcs, UserBeside
  <2>7. SoftSlotUsed' /\ GivenSlots' /\ StartTable'
    BY <1>3, <2>1, <2>4
       DEF SoftSlotUsed, GivenSlots, StartTable, CreatePcs, CountedPcs, FreedPcs, Has
  <2>. QED  BY <1>3, <2>1, <2>5, <2>6, <2>7 DEF Slotted, Single
<1>11. CASE SoftenMode(0)
  <2>1. /\ pc[0] = "softenMode" /\ pc'[0] = "softenSlot"
        /\ UNCHANGED <<slots, target, running, num, func, reaped>>
    BY <1>2, <1>11 DEF SoftenMode, ModeStep, os, local
  <2>2. /\ running /\ target[0] \in Threads
        /\ target[0] < num /\ target[0] \notin reaped
    BY <1>4, <2>1
       DEF OutsidePcs, CleanPcs, NewPcs, SlotCallPcs, Managed, IdsInOrder, PriorityPcs
  <2>3. /\ \A u \in Threads : u # target[0] => soft'[u] = soft[u]
        /\ soft'[target[0]] = TRUE
    BY <1>1, <1>11, <2>2 DEF SoftenMode, SetSoftBit
  <2>4. Started /\ Started' /\ SomeUser'
    BY <2>1, <2>2, <2>3 DEF Started, SomeUser
  <2>5. Served'
    BY <1>3, <2>1, <2>3, <2>4 DEF Served, GivenSlots, CreatePcs, Has
  <2>6. SoftSlotUsed' /\ GivenSlots' /\ Counted' /\ StartTable'
    BY <1>3, <2>1, <2>4
       DEF SoftSlotUsed, GivenSlots, Counted, StartTable, CreatePcs, CountedPcs, FreedPcs, Has
  <2>. QED  BY <1>3, <2>1, <2>5, <2>6 DEF Slotted, Single
<1>12. CASE CleanFunc(0)
  <2>1. pc[0] = "cleanFunc" /\ target[0] # 0
    BY <1>2, <1>12 DEF CleanFunc, Managed, IdsInOrder, CleanPcs
  <2>2. target[0] \in Threads /\ running
    BY <1>4, <2>1 DEF SlotCallPcs, CleanPcs
  <2>3. /\ pc'[0] = "reap" /\ UNCHANGED <<slots, soft, running, num, reaped>>
        /\ \A u \in Threads : func'[u] => func[u]
    BY <1>1, <1>2, <1>12, <2>1, <2>2 DEF CleanFunc
  <2>4. Started /\ Started'
    BY <2>2, <2>3 DEF Started
  <2>5. Resting'
    BY <1>3, <2>1, <2>3, <2>4
       DEF Served, SoftSlotUsed, GivenSlots, CreatePcs, CountedPcs, Resting, Single, Has,
           SomeUser
  <2>. QED  BY <2>3, <2>5, RestSlotted DEF RestPcs
<1>13. CASE Zombify(0)
  <2>1. /\ pc[0] = "zombify" /\ pc'[0] = "idle"
        /\ UNCHANGED <<slots, soft, running, num, func>>
        /\ reaped' = reaped \cup {target[0]}
    BY <1>2, <1>13 DEF Zombify, os
  <2>2. Started /\ Started'
    BY <1>4, <2>1 DEF Started, OutsidePcs, CleanPcs, NewPcs
  <2>3. UserBeside(target[0]) => SomeUser'
    BY <2>1 DEF UserBeside, SomeUser
  <2>4. Resting'
    BY <1>3, <2>1, <2>2, <2>3
       DEF Served, SoftSlotUsed, GivenSlots, FreedPcs, CreatePcs, Resting, Single, Has
  <2>. QED  BY <2>1, <2>4, RestSlotted DEF RestPcs
<1>14. CASE StorePriority(0) \/ Unlock(0, "unlock", "idle")
  <2>1. /\ pc[0] \in {"setPriority", "unlock"} /\ pc'[0] = "idle"
        /\ UNCHANGED <<slots, soft, running, num, func, reaped>>
    BY <1>2, <1>14 DEF StorePriority, Unlock, os
  <2>2. Started /\ Started'
    BY <1>4, <2>1 DEF Started, OutsidePcs, CleanPcs, NewPcs
  <2>3. Resting'
    BY <1>3, <2>1, <2>2
       DEF Served, SoftSlotUsed, GivenSlots, CreatePcs, CountedPcs, Resting, Single, Has,
           SomeUser
  <2>. QED  BY <2>1, <2>3, RestSlotted DEF RestPcs
<1>15. CASE Locks(0)
  <2>1. PICK e \in LockEdges : Lock(0, e[1], e[2])
    BY <1>1, <1>15, LockSteps
  <2>2. pc[0] = e[1] /\ pc'[0] \in {e[1], e[2]} /\ Unmoved /\ UNCHANGED <<target, otherSoft>>
    BY <1>2, <2>1 DEF Lock, os, local, Unmoved
  <2>3. e \in MoveEdges /\ e = <<e[1], e[2]>>
    BY DEF LockEdges, MoveEdges
  <2>4. /\ running
        /\ e[1] \notin {"startModes", "startRun"} /\ e[2] \notin {"startModes", "startRun"}
    <3>1. e[1] \notin OutsidePcs \cup NewPcs /\ e[2] \in SectionPcs
      BY Edges
    <3>. QED  BY <1>4, <2>2, <3>1 DEF OutsidePcs, SectionPcs
  <2>5. e[1] # "lockSet" /\ e[2] \notin {"lockSet", "setSlot"}
    BY <1>3, <2>2 DEF LockEdges
  <2>6. e[1] # "setSlot"
    BY DEF LockEdges
  <2>. QED  BY <2>2, <2>3, <2>4, <2>5, <2>6, MovesKeepSlotted
<1>16. CASE GetSlots(0)
  <2>1. /\ pc[0] \in SlotPcs /\ pc'[0] = pc[0]
        /\ Unmoved /\ UNCHANGED <<target, otherSoft>>
    BY <1>2, <1>16 DEF GetSlots, os, Unmoved
  <2>2. running /\ pc[0] \notin {"startModes", "startRun", "lockSet", "setSlot"}
    BY <1>3, <1>4, <2>1, OwningPcs DEF OutsidePcs
  <2>. QED  BY <2>1, <2>2, MovesKeepSlotted
<1>17. ASSUME NEW from, NEW to, <<from, to>> \in MoveEdges, pc[0] = from, pc'[0] = to,
              Unmoved, UNCHANGED <<target, otherSoft>>,
              from \in {"unlockPriority", "unlockEnd", "cleanMutex", "reap"}
       PROVE  Slotted'
  <2>1. running
    <3>1. CASE from = "cleanMutex"
      <4>1. target[0] # 0
        BY <1>17, <3>1 DEF Managed, IdsInOrder, CleanPcs
      <4>. QED  BY <1>4, <1>17, <3>1, <4>1 DEF CleanPcs
    <3>2. CASE from # "cleanMutex"
      BY <1>4, <1>17, <3>2 DEF OutsidePcs, CleanPcs, NewPcs
    <3>. QED  BY <3>1, <3>2
  <2>2. to \notin {"startModes", "startRun", "lockSet", "setSlot"}
    BY <1>17 DEF MoveEdges, LockEdges
  <2>. QED  BY <1>17, <2>1, <2>2, MovesKeepSlotted
<1>18. /\ <<"unlockPriority", "setPriority">> \in MoveEdges
       /\ <<"unlockEnd", "zombify">> \in MoveEdges
       /\ <<"cleanMutex", "cleanFunc">> \in MoveEdges
       /\ <<"reap", "lockEndSoft">> \in MoveEdges /\ <<"reap", "lockEndHard">> \in MoveEdges
  BY DEF MoveEdges
<1>19. CASE Unlock(0, "unlockPriority", "setPriority") \/ Unlock(0, "unlockEnd", "zombify")
  BY <1>2, <1>17, <1>18, <1>19 DEF Unlock, os, local, Unmoved
<1>20. CASE CleanMutex(0)
  BY <1>2, <1>17, <1>18, <1>20 DEF CleanMutex, os, local, Unmoved
<1>21. CASE Reap(0)
  BY <1>2, <1>17, <1>18, <1>21 DEF Reap, os, local, Unmoved
<1>. QED
  BY <1>5, <1>6, <1>7, <1>8, <1>9, <1>10, <1>11, <1>12, <1>13, <1>14, <1>15, <1>16,
     <1>19, <1>20, <1>21 DEF Unlocks


(* A rewrite of the slot table by the manager keeps them in order: what    *)
(* gives its own slot up has a soft one, the soft slot is given before it  *)
(* is used and goes with its last user.                                    *)
LEMMA RewritesKeepSlotted ==
  ASSUME Room, IInv, Exclusion, Managed, Slotted,
         \/ CreateSlot(0) \/ HardenSlot(0) \/ HardenSoft(0)
         \/ SoftenSoft(0) \/ SoftenSlot(0)
         \/ EndSlot(0) \/ EndSoft(0) \/ EndHardSlot(0)
  PROVE  Slotted'
<1>1. /\ 0 \in Threads /\ DOMAIN pc = Threads /\ DOMAIN otherSoft = Threads
      /\ \A u \in Threads : soft[u] \in BOOLEAN /\ func[u] \in BOOLEAN
      /\ otherSoft[0] \in BOOLEAN /\ reaped \subseteq Threads
      /\ SLOT_S \in Users /\ SLOT_S \notin Threads /\ Threads \subseteq Users
  BY Constants DEF IInv, TypeOK, Users
<1>2. /\ Single(slots) /\ Served /\ Counted /\ SoftSlotUsed /\ GivenSlots
  BY DEF Slotted
<1>3. /\ pc[0] \notin SlotCallPcs => target[0] \in Threads
      /\ pc[0] \notin OutsidePcs \cup NewPcs => running
  BY <1>1 DEF IInv, Shape, ShapeOf
<1>4. \A u \in Threads : func[u] => u < num /\ u \notin reaped
  <2>1. \A u \in Threads : u \in Nat
    BY Constants DEF Threads
  <2>2. num \in Nat
    BY Constants DEF IInv, TypeOK
  <2>3. /\ \A u \in Threads : u >= num => ~ func[u]
        /\ \A u \in reaped : ~ func[u]
    BY DEF Managed, IdsInOrder
  <2>. QED  BY <2>1, <2>2, <2>3
<1>5. ASSUME NEW table
      PROVE  Count(table, SLOT_S) = 0 <=> ~ Has(table, SLOT_S)
  BY HasCount
<1>6. ASSUME CountSoft(0)
      PROVE  otherSoft'[0] = (\E v \in Threads \ {target[0]} : soft[v] /\ func[v])
  BY <1>1, <1>6 DEF CountSoft, SoftThreadsBeside
<1>7. CASE CreateSlot(0)
  <2>1. /\ pc[0] = "createSlot" /\ target[0] \in Threads /\ running
        /\ target[0] < num /\ target[0] \notin reaped
        /\ soft[target[0]] <=> priority[target[0]] = Normal
    <3>1. pc[0] = "createSlot"
      BY <1>7 DEF CreateSlot
    <3>2. target[0] \in Threads /\ running
      BY <1>3, <3>1 DEF SlotCallPcs, OutsidePcs, CleanPcs, NewPcs
    <3>3. target[0] < num /\ target[0] \notin reaped
      BY <3>1 DEF Managed, IdsInOrder, CreatePcs
    <3>. QED  BY <3>1, <3>2, <3>3 DEF Managed, ModesMatch, Started, ChangingPcs
  <2>2. \/ /\ Rewritten("createSlot", "unlock", target[0], 1, TRUE) /\ ~ soft[target[0]]
        \/ /\ Rewritten("createSlot", "unlock", SLOT_S, 1, ~ Has(slots, SLOT_S))
           /\ soft[target[0]]
    <3>1. CASE priority[target[0]] = Realtime
      <4>1. SlotStep(0, "createSlot", "unlock", target[0], 1, TRUE)
        BY <1>7, <3>1 DEF CreateSlot
      <4>2. ~ soft[target[0]]
        BY <2>1, <3>1 DEF Realtime, Normal
      <4>. QED  BY <1>1, <1>2, <2>1, <4>1, <4>2, Rewrites
    <3>2. CASE priority[target[0]] # Realtime
      <4>1. SlotStep(0, "createSlot", "unlock", SLOT_S, 1, Count(copy[0], SLOT_S) = 0)
        BY <1>7, <3>2 DEF CreateSlot
      <4>2. soft[target[0]]
        BY <2>1, <3>2 DEF IInv, TypeOK, Priorities
      <4>3. /\ copy[0] = slots
            /\ Rewritten("createSlot", "unlock", SLOT_S, 1, Count(copy[0], SLOT_S) = 0)
        BY <1>1, <1>2, <4>1, Rewrites
      <4>. QED  BY <1>5, <4>2, <4>3
    <3>. QED  BY <3>1, <3>2
  <2>3. /\ pc'[0] = "unlock" /\ Single(slots')
        /\ UNCHANGED <<target, soft, running, num, func, reaped>>
        /\ \A v \in Threads \ {target[0]} : Has(slots', v) <=> Has(slots, v)
        /\ IF soft[target[0]] THEN Has(slots', SLOT_S)
           ELSE Has(slots', target[0]) /\ (Has(slots', SLOT_S) <=> Has(slots, SLOT_S))
    BY <1>1, <2>1, <2>2 DEF Rewritten
  <2>4. Started /\ Started'
    BY <2>1, <2>3 DEF Started
  <2>5. Served'
    BY <1>2, <2>1, <2>3, <2>4 DEF Served, CreatePcs
  <2>6. SoftSlotUsed'
    <3>1. UserBeside(target[0]) => SomeUser'
      BY <2>3 DEF UserBeside, SomeUser
    <3>2. soft[target[0]] => SomeUser'
      BY <2>1, <2>3 DEF SomeUser
    <3>. QED
      BY <1>2, <2>1, <2>3, <2>4, <3>1, <3>2 DEF SoftSlotUsed, CreatePcs, CountedPcs
  <2>7. GivenSlots'
    BY <1>1, <1>2, <2>1, <2>3 DEF GivenSlots, FreedPcs
  <2>8. Counted' /\ StartTable'
    BY <2>3 DEF Counted, CountedPcs, StartTable
  <2>. QED  BY <2>3, <2>5, <2>6, <2>7, <2>8 DEF Slotted
<1>8. CASE HardenSlot(0)
  <2>1. /\ pc[0] = "hardenSlot" /\ target[0] \in Threads /\ running
        /\ target[0] < num /\ target[0] \notin reaped
    <3>1. pc[0] = "hardenSlot"
      BY <1>1, <1>8 DEF HardenSlot, SlotStep, Goto
    <3>. QED
      BY <1>3, <3>1 DEF SlotCallPcs, OutsidePcs, CleanPcs, NewPcs, PriorityPcs, Managed,
                        IdsInOrder
  <2>2. Rewritten("hardenSlot", "hardenMode", target[0], 1, Count(copy[0], target[0]) = 0)
        /\ copy[0] = slots /\ CountSoft(0)
    BY <1>1, <1>2, <1>8, <2>1, Rewrites DEF HardenSlot
  <2>3. Count(slots, target[0]) = 0 <=> ~ Has(slots, target[0])
    BY HasCount
  <2>4. /\ pc'[0] = "hardenMode" /\ Single(slots') /\ Has(slots', target[0])
        /\ UNCHANGED <<target, soft, running, num, func, reaped>>
        /\ \A v \in Users \ {target[0]} : Has(slots', v) <=> Has(slots, v)
    BY <2>2, <2>3 DEF Rewritten
  <2>5. Started /\ Started'
    BY <2>1, <2>4 DEF Started
  <2>6. Served'
    BY <1>1, <1>2, <2>1, <2>4, <2>5 DEF Served, CreatePcs
  <2>7. Counted'
    BY <1>4, <1>6, <2>1, <2>2, <2>4 DEF Counted, UserBeside
  <2>8. GivenSlots'
    BY <1>1, <1>2, <2>1, <2>4 DEF GivenSlots, FreedPcs
  <2>9. SoftSlotUsed' /\ StartTable'
    BY <2>4, <2>5 DEF SoftSlotUsed, StartTable, CountedPcs, CreatePcs
  <2>. QED  BY <2>4, <2>6, <2>7, <2>8, <2>9 DEF Slotted
<1>9. CASE HardenSoft(0)
  <2>1. /\ pc[0] = "hardenSoft" /\ target[0] \in Threads /\ running
        /\ target[0] \notin reaped /\ ~ soft[target[0]]
    <3>1. pc[0] = "hardenSoft"
      BY <1>1, <1>9 DEF HardenSoft, SlotStep, Goto
    <3>2. target[0] \in Threads /\ running
      BY <1>3, <3>1 DEF SlotCallPcs, OutsidePcs, CleanPcs, NewPcs
    <3>3. ~ soft[target[0]]
      BY <3>1 DEF Managed, ModesMatch, HardenPcs, Realtime, Normal
    <3>. QED  BY <3>1, <3>2, <3>3 DEF PriorityPcs, Managed, IdsInOrder
  <2>2. Rewritten("hardenSoft", "unlockPriority", SLOT_S, 0, ~ otherSoft[0])
    BY <1>1, <1>2, <1>9, Rewrites DEF HardenSoft
  <2>3. /\ pc'[0] = "unlockPriority" /\ Single(slots')
        /\ UNCHANGED <<target, soft, running, num, func, reaped>>
        /\ \A v \in Threads : Has(slots', v) <=> Has(slots, v)
        /\ Has(slots', SLOT_S) <=> otherSoft[0] /\ Has(slots, SLOT_S)
    BY <1>1, <2>2 DEF Rewritten
  <2>4. /\ Has(slots, target[0])
        /\ IF otherSoft[0] THEN UserBeside(target[0])
           ELSE \A v \in Threads \ {target[0]} : ~ (soft[v] /\ func[v])
    BY <1>2, <2>1 DEF GivenSlots, Counted, CountedPcs
  <2>5. Started /\ Started'
    BY <2>1, <2>3 DEF Started
  <2>6. Served'
    BY <1>2, <2>1, <2>3, <2>4, <2>5 DEF Served, CreatePcs
  <2>7. SoftSlotUsed'
    BY <2>3, <2>4, <2>5 DEF SoftSlotUsed, CreatePcs, UserBeside, SomeUser
  <2>8. GivenSlots' /\ Counted' /\ StartTable'
    BY <1>1, <1>2, <2>3 DEF GivenSlots, Counted, CountedPcs, FreedPcs, StartTable
  <2>. QED  BY <2>3, <2>6, <2>7, <2>8 DEF Slotted
<1>10. CASE SoftenSoft(0)
  <2>1. pc[0] = "softenSoft" /\ target[0] \in Threads /\ running
    <3>1. pc[0] = "softenSoft"
      BY <1>1, <1>10 DEF SoftenSoft, SlotStep, Goto
    <3>. QED  BY <1>3, <3>1 DEF SlotCallPcs, OutsidePcs, CleanPcs, NewPcs
  <2> DEFINE needed == ~ otherSoft'[0] /\ Count(copy[0], SLOT_S) = 0
  <2>2. SlotStep(0, "softenSoft", "softenMode", SLOT_S, 1, needed) /\ CountSoft(0)
    BY <1>10 DEF SoftenSoft
  <2>3. needed \in BOOLEAN
    BY <1>6, <2>2
  <2>4. copy[0] = slots /\ Rewritten("softenSoft", "softenMode", SLOT_S, 1, needed)
    BY <1>1, <1>2, <2>2, <2>3, Rewrites
  <2>5. Started
    BY <2>1 DEF Started
  <2>6. ~ needed => Has(slots, SLOT_S)
    <3>1. otherSoft'[0] => Has(slots, SLOT_S)
      BY <1>2, <1>6, <2>1, <2>2, <2>5 DEF Served, CreatePcs
    <3>. QED  BY <1>5, <2>4, <3>1
  <2>7. /\ pc'[0] = "softenMode" /\ Single(slots') /\ Has(slots', SLOT_S)
        /\ UNCHANGED <<target, soft, running, num, func, reaped>>
        /\ \A v \in Threads : Has(slots', v) <=> Has(slots, v)
    <3> HIDE DEF needed
    <3>. QED  BY <1>1, <2>4, <2>6 DEF Rewritten
  <2>8. Started'
    BY <2>1, <2>7 DEF Started
  <2>9. Served'
    BY <1>2, <2>1, <2>5, <2>7 DEF Served, CreatePcs
  <2>10. SoftSlotUsed' /\ GivenSlots' /\ Counted' /\ StartTable'
    BY <1>1, <1>2, <2>7, <2>8
       DEF SoftSlotUsed, GivenSlots, Counted, CountedPcs, FreedPcs, CreatePcs, StartTable
  <2>. QED  BY <2>7, <2>9, <2>10 DEF Slotted
<1>11. CASE SoftenSlot(0)
  <2>1. /\ pc[0] = "softenSlot" /\ target[0] \in Threads /\ running
        /\ target[0] < num /\ target[0] \notin reaped /\ soft[target[0]]
    <3>1. pc[0] = "softenSlot"
      BY <1>1, <1>11 DEF SoftenSlot, SlotStep, Goto
    <3>2. target[0] \in Threads /\ running
      BY <1>3, <3>1 DEF SlotCallPcs, OutsidePcs, CleanPcs, NewPcs
    <3>3. soft[target[0]]
      BY <3>1 DEF Managed, ModesMatch, SoftenPcs
    <3>. QED  BY <3>1, <3>2, <3>3 DEF PriorityPcs, Managed, IdsInOrder
  <2>2. Rewritten("softenSlot", "unlockPriority", target[0], 0, TRUE)
    BY <1>1, <1>2, <1>11, <2>1, Rewrites DEF SoftenSlot
  <2>3. /\ pc'[0] = "unlockPriority" /\ Single(slots') /\ ~ Has(slots', target[0])
        /\ UNCHANGED <<target, soft, running, num, func, reaped>>
        /\ \A v \in Users \ {target[0]} : Has(slots', v) <=> Has(slots, v)
    BY <2>2 DEF Rewritten
  <2>4. Started /\ Started' /\ SomeUser'
    BY <2>1, <2>3 DEF Started, SomeUser
  <2>5. Served'
    BY <1>1, <1>2, <2>1, <2>3, <2>4 DEF Served, GivenSlots, CreatePcs
  <2>6. SoftSlotUsed' /\ GivenSlots' /\ Counted' /\ StartTable'
    BY <1>1, <1>2, <2>3, <2>4
       DEF SoftSlotUsed, GivenSlots, Counted, CountedPcs, FreedPcs, CreatePcs, StartTable
  <2>. QED  BY <2>3, <2>5, <2>6 DEF Slotted
<1>12. CASE EndSlot(0)
  <2>1. pc[0] = "endSlot" /\ target[0] \in Threads /\ running /\ ~ func[target[0]]
    <3>1. pc[0] = "endSlot"
      BY <1>1, <1>12 DEF EndSlot, SlotStep, Goto
    <3>. QED
      BY <1>3, <3>1 DEF SlotCallPcs, OutsidePcs, CleanPcs, NewPcs, EndPcs, Managed,
                        IdsInOrder
  <2>2. Rewritten("endSlot", "endSoft", target[0], 0, TRUE) /\ CountSoft(0)
    BY <1>1, <1>2, <1>12, <2>1, Rewrites DEF EndSlot
  <2>3. /\ pc'[0] = "endSoft" /\ Single(slots') /\ ~ Has(slots', target[0])
        /\ UNCHANGED <<target, soft, running, num, func, reaped>>
        /\ \A v \in Users \ {target[0]} : Has(slots', v) <=> Has(slots, v)
    BY <2>2 DEF Rewritten
  <2>4. Started /\ Started'
    BY <2>1, <2>3 DEF Started
  <2>5. Served'
    BY <1>1, <1>2, <2>1, <2>3, <2>4 DEF Served, CreatePcs
  <2>6. Counted'
    BY <1>4, <1>6, <2>1, <2>2, <2>3 DEF Counted, UserBeside
  <2>7. SoftSlotUsed' /\ GivenSlots' /\ StartTable'
    BY <1>1, <1>2, <2>3, <2>4
       DEF SoftSlotUsed, GivenSlots, CountedPcs, FreedPcs, CreatePcs, StartTable
  <2>. QED  BY <2>3, <2>5, <2>6, <2>7 DEF Slotted
<1>13. CASE EndSoft(0)
  <2>1. pc[0] = "endSoft" /\ target[0] \in Threads /\ running /\ ~ func[target[0]]
    <3>1. pc[0] = "endSoft"
      BY <1>1, <1>13 DEF EndSoft, SlotStep, Goto
    <3>. QED
      BY <1>3, <3>1 DEF SlotCallPcs, OutsidePcs, CleanPcs, NewPcs, EndPcs, Managed,
                        IdsInOrder
  <2>2. Rewritten("endSoft", "unlockEnd", SLOT_S, 0, ~ otherSoft[0])
    BY <1>1, <1>2, <1>13, Rewrites DEF EndSoft
  <2>3. /\ pc'[0] = "unlockEnd" /\ Single(slots')
        /\ UNCHANGED <<target, soft, running, num, func, reaped>>
        /\ \A v \in Threads : Has(slots', v) <=> Has(slots, v)
        /\ Has(slots', SLOT_S) <=> otherSoft[0] /\ Has(slots, SLOT_S)
    BY <1>1, <2>2 DEF Rewritten
  <2>4. /\ ~ Has(slots, target[0])
        /\ IF otherSoft[0] THEN UserBeside(target[0])
           ELSE \A v \in Threads \ {target[0]} : ~ (soft[v] /\ func[v])
    BY <1>2, <2>1 DEF GivenSlots, Counted, CountedPcs, FreedPcs
  <2>5. Started /\ Started'
    BY <2>1, <2>3 DEF Started
  <2>6. Served'
    BY <1>2, <2>1, <2>3, <2>4, <2>5 DEF Served, CreatePcs
  <2>7. SoftSlotUsed'
    BY <2>3, <2>4, <2>5 DEF SoftSlotUsed, UserBeside, SomeUser
  <2>8. GivenSlots' /\ Counted' /\ StartTable'
    BY <1>1, <1>2, <2>1, <2>3, <2>4 DEF GivenSlots, Counted, CountedPcs, FreedPcs, StartTable
  <2>. QED  BY <2>3, <2>6, <2>7, <2>8 DEF Slotted
<1>14. CASE EndHardSlot(0)
  <2>1. /\ pc[0] = "endHardSlot" /\ target[0] \in Threads /\ running
        /\ ~ func[target[0]] /\ ~ soft[target[0]]
    <3>1. pc[0] = "endHardSlot"
      BY <1>1, <1>14 DEF EndHardSlot, SlotStep, Goto
    <3>2. target[0] \in Threads /\ running
      BY <1>3, <3>1 DEF SlotCallPcs, OutsidePcs, CleanPcs, NewPcs
    <3>3. ~ func[target[0]] /\ target[0] < num
      BY <3>1 DEF EndPcs, Managed, IdsInOrder
    <3>4. ~ soft[target[0]]
      BY <3>1, <3>2, <3>3 DEF Managed, ModesMatch, Started, ChangingPcs
    <3>. QED  BY <3>1, <3>2, <3>3, <3>4
  <2>2. Rewritten("endHardSlot", "unlockEnd", target[0], 0, TRUE)
    BY <1>1, <1>2, <1>14, <2>1, Rewrites DEF EndHardSlot
  <2>3. /\ pc'[0] = "unlockEnd" /\ Single(slots') /\ ~ Has(slots', target[0])
        /\ UNCHANGED <<target, soft, running, num, func, reaped>>
        /\ \A v \in Users \ {target[0]} : Has(slots', v) <=> Has(slots, v)
    BY <2>2 DEF Rewritten
  <2>4. Started /\ Started'
    BY <2>1, <2>3 DEF Started
  <2>5. Served'
    BY <1>1, <1>2, <2>1, <2>3, <2>4 DEF Served, CreatePcs
  <2>6. SoftSlotUsed'
    <3>1. Has(slots, SLOT_S) => SomeUser
      BY <1>2, <2>1, <2>4 DEF SoftSlotUsed, CountedPcs
    <3>2. SomeUser => UserBeside(target[0])' /\ SomeUser'
      BY <2>1, <2>3 DEF SomeUser, UserBeside
    <3>. QED  BY <1>1, <2>1, <2>3, <2>4, <3>1, <3>2 DEF SoftSlotUsed
  <2>7. GivenSlots' /\ Counted' /\ StartTable'
    BY <1>1, <1>2, <2>3 DEF GivenSlots, Counted, CountedPcs, FreedPcs, StartTable
  <2>. QED  BY <2>3, <2>5, <2>6, <2>7 DEF Slotted
<1>. QED  BY <1>7, <1>8, <1>9, <1>10, <1>11, <1>12, <1>13, <1>14

(* As long as one thread manages the others and the slot table has room    *)
(* for all, the slots stay in order.                                       *)
THEOREM SlottedInvariance ==
  ASSUME OneManager, Room
  PROVE  Spec => []Slotted
<1>1. HoldersLive
  BY DEF OneManager, HoldersLive
<1>2. Init => Slotted
  <2> SUFFICES ASSUME Init
               PROVE  Slotted
    OBVIOUS
  <2>1. /\ pc[0] = "idle" /\ running = FALSE /\ reaped = {}
        /\ \A i \in SlotIds : slots[i] = IF i = NSlots - 1 THEN 0 ELSE SLOT_D
    BY Constants DEF Init
  <2>2. 0 # SLOT_S /\ SLOT_D # SLOT_S
    BY DEF SLOT_S, SLOT_D
  <2>3. ~ Started /\ Single(slots) /\ ~ Has(slots, SLOT_S)
    BY <2>1, <2>2 DEF Started, Single, Has
  <2>. QED  BY <2>1, <2>3, RestSlotted DEF Resting, RestPcs
<1>3. IInv /\ Exclusion /\ Managed /\ Slotted /\ [Next]_vars => Slotted'
  <2> SUFFICES ASSUME IInv, Exclusion, Managed, Slotted, [Next]_vars
               PROVE  Slotted'
    OBVIOUS
  <2>1. CASE Call(0)
    BY <2>1, CallsKeepSlotted
  <2>2. CASE Step(0)
    <3>1. ~ SetSlot(0)
      <4>1. pc[0] # "setSlot"
        BY DEF Slotted
      <4>. QED  BY <4>1 DEF SetSlot, SlotStep, Goto
    <3>. QED  BY <2>2, <3>1, WritesKeepSlotted, RewritesKeepSlotted DEF Step
  <2>3. ASSUME NEW t \in Threads \ {0}, Call(t) \/ Step(t)
        PROVE  Slotted'
    BY <2>3, OthersKeepSlotted
  <2>4. CASE UNCHANGED vars
    <3>1. Single(slots)' /\ Served' /\ GivenSlots' /\ StartTable'
      BY <2>4
         DEF Slotted, Single, Served, GivenSlots, StartTable, Has, Started, vars, os, local
    <3>2. Counted' /\ SoftSlotUsed'
      BY <2>4
         DEF Slotted, Counted, SoftSlotUsed, Has, Started, UserBeside, SomeUser, vars, os, local
    <3>3. pc' = pc
      BY <2>4 DEF vars
    <3>. QED  BY <3>1, <3>2, <3>3 DEF Slotted
  <2>. QED  BY <2>1, <2>2, <2>3, <2>4 DEF Next
<1>. QED
  BY Invariance, Ownership, ManagedInvariance, <1>1, <1>2, <1>3, PTL DEF Spec

(* A hard thread that no operation is about owns a slot, so the hardware   *)
(* can run it.                                                             *)
THEOREM SlotsForHardThreads ==
  ASSUME OneManager, Room
  PROVE  Spec => []HardThreadHasSlot
<1>1. Slotted => HardThreadHasSlot
  <2> SUFFICES ASSUME Slotted, running, NEW u \in Threads, func[u], ~ soft[u], Settled(u)
               PROVE  Count(slots, u) > 0
    BY DEF HardThreadHasSlot
  <2>1. ~ (u = target[0] /\ pc[0] \in {"newFunc"} \cup CreatePcs)
    BY Constants DEF Settled, Pending, CreatePcs
  <2>2. Has(slots, u)
    BY <2>1 DEF Slotted, Served, Started
  <2>. QED  BY <2>2, HasCount
<1>. QED  BY SlottedInvariance, <1>1, PTL

(* While a soft thread lives, there is a soft slot: what fails without     *)
(* room in the slot table holds with it.                                   *)
THEOREM SlotForSoftThreads ==
  ASSUME OneManager, Room
  PROVE  Spec => []SoftThreadsHaveSlot
<1>1. Slotted => SoftThreadsHaveSlot
  <2> SUFFICES ASSUME Slotted, running, NEW u \in Threads, func[u], soft[u], Settled(u)
               PROVE  Count(slots, SLOT_S) > 0
    BY DEF SoftThreadsHaveSlot
  <2>1. ~ (u = target[0] /\ pc[0] \in {"newFunc"} \cup CreatePcs)
    BY Constants DEF Settled, Pending, CreatePcs
  <2>2. Has(slots, SLOT_S)
    BY <2>1 DEF Slotted, Served, Started
  <2>. QED  BY <2>2, HasCount
<1>. QED  BY SlottedInvariance, <1>1, PTL

(* At no step of any operation does a live thread that is not suspended    *)
(* drop out of the hardware schedule: change_hrtt_to_srtt and              *)
(* change_srtt_to_hrtt give before they take.                              *)
THEOREM NobodyIsStranded ==
  ASSUME OneManager, Room
  PROVE  Spec => []NeverStranded
<1>1. Managed /\ Slotted => NeverStranded
  <2> SUFFICES ASSUME Managed, Slotted, running, NEW u \in Threads, func[u], ~ zombie[u],
                      ~ \E t \in Threads : pc[t] = "createSlot" /\ target[t] = u
               PROVE  Schedulable(u)
    BY DEF NeverStranded
  <2>1. ~ (u = target[0] /\ pc[0] \in {"newFunc"} \cup CreatePcs)
    BY Constants DEF CreatePcs, Managed, IdsInOrder
  <2>2. IF soft[u] THEN Has(slots, SLOT_S) ELSE Has(slots, u)
    BY <2>1 DEF Slotted, Served, Started
  <2>. QED  BY <2>2 DEF Has, Schedulable, Serves
<1>. QED  BY ManagedInvariance, SlottedInvariance, <1>1, PTL

(* thread_terminate gives the slots of a thread back: what was reaped owns *)
(* none.                                                                   *)
THEOREM ReapedSlotsComeBack ==
  ASSUME OneManager, Room
  PROVE  Spec => []ReapedHasNoSlot
<1>1. Slotted => ReapedHasNoSlot
  <2>1. \A u : Has(slots, u) <=> Count(slots, u) # 0
    BY HasCount
  <2>. QED  BY <2>1 DEF Slotted, GivenSlots, ReapedHasNoSlot
<1>. QED  BY SlottedInvariance, <1>1, PTL

(* The soft slot goes with the last soft thread: while no operation is     *)
(* pending, a soft slot has a soft thread that was not reaped.             *)
THEOREM SoftSlotIsUsed ==
  ASSUME OneManager, Room
  PROVE  Spec => []SoftSlotHasUser
<1>1. IInv /\ Slotted => SoftSlotHasUser
  <2> SUFFICES ASSUME IInv, Slotted, \A t \in Threads : ~ Pending(t),
                      Count(slots, SLOT_S) > 0
               PROVE  \E u \in 0 .. num - 1 \ reaped : soft[u]
    BY DEF SoftSlotHasUser
  <2>1. pc[0] \in {"idle", "exited"}
    BY Constants DEF Pending
  <2>2. Has(slots, SLOT_S)
    BY HasCount
  <2>3. SomeUser
    BY <2>1, <2>2 DEF Slotted, SoftSlotUsed, CountedPcs
  <2>4. PICK v \in Threads : v < num /\ v \notin reaped /\ soft[v]
    BY <2>3 DEF SomeUser
  <2>5. v \in Nat /\ num \in Nat
    BY Constants DEF Threads, IInv, TypeOK
  <2>. QED  BY <2>4, <2>5
<1>. QED  BY Invariance, SlottedInvariance, <1>1, PTL

=============================================================================
