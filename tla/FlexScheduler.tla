---------------------------- MODULE FlexScheduler ----------------------------
(***************************************************************************)
(* Who may run on the FlexPRET processor, as FlexPRET OS manages it: the   *)
(* slot table, the two mode bits of every hardware thread and the          *)
(* operations that change them (flexpret_scheduler.c, and their callers    *)
(* osThreadNew, osThreadSetPriority, osThreadTerminate, osThreadJoin,      *)
(* osThreadSuspend, osThreadResume, osThreadExit and osKernelStart).       *)
(*                                                                         *)
(* The operations run on the hardware threads they manage: a step of a     *)
(* thread needs the thread to be schedulable, and slot_mutex is the lock   *)
(* that FlexMutex implements.  Between two writes of an operation every    *)
(* other thread may run.  set_slot_num reads all slots (GetSlots) and      *)
(* writes all of them back, two steps that only slot_mutex keeps together; *)
(* the soft threads are counted once, at the first write of a section.     *)
(***************************************************************************)
EXTENDS SlotTable

CONSTANTS
  NThreads,   (* FLEXPRET_HW_THREADS_NUMS                                  *)
  Creators,   (* threads that call osThreadNew                             *)
  Managers,   (* threads that join, terminate, suspend and tune others     *)
  Victims,    (* threads that managers terminate and suspend               *)
  Tuners,     (* threads that set their own priority                       *)
  CreateLate, (* TRUE when osThreadNew is also called once the kernel runs *)
  Counts,     (* slot counts that managers ask for by hand                 *)
  NULL        (* nobody                                                    *)

Threads == 0 .. NThreads - 1

ASSUME ThreadsAssumption ==
  /\ NThreads \in 1 .. NSlots /\ NThreads <= SLOT_S
  /\ UNION {Creators, Managers, Victims, Tuners} \subseteq Threads
  /\ CreateLate \in BOOLEAN
  /\ Counts \subseteq Nat
  /\ NULL \notin Threads

VARIABLES
  slots,      (* CSR slots                                                 *)
  soft,       (* high mode bit of each thread in CSR tmodes: SA, SZ        *)
  zombie,     (* low mode bit of each thread in CSR tmodes: HZ, SZ         *)
  running,    (* kernel_state = osKernelRunning                            *)
  num,        (* flexpret_thread_num                                       *)
  func,       (* startup_state[i].func # NULL                              *)
  priority,   (* flexpret_thread_attr_entry[i]->priority                   *)
  slotBit,    (* the lock bit of slot_mutex is set                         *)
  slotOwner,  (* slot_mutex->owner                                         *)
  waited,     (* did the pending osMutexAcquire find the bit set?          *)
  pc,         (* the next write of each thread's pending operation         *)
  target,     (* the thread the pending operation is about                 *)
  arg,        (* its requested priority or count                           *)
  copy,       (* the slots as set_slot_num has read them, or NULL          *)
  otherSoft,  (* did the operation count a soft thread besides its target? *)
  reaped      (* threads whose termination or join has completed           *)

os    == <<running, num, func, priority>>
mutex == <<slotBit, slotOwner, waited>>
local == <<target, arg, copy, otherSoft>>
vars  == <<slots, soft, zombie, running, num, func, priority, slotBit,
           slotOwner, waited, pc, target, arg, copy, otherSoft, reaped>>

Realtime == 48
Normal   == 24
Priorities == {Realtime, Normal}

Pcs == {"idle", "exited", "newStore", "newFunc", "startModes", "startRun",
        "cleanMutex", "cleanFunc", "reap", "zombify", "setPriority",
        "lockCreate", "createHbit", "createLbit", "createSlot", "unlock",
        "lockHarden", "hardenSlot", "hardenMode", "hardenSoft",
        "lockSoften", "softenSoft", "softenMode", "softenSlot", "unlockPriority",
        "lockEndSoft", "endSlot", "endSoft", "lockEndHard", "endHardSlot",
        "unlockEnd", "lockSet", "setSlot"}

(* osKernelInitialize, after reset: only thread 0 runs, on the one slot. *)
Init ==
  /\ slots = [i \in SlotIds |-> IF i = NSlots - 1 THEN 0 ELSE SLOT_D]
  /\ soft = [t \in Threads |-> FALSE]
  /\ zombie = [t \in Threads |-> t # 0]
  /\ running = FALSE
  /\ num = 1
  /\ func = [t \in Threads |-> t = 0]
  /\ priority = [t \in Threads |-> IF t = 0 THEN Realtime ELSE Normal]
  /\ slotBit = FALSE
  /\ slotOwner = NULL
  /\ waited = [t \in Threads |-> FALSE]
  /\ pc = [t \in Threads |-> "idle"]
  /\ target = [t \in Threads |-> 0]
  /\ arg = [t \in Threads |-> 0]
  /\ copy = [t \in Threads |-> NULL]
  /\ otherSoft = [t \in Threads |-> FALSE]
  /\ reaped = {}

(* The hardware lets t run. *)
Schedulable(t) == \E i \in SlotIds : Serves(slots, soft, zombie, i, t)

Goto(t, from, to) ==
  /\ Schedulable(t)
  /\ pc[t] = from
  /\ pc' = [pc EXCEPT ![t] = to]

(* Slip: the thread itself is counted. *)
SoftThreadsBesideItself(u) == {v \in Threads : soft[v] /\ func[v]}

(* The registers of a call that ends or has ended. *)
Returns(t) ==
  /\ target' = [target EXCEPT ![t] = 0]
  /\ arg' = [arg EXCEPT ![t] = 0]
  /\ otherSoft' = [otherSoft EXCEPT ![t] = FALSE]
  /\ UNCHANGED copy

(* Threads other than u that the code counts as SRTT. *)
SoftThreadsBeside(u) == {v \in Threads \ {u} : soft[v] /\ func[v]}

(***************************************************************************)
(* Starting an operation.  Before osKernelStart a program only creates     *)
(* threads, as every test of the repository does.                          *)
(***************************************************************************)

Begin(t, label, u, a) ==
  /\ Goto(t, "idle", label)
  /\ target' = [target EXCEPT ![t] = u]
  /\ arg' = [arg EXCEPT ![t] = a]
  /\ UNCHANGED <<slots, soft, zombie, os, mutex, copy, otherSoft, reaped>>

(* Created threads that have not returned, and threads that have. *)
Alive == {u \in Threads : func[u]}

Returned == {u \in 0 .. num - 1 : /\ ~ func[u]
                                 /\ \A t \in Threads : ~ (pc[t] = "newFunc" /\ target[t] = u)}

(* osThreadNew: flexpret_thread_num is loaded here and stored by NewStore. *)
ThreadNew(t, p) ==
  /\ t \in Creators /\ (running => CreateLate)
  /\ num < NThreads
  /\ Begin(t, "newStore", num, p)

SetPriority(t, u, p) ==
  /\ running
  /\ t \in Managers \/ (t \in Tuners /\ u = t)
  /\ u \in Alive
  /\ priority[u] # p
  /\ Begin(t, IF p = Realtime THEN "lockHarden" ELSE "lockSoften", u, p)

(* osThreadJoin once the thread has returned. *)
Join(t, u) ==
  /\ t \in Managers /\ running
  /\ u \in Returned \ ({t} \cup reaped)
  /\ Begin(t, "reap", u, 0)

(* osSchedulerSetSlotNum and osSchedulerSetSoftSlotNum: any other count is
   refused with osErrorParameter before the mutex.                         *)
SetSlots(t, u, n) ==
  /\ t \in Managers /\ running
  /\ n < NSlots - 1
  /\ u \in Alive \cup {SLOT_S}
  /\ Begin(t, "lockSet", u, n)

(* osThreadTerminate of another thread, which runs on until Zombify. *)
Terminate(t, u) ==
  /\ t \in Managers /\ running
  /\ u \in (Victims \cap Alive) \ {t}
  /\ Begin(t, "cleanMutex", u, 0)

(* osThreadExit, or the return of the thread's function. *)
Exit(t) == t # 0 /\ Begin(t, "cleanMutex", t, 0)

SetZombie(u, z) == zombie' = [zombie EXCEPT ![u] = z]

(* osThreadSuspend and osThreadResume: one csrrs or csrrc of CSR tmodes. *)
Suspend(t, u) ==
  /\ t \in Managers /\ running
  /\ u \in Victims \cap Alive
  /\ Goto(t, "idle", "idle")
  /\ \E z \in BOOLEAN : SetZombie(u, z)
  /\ UNCHANGED <<slots, soft, os, mutex, local, reaped>>

-----------------------------------------------------------------------------
(***************************************************************************)
(* osThreadNew and osKernelStart                                           *)
(***************************************************************************)

NewStore(t) ==
  /\ Goto(t, "newStore", "newFunc")
  /\ num' = target[t] + 1
  /\ priority' = [priority EXCEPT ![target[t]] = arg[t]]
  /\ UNCHANGED <<slots, soft, zombie, running, func, mutex, local, reaped>>

NewFunc(t) ==
  /\ Goto(t, "newFunc", IF running THEN "lockCreate" ELSE "idle")
  /\ func' = [func EXCEPT ![target[t]] = TRUE]
  /\ IF running THEN UNCHANGED local ELSE Returns(t)
  /\ UNCHANGED <<slots, soft, zombie, running, num, priority, mutex, reaped>>

(* The first soft thread brings the soft slot, the others none. *)
StartSlots ==
  LET Created(p) == {u \in Alive \ {0} : priority[u] = p}
      softSlot == LowestSlots(Created(Normal), 1)
  IN  [i \in SlotIds |-> IF i \in {0} \cup Created(Realtime) THEN i
                         ELSE IF i \in softSlot THEN SLOT_S ELSE SLOT_D]

KernelStart(t) ==
  /\ t = 0 /\ ~ running
  /\ Goto(t, "idle", "startModes")
  /\ slots' = StartSlots
  /\ UNCHANGED <<soft, zombie, os, mutex, local, reaped>>

StartModes(t) ==
  /\ Goto(t, "startModes", "startRun")
  /\ soft' = [u \in Threads |-> u # 0 /\ (func[u] => priority[u] = Normal)]
  /\ zombie' = [u \in Threads |-> ~ func[u]]
  /\ UNCHANGED <<slots, os, mutex, local, reaped>>

StartRun(t) ==
  /\ Goto(t, "startRun", "idle")
  /\ running' = TRUE
  /\ UNCHANGED <<slots, soft, zombie, num, func, priority, mutex, local,
                 reaped>>

-----------------------------------------------------------------------------
(***************************************************************************)
(* Critical sections of slot_mutex                                         *)
(***************************************************************************)

(* Slip: no lock is taken. *)
LockIgnored(t, from, to) ==
  /\ Goto(t, from, to)
  /\ UNCHANGED <<slots, soft, zombie, os, mutex, local, reaped>>

(* osMutexAcquire(slot_mutex, osWaitForever).  A caller that never waited
   and finds the bit clear but an owner recorded gets osError, which no
   caller of acquire_slot_mutex looks at: it goes on without the mutex.
   No critical section nests another.                                      *)
Lock(t, from, to) ==
  /\ IF slotBit
     THEN /\ Goto(t, from, from)
          /\ waited' = [waited EXCEPT ![t] = TRUE]
          /\ UNCHANGED <<slotBit, slotOwner>>
     ELSE /\ Goto(t, from, to)
          /\ waited' = [waited EXCEPT ![t] = FALSE]
          /\ IF waited[t] \/ slotOwner = NULL
             THEN slotBit' = TRUE /\ slotOwner' = t
             ELSE UNCHANGED <<slotBit, slotOwner>>
  /\ UNCHANGED <<slots, soft, zombie, os, local, reaped>>

Locks(t) ==
  \/ Lock(t, "lockCreate", "createHbit")
  \/ Lock(t, "lockHarden", "hardenSlot")
  \/ Lock(t, "lockSoften", "softenSoft")
  \/ Lock(t, "lockEndSoft", "endSlot")
  \/ Lock(t, "lockEndHard", "endHardSlot")
  \/ Lock(t, "lockSet", "setSlot")

(* Slip: the lock is kept. *)
UnlockForgotten(t, from, to) ==
  /\ Goto(t, from, to)
  /\ IF to = "idle" THEN Returns(t) ELSE UNCHANGED local
  /\ UNCHANGED <<slots, soft, zombie, os, mutex, reaped>>

(* osMutexRelease: refused, silently, unless t is the recorded owner. *)
Unlock(t, from, to) ==
  /\ Goto(t, from, to)
  /\ IF slotOwner = t
     THEN slotBit' = FALSE /\ slotOwner' = NULL
     ELSE UNCHANGED <<slotBit, slotOwner>>
  /\ IF to = "idle" THEN Returns(t) ELSE UNCHANGED local
  /\ UNCHANGED <<slots, soft, zombie, os, waited, reaped>>

Unlocks(t) ==
  \/ Unlock(t, "unlock", "idle")
  \/ Unlock(t, "unlockPriority", "setPriority")
  \/ Unlock(t, "unlockEnd", "zombify")

(* set_slot_num, first half: all slots are read at once. *)
SlotPcs == {"createSlot", "hardenSlot", "hardenSoft", "softenSoft", "softenSlot",
            "endSlot", "endSoft", "endHardSlot", "setSlot"}

GetSlots(t) ==
  /\ pc[t] \in SlotPcs /\ copy[t] = NULL
  /\ Goto(t, pc[t], pc[t])
  /\ copy' = [copy EXCEPT ![t] = slots]
  /\ UNCHANGED <<slots, soft, zombie, os, mutex, target, arg, otherSoft, reaped>>

(* A section writes slots, from its copy: set_slot_num(who, n) if needed.
   On failure nothing is written and no caller looks at the result.        *)
SlotStep(t, from, to, who, n, needed) ==
  /\ Goto(t, from, to)
  /\ copy[t] # NULL
  /\ slots' = IF needed /\ SetSlotNum(copy[t], who, n) # copy[t]
              THEN SetSlotNum(copy[t], who, n) ELSE slots
  /\ copy' = [copy EXCEPT ![t] = NULL]
  /\ UNCHANGED <<soft, zombie, os, mutex, target, arg, reaped>>

(* A section writes a mode bit: one csrrs or csrrc of CSR tmodes. *)
ModeStep(t, from, to) ==
  /\ Goto(t, from, to)
  /\ UNCHANGED <<slots, os, mutex, local, reaped>>

SetSoftBit(u, bit) == soft' = [soft EXCEPT ![u] = bit]

CountSoft(t) ==
  otherSoft' = [otherSoft EXCEPT ![t] = SoftThreadsBeside(target[t]) # {}]

(* thread_after_create: the mode first, then a slot. *)
CreateHbit(t) ==
  /\ ModeStep(t, "createHbit", "createLbit")
  /\ SetSoftBit(target[t], priority[target[t]] = Normal)
  /\ UNCHANGED zombie

CreateLbit(t) ==
  /\ ModeStep(t, "createLbit", "createSlot")
  /\ SetZombie(target[t], FALSE)
  /\ UNCHANGED soft

CreateSlot(t) ==
  /\ pc[t] = "createSlot"
  /\ IF priority[target[t]] = Realtime
     THEN SlotStep(t, "createSlot", "unlock", target[t], 1, TRUE)
     ELSE SlotStep(t, "createSlot", "unlock", SLOT_S, 1,
                   Count(copy[t], SLOT_S) = 0)
  /\ UNCHANGED otherSoft

(* Slip: the count of soft slots is looked at, not the own one. *)
HardenSlotUnlessSoft(t) ==
  /\ SlotStep(t, "hardenSlot", "hardenMode", target[t], 1,
              Count(copy[t], SLOT_S) = 0)
  /\ CountSoft(t)

(* change_srtt_to_hrtt *)
HardenSlot(t) ==
  /\ SlotStep(t, "hardenSlot", "hardenMode", target[t], 1,
              Count(copy[t], target[t]) = 0)
  /\ CountSoft(t)

(* Slip: the mode bit is not cleared. *)
HardenModeForgotten(t) ==
  /\ ModeStep(t, "hardenMode", "hardenSoft")
  /\ UNCHANGED <<soft, zombie>>

HardenMode(t) ==
  /\ ModeStep(t, "hardenMode", "hardenSoft")
  /\ SetSoftBit(target[t], FALSE)
  /\ UNCHANGED zombie

HardenSoft(t) ==
  /\ SlotStep(t, "hardenSoft", "unlockPriority", SLOT_S, 0, ~ otherSoft[t])
  /\ UNCHANGED otherSoft

(* Slip: no soft slot is allocated before the own ones go. *)
SoftenSoftNone(t) ==
  /\ CountSoft(t)
  /\ SlotStep(t, "softenSoft", "softenMode", SLOT_S, 1, FALSE)

(* change_hrtt_to_srtt *)
SoftenSoft(t) ==
  /\ CountSoft(t)
  /\ SlotStep(t, "softenSoft", "softenMode", SLOT_S, 1,
              ~ otherSoft'[t] /\ Count(copy[t], SLOT_S) = 0)

SoftenMode(t) ==
  /\ ModeStep(t, "softenMode", "softenSlot")
  /\ SetSoftBit(target[t], TRUE)
  /\ UNCHANGED zombie

SoftenSlot(t) ==
  /\ SlotStep(t, "softenSlot", "unlockPriority", target[t], 0, TRUE)
  /\ UNCHANGED otherSoft

(* srtt_terminate *)
EndSlot(t) ==
  /\ SlotStep(t, "endSlot", "endSoft", target[t], 0, TRUE)
  /\ CountSoft(t)

EndSoft(t) ==
  /\ SlotStep(t, "endSoft", "unlockEnd", SLOT_S, 0, ~ otherSoft[t])
  /\ UNCHANGED otherSoft

(* Slip: one slot is kept. *)
EndHardSlotKeepsOne(t) ==
  /\ SlotStep(t, "endHardSlot", "unlockEnd", target[t], 1, TRUE)
  /\ UNCHANGED otherSoft

(* osSchedulerSetSlotNum, called by thread_terminate and by itself. *)
EndHardSlot(t) ==
  /\ SlotStep(t, "endHardSlot", "unlockEnd", target[t], 0, TRUE)
  /\ UNCHANGED otherSoft

SetSlot(t) ==
  /\ SlotStep(t, "setSlot", "unlock", target[t], arg[t], TRUE)
  /\ UNCHANGED otherSoft

-----------------------------------------------------------------------------
(***************************************************************************)
(* Before and after the critical sections                                  *)
(***************************************************************************)

(* thread_clean: the lock bit of a robust mutex of the target is cleared,
   its owner only in a local copy of the control block.                    *)
CleanMutex(t) ==
  /\ Goto(t, "cleanMutex", "cleanFunc")
  /\ slotBit' = (slotBit /\ slotOwner # target[t])
  /\ UNCHANGED <<slots, soft, zombie, os, slotOwner, waited, local, reaped>>

(* A thread that cleaned itself waits for a new function for ever. *)
CleanFunc(t) ==
  /\ Goto(t, "cleanFunc", IF target[t] = t THEN "exited" ELSE "reap")
  /\ func' = [func EXCEPT ![target[t]] = FALSE]
  /\ IF target[t] = t THEN Returns(t) ELSE UNCHANGED local
  /\ UNCHANGED <<slots, soft, zombie, running, num, priority, mutex, reaped>>

(* thread_terminate branches on the recorded priority. *)
Reap(t) ==
  /\ Goto(t, "reap", IF priority[target[t]] = Normal THEN "lockEndSoft"
                     ELSE "lockEndHard")
  /\ UNCHANGED <<slots, soft, zombie, os, mutex, local, reaped>>

Zombify(t) ==
  /\ Goto(t, "zombify", "idle")
  /\ SetZombie(target[t], TRUE)
  /\ reaped' = reaped \cup {target[t]}
  /\ Returns(t)
  /\ UNCHANGED <<slots, soft, os, mutex>>

(* osThreadSetPriority records the priority after the section. *)
StorePriority(t) ==
  /\ Goto(t, "setPriority", "idle")
  /\ priority' = [priority EXCEPT ![target[t]] = arg[t]]
  /\ Returns(t)
  /\ UNCHANGED <<slots, soft, zombie, running, num, func, mutex, reaped>>

Call(t) ==
  \/ \E p \in Priorities : ThreadNew(t, p)
  \/ \E u \in Threads, p \in Priorities : SetPriority(t, u, p)
  \/ \E u \in Threads : Terminate(t, u) \/ Join(t, u) \/ Suspend(t, u)
  \/ \E u \in Threads \cup {SLOT_S}, n \in Counts : SetSlots(t, u, n)
  \/ Exit(t)
  \/ KernelStart(t)

Step(t) ==
  \/ NewStore(t) \/ NewFunc(t) \/ StartModes(t) \/ StartRun(t)
  \/ Locks(t) \/ Unlocks(t) \/ GetSlots(t)
  \/ CreateHbit(t) \/ CreateLbit(t) \/ CreateSlot(t)
  \/ HardenSlot(t) \/ HardenMode(t) \/ HardenSoft(t)
  \/ SoftenSoft(t) \/ SoftenMode(t) \/ SoftenSlot(t)
  \/ EndSlot(t) \/ EndSoft(t) \/ EndHardSlot(t) \/ SetSlot(t)
  \/ CleanMutex(t) \/ CleanFunc(t) \/ Reap(t) \/ Zombify(t) \/ StorePriority(t)

Next == \E t \in Threads : Call(t) \/ Step(t)

Spec == Init /\ [][Next]_vars

(* What the hardware interleaves fairly: a thread inside a call goes on as
   long as it is schedulable.                                              *)
FairSpec == Spec /\ \A t \in Threads : WF_vars(Step(t))

-----------------------------------------------------------------------------
(***************************************************************************)
(* Properties                                                              *)
(***************************************************************************)

(* Every variable keeps its type: ids stored by osThreadNew are those of
   hardware threads, slots hold ids, SLOT_S or SLOT_D.                     *)
TypeOK ==
  /\ slots \in [SlotIds -> Threads \cup {SLOT_S, SLOT_D}]
  /\ soft \in [Threads -> BOOLEAN]
  /\ zombie \in [Threads -> BOOLEAN]
  /\ running \in BOOLEAN
  /\ num \in 1 .. NThreads
  /\ func \in [Threads -> BOOLEAN]
  /\ priority \in [Threads -> Priorities]
  /\ slotBit \in BOOLEAN
  /\ slotOwner \in Threads \cup {NULL}
  /\ waited \in [Threads -> BOOLEAN]
  /\ pc \in [Threads -> Pcs]
  /\ target \in [Threads -> Threads \cup {SLOT_S}]
  /\ arg \in [Threads -> Priorities \cup Counts \cup {0}]
  /\ copy \in [Threads -> [SlotIds -> Threads \cup {SLOT_S, SLOT_D}] \cup {NULL}]
  /\ otherSoft \in [Threads -> BOOLEAN]
  /\ reaped \subseteq Threads

Pending(t) == pc[t] \notin {"idle", "exited"}

Settled(u) == \A t \in Threads : Pending(t) => target[t] # u

(* "thread doesnt have its own slot, alloc one": a hard thread that no
   operation is about owns a slot, so the hardware can run it (osThreadNew,
   osThreadSetPriority, osKernelStart).                                    *)
HardThreadHasSlot ==
  running => \A u \in Threads :
    func[u] /\ ~ soft[u] /\ Settled(u) => Count(slots, u) > 0

(* "before removing, alloc a soft slot if there is no one": while a soft
   thread lives, the operations on other threads leave it a soft slot.     *)
SoftThreadsHaveSlot ==
  running => \A u \in Threads :
    func[u] /\ soft[u] /\ Settled(u) => Count(slots, SLOT_S) > 0

(* thread_terminate gives the slots of a thread back: what was reaped owns
   none, whatever its priority was and whoever changed it before.          *)
ReapedHasNoSlot ==
  \A u \in reaped : Settled(u) => Count(slots, u) = 0

(* The soft slot goes with the last soft thread (srtt_terminate,
   change_srtt_to_hrtt): while no operation is pending, a soft slot has a
   soft thread that was not reaped.                                        *)
SoftSlotHasUser ==
  (\A t \in Threads : ~ Pending(t)) /\ Count(slots, SLOT_S) > 0
     => \E u \in 0 .. num - 1 \ reaped : soft[u]

SectionPcs == {"createHbit", "createLbit", "createSlot", "hardenSlot", "hardenMode",
               "hardenSoft", "softenSoft", "softenMode", "softenSlot", "endSlot",
               "endSoft", "endHardSlot", "setSlot"}

(* slot_mutex serialises the rewrites of the slot table: two threads are
   never both between acquire_slot_mutex and release_slot_mutex.           *)
SectionsExclusive ==
  \A t, u \in Threads : pc[t] \in SectionPcs /\ pc[u] \in SectionPcs => t = u

(* No lost update of the slot table: an operation gives and takes slots
   only of the thread it is about, or soft slots, although set_slot_num
   writes all slots back from an earlier read.                             *)
SlotsChangeOnlyByRequest ==
  [][running => \A i \in SlotIds : slots'[i] # slots[i] =>
       \E t \in Threads : /\ pc'[t] # pc[t]
                          /\ {slots[i], slots'[i]} \subseteq {target[t], SLOT_S, SLOT_D}
    ]_vars

(* set_slot_num refuses to enable the last disabled slot ("Bad slot count"):
   by hand or by the other operations, from several threads at once, the
   table is never filled.                                                  *)
OneSlotStaysDisabled == Count(slots, SLOT_D) > 0

(* A soft or hard mode bit agrees with the priority that osThreadSetPriority
   and osThreadNew recorded ("When priority is osPriorityRealtime, HRTT hw
   thread is created").                                                    *)
PriorityMatchesMode ==
  running => \A u \in Threads :
    func[u] /\ Settled(u) => (soft[u] <=> priority[u] = Normal)

(* "thread num inc should be an atomic operation": no two calls of
   osThreadNew are about the same hardware thread.                         *)
DistinctIds ==
  \A t, u \in Threads :
    /\ pc[t] \in {"newStore", "newFunc"} /\ pc[u] \in {"newStore", "newFunc"}
    /\ target[t] = target[u]
    => t = u

(* change_hrtt_to_srtt gives the soft slot before it takes the own one, and
   change_srtt_to_hrtt the own one before the soft one: at no step of any
   operation does a live thread that is not suspended drop out of the
   hardware schedule.                                                      *)
NeverStranded ==
  running => \A u \in Threads :
    /\ func[u] /\ ~ zombie[u]
    /\ ~ \E t \in Threads : pc[t] = "createSlot" /\ target[t] = u
    => Schedulable(u)

UnlockPcs == {"unlock", "unlockPriority", "unlockEnd"}

(* slot_mutex also guards the guarding: while a thread is in a section, no
   step of another one takes its slots or changes its mode, so whoever drops
   out of the schedule with the mutex in hand did it to itself.            *)
NobodyFreezesTheHolder ==
  [][\A t \in Threads :
       pc[t] \in SectionPcs \cup UnlockPcs /\ Schedulable(t) /\ ~ Schedulable(t)'
         => pc'[t] # pc[t]]_vars

(* "return status code that indicates the execution status of the function"
   (flexpret_scheduler.h:28): whoever enters a critical section leaves it,
   and the call returns.  A thread that gives its own last slot away does
   not.                                                                    *)
SectionsEnd ==
  \A t \in Threads : pc[t] \in SectionPcs ~> ~ Pending(t)

LockPcs == {"lockCreate", "lockHarden", "lockSoften", "lockEndSoft", "lockEndHard",
            "lockSet"}

(* slot_mutex is a spin lock without a queue, so one waiter may be overtaken
   for ever; but while anybody waits, somebody gets into a section, unless a
   call has taken the last slot of its own thread or of a waiter.          *)
WaitersAreServed ==
  (\E t \in Threads : pc[t] \in LockPcs)
    ~> \E t \in Threads : pc[t] \in SectionPcs \/ (Pending(t) /\ ~ Schedulable(t))

inside  == {t \in Threads : pc[t] \in SectionPcs \cup UnlockPcs}
subject == {target[t] : t \in inside}

Abstract == INSTANCE AbstractSlots WITH
  Slots <- SlotIds, Soft <- SLOT_S, Free <- SLOT_D, Numbers <- Counts \cup {0, 1},
  table <- slots, started <- running

(* Under slot_mutex the reads, decisions and writes of set_slot_num and of
   the mode bits, spread over many steps of several threads, are the
   resizings and changes of mode that the calls promise, of one user each. *)
ImplementsSlots == Abstract!Spec
=============================================================================
