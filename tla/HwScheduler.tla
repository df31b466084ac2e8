---------------------------- MODULE HwScheduler ----------------------------
(***************************************************************************)
(* The thread scheduler of the FlexPRET pipeline (scheduler.scala, the     *)
(* flexible configuration): every cycle it moves to the next slot that is  *)
(* not disabled and picks the hardware thread that fetches, or none.  The  *)
(* slot is for its owner; when the owner is a zombie, or for a soft slot,  *)
(* the active soft threads take turns.                                     *)
(*                                                                         *)
(* A step is one clock cycle, at whose end software (or the wake-up timer) *)
(* may have rewritten slots or modes.  A register or wire vector of Bools  *)
(* is the set of its true indices.  since and tick serve the properties:   *)
(* the cycles since a slot was last chosen from an unchanged slot table,   *)
(* and a bit that tells a cycle from a stuttering step.                    *)
(***************************************************************************)
EXTENDS SlotTable

CONSTANTS
  NThreads,    (* conf.threads: a power of two, at least 2                 *)
  SlotValues,  (* what software writes into a slot                         *)
  Nobody       (* no valid thread in a cycle                               *)

Threads == 0 .. NThreads - 1

ASSUME HwAssumption ==
  /\ NThreads \in 1 .. 8
  /\ SlotValues \subseteq Threads \cup {SLOT_S, SLOT_D}
  /\ Nobody \notin Threads

VARIABLES
  slots,    (* io.slots                                                    *)
  soft,     (* high bits of io.thread_modes: TMODE_SA, TMODE_SZ            *)
  zombie,   (* low bits of io.thread_modes: TMODE_HZ, TMODE_SZ             *)
  slotOH,   (* register slotOH: the slot granted last, one-hot             *)
  softOH,   (* register threadModeOH: the soft thread granted last         *)
  granted,  (* io.thread of the cycle if io.valid, else Nobody             *)
  since,    (* cycles since each slot was chosen                           *)
  tick      (* flips in every cycle                                        *)

config == <<slots, soft, zombie>>
vars   == <<slots, soft, zombie, slotOH, softOH, granted, since, tick>>

Init ==
  /\ slots = [i \in SlotIds |-> IF i = NSlots - 1 THEN 0 ELSE SLOT_D]
  /\ soft = [t \in Threads |-> FALSE]
  /\ zombie = [t \in Threads |-> t # 0]
  /\ slotOH = {}
  /\ softOH = {}
  /\ granted = Nobody
  /\ since = [i \in SlotIds |-> 0]
  /\ tick = FALSE

-----------------------------------------------------------------------------
(***************************************************************************)
(* The arbiters                                                            *)
(***************************************************************************)

(* The lowest request is granted. *)
PriorityArbiter(request) == {i \in request : \A j \in request : i <= j}

(* The indices above the last grant. *)
Mask(last, all) == {i \in all : \E j \in last : j < i}

(* Slip: the search does not start after the last grant. *)
RRArbiterUnmasked(request, last, all) == PriorityArbiter(request)

(* The first request above the last grant or, failing that, the first. *)
RRArbiter(request, last, all) ==
  LET masked == request \cap Mask(last, all)
  IN  PriorityArbiter(IF masked # {} THEN masked ELSE request)

-----------------------------------------------------------------------------
(***************************************************************************)
(* A cycle                                                                 *)
(***************************************************************************)

Active(t) == ~ zombie[t]

(* The low threadBits bits of a slot. *)
SlotThread(value) == value % NThreads

SlotGrant == RRArbiter({i \in SlotIds : slots[i] # SLOT_D}, slotOH, SlotIds)

SoftGrant == RRArbiter({t \in Threads : soft[t] /\ Active(t)}, softOH, Threads)

(* Slip: an owner in mode SA yields its slot to the other soft threads. *)
OwnerRunsIfHard(i) ==
  slots[i] # SLOT_S /\ Active(SlotThread(slots[i])) /\ ~ soft[SlotThread(slots[i])]

(* The owner of the slot takes it. *)
OwnerRuns(i) == slots[i] # SLOT_S /\ Active(SlotThread(slots[i]))

(* No slot is enabled: io.valid is low. *)
IdleCycle ==
  /\ SlotGrant = {}
  /\ granted' = Nobody
  /\ UNCHANGED <<slotOH, softOH>>

OwnerCycle(i) ==
  /\ i \in SlotGrant /\ OwnerRuns(i)
  /\ granted' = SlotThread(slots[i])
  /\ slotOH' = SlotGrant
  /\ UNCHANGED softOH

(* Slip: the turn of the soft threads does not move. *)
SoftCycleKeepsTurn(i) ==
  /\ i \in SlotGrant /\ ~ OwnerRuns(i)
  /\ granted' \in SoftGrant
  /\ slotOH' = SlotGrant
  /\ UNCHANGED softOH

SoftCycle(i) ==
  /\ i \in SlotGrant /\ ~ OwnerRuns(i)
  /\ granted' \in SoftGrant
  /\ slotOH' = SlotGrant
  /\ softOH' = SoftGrant

(* A slot that nobody can use: the pipeline gets no thread. *)
EmptyCycle(i) ==
  /\ i \in SlotGrant /\ ~ OwnerRuns(i) /\ SoftGrant = {}
  /\ granted' = Nobody
  /\ slotOH' = SlotGrant
  /\ UNCHANGED softOH

Grant ==
  \/ IdleCycle
  \/ \E i \in SlotIds : OwnerCycle(i) \/ SoftCycle(i) \/ EmptyCycle(i)

(* A write of CSR slots, of CSR tmodes, or none at the end of the cycle. *)
WriteSlots ==
  /\ \E i \in SlotIds, v \in SlotValues : slots' = [slots EXCEPT ![i] = v]
  /\ UNCHANGED <<soft, zombie>>

WriteModes ==
  /\ \E t \in Threads, s \in BOOLEAN, z \in BOOLEAN :
       soft' = [soft EXCEPT ![t] = s] /\ zombie' = [zombie EXCEPT ![t] = z]
  /\ UNCHANGED slots

Write == WriteSlots \/ WriteModes \/ UNCHANGED config

Since(i) ==
  IF slots' # slots \/ slots[i] = SLOT_D \/ i \in SlotGrant THEN 0 ELSE since[i] + 1

Cycle ==
  /\ Grant
  /\ Write
  /\ since' = [i \in SlotIds |-> Since(i)]
  /\ tick' = ~ tick

Spec == Init /\ [][Cycle]_vars

(* The clock does not stop. *)
FairSpec == Spec /\ WF_vars(Cycle)

-----------------------------------------------------------------------------
(***************************************************************************)
(* Properties                                                              *)
(***************************************************************************)

TypeOK ==
  /\ slots \in [SlotIds -> SlotValues \cup {0, SLOT_D}]
  /\ soft \in [Threads -> BOOLEAN]
  /\ zombie \in [Threads -> BOOLEAN]
  /\ slotOH \subseteq SlotIds
  /\ softOH \subseteq Threads
  /\ granted \in Threads \cup {Nobody}
  /\ since \in [SlotIds -> Nat]
  /\ tick \in BOOLEAN

(* slotOH and threadModeOH stay one-hot (or, after reset, empty): Mux1H and
   OHToUInt, which merge several hot bits into a wrong slot or thread, are
   safe whatever was written into slots and modes in between.              *)
OneHot ==
  /\ \A i, j \in slotOH : i = j
  /\ \A t, u \in softOH : t = u

(* The slots take turns: with an unchanged table an enabled slot waits for
   at most one cycle of each other enabled slot, whatever the modes do, so
   the owner's share of the cycles depends on the slot table alone.        *)
EnabledSlots == {i \in SlotIds : slots[i] # SLOT_D}

TurnsAreBounded ==
  \A i \in EnabledSlots : since[i] < Cardinality(EnabledSlots)

(* No cycle is wasted that a soft thread could use, and none is taken from
   an active owner: the thread fetched is served by the chosen slot, and
   nobody is fetched only when that slot serves nobody.                    *)
CyclesAreUsed ==
  [][\A i \in slotOH' :
       /\ granted' # Nobody => Serves(slots, soft, zombie, i, granted')
       /\ granted' = Nobody => \A t \in Threads : ~ Serves(slots, soft, zombie, i, t)
       /\ \A t \in Threads : slots[i] = t /\ ~ zombie[t] => granted' = t]_vars

(* A thread that a slot keeps serving is fetched again and again, however
   the other slots and the modes of the other threads are rewritten: what
   the operating system may assume of a schedulable thread.                *)
ServedThreadsRun ==
  \A t \in Threads, i \in SlotIds :
    <>[] Serves(slots, soft, zombie, i, t) => []<>(granted = t)
=============================================================================
