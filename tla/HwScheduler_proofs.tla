------------------------- MODULE HwScheduler_proofs -------------------------
(***************************************************************************)
(* Proofs about HwScheduler for any number of slots and any number of      *)
(* threads up to 8: the arbiters grant exactly one request whenever there  *)
(* is one, so the one-hot registers stay one-hot and no cycle goes to a    *)
(* thread that its slot does not serve; and the slots take turns.          *)
(***************************************************************************)
EXTENDS HwScheduler, FiniteSetTheorems, WellFoundedInduction, TLAPS

(* A non-empty set of naturals has a least member. *)
LEMMA LeastMember ==
  ASSUME NEW R, R \subseteq Nat, R # {}
  PROVE  \E i \in R : \A j \in R : i <= j
  <1>1. PICK i \in R : \A j \in R : ~ (<<j, i>> \in OpToRel(<, Nat))
    BY WFMin, NatLessThanWellFounded
  <1>2. \A j \in R : ~ (j < i)
    BY <1>1 DEF OpToRel
  <1>3. QED
    BY <1>2

(* priorityArbiter grants one request, if there is any. *)
LEMMA PriorityArbiterGrants ==
  ASSUME NEW R, R \subseteq Nat
  PROVE  /\ PriorityArbiter(R) \subseteq R
         /\ \A i, j \in PriorityArbiter(R) : i = j
         /\ R # {} => PriorityArbiter(R) # {}
  <1>1. R # {} => PriorityArbiter(R) # {}
    BY LeastMember DEF PriorityArbiter
  <1>2. \A i, j \in PriorityArbiter(R) : i = j
    <2> TAKE i, j \in PriorityArbiter(R)
    <2>1. i \in Nat /\ j \in Nat /\ i <= j /\ j <= i
      BY DEF PriorityArbiter
    <2>2. QED
      BY <2>1
  <1>3. QED
    BY <1>1, <1>2 DEF PriorityArbiter

(* RRArbiterMaskMethod grants one request, if there is any, whatever the
   last grant was.                                                         *)
LEMMA RRArbiterGrants ==
  ASSUME NEW R, NEW last, NEW all, R \subseteq Nat
  PROVE  /\ RRArbiter(R, last, all) \subseteq R
         /\ \A i, j \in RRArbiter(R, last, all) : i = j
         /\ R # {} => RRArbiter(R, last, all) # {}
  <1> DEFINE masked == R \cap Mask(last, all)
             chosen == IF masked # {} THEN masked ELSE R
  <1>1. chosen \subseteq R /\ chosen \subseteq Nat /\ (R # {} => chosen # {})
    OBVIOUS
  <1>2. RRArbiter(R, last, all) = PriorityArbiter(chosen)
    BY DEF RRArbiter
  <1>3. QED
    BY <1>1, <1>2, PriorityArbiterGrants

(* The grants of a cycle are one-hot, and there is one if it is asked for. *)
LEMMA Grants ==
  /\ SlotGrant \subseteq EnabledSlots
  /\ \A i, j \in SlotGrant : i = j
  /\ EnabledSlots # {} => SlotGrant # {}
  /\ SoftGrant \subseteq {t \in Threads : soft[t] /\ Active(t)}
  /\ \A t, u \in SoftGrant : t = u
  /\ {t \in Threads : soft[t] /\ Active(t)} # {} => SoftGrant # {}
  <1>1. EnabledSlots \subseteq Nat /\ {t \in Threads : soft[t] /\ Active(t)} \subseteq Nat
    BY NSlotsAssumption, HwAssumption DEF EnabledSlots, SlotIds, Threads
  <1>2. SlotGrant = RRArbiter(EnabledSlots, slotOH, SlotIds)
    BY DEF SlotGrant, EnabledSlots
  <1>3. SoftGrant = RRArbiter({t \in Threads : soft[t] /\ Active(t)}, softOH, Threads)
    BY DEF SoftGrant
  <1>4. QED
    BY <1>1, <1>2, <1>3, RRArbiterGrants

(* SLOT_S and SLOT_D are not ids, and an id keeps its value when it is cut
   down to threadBits bits.                                                *)
LEMMA SlotThreadIsOwner ==
  ASSUME NEW v \in Threads
  PROVE  SlotThread(v) = v /\ v # SLOT_S /\ v # SLOT_D
  <1>1. NThreads \in Nat /\ NThreads > 0 /\ NThreads <= 8 /\ v \in Nat /\ v < NThreads
    BY HwAssumption DEF Threads
  <1>2. v % NThreads = v
    BY <1>1
  <1>3. QED
    BY <1>1, <1>2 DEF SlotThread, SLOT_S, SLOT_D

-----------------------------------------------------------------------------
IInv == TypeOK /\ OneHot

(* The state after reset satisfies the invariant. *)
LEMMA InitIInv == Init => IInv
  <1> SUFFICES ASSUME Init PROVE IInv
    OBVIOUS
  <1>1. 0 \in Threads
    BY HwAssumption DEF Threads
  <1>2. TypeOK
    BY <1>1 DEF Init, TypeOK
  <1>3. OneHot
    BY DEF Init, OneHot
  <1>4. QED
    BY <1>2, <1>3 DEF IInv

(* What a cycle fetches is a thread, and the registers stay one-hot. *)
LEMMA GrantStep ==
  ASSUME IInv, Grant
  PROVE  /\ slotOH' \subseteq SlotIds /\ softOH' \subseteq Threads
         /\ granted' \in Threads \cup {Nobody}
         /\ OneHot'
  <1> USE DEF IInv, TypeOK, OneHot
  <1>1. SlotGrant \subseteq SlotIds /\ SoftGrant \subseteq Threads
    BY Grants DEF EnabledSlots
  <1>2. CASE IdleCycle
    BY <1>2 DEF IdleCycle
  <1>3. ASSUME NEW i \in SlotIds, OwnerCycle(i)
        PROVE  /\ slotOH' \subseteq SlotIds /\ softOH' \subseteq Threads
               /\ granted' \in Threads \cup {Nobody}
               /\ OneHot'
    <2>1. slots[i] \in Threads
      <3>1. slots[i] # SLOT_D
        BY <1>3, Grants DEF OwnerCycle, EnabledSlots
      <3>2. 0 \in Threads
        BY HwAssumption DEF Threads
      <3>3. QED
        BY <1>3, <3>1, <3>2, HwAssumption DEF OwnerCycle, OwnerRuns
    <2>2. granted' \in Threads
      BY <1>3, <2>1, SlotThreadIsOwner DEF OwnerCycle
    <2>3. QED
      BY <1>1, <1>3, <2>2, Grants DEF OwnerCycle
  <1>4. ASSUME NEW i \in SlotIds, SoftCycle(i)
        PROVE  /\ slotOH' \subseteq SlotIds /\ softOH' \subseteq Threads
               /\ granted' \in Threads \cup {Nobody}
               /\ OneHot'
    BY <1>1, <1>4, Grants DEF SoftCycle
  <1>5. ASSUME NEW i \in SlotIds, EmptyCycle(i)
        PROVE  /\ slotOH' \subseteq SlotIds /\ softOH' \subseteq Threads
               /\ granted' \in Threads \cup {Nobody}
               /\ OneHot'
    BY <1>1, <1>5, Grants DEF EmptyCycle
  <1>6. QED
    BY <1>2, <1>3, <1>4, <1>5 DEF Grant

(* Every clock cycle keeps the invariant. *)
LEMMA StepIInv == IInv /\ [Cycle]_vars => IInv'
  <1> SUFFICES ASSUME IInv, [Cycle]_vars PROVE IInv'
    OBVIOUS
  <1>1. CASE Cycle
    <2>1. slots' \in [SlotIds -> SlotValues \cup {0, SLOT_D}]
      BY <1>1 DEF Cycle, Write, WriteSlots, WriteModes, config, IInv, TypeOK
    <2>2. soft' \in [Threads -> BOOLEAN] /\ zombie' \in [Threads -> BOOLEAN]
      BY <1>1 DEF Cycle, Write, WriteSlots, WriteModes, config, IInv, TypeOK
    <2>3. since' \in [SlotIds -> Nat]
      BY <1>1 DEF Cycle, Since, IInv, TypeOK
    <2>4. tick' \in BOOLEAN
      BY <1>1 DEF Cycle, IInv, TypeOK
    <2>5. /\ slotOH' \subseteq SlotIds /\ softOH' \subseteq Threads
          /\ granted' \in Threads \cup {Nobody}
          /\ OneHot'
      BY <1>1, GrantStep DEF Cycle
    <2>6. QED
      BY <2>1, <2>2, <2>3, <2>4, <2>5 DEF IInv, TypeOK
  <1>2. CASE UNCHANGED vars
    BY <1>2 DEF vars, IInv, TypeOK, OneHot
  <1>3. QED
    BY <1>1, <1>2

(* IInv is an invariant of the scheduler for every size and every sequence
   of writes to CSR slots and CSR tmodes.                                  *)
THEOREM Invariance == Spec => []IInv
  BY InitIInv, StepIInv, PTL DEF Spec

(* The registers keep their types and io.thread is a thread: the modulus
   that cuts a slot down to threadBits bits never leaves the id range.     *)
THEOREM TypeCorrectness == Spec => []TypeOK
  <1>1. IInv => TypeOK
    BY DEF IInv
  <1>2. QED
    BY Invariance, <1>1, PTL

(* slotOH and threadModeOH never hold two bits. *)
THEOREM RegistersOneHot == Spec => []OneHot
  <1>1. IInv => OneHot
    BY DEF IInv
  <1>2. QED
    BY Invariance, <1>1, PTL

-----------------------------------------------------------------------------
(* What one cycle does with the slot it chose. *)
Used ==
  \A i \in slotOH' :
    /\ granted' # Nobody => Serves(slots, soft, zombie, i, granted')
    /\ granted' = Nobody => \A t \in Threads : ~ Serves(slots, soft, zombie, i, t)
    /\ \A t \in Threads : slots[i] = t /\ ~ zombie[t] => granted' = t

(* A cycle fetches a thread that its slot serves, the owner if it is
   active, and nobody only for a slot that serves nobody.                  *)
LEMMA GrantIsUsed ==
  ASSUME IInv, Grant
  PROVE  Used
  <1> SUFFICES ASSUME NEW i \in slotOH'
               PROVE  /\ granted' # Nobody => Serves(slots, soft, zombie, i, granted')
                      /\ granted' = Nobody => \A t \in Threads : ~ Serves(slots, soft, zombie, i, t)
                      /\ \A t \in Threads : slots[i] = t /\ ~ zombie[t] => granted' = t
    BY DEF Used
  <1>0. /\ slotOH \subseteq SlotIds
        /\ \A j \in SlotIds : slots[j] \in Threads \cup {SLOT_S, SLOT_D}
        /\ DOMAIN zombie = Threads
        /\ Nobody \notin Threads
    <2>1. 0 \in Threads
      BY HwAssumption DEF Threads
    <2>2. QED
      BY <2>1, HwAssumption DEF IInv, TypeOK
  <1>1. CASE IdleCycle
    <2>1. i \in SlotIds /\ slots[i] = SLOT_D /\ granted' = Nobody
      BY <1>0, <1>1, Grants DEF IdleCycle, EnabledSlots
    <2>2. \A t \in Threads : t # SLOT_D
      BY SlotThreadIsOwner
    <2>3. SLOT_S # SLOT_D
      BY DEF SLOT_S, SLOT_D
    <2>4. QED
      BY <1>0, <2>1, <2>2, <2>3 DEF Serves
  <1>2. ASSUME NEW j \in SlotIds, OwnerCycle(j)
        PROVE  /\ granted' # Nobody => Serves(slots, soft, zombie, i, granted')
               /\ granted' = Nobody => \A t \in Threads : ~ Serves(slots, soft, zombie, i, t)
               /\ \A t \in Threads : slots[i] = t /\ ~ zombie[t] => granted' = t
    <2>1. i = j /\ slots[i] # SLOT_D /\ slots[i] # SLOT_S
      BY <1>2, Grants DEF OwnerCycle, OwnerRuns, EnabledSlots
    <2>2. slots[i] \in Threads
      BY <1>0, <2>1
    <2>3. granted' = slots[i] /\ ~ zombie[slots[i]]
      BY <1>2, <2>1, <2>2, SlotThreadIsOwner DEF OwnerCycle, OwnerRuns, Active
    <2>4. QED
      BY <1>0, <2>2, <2>3 DEF Serves
  <1>3. ASSUME NEW j \in SlotIds, j \in SlotGrant, ~ OwnerRuns(j), i = j
        PROVE  slots[i] = SLOT_S \/ (slots[i] \in Threads /\ zombie[slots[i]])
    <2>1. slots[i] # SLOT_D
      BY <1>3, Grants DEF EnabledSlots
    <2>2. CASE slots[i] \in Threads
      BY <1>3, <2>2, SlotThreadIsOwner DEF OwnerRuns, Active
    <2>3. QED
      BY <1>0, <1>3, <2>1, <2>2
  <1>4. ASSUME NEW j \in SlotIds, SoftCycle(j)
        PROVE  /\ granted' # Nobody => Serves(slots, soft, zombie, i, granted')
               /\ granted' = Nobody => \A t \in Threads : ~ Serves(slots, soft, zombie, i, t)
               /\ \A t \in Threads : slots[i] = t /\ ~ zombie[t] => granted' = t
    <2>1. i = j
      BY <1>4, Grants DEF SoftCycle
    <2>2. slots[i] = SLOT_S \/ (slots[i] \in Threads /\ zombie[slots[i]])
      BY <1>3, <1>4, <2>1 DEF SoftCycle
    <2>3. granted' \in Threads /\ soft[granted'] /\ ~ zombie[granted']
      BY <1>4, Grants DEF SoftCycle, Active
    <2>4. \A t \in Threads : t # SLOT_S
      BY SlotThreadIsOwner
    <2>5. QED
      BY <1>0, <2>2, <2>3, <2>4 DEF Serves
  <1>5. ASSUME NEW j \in SlotIds, EmptyCycle(j)
        PROVE  /\ granted' # Nobody => Serves(slots, soft, zombie, i, granted')
               /\ granted' = Nobody => \A t \in Threads : ~ Serves(slots, soft, zombie, i, t)
               /\ \A t \in Threads : slots[i] = t /\ ~ zombie[t] => granted' = t
    <2>1. i = j
      BY <1>5, Grants DEF EmptyCycle
    <2>2. slots[i] = SLOT_S \/ (slots[i] \in Threads /\ zombie[slots[i]])
      BY <1>3, <1>5, <2>1 DEF EmptyCycle
    <2>3. \A t \in Threads : ~ (soft[t] /\ ~ zombie[t])
      BY <1>5, Grants DEF EmptyCycle, Active
    <2>4. \A t \in Threads : t # SLOT_S
      BY SlotThreadIsOwner
    <2>5. QED
      BY <1>0, <1>5, <2>2, <2>3, <2>4 DEF Serves, EmptyCycle
  <1>6. QED
    BY <1>1, <1>2, <1>4, <1>5 DEF Grant

(* Temporal isolation and work conservation: an active owner gets every
   cycle of its slots, whatever the soft threads do, and no cycle that some
   thread could use goes unused.                                           *)
THEOREM CyclesUsed == Spec => CyclesAreUsed
  <1>1. IInv /\ [Cycle]_vars => [Used]_vars
    BY GrantIsUsed DEF Cycle
  <1>2. QED
    BY Invariance, <1>1, PTL DEF Spec, CyclesAreUsed, Used

-----------------------------------------------------------------------------
(***************************************************************************)
(* The turns of the slots                                                  *)
(***************************************************************************)

(* The enabled slots above i, cyclically, up to the one granted last.      *)
Passed(i) ==
  {j \in EnabledSlots :
     \E l \in slotOH : IF i <= l THEN i < j /\ j <= l ELSE i < j \/ j <= l}

(* Since slot i was granted no other slot has had two turns. *)
Turns == \A i \in SlotIds : since[i] <= Cardinality(Passed(i))

(* Slot ids are numbers, and sets of them are finite. *)
LEMMA SlotSets ==
  /\ SlotIds \subseteq Nat
  /\ \A S : S \subseteq SlotIds => IsFiniteSet(S)
  <1>1. SlotIds \subseteq Nat /\ IsFiniteSet(SlotIds)
    BY NSlotsAssumption, FS_Interval DEF SlotIds
  <1>2. QED
    BY <1>1, FS_Subset

(* The slot that is granted is the next enabled one above the last grant,  *)
(* or the first enabled one if there is none above it.                     *)
LEMMA NextSlot ==
  ASSUME slotOH \subseteq SlotIds, OneHot, NEW g \in SlotGrant, NEW l \in slotOH,
         NEW i \in EnabledSlots
  PROVE  IF g > l THEN i > l => g <= i
                  ELSE i <= l /\ g <= i
  <1> DEFINE masked == EnabledSlots \cap Mask(slotOH, SlotIds)
             chosen == IF masked # {} THEN masked ELSE EnabledSlots
  <1>1. g \in PriorityArbiter(chosen)
    BY DEF SlotGrant, RRArbiter, EnabledSlots
  <1>2. g \in chosen /\ \A j \in chosen : g <= j
    BY <1>1 DEF PriorityArbiter
  <1>3. slotOH = {l}
    BY DEF OneHot
  <1>4. masked = {j \in EnabledSlots : l < j}
    BY <1>3 DEF Mask, EnabledSlots
  <1>5. l \in Nat /\ i \in Nat /\ g \in Nat
    BY SlotSets, <1>2 DEF EnabledSlots
  <1>6. QED
    BY <1>2, <1>4, <1>5

(* A turn of another slot is one more, and a new one, since the last of i. *)
LEMMA OneMoreTurn ==
  ASSUME IInv, NEW i \in EnabledSlots, i \notin SlotGrant,
         slotOH' = SlotGrant, slots' = slots
  PROVE  Cardinality(Passed(i)) + 1 <= Cardinality(Passed(i)')
  <1>0. /\ slotOH \subseteq SlotIds /\ OneHot
        /\ i \in Nat /\ EnabledSlots \subseteq SlotIds /\ EnabledSlots \subseteq Nat
        /\ EnabledSlots' = EnabledSlots
    BY SlotSets DEF IInv, TypeOK, EnabledSlots
  <1>1. PICK g \in EnabledSlots : SlotGrant = {g}
    BY Grants
  <1>2. g # i /\ g \in Nat /\ slotOH' = {g}
    BY <1>0, <1>1
  <1>3. Passed(i)' = {j \in EnabledSlots : IF i <= g THEN i < j /\ j <= g ELSE i < j \/ j <= g}
    BY <1>0, <1>2 DEF Passed
  <1>4. Passed(i) \subseteq Passed(i)' \ {g} /\ g \in Passed(i)'
    <2>1. g \in Passed(i)'
      BY <1>2, <1>3, <1>0
    <2>2. ASSUME NEW j \in Passed(i)
          PROVE  j \in Passed(i)' /\ j # g
      <3>1. PICK l \in slotOH : IF i <= l THEN i < j /\ j <= l ELSE i < j \/ j <= l
        BY DEF Passed
      <3>2. IF g > l THEN i > l => g <= i ELSE i <= l /\ g <= i
        BY <1>0, <1>1, NextSlot
      <3>3. j \in EnabledSlots /\ j \in Nat /\ l \in Nat
        BY <1>0, SlotSets DEF Passed
      <3>4. IF g > l THEN j > l => g <= j ELSE j <= l /\ g <= j
        BY <1>0, <1>1, <3>3, NextSlot
      <3>5. j # g
        BY <1>0, <1>2, <3>1, <3>2, <3>3
      <3>6. IF i <= g THEN i < j /\ j <= g ELSE i < j \/ j <= g
        BY <1>0, <1>2, <3>1, <3>2, <3>3
      <3>7. QED
        BY <1>3, <3>3, <3>5, <3>6
    <2>3. QED
      BY <2>1, <2>2
  <1>5. IsFiniteSet(Passed(i)') /\ IsFiniteSet(Passed(i)' \ {g}) /\ IsFiniteSet(Passed(i))
    BY <1>0, <1>3, SlotSets DEF Passed
  <1>6. Cardinality(Passed(i)) <= Cardinality(Passed(i)' \ {g})
    BY <1>4, <1>5, FS_Subset
  <1>7. Cardinality(Passed(i)' \ {g}) = Cardinality(Passed(i)') - 1
    BY <1>4, <1>5, FS_RemoveElement
  <1>8. Cardinality(Passed(i)) \in Nat /\ Cardinality(Passed(i)') \in Nat
    BY <1>5, FS_CardinalityType
  <1>9. QED
    BY <1>6, <1>7, <1>8

(* A cycle counts the turns right. *)
LEMMA CycleTurns ==
  ASSUME IInv, Turns, Cycle
  PROVE  Turns'
  <1> SUFFICES ASSUME NEW i \in SlotIds
               PROVE  since'[i] <= Cardinality(Passed(i)')
    BY DEF Turns
  <1>1. since'[i] = Since(i)
    BY DEF Cycle
  <1>2. Cardinality(Passed(i)) \in Nat /\ Cardinality(Passed(i)') \in Nat
    <2>1. Passed(i) \subseteq SlotIds /\ Passed(i)' \subseteq SlotIds
      BY DEF Passed, EnabledSlots
    <2>2. QED
      BY <2>1, SlotSets, FS_CardinalityType
  <1>3. CASE slots' # slots \/ slots[i] = SLOT_D \/ i \in SlotGrant
    BY <1>1, <1>2, <1>3 DEF Since
  <1>4. CASE slots' = slots /\ slots[i] # SLOT_D /\ i \notin SlotGrant
    <2>1. i \in EnabledSlots
      BY <1>4 DEF EnabledSlots
    <2>2. slotOH' = SlotGrant
      <3>1. SlotGrant # {}
        BY <2>1, Grants
      <3>2. QED
        BY <3>1 DEF Cycle, Grant, IdleCycle, OwnerCycle, SoftCycle, EmptyCycle
    <2>3. Cardinality(Passed(i)) + 1 <= Cardinality(Passed(i)')
      BY <1>4, <2>1, <2>2, OneMoreTurn
    <2>4. since'[i] = since[i] + 1 /\ since[i] <= Cardinality(Passed(i)) /\ since[i] \in Nat
      BY <1>1, <1>4 DEF Since, Turns, IInv, TypeOK
    <2>5. QED
      BY <1>2, <2>3, <2>4
  <1>5. QED
    BY <1>3, <1>4

(* An enabled slot waits for at most one cycle of each other enabled slot, *)
(* whatever happens to the modes: the share of the cycles that a slot has  *)
(* depends on the slot table alone.                                        *)
THEOREM BoundedTurns == Spec => []TurnsAreBounded
  <1>1. Init => Turns
    <2> SUFFICES ASSUME Init, NEW i \in SlotIds PROVE since[i] <= Cardinality(Passed(i))
      BY DEF Turns
    <2>1. Passed(i) \subseteq SlotIds
      BY DEF Passed, EnabledSlots
    <2>2. Cardinality(Passed(i)) \in Nat
      BY <2>1, SlotSets, FS_CardinalityType
    <2>3. since[i] = 0
      BY DEF Init
    <2>4. QED
      BY <2>2, <2>3
  <1>2. IInv /\ Turns /\ [Cycle]_vars => Turns'
    <2>1. ASSUME UNCHANGED vars, Turns PROVE Turns'
      BY <2>1 DEF vars, Turns, Passed, EnabledSlots
    <2>2. QED
      BY <2>1, CycleTurns
  <1>3. IInv /\ Turns => TurnsAreBounded
    <2> SUFFICES ASSUME IInv, Turns, NEW i \in EnabledSlots
                 PROVE  since[i] < Cardinality(EnabledSlots)
      BY DEF TurnsAreBounded
    <2>1. /\ i \in SlotIds /\ i \in Nat /\ EnabledSlots \subseteq SlotIds
          /\ since[i] \in Nat /\ slotOH \subseteq Nat
      BY SlotSets DEF EnabledSlots, IInv, TypeOK
    <2>2. Passed(i) \subseteq EnabledSlots \ {i}
      BY <2>1 DEF Passed
    <2>3. IsFiniteSet(EnabledSlots) /\ IsFiniteSet(EnabledSlots \ {i})
      BY <2>1, SlotSets
    <2>4. Cardinality(EnabledSlots \ {i}) = Cardinality(EnabledSlots) - 1
      BY <2>3, FS_RemoveElement
    <2>5. Cardinality(Passed(i)) <= Cardinality(EnabledSlots \ {i}) /\ IsFiniteSet(Passed(i))
      BY <2>2, <2>3, FS_Subset
    <2>6. Cardinality(Passed(i)) \in Nat /\ Cardinality(EnabledSlots) \in Nat
      BY <2>3, <2>5, FS_CardinalityType
    <2>7. QED
      BY <2>1, <2>4, <2>5, <2>6 DEF Turns
  <1>4. QED
    BY <1>1, <1>2, <1>3, Invariance, PTL DEF Spec
=============================================================================
