------------------------ MODULE FlexScheduler_proofs ------------------------
(***************************************************************************)
(* Proofs about FlexScheduler for any number of threads and slots and any  *)
(* division of the calls among the threads.  As long as nobody terminates  *)
(* a thread that may hold slot_mutex (thread_clean frees the mutex of one  *)
(* that runs on), slot_mutex excludes, no rewrite of the slot table is     *)
(* lost, and the last disabled slot is never given away.                   *)
(***************************************************************************)
EXTENDS FlexScheduler, FiniteSetTheorems, WellFoundedInduction, TLAPS

-----------------------------------------------------------------------------
(***************************************************************************)
(* The slot table                                                          *)
(***************************************************************************)

(* Slot ids are naturals below NSlots, and sets of them are finite. *)
LEMMA SlotSets ==
  /\ NSlots \in Nat \ {0}
  /\ SlotIds \subseteq Nat /\ \A i \in SlotIds : i < NSlots
  /\ IsFiniteSet(SlotIds) /\ Cardinality(SlotIds) = NSlots
  /\ \A A : A \subseteq SlotIds => IsFiniteSet(A) /\ Cardinality(A) \in Nat
<1>1. NSlots \in Nat \ {0}
  BY NSlotsAssumption
<1>2. IsFiniteSet(SlotIds) /\ Cardinality(SlotIds) = NSlots
  BY <1>1, FS_Interval DEF SlotIds
<1>3. \A A : A \subseteq SlotIds => IsFiniteSet(A) /\ Cardinality(A) \in Nat
  BY <1>2, FS_Subset, FS_CardinalityType
<1>. QED  BY <1>1, <1>2, <1>3 DEF SlotIds

(* A non-empty set of naturals has a least member. *)
LEMMA LeastMember ==
  ASSUME NEW R, R \subseteq Nat, R # {}
  PROVE  \E i \in R : \A j \in R : i <= j
<1>1. PICK i \in R : \A j \in R : ~ (<<j, i>> \in OpToRel(<, Nat))
  BY WFMin, NatLessThanWellFounded
<1>2. \A j \in R : ~ (j < i)
  BY <1>1 DEF OpToRel
<1>. QED  BY <1>2

(* A non-empty set of slots has a last one. *)
LEMMA LastSlot ==
  ASSUME NEW A, A \subseteq SlotIds, A # {}
  PROVE  \E i \in A : \A j \in A : j <= i
<1> DEFINE R == {NSlots - j : j \in A}
<1>1. R \subseteq Nat /\ R # {}
  <2>1. \A j \in A : NSlots - j \in Nat
    BY SlotSets
  <2>. QED  BY <2>1
<1>2. PICK m \in R : \A n \in R : m <= n
  BY <1>1, LeastMember
<1>3. PICK i \in A : m = NSlots - i
  BY <1>2
<1>4. \A j \in A : NSlots - i <= NSlots - j
  BY <1>2, <1>3
<1>. QED  BY <1>4, SlotSets

(* LowestSlots takes at most as many slots as it is asked for. *)
LEMMA LowestAtMost ==
  ASSUME NEW A, A \subseteq SlotIds, NEW k \in Nat
  PROVE  /\ LowestSlots(A, k) \subseteq A
         /\ Cardinality(LowestSlots(A, k)) <= k
<1> DEFINE L == LowestSlots(A, k)
<1>1. L \subseteq A /\ L \subseteq SlotIds
  BY DEF LowestSlots
<1>2. CASE L = {}
  BY <1>1, <1>2, FS_EmptySet
<1>3. CASE L # {}
  <2>1. PICK m \in L : \A j \in L : j <= m
    BY <1>1, <1>3, LastSlot
  <2> DEFINE Below == {j \in A : j < m}
  <2>2. Cardinality(Below) < k
    BY <2>1 DEF LowestSlots
  <2>3. L \ {m} \subseteq Below
    <3>1. \A j \in L : j \in A /\ j \in Nat /\ j <= m
      BY <1>1, <2>1, SlotSets
    <3>2. m \in Nat
      BY <1>1, <2>1, SlotSets
    <3>3. \A j \in L \ {m} : j \in A /\ j < m
      BY <3>1, <3>2
    <3>. QED  BY <3>3
  <2>4. /\ IsFiniteSet(L) /\ IsFiniteSet(Below)
        /\ Cardinality(L) \in Nat /\ Cardinality(Below) \in Nat
    BY <1>1, SlotSets
  <2>5. Cardinality(L \ {m}) = Cardinality(L) - 1
    BY <2>1, <2>4, FS_RemoveElement
  <2>6. Cardinality(L \ {m}) <= Cardinality(Below)
    BY <2>3, <2>4, FS_Subset
  <2>. QED  BY <1>1, <2>2, <2>4, <2>5, <2>6
<1>. QED  BY <1>2, <1>3

(* And as many, if there are so many. *)
LEMMA LowestExactly ==
  ASSUME NEW A, A \subseteq SlotIds, NEW k \in Nat, k <= Cardinality(A)
  PROVE  Cardinality(LowestSlots(A, k)) = k
<1> DEFINE L == LowestSlots(A, k)
<1>1. /\ L \subseteq A /\ L \subseteq SlotIds
      /\ Cardinality(L) \in Nat /\ Cardinality(L) <= k
  BY LowestAtMost, SlotSets
<1>2. CASE L = A
  BY <1>1, <1>2
<1>3. CASE L # A
  <2> DEFINE R == A \ L
  <2>1. R \subseteq Nat /\ R # {}
    BY <1>1, <1>3, SlotSets
  <2>2. PICK m \in R : \A j \in R : m <= j
    BY <2>1, LeastMember
  <2> DEFINE Below == {j \in A : j < m}
  <2>3. Below \subseteq L
    <3>1. \A j \in A : j \in Nat
      BY SlotSets
    <3>2. m \in Nat
      BY <2>1, <2>2
    <3>3. \A j \in R : ~ (j < m)
      BY <2>2, <3>1, <3>2
    <3>. QED  BY <3>3
  <2>4. Cardinality(Below) \in Nat /\ IsFiniteSet(L)
    BY <1>1, SlotSets
  <2>5. ~ (Cardinality(Below) < k)
    BY <2>2 DEF LowestSlots
  <2>6. Cardinality(Below) <= Cardinality(L)
    BY <2>3, <2>4, FS_Subset
  <2>. QED  BY <1>1, <2>4, <2>5, <2>6
<1>. QED  BY <1>2, <1>3

(* It takes none if none is asked for. *)
LEMMA LowestNone ==
  ASSUME NEW A, A \subseteq SlotIds, NEW k \in Int, k <= 0
  PROVE  LowestSlots(A, k) = {}
<1>1. \A i \in A : Cardinality({j \in A : j < i}) \in Nat
  BY SlotSets
<1>. QED  BY <1>1 DEF LowestSlots

(* The lowest slot of a set, which has one. *)
LEMMA LowestOne ==
  ASSUME NEW A, A \subseteq SlotIds, A # {}
  PROVE  \E m \in A : LowestSlots(A, 1) = {m}
<1>1. \A k \in A : k \in Nat /\ {j \in A : j < k} \subseteq SlotIds
  BY SlotSets
<1>2. PICK m \in A : \A j \in A : m <= j
  <2>1. A \subseteq Nat
    BY <1>1
  <2>. QED  BY <2>1, LeastMember
<1>3. {j \in A : j < m} = {}
  BY <1>1, <1>2
<1>4. Cardinality({j \in A : j < m}) < 1
  BY <1>3, FS_EmptySet
<1>5. ASSUME NEW k \in A, k # m
      PROVE  ~ (Cardinality({j \in A : j < k}) < 1)
  <2>1. m \in {j \in A : j < k}
    BY <1>1, <1>2, <1>5
  <2>2. /\ IsFiniteSet({j \in A : j < k}) /\ Cardinality({j \in A : j < k}) \in Nat
        /\ {j \in A : j < k} # {}
    BY <1>1, <2>1, SlotSets
  <2>. QED  BY <2>2, FS_EmptySet
<1>. QED  BY <1>2, <1>4, <1>5 DEF LowestSlots

(* set_slot_num writes nothing but slots, the id who and SLOT_D: the slots
   that change were disabled and are now who's, or were who's and are now
   disabled.                                                               *)
LEMMA SetSlotNumTouches ==
  ASSUME NEW table, NEW S, table \in [SlotIds -> S], NEW who \in S, SLOT_D \in S,
         NEW n
  PROVE  /\ SetSlotNum(table, who, n) \in [SlotIds -> S]
         /\ \A i \in SlotIds :
              SetSlotNum(table, who, n)[i] # table[i] =>
                {table[i], SetSlotNum(table, who, n)[i]} \subseteq {who, SLOT_D}
<1> DEFINE taken   == LowestSlots(SlotsOf(table, SLOT_D), n - Count(table, who))
           givenUp == LowestSlots(SlotsOf(table, who), Count(table, who) - n)
           new     == [i \in SlotIds |-> IF i \in taken THEN who
                                         ELSE IF i \in givenUp THEN SLOT_D
                                         ELSE table[i]]
<1>1. SetSlotNum(table, who, n) = table \/ SetSlotNum(table, who, n) = new
  BY DEF SetSlotNum
<1>2. /\ \A i \in taken : table[i] = SLOT_D
      /\ \A i \in givenUp : table[i] = who
  BY DEF LowestSlots, SlotsOf
<1>3. new \in [SlotIds -> S]
  OBVIOUS
<1>4. \A i \in SlotIds : new[i] # table[i] => {table[i], new[i]} \subseteq {who, SLOT_D}
  BY <1>2
<1>. QED  BY <1>1, <1>3, <1>4

(* Parts of a finite set, and disjoint unions, add up. *)
LEMMA AddUp ==
  ASSUME NEW A, NEW B, IsFiniteSet(A), IsFiniteSet(B)
  PROVE  /\ B \subseteq A => Cardinality(A \ B) = Cardinality(A) - Cardinality(B)
         /\ A \cap B = {} => Cardinality(A \cup B) = Cardinality(A) + Cardinality(B)
<1>1. Cardinality(A) \in Nat /\ Cardinality(B) \in Nat
  BY FS_CardinalityType
<1>2. ASSUME B \subseteq A
      PROVE  Cardinality(A \ B) = Cardinality(A) - Cardinality(B)
  <2>1. A \cap B = B
    BY <1>2
  <2>2. Cardinality(A \ B) = Cardinality(A) - Cardinality(A \cap B)
    BY FS_Difference
  <2>. QED  BY <2>1, <2>2, Zenon
<1>3. ASSUME A \cap B = {}
      PROVE  Cardinality(A \cup B) = Cardinality(A) + Cardinality(B)
  <2>1. Cardinality(A \cup B) = Cardinality(A) + Cardinality(B) - Cardinality(A \cap B)
    BY FS_Union
  <2>2. Cardinality({}) = 0
    BY FS_EmptySet
  <2> DEFINE both == Cardinality(A \cup B)
  <2>3. both = Cardinality(A) + Cardinality(B) - 0
    BY <1>3, <2>1, <2>2, Zenon
  <2> HIDE DEF both
  <2>4. both = Cardinality(A) + Cardinality(B)
    BY <1>1, <2>3
  <2>. QED  BY <2>4 DEF both
<1>. QED  BY <1>2, <1>3, Zenon

(* The table when the slots S are given to one user, or to nobody. *)
Given(table, S, to) == [i \in SlotIds |-> IF i \in S THEN to ELSE table[i]]

(* set_slot_num refuses, or the number of who's slots becomes n: some are  *)
(* taken of the disabled ones, not all, or some of who's are disabled.     *)
THEOREM SetSlotNumExact ==
  ASSUME NEW table, table \in [SlotIds -> Int], NEW who \in Int, who # SLOT_D,
         NEW n \in Nat, SetSlotNumOk(table, who, n)
  PROVE  /\ Count(SetSlotNum(table, who, n), who) = n
         /\ \/ \E S \in SUBSET SlotsOf(table, SLOT_D) :
                 /\ S # SlotsOf(table, SLOT_D)
                 /\ SetSlotNum(table, who, n) = Given(table, S, who)
            \/ \E S \in SUBSET SlotsOf(table, who) :
                 SetSlotNum(table, who, n) = Given(table, S, SLOT_D)
<1> DEFINE D       == SlotsOf(table, SLOT_D)
           W       == SlotsOf(table, who)
           have    == Count(table, who)
           taken   == LowestSlots(D, n - have)
           givenUp == LowestSlots(W, have - n)
           new     == SetSlotNum(table, who, n)
<1>1. /\ D \subseteq SlotIds /\ IsFiniteSet(D) /\ Cardinality(D) \in Nat
      /\ W \subseteq SlotIds /\ IsFiniteSet(W) /\ have \in Nat /\ have = Cardinality(W)
  BY SlotSets DEF SlotsOf, Count
<1>2. new = [i \in SlotIds |-> IF i \in taken THEN who
                               ELSE IF i \in givenUp THEN SLOT_D
                               ELSE table[i]]
  BY DEF SetSlotNum
<1>3. CASE n <= have
  <2>1. taken = {}
    BY <1>1, <1>3, LowestNone
  <2>2. new = Given(table, givenUp, SLOT_D)
    BY <1>2, <2>1 DEF Given
  <2>3. givenUp \subseteq W /\ Cardinality(givenUp) = have - n
    BY <1>1, <1>3, LowestAtMost, LowestExactly
  <2>4. SlotsOf(new, who) = W \ givenUp
    BY <2>2 DEF SlotsOf, Given
  <2>5. Cardinality(W \ givenUp) = have - (have - n)
    BY <1>1, <2>3, AddUp, SlotSets
  <2>6. Count(new, who) = n
    BY <1>1, <2>4, <2>5 DEF Count
  <2>. QED  BY <2>2, <2>3, <2>6
<1>4. CASE ~ (n <= have)
  <2>1. givenUp = {}
    BY <1>1, <1>4, LowestNone
  <2>2. new = Given(table, taken, who)
    BY <1>2, <2>1 DEF Given
  <2>3. ActiveCount(table) = NSlots - Cardinality(D)
    <3>1. {i \in SlotIds : table[i] # SLOT_D} = SlotIds \ D
      BY DEF SlotsOf
    <3>2. SlotIds \cap D = D
      BY <1>1
    <3>. QED  BY <3>1, <3>2, SlotSets, FS_Difference DEF ActiveCount
  <2>4. n - have \in Nat /\ n - have < Cardinality(D)
    BY <1>1, <1>4, <2>3, SlotSets DEF SetSlotNumOk
  <2>5. taken \subseteq D /\ IsFiniteSet(taken) /\ Cardinality(taken) = n - have
    BY <1>1, <2>4, LowestAtMost, LowestExactly, SlotSets
  <2>6. SlotsOf(new, who) = W \cup taken /\ W \cap taken = {}
    BY <1>1, <2>2, <2>5 DEF SlotsOf, Given
  <2>7. Cardinality(W \cup taken) = Cardinality(W) + Cardinality(taken)
    BY <1>1, <2>5, <2>6, AddUp, Zenon
  <2>8. taken # D
    BY <1>1, <2>4, <2>5
  <2>9. Count(new, who) = have + (n - have)
    BY <1>1, <2>5, <2>6, <2>7, Zenon DEF Count
  <2>10. Count(new, who) = n
    BY <1>1, <2>9
  <2>. QED  BY <2>2, <2>5, <2>8, <2>10
<1>. QED  BY <1>3, <1>4

(* set_slot_num leaves a disabled slot if there was one. *)
LEMMA SetSlotNumLeavesOne ==
  ASSUME NEW table, table \in [SlotIds -> Int], NEW who \in Int, who # SLOT_D,
         NEW n \in Nat, Count(table, SLOT_D) > 0
  PROVE  Count(SetSlotNum(table, who, n), SLOT_D) > 0
<1> DEFINE D   == SlotsOf(table, SLOT_D)
           new == SetSlotNum(table, who, n)
<1>1. D \subseteq SlotIds /\ SlotsOf(new, SLOT_D) \subseteq SlotIds /\ D # {}
  BY FS_EmptySet DEF SlotsOf, Count
<1>2. CASE ~ SetSlotNumOk(table, who, n)
  BY <1>2 DEF SetSlotNum
<1>3. CASE SetSlotNumOk(table, who, n)
  <2>1. SlotsOf(new, SLOT_D) # {}
    <3>1. ASSUME NEW S \in SUBSET D, S # D
          PROVE  SlotsOf(Given(table, S, who), SLOT_D) # {}
      BY <3>1 DEF SlotsOf, Given
    <3>2. ASSUME NEW S \in SUBSET SlotsOf(table, who)
          PROVE  SlotsOf(Given(table, S, SLOT_D), SLOT_D) # {}
      BY <1>1, <3>2 DEF SlotsOf, Given
    <3>. QED  BY <1>3, <3>1, <3>2, SetSlotNumExact
  <2>. QED  BY <1>1, <2>1, SlotSets, FS_EmptySet DEF Count
<1>. QED  BY <1>2, <1>3

-----------------------------------------------------------------------------
(***************************************************************************)
(* What a pending call is about                                            *)
(***************************************************************************)

(* The threads whose calls take slot_mutex. *)
Callers == Creators \cup Managers \cup Tuners

Tables == [SlotIds -> Threads \cup {SLOT_S, SLOT_D}]

NewPcs      == {"newStore", "newFunc"}
CleanPcs    == {"cleanMutex", "cleanFunc"}
OutsidePcs  == {"idle", "exited", "startModes", "startRun"} \cup CleanPcs
SlotCallPcs == {"lockSet", "setSlot", "unlock"}
PriorityPcs == {"lockHarden", "hardenSlot", "hardenMode", "hardenSoft",
                "lockSoften", "softenSoft", "softenMode", "softenSlot",
                "unlockPriority", "setPriority"}

(* The registers of a call fit its next write, given its state p; the      *)
(* callers of slot_mutex are the threads that may call, once the kernel    *)
(* runs.                                                                   *)
ShapeOf(t, p, u, a) ==
  /\ p \notin SlotCallPcs => u \in Threads
  /\ p \in PriorityPcs \cup {"newStore"} => a \in Priorities
  /\ p \in {"lockSet", "setSlot"} => a \in Counts
  /\ p \notin OutsidePcs => t \in Callers
  /\ p \in CleanPcs /\ u # t => t \in Managers /\ u \in Victims

Shape(t) ==
  /\ ShapeOf(t, pc[t], target[t], arg[t])
  /\ pc[t] \notin OutsidePcs \cup NewPcs => running
  /\ pc[t] \in CleanPcs /\ target[t] # t => running
  /\ copy[t] # NULL => pc[t] \in SlotPcs

IInv == TypeOK /\ \A t \in Threads : Shape(t)

(* Who holds slot_mutex is in a section, and nobody else is; what it has   *)
(* read of the slot table is still so.                                     *)
Exclusion ==
  /\ slotBit <=> slotOwner # NULL
  /\ \A t \in Threads :
       /\ slotOwner = t <=> pc[t] \in SectionPcs \cup UnlockPcs
       /\ copy[t] # NULL => copy[t] = slots

-----------------------------------------------------------------------------
(***************************************************************************)
(* The kinds of steps                                                      *)
(***************************************************************************)

(* The constants: thread ids are naturals, and neither SLOT_S nor SLOT_D. *)
LEMMA Constants ==
  /\ NThreads \in Nat \ {0} /\ 0 \in Threads /\ Threads \subseteq Nat
  /\ SLOT_S \notin Threads /\ SLOT_D \notin Threads /\ SLOT_S # SLOT_D
  /\ SLOT_S \in Nat /\ SLOT_D \in Nat
  /\ Creators \subseteq Threads /\ Managers \subseteq Threads
  /\ Victims \subseteq Threads /\ Tuners \subseteq Threads
  /\ Counts \subseteq Nat /\ NULL \notin Threads
  /\ Realtime # Normal /\ Realtime \in Nat /\ Normal \in Nat
<1>1. /\ NThreads \in 1 .. NSlots /\ NThreads <= SLOT_S
      /\ Counts \subseteq Nat /\ NULL \notin Threads
  BY ThreadsAssumption
<1>2. /\ Creators \subseteq Threads /\ Managers \subseteq Threads
      /\ Victims \subseteq Threads /\ Tuners \subseteq Threads
  <2>1. UNION {Creators, Managers, Victims, Tuners} \subseteq Threads
    BY ThreadsAssumption
  <2>. QED  BY <2>1, Zenon
<1>. QED  BY <1>1, <1>2, SlotSets DEF Threads, SLOT_S, SLOT_D, Realtime, Normal

(* From which pc to which the steps go that rewrite the slot table, rewrite
   a mode, take slot_mutex or release it.                                  *)
SlotEdges == {<<"createSlot", "unlock">>,
              <<"hardenSlot", "hardenMode">>, <<"hardenSoft", "unlockPriority">>,
              <<"softenSoft", "softenMode">>, <<"softenSlot", "unlockPriority">>,
              <<"endSlot", "endSoft">>, <<"endSoft", "unlockEnd">>,
              <<"endHardSlot", "unlockEnd">>, <<"setSlot", "unlock">>}
ModeEdges == {<<"createHbit", "createLbit">>, <<"createLbit", "createSlot">>,
              <<"hardenMode", "hardenSoft">>, <<"softenMode", "softenSlot">>}
LockEdges == {<<"lockCreate", "createHbit">>, <<"lockHarden", "hardenSlot">>,
              <<"lockSoften", "softenSoft">>, <<"lockEndSoft", "endSlot">>,
              <<"lockEndHard", "endHardSlot">>, <<"lockSet", "setSlot">>}
UnlockEdges == {<<"unlock", "idle">>, <<"unlockPriority", "setPriority">>,
                <<"unlockEnd", "zombify">>}

SlotWrite(t) ==
  \E e \in SlotEdges, who \in {target[t], SLOT_S}, n \in Nat, needed \in BOOLEAN :
    /\ SlotStep(t, e[1], e[2], who, n, needed)
    /\ n \in {0, 1} \/ (e[1] = "setSlot" /\ n = arg[t])
    /\ otherSoft' \in [Threads -> BOOLEAN]

ModeWrite(t) ==
  \E e \in ModeEdges :
    /\ ModeStep(t, e[1], e[2])
    /\ soft' \in [Threads -> BOOLEAN] /\ zombie' \in [Threads -> BOOLEAN]

(* The rewrites of the slot table are of this kind. *)
LEMMA SlotWrites ==
  ASSUME TypeOK, NEW t \in Threads,
         \/ CreateSlot(t) \/ HardenSlot(t) \/ HardenSoft(t) \/ SoftenSoft(t)
         \/ SoftenSlot(t) \/ EndSlot(t) \/ EndSoft(t) \/ EndHardSlot(t) \/ SetSlot(t)
  PROVE  SlotWrite(t)
<1>1. /\ otherSoft \in [Threads -> BOOLEAN] /\ arg[t] \in Nat
      /\ CountSoft(t) => otherSoft' \in [Threads -> BOOLEAN]
  <2>1. otherSoft \in [Threads -> BOOLEAN] /\ arg[t] \in Priorities \cup Counts \cup {0}
    BY DEF TypeOK
  <2>2. arg[t] \in Nat
    <3>1. \A a \in Priorities : a \in Nat
      BY Constants DEF Priorities
    <3>2. \A a \in Counts : a \in Nat
      BY Constants
    <3>. QED  BY <2>1, <3>1, <3>2
  <2>3. ASSUME NEW b \in BOOLEAN, otherSoft' = [otherSoft EXCEPT ![t] = b]
        PROVE  otherSoft' \in [Threads -> BOOLEAN]
    BY <2>1, <2>3
  <2>4. CountSoft(t) => otherSoft' \in [Threads -> BOOLEAN]
    BY <2>3 DEF CountSoft
  <2>. QED  BY <2>1, <2>2, <2>4
<1>2. ASSUME NEW from, NEW to, NEW who, NEW n, NEW needed,
             SlotStep(t, from, to, who, n, needed), <<from, to>> \in SlotEdges,
             who \in {target[t], SLOT_S}, n \in Nat, needed \in BOOLEAN,
             n \in {0, 1} \/ (from = "setSlot" /\ n = arg[t]),
             otherSoft' \in [Threads -> BOOLEAN]
      PROVE  SlotWrite(t)
  <2>1. <<from, to>>[1] = from /\ <<from, to>>[2] = to
    OBVIOUS
  <2>. QED  BY <1>2, <2>1 DEF SlotWrite
<1>3. CASE CreateSlot(t)
  <2>1. CASE priority[target[t]] = Realtime
    <3>1. SlotStep(t, "createSlot", "unlock", target[t], 1, TRUE)
      BY <1>3, <2>1 DEF CreateSlot
    <3>. QED  BY <1>1, <1>2, <1>3, <3>1 DEF CreateSlot, SlotEdges
  <2>2. CASE priority[target[t]] # Realtime
    <3>1. SlotStep(t, "createSlot", "unlock", SLOT_S, 1, Count(copy[t], SLOT_S) = 0)
      BY <1>3, <2>2 DEF CreateSlot
    <3>. QED  BY <1>1, <1>2, <1>3, <3>1 DEF CreateSlot, SlotEdges
  <2>. QED  BY <2>1, <2>2
<1>4. CASE HardenSlot(t)
  BY <1>1, <1>2, <1>4 DEF HardenSlot, SlotEdges
<1>5. CASE HardenSoft(t)
  BY <1>1, <1>2, <1>5 DEF HardenSoft, SlotEdges
<1>6. CASE SoftenSoft(t)
  BY <1>1, <1>2, <1>6 DEF SoftenSoft, SlotEdges
<1>7. CASE SoftenSlot(t)
  BY <1>1, <1>2, <1>7 DEF SoftenSlot, SlotEdges
<1>8. CASE EndSlot(t)
  BY <1>1, <1>2, <1>8 DEF EndSlot, SlotEdges
<1>9. CASE EndSoft(t)
  BY <1>1, <1>2, <1>9 DEF EndSoft, SlotEdges
<1>10. CASE EndHardSlot(t)
  BY <1>1, <1>2, <1>10 DEF EndHardSlot, SlotEdges
<1>11. CASE SetSlot(t)
  BY <1>1, <1>2, <1>11 DEF SetSlot, SlotEdges
<1>. QED
  BY <1>3, <1>4, <1>5, <1>6, <1>7, <1>8, <1>9, <1>10, <1>11

(* And so are those of a mode. *)
LEMMA ModeWrites ==
  ASSUME TypeOK, NEW t \in Threads,
         CreateHbit(t) \/ CreateLbit(t) \/ HardenMode(t) \/ SoftenMode(t)
  PROVE  ModeWrite(t)
<1>1. /\ soft \in [Threads -> BOOLEAN] /\ zombie \in [Threads -> BOOLEAN]
      /\ \A u, bit : bit \in BOOLEAN => [soft EXCEPT ![u] = bit] \in [Threads -> BOOLEAN]
      /\ \A u, z : z \in BOOLEAN => [zombie EXCEPT ![u] = z] \in [Threads -> BOOLEAN]
  BY DEF TypeOK
<1>2. ASSUME NEW from, NEW to, ModeStep(t, from, to), <<from, to>> \in ModeEdges,
             soft' \in [Threads -> BOOLEAN], zombie' \in [Threads -> BOOLEAN]
      PROVE  ModeWrite(t)
  <2>1. <<from, to>>[1] = from /\ <<from, to>>[2] = to
    OBVIOUS
  <2>. QED  BY <1>2, <2>1 DEF ModeWrite
<1>3. CASE CreateHbit(t)
  BY <1>1, <1>2, <1>3 DEF CreateHbit, SetSoftBit, ModeEdges
<1>4. CASE CreateLbit(t)
  BY <1>1, <1>2, <1>4 DEF CreateLbit, SetZombie, ModeEdges
<1>5. CASE HardenMode(t)
  BY <1>1, <1>2, <1>5 DEF HardenMode, SetSoftBit, ModeEdges
<1>6. CASE SoftenMode(t)
  BY <1>1, <1>2, <1>6 DEF SoftenMode, SetSoftBit, ModeEdges
<1>. QED  BY <1>3, <1>4, <1>5, <1>6

(* Lock and Unlock steps go along their edges. *)
LEMMA LockSteps ==
  ASSUME NEW t \in Threads
  PROVE  /\ Locks(t) => \E e \in LockEdges : Lock(t, e[1], e[2])
         /\ Unlocks(t) => \E e \in UnlockEdges : Unlock(t, e[1], e[2])
<1>1. ASSUME NEW from, NEW to, <<from, to>> \in LockEdges, Lock(t, from, to)
      PROVE  \E e \in LockEdges : Lock(t, e[1], e[2])
  <2>1. <<from, to>>[1] = from /\ <<from, to>>[2] = to
    OBVIOUS
  <2>. QED  BY <1>1, <2>1
<1>2. ASSUME NEW from, NEW to, <<from, to>> \in UnlockEdges, Unlock(t, from, to)
      PROVE  \E e \in UnlockEdges : Unlock(t, e[1], e[2])
  <2>1. <<from, to>>[1] = from /\ <<from, to>>[2] = to
    OBVIOUS
  <2>. QED  BY <1>2, <2>1
<1>3. Locks(t) => \E e \in LockEdges : Lock(t, e[1], e[2])
  <2>1. /\ <<"lockCreate", "createHbit">> \in LockEdges
        /\ <<"lockHarden", "hardenSlot">> \in LockEdges
        /\ <<"lockSoften", "softenSoft">> \in LockEdges
        /\ <<"lockEndSoft", "endSlot">> \in LockEdges
        /\ <<"lockEndHard", "endHardSlot">> \in LockEdges
        /\ <<"lockSet", "setSlot">> \in LockEdges
    BY DEF LockEdges
  <2>. QED  BY <1>1, <2>1, Zenon DEF Locks
<1>4. Unlocks(t) => \E e \in UnlockEdges : Unlock(t, e[1], e[2])
  <2>1. /\ <<"unlock", "idle">> \in UnlockEdges
        /\ <<"unlockPriority", "setPriority">> \in UnlockEdges
        /\ <<"unlockEnd", "zombify">> \in UnlockEdges
    BY DEF UnlockEdges
  <2>. QED  BY <1>2, <2>1, Zenon DEF Unlocks
<1>. QED  BY <1>3, <1>4

(* Along its edge a call keeps what it is about. *)
LEMMA Edges ==
  /\ \A e \in SlotEdges :
       /\ e[1] # e[2] /\ e[1] \in SlotPcs
       /\ e[2] \in SectionPcs \cup UnlockPcs
  /\ \A e \in ModeEdges :
       /\ e[1] \in SectionPcs /\ e[1] \notin SlotPcs /\ e[2] \in SectionPcs
  /\ \A e \in LockEdges :
       /\ e[1] \notin SectionPcs \cup UnlockPcs \cup OutsidePcs \cup NewPcs \cup SlotPcs
       /\ e[2] \in SectionPcs
  /\ \A e \in UnlockEdges :
       /\ e[1] \in UnlockPcs /\ e[1] \notin SlotPcs
       /\ e[2] \in {"idle", "setPriority", "zombify"}
  /\ \A e \in SlotEdges \cup ModeEdges \cup LockEdges \cup UnlockEdges :
       /\ e[1] \in Pcs /\ e[2] \in Pcs
       /\ e[1] \notin OutsidePcs \cup NewPcs
       /\ e[2] \notin CleanPcs \cup NewPcs
       /\ e[2] \in OutsidePcs => e[2] = "idle"
       /\ e[2] \in PriorityPcs => e[1] \in PriorityPcs
       /\ e[2] = "setSlot" => e[1] = "lockSet"
       /\ e[2] # "lockSet"
       /\ e[2] \notin SlotCallPcs \cup {"idle"} => e[1] \notin SlotCallPcs
  BY DEF SlotEdges, ModeEdges, LockEdges, UnlockEdges, SlotPcs, SectionPcs,
         UnlockPcs, OutsidePcs, NewPcs, CleanPcs, SlotCallPcs, PriorityPcs, Pcs

-----------------------------------------------------------------------------
(***************************************************************************)
(* Types, and what the registers of a call hold                            *)
(***************************************************************************)

Args == Priorities \cup Counts \cup {0}

(* A step of t changes the registers of no other call, and t's fit again.  *)
Moves(t, p, u, a) ==
  /\ pc' = [pc EXCEPT ![t] = p]
  /\ target' = [target EXCEPT ![t] = u]
  /\ arg' = [arg EXCEPT ![t] = a]
  /\ ShapeOf(t, p, u, a)
  /\ p \notin OutsidePcs \cup NewPcs => running'
  /\ p \in CleanPcs /\ u # t => running'

(* Every step moves its thread from one write of its call to the next. *)
LEMMA StepMoves ==
  ASSUME IInv, NEW t \in Threads, Call(t) \/ Step(t)
  PROVE  /\ \E p \in Pcs, u \in Threads \cup {SLOT_S}, a \in Args : Moves(t, p, u, a)
         /\ running => running'
<1> DEFINE Goal == /\ \E p \in Pcs, u \in Threads \cup {SLOT_S}, a \in Args :
                         Moves(t, p, u, a)
                   /\ running => running'
<1>1. /\ target \in [Threads -> Threads \cup {SLOT_S}] /\ arg \in [Threads -> Args]
      /\ pc[t] \in Pcs /\ target[t] \in Threads \cup {SLOT_S} /\ arg[t] \in Args
      /\ ShapeOf(t, pc[t], target[t], arg[t])
      /\ pc[t] \notin OutsidePcs \cup NewPcs => running
      /\ pc[t] \in CleanPcs /\ target[t] # t => running
  BY DEF IInv, TypeOK, Shape, Args
<1>2. target = [target EXCEPT ![t] = target[t]] /\ arg = [arg EXCEPT ![t] = arg[t]]
  BY <1>1
<1>3. ASSUME NEW p \in Pcs, pc' = [pc EXCEPT ![t] = p], UNCHANGED <<target, arg>>,
             ShapeOf(t, p, target[t], arg[t]), running => running',
             p \notin OutsidePcs \cup NewPcs => running',
             p \in CleanPcs /\ target[t] # t => running'
      PROVE  Goal
  BY <1>1, <1>2, <1>3 DEF Moves
<1>4. ASSUME NEW p \in {"idle", "exited"}, pc' = [pc EXCEPT ![t] = p], Returns(t),
             running => running'
      PROVE  Goal
  <2>1. /\ p \in Pcs /\ p \in OutsidePcs /\ p \notin CleanPcs
        /\ p \notin PriorityPcs \cup {"newStore"} /\ p \notin {"lockSet", "setSlot"}
    BY DEF Pcs, OutsidePcs, CleanPcs, PriorityPcs
  <2>2. 0 \in Threads /\ 0 \in Args
    BY Constants DEF Args
  <2>3. Moves(t, p, 0, 0)
    BY <1>4, <2>1, <2>2 DEF Returns, Moves, ShapeOf
  <2>. QED  BY <1>4, <2>1, <2>2, <2>3
<1>5. ASSUME NEW e \in SlotEdges \cup ModeEdges \cup LockEdges \cup UnlockEdges,
             pc[t] = e[1], pc' = [pc EXCEPT ![t] = e[2]],
             UNCHANGED <<target, arg, running>>, e[2] # "idle"
      PROVE  Goal
  <2>1. /\ e[2] \in Pcs
        /\ e[1] \notin OutsidePcs \cup NewPcs
        /\ e[2] \notin CleanPcs \cup NewPcs
        /\ e[2] \in PriorityPcs => e[1] \in PriorityPcs
        /\ e[2] = "setSlot" => e[1] = "lockSet"
        /\ e[2] # "lockSet"
        /\ e[2] \notin SlotCallPcs => e[1] \notin SlotCallPcs
    BY <1>5, Edges
  <2>2. "newStore" \in NewPcs
    BY DEF NewPcs
  <2>3. ShapeOf(t, e[2], target[t], arg[t])
    BY <1>1, <1>5, <2>1, <2>2 DEF ShapeOf
  <2>. QED  BY <1>1, <1>3, <1>5, <2>1, <2>3
<1>6. ASSUME NEW p \in Pcs \ {"idle"}, NEW u \in Threads \cup {SLOT_S}, NEW a \in Args,
             Begin(t, p, u, a), ShapeOf(t, p, u, a),
             p \notin OutsidePcs \cup NewPcs => running,
             p \in CleanPcs /\ u # t => running
      PROVE  Goal
  BY <1>6 DEF Begin, Goto, Moves, os
<1>7. CASE Call(t)
  <2>1. ASSUME NEW p \in Priorities, ThreadNew(t, p)
        PROVE  Goal
    <3>1. num \in Threads /\ num \in Nat
      BY <2>1, Constants, SlotSets DEF ThreadNew, IInv, TypeOK, Threads
    <3>2. t \in Callers /\ p \in Args
      BY <2>1 DEF ThreadNew, Callers, Args
    <3>3. ShapeOf(t, "newStore", num, p)
      BY <3>1, <3>2 DEF ShapeOf, SlotCallPcs, CleanPcs
    <3>4. "newStore" \in Pcs \ {"idle"} /\ "newStore" \in NewPcs /\ "newStore" \notin CleanPcs
      BY DEF Pcs, NewPcs, CleanPcs
    <3>. QED  BY <1>6, <2>1, <3>1, <3>2, <3>3, <3>4 DEF ThreadNew
  <2>2. ASSUME NEW u \in Threads, NEW p \in Priorities, SetPriority(t, u, p)
        PROVE  Goal
    <3>1. running /\ t \in Callers /\ p \in Args
      BY <2>2 DEF SetPriority, Callers, Args
    <3>2. \A from \in {"lockHarden", "lockSoften"} :
            /\ from \in Pcs \ {"idle"}
            /\ ShapeOf(t, from, u, p)
      BY <3>1 DEF ShapeOf, Pcs, SlotCallPcs, CleanPcs
    <3>. QED  BY <1>6, <2>2, <3>1, <3>2 DEF SetPriority
  <2>3. ASSUME NEW u \in Threads, Terminate(t, u)
        PROVE  Goal
    <3>1. running /\ ShapeOf(t, "cleanMutex", u, 0)
      BY <2>3 DEF Terminate, ShapeOf, SlotCallPcs, PriorityPcs, OutsidePcs, CleanPcs
    <3>2. "cleanMutex" \in Pcs \ {"idle"} /\ 0 \in Args
      BY DEF Pcs, Args
    <3>. QED  BY <1>6, <2>3, <3>1, <3>2 DEF Terminate
  <2>4. ASSUME NEW u \in Threads, Join(t, u)
        PROVE  Goal
    <3>1. running /\ ShapeOf(t, "reap", u, 0)
      BY <2>4 DEF Join, ShapeOf, Callers, SlotCallPcs, PriorityPcs, CleanPcs
    <3>2. "reap" \in Pcs \ {"idle"} /\ 0 \in Args
      BY DEF Pcs, Args
    <3>. QED  BY <1>6, <2>4, <3>1, <3>2 DEF Join
  <2>5. ASSUME NEW u \in Threads, Suspend(t, u)
        PROVE  Goal
    <3>1. /\ pc[t] = "idle" /\ pc' = [pc EXCEPT ![t] = "idle"]
          /\ UNCHANGED <<target, arg, running>>
      BY <2>5 DEF Suspend, Goto, local, os
    <3>. QED  BY <1>1, <1>3, <3>1
  <2>6. ASSUME NEW u \in Threads \cup {SLOT_S}, NEW n \in Counts, SetSlots(t, u, n)
        PROVE  Goal
    <3>1. running /\ ShapeOf(t, "lockSet", u, n)
      BY <2>6 DEF SetSlots, ShapeOf, Callers, SlotCallPcs, PriorityPcs, CleanPcs
    <3>2. "lockSet" \in Pcs \ {"idle"} /\ n \in Args
      BY DEF Pcs, Args
    <3>. QED  BY <1>6, <2>6, <3>1, <3>2 DEF SetSlots
  <2>7. CASE Exit(t)
    <3>1. ShapeOf(t, "cleanMutex", t, 0)
      BY DEF ShapeOf, SlotCallPcs, PriorityPcs, OutsidePcs, CleanPcs
    <3>2. "cleanMutex" \in Pcs \ {"idle"} /\ "cleanMutex" \in OutsidePcs /\ 0 \in Args
      BY DEF Pcs, Args, OutsidePcs, CleanPcs
    <3>. QED  BY <1>6, <2>7, <3>1, <3>2 DEF Exit
  <2>8. CASE KernelStart(t)
    <3>1. /\ pc[t] = "idle" /\ pc' = [pc EXCEPT ![t] = "startModes"]
          /\ UNCHANGED <<target, arg, running>>
      BY <2>8 DEF KernelStart, Goto, local, os
    <3>2. ShapeOf(t, "startModes", target[t], arg[t])
      BY <1>1, <3>1 DEF ShapeOf, SlotCallPcs, PriorityPcs, OutsidePcs, CleanPcs
    <3>3. "startModes" \in Pcs /\ "startModes" \in OutsidePcs /\ "startModes" \notin CleanPcs
      BY DEF Pcs, OutsidePcs, CleanPcs
    <3>. QED  BY <1>3, <3>1, <3>2, <3>3
  <2>. QED
    BY <1>7, <2>1, <2>2, <2>3, <2>4, <2>5, <2>6, <2>7, <2>8 DEF Call
<1>8. CASE Step(t)
  <2>1. CASE NewStore(t)
    <3>1. /\ pc[t] = "newStore" /\ pc' = [pc EXCEPT ![t] = "newFunc"]
          /\ UNCHANGED <<target, arg, running>>
      BY <2>1 DEF NewStore, Goto, local
    <3>2. ShapeOf(t, "newFunc", target[t], arg[t])
      BY <1>1, <3>1 DEF ShapeOf, SlotCallPcs, PriorityPcs, OutsidePcs, CleanPcs
    <3>3. "newFunc" \in Pcs /\ "newFunc" \in NewPcs /\ "newFunc" \notin CleanPcs
      BY DEF Pcs, NewPcs, CleanPcs
    <3>. QED  BY <1>3, <3>1, <3>2, <3>3
  <2>2. CASE NewFunc(t)
    <3>1. pc[t] = "newFunc" /\ UNCHANGED running
      BY <2>2 DEF NewFunc, Goto
    <3>2. CASE running
      <4>1. pc' = [pc EXCEPT ![t] = "lockCreate"] /\ UNCHANGED <<target, arg>>
        BY <2>2, <3>2 DEF NewFunc, Goto, local
      <4>2. ShapeOf(t, "lockCreate", target[t], arg[t])
        BY <1>1, <3>1 DEF ShapeOf, SlotCallPcs, PriorityPcs, OutsidePcs, CleanPcs
      <4>3. "lockCreate" \in Pcs
        BY DEF Pcs
      <4>. QED  BY <1>3, <3>1, <3>2, <4>1, <4>2, <4>3
    <3>3. CASE ~ running
      BY <1>4, <2>2, <3>1, <3>3 DEF NewFunc, Goto
    <3>. QED  BY <3>2, <3>3
  <2>3. CASE StartModes(t)
    <3>1. /\ pc[t] = "startModes" /\ pc' = [pc EXCEPT ![t] = "startRun"]
          /\ UNCHANGED <<target, arg, running>>
      BY <2>3 DEF StartModes, Goto, local, os
    <3>2. ShapeOf(t, "startRun", target[t], arg[t])
      BY <1>1, <3>1 DEF ShapeOf, SlotCallPcs, PriorityPcs, OutsidePcs, CleanPcs
    <3>3. "startRun" \in Pcs /\ "startRun" \in OutsidePcs /\ "startRun" \notin CleanPcs
      BY DEF Pcs, OutsidePcs, CleanPcs
    <3>. QED  BY <1>3, <3>1, <3>2, <3>3
  <2>4. CASE StartRun(t)
    <3>1. /\ pc[t] = "startRun" /\ pc' = [pc EXCEPT ![t] = "idle"]
          /\ UNCHANGED <<target, arg>> /\ running' = TRUE
      BY <2>4 DEF StartRun, Goto, local
    <3>2. ShapeOf(t, "idle", target[t], arg[t])
      BY <1>1, <3>1 DEF ShapeOf, SlotCallPcs, PriorityPcs, OutsidePcs, CleanPcs
    <3>3. "idle" \in Pcs
      BY DEF Pcs
    <3>. QED  BY <1>3, <3>1, <3>2, <3>3
  <2>5. CASE Locks(t)
    <3>1. PICK e \in LockEdges : Lock(t, e[1], e[2])
      BY <2>5, LockSteps
    <3>2. UNCHANGED <<target, arg, running>> /\ pc[t] = e[1]
      BY <3>1 DEF Lock, Goto, local, os
    <3>3. CASE pc' = [pc EXCEPT ![t] = e[2]]
      <4>1. e[2] # "idle"
        BY Edges DEF SectionPcs
      <4>. QED  BY <1>5, <3>2, <3>3, <4>1
    <3>4. CASE pc' = [pc EXCEPT ![t] = e[1]]
      BY <1>1, <1>3, <3>2, <3>4
    <3>. QED  BY <3>1, <3>3, <3>4 DEF Lock, Goto
  <2>6. CASE Unlocks(t)
    <3>1. PICK e \in UnlockEdges : Unlock(t, e[1], e[2])
      BY <2>6, LockSteps
    <3>2. UNCHANGED running /\ pc[t] = e[1] /\ pc' = [pc EXCEPT ![t] = e[2]]
      BY <3>1 DEF Unlock, Goto, os
    <3>3. CASE e[2] = "idle"
      BY <1>4, <3>1, <3>2, <3>3 DEF Unlock
    <3>4. CASE e[2] # "idle"
      <4>1. UNCHANGED <<target, arg>>
        BY <3>1, <3>4 DEF Unlock, local
      <4>. QED  BY <1>5, <3>2, <3>4, <4>1
    <3>. QED  BY <3>3, <3>4
  <2>7. CASE GetSlots(t)
    <3>1. UNCHANGED <<target, arg, running>> /\ pc' = [pc EXCEPT ![t] = pc[t]]
      BY <2>7 DEF GetSlots, Goto, os
    <3>. QED  BY <1>1, <1>3, <3>1
  <2>8. CASE SlotWrite(t)
    <3>1. PICK e \in SlotEdges :
            /\ UNCHANGED <<target, arg, running>>
            /\ pc[t] = e[1] /\ pc' = [pc EXCEPT ![t] = e[2]]
      BY <2>8 DEF SlotWrite, SlotStep, Goto, os
    <3>2. e[2] # "idle"
      BY Edges DEF SectionPcs, UnlockPcs
    <3>. QED  BY <1>5, <3>1, <3>2
  <2>9. CASE ModeWrite(t)
    <3>1. PICK e \in ModeEdges :
            /\ UNCHANGED <<target, arg, running>>
            /\ pc[t] = e[1] /\ pc' = [pc EXCEPT ![t] = e[2]]
      BY <2>9 DEF ModeWrite, ModeStep, Goto, os, local
    <3>2. e[2] # "idle"
      BY Edges DEF SectionPcs
    <3>. QED  BY <1>5, <3>1, <3>2
  <2>10. CASE CleanMutex(t)
    <3>1. /\ pc[t] = "cleanMutex" /\ pc' = [pc EXCEPT ![t] = "cleanFunc"]
          /\ UNCHANGED <<target, arg, running>>
      BY <2>10 DEF CleanMutex, Goto, local, os
    <3>2. ShapeOf(t, "cleanFunc", target[t], arg[t])
      BY <1>1, <3>1 DEF ShapeOf, SlotCallPcs, PriorityPcs, OutsidePcs, CleanPcs
    <3>3. "cleanFunc" \in Pcs /\ "cleanFunc" \in OutsidePcs /\ pc[t] \in CleanPcs
      BY <3>1 DEF Pcs, OutsidePcs, CleanPcs
    <3>. QED  BY <1>1, <1>3, <3>1, <3>2, <3>3
  <2>11. CASE CleanFunc(t)
    <3>1. pc[t] = "cleanFunc" /\ UNCHANGED running /\ pc[t] \in CleanPcs
      BY <2>11 DEF CleanFunc, Goto, CleanPcs
    <3>2. CASE target[t] = t
      BY <1>4, <2>11, <3>1, <3>2 DEF CleanFunc, Goto
    <3>3. CASE target[t] # t
      <4>1. pc' = [pc EXCEPT ![t] = "reap"] /\ UNCHANGED <<target, arg>>
        BY <2>11, <3>3 DEF CleanFunc, Goto, local
      <4>2. ShapeOf(t, "reap", target[t], arg[t])
        BY <1>1, <3>1, <3>3
           DEF ShapeOf, SlotCallPcs, PriorityPcs, OutsidePcs, CleanPcs, Callers
      <4>3. "reap" \in Pcs /\ "reap" \notin CleanPcs
        BY DEF Pcs, CleanPcs
      <4>. QED  BY <1>1, <1>3, <3>1, <3>3, <4>1, <4>2, <4>3
    <3>. QED  BY <3>2, <3>3
  <2>12. CASE Reap(t)
    <3>1. PICK p \in {"lockEndSoft", "lockEndHard"} :
            /\ pc[t] = "reap" /\ pc' = [pc EXCEPT ![t] = p]
            /\ UNCHANGED <<target, arg, running>>
      BY <2>12 DEF Reap, Goto, local, os
    <3>2. ShapeOf(t, p, target[t], arg[t])
      BY <1>1, <3>1 DEF ShapeOf, SlotCallPcs, PriorityPcs, OutsidePcs, CleanPcs
    <3>3. p \in Pcs /\ p \notin CleanPcs /\ pc[t] \notin OutsidePcs \cup NewPcs
      BY <3>1 DEF Pcs, CleanPcs, OutsidePcs, NewPcs
    <3>. QED  BY <1>1, <1>3, <3>1, <3>2, <3>3
  <2>13. CASE Zombify(t)
    BY <1>4, <2>13 DEF Zombify, Goto, os
  <2>14. CASE StorePriority(t)
    BY <1>4, <2>14 DEF StorePriority, Goto
  <2>15. TypeOK
    BY DEF IInv
  <2>. QED
    BY <1>8, <2>1, <2>2, <2>3, <2>4, <2>5, <2>6, <2>7, <2>8, <2>9, <2>10, <2>11,
       <2>12, <2>13, <2>14, <2>15, SlotWrites, ModeWrites DEF Step
<1>. QED  BY <1>7, <1>8

(* Which steps of t change the slots, the copies of them, the counts of    *)
(* soft threads, slot_mutex and what has been reaped.                      *)
Framed(t) ==
  /\ UNCHANGED slots \/ SlotWrite(t) \/ KernelStart(t)
  /\ UNCHANGED copy \/ SlotWrite(t) \/ GetSlots(t)
  /\ UNCHANGED otherSoft \/ SlotWrite(t) \/ Returns(t)
  /\ \/ UNCHANGED <<slotBit, slotOwner>>
     \/ \E e \in LockEdges : Lock(t, e[1], e[2])
     \/ \E e \in UnlockEdges : Unlock(t, e[1], e[2])
     \/ CleanMutex(t)
  /\ \/ UNCHANGED waited
     \/ \E e \in LockEdges : Lock(t, e[1], e[2])
  /\ UNCHANGED reaped \/ Zombify(t)

(* These are all. *)
LEMMA StepFrame ==
  ASSUME TypeOK, NEW t \in Threads, Call(t) \/ Step(t)
  PROVE  Framed(t)
<1>1. ASSUME NEW p, NEW u, NEW a, Begin(t, p, u, a)
      PROVE  Framed(t)
  BY <1>1 DEF Framed, Begin, mutex
<1>2. ASSUME NEW u, Suspend(t, u)
      PROVE  Framed(t)
  BY <1>2 DEF Framed, Suspend, mutex, local
<1>3. CASE KernelStart(t)
  BY <1>3 DEF Framed, KernelStart, mutex, local
<1>4. CASE NewStore(t)
  BY <1>4 DEF Framed, NewStore, mutex, local
<1>5. CASE NewFunc(t)
  <2>1. UNCHANGED copy
    BY <1>5 DEF NewFunc, local, Returns
  <2>. QED  BY <1>5, <2>1 DEF Framed, NewFunc, mutex, local
<1>6. CASE StartModes(t)
  BY <1>6 DEF Framed, StartModes, mutex, local
<1>7. CASE StartRun(t)
  BY <1>7 DEF Framed, StartRun, mutex, local
<1>8. CASE Locks(t)
  <2>1. PICK e \in LockEdges : Lock(t, e[1], e[2])
    BY <1>8, LockSteps
  <2>. QED  BY <2>1 DEF Framed, Lock, local
<1>9. CASE Unlocks(t)
  <2>1. PICK e \in UnlockEdges : Unlock(t, e[1], e[2])
    BY <1>9, LockSteps
  <2>2. UNCHANGED copy /\ (UNCHANGED otherSoft \/ Returns(t))
    BY <2>1 DEF Unlock, local, Returns
  <2>3. UNCHANGED <<slots, waited, reaped>>
    BY <2>1 DEF Unlock
  <2>. QED  BY <2>1, <2>2, <2>3 DEF Framed
<1>10. CASE GetSlots(t)
  BY <1>10 DEF Framed, GetSlots, mutex
<1>11. CASE SlotWrite(t)
  BY <1>11 DEF Framed, SlotWrite, SlotStep, mutex
<1>12. CASE ModeWrite(t)
  BY <1>12 DEF Framed, ModeWrite, ModeStep, mutex, local
<1>13. CASE CleanMutex(t)
  BY <1>13 DEF Framed, CleanMutex, local
<1>14. CASE CleanFunc(t)
  <2>1. UNCHANGED copy
    BY <1>14 DEF CleanFunc, local, Returns
  <2>. QED  BY <1>14, <2>1 DEF Framed, CleanFunc, mutex, local
<1>15. CASE Reap(t)
  BY <1>15 DEF Framed, Reap, mutex, local
<1>16. CASE Zombify(t)
  <2>1. UNCHANGED copy
    BY <1>16 DEF Zombify, Returns
  <2>. QED  BY <1>16, <2>1 DEF Framed, Zombify, mutex
<1>17. CASE StorePriority(t)
  <2>1. UNCHANGED copy
    BY <1>17 DEF StorePriority, Returns
  <2>. QED  BY <1>17, <2>1 DEF Framed, StorePriority, mutex
<1>18. CASE Call(t)
  BY <1>1, <1>2, <1>3, <1>18
     DEF Call, ThreadNew, SetPriority, Terminate, Join, SetSlots, Exit
<1>19. CASE Step(t)
  BY <1>4, <1>5, <1>6, <1>7, <1>8, <1>9, <1>10, <1>11, <1>12, <1>13, <1>14, <1>15,
     <1>16, <1>17, <1>19, SlotWrites, ModeWrites DEF Step
<1>. QED  BY <1>18, <1>19

(* Where a section is to rewrite the slot table, its thread does that. *)
LEMMA SlotPcSteps ==
  ASSUME TypeOK, NEW t \in Threads, Call(t) \/ Step(t), pc[t] \in SlotPcs
  PROVE  SlotWrite(t) \/ GetSlots(t)
<1>1. ~ Call(t)
  <2>1. pc[t] # "idle"
    BY DEF SlotPcs
  <2>2. \A p, u, a : ~ Begin(t, p, u, a)
    BY <2>1 DEF Begin, Goto
  <2>. QED
    BY <2>1, <2>2
       DEF Call, ThreadNew, SetPriority, Terminate, Join, SetSlots, Exit, Suspend,
           KernelStart, Goto
<1>2. ~ Locks(t) /\ ~ Unlocks(t)
  <2>1. /\ \A e \in LockEdges : e[1] \notin SlotPcs
        /\ \A e \in UnlockEdges : e[1] \notin SlotPcs
    BY Edges
  <2>2. ASSUME NEW from, NEW to, Lock(t, from, to)
        PROVE  pc[t] = from
    BY <2>2 DEF Lock, Goto
  <2>3. ASSUME NEW from, NEW to, Unlock(t, from, to)
        PROVE  pc[t] = from
    BY <2>3 DEF Unlock, Goto
  <2>. QED  BY <2>1, <2>2, <2>3, LockSteps
<1>3. ~ ModeWrite(t)
  BY Edges DEF ModeWrite, ModeStep, Goto
<1>4. ~ (NewStore(t) \/ NewFunc(t) \/ StartModes(t) \/ StartRun(t))
  BY DEF NewStore, NewFunc, StartModes, StartRun, Goto, SlotPcs
<1>5. ~ (CleanMutex(t) \/ CleanFunc(t) \/ Reap(t) \/ Zombify(t) \/ StorePriority(t))
  BY DEF CleanMutex, CleanFunc, Reap, Zombify, StorePriority, Goto, SlotPcs
<1>. QED
  BY <1>1, <1>2, <1>3, <1>4, <1>5, SlotWrites, ModeWrites DEF Step

(* Two parts of TypeOK. *)
OsTypes ==
  /\ soft \in [Threads -> BOOLEAN] /\ zombie \in [Threads -> BOOLEAN]
  /\ running \in BOOLEAN /\ num \in 1 .. NThreads
  /\ func \in [Threads -> BOOLEAN] /\ priority \in [Threads -> Priorities]

TableTypes ==
  /\ slots \in Tables /\ copy \in [Threads -> Tables \cup {NULL}]
  /\ otherSoft \in [Threads -> BOOLEAN]

(* The modes and what the kernel records keep their types. *)
LEMMA StepOsTypes ==
  ASSUME IInv, NEW t \in Threads, Call(t) \/ Step(t)
  PROVE  OsTypes'
<1>1. OsTypes
  BY DEF IInv, TypeOK, OsTypes
<1>2. /\ pc[t] \notin SlotCallPcs => target[t] \in Threads
      /\ pc[t] \in PriorityPcs \cup {"newStore"} => arg[t] \in Priorities
  BY DEF IInv, Shape, ShapeOf
<1>3. ASSUME UNCHANGED <<soft, zombie, running, num, func, priority>>
      PROVE  OsTypes'
  BY <1>1, <1>3 DEF OsTypes
<1>4. ASSUME NEW u, NEW z \in BOOLEAN, zombie' = [zombie EXCEPT ![u] = z],
             UNCHANGED <<soft, running, num, func, priority>>
      PROVE  OsTypes'
  BY <1>1, <1>4 DEF OsTypes
<1>5. ASSUME NEW u, NEW f \in BOOLEAN, func' = [func EXCEPT ![u] = f],
             UNCHANGED <<soft, zombie, running, num, priority>>
      PROVE  OsTypes'
  BY <1>1, <1>5 DEF OsTypes
<1>6. CASE Call(t)
  <2>1. ASSUME NEW p, NEW u, NEW a, Begin(t, p, u, a)
        PROVE  OsTypes'
    BY <1>3, <2>1 DEF Begin, os
  <2>2. ASSUME NEW u, Suspend(t, u)
        PROVE  OsTypes'
    BY <1>4, <2>2 DEF Suspend, SetZombie, os
  <2>3. CASE KernelStart(t)
    BY <1>3, <2>3 DEF KernelStart, os
  <2>. QED
    BY <1>6, <2>1, <2>2, <2>3
       DEF Call, ThreadNew, SetPriority, Terminate, Join, SetSlots, Exit
<1>7. CASE Step(t)
  <2>1. CASE NewStore(t)
    <3>1. pc[t] = "newStore" /\ "newStore" \notin SlotCallPcs
      BY <2>1 DEF NewStore, Goto, SlotCallPcs
    <3>2. target[t] \in Threads /\ arg[t] \in Priorities
      BY <1>2, <3>1
    <3>3. target[t] + 1 \in 1 .. NThreads
      BY <3>2, Constants DEF Threads
    <3>. QED  BY <1>1, <2>1, <3>2, <3>3 DEF NewStore, OsTypes
  <2>2. CASE NewFunc(t)
    BY <1>5, <2>2 DEF NewFunc
  <2>3. CASE StartModes(t)
    <3>1. /\ [u \in Threads |-> ~ func[u]] \in [Threads -> BOOLEAN]
          /\ [u \in Threads |-> u # 0 /\ (func[u] => priority[u] = Normal)]
               \in [Threads -> BOOLEAN]
      OBVIOUS
    <3>. QED  BY <1>1, <2>3, <3>1 DEF StartModes, os, OsTypes
  <2>4. CASE StartRun(t)
    BY <1>1, <2>4 DEF StartRun, OsTypes
  <2>5. CASE Locks(t) \/ Unlocks(t)
    <3>1. UNCHANGED <<soft, zombie, os>>
      BY <2>5, LockSteps DEF Lock, Unlock
    <3>. QED  BY <1>3, <3>1 DEF os
  <2>6. CASE GetSlots(t)
    BY <1>3, <2>6 DEF GetSlots, os
  <2>7. CASE SlotWrite(t)
    BY <1>3, <2>7 DEF SlotWrite, SlotStep, os
  <2>8. CASE ModeWrite(t)
    BY <1>1, <2>8 DEF ModeWrite, ModeStep, os, OsTypes
  <2>9. CASE CleanMutex(t)
    BY <1>3, <2>9 DEF CleanMutex, os
  <2>10. CASE CleanFunc(t)
    BY <1>5, <2>10 DEF CleanFunc
  <2>11. CASE Reap(t)
    BY <1>3, <2>11 DEF Reap, os
  <2>12. CASE Zombify(t)
    BY <1>4, <2>12 DEF Zombify, SetZombie, os
  <2>13. CASE StorePriority(t)
    <3>1. pc[t] = "setPriority" /\ "setPriority" \in PriorityPcs
      BY <2>13 DEF StorePriority, Goto, PriorityPcs
    <3>2. arg[t] \in Priorities
      BY <1>2, <3>1
    <3>. QED  BY <1>1, <2>13, <3>2 DEF StorePriority, OsTypes
  <2>14. TypeOK
    BY DEF IInv
  <2>. QED
    BY <1>7, <2>1, <2>2, <2>3, <2>4, <2>5, <2>6, <2>7, <2>8, <2>9, <2>10, <2>11,
       <2>12, <2>13, <2>14, SlotWrites, ModeWrites DEF Step
<1>. QED  BY <1>6, <1>7

(* The slot table and the copies of it keep their types. *)
LEMMA StepTableTypes ==
  ASSUME IInv, NEW t \in Threads, Call(t) \/ Step(t)
  PROVE  TableTypes'
<1>1. TableTypes
  BY DEF IInv, TypeOK, TableTypes, Tables
<1>2. Framed(t)
  BY StepFrame DEF IInv
<1>3. target[t] \in Threads \cup {SLOT_S}
  BY DEF IInv, TypeOK
<1>4. SlotWrite(t) => TableTypes'
  <2> SUFFICES ASSUME SlotWrite(t)
               PROVE  TableTypes'
    OBVIOUS
  <2>1. PICK e \in SlotEdges, who \in {target[t], SLOT_S}, n \in Nat, needed \in BOOLEAN :
          /\ SlotStep(t, e[1], e[2], who, n, needed)
          /\ otherSoft' \in [Threads -> BOOLEAN]
    BY DEF SlotWrite
  <2>2. copy[t] # NULL
    BY <2>1 DEF SlotStep
  <2>3. copy[t] \in Tables /\ who \in Threads \cup {SLOT_S, SLOT_D}
    BY <1>1, <1>3, <2>2 DEF TableTypes
  <2>4. SetSlotNum(copy[t], who, n) \in Tables
    BY <2>3, SetSlotNumTouches DEF Tables
  <2>5. slots' \in Tables
    BY <1>1, <2>1, <2>4 DEF SlotStep, TableTypes
  <2>6. copy' \in [Threads -> Tables \cup {NULL}]
    BY <1>1, <2>1 DEF SlotStep, TableTypes
  <2>. QED  BY <2>1, <2>5, <2>6 DEF TableTypes
<1>5. KernelStart(t) => slots' \in Tables
  <2>1. \A i \in SlotIds : StartSlots[i] \in Threads \cup {SLOT_S, SLOT_D}
    BY Constants DEF StartSlots, Alive
  <2>2. StartSlots \in Tables
    BY <2>1 DEF StartSlots, Tables
  <2>. QED  BY <2>2 DEF KernelStart
<1>6. GetSlots(t) => copy' \in [Threads -> Tables \cup {NULL}]
  BY <1>1 DEF GetSlots, TableTypes
<1>7. Returns(t) => otherSoft' \in [Threads -> BOOLEAN]
  BY <1>1 DEF Returns, TableTypes
<1>. QED  BY <1>1, <1>2, <1>4, <1>5, <1>6, <1>7 DEF Framed, TableTypes

(* Every step keeps the types. *)
LEMMA StepTypes ==
  ASSUME IInv, NEW t \in Threads, Call(t) \/ Step(t)
  PROVE  TypeOK'
<1>1. TypeOK
  BY DEF IInv
<1>2. /\ pc' \in [Threads -> Pcs] /\ target' \in [Threads -> Threads \cup {SLOT_S}]
      /\ arg' \in [Threads -> Priorities \cup Counts \cup {0}]
  <2>1. PICK p \in Pcs, u \in Threads \cup {SLOT_S}, a \in Args : Moves(t, p, u, a)
    BY StepMoves
  <2>2. /\ pc' = [pc EXCEPT ![t] = p] /\ target' = [target EXCEPT ![t] = u]
        /\ arg' = [arg EXCEPT ![t] = a] /\ arg \in [Threads -> Args]
    BY <1>1, <2>1 DEF Moves, TypeOK, Args
  <2>3. arg' \in [Threads -> Args]
    BY <2>2
  <2>. QED  BY <1>1, <2>2, <2>3 DEF TypeOK, Args
<1>3. Framed(t)
  BY <1>1, StepFrame
<1>4. /\ slotBit \in BOOLEAN /\ slotOwner \in Threads \cup {NULL}
      /\ waited \in [Threads -> BOOLEAN] /\ reaped \subseteq Threads
  BY <1>1 DEF TypeOK
<1>5. slotBit' \in BOOLEAN /\ slotOwner' \in Threads \cup {NULL}
  <2>1. ASSUME NEW from, NEW to, Lock(t, from, to)
        PROVE  slotBit' \in BOOLEAN /\ slotOwner' \in Threads \cup {NULL}
    BY <1>4, <2>1 DEF Lock
  <2>2. ASSUME NEW from, NEW to, Unlock(t, from, to)
        PROVE  slotBit' \in BOOLEAN /\ slotOwner' \in Threads \cup {NULL}
    BY <1>4, <2>2 DEF Unlock
  <2>3. CleanMutex(t) => slotBit' \in BOOLEAN /\ slotOwner' = slotOwner
    BY DEF CleanMutex
  <2>. QED  BY <1>3, <1>4, <2>1, <2>2, <2>3 DEF Framed
<1>6. waited' \in [Threads -> BOOLEAN]
  BY <1>3, <1>4 DEF Framed, Lock
<1>7. reaped' \subseteq Threads
  <2>1. CASE Zombify(t)
    <3>1. pc[t] = "zombify" /\ "zombify" \notin SlotCallPcs
      BY <2>1 DEF Zombify, Goto, SlotCallPcs
    <3>2. target[t] \in Threads
      BY <3>1 DEF IInv, Shape, ShapeOf
    <3>. QED  BY <1>4, <2>1, <3>2 DEF Zombify
  <2>. QED  BY <1>3, <1>4, <2>1 DEF Framed
<1>. QED
  BY <1>2, <1>5, <1>6, <1>7, StepOsTypes, StepTableTypes
     DEF OsTypes, TableTypes, Tables, TypeOK


(* A step of t keeps what Shape says of every thread v. *)
LEMMA StepShape ==
  ASSUME IInv, NEW t \in Threads, Call(t) \/ Step(t), NEW v \in Threads
  PROVE  Shape(v)'
<1>1. PICK p \in Pcs, u \in Threads \cup {SLOT_S}, a \in Args : Moves(t, p, u, a)
  BY StepMoves
<1>2. /\ pc'[v] = IF v = t THEN p ELSE pc[v]
      /\ target'[v] = IF v = t THEN u ELSE target[v]
      /\ arg'[v] = IF v = t THEN a ELSE arg[v]
      /\ running => running'
  BY <1>1, StepMoves DEF Moves, IInv, TypeOK
<1>3. /\ ShapeOf(v, pc'[v], target'[v], arg'[v])
      /\ pc'[v] \notin OutsidePcs \cup NewPcs => running'
      /\ pc'[v] \in CleanPcs /\ target'[v] # v => running'
  BY <1>1, <1>2 DEF Moves, IInv, Shape
<1>4. copy'[v] # NULL => pc'[v] \in SlotPcs
  <2>1. /\ copy[v] # NULL => pc[v] \in SlotPcs
        /\ DOMAIN copy = Threads
    BY DEF IInv, Shape, TypeOK
  <2>2. Framed(t)
    BY StepFrame DEF IInv
  <2>3. CASE v # t
    <3>1. copy'[v] = copy[v]
      BY <2>1, <2>2, <2>3 DEF Framed, SlotWrite, SlotStep, GetSlots
    <3>. QED  BY <1>2, <2>1, <2>3, <3>1
  <2>4. CASE v = t
    <3>1. SlotWrite(t) => copy'[t] = NULL
      BY <2>1 DEF SlotWrite, SlotStep
    <3>2. GetSlots(t) => pc'[t] \in SlotPcs
      BY DEF GetSlots, Goto, IInv, TypeOK
    <3>3. copy[t] # NULL => SlotWrite(t) \/ GetSlots(t)
      BY <2>1, <2>4, SlotPcSteps DEF IInv
    <3>. QED  BY <2>1, <2>2, <2>4, <3>1, <3>2, <3>3 DEF Framed
  <2>. QED  BY <2>3, <2>4
<1>. QED  BY <1>3, <1>4 DEF Shape

(* The system starts like this. *)
LEMMA InitIInv == Init => IInv
<1> SUFFICES ASSUME Init
             PROVE  IInv
  OBVIOUS
<1>1. TypeOK
  <2>1. slots \in [SlotIds -> Threads \cup {SLOT_S, SLOT_D}]
    BY Constants DEF Init
  <2>2. /\ soft \in [Threads -> BOOLEAN] /\ zombie \in [Threads -> BOOLEAN]
        /\ func \in [Threads -> BOOLEAN] /\ waited \in [Threads -> BOOLEAN]
        /\ otherSoft \in [Threads -> BOOLEAN]
    BY DEF Init
  <2>3. /\ running \in BOOLEAN /\ slotBit \in BOOLEAN
        /\ slotOwner \in Threads \cup {NULL} /\ reaped \subseteq Threads
        /\ priority \in [Threads -> Priorities]
    BY DEF Init, Priorities
  <2>4. num \in 1 .. NThreads
    BY Constants DEF Init
  <2>5. /\ pc \in [Threads -> Pcs]
        /\ target \in [Threads -> Threads \cup {SLOT_S}]
        /\ arg \in [Threads -> Priorities \cup Counts \cup {0}]
        /\ copy \in [Threads -> [SlotIds -> Threads \cup {SLOT_S, SLOT_D}] \cup {NULL}]
    BY Constants DEF Init, Pcs
  <2>. QED  BY <2>1, <2>2, <2>3, <2>4, <2>5 DEF TypeOK
<1>2. ASSUME NEW t \in Threads
      PROVE  Shape(t)
  <2>1. pc[t] = "idle" /\ target[t] = 0 /\ copy[t] = NULL
    BY DEF Init
  <2>. QED
    BY <2>1, Constants
       DEF Shape, ShapeOf, SlotCallPcs, PriorityPcs, OutsidePcs, CleanPcs
<1>. QED  BY <1>1, <1>2 DEF IInv

(* A step that changes nothing keeps it. *)
LEMMA StutterIInv == IInv /\ UNCHANGED vars => IInv'
<1> SUFFICES ASSUME IInv, UNCHANGED vars
             PROVE  IInv'
  OBVIOUS
<1>1. TypeOK'
  BY DEF IInv, TypeOK, vars
<1>2. \A t \in Threads : Shape(t)'
  BY DEF IInv, Shape, vars
<1>. QED  BY <1>1, <1>2 DEF IInv

(* What the calls hold fits what they do, whoever calls. *)
THEOREM Invariance == Spec => []IInv
<1>1. IInv /\ [Next]_vars => IInv'
  <2>1. ASSUME IInv, NEW t \in Threads, Call(t) \/ Step(t)
        PROVE  IInv'
    BY <2>1, StepTypes, StepShape DEF IInv
  <2>. QED  BY <2>1, StutterIInv DEF Next
<1>. QED  BY InitIInv, <1>1, PTL DEF Spec

(* Every register keeps its type: osThreadNew hands out ids of hardware    *)
(* threads, and slots hold such ids, SLOT_S or SLOT_D.                     *)
THEOREM TypeCorrectness == Spec => []TypeOK
<1>1. IInv => TypeOK
  BY DEF IInv
<1>. QED  BY Invariance, <1>1, PTL

-----------------------------------------------------------------------------
(***************************************************************************)
(* slot_mutex excludes                                                     *)
(***************************************************************************)

(* Nobody terminates a thread that may hold slot_mutex. *)
HoldersLive == Victims \cap Callers = {}

Owning == SectionPcs \cup UnlockPcs

(* The states of a call in which it owns slot_mutex. *)
LEMMA OwningPcs ==
  /\ SlotPcs \subseteq Owning
  /\ \A p \in Owning : p \notin OutsidePcs \cup NewPcs
  BY DEF Owning, SlotPcs, SectionPcs, UnlockPcs, OutsidePcs, CleanPcs, NewPcs

(* A thread comes to own slot_mutex by taking it, and ceases to by         *)
(* releasing it.                                                           *)
LEMMA StepOwning ==
  ASSUME IInv, NEW t \in Threads, Call(t) \/ Step(t)
  PROVE  \/ Locks(t) \/ Unlocks(t) \/ CleanMutex(t)
         \/ /\ UNCHANGED <<slotBit, slotOwner>>
            /\ pc'[t] \in Owning <=> pc[t] \in Owning
<1> DEFINE Goal == \/ Locks(t) \/ Unlocks(t) \/ CleanMutex(t)
                   \/ /\ UNCHANGED <<slotBit, slotOwner>>
                      /\ pc'[t] \in Owning <=> pc[t] \in Owning
<1>1. DOMAIN pc = Threads /\ TypeOK
  BY DEF IInv, TypeOK
<1>2. ASSUME NEW from, NEW to, Goto(t, from, to), UNCHANGED <<slotBit, slotOwner>>,
             from \in Owning <=> to \in Owning
      PROVE  Goal
  BY <1>1, <1>2 DEF Goto
<1>3. ASSUME NEW p, NEW u, NEW a, Begin(t, p, u, a), p \notin Owning
      PROVE  Goal
  <2>1. "idle" \notin Owning
    BY DEF Owning, SectionPcs, UnlockPcs
  <2>. QED  BY <1>2, <1>3, <2>1 DEF Begin, mutex
<1>4. CASE Call(t)
  <2>1. {"newStore", "lockHarden", "lockSoften", "cleanMutex", "reap", "lockSet",
         "idle", "startModes"} \cap Owning = {}
    BY DEF Owning, SectionPcs, UnlockPcs
  <2>2. ASSUME NEW u, Suspend(t, u)
        PROVE  Goal
    BY <1>2, <2>1, <2>2 DEF Suspend, mutex
  <2>3. ASSUME KernelStart(t)
        PROVE  Goal
    BY <1>2, <2>1, <2>3 DEF KernelStart, mutex
  <2>4. ASSUME NEW u, NEW p, SetPriority(t, u, p)
        PROVE  Goal
    BY <1>3, <2>1, <2>4 DEF SetPriority
  <2>5. ASSUME NEW u, NEW p, ThreadNew(t, p) \/ Terminate(t, u) \/ Join(t, u)
                             \/ SetSlots(t, u, p) \/ Exit(t)
        PROVE  Goal
    BY <1>3, <2>1, <2>5 DEF ThreadNew, Terminate, Join, SetSlots, Exit
  <2>. QED  BY <1>4, <2>2, <2>3, <2>4, <2>5 DEF Call
<1>5. CASE Step(t)
  <2>1. {"newStore", "newFunc", "lockCreate", "idle", "startModes", "startRun",
         "cleanFunc", "exited", "reap", "lockEndSoft", "lockEndHard", "zombify",
         "setPriority"} \cap Owning = {}
    BY DEF Owning, SectionPcs, UnlockPcs
  <2>2. CASE NewStore(t)
    BY <1>2, <2>1, <2>2 DEF NewStore, mutex
  <2>3. CASE NewFunc(t)
    <3>1. PICK p \in {"lockCreate", "idle"} : Goto(t, "newFunc", p)
      BY <2>3 DEF NewFunc
    <3>. QED  BY <1>2, <2>1, <2>3, <3>1 DEF NewFunc, mutex
  <2>4. CASE StartModes(t)
    BY <1>2, <2>1, <2>4 DEF StartModes, mutex
  <2>5. CASE StartRun(t)
    BY <1>2, <2>1, <2>5 DEF StartRun, mutex
  <2>6. CASE GetSlots(t)
    BY <1>2, <2>6 DEF GetSlots, mutex
  <2>7. CASE SlotWrite(t)
    <3>1. PICK e \in SlotEdges : Goto(t, e[1], e[2]) /\ UNCHANGED <<slotBit, slotOwner>>
      BY <2>7 DEF SlotWrite, SlotStep, mutex
    <3>2. e[1] \in Owning /\ e[2] \in Owning
      BY Edges, OwningPcs DEF Owning
    <3>. QED  BY <1>2, <3>1, <3>2
  <2>8. CASE ModeWrite(t)
    <3>1. PICK e \in ModeEdges : Goto(t, e[1], e[2]) /\ UNCHANGED <<slotBit, slotOwner>>
      BY <2>8 DEF ModeWrite, ModeStep, mutex
    <3>2. e[1] \in Owning /\ e[2] \in Owning
      BY Edges DEF Owning
    <3>. QED  BY <1>2, <3>1, <3>2
  <2>9. CASE CleanFunc(t)
    <3>1. PICK p \in {"exited", "reap"} : Goto(t, "cleanFunc", p)
      BY <2>9 DEF CleanFunc
    <3>. QED  BY <1>2, <2>1, <2>9, <3>1 DEF CleanFunc, mutex
  <2>10. CASE Reap(t)
    <3>1. PICK p \in {"lockEndSoft", "lockEndHard"} : Goto(t, "reap", p)
      BY <2>10 DEF Reap
    <3>. QED  BY <1>2, <2>1, <2>10, <3>1 DEF Reap, mutex
  <2>11. CASE Zombify(t)
    BY <1>2, <2>1, <2>11 DEF Zombify, mutex
  <2>12. CASE StorePriority(t)
    BY <1>2, <2>1, <2>12 DEF StorePriority, mutex
  <2>. QED
    BY <1>1, <1>5, <2>2, <2>3, <2>4, <2>5, <2>6, <2>7, <2>8, <2>9, <2>10, <2>11,
       <2>12, SlotWrites, ModeWrites DEF Step
<1>. QED  BY <1>4, <1>5

(* Every thread but t stays where it is in its call, and so does what it   *)
(* has read.                                                               *)
LEMMA OthersStay ==
  ASSUME IInv, NEW t \in Threads, Call(t) \/ Step(t), NEW v \in Threads, v # t
  PROVE  pc'[v] = pc[v] /\ copy'[v] = copy[v]
<1>1. DOMAIN pc = Threads /\ DOMAIN copy = Threads /\ TypeOK
  BY DEF IInv, TypeOK
<1>2. pc'[v] = pc[v]
  BY <1>1, StepMoves DEF Moves
<1>3. Framed(t)
  BY <1>1, StepFrame
<1>4. copy'[v] = copy[v]
  BY <1>1, <1>3 DEF Framed, SlotWrite, SlotStep, GetSlots
<1>. QED  BY <1>2, <1>4

(* Every step keeps that the thread in a section is the recorded owner.    *)
LEMMA StepOwner ==
  ASSUME HoldersLive, IInv, Exclusion, NEW t \in Threads, Call(t) \/ Step(t)
  PROVE  /\ slotBit' <=> slotOwner' # NULL
         /\ \A v \in Threads : slotOwner' = v <=> pc'[v] \in Owning
<1>1. /\ DOMAIN pc = Threads /\ TypeOK /\ t # NULL
      /\ \A v \in Threads : v # NULL
      /\ slotBit \in BOOLEAN
  BY Constants DEF IInv, TypeOK
<1>2. /\ slotBit <=> slotOwner # NULL
      /\ \A v \in Threads : slotOwner = v <=> pc[v] \in Owning
  BY DEF Exclusion, Owning
<1>3. \A v \in Threads : v # t => pc'[v] = pc[v]
  BY OthersStay
<1>4. CASE Locks(t)
  <2>1. PICK e \in LockEdges : Lock(t, e[1], e[2])
    BY <1>4, LockSteps
  <2>2. e[1] \notin Owning /\ e[2] \in Owning
    BY Edges DEF Owning
  <2>3. CASE slotBit
    <3>1. /\ UNCHANGED <<slotBit, slotOwner>>
          /\ pc[t] = e[1] /\ pc'[t] = e[1]
      BY <1>1, <2>1, <2>3 DEF Lock, Goto
    <3>. QED  BY <1>2, <1>3, <3>1
  <2>4. CASE ~ slotBit
    <3>1. slotBit' = TRUE /\ slotOwner' = t /\ pc'[t] = e[2]
      BY <1>1, <1>2, <2>1, <2>4 DEF Lock, Goto
    <3>2. \A v \in Threads : pc[v] \notin Owning
      BY <1>1, <1>2, <2>4
    <3>. QED  BY <1>1, <1>3, <2>2, <3>1, <3>2
  <2>. QED  BY <2>3, <2>4
<1>5. CASE Unlocks(t)
  <2>1. PICK e \in UnlockEdges : Unlock(t, e[1], e[2])
    BY <1>5, LockSteps
  <2>2. e[1] \in Owning /\ e[2] \notin Owning
    <3>1. e[1] \in UnlockPcs /\ e[2] \in {"idle", "setPriority", "zombify"}
      BY Edges
    <3>. QED  BY <3>1 DEF Owning, SectionPcs, UnlockPcs
  <2>3. pc[t] = e[1] /\ pc'[t] = e[2]
    BY <1>1, <2>1 DEF Unlock, Goto
  <2>4. slotOwner = t
    BY <1>2, <2>2, <2>3
  <2>5. slotBit' = FALSE /\ slotOwner' = NULL
    BY <2>1, <2>4 DEF Unlock
  <2>6. \A v \in Threads : v # t => pc[v] \notin Owning
    BY <1>2, <2>4
  <2>. QED  BY <1>1, <1>3, <2>2, <2>3, <2>5, <2>6
<1>6. CASE CleanMutex(t)
  <2>1. /\ pc[t] = "cleanMutex" /\ pc'[t] = "cleanFunc"
        /\ slotOwner' = slotOwner /\ slotBit' = (slotBit /\ slotOwner # target[t])
    BY <1>1, <1>6 DEF CleanMutex, Goto
  <2>2. pc[t] \notin Owning /\ pc'[t] \notin Owning /\ pc[t] \in CleanPcs
        /\ pc[t] \notin SlotCallPcs
    BY <2>1 DEF Owning, SectionPcs, UnlockPcs, CleanPcs, SlotCallPcs
  <2>3. /\ target[t] \in Threads
        /\ target[t] # t => target[t] \in Victims
    BY <2>2 DEF IInv, Shape, ShapeOf
  <2>4. pc[target[t]] \notin Owning
    <3>1. CASE target[t] = t
      BY <2>2, <3>1
    <3>2. CASE target[t] # t
      <4>1. target[t] \notin Callers
        BY <2>3, <3>2 DEF HoldersLive
      <4>2. pc[target[t]] \in OutsidePcs
        BY <2>3, <4>1 DEF IInv, Shape, ShapeOf
      <4>. QED  BY <4>2, OwningPcs
    <3>. QED  BY <3>1, <3>2
  <2>5. slotOwner # target[t]
    BY <1>2, <2>3, <2>4
  <2>. QED  BY <1>1, <1>2, <1>3, <2>1, <2>2, <2>5
<1>7. CASE /\ UNCHANGED <<slotBit, slotOwner>>
           /\ pc'[t] \in Owning <=> pc[t] \in Owning
  BY <1>2, <1>3, <1>7
<1>. QED  BY <1>4, <1>5, <1>6, <1>7, StepOwning

(* Every step keeps that what is read is still so. *)
LEMMA StepCopies ==
  ASSUME IInv, Exclusion, NEW t \in Threads, Call(t) \/ Step(t),
         NEW v \in Threads, copy'[v] # NULL
  PROVE  copy'[v] = slots'
<1>1. DOMAIN copy = Threads /\ TypeOK
  BY DEF IInv, TypeOK
<1>2. \A u \in Threads : copy[u] # NULL => copy[u] = slots /\ slotOwner = u /\ running
  <2>1. ASSUME NEW u \in Threads, copy[u] # NULL
        PROVE  copy[u] = slots /\ slotOwner = u /\ running
    <3>1. pc[u] \in SlotPcs
      BY <2>1 DEF IInv, Shape
    <3>2. pc[u] \in Owning /\ pc[u] \notin OutsidePcs \cup NewPcs
      BY <3>1, OwningPcs
    <3>. QED  BY <2>1, <3>2 DEF Exclusion, Owning, IInv, Shape
  <2>. QED  BY <2>1
<1>3. Framed(t)
  BY <1>1, StepFrame
<1>4. CASE SlotWrite(t)
  <2>1. copy[t] # NULL /\ copy'[t] = NULL
    BY <1>1, <1>4 DEF SlotWrite, SlotStep
  <2>2. v # t /\ copy'[v] = copy[v]
    BY <2>1, OthersStay
  <2>. QED  BY <1>2, <2>1, <2>2
<1>5. CASE GetSlots(t)
  <2>1. copy'[t] = slots /\ UNCHANGED slots
    BY <1>1, <1>5 DEF GetSlots
  <2>2. v # t => copy'[v] = copy[v]
    BY OthersStay
  <2>. QED  BY <1>2, <2>1, <2>2
<1>6. CASE KernelStart(t)
  <2>1. ~ running /\ UNCHANGED copy
    BY <1>6 DEF KernelStart, local
  <2>. QED  BY <1>2, <2>1
<1>7. CASE UNCHANGED slots /\ UNCHANGED copy
  BY <1>2, <1>7
<1>. QED  BY <1>3, <1>4, <1>5, <1>6, <1>7 DEF Framed

(* While nobody terminates a thread that may hold slot_mutex, its owner is
   the thread in a critical section.                                       *)
THEOREM Ownership ==
  ASSUME HoldersLive
  PROVE  Spec => []Exclusion
<1>1. Init => Exclusion
  <2> SUFFICES ASSUME Init
               PROVE  Exclusion
    OBVIOUS
  <2>1. slotBit = FALSE /\ slotOwner = NULL
    BY DEF Init
  <2>2. \A t \in Threads : pc[t] = "idle" /\ copy[t] = NULL /\ t # NULL
    BY Constants DEF Init
  <2>. QED  BY <2>1, <2>2 DEF Exclusion, SectionPcs, UnlockPcs
<1>2. IInv /\ Exclusion /\ [Next]_vars => Exclusion'
  <2>1. ASSUME IInv, Exclusion, NEW t \in Threads, Call(t) \/ Step(t)
        PROVE  Exclusion'
    BY <2>1, StepOwner, StepCopies DEF Exclusion, Owning
  <2>2. Exclusion /\ UNCHANGED vars => Exclusion'
    BY DEF Exclusion, vars
  <2>. QED  BY <2>1, <2>2 DEF Next
<1>. QED  BY Invariance, <1>1, <1>2, PTL DEF Spec

(* slot_mutex serialises the rewrites of the slot table: two threads are   *)
(* never both between acquire_slot_mutex and release_slot_mutex.           *)
THEOREM MutualExclusion ==
  ASSUME HoldersLive
  PROVE  Spec => []SectionsExclusive
<1>1. Exclusion => SectionsExclusive
  BY DEF Exclusion, SectionsExclusive
<1>. QED  BY Ownership, <1>1, PTL

(* An operation gives and takes slots only of the thread it is about, or   *)
(* soft slots, although set_slot_num writes all slots back from an         *)
(* earlier read.                                                           *)
THEOREM NoLostUpdates ==
  ASSUME HoldersLive
  PROVE  Spec => SlotsChangeOnlyByRequest
<1> DEFINE ByRequest ==
      running => \A i \in SlotIds : slots'[i] # slots[i] =>
        \E t \in Threads : /\ pc'[t] # pc[t]
                           /\ {slots[i], slots'[i]} \subseteq {target[t], SLOT_S, SLOT_D}
<1>1. IInv /\ Exclusion /\ [Next]_vars => [ByRequest]_vars
  <2>1. ASSUME IInv, Exclusion, NEW t \in Threads, Call(t) \/ Step(t)
        PROVE  ByRequest
    <3>1. Framed(t) /\ DOMAIN pc = Threads /\ slots \in Tables
          /\ target[t] \in Threads \cup {SLOT_S}
      BY <2>1, StepFrame DEF IInv, TypeOK, Tables
    <3>2. CASE SlotWrite(t)
      <4>1. PICK e \in SlotEdges, who \in {target[t], SLOT_S}, n \in Nat,
                 needed \in BOOLEAN : SlotStep(t, e[1], e[2], who, n, needed)
        BY <3>2 DEF SlotWrite
      <4>2. pc'[t] # pc[t]
        BY <3>1, <4>1, Edges DEF SlotStep, Goto
      <4>3. copy[t] = slots
        BY <2>1, <4>1 DEF SlotStep, Exclusion
      <4>4. slots' = slots \/ slots' = SetSlotNum(slots, who, n)
        BY <4>1, <4>3 DEF SlotStep
      <4>5. who \in Threads \cup {SLOT_S, SLOT_D}
        BY <3>1
      <4>6. \A i \in SlotIds : SetSlotNum(slots, who, n)[i] # slots[i] =>
              {slots[i], SetSlotNum(slots, who, n)[i]} \subseteq {who, SLOT_D}
        <5> DEFINE S == Threads \cup {SLOT_S, SLOT_D}
        <5>1. slots \in [SlotIds -> S] /\ who \in S /\ SLOT_D \in S
          BY <3>1, <4>5 DEF Tables
        <5> HIDE DEF S
        <5>. QED  BY <5>1, SetSlotNumTouches
      <4>7. \A i \in SlotIds : slots'[i] # slots[i] =>
              {slots[i], slots'[i]} \subseteq {target[t], SLOT_S, SLOT_D}
        BY <4>4, <4>6
      <4>. QED  BY <4>2, <4>7
    <3>3. CASE KernelStart(t)
      BY <3>3 DEF KernelStart
    <3>4. CASE UNCHANGED slots
      BY <3>4
    <3>. QED  BY <3>1, <3>2, <3>3, <3>4 DEF Framed
  <2>. QED  BY <2>1 DEF Next
<1>. QED
  BY Invariance, Ownership, <1>1, PTL DEF Spec, SlotsChangeOnlyByRequest

(* set_slot_num refuses to enable the last disabled slot, so the table is  *)
(* never filled, whatever counts are asked for and by whom, once           *)
(* osKernelStart has found a slot more than there are threads.             *)
THEOREM OneSlotDisabled ==
  ASSUME HoldersLive, NThreads < NSlots
  PROVE  Spec => []OneSlotStaysDisabled
<1>1. ASSUME NEW table, NEW i \in SlotIds, table[i] = SLOT_D
      PROVE  Count(table, SLOT_D) > 0
  <2>1. SlotsOf(table, SLOT_D) \subseteq SlotIds /\ SlotsOf(table, SLOT_D) # {}
    BY <1>1 DEF SlotsOf
  <2>. QED  BY <2>1, SlotSets, FS_EmptySet DEF Count
<1>2. IInv /\ Init => OneSlotStaysDisabled
  <2> SUFFICES ASSUME Init
               PROVE  OneSlotStaysDisabled
    OBVIOUS
  <2>1. 0 \in SlotIds /\ 0 # NSlots - 1
    BY Constants, SlotSets DEF SlotIds
  <2>2. slots[0] = SLOT_D
    BY <2>1 DEF Init
  <2>. QED  BY <1>1, <2>1, <2>2 DEF OneSlotStaysDisabled
<1>3. IInv /\ Exclusion /\ OneSlotStaysDisabled /\ [Next]_vars => OneSlotStaysDisabled'
  <2>1. ASSUME IInv, Exclusion, OneSlotStaysDisabled,
               NEW t \in Threads, Call(t) \/ Step(t)
        PROVE  OneSlotStaysDisabled'
    <3>1. /\ Framed(t) /\ slots \in [SlotIds -> Int]
          /\ target[t] \in Threads \cup {SLOT_S}
      <4>1. Framed(t) /\ slots \in Tables /\ target[t] \in Threads \cup {SLOT_S}
        BY <2>1, StepFrame DEF IInv, TypeOK, Tables
      <4>2. Threads \cup {SLOT_S, SLOT_D} \subseteq Int
        BY Constants
      <4>. QED  BY <4>1, <4>2 DEF Tables
    <3>2. CASE SlotWrite(t)
      <4>1. PICK e \in SlotEdges, who \in {target[t], SLOT_S}, n \in Nat,
                 needed \in BOOLEAN : SlotStep(t, e[1], e[2], who, n, needed)
        BY <3>2 DEF SlotWrite
      <4>2. copy[t] = slots
        BY <2>1, <4>1 DEF SlotStep, Exclusion
      <4>3. slots' = slots \/ slots' = SetSlotNum(slots, who, n)
        BY <4>1, <4>2 DEF SlotStep
      <4>4. who \in Int /\ who # SLOT_D
        <5>1. who \in Threads \/ who = SLOT_S
          BY <3>1, <4>1
        <5>2. \A u \in Threads : u \in Int /\ u # SLOT_D
          BY Constants
        <5>3. SLOT_S \in Int /\ SLOT_S # SLOT_D
          BY DEF SLOT_S, SLOT_D
        <5>. QED  BY <5>1, <5>2, <5>3
      <4>5. Count(SetSlotNum(slots, who, n), SLOT_D) > 0
        BY <2>1, <3>1, <4>4, SetSlotNumLeavesOne DEF OneSlotStaysDisabled
      <4>. QED  BY <2>1, <4>3, <4>5 DEF OneSlotStaysDisabled
    <3>3. CASE KernelStart(t)
      <4>1. NThreads \in SlotIds /\ NThreads \notin Threads /\ NThreads # 0
        BY Constants, SlotSets DEF SlotIds, Threads
      <4>2. CASE StartSlots[NThreads] = SLOT_D
        BY <1>1, <3>3, <4>1, <4>2 DEF KernelStart, OneSlotStaysDisabled
      <4>3. StartSlots[NThreads] = SLOT_D
        <5>1. ASSUME NEW p
              PROVE  NThreads \notin {u \in Alive \ {0} : priority[u] = p}
          BY <4>1 DEF Alive
        <5>2. ASSUME NEW A, NThreads \notin A
              PROVE  NThreads \notin LowestSlots(A, 1)
          BY <5>2 DEF LowestSlots
        <5>. QED  BY <4>1, <5>1, <5>2 DEF StartSlots
      <4>. QED  BY <4>2, <4>3
    <3>4. CASE UNCHANGED slots
      BY <2>1, <3>4 DEF OneSlotStaysDisabled, Count, SlotsOf
    <3>. QED  BY <3>1, <3>2, <3>3, <3>4 DEF Framed
  <2>2. OneSlotStaysDisabled /\ UNCHANGED vars => OneSlotStaysDisabled'
    BY DEF OneSlotStaysDisabled, Count, SlotsOf, vars
  <2>. QED  BY <2>1, <2>2 DEF Next
<1>. QED  BY Invariance, Ownership, <1>2, <1>3, InitIInv, PTL DEF Spec

-----------------------------------------------------------------------------
(***************************************************************************)
(* The implementation of AbstractSlots                                     *)
(***************************************************************************)

View == <<slots, soft, inside, subject, running>>

StartPcs == {"startModes", "startRun"}

(* osKernelStart is a call of thread 0 and comes before all others of it.  *)
StartsOnce == \A t \in Threads : pc[t] \in StartPcs => t = 0 /\ ~ running

(* No user has two slots. *)
Single(table) ==
  \A i, j \in SlotIds : table[i] = table[j] /\ table[i] # SLOT_D => i = j

(* What AbstractSlots does not see: steps outside of the sections, the     *)
(* read of the slots and the change of a zombie bit.                       *)
Calm(t) ==
  /\ UNCHANGED <<slots, soft, running>>
  /\ pc'[t] \in Owning <=> pc[t] \in Owning
  /\ pc'[t] \in Owning => UNCHANGED target
  /\ pc'[t] \notin StartPcs

(* The steps that it does see. *)
LEMMA StepKinds ==
  ASSUME IInv, NEW t \in Threads, Call(t) \/ Step(t)
  PROVE  \/ Locks(t) \/ Unlocks(t) \/ SlotWrite(t)
         \/ CreateHbit(t) \/ HardenMode(t) \/ SoftenMode(t)
         \/ KernelStart(t) \/ StartModes(t) \/ StartRun(t)
         \/ Calm(t)
<1>1. DOMAIN pc = Threads /\ TypeOK
  BY DEF IInv, TypeOK
<1>2. {"idle", "newStore", "newFunc", "lockCreate", "lockHarden", "lockSoften", "lockSet",
       "cleanMutex", "cleanFunc", "exited", "reap", "lockEndSoft", "lockEndHard",
       "zombify", "setPriority"} \cap (Owning \cup StartPcs) = {}
  BY DEF Owning, SectionPcs, UnlockPcs, StartPcs
<1>3. ASSUME NEW from, NEW to, Goto(t, from, to), UNCHANGED <<slots, soft, running>>,
             from \notin Owning, to \notin Owning \cup StartPcs
      PROVE  Calm(t)
  BY <1>1, <1>3 DEF Goto, Calm
<1>4. ASSUME NEW p, NEW u, NEW a, Begin(t, p, u, a), p \notin Owning \cup StartPcs
      PROVE  Calm(t)
  BY <1>2, <1>3, <1>4 DEF Begin, os
<1>5. CASE Call(t)
  <2>1. ASSUME NEW u, Suspend(t, u)
        PROVE  Calm(t)
    BY <1>2, <1>3, <2>1 DEF Suspend, os
  <2>2. ASSUME NEW u, NEW p, SetPriority(t, u, p)
        PROVE  Calm(t)
    BY <1>2, <1>4, <2>2 DEF SetPriority
  <2>3. ASSUME NEW u, NEW p, ThreadNew(t, p) \/ Terminate(t, u) \/ Join(t, u)
                             \/ SetSlots(t, u, p) \/ Exit(t)
        PROVE  Calm(t)
    BY <1>2, <1>4, <2>3 DEF ThreadNew, Terminate, Join, SetSlots, Exit
  <2>. QED  BY <1>5, <2>1, <2>2, <2>3 DEF Call
<1>6. CASE Step(t)
  <2>1. CASE NewStore(t)
    BY <1>2, <1>3, <2>1 DEF NewStore
  <2>2. CASE NewFunc(t)
    <3>1. PICK p \in {"lockCreate", "idle"} : Goto(t, "newFunc", p)
      BY <2>2 DEF NewFunc
    <3>. QED  BY <1>2, <1>3, <2>2, <3>1 DEF NewFunc
  <2>3. CASE GetSlots(t)
    <3>1. pc[t] \notin StartPcs /\ pc'[t] = pc[t]
      BY <1>1, <2>3 DEF GetSlots, Goto, SlotPcs, StartPcs
    <3>. QED  BY <2>3, <3>1 DEF GetSlots, Calm, os
  <2>4. CASE CreateLbit(t)
    <3>1. pc[t] = "createLbit" /\ pc'[t] = "createSlot"
      BY <1>1, <2>4 DEF CreateLbit, ModeStep, Goto
    <3>2. pc[t] \in Owning /\ pc'[t] \in Owning /\ pc'[t] \notin StartPcs
      BY <3>1 DEF Owning, SectionPcs, StartPcs
    <3>. QED  BY <2>4, <3>2 DEF CreateLbit, ModeStep, Calm, os, local
  <2>5. CASE CleanMutex(t)
    BY <1>2, <1>3, <2>5 DEF CleanMutex, os
  <2>6. CASE CleanFunc(t)
    <3>1. PICK p \in {"exited", "reap"} : Goto(t, "cleanFunc", p)
      BY <2>6 DEF CleanFunc
    <3>. QED  BY <1>2, <1>3, <2>6, <3>1 DEF CleanFunc
  <2>7. CASE Reap(t)
    <3>1. PICK p \in {"lockEndSoft", "lockEndHard"} : Goto(t, "reap", p)
      BY <2>7 DEF Reap
    <3>. QED  BY <1>2, <1>3, <2>7, <3>1 DEF Reap, os
  <2>8. CASE Zombify(t)
    BY <1>2, <1>3, <2>8 DEF Zombify, os
  <2>9. CASE StorePriority(t)
    BY <1>2, <1>3, <2>9 DEF StorePriority
  <2>. QED
    BY <1>1, <1>6, <2>1, <2>2, <2>3, <2>4, <2>5, <2>6, <2>7, <2>8, <2>9, SlotWrites
       DEF Step
<1>. QED  BY <1>5, <1>6

(* A step within a section, or outside of it. *)
LEMMA Insiders ==
  ASSUME IInv, NEW t \in Threads, Call(t) \/ Step(t),
         pc'[t] \in Owning <=> pc[t] \in Owning,
         pc'[t] \in Owning => UNCHANGED target
  PROVE  UNCHANGED <<inside, subject>>
<1>1. inside = {v \in Threads : pc[v] \in Owning} /\ inside' = {v \in Threads : pc'[v] \in Owning}
  BY DEF inside, Owning
<1>2. DOMAIN target = Threads
  BY DEF IInv, TypeOK
<1>3. \A v \in Threads : v # t => pc'[v] = pc[v] /\ target'[v] = target[v]
  BY <1>2, OthersStay, StepMoves DEF Moves
<1>4. inside' = inside
  BY <1>1, <1>3
<1>5. \A v \in inside : target'[v] = target[v]
  BY <1>1, <1>3, <1>4
<1>. QED  BY <1>4, <1>5 DEF subject

(* AbstractSlots counts with the same operator. *)
LEMMA SameCardinality ==
  ASSUME NEW S
  PROVE  Abstract!Cardinality(S) = Cardinality(S)
BY DEF Abstract!Cardinality, Cardinality

(* A rewrite of the slot table by set_slot_num is a resizing. *)
LEMMA Resizes ==
  ASSUME HoldersLive, IInv, Exclusion, NEW t \in Threads, Call(t) \/ Step(t), SlotWrite(t)
  PROVE  Abstract!Next \/ UNCHANGED View
<1>1. PICK e \in SlotEdges, who \in {target[t], SLOT_S}, n \in Nat, needed \in BOOLEAN :
        /\ SlotStep(t, e[1], e[2], who, n, needed)
        /\ n \in {0, 1} \/ (e[1] = "setSlot" /\ n = arg[t])
  BY DEF SlotWrite
<1>2. /\ pc[t] = e[1] /\ pc'[t] = e[2] /\ UNCHANGED <<soft, running, target>>
      /\ copy[t] # NULL
  BY <1>1 DEF SlotStep, Goto, os, IInv, TypeOK
<1>3. e[1] \in Owning /\ e[2] \in Owning
  BY Edges, OwningPcs DEF Owning
<1>4. UNCHANGED <<inside, subject>>
  BY <1>2, <1>3, Insiders
<1>5. CASE slots' = slots
  BY <1>2, <1>4, <1>5 DEF View
<1>6. CASE slots' # slots
  <2>1. slots' = SetSlotNum(slots, who, n) /\ SetSlotNumOk(slots, who, n)
    BY <1>1, <1>2, <1>6 DEF SlotStep, SetSlotNum, Exclusion
  <2>2. t \in inside /\ target[t] \in subject
    BY <1>2, <1>3 DEF inside, subject, Owning
  <2>3. target[t] \in Threads \cup {SLOT_S}
    BY DEF IInv, TypeOK
  <2>4. who \in Threads \cup {SLOT_S} /\ who \in Int /\ who # SLOT_D
    <3>1. who \in Threads \cup {SLOT_S}
      BY <2>3
    <3>2. \A u \in Threads \cup {SLOT_S} : u \in Int /\ u # SLOT_D
      BY Constants
    <3>. QED  BY <3>1, <3>2
  <2>5. slots \in [SlotIds -> Int]
    <3>1. slots \in [SlotIds -> Threads \cup {SLOT_S, SLOT_D}]
      BY DEF IInv, TypeOK
    <3>2. Threads \cup {SLOT_S, SLOT_D} \subseteq Int
      BY Constants
    <3>. QED  BY <3>1, <3>2
  <2>6. n \in Counts \cup {0, 1}
    BY <1>1, <1>2 DEF IInv, Shape, ShapeOf
  <2>7. /\ Count(slots', who) = n
        /\ \/ \E S \in SUBSET SlotsOf(slots, SLOT_D) :
                S # SlotsOf(slots, SLOT_D) /\ slots' = Given(slots, S, who)
           \/ \E S \in SUBSET SlotsOf(slots, who) : slots' = Given(slots, S, SLOT_D)
    BY <2>1, <2>4, <2>5, SetSlotNumExact
  <2>8. Abstract!Resize(who, n)
    <3>1. inside # {} /\ who \in subject \cup {SLOT_S}
      BY <2>2
    <3>2. Abstract!Cardinality(SlotsOf(slots', who)) = n
      BY <2>7, SameCardinality, Zenon DEF Count
    <3>3. CASE \E S \in SUBSET SlotsOf(slots, SLOT_D) :
                 S # SlotsOf(slots, SLOT_D) /\ slots' = Given(slots, S, who)
      BY <1>2, <1>4, <3>1, <3>2, <3>3
         DEF Abstract!Resize, Abstract!Pass, Abstract!Held, SlotsOf, Given
    <3>4. CASE \E S \in SUBSET SlotsOf(slots, who) : slots' = Given(slots, S, SLOT_D)
      BY <1>2, <1>4, <3>1, <3>2, <3>4
         DEF Abstract!Resize, Abstract!Pass, Abstract!Held, SlotsOf, Given
    <3>. QED  BY <2>7, <3>3, <3>4
  <2>. QED  BY <2>4, <2>6, <2>8 DEF Abstract!Next, Abstract!Users
<1>. QED  BY <1>5, <1>6

(* A change of the high mode bit in a section. *)
LEMMA ModeChanges ==
  ASSUME IInv, NEW t \in Threads, Call(t) \/ Step(t),
         CreateHbit(t) \/ HardenMode(t) \/ SoftenMode(t)
  PROVE  Abstract!Next
<1>1. PICK e \in ModeEdges : ModeStep(t, e[1], e[2])
  BY ModeWrites DEF ModeWrite, IInv
<1>2. /\ pc[t] = e[1] /\ pc'[t] = e[2]
      /\ UNCHANGED <<slots, running, target>>
  BY <1>1 DEF ModeStep, Goto, os, local, IInv, TypeOK
<1>3. /\ e[1] \in Owning /\ e[2] \in Owning
      /\ e[1] \notin SlotCallPcs
  BY Edges DEF Owning, ModeEdges, SlotCallPcs
<1>4. UNCHANGED <<inside, subject>>
  BY <1>2, <1>3, Insiders
<1>5. t \in inside /\ target[t] \in subject /\ target[t] \in Threads
  BY <1>2, <1>3 DEF inside, subject, Owning, IInv, Shape, ShapeOf
<1>6. PICK b \in BOOLEAN : soft' = [soft EXCEPT ![target[t]] = b]
  BY DEF CreateHbit, HardenMode, SoftenMode, SetSoftBit
<1>7. Abstract!SetMode(target[t], b)
  BY <1>2, <1>4, <1>5, <1>6 DEF Abstract!SetMode
<1>. QED  BY <1>5, <1>7 DEF Abstract!Next

(* Who takes slot_mutex enters alone, and whoever releases it leaves. *)
LEMMA EntersAndLeaves ==
  ASSUME HoldersLive, IInv, Exclusion, NEW t \in Threads, Call(t) \/ Step(t),
         Locks(t) \/ Unlocks(t)
  PROVE  Abstract!Next \/ UNCHANGED View
<1>1. /\ inside = {v \in Threads : pc[v] \in Owning}
      /\ inside' = {v \in Threads : pc'[v] \in Owning}
  BY DEF inside, Owning
<1>2. /\ \A v \in Threads : v # NULL /\ (slotOwner = v <=> pc[v] \in Owning)
      /\ slotBit <=> slotOwner # NULL
  BY Constants DEF Exclusion, Owning
<1>3. \A v \in Threads : v # t => pc'[v] = pc[v]
  BY OthersStay
<1>4. CASE Locks(t)
  <2>1. PICK e \in LockEdges : Lock(t, e[1], e[2])
    BY <1>4, LockSteps
  <2>2. /\ e[1] \notin Owning \cup OutsidePcs \cup NewPcs /\ e[2] \in Owning
    BY Edges DEF Owning
  <2>3. pc[t] = e[1] /\ UNCHANGED <<slots, soft, running, target>>
    BY <2>1 DEF Lock, Goto, os, local
  <2>4. CASE slotBit
    <3>1. pc'[t] = pc[t]
      BY <2>1, <2>3, <2>4 DEF Lock, Goto, IInv, TypeOK
    <3>. QED  BY <2>3, <3>1, Insiders DEF View
  <2>5. CASE ~ slotBit
    <3>1. pc'[t] = e[2]
      BY <2>1, <2>5 DEF Lock, Goto, IInv, TypeOK
    <3>2. inside = {}
      BY <1>1, <1>2, <2>5
    <3>3. inside' = {t}
      BY <1>1, <1>3, <2>2, <3>1, <3>2
    <3>4. subject' = {target[t]}
      BY <2>3, <3>3 DEF subject
    <3>5. running /\ target[t] \in Threads \cup {SLOT_S}
      BY <2>2, <2>3 DEF IInv, Shape, TypeOK
    <3>6. Abstract!Enter(t, target[t])
      BY <2>3, <3>2, <3>3, <3>4, <3>5 DEF Abstract!Enter
    <3>. QED  BY <3>5, <3>6 DEF Abstract!Next, Abstract!Users
  <2>. QED  BY <2>4, <2>5
<1>5. CASE Unlocks(t)
  <2>1. PICK e \in UnlockEdges : Unlock(t, e[1], e[2])
    BY <1>5, LockSteps
  <2>2. e[1] \in Owning /\ e[2] \notin Owning
    <3>1. e[1] \in UnlockPcs /\ e[2] \in {"idle", "setPriority", "zombify"}
      BY Edges
    <3>. QED  BY <3>1 DEF Owning, SectionPcs, UnlockPcs
  <2>3. /\ pc[t] = e[1] /\ pc'[t] = e[2] /\ UNCHANGED <<slots, soft, running>>
    BY <2>1 DEF Unlock, Goto, os, IInv, TypeOK
  <2>4. inside' = {}
    BY <1>1, <1>2, <1>3, <2>2, <2>3
  <2>5. subject' = {}
    BY <2>4 DEF subject
  <2>. QED  BY <2>3, <2>4, <2>5 DEF Abstract!Next, Abstract!Leave
<1>. QED  BY <1>4, <1>5

(* The table of osKernelStart: a slot for each hard thread, and one for    *)
(* all soft ones.                                                          *)
LEMMA StartSlotsSingle == IInv => Single(StartSlots)
<1> SUFFICES ASSUME IInv, NEW i \in SlotIds, NEW j \in SlotIds,
                    StartSlots[i] = StartSlots[j], StartSlots[i] # SLOT_D
             PROVE  i = j
  BY DEF Single
<1> DEFINE Created(p) == {u \in Alive \ {0} : priority[u] = p}
           softSlot == LowestSlots(Created(Normal), 1)
           Hard == {0} \cup Created(Realtime)
<1>1. \A k \in SlotIds : StartSlots[k] = IF k \in Hard THEN k
                                        ELSE IF k \in softSlot THEN SLOT_S ELSE SLOT_D
  BY DEF StartSlots
<1>2. /\ Created(Normal) \subseteq Threads /\ Hard \subseteq Threads
      /\ Threads \subseteq SlotIds /\ SLOT_S \notin Threads
  <2>1. 0 \in Threads /\ SLOT_S \notin Threads
    BY Constants
  <2>2. Threads \subseteq SlotIds
    BY ThreadsAssumption, SlotSets DEF Threads, SlotIds
  <2>. QED  BY <2>1, <2>2 DEF Alive
<1>3. \A k, l \in softSlot : k = l
  <2>1. CASE Created(Normal) = {}
    BY <2>1 DEF LowestSlots
  <2>2. CASE Created(Normal) # {}
    <3>1. Created(Normal) \subseteq SlotIds
      BY <1>2
    <3> HIDE DEF Created
    <3>. QED  BY <2>2, <3>1, LowestOne
  <2>. QED  BY <2>1, <2>2
<1> HIDE DEF softSlot, Hard
<1>. QED  BY <1>1, <1>2, <1>3, SlotSets, Constants

(* The start of the kernel. *)
LEMMA Boots ==
  ASSUME IInv, IInv', StartsOnce, NEW t \in Threads, Call(t) \/ Step(t),
         KernelStart(t) \/ StartModes(t) \/ StartRun(t)
  PROVE  Abstract!Next
<1>1. ~ running /\ UNCHANGED target /\ pc[t] \in {"idle"} \cup StartPcs
      /\ pc'[t] \in {"idle"} \cup StartPcs
  BY DEF KernelStart, StartModes, StartRun, Goto, StartsOnce, StartPcs, local, IInv, TypeOK
<1>2. ({"idle"} \cup StartPcs) \cap Owning = {}
  BY DEF StartPcs, Owning, SectionPcs, UnlockPcs
<1>3. UNCHANGED <<inside, subject>>
  BY <1>1, <1>2, Insiders
<1>4. /\ slots' \in [SlotIds -> Threads \cup {SLOT_S, SLOT_D}]
      /\ soft' \in [Threads -> BOOLEAN] /\ running' \in BOOLEAN
  BY DEF IInv, TypeOK
<1>5. slots' = slots \/ Single(slots')
  BY StartSlotsSingle DEF KernelStart, StartModes, StartRun
<1>6. (Threads \cup {SLOT_S}) \cup {SLOT_D} = Threads \cup {SLOT_S, SLOT_D}
  OBVIOUS
<1>7. Abstract!Boot
  BY <1>1, <1>3, <1>4, <1>5, <1>6 DEF Abstract!Boot, Abstract!Single, Abstract!Users, Single
<1>. QED  BY <1>7 DEF Abstract!Next

(* Only thread 0 starts the kernel, and nothing else makes it run. *)
LEMMA StepStarts ==
  ASSUME IInv, StartsOnce, NEW t \in Threads, Call(t) \/ Step(t)
  PROVE  StartsOnce'
<1>1. \A v \in Threads : v # t => pc'[v] = pc[v]
  BY OthersStay
<1>2. CASE /\ running' = running
           /\ pc'[t] \in StartPcs => t = 0 /\ ~ running
  BY <1>1, <1>2 DEF StartsOnce
<1>3. CASE KernelStart(t)
  BY <1>2, <1>3 DEF KernelStart, os
<1>4. CASE StartModes(t)
  <2>1. pc[t] \in StartPcs
    BY <1>4 DEF StartModes, Goto, StartPcs
  <2>. QED  BY <1>2, <1>4, <2>1 DEF StartModes, os, StartsOnce
<1>5. CASE StartRun(t)
  <2>1. pc[t] \in StartPcs /\ pc'[t] \notin StartPcs
    BY <1>5 DEF StartRun, Goto, StartPcs, IInv, TypeOK
  <2>2. t = 0
    BY <2>1 DEF StartsOnce
  <2>. QED  BY <1>1, <2>1, <2>2 DEF StartsOnce
<1>6. CASE Locks(t) \/ Unlocks(t)
  <2>1. running' = running
    BY <1>6, LockSteps DEF Lock, Unlock, os
  <2>2. pc'[t] \notin StartPcs
    <3>1. \A e \in LockEdges : e[1] \notin StartPcs /\ e[2] \notin StartPcs
      BY DEF LockEdges, StartPcs
    <3>2. \A e \in UnlockEdges : e[2] \notin StartPcs
      BY DEF UnlockEdges, StartPcs
    <3>3. DOMAIN pc = Threads
      BY DEF IInv, TypeOK
    <3>4. CASE Locks(t)
      <4>1. PICK e \in LockEdges : Lock(t, e[1], e[2])
        BY <3>4, LockSteps
      <4>2. pc'[t] = e[1] \/ pc'[t] = e[2]
        BY <3>3, <4>1 DEF Lock, Goto
      <4>. QED  BY <3>1, <4>2
    <3>5. CASE Unlocks(t)
      <4>1. PICK e \in UnlockEdges : Unlock(t, e[1], e[2])
        BY <3>5, LockSteps
      <4>2. pc'[t] = e[2]
        BY <3>3, <4>1 DEF Unlock, Goto
      <4>. QED  BY <3>2, <4>2
    <3>. QED  BY <1>6, <3>4, <3>5
  <2>. QED  BY <1>2, <2>1, <2>2
<1>7. CASE SlotWrite(t) \/ ModeWrite(t)
  <2>1. running' = running
    BY <1>7 DEF SlotWrite, SlotStep, ModeWrite, ModeStep, os
  <2>2. pc'[t] \notin StartPcs
    <3>1. \A e \in SlotEdges \cup ModeEdges : e[2] \notin StartPcs
      BY DEF SlotEdges, ModeEdges, StartPcs
    <3>. QED  BY <1>7, <3>1 DEF SlotWrite, SlotStep, ModeWrite, ModeStep, Goto, IInv, TypeOK
  <2>. QED  BY <1>2, <2>1, <2>2
<1>8. CASE Calm(t)
  BY <1>2, <1>8 DEF Calm
<1>9. TypeOK
  BY DEF IInv
<1>. QED  BY <1>3, <1>4, <1>5, <1>6, <1>7, <1>8, <1>9, StepKinds, ModeWrites

(* Under slot_mutex the steps of set_slot_num and of the mode changes, of   *)
(* several threads at once, are the resizings and mode changes that        *)
(* AbstractSlots promises: one thread at a time, in the name of one user,  *)
(* with the number of slots that was asked for, and never the last one.    *)
THEOREM SlotsAsPromised ==
  ASSUME HoldersLive
  PROVE  Spec => ImplementsSlots
<1>1. Init => StartsOnce /\ Abstract!Init
  <2> SUFFICES ASSUME Init
               PROVE  StartsOnce /\ Abstract!Init
    OBVIOUS
  <2>1. StartsOnce
    BY DEF Init, StartsOnce, StartPcs
  <2>2. inside = {} /\ subject = {}
    BY DEF Init, inside, subject, SectionPcs, UnlockPcs
  <2>3. slots \in [SlotIds -> (Threads \cup {SLOT_S}) \cup {SLOT_D}]
    BY Constants DEF Init
  <2>4. Single(slots)
    BY DEF Init, Single
  <2>. QED  BY <2>1, <2>2, <2>3, <2>4 DEF Init, Abstract!Init, Abstract!Single, Abstract!Users, Single
<1>2. IInv /\ StartsOnce /\ [Next]_vars => StartsOnce'
  BY StepStarts DEF Next, StartsOnce, vars
<1>3. IInv /\ IInv' /\ Exclusion /\ StartsOnce /\ [Next]_vars => [Abstract!Next]_View
  <2>1. ASSUME IInv, IInv', Exclusion, StartsOnce, NEW t \in Threads, Call(t) \/ Step(t)
        PROVE  Abstract!Next \/ UNCHANGED View
    <3>1. Calm(t) => UNCHANGED View
      BY <2>1, Insiders DEF Calm, View
    <3>. QED
      BY <2>1, <3>1, StepKinds, Resizes, ModeChanges, EntersAndLeaves, Boots
  <2>2. UNCHANGED vars => UNCHANGED View
    BY DEF vars, View, inside, subject
  <2>. QED  BY <2>1, <2>2 DEF Next
<1>. QED
  BY Invariance, Ownership, <1>1, <1>2, <1>3, PTL DEF Spec, ImplementsSlots, Abstract!Spec, View

=============================================================================
