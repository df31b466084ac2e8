----------------------------- MODULE SlotTable -----------------------------
(***************************************************************************)
(* The slot table of the FlexPRET scheduler (CSR slots) as the functions   *)
(* of flexpret_scheduler.c read and rewrite it.  A slot holds a thread id, *)
(* SLOT_S (given to the soft threads in turn) or SLOT_D (skipped).         *)
(***************************************************************************)
EXTENDS Integers, FiniteSets

CONSTANT NSlots  (* FLEXPRET_MAX_HW_THREADS_NUMS, the slots in the table *)

ASSUME NSlotsAssumption == NSlots \in Nat \ {0}

SLOT_S == 14
SLOT_D == 15

SlotIds == 0 .. NSlots - 1

SlotsOf(slots, who) == {i \in SlotIds : slots[i] = who}

Count(slots, who) == Cardinality(SlotsOf(slots, who))

ActiveCount(slots) == Cardinality({i \in SlotIds : slots[i] # SLOT_D})

(* Slip: the loop ends a slot late. *)
LowestSlotsAndOne(A, k) == {i \in A : Cardinality({j \in A : j < i}) <= k}

(* The k smallest members of a set of slots. *)
LowestSlots(A, k) == {i \in A : Cardinality({j \in A : j < i}) < k}

(* Slip: the last disabled slot may be taken. *)
SetSlotNumOkToTheLast(slots, who, n) ==
  \/ n <= Count(slots, who)
  \/ ActiveCount(slots) + n - Count(slots, who) <= NSlots

(* set_slot_num fails only when it has to add slots and would leave none
   disabled.                                                               *)
SetSlotNumOk(slots, who, n) ==
  \/ n <= Count(slots, who)
  \/ ActiveCount(slots) + n - Count(slots, who) <= NSlots - 1

(* The table after set_slot_num(who, n): unchanged on failure, otherwise
   the first disabled slots are taken or the first own slots given up.     *)
SetSlotNum(slots, who, n) ==
  LET have   == Count(slots, who)
      taken  == LowestSlots(SlotsOf(slots, SLOT_D), n - have)
      givenUp == LowestSlots(SlotsOf(slots, who), have - n)
  IN  IF ~ SetSlotNumOk(slots, who, n)
      THEN slots
      ELSE [i \in SlotIds |-> IF i \in taken   THEN who
                              ELSE IF i \in givenUp THEN SLOT_D
                              ELSE slots[i]]

(* Slot i gives cycles to thread t, given the two mode bits of all threads:
   t is not a zombie and owns the slot or, as a soft thread, shares in a
   soft slot or in the slot of a zombie (HwScheduler shows that it does).  *)
Serves(slots, soft, zombie, i, t) ==
  /\ ~ zombie[t]
  /\ \/ slots[i] = t
     \/ soft[t] /\ slots[i] = SLOT_S
     \/ soft[t] /\ slots[i] \in DOMAIN zombie /\ zombie[slots[i]]
=============================================================================
