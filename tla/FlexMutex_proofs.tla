--------------------------- MODULE FlexMutex_proofs ---------------------------
(***************************************************************************)
(* Proofs about FlexMutex for any set of threads, any nesting bound, any   *)
(* clock width, period and time-outs.  IInv is inductive; the safety       *)
(* invariants of the model-checking run follow from it.                    *)
(***************************************************************************)
EXTENDS FlexMutex, TLAPS

(* The mutex that osMutexNew returns satisfies the invariant. *)
LEMMA InitIInv == Init => IInv
  <1> SUFFICES ASSUME Init PROVE IInv
    OBVIOUS
  <1> USE NullAssumption, TimeAssumption
      DEF Init, Free, Locked, Possesses, Entering
  <1>1. TypeOK
    <2>1. 0 \in 0..TimeMod - 1
      OBVIOUS
    <2>2. csr \in {Free, Locked} /\ owner \in Threads \cup {NULL} /\ count \in Int
      OBVIOUS
    <2>3. active \in BOOLEAN /\ ifSpin \in BOOLEAN /\ ifRecursive \in BOOLEAN
      OBVIOUS
    <2>4. /\ pc \in [Threads -> {"idle"} \cup AcquirePcs \cup ReleasePcs]
          /\ reg \in [Threads -> Int]
          /\ held \in [Threads -> Nat]
      OBVIOUS
    <2>5. /\ time \in 0..TimeMod - 1
          /\ timeout \in [Threads -> Timeouts \cup {0}]
          /\ clock \in [Threads -> 0..TimeMod - 1]
      BY <2>1
    <2>6. QED
      BY <2>2, <2>3, <2>4, <2>5 DEF TypeOK
  <1>5. NoBadStatus
    BY DEF NoBadStatus
  <1>2. BitHasOnePossessor /\ OwnerIsPossessor
    BY DEF BitHasOnePossessor, OwnerIsPossessor
  <1>3. CountIsDepth /\ PcAgreesWithHeld
    BY DEF CountIsDepth, PcAgreesWithHeld, ReleasePcs
  <1>4. QED
    BY <1>1, <1>2, <1>3, <1>5 DEF IInv

(* What is counted modulo TimeMod stays below it. *)
LEMMA Wraps ==
  ASSUME NEW x \in Int
  PROVE  x % TimeMod \in 0..TimeMod - 1
  BY TimeAssumption

(* The sum of a wait's delays is kept in 32 bits. *)
LEMMA AllTimeWraps ==
  ASSUME TypeOK, NEW t \in Threads
  PROVE  AllTime(t) \in 0..TimeMod - 1
  <1>1. clock[t] \in Int /\ timeout[t] \in Int
    <2>1. clock[t] \in 0..TimeMod - 1 /\ timeout[t] \in Timeouts \cup {0}
      BY DEF TypeOK
    <2>2. \A x \in Timeouts : x \in Int
      BY TimeAssumption
    <2>3. QED
      BY <2>1, <2>2
  <1>2. Period(timeout[t]) \in Int
    BY <1>1, TimeAssumption DEF Period
  <1>3. clock[t] + Period(timeout[t]) \in Int
    BY <1>1, <1>2
  <1>4. QED
    BY <1>3, Wraps DEF AllTime

(* So is the clock. *)
LEMMA TickWraps ==
  ASSUME TypeOK, Tick
  PROVE  time' \in 0..TimeMod - 1
  <1>1. time + TimeInc \in Int
    BY TimeAssumption DEF TypeOK
  <1>2. QED
    BY <1>1, Wraps DEF Tick

(* Types survive every access of every call. *)
LEMMA TypeStep ==
  ASSUME IInv, [Next]_vars
  PROVE  TypeOK'
  <1> USE DEF IInv, TypeOK, Goto, block, args, Return, AcquirePcs, ReleasePcs, Free, Locked
  <1>1. ASSUME NEW t \in Threads, NEW ticks \in Timeouts, Acquire(t, ticks) PROVE TypeOK'
    BY <1>1 DEF Acquire
  <1>2. ASSUME NEW t \in Threads, Release(t) PROVE TypeOK'
    BY <1>2 DEF Release
  <1>3. ASSUME NEW t \in Threads, Delete(t) PROVE TypeOK'
    BY <1>3 DEF Delete
  <1>4. ASSUME NEW t \in Threads, NEW spin \in BOOLEAN, SetSpin(t, spin) PROVE TypeOK'
    BY <1>4 DEF SetSpin
  <1>5. ASSUME NEW t \in Threads, FirstSwap(t) PROVE TypeOK'
    BY <1>5 DEF FirstSwap, SwapCsr
  <1>6. ASSUME NEW t \in Threads, ReadOwner(t) PROVE TypeOK'
    BY <1>6 DEF ReadOwner
  <1>7. ASSUME NEW t \in Threads, SetOwner(t) PROVE TypeOK'
    BY <1>7 DEF SetOwner
  <1>8. ASSUME NEW t \in Threads, SetCount(t) PROVE TypeOK'
    BY <1>8, TimeAssumption DEF SetCount
  <1>9. ASSUME NEW t \in Threads, CmpOwner(t) PROVE TypeOK'
    BY <1>9 DEF CmpOwner
  <1>10. ASSUME NEW t \in Threads, IncLoad(t) PROVE TypeOK'
    BY <1>10 DEF IncLoad
  <1>11. ASSUME NEW t \in Threads, IncStore(t) PROVE TypeOK'
    BY <1>11, TimeAssumption DEF IncStore
  <1>12. ASSUME NEW t \in Threads, WaitSwap(t) PROVE TypeOK'
    BY <1>12 DEF WaitSwap, SwapCsr
  <1>13. ASSUME NEW t \in Threads, WaitSpin(t) PROVE TypeOK'
    BY <1>13 DEF WaitSpin
  <1>14. ASSUME NEW t \in Threads, ReadSpin(t) PROVE TypeOK'
    BY <1>14, TimeAssumption DEF ReadSpin
  <1>15. ASSUME NEW t \in Threads, Delay(t) PROVE TypeOK'
    BY <1>15 DEF Delay
  <1>16. ASSUME NEW t \in Threads, TimedSwap(t) PROVE TypeOK'
    <2>1. AllTime(t) \in 0..TimeMod - 1
      BY AllTimeWraps
    <2>2. QED
      BY <1>16, <2>1, TimeAssumption DEF TimedSwap, Poll, SwapCsr, Accumulate
  <1>17. ASSUME NEW t \in Threads, RelOwner(t) PROVE TypeOK'
    BY <1>17 DEF RelOwner
  <1>18. ASSUME NEW t \in Threads, DecLoad(t) PROVE TypeOK'
    BY <1>18 DEF DecLoad
  <1>19. ASSUME NEW t \in Threads, DecStore(t) PROVE TypeOK'
    BY <1>19 DEF DecStore, PcAgreesWithHeld
  <1>20. ASSUME NEW t \in Threads, ClearOwner(t) PROVE TypeOK'
    BY <1>20 DEF ClearOwner
  <1>21. ASSUME NEW t \in Threads, FreeCsr(t) PROVE TypeOK'
    BY <1>21 DEF FreeCsr, PcAgreesWithHeld
  <1>22. ASSUME NEW t \in Threads, SpinSwap(t) PROVE TypeOK'
    BY <1>22, TimeAssumption DEF SpinSwap, Poll, SwapCsr
  <1>23. CASE Tick
    BY <1>23, TickWraps DEF Tick
  <1>24. CASE UNCHANGED vars
    BY <1>24 DEF vars
  <1>25. QED
    BY <1>1, <1>2, <1>3, <1>4, <1>5, <1>6, <1>7, <1>8, <1>9, <1>10,
       <1>11, <1>12, <1>13, <1>14, <1>15, <1>16, <1>17, <1>18, <1>19, <1>20,
       <1>21, <1>22, <1>23, <1>24 DEF Next, Call, Step

(* The rest of the invariant survives them too. *)
LEMMA SafetyStep ==
  ASSUME IInv, [Next]_vars
  PROVE  /\ NoBadStatus' /\ BitHasOnePossessor'
         /\ OwnerIsPossessor' /\ CountIsDepth' /\ PcAgreesWithHeld'
  <1> DEFINE Goal == /\ NoBadStatus /\ BitHasOnePossessor
                     /\ OwnerIsPossessor /\ CountIsDepth /\ PcAgreesWithHeld
  <1> USE NullAssumption
      DEF IInv, Goto, block, args, Return, ReleasePcs, Free, Locked,
          NoBadStatus, BitHasOnePossessor, OwnerIsPossessor,
          CountIsDepth, PcAgreesWithHeld, Possesses, Entering
  <1>1. ASSUME NEW t \in Threads, NEW ticks \in Timeouts, Acquire(t, ticks) PROVE Goal'
    BY <1>1 DEF TypeOK, Acquire
  <1>2. ASSUME NEW t \in Threads, Release(t) PROVE Goal'
    BY <1>2 DEF TypeOK, Release
  <1>3. ASSUME NEW t \in Threads, Delete(t) PROVE Goal'
    BY <1>3 DEF TypeOK, Delete
  <1>4. ASSUME NEW t \in Threads, NEW spin \in BOOLEAN, SetSpin(t, spin) PROVE Goal'
    BY <1>4 DEF TypeOK, SetSpin
  <1>5. ASSUME NEW t \in Threads, FirstSwap(t) PROVE Goal'
    BY <1>5 DEF TypeOK, FirstSwap, SwapCsr
  <1>6. ASSUME NEW t \in Threads, ReadOwner(t) PROVE Goal'
    BY <1>6 DEF TypeOK, ReadOwner
  <1>7. ASSUME NEW t \in Threads, SetOwner(t) PROVE Goal'
    BY <1>7 DEF TypeOK, SetOwner
  <1>8. ASSUME NEW t \in Threads, SetCount(t) PROVE Goal'
    BY <1>8 DEF TypeOK, SetCount
  <1>9. ASSUME NEW t \in Threads, CmpOwner(t) PROVE Goal'
    BY <1>9 DEF TypeOK, CmpOwner
  <1>10. ASSUME NEW t \in Threads, IncLoad(t) PROVE Goal'
    BY <1>10 DEF TypeOK, IncLoad
  <1>11. ASSUME NEW t \in Threads, IncStore(t) PROVE Goal'
    BY <1>11 DEF TypeOK, IncStore
  <1>12. ASSUME NEW t \in Threads, WaitSwap(t) PROVE Goal'
    BY <1>12 DEF TypeOK, WaitSwap, SwapCsr
  <1>13. ASSUME NEW t \in Threads, WaitSpin(t) PROVE Goal'
    BY <1>13 DEF TypeOK, WaitSpin
  <1>14. ASSUME NEW t \in Threads, ReadSpin(t) PROVE Goal'
    BY <1>14 DEF TypeOK, ReadSpin
  <1>15. ASSUME NEW t \in Threads, Delay(t) PROVE Goal'
    BY <1>15 DEF TypeOK, Delay
  <1>16. ASSUME NEW t \in Threads, TimedSwap(t) PROVE Goal'
    BY <1>16 DEF TypeOK, TimedSwap, Poll, SwapCsr, Accumulate
  <1>17. ASSUME NEW t \in Threads, RelOwner(t) PROVE Goal'
    BY <1>17 DEF TypeOK, RelOwner
  <1>18. ASSUME NEW t \in Threads, DecLoad(t) PROVE Goal'
    BY <1>18 DEF TypeOK, DecLoad
  <1>19. ASSUME NEW t \in Threads, DecStore(t) PROVE Goal'
    BY <1>19 DEF TypeOK, DecStore
  <1>20. ASSUME NEW t \in Threads, ClearOwner(t) PROVE Goal'
    BY <1>20 DEF TypeOK, ClearOwner
  <1>21. ASSUME NEW t \in Threads, FreeCsr(t) PROVE Goal'
    BY <1>21 DEF TypeOK, FreeCsr
  <1>22. ASSUME NEW t \in Threads, SpinSwap(t) PROVE Goal'
    BY <1>22 DEF TypeOK, SpinSwap, Poll, SwapCsr
  <1>23. CASE Tick
    BY <1>23 DEF TypeOK, Tick
  <1>24. CASE UNCHANGED vars
    BY <1>24 DEF vars
  <1>25. QED
    BY <1>1, <1>2, <1>3, <1>4, <1>5, <1>6, <1>7, <1>8, <1>9, <1>10,
       <1>11, <1>12, <1>13, <1>14, <1>15, <1>16, <1>17, <1>18, <1>19, <1>20,
       <1>21, <1>22, <1>23, <1>24 DEF Next, Call, Step

(* The invariant holds throughout every run of the mutex. *)
THEOREM Invariance == Spec => []IInv
  <1>1. IInv /\ [Next]_vars => IInv'
    BY TypeStep, SafetyStep DEF IInv
  <1>2. QED
    BY InitIInv, <1>1, PTL DEF Spec

(* Types are kept: count, the register copies and held stay integers of
   their range although they are decremented without a test.              *)
THEOREM TypeCorrectness == Spec => []TypeOK
  <1>1. IInv => TypeOK
    BY DEF IInv
  <1>2. QED
    BY Invariance, <1>1, PTL

(* Two threads never both hold the mutex: the csrrw alone decides, and the
   unprotected reads of owner never let a second thread in.                *)
THEOREM Exclusion == Spec => []MutualExclusion
  <1>1. IInv => MutualExclusion
    BY DEF IInv, BitHasOnePossessor, MutualExclusion, Possesses
  <1>2. QED
    BY Invariance, <1>1, PTL

(* The plain load/store count++ and count-- keep the exact nesting depth. *)
THEOREM Nesting == Spec => []NestingCounted
  <1>1. IInv => NestingCounted
    BY DEF IInv, OwnerIsPossessor, CountIsDepth, NestingCounted
  <1>2. QED
    BY Invariance, <1>1, PTL

(* Time-outs, osErrorResource and nesting never leave the bit set. *)
THEOREM NoLeak == Spec => []NoLockLeak
  <1>1. IInv => NoLockLeak
    BY DEF IInv, BitHasOnePossessor, NoLockLeak, Possesses
  <1>2. QED
    BY Invariance, <1>1, PTL

(* The "Bad mutex status" branch of osMutexAcquire is unreachable. *)
THEOREM BadStatusIsDead == Spec => []NoBadStatus
  <1>1. IInv => NoBadStatus
    BY DEF IInv
  <1>2. QED
    BY Invariance, <1>1, PTL

(* Only FreeCsr, the last step of the last nested release, frees the bit. *)
LEMMA FreeingStep ==
  ASSUME IInv, [Next]_vars, csr = Locked, csr' = Free
  PROVE  \E t \in Threads : held[t] = 1 /\ held'[t] = 0
  <1> USE DEF Free, Locked
  <1>1. PICK t \in Threads : FreeCsr(t)
    BY DEF Next, vars, Call, Step, block, SwapCsr, Tick, Poll, SpinSwap, Acquire, Release, Delete,
           SetSpin, FirstSwap, ReadOwner, SetOwner, SetCount, CmpOwner, IncLoad,
           IncStore, WaitSwap, WaitSpin, ReadSpin, Delay, TimedSwap, RelOwner,
           DecLoad, DecStore, ClearOwner
  <1>2. held[t] = 1
    BY <1>1 DEF FreeCsr, Goto, IInv, CountIsDepth, PcAgreesWithHeld,
                ReleasePcs
  <1>3. held'[t] = 0
    BY <1>1, <1>2 DEF FreeCsr, IInv, TypeOK
  <1>4. QED
    BY <1>2, <1>3

(* The bit is given back by the last nested release and by nothing else. *)
THEOREM FreeingIsRelease == Spec => FreedByLastRelease
  <1>1. IInv /\ [Next]_vars =>
          [csr = Locked /\ csr' = Free =>
             \E t \in Threads : held[t] = 1 /\ held'[t] = 0]_vars
    BY FreeingStep
  <1>2. QED
    BY Invariance, <1>1, PTL DEF Spec, FreedByLastRelease

(* A step that changes held completes a successful acquire or release. *)
LEMMA HeldStep ==
  ASSUME IInv, [Next]_vars
  PROVE  [Abstract!Next]_<<held, ifRecursive>>
  <1> USE DEF Goto, block, Return
  <1>1. ASSUME NEW t \in Threads, SetCount(t) PROVE Abstract!Acquired(t)
    BY <1>1 DEF SetCount, Abstract!Acquired, IInv, TypeOK, BitHasOnePossessor,
                Possesses, Entering, PcAgreesWithHeld
  <1>2. ASSUME NEW t \in Threads, IncStore(t) PROVE Abstract!Acquired(t)
    BY <1>2 DEF IncStore, Abstract!Acquired, IInv, TypeOK, BitHasOnePossessor,
                Possesses, PcAgreesWithHeld
  <1>3. ASSUME NEW t \in Threads, DecStore(t)
        PROVE  Abstract!Released(t) \/ UNCHANGED <<held, ifRecursive>>
    BY <1>3 DEF DecStore, Abstract!Released, IInv, TypeOK, PcAgreesWithHeld,
                ReleasePcs
  <1>4. ASSUME NEW t \in Threads, FreeCsr(t) PROVE Abstract!Released(t)
    BY <1>4 DEF FreeCsr, Abstract!Released, IInv, PcAgreesWithHeld, ReleasePcs
  <1>5. ASSUME NEW t \in Threads,
               Call(t) \/ Step(t),
               ~ (SetCount(t) \/ IncStore(t) \/ DecStore(t) \/ FreeCsr(t))
        PROVE  UNCHANGED <<held, ifRecursive>>
    BY <1>5 DEF Call, Step, SwapCsr, Poll, SpinSwap, Acquire, Release, Delete, SetSpin,
                FirstSwap, ReadOwner, SetOwner, CmpOwner, IncLoad,
                WaitSwap, WaitSpin, ReadSpin, Delay, TimedSwap, RelOwner,
                DecLoad, ClearOwner
  <1>6. CASE UNCHANGED vars
    BY <1>6 DEF vars
  <1>7. ASSUME Tick PROVE UNCHANGED <<held, ifRecursive>>
    BY <1>7 DEF Tick
  <1>8. QED
    BY <1>1, <1>2, <1>3, <1>4, <1>5, <1>6, <1>7 DEF Next, Abstract!Next

(* The mutex implements the abstract recursive lock: seen by its callers,
   acquires and releases are atomic, exclusive and nest only if the mutex
   is recursive.                                                           *)
THEOREM Refinement == Spec => ImplementsAbstract
  <1>1. Init => Abstract!Init
    BY DEF Init, Abstract!Init
  <1>2. IInv /\ [Next]_vars => [Abstract!Next]_<<held, ifRecursive>>
    BY HeldStep
  <1>3. QED
    BY Invariance, <1>1, <1>2, PTL DEF Spec, ImplementsAbstract, Abstract!Spec
=============================================================================
