------------------------------ MODULE FlexMutex ------------------------------
(***************************************************************************)
(* One mutex of FlexPRET OS (flexpret_mutex.c): the control block          *)
(* mutex_state in shared memory, the hardware lock bit in its CSR_MUTEX_n  *)
(* and the hardware threads that call osMutexAcquire, osMutexRelease,      *)
(* osMutexDelete and osMutexSetSpin on it.  Mutexes share nothing, so one  *)
(* is enough.                                                              *)
(*                                                                         *)
(* Hardware threads interleave at every cycle, so each action is one       *)
(* access to shared state: a load, a store, or the atomic csrrw of         *)
(* swap_mutex_csr.  Program counters are named after the access they are   *)
(* about to make.  held is the callers' view: how many acquires returned   *)
(* osOK and were not released.                                             *)
(***************************************************************************)
EXTENDS Integers, FiniteSets

CONSTANTS
  Threads,      (* the hardware threads that call the API                  *)
  NULL,         (* the null owner                                          *)
  MaxNesting,   (* bound: outstanding acquires of one thread               *)
  TimeMod,      (* the clock and every uint32_t count modulo this: 2^32    *)
  TimeInc,      (* by how much the clock goes on: 10 ns a cycle            *)
  WaitPeriod,   (* FLEXPRET_WAIT_PERIOD                                    *)
  Timeouts      (* the time-outs that callers pass                         *)

ASSUME NullAssumption    == NULL \notin Threads
ASSUME BoundsAssumption  == MaxNesting \in Nat \ {0}
ASSUME TimeAssumption    ==
  /\ TimeMod \in Nat \ {0}
  /\ TimeInc \in Nat
  /\ WaitPeriod \in 1..TimeMod - 1
  /\ Timeouts \subseteq 0..TimeMod - 1

VARIABLES
  csr,      (* the lock bit of CSR_MUTEX_n                                 *)
  owner,    (* mutex->owner                                                *)
  count,    (* mutex->count                                                *)
  active,   (* mutex->active # 0                                           *)
  ifSpin,   (* mutex->ifSpin # 0                                           *)
  ifRecursive, (* mutex->ifRecursive # 0: set at creation, never changed   *)
  pc,       (* the next shared access of each thread, "idle" outside calls *)
  time,     (* what get_time() returns                                     *)
  timeout,  (* the argument of the pending acquire, 0 outside one          *)
  clock,    (* a timed wait's register: ctime if it spins, else all_time   *)
  reg,      (* the register that holds mutex->count between load and store *)
  held      (* successful acquires not yet released, per thread            *)

block == <<csr, owner, count, active, ifSpin, ifRecursive>>
args  == <<time, timeout, clock>>
vars  == <<csr, owner, count, active, ifSpin, ifRecursive, pc,
           time, timeout, clock, reg, held>>

Free   == 0          \* FLEXPRET_MUTEX_ACTIVE
Locked == 1          \* FLEXPRET_MUTEX_INACTIVE
osWaitForever == TimeMod - 1  \* 0xFFFFFFFF

AcquirePcs == {"swap", "readOwner", "setOwner", "setCount", "bad", "cmpOwner",
               "incLoad", "incStore", "waitSwap", "waitSpin",
               "readSpin", "spinSwap", "delay", "timedSwap"}
ReleasePcs == {"relOwner", "decLoad", "decStore", "clrOwner", "freeCsr"}

TypeOK ==
  /\ csr \in {Free, Locked}
  /\ owner \in Threads \cup {NULL}
  /\ count \in Int
  /\ active \in BOOLEAN
  /\ ifSpin \in BOOLEAN
  /\ ifRecursive \in BOOLEAN
  /\ pc \in [Threads -> {"idle"} \cup AcquirePcs \cup ReleasePcs]
  /\ time \in 0..TimeMod - 1
  /\ timeout \in [Threads -> Timeouts \cup {0}]
  /\ clock \in [Threads -> 0..TimeMod - 1]
  /\ reg \in [Threads -> Int]
  /\ held \in [Threads -> Nat]

(* osMutexNew *)
Init ==
  /\ csr = Free
  /\ owner = NULL
  /\ count = 0
  /\ active = TRUE
  /\ ifSpin = FALSE
  /\ ifRecursive \in BOOLEAN
  /\ pc = [t \in Threads |-> "idle"]
  /\ time = 0
  /\ timeout = [t \in Threads |-> 0]
  /\ clock = [t \in Threads |-> 0]
  /\ reg = [t \in Threads |-> 0]
  /\ held = [t \in Threads |-> 0]

Goto(t, from, to) ==
  /\ pc[t] = from
  /\ pc' = [pc EXCEPT ![t] = to]

(* The free-running clock. *)
Tick ==
  /\ time' = (time + TimeInc) % TimeMod
  /\ UNCHANGED <<block, pc, timeout, clock, reg, held>>

(* An acquire returns: its argument and its register are dead. *)
Return(t) ==
  /\ timeout' = [timeout EXCEPT ![t] = 0]
  /\ clock' = [clock EXCEPT ![t] = 0]
  /\ UNCHANGED time

(***************************************************************************)
(* osMutexAcquire                                                          *)
(***************************************************************************)

(* A call on a deleted mutex returns osErrorParameter and changes nothing. *)
Acquire(t, ticks) ==
  /\ active
  /\ held[t] < MaxNesting
  /\ Goto(t, "idle", "swap")
  /\ timeout' = [timeout EXCEPT ![t] = ticks]
  /\ UNCHANGED <<block, time, clock, reg, held>>

(* swap_mutex_csr(INACTIVE): one csrrw locks the bit and returns its past. *)
SwapCsr(t, from, won, lost) ==
  /\ Goto(t, from, IF csr = Free THEN won ELSE lost)
  /\ csr' = Locked
  /\ UNCHANGED <<owner, count, active, ifSpin, ifRecursive>>

(* Slip: the bit is read, and not locked by the same access. *)
FirstSwapPlainRead(t) ==
  /\ Goto(t, "swap", IF csr = Free THEN "readOwner" ELSE "cmpOwner")
  /\ UNCHANGED <<block, args, reg, held>>

FirstSwap(t) ==
  /\ SwapCsr(t, "swap", "readOwner", "cmpOwner")
  /\ UNCHANGED <<args, reg, held>>

(* At "bad" the code would free the bit and return osError ("Bad mutex
   status").  NoBadStatus shows that no thread comes there, so no action
   leaves it.                                                              *)
ReadOwner(t) ==
  /\ Goto(t, "readOwner", IF owner = NULL THEN "setOwner" ELSE "bad")
  /\ UNCHANGED <<block, args, reg, held>>

SetOwner(t) ==
  /\ Goto(t, "setOwner", "setCount")
  /\ owner' = t
  /\ UNCHANGED <<csr, count, active, ifSpin, ifRecursive, args, reg, held>>

SetCount(t) ==
  /\ Goto(t, "setCount", "idle")
  /\ count' = 1
  /\ held' = [held EXCEPT ![t] = @ + 1]
  /\ Return(t)
  /\ UNCHANGED <<csr, owner, active, ifSpin, ifRecursive, reg>>

(* The bit was taken: nest, fail with osErrorResource, or start to wait. *)
(* Slip: ifRecursive is not looked at. *)
CmpOwnerAlwaysNests(t) ==
  /\ Goto(t, "cmpOwner",
          IF owner = t THEN "incLoad"
          ELSE IF timeout[t] = 0             THEN "idle"
          ELSE IF timeout[t] = osWaitForever THEN "waitSwap"
          ELSE "readSpin")
  /\ UNCHANGED <<block, args, reg, held>>

CmpOwner(t) ==
  /\ Goto(t, "cmpOwner",
          IF owner = t /\ ifRecursive     THEN "incLoad"
          ELSE IF timeout[t] = 0             THEN "idle"
          ELSE IF timeout[t] = osWaitForever THEN "waitSwap"
          ELSE "readSpin")
  /\ UNCHANGED <<block, args, reg, held>>

IncLoad(t) ==
  /\ Goto(t, "incLoad", "incStore")
  /\ reg' = [reg EXCEPT ![t] = count]
  /\ UNCHANGED <<block, args, held>>

IncStore(t) ==
  /\ Goto(t, "incStore", "idle")
  /\ count' = reg[t] + 1
  /\ held' = [held EXCEPT ![t] = @ + 1]
  /\ Return(t)
  /\ UNCHANGED <<csr, owner, active, ifSpin, ifRecursive, reg>>

WaitSwap(t) ==
  /\ SwapCsr(t, "waitSwap", "setOwner", "waitSpin")
  /\ UNCHANGED <<args, reg, held>>

(* Between two polls of an endless wait: osDelay unless the mutex spins.
   The delay itself touches nothing shared.                               *)
(* Slip: only a spinning mutex polls again. *)
WaitSpinOnce(t) ==
  /\ ifSpin
  /\ Goto(t, "waitSpin", "waitSwap")
  /\ UNCHANGED <<block, args, reg, held>>

WaitSpin(t) ==
  /\ Goto(t, "waitSpin", "waitSwap")
  /\ UNCHANGED <<block, args, reg, held>>

(* A finite wait reads ifSpin once.  A spinning one notes the time, a delayed
   one starts to sum up its delays: both in clock.                         *)
ReadSpin(t) ==
  /\ Goto(t, "readSpin", IF ifSpin THEN "spinSwap" ELSE "delay")
  /\ clock' = [clock EXCEPT ![t] = IF ifSpin THEN time ELSE 0]
  /\ UNCHANGED <<block, time, timeout, reg, held>>

(* One poll of a timed wait: the bit is won, or the wait gives up with
   osErrorTimeout, or it goes on.                                          *)
Poll(t, from, goesOn, next) ==
  /\ SwapCsr(t, from, "setOwner", IF goesOn THEN next ELSE "idle")
  /\ UNCHANGED <<reg, held>>

GivesUp(t, from) == pc[t] = from /\ pc'[t] = "idle"

(* get_time() < timeout + ctime, in 32 bits. *)
SpinSwap(t) ==
  /\ Poll(t, "spinSwap", time < (timeout[t] + clock[t]) % TimeMod, "spinSwap")
  /\ IF GivesUp(t, "spinSwap") THEN Return(t) ELSE UNCHANGED args

(* osDelay(time_period): it ends, and touches nothing shared. *)
Delay(t) ==
  /\ Goto(t, "delay", "timedSwap")
  /\ UNCHANGED <<block, args, reg, held>>

Period(ticks) == IF ticks > WaitPeriod THEN WaitPeriod ELSE ticks

(* all_time += time_period; all_time < timeout, in 32 bits. *)
AllTime(t) == (clock[t] + Period(timeout[t])) % TimeMod

Accumulate(t) ==
  IF GivesUp(t, "timedSwap")
  THEN Return(t)
  ELSE /\ clock' = [clock EXCEPT ![t] = IF csr = Free THEN @ ELSE AllTime(t)]
       /\ UNCHANGED <<time, timeout>>

(* Slip: a wait whose delays add up to exactly its time-out goes on. *)
TimedSwapOneMore(t) ==
  /\ Poll(t, "timedSwap", AllTime(t) <= timeout[t], "delay")
  /\ Accumulate(t)

(* Slip: the last poll comes after the decision to give up. *)
TimedSwapGivesUpLate(t) ==
  /\ SwapCsr(t, "timedSwap", IF AllTime(t) < timeout[t] THEN "setOwner" ELSE "idle",
             IF AllTime(t) < timeout[t] THEN "delay" ELSE "idle")
  /\ Accumulate(t)
  /\ UNCHANGED <<reg, held>>

TimedSwap(t) ==
  /\ Poll(t, "timedSwap", AllTime(t) < timeout[t], "delay")
  /\ Accumulate(t)

(***************************************************************************)
(* osMutexRelease                                                          *)
(***************************************************************************)

(* A call on a deleted mutex returns osErrorParameter and changes nothing. *)
Release(t) ==
  /\ active
  /\ Goto(t, "idle", "relOwner")
  /\ UNCHANGED <<block, args, reg, held>>

(* osErrorResource unless the caller is the owner. *)
RelOwner(t) ==
  /\ Goto(t, "relOwner", IF owner = t THEN "decLoad" ELSE "idle")
  /\ UNCHANGED <<block, args, reg, held>>

DecLoad(t) ==
  /\ Goto(t, "decLoad", "decStore")
  /\ reg' = [reg EXCEPT ![t] = count]
  /\ UNCHANGED <<block, args, held>>

DecStore(t) ==
  /\ Goto(t, "decStore", IF reg[t] = 1 THEN "clrOwner" ELSE "idle")
  /\ count' = reg[t] - 1
  /\ held' = [held EXCEPT ![t] = IF reg[t] = 1 THEN @ ELSE @ - 1]
  /\ UNCHANGED <<csr, owner, active, ifSpin, ifRecursive, args, reg>>

ClearOwner(t) ==
  /\ Goto(t, "clrOwner", "freeCsr")
  /\ owner' = NULL
  /\ UNCHANGED <<csr, count, active, ifSpin, ifRecursive, args, reg, held>>

FreeCsr(t) ==
  /\ Goto(t, "freeCsr", "idle")
  /\ csr' = Free
  /\ held' = [held EXCEPT ![t] = @ - 1]
  /\ UNCHANGED <<owner, count, active, ifSpin, ifRecursive, args, reg>>

(***************************************************************************)
(* osMutexDelete and osMutexSetSpin: each is one check and one store by    *)
(* any thread, in whatever state the mutex is.                             *)
(***************************************************************************)

Delete(t) ==
  /\ active
  /\ pc[t] = "idle"
  /\ active' = FALSE
  /\ UNCHANGED <<csr, owner, count, ifSpin, ifRecursive, pc, args, reg, held>>

SetSpin(t, spin) ==
  /\ active
  /\ pc[t] = "idle"
  /\ ifSpin' = spin
  /\ UNCHANGED <<csr, owner, count, active, ifRecursive, pc, args, reg, held>>

-----------------------------------------------------------------------------

(* The steps inside a call: what a running thread does without its caller. *)
Step(t) ==
  \/ FirstSwap(t) \/ ReadOwner(t) \/ SetOwner(t) \/ SetCount(t)
  \/ CmpOwner(t) \/ IncLoad(t) \/ IncStore(t)
  \/ WaitSwap(t) \/ WaitSpin(t) \/ ReadSpin(t)
  \/ SpinSwap(t) \/ Delay(t) \/ TimedSwap(t)
  \/ RelOwner(t) \/ DecLoad(t) \/ DecStore(t) \/ ClearOwner(t) \/ FreeCsr(t)

Call(t) ==
  \/ \E ticks \in Timeouts : Acquire(t, ticks)
  \/ Release(t)
  \/ Delete(t)
  \/ \E spin \in BOOLEAN : SetSpin(t, spin)

Next == Tick \/ \E t \in Threads : Call(t) \/ Step(t)

Spec == Init /\ [][Next]_vars

(* Every thread inside a call keeps running: a hard thread owns a slot and
   soft threads share theirs round robin (HwScheduler).  Callers owe
   nothing.                                                                *)
FairSpec == Spec /\ \A t \in Threads : WF_vars(Step(t))

-----------------------------------------------------------------------------

(* A thread between a won csrrw and the end of the call that won it. *)
Entering(t) == pc[t] \in {"readOwner", "setOwner", "setCount", "bad"}

(* At most one thread has acquired the mutex and not released it, although
   owner and count are written with the lock bit as the only protection and
   osMutexAcquire and osMutexRelease compare owner without it.             *)
MutualExclusion ==
  \A t, u \in Threads : held[t] > 0 /\ held[u] > 0 => t = u

(* Outside calls, the holder is the recorded owner and count is its nesting
   depth: count++ and count-- are plain load/store pairs that no other
   thread disturbs.                                                        *)
NestingCounted ==
  \A t \in Threads :
    held[t] > 0 /\ pc[t] = "idle" => owner = t /\ count = held[t]

(* The lock bit is set only on behalf of some thread: no path of the two
   functions (time-outs, osErrorResource, nesting) leaves it set behind.   *)
NoLockLeak ==
  csr = Locked => \E t \in Threads : held[t] > 0 \/ Entering(t)

(* The branch "has owner but mutex can be acquired" of osMutexAcquire is
   dead code for threads that only use this API: owner is cleared before
   the bit is freed.                                                       *)
NoBadStatus == \A t \in Threads : pc[t] # "bad"

(* The lock bit is given back only by the release that undoes the holder's
   last nested acquire.                                                    *)
FreedByLastRelease ==
  [][csr = Locked /\ csr' = Free =>
       \E t \in Threads : held[t] = 1 /\ held'[t] = 0]_vars

(* The mutex as its callers see it is the abstract recursive lock. *)
Abstract == INSTANCE AbstractMutex WITH depth <- held
ImplementsAbstract == Abstract!Spec

Waiting(t) == pc[t] \in {"delay", "timedSwap"}

(* The delays of a wait, summed in 32 bits, come to its time-out one day.  Up
   to WaitPeriod the first delay does; above it the sums are the multiples of
   WaitPeriod modulo TimeMod, and those skip the last time-outs.           *)
Expires(ticks) == \E k \in 1..TimeMod : (k * Period(ticks)) % TimeMod >= ticks

(* A release returns, and so does a delayed wait whoever holds the mutex and
   for however long, if its time-out is one that 32-bit sums of the period
   can come to: late, after rounds of the counter, but it does.            *)
BoundedCallsReturn ==
  \A t \in Threads :
    /\ (Waiting(t) /\ Expires(timeout[t])) ~> ~Waiting(t)
    /\ pc[t] \in ReleasePcs ~> pc[t] = "idle"

(* "Acquire a Mutex or timeout if it is locked" (cmsis_os2.h:582): a wait
   with any finite time-out returns.  all_time steps over the time-outs that
   no multiple of the period comes to.                                     *)
FiniteWaitsReturn == \A t \in Threads : Waiting(t) ~> ~Waiting(t)

(* osErrorTimeout is "Operation not completed within the timeout period"
   (cmsis_os2.h:202): a spinning wait gives up only when its time-out has
   passed on the clock since it began.  timeout + ctime wraps.             *)
NoEarlyTimeout ==
  [][\A t \in Threads : GivesUp(t, "spinSwap") =>
       (time - clock[t]) % TimeMod >= timeout[t]]_vars

(* A free mutex with an endless waiter is acquired by someone: the waiter
   may lose every race, but the bit is not left free for ever.             *)
FreeLockIsTaken ==
  (csr = Free /\ \E t \in Threads : pc[t] \in {"waitSwap", "waitSpin"})
    ~> \E t \in Threads : held[t] > 0

(* The inductive invariant behind the five invariants.  A thread possesses
   the lock bit from its winning csrrw to the store that frees it; the bit
   is set exactly while somebody possesses it, nobody shares it, and owner,
   count and the register copies of count are the possessor's alone.       *)
Possesses(t) == held[t] > 0 \/ Entering(t)

BitHasOnePossessor ==
  /\ csr = Locked <=> \E t \in Threads : Possesses(t)
  /\ \A t, u \in Threads : Possesses(t) /\ Possesses(u) => t = u

OwnerIsPossessor ==
  \A t \in Threads :
    owner = t <=> \/ held[t] > 0 /\ pc[t] # "freeCsr"
                 \/ pc[t] = "setCount"

CountIsDepth ==
  \A t \in Threads :
    held[t] > 0 => /\ pc[t] \in {"clrOwner", "freeCsr"} => held[t] = 1
                   /\ pc[t] \notin {"clrOwner", "freeCsr"} => count = held[t]
                   /\ pc[t] \in {"incStore", "decStore"} => reg[t] = count

PcAgreesWithHeld ==
  \A t \in Threads :
    /\ Entering(t) => held[t] = 0
    /\ pc[t] \in {"incLoad", "incStore"} => ifRecursive
    /\ pc[t] \in ReleasePcs \ {"relOwner"} \/ pc[t] \in {"incLoad", "incStore"}
         => held[t] > 0

IInv ==
  /\ TypeOK
  /\ NoBadStatus
  /\ BitHasOnePossessor
  /\ OwnerIsPossessor
  /\ CountIsDepth
  /\ PcAgreesWithHeld

(* What the comment in osMutexDelete asks for (flexpret_mutex.c:194) and the
   code does not do: a held mutex is not deleted.                          *)
DeleteRefusedWhileHeld ==
  [][active /\ ~active' => \A t \in Threads : held[t] = 0]_vars
=============================================================================
