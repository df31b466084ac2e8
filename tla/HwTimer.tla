------------------------------ MODULE HwTimer ------------------------------
(***************************************************************************)
(* Timers, sleep and interrupts of the hardware threads: the CSR unit      *)
(* (csr.scala) together with the trap, DU/WU and IE/EE logic of the        *)
(* execute stage (control.scala).                                          *)
(*                                                                         *)
(* A step is one clock cycle.  In it one thread is in the execute stage,   *)
(* with a bubble, an instruction that commits or one that traps; every     *)
(* comparator and every interrupt line acts in the same cycle.  Where two  *)
(* of them assign one register, the later line of csr.scala wins.          *)
(* WU is not listed beside DU: it names OP2_4 as its operand, for which    *)
(* datapath.scala has no case, so it branches to itself as DU does.        *)
(*                                                                         *)
(* The program is any sequence of the instructions in Ops.  A trap handler *)
(* does not delay, and the two instructions that leave it (csrrsi and jalr *)
(* of trap.S) are one step.  Time counts modulo TimeMod, which is 2^32 in  *)
(* the code.                                                               *)
(*                                                                         *)
(* due, suspended, asked and credit serve the properties: the distance to  *)
(* the compare time without wrap-around (-Half: long ago, or never set),   *)
(* who was put to sleep by a write to tmodes, the last soft bit written,   *)
(* and the timer interrupts armed and not yet taken.                       *)
(***************************************************************************)
EXTENDS Integers

CONSTANTS
  Threads,  (* the hardware threads                                        *)
  First,    (* the thread that runs after reset                            *)
  TimeMod,  (* time is counted modulo this power of two                    *)
  TimeInc,  (* conf.timeInc, the time of a cycle                           *)
  Offsets,  (* software sets compare this far from the current time        *)
  Ops,      (* the instructions that programs use                          *)
  Wired     (* threads whose external interrupt line is connected          *)

Half == TimeMod \div 2

ASSUME TimerAssumption ==
  /\ First \in Threads
  /\ TimeMod \in Nat /\ TimeMod = 2 * Half
  /\ TimeInc \in 1 .. Half
  /\ Offsets \subseteq TimeInc - Half .. Half - 1
  /\ Wired \subseteq Threads

(* Kinds of comparison in reg_timer. *)
TimerModes == {"OFF", "DU_WU", "IE", "EE"}

VARIABLES
  time,       (* reg_time, the bits that are compared                      *)
  compare,    (* reg_compare of each thread                                *)
  timer,      (* reg_timer                                                 *)
  soft,       (* high bits of reg_tmodes                                   *)
  zombie,     (* low bits of reg_tmodes                                    *)
  ie,         (* reg_ie: interrupts enabled                                *)
  mtie,       (* reg_mtie: a timer interrupt is pending                    *)
  msip,       (* reg_msip: an external interrupt is pending                *)
  int_exts,   (* the external interrupt lines that are high                *)
  waiting,    (* the program rests on a DU that has not expired            *)
  handler,    (* the thread is in its trap handler                         *)
  due, suspended, asked, credit

ghosts == <<due, suspended, asked, credit>>
vars   == <<time, compare, timer, soft, zombie, ie, mtie, msip, int_exts,
            waiting, handler, ghosts>>

(* conf.initialTmodes: the first thread runs, the others are zombies. *)
Init ==
  /\ time = 0
  /\ compare \in [Threads -> 0 .. TimeMod - 1]
  /\ timer = [t \in Threads |-> "OFF"]
  /\ soft = [t \in Threads |-> FALSE]
  /\ zombie = [t \in Threads |-> t # First]
  /\ ie = [t \in Threads |-> FALSE]
  /\ mtie = [t \in Threads |-> FALSE]
  /\ msip = [t \in Threads |-> FALSE]
  /\ int_exts = {}
  /\ waiting = [t \in Threads |-> FALSE]
  /\ handler = [t \in Threads |-> FALSE]
  /\ due = [t \in Threads |-> - Half]
  /\ suspended = [t \in Threads |-> t # First]
  /\ asked = soft
  /\ credit = [t \in Threads |-> 0]

-----------------------------------------------------------------------------
(***************************************************************************)
(* What the comparators and the interrupt lines see in a cycle             *)
(***************************************************************************)

(* The top bit of time - compare is 0. *)
Expired(t) == (time - compare[t]) % TimeMod < Half

(* Slip: the timer is compared strictly. *)
AlarmAfter(t) == timer[t] = "DU_WU" /\ Expired(t) /\ time # compare[t]

(* The timer wakes a thread that sleeps in DU or WU. *)
Alarm(t) == timer[t] = "DU_WU" /\ Expired(t)

Wakes == {t \in Threads : Alarm(t)} \cup int_exts

(* A valid instruction of t meets the expired comparison. *)
Captured(t)  == timer[t] = "IE" /\ Expired(t)
ExcExpire(t) == timer[t] = "EE" /\ Expired(t)

IntExpire(t) == ie[t] /\ (mtie[t] \/ Captured(t))
IntExt(t)    == ie[t] /\ msip[t]

Interrupted(t) == ExcExpire(t) \/ IntExpire(t) \/ IntExt(t)

(* Slip: status reads the pending timer interrupt where it is written. *)
StatusBitsAligned(t) ==
  {b \in {3, 4, 26} : CASE b = 3 -> msip[t] [] b = 4 -> ie[t] [] b = 26 -> mtie[t]}

(* The bits of status that software reads as 1. *)
StatusBits(t) ==
  {b \in {3, 4, 30} : CASE b = 3 -> msip[t] [] b = 4 -> ie[t] [] b = 30 -> mtie[t]}

-----------------------------------------------------------------------------
(***************************************************************************)
(* What happens in every cycle, over what the execute stage of thread t    *)
(* wrote: timer modes tim, soft bits sft, zombie bits zmb, pending bits    *)
(* mti and msi.  The threads in rearmed executed IE or EE, which override  *)
(* an alarm; those in fired met their expired comparison.                  *)
(***************************************************************************)

(* A wake-up overrides every write to the mode of its thread. *)
Modes(sft, zmb) ==
  /\ zombie' = [u \in Threads |-> zmb[u] /\ u \notin Wakes]
  /\ soft' = [u \in Threads |-> IF u \in Wakes THEN soft[u] ELSE sft[u]]

Timers(tim, rearmed, fired) ==
  timer' = [u \in Threads |->
              IF u \in fired \/ (u \notin rearmed /\ Alarm(u)) THEN "OFF" ELSE tim[u]]

Pending(t, mti, msi, fired) ==
  /\ mtie' = [u \in Threads |-> mti[u] \/ (u \in fired /\ Captured(u))]
  /\ msip' = [u \in Threads |-> msi[u] \/ (u = t /\ int_exts # {})]

Clock ==
  /\ time' = (time + TimeInc) % TimeMod
  /\ int_exts' \in SUBSET Wired

(* due moves with the clock and stops at -Half. *)
Passed(d) == IF d - TimeInc < - Half THEN - Half ELSE d - TimeInc
DuePasses == due' = [u \in Threads |-> Passed(due[u])]

(* The comparisons that a valid instruction of t ends. *)
Fired(t) == {u \in {t} : Captured(u) \/ ExcExpire(u)}

-----------------------------------------------------------------------------
(***************************************************************************)
(* The execute stage.  An instruction of t commits only when nothing       *)
(* interrupts it; a program that rests on a DU executes nothing else.      *)
(***************************************************************************)

Executes(t, op) ==
  /\ op \in Ops
  /\ ~ zombie[t]
  /\ ~ Interrupted(t)
  /\ waiting[t] /\ ~ handler[t] => op = "du"
  /\ Clock

(* No valid instruction, but t is the thread of the stage. *)
Bubble(t) ==
  /\ Clock
  /\ Modes(soft, zombie)
  /\ Timers(timer, {}, {})
  /\ Pending(t, mtie, msip, {})
  /\ DuePasses
  /\ UNCHANGED <<compare, ie, waiting, handler, suspended, asked, credit>>

Other(t) ==
  /\ Executes(t, "other")
  /\ Modes(soft, zombie)
  /\ Timers(timer, {}, Fired(t))
  /\ Pending(t, mtie, msip, Fired(t))
  /\ DuePasses
  /\ UNCHANGED <<compare, ie, waiting, handler, suspended, asked, credit>>

(* set_compare: also disables what was armed. *)
SetCompare(t, d) ==
  /\ Executes(t, "compare")
  /\ compare' = [compare EXCEPT ![t] = (time + d) % TimeMod]
  /\ due' = [u \in Threads |-> IF u = t THEN d - TimeInc ELSE Passed(due[u])]
  /\ credit' = [credit EXCEPT ![t] = 0]
  /\ Timers([timer EXCEPT ![t] = "OFF"], {}, Fired(t))
  /\ Modes(soft, zombie)
  /\ Pending(t, mtie, msip, Fired(t))
  /\ UNCHANGED <<ie, waiting, handler, suspended, asked>>

(* Slip: the thread sleeps and its timer mode is not set. *)
SleepUnarmed(t) ==
  /\ Executes(t, "du") /\ ~ handler[t] /\ ~ Expired(t)
  /\ waiting' = [waiting EXCEPT ![t] = TRUE]
  /\ Timers(timer, {}, {})
  /\ Modes(soft, [zombie EXCEPT ![t] = TRUE])
  /\ suspended' = [suspended EXCEPT ![t] = FALSE]
  /\ Pending(t, mtie, msip, {})
  /\ DuePasses
  /\ UNCHANGED <<compare, ie, handler, asked, credit>>

(* DU finds the compare time in the future: sleep, at the address of DU.   *)
Sleep(t) ==
  /\ Executes(t, "du") /\ ~ handler[t] /\ ~ Expired(t)
  /\ waiting' = [waiting EXCEPT ![t] = TRUE]
  /\ Timers([timer EXCEPT ![t] = "DU_WU"], {}, {})
  /\ Modes(soft, [zombie EXCEPT ![t] = TRUE])
  /\ suspended' = [suspended EXCEPT ![t] = FALSE]
  /\ Pending(t, mtie, msip, {})
  /\ DuePasses
  /\ UNCHANGED <<compare, ie, handler, asked, credit>>

(* Slip: a program that was woken goes on behind the DU. *)
DelayOverWhenWoken(t) ==
  /\ Executes(t, "du") /\ ~ handler[t] /\ (Expired(t) \/ timer[t] = "DU_WU")
  /\ waiting' = [waiting EXCEPT ![t] = FALSE]
  /\ Modes(soft, zombie)
  /\ Timers(timer, {}, Fired(t))
  /\ Pending(t, mtie, msip, Fired(t))
  /\ DuePasses
  /\ UNCHANGED <<compare, ie, handler, suspended, asked, credit>>

DelayOver(t) ==
  /\ Executes(t, "du") /\ ~ handler[t] /\ Expired(t)
  /\ waiting' = [waiting EXCEPT ![t] = FALSE]
  /\ Modes(soft, zombie)
  /\ Timers(timer, {}, Fired(t))
  /\ Pending(t, mtie, msip, Fired(t))
  /\ DuePasses
  /\ UNCHANGED <<compare, ie, handler, suspended, asked, credit>>

(* interrupt_expire and exception_expire. *)
Arm(t, op, mode) ==
  /\ Executes(t, op)
  /\ Timers([timer EXCEPT ![t] = mode], {t}, Fired(t))
  /\ credit' = [credit EXCEPT ![t] = IF mode = "IE" THEN 1 ELSE 0]
  /\ Modes(soft, zombie)
  /\ Pending(t, mtie, msip, Fired(t))
  /\ DuePasses
  /\ UNCHANGED <<compare, ie, waiting, handler, suspended, asked>>

(* Another thread, or t itself, is suspended or resumed by csrrs and csrrc *)
(* on tmodes.                                                              *)
WriteZombie(t, u, z) ==
  /\ Executes(t, "zombie")
  /\ Modes(soft, [zombie EXCEPT ![u] = z])
  /\ suspended' = [suspended EXCEPT ![u] = z]
  /\ Timers(timer, {}, Fired(t))
  /\ Pending(t, mtie, msip, Fired(t))
  /\ DuePasses
  /\ UNCHANGED <<compare, ie, waiting, handler, asked, credit>>

WriteSoft(t, u, s) ==
  /\ Executes(t, "soft")
  /\ Modes([soft EXCEPT ![u] = s], zombie)
  /\ asked' = [asked EXCEPT ![u] = s]
  /\ Timers(timer, {}, Fired(t))
  /\ Pending(t, mtie, msip, Fired(t))
  /\ DuePasses
  /\ UNCHANGED <<compare, ie, waiting, handler, suspended, credit>>

(* A read-modify-write of status by csrrsi or csrrci: the word read, with  *)
(* the bits on set and the bits off cleared, is written whole.             *)
WriteStatus(t, on, off) ==
  LET written == (StatusBits(t) \cup on) \ off
  IN  /\ ie' = [ie EXCEPT ![t] = 4 \in written]
      /\ Pending(t, [mtie EXCEPT ![t] = 26 \in written],
                 [msip EXCEPT ![t] = 3 \in written], Fired(t))
      /\ Modes(soft, zombie)
      /\ Timers(timer, {}, Fired(t))
      /\ DuePasses
      /\ UNCHANGED <<compare, waiting, suspended, asked, credit>>

EnableInterrupts(t) ==
  /\ Executes(t, "enable") /\ ~ handler[t]
  /\ WriteStatus(t, {4}, {})
  /\ UNCHANGED handler

DisableInterrupts(t) ==
  /\ Executes(t, "disable")
  /\ WriteStatus(t, {}, {4})
  /\ UNCHANGED handler

(* A handler of external interrupts clears msip. *)
Acknowledge(t) ==
  /\ Executes(t, "ack") /\ handler[t]
  /\ WriteStatus(t, {}, {3})
  /\ UNCHANGED handler

(* trap_ret: interrupts are enabled and the program goes on. *)
TrapReturn(t) ==
  /\ Executes(t, "return") /\ handler[t]
  /\ WriteStatus(t, {4}, {})
  /\ handler' = [handler EXCEPT ![t] = FALSE]

(* The instruction of t is killed and its handler runs next: the cause is  *)
(* a fault of the instruction, else EE, else IE, else the interrupt line.  *)
(* reg_ie is a register for every thread, and all of them are cleared.     *)
Trap(t, fault) ==
  /\ ~ zombie[t]
  /\ IF fault THEN "fault" \in Ops /\ ~ (waiting[t] /\ ~ handler[t]) ELSE Interrupted(t)
  /\ handler' = [handler EXCEPT ![t] = TRUE]
  /\ ie' = [u \in Threads |-> FALSE]
  /\ credit' = [credit EXCEPT ![t] =
                  IF ~ fault /\ ~ ExcExpire(t) /\ IntExpire(t) THEN @ - 1 ELSE @]
  /\ Clock
  /\ Modes(soft, zombie)
  /\ Timers(timer, {}, Fired(t))
  /\ Pending(t, mtie, msip, Fired(t))
  /\ DuePasses
  /\ UNCHANGED <<compare, waiting, suspended, asked>>

Next ==
  \E t \in Threads :
    \/ Bubble(t)
    \/ Other(t)
    \/ \E d \in Offsets : SetCompare(t, d)
    \/ Sleep(t)
    \/ DelayOver(t)
    \/ Arm(t, "ie", "IE")
    \/ Arm(t, "ee", "EE")
    \/ \E u \in Threads, b \in BOOLEAN : WriteZombie(t, u, b) \/ WriteSoft(t, u, b)
    \/ EnableInterrupts(t)
    \/ DisableInterrupts(t)
    \/ Acknowledge(t)
    \/ TrapReturn(t)
    \/ \E fault \in BOOLEAN : Trap(t, fault)

Spec == Init /\ [][Next]_vars

(* The clock runs. *)
FairSpec == Spec /\ WF_vars(Next)

-----------------------------------------------------------------------------
(***************************************************************************)
(* Properties                                                              *)
(***************************************************************************)

(* Every register of the CSR unit keeps its width. *)
TypeOK ==
  /\ time \in 0 .. TimeMod - 1
  /\ compare \in [Threads -> 0 .. TimeMod - 1]
  /\ timer \in [Threads -> TimerModes]
  /\ soft \in [Threads -> BOOLEAN] /\ zombie \in [Threads -> BOOLEAN]
  /\ ie \in [Threads -> BOOLEAN]
  /\ mtie \in [Threads -> BOOLEAN] /\ msip \in [Threads -> BOOLEAN]
  /\ int_exts \subseteq Wired
  /\ waiting \in [Threads -> BOOLEAN] /\ handler \in [Threads -> BOOLEAN]
  /\ due \in [Threads -> - Half .. Half - 1]
  /\ suspended \in [Threads -> BOOLEAN] /\ asked \in [Threads -> BOOLEAN]
  /\ credit \in [Threads -> Int]

(* A delay is never cut short: whatever wakes the thread (its timer, an    *)
(* interrupt line, osThreadResume) and whatever handler runs meanwhile, a  *)
(* program leaves its DU only at the compare time or later.                *)
NeverEarly ==
  [][\A t \in Threads :
       waiting[t] /\ ~ waiting'[t] => due[t] <= 0]_vars

(* No wake-up is lost and none is late: a thread that is asleep though     *)
(* nobody suspended it has its timer armed, and its compare time passed    *)
(* less than a cycle ago (or had passed long before it went to sleep).     *)
WakesOnTime ==
  \A t \in Threads : zombie[t] /\ ~ suspended[t] =>
    /\ timer[t] = "DU_WU"
    /\ due[t] > - TimeInc \/ due[t] = - Half

(* A timer interrupt is taken at most once for every interrupt_expire, and *)
(* not at all after a set_compare that was to disable it.                  *)
NoStaleInterrupt == \A t \in Threads : credit[t] >= 0

(* A sleeping thread is woken. *)
SleepersWake ==
  \A t \in Threads : zombie[t] /\ ~ suspended[t] ~> ~ zombie[t] \/ suspended[t]

(* csr.scala says that the timer modifies a mode never in the cycle of a   *)
(* CSR write, so that a soft bit written stays as it was written.          *)
ModeWritesKept == soft = asked

(* cmsis_os2.h says that osThreadSuspend suspends a thread.                *)
SuspendedSleeps == \A t \in Threads : suspended[t] => zombie[t]

(* An interrupt that was armed stays armed or pending until it is taken or *)
(* disabled.                                                               *)
ArmedIsKept ==
  \A t \in Threads : credit[t] > 0 => timer[t] = "IE" \/ mtie[t]

(* A trap of one thread does not touch the interrupts of another.          *)
TrapsAreLocal ==
  [][\A t, u \in Threads :
       t # u /\ handler'[t] /\ ~ handler[t] => ie'[u] = ie[u]]_vars

(* An external interrupt is recorded for the thread of its line.           *)
LinesAreRecorded ==
  [][\A t \in int_exts : msip'[t]]_vars
=============================================================================
