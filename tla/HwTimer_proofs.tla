--------------------------- MODULE HwTimer_proofs ---------------------------
(***************************************************************************)
(* Proofs about HwTimer for any number of threads, any width of the clock, *)
(* any program and any wiring: no delay is cut short, no wake-up is lost   *)
(* or late, and every timer interrupt was asked for.                       *)
(***************************************************************************)
EXTENDS HwTimer, TLAPS

-----------------------------------------------------------------------------
(***************************************************************************)
(* The inductive invariant, for one thread                                 *)
(***************************************************************************)

(* due is the distance of the compare register from the clock, unless the  *)
(* compare time is long ago.                                               *)
Linked(t) == due[t] = - Half \/ compare[t] = (time + due[t]) % TimeMod

(* A thread that put itself to sleep has its timer armed, and its time has *)
(* not come before this cycle.                                             *)
OnTime(t) ==
  zombie[t] /\ ~ suspended[t] =>
    /\ timer[t] = "DU_WU"
    /\ due[t] > - TimeInc \/ due[t] = - Half

(* An interrupt that can be taken has its interrupt_expire, and no second  *)
(* one is armed while it waits.                                            *)
Asked(t) ==
  /\ credit[t] \in {0, 1}
  /\ timer[t] = "IE" => credit[t] = 1
  /\ ie[t] /\ mtie[t] => credit[t] = 1 /\ timer[t] # "IE"

IInv == TypeOK /\ \A t \in Threads : Linked(t) /\ OnTime(t) /\ Asked(t)

(* The cycle of the thread in the execute stage. *)
CycleOf(t) ==
  \/ Bubble(t)
  \/ Other(t)
  \/ \E d \in Offsets : SetCompare(t, d)
  \/ Sleep(t)
  \/ DelayOver(t)
  \/ Arm(t, "ie", "IE")
  \/ Arm(t, "ee", "EE")
  \/ \E u \in Threads, b \in BOOLEAN : WriteZombie(t, u, b) \/ WriteSoft(t, u, b)
  \/ EnableInterrupts(t)
  \/ DisableInterrupts(t)
  \/ Acknowledge(t)
  \/ TrapReturn(t)
  \/ \E fault \in BOOLEAN : Trap(t, fault)

(* Next is a cycle of some thread. *)
LEMMA NextIsACycle == Next <=> \E t \in Threads : CycleOf(t)
  BY DEF Next, CycleOf

-----------------------------------------------------------------------------
(***************************************************************************)
(* The clock                                                               *)
(***************************************************************************)

(* The constants are numbers, in this order. *)
LEMMA Numbers ==
  /\ TimeMod \in Nat /\ Half \in Nat /\ TimeMod = 2 * Half /\ Half >= 1
  /\ TimeInc \in Nat /\ TimeInc >= 1 /\ TimeInc <= Half
  /\ \A d \in Offsets : d \in Int /\ TimeInc - Half <= d /\ d < Half
  <1>1. Half \in Int
    BY TimerAssumption DEF Half
  <1>2. QED
    BY <1>1, TimerAssumption

(* What the subtraction and the addition of 32 bits do. *)
Wrap(x) == IF x < 0 THEN x + TimeMod ELSE IF x < TimeMod THEN x ELSE x - TimeMod

LEMMA Wraps ==
  ASSUME NEW x \in Int, - TimeMod <= x, x < 2 * TimeMod
  PROVE  x % TimeMod = Wrap(x) /\ Wrap(x) \in 0 .. TimeMod - 1
  <1>1. TimeMod \in Nat /\ TimeMod > 0
    BY Numbers
  <1>2. CASE x < 0
    BY <1>1, <1>2 DEF Wrap
  <1>3. CASE 0 <= x /\ x < TimeMod
    BY <1>1, <1>3 DEF Wrap
  <1>4. CASE TimeMod <= x
    BY <1>1, <1>4 DEF Wrap
  <1>5. QED
    BY <1>1, <1>2, <1>3, <1>4

(* The comparison of the hardware, which looks at one bit of a difference, *)
(* tells the past from the future.                                         *)
LEMMA ExpiredMeansDue ==
  ASSUME NEW t \in Threads, time \in 0 .. TimeMod - 1, due[t] \in - Half .. Half - 1,
         Linked(t), due[t] # - Half
  PROVE  Expired(t) <=> due[t] <= 0
  <1>1. time + due[t] \in Int /\ - TimeMod <= time + due[t] /\ time + due[t] < 2 * TimeMod
    BY Numbers
  <1>2. compare[t] = Wrap(time + due[t]) /\ compare[t] \in 0 .. TimeMod - 1
    BY <1>1, Wraps DEF Linked
  <1>3. time - compare[t] \in Int /\ - TimeMod <= time - compare[t] /\ time - compare[t] < 2 * TimeMod
    BY <1>2, Numbers
  <1>4. (time - compare[t]) % TimeMod = Wrap(time - compare[t])
    BY <1>3, Wraps
  <1>5. CASE due[t] <= 0
    <2>1. Wrap(time - compare[t]) = - due[t] /\ - due[t] < Half
      BY <1>2, <1>3, <1>5, Numbers DEF Wrap
    <2>2. QED
      BY <1>4, <1>5, <2>1 DEF Expired
  <1>6. CASE due[t] > 0
    <2>1. Wrap(time - compare[t]) = TimeMod - due[t] /\ ~ (TimeMod - due[t] < Half)
      BY <1>2, <1>3, <1>6, Numbers DEF Wrap
    <2>2. ~ (due[t] <= 0)
      BY <1>6, Numbers
    <2>3. QED
      BY <1>4, <2>1, <2>2 DEF Expired
  <1>7. QED
    BY <1>5, <1>6, Numbers

(* The clock in the next cycle is that much ahead of any time. *)
LEMMA ClockWraps ==
  ASSUME time \in 0 .. TimeMod - 1, Clock,
         NEW d \in Int, TimeInc - Half <= d, d < Half
  PROVE  /\ time' \in 0 .. TimeMod - 1
         /\ (time' + (d - TimeInc)) % TimeMod = (time + d) % TimeMod
         /\ (time + d) % TimeMod \in 0 .. TimeMod - 1
  <1>1. time + TimeInc \in Int /\ - TimeMod <= time + TimeInc /\ time + TimeInc < 2 * TimeMod
    BY Numbers
  <1>2. time' = Wrap(time + TimeInc) /\ time' \in 0 .. TimeMod - 1
    BY <1>1, Wraps DEF Clock
  <1>3. /\ time + d \in Int /\ - TimeMod <= time + d /\ time + d < 2 * TimeMod
        /\ time' + (d - TimeInc) \in Int /\ - TimeMod <= time' + (d - TimeInc)
        /\ time' + (d - TimeInc) < 2 * TimeMod
    BY <1>2, Numbers
  <1>4. /\ (time + d) % TimeMod = Wrap(time + d) /\ Wrap(time + d) \in 0 .. TimeMod - 1
        /\ (time' + (d - TimeInc)) % TimeMod = Wrap(time' + (d - TimeInc))
    BY <1>3, Wraps
  <1>5. Wrap(time' + (d - TimeInc)) = Wrap(time + d)
    BY <1>2, <1>3, Numbers DEF Wrap
  <1>6. QED
    BY <1>2, <1>4, <1>5

(* The distance is right in the next cycle too, *)
LEMMA PassingKeepsLinked ==
  ASSUME NEW t \in Threads, time \in 0 .. TimeMod - 1, due[t] \in - Half .. Half - 1,
         Linked(t), Clock, compare'[t] = compare[t], due'[t] = Passed(due[t])
  PROVE  due'[t] \in - Half .. Half - 1 /\ Linked(t)'
  <1>1. due'[t] \in - Half .. Half - 1
    BY Numbers DEF Passed
  <1>2. CASE due'[t] = - Half
    BY <1>1, <1>2 DEF Linked
  <1>3. CASE due'[t] # - Half
    <2>1. /\ due'[t] = due[t] - TimeInc /\ due[t] # - Half
          /\ due[t] \in Int /\ TimeInc - Half <= due[t] /\ due[t] < Half
      BY <1>3, Numbers DEF Passed
    <2>2. compare[t] = (time + due[t]) % TimeMod
      BY <2>1 DEF Linked
    <2>3. (time' + due'[t]) % TimeMod = (time + due[t]) % TimeMod
      BY <2>1, ClockWraps
    <2>4. QED
      BY <1>1, <2>2, <2>3 DEF Linked
  <1>4. QED
    BY <1>2, <1>3

(* and so it is when software has set the compare register. *)
LEMMA SettingKeepsLinked ==
  ASSUME NEW t \in Threads, time \in 0 .. TimeMod - 1, Clock, NEW d \in Offsets,
         compare'[t] = (time + d) % TimeMod, due'[t] = d - TimeInc
  PROVE  /\ compare'[t] \in 0 .. TimeMod - 1
         /\ due'[t] \in - Half .. Half - 1 /\ Linked(t)'
  <1>1. d \in Int /\ TimeInc - Half <= d /\ d < Half
    BY Numbers
  <1>2. due'[t] \in - Half .. Half - 1
    BY <1>1, Numbers
  <1>3. compare'[t] \in 0 .. TimeMod - 1 /\ (time' + due'[t]) % TimeMod = compare'[t]
    BY <1>1, ClockWraps
  <1>4. QED
    BY <1>2, <1>3 DEF Linked

-----------------------------------------------------------------------------
(***************************************************************************)
(* What a cycle does to the registers of one thread                        *)
(***************************************************************************)

(* The clock moves on, and the distance with it or by a set_compare. *)
LEMMA CycleTime ==
  ASSUME TypeOK, NEW t \in Threads, CycleOf(t), NEW v \in Threads
  PROVE  /\ Clock
         /\ \/ compare'[v] = compare[v] /\ due'[v] = Passed(due[v])
            \/ \E d \in Offsets : /\ compare'[v] = (time + d) % TimeMod
                                  /\ due'[v] = d - TimeInc
  <1>0. DOMAIN compare = Threads
    BY DEF TypeOK
  <1> DEFINE Goal == /\ Clock
                     /\ \/ compare'[v] = compare[v] /\ due'[v] = Passed(due[v])
                        \/ \E d \in Offsets : /\ compare'[v] = (time + d) % TimeMod
                                              /\ due'[v] = d - TimeInc
  <1> USE <1>0 DEF DuePasses, Executes
  <1>1. CASE Bubble(t)
    BY <1>1 DEF Bubble
  <1>2. CASE Other(t)
    BY <1>2 DEF Other
  <1>3. ASSUME NEW d \in Offsets, SetCompare(t, d)
        PROVE  Goal
    BY <1>3 DEF SetCompare
  <1>4. CASE Sleep(t)
    BY <1>4 DEF Sleep
  <1>5. CASE DelayOver(t)
    BY <1>5 DEF DelayOver
  <1>6. CASE Arm(t, "ie", "IE")
    BY <1>6 DEF Arm
  <1>7. CASE Arm(t, "ee", "EE")
    BY <1>7 DEF Arm
  <1>8. ASSUME NEW u \in Threads, NEW b \in BOOLEAN, WriteZombie(t, u, b)
        PROVE  Goal
    BY <1>8 DEF WriteZombie
  <1>9. ASSUME NEW u \in Threads, NEW b \in BOOLEAN, WriteSoft(t, u, b)
        PROVE  Goal
    BY <1>9 DEF WriteSoft
  <1>10. CASE EnableInterrupts(t)
    BY <1>10 DEF EnableInterrupts, WriteStatus
  <1>11. CASE DisableInterrupts(t)
    BY <1>11 DEF DisableInterrupts, WriteStatus
  <1>12. CASE Acknowledge(t)
    BY <1>12 DEF Acknowledge, WriteStatus
  <1>13. CASE TrapReturn(t)
    BY <1>13 DEF TrapReturn, WriteStatus
  <1>14. ASSUME NEW fault \in BOOLEAN, Trap(t, fault)
        PROVE  Goal
    BY <1>14 DEF Trap
  <1> HIDE <1>0 DEF DuePasses, Executes
  <1>15. QED
    BY <1>1, <1>2, <1>3, <1>4, <1>5, <1>6, <1>7, <1>8, <1>9, <1>10, <1>11, <1>12, <1>13, <1>14
       DEF CycleOf

(* A thread that is asleep after the cycle went to sleep in it, with its   *)
(* compare time in the future, or slept on and was not woken.              *)
LEMMA CycleSleep ==
  ASSUME TypeOK, NEW t \in Threads, CycleOf(t), NEW v \in Threads,
         zombie'[v], ~ suspended'[v]
  PROVE  /\ due'[v] = Passed(due[v])
         /\ \/ ~ Expired(v) /\ timer'[v] = "DU_WU"
            \/ zombie[v] /\ ~ suspended[v] /\ (timer[v] = "DU_WU" => ~ Expired(v) /\ timer'[v] = "DU_WU")
  <1>0. /\ DOMAIN compare = Threads /\ DOMAIN timer = Threads /\ DOMAIN zombie = Threads
        /\ DOMAIN suspended = Threads
    BY DEF TypeOK
  <1> DEFINE Goal == /\ due'[v] = Passed(due[v])
                     /\ \/ ~ Expired(v) /\ timer'[v] = "DU_WU"
                        \/ zombie[v] /\ ~ suspended[v] /\ (timer[v] = "DU_WU" => ~ Expired(v) /\ timer'[v] = "DU_WU")
  <1> USE <1>0 DEF DuePasses, Executes, Modes, Timers, Fired, Wakes, Alarm, Captured, ExcExpire
  <1>1. CASE Bubble(t)
    BY <1>1 DEF Bubble
  <1>2. CASE Other(t)
    BY <1>2 DEF Other
  <1>3. ASSUME NEW d \in Offsets, SetCompare(t, d)
        PROVE  Goal
    BY <1>3 DEF SetCompare
  <1>4. CASE Sleep(t)
    BY <1>4 DEF Sleep
  <1>5. CASE DelayOver(t)
    BY <1>5 DEF DelayOver
  <1>6. CASE Arm(t, "ie", "IE")
    BY <1>6 DEF Arm
  <1>7. CASE Arm(t, "ee", "EE")
    BY <1>7 DEF Arm
  <1>8. ASSUME NEW u \in Threads, NEW b \in BOOLEAN, WriteZombie(t, u, b)
        PROVE  Goal
    BY <1>8 DEF WriteZombie
  <1>9. ASSUME NEW u \in Threads, NEW b \in BOOLEAN, WriteSoft(t, u, b)
        PROVE  Goal
    BY <1>9 DEF WriteSoft
  <1>10. CASE EnableInterrupts(t)
    BY <1>10 DEF EnableInterrupts, WriteStatus
  <1>11. CASE DisableInterrupts(t)
    BY <1>11 DEF DisableInterrupts, WriteStatus
  <1>12. CASE Acknowledge(t)
    BY <1>12 DEF Acknowledge, WriteStatus
  <1>13. CASE TrapReturn(t)
    BY <1>13 DEF TrapReturn, WriteStatus
  <1>14. ASSUME NEW fault \in BOOLEAN, Trap(t, fault)
        PROVE  Goal
    BY <1>14 DEF Trap
  <1> HIDE <1>0 DEF DuePasses, Executes, Modes, Timers, Fired, Wakes, Alarm, Captured, ExcExpire
  <1>15. QED
    BY <1>1, <1>2, <1>3, <1>4, <1>5, <1>6, <1>7, <1>8, <1>9, <1>10, <1>11, <1>12, <1>13, <1>14
       DEF CycleOf

(* status shows a pending timer interrupt in bit 30 and takes it from bit  *)
(* 26, so that a write that enables interrupts clears it, unless the       *)
(* comparison is captured in that very cycle.                              *)
LEMMA StatusDropsPending ==
  ASSUME NEW t \in Threads, DOMAIN mtie = Threads,
         NEW on \in SUBSET {4}, NEW off, WriteStatus(t, on, off)
  PROVE  mtie'[t] => Captured(t)
  <1> DEFINE written == (StatusBits(t) \cup on) \ off
  <1>1. 26 \notin written
    BY DEF StatusBits
  <1>2. Pending(t, [mtie EXCEPT ![t] = 26 \in written],
                [msip EXCEPT ![t] = 3 \in written], Fired(t))
    BY DEF WriteStatus
  <1> HIDE DEF written
  <1>3. mtie'[t] => [mtie EXCEPT ![t] = 26 \in written][t] \/ (t \in Fired(t) /\ Captured(t))
    BY <1>2 DEF Pending
  <1>4. QED
    BY <1>1, <1>3

(* The timer interrupts that can be taken stay those that were asked for.  *)
LEMMA CycleAsked ==
  ASSUME TypeOK, NEW t \in Threads, CycleOf(t), NEW v \in Threads, Asked(v)
  PROVE  Asked(v)'
  <1>0. /\ DOMAIN timer = Threads /\ DOMAIN ie = Threads /\ DOMAIN mtie = Threads
        /\ DOMAIN credit = Threads
    BY DEF TypeOK
  <1> USE <1>0 DEF Asked, Executes, Timers, Pending, Fired, Captured, ExcExpire, Interrupted,
        IntExpire
  <1>1. CASE Bubble(t)
    BY <1>1 DEF Bubble
  <1>2. CASE Other(t)
    BY <1>2 DEF Other
  <1>3. ASSUME NEW d \in Offsets, SetCompare(t, d)
        PROVE  Asked(v)'
    BY <1>3 DEF SetCompare
  <1>4. CASE Sleep(t)
    BY <1>4 DEF Sleep
  <1>5. CASE DelayOver(t)
    BY <1>5 DEF DelayOver
  <1>6. CASE Arm(t, "ie", "IE")
    BY <1>6 DEF Arm
  <1>7. CASE Arm(t, "ee", "EE")
    BY <1>7 DEF Arm
  <1>8. ASSUME NEW u \in Threads, NEW b \in BOOLEAN, WriteZombie(t, u, b)
        PROVE  Asked(v)'
    BY <1>8 DEF WriteZombie
  <1>9. ASSUME NEW u \in Threads, NEW b \in BOOLEAN, WriteSoft(t, u, b)
        PROVE  Asked(v)'
    BY <1>9 DEF WriteSoft
  <1>10. CASE EnableInterrupts(t)
    <2>1. WriteStatus(t, {4}, {})
      BY <1>10 DEF EnableInterrupts
    <2>2. CASE v = t
      <3>1. mtie'[t] => Captured(t)
        BY <2>1, StatusDropsPending
      <3>2. credit' = credit /\ (timer'[t] = "IE" => timer[t] = "IE" /\ ~ Captured(t))
        BY <2>1 DEF WriteStatus
      <3>3. QED
        BY <2>2, <3>1, <3>2
    <2>3. CASE v # t
      BY <2>1, <2>3 DEF WriteStatus
    <2>4. QED
      BY <2>2, <2>3
  <1>11. CASE DisableInterrupts(t)
    BY <1>11 DEF DisableInterrupts, WriteStatus
  <1>12. CASE Acknowledge(t)
    <2>1. WriteStatus(t, {}, {3})
      BY <1>12 DEF Acknowledge
    <2>2. CASE v = t
      <3>1. mtie'[t] => Captured(t)
        BY <2>1, StatusDropsPending
      <3>2. credit' = credit /\ (timer'[t] = "IE" => timer[t] = "IE" /\ ~ Captured(t))
        BY <2>1 DEF WriteStatus
      <3>3. QED
        BY <2>2, <3>1, <3>2
    <2>3. CASE v # t
      BY <2>1, <2>3 DEF WriteStatus
    <2>4. QED
      BY <2>2, <2>3
  <1>13. CASE TrapReturn(t)
    <2>1. WriteStatus(t, {4}, {})
      BY <1>13 DEF TrapReturn
    <2>2. CASE v = t
      <3>1. mtie'[t] => Captured(t)
        BY <2>1, StatusDropsPending
      <3>2. credit' = credit /\ (timer'[t] = "IE" => timer[t] = "IE" /\ ~ Captured(t))
        BY <2>1 DEF WriteStatus
      <3>3. QED
        BY <2>2, <3>1, <3>2
    <2>3. CASE v # t
      BY <2>1, <2>3 DEF WriteStatus
    <2>4. QED
      BY <2>2, <2>3
  <1>14. ASSUME NEW fault \in BOOLEAN, Trap(t, fault)
        PROVE  Asked(v)'
    BY <1>14 DEF Trap
  <1> HIDE <1>0 DEF Asked, Executes, Timers, Pending, Fired, Captured, ExcExpire, Interrupted,
        IntExpire
  <1>15. QED
    BY <1>1, <1>2, <1>3, <1>4, <1>5, <1>6, <1>7, <1>8, <1>9, <1>10, <1>11, <1>12, <1>13, <1>14
       DEF CycleOf

(* Only a DU that finds its compare time expired lets the program go on.   *)
LEMMA CycleWaiting ==
  ASSUME TypeOK, NEW t \in Threads, CycleOf(t), NEW v \in Threads, waiting[v], ~ waiting'[v]
  PROVE  Expired(v)
  <1>0. DOMAIN waiting = Threads
    BY DEF TypeOK
  <1> USE <1>0
  <1>1. CASE Bubble(t)
    BY <1>1 DEF Bubble
  <1>2. CASE Other(t)
    BY <1>2 DEF Other
  <1>3. ASSUME NEW d \in Offsets, SetCompare(t, d)
        PROVE  Expired(v)
    BY <1>3 DEF SetCompare
  <1>4. CASE Sleep(t)
    BY <1>4 DEF Sleep
  <1>5. CASE DelayOver(t)
    BY <1>5 DEF DelayOver
  <1>6. CASE Arm(t, "ie", "IE")
    BY <1>6 DEF Arm
  <1>7. CASE Arm(t, "ee", "EE")
    BY <1>7 DEF Arm
  <1>8. ASSUME NEW u \in Threads, NEW b \in BOOLEAN, WriteZombie(t, u, b)
        PROVE  Expired(v)
    BY <1>8 DEF WriteZombie
  <1>9. ASSUME NEW u \in Threads, NEW b \in BOOLEAN, WriteSoft(t, u, b)
        PROVE  Expired(v)
    BY <1>9 DEF WriteSoft
  <1>10. CASE EnableInterrupts(t)
    BY <1>10 DEF EnableInterrupts, WriteStatus
  <1>11. CASE DisableInterrupts(t)
    BY <1>11 DEF DisableInterrupts, WriteStatus
  <1>12. CASE Acknowledge(t)
    BY <1>12 DEF Acknowledge, WriteStatus
  <1>13. CASE TrapReturn(t)
    BY <1>13 DEF TrapReturn, WriteStatus
  <1>14. ASSUME NEW fault \in BOOLEAN, Trap(t, fault)
        PROVE  Expired(v)
    BY <1>14 DEF Trap
  <1> HIDE <1>0
  <1>15. QED
    BY <1>1, <1>2, <1>3, <1>4, <1>5, <1>6, <1>7, <1>8, <1>9, <1>10, <1>11, <1>12, <1>13, <1>14
       DEF CycleOf

(* Every register stays one register for each thread. *)
LEMMA CycleVectors ==
  ASSUME TypeOK, NEW t \in Threads, CycleOf(t)
  PROVE  /\ compare' = [v \in Threads |-> compare'[v]]
         /\ due' = [v \in Threads |-> due'[v]]
         /\ credit' = [v \in Threads |-> credit'[v]]
  <1> DEFINE Vectors == /\ compare' = [v \in Threads |-> compare'[v]]
                        /\ due' = [v \in Threads |-> due'[v]]
                        /\ credit' = [v \in Threads |-> credit'[v]]
  <1>0. /\ compare = [v \in Threads |-> compare[v]]
        /\ credit = [v \in Threads |-> credit[v]]
    BY DEF TypeOK
  <1> USE <1>0 DEF DuePasses
  <1>1. CASE Bubble(t)
    BY <1>1 DEF Bubble
  <1>2. CASE Other(t)
    BY <1>2 DEF Other
  <1>3. ASSUME NEW d \in Offsets, SetCompare(t, d)
        PROVE  Vectors
    BY <1>3 DEF SetCompare
  <1>4. CASE Sleep(t)
    BY <1>4 DEF Sleep
  <1>5. CASE DelayOver(t)
    BY <1>5 DEF DelayOver
  <1>6. CASE Arm(t, "ie", "IE")
    BY <1>6 DEF Arm
  <1>7. CASE Arm(t, "ee", "EE")
    BY <1>7 DEF Arm
  <1>8. ASSUME NEW u \in Threads, NEW b \in BOOLEAN, WriteZombie(t, u, b)
        PROVE  Vectors
    BY <1>8 DEF WriteZombie
  <1>9. ASSUME NEW u \in Threads, NEW b \in BOOLEAN, WriteSoft(t, u, b)
        PROVE  Vectors
    BY <1>9 DEF WriteSoft
  <1>10. CASE EnableInterrupts(t)
    BY <1>10 DEF EnableInterrupts, WriteStatus
  <1>11. CASE DisableInterrupts(t)
    BY <1>11 DEF DisableInterrupts, WriteStatus
  <1>12. CASE Acknowledge(t)
    BY <1>12 DEF Acknowledge, WriteStatus
  <1>13. CASE TrapReturn(t)
    BY <1>13 DEF TrapReturn, WriteStatus
  <1>14. ASSUME NEW fault \in BOOLEAN, Trap(t, fault)
        PROVE  Vectors
    BY <1>14 DEF Trap
  <1> HIDE <1>0 DEF DuePasses
  <1>15. QED
    BY <1>1, <1>2, <1>3, <1>4, <1>5, <1>6, <1>7, <1>8, <1>9, <1>10, <1>11, <1>12, <1>13, <1>14
       DEF CycleOf

(* The registers of one bit, or with a few values, keep them. *)
LEMMA CycleBits ==
  ASSUME TypeOK, NEW t \in Threads, CycleOf(t)
  PROVE  /\ timer' \in [Threads -> TimerModes]
         /\ soft' \in [Threads -> BOOLEAN] /\ zombie' \in [Threads -> BOOLEAN]
         /\ ie' \in [Threads -> BOOLEAN]
         /\ mtie' \in [Threads -> BOOLEAN] /\ msip' \in [Threads -> BOOLEAN]
         /\ waiting' \in [Threads -> BOOLEAN] /\ handler' \in [Threads -> BOOLEAN]
         /\ suspended' \in [Threads -> BOOLEAN] /\ asked' \in [Threads -> BOOLEAN]
  <1> DEFINE Bits ==
        /\ timer' \in [Threads -> TimerModes]
        /\ soft' \in [Threads -> BOOLEAN] /\ zombie' \in [Threads -> BOOLEAN]
        /\ ie' \in [Threads -> BOOLEAN]
        /\ mtie' \in [Threads -> BOOLEAN] /\ msip' \in [Threads -> BOOLEAN]
        /\ waiting' \in [Threads -> BOOLEAN] /\ handler' \in [Threads -> BOOLEAN]
        /\ suspended' \in [Threads -> BOOLEAN] /\ asked' \in [Threads -> BOOLEAN]
  <1>0. /\ timer \in [Threads -> TimerModes]
        /\ soft \in [Threads -> BOOLEAN] /\ zombie \in [Threads -> BOOLEAN]
        /\ ie \in [Threads -> BOOLEAN]
        /\ mtie \in [Threads -> BOOLEAN] /\ msip \in [Threads -> BOOLEAN]
        /\ waiting \in [Threads -> BOOLEAN] /\ handler \in [Threads -> BOOLEAN]
        /\ suspended \in [Threads -> BOOLEAN] /\ asked \in [Threads -> BOOLEAN]
    BY DEF TypeOK
  <1> USE <1>0 DEF Modes, Timers, Pending, TimerModes
  <1>1. CASE Bubble(t)
    BY <1>1 DEF Bubble
  <1>2. CASE Other(t)
    BY <1>2 DEF Other
  <1>3. ASSUME NEW d \in Offsets, SetCompare(t, d)
        PROVE  Bits
    BY <1>3 DEF SetCompare
  <1>4. CASE Sleep(t)
    BY <1>4 DEF Sleep
  <1>5. CASE DelayOver(t)
    BY <1>5 DEF DelayOver
  <1>6. CASE Arm(t, "ie", "IE")
    BY <1>6 DEF Arm
  <1>7. CASE Arm(t, "ee", "EE")
    BY <1>7 DEF Arm
  <1>8. ASSUME NEW u \in Threads, NEW b \in BOOLEAN, WriteZombie(t, u, b)
        PROVE  Bits
    BY <1>8 DEF WriteZombie
  <1>9. ASSUME NEW u \in Threads, NEW b \in BOOLEAN, WriteSoft(t, u, b)
        PROVE  Bits
    BY <1>9 DEF WriteSoft
  <1>10. CASE EnableInterrupts(t)
    BY <1>10 DEF EnableInterrupts, WriteStatus
  <1>11. CASE DisableInterrupts(t)
    BY <1>11 DEF DisableInterrupts, WriteStatus
  <1>12. CASE Acknowledge(t)
    BY <1>12 DEF Acknowledge, WriteStatus
  <1>13. CASE TrapReturn(t)
    BY <1>13 DEF TrapReturn, WriteStatus
  <1>14. ASSUME NEW fault \in BOOLEAN, Trap(t, fault)
        PROVE  Bits
    BY <1>14 DEF Trap
  <1> HIDE <1>0 DEF Modes, Timers, Pending, TimerModes
  <1>15. QED
    BY <1>1, <1>2, <1>3, <1>4, <1>5, <1>6, <1>7, <1>8, <1>9, <1>10, <1>11, <1>12, <1>13, <1>14
       DEF CycleOf

(* The types are kept. *)
LEMMA CycleTypes ==
  ASSUME TypeOK, NEW t \in Threads, CycleOf(t),
         \A v \in Threads : Linked(v) /\ Asked(v)'
  PROVE  TypeOK'
  <1>1. /\ time \in 0 .. TimeMod - 1
         /\ \A v \in Threads : due[v] \in - Half .. Half - 1 /\ compare[v] \in 0 .. TimeMod - 1
    BY DEF TypeOK
  <1>2. Clock
    BY CycleTime
  <1>3. time' \in 0 .. TimeMod - 1 /\ int_exts' \subseteq Wired
    <2>1. 0 \in Int /\ TimeInc - Half <= 0 /\ 0 < Half
      BY Numbers
    <2>2. time' \in 0 .. TimeMod - 1
      BY <1>1, <1>2, <2>1, ClockWraps
    <2>3. QED
      BY <1>2, <2>2 DEF Clock
  <1>4. ASSUME NEW v \in Threads
         PROVE  compare'[v] \in 0 .. TimeMod - 1 /\ due'[v] \in - Half .. Half - 1
    BY <1>1, <1>2, CycleTime, PassingKeepsLinked, SettingKeepsLinked
  <1>5. ASSUME NEW v \in Threads
         PROVE  credit'[v] \in Int
    BY DEF Asked
  <1>6. QED
    BY <1>3, <1>4, <1>5, CycleVectors, CycleBits DEF TypeOK

-----------------------------------------------------------------------------
(***************************************************************************)
(* Theorems                                                                *)
(***************************************************************************)

(* After reset every thread but the first is suspended, and nothing is     *)
(* armed.                                                                  *)
LEMMA InitIInv == Init => IInv
  <1> SUFFICES ASSUME Init PROVE IInv
    OBVIOUS
  <1>1. TypeOK
    <2>1. 0 \in 0 .. TimeMod - 1 /\ - Half \in - Half .. Half - 1 /\ 0 \in Int
      BY Numbers
    <2>2. QED
      BY <2>1 DEF Init, TypeOK, TimerModes
  <1>2. ASSUME NEW t \in Threads
        PROVE  Linked(t) /\ OnTime(t) /\ Asked(t)
    BY DEF Init, Linked, OnTime, Asked
  <1>3. QED
    BY <1>1, <1>2 DEF IInv

(* A cycle keeps the invariant. *)
LEMMA CycleIInv ==
  ASSUME IInv, NEW t \in Threads, CycleOf(t)
  PROVE  IInv'
  <1>0. TypeOK /\ \A v \in Threads : Linked(v) /\ OnTime(v) /\ Asked(v)
    BY DEF IInv
  <1>1. ASSUME NEW v \in Threads
        PROVE  Asked(v)'
    BY <1>0, CycleAsked
  <1>2. TypeOK'
    BY <1>0, <1>1, CycleTypes
  <1>3. time \in 0 .. TimeMod - 1 /\ \A v \in Threads : due[v] \in - Half .. Half - 1
    BY <1>0 DEF TypeOK
  <1>4. ASSUME NEW v \in Threads
        PROVE  Linked(v)'
    BY <1>0, <1>3, CycleTime, PassingKeepsLinked, SettingKeepsLinked
  <1>5. ASSUME NEW v \in Threads
        PROVE  OnTime(v)'
    <2> SUFFICES ASSUME zombie'[v], ~ suspended'[v]
                 PROVE  timer'[v] = "DU_WU" /\ (due'[v] > - TimeInc \/ due'[v] = - Half)
      BY DEF OnTime
    <2>1. due'[v] = Passed(due[v]) /\ ~ Expired(v) /\ timer'[v] = "DU_WU"
      BY <1>0, CycleSleep DEF OnTime
    <2>2. due[v] > 0 \/ due[v] = - Half
      BY <1>0, <1>3, <2>1, Numbers, ExpiredMeansDue
    <2>3. due'[v] > - TimeInc \/ due'[v] = - Half
      BY <1>3, <2>1, <2>2, Numbers DEF Passed
    <2>4. QED
      BY <2>1, <2>3
  <1>6. QED
    BY <1>1, <1>2, <1>4, <1>5 DEF IInv

(* A step that changes nothing keeps it too. *)
LEMMA StutterIInv ==
  ASSUME IInv, UNCHANGED vars
  PROVE  IInv'
  <1>1. TypeOK'
    BY DEF IInv, TypeOK, vars, ghosts
  <1>2. ASSUME NEW t \in Threads
        PROVE  (Linked(t) /\ OnTime(t) /\ Asked(t))'
    BY DEF IInv, Linked, OnTime, Asked, vars, ghosts
  <1>3. QED
    BY <1>1, <1>2 DEF IInv

(* IInv is an invariant. *)
THEOREM Invariance == Spec => []IInv
  <1>1. IInv /\ [Next]_vars => IInv'
    BY NextIsACycle, CycleIInv, StutterIInv
  <1>2. QED
    BY <1>1, InitIInv, PTL DEF Spec

(* The registers of the CSR unit keep their widths. *)
THEOREM TypeCorrectness == Spec => []TypeOK
  <1>1. IInv => TypeOK
    BY DEF IInv
  <1>2. QED
    BY <1>1, Invariance, PTL

(* No wake-up of a sleeping thread is lost, and none is late. *)
THEOREM WakingOnTime == Spec => []WakesOnTime
  <1>1. IInv => WakesOnTime
    BY DEF IInv, OnTime, WakesOnTime
  <1>2. QED
    BY <1>1, Invariance, PTL

(* Every timer interrupt that is taken was asked for, and once. *)
THEOREM InterruptsAreAsked == Spec => []NoStaleInterrupt
  <1>1. IInv => NoStaleInterrupt
    <2> SUFFICES ASSUME IInv, NEW t \in Threads
                 PROVE  credit[t] >= 0
      BY DEF NoStaleInterrupt
    <2>1. credit[t] \in {0, 1}
      BY DEF IInv, Asked
    <2>2. QED
      BY <2>1
  <1>2. QED
    BY <1>1, Invariance, PTL

(* A delay is over at its compare time or later: an action property.       *)
THEOREM DelaysAreNotCut == Spec => NeverEarly
  <1> DEFINE Delays == \A t \in Threads : waiting[t] /\ ~ waiting'[t] => due[t] <= 0
  <1>1. IInv /\ [Next]_vars => [Delays]_vars
    <2> SUFFICES ASSUME IInv, NEW t \in Threads, CycleOf(t),
                        NEW v \in Threads, waiting[v], ~ waiting'[v]
                 PROVE  due[v] <= 0
      BY NextIsACycle
    <2>1. TypeOK /\ Linked(v) /\ time \in 0 .. TimeMod - 1 /\ due[v] \in - Half .. Half - 1
      BY DEF IInv, TypeOK
    <2>2. Expired(v)
      BY <2>1, CycleWaiting
    <2>3. QED
      BY <2>1, <2>2, ExpiredMeansDue, Numbers
  <1>2. QED
    BY <1>1, Invariance, PTL DEF Spec, NeverEarly
=============================================================================
