---------------------------- MODULE FlexThreads ----------------------------
(***************************************************************************)
(* The lives of the hardware threads: startup.S, which polls for a         *)
(* function, runs it and comes back; thread_clean and the wait loop of     *)
(* thread_after_return_handler; and thread 0, which creates, starts,       *)
(* joins and terminates the others and resets the kernel, or starts them   *)
(* without the OS as app/main.c does.  They meet in startup_state, without *)
(* a lock: each action is one access to it, or several that no other       *)
(* thread can come between.                                                *)
(*                                                                         *)
(* The threads are hard, so a thread runs if it has a slot and is not a    *)
(* zombie; FlexScheduler has the slots themselves.  A function, its        *)
(* argument and a stack given to it are named after the creation that      *)
(* brings them: a number that counts the osThreadNew calls of its thread.  *)
(***************************************************************************)
EXTENDS Naturals, FiniteSets

CONSTANTS
  N,         (* FLEXPRET_HW_THREADS_NUMS                                   *)
  MaxLives,  (* bound: creations of one thread, so resets of the kernel    *)
  Uses       (* what thread 0 does beyond its contract                     *)

ASSUME ThreadsAssumption ==
  /\ N \in Nat /\ N > 1
  /\ MaxLives \in Nat \ {0}
  /\ Uses \subseteq {"resetAnyTime"}

NULL    == 0               \* no function, no argument
Workers == 1 .. N - 1
Lives   == 1 .. MaxLives
InitStack == 0             \* flexpret_thread_init_stack_addr[tid]

VARIABLES
  func, state, arg, stack, (* startup_state of each worker                 *)
  num,       (* flexpret_thread_num                                        *)
  kernel,    (* kernel_state; "raw" while app/main.c runs its schedule     *)
  slot,      (* the worker has a slot                                      *)
  zombie,    (* its mode is zombie                                         *)
  pc,        (* where the worker is in startup.S and its return handler    *)
  reg,       (* what startup.S has loaded for it                           *)
  due,       (* the delay of its wait loop has expired                     *)
  main,      (* thread 0: its next step and the thread it is about; in     *)
             (* osThreadJoinAll also the length of the list and its flag   *)
  tohost,    (* what thread 0 has written to tohost; 0: nothing yet        *)
  life,      (* creations of each worker so far                            *)
  given,     (* what its last creation gave it; nothing once it has been   *)
             (* terminated                                                 *)
  runs       (* how often it has entered the function of its last creation *)

startup_state == <<func, state, arg, stack>>
os     == <<num, kernel>>
modes  == <<slot, zombie>>
worker == <<pc, reg, due>>
ghosts == <<life, given, runs>>
vars   == <<startup_state, os, modes, worker, main, tohost, ghosts>>

WorkerPcs == {"poll", "loadSp", "loadArg", "jump", "run", "cleanFunc", "wait", "asleep"}
MainPcs   == {"idle", "newFunc", "newArg", "newMode", "newSlot", "startModes",
              "join", "joinAll", "reapSlot", "reapZombie", "cleanFunc",
              "resetModes", "rawSlots", "rawModes", "rawDone", "halt", "leave"}
Given == [func : Lives \cup {NULL}, arg : Lives \cup {NULL}, sp : Lives \cup {InitStack}]
NothingGiven == [func |-> NULL, arg |-> NULL, sp |-> InitStack]

Idle == [pc |-> "idle", t |-> 1, len |-> 0, flag |-> {}]

TypeOK ==
  /\ func \in [Workers -> Lives \cup {NULL}]
  /\ state \in [Workers -> {"INACTIVE", "ACTIVE", "TERMINATED"}]
  /\ arg \in [Workers -> Lives \cup {NULL}]
  /\ stack \in [Workers -> Lives \cup {InitStack}]
  /\ num \in 1 .. N
  /\ kernel \in {"ready", "running", "raw"}
  /\ slot \in [Workers -> BOOLEAN]
  /\ zombie \in [Workers -> BOOLEAN]
  /\ pc \in [Workers -> WorkerPcs]
  /\ reg \in [Workers -> Given]
  /\ due \in [Workers -> BOOLEAN]
  /\ main \in [pc : MainPcs, t : 1 .. N, len : 0 .. N - 1, flag : SUBSET Workers]
  /\ tohost \in {0, 1}
  /\ life \in [Workers -> Lives \cup {0}]
  /\ given \in [Workers -> Given]
  /\ runs \in [Workers -> Nat]

(* conf.initialSlots and conf.initialTmodes: thread 0 runs alone.  It has  *)
(* called osKernelInitialize, or is the main of app/main.c.                *)
Init ==
  /\ func = [t \in Workers |-> NULL]
  /\ state = [t \in Workers |-> "INACTIVE"]
  /\ arg = [t \in Workers |-> NULL]
  /\ stack = [t \in Workers |-> InitStack]
  /\ num = 1
  /\ kernel \in {"ready", "raw"}
  /\ slot = [t \in Workers |-> FALSE]
  /\ zombie = [t \in Workers |-> TRUE]
  /\ pc = [t \in Workers |-> "poll"]
  /\ reg = [t \in Workers |-> NothingGiven]
  /\ due = [t \in Workers |-> FALSE]
  /\ main = Idle
  /\ tohost = 0
  /\ life = [t \in Workers |-> 0]
  /\ given = [t \in Workers |-> NothingGiven]
  /\ runs = [t \in Workers |-> 0]

-----------------------------------------------------------------------------
(***************************************************************************)
(* A worker                                                                *)
(***************************************************************************)

Runs(t) == slot[t] /\ ~ zombie[t] /\ tohost = 0

Goto(t, from, to) ==
  /\ Runs(t)
  /\ pc[t] = from
  /\ pc' = [pc EXCEPT ![t] = to]

(* wait: lw func, and again while it is NULL. *)
Poll(t) ==
  /\ func[t] # NULL
  /\ Goto(t, "poll", "loadSp")
  /\ reg' = [reg EXCEPT ![t].func = func[t]]
  /\ UNCHANGED <<startup_state, os, modes, due, main, tohost, ghosts>>

LoadSp(t) ==
  /\ Goto(t, "loadSp", "loadArg")
  /\ reg' = [reg EXCEPT ![t].sp = stack[t]]
  /\ UNCHANGED <<startup_state, os, modes, due, main, tohost, ghosts>>

LoadArg(t) ==
  /\ Goto(t, "loadArg", "jump")
  /\ reg' = [reg EXCEPT ![t].arg = arg[t]]
  /\ UNCHANGED <<startup_state, os, modes, due, main, tohost, ghosts>>

(* jalr ra, a2, 0 *)
Jump(t) ==
  /\ Goto(t, "jump", "run")
  /\ runs' = [runs EXCEPT ![t] = @ + 1]
  /\ UNCHANGED <<startup_state, os, modes, reg, due, main, tohost, life, given>>

(* What thread_clean does to the block but for func: the thread that ends  *)
(* and thread 0 that terminates it may both be at it.                      *)
CleanBlock(t) ==
  /\ arg' = [arg EXCEPT ![t] = NULL]
  /\ state' = [state EXCEPT ![t] = "TERMINATED"]
  /\ stack' = [stack EXCEPT ![t] = InitStack]

(* The function returns to startup.S or calls osThreadExit.  What startup.S *)
(* has loaded for it is of no use after that.                               *)
Return(t) ==
  /\ Goto(t, "run", "cleanFunc")
  /\ CleanBlock(t)
  /\ reg' = [reg EXCEPT ![t] = NothingGiven]
  /\ UNCHANGED <<func, os, modes, due, main, tohost, ghosts>>

(* Slip: the function pointer is left. *)
CleanFuncForgotten(t) ==
  /\ Goto(t, "cleanFunc", "wait")
  /\ UNCHANGED <<startup_state, os, modes, reg, due, main, tohost, ghosts>>

CleanFunc(t) ==
  /\ Goto(t, "cleanFunc", "wait")
  /\ func' = [func EXCEPT ![t] = NULL]
  /\ UNCHANGED <<state, arg, stack, os, modes, reg, due, main, tohost, ghosts>>

(* The wait loop of thread_after_return_handler: jr x0 when there is a     *)
(* function again, otherwise osDelay, which sleeps as a zombie.            *)
WaitOver(t) ==
  /\ func[t] # NULL
  /\ Goto(t, "wait", "poll")
  /\ UNCHANGED <<startup_state, os, modes, reg, due, main, tohost, ghosts>>

Sleep(t) ==
  /\ func[t] = NULL
  /\ Goto(t, "wait", "asleep")
  /\ zombie' = [zombie EXCEPT ![t] = TRUE]
  /\ UNCHANGED <<startup_state, os, slot, reg, due, main, tohost, ghosts>>

(* A DU that is scheduled before its time sleeps again. *)
SleepAgain(t) ==
  /\ ~ due[t]
  /\ Goto(t, "asleep", "asleep")
  /\ zombie' = [zombie EXCEPT ![t] = TRUE]
  /\ UNCHANGED <<startup_state, os, slot, reg, due, main, tohost, ghosts>>

(* The expired comparator clears the zombie bit, whoever has set it. *)
Expire(t) ==
  /\ pc[t] = "asleep" /\ ~ due[t] /\ tohost = 0
  /\ due' = [due EXCEPT ![t] = TRUE]
  /\ zombie' = [zombie EXCEPT ![t] = FALSE]
  /\ UNCHANGED <<startup_state, os, slot, pc, reg, main, tohost, ghosts>>

(* Slip: the loop delays again without a look at func. *)
DelayOverSleeps(t) ==
  /\ due[t]
  /\ Goto(t, "asleep", "asleep")
  /\ due' = [due EXCEPT ![t] = FALSE]
  /\ UNCHANGED <<startup_state, os, modes, reg, main, tohost, ghosts>>

DelayOver(t) ==
  /\ due[t]
  /\ Goto(t, "asleep", "wait")
  /\ due' = [due EXCEPT ![t] = FALSE]
  /\ UNCHANGED <<startup_state, os, modes, reg, main, tohost, ghosts>>

Worker(t) ==
  \/ Poll(t) \/ LoadSp(t) \/ LoadArg(t) \/ Jump(t) \/ Return(t) \/ CleanFunc(t)
  \/ WaitOver(t) \/ Sleep(t) \/ SleepAgain(t) \/ Expire(t) \/ DelayOver(t)

-----------------------------------------------------------------------------
(***************************************************************************)
(* Thread 0                                                                *)
(***************************************************************************)

At(from) == main.pc = from
Main(to) == main' = IF to = "idle" THEN Idle ELSE [main EXCEPT !.pc = to]

(* osThreadNew takes the next thread and refuses when all are taken.       *)
(* Without attributes the stack address stays what it is; otherwise it is  *)
(* the user's or the initial one.                                          *)
osThreadNew(attr) ==
  LET t == num
      n == life[t] + 1
  IN  /\ At("idle") /\ kernel # "raw"
      /\ num < N /\ n \in Lives
      /\ num' = num + 1
      /\ stack' = [stack EXCEPT ![t] = CASE attr = "none"  -> @
                                         [] attr = "stack" -> n
                                         [] attr = "noStack" -> InitStack]
      /\ main' = [main EXCEPT !.pc = "newFunc", !.t = t]
      /\ life' = [life EXCEPT ![t] = n]
      /\ given' = [given EXCEPT ![t] =
                     [func |-> n, arg |-> n, sp |-> IF attr = "stack" THEN n ELSE InitStack]]
      /\ runs' = [runs EXCEPT ![t] = 0]
      /\ UNCHANGED <<func, state, arg, kernel, modes, worker, tohost>>

(* Slip: the thread is scheduled as soon as it has a function. *)
NewFuncScheduled ==
  /\ At("newFunc")
  /\ func' = [func EXCEPT ![main.t] = life[main.t]]
  /\ slot' = [slot EXCEPT ![main.t] = TRUE]
  /\ zombie' = [zombie EXCEPT ![main.t] = FALSE]
  /\ Main("newArg")
  /\ UNCHANGED <<state, arg, stack, os, worker, tohost, ghosts>>

NewFunc ==
  /\ At("newFunc")
  /\ func' = [func EXCEPT ![main.t] = life[main.t]]
  /\ Main("newArg")
  /\ UNCHANGED <<state, arg, stack, os, modes, worker, tohost, ghosts>>

(* state and arg; before osKernelStart that is all. *)
NewArg ==
  /\ At("newArg")
  /\ state' = [state EXCEPT ![main.t] = "ACTIVE"]
  /\ arg' = [arg EXCEPT ![main.t] = life[main.t]]
  /\ Main(IF kernel = "running" THEN "newMode" ELSE "idle")
  /\ UNCHANGED <<func, stack, os, modes, worker, tohost, ghosts>>

(* thread_after_create: TMODE_HA, then a slot. *)
NewMode ==
  /\ At("newMode")
  /\ zombie' = [zombie EXCEPT ![main.t] = FALSE]
  /\ Main("newSlot")
  /\ UNCHANGED <<startup_state, os, slot, worker, tohost, ghosts>>

NewSlot ==
  /\ At("newSlot")
  /\ slot' = [slot EXCEPT ![main.t] = TRUE]
  /\ Main("idle")
  /\ UNCHANGED <<startup_state, os, zombie, worker, tohost, ghosts>>

(* osKernelStart decides by func and writes all slots, then all modes. *)
osKernelStart ==
  /\ At("idle") /\ kernel # "raw"
  /\ state' = [t \in Workers |-> IF func[t] # NULL THEN "ACTIVE" ELSE state[t]]
  /\ slot' = [t \in Workers |-> func[t] # NULL]
  /\ main' = [main EXCEPT !.pc = "startModes", !.flag = {t \in Workers : func[t] = NULL}]
  /\ UNCHANGED <<func, arg, stack, os, zombie, worker, tohost, ghosts>>

StartModes ==
  /\ At("startModes")
  /\ zombie' = [t \in Workers |-> t \in main.flag]
  /\ kernel' = "running"
  /\ Main("idle")
  /\ UNCHANGED <<startup_state, num, slot, worker, tohost, ghosts>>

(* osThreadJoin polls func with a delay, then thread_terminate without     *)
(* cleaning takes the slots and makes the thread a zombie.                 *)
osThreadJoin(t) ==
  /\ At("idle") /\ kernel = "running" /\ t < num
  /\ main' = [main EXCEPT !.pc = "join", !.t = t, !.len = 0]
  /\ UNCHANGED <<startup_state, os, modes, worker, tohost, ghosts>>

(* Slip: the loop does not wait for the end. *)
JoinedUnfinished ==
  /\ At("join")
  /\ Main("reapSlot")
  /\ UNCHANGED <<startup_state, os, modes, worker, tohost, ghosts>>

Joined ==
  /\ At("join")
  /\ func[main.t] = NULL
  /\ Main("reapSlot")
  /\ UNCHANGED <<startup_state, os, modes, worker, tohost, ghosts>>

ReapSlot ==
  /\ At("reapSlot")
  /\ slot' = [slot EXCEPT ![main.t] = FALSE]
  /\ Main("reapZombie")
  /\ UNCHANGED <<startup_state, os, zombie, worker, tohost, ghosts>>

ReapZombie ==
  /\ At("reapZombie")
  /\ zombie' = [zombie EXCEPT ![main.t] = TRUE]
  /\ main' = IF main.len = 0 THEN Idle
             ELSE [main EXCEPT !.pc = "joinAll", !.t = @ + 1, !.flag = @ \ {main.t}]
  /\ UNCHANGED <<startup_state, os, slot, worker, tohost, ghosts>>

(* osThreadJoinAll: passes over the list until the flag is empty; in every *)
(* pass each finished thread is terminated, again if need be.              *)
osThreadJoinAll ==
  /\ At("idle") /\ kernel = "running" /\ num > 1
  /\ main' = [main EXCEPT !.pc = "joinAll", !.t = 1, !.len = num - 1, !.flag = 1 .. num - 1]
  /\ UNCHANGED <<startup_state, os, modes, worker, tohost, ghosts>>

JoinAllCheck ==
  /\ At("joinAll") /\ main.t <= main.len
  /\ main' = IF func[main.t] = NULL THEN [main EXCEPT !.pc = "reapSlot"]
                                    ELSE [main EXCEPT !.t = @ + 1]
  /\ UNCHANGED <<startup_state, os, modes, worker, tohost, ghosts>>

(* The next pass, or the end; the main of a benchmark then returns 0 to    *)
(* halt.                                                                   *)
JoinAllPass(to) ==
  /\ At("joinAll") /\ main.t > main.len
  /\ main' = IF main.flag # {} THEN [main EXCEPT !.t = 1] ELSE [Idle EXCEPT !.pc = to]
  /\ UNCHANGED <<startup_state, os, modes, worker, tohost, ghosts>>

(* osThreadTerminate of another thread: thread_clean, then as after a join *)
osThreadTerminate(t) ==
  /\ At("idle") /\ kernel = "running" /\ t < num
  /\ CleanBlock(t)
  /\ main' = [main EXCEPT !.pc = "cleanFunc", !.t = t, !.len = 0]
  /\ given' = [given EXCEPT ![t] = NothingGiven]
  /\ UNCHANGED <<func, os, modes, worker, tohost, life, runs>>

TerminateFunc ==
  /\ At("cleanFunc")
  /\ func' = [func EXCEPT ![main.t] = NULL]
  /\ Main("reapSlot")
  /\ UNCHANGED <<state, arg, stack, os, modes, worker, tohost, ghosts>>

(* osKernelReset takes the slots of all; nothing of a worker runs after    *)
(* that.                                                                   *)
osKernelReset ==
  /\ At("idle") /\ kernel # "raw"
  /\ slot' = [t \in Workers |-> FALSE]
  /\ Main("resetModes")
  /\ UNCHANGED <<startup_state, os, zombie, worker, tohost, ghosts>>

ResetModes ==
  /\ At("resetModes")
  /\ zombie' = [t \in Workers |-> TRUE]
  /\ func' = [t \in Workers |-> NULL]
  /\ stack' = [t \in Workers |-> InitStack]
  /\ arg' = [t \in Workers |-> NULL]
  /\ state' = [t \in Workers |-> "INACTIVE"]
  /\ num' = 1
  /\ kernel' = "ready"
  /\ given' = [t \in Workers |-> NothingGiven]
  /\ Main("idle")
  /\ UNCHANGED <<slot, worker, tohost, life, runs>>

-----------------------------------------------------------------------------
(***************************************************************************)
(* app/main.c: every worker is started without the OS                      *)
(***************************************************************************)

(* hwthread_start with the default stack; nobody sets arg. *)
hwthread_start ==
  LET t == main.t
  IN  /\ At("idle") /\ kernel = "raw"
      /\ func' = [func EXCEPT ![t] = 1]
      /\ main' = IF t = N - 1 THEN [main EXCEPT !.pc = "rawSlots"] ELSE [main EXCEPT !.t = @ + 1]
      /\ life' = [life EXCEPT ![t] = 1]
      /\ given' = [given EXCEPT ![t] = [NothingGiven EXCEPT !.func = 1]]
      /\ UNCHANGED <<state, arg, stack, os, modes, worker, tohost, runs>>

RawSlots ==
  /\ At("rawSlots")
  /\ slot' = [t \in Workers |-> TRUE]
  /\ Main("rawModes")
  /\ UNCHANGED <<startup_state, os, zombie, worker, tohost, ghosts>>

RawModes ==
  /\ At("rawModes")
  /\ zombie' = [t \in Workers |-> FALSE]
  /\ main' = [main EXCEPT !.pc = "rawDone", !.t = 1]
  /\ UNCHANGED <<startup_state, os, slot, worker, tohost, ghosts>>

(* Slip: the loop ends when one of them is done. *)
hwthread_doneAny ==
  /\ At("rawDone")
  /\ main' = CASE func[main.t] = NULL -> [main EXCEPT !.pc = "halt"]
               [] OTHER -> [main EXCEPT !.t = IF @ = N - 1 THEN 1 ELSE @ + 1]
  /\ UNCHANGED <<startup_state, os, modes, worker, tohost, ghosts>>

(* hwthread_done(1) & ... & hwthread_done(N - 1), read one after another. *)
hwthread_done ==
  /\ At("rawDone")
  /\ main' = CASE func[main.t] # NULL -> [main EXCEPT !.t = 1]
               [] func[main.t] = NULL /\ main.t < N - 1 -> [main EXCEPT !.t = @ + 1]
               [] OTHER -> [main EXCEPT !.pc = "halt"]
  /\ UNCHANGED <<startup_state, os, modes, worker, tohost, ghosts>>

-----------------------------------------------------------------------------
(***************************************************************************)
(* The end: a main that has waited for all threads is at halt, and at      *)
(* leave one that returns 0 as soon as it likes, as test_thread.c does     *)
(***************************************************************************)

MainReturns ==
  /\ At("idle") /\ kernel # "raw"
  /\ Main("leave")
  /\ UNCHANGED <<startup_state, os, modes, worker, tohost, ghosts>>

(* done: tohost gets the return value 0 plus 1, and the simulation ends.   *)
Done ==
  /\ At("halt") \/ At("leave")
  /\ tohost = 0
  /\ tohost' = 1
  /\ UNCHANGED <<startup_state, os, modes, worker, main, ghosts>>

-----------------------------------------------------------------------------

Attributes == {"none", "stack", "noStack"}

(* The code resets at any time; the contract is that of the program, which *)
(* does so when no function is left by terminating it.                     *)
ResetAllowed ==
  "resetAnyTime" \in Uses \/ \A t \in Workers : pc[t] \in {"poll", "wait", "asleep"}

(* Thread 0 begins a call or returns, which it may never do; *)
Call ==
  \/ \E attr \in Attributes : osThreadNew(attr)
  \/ osKernelStart \/ (ResetAllowed /\ osKernelReset) \/ osThreadJoinAll \/ MainReturns
  \/ \E t \in Workers : osThreadJoin(t) \/ osThreadTerminate(t)

(* and what it does inside one, or in the main of app/main.c. *)
Step ==
  \/ NewFunc \/ NewArg \/ NewMode \/ NewSlot \/ StartModes
  \/ Joined \/ ReapSlot \/ ReapZombie \/ JoinAllCheck
  \/ \E to \in {"idle", "halt"} : JoinAllPass(to)
  \/ TerminateFunc \/ ResetModes
  \/ hwthread_start \/ RawSlots \/ RawModes \/ hwthread_done \/ Done

Next == Call \/ Step \/ \E t \in Workers : Worker(t)

Spec == Init /\ [][Next]_vars

(* Threads with slots run, delays expire and functions return. *)
FairSpec == Spec /\ WF_vars(Step) /\ \A t \in Workers : WF_vars(Worker(t)) /\ WF_vars(Expire(t))

-----------------------------------------------------------------------------
(***************************************************************************)
(* Properties                                                              *)
(***************************************************************************)

(* A thread that runs a function runs the one of its last osThreadNew or   *)
(* hwthread_start, with that argument and that stack, although the block   *)
(* is written in pieces by thread 0 and by the thread that ends, and is    *)
(* read in pieces by startup.S, all without a lock.                        *)
RunsOwnFunction ==
  \A t \in Workers : pc[t] = "run" /\ given[t] # NothingGiven => reg[t] = given[t]

(* A creation is run at most once: the wait loop and startup.S do not      *)
(* enter a function again that has returned.                               *)
EachLifeRunsOnce == \A t \in Workers : runs[t] <= 1

(* When the simulation ends with PASSED behind osThreadJoinAll or the loop *)
(* of app/main.c, every thread that was started and not terminated has run *)
(* its function to the end.                                                *)
PassedMeansAllDone ==
  tohost = 1 /\ main.pc = "halt" =>
    \A t \in Workers :
      given[t] # NothingGiven => runs[t] = 1 /\ pc[t] \in {"wait", "asleep"}

(* Once the kernel runs, a created thread enters its function, also when   *)
(* its hardware thread sleeps in the wait loop of an earlier life, unless  *)
(* main returns without waiting for it; and joining returns.               *)
NewThreadsRun ==
  /\ \A t \in Workers :
       (given[t] # NothingGiven /\ kernel \in {"running", "raw"})
         ~> (runs[t] = 1 \/ given[t] = NothingGiven \/ main.pc = "leave")
  /\ main.pc \in {"join", "joinAll"} ~> main.pc \in {"idle", "halt"}

(* A thread as its creator sees it: of one that has been terminated, which *)
(* may go on for a while, it sees nothing.                                 *)
Phase(t) == IF given[t] = NothingGiven THEN "none"
            ELSE IF runs[t] = 0        THEN "created"
            ELSE IF pc[t] = "run"      THEN "running" ELSE "back"

phase   == [t \in Workers |-> Phase(t)]
does    == [t \in Workers |-> IF Phase(t) = "running" THEN reg[t] ELSE NothingGiven]
reaping == IF main.pc \in {"reapSlot", "reapZombie"} THEN {main.t} ELSE {}

Abstract == INSTANCE AbstractThreads WITH
  Threads <- Workers, Jobs <- Given, None <- NothingGiven, job <- given,
  passed <- tohost = 1 /\ main.pc = "halt", left <- tohost = 1 /\ main.pc = "leave"

(* Creation, startup.S, the wait loop, joins, termination, reset and the   *)
(* end of the simulation do what the calls promise.                        *)
ImplementsThreads == Abstract!Spec
=============================================================================
