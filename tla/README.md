# FlexPRET OS in TLA+

FlexPRET OS is a CMSIS-RTOS2 style operating system in C (`src/src/os`) for
FlexPRET, a fine-grained multithreaded RISC-V processor written in Chisel
(`src/src/Core`). The processor interleaves its hardware threads cycle by cycle;
the operating system has no scheduler loop of its own. It decides who runs by
writing two control registers, the *slots* and the *thread modes*, and the
hardware does the rest. So every OS call races, instruction by instruction,
against the calls of all other threads, and the code that decides who may run is
itself run by the threads it is about.

This directory models that system, checks it with TLC and proves the central
results with TLAPS.

## 1. Inventory

| Component | Source | State | Operations | Module |
|---|---|---|---|---|
| Mutexes | `os/src/flexpret_mutex.c` | lock bit in a CSR; `owner`, `count`, `active`, `ifSpin`, `ifRecursive`, `ifRobust` in memory | New, Acquire (none / finite / endless time-out), Release, Delete, SetSpin | `FlexMutex` |
| Slot table and modes | `os/src/flexpret_scheduler.c` | CSR `slots` (8 × owner, soft or disabled), CSR `tmodes` (hard/soft bit and zombie bit per thread), `slot_mutex` | `set_slot_num`, `thread_after_create`, `change_srtt_to_hrtt`, `change_hrtt_to_srtt`, `srtt_terminate`, `set_thread_mode`, osSchedulerSetSlotNum | `SlotTable`, `AbstractSlots`, `FlexScheduler` |
| Threads | `os/src/flexpret_threads.c`, `os/asm/startup.S` | `startup_state` (func, state, arg, stack), attributes, `flexpret_thread_num`, where each thread is in `startup.S` | New, SetPriority, Suspend, Resume, Join, JoinAll, Exit, Terminate, Delay, DelayUntil, GetCount, Enumerate | `FlexScheduler` (slots and modes), `AbstractThreads`, `FlexThreads` (lives) |
| Kernel | `os/src/flexpret_kernel.c` | `kernel_state`, `default_soft_slot_id` | Initialize, Start, Reset, GetInfo | `FlexScheduler`, `FlexThreads`, `Utilities` |
| Timers | `os/src/flexpret_timing.c` | one `hwtimer_state` and attribute entry per thread; the thread's `compare` register | New, Start, Stop, Delete, SetFunc, two handlers | `AbstractTimers`, `FlexTimer` |
| Traps | `os/src/flexpret_trap.c`, `os/asm/trap.S` | handler table, `epc_vector` | entry, dispatch, return | `FlexTimer`, `HwTimer` (causes) |
| Strings and output | `os/src/flexpret_utils.c`, `os/src/flexpret_io.c` | none | strncpy, memset, memcpy, itoa_hex, get_tid, get_timer_tid | `Utilities` |
| Applications | `os/app/*.c` | their own globals | bs, cover, duff, fibcall, insertsort, lcdnum, loop3, ns; the raw schedule of `main.c` | `Workloads`, `FlexThreads` (raw schedule) |
| Hardware thread scheduler | `Core/scheduler.scala` | two one-hot round-robin registers | one grant per cycle | `HwScheduler` |
| CSR unit | `Core/csr.scala` | time, `compare`, `reg_timer`, modes, `ie`, `mtie`, `msip` | CSR writes, sleep, wake, expire, interrupt | `HwTimer` |
| Pipeline | `Core/control.scala`, `Core/datapath.scala`, `Core/regfile.scala` | program counters, validity and registers of each stage, `stall_count` | fetch, commit, branch, trap, DU replay, stalls, bypasses | `Pipeline`, `HwTimer` (execute stage) |
| Load/store unit | `Core/loadstore.scala` | none | alignment, byte lanes, protection | not modelled |

How they interact. Calls of the OS are plain function calls of the thread that
makes them. Threads share the control blocks in memory and the CSRs. A mutex is a
CSR bit taken by one `csrrw`. `slot_mutex` serialises the slot and mode changes.
The slot and mode registers are inputs of the hardware scheduler in every cycle.
The wake-up timer and the external interrupt lines write the mode registers from
the other side. Delays, timed acquires, joins and OS timers of one thread share
its single `compare` register.

What is hard about it: interleavings at every load and store (mutex, slots,
creation); an operation that takes away its own processor time (a priority change
of the caller); limits that a callee reports and its caller ignores (seven
slots); a terminated or suspended holder of a lock; wake-ups, suspensions and
interrupts in one cycle; time that wraps; an interrupt that expires while
interrupts are off. `PROJECT.json` lists each hazard at its line, with the
properties that cover it or the reason why none does.

What makes each component correct:

* *mutex*: exclusion, exact nesting, no lock bit set for nobody, calls return;
* *slots*: updates are serialised and none is lost, every live thread keeps a way
  to be scheduled at every step of every operation, slots come back at the end;
* *hardware scheduler*: a grant to one thread, the owner's share independent of
  everybody else, no usable cycle wasted, no starvation;
* *pipeline*: a thread sees its own program in order and its own registers, whoever is
  in the stages between; its stalls are bounded and of its own making;
* *timer and interrupts*: no delay ends early, no wake-up is lost or late, an
  interrupt is taken once for each arming;
* *threads*: a thread runs the function, argument and stack of its last creation,
  once, and a simulation that waits for all threads ends only when they are done;
* *timers and traps*: what the timer block says agrees with the comparator, no
  function is called that is not there, a started timer fires, a trap returns to
  where it came from;
* *utilities and applications*: they compute what the rest takes them to compute.

Not modelled: what the ALU, the multiplier and the scratchpads compute, the load/store
unit, the decode tables in detail, the deadlines `mt` and `fd`, several mutexes, system calls, the
UART (third-party Verilog), emulator, FPGA project, debugger, compiler patch, the
test programs and build files. Section 5 gives the reasons.

## 2. Modules

Every module has an `MC...` module and `.cfg` files that instantiate it. Definitions
whose comment starts with *Slip* are deliberate mistakes (a dropped guard, an
off-by-one, a forgotten reset). No specification uses them: `PROJECT.json` pairs
each property with the slip that must violate it when it replaces the right
definition. The modules `..._proofs` extend the module they are named after with its
theorems; `FlexManage_proofs` extends `FlexScheduler_proofs` for programs with one manager.

### AbstractMutex, FlexMutex

`AbstractMutex` is what the mutex promises: one variable, the depth to which each
thread holds it. A thread acquires when no other holds it, and releases.

`FlexMutex` is the code. One action is one access to shared state: the `csrrw` of
`swap_mutex_csr`, a load or a store of `owner` or `count`. Program counters name the
access to come. All three ways to wait are there: give up at once, wait for a finite
time (spinning or by osDelay), wait for ever. Times are those of the code, modulo
`TimeMod`: the clock `time` goes on by itself (`Tick`), a spinning wait compares it with
`timeout + ctime`, and a delayed one adds up periods of `WaitPeriod` in `all_time` until
they reach the time-out; `clock` is the one or the other. How long a delay takes is left
open, so the sum may be reached at any time. `count++` is a load and a store. `held` is the callers' view, from the
returned `osOK`; the refinement maps `depth` to it. Threads use the API only: they
release whenever they like, whether or not they hold the mutex.
Robust release by another thread is part of `FlexScheduler`.

### SlotTable, AbstractSlots, FlexScheduler

`SlotTable` holds the pure part: `SetSlotNum` is the table that `set_slot_num` writes
(first free slots in, first own slots out, refused when it would fill the table),
and `Serves` says which thread a slot lets run, the contract between the OS and the
hardware.

`AbstractSlots` is what the calls on the table promise: once the kernel runs, one thread at
a time works on the table, in the name of one user; the slots of that user or of the soft
threads become exactly as many as were asked for, from free slots or back to them, in one
step; one slot stays free. `FlexScheduler` maps `inside` to the threads between the lock and
the end of the unlock, `subject` to the threads their calls are about, and the table to the
`slots` register: the read of the table, the count of soft threads and the walk through the
calls are stutters. A refused request is a stutter too.

`FlexScheduler` models the operations on threads as far as they decide who runs. A
step of a thread needs the thread to be schedulable in the current table, so a
thread that takes its own slot away really stops there. `set_slot_num` is two steps,
the read of the table and the write of all of it. `slot_mutex` is the lock `FlexMutex`
implements, at the level of its contract plus the two facts that a robust release
breaks: the lock bit and the owner are separate. Creation is three stores and the
mode and slot writes; osKernelStart writes slots, modes and state in this order.
Constants say which threads create, manage, may be terminated and tune themselves. There are
no more threads than slots, and their ids stay below `SLOT_S`, as `flexpret_config.h` has it.
Thread creation before osKernelStart, and everything else after it, is how all tests
of the repository use the API. Each thread is created with attributes of its own: the code
keeps the caller's structure by pointer (`flexpret_threads.c`:191), so that two threads
created with one structure would share a priority; no test of the repository does that.

### HwScheduler

One step is one clock cycle of `scheduler.scala`: the arbiter moves to the next
enabled slot and grants it to its owner, to the next soft thread, or to nobody. At
the end of a cycle software may have rewritten one slot or one mode. A vector of
Bools is the set of its true indices. `since` counts the cycles since each slot was
last chosen, under an unchanged table.

### HwTimer

One step is one clock cycle of the CSR unit with the execute stage. One thread is in
the stage, with a bubble, an instruction that commits, or one that traps. In the same
cycle every comparator and every interrupt line acts. Chisel's rule that the last
assignment wins is in the operators `Modes`, `Timers` and `Pending`. The program is
arbitrary: any instruction of `Ops` in any cycle, except that a DU that has not
expired stays at its address. Time is taken modulo `TimeMod` (2^32 in the code); `due`
is the same distance without the wrap. Abstracted: instructions already in the
pipeline when another thread suspends theirs are not executed; a handler does not
delay; `csrrsi` and `jalr` at the end of `trap.S` are one step. DU and WU are one
instruction, because they are one in hardware: `control.scala` selects the operand
`OP2_4` for WU, but the multiplexer of `datapath.scala` has no case for it, so WU branches
to itself like DU and not to WU+4.

### Pipeline

One step is one clock cycle of all five stages: `next`, `fetch`, `dec`, `exe`, `mem` and
`wb` are the stage registers of `control.scala` and `datapath.scala`. The action names what
the execute stage does (`Alu`, `Load`, `BranchTaken`, `Continue`, `DelaySleeps`, `Trap`,
`Bubble`) and `Advance` moves the rest: which fetch counts (`FetchGoesOn`), whom a flush
kills (`FetchValid`, `DecValid`), where each thread goes on (`NextPcs`), whom a stall holds
(`Stalls`), what the bypasses select (`Operands`), what the register file stores. The
schedule is any order of awake threads, one cycle late; `HwScheduler` chooses less. A sleeper
wakes at any moment. The kinds of instruction are what the stages tell apart in
`decode_table` (`Kinds`). A program is any sequence of the kinds of instruction that `Program`
allows the thread; one register and two values stand for the register file. `apc` and `areg`
are a machine that executes one instruction after the other: the properties compare the
pipeline with it.

### AbstractTimers, FlexTimer

`AbstractTimers` is what the timer calls promise, without comparators and handlers: a started
timer calls back when its ticks are over and not before, once or again and again; a stopped
one does not, also when it is stopped in its own callback. What they do not promise is in it
too: a thread whose interrupts another thread's trap has disabled, or which has returned from
its callback and not yet from its handler, is *deaf*, and an alarm that rings meanwhile is lost. `FlexTimer` maps the alarm to "set" from the write of `compare`
to the callback, and to "next" while a call or a handler is on its way to that write; `deaf`
is the set of threads with interrupts disabled, but for those between the entry of their own
handler and the end of its callback. A periodic
timer stopped in its callback is armed once more by its handler, with no ticks; the alarm is
"off" there, because the end of the trap enables interrupts and drops this one.

The software timers, on the one comparator that each thread has. An interrupt may come
between any two instructions of its thread, so each API call is cut where a handler can
see the difference: `osTimerStart` is the choice of the handler, then `StartTicks`,
`StartCompare`, `StartArm`; `osTimerStop` and `osTimerDelete` are cut likewise. `Trap` is
the entry of `trap.S` (the pc goes to `epc_vector`, the vector chooses the handler),
`CallFunc` to `RearmArm` are `timer_handler` and `timer_periodic_handler`, and the return is
two steps, `trap_ret` (`csrrsi`) and `TrapJump` (`jalr`), between which a trap may fall. A
callback may call the API. The CSR unit is the one of `HwTimer`, reduced to what timers
see: the trap of one thread disables the interrupts of all (`csr.scala`:410), and enabling
them drops a pending interrupt. The clock waits for nobody: a comparison may expire while
its handler still runs. `left` counts ticks down, so the wrap of time is left to
`HwTimer`; a start or a delay of 2^31 or more is outside. `missed` records that a comparison
expired while interrupts were disabled; the code keeps no trace of it.

The operations are those of the code, which refuses none of the calls below. What is assumed
of the *program* that makes them is in a section of its own ("Who calls what"), and `Uses`
names the ways to leave it; the passing run and the proofs have `Uses = {}`:

* `"restart"`: a timer is started while it runs, which `cmsis_os2.h`:505 allows;
* `"callbackStart"`: a timer is started in a callback;
* `"remote"`: a thread starts, stops or deletes the timer of another thread;
* `"delay"`: osDelay is called while the timer of the caller runs;
* `"nullFunc"`: osTimerSetFunc is given NULL.

So what is checked and proved is narrower than what the API text allows; section 3 says what
each of the five breaks. The tests of the repository keep the contract
but for one clause: `RV_Timer.c`:85 delays, and `test_timer.c`:80 joins, which delays too,
while a timer of the caller runs. They work as long as the timer expires before the delay
begins, or nobody waits for it any more; `RV_Timer.c`:137 has its delay commented out.

### AbstractThreads, FlexThreads

`AbstractThreads` is what the thread calls promise, without slots, blocks and `startup.S`: a
created thread enters the function it was given, with that argument and stack, once; its slot
is taken only when it is back or was terminated; a reset meets nobody inside a function;
who waits for all says PASSED when all are back, and who returns without waiting promises
nothing (`GoAway`). `FlexThreads` maps the phase of a thread from what its last
creation gave, how often the function was entered and whether the thread is in it; `does` is
the function, argument and stack in its registers; a thread is reaped while thread 0 takes
its slot and mode. A thread that was terminated is not seen any more, although it may go on
for a while.

The life of a hardware thread through `startup.S` (`Poll`, `LoadSp`, `LoadArg`, `Jump`),
`thread_clean` (`Return`, `CleanFunc`) and the wait loop of `thread_after_return_handler`
(`WaitOver`, `Sleep`, `DelayOver`), against thread 0, which creates, starts, joins and
terminates threads and resets the kernel. They meet in `startup_state`, without a lock;
one action is one access to it, or several with nobody in between. Initially thread 0 has
initialised the kernel, or is `app/main.c`, which writes functions, slots and modes by
hand and polls `func` (`hwthread_start` to `hwthread_done`). `MainReturns` is a main that
returns between two calls, whoever still runs, as `test_thread.c`:181 does; `Done` is the
write of its return value, 0, plus 1 to `tohost`, which ends the simulation with PASSED. The
program counter of thread 0 tells the two ends apart: `halt` behind osThreadJoinAll or the
raw loop, `leave` otherwise. A function, its argument and its stack are
named after the creation that brings them, `life`; `given` is what the last creation gave,
`runs` how often its function was entered. Slots are reduced to having one or not:
`FlexScheduler` has the table, soft threads and the lock.

The contract here is one clause: osKernelReset is called only while no other thread is
inside a function or in `startup.S` (`Uses = {"resetAnyTime"}` breaks it). It is a guard of
the program (`ResetAllowed` in `Call`), not of the operation.

### Utilities, Workloads

Pure operators: the string and memory functions, the printing of numbers, osKernelGetInfo
with the wrap-around of its unsigned size, the way from a handle to its thread, GetCount
and Enumerate, the layout of the slot and mode registers; and the eight programs of
`os/app`, as functions of their inputs. `MCFlexThreads` puts them beside `FlexThreads`:
`ProgramsCompute` is about what the threads have computed when PASSED is written, because
the simulation says PASSED whatever a program returned to its thread; `UtilitiesHold` is
about the functions that every running thread and every kernel call relies on. Both check
the operators against reference definitions over bounded inputs (texts up to four
characters, buffers of six, sizes up to twelve, all subsets of eight threads, all arrays of
four values from three, every key of both search tables). They are data, and a wrong one
would be found by a unit test; they are there because the other modules take them for
granted. Two things that the code does not do are stated apart from them, where
`UtilitiesHold` does not reach: that osKernelGetInfo stays inside its buffer
(`InfoStaysInside`) and that osThreadEnumerate fills the array as far as it can
(`EnumerateFillsTheList`, for the threads that are active in a state).

## 3. Runs

| Run | Shows | Instance |
|---|---|---|
| `mutex` | exclusion, no leaked bit, refinement of `AbstractMutex`; bounded calls return; a free mutex with a waiter is taken | 2 threads, nesting 3, recursive or not, time mod 15 in steps of 5, period 9, time-outs 0, 4, 12, 13 and 14 (endless) |
| `sched_manage` | one manager creates, tunes, suspends, terminates, joins threads that exit at any moment: nobody stranded, all slots returned | 3 threads, 5 slots |
| `sched_shared` | a manager, who also sets slot counts by hand, against a thread that tunes itself: sections exclude each other, no update is lost, the table is never filled, no thread takes the processor from the holder; refinement of `AbstractSlots`; the lock does not stay free with waiters | 2 threads, 4 slots, counts 0 to 3 |
| `hw_sched` | bounded turns, isolation of owners, no wasted cycle, no starved thread, for every table and mode | 3 slots, 2 threads |
| `hw_sleep` | the comparison survives the wrap, delays never end early, wake-ups are never lost nor late | 2 threads, time mod 8 |
| `pipe_order` | a thread with any program beside one that computes: in order, on current operands, at rest while asleep; stalls bounded | 2 threads, 3 addresses, no FENCE.I |
| `hw_program` | all instructions, faults, a line and the handler of one thread: one interrupt per arming, delays survive traps, nobody sleeps for ever unless suspended | 1 thread, time mod 8 |
| `timer_calls` | all timer calls from programs and callbacks, interrupted anywhere: block and comparator agree, no function is called that is not there, started timers fire; refinement of `AbstractTimers` | 2 threads, ticks 1 and 2, the contract |
| `thread_life` | creation, start, join, termination, reset and the raw schedule against `startup.S` and the wait loop: a main that returns early; each thread runs what its last creation gave it, once; PASSED behind a wait means all done; refinement of `AbstractThreads`; new threads run; programs and utilities compute what they should | 3 threads, 2 creations each, the contract |

Bounds. Two threads on a mutex give a holder and a waiter; nesting 3 separates first,
nested and last release. What a third thread could add in between is covered by the
proofs, which hold for every number of threads. The small clock has the shape of the large
one: a period of 9 and a clock modulo 15 have 3 as greatest common divisor, as 10000 and
2^32 have 16, so sums of periods come to 12 (0xFFFFFFF0) and never to 13 (0xFFFFFFF1 to
0xFFFFFFFE), and 14 (0xFFFFFFFF) is osWaitForever; 4 is below the period; steps of 5 let
a deadline wrap. In the scheduler, five
slots serve three threads with one slot for soft threads and one that must stay
disabled; four slots do the same for two, and the counts asked for by hand are all that the
first test of `scheduler.c`:86 lets pass (0 to 2) and one that it refuses (3), so that tables
fill up and `set_slot_num` refuses too; the instance with three slots for three threads
reaches the limit.
Two threads are enough for a change of one thread under
the feet of another, three for a third party between two. Three slots with two threads
contain every order of a thread's own, the other's, soft and disabled slots around the
round-robin position; the proofs below cover the eight slots of the code. Time modulo 8
leaves half a range of four cycles around compare times from one cycle ago to three
ahead: expiry before, at and after the instruction that waits, and the wrap in between.
In the pipeline, three addresses tell apart all instructions of a thread that can be in
flight; the branch target and the handler are two of them. Neither thread of `pipe_order`
executes FENCE.I, which stalls the wrong thread (`StallsAreOwn` below): with `"fence"` in both
programs `InOrder` and `OperandsAreCurrent` still hold (3.6 million states).
For timers, two threads are the caller and the one whose trap disables its interrupts;
ticks 1 and 2 let a comparison expire inside a call and after it. For lives, two workers
are one that ends and one that starts; two creations are the first use of a hardware
thread and a recycled one. The proofs cover every number of threads, ticks and creations.

Fairness. `FlexMutex` and `FlexScheduler` assume weak fairness of each thread's steps
inside a call, and none of the clock: so nothing is claimed of the end of a spinning wait,
whose deadline can be missed between two looks at the clock when it is close to the wrap.
In `FlexScheduler` a step is enabled only while the hardware would
schedule the thread, and `ServedThreadsRun` of `HwScheduler` shows that the hardware
does schedule it then. That is why `WaitersAreServed` excepts the calls of a thread that has
lost its last slot: there are such holders (`SectionsEnd` below), and nobody gets the mutex
behind one.
`StartedFires` excepts a thread that the trap of another makes deaf, but not its own trap.
`FlexTimer` assumes that time passes and that a thread goes on
inside a call and inside a handler, callbacks included; `FlexThreads` that a thread with
a slot goes on, that delays expire and that functions return, as those of `Workloads` do.
The two hardware modules assume that the clock runs. No fairness is assumed of who wins a
lock, of the program, of new calls, or of interrupt lines.

Nothing deadlocks in the hardware modules, whose clock always ticks. The OS modules
may stop: a thread may wait for itself, and all threads may have ended.

### What the code does not do

Three runs end in a violation: they state something that a comment or an API text says,
and show that the code does otherwise (`findings` in `PROJECT.json` quotes the lines).

| Run | Disagreement |
|---|---|
| `sched_full_hard` | the refusal of `set_slot_num` is ignored: a hard thread without a slot |
| `sched_robust` | terminating a thread in its critical section lets two threads in |
| `hw_armed` | `status` reads `mtie` at bit 30 and writes it from bit 26: enabling interrupts discards an expired timer interrupt |

The same modules state further properties that TLC refutes; no standing run repeats
them. To see one, take the run named last with the change given and the property alone.

| Property | Disagreement | Instance |
|---|---|---|
| `FiniteWaitsReturn` | a delayed acquire with a time-out of 0xFFFFFFF1 to 0xFFFFFFFE never gives up ("Acquire a Mutex or timeout if it is locked.", `cmsis_os2.h`:582): the sum of its delays steps over it and wraps | `mutex` with `MaxNesting = 1` |
| `NoEarlyTimeout` | a spinning acquire whose deadline wraps gives up at its first look at the clock (measured modulo a round of the clock) | `mutex` |
| `DeleteRefusedWhileHeld` | a held mutex can be deleted; its bit stays set | `mutex` |
| `SectionsEnd` | a caller asks for slots by hand within the limit (`scheduler.c`:86), and a thread that changes its own priority meets a full table and freezes in the critical section, for ever with the mutex; or a caller asks for no slot of its own | `sched_shared` |
| `NeverStranded` | with a full table a caller that turns soft is frozen inside the critical section | `sched_full_hard` |
| `SoftThreadsHaveSlot` | a half-created soft thread is counted, no soft slot is allocated, the caller freezes | `sched_shared` with `NThreads = 3`, `NSlots = 5`, `Managers = {0, 1}`, `Tuners = {}`, `Counts = {}` |
| `PriorityMatchesMode` | two priority changes of one thread end with priority and mode in disagreement | `sched_shared` |
| `DistinctIds` | two creators get one hardware thread | `sched_shared` with `Creators = {0, 1}`, 3 threads |
| `ModeWritesKept` | a mode written in the cycle of a wake-up is lost | `hw_sleep` with `Ops` plus `"soft"` |
| `SuspendedSleeps` | a suspended thread is resumed by its old delay | `hw_sleep` |
| `LinesAreRecorded` | an external interrupt is recorded for whichever thread executes | `hw_sleep` |
| `TrapsAreLocal` | a trap of one thread disables the interrupts of all | `hw_armed` with `Ops <- AllOps` |
| `StallsAreOwn` | FENCE.I stalls the thread in execute instead of its own in decode ("only affects same hardware thread", `control.scala`:207) | `pipe_order` with `Program <- Fenced` |
| `HandlersReturn` | the interrupt of the next period comes between the `csrrsi` and the `jalr` of `trap.S`:135, and the `jalr` returns to itself for ever (:87 says "just like sret does") | `timer_calls` with one thread |
| `RunningIsArmed` | a timer is started again while it runs ("Start or restart a timer.", `cmsis_os2.h`:505): the interrupt of the first start, in the middle of the second, leaves a comparator armed for a timer whose block says that it is stopped | `timer_calls` with `Uses = {"restart"}` |
| `RunningIsArmed`, `NoNullCallback` | a callback starts its own timer: the handler goes on as if it had not | `timer_calls` with `Uses = {"callbackStart"}` |
| `RunningIsArmed`, `NoNullCallback` | the comparator of the caller, not of the timer, is armed or disarmed | `timer_calls` with `Uses = {"remote"}` |
| `RunningIsArmed` | a delay takes the comparator from a running timer | `timer_calls` with `Uses = {"delay"}` |
| `NoNullCallback` | osTimerSetFunc stores NULL, which osTimerNew refuses, and the timer can be started | `timer_calls` with `Uses = {"nullFunc"}` |
| `RunsOwnFunction` | a thread that osKernelReset stopped inside `startup.S` goes on with the old stack or argument when it is created again | `thread_life` with `Uses = {"resetAnyTime"}` |
| `InfoStaysInside` | osKernelGetInfo writes behind a buffer of 0, 2, 4 or 6 characters (`cmsis_os2.h`:315 calls the size that of the buffer) | `thread_life` |
| `EnumerateFillsTheList` | osThreadEnumerate leaves out an active thread although the array has room for it (`cmsis_os2.h`:447) | `thread_life` |

Two more are visible in the definitions. `Workloads` maps the digits 2 and 5 of `lcdnum.c`
to the same segments, as the table in the source does (:35 and :41). And a thread that is
terminated between two loads of `startup.S` enters its function with the argument NULL and
runs until its slot is taken; `RunsOwnFunction` leaves terminated threads out.

`hw_armed` and `hw_program` belong together. Taking a timer interrupt does not clear
`mtie`; only the mismatch of the two bit positions clears it, when the handler enables
interrupts again. The slip that `hw_program` must reject aligns the two bits, and then
one expiry is taken for ever: repairing the one needs a repair of the other.

## 4. Proofs

`FlexMutex_proofs` proves, for any set of threads, any nesting bound, any width and pace of
the clock, any period and any time-outs, both kinds of mutex:

| Theorem | States |
|---|---|
| `Invariance` | `IInv`, the inductive invariant |
| `TypeCorrectness` | `TypeOK` |
| `Exclusion` | `MutualExclusion` |
| `Nesting` | `NestingCounted`: `count` is the depth although it is a plain load and store |
| `NoLeak` | `NoLockLeak`: whatever way a call returns, no bit is left set for nobody |
| `BadStatusIsDead` | `NoBadStatus`: the "Bad mutex status" branch is never reached, so the model has no action for it |
| `FreeingIsRelease` | the action property `FreedByLastRelease` |
| `Refinement` | `ImplementsAbstract`: every access is a step of `AbstractMutex` or a stutter |

None of these properties is inductive. Exclusion speaks of callers that hold the mutex,
but the bit is set before the first of them does (between the `csrrw` and the store of
`count`) and `owner` is cleared before the bit is. `IInv` therefore speaks of the
*possessor*: the thread that holds the mutex or is on its way in. There is one exactly
when the bit is set (`BitHasOnePossessor`); `owner` names it from the store on
(`OwnerIsPossessor`); `count` and the register copies are its depth, adjusted by what
its program counter has still to do (`CountIsDepth`); and a thread without possession
is at none of the places where only a holder may be (`PcAgreesWithHeld`). `TypeStep` and
`SafetyStep` have one step for each action. Assumed: `NULL` is no thread, the bounds are
naturals, and (by the shape of the model) threads call the API and are not terminated
inside it; `sched_robust` shows what happens otherwise.

`HwScheduler_proofs` proves, for every number of slots and up to eight threads, and any
sequence of slot and mode writes: `Invariance` (types and one-hot registers together,
which is inductive), `TypeCorrectness`, `RegistersOneHot`, `CyclesUsed`, the action
property of temporal isolation and work conservation, and `BoundedTurns`
(`TurnsAreBounded`). The argument is that
`priorityArbiter` grants exactly one request if there is any (`LeastMember`,
`PriorityArbiterGrants`), hence the masked arbiter does (`RRArbiterGrants`), hence each
register is loaded with one bit; and that an id survives the cut to the low bits of a
slot (`SlotThreadIsOwner`). For the turns, `Passed(i)` is the set of enabled slots on the
way round from slot i to the last grant; the inductive invariant `Turns` is that a slot
waits for no more cycles than its set has members. A grant to another slot adds exactly
that slot to the set (`NextSlot`, `OneMoreTurn`), and the set never holds slot i itself.

`FlexScheduler_proofs` proves, for any number of threads and slots, any division of the
calls among the threads and any counts asked for by hand:

| Theorem | States | Under |
|---|---|---|
| `Invariance`, `TypeCorrectness` | `IInv`; `TypeOK` | |
| `Ownership` | `Exclusion`, the inductive invariant of `slot_mutex` | `HoldersLive` |
| `MutualExclusion` | `SectionsExclusive` | `HoldersLive` |
| `NoLostUpdates` | `SlotsChangeOnlyByRequest` | `HoldersLive` |
| `OneSlotDisabled` | `OneSlotStaysDisabled` | `HoldersLive`, `NThreads < NSlots` |
| `SetSlotNumExact` | a request that is not refused leaves its owner exactly the slots asked for, taken from disabled ones, of which one is left, or given back to them | `SetSlotNumOk`, the code's own test |
| `SlotsAsPromised` | `ImplementsSlots`: every step is a step of `AbstractSlots` or a stutter | `HoldersLive` |

`HoldersLive` says that nobody terminates a thread that calls functions of
`flexpret_scheduler.c`: `thread_clean` frees the mutex of a holder that runs on, and
`sched_robust` shows the two threads in a section. `NThreads < NSlots` is needed because
osKernelStart fills a slot for every hard thread without asking `set_slot_num`.
`SectionsExclusive` is not inductive: osMutexAcquire looks at a bit and at an owner, and
grants the section without either if it finds a free bit with an owner. `Exclusion` says
that the bit is set exactly when somebody is the owner, that the owner is exactly the thread
between the lock and the end of the unlock, and that what any thread has read of the
slot table is still in it. The last part is what makes a late write of the whole
table lose nothing. `Shape` adds that a call's target is a thread, its argument a priority
where one is written, and that only the threads that may call are inside a call. The steps
are sorted into kinds first (`LockSteps`, `SlotWrites`, `ModeWrites`, `StepFrame`), so that a
proof has one step per kind where all actions of a kind act alike. About the operators of
`SlotTable` it proves that `LowestSlots` takes no more than it is asked for
(`LowestAtMost`), that `SetSlotNum` touches the slots of its owner and disabled ones only
(`SetSlotNumTouches`) and leaves one disabled (`SetSlotNumLeavesOne`).

For the refinement, `LowestExactly` shows that `LowestSlots` takes exactly as many slots as
it is asked for when there are that many. With it a write of the table, which is computed
from an earlier read, is one atomic `Resize` of the table that is there now: `Exclusion` says
that the read is still current. `Calm` and `StepKinds` sort the steps into those that enter
or leave the section (`EntersAndLeaves`), write the table (`Resizes`), write a mode
(`ModeChanges`), start the kernel (`Boots`) and those that are not seen. `StartsOnce` says
that osKernelStart is a call of thread 0 that is over when the kernel runs, and
`StartSlotsSingle` that the table it writes gives nobody two slots, which is what `Boot` allows.

`FlexManage_proofs` proves, for any number of threads and slots, what that leaves to each
thread:

| Theorem | States | Under |
|---|---|---|
| `ManagedInvariance` | `Managed`, the inductive invariant of ids and modes | `OneManager` |
| `ModesFollowPriorities` | `PriorityMatchesMode` | `OneManager` |
| `SlottedInvariance` | `Slotted`, the inductive invariant of the slots | `OneManager`, `Room` |
| `SlotsForHardThreads` | `HardThreadHasSlot` | the same |
| `SlotForSoftThreads` | `SoftThreadsHaveSlot` | the same |
| `NobodyIsStranded` | `NeverStranded` | the same |
| `ReapedSlotsComeBack` | `ReapedHasNoSlot` | the same |
| `SoftSlotIsUsed` | `SoftSlotHasUser` | the same |

`OneManager` says that only thread 0 creates, tunes, suspends, joins and terminates threads,
itself included, and that nobody terminates it; the others run, return and exit whenever they
like. All programs of the repository are of this kind but one: the threads of
`TC_ThreadChainedCreate` (`RV_Thread.c`:128) create and join the next, one at a time. With two
threads that change modes the properties fail, as section 3 shows for `PriorityMatchesMode`
and `SoftThreadsHaveSlot`. `Room` says that the table has a slot for every thread, one for the
soft threads and one that stays disabled, and that nobody asks for slots by hand
(`test_extend.c`:250 does). With the eight slots of the code these are programs of up to six
threads, so every program for the processor with four of them (`flexpret_threads.h`:90);
`sched_full_hard` shows that the properties fail in a full table. `SchedManage.cfg` is an
instance of both assumptions.

`Managed` says that the others are never inside a call of `flexpret_scheduler.c`
(`OthersRun`), that ids are handed out in order and a thread under creation sleeps
(`IdsInOrder`), and that each mode is that of the recorded priority but for the thread that is
being changed, for which it says at which write of the call which of the two is ahead
(`ModesMatch`). `Slotted` says that nobody has two slots (`Single`), which makes the table
predictable: a request for one slot adds one and cannot be refused, because a table in which
one of the n + 1 possible owners has none uses at most n slots (`ActiveBound`, a pigeonhole
argument), and a request for none takes one (`SetSlotNumGives`). `Served` is the property
without its exceptions for pending calls. It is inductive only together with what the call has
counted and given before: `otherSoft` still says whether another soft thread lives or may be
recorded as one (`Counted`), what was given is there and what was taken is gone
(`GivenSlots`), and a soft slot has a user besides the thread that is going
(`SoftSlotUsed`). The soft thread that is counted may return at any moment, which is why
the two sides of `Counted` differ: a thread found soft stays one that nobody has reaped, a
thread found hard or returned stays so. Writes of the modes, writes of the table, steps of
others and moves between calls are lemmas of their own (`WritesKeepSlotted`,
`RewritesKeepSlotted`, `OthersKeepSlotted`, `MovesKeepSlotted`, `CallsKeepSlotted`).

`HwTimer_proofs` proves, for every number of threads, every width and increment of the
clock, any program and any wiring of the interrupt lines: `Invariance`, `TypeCorrectness`,
`WakingOnTime` (`WakesOnTime`), `InterruptsAreAsked` (`NoStaleInterrupt`) and
`DelaysAreNotCut` (`NeverEarly`). Assumed of the clock is that it counts modulo an even number
in steps of at most half of it, and of the program that compare times lie within half the range:
the code's comparison is of the top bit of a difference and cannot tell more. `IInv`
connects the registers with the unwrapped distance `due` (`Linked`), says that
a sleeper nobody suspended is armed and not late (`OnTime`), and that an interrupt that can be taken
has its `interrupt_expire` and no second one behind it (`Asked`).

`Pipeline_proofs` proves, for any number of threads and addresses, any programs, branch
targets and trap handler: `Invariance`, `TypeCorrectness`, `ProgramOrder` (`InOrder`) and
`CurrentOperands` (`OperandsAreCurrent`). The properties speak of the execute stage. `Ordered`
says of each thread that what it has in execute, in decode and behind its program counter
follow each other from the next instruction of the sequential machine on, and that after a trap
there is nothing of it until the redirection. `Forwarded` says where the last value of
its register is: in the memory stage, in the register file, or in the operand that decode has
read. Under `NoFences`, that no program contains FENCE.I, it also proves `SleepIsRest`
(`SleepersRest`) and `BoundedLoss` (`LossIsBounded`) with the
second invariant `Kept`, that a sleeper is killed in every stage it is still fetched into
(`Rests`) and that lost fetches and fetches to lose stay within the bound (`Bounded`). FENCE.I
stalls the thread in execute instead of its own, so the assumption is needed.

`FlexThreads_proofs` proves, for every number of threads and of creations, under the
contract (`"resetAnyTime" \notin Uses` is an assumption of each theorem): `Invariance`,
`TypeCorrectness`, `OwnFunction` (`RunsOwnFunction`), `OneRun` (`EachLifeRunsOnce`) and
`PassedThreadsAreDone` (`PassedMeansAllDone`). That a
thread runs what it was given says nothing of the loads that lead there, nor of who may
write the block meanwhile. `IInv` adds that whoever has not been taken by osThreadNew has no
function and no slot (`FreeIsUntouched`, `RawIsUntouched`), that a thread is not scheduled
while its block is filled or cleared (`CreatingIsQuiet`, `ResetIsQuiet`), that what
`startup.S` has loaded and has still to load is of the last creation (`ReadsOwnBlock`), and
that a function that has run is gone before `func` is looked at again (`RanMeansCleared`).
`CreatingIsQuiet` is what makes the order func, state, arg of osThreadNew harmless. For the
end of the simulation, `Ended` says that a thread that was started and not terminated has
run once its block is cleared (`ClearedMeansDone`), and that the loops of thread 0 have found
every block they have passed cleared (`LoopsHaveSeen`); `EndInvariance` proves it.
`ThreadsAsPromised` is the refinement (`ImplementsThreads`). `IInv` and `Ended` give each seen
step the guard of its counterpart: the loads of `startup.S` are those of the creation that the
abstract thread was given, a join that returns has seen the end of the function, a reset finds
nobody running, and behind a wait PASSED is written when nothing is left to run. Of a main
that returns earlier nothing is claimed but that it does. All other steps leave phases,
jobs, reaping and PASSED alone.

`FlexTimer_proofs` proves, for every set of threads and of ticks, under the contract
(`Uses = {}`): `Invariance`, `TypeCorrectness`, `Agreement` (`RunningIsArmed`) and
`CallbackExists` (`NoNullCallback`). `RunningIsArmed` speaks of a thread that is in no call
and no handler; the invariant `Shape` says for every step of a call (`CallShape`) and of a
handler (`HandlerShape`, `RearmShape`) how far ticks, comparator and function have got, for
which a timer that runs or is armed must be complete (`TimerIsComplete`). The proof has three
lemmas with one step for each action: a step of a thread keeps the types
(`OwnKeepsTypes`), leaves the timers of the others alone but for disabling their interrupts
(`OwnLeavesOthers`), and keeps its own shape (`OwnKeepsShape`). A tick keeps all of it,
whatever a handler is about (`TickKeeps`): a comparison that expires under it is pending or
`missed`.

`TimersAsPromised` is the refinement (`ImplementsTimers`). It needs more of the invariant than
agreement does: that the handler in the vector is the one of the timer's type, that the
comparison is over when the function is called, and that what osTimerStart writes to `compare`
is what it was asked for. Then a step of one thread leaves the timers of all others as they
look to the caller (`OthersLookSame`, `OneLooks`), and what it does to its own is one step of
`AbstractTimers` (`OwnMoves`, `MovesAreSteps`) or not seen at all (`Unseen`); a trap rings and
makes others deaf (`TrapRings`) unless they are in the shelter of their own handler
(`Sheltered`), the end of a callback makes its own thread deaf (`ReturnDeafens`), enabling
interrupts loses the alarm that waits (`EnablingHears`), and a tick brings every alarm nearer at once (`TimePasses`).

Only model-checked: all liveness (`BoundedCallsReturn`, `FreeLockIsTaken`,
`WaitersAreServed`, `ServedThreadsRun`, `SleepersWake`, `StartedFires`,
`NewThreadsRun`), which needs fairness and ENABLED, which the prover does not handle;
`NobodyFreezesTheHolder`, whose proof is open; and what the operators of `Workloads` and `Utilities` compute (`ProgramsCompute`,
`UtilitiesHold`), which needs induction over data. All other properties of the passing runs
are theorems. The type invariants (`TypeOK`) are theorems only: no run repeats them. No module uses a recursive operator; recursion is in recursive functions and
folds.

## 5. Plan

Done: 1. `AbstractMutex`, `FlexMutex`; 2. `SlotTable`, `FlexScheduler`; 3. `HwScheduler`;
4. `HwTimer`; 5. `Pipeline`; 6. `FlexThreads`; 7. `FlexTimer`, which has the steps of `trap.S`
too; 8. `Utilities`, `Workloads`; 9. `AbstractSlots`, `AbstractThreads` and `AbstractTimers`,
which the modules of the operating system implement. All but `Utilities` and `Workloads` have
proofs.

Open, in this order:

10. `MutexPool` (osMutexNew from several threads); `HwDeadline` (mt and fd).
11. Timers of threads that are terminated and recycled: `FlexTimer` beside `FlexThreads`.

Proofs done: every safety property that a passing run checks, the refinements included, but for
`ProgramsCompute`, `UtilitiesHold` and `NobodyFreezesTheHolder`. Open: the last of these; the slots when several threads create and tune, one
at a time (`TC_ThreadChainedCreate`), where `Managed` would follow the owner of `slot_mutex`
instead of thread 0; `Room` weakened from the number of threads to the number of hard ones.

Not planned. The load/store unit, the multiplier, the scratchpads and the decode tables are
combinational or pure storage: what they compute is data to the properties here. The
memory and GPIO protection registers and the privileged mode are not configured by the
repository's build. The test programs are clients: the contracts above are how they use the
API. The UART is third-party, the emulator and the generated Verilog repeat the design.
