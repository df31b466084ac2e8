------------------------------ MODULE Pipeline ------------------------------
(***************************************************************************)
(* The five-stage pipeline that the hardware threads share (control.scala  *)
(* and the program counters, pipeline registers and bypasses of            *)
(* datapath.scala) in the flexible configuration: threads interleave in    *)
(* any order, traps and the schedule take effect a cycle late (regEvec,    *)
(* regSchedule), operands are forwarded.                                   *)
(*                                                                         *)
(* A step is one clock cycle.  The action names what the execute stage     *)
(* does; the rest of the pipeline moves with it.  An instruction is one of *)
(* five kinds: "alu" (its result is ready in execute; CSR accesses count   *)
(* here), "load" (loads and multiplications, ready one stage later),       *)
(* "branch" (and jumps), "du" (and WU, whose operand OP2_4 has no case in  *)
(* datapath.scala: both branch to themselves) and "fence" (FENCE.I).  Any  *)
(* instruction may trap.  Each thread has one register, which "alu" and    *)
(* "load" write and all read; a value is 0 or 1.  An invalid instruction   *)
(* in decode or execute is a bubble, whose address and operands are left   *)
(* out, as is the data of an instruction that writes nothing.              *)
(*                                                                         *)
(* apc and areg serve the properties: program counter and register of a    *)
(* machine that executes one instruction after the other.  So does lost,   *)
(* the fetches in a row that a thread lost.                                *)
(***************************************************************************)
EXTENDS Naturals

CONSTANTS
  Threads,  (* the hardware threads                                        *)
  PcMod,    (* instruction addresses, counted in instructions              *)
  Targets,  (* where branches go                                           *)
  Evec,     (* the trap handler                                            *)
  Program   (* what each thread's program contains: kinds of instructions, *)
            (* and traps                                                   *)

Pcs    == 0 .. PcMod - 1

(* What the ALU computes is not modelled: any of two values. *)
Values == {0, 1}

(* What the stages tell apart in decode_table.  Whatever writes rd from the *)
(* execute stage is "alu"; "load" is a load or a multiplication; jumps are  *)
(* taken branches, their link left out; stores, FENCE and the rest go on    *)
(* like branches that are not taken; SCALL and illegal codes trap.          *)
Kinds  == {"alu", "load", "branch", "du", "fence"}
bubble == "bubble"

ASSUME PipelineAssumption ==
  /\ PcMod \in Nat \ {0}
  /\ Evec \in Pcs /\ Targets \subseteq Pcs
  /\ Program \in [Threads -> SUBSET (Kinds \cup {"trap"})]

VARIABLES
  next,     (* next_tid, next_valid: the schedule, one cycle late          *)
  pcs,      (* if_reg_pcs: the program counter of each thread              *)
  fetch,    (* if_reg_tid, _pc, _valid                                     *)
  dec,      (* dec_reg_*, with the operand that the register file returns  *)
  exe,      (* exe_reg_*, with the operand and rd_write                    *)
  mem,      (* mem_reg_*, with exception, rd_write and the result          *)
  wb,       (* wb_reg_*                                                    *)
  stall,    (* stall_count                                                 *)
  regfile,  (* the register of each thread                                 *)
  asleep,   (* the thread is a zombie since its DU                         *)
  apc, areg, lost

vars == <<next, pcs, fetch, dec, exe, mem, wb, stall, regfile, asleep, apc, areg, lost>>

LossBound == 3

Init ==
  \E t \in Threads :
    /\ next = [tid |-> t, valid |-> FALSE]
    /\ pcs = [u \in Threads |-> 0]
    /\ fetch = [tid |-> t, pc |-> 0, valid |-> FALSE]
    /\ dec = [tid |-> t, pc |-> 0, kind |-> bubble, rs |-> 0]
    /\ exe = [tid |-> t, pc |-> 0, kind |-> bubble, rs |-> 0, rd |-> FALSE]
    /\ mem = [tid |-> t, exc |-> FALSE, rd |-> FALSE, valid |-> FALSE, data |-> 0]
    /\ wb = [tid |-> t, rd |-> FALSE, data |-> 0]
    /\ stall = [u \in Threads |-> 0]
    /\ regfile \in [Threads -> Values]
    /\ asleep = [u \in Threads |-> FALSE]
    /\ apc = pcs /\ areg = regfile
    /\ lost = [u \in Threads |-> 0]

-----------------------------------------------------------------------------
(***************************************************************************)
(* Validity and program counters                                           *)
(***************************************************************************)

WritesRd(kind) == kind \in {"alu", "load"}
TwoCycles(kind) == kind \in {"load", "fence"}

(* if_pre_valid: neither the instruction in decode nor a multi-cycle stall
   holds the fetch back.                                                   *)
FetchGoesOn ==
  /\ fetch.valid
  /\ ~ (TwoCycles(dec.kind) /\ dec.tid = fetch.tid)
  /\ stall[fetch.tid] = 0

(* if_valid and dec_valid. *)
FetchValid(flush) == FetchGoesOn /\ ~ (flush /\ fetch.tid = exe.tid)
DecValid(flush)   == dec.kind # bubble /\ ~ (flush /\ dec.tid = exe.tid)

(* next_pc_sel and next_pcs: the later stage wins. *)
NextPcs(jump, address) ==
  [t \in Threads |->
     IF mem.exc /\ t = mem.tid THEN Evec
     ELSE IF jump /\ t = exe.tid THEN address
     ELSE IF FetchGoesOn /\ t = fetch.tid THEN (fetch.pc + 1) % PcMod
     ELSE pcs[t]]

Decremented(n) == IF n = 0 THEN 0 ELSE n - 1

(* Slip: the cycle in which the late schedule still fetches is forgotten. *)
StallsTooShort(exc, sleep) ==
  [t \in Threads |->
     IF t # exe.tid THEN Decremented(stall[t])
     ELSE IF exc THEN 1
     ELSE IF dec.kind = "fence" THEN 1
     ELSE IF sleep THEN 1
     ELSE Decremented(stall[t])]

(* Slip: the fetch that the late trap handler address misses goes on. *)
StallsNotForTraps(exc, sleep) ==
  [t \in Threads |->
     IF t # exe.tid THEN Decremented(stall[t])
     ELSE IF sleep THEN 2
     ELSE Decremented(stall[t])]

(* Slip: a stall does not end. *)
StallsForever(exc, sleep) ==
  [t \in Threads |->
     IF t # exe.tid THEN stall[t]
     ELSE IF exc THEN 1
     ELSE IF sleep THEN 2
     ELSE stall[t]]

(* stall_count: each of the three cases assigns the count of exe_tid, the
   last of them wins.                                                      *)
Stalls(exc, sleep) ==
  [t \in Threads |->
     IF t # exe.tid THEN Decremented(stall[t])
     ELSE IF exc THEN 1
     ELSE IF dec.kind = "fence" THEN 1
     ELSE IF sleep THEN 2
     ELSE Decremented(stall[t])]

-----------------------------------------------------------------------------
(***************************************************************************)
(* Operands                                                                *)
(***************************************************************************)

(* Slip: nothing is forwarded from write-back. *)
OperandsNotFromWb(results) ==
  IF dec.tid = exe.tid /\ exe.rd THEN results
  ELSE IF dec.tid = mem.tid /\ mem.rd THEN {mem.data}
  ELSE {dec.rs}

(* dec_rs1_sel: the youngest older instruction that writes the register.
   results holds what exe_rd_data may be.                                  *)
Operands(results) ==
  IF dec.tid = exe.tid /\ exe.rd THEN results
  ELSE IF dec.tid = mem.tid /\ mem.rd THEN {mem.data}
  ELSE IF dec.tid = wb.tid /\ wb.rd THEN {wb.data}
  ELSE {dec.rs}

(* The register file reads what was stored before the cycle. *)
WriteBack ==
  /\ regfile' = IF mem.rd /\ mem.valid THEN [regfile EXCEPT ![mem.tid] = mem.data]
                ELSE regfile
  /\ wb' = [tid |-> mem.tid, rd |-> mem.rd /\ mem.valid, 
                 data |-> IF mem.rd /\ mem.valid THEN mem.data ELSE 0]

-----------------------------------------------------------------------------
(***************************************************************************)
(* A cycle: every stage moves, and the execute stage traps (exc), goes to  *)
(* an address (jump), falls asleep, or forwards one of the results and     *)
(* hands data to the memory stage.                                         *)
(***************************************************************************)

(* Any awake thread, as HwScheduler serves it, or nobody. *)
Schedule ==
  next' \in [tid : {t \in Threads : ~ asleep[t]}, valid : {TRUE}]
            \cup [tid : Threads, valid : {FALSE}]

(* Fetches in a row that t lost, in cycles that granted t the fetch. *)
LostFetches(t, flush) ==
  IF ~ fetch.valid \/ t # fetch.tid THEN lost[t]
  ELSE IF FetchValid(flush) THEN 0
  ELSE IF lost[t] > LossBound THEN lost[t] ELSE lost[t] + 1

Advance(exc, jump, address, sleep, results, data) ==
  LET flush == exc \/ jump
  IN  /\ Schedule
      /\ pcs' = NextPcs(jump, address)
      /\ fetch' = [tid |-> next.tid, pc |-> NextPcs(jump, address)[next.tid],
                   valid |-> next.valid]
      /\ IF FetchValid(flush)
           THEN \E kind \in Program[fetch.tid] \cap Kinds :
                  dec' = [tid |-> fetch.tid, pc |-> fetch.pc, kind |-> kind,
                          rs |-> regfile[fetch.tid]]
           ELSE dec' = [tid |-> fetch.tid, pc |-> 0, kind |-> bubble, rs |-> 0]
      /\ IF DecValid(flush)
           THEN \E operand \in Operands(results) :
                  exe' = [tid |-> dec.tid, pc |-> dec.pc, kind |-> dec.kind,
                          rs |-> operand, rd |-> WritesRd(dec.kind)]
           ELSE exe' = [tid |-> dec.tid, pc |-> 0, kind |-> bubble,
                        rs |-> 0, rd |-> WritesRd(dec.kind)]
      /\ mem' = [tid |-> exe.tid, exc |-> exc, rd |-> exe.rd /\ exe.kind # bubble,
                 valid |-> exe.kind # bubble /\ ~ exc, data |-> data]
      /\ WriteBack
      /\ stall' = Stalls(exc, sleep)
      /\ asleep' \in [Threads -> BOOLEAN]
      /\ \A t \in Threads : asleep'[t] => asleep[t] \/ (sleep /\ t = exe.tid)
      /\ lost' = [t \in Threads |-> LostFetches(t, flush)]

Executes(kind) == exe.kind = kind

(* The sequential machine goes on to the address and writes the value. *)
Retires(address, value) ==
  /\ apc' = [apc EXCEPT ![exe.tid] = address]
  /\ areg' = [areg EXCEPT ![exe.tid] = value]

Bubble ==
  /\ Executes(bubble)
  /\ Advance(FALSE, FALSE, 0, FALSE, Values, 0)
  /\ UNCHANGED <<apc, areg>>

Alu(value) ==
  /\ Executes("alu")
  /\ Advance(FALSE, FALSE, 0, FALSE, {value}, value)
  /\ Retires((apc[exe.tid] + 1) % PcMod, value)

(* In execute a load has its address only. *)
Load(value) ==
  /\ Executes("load")
  /\ Advance(FALSE, FALSE, 0, FALSE, Values, value)
  /\ Retires((apc[exe.tid] + 1) % PcMod, value)

BranchTaken(address) ==
  /\ Executes("branch")
  /\ Advance(FALSE, TRUE, address, FALSE, Values, 0)
  /\ Retires(address, areg[exe.tid])

(* The compare time is in the future: sleep, and stay at the DU. *)
DelaySleeps ==
  /\ Executes("du")
  /\ Advance(FALSE, TRUE, exe.pc, TRUE, Values, 0)
  /\ UNCHANGED <<apc, areg>>

(* A branch that is not taken, a DU whose time has come, a FENCE.I. *)
Continue ==
  /\ exe.kind \in {"branch", "du", "fence"}
  /\ Advance(FALSE, FALSE, 0, FALSE, Values, 0)
  /\ Retires((apc[exe.tid] + 1) % PcMod, areg[exe.tid])

(* The instruction is killed.  exe_brjmp and exe_du do not look at the
   exception, so a branch or a DU may redirect as it traps.                *)
Trap(jump, address) ==
  /\ exe.kind # bubble /\ "trap" \in Program[exe.tid]
  /\ jump => exe.kind \in {"branch", "du"}
  /\ Advance(TRUE, jump, address, FALSE, Values, 0)
  /\ Retires(Evec, areg[exe.tid])

Cycle ==
  \/ Bubble
  \/ \E value \in Values : Alu(value) \/ Load(value)
  \/ \E address \in Targets : BranchTaken(address) \/ Trap(TRUE, address)
  \/ DelaySleeps
  \/ Continue
  \/ Trap(FALSE, 0)

Spec == Init /\ [][Cycle]_vars

-----------------------------------------------------------------------------
(***************************************************************************)
(* Properties                                                              *)
(***************************************************************************)

TypeOK ==
  /\ next \in [tid : Threads, valid : BOOLEAN]
  /\ pcs \in [Threads -> Pcs]
  /\ fetch \in [tid : Threads, pc : Pcs, valid : BOOLEAN]
  /\ dec \in [tid : Threads, pc : Pcs, kind : Kinds \cup {bubble}, rs : Values]
  /\ exe \in [tid : Threads, pc : Pcs, kind : Kinds \cup {bubble}, rs : Values,
              rd : BOOLEAN]
  /\ mem \in [tid : Threads, exc : BOOLEAN, rd : BOOLEAN, valid : BOOLEAN,
              data : Values]
  /\ wb \in [tid : Threads, rd : BOOLEAN, data : Values]
  /\ stall \in [Threads -> 0 .. 2]
  /\ regfile \in [Threads -> Values]
  /\ asleep \in [Threads -> BOOLEAN]
  /\ apc \in [Threads -> Pcs]
  /\ areg \in [Threads -> Values]
  /\ lost \in [Threads -> 0 .. LossBound + 1]

(* Every thread executes its own program in order, however the threads
   interleave: what comes valid to the execute stage is the next
   instruction of its thread.  Nothing is skipped, repeated or executed
   from behind a taken branch, a trap or a delay.                          *)
InOrder == exe.kind # bubble => exe.pc = apc[exe.tid]

(* The bypasses give each instruction the value that its thread wrote
   last, although up to three writes are on their way.                     *)
OperandsAreCurrent == exe.kind # bubble => exe.rs = areg[exe.tid]

(* A thread executes nothing between a DU that finds its time in the
   future and its wake-up, although it is fetched for two more cycles.     *)
SleepersRest == exe.kind # bubble => ~ asleep[exe.tid]

(* "only affects same hardware thread" (control.scala:207): whatever stalls
   a thread is an instruction of its own in decode or execute.  A FENCE.I in
   decode stalls whichever thread is in execute.                           *)
StallsAreOwn ==
  [][\A t \in Threads :
       stall'[t] > stall[t] => \/ exe.kind # bubble /\ exe.tid = t
                               \/ dec.kind # bubble /\ dec.tid = t]_vars

(* A thread loses at most LossBound fetches in a row: the pipeline delays
   its next instruction by a number of its own cycles that is known.       *)
LossIsBounded == \A t \in Threads : lost[t] <= LossBound
=============================================================================
