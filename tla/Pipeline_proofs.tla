-------------------------- MODULE Pipeline_proofs --------------------------
(***************************************************************************)
(* Proofs about Pipeline for any number of threads, any programs, branch   *)
(* targets and trap handler: every thread executes its own program in      *)
(* order and on current operands.  Where no program contains FENCE.I (its  *)
(* stall strikes the wrong thread) a sleeping thread rests, the fetches    *)
(* that a thread loses in a row are bounded, and it loses them by its own  *)
(* instructions.                                                           *)
(***************************************************************************)
EXTENDS Pipeline, TLAPS

-----------------------------------------------------------------------------
(***************************************************************************)
(* The inductive invariant, for one thread                                 *)
(***************************************************************************)

Succ(pc) == (pc + 1) % PcMod

(* The thread has a valid instruction in execute, in decode. *)
InExe(t) == exe.kind # bubble /\ exe.tid = t
InDec(t) == dec.kind # bubble /\ dec.tid = t

(* Its trap was in execute a cycle ago and is to redirect it now. *)
Trapped(t) == mem.exc /\ mem.tid = t

(* A value of the thread's is on its way to the register file, or was
   stored there in the last cycle.                                         *)
MemWrites(t) == mem.rd /\ mem.valid /\ mem.tid = t
WbWrites(t)  == wb.rd /\ wb.tid = t

(* The instructions of the thread in execute, in decode and behind its     *)
(* program counter follow each other from apc on.                          *)
Ordered(t) ==
  /\ InExe(t) => exe.pc = apc[t]
  /\ InDec(t) => dec.pc = IF InExe(t) THEN Succ(apc[t]) ELSE apc[t]
  /\ ~ Trapped(t) =>
       pcs[t] = IF InExe(t) /\ InDec(t) THEN Succ(Succ(apc[t]))
                ELSE IF InExe(t) \/ InDec(t) THEN Succ(apc[t])
                ELSE apc[t]
  /\ Trapped(t) => apc[t] = Evec /\ ~ InExe(t) /\ ~ InDec(t) /\ stall[t] # 0
  /\ fetch.tid = t => fetch.pc = pcs[t]

(* Where the last value of the thread's register is: in the memory stage,  *)
(* in the register file, and in decode unless it can be forwarded.         *)
Forwarded(t) ==
  /\ InExe(t) => exe.rs = areg[t] /\ (exe.rd <=> WritesRd(exe.kind))
  /\ InDec(t) /\ InExe(t) => ~ TwoCycles(exe.kind)
  /\ InDec(t) /\ exe.tid = t /\ exe.rd => InExe(t)
  /\ InDec(t) /\ mem.tid = t /\ mem.rd => mem.valid
  /\ MemWrites(t) => mem.data = areg[t]
  /\ WbWrites(t) => wb.data = regfile[t]
  /\ ~ MemWrites(t) => regfile[t] = areg[t]
  /\ InDec(t) /\ ~ MemWrites(t) /\ ~ WbWrites(t) => dec.rs = areg[t]

IInv == TypeOK /\ \A t \in Threads : Ordered(t) /\ Forwarded(t)

(* What the late schedule still fetches for a sleeping thread is killed.   *)
Rests(t) ==
  asleep[t] =>
    /\ ~ InExe(t) /\ ~ InDec(t)
    /\ fetch.tid = t /\ fetch.valid => stall[t] # 0
    /\ next.tid = t /\ next.valid => stall[t] = 2

(* The fetches lost so far and those still to lose. *)
Bounded(t) ==
  /\ InDec(t) => lost[t] = 0 /\ stall[t] = 0
  /\ InExe(t) => stall[t] = 0 /\ lost[t] <= (IF TwoCycles(exe.kind) THEN 1 ELSE 0)
  /\ stall[t] + lost[t] <= LossBound

(* No program contains FENCE.I. *)
NoFences == \A t \in Threads : "fence" \notin Program[t]

-----------------------------------------------------------------------------
(***************************************************************************)
(* What a cycle does                                                       *)
(***************************************************************************)

(* A cycle in which the execute stage traps, goes to an address, falls     *)
(* asleep or produces a value, and what the sequential machine does.       *)
Executed(exc, jump, address, sleep, results, data) ==
  /\ Advance(exc, jump, address, sleep, results, data)
  /\ exc \in BOOLEAN /\ jump \in BOOLEAN /\ sleep \in BOOLEAN
  /\ exe.kind = bubble =>
       ~ exc /\ ~ jump /\ ~ sleep /\ UNCHANGED <<apc, areg>>
  /\ jump => address \in Pcs
  /\ sleep => exe.kind = "du" /\ jump /\ ~ exc
  /\ results \subseteq Values /\ data \in Values
  /\ exe.kind # bubble =>
       /\ apc' = [apc EXCEPT ![exe.tid] =
                    IF exc THEN Evec ELSE IF jump THEN address
                    ELSE Succ(apc[exe.tid])]
       /\ areg' = [areg EXCEPT ![exe.tid] =
                     IF WritesRd(exe.kind) /\ ~ exc THEN data ELSE areg[exe.tid]]
  /\ exe.kind = "alu" /\ ~ exc => results = {data}

(* The kinds of instructions differ from each other and from a bubble. *)
LEMMA KindsDiffer ==
  /\ bubble \notin Kinds
  /\ \A kind : WritesRd(kind) => kind \in Kinds
  /\ \A kind : WritesRd(kind) /\ ~ TwoCycles(kind) => kind = "alu"
  BY DEF bubble, Kinds, WritesRd, TwoCycles

(* Addresses and values. *)
LEMMA Numbers ==
  /\ PcMod \in Nat \ {0} /\ Evec \in Pcs /\ 0 \in Pcs
  /\ \A pc \in Pcs : Succ(pc) \in Pcs
  /\ 0 \in Values
<1>1. PcMod \in Nat \ {0} /\ Evec \in Pcs
  BY PipelineAssumption
<1>2. \A pc \in 0 .. PcMod - 1 : (pc + 1) % PcMod \in 0 .. PcMod - 1
  BY <1>1
<1>. QED  BY <1>1, <1>2 DEF Pcs, Succ, Values

(* Every cycle is one of these. *)
LEMMA CycleExecutes ==
  ASSUME IInv, Cycle
  PROVE  \E exc, jump, address, sleep, results, data :
           Executed(exc, jump, address, sleep, results, data)
<1>1. /\ exe.tid \in Threads /\ exe.kind \in Kinds \cup {bubble}
      /\ exe.kind # bubble => exe.pc = apc[exe.tid]
      /\ exe.pc \in Pcs
      /\ apc \in [Threads -> Pcs] /\ areg \in [Threads -> Values]
  BY DEF IInv, TypeOK, Ordered, InExe
<1>2. /\ apc = [apc EXCEPT ![exe.tid] = apc[exe.tid]]
      /\ areg = [areg EXCEPT ![exe.tid] = areg[exe.tid]]
  BY <1>1
<1>3. /\ Targets \subseteq Pcs /\ Values \subseteq Values
      /\ \A value \in Values : {value} \subseteq Values
      /\ 0 \in Values /\ 0 \in Pcs
  BY PipelineAssumption, Numbers
<1>4. CASE Bubble
  <2>1. Executed(FALSE, FALSE, 0, FALSE, Values, 0)
    BY <1>3, <1>4 DEF Bubble, Executes, Executed, bubble
  <2>. QED  BY <2>1
<1>5. ASSUME NEW value \in Values, Alu(value)
      PROVE  Executed(FALSE, FALSE, 0, FALSE, {value}, value)
  BY <1>3, <1>5 DEF Alu, Executes, Retires, Executed, Succ, WritesRd, bubble
<1>6. ASSUME NEW value \in Values, Load(value)
      PROVE  Executed(FALSE, FALSE, 0, FALSE, Values, value)
  BY <1>3, <1>6 DEF Load, Executes, Retires, Executed, Succ, WritesRd, bubble
<1>7. ASSUME NEW address \in Targets, BranchTaken(address)
      PROVE  Executed(FALSE, TRUE, address, FALSE, Values, 0)
  BY <1>3, <1>7 DEF BranchTaken, Executes, Retires, Executed, WritesRd, bubble
<1>8. CASE DelaySleeps
  <2>1. exe.kind = "du" /\ exe.kind # bubble
    BY <1>8 DEF DelaySleeps, Executes, bubble
  <2>2. /\ apc' = [apc EXCEPT ![exe.tid] = exe.pc]
        /\ areg' = [areg EXCEPT ![exe.tid] = areg[exe.tid]]
    BY <1>1, <1>2, <1>8, <2>1 DEF DelaySleeps
  <2>3. Executed(FALSE, TRUE, exe.pc, TRUE, Values, 0)
    BY <1>1, <1>3, <1>8, <2>1, <2>2 DEF DelaySleeps, Executed, WritesRd
  <2>. QED  BY <2>3
<1>9. CASE Continue
  <2>1. exe.kind # bubble /\ ~ WritesRd(exe.kind)
    BY <1>9 DEF Continue, bubble, WritesRd
  <2>2. Executed(FALSE, FALSE, 0, FALSE, Values, 0)
    BY <1>3, <1>9, <2>1 DEF Continue, Retires, Executed, Succ, WritesRd
  <2>. QED  BY <2>2
<1>10. ASSUME NEW jump \in BOOLEAN, NEW address \in Pcs, Trap(jump, address)
       PROVE  Executed(TRUE, jump, address, FALSE, Values, 0)
  BY <1>3, <1>10 DEF Trap, Retires, Executed
<1>11. (\E address \in Targets : Trap(TRUE, address)) \/ Trap(FALSE, 0) =>
         \E jump \in BOOLEAN, address \in Pcs : Trap(jump, address)
  BY <1>3
<1>. QED
  BY <1>4, <1>5, <1>6, <1>7, <1>8, <1>9, <1>10, <1>11 DEF Cycle

-----------------------------------------------------------------------------
(***************************************************************************)
(* What a cycle does to one thread                                         *)
(***************************************************************************)

(* A cycle keeps the types. *)
LEMMA ExecutedTypes ==
  ASSUME IInv, NEW exc, NEW jump, NEW address, NEW sleep, NEW results, NEW data,
         Executed(exc, jump, address, sleep, results, data)
  PROVE  TypeOK'
<1> DEFINE flush == exc \/ jump
<1>1. TypeOK
  BY DEF IInv
<1>2. /\ Advance(exc, jump, address, sleep, results, data)
      /\ exc \in BOOLEAN /\ jump \in BOOLEAN /\ sleep \in BOOLEAN
      /\ jump => address \in Pcs
      /\ results \subseteq Values /\ data \in Values
  BY DEF Executed
<1>3. next' \in [tid : Threads, valid : BOOLEAN]
  BY <1>2 DEF Advance, Schedule
<1>4. pcs' \in [Threads -> Pcs]
  <2>1. \A t \in Threads : NextPcs(jump, address)[t] \in Pcs
    <3>1. (fetch.pc + 1) % PcMod \in Pcs
      BY <1>1, Numbers DEF TypeOK, Succ
    <3>. QED  BY <1>1, <1>2, <3>1, Numbers DEF TypeOK, NextPcs
  <2>2. NextPcs(jump, address) = [t \in Threads |-> NextPcs(jump, address)[t]]
    BY DEF NextPcs
  <2>. QED  BY <1>2, <2>1, <2>2 DEF Advance
<1>5. fetch' \in [tid : Threads, pc : Pcs, valid : BOOLEAN]
  BY <1>1, <1>2, <1>4 DEF Advance, TypeOK
<1>6. dec' \in [tid : Threads, pc : Pcs, kind : Kinds \cup {bubble}, rs : Values]
  <2>1. CASE FetchValid(flush)
    <3>1. PICK kind \in Program[fetch.tid] \cap Kinds :
            dec' = [tid |-> fetch.tid, pc |-> fetch.pc, kind |-> kind,
                    rs |-> regfile[fetch.tid]]
      BY <1>2, <2>1 DEF Advance
    <3>. QED  BY <1>1, <3>1 DEF TypeOK
  <2>2. CASE ~ FetchValid(flush)
    BY <1>1, <1>2, <2>2, Numbers DEF TypeOK, Advance
  <2>. QED  BY <2>1, <2>2
<1>7. exe' \in [tid : Threads, pc : Pcs, kind : Kinds \cup {bubble}, rs : Values,
                rd : BOOLEAN]
  <2>1. CASE DecValid(flush)
    <3>1. PICK operand \in Operands(results) :
            exe' = [tid |-> dec.tid, pc |-> dec.pc, kind |-> dec.kind,
                    rs |-> operand, rd |-> WritesRd(dec.kind)]
      BY <1>2, <2>1 DEF Advance
    <3>2. operand \in Values
      BY <1>1, <1>2 DEF Operands, TypeOK
    <3>. QED  BY <1>1, <3>1, <3>2 DEF TypeOK, WritesRd
  <2>2. CASE ~ DecValid(flush)
    <3>1. exe' = [tid |-> dec.tid, pc |-> 0, kind |-> bubble, rs |-> 0,
                  rd |-> WritesRd(dec.kind)]
      BY <1>2, <2>2 DEF Advance
    <3>2. dec.tid \in Threads /\ WritesRd(dec.kind) \in BOOLEAN
      BY <1>1 DEF TypeOK, WritesRd
    <3>. QED  BY <3>1, <3>2, Numbers
  <2>. QED  BY <2>1, <2>2
<1>8. mem' \in [tid : Threads, exc : BOOLEAN, rd : BOOLEAN, valid : BOOLEAN,
                data : Values]
  BY <1>1, <1>2 DEF Advance, TypeOK
<1>9. /\ wb' \in [tid : Threads, rd : BOOLEAN, data : Values]
      /\ regfile' \in [Threads -> Values]
  <2>1. /\ mem.tid \in Threads /\ mem.rd \in BOOLEAN /\ mem.valid \in BOOLEAN
        /\ mem.data \in Values /\ regfile \in [Threads -> Values]
    BY <1>1 DEF TypeOK
  <2>2. WriteBack
    BY <1>2 DEF Advance
  <2>3. wb' \in [tid : Threads, rd : BOOLEAN, data : Values]
    BY <2>1, <2>2, Numbers DEF WriteBack
  <2>4. regfile' \in [Threads -> Values]
    BY <2>1, <2>2 DEF WriteBack
  <2>. QED  BY <2>3, <2>4
<1>10. stall' \in [Threads -> 0 .. 2]
  <2>1. \A n \in 0 .. 2 : Decremented(n) \in 0 .. 2
    BY DEF Decremented
  <2>. QED  BY <1>1, <1>2, <2>1 DEF Advance, Stalls, TypeOK
<1>11. asleep' \in [Threads -> BOOLEAN]
  BY <1>2 DEF Advance
<1>12. apc' \in [Threads -> Pcs] /\ areg' \in [Threads -> Values]
  BY <1>1, <1>2, Numbers DEF Executed, TypeOK
<1>13. lost' \in [Threads -> 0 .. LossBound + 1]
  <2>1. \A t \in Threads : LostFetches(t, flush) \in 0 .. LossBound + 1
    BY <1>1 DEF TypeOK, LostFetches, LossBound
  <2>. QED  BY <1>2, <2>1 DEF Advance
<1>. QED
  BY <1>3, <1>4, <1>5, <1>6, <1>7, <1>8, <1>9, <1>10, <1>11, <1>12, <1>13
     DEF TypeOK

(* Which instructions go on.  What follows a taken branch, a trap or a     *)
(* delay in the same thread does not.                                      *)
LEMMA StagesMove ==
  ASSUME IInv, NEW exc, NEW jump, NEW address, NEW sleep, NEW results, NEW data,
         Executed(exc, jump, address, sleep, results, data), NEW t \in Threads
  PROVE  /\ InExe(t)' <=> InDec(t) /\ ~ ((exc \/ jump) /\ exe.tid = t)
         /\ InExe(t)' => /\ exe'.pc = dec.pc /\ exe'.kind = dec.kind
                         /\ exe'.rs \in Operands(results)
         /\ exe'.tid = dec.tid /\ (exe'.rd <=> WritesRd(dec.kind))
         /\ InDec(t)' <=> fetch.tid = t /\ FetchValid(exc \/ jump)
         /\ InDec(t)' => /\ dec'.pc = fetch.pc /\ dec'.rs = regfile[t]
                         /\ dec'.kind \in Program[t]
         /\ dec'.tid = fetch.tid
<1> DEFINE flush == exc \/ jump
<1>1. TypeOK
  BY DEF IInv
<1>2. Advance(exc, jump, address, sleep, results, data)
  BY DEF Executed
<1>3. /\ InDec(t)' <=> fetch.tid = t /\ FetchValid(flush)
      /\ InDec(t)' => /\ dec'.pc = fetch.pc /\ dec'.rs = regfile[t]
                      /\ dec'.kind \in Program[t]
      /\ dec'.tid = fetch.tid
  <2>1. CASE FetchValid(flush)
    <3>1. PICK kind \in Program[fetch.tid] \cap Kinds :
            dec' = [tid |-> fetch.tid, pc |-> fetch.pc, kind |-> kind,
                    rs |-> regfile[fetch.tid]]
      BY <1>2, <2>1 DEF Advance
    <3>. QED  BY <2>1, <3>1, KindsDiffer DEF InDec
  <2>2. CASE ~ FetchValid(flush)
    BY <1>2, <2>2 DEF Advance, InDec
  <2>. QED  BY <2>1, <2>2
<1>4. CASE DecValid(flush)
  <2>1. PICK operand \in Operands(results) :
          exe' = [tid |-> dec.tid, pc |-> dec.pc, kind |-> dec.kind,
                  rs |-> operand, rd |-> WritesRd(dec.kind)]
    BY <1>2, <1>4 DEF Advance
  <2>. QED  BY <1>3, <1>4, <2>1 DEF DecValid, InExe, InDec
<1>5. CASE ~ DecValid(flush)
  BY <1>2, <1>3, <1>5 DEF Advance, DecValid, InExe, InDec
<1>. QED  BY <1>4, <1>5

(* Where the thread fetches next, and what stalls it. *)
LEMMA CountersMove ==
  ASSUME IInv, NEW exc, NEW jump, NEW address, NEW sleep, NEW results, NEW data,
         Executed(exc, jump, address, sleep, results, data), NEW t \in Threads
  PROVE  /\ pcs'[t] = IF Trapped(t) THEN Evec
                      ELSE IF jump /\ exe.tid = t THEN address
                      ELSE IF FetchGoesOn /\ fetch.tid = t THEN Succ(fetch.pc)
                      ELSE pcs[t]
         /\ fetch'.tid = next.tid /\ (fetch'.valid <=> next.valid)
         /\ fetch'.tid = t => fetch'.pc = pcs'[t]
         /\ stall'[t] = IF t # exe.tid THEN Decremented(stall[t])
                        ELSE IF exc THEN 1
                        ELSE IF dec.kind = "fence" THEN 1
                        ELSE IF sleep THEN 2
                        ELSE Decremented(stall[t])
         /\ Trapped(t)' <=> exc /\ exe.tid = t
         /\ apc'[t] = IF ~ InExe(t) THEN apc[t]
                      ELSE IF exc THEN Evec
                      ELSE IF jump THEN address ELSE Succ(apc[t])
         /\ lost'[t] = LostFetches(t, exc \/ jump)
<1>1. TypeOK
  BY DEF IInv
<1>2. /\ Advance(exc, jump, address, sleep, results, data)
      /\ exc \in BOOLEAN
  BY DEF Executed
<1>3. pcs' = NextPcs(jump, address) /\ stall' = Stalls(exc, sleep)
  BY <1>2 DEF Advance
<1>4. pcs'[t] = IF Trapped(t) THEN Evec
                ELSE IF jump /\ exe.tid = t THEN address
                ELSE IF FetchGoesOn /\ fetch.tid = t THEN Succ(fetch.pc)
                ELSE pcs[t]
  BY <1>3 DEF NextPcs, Trapped, Succ
<1>5. stall'[t] = IF t # exe.tid THEN Decremented(stall[t])
                  ELSE IF exc THEN 1
                  ELSE IF dec.kind = "fence" THEN 1
                  ELSE IF sleep THEN 2
                  ELSE Decremented(stall[t])
  BY <1>3 DEF Stalls
<1>6. /\ fetch'.tid = next.tid /\ (fetch'.valid <=> next.valid)
      /\ fetch'.tid = t => fetch'.pc = pcs'[t]
      /\ Trapped(t)' <=> exc /\ exe.tid = t
      /\ lost'[t] = LostFetches(t, exc \/ jump)
  BY <1>2 DEF Advance, Trapped
<1>7. apc'[t] = IF ~ InExe(t) THEN apc[t]
                ELSE IF exc THEN Evec
                ELSE IF jump THEN address ELSE Succ(apc[t])
  BY <1>1 DEF Executed, TypeOK, InExe
<1>. QED  BY <1>4, <1>5, <1>6, <1>7

(* Where its values go.  The memory stage takes what execute hands it. *)
LEMMA ValuesMove ==
  ASSUME IInv, NEW exc, NEW jump, NEW address, NEW sleep, NEW results, NEW data,
         Executed(exc, jump, address, sleep, results, data), NEW t \in Threads
  PROVE  /\ mem'.tid = exe.tid /\ mem'.data = data
         /\ mem'.rd <=> exe.rd /\ exe.kind # bubble
         /\ mem'.valid <=> exe.kind # bubble /\ ~ exc
         /\ regfile'[t] = IF MemWrites(t) THEN mem.data ELSE regfile[t]
         /\ WbWrites(t)' <=> MemWrites(t)
         /\ WbWrites(t)' => wb'.data = mem.data
         /\ areg'[t] = IF InExe(t) /\ WritesRd(exe.kind) /\ ~ exc THEN data
                       ELSE areg[t]
<1>1. TypeOK
  BY DEF IInv
<1>2. /\ Advance(exc, jump, address, sleep, results, data)
      /\ exc \in BOOLEAN
  BY DEF Executed
<1>3. /\ mem'.tid = exe.tid /\ mem'.data = data
      /\ mem'.rd <=> exe.rd /\ exe.kind # bubble
      /\ mem'.valid <=> exe.kind # bubble /\ ~ exc
  BY <1>2 DEF Advance
<1>4. /\ regfile'[t] = IF MemWrites(t) THEN mem.data ELSE regfile[t]
      /\ WbWrites(t)' <=> MemWrites(t)
      /\ WbWrites(t)' => wb'.data = mem.data
  BY <1>1, <1>2 DEF Advance, WriteBack, TypeOK, MemWrites, WbWrites
<1>5. areg'[t] = IF InExe(t) /\ WritesRd(exe.kind) /\ ~ exc THEN data ELSE areg[t]
  BY <1>1 DEF Executed, TypeOK, InExe
<1>. QED  BY <1>3, <1>4, <1>5

-----------------------------------------------------------------------------
(***************************************************************************)
(* The invariant holds                                                     *)
(***************************************************************************)

(* A cycle keeps the order of each thread's instructions. *)
LEMMA ExecutedOrdered ==
  ASSUME IInv, NEW exc, NEW jump, NEW address, NEW sleep, NEW results, NEW data,
         Executed(exc, jump, address, sleep, results, data), NEW t \in Threads
  PROVE  Ordered(t)'
<1> DEFINE flush == exc \/ jump
<1>1. Ordered(t)
  BY DEF IInv
<1>2. /\ InExe(t)' <=> InDec(t) /\ ~ (flush /\ exe.tid = t)
      /\ InExe(t)' => exe'.pc = dec.pc
      /\ InDec(t)' <=> fetch.tid = t /\ FetchValid(flush)
      /\ InDec(t)' => dec'.pc = fetch.pc
  BY StagesMove
<1>3. /\ pcs'[t] = IF Trapped(t) THEN Evec
                   ELSE IF jump /\ exe.tid = t THEN address
                   ELSE IF FetchGoesOn /\ fetch.tid = t THEN Succ(fetch.pc)
                   ELSE pcs[t]
      /\ fetch'.tid = t => fetch'.pc = pcs'[t]
      /\ Trapped(t)' <=> exc /\ exe.tid = t
      /\ exe.tid = t /\ exc => stall'[t] = 1
      /\ apc'[t] = IF ~ InExe(t) THEN apc[t]
                   ELSE IF exc THEN Evec
                   ELSE IF jump THEN address ELSE Succ(apc[t])
  BY CountersMove
<1>4. /\ flush /\ exe.tid = t => InExe(t)
      /\ exc \in BOOLEAN /\ jump \in BOOLEAN
  BY DEF Executed, InExe
<1>5. /\ FetchValid(flush) => FetchGoesOn
      /\ FetchGoesOn /\ fetch.tid = t =>
           (FetchValid(flush) <=> ~ (flush /\ exe.tid = t))
      /\ FetchGoesOn /\ fetch.tid = t => stall[t] = 0
  BY DEF FetchValid, FetchGoesOn
<1>6. InExe(t) => exe.tid = t
  BY DEF InExe
<1>7. Ordered(t)' <=>
        /\ InExe(t)' => exe'.pc = apc'[t]
        /\ InDec(t)' => dec'.pc = IF InExe(t)' THEN Succ(apc'[t]) ELSE apc'[t]
        /\ ~ Trapped(t)' =>
             pcs'[t] = IF InExe(t)' /\ InDec(t)' THEN Succ(Succ(apc'[t]))
                       ELSE IF InExe(t)' \/ InDec(t)' THEN Succ(apc'[t])
                       ELSE apc'[t]
        /\ Trapped(t)' => apc'[t] = Evec /\ ~ InExe(t)' /\ ~ InDec(t)' /\ stall'[t] # 0
        /\ fetch'.tid = t => fetch'.pc = pcs'[t]
  BY DEF Ordered, Succ
<1>8. InExe(t)' => exe'.pc = apc'[t]
  BY <1>1, <1>2, <1>3, <1>4, <1>6 DEF Ordered
<1>9. InDec(t)' => dec'.pc = IF InExe(t)' THEN Succ(apc'[t]) ELSE apc'[t]
  BY <1>1, <1>2, <1>3, <1>4, <1>5, <1>6 DEF Ordered
<1>10. ~ Trapped(t)' =>
         pcs'[t] = IF InExe(t)' /\ InDec(t)' THEN Succ(Succ(apc'[t]))
                   ELSE IF InExe(t)' \/ InDec(t)' THEN Succ(apc'[t])
                   ELSE apc'[t]
  BY <1>1, <1>2, <1>3, <1>4, <1>5, <1>6 DEF Ordered
<1>11. Trapped(t)' => apc'[t] = Evec /\ ~ InExe(t)' /\ ~ InDec(t)' /\ stall'[t] # 0
  BY <1>2, <1>3, <1>4, <1>5
<1>. QED  BY <1>3, <1>7, <1>8, <1>9, <1>10, <1>11

(* A cycle keeps the last value of each thread within reach: what the      *)
(* bypasses return is what the sequential machine has in its register.     *)
LEMMA ExecutedForwarded ==
  ASSUME IInv, NEW exc, NEW jump, NEW address, NEW sleep, NEW results, NEW data,
         Executed(exc, jump, address, sleep, results, data), NEW t \in Threads
  PROVE  Forwarded(t)'
<1> DEFINE flush == exc \/ jump
<1>1. Forwarded(t)
  BY DEF IInv
<1>2. /\ InExe(t)' <=> InDec(t) /\ ~ (flush /\ exe.tid = t)
      /\ InExe(t)' => exe'.kind = dec.kind /\ exe'.rs \in Operands(results)
      /\ exe'.tid = dec.tid /\ (exe'.rd <=> WritesRd(dec.kind))
      /\ InDec(t)' <=> fetch.tid = t /\ FetchValid(flush)
      /\ InDec(t)' => dec'.rs = regfile[t]
      /\ dec'.tid = fetch.tid
  BY StagesMove
<1>3. /\ mem'.tid = exe.tid /\ mem'.data = data
      /\ mem'.rd <=> exe.rd /\ exe.kind # bubble
      /\ mem'.valid <=> exe.kind # bubble /\ ~ exc
      /\ regfile'[t] = IF MemWrites(t) THEN mem.data ELSE regfile[t]
      /\ WbWrites(t)' <=> MemWrites(t)
      /\ WbWrites(t)' => wb'.data = mem.data
      /\ areg'[t] = IF InExe(t) /\ WritesRd(exe.kind) /\ ~ exc THEN data
                    ELSE areg[t]
  BY ValuesMove
<1>4. /\ flush /\ exe.tid = t => InExe(t)
      /\ exc \in BOOLEAN /\ jump \in BOOLEAN
      /\ exe.kind = "alu" /\ ~ exc => results = {data}
  BY DEF Executed, InExe
<1>5. FetchValid(flush) /\ fetch.tid = t =>
        ~ (TwoCycles(dec.kind) /\ dec.tid = t) /\ ~ (flush /\ exe.tid = t)
  BY DEF FetchValid, FetchGoesOn
<1>6. /\ InExe(t) <=> exe.kind # bubble /\ exe.tid = t
      /\ InDec(t) <=> dec.kind # bubble /\ dec.tid = t
      /\ MemWrites(t) <=> mem.rd /\ mem.valid /\ mem.tid = t
      /\ MemWrites(t)' <=> mem'.rd /\ mem'.valid /\ mem'.tid = t
      /\ WbWrites(t) <=> wb.rd /\ wb.tid = t
  BY DEF InExe, InDec, MemWrites, WbWrites
<1>7. MemWrites(t)' <=> InExe(t) /\ WritesRd(exe.kind) /\ ~ exc
  BY <1>1, <1>3, <1>6 DEF Forwarded
<1>8. InExe(t)' => exe'.rs = areg'[t] /\ (exe'.rd <=> WritesRd(exe'.kind))
  <2>1. SUFFICES ASSUME InExe(t)'
                 PROVE  exe'.rs = areg'[t]
    BY <1>2
  <2>2. InDec(t) /\ dec.tid = t /\ ~ (flush /\ exe.tid = t)
    BY <1>2, <1>6, <2>1
  <2>3. exe'.rs \in Operands(results)
    BY <1>2, <2>1
  <2>4. CASE exe.tid = t /\ exe.rd
    <3>1. InExe(t) /\ WritesRd(exe.kind) /\ ~ TwoCycles(exe.kind) /\ ~ exc
      BY <1>1, <2>2, <2>4 DEF Forwarded
    <3>2. exe'.rs = data
      BY <1>4, <2>2, <2>3, <2>4, <3>1, KindsDiffer DEF Operands
    <3>. QED  BY <1>3, <3>1, <3>2
  <2>5. CASE ~ (exe.tid = t /\ exe.rd)
    <3>1. areg'[t] = areg[t]
      BY <1>1, <1>3, <1>6, <2>5 DEF Forwarded
    <3>2. CASE mem.tid = t /\ mem.rd
      BY <1>1, <1>6, <2>2, <2>3, <2>5, <3>1, <3>2 DEF Forwarded, Operands
    <3>3. CASE ~ (mem.tid = t /\ mem.rd)
      BY <1>1, <1>6, <2>2, <2>3, <2>5, <3>1, <3>3 DEF Forwarded, Operands
    <3>. QED  BY <3>2, <3>3
  <2>. QED  BY <2>4, <2>5
<1>9. InDec(t)' /\ InExe(t)' => ~ TwoCycles(exe'.kind)
  BY <1>2, <1>5, <1>6
<1>10. InDec(t)' /\ exe'.tid = t /\ exe'.rd => InExe(t)'
  BY <1>2, <1>5, <1>6, KindsDiffer
<1>11. InDec(t)' /\ mem'.tid = t /\ mem'.rd => mem'.valid
  BY <1>2, <1>3, <1>4, <1>5
<1>12. MemWrites(t)' => mem'.data = areg'[t]
  BY <1>3, <1>7
<1>13. WbWrites(t)' => wb'.data = regfile'[t]
  BY <1>3
<1>14. ~ MemWrites(t)' => regfile'[t] = areg'[t]
  BY <1>1, <1>3, <1>7 DEF Forwarded
<1>15. InDec(t)' /\ ~ MemWrites(t)' /\ ~ WbWrites(t)' => dec'.rs = areg'[t]
  BY <1>1, <1>2, <1>3, <1>7 DEF Forwarded
<1>. QED
  BY <1>8, <1>9, <1>10, <1>11, <1>12, <1>13, <1>14, <1>15
     DEF Forwarded, TwoCycles, WritesRd

(* The program starts like this. *)
LEMMA InitIInv == Init => IInv
<1> SUFFICES ASSUME Init
             PROVE  IInv
  OBVIOUS
<1>1. TypeOK
  BY Numbers DEF Init, TypeOK, LossBound
<1>2. ASSUME NEW t \in Threads
      PROVE  Ordered(t) /\ Forwarded(t)
  BY DEF Init, Ordered, Forwarded, InExe, InDec, Trapped, MemWrites, WbWrites
<1>. QED  BY <1>1, <1>2 DEF IInv

(* A step that changes nothing keeps it. *)
LEMMA StutterIInv == IInv /\ UNCHANGED vars => IInv'
  BY DEF IInv, TypeOK, Ordered, Forwarded, InExe, InDec, Trapped, MemWrites,
         WbWrites, Succ, vars

(* The invariant holds for all programs. *)
THEOREM Invariance == Spec => []IInv
<1>1. ASSUME IInv, Cycle
      PROVE  IInv'
  <2>1. PICK exc, jump, address, sleep, results, data :
          Executed(exc, jump, address, sleep, results, data)
    BY <1>1, CycleExecutes
  <2>2. TypeOK'
    BY <1>1, <2>1, ExecutedTypes
  <2>3. \A t \in Threads : Ordered(t)' /\ Forwarded(t)'
    BY <1>1, <2>1, ExecutedOrdered, ExecutedForwarded
  <2>. QED  BY <2>2, <2>3 DEF IInv
<1>2. IInv /\ [Cycle]_vars => IInv'
  BY <1>1, StutterIInv
<1>. QED  BY InitIInv, <1>2, PTL DEF Spec

(* Every register of the pipeline keeps its type: the program counters     *)
(* stay addresses, no stall is longer than its two bits.                   *)
THEOREM TypeCorrectness == Spec => []TypeOK
<1>1. IInv => TypeOK
  BY DEF IInv
<1>. QED  BY Invariance, <1>1, PTL

(* Nothing is skipped, repeated or executed from behind a taken branch, a  *)
(* trap or a delay, however the threads interleave (exe_flush, dec_stall,  *)
(* stall_count and next_pc_sel together).                                  *)
THEOREM ProgramOrder == Spec => []InOrder
<1>1. IInv => InOrder
  BY DEF IInv, TypeOK, Ordered, InExe, InOrder
<1>. QED  BY Invariance, <1>1, PTL

(* The bypasses of dec_rs1_sel give every instruction the value that its   *)
(* thread wrote last.                                                      *)
THEOREM CurrentOperands == Spec => []OperandsAreCurrent
<1>1. IInv => OperandsAreCurrent
  BY DEF IInv, TypeOK, Forwarded, InExe, OperandsAreCurrent
<1>. QED  BY Invariance, <1>1, PTL

-----------------------------------------------------------------------------
(***************************************************************************)
(* Delays and stalls, of programs without FENCE.I                          *)
(***************************************************************************)

FenceFree == dec.kind # "fence" /\ exe.kind # "fence"

Kept == FenceFree /\ \A t \in Threads : Rests(t) /\ Bounded(t)

(* A cycle fetches no FENCE.I where no program contains one. *)
LEMMA ExecutedFenceFree ==
  ASSUME IInv, FenceFree, NoFences,
         NEW exc, NEW jump, NEW address, NEW sleep, NEW results, NEW data,
         Executed(exc, jump, address, sleep, results, data)
  PROVE  FenceFree'
<1>1. TypeOK /\ TypeOK'
  BY ExecutedTypes DEF IInv
<1>2. dec'.tid \in Threads /\ exe'.tid \in Threads
  BY <1>1 DEF TypeOK
<1>3. \A t \in Threads :
        /\ InExe(t)' => exe'.kind = dec.kind
        /\ InDec(t)' => dec'.kind \in Program[t]
  BY StagesMove
<1>4. exe'.kind # "fence"
  <2>1. CASE exe'.kind = bubble
    BY <2>1 DEF bubble
  <2>2. CASE exe'.kind # bubble
    BY <1>2, <1>3, <2>2 DEF InExe, FenceFree
  <2>. QED  BY <2>1, <2>2
<1>5. dec'.kind # "fence"
  <2>1. CASE dec'.kind = bubble
    BY <2>1 DEF bubble
  <2>2. CASE dec'.kind # bubble
    BY <1>2, <1>3, <2>2 DEF InDec, NoFences
  <2>. QED  BY <2>1, <2>2
<1>. QED  BY <1>4, <1>5 DEF FenceFree

(* A cycle stalls nobody but the thread in execute, and that one by its    *)
(* trap or its delay.                                                      *)
LEMMA ExecutedStalls ==
  ASSUME IInv, FenceFree,
         NEW exc, NEW jump, NEW address, NEW sleep, NEW results, NEW data,
         Executed(exc, jump, address, sleep, results, data), NEW t \in Threads
  PROVE  /\ stall[t] \in 0 .. 2 /\ stall'[t] \in 0 .. 2
         /\ lost[t] \in 0 .. LossBound + 1
         /\ exc /\ exe.tid = t => stall'[t] = 1
         /\ sleep /\ exe.tid = t => stall'[t] = 2
         /\ ~ ((exc \/ sleep) /\ exe.tid = t) =>
              stall'[t] = IF stall[t] = 0 THEN 0 ELSE stall[t] - 1
<1>1. TypeOK /\ TypeOK'
  BY ExecutedTypes DEF IInv
<1>2. stall'[t] = IF t # exe.tid THEN Decremented(stall[t])
                  ELSE IF exc THEN 1
                  ELSE IF dec.kind = "fence" THEN 1
                  ELSE IF sleep THEN 2
                  ELSE Decremented(stall[t])
  BY CountersMove
<1>3. sleep => ~ exc
  BY DEF Executed
<1>4. /\ stall[t] \in 0 .. 2 /\ stall'[t] \in 0 .. 2
      /\ lost[t] \in 0 .. LossBound + 1
  BY <1>1 DEF TypeOK
<1>. QED  BY <1>2, <1>3, <1>4 DEF FenceFree, Decremented

(* A cycle leaves no instruction of a sleeping thread on its way. *)
LEMMA ExecutedRests ==
  ASSUME IInv, FenceFree,
         NEW exc, NEW jump, NEW address, NEW sleep, NEW results, NEW data,
         Executed(exc, jump, address, sleep, results, data), NEW t \in Threads,
         Rests(t)
  PROVE  Rests(t)'
<1> DEFINE flush == exc \/ jump
<1> SUFFICES ASSUME asleep'[t]
             PROVE  /\ ~ InExe(t)' /\ ~ InDec(t)'
                    /\ fetch'.tid = t /\ fetch'.valid => stall'[t] # 0
                    /\ next'.tid = t /\ next'.valid => stall'[t] = 2
  BY DEF Rests
<1>1. /\ InExe(t)' <=> InDec(t) /\ ~ (flush /\ exe.tid = t)
      /\ InDec(t)' <=> fetch.tid = t /\ FetchValid(flush)
  BY StagesMove
<1>2. fetch'.tid = next.tid /\ (fetch'.valid <=> next.valid)
  BY CountersMove
<1>3. /\ stall[t] \in 0 .. 2 /\ stall'[t] \in 0 .. 2
      /\ sleep /\ exe.tid = t => stall'[t] = 2
      /\ ~ ((exc \/ sleep) /\ exe.tid = t) =>
           stall'[t] = IF stall[t] = 0 THEN 0 ELSE stall[t] - 1
  BY ExecutedStalls
<1>4. /\ asleep[t] \/ (sleep /\ t = exe.tid)
      /\ next'.tid = t /\ next'.valid => ~ asleep[t]
  BY DEF Executed, Advance, Schedule
<1>5. /\ (exc \/ jump \/ sleep) /\ exe.tid = t => InExe(t)
      /\ sleep => jump
  BY DEF Executed, InExe
<1>6. CASE sleep /\ t = exe.tid
  BY <1>1, <1>3, <1>5, <1>6 DEF FetchValid
<1>7. CASE asleep[t]
  <2>1. /\ ~ InExe(t) /\ ~ InDec(t)
        /\ fetch.tid = t /\ fetch.valid => stall[t] # 0
        /\ next.tid = t /\ next.valid => stall[t] = 2
    BY <1>7 DEF Rests
  <2>2. ~ InDec(t)'
    BY <1>1, <2>1 DEF FetchValid, FetchGoesOn
  <2>. QED  BY <1>1, <1>2, <1>3, <1>4, <1>5, <1>7, <2>1, <2>2
<1>. QED  BY <1>4, <1>6, <1>7

(* A cycle loses a fetch of the thread only where one less is still to     *)
(* lose.                                                                   *)
LEMMA ExecutedBounded ==
  ASSUME IInv, FenceFree,
         NEW exc, NEW jump, NEW address, NEW sleep, NEW results, NEW data,
         Executed(exc, jump, address, sleep, results, data), NEW t \in Threads,
         Bounded(t)
  PROVE  Bounded(t)'
<1> DEFINE flush == exc \/ jump
<1>1. /\ InExe(t)' <=> InDec(t) /\ ~ (flush /\ exe.tid = t)
      /\ InExe(t)' => exe'.kind = dec.kind
      /\ InDec(t)' <=> fetch.tid = t /\ FetchValid(flush)
  BY StagesMove
<1>2. /\ stall[t] \in 0 .. 2 /\ stall'[t] \in 0 .. 2
      /\ lost[t] \in 0 .. LossBound + 1
      /\ exc /\ exe.tid = t => stall'[t] = 1
      /\ sleep /\ exe.tid = t => stall'[t] = 2
      /\ ~ ((exc \/ sleep) /\ exe.tid = t) =>
           stall'[t] = IF stall[t] = 0 THEN 0 ELSE stall[t] - 1
  BY ExecutedStalls
<1>3. lost'[t] = IF ~ fetch.valid \/ t # fetch.tid THEN lost[t]
                 ELSE IF FetchValid(flush) THEN 0
                 ELSE IF lost[t] > LossBound THEN lost[t] ELSE lost[t] + 1
  BY CountersMove DEF LostFetches
<1>4. /\ (exc \/ jump \/ sleep) /\ exe.tid = t => InExe(t)
      /\ sleep => jump /\ exe.kind = "du"
  BY DEF Executed, InExe
<1>5. FetchValid(flush) /\ fetch.tid = t =>
        /\ fetch.valid /\ stall[t] = 0 /\ ~ (flush /\ exe.tid = t)
  BY DEF FetchValid, FetchGoesOn
<1>6. fetch.valid /\ fetch.tid = t /\ ~ FetchValid(flush) =>
        \/ InDec(t) /\ TwoCycles(dec.kind)
        \/ stall[t] # 0
        \/ flush /\ exe.tid = t
  BY DEF FetchValid, FetchGoesOn, InDec, TwoCycles, bubble
<1>7. /\ InDec(t) => lost[t] = 0 /\ stall[t] = 0
      /\ InExe(t) => /\ stall[t] = 0
                     /\ lost[t] <= (IF TwoCycles(exe.kind) THEN 1 ELSE 0)
      /\ stall[t] + lost[t] <= 3
      /\ sleep => ~ TwoCycles(exe.kind)
  BY <1>4 DEF Bounded, LossBound, TwoCycles
<1>8. InDec(t)' => lost'[t] = 0 /\ stall'[t] = 0
  BY <1>1, <1>2, <1>3, <1>4, <1>5
<1>9. InExe(t)' => /\ stall'[t] = 0
                   /\ lost'[t] <= (IF TwoCycles(exe'.kind) THEN 1 ELSE 0)
  <2>1. ASSUME InExe(t)'
        PROVE  /\ InDec(t) /\ ~ (flush /\ exe.tid = t) /\ exe'.kind = dec.kind
               /\ lost[t] = 0 /\ stall[t] = 0 /\ stall'[t] = 0
    BY <1>1, <1>2, <1>4, <1>7, <2>1
  <2>2. ASSUME InExe(t)'
        PROVE  lost'[t] <= (IF TwoCycles(dec.kind) THEN 1 ELSE 0)
    BY <1>3, <1>6, <2>1, <2>2 DEF LossBound
  <2>. QED  BY <2>1, <2>2
<1>10. stall'[t] + lost'[t] <= 3
  <2>1. CASE (exc \/ jump \/ sleep) /\ exe.tid = t
    BY <1>2, <1>3, <1>4, <1>7, <2>1 DEF LossBound
  <2>2. CASE ~ ((exc \/ jump \/ sleep) /\ exe.tid = t)
    BY <1>2, <1>3, <1>6, <1>7, <2>2 DEF LossBound
  <2>. QED  BY <2>1, <2>2
<1>. QED  BY <1>8, <1>9, <1>10 DEF Bounded, TwoCycles, LossBound

(* It holds where no program contains FENCE.I. *)
LEMMA KeptInvariance ==
  ASSUME NoFences
  PROVE  Spec => []Kept
<1>1. Init => Kept
  BY DEF Init, Kept, FenceFree, Rests, Bounded, InExe, InDec, LossBound, bubble
<1>2. ASSUME IInv, Kept, Cycle
      PROVE  Kept'
  <2>1. PICK exc, jump, address, sleep, results, data :
          Executed(exc, jump, address, sleep, results, data)
    BY <1>2, CycleExecutes
  <2>2. FenceFree'
    BY <1>2, <2>1, ExecutedFenceFree DEF Kept
  <2>3. \A t \in Threads : Rests(t)' /\ Bounded(t)'
    BY <1>2, <2>1, ExecutedRests, ExecutedBounded DEF Kept
  <2>. QED  BY <2>2, <2>3 DEF Kept
<1>3. Kept /\ UNCHANGED vars => Kept'
  BY DEF Kept, FenceFree, Rests, Bounded, InExe, InDec, vars
<1>4. IInv /\ Kept /\ [Cycle]_vars => Kept'
  BY <1>2, <1>3
<1>. QED  BY Invariance, <1>1, <1>4, PTL DEF Spec

(* Between a DU that finds its time in the future and the wake-up nothing  *)
(* of the thread executes (regSchedule: stall_count is 2).                 *)
THEOREM SleepIsRest ==
  ASSUME NoFences
  PROVE  Spec => []SleepersRest
<1>1. IInv /\ Kept => SleepersRest
  BY DEF IInv, TypeOK, Kept, Rests, InExe, SleepersRest
<1>. QED  BY Invariance, KeptInvariance, <1>1, PTL

(* The next instruction of a thread is late by at most three of its own    *)
(* fetches.                                                                *)
THEOREM BoundedLoss ==
  ASSUME NoFences
  PROVE  Spec => []LossIsBounded
<1>1. IInv /\ Kept => LossIsBounded
  <2> SUFFICES ASSUME IInv, Kept, NEW t \in Threads
               PROVE  lost[t] <= LossBound
    BY DEF LossIsBounded
  <2>1. stall[t] \in 0 .. 2 /\ lost[t] \in 0 .. LossBound + 1
    <3>1. TypeOK
      BY DEF IInv
    <3>. QED  BY <3>1 DEF TypeOK
  <2>2. stall[t] + lost[t] <= LossBound
    BY DEF Kept, Bounded
  <2>. QED  BY <2>1, <2>2 DEF LossBound
<1>. QED  BY Invariance, KeptInvariance, <1>1, PTL
=============================================================================
