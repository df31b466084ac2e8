----------------------------- MODULE MCPipeline -----------------------------
(***************************************************************************)
(* Instances of Pipeline for TLC.                                          *)
(***************************************************************************)
EXTENDS Pipeline

T0 == "t0"
T1 == "t1"
Both == {T0, T1}

(* One thread runs any program beside one that computes. *)
AnyProgram == {"alu", "load", "branch", "du", "trap"}
Mixed  == [t \in Both |-> IF t = T0 THEN AnyProgram ELSE {"alu"}]
Fenced == [t \in Both |-> IF t = T0 THEN {"alu", "branch", "trap"} ELSE {"fence"}]
=============================================================================
