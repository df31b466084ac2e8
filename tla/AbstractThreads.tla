--------------------------- MODULE AbstractThreads ---------------------------
(***************************************************************************)
(* What the thread calls promise, without slots, modes, blocks in memory   *)
(* and startup.S: a thread that is created enters the function it was      *)
(* given, with that argument on that stack, once; it is reaped when it is  *)
(* back or has been terminated, and nobody is reset inside a function;     *)
(* and who waits for all says PASSED when all are back.                    *)
(***************************************************************************)
CONSTANTS Threads, Jobs, None   (* None: no job, and nobody *)

VARIABLES
  job,      (* what its creation gave each thread                          *)
  phase,    (* "none", "created", "running", "back"                        *)
  does,     (* function, argument and stack of each running thread         *)
  reaping,  (* whose slot and processor time are being taken               *)
  passed,   (* the simulation has ended with PASSED, all waited for        *)
  left      (* it has ended because main returned before                   *)

Init ==
  /\ job = [t \in Threads |-> None]
  /\ phase = [t \in Threads |-> "none"]
  /\ does = [t \in Threads |-> None]
  /\ reaping = {}
  /\ passed = FALSE /\ left = FALSE

Create(t, j) ==
  /\ phase[t] = "none"
  /\ job' = [job EXCEPT ![t] = j]
  /\ phase' = [phase EXCEPT ![t] = "created"]
  /\ UNCHANGED <<does, reaping, passed, left>>

Enter(t) ==
  /\ phase[t] = "created"
  /\ phase' = [phase EXCEPT ![t] = "running"]
  /\ does' = [does EXCEPT ![t] = job[t]]
  /\ UNCHANGED <<job, reaping, passed, left>>

Leave(t) ==
  /\ phase[t] = "running"
  /\ phase' = [phase EXCEPT ![t] = "back"]
  /\ does' = [does EXCEPT ![t] = None]
  /\ UNCHANGED <<job, reaping, passed, left>>

(* osThreadTerminate of one thread, osKernelReset of all. *)
Forget(S) ==
  /\ job' = [t \in Threads |-> IF t \in S THEN None ELSE job[t]]
  /\ phase' = [t \in Threads |-> IF t \in S THEN "none" ELSE phase[t]]
  /\ does' = [t \in Threads |-> IF t \in S THEN None ELSE does[t]]
  /\ UNCHANGED <<reaping, passed, left>>

Terminate(t) == Forget({t})

Reset == (\A t \in Threads : phase[t] # "running") /\ Forget(Threads)

(* A join that has returned, or a termination, takes the slot. *)
Reap(t) ==
  /\ reaping = {} /\ phase[t] \in {"none", "back"}
  /\ reaping' = {t}
  /\ UNCHANGED <<job, phase, does, passed, left>>

Reaped ==
  /\ reaping' = {}
  /\ UNCHANGED <<job, phase, does, passed, left>>

Pass ==
  /\ \A t \in Threads : phase[t] \in {"none", "back"}
  /\ passed' = TRUE
  /\ UNCHANGED <<job, phase, does, reaping, left>>

GoAway ==
  /\ left' = TRUE
  /\ UNCHANGED <<job, phase, does, reaping, passed>>

Next ==
  /\ ~ passed /\ ~ left
  /\ \/ \E t \in Threads : Enter(t) \/ Leave(t) \/ Terminate(t) \/ Reap(t)
     \/ \E t \in Threads, j \in Jobs : Create(t, j)
     \/ Reset \/ Reaped \/ Pass \/ GoAway

Spec == Init /\ [][Next]_<<job, phase, does, reaping, passed, left>>
=============================================================================
