---------------------------- MODULE AbstractMutex ----------------------------
(***************************************************************************)
(* What an osMutex promises to its callers, with no control block, no CSR  *)
(* and no program counters: at most one thread has outstanding successful  *)
(* acquires, and only a recursive mutex gives its holder a second one.     *)
(* depth[t] is the number of osMutexAcquire calls of thread t that         *)
(* returned osOK and that no osMutexRelease has undone yet.                *)
(***************************************************************************)
EXTENDS Naturals

CONSTANT Threads   (* the hardware threads that call the API *)

VARIABLES
  depth,
  ifRecursive   (* TRUE when the mutex was created with osMutexRecursive   *)

Init ==
  /\ depth = [t \in Threads |-> 0]
  /\ ifRecursive \in BOOLEAN

(* osMutexAcquire returns osOK to t. *)
Acquired(t) ==
  /\ \A u \in Threads \ {t} : depth[u] = 0
  /\ depth[t] = 0 \/ ifRecursive
  /\ depth' = [depth EXCEPT ![t] = @ + 1]
  /\ UNCHANGED ifRecursive

(* osMutexRelease returns osOK to t. *)
Released(t) ==
  /\ depth[t] > 0
  /\ depth' = [depth EXCEPT ![t] = @ - 1]
  /\ UNCHANGED ifRecursive

Next == \E t \in Threads : Acquired(t) \/ Released(t)

Spec == Init /\ [][Next]_<<depth, ifRecursive>>
=============================================================================
