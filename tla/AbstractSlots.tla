---------------------------- MODULE AbstractSlots ----------------------------
(***************************************************************************)
(* What the calls that share the slot table promise, without set_slot_num, *)
(* its copy of the table and slot_mutex: once the kernel runs, one thread  *)
(* at a time works on the table, in the name of one user; the number of    *)
(* slots of that user or of the soft threads becomes one that was asked    *)
(* for, from free slots or back to them, and a slot stays free.            *)
(***************************************************************************)
EXTENDS FiniteSets

CONSTANTS
  Slots, Threads,
  Soft, Free,   (* in the table: shared by the soft threads, of nobody *)
  Numbers       (* numbers of slots that calls ask for                 *)

Users == Threads \cup {Soft}

VARIABLES
  table,    (* the user of each slot                          *)
  soft,     (* is each thread a soft one?                     *)
  inside,   (* who works on them                              *)
  subject,  (* in whose name                                  *)
  started   (* the kernel runs                                *)

Held(u) == {i \in Slots : table[i] = u}

(* No user has two slots when the kernel starts. *)
Single(s) == \A i, j \in Slots : s[i] = s[j] /\ s[i] # Free => i = j

Init ==
  /\ table \in [Slots -> Users \cup {Free}] /\ Single(table)
  /\ soft = [t \in Threads |-> FALSE]
  /\ inside = {} /\ subject = {}
  /\ started = FALSE

Boot ==
  /\ ~ started
  /\ \/ table' = table
     \/ table' \in [Slots -> Users \cup {Free}] /\ Single(table')
  /\ soft' \in [Threads -> BOOLEAN]
  /\ started' \in BOOLEAN
  /\ UNCHANGED <<inside, subject>>

Enter(t, u) ==
  /\ started /\ inside = {}
  /\ inside' = {t} /\ subject' = {u}
  /\ UNCHANGED <<table, soft, started>>

Leave ==
  /\ inside' = {} /\ subject' = {}
  /\ UNCHANGED <<table, soft, started>>

(* Slots S go from one user, or from nobody, to another. *)
Pass(S, to) == table' = [i \in Slots |-> IF i \in S THEN to ELSE table[i]]

(* A slot is left free, whatever is asked for. *)
Resize(u, n) ==
  /\ inside # {} /\ u \in subject \cup {Soft}
  /\ \/ \E S \in SUBSET Held(Free) : S # Held(Free) /\ Pass(S, u)
     \/ \E S \in SUBSET Held(u) : Pass(S, Free)
  /\ Cardinality(Held(u)') = n
  /\ UNCHANGED <<soft, inside, subject, started>>

SetMode(u, b) ==
  /\ inside # {} /\ u \in subject
  /\ soft' = [soft EXCEPT ![u] = b]
  /\ UNCHANGED <<table, inside, subject, started>>

Next ==
  \/ Boot
  \/ \E t \in Threads, u \in Users : Enter(t, u)
  \/ \E u \in Users, n \in Numbers : Resize(u, n)
  \/ \E u \in Threads, b \in BOOLEAN : SetMode(u, b)
  \/ Leave

Spec == Init /\ [][Next]_<<table, soft, inside, subject, started>>
=============================================================================
