----------------------------- MODULE Workloads -----------------------------
(***************************************************************************)
(* The programs that main.c and the tests give to the threads: the WCET    *)
(* benchmarks of app/.  None of them takes a lock or makes a call, so each *)
(* is a function of its input and its tables; the input is a parameter     *)
(* here, also where the program fixes it.  Arrays start at 0.              *)
(***************************************************************************)
EXTENDS Integers, FiniteSets, Sequences, FiniteSetsExt, SequencesExt

(* A loop for (i = first; i <= last; i++). *)
Loop(first, last) == [n \in 1 .. last - first + 1 |-> first + n - 1]

-----------------------------------------------------------------------------
(***************************************************************************)
(* bs.c                                                                    *)
(***************************************************************************)

data == [i \in 0 .. 14 |->
  [key   |-> <<1, 5, 6, 7, 8, 9, 10, 11, 12, 13, 14, 15, 16, 17, 18>>[i + 1],
   value |-> <<100, 200, 300, 700, 900, 250, 400, 600, 800, 1500, 1200,
               110, 140, 133, 10>>[i + 1]]]

(* Slip: the upper half starts behind its first entry. *)
binary_searchSkips(x) ==
  LET probe[low \in Int, up \in Int, fvalue \in Int] ==
        LET mid == (low + up) \div 2
        IN  IF low > up THEN fvalue
            ELSE CASE data[mid].key = x -> probe[low, low - 1, data[mid].value]
                   [] data[mid].key > x -> probe[low, mid - 1, fvalue]
                   [] data[mid].key < x -> probe[mid + 2, up, fvalue]
  IN  probe[0, 14, -1]

binary_search(x) ==
  LET probe[low \in Int, up \in Int, fvalue \in Int] ==
        LET mid == (low + up) \div 2
        IN  IF low > up THEN fvalue
            ELSE CASE data[mid].key = x -> probe[low, low - 1, data[mid].value]
                   [] data[mid].key > x -> probe[low, mid - 1, fvalue]
                   [] data[mid].key < x -> probe[mid + 1, up, fvalue]
  IN  probe[0, 14, -1]

bs_main == binary_search(8)

-----------------------------------------------------------------------------
(***************************************************************************)
(* cover.c: in each pass c counts up if i has a case and down otherwise    *)
(***************************************************************************)

Switch(cases, passes, c) ==
  FoldLeft(LAMBDA n, i : IF i \in cases THEN n + 1 ELSE n - 1, c, Loop(0, passes - 1))

swi10(c)   == Switch(0 .. 9, 10, c)
swi50(c)   == Switch(0 .. 59, 50, c)
swi120(c)  == Switch(0 .. 119, 120, c)
cover_main == swi120(swi50(swi10(0)))

-----------------------------------------------------------------------------
(***************************************************************************)
(* duff.c                                                                  *)
(***************************************************************************)

(* The switch enters the first pass at the case that is left over, which   *)
(* for none is the whole pass; a do loop makes at least one.               *)
Copied(count) ==
  LET passes == (count + 7) \div 8
      first  == IF count % 8 = 0 THEN 8 ELSE count % 8
  IN  IF passes > 1 THEN first + 8 * (passes - 1) ELSE first

duffcopy(to, from, count) ==
  [i \in DOMAIN to |-> IF i < Copied(count) THEN from[i] ELSE to[i]]

initialize(length) == [i \in 0 .. length - 1 |-> length - i]

(* The source is the first argument of duffcopy, which is the destination. *)
duff_main ==
  LET target == [i \in 0 .. 99 |-> 0]
  IN  [source |-> duffcopy(initialize(100), target, 43), target |-> target]

-----------------------------------------------------------------------------
(***************************************************************************)
(* fibcall.c, insertsort.c                                                 *)
(***************************************************************************)

fib(n) ==
  LET last == IF n < 30 THEN n ELSE 30
      step(f, i) == [new |-> f.new + f.old, old |-> f.new]
  IN  FoldLeft(step, [new |-> 1, old |-> 0], Loop(2, last)).new

fibcall_main == fib(30)

(* a[0] is the smallest: the loop stops there without a look at j. *)
Sink(a, i) ==
  LET swap[j \in Int, b \in [DOMAIN a -> Int]] ==
        IF b[j] < b[j - 1]
        THEN swap[j - 1, [b EXCEPT ![j] = b[j - 1], ![j - 1] = b[j]]]
        ELSE b
  IN  swap[i, a]

InsertSort(a, last) == FoldLeft(Sink, a, Loop(2, last))

insertsort_main == InsertSort([i \in 0 .. 10 |-> IF i = 0 THEN 0 ELSE 12 - i], 10)

-----------------------------------------------------------------------------
(***************************************************************************)
(* lcdnum.c                                                                *)
(***************************************************************************)

(* The seven segments, from the top to the bottom. *)
num_to_lcd(a) ==
  CASE a = 0  -> {}                         [] a = 1  -> {4, 32}
    [] a = 2  -> {1, 4, 8, 16, 64}          [] a = 3  -> {1, 4, 8, 32, 64}
    [] a = 4  -> {2, 4, 8, 32}              [] a = 5  -> {1, 4, 8, 16, 64}
    [] a = 6  -> {1, 2, 8, 16, 32, 64}      [] a = 7  -> {1, 4, 32}
    [] a = 8  -> {1, 2, 4, 8, 16, 32, 64}   [] a = 9  -> {1, 2, 4, 8, 32, 64}
    [] a = 10 -> {1, 2, 4, 8, 16, 32}       [] a = 11 -> {2, 8, 16, 32, 64}
    [] a = 12 -> {1, 2, 16, 64}             [] a = 13 -> {4, 8, 16, 32, 64}
    [] a = 14 -> {1, 2, 8, 16, 64}          [] a = 15 -> {1, 2, 8, 16}
    [] OTHER  -> {}

(* What OUT shows after ten scans of the port: in is what they read. *)
lcdnum_main(in) ==
  FoldLeft(LAMBDA out, i : IF i < 5 THEN num_to_lcd(in[i] % 16) ELSE out, {}, Loop(0, 9))

-----------------------------------------------------------------------------
(***************************************************************************)
(* loop3.c: each line of it is four loops from a to b                      *)
(***************************************************************************)

PLOOP(a, b, step) ==
  LET upTo(last) == SumSet({i \in a .. last : (i - a) % step = 0})
  IN  2 * upTo(b - 1) + 2 * upTo(b)

MLOOP(a, b, step) ==
  LET downTo(last) == SumSet({i \in last .. a : (a - i) % step = 0})
  IN  2 * downTo(b + 1) + 2 * downTo(b)

loop3_main ==
  LET up   == <<<<0, 3>>, <<1, 2>>, <<-3, -2>>, <<-4, -1>>, <<-5, 0>>, <<-6, 4>>>>
      down == <<<<5, 2>>, <<6, 1>>, <<7, 0>>, <<8, -1>>, <<9, -2>>, <<0, -3>>,
                <<-1, -5>>, <<-2, -7>>, <<16, -8>>>>
      both(s, step) ==
        FoldLeft(LAMBDA n, l : n + MLOOP(l[1], l[2], step),
                 FoldLeft(LAMBDA n, l : n + PLOOP(l[1], l[2], step), s, up), down)
  IN  both(both(0, 1), 2)

-----------------------------------------------------------------------------
(***************************************************************************)
(* ns.c: the cell [i][j][k][l] is number 125 i + 25 j + 5 k + l.  A comment *)
(* opened twice takes the last block of keys[2] and keys[3] out, and the   *)
(* compiler makes it zero.                                                 *)
(***************************************************************************)

Cells == 0 .. 624

keys == [n \in Cells |->
  LET i == n \div 125
      j == (n \div 25) % 5
  IN  CASE n = 624              -> 401
        [] i \in {2, 3} /\ j = 4 -> 0
        [] OTHER                -> i]

answer == [n \in Cells |->
  LET i == n \div 125
  IN  CASE n = 624               -> 1111
        [] i = 2 /\ n % 5 = 4    -> 0
        [] OTHER                 -> <<123, 234, 345, 456, 567>>[i + 1]]

foo(x) ==
  LET hits == {n \in Cells : keys[n] = x}
  IN  IF hits = {} THEN -1 ELSE answer[Min(hits)] + keys[Min(hits)]

ns_main == foo(400)

-----------------------------------------------------------------------------
(***************************************************************************)
(* Properties                                                              *)
(***************************************************************************)

IsSortedTo(a, last) == \A i \in 2 .. last : a[i - 1] <= a[i]
Values(a, last) == [v \in {a[i] : i \in 1 .. last} |->
                      Cardinality({i \in 1 .. last : a[i] = v})]

(* The programs compute what they are for, also on inputs that main.c does *)
(* not give them: bs finds every key and no other, insertsort sorts, fib   *)
(* adds up to its bound of 30, duffcopy copies the count unless it is 0,   *)
(* foo answers for every key that is in the table; the digits of lcdnum    *)
(* differ but for 2 and 5, which the table draws alike.                    *)
ResultsAreRight ==
  /\ \A x \in 0 .. 20 :
       LET at == {i \in DOMAIN data : data[i].key = x}
       IN  binary_search(x) = IF at = {} THEN -1 ELSE data[CHOOSE i \in at : TRUE].value
  /\ \A b \in [1 .. 4 -> 1 .. 3] :
       LET a == [i \in 0 .. 4 |-> IF i = 0 THEN 0 ELSE b[i]]
           sorted == InsertSort(a, 4)
       IN  IsSortedTo(sorted, 4) /\ Values(sorted, 4) = Values(a, 4) /\ sorted[0] = 0
  /\ insertsort_main = [i \in 0 .. 10 |-> IF i = 0 THEN 0 ELSE i + 1]
  /\ \A n \in 3 .. 30 : fib(n) = fib(n - 1) + fib(n - 2)
  /\ fibcall_main = 832040 /\ fib(31) = fib(30)
  /\ \A count \in 1 .. 43 : Copied(count) = count
  /\ \A i \in 0 .. 99 : duff_main.source[i] = IF i < 43 THEN 0 ELSE 100 - i
  /\ \A x \in 0 .. 402 : foo(x) # -1 <=> x \in {keys[n] : n \in Cells}
  /\ ns_main = -1 /\ foo(401) = 1512
  /\ \A n \in 0 .. 255 :
       lcdnum_main([i \in 0 .. 9 |-> IF i = 4 THEN n ELSE n + 1]) = num_to_lcd(n % 16)
  /\ \A a, b \in 1 .. 15 : num_to_lcd(a) = num_to_lcd(b) => a = b \/ {a, b} = {2, 5}
  /\ bs_main = 900 /\ cover_main = 180 /\ loop3_main = 1044
=============================================================================
