----------------------------- MODULE Utilities -----------------------------
(***************************************************************************)
(* The functions that the other parts of the operating system call to copy *)
(* text, print numbers, turn handles into thread numbers and lay out the   *)
(* registers of the scheduler.  A text is a sequence of character codes    *)
(* without the NUL that ends it, and a buffer a function from 1 on; NUL is *)
(* written as 0.                                                           *)
(***************************************************************************)
EXTENDS Integers, FiniteSets, Sequences, FiniteSetsExt, SequencesExt

CONSTANT SizeMod   (* size_t and uint32_t count modulo this, 2^32 in C *)

-----------------------------------------------------------------------------
(***************************************************************************)
(* flexpret_utils.c: text and memory                                       *)
(***************************************************************************)

NUL == 0

(* Slip: the count is looked at after the character. *)
strncpyLate(dest, src, size) ==
  LET n == IF size < Len(src) THEN size + 1 ELSE Len(src)
  IN  [i \in DOMAIN dest |-> IF i <= n THEN src[i] ELSE IF i = n + 1 THEN NUL ELSE dest[i]]

(* Up to size characters and always a NUL, so size + 1 places at most. *)
strncpy(dest, src, size) ==
  LET n == IF size < Len(src) THEN size ELSE Len(src)
  IN  [i \in DOMAIN dest |-> IF i <= n THEN src[i] ELSE IF i = n + 1 THEN NUL ELSE dest[i]]

strlen(buffer) == Min({i \in DOMAIN buffer : buffer[i] = NUL}) - 1

memset(s, c, n) == [i \in DOMAIN s |-> IF i <= n THEN c % 256 ELSE s[i]]

memcpy(dst, src, len) == [i \in DOMAIN dst |-> IF i <= len THEN src[i] ELSE dst[i]]

(* The characters that emulator_outputstr stores at EMULATOR_ADDR. *)
emulator_outputstr(buffer) == SubSeq(buffer, 1, strlen(buffer))

-----------------------------------------------------------------------------
(***************************************************************************)
(* flexpret_io.c: the eight digits of a number, and without leading zeros  *)
(***************************************************************************)

Digit(v) == IF v + 48 >= 58 THEN v + 48 + 7 ELSE v + 48

itoa_hex(n) == [i \in 1 .. 8 |-> Digit((n \div 16 ^ (8 - i)) % 16)]

itoa_hex_removing_ldz(n) ==
  LET first == Min({i \in 1 .. 8 : itoa_hex(n)[i] # 48} \cup {8})
  IN  SubSeq(itoa_hex(n), first, 8)

-----------------------------------------------------------------------------
(***************************************************************************)
(* osKernelGetInfo: three numbers, each followed by one character.  The    *)
(* size left is an unsigned number; filled is what a chunk has written.    *)
(***************************************************************************)

Version == <<1, 0, 0>>
Dot     == 46
Newline == 10

(* Writes src from position at on; what lies beyond the buffer is in over. *)
Put(info, src, size) ==
  LET n == IF size < Len(src) THEN size ELSE Len(src)
  IN  [info EXCEPT !.text = @ \o SubSeq(src, 1, n),
                   !.end = IF info.end > info.at + n + 1 THEN @ ELSE info.at + n + 1,
                   !.at = @ + n]

(* One of the three: the digits if they fit, otherwise as many as do and   *)
(* return; then the dot or the newline, for which nothing checks the size. *)
InfoStep(info, i) ==
  LET digits == itoa_hex_removing_ldz(Version[i])
      with   == Put(info, digits, Len(digits))
  IN  IF info.done THEN info
      ELSE IF info.left < Len(digits)
      THEN [Put(info, digits, info.left) EXCEPT !.done = TRUE]
      ELSE [Put(with, <<IF i = 3 THEN Newline ELSE Dot>>, 1)
              EXCEPT !.left = (@ - Len(digits) - 1) % SizeMod]

(* end is the number of places written, the NUL included. *)
InfoStart(id_size) ==
  [text |-> <<>>, at |-> 0, end |-> IF id_size = 1 THEN 1 ELSE 0,
   left |-> (id_size - 1) % SizeMod, done |-> FALSE]

osKernelGetInfo(id_size) == FoldLeft(InfoStep, InfoStart(id_size), <<1, 2, 3>>)

-----------------------------------------------------------------------------
(***************************************************************************)
(* get_tid and get_timer_tid find the thread by the distance of its block  *)
(* from the first, without a multiplication                                *)
(***************************************************************************)

BlockNumbers(size) ==
  <<0, size, 2 * size, 2 * size + size, 4 * size, 4 * size + size,
    4 * size + 2 * size, 4 * size + 2 * size + size>>

HwthreadSize == 16   \* sizeof(hwthread_state)
HwtimerSize  == 16   \* sizeof(hwtimer_state)

ByBlock(offset, size, otherwise) ==
  IF \E i \in 1 .. 8 : BlockNumbers(size)[i] = offset
  THEN (CHOOSE i \in 1 .. 8 : BlockNumbers(size)[i] = offset) - 1
  ELSE otherwise

get_tid(offset)       == ByBlock(offset, HwthreadSize, SizeMod - 1)
get_timer_tid(offset) == ByBlock(offset, HwtimerSize, 0)

-----------------------------------------------------------------------------
(***************************************************************************)
(* osThreadGetCount and osThreadEnumerate: started is the set of threads   *)
(* whose func is not NULL.  The bound of the loop is compared with the     *)
(* thread, not with the length of the list.                                *)
(***************************************************************************)

osThreadGetCount(started) == Cardinality(started)

osThreadEnumerate(started, array_items) ==
  SelectSeq([i \in 1 .. (IF array_items < 8 THEN array_items ELSE 8) |-> i - 1],
            LAMBDA t : t \in started)

-----------------------------------------------------------------------------
(***************************************************************************)
(* set_slots, set_tmodes and their opposites: a field of width values for  *)
(* each of the slots or threads, number 0 in the lowest bits; the          *)
(* masks keep a value that is too large out of the higher fields.          *)
(***************************************************************************)

Packed(v, width) == MapThenSumSet(LAMBDA i : (v[i] % width) * width ^ i, DOMAIN v)
Field(word, i, width) == (word \div width ^ i) % width

set_slots(s)     == Packed(s, 16)
get_slots(w, n)  == [i \in 0 .. n - 1 |-> Field(w, i, 16)]
set_tmodes(t)    == Packed(t, 4)
get_tmodes(w, n) == [i \in 0 .. n - 1 |-> Field(w, i, 4)]

-----------------------------------------------------------------------------
(***************************************************************************)
(* Properties                                                              *)
(***************************************************************************)

Texts == BoundedSeq({65, 66}, 4)

(* What a copy leaves behind is the beginning of its source, ended, and it *)
(* touches one place more than its size; memset and memcpy touch no more   *)
(* than they are told.                                                     *)
CopiesAreExact ==
  LET dest == [i \in 1 .. 6 |-> 88]
  IN  /\ \A src \in Texts, size \in 0 .. 5 :
           LET n   == Min({size, Len(src)})
               got == strncpy(dest, src, size)
           IN  /\ strlen(got) = n
               /\ emulator_outputstr(got) = SubSeq(src, 1, n)
               /\ \A i \in size + 2 .. 6 : got[i] = dest[i]
      /\ \A n \in 0 .. 6, m \in 0 .. 6 :
           memcpy(memset(dest, 256 + 7, n), dest, m) =
             [i \in 1 .. 6 |-> IF m < i /\ i <= n THEN 7 ELSE 88]

Numbers == 0 .. 300 \cup {16 ^ k : k \in 3 .. 7} \cup {16 ^ k - 1 : k \in 3 .. 7}

DigitValue(c) == IF c < 58 THEN c - 48 ELSE c - 55
Value(text) == FoldLeft(LAMBDA v, c : v * 16 + DigitValue(c), 0, text)

(* A printed number reads back as that number and has no zero in front.    *)
NumbersReadBack ==
  \A n \in Numbers :
    LET short == itoa_hex_removing_ldz(n)
    IN  /\ Value(itoa_hex(n)) = n /\ Value(short) = n
        /\ short[1] = 48 => n = 0 /\ Len(short) = 1
        /\ \A c \in ToSet(itoa_hex(n)) : c \in 48 .. 57 \cup 65 .. 70

(* osKernelGetInfo fills a buffer that has room for it, and no more of it,  *)
(* with the whole version.                                                  *)
InfoIsWhole ==
  \A id_size \in 7 .. 12 :
    LET info == osKernelGetInfo(id_size)
    IN  info.end <= id_size /\ info.text = <<49, 46, 48, 46, 48, 10>>

(* id_size is the "size of buffer for kernel identification string"         *)
(* (cmsis_os2.h:315): nothing is written behind it.  The code does not keep *)
(* this for 0, 2, 4 and 6, so it is no part of ServicesAreRight.            *)
InfoStaysInside == \A id_size \in 0 .. 12 : osKernelGetInfo(id_size).end <= id_size

(* A handle leads back to its thread, and every other address to -1, or to *)
(* thread 0 for a timer.                                                   *)
HandlesLeadBack ==
  \A offset \in 0 .. 160 :
    /\ get_tid(offset) =
         IF offset % 16 = 0 /\ offset < 128 THEN offset \div 16 ELSE SizeMod - 1
    /\ get_timer_tid(offset) =
         IF offset % 16 = 0 /\ offset < 128 THEN offset \div 16 ELSE 0

(* A list has only started threads, no more of them than it has room for,  *)
(* and all of them if it has room for all threads.                         *)
ThreadsAreListed ==
  \A started \in SUBSET (0 .. 7), items \in 0 .. 9 :
    LET list == osThreadEnumerate(started, items)
    IN  /\ ToSet(list) \subseteq started /\ Len(list) <= items
        /\ items >= 8 => Len(list) = osThreadGetCount(started)

(* What set_slots and set_tmodes write, their opposites read.              *)
FieldsUnpack ==
  /\ \A s \in [0 .. 3 -> {0, 7, 14, 15}] : get_slots(set_slots(s), 4) = s
  /\ \A t \in [0 .. 7 -> {0, 1, 3}] : get_tmodes(set_tmodes(t), 8) = t

(* All of them together: the utilities do for every other module what it   *)
(* takes them to do.                                                       *)
ServicesAreRight ==
  /\ CopiesAreExact
  /\ NumbersReadBack
  /\ InfoIsWhole
  /\ HandlesLeadBack
  /\ ThreadsAreListed
  /\ FieldsUnpack
=============================================================================
