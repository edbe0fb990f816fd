------------------------------- MODULE Fifo -------------------------------
(***************************************************************************)
(* The circular buffer of Lib/bufio.c (struct _iofifo) as a record and its *)
(* operations as operators from records to records.  The pointers head and *)
(* tail are offsets from buffer, end is size.  malloc'ed cells hold        *)
(* anything; a deallocated fifo has size 0.                                *)
(***************************************************************************)
EXTENDS Integers, Sequences

CONSTANT Byte   \* the values of a char

Least(a, b) == IF a <= b THEN a ELSE b

FifoRecord(n) ==
  [buffer : [0 .. n - 1 -> Byte], head : Nat, tail : Nat, used : 0 .. n, size : {n}]

\* malloc leaves junk in the cells.
init_iofifo(junk, n) ==
  [buffer |-> junk, head |-> 0, tail |-> 0, used |-> 0, size |-> n]

dealloc_fifo ==
  [buffer |-> << >>, head |-> 0, tail |-> 0, used |-> 0, size |-> 0]

\* Mutant: a pointer may stand at the end.
ForwardLate(size, p, n) == IF p + n > size THEN p + n - size ELSE p + n

\* n single steps of a pointer that goes back to the start at the end (n <= size).
Forward(size, p, n) == IF p + n >= size THEN p + n - size ELSE p + n

\* How far cell i is ahead of pointer p.
Ahead(size, i, p) == IF i >= p THEN i - p ELSE i - p + size

\* The loop writes as much as there is room for.
write_to_iofifo(f, data) ==
  LET n == Least(f.size - f.used, Len(data))
      Cell(i) == IF Ahead(f.size, i, f.head) < n
                   THEN data[Ahead(f.size, i, f.head) + 1] ELSE f.buffer[i]
  IN  [buffer |-> [i \in 0 .. f.size - 1 |-> Cell(i)],
       head |-> Forward(f.size, f.head, n), tail |-> f.tail,
       used |-> f.used + n, size |-> f.size]

\* The loop reads as much as there is: the bytes, and the fifo afterwards.
BytesRead(f, n) ==
  [i \in 1 .. Least(f.used, n) |-> f.buffer[Forward(f.size, f.tail, i - 1)]]

read_from_iofifo(f, n) ==
  LET m == Least(f.used, n)
  IN  [buffer |-> f.buffer, head |-> f.head, tail |-> Forward(f.size, f.tail, m),
       used |-> f.used - m, size |-> f.size]

\* Mutant: what the kernel refuses is not put back.
NotRequeued(f, n) == f

\* Puts the last n bytes read back by moving tail over them again.
requeue_iofifo(f, n) ==
  [buffer |-> f.buffer, head |-> f.head,
   tail |-> IF f.tail < n THEN f.tail - n + f.size ELSE f.tail - n,
   used |-> f.used + n, size |-> f.size]

\* What is in the fifo, oldest byte first.
Content(f) == [i \in 1 .. f.used |-> f.buffer[Forward(f.size, f.tail, i - 1)]]

\* head is always used cells ahead of tail: an inductive part of every proof
\* about a fifo.
Sound(f, n) ==
  /\ f \in FifoRecord(n)
  /\ IF n = 0 THEN f.tail = 0 ELSE f.tail < n
  /\ f.head = Forward(f.size, f.tail, f.used)
=============================================================================
