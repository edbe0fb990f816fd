----------------------------- MODULE ByteQueue -----------------------------
(***************************************************************************)
(* What one direction of a buffered connection (Lib/bufio.c) promises: a   *)
(* queue of bytes of bounded length.  Bytes come out in the order they     *)
(* were accepted, each once, and none is lost while the peer is there.  A  *)
(* new connection starts with nothing of the old one.                      *)
(***************************************************************************)
EXTENDS Integers, Sequences

CONSTANTS
  Byte,
  Capacity    \* the most bytes under way

VARIABLES
  queue,      \* the bytes under way, oldest first
  out,        \* the bytes that came out in the last step
  gone        \* the peer has gone

vars == <<queue, out, gone>>

Init == queue = << >> /\ out = << >> /\ gone = FALSE

\* Some bytes are accepted, behind those under way.
Put ==
  /\ queue' \in Seq(Byte)
  /\ Len(queue) <= Len(queue') /\ Len(queue') <= Capacity
  /\ SubSeq(queue', 1, Len(queue)) = queue
  /\ out' = << >>
  /\ UNCHANGED gone

\* The oldest k bytes come out.
Get ==
  /\ \E k \in 0 .. Len(queue) :
       /\ out' = SubSeq(queue, 1, k)
       /\ queue' = SubSeq(queue, k + 1, Len(queue))
  /\ UNCHANGED gone

\* Bytes are thrown away only when nobody is there to take them.
Lose ==
  /\ gone
  /\ \E k \in 0 .. Len(queue) : queue' = SubSeq(queue, k + 1, Len(queue))
  /\ out' = << >>
  /\ UNCHANGED gone

Leave == gone' = TRUE /\ out' = << >> /\ UNCHANGED queue

Restart == queue' = << >> /\ out' = << >> /\ gone' = FALSE

Next == Put \/ Get \/ Lose \/ Leave \/ Restart

Spec == Init /\ [][Next]_vars
=============================================================================
