---------------------------- MODULE PacketStream ----------------------------
(***************************************************************************)
(* What the packet layer (Lib/abufcommon.c, Server/srv_abuf.c,             *)
(* Client/abufcli.c) promises of one direction of a pipe: packets arrive   *)
(* whole, in order and at most once, and each damage to the stream of      *)
(* bytes costs at most MostLost of them.                                   *)
(***************************************************************************)
EXTENDS Integers, Sequences

CONSTANT MostLost

VARIABLES
  queue,      \* the numbers of the packets under way, oldest first
  out,        \* the packet that arrived in the last step, 0 if none
  losses      \* how many packets may yet be lost

vars == <<queue, out, losses>>

Init == queue = << >> /\ out = 0 /\ losses = 0

Send ==
  /\ Len(queue') = Len(queue) + 1
  /\ SubSeq(queue', 1, Len(queue)) = queue
  /\ out' = 0
  /\ losses' >= losses /\ losses' <= losses + MostLost

\* The packets before the one that arrives are lost.
Deliver ==
  \E k \in 1 .. Len(queue) :
    /\ k - 1 <= losses
    /\ out' = queue[k]
    /\ queue' = SubSeq(queue, k + 1, Len(queue))
    /\ losses' = losses - (k - 1)

Damage ==
  /\ losses' > losses /\ losses' <= losses + MostLost
  /\ out' = 0
  /\ UNCHANGED queue

Idle == out' = 0 /\ UNCHANGED <<queue, losses>>

Next == Send \/ Deliver \/ Damage \/ Idle

Spec == Init /\ [][Next]_vars
=============================================================================
