------------------------------ MODULE Frames ------------------------------
(***************************************************************************)
(* One direction of a pipe: what Uplink and Downlink have in common.       *)
(*                                                                         *)
(* A packet is sent as a frame: MSG_ID, the header (struct                 *)
(* _abuffer_format) and the payload.  A byte is a model of its place: the  *)
(* i-th of MSG_ID, of the header of packet p, of the payload of packet p.  *)
(* The checksum in the header is taken to tell the whole payload of p from *)
(* everything else.                                                        *)
(***************************************************************************)
EXTENDS Integers, Sequences

CONSTANTS
  IdLength,       \* sizeof(g_uint32), the bytes of MSG_ID
  HeaderLength,   \* sizeof(abuffer)
  MaxLength,      \* the longest payload sent
  MaxSize,        \* sizeof(abuf_data) - 1 in the main loops: the longest read
  SocketRoom,     \* what the kernel holds
  Packets,        \* bound: how many packets are sent
  Interrupts      \* bound: how often a signal ends a read or a write

ASSUME FrameAssumption ==
  /\ IdLength \in Nat \ {0} /\ HeaderLength \in Nat \ {0}
  /\ MaxLength \in Nat /\ MaxSize \in Nat /\ SocketRoom \in Nat \ {0}
  /\ Packets \in Nat /\ Interrupts \in Nat

VARIABLES
  length,         \* the payload lengths of packets 1, 2, ...
  begun,          \* how many packets have been written, if only in part
  socket,         \* taken by the kernel, not yet read
  packet,         \* whose header has been read, 0 if of none
  payload_length, \* of that header, cut to MaxSize
  arrived,        \* the packet delivered last, 0 if none was
  delivered,      \* the packet delivered in the last step, or 0
  losses          \* see PacketStream

Least(a, b) == IF a <= b THEN a ELSE b

MsgId == [i \in 1 .. IdLength |-> <<"id", 0, i>>]

Header(p) == [i \in 1 .. HeaderLength |-> <<"header", p, i>>]

Payload(p, n) == [i \in 1 .. n |-> <<"payload", p, i>>]

Frame(p, n) == MsgId \o Header(p) \o Payload(p, n)

\* The first k bytes of a sequence, and the others.
First(s, k) == SubSeq(s, 1, k)
After(s, k) == SubSeq(s, k + 1, Len(s))

\* A payload that is cut to MaxSize has not the checksum of the whole.
TooLong(p) == length[p] > MaxSize

Deliver(p) ==
  /\ delivered' = p /\ arrived' = p
  /\ losses' = losses - (p - arrived - 1)

\* Nothing has been sent.
Unused ==
  /\ length \in [1 .. Packets -> 0 .. MaxLength]
  /\ begun = 0 /\ socket = << >> /\ packet = 0 /\ payload_length = 0
  /\ arrived = 0 /\ delivered = 0 /\ losses = 0

InRange ==
  /\ length \in [1 .. Packets -> 0 .. MaxLength] /\ begun \in 0 .. Packets
  /\ Len(socket) <= SocketRoom
  /\ packet \in 0 .. begun /\ payload_length \in 0 .. MaxSize
  /\ arrived \in 0 .. begun /\ delivered \in 0 .. begun

-----------------------------------------------------------------------------
\* A frame cut behind MSG_ID is completed with a header's length of the bytes
\* that follow, and then asks for up to MaxSize more: the frame that was cut
\* is lost, and every one that all these bytes touch.
MostLost == 2 + (HeaderLength + MaxSize - 1) \div (IdLength + HeaderLength)

\* Packets reach the reader's state machine whole, in order and at most once,
\* and damage to a frame costs no more of them than the bytes a confused parser
\* may swallow: the parser finds its way back (Server/srv_abuf.c:22-68,
\* Client/abufcli.c:24-68).
Stream == INSTANCE PacketStream WITH
  queue <- [i \in 1 .. begun - arrived |-> arrived + i], out <- delivered

ArrivesInOrder == Stream!Spec
=============================================================================
