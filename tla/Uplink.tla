------------------------------ MODULE Uplink ------------------------------
(***************************************************************************)
(* Packets from a client to the server: write_abuffer writes a frame in    *)
(* three blocking writes, poll_buffers moves its bytes into the input      *)
(* fifo, and the main loop calls read_iobuf_abuffer until it says that     *)
(* nothing more is ready.  A signal (SIGUSR1: killed, relog, lined out)    *)
(* may end or restart the client between two bytes of a frame; after a     *)
(* relog the next client goes on writing to the same pipe.  The fifo and   *)
(* the socket are the queue that Bufio is shown to be.                     *)
(***************************************************************************)
EXTENDS Frames

CONSTANT RSize    \* BUFIO_RSIZE

\* A header and the longest payload fit into the fifo (8192 >= 32, 4095).
ASSUME UplinkAssumption ==
  RSize \in Nat /\ IdLength + HeaderLength <= RSize /\ MaxSize <= RSize

VARIABLES
  writing,        \* the rest of the frame being written
  input,          \* the content of the input fifo
  calling,        \* the main loop is calling read_iobuf_abuffer
  state,          \* abuf_state->state
  cuts            \* frames cut so far

client == <<length, begun, writing>>
server == <<input, calling, state, payload_length, packet>>
ghosts == <<arrived, delivered, losses, cuts>>
vars == <<client, socket, server, ghosts>>

-----------------------------------------------------------------------------
(* The client.                                                             *)

\* A payload the server's buffer is too small for is as good as lost.
write_abuffer ==
  /\ writing = << >>
  /\ begun < Packets
  /\ begun' = begun + 1
  /\ writing' = Frame(begun + 1, length[begun + 1])
  /\ losses' = losses + (IF TooLong(begun + 1) THEN 1 ELSE 0)
  /\ delivered' = 0
  /\ UNCHANGED <<length, socket, server, arrived, cuts>>

\* The kernel takes some bytes; a blocking write goes on until all are taken.
SocketWrite ==
  /\ writing # << >>
  /\ \E n \in 1 .. Len(writing) :
       /\ Len(socket) + n <= SocketRoom
       /\ socket' = socket \o First(writing, n)
       /\ writing' = After(writing, n)
  /\ delivered' = 0
  /\ UNCHANGED <<length, begun, server, arrived, losses, cuts>>

\* sigusr1_handler in the middle of a frame: its rest is never written.
sigusr1_handler ==
  /\ writing # << >>
  /\ cuts < Interrupts
  /\ cuts' = cuts + 1
  /\ writing' = << >>
  /\ losses' = losses + MostLost
  /\ delivered' = 0
  /\ UNCHANGED <<length, begun, socket, server, arrived>>

-----------------------------------------------------------------------------
(* The server.                                                             *)

\* poll_buffers reads what there is room for, and the main loop begins to
\* look for packets.
poll_buffers ==
  /\ ~calling
  /\ socket # << >> /\ Len(input) < RSize
  /\ \E n \in 1 .. Len(socket) :
       /\ Len(input) + n <= RSize
       /\ input' = input \o First(socket, n)
       /\ socket' = After(socket, n)
  /\ calling' = TRUE
  /\ delivered' = 0
  /\ UNCHANGED <<client, state, payload_length, packet, arrived, losses, cuts>>

NotReady ==
  /\ calling' = FALSE
  /\ delivered' = 0
  /\ UNCHANGED <<input, state, payload_length, packet, arrived, losses>>

\* Mutant: waits for one byte more than MSG_ID and the header.
ReadyLate == Len(input) > IdLength + HeaderLength

Ready == Len(input) >= IdLength + HeaderLength

\* Mutant: takes four bytes before it compares them.
OutOfStepByWords ==
  /\ Ready
  /\ First(input, IdLength) # MsgId
  /\ input' = After(input, IdLength)
  /\ delivered' = 0
  /\ UNCHANGED <<calling, state, payload_length, packet, arrived, losses>>

\* The first byte that differs from MSG_ID is taken out too.
OutOfStep ==
  /\ Ready
  /\ \E k \in 1 .. IdLength :
       /\ First(input, k - 1) = First(MsgId, k - 1)
       /\ input[k] # MsgId[k]
       /\ input' = After(input, k)
  /\ delivered' = 0
  /\ UNCHANGED <<calling, state, payload_length, packet, arrived, losses>>

\* Mutant: sizeof(abuf_data) given for sizeof(abuf_data) - 1.
ClaimedByOneMore == 0 .. MaxSize + 1

\* A header put together of two asks for any length, cut to maxsize.
Claimed == 0 .. MaxSize

ReadHeader ==
  /\ Ready
  /\ First(input, IdLength) = MsgId
  /\ input' = After(input, IdLength + HeaderLength)
  /\ state' = "HEADER"
  /\ LET header == First(After(input, IdLength), HeaderLength)
     IN  \/ /\ packet' \in 1 .. begun
            /\ header = Header(packet')
            /\ payload_length' = Least(length[packet'], MaxSize)
         \/ /\ \A p \in 1 .. begun : header # Header(p)
            /\ packet' = 0
            /\ payload_length' \in Claimed
  /\ delivered' = 0
  /\ UNCHANGED <<calling, arrived, losses>>

\* Mutant: waits for a whole frame although the header is taken out.
FrameThere == Len(input) >= IdLength + HeaderLength + payload_length

PayloadThere == Len(input) >= payload_length

\* The checksum is right exactly if the payload is the packet's.
ReadPayload ==
  /\ PayloadThere
  /\ state' = "NONE"
  /\ input' = After(input, payload_length)
  /\ IF packet # 0 /\ First(input, payload_length) = Payload(packet, length[packet])
       THEN Deliver(packet)
       ELSE delivered' = 0 /\ UNCHANGED <<arrived, losses>>
  /\ packet' = 0 /\ payload_length' = 0
  /\ UNCHANGED calling

read_iobuf_abuffer ==
  /\ calling
  /\ \/ state = "NONE" /\ ~Ready /\ NotReady
     \/ state = "NONE" /\ (OutOfStep \/ ReadHeader)
     \/ state = "HEADER" /\ ~PayloadThere /\ NotReady
     \/ state = "HEADER" /\ ReadPayload
  /\ UNCHANGED <<client, socket, cuts>>

-----------------------------------------------------------------------------
Init ==
  /\ Unused
  /\ writing = << >> /\ input = << >>
  /\ calling = FALSE /\ state = "NONE" /\ cuts = 0

Next ==
  \/ write_abuffer
  \/ SocketWrite
  \/ sigusr1_handler
  \/ poll_buffers
  \/ read_iobuf_abuffer

\* The kernel goes on with a blocking write when there is room; the main loop
\* of the server ends its calls and comes back to poll_buffers.
Fairness ==
  WF_vars(SocketWrite) /\ WF_vars(poll_buffers) /\ WF_vars(read_iobuf_abuffer)

Spec == Init /\ [][Next]_vars /\ Fairness

-----------------------------------------------------------------------------
(* Properties.                                                             *)

TypeOK ==
  /\ InRange
  /\ Len(input) <= RSize
  /\ calling \in BOOLEAN /\ state \in {"NONE", "HEADER"} /\ cuts \in 0 .. Interrupts

\* The main loop never leaves the fifo full with nothing taken from it: then
\* poll_buffers would no longer read and the client would block for ever
\* (Server/gt.c:665, Server/srv_abuf.c:33, 57, Lib/bufio.c:217).
NeverStuffed == ~calling => Len(input) < RSize

\* While no frame is cut every packet begun arrives, unless it is too long.
EveryPacketArrives ==
  \A p \in 1 .. Packets :
    (begun >= p /\ cuts = 0 /\ ~TooLong(p)) ~> (cuts > 0 \/ arrived >= p)
=============================================================================
