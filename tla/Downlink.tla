----------------------------- MODULE Downlink -----------------------------
(***************************************************************************)
(* Packets from the server to a client.  write_iobuf_abuffer writes what   *)
(* there is room for in the output fifo, poll_buffers passes it on in      *)
(* chunks, and the client reads a frame with a blocking read for each byte *)
(* of MSG_ID, one for the header and one for the payload; a read that gets *)
(* less than it asked for gives the packet up.  The fifo and the socket    *)
(* are the queue that Bufio is shown to be.                                *)
(***************************************************************************)
EXTENDS Frames

CONSTANTS
  WSize,          \* BUFIO_WSIZE
  Chunk           \* BUF_CHUNK

ASSUME DownlinkAssumption == WSize \in Nat \ {0} /\ Chunk \in Nat \ {0}

VARIABLES
  output,         \* the content of the output fifo
  reading,        \* what the client waits for; "select": it is in its main loop
  matched,        \* how many bytes of MSG_ID it has read
  truncated,      \* a frame did not fit into the fifo
  damaged,        \* that, or a packet was given up or too long
  interrupts      \* reads ended by a signal so far

ending == <<length, begun, output>>
reader == <<reading, matched, packet, payload_length>>
history == <<arrived, delivered, losses, truncated, damaged, interrupts>>
downVars == <<ending, socket, reader, history>>

-----------------------------------------------------------------------------
(* The server.                                                             *)

\* Mutant: no look at the room.
WrittenWhole(frame) == output \o frame

\* Three calls of write_buffer, the first short one ends it.
Written(frame) == output \o First(frame, Least(Len(frame), WSize - Len(output)))

\* A payload the client's buffer is too small for is as good as lost.
write_iobuf_abuffer ==
  /\ begun < Packets
  /\ LET p == begun + 1
         frame == Frame(p, length[p])
         fits == Len(output) + Len(frame) <= WSize
     IN  /\ begun' = p
         /\ output' = Written(frame)
         /\ truncated' = (truncated \/ ~fits)
         /\ damaged' = (damaged \/ ~fits \/ TooLong(p))
         /\ losses' = losses + (IF ~fits THEN MostLost
                                ELSE IF TooLong(p) THEN 1 ELSE 0)
  /\ delivered' = 0
  /\ UNCHANGED <<length, socket, reader, arrived, interrupts>>

\* The kernel takes a part of the chunk, the rest goes back.
poll_output ==
  /\ output # << >>
  /\ \E n \in 1 .. Least(Chunk, Len(output)) :
       /\ Len(socket) + n <= SocketRoom
       /\ socket' = socket \o First(output, n)
       /\ output' = After(output, n)
  /\ delivered' = 0
  /\ UNCHANGED <<length, begun, reader, arrived, losses, truncated, damaged, interrupts>>

-----------------------------------------------------------------------------
(* The client: read_abuffer, called when select reports the pipe readable. *)

BackToSelect ==
  /\ reading' = "select" /\ matched' = 0 /\ packet' = 0 /\ payload_length' = 0

Select ==
  /\ reading = "select" /\ socket # << >>
  /\ reading' = "id"
  /\ delivered' = 0
  /\ UNCHANGED <<ending, socket, matched, packet, payload_length,
                 arrived, losses, truncated, damaged, interrupts>>

\* Mutant: stays in read_abuffer until MSG_ID is found.
KeepsLooking ==
  /\ reading' = "id" /\ matched' = 0
  /\ UNCHANGED <<packet, payload_length>>

NotMsgId == BackToSelect

\* One byte of MSG_ID; the first that differs is consumed, too.
ReadId ==
  /\ reading = "id" /\ socket # << >>
  /\ socket' = After(socket, 1)
  /\ IF socket[1] # MsgId[matched + 1]
       THEN NotMsgId
       ELSE /\ reading' = IF matched + 1 = IdLength THEN "header" ELSE "id"
            /\ matched' = matched + 1
            /\ UNCHANGED <<packet, payload_length>>
  /\ delivered' = 0
  /\ UNCHANGED <<ending, arrived, losses, truncated, damaged, interrupts>>

\* A read returns what is there, up to what was asked for.
ReadUpTo(n) == First(socket, n)
Unread(n) == After(socket, n)

\* A short read gives the packet up.
GivePacketUp ==
  /\ BackToSelect
  /\ losses' = losses + 1
  /\ damaged' = TRUE
  /\ delivered' = 0
  /\ UNCHANGED arrived

ReadHeaderBytes ==
  /\ reading = "header" /\ socket # << >>
  /\ LET n == Least(HeaderLength, Len(socket))
     IN  /\ socket' = Unread(n)
         /\ \/ n < HeaderLength /\ GivePacketUp
            \/ /\ n = HeaderLength
               /\ reading' = "payload"
               /\ \/ /\ packet' \in 1 .. begun
                     /\ ReadUpTo(n) = Header(packet')
                     /\ payload_length' = Least(length[packet'], MaxSize)
                  \/ /\ \A p \in 1 .. begun : ReadUpTo(n) # Header(p)
                     /\ packet' = 0
                     /\ payload_length' \in 0 .. MaxSize
               /\ delivered' = 0
               /\ UNCHANGED <<matched, arrived, losses, damaged>>
  /\ UNCHANGED <<ending, truncated, interrupts>>

\* Mutant: the checksum of no payload is never right.
IntactUnlessEmpty(n) == packet # 0 /\ n > 0 /\ ReadUpTo(n) = Payload(packet, length[packet])

\* The checksum in the header is that of the whole payload.
Intact(n) == packet # 0 /\ ReadUpTo(n) = Payload(packet, length[packet])

\* Mutant: waits for a byte of an empty payload.
NonemptyReady == socket # << >>

PayloadReady == socket # << >> \/ payload_length = 0

ReadPayloadBytes ==
  /\ reading = "payload"
  /\ PayloadReady
  /\ LET n == Least(payload_length, Len(socket))
     IN  /\ socket' = Unread(n)
         /\ \/ n < payload_length /\ GivePacketUp
            \/ /\ n = payload_length
               /\ BackToSelect
               /\ IF Intact(n)
                    THEN Deliver(packet)
                    ELSE delivered' = 0 /\ UNCHANGED <<arrived, losses>>
               /\ UNCHANGED damaged
  /\ UNCHANGED <<ending, truncated, interrupts>>

\* A relog in the middle of a frame: the next client starts afresh.
sigusr1_in_read ==
  /\ reading # "select"
  /\ interrupts < Interrupts
  /\ interrupts' = interrupts + 1
  /\ GivePacketUp
  /\ UNCHANGED <<ending, socket, truncated>>

read_abuffer == ReadId \/ ReadHeaderBytes \/ ReadPayloadBytes

-----------------------------------------------------------------------------
DownInit ==
  /\ Unused
  /\ output = << >> /\ reading = "select" /\ matched = 0
  /\ truncated = FALSE /\ damaged = FALSE /\ interrupts = 0

DownNext ==
  \/ write_iobuf_abuffer
  \/ poll_output
  \/ Select
  \/ read_abuffer
  \/ sigusr1_in_read

DownSpec == DownInit /\ [][DownNext]_downVars

\* The server comes back to poll_buffers, a read that can return does, and
\* the client's main loop comes back to its select.
DownFairSpec == DownSpec /\ WF_downVars(poll_output) /\ WF_downVars(read_abuffer) /\ WF_downVars(Select)

-----------------------------------------------------------------------------
(* Properties.                                                             *)

DownTypeOK ==
  /\ InRange
  /\ Len(output) <= WSize
  /\ reading \in {"select", "id", "header", "payload"} /\ matched \in 0 .. IdLength
  /\ truncated \in BOOLEAN /\ damaged \in BOOLEAN /\ interrupts \in 0 .. Interrupts

\* The client comes back to its main loop, where the keyboard is read, from
\* every packet it has begun to read, as long as the server has not truncated
\* one (Client/abufcli.c:34, 40, 57).
ClientReturns ==
  reading # "select" ~> (reading = "select" \/ truncated)

\* While nothing is truncated or given up every packet arrives.
EveryPacketGetsThrough ==
  \A p \in 1 .. Packets :
    (begun >= p /\ ~damaged) ~> (damaged \/ arrived >= p)
=============================================================================
