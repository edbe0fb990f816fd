------------------------------- MODULE Bufio -------------------------------
(***************************************************************************)
(* One buffered connection of the server (struct _iobuf in Lib/bufio.c):   *)
(* two circular buffers between the server's handlers and a nonblocking    *)
(* socket, with the kernel and the client at the other end.  poll_buffers  *)
(* moves bytes between them; what it takes out and the kernel refuses it   *)
(* puts back (requeue_iofifo).                                             *)
(***************************************************************************)
EXTENDS Integers, Sequences, Fifo

CONSTANTS
  RSize,        \* BUFIO_RSIZE
  WSize,        \* BUFIO_WSIZE
  Chunk,        \* BUF_CHUNK
  SocketRoom    \* how much the kernel holds for the server

ASSUME SizesAssumption ==
  /\ RSize \in Nat \ {0} /\ WSize \in Nat \ {0}
  /\ Chunk \in Nat \ {0} /\ SocketRoom \in Nat

VARIABLES
  input, output,            \* the two fifos of the iobuf
  closed,                   \* buf->closed
  read_error, write_error,  \* buf->read_error, buf->write_error
  incoming,                 \* sent by the client, not yet read by the server
  clogged,                  \* the kernel takes nothing more for the client
  peerGone,                 \* the client's end is closed
  got, taken                \* read by a handler, taken by the kernel in the last step

flags == <<closed, read_error, write_error>>
peer == <<incoming, clogged, peerGone>>
vars == <<input, output, flags, peer, got, taken>>

Open == output.size # 0

Quiet == got' = << >> /\ taken' = << >>

-----------------------------------------------------------------------------
(* The server's side.                                                      *)

\* fd_buffer for a new client, with a new socket pair.
FdBuffer ==
  /\ ~Open
  /\ \E junk \in [0 .. RSize - 1 -> Byte] : input' = init_iofifo(junk, RSize)
  /\ \E junk \in [0 .. WSize - 1 -> Byte] : output' = init_iofifo(junk, WSize)
  /\ closed' = FALSE /\ read_error' = FALSE /\ write_error' = FALSE
  /\ incoming' = << >> /\ clogged' = FALSE /\ peerGone' = FALSE
  /\ Quiet

\* clear_node_data: delete_buffer_from_select and kill_fd_buffer; the
\* descriptor is closed next.
KillFdBuffer ==
  /\ Open
  /\ input' = dealloc_fifo /\ output' = dealloc_fifo
  /\ incoming' = << >> /\ clogged' = FALSE /\ peerGone' = FALSE
  /\ Quiet
  /\ UNCHANGED flags

\* write_buffer; it may be called for a buffer already killed, and then
\* writes nothing.
WriteBuffer(data) ==
  /\ output' = write_to_iofifo(output, data)
  /\ Quiet
  /\ UNCHANGED <<input, flags, peer>>

\* read_buffer, and read_ch_buffer for n = 1.
ReadBuffer(n) ==
  /\ input' = read_from_iofifo(input, n)
  /\ got' = BytesRead(input, n)
  /\ taken' = << >>
  /\ UNCHANGED <<output, flags, peer>>

\* Mutant: waits for room for a whole chunk.
ReadableByChunk ==
  /\ input.used + Chunk <= input.size
  /\ incoming # << >> \/ peerGone

\* What select reports.
Readable ==
  /\ input.used < input.size
  /\ incoming # << >> \/ peerGone

Writable == output.used > 0 /\ ~clogged

\* Mutant: read() of a chunk, whatever the room.
ReadWholeChunk ==
  \E n \in 1 .. Least(Len(incoming), Chunk) :
    /\ input' = write_to_iofifo(input, SubSeq(incoming, 1, n))
    /\ incoming' = SubSeq(incoming, n + 1, Len(incoming))
    /\ UNCHANGED <<closed, read_error>>

\* read() of at most a chunk and at most the room there is.
ReadSome ==
  \E n \in 1 .. Least(Len(incoming), Least(Chunk, input.size - input.used)) :
    /\ input' = write_to_iofifo(input, SubSeq(incoming, 1, n))
    /\ incoming' = SubSeq(incoming, n + 1, Len(incoming))
    /\ UNCHANGED <<closed, read_error>>

\* read() returns 0 (end of file) or an error (connection reset).
ReadNothing ==
  /\ incoming = << >>
  /\ closed' \in {closed, TRUE}
  /\ read_error' = TRUE
  /\ UNCHANGED <<input, incoming>>

Maxwrite == Least(Chunk, output.used)

\* Mutant: all goes back, what the kernel took as well.
WriteRepeated ==
  \E n \in 1 .. Maxwrite :
    /\ taken' = SubSeq(BytesRead(output, Maxwrite), 1, n)
    /\ output' = requeue_iofifo(read_from_iofifo(output, Maxwrite), Maxwrite)
    /\ UNCHANGED write_error

\* write() takes n bytes; the others go back.
WriteSome ==
  \E n \in 1 .. Maxwrite :
    /\ taken' = SubSeq(BytesRead(output, Maxwrite), 1, n)
    /\ output' = requeue_iofifo(read_from_iofifo(output, Maxwrite), Maxwrite - n)
    /\ UNCHANGED write_error

\* write() fails: the chunk is lost.
WriteFails ==
  /\ output' = read_from_iofifo(output, Maxwrite)
  /\ write_error' = TRUE
  /\ taken' = << >>

\* One turn of poll_buffers for this buffer: reading first, then writing,
\* both as select found them.
Poll ==
  /\ ~closed
  /\ Readable \/ Writable
  /\ \/ ~Readable /\ UNCHANGED <<input, incoming, closed, read_error>>
     \/ Readable /\ ReadSome
     \/ Readable /\ ReadNothing
  /\ \/ ~Writable /\ UNCHANGED <<output, write_error>> /\ taken' = << >>
     \/ Writable /\ ~peerGone /\ WriteSome
     \/ Writable /\ peerGone /\ WriteFails
  /\ got' = << >>
  /\ UNCHANGED <<clogged, peerGone>>

-----------------------------------------------------------------------------
(* The kernel and the client.                                              *)

PeerSend(byte) ==
  /\ Open /\ ~peerGone
  /\ Len(incoming) < SocketRoom
  /\ incoming' = Append(incoming, byte)
  /\ Quiet
  /\ UNCHANGED <<input, output, flags, clogged, peerGone>>

PeerClose ==
  /\ Open /\ ~peerGone
  /\ peerGone' = TRUE
  /\ clogged' = FALSE
  /\ Quiet
  /\ UNCHANGED <<input, output, flags, incoming>>

\* The client stops reading until the socket is full, or goes on.
Clog ==
  /\ Open /\ ~peerGone
  /\ clogged' = ~clogged
  /\ Quiet
  /\ UNCHANGED <<input, output, flags, incoming, peerGone>>

-----------------------------------------------------------------------------
CONSTANTS
  Writes,   \* the data handlers write
  Reads     \* how much handlers ask for

ASSUME CallsAssumption == Writes \subseteq Seq(Byte) /\ Reads \subseteq Nat

Init ==
  /\ input = dealloc_fifo /\ output = dealloc_fifo
  /\ closed = FALSE /\ read_error = FALSE /\ write_error = FALSE
  /\ incoming = << >> /\ clogged = FALSE /\ peerGone = FALSE
  /\ got = << >> /\ taken = << >>

Next ==
  \/ FdBuffer
  \/ KillFdBuffer
  \/ \E data \in Writes : WriteBuffer(data)
  \/ \E n \in Reads : ReadBuffer(n)
  \/ Poll
  \/ \E byte \in Byte : PeerSend(byte)
  \/ PeerClose
  \/ Clog

Spec == Init /\ [][Next]_vars

\* The main loop of the server comes back to poll_buffers after every batch
\* of messages.
FairSpec == Spec /\ WF_vars(Poll)
-----------------------------------------------------------------------------
(* Properties.                                                             *)

\* The pointers, the count and the size of each fifo agree whatever was
\* written, read, put back or refused (Lib/bufio.c:122-173), and both fifos
\* are there or neither (fd_buffer, kill_fd_buffer).
TypeOK ==
  /\ \/ Sound(input, RSize) /\ Sound(output, WSize)
     \/ Sound(input, 0) /\ Sound(output, 0)
  /\ closed \in BOOLEAN /\ read_error \in BOOLEAN /\ write_error \in BOOLEAN
  /\ clogged \in BOOLEAN /\ peerGone \in BOOLEAN
  /\ incoming \in Seq(Byte) /\ Len(incoming) <= SocketRoom
  /\ got \in Seq(Byte) /\ taken \in Seq(Byte)

\* The server's bytes reach the kernel in order, each once, although
\* poll_buffers takes out more than the kernel accepts and puts the rest back
\* (Lib/bufio.c:265-283); only a client that is gone loses some.
Outward == INSTANCE ByteQueue WITH
  Capacity <- WSize, queue <- Content(output), out <- taken, gone <- peerGone

OutputIsAQueue == Outward!Spec

\* The client's bytes reach the handlers in order, each once, across the
\* socket and a fifo that is smaller than what is sent (Lib/bufio.c:245-261);
\* a new client's buffers hold nothing of the last one's.
Inward == INSTANCE ByteQueue WITH
  Capacity <- RSize + SocketRoom, queue <- Content(input) \o incoming,
  out <- got, gone <- peerGone

InputIsAQueue == Inward!Spec

\* Neither direction stops: a full output fifo gets room again while the
\* client reads, and a client blocked in write() gets on unless the input fifo
\* is full.  poll_buffers selects a fifo with output for writing, reads as soon
\* as one byte fits, and makes progress (Lib/bufio.c:217-219, 241-283).
BytesMove ==
  /\ (Open /\ output.used = WSize) ~> (output.used < WSize \/ clogged \/ closed)
  /\ (Len(incoming) = SocketRoom)
       ~> (Len(incoming) < SocketRoom \/ input.used = RSize \/ closed)
=============================================================================
