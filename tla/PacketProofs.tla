---------------------------- MODULE PacketProofs ----------------------------
(***************************************************************************)
(* What comes out of a pipe are the packets that were put into it.         *)
(*                                                                         *)
(* Both directions of a pipe implement PacketStream, for all sizes of      *)
(* headers, payloads, buffers and kernel queues.  The argument speaks of   *)
(* every byte that was ever written: frame p has those behind start[p], up *)
(* to start[p + 1], and granted[p] is what the damage to it and to the     *)
(* frames before has been allowed to cost (Laid).  The kernel, the fifo    *)
(* and the writer hold a segment of these bytes each (Holds), the first x  *)
(* have been read.  Of the reader the invariant says, in each of its       *)
(* states, that it has read a part of one frame and nothing else (InStep), *)
(* or takes other bytes for a header because a frame was cut (Confused),   *)
(* or is somewhere in a frame that is lost and paid for (Settled).  That   *)
(* it is paid for is a matter of counting: frames that were not cut are    *)
(* longer than MSG_ID and a header, so that a confused reader, who takes   *)
(* at most a header and the longest payload, touches no more of them than  *)
(* MostLost (Late).                                                        *)
(*                                                                         *)
(* The server's end never gets stuck either: the parser stops only when    *)
(* less is there than a header or than a payload it waits for, and both    *)
(* fit into the input fifo.                                                *)
(***************************************************************************)
EXTENDS Uplink, Downlink, SequenceTheorems, TLAPS

\* The least that n frames take.
Bytes(n) == n * (IdLength + HeaderLength)

FullLength(p) == IdLength + HeaderLength + length[p]

\* Of all bytes that were ever written frame p has those behind start[p], up to
\* start[p + 1]; granted[p] is what the damage to it and to the frames before
\* has been allowed to cost.
CutShort(p, start) == start[p + 1] < start[p] + FullLength(p)

Laid(start, granted) ==
  /\ start \in [Nat -> Nat] /\ granted \in [Nat -> Nat]
  /\ start[1] = 0
  /\ \A p \in 1 .. begun :
       /\ start[p + 1] <= start[p] + FullLength(p)
       /\ TooLong(p) => granted[p - 1] < granted[p]
       /\ CutShort(p, start) => granted[p - 1] + MostLost <= granted[p]
  /\ \A p, q \in 1 .. begun + 1 : p <= q =>
       /\ start[p] <= start[q]
       /\ granted[p - 1] <= granted[q - 1]
       /\ Bytes(q - p) <= start[q] - start[p] + Bytes(granted[q - 1] - granted[p - 1])
  /\ \A x \in 1 .. start[begun + 1] :
       \E p \in 1 .. begun : start[p] < x /\ x <= start[p + 1]

\* The bytes behind the first x are those of t.
Holds(t, x, start) ==
  /\ x + Len(t) <= start[begun + 1]
  /\ \A i \in 1 .. Len(t), p \in 1 .. begun :
       start[p] < x + i /\ x + i <= start[p + 1] =>
         t[i] = Frame(p, length[p])[x + i - start[p]]

\* The reader has taken x bytes and is not in step: the frame it is in is lost.
Settled(x, start, granted) ==
  /\ \A p \in 1 .. begun : start[p] < x /\ x <= start[p + 1] =>
       arrived <= p /\ losses >= p - arrived + granted[begun] - granted[p]
  /\ x = 0 => arrived = 0 /\ losses >= granted[begun] - granted[0]

\* Frame p may still arrive, those before it are lost.
Entered(p, granted) ==
  /\ p \in 1 .. begun /\ arrived < p
  /\ losses >= p - 1 - arrived + granted[begun] - granted[p - 1]

\* It takes the n bytes behind the first x for a payload, because of a frame
\* that was cut.
Confused(x, n, start, granted) ==
  \E p \in 1 .. begun :
    /\ Entered(p, granted) /\ CutShort(p, start)
    /\ start[p] < x /\ x + n <= start[p + 1] + HeaderLength + MaxSize

-----------------------------------------------------------------------------
\* Whatever a byte on the pipe may be.
FrameByte == {"id", "header", "payload"} \X Nat \X Nat

LEMMA BytesGrow ==
  ASSUME NEW i \in Int, NEW j \in Int
  PROVE  /\ Bytes(i) \in Int /\ Bytes(0) = 0
         /\ Bytes(i + j) = Bytes(i) + Bytes(j)
         /\ Bytes(i - j) = Bytes(i) - Bytes(j)
         /\ i <= j => Bytes(i) <= Bytes(j)
         /\ i < j => Bytes(i) + IdLength + HeaderLength <= Bytes(j)
<1> DEFINE m == IdLength + HeaderLength
<1>1. m \in Nat /\ m > 0
  BY FrameAssumption
<1>2. ASSUME NEW k \in Nat PROVE k * m >= 0 /\ (k > 0 => k * m >= m)
  BY <1>1
<1>3. /\ i * m \in Int /\ j * m \in Int
      /\ (i + j) * m = i * m + j * m /\ (i - j) * m = i * m - j * m
      /\ (j - i) * m = j * m - i * m /\ 0 * m = 0
  BY <1>1
<1> HIDE DEF m
<1>4. i <= j => i * m <= j * m
  <2>1. i <= j => j - i \in Nat
    OBVIOUS
  <2> QED
    BY <1>1, <1>2, <1>3, <2>1
<1>5. i < j => i * m + m <= j * m
  <2>1. i < j => j - i \in Nat /\ j - i > 0
    OBVIOUS
  <2> QED
    BY <1>1, <1>2, <1>3, <2>1
<1>6. i < j => i * m + IdLength + HeaderLength <= j * m
  BY <1>1, <1>3, <1>5, FrameAssumption DEF m
<1> QED
  BY <1>3, <1>4, <1>6 DEF Bytes, m

\* How many frames the bytes after a cut can touch.
LEMMA MostLostCovers ==
  ASSUME NEW n \in Int, NEW k \in Nat, NEW b \in Int,
         b <= HeaderLength + MaxSize - 1,
         Bytes(n) <= b + Bytes(k)
  PROVE  MostLost \in Nat /\ MostLost >= 2 /\ n + 2 <= MostLost + k
<1> DEFINE m == IdLength + HeaderLength
           a == HeaderLength + MaxSize - 1
           d == a \div m
<1>1. m \in Nat /\ m > 0 /\ a \in Nat
  BY FrameAssumption
<1> HIDE DEF m, a
<1>2. d \in Nat /\ a < (d + 1) * m
  BY <1>1
<1>3. MostLost = d + 2
  BY <1>1 DEF MostLost, m, a, d
<1> HIDE DEF d
<1>4. (n - k) * m <= a
  <2>1. n * m <= b + k * m /\ b <= a
    BY DEF Bytes, m, a
  <2>2. (n - k) * m = n * m - k * m /\ n * m \in Int /\ k * m \in Int
    BY <1>1
  <2> QED
    BY <1>1, <2>1, <2>2
<1>5. ~ (n - k >= d + 1)
  <2>1. SUFFICES ASSUME n - k >= d + 1 PROVE FALSE
    OBVIOUS
  <2>2. (n - k) * m >= (d + 1) * m
    <3> DEFINE e == n - k - (d + 1)
    <3>1. e \in Nat
      BY <1>2, <2>1
    <3>2. e * m >= 0
      BY <1>1, <3>1
    <3>3. (n - k) * m = (d + 1) * m + e * m
      BY <1>1, <1>2
    <3> HIDE DEF e
    <3> QED
      BY <1>1, <1>2, <3>1, <3>2, <3>3
  <2>3. (n - k) * m \in Int /\ (d + 1) * m \in Int
    BY <1>1, <1>2
  <2> QED
    BY <1>1, <1>2, <1>4, <2>2, <2>3
<1> QED
  BY <1>2, <1>3, <1>5

LEMMA JoinedBytes ==
  ASSUME NEW s \in Seq(FrameByte), NEW t \in Seq(FrameByte)
  PROVE  /\ s \o t \in Seq(FrameByte) /\ Len(s \o t) = Len(s) + Len(t)
         /\ \A i \in 1 .. Len(s) + Len(t) :
              (s \o t)[i] = IF i <= Len(s) THEN s[i] ELSE t[i - Len(s)]
OBVIOUS

\* Which byte stands where in a frame.
LEMMA BytesOfFrame ==
  ASSUME NEW p \in Nat, NEW n \in Nat, NEW i \in 1 .. IdLength + HeaderLength + n
  PROVE  /\ i <= IdLength => Frame(p, n)[i] = <<"id", 0, i>>
         /\ IdLength < i /\ i <= IdLength + HeaderLength =>
              Frame(p, n)[i] = <<"header", p, i - IdLength>>
         /\ IdLength + HeaderLength < i =>
              Frame(p, n)[i] = <<"payload", p, i - IdLength - HeaderLength>>
<1> USE FrameAssumption
<1>1. /\ MsgId \in Seq(FrameByte) /\ Len(MsgId) = IdLength
      /\ Header(p) \in Seq(FrameByte) /\ Len(Header(p)) = HeaderLength
      /\ Payload(p, n) \in Seq(FrameByte) /\ Len(Payload(p, n)) = n
  <2>1. MsgId \in Seq(FrameByte)
    BY DEF MsgId, FrameByte
  <2>2. Header(p) \in Seq(FrameByte)
    BY DEF Header, FrameByte
  <2>3. Payload(p, n) \in Seq(FrameByte)
    BY DEF Payload, FrameByte
  <2>4. DOMAIN MsgId = 1 .. IdLength /\ DOMAIN Header(p) = 1 .. HeaderLength
        /\ DOMAIN Payload(p, n) = 1 .. n
    BY DEF MsgId, Header, Payload
  <2> QED
    BY <2>1, <2>2, <2>3, <2>4
<1>2. /\ i <= IdLength => Frame(p, n)[i] = MsgId[i]
      /\ IdLength < i /\ i <= IdLength + HeaderLength =>
           Frame(p, n)[i] = Header(p)[i - IdLength]
      /\ IdLength + HeaderLength < i =>
           Frame(p, n)[i] = Payload(p, n)[i - IdLength - HeaderLength]
  <2> DEFINE s == MsgId \o Header(p)
             t == Payload(p, n)
  <2>1. Frame(p, n) = s \o t
    BY <1>1 DEF Frame
  <2>2. /\ s \in Seq(FrameByte) /\ Len(s) = IdLength + HeaderLength
        /\ \A j \in 1 .. IdLength + HeaderLength :
             s[j] = IF j <= IdLength THEN MsgId[j] ELSE Header(p)[j - IdLength]
    BY <1>1, JoinedBytes
  <2>6. t \in Seq(FrameByte) /\ Len(t) = n
    BY <1>1
  <2> HIDE DEF s, t
  <2>3. (s \o t)[i] = IF i <= Len(s) THEN s[i] ELSE t[i - Len(s)]
    <3>1. i \in 1 .. Len(s) + Len(t)
      BY <2>2, <2>6
    <3> QED
      BY <2>2, <2>6, <3>1, JoinedBytes
  <2>4. /\ i <= IdLength + HeaderLength => Frame(p, n)[i] = s[i]
        /\ IdLength + HeaderLength < i => Frame(p, n)[i] = t[i - (IdLength + HeaderLength)]
    BY <2>1, <2>2, <2>3
  <2>5. i <= IdLength + HeaderLength => i \in 1 .. IdLength + HeaderLength
    OBVIOUS
  <2>7. i - (IdLength + HeaderLength) = i - IdLength - HeaderLength
    OBVIOUS
  <2> QED
    BY <2>2, <2>4, <2>5, <2>7 DEF t
<1> QED
  BY <1>2 DEF MsgId, Header, Payload

\* A byte tells where in a frame it stands, and in which.
LEMMA PlaceOfByte ==
  ASSUME NEW p \in Nat, NEW n \in Nat, NEW i \in 1 .. IdLength + HeaderLength + n,
         NEW q, NEW k
  PROVE  /\ Frame(p, n)[i] = <<"id", 0, k>> => k = i /\ i <= IdLength
         /\ Frame(p, n)[i] = <<"header", q, k>> => p = q /\ i = IdLength + k
         /\ Frame(p, n)[i] = <<"payload", q, k>> =>
              p = q /\ i = IdLength + HeaderLength + k
<1> USE FrameAssumption
<1>1. \/ i <= IdLength /\ Frame(p, n)[i] = <<"id", 0, i>>
      \/ IdLength < i /\ i <= IdLength + HeaderLength /\ Frame(p, n)[i] = <<"header", p, i - IdLength>>
      \/ IdLength + HeaderLength < i /\ Frame(p, n)[i] = <<"payload", p, i - IdLength - HeaderLength>>
  BY BytesOfFrame
<1> QED
  BY <1>1

\* Two places of frames.
LEMMA LaidPair ==
  ASSUME InRange, NEW start, NEW granted, Laid(start, granted),
         NEW i \in 1 .. begun + 1, NEW j \in 1 .. begun + 1, i <= j
  PROVE  /\ begun \in Nat /\ i \in Nat /\ j \in Nat
         /\ start[i] \in Nat /\ start[j] \in Nat /\ start[i] <= start[j]
         /\ granted[i - 1] \in Nat /\ granted[j - 1] \in Nat /\ granted[i - 1] <= granted[j - 1]
         /\ Bytes(j - i) <= start[j] - start[i] + Bytes(granted[j - 1] - granted[i - 1])
<1>1. begun \in Nat /\ i \in Nat /\ j \in Nat /\ i - 1 \in Nat /\ j - 1 \in Nat
  BY FrameAssumption DEF InRange
<1>2. start \in [Nat -> Nat] /\ granted \in [Nat -> Nat]
  BY DEF Laid
<1>3. start[i] \in Nat /\ start[j] \in Nat /\ granted[i - 1] \in Nat /\ granted[j - 1] \in Nat
  BY <1>1, <1>2
<1>4. /\ start[i] <= start[j] /\ granted[i - 1] <= granted[j - 1]
      /\ Bytes(j - i) <= start[j] - start[i] + Bytes(granted[j - 1] - granted[i - 1])
  BY DEF Laid
<1> QED
  BY <1>1, <1>3, <1>4

LEMMA LaidNumbers ==
  ASSUME InRange, NEW start, NEW granted, Laid(start, granted),
         NEW p \in 1 .. begun
  PROVE  /\ begun \in Nat /\ p \in Nat /\ length[p] \in Nat /\ arrived \in Nat
         /\ start[p] \in Nat /\ start[p + 1] \in Nat /\ start[begun + 1] \in Nat
         /\ granted[p - 1] \in Nat /\ granted[p] \in Nat /\ granted[begun] \in Nat
         /\ FullLength(p) \in Nat /\ FullLength(p) = IdLength + HeaderLength + length[p]
         /\ start[p] <= start[p + 1] /\ start[p + 1] <= start[p] + FullLength(p)
         /\ start[p + 1] <= start[begun + 1]
         /\ granted[p - 1] <= granted[p] /\ granted[p] <= granted[begun]
         /\ TooLong(p) => granted[p - 1] < granted[p]
         /\ CutShort(p, start) => granted[p - 1] + MostLost <= granted[p]
<1> USE FrameAssumption
<1>1. begun \in Nat /\ p \in Nat /\ arrived \in Nat /\ p \in 1 .. Packets
  BY DEF InRange
<1>2. length[p] \in Nat
  BY <1>1 DEF InRange
<1>4. p \in 1 .. begun + 1 /\ p + 1 \in 1 .. begun + 1 /\ begun + 1 \in 1 .. begun + 1
      /\ p <= p + 1 /\ p + 1 <= begun + 1
  BY <1>1
<1>7. p + 1 - 1 = p /\ begun + 1 - 1 = begun
  BY <1>1
<1>5. /\ start[p] \in Nat /\ start[p + 1] \in Nat /\ start[p] <= start[p + 1]
      /\ granted[p - 1] \in Nat /\ granted[p] \in Nat /\ granted[p - 1] <= granted[p]
  BY <1>4, <1>7, LaidPair
<1>6. /\ start[begun + 1] \in Nat /\ start[p + 1] <= start[begun + 1]
      /\ granted[begun] \in Nat /\ granted[p] <= granted[begun]
  BY <1>4, <1>7, LaidPair
<1>8. /\ start[p + 1] <= start[p] + FullLength(p)
      /\ TooLong(p) => granted[p - 1] < granted[p]
      /\ CutShort(p, start) => granted[p - 1] + MostLost <= granted[p]
  BY DEF Laid
<1> QED
  BY <1>1, <1>2, <1>5, <1>6, <1>8 DEF FullLength

\* Frames do not overlap.
LEMMA Apart ==
  ASSUME InRange, NEW start, NEW granted, Laid(start, granted),
         NEW p \in 1 .. begun, NEW q \in 1 .. begun, p < q
  PROVE  /\ start[p + 1] <= start[q] /\ granted[p] <= granted[q - 1]
         /\ Bytes(q - p - 1) <= start[q] - start[p + 1] + Bytes(granted[q - 1] - granted[p])
<1>1. begun \in Nat /\ p + 1 \in 1 .. begun + 1 /\ q \in 1 .. begun + 1 /\ p + 1 <= q
  BY DEF InRange
<1>3. p + 1 - 1 = p /\ q - (p + 1) = q - p - 1
  BY <1>1
<1> QED
  BY <1>1, <1>3, LaidPair

\* A byte is in one frame only.
LEMMA OneFrame ==
  ASSUME InRange, NEW start, NEW granted, Laid(start, granted),
         NEW p \in 1 .. begun, NEW q \in 1 .. begun, NEW x \in Nat,
         start[p] < x, x <= start[p + 1], start[q] < x, x <= start[q + 1]
  PROVE  p = q
<1>1. p \in Nat /\ q \in Nat /\ start[p] \in Nat /\ start[q] \in Nat
      /\ start[p + 1] \in Nat /\ start[q + 1] \in Nat
  BY LaidNumbers
<1>2. ~ (p < q)
  BY <1>1, Apart
<1>3. ~ (q < p)
  BY <1>1, Apart
<1> QED
  BY <1>1, <1>2, <1>3

\* Every byte is a byte of a frame.
LEMMA Located ==
  ASSUME InRange, NEW start, NEW granted, Laid(start, granted),
         NEW t, Len(t) \in Nat, NEW x \in Nat, Holds(t, x, start), NEW i \in 1 .. Len(t)
  PROVE  \E p \in 1 .. begun :
           /\ start[p] < x + i /\ x + i <= start[p + 1]
           /\ x + i - start[p] \in 1 .. IdLength + HeaderLength + length[p]
           /\ t[i] = Frame(p, length[p])[x + i - start[p]]
<1>1. begun \in Nat /\ start[begun + 1] \in Nat
  <2>1. begun \in Nat /\ begun + 1 \in Nat
    BY FrameAssumption DEF InRange
  <2>2. start \in [Nat -> Nat]
    BY DEF Laid
  <2> QED
    BY <2>1, <2>2
<1>2. x + i \in 1 .. start[begun + 1]
  BY <1>1 DEF Holds
<1>3. PICK p \in 1 .. begun : start[p] < x + i /\ x + i <= start[p + 1]
  BY <1>2 DEF Laid
<1>4. t[i] = Frame(p, length[p])[x + i - start[p]]
  BY <1>3 DEF Holds
<1>5. x + i - start[p] \in 1 .. IdLength + HeaderLength + length[p]
  <2>1. /\ start[p] \in Nat /\ start[p + 1] <= start[p] + FullLength(p) /\ start[p + 1] \in Nat
        /\ FullLength(p) = IdLength + HeaderLength + length[p] /\ FullLength(p) \in Nat
    BY LaidNumbers
  <2> QED
    BY <1>3, <2>1
<1> QED
  BY <1>3, <1>4, <1>5

\* The reader has read j bytes of frame p and nothing else since it was settled.
InStep(p, j, x, start, granted) ==
  Entered(p, granted) /\ start[p] + j = x /\ x <= start[p + 1]

\* It has read a header, and the payload of this packet may follow.
Promised(x, start, granted) ==
  IF packet = 0 THEN Confused(x, payload_length, start, granted)
  ELSE /\ InStep(packet, IdLength + HeaderLength, x, start, granted)
       /\ payload_length = Least(length[packet], MaxSize)

LEMMA FramesFit ==
  ASSUME NEW n \in Int, NEW k \in Int, Bytes(n) <= Bytes(k)
  PROVE  n <= k
<1>1. Bytes(n) \in Int /\ Bytes(k) \in Int /\ (k < n => Bytes(k) + IdLength + HeaderLength <= Bytes(n))
  BY BytesGrow
<1> QED
  BY <1>1, FrameAssumption

\* Behind a frame, or within one that is lost, nothing has been spent on the
\* frames that follow.
LEMMA EnterFrame ==
  ASSUME InRange, NEW start, NEW granted, Laid(start, granted), losses \in Int,
         NEW x \in Nat, Settled(x, start, granted),
         NEW p \in 1 .. begun, start[p] = x, x < start[p + 1]
  PROVE  Entered(p, granted)
<1>1. /\ begun \in Nat /\ p \in Nat /\ arrived \in Nat
      /\ start[p] \in Nat /\ start[p + 1] \in Nat /\ start[begun + 1] \in Nat
      /\ start[p + 1] <= start[begun + 1]
      /\ granted[p - 1] \in Nat /\ granted[begun] \in Nat
  BY LaidNumbers
<1>2. CASE x = 0
  <2>1. arrived = 0 /\ losses >= granted[begun] - granted[0]
    BY <1>2 DEF Settled
  <2>2. 1 \in 1 .. begun + 1 /\ p \in 1 .. begun + 1 /\ 1 <= p /\ 1 - 1 = 0
    BY <1>1
  <2>3. /\ granted[0] \in Nat
        /\ Bytes(p - 1) <= start[p] - start[1] + Bytes(granted[p - 1] - granted[0])
    BY <2>2, LaidPair
  <2>4. start[1] = 0
    BY DEF Laid
  <2>5. Bytes(granted[p - 1] - granted[0]) \in Int
    <3>1. granted[p - 1] - granted[0] \in Int
      BY <1>1, <2>3
    <3> QED
      BY <3>1, BytesGrow
  <2>6. Bytes(p - 1) <= Bytes(granted[p - 1] - granted[0])
    BY <1>2, <2>3, <2>4, <2>5
  <2>7. p - 1 <= granted[p - 1] - granted[0]
    BY <1>1, <2>3, <2>6, FramesFit
  <2> QED
    BY <1>1, <2>1, <2>3, <2>7 DEF Entered
<1>3. CASE x # 0
  <2>1. x \in 1 .. start[begun + 1]
    BY <1>1, <1>3
  <2>2. PICK c \in 1 .. begun : start[c] < x /\ x <= start[c + 1]
    BY <2>1 DEF Laid
  <2>3. /\ c \in Nat /\ start[c] \in Nat /\ start[c + 1] \in Nat /\ granted[c] \in Nat
    BY LaidNumbers
  <2>4. ~ (p < c)
    BY <1>1, <2>2, <2>3, Apart
  <2>5. c # p
    BY <1>1, <2>2
  <2>6. c < p
    BY <1>1, <2>3, <2>4, <2>5
  <2>7. Bytes(p - c - 1) <= start[p] - start[c + 1] + Bytes(granted[p - 1] - granted[c])
    BY <2>6, Apart
  <2>8. Bytes(granted[p - 1] - granted[c]) \in Int /\ Bytes(p - c - 1) \in Int
    <3>1. granted[p - 1] - granted[c] \in Int /\ p - c - 1 \in Int
      BY <1>1, <2>3
    <3> QED
      BY <3>1, BytesGrow
  <2>9. Bytes(p - c - 1) <= Bytes(granted[p - 1] - granted[c])
    BY <1>1, <2>2, <2>3, <2>7, <2>8
  <2>10. p - c - 1 <= granted[p - 1] - granted[c]
    BY <1>1, <2>3, <2>9, FramesFit
  <2>11. arrived <= c /\ losses >= c - arrived + granted[begun] - granted[c]
    BY <2>2 DEF Settled
  <2> QED
    BY <1>1, <2>3, <2>6, <2>10, <2>11 DEF Entered
<1> QED
  BY <1>2, <1>3

\* Behind a frame that was cut the reader may swallow the rest of a header and
\* a payload: the grant of the cut pays for the frames these touch.
LEMMA Late ==
  ASSUME InRange, NEW start, NEW granted, Laid(start, granted), losses \in Int,
         NEW p, Entered(p, granted), CutShort(p, start),
         NEW x \in Nat, start[p] < x, x <= start[p + 1] + HeaderLength + MaxSize
  PROVE  Settled(x, start, granted)
<1>0. p \in 1 .. begun /\ arrived < p
      /\ losses >= p - 1 - arrived + granted[begun] - granted[p - 1]
  BY DEF Entered
<1>1. /\ begun \in Nat /\ p \in Nat /\ arrived \in Nat
      /\ start[p] \in Nat /\ start[p + 1] \in Nat
      /\ granted[p - 1] \in Nat /\ granted[p] \in Nat /\ granted[begun] \in Nat
      /\ granted[p - 1] + MostLost <= granted[p]
  BY <1>0, LaidNumbers
<1>2. x # 0
  BY <1>1
<1>3. ASSUME NEW c \in 1 .. begun, start[c] < x, x <= start[c + 1]
      PROVE  arrived <= c /\ losses >= c - arrived + granted[begun] - granted[c]
  <2>1. /\ c \in Nat /\ start[c] \in Nat /\ start[c + 1] \in Nat
        /\ granted[c - 1] \in Nat /\ granted[c] \in Nat /\ granted[c - 1] <= granted[c]
    BY LaidNumbers
  <2>2. ~ (c < p)
    BY <1>0, <1>1, <1>3, <2>1, Apart
  <2>3. CASE c = p
    <3>1. MostLost \in Nat /\ MostLost >= 2
      BY FrameAssumption, MostLostCovers, BytesGrow
    <3> QED
      BY <1>0, <1>1, <2>3, <3>1
  <2>4. CASE p < c
    <3>1. /\ Bytes(c - p - 1) <= start[c] - start[p + 1] + Bytes(granted[c - 1] - granted[p])
          /\ granted[p] <= granted[c - 1]
      BY <1>0, <2>4, Apart
    <3>2. start[c] - start[p + 1] \in Int /\ start[c] - start[p + 1] <= HeaderLength + MaxSize - 1
      BY <1>1, <1>3, <2>1, FrameAssumption
    <3>3. c - p - 1 \in Int /\ granted[c - 1] - granted[p] \in Nat
      BY <1>1, <2>1, <3>1
    <3>4. MostLost \in Nat /\ c - p - 1 + 2 <= MostLost + (granted[c - 1] - granted[p])
      BY <3>1, <3>2, <3>3, MostLostCovers
    <3> QED
      BY <1>0, <1>1, <2>1, <2>4, <3>4
  <2> QED
    BY <1>1, <2>1, <2>2, <2>3, <2>4
<1> QED
  BY <1>2, <1>3 DEF Settled

\* As long as it stays within the frame a reader that is in step has lost only
\* what the frames before it cost.
LEMMA GivenUp ==
  ASSUME InRange, NEW start, NEW granted, Laid(start, granted), losses \in Int,
         NEW p, Entered(p, granted), NEW x \in Nat, start[p] < x,
         \/ x <= start[p + 1] /\ losses >= p - arrived + granted[begun] - granted[p]
         \/ CutShort(p, start) /\ x <= start[p + 1] + HeaderLength + MaxSize
  PROVE  Settled(x, start, granted)
<1>1. CASE CutShort(p, start) /\ x <= start[p + 1] + HeaderLength + MaxSize
  BY <1>1, Late
<1>2. CASE x <= start[p + 1] /\ losses >= p - arrived + granted[begun] - granted[p]
  <2>1. p \in 1 .. begun /\ arrived < p
    BY DEF Entered
  <2>2. p \in Nat /\ arrived \in Nat /\ start[p] \in Nat
    BY <2>1, LaidNumbers
  <2>3. ASSUME NEW c \in 1 .. begun, start[c] < x, x <= start[c + 1]
        PROVE  c = p
    BY <1>2, <2>1, <2>3, OneFrame
  <2> QED
    BY <1>2, <2>1, <2>2, <2>3 DEF Settled
<1> QED
  BY <1>1, <1>2
-----------------------------------------------------------------------------
(* What the bytes tell the parser.                                         *)

\* The k-th byte of MSG_ID stands k bytes behind the start of a frame.
LEMMA IdByte ==
  ASSUME InRange, NEW start, NEW granted, Laid(start, granted), losses \in Int,
         NEW t, Len(t) \in Nat, NEW x \in Nat, Holds(t, x, start), NEW i \in 1 .. Len(t),
         NEW k \in 1 .. IdLength, t[i] = MsgId[k]
  PROVE  \E p \in 1 .. begun : start[p] + k = x + i /\ x + i <= start[p + 1]
<1>1. PICK p \in 1 .. begun :
           /\ start[p] < x + i /\ x + i <= start[p + 1]
           /\ x + i - start[p] \in 1 .. IdLength + HeaderLength + length[p]
           /\ t[i] = Frame(p, length[p])[x + i - start[p]]
  BY Located
<1>2. p \in Nat /\ length[p] \in Nat /\ start[p] \in Nat
  BY LaidNumbers
<1>3. t[i] = <<"id", 0, k>>
  BY DEF MsgId
<1>4. k = x + i - start[p]
  <2> DEFINE n == length[p]
             place == x + i - start[p]
  <2>1. n \in Nat /\ place \in 1 .. IdLength + HeaderLength + n /\ Frame(p, n)[place] = <<"id", 0, k>>
    BY <1>1, <1>2, <1>3
  <2> HIDE DEF n, place
  <2>2. k = place
    BY <1>2, <2>1, PlaceOfByte
  <2> QED
    BY <2>2 DEF place
<1> QED
  BY <1>1, <1>2, <1>4, FrameAssumption

LEMMA Between ==
  ASSUME NEW a \in Int, NEW e \in Int, NEW y \in Int, NEW w \in Int, a < y, y <= e, e <= a + w
  PROVE  y - a \in 1 .. w
OBVIOUS

LEMMA EndsBefore ==
  ASSUME NEW a \in Int, NEW e \in Int, NEW y \in Int, NEW j \in Int, NEW w \in Int,
         ~ (y <= e), y = a + j, j <= w
  PROVE  e < a + w
OBVIOUS

\* Sums of places, without what they are places of.
LEMMA FromPlace ==
  ASSUME NEW x \in Int, NEW a \in Int, NEW i \in Int, NEW k \in Int, x + k - a = i + k
  PROVE  a + i = x
OBVIOUS

LEMMA AddUp ==
  ASSUME NEW x \in Int, NEW e \in Int, NEW h \in Int, NEW n \in Int, NEW m \in Int,
         x <= e, n <= m
  PROVE  x + h + n <= e + h + m
OBVIOUS

LEMMA PassesEnd ==
  ASSUME NEW a \in Int, NEW b \in Int, NEW c \in Int, NEW e \in Int, NEW f \in Int, NEW x,
         a + b = x, ~ (x + c <= e), b + c <= f
  PROVE  e < a + f
OBVIOUS

\* A byte of frame p that lies within it.
LEMMA ByteWithin ==
  ASSUME InRange, NEW start, NEW granted, Laid(start, granted),
         NEW t, NEW x \in Nat, Holds(t, x, start), NEW i \in 1 .. Len(t),
         NEW p \in 1 .. begun, start[p] < x + i, x + i <= start[p + 1]
  PROVE  /\ x + i - start[p] \in 1 .. IdLength + HeaderLength + length[p]
         /\ t[i] = Frame(p, length[p])[x + i - start[p]]
<1>1. t[i] = Frame(p, length[p])[x + i - start[p]]
  BY DEF Holds
<1>2. /\ start[p] \in Nat /\ start[p + 1] <= start[p] + FullLength(p) /\ start[p + 1] \in Nat
      /\ FullLength(p) = IdLength + HeaderLength + length[p] /\ FullLength(p) \in Nat
  BY LaidNumbers
<1>3. i \in Int /\ x \in Int
  OBVIOUS
<1>4. PICK y : y = x + i
  OBVIOUS
<1>5. PICK a : a = start[p]
  OBVIOUS
<1>6. PICK e : e = start[p + 1]
  OBVIOUS
<1>7. y \in Int /\ a \in Int /\ e \in Int /\ FullLength(p) \in Int
      /\ a < y /\ y <= e /\ e <= a + FullLength(p)
  BY <1>2, <1>3, <1>4, <1>5, <1>6
<1>8. y - a \in 1 .. FullLength(p)
  BY <1>7, Between
<1> QED
  BY <1>1, <1>2, <1>4, <1>5, <1>8

\* A settled reader that finds the first byte of MSG_ID is in step.
LEMMA FirstByteFits ==
  ASSUME InRange, NEW start, NEW granted, Laid(start, granted), losses \in Int,
         NEW x \in Nat, Settled(x, start, granted),
         NEW t, Len(t) \in Nat, Holds(t, x, start),
         NEW k \in 1 .. IdLength, k <= Len(t), t[k] = MsgId[k]
  PROVE  \E p \in 1 .. begun : InStep(p, k, x + k, start, granted)
<1>1. k \in 1 .. Len(t) /\ k \in Nat /\ k > 0
  BY FrameAssumption
<1>2. PICK p \in 1 .. begun : start[p] + k = x + k /\ x + k <= start[p + 1]
  BY <1>1, IdByte
<1>3. start[p] \in Nat /\ start[p + 1] \in Nat
  BY LaidNumbers
<1>4. start[p] = x /\ x < start[p + 1]
  BY <1>1, <1>2, <1>3
<1>5. Entered(p, granted)
  BY <1>4, EnterFrame
<1> QED
  BY <1>2, <1>5 DEF InStep

\* One that finds another byte remains settled.
LEMMA FirstByteDiffers ==
  ASSUME InRange, NEW start, NEW granted, Laid(start, granted), losses \in Int,
         NEW x \in Nat, Settled(x, start, granted),
         NEW t, Len(t) \in Nat, Len(t) > 0, Holds(t, x, start), t[1] # MsgId[1]
  PROVE  Settled(x + 1, start, granted)
<1>1. SUFFICES ASSUME NEW c \in 1 .. begun, start[c] < x + 1, x + 1 <= start[c + 1]
               PROVE  arrived <= c /\ losses >= c - arrived + granted[begun] - granted[c]
  BY DEF Settled
<1>2. c \in Nat /\ length[c] \in Nat /\ start[c] \in Nat /\ start[c + 1] \in Nat
  BY LaidNumbers
<1>3. 1 \in 1 .. Len(t)
  OBVIOUS
<1>4. t[1] = Frame(c, length[c])[x + 1 - start[c]]
  BY <1>1, <1>3, ByteWithin
<1>5. start[c] # x
  <2>1. SUFFICES ASSUME start[c] = x PROVE FALSE
    OBVIOUS
  <2>2. x + 1 - start[c] = 1 /\ 1 \in 1 .. IdLength /\ 1 \in 1 .. IdLength + HeaderLength + length[c]
    BY <1>2, <2>1, FrameAssumption
  <2>3. t[1] = <<"id", 0, 1>>
    <3> DEFINE n == length[c]
    <3>1. n \in Nat /\ 1 \in 1 .. IdLength + HeaderLength + n /\ 1 <= IdLength /\ t[1] = Frame(c, n)[1]
      BY <1>2, <1>4, <2>2
    <3> HIDE DEF n
    <3> QED
      BY <1>2, <3>1, BytesOfFrame
  <2> QED
    BY <2>2, <2>3 DEF MsgId
<1>6. start[c] < x /\ x <= start[c + 1]
  BY <1>1, <1>2, <1>5
<1> QED
  BY <1>6 DEF Settled

\* A reader in step goes on through MSG_ID.
LEMMA NextByteFits ==
  ASSUME InRange, NEW start, NEW granted, Laid(start, granted), losses \in Int,
         NEW x \in Nat, NEW p, NEW j \in 1 .. IdLength, InStep(p, j, x, start, granted),
         j < IdLength,
         NEW t, Len(t) \in Nat, Len(t) > 0, Holds(t, x, start), t[1] = MsgId[j + 1]
  PROVE  InStep(p, j + 1, x + 1, start, granted)
<1>1. p \in 1 .. begun /\ start[p] + j = x /\ x <= start[p + 1] /\ j \in Nat /\ j > 0
  BY FrameAssumption DEF InStep, Entered
<1>2. 1 \in 1 .. Len(t) /\ j + 1 \in 1 .. IdLength
  BY <1>1, FrameAssumption
<1>3. PICK q \in 1 .. begun : start[q] + (j + 1) = x + 1 /\ x + 1 <= start[q + 1]
  BY <1>2, IdByte
<1>4. start[p] \in Nat /\ start[q] \in Nat /\ start[p + 1] \in Nat /\ start[q + 1] \in Nat
  BY <1>1, LaidNumbers
<1>a. start[p] < x
  BY <1>1, <1>4
<1>b. start[q] < x
  BY <1>1, <1>3, <1>4
<1>c. x <= start[q + 1]
  BY <1>3, <1>4
<1>5. start[p] < x /\ start[q] < x /\ x <= start[q + 1]
  BY <1>a, <1>b, <1>c
<1>6. p = q
  BY <1>1, <1>5, OneFrame
<1> QED
  BY <1>1, <1>3, <1>4, <1>6 DEF InStep

\* One that finds another byte is behind the end of a frame that was cut.
LEMMA NextByteDiffers ==
  ASSUME InRange, NEW start, NEW granted, Laid(start, granted), losses \in Int,
         NEW x \in Nat, NEW p, NEW j \in 1 .. IdLength, InStep(p, j, x, start, granted),
         j < IdLength,
         NEW t, Len(t) \in Nat, Len(t) > 0, Holds(t, x, start), t[1] # MsgId[j + 1]
  PROVE  Settled(x + 1, start, granted)
<1>1. p \in 1 .. begun /\ start[p] + j = x /\ x <= start[p + 1] /\ j \in Nat /\ j > 0
      /\ Entered(p, granted)
  BY FrameAssumption DEF InStep, Entered
<1>2. 1 \in 1 .. Len(t) /\ j + 1 \in 1 .. IdLength
  BY <1>1, FrameAssumption
<1>3. /\ start[p] \in Nat /\ start[p + 1] \in Nat /\ length[p] \in Nat /\ p \in Nat
      /\ FullLength(p) = IdLength + HeaderLength + length[p]
  BY <1>1, LaidNumbers
<1>4. ~ (x + 1 <= start[p + 1])
  <2>1. SUFFICES ASSUME x + 1 <= start[p + 1] PROVE FALSE
    OBVIOUS
  <2>2. start[p] < x + 1 /\ x + 1 - start[p] = j + 1
    BY <1>1, <1>3
  <2>3. t[1] = Frame(p, length[p])[j + 1]
    BY <1>1, <1>2, <2>1, <2>2, ByteWithin
  <2>4. j + 1 \in 1 .. IdLength + HeaderLength + length[p] /\ j + 1 <= IdLength
    BY <1>1, <1>2, <1>3, FrameAssumption
  <2>5. t[1] = <<"id", 0, j + 1>>
    BY <1>3, <2>3, <2>4, BytesOfFrame
  <2> QED
    BY <1>2, <2>5 DEF MsgId
<1>a. CutShort(p, start)
  <2>1. PICK y : y = x + 1
    OBVIOUS
  <2>2. PICK k : k = j + 1
    OBVIOUS
  <2>3. FullLength(p) \in Int /\ k <= FullLength(p) /\ k \in Int
    BY <1>1, <1>2, <1>3, <2>2, FrameAssumption
  <2>4. y \in Int /\ y = start[p] + k
    <3>1. PICK a : a = start[p]
      OBVIOUS
    <3>2. a \in Int /\ a + j = x /\ j \in Int
      BY <1>1, <1>3, <3>1
    <3>3. y = a + k
      BY <2>1, <2>2, <3>2
    <3> QED
      BY <2>1, <3>1, <3>3
  <2>5. start[p] \in Int /\ start[p + 1] \in Int /\ ~ (y <= start[p + 1])
    BY <1>3, <1>4, <2>1
  <2> QED
    BY <2>3, <2>4, <2>5, EndsBefore DEF CutShort
<1>b. start[p] < x + 1
  BY <1>1, <1>3
<1>c. x + 1 <= start[p + 1] + HeaderLength + MaxSize
  BY <1>1, <1>3, FrameAssumption
<1>5. CutShort(p, start) /\ start[p] < x + 1 /\ x + 1 <= start[p + 1] + HeaderLength + MaxSize
  BY <1>a, <1>b, <1>c
<1> QED
  BY <1>1, <1>5, Late

\* What is read of a sequence.
LEMMA FirstIs ==
  ASSUME NEW s \in Seq(FrameByte), NEW k \in 0 .. Len(s), NEW h \in Seq(FrameByte)
  PROVE  First(s, k) = h <=> Len(h) = k /\ \A i \in 1 .. k : s[i] = h[i]
<1>1. /\ k \in Nat /\ First(s, k) \in Seq(FrameByte) /\ Len(First(s, k)) = k
      /\ \A i \in 1 .. k : First(s, k)[i] = s[i]
  BY DEF First
<1> DEFINE f == First(s, k)
<1> HIDE DEF f
<1>2. f \in Seq(FrameByte) /\ Len(f) = k /\ \A i \in 1 .. k : f[i] = s[i]
  BY <1>1 DEF f
<1>3. Len(h) = k /\ (\A i \in 1 .. k : s[i] = h[i]) => f = h
  <2>1. SUFFICES ASSUME Len(h) = k, \A i \in 1 .. k : s[i] = h[i] PROVE f = h
    OBVIOUS
  <2>2. Len(f) = Len(h) /\ \A i \in 1 .. Len(f) : f[i] = h[i]
    BY <1>1, <1>2, <2>1
  <2> QED
    BY <1>2, <2>2, SeqEqual
<1>4. f = h => Len(h) = k /\ \A i \in 1 .. k : s[i] = h[i]
  BY <1>2
<1> QED
  BY <1>3, <1>4 DEF f

LEMMA PartsOfFrame ==
  ASSUME NEW p \in Nat, NEW n \in Nat
  PROVE  /\ MsgId \in Seq(FrameByte) /\ Len(MsgId) = IdLength
         /\ Header(p) \in Seq(FrameByte) /\ Len(Header(p)) = HeaderLength
         /\ Payload(p, n) \in Seq(FrameByte) /\ Len(Payload(p, n)) = n
         /\ Frame(p, n) \in Seq(FrameByte)
         /\ Len(Frame(p, n)) = IdLength + HeaderLength + n
<1> USE FrameAssumption
<1>1. MsgId \in Seq(FrameByte) /\ Len(MsgId) = IdLength
  BY DEF MsgId, FrameByte
<1>2. Header(p) \in Seq(FrameByte) /\ Len(Header(p)) = HeaderLength
  BY DEF Header, FrameByte
<1>3. Payload(p, n) \in Seq(FrameByte) /\ Len(Payload(p, n)) = n
  BY DEF Payload, FrameByte
<1>4. /\ MsgId \o Header(p) \in Seq(FrameByte)
      /\ Len(MsgId \o Header(p)) = IdLength + HeaderLength
  BY <1>1, <1>2, JoinedBytes
<1>5. /\ (MsgId \o Header(p)) \o Payload(p, n) \in Seq(FrameByte)
      /\ Len((MsgId \o Header(p)) \o Payload(p, n)) = IdLength + HeaderLength + n
  <2> DEFINE s == MsgId \o Header(p)
  <2> HIDE DEF s
  <2>1. s \in Seq(FrameByte) /\ Len(s) = IdLength + HeaderLength
    BY <1>4 DEF s
  <2>2. s \o Payload(p, n) \in Seq(FrameByte)
        /\ Len(s \o Payload(p, n)) = IdLength + HeaderLength + n
    BY <1>3, <2>1, JoinedBytes
  <2> QED
    BY <2>2 DEF s
<1> QED
  BY <1>1, <1>2, <1>3, <1>5 DEF Frame

LEMMA PlaceOfHeader ==
  ASSUME NEW p \in Nat, NEW n \in Nat, NEW i \in 1 .. IdLength + HeaderLength + n,
         NEW q, NEW k, Frame(p, n)[i] = <<"header", q, k>>
  PROVE  p = q /\ i = IdLength + k
BY PlaceOfByte

\* A header that is a packet's stands in that packet's frame.
LEMMA HeaderFits ==
  ASSUME InRange, NEW start, NEW granted, Laid(start, granted), losses \in Int,
         NEW x \in Nat, NEW p, InStep(p, IdLength, x, start, granted),
         NEW t, Len(t) \in Nat, HeaderLength <= Len(t), Holds(t, x, start),
         NEW q \in 1 .. begun, t[HeaderLength] = Header(q)[HeaderLength]
  PROVE  InStep(q, IdLength + HeaderLength, x + HeaderLength, start, granted)
<1> USE FrameAssumption
<1>1. p \in 1 .. begun /\ start[p] + IdLength = x /\ x <= start[p + 1] /\ Entered(p, granted)
  BY DEF InStep, Entered
<1>2. HeaderLength \in 1 .. Len(t) /\ HeaderLength \in 1 .. HeaderLength
  OBVIOUS
<1>3. PICK r \in 1 .. begun :
           /\ start[r] < x + HeaderLength /\ x + HeaderLength <= start[r + 1]
           /\ x + HeaderLength - start[r] \in 1 .. IdLength + HeaderLength + length[r]
           /\ t[HeaderLength] = Frame(r, length[r])[x + HeaderLength - start[r]]
  BY <1>2, Located
<1>4. r \in Nat /\ length[r] \in Nat
  BY LaidNumbers
<1>a. start[r] \in Nat
  BY LaidNumbers
<1>b. start[r + 1] \in Nat
  BY LaidNumbers
<1>5. start[p] \in Nat /\ start[p + 1] \in Nat
  BY <1>1, LaidNumbers
<1>6. t[HeaderLength] = <<"header", q, HeaderLength>>
  BY <1>2 DEF Header
<1>7. r = q /\ x + HeaderLength - start[r] = IdLength + HeaderLength
  <2>1. PICK n : n = length[r]
    OBVIOUS
  <2>2. PICK place : place = x + HeaderLength - start[r]
    OBVIOUS
  <2>3. n \in Nat /\ r \in Nat
    BY <1>4, <2>1
  <2>4. place \in 1 .. IdLength + HeaderLength + n
    BY <1>3, <2>1, <2>2
  <2>a. PICK k : k = HeaderLength
    OBVIOUS
  <2>5. Frame(r, n)[place] = <<"header", q, k>>
    BY <1>3, <1>6, <2>1, <2>2, <2>a
  <2>6. r = q /\ place = IdLength + k
    <3> HIDE FrameAssumption
    <3> QED
      BY <2>3, <2>4, <2>5, PlaceOfHeader
  <2> QED
    BY <2>2, <2>6, <2>a
<1>8. start[q] + IdLength = x /\ start[q] < x
  <2>1. IdLength \in Int /\ 0 < IdLength /\ HeaderLength \in Int /\ x \in Int
    OBVIOUS
  <2>2. start[q] \in Int /\ x + HeaderLength - start[q] = IdLength + HeaderLength
    BY <1>7, <1>a
  <2> HIDE FrameAssumption
  <2>3. start[q] + IdLength = x
    BY <2>1, <2>2, FromPlace
  <2> QED
    BY <2>1, <2>2, <2>3
<1>c. x <= start[q + 1]
  BY <1>3, <1>7, <1>b
<1>d. start[p] < x
  BY <1>1, <1>5
<1>10. p = q
  BY <1>1, <1>8, <1>c, <1>d, OneFrame
<1>11. start[q] + (IdLength + HeaderLength) = x + HeaderLength
  BY <1>7, <1>8, <1>a
<1> QED
  BY <1>1, <1>3, <1>7, <1>10, <1>11 DEF InStep

\* A header that is no packet's is the end of a frame that was cut and some
\* bytes that follow.
LEMMA HeaderDiffers ==
  ASSUME InRange, NEW start, NEW granted, Laid(start, granted), losses \in Int,
         NEW x \in Nat, NEW p, InStep(p, IdLength, x, start, granted),
         NEW t, Len(t) \in Nat, HeaderLength <= Len(t), Holds(t, x, start),
         NEW i \in 1 .. HeaderLength, t[i] # Header(p)[i],
         NEW n \in 0 .. MaxSize
  PROVE  Confused(x + HeaderLength, n, start, granted)
<1> USE FrameAssumption
<1>1. p \in 1 .. begun /\ start[p] + IdLength = x /\ x <= start[p + 1] /\ Entered(p, granted)
  BY DEF InStep, Entered
<1>2. i \in 1 .. Len(t)
  OBVIOUS
<1>3. /\ start[p] \in Nat /\ start[p + 1] \in Nat /\ length[p] \in Nat /\ p \in Nat
      /\ FullLength(p) = IdLength + HeaderLength + length[p]
  BY <1>1, LaidNumbers
<1>x. start[p] \in Nat /\ start[p + 1] \in Nat
  BY <1>3
<1>4. ~ (x + HeaderLength <= start[p + 1])
  <2>1. SUFFICES ASSUME x + HeaderLength <= start[p + 1] PROVE FALSE
    OBVIOUS
  <2>2. start[p] < x + i /\ x + i <= start[p + 1] /\ x + i - start[p] = IdLength + i
    <3>1. start[p] < x + i /\ x + i - start[p] = IdLength + i
      BY <1>1, <1>x
    <3>2. x + i <= start[p + 1]
      BY <1>x, <2>1
    <3> QED
      BY <3>1, <3>2
  <2>3. t[i] = Frame(p, length[p])[IdLength + i]
    <3>1. t[i] = Frame(p, length[p])[x + i - start[p]]
      BY <1>1, <1>2, <2>2, ByteWithin
    <3> QED
      BY <2>2, <3>1
  <2>4. /\ IdLength + i \in 1 .. IdLength + HeaderLength + length[p]
        /\ IdLength < IdLength + i /\ IdLength + i <= IdLength + HeaderLength
        /\ IdLength + i - IdLength = i
    <3>1. length[p] \in Nat
      BY <1>3
    <3>2. IdLength < IdLength + i /\ IdLength + i <= IdLength + HeaderLength /\ IdLength + i \in Int
      OBVIOUS
    <3>3. IdLength + i - IdLength = i
      OBVIOUS
    <3>4. IdLength + i \in 1 .. IdLength + HeaderLength + length[p]
      BY <3>1, <3>2
    <3> QED
      BY <3>2, <3>3, <3>4
  <2>5. t[i] = <<"header", p, i>>
    <3> DEFINE l == length[p]
               k == IdLength + i
    <3>1. /\ l \in Nat /\ k \in 1 .. IdLength + HeaderLength + l /\ t[i] = Frame(p, l)[k]
          /\ IdLength < k /\ k <= IdLength + HeaderLength /\ k - IdLength = i
      BY <1>3, <2>3, <2>4
    <3> HIDE DEF l, k
    <3>2. Frame(p, l)[k] = <<"header", p, k - IdLength>>
      BY <1>3, <3>1, BytesOfFrame
    <3> QED
      BY <3>1, <3>2
  <2> QED
    BY <2>5 DEF Header
<1>a. CutShort(p, start)
  <2>1. PICK y : y = x + HeaderLength
    OBVIOUS
  <2>2. PICK k : k = IdLength + HeaderLength
    OBVIOUS
  <2>3. FullLength(p) \in Int /\ k <= FullLength(p) /\ k \in Int
    BY <1>3, <2>2
  <2>4. y \in Int /\ y = start[p] + k
    BY <1>1, <1>x, <2>1, <2>2
  <2>5. start[p] \in Int /\ start[p + 1] \in Int /\ ~ (y <= start[p + 1])
    BY <1>x, <1>4, <2>1
  <2> QED
    BY <2>3, <2>4, <2>5, EndsBefore DEF CutShort
<1>b. start[p] < x + HeaderLength
  BY <1>1, <1>3
<1>c. x + HeaderLength + n <= start[p + 1] + HeaderLength + MaxSize
  <2>1. x \in Int /\ HeaderLength \in Int /\ MaxSize \in Int
    OBVIOUS
  <2>2. start[p + 1] \in Int /\ n \in Int /\ x <= start[p + 1] /\ n <= MaxSize
    BY <1>1, <1>3
  <2> HIDE FrameAssumption
  <2> QED
    BY <2>1, <2>2, AddUp
<1> QED
  BY <1>1, <1>a, <1>b, <1>c DEF Confused

\* A payload that is the packet's lies in its frame.
LEMMA PayloadFits ==
  ASSUME InRange, NEW start, NEW granted, Laid(start, granted), losses \in Int,
         NEW x \in Nat, NEW p, InStep(p, IdLength + HeaderLength, x, start, granted),
         NEW t, Len(t) \in Nat, length[p] <= Len(t), Holds(t, x, start),
         \A i \in 1 .. length[p] : t[i] = Payload(p, length[p])[i]
  PROVE  x + length[p] <= start[p + 1]
<1> USE FrameAssumption
<1>1. p \in 1 .. begun /\ start[p] + (IdLength + HeaderLength) = x /\ x <= start[p + 1]
  BY DEF InStep, Entered
<1> DEFINE n == length[p]
<1>2. n \in Nat /\ start[p + 1] \in Nat
  BY <1>1, LaidNumbers
<1>3. CASE n = 0
  BY <1>1, <1>2, <1>3
<1>4. CASE n # 0
  <2>1. n \in 1 .. Len(t) /\ n \in 1 .. n
    BY <1>2, <1>4
  <2>2. t[n] = <<"payload", p, n>>
    BY <2>1 DEF Payload
  <2>3. PICK r \in 1 .. begun :
           /\ start[r] < x + n /\ x + n <= start[r + 1]
           /\ x + n - start[r] \in 1 .. IdLength + HeaderLength + length[r]
           /\ t[n] = Frame(r, length[r])[x + n - start[r]]
    <3>1. n \in 1 .. Len(t)
      BY <2>1
    <3> HIDE DEF n
    <3> QED
      BY <3>1, Located
  <2>4. r \in Nat /\ length[r] \in Nat
    BY LaidNumbers
  <2>5. r = p
    <3> DEFINE l == length[r]
               place == x + n - start[r]
    <3>1. /\ l \in Nat /\ place \in 1 .. IdLength + HeaderLength + l
          /\ Frame(r, l)[place] = <<"payload", p, n>>
      BY <2>2, <2>3, <2>4
    <3> HIDE DEF l, place
    <3> QED
      BY <2>4, <3>1, PlaceOfByte
  <2> QED
    BY <2>3, <2>5
<1> QED
  BY <1>3, <1>4

\* Any other payload was cut, or is too long for the buffer.
LEMMA PayloadDiffers ==
  ASSUME InRange, NEW start, NEW granted, Laid(start, granted), losses \in Int,
         NEW x \in Nat, NEW p, InStep(p, IdLength + HeaderLength, x, start, granted),
         NEW t \in Seq(FrameByte), Holds(t, x, start),
         NEW n, n = Least(length[p], MaxSize), n <= Len(t),
         First(t, n) # Payload(p, length[p])
  PROVE  Settled(x + n, start, granted)
<1> USE FrameAssumption
<1>1. p \in 1 .. begun /\ start[p] + (IdLength + HeaderLength) = x /\ x <= start[p + 1]
      /\ Entered(p, granted)
  BY DEF InStep, Entered
<1>2. /\ start[p] \in Nat /\ start[p + 1] \in Nat /\ length[p] \in Nat /\ p \in Nat
      /\ FullLength(p) = IdLength + HeaderLength + length[p]
      /\ granted[p - 1] \in Nat /\ granted[p] \in Nat /\ granted[begun] \in Nat /\ begun \in Nat
      /\ arrived \in Nat /\ (TooLong(p) => granted[p - 1] < granted[p])
  BY <1>1, LaidNumbers
<1>3. n \in Nat /\ n <= length[p] /\ n <= MaxSize /\ (n # length[p] => TooLong(p))
  BY <1>2 DEF Least, TooLong
<1>x. start[p] \in Nat
  BY <1>2
<1>y. start[p + 1] \in Nat
  BY <1>2
<1>z. n \in Nat
  BY <1>3
<1>4. TooLong(p) \/ ~ (x + n <= start[p + 1])
  <2>1. SUFFICES ASSUME n = length[p], x + n <= start[p + 1] PROVE FALSE
    BY <1>3
  <2>2. Payload(p, n) \in Seq(FrameByte) /\ Len(Payload(p, n)) = n
    BY <1>2, <1>3, PartsOfFrame
  <2>3. ASSUME NEW i \in 1 .. n PROVE t[i] = Payload(p, n)[i]
    <3>1. i \in 1 .. Len(t) /\ start[p] < x + i /\ x + i <= start[p + 1]
          /\ x + i - start[p] = IdLength + HeaderLength + i
      <4>1. i \in 1 .. Len(t)
        BY <1>z
      <4>2. start[p] < x + i /\ x + i - start[p] = IdLength + HeaderLength + i
        BY <1>1, <1>x, <1>z
      <4>3. x + i <= start[p + 1]
        BY <1>y, <1>z, <2>1
      <4> QED
        BY <4>1, <4>2, <4>3
    <3>2. t[i] = Frame(p, length[p])[IdLength + HeaderLength + i]
      BY <1>1, <3>1, ByteWithin
    <3> DEFINE k == IdLength + HeaderLength + i
    <3>3. /\ k \in 1 .. IdLength + HeaderLength + n /\ IdLength + HeaderLength < k
          /\ k - IdLength - HeaderLength = i /\ t[i] = Frame(p, n)[k]
      BY <1>3, <2>1, <3>2
    <3> HIDE DEF k
    <3>4. t[i] = <<"payload", p, k - IdLength - HeaderLength>>
      BY <1>2, <1>3, <3>3, BytesOfFrame
    <3> QED
      BY <3>3, <3>4 DEF Payload
  <2>4. n \in 0 .. Len(t)
    BY <1>3
  <2>5. First(t, n) = Payload(p, n)
    BY <2>2, <2>3, <2>4, FirstIs
  <2> QED
    BY <2>1, <2>5
<1>5. start[p] < x + n /\ x + n \in Nat
  BY <1>1, <1>x, <1>z
<1>6. CASE ~ (x + n <= start[p + 1])
  <2>1. CutShort(p, start)
    <3>1. FullLength(p) \in Nat /\ IdLength + HeaderLength + n <= FullLength(p)
      <4> DEFINE b == IdLength + HeaderLength
      <4>1. b \in Int /\ 0 \in Int /\ 0 <= 0
        OBVIOUS
      <4>2. FullLength(p) = b + length[p] /\ length[p] \in Nat /\ n \in Nat /\ n <= length[p]
        BY <1>2, <1>3
      <4>3. b + length[p] \in Nat
        BY <4>2
      <4> HIDE DEF b
      <4>4. b + n <= b + length[p]
        BY <4>1, <4>2
      <4> QED
        BY <4>2, <4>3, <4>4 DEF b
    <3>2. start[p + 1] < start[p] + FullLength(p)
      <4>1. PICK a, b, c, e, f : /\ a = start[p] /\ b = IdLength + HeaderLength /\ c = n
                                 /\ e = start[p + 1] /\ f = FullLength(p)
        OBVIOUS
      <4>2. b \in Int
        BY <4>1
      <4>3. a \in Int /\ c \in Int /\ e \in Int /\ f \in Int
        BY <1>x, <1>y, <1>z, <3>1, <4>1
      <4>4. a + b = x
        BY <1>1, <4>1
      <4>5. ~ (x + c <= e)
        BY <1>6, <4>1
      <4>6. b + c <= f
        BY <3>1, <4>1
      <4>7. e < a + f
        <5> HIDE FrameAssumption
        <5> QED
          BY <4>2, <4>3, <4>4, <4>5, <4>6, PassesEnd
      <4> QED
        BY <4>1, <4>7
    <3> QED
      BY <3>2 DEF CutShort
  <2>2. x + n <= start[p + 1] + HeaderLength + MaxSize
    <3>1. n <= MaxSize
      BY <1>3
    <3> QED
      BY <1>1, <1>y, <1>z, <3>1
  <2> QED
    BY <1>1, <1>5, <2>1, <2>2, GivenUp
<1>7. CASE TooLong(p) /\ x + n <= start[p + 1]
  <2>1. losses >= p - 1 - arrived + granted[begun] - granted[p - 1]
    BY <1>1 DEF Entered
  <2>2. losses >= p - arrived + granted[begun] - granted[p]
    <3>1. /\ granted[p - 1] \in Nat /\ granted[p] \in Nat /\ granted[begun] \in Nat
          /\ arrived \in Nat /\ p \in Nat /\ granted[p - 1] < granted[p]
      BY <1>2, <1>7
    <3> DEFINE g == granted[p - 1]
               h == granted[p]
               b == granted[begun]
    <3>2. /\ g \in Nat /\ h \in Nat /\ b \in Nat /\ arrived \in Nat /\ p \in Nat /\ g < h
          /\ losses >= p - 1 - arrived + b - g
      BY <2>1, <3>1
    <3> HIDE DEF g, h, b
    <3>3. losses >= p - arrived + b - h
      BY <3>2
    <3> QED
      BY <3>3 DEF b, h
  <2> QED
    BY <1>1, <1>5, <1>7, <2>2, GivenUp
<1> QED
  BY <1>4, <1>6, <1>7

-----------------------------------------------------------------------------
(* Sequences of bytes on their way.                                        *)

LEMMA EndOfLaid ==
  ASSUME InRange, NEW start, NEW granted, Laid(start, granted)
  PROVE  /\ begun \in Nat /\ start[begun + 1] \in Nat /\ granted[begun] \in Nat
         /\ granted[0] \in Nat
<1>1. begun \in Nat
  BY FrameAssumption DEF InRange
<1>2. start \in [Nat -> Nat] /\ granted \in [Nat -> Nat]
  BY DEF Laid
<1> QED
  BY <1>1, <1>2

LEMMA SamePlace ==
  ASSUME NEW x \in Int, NEW i \in Int, NEW j \in Int, NEW k \in Int, NEW s \in Int,
         x + k + i = x + j
  PROVE  x + j - s = x + k + i - s
OBVIOUS

LEMMA HoldsFirst ==
  ASSUME InRange, NEW start, NEW granted, Laid(start, granted), NEW x \in Nat,
         NEW t \in Seq(FrameByte), Holds(t, x, start), NEW k \in 0 .. Len(t)
  PROVE  First(t, k) \in Seq(FrameByte) /\ Len(First(t, k)) = k /\ Holds(First(t, k), x, start)
<1> DEFINE f == First(t, k)
<1>1. f \in Seq(FrameByte) /\ Len(f) = k /\ \A i \in 1 .. k : f[i] = t[i]
  BY DEF First
<1> HIDE DEF f
<1>2. x + Len(t) <= start[begun + 1]
  BY DEF Holds
<1>0. start[begun + 1] \in Nat
  BY EndOfLaid
<1>3. x + Len(f) <= start[begun + 1]
  BY <1>0, <1>1, <1>2
<1>4. ASSUME NEW i \in 1 .. Len(f), NEW p \in 1 .. begun, start[p] < x + i, x + i <= start[p + 1]
      PROVE  f[i] = Frame(p, length[p])[x + i - start[p]]
  <2>1. i \in 1 .. Len(t) /\ f[i] = t[i]
    BY <1>1
  <2> QED
    BY <1>4, <2>1 DEF Holds
<1> QED
  BY <1>1, <1>3, <1>4 DEF Holds, f

LEMMA HoldsAfter ==
  ASSUME InRange, NEW start, NEW granted, Laid(start, granted), NEW x \in Nat,
         NEW t \in Seq(FrameByte), Holds(t, x, start), NEW k \in 0 .. Len(t)
  PROVE  /\ After(t, k) \in Seq(FrameByte) /\ Len(After(t, k)) = Len(t) - k
         /\ Holds(After(t, k), x + k, start)
<1> DEFINE f == After(t, k)
<1>1. f \in Seq(FrameByte) /\ Len(f) = Len(t) - k /\ \A i \in 1 .. Len(t) - k : f[i] = t[k + i]
  BY DEF After
<1> HIDE DEF f
<1>2. x + Len(t) <= start[begun + 1]
  BY DEF Holds
<1>0. start[begun + 1] \in Nat
  BY EndOfLaid
<1>3. x + k + Len(f) <= start[begun + 1]
  BY <1>0, <1>1, <1>2
<1>4. ASSUME NEW i \in 1 .. Len(f), NEW p \in 1 .. begun,
             start[p] < x + k + i, x + k + i <= start[p + 1]
      PROVE  f[i] = Frame(p, length[p])[x + k + i - start[p]]
  <2> DEFINE j == k + i
  <2>1. j \in 1 .. Len(t) /\ f[i] = t[j] /\ x + k + i = x + j
    BY <1>1
  <2> HIDE DEF j
  <2>2. t[j] = Frame(p, length[p])[x + j - start[p]]
    BY <1>4, <2>1 DEF Holds
  <2>3. x + j - start[p] = x + k + i - start[p]
    <3>1. start[p] \in Nat
      BY LaidNumbers
    <3>2. j \in Int /\ k \in Int /\ i \in Int /\ x \in Int /\ start[p] \in Int
      BY <1>1, <2>1, <3>1
    <3>3. x + k + i = x + j
      BY <2>1
    <3> DEFINE a == start[p]
    <3>4. a \in Int
      BY <3>2
    <3> HIDE DEF a
    <3>5. x + j - a = x + k + i - a
      BY <3>2, <3>3, <3>4, SamePlace
    <3> QED
      BY <3>5 DEF a
  <2>4. Frame(p, length[p])[x + j - start[p]] = Frame(p, length[p])[x + k + i - start[p]]
    BY <2>3
  <2> QED
    BY <2>1, <2>2, <2>4
<1> QED
  BY <1>1, <1>3, <1>4 DEF Holds, f

\* What stands where, with the counts spelled out.
Stands(t, x, start, n, L) ==
  \A i \in 1 .. Len(t), p \in 1 .. n :
    start[p] < x + i /\ x + i <= start[p + 1] => t[i] = Frame(p, L[p])[x + i - start[p]]

\* What stands where stays there when two sequences are joined.
LEMMA BytesJoined ==
  ASSUME NEW n \in Nat, NEW L, NEW start, \A p \in 1 .. n : start[p] \in Nat,
         NEW x \in Nat, NEW s \in Seq(FrameByte), NEW t \in Seq(FrameByte),
         NEW y, y = x + Len(s),
         Stands(s, x, start, n, L), Stands(t, y, start, n, L)
  PROVE  Stands(s \o t, x, start, n, L)
<1> DEFINE u == s \o t
<1>1. /\ u \in Seq(FrameByte) /\ Len(u) = Len(s) + Len(t)
      /\ \A i \in 1 .. Len(s) + Len(t) : u[i] = IF i <= Len(s) THEN s[i] ELSE t[i - Len(s)]
  BY JoinedBytes
<1> HIDE DEF u
<1>4. ASSUME NEW i \in 1 .. Len(u), NEW p \in 1 .. n, start[p] < x + i, x + i <= start[p + 1]
      PROVE  u[i] = Frame(p, L[p])[x + i - start[p]]
  <2>1. CASE i <= Len(s)
    <3>1. i \in 1 .. Len(s) /\ u[i] = s[i]
      BY <1>1, <2>1
    <3> QED
      BY <1>4, <3>1 DEF Stands
  <2>2. CASE ~ (i <= Len(s))
    <3>a. PICK j : j = i - Len(s)
      OBVIOUS
    <3>b. i \in 1 .. Len(s) + Len(t) /\ u[i] = t[j]
      BY <1>1, <2>2, <3>a
    <3>c. i \in Int /\ Len(s) \in Nat /\ Len(t) \in Nat
      BY <3>b
    <3>d. j \in 1 .. Len(t)
      BY <2>2, <3>a, <3>b, <3>c
    <3>e. x + i = x + Len(s) + j
      BY <3>a, <3>c
    <3>1. j \in 1 .. Len(t) /\ u[i] = t[j] /\ x + i = x + Len(s) + j
      BY <3>b, <3>d, <3>e
    <3>2. t[j] = Frame(p, L[p])[x + Len(s) + j - start[p]]
      <4>1. start[p] < y + j /\ y + j <= start[p + 1]
        BY <1>4, <3>1
      <4>2. t[j] = Frame(p, L[p])[y + j - start[p]]
        BY <3>1, <4>1 DEF Stands
      <4> QED
        BY <4>2
    <3>3. x + Len(s) + j - start[p] = x + i - start[p]
      <4>1. start[p] \in Nat
        OBVIOUS
      <4>2. j \in Int /\ Len(s) \in Int /\ i \in Int /\ x \in Int /\ start[p] \in Int
        BY <1>1, <3>1, <4>1
      <4> DEFINE a == start[p]
                 l == Len(s)
      <4>3. x + l + j = x + i /\ a \in Int /\ l \in Int
        BY <3>1, <4>2
      <4> HIDE DEF a, l
      <4>5. x + i - a = x + l + j - a
        BY <4>2, <4>3, SamePlace
      <4> QED
        BY <4>5 DEF a, l
    <3> QED
      BY <3>1, <3>2, <3>3
  <2> QED
    BY <2>1, <2>2
<1> QED
  BY <1>4 DEF u, Stands

LEMMA HoldsJoined ==
  ASSUME InRange, NEW start, NEW granted, Laid(start, granted), NEW x \in Nat,
         NEW s \in Seq(FrameByte), Holds(s, x, start),
         NEW t \in Seq(FrameByte), NEW y, y = x + Len(s), Holds(t, y, start)
  PROVE  /\ s \o t \in Seq(FrameByte) /\ Len(s \o t) = Len(s) + Len(t)
         /\ Holds(s \o t, x, start)
<1>1. s \o t \in Seq(FrameByte) /\ Len(s \o t) = Len(s) + Len(t)
  BY JoinedBytes
<1>2. PICK n : n = begun
  OBVIOUS
<1>3. PICK L : L = length
  OBVIOUS
<1>4. n \in Nat /\ start[n + 1] \in Nat /\ \A p \in 1 .. n : start[p] \in Nat
  BY <1>2, EndOfLaid, LaidNumbers
<1>5. y + Len(t) <= start[n + 1] /\ Stands(s, x, start, n, L) /\ Stands(t, y, start, n, L)
  BY <1>2, <1>3 DEF Holds, Stands
<1>6. Stands(s \o t, x, start, n, L)
  BY <1>4, <1>5, BytesJoined
<1>7. x + Len(s \o t) <= start[n + 1]
  BY <1>1, <1>4, <1>5
<1>8. Holds(s \o t, x, start)
  BY <1>2, <1>3, <1>6, <1>7 DEF Holds, Stands
<1> QED
  BY <1>1, <1>8

LEMMA HoldsNothing ==
  ASSUME NEW start, start[begun + 1] \in Nat, NEW x \in Nat, x <= start[begun + 1]
  PROVE  Holds(<< >>, x, start)
BY DEF Holds

LEMMA MostLostIsNat == MostLost \in Nat /\ MostLost >= 2
<1>1. 0 \in Int /\ 0 \in Nat /\ 0 <= HeaderLength + MaxSize - 1
  BY FrameAssumption
<1>2. Bytes(0) <= 0 + Bytes(0)
  BY BytesGrow
<1> QED
  BY <1>1, <1>2, MostLostCovers

-----------------------------------------------------------------------------
(* A frame is written, or as much of it as there is room for.              *)

LEMMA LaidExtended ==
  ASSUME InRange, NEW start, NEW granted, Laid(start, granted),
         begun' = begun + 1, length' = length, begun + 1 \in 1 .. Packets,
         NEW l \in Nat, l <= FullLength(begun + 1),
         NEW g \in Nat, TooLong(begun + 1) => g >= 1,
         l < FullLength(begun + 1) => g >= MostLost
  PROVE  \E s2, g2 :
           /\ Laid(s2, g2)'
           /\ s2[begun + 2] = start[begun + 1] + l /\ g2[begun + 1] = granted[begun] + g
           /\ \A p \in 1 .. begun + 1 : s2[p] = start[p]
           /\ \A p \in 0 .. begun : g2[p] = granted[p]
<1> DEFINE n == begun + 1
<1>a. PICK s2 : s2 = [start EXCEPT ![begun + 2] = start[begun + 1] + l]
  OBVIOUS
<1>b. PICK g2 : g2 = [granted EXCEPT ![begun + 1] = granted[begun] + g]
  OBVIOUS
<1>1. begun \in Nat /\ n \in Nat /\ n > 0 /\ length[n] \in Nat
      /\ FullLength(n) = IdLength + HeaderLength + length[n] /\ FullLength(n) \in Nat
  BY FrameAssumption DEF InRange, FullLength
<1>2. start \in [Nat -> Nat] /\ granted \in [Nat -> Nat] /\ start[1] = 0
  BY DEF Laid
<1>3. start[n] \in Nat /\ granted[begun] \in Nat /\ n + 1 = begun + 2
  BY <1>1, <1>2
<1>4. s2 \in [Nat -> Nat] /\ g2 \in [Nat -> Nat]
  BY <1>1, <1>2, <1>3, <1>a, <1>b
<1>5. s2[n + 1] = start[n] + l /\ g2[n] = granted[begun] + g
  BY <1>1, <1>2, <1>3, <1>a, <1>b
<1>6. \A p \in 1 .. n : s2[p] = start[p] /\ s2[p] \in Nat
  BY <1>1, <1>2, <1>3, <1>a, <1>b
<1>7. \A p \in 0 .. begun : g2[p] = granted[p] /\ g2[p] \in Nat
  BY <1>1, <1>2, <1>3, <1>a, <1>b
<1>8. s2[1] = 0
  BY <1>1, <1>2, <1>6
<1>9. ASSUME NEW p \in 1 .. n
      PROVE  /\ s2[p + 1] <= s2[p] + FullLength(p)
             /\ TooLong(p) => g2[p - 1] < g2[p]
             /\ CutShort(p, s2) => g2[p - 1] + MostLost <= g2[p]
  <2>1. CASE p = n
    <3>1. n - 1 = begun /\ n \in 1 .. n /\ begun \in 0 .. begun
      BY <1>1
    <3>2. s2[n] = start[n] /\ g2[n - 1] = granted[begun]
      BY <1>6, <1>7, <3>1
    <3>3. s2[n + 1] <= s2[n] + FullLength(n)
      BY <1>1, <1>3, <1>5, <3>2
    <3>4. TooLong(n) => g2[n - 1] < g2[n]
      BY <1>3, <1>5, <3>2
    <3>5. CutShort(n, s2) => l < FullLength(n)
      BY <1>1, <1>3, <1>5, <3>2 DEF CutShort
    <3>6. MostLost \in Nat
      BY MostLostIsNat
    <3>7. g >= MostLost => g2[n - 1] + MostLost <= g2[n]
      BY <1>3, <1>5, <3>2, <3>6
    <3> QED
      BY <2>1, <3>3, <3>4, <3>5, <3>7
  <2>2. CASE p # n
    <3>1. p \in 1 .. begun /\ p \in 1 .. n /\ p + 1 \in 1 .. n /\ p - 1 \in 0 .. begun /\ p \in 0 .. begun
      BY <1>1, <2>2
    <3>2. s2[p] = start[p] /\ s2[p + 1] = start[p + 1]
      BY <1>6, <3>1
    <3>3. g2[p - 1] = granted[p - 1] /\ g2[p] = granted[p]
      BY <1>7, <3>1
    <3>4. /\ start[p + 1] <= start[p] + FullLength(p)
          /\ TooLong(p) => granted[p - 1] < granted[p]
          /\ CutShort(p, start) => granted[p - 1] + MostLost <= granted[p]
      BY <3>1 DEF Laid
    <3>5. CutShort(p, s2) <=> CutShort(p, start)
      BY <3>2 DEF CutShort
    <3> QED
      BY <3>2, <3>3, <3>4, <3>5
  <2> QED
    BY <2>1, <2>2
<1>10. ASSUME NEW p \in 1 .. n + 1, NEW q \in 1 .. n + 1, p <= q
       PROVE  /\ s2[p] <= s2[q] /\ g2[p - 1] <= g2[q - 1]
              /\ Bytes(q - p) <= s2[q] - s2[p] + Bytes(g2[q - 1] - g2[p - 1])
  <2>1. CASE q # n + 1
    <3>1. p \in 1 .. n /\ q \in 1 .. n /\ p - 1 \in 0 .. begun /\ q - 1 \in 0 .. begun
      BY <1>1, <1>10, <2>1
    <3>2. s2[p] = start[p] /\ s2[q] = start[q] /\ g2[p - 1] = granted[p - 1] /\ g2[q - 1] = granted[q - 1]
      BY <1>6, <1>7, <3>1
    <3>3. p \in 1 .. begun + 1 /\ q \in 1 .. begun + 1
      BY <3>1
    <3>4. /\ start[p] <= start[q] /\ granted[p - 1] <= granted[q - 1]
          /\ Bytes(q - p) <= start[q] - start[p] + Bytes(granted[q - 1] - granted[p - 1])
      BY <1>10, <3>3, LaidPair
    <3> QED
      BY <3>2, <3>4
  <2>2. CASE p = n + 1 /\ q = n + 1
    <3>1. s2[q] \in Nat /\ g2[q - 1] \in Nat /\ q - 1 = n
      BY <1>1, <1>3, <1>4, <2>2
    <3>2. q - p = 0 /\ s2[q] - s2[p] = 0 /\ g2[q - 1] - g2[p - 1] = 0 /\ s2[p] = s2[q] /\ g2[p - 1] = g2[q - 1]
      BY <1>1, <2>2, <3>1
    <3>3. Bytes(0) = 0
      BY BytesGrow
    <3> QED
      BY <3>1, <3>2, <3>3
  <2>3. CASE p # n + 1 /\ q = n + 1
    <3>1. p \in 1 .. begun + 1 /\ n \in 1 .. begun + 1 /\ p <= n /\ p - 1 \in 0 .. begun /\ p \in 1 .. n /\ n - 1 = begun
      BY <1>1, <2>3
    <3>2. /\ start[p] \in Nat /\ start[p] <= start[n] /\ granted[p - 1] \in Nat /\ granted[p - 1] <= granted[begun]
          /\ Bytes(n - p) <= start[n] - start[p] + Bytes(granted[begun] - granted[p - 1])
      BY <3>1, LaidPair
    <3>3. s2[p] = start[p] /\ g2[p - 1] = granted[p - 1] /\ q - 1 = n /\ q - p = n - p + 1
      BY <1>1, <1>6, <1>7, <2>3, <3>1
    <3> DEFINE a == n - p
               b == granted[begun] - granted[p - 1]
               c == start[n] - start[p]
    <3>4. a \in Int /\ b \in Int /\ c \in Int /\ Bytes(a) <= c + Bytes(b)
      BY <1>1, <1>3, <3>1, <3>2
    <3>5. s2[q] - s2[p] = c + l /\ g2[q - 1] - g2[p - 1] = b + g /\ q - p = a + 1
      BY <1>3, <1>5, <2>3, <3>2, <3>3
    <3>6. s2[p] <= s2[q] /\ g2[p - 1] <= g2[q - 1]
      BY <1>3, <1>5, <2>3, <3>2, <3>3
    <3> HIDE DEF a, b, c
    <3>7. Bytes(a + 1) <= c + l + Bytes(b + g)
      <4>1. /\ Bytes(a) \in Int /\ Bytes(b) \in Int /\ Bytes(1) \in Int /\ Bytes(g) \in Int
            /\ Bytes(a + 1) = Bytes(a) + Bytes(1) /\ Bytes(b + g) = Bytes(b) + Bytes(g)
        <5>1. Bytes(a) \in Int /\ Bytes(1) \in Int /\ Bytes(a + 1) = Bytes(a) + Bytes(1)
          BY <3>4, BytesGrow
        <5>2. b \in Int /\ g \in Int
          BY <3>4
        <5>3. Bytes(b) \in Int /\ Bytes(g) \in Int
          BY <5>2, BytesGrow
        <5>4. Bytes(b + g) = Bytes(b) + Bytes(g)
          BY <5>2, BytesGrow
        <5> QED
          BY <5>1, <5>3, <5>4
      <4>2. Bytes(1) = IdLength + HeaderLength
        BY FrameAssumption DEF Bytes
      <4>3. CASE l = FullLength(n)
        <5>1. Bytes(0) <= Bytes(g) /\ Bytes(0) = 0
          BY BytesGrow
        <5>2. Bytes(1) <= l
          BY <1>1, <4>2, <4>3, FrameAssumption
        <5> QED
          BY <3>4, <4>1, <5>1, <5>2
      <4>4. CASE l # FullLength(n)
        <5>1. g >= MostLost
          BY <1>1, <4>4
        <5>2. 1 <= g
          BY <5>1, MostLostIsNat
        <5>3. Bytes(1) <= Bytes(g)
          BY <5>2, BytesGrow
        <5> QED
          BY <3>4, <4>1, <5>3
      <4> QED
        BY <4>3, <4>4
    <3> QED
      BY <3>5, <3>6, <3>7
  <2> QED
    BY <1>1, <1>10, <2>1, <2>2, <2>3
<1>11. ASSUME NEW x \in 1 .. s2[n + 1]
       PROVE  \E p \in 1 .. n : s2[p] < x /\ x <= s2[p + 1]
  <2>1. CASE x <= start[n]
    <3>1. x \in 1 .. start[begun + 1]
      BY <1>3, <1>5, <2>1
    <3>2. PICK p \in 1 .. begun : start[p] < x /\ x <= start[p + 1]
      BY <3>1 DEF Laid
    <3>3. p \in 1 .. n /\ p + 1 \in 1 .. n
      BY <1>1
    <3> QED
      BY <1>6, <3>2, <3>3
  <2>2. CASE ~ (x <= start[n])
    <3>1. n \in 1 .. n /\ s2[n] = start[n] /\ s2[n] < x /\ x <= s2[n + 1]
      BY <1>1, <1>3, <1>5, <1>6, <2>2
    <3> QED
      BY <3>1
  <2> QED
    BY <2>1, <2>2
<1>12. Laid(s2, g2)'
  <2>1. begun' = n /\ length' = length
    BY DEF n
  <2> HIDE DEF n
  <2>2. \A p \in 1 .. n :
       /\ s2[p + 1] <= s2[p] + FullLength(p)'
       /\ TooLong(p)' => g2[p - 1] < g2[p]
       /\ CutShort(p, s2)' => g2[p - 1] + MostLost <= g2[p]
    BY <1>9, <2>1 DEF FullLength, TooLong, CutShort
  <2> QED
    BY <1>4, <1>8, <1>10, <1>11, <2>1, <2>2 DEF Laid
<1> QED
  BY <1>3, <1>5, <1>6, <1>7, <1>12

\* What is on its way stays what it is.
LEMMA HoldsExtended ==
  ASSUME begun \in Nat, begun' = begun + 1, length' = length,
         NEW start, NEW s2, start[begun + 1] \in Nat, s2[begun + 2] \in Nat,
         \A p \in 1 .. begun + 1 : s2[p] = start[p],
         start[begun + 1] <= s2[begun + 2],
         NEW x \in Nat, NEW t, Len(t) \in Nat, Holds(t, x, start)
  PROVE  Holds(t, x, s2)'
<1>0. begun + 1 \in Nat /\ begun + 2 \in Nat /\ begun + 1 + 1 = begun + 2 /\ begun + 1 \in 1 .. begun + 1
  OBVIOUS
<1>1. start[begun + 1] \in Nat /\ s2[begun + 2] \in Nat /\ s2[begun + 1] = start[begun + 1]
  BY <1>0
<1>2. x + Len(t) <= start[begun + 1]
  BY DEF Holds
<1>3. x + Len(t) <= s2[begun + 1 + 1]
  BY <1>0, <1>1, <1>2
<1>4. ASSUME NEW i \in 1 .. Len(t), NEW p \in 1 .. begun + 1, s2[p] < x + i, x + i <= s2[p + 1]
      PROVE  t[i] = Frame(p, length[p])[x + i - s2[p]]
  <2>1. p # begun + 1
    BY <1>1, <1>2, <1>4
  <2>2. p \in 1 .. begun /\ p + 1 \in 1 .. begun + 1
    BY <2>1
  <2>3. s2[p] = start[p] /\ s2[p + 1] = start[p + 1]
    BY <2>2
  <2> QED
    BY <1>4, <2>2, <2>3 DEF Holds
<1> QED
  BY <1>3, <1>4 DEF Holds

\* What is written are the bytes of the new frame.
LEMMA HoldsWritten ==
  ASSUME InRange, NEW start, NEW granted, Laid(start, granted),
         begun' = begun + 1, length' = length,
         NEW s2,
         \A p \in 1 .. begun + 1 : s2[p] = start[p],
         NEW x, x = start[begun + 1],
         NEW t, Len(t) \in Nat, s2[begun + 2] = x + Len(t),
         \A i \in 1 .. Len(t) : t[i] = Frame(begun + 1, length[begun + 1])[i]
  PROVE  Holds(t, x, s2)'
<1>0. /\ begun \in Nat /\ begun + 1 \in Nat /\ begun + 2 \in Nat /\ begun + 1 + 1 = begun + 2
      /\ begun + 1 \in 1 .. begun + 1
  BY FrameAssumption DEF InRange
<1>1. x \in Nat /\ s2[begun + 1] = x
  BY <1>0, EndOfLaid
<1>3. x + Len(t) <= s2[begun + 1 + 1]
  BY <1>0, <1>1
<1>4. ASSUME NEW i \in 1 .. Len(t), NEW p \in 1 .. begun + 1, s2[p] < x + i, x + i <= s2[p + 1]
      PROVE  t[i] = Frame(p, length[p])[x + i - s2[p]]
  <2>1. CASE p = begun + 1
    <3>1. x + i - s2[p] = i
      BY <1>1, <2>1
    <3> QED
      BY <2>1, <3>1
  <2>2. CASE p # begun + 1
    <3>1. p \in 1 .. begun /\ p + 1 \in 1 .. begun + 1
      BY <1>0, <2>2
    <3>2. s2[p + 1] = start[p + 1]
      BY <3>1
    <3>3. start[p + 1] <= x
      BY <3>1, LaidNumbers
    <3>4. start[p + 1] \in Nat
      BY <3>1, LaidNumbers
    <3> QED
      BY <1>1, <1>4, <3>2, <3>3, <3>4
  <2> QED
    BY <2>1, <2>2
<1> QED
  BY <1>3, <1>4 DEF Holds

\* The reader is where it was, and what it may lose has grown by what the new
\* frame has been granted.
LEMMA ReaderExtended ==
  ASSUME InRange, NEW start, NEW granted, Laid(start, granted), losses \in Int,
         begun' = begun + 1, length' = length, arrived' = arrived,
         packet' = packet, payload_length' = payload_length,
         NEW g \in Nat, losses' = losses + g,
         NEW s2, NEW g2,
         g2[begun + 1] = granted[begun] + g,
         \A p \in 1 .. begun + 1 : s2[p] = start[p],
         \A p \in 0 .. begun : g2[p] = granted[p],
         NEW x \in Nat
  PROVE  /\ x <= start[begun + 1] /\ Settled(x, start, granted) => Settled(x, s2, g2)'
         /\ \A p, j : InStep(p, j, x, start, granted) => InStep(p, j, x, s2, g2)'
         /\ Promised(x, start, granted) => Promised(x, s2, g2)'
<1>1. begun \in Nat /\ start[begun + 1] \in Nat /\ granted[begun] \in Nat
      /\ begun + 1 \in 1 .. begun + 1 /\ begun \in 0 .. begun /\ 0 \in 0 .. begun
  <2>1. begun \in Nat
    BY FrameAssumption DEF InRange
  <2>2. start \in [Nat -> Nat] /\ granted \in [Nat -> Nat]
    BY DEF Laid
  <2> QED
    BY <2>1, <2>2
<1>2. x <= start[begun + 1] /\ Settled(x, start, granted) => Settled(x, s2, g2)'
  <2>1. SUFFICES ASSUME x <= start[begun + 1], Settled(x, start, granted) PROVE Settled(x, s2, g2)'
    OBVIOUS
  <2>2. ASSUME NEW p \in 1 .. begun + 1, s2[p] < x, x <= s2[p + 1]
        PROVE  arrived <= p /\ losses + g >= p - arrived + g2[begun + 1] - g2[p]
    <3>1. p # begun + 1
      <4>1. s2[begun + 1] = start[begun + 1]
        BY <1>1
      <4> QED
        BY <1>1, <2>1, <2>2, <4>1
    <3>2. p \in 1 .. begun /\ p + 1 \in 1 .. begun + 1 /\ p \in 0 .. begun
      BY <1>1, <3>1
    <3>3. s2[p] = start[p] /\ s2[p + 1] = start[p + 1] /\ g2[p] = granted[p]
      BY <3>2
    <3>4. arrived <= p /\ losses >= p - arrived + granted[begun] - granted[p]
      BY <2>1, <2>2, <3>2, <3>3 DEF Settled
    <3>5. granted[p] \in Nat /\ p \in Nat /\ arrived \in Nat
      BY <3>2, LaidNumbers
    <3> QED
      BY <1>1, <3>3, <3>4, <3>5
  <2>3. x = 0 => arrived = 0 /\ losses + g >= g2[begun + 1] - g2[0]
    <3>1. x = 0 => arrived = 0 /\ losses >= granted[begun] - granted[0]
      BY <2>1 DEF Settled
    <3>2. g2[0] = granted[0] /\ granted[0] \in Nat
      BY <1>1 DEF Laid
    <3> QED
      BY <1>1, <3>1, <3>2
  <2> QED
    BY <2>2, <2>3 DEF Settled
<1>3. ASSUME NEW p, Entered(p, granted) PROVE Entered(p, g2)'
  <2>1. p \in 1 .. begun /\ arrived < p /\ losses >= p - 1 - arrived + granted[begun] - granted[p - 1]
    BY <1>3 DEF Entered
  <2>2. p \in Nat /\ arrived \in Nat /\ granted[p - 1] \in Nat
    BY <2>1, LaidNumbers
  <2>3. p - 1 \in 0 .. begun /\ p \in 1 .. begun + 1
    BY <1>1, <2>1
  <2>4. g2[p - 1] = granted[p - 1]
    BY <2>3
  <2>5. losses + g >= p - 1 - arrived + g2[begun + 1] - g2[p - 1]
    BY <1>1, <2>1, <2>2, <2>4
  <2> QED
    BY <2>1, <2>3, <2>5 DEF Entered
<1>4. ASSUME NEW p \in 1 .. begun PROVE s2[p] = start[p] /\ s2[p + 1] = start[p + 1]
  <2>1. p \in 1 .. begun + 1 /\ p + 1 \in 1 .. begun + 1
    BY <1>1
  <2> QED
    BY <2>1
<1>5. ASSUME NEW p, NEW j, InStep(p, j, x, start, granted) PROVE InStep(p, j, x, s2, g2)'
  <2>1. p \in 1 .. begun /\ Entered(p, granted) /\ start[p] + j = x /\ x <= start[p + 1]
    BY <1>5 DEF InStep, Entered
  <2> QED
    BY <1>3, <1>4, <2>1 DEF InStep
<1>6. ASSUME NEW n, Confused(x, n, start, granted) PROVE Confused(x, n, s2, g2)'
  <2>1. PICK p \in 1 .. begun :
          /\ Entered(p, granted) /\ CutShort(p, start)
          /\ start[p] < x /\ x + n <= start[p + 1] + HeaderLength + MaxSize
    BY <1>6 DEF Confused
  <2>2. Entered(p, g2)' /\ p \in 1 .. begun + 1
    BY <1>1, <1>3, <2>1
  <2>3. CutShort(p, s2)'
    BY <1>4, <2>1 DEF CutShort, FullLength
  <2>4. s2[p] < x /\ x + n <= s2[p + 1] + HeaderLength + MaxSize
    BY <1>4, <2>1
  <2> QED
    BY <2>2, <2>3, <2>4 DEF Confused
<1>7. Promised(x, start, granted) => Promised(x, s2, g2)'
  <2>1. CASE packet = 0
    BY <1>6, <2>1 DEF Promised
  <2>2. CASE packet # 0
    BY <1>5, <2>2 DEF Promised
  <2> QED
    BY <2>1, <2>2
<1> QED
  BY <1>2, <1>5, <1>7

-----------------------------------------------------------------------------
(* The frame that is being written is cut.                                 *)

LEMMA LaidCut ==
  ASSUME InRange, NEW start, NEW granted, Laid(start, granted),
         begun' = begun, length' = length, begun # 0, ~CutShort(begun, start),
         NEW k \in Nat, start[begun] <= start[begun + 1] - k
  PROVE  \E s2, g2 :
           /\ Laid(s2, g2)'
           /\ s2[begun + 1] = start[begun + 1] - k /\ g2[begun] = granted[begun] + MostLost
           /\ \A p \in 1 .. begun : s2[p] = start[p]
           /\ \A p \in 0 .. begun - 1 : g2[p] = granted[p]
<1>a. PICK s2 : s2 = [start EXCEPT ![begun + 1] = start[begun + 1] - k]
  OBVIOUS
<1>b. PICK g2 : g2 = [granted EXCEPT ![begun] = granted[begun] + MostLost]
  OBVIOUS
<1>1. /\ begun \in Nat /\ start[begun + 1] \in Nat /\ granted[begun] \in Nat
      /\ start \in [Nat -> Nat] /\ granted \in [Nat -> Nat] /\ start[1] = 0
      /\ begun \in 1 .. begun
  <2>1. begun \in Nat /\ start[begun + 1] \in Nat /\ granted[begun] \in Nat
    BY EndOfLaid
  <2> QED
    BY <2>1 DEF Laid
<1>2. MostLost \in Nat /\ MostLost >= 2
  BY MostLostIsNat
<1>3. start[begun] \in Nat
  BY <1>1, LaidNumbers
<1>4. start[begun + 1] - k \in Nat
  BY <1>1, <1>3
<1>5. granted[begun] + MostLost \in Nat
  BY <1>1, <1>2
<1>6. s2 \in [Nat -> Nat] /\ g2 \in [Nat -> Nat]
  BY <1>1, <1>4, <1>5, <1>a, <1>b
<1>7. s2[begun + 1] = start[begun + 1] - k /\ g2[begun] = granted[begun] + MostLost
  BY <1>1, <1>a, <1>b
<1>8. \A p \in 1 .. begun : s2[p] = start[p]
  BY <1>1, <1>a, <1>b
<1>9. \A p \in 0 .. begun - 1 : g2[p] = granted[p]
  BY <1>1, <1>a, <1>b
<1>10. s2[1] = 0
  BY <1>1, <1>8
<1>11. s2[begun + 1] \in Nat /\ s2[begun + 1] <= start[begun + 1] /\ start[begun] <= s2[begun + 1]
  BY <1>1, <1>4, <1>7
<1>12. ASSUME NEW p \in 1 .. begun
       PROVE  /\ s2[p + 1] <= s2[p] + FullLength(p)
              /\ TooLong(p) => g2[p - 1] < g2[p]
              /\ CutShort(p, s2) => g2[p - 1] + MostLost <= g2[p]
  <2>0. /\ start[p + 1] <= start[p] + FullLength(p) /\ start[p + 1] \in Nat /\ start[p] \in Nat
        /\ FullLength(p) \in Nat
    BY LaidNumbers
  <2>1. /\ TooLong(p) => granted[p - 1] < granted[p]
        /\ CutShort(p, start) => granted[p - 1] + MostLost <= granted[p]
        /\ granted[p - 1] <= granted[p] /\ granted[p - 1] \in Nat
    BY LaidNumbers
  <2>2. s2[p] = start[p] /\ g2[p - 1] = granted[p - 1]
    <3>1. p - 1 \in 0 .. begun - 1
      BY <1>1
    <3> QED
      BY <1>8, <1>9, <3>1
  <2>3. CASE p = begun
    <3>1. s2[p + 1] <= s2[p] + FullLength(p)
      <4>1. s2[p + 1] <= start[p + 1]
        BY <1>11, <2>3
      <4>2. s2[p + 1] \in Nat
        BY <1>11, <2>3
      <4> QED
        BY <2>0, <2>2, <4>1, <4>2
    <3>2. g2[p - 1] + MostLost <= g2[p]
      BY <1>1, <1>2, <1>7, <2>1, <2>2, <2>3
    <3>3. g2[p - 1] < g2[p]
      BY <1>1, <1>2, <1>7, <2>1, <2>2, <2>3
    <3> QED
      BY <3>1, <3>2, <3>3
  <2>4. CASE p # begun
    <3>1. p \in 0 .. begun - 1 /\ p + 1 \in 1 .. begun
      BY <1>1, <2>4
    <3>2. s2[p + 1] = start[p + 1] /\ g2[p] = granted[p]
      BY <1>8, <1>9, <3>1
    <3>3. CutShort(p, s2) <=> CutShort(p, start)
      BY <2>2, <3>2 DEF CutShort
    <3> QED
      BY <2>0, <2>1, <2>2, <3>2, <3>3
  <2> QED
    BY <2>3, <2>4
<1>13. ASSUME NEW p \in 1 .. begun + 1, NEW q \in 1 .. begun + 1, p <= q
       PROVE  /\ s2[p] <= s2[q] /\ g2[p - 1] <= g2[q - 1]
              /\ Bytes(q - p) <= s2[q] - s2[p] + Bytes(g2[q - 1] - g2[p - 1])
  <2>1. CASE q # begun + 1
    <3>1. p \in 1 .. begun /\ q \in 1 .. begun /\ p - 1 \in 0 .. begun - 1 /\ q - 1 \in 0 .. begun - 1
      BY <1>1, <1>13, <2>1
    <3>2. s2[p] = start[p] /\ s2[q] = start[q] /\ g2[p - 1] = granted[p - 1] /\ g2[q - 1] = granted[q - 1]
      BY <1>8, <1>9, <3>1
    <3>4. /\ start[p] <= start[q] /\ granted[p - 1] <= granted[q - 1]
          /\ Bytes(q - p) <= start[q] - start[p] + Bytes(granted[q - 1] - granted[p - 1])
      BY <1>13, LaidPair
    <3> QED
      BY <3>2, <3>4
  <2>2. CASE p = begun + 1 /\ q = begun + 1
    <3>1. s2[q] \in Nat /\ g2[q - 1] \in Nat /\ q - 1 = begun
      BY <1>1, <1>6, <2>2
    <3>2. q - p = 0 /\ s2[q] - s2[p] = 0 /\ g2[q - 1] - g2[p - 1] = 0 /\ s2[p] = s2[q] /\ g2[p - 1] = g2[q - 1]
      BY <1>1, <2>2, <3>1
    <3>3. Bytes(0) = 0
      BY BytesGrow
    <3> QED
      BY <3>1, <3>2, <3>3
  <2>3. CASE p # begun + 1 /\ q = begun + 1
    <3>1. p \in 1 .. begun + 1 /\ begun \in 1 .. begun + 1 /\ p <= begun /\ p - 1 \in 0 .. begun - 1
          /\ p \in 1 .. begun
      BY <1>1, <2>3
    <3>2. /\ start[p] \in Nat /\ start[p] <= start[begun] /\ granted[p - 1] \in Nat
          /\ granted[begun - 1] \in Nat /\ granted[p - 1] <= granted[begun - 1]
          /\ Bytes(begun - p) <= start[begun] - start[p] + Bytes(granted[begun - 1] - granted[p - 1])
      BY <3>1, LaidPair
    <3>a. granted[begun - 1] <= granted[begun]
      BY <1>1, LaidNumbers
    <3>3. s2[p] = start[p] /\ g2[p - 1] = granted[p - 1]
      BY <1>8, <1>9, <3>1
    <3>b. q - 1 = begun /\ q - p = begun - p + 1
      BY <1>1, <2>3
    <3> DEFINE a == begun - p
               b == granted[begun - 1] - granted[p - 1]
               c == start[begun] - start[p]
               d == s2[q] - s2[p]
               e == g2[q - 1] - g2[p - 1]
    <3>4. a \in Int /\ b \in Int /\ c \in Int /\ Bytes(a) <= c + Bytes(b)
      BY <1>1, <1>3, <3>1, <3>2
    <3>5. d \in Int /\ c <= d
      BY <1>3, <1>11, <2>3, <3>2, <3>3
    <3>6. e \in Int /\ b + MostLost <= e
      BY <1>1, <1>2, <1>7, <3>2, <3>3, <3>a, <3>b
    <3>7. s2[p] <= s2[q]
      BY <1>3, <1>11, <2>3, <3>2, <3>3
    <3>8. g2[p - 1] <= g2[q - 1]
      BY <1>1, <1>2, <1>7, <3>2, <3>3, <3>a, <3>b
    <3>9. q - p = a + 1
      BY <3>b
    <3> HIDE DEF a, b, c, d, e
    <3>10. Bytes(a + 1) <= d + Bytes(e)
      <4>1. Bytes(a) \in Int /\ Bytes(1) \in Int /\ Bytes(a + 1) = Bytes(a) + Bytes(1)
        BY <3>4, BytesGrow
      <4>2. b + 1 \in Int /\ b + 1 <= e
        BY <1>2, <3>4, <3>6
      <4>3. Bytes(b + 1) <= Bytes(e) /\ Bytes(e) \in Int
        BY <3>6, <4>2, BytesGrow
      <4>4. Bytes(b) \in Int /\ Bytes(b + 1) = Bytes(b) + Bytes(1)
        BY <3>4, BytesGrow
      <4> QED
        BY <3>4, <3>5, <4>1, <4>3, <4>4
    <3>11. Bytes(q - p) <= (s2[q] - s2[p]) + Bytes(g2[q - 1] - g2[p - 1])
      BY <3>9, <3>10 DEF d, e
    <3> QED
      BY <3>7, <3>8, <3>11
  <2> QED
    BY <1>1, <1>13, <2>1, <2>2, <2>3
<1>14. ASSUME NEW x \in 1 .. s2[begun + 1]
       PROVE  \E p \in 1 .. begun : s2[p] < x /\ x <= s2[p + 1]
  <2>1. x \in 1 .. start[begun + 1]
    BY <1>1, <1>11
  <2>2. PICK p \in 1 .. begun : start[p] < x /\ x <= start[p + 1]
    BY <2>1 DEF Laid
  <2>3. CASE p = begun
    <3>1. s2[p] < x /\ x <= s2[p + 1]
      BY <1>8, <1>11, <2>2, <2>3
    <3> QED
      BY <3>1
  <2>4. CASE p # begun
    <3>1. p + 1 \in 1 .. begun
      BY <1>1, <2>4
    <3>2. s2[p] < x /\ x <= s2[p + 1]
      BY <1>8, <2>2, <3>1
    <3> QED
      BY <3>2
  <2> QED
    BY <2>3, <2>4
<1>15. Laid(s2, g2)'
  <2>1. \A p \in 1 .. begun :
       /\ s2[p + 1] <= s2[p] + FullLength(p)'
       /\ TooLong(p)' => g2[p - 1] < g2[p]
       /\ CutShort(p, s2)' => g2[p - 1] + MostLost <= g2[p]
    BY <1>12 DEF FullLength, TooLong, CutShort
  <2> QED
    BY <1>6, <1>10, <1>13, <1>14, <2>1 DEF Laid
<1> QED
  BY <1>7, <1>8, <1>9, <1>15

LEMMA HoldsCut ==
  ASSUME InRange, NEW start, NEW granted, Laid(start, granted),
         begun' = begun, length' = length, NEW s2,
         \A p \in 1 .. begun : s2[p] = start[p],
         s2[begun + 1] \in Nat, s2[begun + 1] <= start[begun + 1],
         NEW x \in Nat, NEW t, Len(t) \in Nat, Holds(t, x, start),
         x + Len(t) <= s2[begun + 1]
  PROVE  Holds(t, x, s2)'
<1>1. ASSUME NEW i \in 1 .. Len(t), NEW p \in 1 .. begun, s2[p] < x + i, x + i <= s2[p + 1]
      PROVE  t[i] = Frame(p, length[p])[x + i - s2[p]]
  <2>1. s2[p] = start[p]
    OBVIOUS
  <2>2. x + i <= start[p + 1]
    <3>1. begun \in Nat /\ start[begun + 1] \in Nat
      BY EndOfLaid
    <3>2. CASE p = begun
      <4>1. x + i <= s2[begun + 1]
        BY <1>1, <3>2
      <4>2. x + i \in Int
        OBVIOUS
      <4> QED
        BY <3>1, <3>2, <4>1, <4>2
    <3>3. CASE p # begun
      <4>1. p + 1 \in 1 .. begun
        BY <3>1, <3>3
      <4> QED
        BY <1>1, <4>1
    <3> QED
      BY <3>2, <3>3
  <2> QED
    BY <1>1, <2>1, <2>2 DEF Holds
<1> QED
  BY <1>1 DEF Holds

\* The reader has not come to what is cut off.
LEMMA ReaderCut ==
  ASSUME InRange, NEW start, NEW granted, Laid(start, granted), losses \in Int,
         begun' = begun, length' = length, arrived' = arrived,
         packet' = packet, payload_length' = payload_length,
         begun # 0, ~CutShort(begun, start),
         losses' = losses + MostLost,
         NEW s2, NEW g2,
         g2[begun] = granted[begun] + MostLost,
         \A p \in 1 .. begun : s2[p] = start[p],
         \A p \in 0 .. begun - 1 : g2[p] = granted[p],
         s2[begun + 1] \in Nat, s2[begun + 1] <= start[begun + 1],
         NEW x \in Nat, x <= s2[begun + 1]
  PROVE  /\ Settled(x, start, granted) => Settled(x, s2, g2)'
         /\ Promised(x, start, granted) => Promised(x, s2, g2)'
<1>1. begun \in Nat /\ start[begun + 1] \in Nat /\ granted[begun] \in Nat /\ granted[0] \in Nat
      /\ begun \in 1 .. begun
  BY EndOfLaid
<1>2. MostLost \in Nat
  BY MostLostIsNat
<1>3. ASSUME Settled(x, start, granted) PROVE Settled(x, s2, g2)'
  <2>1. ASSUME NEW p \in 1 .. begun, s2[p] < x, x <= s2[p + 1]
        PROVE  arrived <= p /\ losses + MostLost >= p - arrived + g2[begun] - g2[p]
    <3>1. p \in Nat /\ arrived \in Nat /\ granted[p] \in Nat
      BY LaidNumbers
    <3>2. start[p] < x
      BY <2>1
    <3>3. CASE p = begun
      <4>1. x <= start[p + 1]
        BY <1>1, <3>3
      <4>2. arrived <= p /\ losses >= p - arrived + granted[begun] - granted[p]
        BY <1>3, <3>2, <4>1 DEF Settled
      <4>3. g2[begun] - g2[p] = 0 /\ granted[begun] - granted[p] = 0
        BY <1>1, <1>2, <3>3
      <4> QED
        BY <1>2, <3>1, <4>2, <4>3
    <3>4. CASE p # begun
      <4>1. p + 1 \in 1 .. begun /\ p \in 0 .. begun - 1
        BY <1>1, <3>4
      <4>2. x <= start[p + 1] /\ g2[p] = granted[p]
        BY <2>1, <4>1
      <4>3. arrived <= p /\ losses >= p - arrived + granted[begun] - granted[p]
        BY <1>3, <3>2, <4>2 DEF Settled
      <4> QED
        BY <1>1, <1>2, <3>1, <4>2, <4>3
    <3> QED
      BY <3>3, <3>4
  <2>2. x = 0 => arrived = 0 /\ losses + MostLost >= g2[begun] - g2[0]
    <3>1. x = 0 => arrived = 0 /\ losses >= granted[begun] - granted[0]
      BY <1>3 DEF Settled
    <3>2. 0 \in 0 .. begun - 1
      BY <1>1
    <3>3. g2[0] = granted[0]
      BY <3>2
    <3> QED
      BY <1>1, <1>2, <3>1, <3>3
  <2> QED
    BY <2>1, <2>2 DEF Settled
<1>4. ASSUME NEW p, Entered(p, granted) PROVE Entered(p, g2)'
  <2>1. p \in 1 .. begun /\ arrived < p /\ losses >= p - 1 - arrived + granted[begun] - granted[p - 1]
    BY <1>4 DEF Entered
  <2>2. p \in Nat /\ arrived \in Nat /\ granted[p - 1] \in Nat
    BY <2>1, LaidNumbers
  <2>3. p - 1 \in 0 .. begun - 1
    BY <1>1, <2>1
  <2>4. g2[p - 1] = granted[p - 1]
    BY <2>3
  <2>5. losses + MostLost >= p - 1 - arrived + g2[begun] - g2[p - 1]
    BY <1>1, <1>2, <2>1, <2>2, <2>4
  <2> QED
    BY <2>1, <2>5 DEF Entered
<1>5. ASSUME NEW p, NEW j, InStep(p, j, x, start, granted) PROVE InStep(p, j, x, s2, g2)'
  <2>1. p \in 1 .. begun /\ Entered(p, granted) /\ start[p] + j = x /\ x <= start[p + 1]
    BY <1>5 DEF InStep, Entered
  <2>2. s2[p] + j = x
    BY <2>1
  <2>3. x <= s2[p + 1]
    <3>1. CASE p = begun
      BY <3>1
    <3>2. CASE p # begun
      <4>1. p + 1 \in 1 .. begun
        BY <1>1, <2>1, <3>2
      <4> QED
        BY <2>1, <4>1
    <3> QED
      BY <3>1, <3>2
  <2> QED
    BY <1>4, <2>1, <2>2, <2>3 DEF InStep
<1>6. ASSUME NEW n, Confused(x, n, start, granted) PROVE Confused(x, n, s2, g2)'
  <2>1. PICK p \in 1 .. begun :
          /\ Entered(p, granted) /\ CutShort(p, start)
          /\ start[p] < x /\ x + n <= start[p + 1] + HeaderLength + MaxSize
    BY <1>6 DEF Confused
  <2>2. p + 1 \in 1 .. begun
    <3>1. p # begun
      BY <2>1
    <3> QED
      BY <1>1, <3>1
  <2>3. s2[p] = start[p] /\ s2[p + 1] = start[p + 1]
    BY <2>2
  <2>4. Entered(p, g2)'
    BY <1>4, <2>1
  <2>5. CutShort(p, s2)'
    BY <2>1, <2>3 DEF CutShort, FullLength
  <2> QED
    BY <2>1, <2>3, <2>4, <2>5 DEF Confused
<1>7. ASSUME Promised(x, start, granted) PROVE Promised(x, s2, g2)'
  <2>1. CASE packet = 0
    BY <1>6, <1>7, <2>1 DEF Promised
  <2>2. CASE packet # 0
    BY <1>5, <1>7, <2>2 DEF Promised
  <2> QED
    BY <2>1, <2>2
<1> QED
  BY <1>3, <1>7

-----------------------------------------------------------------------------
(* A packet arrives.                                                       *)

LEMMA AfterDelivery ==
  ASSUME InRange, NEW start, NEW granted, Laid(start, granted), losses \in Int,
         NEW p, Entered(p, granted), NEW x \in Nat, start[p] < x, x <= start[p + 1],
         begun' = begun, length' = length, Deliver(p)
  PROVE  Settled(x, start, granted)'
<1>1. p \in 1 .. begun /\ arrived < p /\ losses >= p - 1 - arrived + granted[begun] - granted[p - 1]
  BY DEF Entered
<1>2. p \in Nat /\ arrived \in Nat /\ start[p] \in Nat
  BY <1>1, LaidNumbers
<1>3. /\ granted[p - 1] \in Nat /\ granted[p] \in Nat /\ granted[begun] \in Nat
      /\ granted[p - 1] <= granted[p]
  BY <1>1, LaidNumbers
<1>4. arrived' = p /\ losses' = losses - (p - arrived - 1)
  BY DEF Deliver
<1>5. ASSUME NEW c \in 1 .. begun, start[c] < x, x <= start[c + 1] PROVE c = p
  BY <1>1, <1>5, OneFrame
<1>6. losses' >= p - p + granted[begun] - granted[p]
  BY <1>1, <1>2, <1>3, <1>4
<1>7. x # 0 /\ p <= p
  BY <1>2
<1> QED
  BY <1>4, <1>5, <1>6, <1>7 DEF Settled

\* Before the first frame.
LEMMA NothingLaid ==
  ASSUME Unused
  PROVE  \E start, granted :
           /\ Laid(start, granted) /\ Settled(0, start, granted)
           /\ Holds(<< >>, 0, start) /\ start[begun + 1] = 0
<1>1. begun = 0 /\ arrived = 0 /\ losses = 0
  BY DEF Unused
<1> DEFINE none == [n \in Nat |-> 0]
<1>2. none \in [Nat -> Nat] /\ none[1] = 0 /\ none[0] = 0 /\ none[begun + 1] = 0 /\ none[begun] = 0
  BY <1>1
<1> HIDE DEF none
<1>3. ASSUME NEW p \in 1 .. begun + 1, NEW q \in 1 .. begun + 1
      PROVE  /\ none[p] <= none[q] /\ none[p - 1] <= none[q - 1]
             /\ Bytes(q - p) <= none[q] - none[p] + Bytes(none[q - 1] - none[p - 1])
  <2>1. p = 1 /\ q = 1
    BY <1>1
  <2>2. none[p] = 0 /\ none[q] = 0 /\ none[p - 1] = 0 /\ none[q - 1] = 0 /\ q - p = 0
    BY <1>2, <2>1
  <2>3. Bytes(0) = 0
    BY BytesGrow
  <2> QED
    BY <2>2, <2>3
<1>4. 1 .. begun = {} /\ 1 .. none[begun + 1] = {}
  BY <1>1, <1>2
<1>5. Laid(none, none)
  BY <1>2, <1>3, <1>4 DEF Laid
<1>6. Holds(<< >>, 0, none)
  BY <1>2, HoldsNothing
<1>7. Settled(0, none, none)
  BY <1>1, <1>2, <1>4 DEF Settled
<1> QED
  BY <1>2, <1>5, <1>6, <1>7

-----------------------------------------------------------------------------
(* The abstract stream: the packets behind the one that arrived last.      *)

LEMMA StreamSend ==
  ASSUME InRange, losses \in Int, begun' = begun + 1, arrived' = arrived, delivered' = 0,
         NEW g \in Nat, g <= MostLost, losses' = losses + g
  PROVE  Stream!Send
<1> DEFINE queue == [i \in 1 .. begun - arrived |-> arrived + i]
           n == begun - arrived
           next == [i \in 1 .. n + 1 |-> arrived + i]
<1>1. arrived \in Nat /\ begun \in Nat /\ n \in Nat
  BY FrameAssumption DEF InRange
<1>2. queue \in Seq(Nat) /\ Len(queue) = n /\ next \in Seq(Nat) /\ Len(next) = n + 1
  BY <1>1
<1>3. [i \in 1 .. begun' - arrived' |-> arrived' + i] = next
  <2>1. begun' - arrived' = n + 1
    BY <1>1
  <2> QED
    BY <2>1
<1>4. SubSeq(next, 1, n) = queue
  BY <1>1
<1>5. losses' >= losses /\ losses' <= losses + MostLost
  BY MostLostIsNat
<1> QED
  BY <1>2, <1>3, <1>4, <1>5 DEF Stream!Send

LEMMA StreamDamage ==
  ASSUME losses \in Int, begun' = begun, arrived' = arrived, delivered' = 0,
         NEW g \in Nat, 0 < g, g <= MostLost, losses' = losses + g
  PROVE  Stream!Damage
<1>1. losses' > losses /\ losses' <= losses + MostLost
  BY MostLostIsNat
<1> QED
  BY <1>1 DEF Stream!Damage

LEMMA StreamIdle ==
  ASSUME begun' = begun, arrived' = arrived, delivered' = 0, losses' = losses
  PROVE  Stream!Idle
BY DEF Stream!Idle

LEMMA StreamDeliver ==
  ASSUME InRange, losses \in Int, begun' = begun,
         NEW p \in 1 .. begun, arrived < p, p - 1 - arrived <= losses, Deliver(p)
  PROVE  Stream!Deliver
<1> DEFINE queue == [i \in 1 .. begun - arrived |-> arrived + i]
           next == [i \in 1 .. begun - p |-> p + i]
           k == p - arrived
<1>1. arrived \in Nat /\ begun \in Nat /\ p \in Nat /\ begun - arrived \in Nat /\ begun - p \in Nat
      /\ k \in 1 .. begun - arrived
  BY FrameAssumption DEF InRange
<1>2. queue \in Seq(Nat) /\ Len(queue) = begun - arrived
  BY <1>1
<1>3. [i \in 1 .. begun' - arrived' |-> arrived' + i] = next
  BY DEF Deliver
<1>4. queue[k] = p
  BY <1>1
<1>5. SubSeq(queue, k + 1, Len(queue)) = next
  <2>1. SubSeq(queue, k + 1, Len(queue)) = [i \in 1 .. Len(queue) - (k + 1) + 1 |-> queue[k + 1 + i - 1]]
    BY <1>1, <1>2
  <2>2. Len(queue) - (k + 1) + 1 = begun - p
    BY <1>1, <1>2
  <2>3. ASSUME NEW i \in 1 .. begun - p PROVE queue[k + 1 + i - 1] = p + i
    <3>1. k + 1 + i - 1 = k + i /\ k + i \in 1 .. begun - arrived /\ arrived + (k + i) = p + i
      BY <1>1
    <3> QED
      BY <3>1
  <2> QED
    BY <2>1, <2>2, <2>3
<1>6. k - 1 <= losses /\ losses' = losses - (k - 1) /\ delivered' = p
  BY <1>1 DEF Deliver
<1>7. k \in 1 .. Len(queue)
  BY <1>1, <1>2
<1> HIDE DEF k
<1> QED
  BY <1>3, <1>4, <1>5, <1>6, <1>7 DEF Stream!Deliver

-----------------------------------------------------------------------------
(* Uplink: the types, and room in the fifo.                                *)

\* The types, and the sequences that are bytes.
IInv ==
  /\ TypeOK
  /\ writing \in Seq(FrameByte) /\ socket \in Seq(FrameByte) /\ input \in Seq(FrameByte)
  /\ NeverStuffed

LEMMA Parts ==
  ASSUME NEW s \in Seq(FrameByte), NEW k \in 0 .. Len(s)
  PROVE  /\ First(s, k) \in Seq(FrameByte) /\ Len(First(s, k)) = k
         /\ After(s, k) \in Seq(FrameByte) /\ Len(After(s, k)) = Len(s) - k
BY DEF First, After

LEMMA InitTyped == Init => IInv
<1> SUFFICES ASSUME Init PROVE IInv
  OBVIOUS
<1> USE UplinkAssumption, FrameAssumption
<1>1. /\ writing = << >> /\ socket = << >> /\ input = << >>
      /\ << >> \in Seq(FrameByte) /\ Len(<< >>) = 0
  BY DEF Init, Unused
<1>2. TypeOK
  <2>0. calling \in BOOLEAN
    BY Zenon DEF Init
  <2>1. /\ length \in [1 .. Packets -> 0 .. MaxLength] /\ begun \in 0 .. Packets
        /\ state \in {"NONE", "HEADER"}
    BY DEF Init, Unused
  <2>2. /\ payload_length \in 0 .. MaxSize /\ packet \in 0 .. begun
        /\ arrived \in 0 .. begun /\ delivered \in 0 .. begun /\ cuts \in 0 .. Interrupts
    BY DEF Init, Unused
  <2>3. Len(socket) <= SocketRoom /\ Len(input) <= RSize
    BY <1>1
  <2> QED
    BY <2>0, <2>1, <2>2, <2>3 DEF TypeOK, InRange
<1>3. NeverStuffed
  BY <1>1 DEF NeverStuffed
<1> QED
  BY <1>1, <1>2, <1>3 DEF IInv

LEMMA WriteKeeps == IInv /\ write_abuffer => IInv'
<1> SUFFICES ASSUME IInv, write_abuffer PROVE IInv'
  OBVIOUS
<1> USE UplinkAssumption, FrameAssumption
<1>1. begun + 1 \in 1 .. Packets /\ length[begun + 1] \in Nat
  BY DEF IInv, TypeOK, InRange, write_abuffer
<1>2. writing' \in Seq(FrameByte)
  <2>1. writing' = Frame(begun + 1, length[begun + 1]) /\ begun + 1 \in Nat
    BY <1>1 DEF write_abuffer
  <2> QED
    BY <1>1, <2>1, PartsOfFrame
<1>3. TypeOK'
  BY <1>1 DEF IInv, TypeOK, InRange, write_abuffer, server
<1>4. NeverStuffed'
  BY DEF IInv, NeverStuffed, write_abuffer, server
<1> QED
  BY <1>2, <1>3, <1>4 DEF IInv, write_abuffer, server

LEMMA SocketWriteKeeps == IInv /\ SocketWrite => IInv'
<1> SUFFICES ASSUME IInv, SocketWrite PROVE IInv'
  OBVIOUS
<1> USE UplinkAssumption, FrameAssumption
<1>1. PICK n \in 1 .. Len(writing) :
        /\ Len(socket) + n <= SocketRoom
        /\ socket' = socket \o First(writing, n)
        /\ writing' = After(writing, n)
  BY DEF SocketWrite
<1>2. n \in 0 .. Len(writing)
  OBVIOUS
<1>3. /\ First(writing, n) \in Seq(FrameByte) /\ Len(First(writing, n)) = n
      /\ writing' \in Seq(FrameByte)
  BY <1>1, <1>2, Parts DEF IInv
<1>4. socket' \in Seq(FrameByte) /\ Len(socket') <= SocketRoom
  BY <1>1, <1>3, JoinedBytes DEF IInv
<1>5. TypeOK'
  BY <1>4 DEF IInv, TypeOK, InRange, SocketWrite, server
<1>6. NeverStuffed'
  BY DEF IInv, NeverStuffed, SocketWrite, server
<1> QED
  BY <1>3, <1>4, <1>5, <1>6 DEF IInv, SocketWrite, server

LEMMA CutKeeps == IInv /\ sigusr1_handler => IInv'
<1> SUFFICES ASSUME IInv, sigusr1_handler PROVE IInv'
  OBVIOUS
<1> USE UplinkAssumption, FrameAssumption
<1>1. TypeOK'
  BY DEF IInv, TypeOK, InRange, sigusr1_handler, server
<1>2. NeverStuffed'
  BY DEF IInv, NeverStuffed, sigusr1_handler, server
<1> QED
  BY <1>1, <1>2 DEF IInv, sigusr1_handler, server

LEMMA PollKeeps == IInv /\ poll_buffers => IInv'
<1> SUFFICES ASSUME IInv, poll_buffers PROVE IInv'
  OBVIOUS
<1> USE UplinkAssumption, FrameAssumption
<1>1. PICK n \in 1 .. Len(socket) :
        /\ Len(input) + n <= RSize
        /\ input' = input \o First(socket, n)
        /\ socket' = After(socket, n)
  BY DEF poll_buffers
<1>2. n \in 0 .. Len(socket)
  OBVIOUS
<1>3. /\ First(socket, n) \in Seq(FrameByte) /\ Len(First(socket, n)) = n
      /\ socket' \in Seq(FrameByte) /\ Len(socket') = Len(socket) - n
  BY <1>1, <1>2, Parts DEF IInv
<1>4. input' \in Seq(FrameByte) /\ Len(input') <= RSize
  BY <1>1, <1>3, JoinedBytes DEF IInv
<1>5. Len(socket') <= SocketRoom
  BY <1>3 DEF IInv, TypeOK, InRange
<1>6. TypeOK'
  BY <1>4, <1>5 DEF IInv, TypeOK, InRange, poll_buffers, client
<1>7. NeverStuffed'
  BY DEF NeverStuffed, poll_buffers
<1> QED
  BY <1>3, <1>4, <1>6, <1>7 DEF IInv, poll_buffers, client

\* Taking bytes out of the input fifo.
LEMMA TakingOut ==
  ASSUME IInv, NEW k \in 0 .. Len(input), input' = After(input, k)
  PROVE  input' \in Seq(FrameByte) /\ Len(input') <= RSize
<1> USE UplinkAssumption, FrameAssumption
<1>1. After(input, k) \in Seq(FrameByte) /\ Len(After(input, k)) = Len(input) - k
  BY Parts DEF IInv
<1> QED
  BY <1>1 DEF IInv, TypeOK, InRange

\* The main loop stops calling only when the fifo holds less than a header or
\* less than the payload it waits for.
LEMMA StoppingLeavesRoom ==
  ASSUME IInv, NotReady,
         \/ ~Ready
         \/ ~PayloadThere
  PROVE  NeverStuffed'
<1> USE UplinkAssumption, FrameAssumption
<1>1. Len(input) \in Nat /\ payload_length \in 0 .. MaxSize
  BY DEF IInv, TypeOK, InRange
<1>2. CASE ~Ready
  BY <1>1, <1>2 DEF Ready, NotReady, NeverStuffed
<1>3. CASE ~PayloadThere
  BY <1>1, <1>3 DEF PayloadThere, NotReady, NeverStuffed
<1> QED
  BY <1>2, <1>3

LEMMA ReadKeeps == IInv /\ read_iobuf_abuffer => IInv'
<1> SUFFICES ASSUME IInv, read_iobuf_abuffer PROVE IInv'
  OBVIOUS
<1> USE UplinkAssumption, FrameAssumption
<1>0. calling /\ UNCHANGED <<client, socket, cuts>>
  BY DEF read_iobuf_abuffer
<1>1. CASE NotReady /\ (~Ready \/ ~PayloadThere)
  <2>1. NeverStuffed'
    BY <1>1, StoppingLeavesRoom
  <2>2. /\ calling' = FALSE /\ delivered' = 0
        /\ UNCHANGED <<length, begun, socket, input, state, payload_length, packet, cuts>>
    BY <1>0, <1>1 DEF NotReady, client
  <2>3. TypeOK'
    <3>1. TypeOK
      BY DEF IInv
    <3>2. calling' \in BOOLEAN
      BY <2>2, Zenon
    <3>3. delivered' \in 0 .. begun' /\ arrived' = arrived
      BY <1>1, <2>2, <3>1 DEF NotReady, TypeOK, InRange
    <3> QED
      BY <2>2, <3>1, <3>2, <3>3 DEF TypeOK, InRange
  <2> QED
    BY <1>0, <2>1, <2>2, <2>3 DEF IInv, client
<1>2. CASE OutOfStep
  <2>1. PICK k \in 1 .. IdLength : input' = After(input, k)
    BY <1>2 DEF OutOfStep
  <2>2. k \in 0 .. Len(input)
    BY <1>2 DEF OutOfStep, Ready, IInv
  <2>3. input' \in Seq(FrameByte) /\ Len(input') <= RSize
    BY <2>1, <2>2, TakingOut
  <2>4. TypeOK'
    BY <1>0, <1>2, <2>3 DEF IInv, TypeOK, InRange, OutOfStep, client
  <2>5. NeverStuffed'
    BY <1>0, <1>2 DEF OutOfStep, NeverStuffed
  <2> QED
    BY <1>0, <2>3, <2>4, <2>5 DEF IInv, client
<1>3. CASE ReadHeader
  <2>1. IdLength + HeaderLength \in 0 .. Len(input)
    BY <1>3 DEF ReadHeader, Ready, IInv
  <2>2. input' \in Seq(FrameByte) /\ Len(input') <= RSize
    BY <1>3, <2>1, TakingOut DEF ReadHeader
  <2>3. packet' \in 0 .. begun /\ payload_length' \in 0 .. MaxSize
    <3>1. CASE packet' \in 1 .. begun /\ payload_length' = Least(length[packet'], MaxSize)
      <4>1. packet' \in 1 .. Packets
        BY <3>1 DEF IInv, TypeOK, InRange
      <4>2. length[packet'] \in 0 .. MaxLength
        BY <4>1 DEF IInv, TypeOK, InRange
      <4> QED
        BY <3>1, <4>2 DEF Least
    <3>2. CASE packet' = 0 /\ payload_length' \in Claimed
      BY <3>2 DEF Claimed, IInv, TypeOK, InRange
    <3> QED
      BY <1>3, <3>1, <3>2 DEF ReadHeader
  <2>4. TypeOK'
    BY <1>0, <1>3, <2>2, <2>3 DEF IInv, TypeOK, InRange, ReadHeader, client
  <2>5. NeverStuffed'
    BY <1>0, <1>3 DEF ReadHeader, NeverStuffed
  <2> QED
    BY <1>0, <2>2, <2>4, <2>5 DEF IInv, client
<1>4. CASE ReadPayload
  <2>1. payload_length \in 0 .. Len(input)
    BY <1>4 DEF ReadPayload, PayloadThere, IInv, TypeOK, InRange
  <2>2. input' \in Seq(FrameByte) /\ Len(input') <= RSize
    BY <1>4, <2>1, TakingOut DEF ReadPayload
  <2>3. delivered' \in 0 .. begun /\ arrived' \in 0 .. begun
    BY <1>4 DEF ReadPayload, Deliver, IInv, TypeOK, InRange
  <2>4. TypeOK'
    BY <1>0, <1>4, <2>2, <2>3 DEF IInv, TypeOK, InRange, ReadPayload, client
  <2>5. NeverStuffed'
    BY <1>0, <1>4 DEF ReadPayload, NeverStuffed
  <2> QED
    BY <1>0, <2>2, <2>4, <2>5 DEF IInv, client
<1> QED
  BY <1>1, <1>2, <1>3, <1>4 DEF read_iobuf_abuffer

LEMMA StepKeeps == IInv /\ [Next]_vars => IInv'
<1>1. IInv /\ UNCHANGED vars => IInv'
  BY DEF IInv, TypeOK, InRange, NeverStuffed, vars, client, server, ghosts
<1> QED
  BY <1>1, WriteKeeps, SocketWriteKeeps, CutKeeps, PollKeeps, ReadKeeps DEF Next

LEMMA Inductive == Spec => []IInv
BY InitTyped, StepKeeps, PTL DEF Spec

\* Lengths, counts and the parser's state stay in their ranges, whatever is
\* sent and wherever it is cut (Server/srv_abuf.c:22-68).
THEOREM UplinkTypeCorrect == Spec => []TypeOK
<1>1. IInv => TypeOK
  BY DEF IInv
<1> QED
  BY <1>1, Inductive, PTL

\* The main loop never leaves the input fifo full, for every size of fifo
\* that holds a header and the longest payload the parser asks for
\* (Server/srv_abuf.c:33, 57, Server/gt.c:665-667).
THEOREM NeverGetsStuck == Spec => []NeverStuffed
<1>1. IInv => NeverStuffed
  BY DEF IInv
<1> QED
  BY <1>1, Inductive, PTL

-----------------------------------------------------------------------------
(* Uplink: where the bytes on the pipe come from.                          *)

\* The reader has taken x bytes; the fifo, the kernel and the client have the
\* others, in this order, and only the frame being written can still be cut.
Placed(start, granted, x) ==
  /\ x \in Nat /\ Laid(start, granted)
  /\ Holds(input, x, start)
  /\ Holds(socket, x + Len(input), start)
  /\ Holds(writing, x + Len(input) + Len(socket), start)
  /\ x + Len(input) + Len(socket) + Len(writing) = start[begun + 1]
  /\ writing # << >> =>
       /\ begun # 0 /\ ~CutShort(begun, start)
       /\ start[begun] <= start[begun + 1] - Len(writing)
  /\ state = "NONE" => Settled(x, start, granted)
  /\ state = "HEADER" => Promised(x, start, granted)

UpInv ==
  /\ IInv /\ losses \in Int
  /\ \E start, granted, x : Placed(start, granted, x)

LEMMA PlacedNumbers ==
  ASSUME IInv, NEW start, NEW granted, NEW x, Placed(start, granted, x)
  PROVE  /\ x \in Nat /\ Len(input) \in Nat /\ Len(socket) \in Nat /\ Len(writing) \in Nat
         /\ InRange /\ start[begun + 1] \in Nat
         /\ x + Len(input) + Len(socket) + Len(writing) = start[begun + 1]
         /\ x + Len(input) + Len(socket) <= start[begun + 1]
         /\ x + Len(input) <= start[begun + 1] /\ x <= start[begun + 1]
<1>1. Len(input) \in Nat /\ Len(socket) \in Nat /\ Len(writing) \in Nat
  BY DEF IInv
<1>2. InRange
  BY DEF IInv, TypeOK
<1>3. x \in Nat /\ Laid(start, granted) /\ x + Len(input) + Len(socket) + Len(writing) = start[begun + 1]
  BY DEF Placed
<1>4. start[begun + 1] \in Nat
  BY <1>2, <1>3, EndOfLaid
<1> QED
  BY <1>1, <1>2, <1>3, <1>4

LEMMA InitPlaced == Init => UpInv
<1> SUFFICES ASSUME Init PROVE UpInv
  OBVIOUS
<1>1. /\ losses = 0 /\ socket = << >> /\ input = << >> /\ writing = << >> /\ state = "NONE" /\ Unused
  BY DEF Init, Unused
<1>2. PICK start, granted :
        /\ Laid(start, granted) /\ Settled(0, start, granted)
        /\ Holds(<< >>, 0, start) /\ start[begun + 1] = 0
  BY <1>1, NothingLaid
<1>3. Len(input) = 0 /\ Len(socket) = 0 /\ Len(writing) = 0
  BY <1>1
<1>4. /\ 0 + Len(input) = 0 /\ 0 + Len(input) + Len(socket) = 0
      /\ 0 + Len(input) + Len(socket) + Len(writing) = start[begun + 1]
  BY <1>2, <1>3
<1>5. Placed(start, granted, 0)
  BY <1>1, <1>2, <1>4 DEF Placed
<1> QED
  BY <1>1, <1>5, InitTyped DEF UpInv

LEMMA WritePlaced ==
  ASSUME IInv, losses \in Int, NEW start, NEW granted, NEW x, Placed(start, granted, x),
         write_abuffer
  PROVE  /\ losses' \in Int /\ (\E s, g, y : Placed(s, g, y)')
         /\ Stream!Send
<1>1. /\ x \in Nat /\ Len(input) \in Nat /\ Len(socket) \in Nat /\ InRange /\ start[begun + 1] \in Nat
      /\ x <= start[begun + 1]
  BY PlacedNumbers
<1>2. /\ writing = << >> /\ begun' = begun + 1 /\ length' = length /\ delivered' = 0
      /\ writing' = Frame(begun + 1, length[begun + 1])
      /\ losses' = losses + (IF TooLong(begun + 1) THEN 1 ELSE 0)
      /\ input' = input /\ socket' = socket /\ state' = state /\ arrived' = arrived
      /\ packet' = packet /\ payload_length' = payload_length
  BY DEF write_abuffer, server
<1>3. begun \in Nat /\ begun + 1 \in 1 .. Packets /\ length[begun + 1] \in Nat
  BY <1>1, FrameAssumption DEF InRange, write_abuffer
<1> DEFINE g == IF TooLong(begun + 1) THEN 1 ELSE 0
           l == FullLength(begun + 1)
           w == Frame(begun + 1, length[begun + 1])
<1>4. /\ g \in Nat /\ g <= 1 /\ (TooLong(begun + 1) => g >= 1) /\ losses' = losses + g
  BY <1>2
<1>5. l \in Nat /\ l = IdLength + HeaderLength + length[begun + 1] /\ l <= FullLength(begun + 1)
      /\ ~ (l < FullLength(begun + 1))
  BY <1>3, FrameAssumption DEF FullLength
<1>6. w \in Seq(FrameByte) /\ Len(w) = l
  <2>1. begun + 1 \in Nat
    BY <1>3
  <2> QED
    BY <1>3, <1>5, <2>1, PartsOfFrame
<1>7. Laid(start, granted) /\ Holds(input, x, start) /\ Holds(socket, x + Len(input), start)
      /\ x + Len(input) + Len(socket) = start[begun + 1]
  <2>1. Len(writing) = 0
    BY <1>2
  <2> QED
    BY <1>1, <2>1 DEF Placed
<1> PICK G : G = g
  OBVIOUS
<1> PICK L : L = l
  OBVIOUS
<1>8. G \in Nat /\ G <= 1 /\ (TooLong(begun + 1) => G >= 1) /\ losses' = losses + G
  BY <1>4
<1>9. L \in Nat /\ L <= FullLength(begun + 1) /\ ~ (L < FullLength(begun + 1)) /\ Len(w) = L
  BY <1>5, <1>6
<1> HIDE DEF g, l, w
<1>11. PICK S2, G2 :
         /\ Laid(S2, G2)'
         /\ S2[begun + 2] = start[begun + 1] + L /\ G2[begun + 1] = granted[begun] + G
         /\ \A p \in 1 .. begun + 1 : S2[p] = start[p]
         /\ \A p \in 0 .. begun : G2[p] = granted[p]
  <2>1. InRange /\ Laid(start, granted)
    BY <1>1, <1>7
  <2>2. begun' = begun + 1 /\ length' = length /\ begun + 1 \in 1 .. Packets
    BY <1>2, <1>3
  <2>3. L \in Nat /\ L <= FullLength(begun + 1)
    BY <1>9
  <2>4. L < FullLength(begun + 1) => G >= MostLost
    BY <1>9
  <2>5. G \in Nat /\ (TooLong(begun + 1) => G >= 1)
    BY <1>8
  <2> QED
    BY <2>1, <2>2, <2>3, <2>4, <2>5, LaidExtended
<1>12. S2[begun + 2] \in Nat /\ start[begun + 1] <= S2[begun + 2]
  BY <1>1, <1>9, <1>11
<1>13. Holds(input, x, S2)'
  BY <1>1, <1>2, <1>3, <1>7, <1>11, <1>12, HoldsExtended
<1>14. PICK y \in Nat : y = x + Len(input)
  BY <1>1
<1>15. Holds(socket, y, S2)'
  <2>1. Holds(socket, y, start)
    BY <1>7, <1>14
  <2> QED
    BY <1>1, <1>2, <1>3, <1>11, <1>12, <2>1, HoldsExtended
<1>16. PICK z \in Nat : z = start[begun + 1]
  BY <1>1
<1>17. Holds(writing, z, S2)'
  <2>1. PICK t : t = w
    OBVIOUS
  <2>2. Len(t) \in Nat /\ S2[begun + 2] = z + Len(t)
    BY <1>9, <1>11, <1>16, <2>1
  <2>3. \A i \in 1 .. Len(t) : t[i] = Frame(begun + 1, length[begun + 1])[i]
    BY <2>1 DEF w
  <2>4. Holds(t, z, S2)'
    BY <1>1, <1>2, <1>7, <1>11, <1>16, <2>2, <2>3, HoldsWritten
  <2> QED
    BY <1>2, <2>1, <2>4 DEF w
<1>18. /\ x <= start[begun + 1] /\ Settled(x, start, granted) => Settled(x, S2, G2)'
       /\ Promised(x, start, granted) => Promised(x, S2, G2)'
  BY <1>1, <1>2, <1>7, <1>8, <1>11, ReaderExtended
<1>19. Placed(S2, G2, x)'
  <2>1. y = x + Len(input') /\ z = x + Len(input') + Len(socket')
    BY <1>2, <1>7, <1>14, <1>16
  <2>2. x + Len(input') + Len(socket') + Len(writing') = S2[begun' + 1]
    <3>1. begun' + 1 = begun + 2
      BY <1>2, <1>3
    <3>2. Len(writing') = L
      BY <1>2, <1>9 DEF w
    <3> QED
      BY <1>11, <1>16, <2>1, <3>1, <3>2
  <2>3. begun' # 0 /\ ~CutShort(begun, S2)' /\ S2[begun'] <= S2[begun' + 1] - Len(writing')
    <3>1. begun' # 0 /\ begun' + 1 = begun + 2 /\ Len(writing') = L /\ begun' \in 1 .. begun + 1
      BY <1>2, <1>3, <1>9 DEF w
    <3>2. S2[begun'] = start[begun + 1] /\ S2[begun' + 1] = start[begun + 1] + L
      BY <1>2, <1>11, <3>1
    <3>3. FullLength(begun)' = L
      <4>1. FullLength(begun)' = IdLength + HeaderLength + length[begun + 1]
        BY <1>2 DEF FullLength
      <4> QED
        BY <1>5, <4>1 DEF l
    <3>4. ~CutShort(begun, S2)'
      BY <1>1, <1>9, <3>2, <3>3 DEF CutShort
    <3> QED
      BY <1>1, <1>9, <3>1, <3>2, <3>4
  <2>4. state' = "NONE" => Settled(x, S2, G2)'
    BY <1>1, <1>2, <1>18 DEF Placed
  <2>5. state' = "HEADER" => Promised(x, S2, G2)'
    BY <1>2, <1>18 DEF Placed
  <2> QED
    BY <1>1, <1>11, <1>13, <1>15, <1>17, <2>1, <2>2, <2>3, <2>4, <2>5 DEF Placed
<1>20. Stream!Send
  <2>1. G <= MostLost
    BY <1>8, MostLostIsNat
  <2> QED
    BY <1>1, <1>2, <1>8, <2>1, StreamSend
<1>21. losses' \in Int
  BY <1>8
<1> QED
  BY <1>19, <1>20, <1>21

\* Where the parser is does not depend on who holds the bytes.
LEMMA ReaderStays ==
  ASSUME NEW start, NEW granted, NEW x, x \in Nat,
         UNCHANGED <<length, begun, packet, payload_length, arrived, losses>>
  PROVE  /\ Settled(x, start, granted) => Settled(x, start, granted)'
         /\ Promised(x, start, granted) => Promised(x, start, granted)'
         /\ Laid(start, granted) => Laid(start, granted)'
         /\ \A t, y : Holds(t, y, start) => Holds(t, y, start)'
         /\ \A p, j : InStep(p, j, x, start, granted) => InStep(p, j, x, start, granted)'
<1>1. Settled(x, start, granted) => Settled(x, start, granted)'
  BY DEF Settled
<1>2. Laid(start, granted) => Laid(start, granted)'
  BY DEF Laid, CutShort, FullLength, TooLong
<1>3. \A t, y : Holds(t, y, start) => Holds(t, y, start)'
  BY DEF Holds
<1>4. ASSUME NEW p, Entered(p, granted) PROVE Entered(p, granted)'
  BY <1>4 DEF Entered
<1>5. ASSUME NEW p, NEW j, InStep(p, j, x, start, granted) PROVE InStep(p, j, x, start, granted)'
  BY <1>4, <1>5 DEF InStep
<1>6. ASSUME NEW n, Confused(x, n, start, granted) PROVE Confused(x, n, start, granted)'
  <2>1. PICK p \in 1 .. begun :
          /\ Entered(p, granted) /\ CutShort(p, start)
          /\ start[p] < x /\ x + n <= start[p + 1] + HeaderLength + MaxSize
    BY <1>6 DEF Confused
  <2>2. Entered(p, granted)' /\ CutShort(p, start)'
    BY <1>4, <2>1 DEF CutShort, FullLength
  <2> QED
    BY <2>1, <2>2 DEF Confused
<1>7. ASSUME Promised(x, start, granted) PROVE Promised(x, start, granted)'
  <2>1. CASE packet = 0
    BY <1>6, <1>7, <2>1 DEF Promised
  <2>2. CASE packet # 0
    BY <1>5, <1>7, <2>2 DEF Promised
  <2> QED
    BY <2>1, <2>2
<1> QED
  BY <1>1, <1>2, <1>3, <1>5, <1>7

LEMMA SocketWritePlaced ==
  ASSUME IInv, losses \in Int, NEW start, NEW granted, NEW x, Placed(start, granted, x),
         SocketWrite
  PROVE  /\ losses' \in Int /\ (\E s, g, y : Placed(s, g, y)')
         /\ Stream!Idle
<1>1. /\ x \in Nat /\ Len(input) \in Nat /\ Len(socket) \in Nat /\ Len(writing) \in Nat
      /\ InRange /\ start[begun + 1] \in Nat
      /\ x + Len(input) + Len(socket) + Len(writing) = start[begun + 1]
  BY PlacedNumbers
<1>2. PICK n \in 1 .. Len(writing) :
        socket' = socket \o First(writing, n) /\ writing' = After(writing, n)
  BY DEF SocketWrite
<1>3. /\ UNCHANGED <<length, begun, packet, payload_length, arrived, losses>> /\ delivered' = 0
      /\ input' = input /\ state' = state /\ writing # << >>
  BY DEF SocketWrite, server
<1>4. n \in 0 .. Len(writing) /\ n \in Nat
  BY <1>1
<1>5. /\ Laid(start, granted) /\ Holds(input, x, start) /\ Holds(socket, x + Len(input), start)
      /\ Holds(writing, x + Len(input) + Len(socket), start)
  BY DEF Placed
<1>6. PICK y \in Nat : y = x + Len(input)
  BY <1>1
<1>7. PICK z \in Nat : z = y + Len(socket)
  BY <1>1
<1>8. socket \in Seq(FrameByte) /\ writing \in Seq(FrameByte)
  BY DEF IInv
<1>9. Holds(socket, y, start) /\ Holds(writing, z, start)
  BY <1>5, <1>6, <1>7
<1>10. /\ First(writing, n) \in Seq(FrameByte) /\ Len(First(writing, n)) = n
       /\ Holds(First(writing, n), z, start)
  BY <1>1, <1>4, <1>5, <1>8, <1>9, HoldsFirst
<1>11. Len(writing') = Len(writing) - n /\ Holds(writing', z + n, start)
  <2>1. /\ After(writing, n) \in Seq(FrameByte) /\ Len(After(writing, n)) = Len(writing) - n
        /\ Holds(After(writing, n), z + n, start)
    BY <1>1, <1>4, <1>5, <1>8, <1>9, HoldsAfter
  <2> QED
    BY <1>2, <2>1
<1>12. Len(socket') = Len(socket) + n /\ Holds(socket', y, start)
  <2>1. PICK f : f = First(writing, n)
    OBVIOUS
  <2>2. f \in Seq(FrameByte) /\ Len(f) = n
    BY <1>10, <2>1
  <2>3. Len(socket \o f) = Len(socket) + Len(f)
    BY <1>8, <2>2, JoinedBytes
  <2>4. Holds(f, z, start)
    BY <1>10, <2>1
  <2>5. Holds(socket \o f, y, start)
    BY <1>1, <1>5, <1>7, <1>8, <1>9, <2>2, <2>4, HoldsJoined
  <2> QED
    BY <1>2, <2>1, <2>2, <2>3, <2>5
<1>13. /\ Laid(start, granted)' /\ Holds(input, x, start)' /\ Holds(socket, y, start)'
       /\ Holds(writing, z + n, start)'
  BY <1>1, <1>3, <1>5, <1>11, <1>12, ReaderStays
<1>14. Placed(start, granted, x)'
  <2>1. /\ y = x + Len(input') /\ z + n = x + Len(input') + Len(socket')
        /\ x + Len(input') + Len(socket') + Len(writing') = start[begun' + 1]
    BY <1>1, <1>3, <1>4, <1>6, <1>7, <1>11, <1>12
  <2>2. begun' # 0 /\ ~CutShort(begun, start)' /\ start[begun'] <= start[begun' + 1] - Len(writing')
    <3>1. begun # 0 /\ ~CutShort(begun, start) /\ start[begun] <= start[begun + 1] - Len(writing)
      BY <1>3 DEF Placed
    <3>2. begun \in 1 .. begun
      BY <1>1, <3>1, FrameAssumption DEF InRange
    <3>3. start[begun] \in Nat
      BY <1>1, <1>5, <3>2, LaidNumbers
    <3>4. start[begun] <= start[begun + 1] - (Len(writing) - n)
      BY <1>1, <1>4, <3>1, <3>3
    <3>5. ~CutShort(begun, start)'
      BY <1>3, <3>1 DEF CutShort, FullLength
    <3> QED
      BY <1>3, <1>11, <3>1, <3>4, <3>5
  <2>3. state' = "NONE" => Settled(x, start, granted)'
    BY <1>1, <1>3, ReaderStays DEF Placed
  <2>4. state' = "HEADER" => Promised(x, start, granted)'
    BY <1>1, <1>3, ReaderStays DEF Placed
  <2> QED
    BY <1>1, <1>13, <2>1, <2>2, <2>3, <2>4 DEF Placed
<1>15. Stream!Idle
  BY <1>3, StreamIdle
<1> QED
  BY <1>3, <1>14, <1>15

LEMMA PollPlaced ==
  ASSUME IInv, losses \in Int, NEW start, NEW granted, NEW x, Placed(start, granted, x),
         poll_buffers
  PROVE  /\ losses' \in Int /\ (\E s, g, y : Placed(s, g, y)')
         /\ Stream!Idle
<1>1. /\ x \in Nat /\ Len(input) \in Nat /\ Len(socket) \in Nat /\ Len(writing) \in Nat
      /\ InRange /\ start[begun + 1] \in Nat
      /\ x + Len(input) + Len(socket) + Len(writing) = start[begun + 1]
  BY PlacedNumbers
<1>2. PICK n \in 1 .. Len(socket) :
        input' = input \o First(socket, n) /\ socket' = After(socket, n)
  BY DEF poll_buffers
<1>3. /\ UNCHANGED <<length, begun, packet, payload_length, arrived, losses>> /\ delivered' = 0
      /\ writing' = writing /\ state' = state
  BY DEF poll_buffers, client
<1>4. n \in 0 .. Len(socket) /\ n \in Nat
  BY <1>1
<1>5. /\ Laid(start, granted) /\ Holds(input, x, start) /\ Holds(socket, x + Len(input), start)
      /\ Holds(writing, x + Len(input) + Len(socket), start)
  BY DEF Placed
<1>6. PICK y \in Nat : y = x + Len(input)
  BY <1>1
<1>7. PICK z \in Nat : z = y + Len(socket)
  BY <1>1
<1>8. socket \in Seq(FrameByte) /\ input \in Seq(FrameByte)
  BY DEF IInv
<1>9. Holds(socket, y, start) /\ Holds(writing, z, start)
  BY <1>5, <1>6, <1>7
<1>10. /\ First(socket, n) \in Seq(FrameByte) /\ Len(First(socket, n)) = n
       /\ Holds(First(socket, n), y, start)
  BY <1>1, <1>4, <1>5, <1>8, <1>9, HoldsFirst
<1>11. Len(socket') = Len(socket) - n /\ Holds(socket', y + n, start)
  <2>1. /\ After(socket, n) \in Seq(FrameByte) /\ Len(After(socket, n)) = Len(socket) - n
        /\ Holds(After(socket, n), y + n, start)
    BY <1>1, <1>4, <1>5, <1>8, <1>9, HoldsAfter
  <2> QED
    BY <1>2, <2>1
<1>12. Len(input') = Len(input) + n /\ Holds(input', x, start)
  <2>1. PICK f : f = First(socket, n)
    OBVIOUS
  <2>2. f \in Seq(FrameByte) /\ Len(f) = n
    BY <1>10, <2>1
  <2>3. Len(input \o f) = Len(input) + Len(f)
    BY <1>8, <2>2, JoinedBytes
  <2>4. Holds(f, y, start)
    BY <1>10, <2>1
  <2>5. Holds(input \o f, x, start)
    BY <1>1, <1>5, <1>6, <1>8, <2>2, <2>4, HoldsJoined
  <2> QED
    BY <1>2, <2>1, <2>2, <2>3, <2>5
<1>13. /\ Laid(start, granted)' /\ Holds(input, x, start)' /\ Holds(socket, y + n, start)'
       /\ Holds(writing, z, start)'
  BY <1>1, <1>3, <1>5, <1>9, <1>11, <1>12, ReaderStays
<1>14. Placed(start, granted, x)'
  <2>1. /\ y + n = x + Len(input') /\ z = x + Len(input') + Len(socket')
        /\ x + Len(input') + Len(socket') + Len(writing') = start[begun' + 1]
    BY <1>1, <1>3, <1>4, <1>6, <1>7, <1>11, <1>12
  <2>2. writing' # << >> =>
          begun' # 0 /\ ~CutShort(begun, start)' /\ start[begun'] <= start[begun' + 1] - Len(writing')
    <3>1. writing # << >> =>
            begun # 0 /\ ~CutShort(begun, start) /\ start[begun] <= start[begun + 1] - Len(writing)
      BY DEF Placed
    <3>2. CutShort(begun, start)' <=> CutShort(begun, start)
      BY <1>3 DEF CutShort, FullLength
    <3> QED
      BY <1>3, <3>1, <3>2
  <2>3. state' = "NONE" => Settled(x, start, granted)'
    BY <1>1, <1>3, ReaderStays DEF Placed
  <2>4. state' = "HEADER" => Promised(x, start, granted)'
    BY <1>1, <1>3, ReaderStays DEF Placed
  <2> QED
    BY <1>1, <1>13, <2>1, <2>2, <2>3, <2>4 DEF Placed
<1>15. Stream!Idle
  BY <1>3, StreamIdle
<1> QED
  BY <1>3, <1>14, <1>15

LEMMA CutPlaced ==
  ASSUME IInv, losses \in Int, NEW start, NEW granted, NEW x, Placed(start, granted, x),
         sigusr1_handler
  PROVE  /\ losses' \in Int /\ (\E s, g, y : Placed(s, g, y)')
         /\ Stream!Damage
<1>1. /\ x \in Nat /\ Len(input) \in Nat /\ Len(socket) \in Nat /\ Len(writing) \in Nat
      /\ InRange /\ start[begun + 1] \in Nat
      /\ x + Len(input) + Len(socket) + Len(writing) = start[begun + 1]
  BY PlacedNumbers
<1>2. /\ UNCHANGED <<length, begun, packet, payload_length, arrived>> /\ delivered' = 0
      /\ input' = input /\ socket' = socket /\ state' = state
      /\ writing # << >> /\ writing' = << >> /\ losses' = losses + MostLost
  BY DEF sigusr1_handler, server
<1>3. /\ Laid(start, granted) /\ Holds(input, x, start) /\ Holds(socket, x + Len(input), start)
      /\ begun # 0 /\ ~CutShort(begun, start) /\ start[begun] <= start[begun + 1] - Len(writing)
  BY <1>2 DEF Placed
<1>4. PICK k \in Nat : k = Len(writing)
  BY <1>1
<1>5. PICK S2, G2 :
           /\ Laid(S2, G2)'
           /\ S2[begun + 1] = start[begun + 1] - k /\ G2[begun] = granted[begun] + MostLost
           /\ \A p \in 1 .. begun : S2[p] = start[p]
           /\ \A p \in 0 .. begun - 1 : G2[p] = granted[p]
  <2>1. start[begun] <= start[begun + 1] - k
    BY <1>3, <1>4
  <2>2. InRange /\ Laid(start, granted) /\ begun' = begun /\ length' = length /\ begun # 0
        /\ ~CutShort(begun, start)
    BY <1>1, <1>2, <1>3
  <2> QED
    BY <2>1, <2>2, LaidCut
<1>6. PICK y \in Nat : y = x + Len(input)
  BY <1>1
<1>7. PICK z \in Nat : z = y + Len(socket)
  BY <1>1
<1>8. S2[begun + 1] = z /\ z <= start[begun + 1] /\ x <= z /\ y <= z /\ x + Len(input) <= z
  BY <1>1, <1>4, <1>5, <1>6, <1>7
<1>9. Holds(input, x, S2)'
  BY <1>1, <1>2, <1>3, <1>5, <1>8, HoldsCut
<1>10. Holds(socket, y, S2)'
  <2>1. Holds(socket, y, start) /\ y + Len(socket) <= z
    BY <1>3, <1>6, <1>7
  <2> QED
    BY <1>1, <1>2, <1>3, <1>5, <1>8, <2>1, HoldsCut
<1>11. Holds(writing, z, S2)'
  <2>1. z + Len(writing') <= S2[begun' + 1] /\ Len(writing') = 0
    BY <1>2, <1>8
  <2> QED
    BY <2>1 DEF Holds
<1>12. /\ Settled(x, start, granted) => Settled(x, S2, G2)'
       /\ Promised(x, start, granted) => Promised(x, S2, G2)'
  <2>1. S2[begun + 1] \in Nat /\ S2[begun + 1] <= start[begun + 1] /\ x <= S2[begun + 1]
    BY <1>8
  <2> QED
    BY <1>1, <1>2, <1>3, <1>5, <2>1, ReaderCut
<1>13. Placed(S2, G2, x)'
  <2>1. /\ y = x + Len(input') /\ z = x + Len(input') + Len(socket')
        /\ x + Len(input') + Len(socket') + Len(writing') = S2[begun' + 1]
    BY <1>1, <1>2, <1>6, <1>7, <1>8
  <2>3. state' = "NONE" => Settled(x, S2, G2)'
    BY <1>2, <1>12 DEF Placed
  <2>4. state' = "HEADER" => Promised(x, S2, G2)'
    BY <1>2, <1>12 DEF Placed
  <2> QED
    BY <1>1, <1>2, <1>5, <1>9, <1>10, <1>11, <2>1, <2>3, <2>4 DEF Placed
<1>14. Stream!Damage
  <2>1. MostLost \in Nat /\ 0 < MostLost /\ MostLost <= MostLost
    BY MostLostIsNat
  <2> QED
    BY <1>2, <2>1, StreamDamage
<1>15. losses' \in Int
  BY <1>2, MostLostIsNat
<1> QED
  BY <1>13, <1>14, <1>15

\* The parser takes k bytes out of the fifo.
LEMMA TakePlaced ==
  ASSUME IInv, NEW start, NEW granted, NEW x, Placed(start, granted, x),
         NEW k \in 0 .. Len(input), input' = After(input, k),
         length' = length, begun' = begun, socket' = socket, writing' = writing,
         NEW y, y = x + k,
         state' = "NONE" => Settled(y, start, granted)',
         state' = "HEADER" => Promised(y, start, granted)'
  PROVE  Placed(start, granted, y)'
<1>1. /\ x \in Nat /\ Len(input) \in Nat /\ Len(socket) \in Nat /\ Len(writing) \in Nat
      /\ InRange /\ start[begun + 1] \in Nat
      /\ x + Len(input) + Len(socket) + Len(writing) = start[begun + 1]
  BY PlacedNumbers
<1>2. /\ Laid(start, granted) /\ Holds(input, x, start) /\ Holds(socket, x + Len(input), start)
      /\ Holds(writing, x + Len(input) + Len(socket), start)
      /\ writing # << >> =>
          begun # 0 /\ ~CutShort(begun, start) /\ start[begun] <= start[begun + 1] - Len(writing)
  BY DEF Placed
<1>3. Laid(start, granted)'
  BY <1>2 DEF Laid, CutShort, FullLength, TooLong
<1>4. Len(input') = Len(input) - k /\ Holds(input', y, start)
  <2>1. input \in Seq(FrameByte)
    BY DEF IInv
  <2>2. Len(After(input, k)) = Len(input) - k /\ Holds(After(input, k), x + k, start)
    BY <1>1, <1>2, <2>1, HoldsAfter
  <2> QED
    BY <2>2
<1>5. \A t, z : Holds(t, z, start) => Holds(t, z, start)'
  BY DEF Holds
<1>6. Holds(input, y, start)'
  BY <1>4, <1>5
<1>7. y \in Nat /\ y + Len(input') = x + Len(input)
      /\ y + Len(input') + Len(socket') = x + Len(input) + Len(socket)
      /\ y + Len(input') + Len(socket') + Len(writing') = start[begun' + 1]
  BY <1>1, <1>4
<1>8. PICK a : a = x + Len(input)
  OBVIOUS
<1>9. PICK b : b = x + Len(input) + Len(socket)
  OBVIOUS
<1>10. Holds(socket, a, start)' /\ Holds(writing, b, start)'
  BY <1>2, <1>5, <1>8, <1>9
<1>11. CutShort(begun, start)' <=> CutShort(begun, start)
  BY DEF CutShort, FullLength
<1> QED
  BY <1>2, <1>3, <1>6, <1>7, <1>8, <1>9, <1>10, <1>11 DEF Placed

LEMMA NotReadyPlaced ==
  ASSUME IInv, losses \in Int, NEW start, NEW granted, NEW x, Placed(start, granted, x),
         NotReady, UNCHANGED <<client, socket, cuts>>
  PROVE  /\ losses' \in Int /\ (\E s, g, y : Placed(s, g, y)')
         /\ Stream!Idle
<1>1. x \in Nat /\ Len(input) \in Nat /\ InRange
  BY PlacedNumbers
<1>2. /\ UNCHANGED <<length, begun, packet, payload_length, arrived, losses>> /\ delivered' = 0
      /\ writing' = writing /\ socket' = socket /\ state' = state /\ input' = input
  BY DEF NotReady, client
<1>3. 0 \in 0 .. Len(input) /\ x = x + 0
  BY <1>1
<1>4. input' = After(input, 0)
  <2>1. input \in Seq(FrameByte)
    BY DEF IInv
  <2>2. After(input, 0) = input
    BY <2>1 DEF After
  <2> QED
    BY <1>2, <2>2
<1>5. state' = "NONE" => Settled(x, start, granted)'
  BY <1>1, <1>2, ReaderStays DEF Placed
<1>6. state' = "HEADER" => Promised(x, start, granted)'
  BY <1>1, <1>2, ReaderStays DEF Placed
<1>7. Placed(start, granted, x)'
  BY <1>2, <1>3, <1>4, <1>5, <1>6, TakePlaced
<1>8. Stream!Idle
  BY <1>2, StreamIdle
<1> QED
  BY <1>2, <1>7, <1>8

LEMMA OutOfStepPlaced ==
  ASSUME IInv, losses \in Int, NEW start, NEW granted, NEW x, Placed(start, granted, x),
         state = "NONE", OutOfStep, UNCHANGED <<client, socket, cuts>>
  PROVE  /\ losses' \in Int /\ (\E s, g, y : Placed(s, g, y)')
         /\ Stream!Idle
<1> USE FrameAssumption
<1>1. x \in Nat /\ Len(input) \in Nat /\ InRange /\ input \in Seq(FrameByte)
  BY PlacedNumbers DEF IInv
<1>2. /\ UNCHANGED <<length, begun, packet, payload_length, arrived, losses>> /\ delivered' = 0
      /\ writing' = writing /\ socket' = socket /\ state' = state
  BY DEF OutOfStep, client
<1>3. PICK k \in 1 .. IdLength :
       /\ First(input, k - 1) = First(MsgId, k - 1)
       /\ input[k] # MsgId[k]
       /\ input' = After(input, k)
  BY DEF OutOfStep
<1>4. IdLength + HeaderLength <= Len(input)
  BY DEF OutOfStep, Ready
<1>5. k \in 0 .. Len(input) /\ k \in 1 .. Len(input) /\ k \in Nat /\ k - 1 \in 0 .. Len(input) /\ Len(input) > 0
  BY <1>1, <1>4
<1>6. Laid(start, granted) /\ Holds(input, x, start) /\ Settled(x, start, granted)
  BY DEF Placed
<1>7. PICK y : y = x + k
  OBVIOUS
<1>8. Settled(y, start, granted)
  <2>1. CASE k = 1
    BY <1>1, <1>3, <1>5, <1>6, <1>7, <2>1, FirstByteDiffers
  <2>2. CASE k # 1
    <3>1. PICK j : j = k - 1
      OBVIOUS
    <3>2. j \in 1 .. IdLength /\ j < IdLength /\ j \in 0 .. Len(input) /\ j <= Len(input) /\ j + 1 = k /\ j \in 1 .. Len(input)
      BY <1>1, <1>4, <1>5, <2>2, <3>1
    <3>3. MsgId \in Seq(FrameByte) /\ Len(MsgId) = IdLength
      BY PartsOfFrame
    <3>4. input[j] = MsgId[j]
      <4>1. First(input, j)[j] = input[j]
        BY <1>1, <3>2 DEF First
      <4>2. First(MsgId, j)[j] = MsgId[j]
        BY <3>2, <3>3 DEF First
      <4> QED
        BY <1>3, <3>1, <4>1, <4>2
    <3>5. PICK p \in 1 .. begun : InStep(p, j, x + j, start, granted)
      BY <1>1, <1>6, <3>2, <3>4, FirstByteFits
    <3>6. PICK t : t = After(input, j)
      OBVIOUS
    <3>7. PICK z : z = x + j
      OBVIOUS
    <3>8. t \in Seq(FrameByte) /\ Len(t) = Len(input) - j /\ Holds(t, z, start) /\ z \in Nat
      BY <1>1, <1>6, <3>2, <3>6, <3>7, HoldsAfter
    <3>9. Len(t) > 0 /\ Len(t) \in Nat /\ t[1] = input[k]
      <4>1. Len(t) > 0 /\ Len(t) \in Nat
        BY <1>1, <1>4, <3>2, <3>8
      <4>2. t[1] = input[j + 1]
        BY <1>1, <3>2, <3>6, <4>1 DEF After
      <4> QED
        BY <3>2, <4>1, <4>2
    <3>10. InStep(p, j, z, start, granted) /\ t[1] # MsgId[j + 1]
      BY <1>3, <3>2, <3>5, <3>7, <3>9
    <3>11. Settled(z + 1, start, granted)
      BY <1>1, <1>6, <3>2, <3>8, <3>9, <3>10, NextByteDiffers
    <3>12. z + 1 = y
      BY <1>1, <1>7, <3>2, <3>7
    <3> QED
      BY <3>11, <3>12
  <2> QED
    BY <2>1, <2>2
<1>9. y \in Nat
  BY <1>1, <1>5, <1>7
<1>10. Settled(y, start, granted)'
  BY <1>2, <1>8, <1>9, ReaderStays
<1>11. Placed(start, granted, y)'
  <2>1. state' # "HEADER"
    BY <1>2
  <2> QED
    BY <1>2, <1>3, <1>5, <1>7, <1>10, <2>1, TakePlaced
<1>12. Stream!Idle
  BY <1>2, StreamIdle
<1> QED
  BY <1>2, <1>11, <1>12

\* After MSG_ID the reader is in step.
LEMMA IdRead ==
  ASSUME IInv, losses \in Int, NEW start, NEW granted, NEW x, Placed(start, granted, x),
         state = "NONE", IdLength + HeaderLength <= Len(input), First(input, IdLength) = MsgId
  PROVE  \E p \in 1 .. begun : InStep(p, IdLength, x + IdLength, start, granted)
<1> USE FrameAssumption
<1>1. x \in Nat /\ Len(input) \in Nat /\ InRange /\ input \in Seq(FrameByte)
  BY PlacedNumbers DEF IInv
<1>2. Laid(start, granted) /\ Holds(input, x, start) /\ Settled(x, start, granted)
  BY DEF Placed
<1>3. IdLength \in 1 .. IdLength /\ IdLength <= Len(input) /\ IdLength \in 0 .. Len(input)
  BY <1>1
<1>4. input[IdLength] = MsgId[IdLength]
  <2>1. First(input, IdLength)[IdLength] = input[IdLength]
    BY <1>1, <1>3 DEF First
  <2> QED
    BY <2>1
<1> QED
  BY <1>1, <1>2, <1>3, <1>4, FirstByteFits

LEMMA HeaderPlaced ==
  ASSUME IInv, losses \in Int, NEW start, NEW granted, NEW x, Placed(start, granted, x),
         state = "NONE", ReadHeader, UNCHANGED <<client, socket, cuts>>
  PROVE  /\ losses' \in Int /\ (\E s, g, y : Placed(s, g, y)')
         /\ Stream!Idle
<1> USE FrameAssumption
<1>1. x \in Nat /\ Len(input) \in Nat /\ InRange /\ input \in Seq(FrameByte)
  BY PlacedNumbers DEF IInv
<1>2. /\ UNCHANGED <<length, begun, arrived, losses>> /\ delivered' = 0
      /\ writing' = writing /\ socket' = socket /\ state' = "HEADER"
      /\ input' = After(input, IdLength + HeaderLength)
      /\ IdLength + HeaderLength <= Len(input) /\ First(input, IdLength) = MsgId
  BY DEF ReadHeader, Ready, client
<1>3. Laid(start, granted) /\ Holds(input, x, start)
  BY DEF Placed
<1>4. PICK p \in 1 .. begun : InStep(p, IdLength, x + IdLength, start, granted)
  BY <1>2, IdRead
<1>5. PICK t : t = After(input, IdLength)
  OBVIOUS
<1>6. PICK z : z = x + IdLength
  OBVIOUS
<1>7. IdLength \in 0 .. Len(input) /\ z \in Nat
  BY <1>1, <1>2, <1>6
<1>8. t \in Seq(FrameByte) /\ Len(t) = Len(input) - IdLength /\ Holds(t, z, start)
  BY <1>1, <1>3, <1>5, <1>6, <1>7, HoldsAfter
<1>9. Len(t) \in Nat /\ HeaderLength <= Len(t) /\ HeaderLength \in 0 .. Len(t) /\ InStep(p, IdLength, z, start, granted)
  BY <1>1, <1>2, <1>4, <1>6, <1>7, <1>8
<1>10. PICK y : y = x + (IdLength + HeaderLength)
  OBVIOUS
<1>11. y = z + HeaderLength /\ y \in Nat
  BY <1>1, <1>6, <1>10
<1>12. p \in Nat /\ \A q \in 1 .. begun : Header(q) \in Seq(FrameByte) /\ Len(Header(q)) = HeaderLength
  <2>1. \A q \in 1 .. begun : q \in Nat
    BY <1>1 DEF InRange
  <2> QED
    BY <2>1, PartsOfFrame
<1>13. Promised(y, start, granted)'
  <2>1. CASE /\ packet' \in 1 .. begun
             /\ First(t, HeaderLength) = Header(packet')
             /\ payload_length' = Least(length[packet'], MaxSize)
    <3>1. PICK q \in 1 .. begun : q = packet'
      BY <2>1
    <3>2. \A i \in 1 .. HeaderLength : t[i] = Header(q)[i]
      BY <1>8, <1>9, <1>12, <2>1, <3>1, FirstIs
    <3>3. t[HeaderLength] = Header(q)[HeaderLength]
      BY <3>2
    <3>4. InStep(q, IdLength + HeaderLength, z + HeaderLength, start, granted)
      BY <1>1, <1>3, <1>7, <1>8, <1>9, <3>3, HeaderFits
    <3>5. InStep(q, IdLength + HeaderLength, y, start, granted)'
      BY <1>2, <1>11, <3>4 DEF InStep, Entered
    <3>6. packet' # 0
      BY <1>1, <3>1 DEF InRange
    <3> QED
      BY <1>2, <2>1, <3>1, <3>5, <3>6 DEF Promised
  <2>2. CASE /\ \A q \in 1 .. begun : First(t, HeaderLength) # Header(q)
             /\ packet' = 0 /\ payload_length' \in Claimed
    <3>1. First(t, HeaderLength) # Header(p)
      BY <2>2
    <3>2. PICK i \in 1 .. HeaderLength : t[i] # Header(p)[i]
      BY <1>8, <1>9, <1>12, <3>1, FirstIs
    <3>3. PICK n \in 0 .. MaxSize : n = payload_length'
      BY <2>2 DEF Claimed
    <3>4. Confused(z + HeaderLength, n, start, granted)
      BY <1>1, <1>3, <1>7, <1>8, <1>9, <3>2, HeaderDiffers
    <3>5. Confused(y, n, start, granted)'
      BY <1>2, <1>11, <3>4 DEF Confused, Entered, CutShort, FullLength
    <3> QED
      BY <2>2, <3>3, <3>5 DEF Promised
  <2> QED
    BY <1>5, <2>1, <2>2 DEF ReadHeader
<1>14. Placed(start, granted, y)'
  <2>1. state' # "NONE" /\ IdLength + HeaderLength \in 0 .. Len(input)
    BY <1>1, <1>2
  <2> QED
    BY <1>2, <1>10, <1>13, <2>1, TakePlaced
<1>15. Stream!Idle
  BY <1>2, StreamIdle
<1> QED
  BY <1>2, <1>14, <1>15

\* What was taken for a payload is the packet's, or its frame is lost.
LEMMA PayloadRead ==
  ASSUME InRange, NEW start, NEW granted, Laid(start, granted), losses \in Int,
         NEW x \in Nat, Promised(x, start, granted),
         NEW t \in Seq(FrameByte), Holds(t, x, start),
         NEW n, n = payload_length, n <= Len(t),
         begun' = begun, length' = length
  PROVE  /\ packet # 0 /\ First(t, n) = Payload(packet, length[packet]) /\ Deliver(packet)
              => Settled(x + n, start, granted)' /\ Stream!Deliver /\ losses' \in Int
         /\ ~ (packet # 0 /\ First(t, n) = Payload(packet, length[packet]))
              => Settled(x + n, start, granted)
<1> USE FrameAssumption
<1>1. n \in Nat /\ n \in 0 .. Len(t) /\ Len(t) \in Nat
  BY DEF InRange
<1>2. ASSUME packet # 0, First(t, n) = Payload(packet, length[packet]), Deliver(packet)
      PROVE  Settled(x + n, start, granted)' /\ Stream!Deliver /\ losses' \in Int
  <2>1. InStep(packet, IdLength + HeaderLength, x, start, granted)
    BY <1>2 DEF Promised
  <2>2. PICK p \in 1 .. begun : p = packet
    BY <2>1 DEF InStep, Entered
  <2>3. /\ Entered(p, granted) /\ start[p] + (IdLength + HeaderLength) = x /\ arrived < p
        /\ losses >= p - 1 - arrived + granted[begun] - granted[p - 1]
    BY <2>1, <2>2 DEF InStep, Entered
  <2>4. p \in Nat /\ length[p] \in Nat /\ start[p] \in Nat /\ arrived \in Nat
    BY LaidNumbers
  <2>5. granted[p - 1] \in Nat /\ granted[p] \in Nat /\ granted[begun] \in Nat
        /\ granted[p - 1] <= granted[p] /\ granted[p] <= granted[begun]
    BY LaidNumbers
  <2>6. Payload(p, length[p]) \in Seq(FrameByte) /\ Len(Payload(p, length[p])) = length[p]
    BY <2>4, PartsOfFrame
  <2>7. n = length[p] /\ \A i \in 1 .. n : t[i] = Payload(p, length[p])[i]
    BY <1>1, <1>2, <2>2, <2>6, FirstIs
  <2>8. x + n <= start[p + 1]
    BY <1>1, <2>1, <2>2, <2>7, PayloadFits
  <2>9. PICK y : y = x + n
    OBVIOUS
  <2>10. y \in Nat /\ start[p] < y /\ y <= start[p + 1]
    BY <1>1, <2>3, <2>4, <2>8, <2>9
  <2>11. Deliver(p)
    BY <1>2, <2>2
  <2>12. Settled(y, start, granted)'
    BY <2>3, <2>10, <2>11, AfterDelivery
  <2>13. p - 1 - arrived <= losses
    BY <2>3, <2>4, <2>5
  <2>14. Stream!Deliver
    BY <2>3, <2>11, <2>13, StreamDeliver
  <2>15. losses' \in Int
    BY <2>4, <2>11 DEF Deliver
  <2>16. n' = n => (x + n)' = y
    BY <2>9
  <2> QED
    BY <2>9, <2>12, <2>14, <2>15
<1>3. ASSUME ~ (packet # 0 /\ First(t, n) = Payload(packet, length[packet]))
      PROVE  Settled(x + n, start, granted)
  <2>1. CASE packet = 0
    <3>1. PICK p \in 1 .. begun :
            /\ Entered(p, granted) /\ CutShort(p, start)
            /\ start[p] < x /\ x + n <= start[p + 1] + HeaderLength + MaxSize
      BY <2>1 DEF Promised, Confused
    <3>2. start[p] \in Nat
      BY LaidNumbers
    <3>3. PICK y : y = x + n
      OBVIOUS
    <3>4. y \in Nat /\ start[p] < y /\ y <= start[p + 1] + HeaderLength + MaxSize
      BY <1>1, <3>1, <3>2, <3>3
    <3> QED
      BY <3>1, <3>3, <3>4, Late
  <2>2. CASE packet # 0
    <3>1. /\ InStep(packet, IdLength + HeaderLength, x, start, granted)
          /\ n = Least(length[packet], MaxSize)
      BY <2>2 DEF Promised
    <3>2. First(t, n) # Payload(packet, length[packet])
      BY <1>3, <2>2
    <3> QED
      BY <3>1, <3>2, PayloadDiffers
  <2> QED
    BY <2>1, <2>2
<1> QED
  BY <1>2, <1>3

LEMMA PayloadPlaced ==
  ASSUME IInv, losses \in Int, NEW start, NEW granted, NEW x, Placed(start, granted, x),
         state = "HEADER", ReadPayload, UNCHANGED <<client, socket, cuts>>
  PROVE  /\ losses' \in Int /\ (\E s, g, y : Placed(s, g, y)')
         /\ Stream!Deliver \/ Stream!Idle
<1> USE FrameAssumption
<1>1. x \in Nat /\ Len(input) \in Nat /\ InRange /\ input \in Seq(FrameByte)
  BY PlacedNumbers DEF IInv
<1>2. /\ length' = length /\ begun' = begun /\ writing' = writing /\ socket' = socket
      /\ state' = "NONE" /\ input' = After(input, payload_length)
      /\ payload_length <= Len(input)
  BY DEF ReadPayload, PayloadThere, client
<1>3. Laid(start, granted) /\ Holds(input, x, start) /\ Promised(x, start, granted)
  BY DEF Placed
<1>4. PICK n : n = payload_length
  OBVIOUS
<1>5. n \in Nat /\ n \in 0 .. Len(input) /\ n <= Len(input)
  BY <1>1, <1>2, <1>4 DEF InRange
<1>6. PICK t : t = input
  OBVIOUS
<1>7. PICK y : y = x + n
  OBVIOUS
<1>8. y \in Nat
  BY <1>1, <1>5, <1>7
<1>9. t \in Seq(FrameByte) /\ Holds(t, x, start) /\ n <= Len(t)
  BY <1>1, <1>3, <1>5, <1>6
<1>10. losses' \in Int /\ Settled(y, start, granted)' /\ (Stream!Deliver \/ Stream!Idle)
  <2>1. CASE packet # 0 /\ First(input, n) = Payload(packet, length[packet])
    <3>1. Deliver(packet)
      BY <1>4, <2>1 DEF ReadPayload
    <3>2. Settled(x + n, start, granted)' /\ Stream!Deliver /\ losses' \in Int
      BY <1>1, <1>2, <1>3, <1>4, <1>6, <1>9, <2>1, <3>1, PayloadRead
    <3> QED
      BY <1>7, <3>2
  <2>2. CASE ~ (packet # 0 /\ First(input, n) = Payload(packet, length[packet]))
    <3>1. delivered' = 0 /\ arrived' = arrived /\ losses' = losses
      BY <1>4, <2>2 DEF ReadPayload
    <3>2. Settled(x + n, start, granted)
      BY <1>1, <1>2, <1>3, <1>4, <1>6, <1>9, <2>2, PayloadRead
    <3>3. Settled(y, start, granted)'
      BY <1>2, <1>7, <3>1, <3>2 DEF Settled
    <3>4. Stream!Idle
      BY <1>2, <3>1, StreamIdle
    <3> QED
      BY <3>1, <3>3, <3>4
  <2> QED
    BY <2>1, <2>2
<1>11. Placed(start, granted, y)'
  <2>1. input' = After(input, n) /\ state' # "HEADER"
    BY <1>2, <1>4
  <2> QED
    BY <1>2, <1>5, <1>7, <1>10, <2>1, TakePlaced
<1> QED
  BY <1>10, <1>11

\* Every step keeps the bytes in place and is one of the stream's.
LEMMA UpStep ==
  ASSUME UpInv, [Next]_vars
  PROVE  UpInv' /\ [Stream!Next]_(Stream!vars)
<1>1. IInv /\ losses \in Int /\ IInv'
  BY StepKeeps DEF UpInv
<1>2. PICK start, granted, x : Placed(start, granted, x)
  BY DEF UpInv
<1>3. CASE UNCHANGED vars
  <2>1. /\ UNCHANGED <<length, begun, packet, payload_length, arrived, losses>>
        /\ delivered' = delivered
        /\ input' = input /\ socket' = socket /\ writing' = writing /\ state' = state
    BY <1>3 DEF vars, client, server, ghosts
  <2>2. Placed(start, granted, x)'
    <3>1. x \in Nat /\ Len(input) \in Nat /\ input \in Seq(FrameByte)
      BY <1>1, <1>2, PlacedNumbers DEF IInv
    <3>2. input' = After(input, 0) /\ 0 \in 0 .. Len(input) /\ x = x + 0
      BY <2>1, <3>1 DEF After
    <3>3. state' = "NONE" => Settled(x, start, granted)'
      BY <1>2, <2>1, <3>1, ReaderStays DEF Placed
    <3>4. state' = "HEADER" => Promised(x, start, granted)'
      BY <1>2, <2>1, <3>1, ReaderStays DEF Placed
    <3> QED
      BY <1>1, <1>2, <2>1, <3>2, <3>3, <3>4, TakePlaced
  <2>3. UNCHANGED Stream!vars
    BY <2>1 DEF Stream!vars
  <2> QED
    BY <1>1, <2>1, <2>2, <2>3 DEF UpInv
<1>4. CASE Next
  <2>1. /\ losses' \in Int /\ (\E s, g, y : Placed(s, g, y)')
        /\ Stream!Send \/ Stream!Deliver \/ Stream!Damage \/ Stream!Idle
    <3>1. CASE write_abuffer
      BY <1>1, <1>2, <3>1, WritePlaced
    <3>2. CASE SocketWrite
      BY <1>1, <1>2, <3>2, SocketWritePlaced
    <3>3. CASE sigusr1_handler
      BY <1>1, <1>2, <3>3, CutPlaced
    <3>4. CASE poll_buffers
      BY <1>1, <1>2, <3>4, PollPlaced
    <3>5. CASE read_iobuf_abuffer
      <4>1. UNCHANGED <<client, socket, cuts>>
        BY <3>5 DEF read_iobuf_abuffer
      <4>2. CASE NotReady
        BY <1>1, <1>2, <4>1, <4>2, NotReadyPlaced
      <4>3. CASE state = "NONE" /\ OutOfStep
        BY <1>1, <1>2, <4>1, <4>3, OutOfStepPlaced
      <4>4. CASE state = "NONE" /\ ReadHeader
        BY <1>1, <1>2, <4>1, <4>4, HeaderPlaced
      <4>5. CASE state = "HEADER" /\ ReadPayload
        BY <1>1, <1>2, <4>1, <4>5, PayloadPlaced
      <4> QED
        BY <3>5, <4>2, <4>3, <4>4, <4>5 DEF read_iobuf_abuffer
    <3> QED
      BY <1>4, <3>1, <3>2, <3>3, <3>4, <3>5 DEF Next
  <2> QED
    BY <1>1, <2>1 DEF UpInv, Stream!Next
<1> QED
  BY <1>3, <1>4

\* Nothing is under way at first.
LEMMA StreamInit ==
  ASSUME Unused
  PROVE  Stream!Init
<1>1. begun = 0 /\ arrived = 0 /\ delivered = 0 /\ losses = 0
  BY DEF Unused
<1>2. [i \in 1 .. begun - arrived |-> arrived + i] = << >>
  BY <1>1
<1> QED
  BY <1>1, <1>2 DEF Stream!Init

\* The client's packets reach the main loop whole, in order and at most once,
\* and each cut costs at most MostLost of them, whatever the sizes, lengths and
\* interleavings: a step of Uplink is one of PacketStream or changes nothing of
\* it (Server/srv_abuf.c:22-68).
THEOREM UplinkInOrder == Spec => ArrivesInOrder
<1>1. Init => UpInv /\ Stream!Init
  BY InitPlaced, StreamInit DEF Init
<1>2. UpInv /\ [Next]_vars => UpInv' /\ [Stream!Next]_(Stream!vars)
  BY UpStep
<1> QED
  BY <1>1, <1>2, PTL DEF Spec, ArrivesInOrder, Stream!Spec

-----------------------------------------------------------------------------
(* Downlink: the types.                                                    *)

\* The types, the sequences that are bytes, and how much of MSG_ID has been
\* read where.
DownTyped ==
  /\ DownTypeOK
  /\ output \in Seq(FrameByte) /\ socket \in Seq(FrameByte)
  /\ reading = "select" => matched = 0
  /\ reading = "id" => matched < IdLength
  /\ reading = "header" => matched = IdLength

LEMMA DownInitTyped == DownInit => DownTyped
<1> SUFFICES ASSUME DownInit PROVE DownTyped
  OBVIOUS
<1> USE FrameAssumption, DownlinkAssumption
<1>1. socket = << >> /\ output = << >> /\ reading = "select" /\ matched = 0
  BY DEF DownInit, Unused
<1>2. InRange
  BY <1>1 DEF DownInit, Unused, InRange
<1>3. truncated \in BOOLEAN /\ damaged \in BOOLEAN
  BY Zenon DEF DownInit
<1>4. interrupts \in 0 .. Interrupts
  BY DEF DownInit
<1>5. DownTypeOK
  BY <1>1, <1>2, <1>3, <1>4 DEF DownTypeOK
<1> QED
  BY <1>1, <1>5 DEF DownTyped

LEMMA DownWriteKeeps == DownTyped /\ write_iobuf_abuffer => DownTyped'
<1> SUFFICES ASSUME DownTyped, write_iobuf_abuffer PROVE DownTyped'
  OBVIOUS
<1> USE FrameAssumption, DownlinkAssumption
<1> DEFINE frame == Frame(begun + 1, length[begun + 1])
           k == Least(Len(frame), WSize - Len(output))
<1>1. begun + 1 \in 1 .. Packets /\ begun + 1 \in Nat /\ length[begun + 1] \in Nat /\ Len(output) \in Nat
      /\ Len(output) <= WSize /\ output \in Seq(FrameByte)
  BY DEF DownTyped, DownTypeOK, InRange, write_iobuf_abuffer
<1>2. frame \in Seq(FrameByte) /\ Len(frame) \in Nat
  <2>1. /\ frame \in Seq(FrameByte)
        /\ Len(frame) = IdLength + HeaderLength + length[begun + 1]
    BY <1>1, PartsOfFrame
  <2> QED
    BY <1>1, <2>1
<1> HIDE DEF frame
<1>3. k \in 0 .. Len(frame) /\ k <= WSize - Len(output)
  BY <1>1, <1>2 DEF Least
<1>4. output' = output \o First(frame, k)
  BY DEF write_iobuf_abuffer, Written, frame
<1> HIDE DEF k
<1>5. First(frame, k) \in Seq(FrameByte) /\ Len(First(frame, k)) = k
  BY <1>2, <1>3, Parts
<1>6. output' \in Seq(FrameByte) /\ Len(output') <= WSize
  <2>1. output' \in Seq(FrameByte) /\ Len(output') = Len(output) + k
    <3> DEFINE e == First(frame, k)
    <3>1. e \in Seq(FrameByte) /\ Len(e) = k /\ output' = output \o e
      BY <1>4, <1>5
    <3> HIDE DEF e
    <3>2. output \o e \in Seq(FrameByte) /\ Len(output \o e) = Len(output) + Len(e)
      BY <1>1, <3>1, JoinedBytes
    <3> QED
      BY <3>1, <3>2
  <2> QED
    BY <1>1, <1>2, <1>3, <2>1
<1>7. begun' = begun + 1 /\ UNCHANGED <<length, socket, reader, arrived, interrupts>> /\ delivered' = 0
  BY DEF write_iobuf_abuffer
<1>8. truncated' \in BOOLEAN /\ damaged' \in BOOLEAN
  <2>1. truncated' \in BOOLEAN
    BY Zenon DEF write_iobuf_abuffer
  <2>2. damaged' \in BOOLEAN
    BY Zenon DEF write_iobuf_abuffer
  <2> QED
    BY <2>1, <2>2
<1>9. InRange'
  BY <1>1, <1>7 DEF DownTyped, DownTypeOK, InRange, reader
<1>10. DownTypeOK'
  BY <1>6, <1>7, <1>8, <1>9 DEF DownTyped, DownTypeOK, reader
<1> QED
  BY <1>6, <1>7, <1>10 DEF DownTyped, reader

LEMMA PollOutputKeeps == DownTyped /\ poll_output => DownTyped'
<1> SUFFICES ASSUME DownTyped, poll_output PROVE DownTyped'
  OBVIOUS
<1> USE FrameAssumption, DownlinkAssumption
<1>1. PICK n \in 1 .. Least(Chunk, Len(output)) :
        /\ Len(socket) + n <= SocketRoom
        /\ socket' = socket \o First(output, n)
        /\ output' = After(output, n)
  BY DEF poll_output
<1>2. socket \in Seq(FrameByte) /\ output \in Seq(FrameByte) /\ Len(output) \in Nat
  BY DEF DownTyped
<1>3. n \in 0 .. Len(output)
  BY <1>2 DEF Least
<1>4. /\ First(output, n) \in Seq(FrameByte) /\ Len(First(output, n)) = n
      /\ output' \in Seq(FrameByte) /\ Len(output') = Len(output) - n
  BY <1>1, <1>2, <1>3, Parts
<1>5. socket' \in Seq(FrameByte) /\ Len(socket') <= SocketRoom
  <2>1. socket' \in Seq(FrameByte) /\ Len(socket') = Len(socket) + n
    BY <1>1, <1>2, <1>4, JoinedBytes
  <2> QED
    BY <1>1, <2>1
<1>6. Len(output') <= WSize
  BY <1>2, <1>3, <1>4 DEF DownTyped, DownTypeOK
<1>7. UNCHANGED <<length, begun, reader, arrived, losses, truncated, damaged, interrupts>> /\ delivered' = 0
  BY DEF poll_output
<1>8. InRange'
  BY <1>5, <1>7 DEF DownTyped, DownTypeOK, InRange, reader
<1>9. truncated' \in BOOLEAN /\ damaged' \in BOOLEAN
  <2>1. truncated \in BOOLEAN /\ damaged \in BOOLEAN
    BY DEF DownTyped, DownTypeOK
  <2>2. truncated' = truncated /\ damaged' = damaged
    BY <1>7
  <2> QED
    BY <2>1, <2>2, Zenon
<1>10. DownTypeOK'
  BY <1>6, <1>7, <1>8, <1>9 DEF DownTyped, DownTypeOK, reader
<1> QED
  BY <1>4, <1>5, <1>7, <1>10 DEF DownTyped, reader

LEMMA SelectKeeps == DownTyped /\ Select => DownTyped'
<1> SUFFICES ASSUME DownTyped, Select PROVE DownTyped'
  OBVIOUS
<1> USE FrameAssumption, DownlinkAssumption
<1>1. /\ UNCHANGED <<ending, socket, matched, packet, payload_length,
                 arrived, losses, truncated, damaged, interrupts>>
      /\ delivered' = 0 /\ reading = "select" /\ reading' = "id"
  BY DEF Select
<1>2. InRange'
  BY <1>1 DEF DownTyped, DownTypeOK, InRange, ending
<1>3. DownTypeOK'
  BY <1>1, <1>2 DEF DownTyped, DownTypeOK, ending
<1> QED
  BY <1>1, <1>3 DEF DownTyped, ending

\* The client takes k bytes, or gives the packet up.
LEMMA ClientKeeps ==
  ASSUME DownTyped, UNCHANGED ending, truncated' = truncated,
         interrupts' \in 0 .. Interrupts, damaged' \in BOOLEAN,
         NEW k \in 0 .. Len(socket), socket' = After(socket, k),
         packet' \in 0 .. begun, payload_length' \in 0 .. MaxSize,
         arrived' \in 0 .. begun, delivered' \in 0 .. begun,
         \/ reading' = "select" /\ matched' = 0
         \/ reading' = "id" /\ matched' \in 0 .. IdLength /\ matched' < IdLength
         \/ reading' \in {"header", "payload"} /\ matched' = IdLength
  PROVE  DownTyped'
<1> USE FrameAssumption, DownlinkAssumption
<1>1. socket' \in Seq(FrameByte) /\ Len(socket') = Len(socket) - k
  BY Parts DEF DownTyped
<1>2. Len(socket') <= SocketRoom
  BY <1>1 DEF DownTyped, DownTypeOK, InRange
<1>3. InRange'
  BY <1>2 DEF DownTyped, DownTypeOK, InRange, ending
<1>4. truncated' \in BOOLEAN
  <2>1. truncated \in BOOLEAN
    BY DEF DownTyped, DownTypeOK
  <2> QED
    BY <2>1, Zenon
<1>5. matched' \in 0 .. IdLength /\ reading' \in {"select", "id", "header", "payload"}
  OBVIOUS
<1>6. DownTypeOK'
  BY <1>3, <1>4, <1>5 DEF DownTyped, DownTypeOK, ending
<1> QED
  BY <1>1, <1>6 DEF DownTyped, ending

LEMMA GivePacketUpKeeps ==
  ASSUME DownTyped, GivePacketUp, UNCHANGED ending, truncated' = truncated,
         interrupts' \in 0 .. Interrupts,
         NEW k \in 0 .. Len(socket), socket' = After(socket, k)
  PROVE  DownTyped'
<1> USE FrameAssumption, DownlinkAssumption
<1>1. /\ reading' = "select" /\ matched' = 0 /\ packet' = 0 /\ payload_length' = 0
      /\ delivered' = 0 /\ arrived' = arrived
  BY DEF GivePacketUp, BackToSelect
<1>2. damaged' \in BOOLEAN
  BY Zenon DEF GivePacketUp
<1>3. arrived \in 0 .. begun /\ begun \in Nat
  BY DEF DownTyped, DownTypeOK, InRange
<1>4. /\ packet' \in 0 .. begun /\ payload_length' \in 0 .. MaxSize
      /\ arrived' \in 0 .. begun /\ delivered' \in 0 .. begun
  BY <1>1, <1>3
<1> QED
  BY <1>1, <1>2, <1>4, ClientKeeps

LEMMA ReadIdKeeps == DownTyped /\ ReadId => DownTyped'
<1> SUFFICES ASSUME DownTyped, ReadId PROVE DownTyped'
  OBVIOUS
<1> USE FrameAssumption, DownlinkAssumption
<1>1. /\ UNCHANGED <<ending, arrived, losses, truncated, damaged, interrupts>> /\ delivered' = 0
      /\ reading = "id" /\ socket # << >> /\ socket' = After(socket, 1)
  BY DEF ReadId
<1>2. /\ socket \in Seq(FrameByte) /\ arrived \in 0 .. begun /\ begun \in Nat
      /\ matched \in 0 .. IdLength /\ matched < IdLength
      /\ packet \in 0 .. begun /\ payload_length \in 0 .. MaxSize /\ interrupts \in 0 .. Interrupts
  BY <1>1 DEF DownTyped, DownTypeOK, InRange
<1>3. 1 \in 0 .. Len(socket)
  BY <1>1, <1>2
<1>4. damaged' \in BOOLEAN
  <2>1. damaged \in BOOLEAN
    BY DEF DownTyped, DownTypeOK
  <2> QED
    BY <1>1, <2>1, Zenon
<1>5. arrived' \in 0 .. begun /\ delivered' \in 0 .. begun /\ interrupts' \in 0 .. Interrupts
      /\ truncated' = truncated /\ UNCHANGED ending
  BY <1>1, <1>2
<1>6. /\ packet' \in 0 .. begun /\ payload_length' \in 0 .. MaxSize
      /\ \/ reading' = "select" /\ matched' = 0
         \/ reading' = "id" /\ matched' \in 0 .. IdLength /\ matched' < IdLength
         \/ reading' \in {"header", "payload"} /\ matched' = IdLength
  <2>1. CASE NotMsgId
    BY <1>2, <2>1 DEF NotMsgId, BackToSelect
  <2>2. CASE /\ reading' = IF matched + 1 = IdLength THEN "header" ELSE "id"
             /\ matched' = matched + 1 /\ UNCHANGED <<packet, payload_length>>
    BY <1>2, <2>2
  <2> QED
    BY <2>1, <2>2 DEF ReadId
<1> QED
  BY <1>1, <1>3, <1>4, <1>5, <1>6, ClientKeeps

LEMMA ReadHeaderKeeps == DownTyped /\ ReadHeaderBytes => DownTyped'
<1> SUFFICES ASSUME DownTyped, ReadHeaderBytes PROVE DownTyped'
  OBVIOUS
<1> USE FrameAssumption, DownlinkAssumption
<1> PICK n : n = Least(HeaderLength, Len(socket))
  OBVIOUS
<1>1. /\ UNCHANGED ending /\ truncated' = truncated /\ interrupts' = interrupts
      /\ reading = "header" /\ socket' = After(socket, n)
  BY DEF ReadHeaderBytes, Unread
<1>2. /\ socket \in Seq(FrameByte) /\ arrived \in 0 .. begun /\ begun \in Nat
      /\ matched = IdLength /\ interrupts \in 0 .. Interrupts
  BY <1>1 DEF DownTyped, DownTypeOK, InRange
<1>3. n \in 0 .. Len(socket)
  BY <1>2 DEF Least
<1>4. CASE GivePacketUp
  BY <1>1, <1>2, <1>3, <1>4, GivePacketUpKeeps
<1>5. CASE /\ reading' = "payload" /\ delivered' = 0
           /\ UNCHANGED <<matched, arrived, losses, damaged>>
           /\ \/ packet' \in 1 .. begun /\ payload_length' = Least(length[packet'], MaxSize)
              \/ packet' = 0 /\ payload_length' \in 0 .. MaxSize
  <2>1. packet' \in 0 .. begun /\ payload_length' \in 0 .. MaxSize
    <3>1. CASE packet' \in 1 .. begun /\ payload_length' = Least(length[packet'], MaxSize)
      <4>1. packet' \in 1 .. Packets /\ packet' \in 0 .. begun
        BY <3>1 DEF DownTyped, DownTypeOK, InRange
      <4>2. length[packet'] \in 0 .. MaxLength
        BY <4>1 DEF DownTyped, DownTypeOK, InRange
      <4> QED
        BY <3>1, <4>1, <4>2 DEF Least
    <3>2. CASE packet' = 0 /\ payload_length' \in 0 .. MaxSize
      BY <1>2, <3>2
    <3> QED
      BY <1>5, <3>1, <3>2
  <2>2. damaged' \in BOOLEAN
    <3>1. damaged \in BOOLEAN
      BY DEF DownTyped, DownTypeOK
    <3> QED
      BY <1>5, <3>1, Zenon
  <2>3. reading' \in {"header", "payload"} /\ matched' = IdLength
        /\ arrived' \in 0 .. begun /\ delivered' \in 0 .. begun
    BY <1>2, <1>5
  <2> QED
    BY <1>1, <1>2, <1>3, <2>1, <2>2, <2>3, ClientKeeps
<1> QED
  BY <1>4, <1>5 DEF ReadHeaderBytes

LEMMA ReadPayloadKeeps == DownTyped /\ ReadPayloadBytes => DownTyped'
<1> SUFFICES ASSUME DownTyped, ReadPayloadBytes PROVE DownTyped'
  OBVIOUS
<1> USE FrameAssumption, DownlinkAssumption
<1> PICK n : n = Least(payload_length, Len(socket))
  OBVIOUS
<1>1. /\ UNCHANGED ending /\ truncated' = truncated /\ interrupts' = interrupts
      /\ reading = "payload" /\ socket' = After(socket, n)
  BY DEF ReadPayloadBytes, Unread
<1>2. /\ socket \in Seq(FrameByte) /\ arrived \in 0 .. begun /\ begun \in Nat
      /\ payload_length \in Nat /\ interrupts \in 0 .. Interrupts
      /\ packet \in 0 .. begun
  BY <1>1 DEF DownTyped, DownTypeOK, InRange
<1>3. n \in 0 .. Len(socket)
  BY <1>2 DEF Least
<1>4. CASE GivePacketUp
  BY <1>1, <1>2, <1>3, <1>4, GivePacketUpKeeps
<1>5. CASE /\ BackToSelect /\ damaged' = damaged
           /\ Deliver(packet) \/ (delivered' = 0 /\ arrived' = arrived)
  <2>1. arrived' \in 0 .. begun /\ delivered' \in 0 .. begun
    BY <1>2, <1>5 DEF Deliver
  <2>2. damaged' \in BOOLEAN
    <3>1. damaged \in BOOLEAN
      BY DEF DownTyped, DownTypeOK
    <3> QED
      BY <1>5, <3>1, Zenon
  <2>3. /\ packet' \in 0 .. begun /\ payload_length' \in 0 .. MaxSize
        /\ reading' = "select" /\ matched' = 0
    BY <1>2, <1>5 DEF BackToSelect
  <2> QED
    BY <1>1, <1>2, <1>3, <2>1, <2>2, <2>3, ClientKeeps
<1>6. CASE /\ BackToSelect /\ UNCHANGED damaged
           /\ IF Intact(n) THEN Deliver(packet)
              ELSE delivered' = 0 /\ UNCHANGED <<arrived, losses>>
  <2>1. Deliver(packet) \/ (delivered' = 0 /\ arrived' = arrived)
    <3>1. CASE Intact(n)
      BY <1>6, <3>1
    <3>2. CASE ~Intact(n)
      <4>1. delivered' = 0 /\ UNCHANGED <<arrived, losses>>
        BY <1>6, <3>2, Zenon
      <4> QED
        BY <4>1
    <3> QED
      BY <3>1, <3>2
  <2>2. damaged' = damaged
    BY <1>6
  <2> QED
    BY <1>5, <1>6, <2>1, <2>2
<1>7. \/ GivePacketUp
      \/ /\ BackToSelect /\ UNCHANGED damaged
         /\ IF Intact(n) THEN Deliver(packet)
            ELSE delivered' = 0 /\ UNCHANGED <<arrived, losses>>
  BY DEF ReadPayloadBytes
<1> QED
  BY <1>4, <1>6, <1>7

LEMMA InterruptKeeps == DownTyped /\ sigusr1_in_read => DownTyped'
<1> SUFFICES ASSUME DownTyped, sigusr1_in_read PROVE DownTyped'
  OBVIOUS
<1> USE FrameAssumption, DownlinkAssumption
<1>1. interrupts' \in 0 .. Interrupts /\ 0 \in 0 .. Len(socket)
  BY DEF DownTyped, DownTypeOK, sigusr1_in_read
<1>2. socket' = After(socket, 0)
  BY DEF DownTyped, sigusr1_in_read, After
<1> QED
  BY <1>1, <1>2, GivePacketUpKeeps DEF sigusr1_in_read

LEMMA DownStepKeeps == DownTyped /\ [DownNext]_downVars => DownTyped'
<1>1. DownTyped /\ UNCHANGED downVars => DownTyped'
  <2> SUFFICES ASSUME DownTyped, UNCHANGED downVars PROVE DownTyped'
    OBVIOUS
  <2>1. /\ UNCHANGED <<length, begun, output, socket, reading, matched, packet, payload_length>>
        /\ UNCHANGED <<arrived, delivered, truncated, damaged, interrupts>>
    BY DEF downVars, ending, reader, history
  <2>2. InRange'
    BY <2>1 DEF DownTyped, DownTypeOK, InRange
  <2>3. truncated' \in BOOLEAN /\ damaged' \in BOOLEAN
    <3>1. truncated \in BOOLEAN /\ damaged \in BOOLEAN
      BY DEF DownTyped, DownTypeOK
    <3>2. truncated' = truncated /\ damaged' = damaged
      BY <2>1
    <3> QED
      BY <3>1, <3>2, Zenon
  <2>4. DownTypeOK'
    BY <2>1, <2>2, <2>3 DEF DownTyped, DownTypeOK
  <2> QED
    BY <2>1, <2>4 DEF DownTyped
<1> QED
  BY <1>1, DownWriteKeeps, PollOutputKeeps, SelectKeeps, ReadIdKeeps, ReadHeaderKeeps,
     ReadPayloadKeeps, InterruptKeeps DEF DownNext, read_abuffer

\* Lengths, counts and the client's state stay in their ranges, whatever is
\* sent, truncated or interrupted (Client/abufcli.c:24-68).
THEOREM DownlinkTypeCorrect == DownSpec => []DownTypeOK
<1>1. DownTyped => DownTypeOK
  BY DEF DownTyped
<1> QED
  BY <1>1, DownInitTyped, DownStepKeeps, PTL DEF DownSpec

-----------------------------------------------------------------------------
(* Downlink: where the bytes on the pipe come from.                        *)

\* The client has taken x bytes; the kernel and the fifo have the others.
DownPlaced(start, granted, x) ==
  /\ x \in Nat /\ Laid(start, granted)
  /\ Holds(socket, x, start)
  /\ Holds(output, x + Len(socket), start)
  /\ x + Len(socket) + Len(output) = start[begun + 1]
  /\ reading \in {"select", "id"} /\ matched = 0 => Settled(x, start, granted)
  /\ reading \in {"id", "header"} /\ matched # 0 =>
       \E p \in 1 .. begun : InStep(p, matched, x, start, granted)
  /\ reading = "payload" => Promised(x, start, granted)

DownInv ==
  /\ DownTyped /\ losses \in Int
  /\ \E start, granted, x : DownPlaced(start, granted, x)

LEMMA DownPlacedNumbers ==
  ASSUME DownTyped, NEW start, NEW granted, NEW x, DownPlaced(start, granted, x)
  PROVE  /\ x \in Nat /\ Len(socket) \in Nat /\ Len(output) \in Nat
         /\ InRange /\ start[begun + 1] \in Nat
         /\ x + Len(socket) + Len(output) = start[begun + 1]
         /\ x + Len(socket) <= start[begun + 1] /\ x <= start[begun + 1]
<1>1. Len(socket) \in Nat /\ Len(output) \in Nat
  BY DEF DownTyped
<1>2. InRange
  BY DEF DownTyped, DownTypeOK
<1>3. x \in Nat /\ Laid(start, granted) /\ x + Len(socket) + Len(output) = start[begun + 1]
  BY DEF DownPlaced
<1>4. start[begun + 1] \in Nat
  BY <1>2, <1>3, EndOfLaid
<1> QED
  BY <1>1, <1>2, <1>3, <1>4

LEMMA DownInitPlaced == DownInit => DownInv
<1> SUFFICES ASSUME DownInit PROVE DownInv
  OBVIOUS
<1>1. /\ socket = << >> /\ output = << >> /\ reading = "select" /\ losses = 0 /\ Unused /\ matched = 0
  BY DEF DownInit, Unused
<1>2. PICK start, granted :
        /\ Laid(start, granted) /\ Settled(0, start, granted)
        /\ Holds(<< >>, 0, start) /\ start[begun + 1] = 0
  BY <1>1, NothingLaid
<1>3. Len(socket) = 0 /\ Len(output) = 0
  BY <1>1
<1>4. 0 + Len(socket) = 0 /\ 0 + Len(socket) + Len(output) = start[begun + 1]
  BY <1>2, <1>3
<1>5. DownPlaced(start, granted, 0)
  BY <1>1, <1>2, <1>4 DEF DownPlaced
<1> QED
  BY <1>1, <1>5, DownInitTyped DEF DownInv

\* A loss more never hurts.
LEMMA SettledStill ==
  ASSUME InRange, NEW start, NEW granted, Laid(start, granted), losses \in Int,
         NEW x \in Nat, Settled(x, start, granted),
         begun' = begun, arrived' = arrived, losses' \in Int, losses <= losses'
  PROVE  Settled(x, start, granted)'
<1>1. granted[begun] \in Nat /\ granted[0] \in Nat
  BY EndOfLaid
<1>2. ASSUME NEW c \in 1 .. begun, start[c] < x, x <= start[c + 1]
      PROVE  arrived' <= c /\ losses' >= c - arrived' + granted[begun'] - granted[c]
  <2>1. c \in Nat /\ arrived \in Nat /\ granted[c] \in Nat
    BY LaidNumbers
  <2>2. arrived <= c /\ losses >= c - arrived + granted[begun] - granted[c]
    BY <1>2 DEF Settled
  <2> QED
    BY <1>1, <2>1, <2>2
<1>3. x = 0 => arrived' = 0 /\ losses' >= granted[begun'] - granted[0]
  <2>1. x = 0 => arrived = 0 /\ losses >= granted[begun] - granted[0]
    BY DEF Settled
  <2> QED
    BY <1>1, <2>1
<1> QED
  BY <1>2, <1>3 DEF Settled

\* A packet given up is one loss more.
LEMMA GivenUpHere ==
  ASSUME InRange, NEW start, NEW granted, Laid(start, granted), losses \in Int,
         NEW p, Entered(p, granted), NEW y \in Nat, start[p] < y,
         \/ y <= start[p + 1]
         \/ CutShort(p, start) /\ y <= start[p + 1] + HeaderLength + MaxSize,
         begun' = begun, length' = length, arrived' = arrived, losses' = losses + 1
  PROVE  Settled(y, start, granted)'
<1>1. CASE CutShort(p, start) /\ y <= start[p + 1] + HeaderLength + MaxSize
  <2>1. Settled(y, start, granted)
    BY <1>1, Late
  <2> QED
    BY <2>1, SettledStill
<1>2. CASE y <= start[p + 1]
  <2>1. p \in 1 .. begun /\ arrived < p
        /\ losses >= p - 1 - arrived + granted[begun] - granted[p - 1]
    BY DEF Entered
  <2>2. p \in Nat /\ arrived \in Nat /\ start[p] \in Nat
    BY <2>1, LaidNumbers
  <2>3. /\ granted[p - 1] \in Nat /\ granted[p] \in Nat /\ granted[begun] \in Nat
        /\ granted[p - 1] <= granted[p]
    BY <2>1, LaidNumbers
  <2>4. losses' >= p - arrived' + granted[begun] - granted[p] /\ arrived' <= p /\ y # 0
    BY <2>1, <2>2, <2>3
  <2>5. ASSUME NEW c \in 1 .. begun, start[c] < y, y <= start[c + 1] PROVE c = p
    BY <1>2, <2>1, <2>5, OneFrame
  <2> QED
    BY <2>4, <2>5 DEF Settled
<1> QED
  BY <1>1, <1>2

\* In step, and given up within the header or the payload.
LEMMA GivenUpWithin ==
  ASSUME InRange, NEW start, NEW granted, Laid(start, granted), losses \in Int,
         NEW x \in Nat, NEW p, NEW j \in Nat, j > 0, InStep(p, j, x, start, granted),
         NEW n \in Nat,
         \/ n = 0
         \/ j + n < FullLength(p) /\ n <= HeaderLength + MaxSize,
         begun' = begun, length' = length, arrived' = arrived, losses' = losses + 1
  PROVE  Settled(x + n, start, granted)'
<1>1. Entered(p, granted) /\ start[p] + j = x /\ x <= start[p + 1] /\ p \in 1 .. begun
  BY DEF InStep, Entered
<1>2. /\ start[p] \in Nat /\ start[p + 1] \in Nat /\ FullLength(p) \in Nat
  BY <1>1, LaidNumbers
<1>3. PICK y : y = x + n
  OBVIOUS
<1>4. y \in Nat /\ start[p] < y
  BY <1>1, <1>2, <1>3
<1>5. \/ y <= start[p + 1]
      \/ CutShort(p, start) /\ y <= start[p + 1] + HeaderLength + MaxSize
  <2>1. CASE n = 0
    BY <1>1, <1>3, <2>1
  <2>2. CASE j + n < FullLength(p) /\ n <= HeaderLength + MaxSize
    <3>1. y < start[p] + FullLength(p)
      BY <1>1, <1>2, <1>3, <2>2
    <3>2. ~ (y <= start[p + 1]) => start[p + 1] < start[p] + FullLength(p)
      BY <1>2, <1>4, <3>1
    <3>3. y <= start[p + 1] + HeaderLength + MaxSize
      BY <1>1, <1>2, <1>3, <2>2, FrameAssumption
    <3> QED
      BY <3>2, <3>3 DEF CutShort
  <2> QED
    BY <2>1, <2>2
<1>6. Settled(y, start, granted)'
  BY <1>1, <1>4, <1>5, GivenUpHere
<1> QED
  BY <1>3, <1>6

\* Where the client is does not depend on who holds the bytes.
LEMMA ClientStays ==
  ASSUME NEW start, NEW granted, NEW x, DownPlaced(start, granted, x),
         UNCHANGED <<length, begun, reading, matched, packet, payload_length, arrived, losses>>
  PROVE  /\ (reading \in {"select", "id"} /\ matched = 0 => Settled(x, start, granted))'
         /\ (reading \in {"id", "header"} /\ matched # 0 =>
               \E p \in 1 .. begun : InStep(p, matched, x, start, granted))'
         /\ (reading = "payload" => Promised(x, start, granted))'
         /\ Laid(start, granted)'
         /\ \A t, y : Holds(t, y, start) => Holds(t, y, start)'
<1>1. x \in Nat /\ Laid(start, granted)
  BY DEF DownPlaced
<1>2. /\ Settled(x, start, granted) => Settled(x, start, granted)'
      /\ Promised(x, start, granted) => Promised(x, start, granted)'
      /\ Laid(start, granted) => Laid(start, granted)'
      /\ \A t, y : Holds(t, y, start) => Holds(t, y, start)'
      /\ \A p, j : InStep(p, j, x, start, granted) => InStep(p, j, x, start, granted)'
  BY <1>1, ReaderStays
<1>3. (reading \in {"select", "id"} /\ matched = 0 => Settled(x, start, granted))'
  BY <1>2 DEF DownPlaced
<1>4. (reading = "payload" => Promised(x, start, granted))'
  BY <1>2 DEF DownPlaced
<1>5. (reading \in {"id", "header"} /\ matched # 0 =>
               \E p \in 1 .. begun : InStep(p, matched, x, start, granted))'
  <2> SUFFICES ASSUME reading \in {"id", "header"}, matched # 0
               PROVE  \E p \in 1 .. begun : InStep(p, matched, x, start, granted)'
    BY DEF InStep, Entered
  <2>1. PICK p \in 1 .. begun : InStep(p, matched, x, start, granted)
    BY DEF DownPlaced
  <2> QED
    BY <1>2, <2>1
<1> QED
  BY <1>1, <1>2, <1>3, <1>4, <1>5

\* The client takes k bytes.
LEMMA DownTake ==
  ASSUME DownTyped, NEW start, NEW granted, NEW x, DownPlaced(start, granted, x),
         NEW k \in 0 .. Len(socket), socket' = After(socket, k),
         length' = length, begun' = begun, output' = output,
         NEW y, y = x + k,
         (reading \in {"select", "id"} /\ matched = 0 => Settled(y, start, granted))',
         (reading \in {"id", "header"} /\ matched # 0 =>
               \E p \in 1 .. begun : InStep(p, matched, y, start, granted))',
         (reading = "payload" => Promised(y, start, granted))'
  PROVE  DownPlaced(start, granted, y)'
<1>1. /\ x \in Nat /\ Len(socket) \in Nat /\ Len(output) \in Nat
      /\ InRange /\ start[begun + 1] \in Nat
      /\ x + Len(socket) + Len(output) = start[begun + 1]
  BY DownPlacedNumbers
<1>2. Laid(start, granted) /\ Holds(socket, x, start) /\ Holds(output, x + Len(socket), start)
  BY DEF DownPlaced
<1>3. Laid(start, granted)'
  BY <1>2 DEF Laid, CutShort, FullLength, TooLong
<1>4. Len(socket') = Len(socket) - k /\ Holds(socket', y, start)
  <2>1. socket \in Seq(FrameByte)
    BY DEF DownTyped
  <2> QED
    BY <1>1, <1>2, <2>1, HoldsAfter
<1>5. \A t, z : Holds(t, z, start) => Holds(t, z, start)'
  BY DEF Holds
<1>6. Holds(socket, y, start)'
  BY <1>4, <1>5
<1>7. y \in Nat /\ y + Len(socket') = x + Len(socket)
      /\ y + Len(socket') + Len(output') = start[begun' + 1]
  BY <1>1, <1>4
<1>8. PICK a : a = x + Len(socket)
  OBVIOUS
<1>9. Holds(output, a, start)'
  BY <1>2, <1>5, <1>8
<1> QED
  BY <1>3, <1>6, <1>7, <1>8, <1>9 DEF DownPlaced

LEMMA PollOutputPlaced ==
  ASSUME DownTyped, losses \in Int, NEW start, NEW granted, NEW x, DownPlaced(start, granted, x),
         poll_output
  PROVE  /\ losses' \in Int /\ (\E s, g, y : DownPlaced(s, g, y)')
         /\ Stream!Idle
<1>1. /\ x \in Nat /\ Len(socket) \in Nat /\ Len(output) \in Nat
      /\ InRange /\ start[begun + 1] \in Nat
      /\ x + Len(socket) + Len(output) = start[begun + 1]
  BY DownPlacedNumbers
<1>2. PICK n \in 1 .. Least(Chunk, Len(output)) :
        socket' = socket \o First(output, n) /\ output' = After(output, n)
  BY DEF poll_output
<1>3. /\ UNCHANGED <<length, begun, reading, matched, packet, payload_length, arrived, losses>>
      /\ delivered' = 0
  BY DEF poll_output, reader
<1>4. n \in 0 .. Len(output) /\ n \in Nat
  BY <1>1, DownlinkAssumption DEF Least
<1>5. /\ Laid(start, granted) /\ Holds(socket, x, start) /\ Holds(output, x + Len(socket), start)
  BY DEF DownPlaced
<1>6. PICK y \in Nat : y = x + Len(socket)
  BY <1>1
<1>7. socket \in Seq(FrameByte) /\ output \in Seq(FrameByte)
  BY DEF DownTyped
<1>8. Holds(output, y, start)
  BY <1>5, <1>6
<1>9. /\ First(output, n) \in Seq(FrameByte) /\ Len(First(output, n)) = n
      /\ Holds(First(output, n), y, start)
  BY <1>1, <1>4, <1>5, <1>7, <1>8, HoldsFirst
<1>10. Len(output') = Len(output) - n /\ Holds(output', y + n, start)
  <2>1. /\ After(output, n) \in Seq(FrameByte) /\ Len(After(output, n)) = Len(output) - n
        /\ Holds(After(output, n), y + n, start)
    BY <1>1, <1>4, <1>5, <1>7, <1>8, HoldsAfter
  <2> QED
    BY <1>2, <2>1
<1>11. Len(socket') = Len(socket) + n /\ Holds(socket', x, start)
  <2>1. PICK f : f = First(output, n)
    OBVIOUS
  <2>2. f \in Seq(FrameByte) /\ Len(f) = n
    BY <1>9, <2>1
  <2>3. Len(socket \o f) = Len(socket) + Len(f)
    BY <1>7, <2>2, JoinedBytes
  <2>4. Holds(f, y, start)
    BY <1>9, <2>1
  <2>5. Holds(socket \o f, x, start)
    BY <1>1, <1>5, <1>6, <1>7, <2>2, <2>4, HoldsJoined
  <2> QED
    BY <1>2, <2>1, <2>2, <2>3, <2>5
<1>12. Laid(start, granted)' /\ Holds(socket, x, start)' /\ Holds(output, y + n, start)'
  BY <1>3, <1>10, <1>11, ClientStays
<1>13. DownPlaced(start, granted, x)'
  <2>1. /\ y + n = x + Len(socket') /\ x + Len(socket') + Len(output') = start[begun' + 1]
    BY <1>1, <1>3, <1>4, <1>6, <1>10, <1>11
  <2>2. /\ (reading \in {"select", "id"} /\ matched = 0 => Settled(x, start, granted))'
        /\ (reading \in {"id", "header"} /\ matched # 0 =>
               \E p \in 1 .. begun : InStep(p, matched, x, start, granted))'
        /\ (reading = "payload" => Promised(x, start, granted))'
    BY <1>3, ClientStays
  <2> QED
    BY <1>1, <1>12, <2>1, <2>2 DEF DownPlaced
<1>14. Stream!Idle
  BY <1>3, StreamIdle
<1> QED
  BY <1>3, <1>13, <1>14

LEMMA SelectPlaced ==
  ASSUME DownTyped, losses \in Int, NEW start, NEW granted, NEW x, DownPlaced(start, granted, x),
         Select
  PROVE  /\ losses' \in Int /\ (\E s, g, y : DownPlaced(s, g, y)')
         /\ Stream!Idle
<1>1. x \in Nat /\ Len(socket) \in Nat /\ InRange /\ socket \in Seq(FrameByte)
  BY DownPlacedNumbers DEF DownTyped
<1>2. /\ UNCHANGED <<length, begun, output, socket, matched, packet, payload_length, arrived, losses>>
      /\ delivered' = 0 /\ reading = "select" /\ reading' = "id" /\ matched = 0
  BY DEF Select, ending, DownTyped
<1>3. socket' = After(socket, 0) /\ 0 \in 0 .. Len(socket) /\ x = x + 0
  BY <1>1, <1>2 DEF After
<1>4. Settled(x, start, granted)
  BY <1>2 DEF DownPlaced
<1>5. Settled(x, start, granted)'
  BY <1>2, <1>4 DEF Settled
<1>6. DownPlaced(start, granted, x)'
  <2>1. (reading \in {"id", "header"} /\ matched # 0 =>
               \E p \in 1 .. begun : InStep(p, matched, x, start, granted))'
    BY <1>2
  <2>2. (reading = "payload" => Promised(x, start, granted))'
    BY <1>2
  <2> QED
    BY <1>2, <1>3, <1>5, <2>1, <2>2, DownTake
<1>7. Stream!Idle
  BY <1>2, StreamIdle
<1> QED
  BY <1>2, <1>6, <1>7

\* The packet is given up after n more bytes.
LEMMA GiveUpPlaced ==
  ASSUME DownTyped, losses \in Int, NEW start, NEW granted, NEW x, DownPlaced(start, granted, x),
         NEW n \in 0 .. Len(socket), socket' = After(socket, n),
         GivePacketUp, UNCHANGED ending,
         Settled(x + n, start, granted)'
  PROVE  /\ losses' \in Int /\ (\E s, g, y : DownPlaced(s, g, y)')
         /\ Stream!Damage
<1>1. /\ length' = length /\ begun' = begun /\ output' = output /\ arrived' = arrived /\ delivered' = 0
      /\ losses' = losses + 1 /\ reading' = "select" /\ matched' = 0
  BY DEF GivePacketUp, BackToSelect, ending
<1>2. PICK y : y = x + n
  OBVIOUS
<1>3. Settled(y, start, granted)'
  BY <1>2
<1>4. DownPlaced(start, granted, y)'
  <2>1. (reading \in {"id", "header"} /\ matched # 0 =>
               \E p \in 1 .. begun : InStep(p, matched, y, start, granted))'
    BY <1>1
  <2>2. (reading = "payload" => Promised(y, start, granted))'
    BY <1>1
  <2> QED
    BY <1>1, <1>2, <1>3, <2>1, <2>2, DownTake
<1>5. Stream!Damage
  <2>1. 1 \in Nat /\ 0 < 1 /\ 1 <= MostLost
    BY MostLostIsNat
  <2> QED
    BY <1>1, <2>1, StreamDamage
<1> QED
  BY <1>1, <1>4, <1>5

LEMMA WriteIobufPlaced ==
  ASSUME DownTyped, losses \in Int, NEW start, NEW granted, NEW x, DownPlaced(start, granted, x),
         write_iobuf_abuffer
  PROVE  /\ losses' \in Int /\ (\E s, g, y : DownPlaced(s, g, y)')
         /\ Stream!Send
<1>1. /\ x \in Nat /\ Len(socket) \in Nat /\ Len(output) \in Nat
      /\ InRange /\ start[begun + 1] \in Nat
      /\ x + Len(socket) + Len(output) = start[begun + 1]
  BY DownPlacedNumbers
<1>2. /\ begun' = begun + 1 /\ length' = length /\ delivered' = 0
      /\ socket' = socket /\ arrived' = arrived /\ reading' = reading /\ matched' = matched
      /\ packet' = packet /\ payload_length' = payload_length
  BY DEF write_iobuf_abuffer, reader
<1>3. begun \in Nat /\ begun + 1 \in 1 .. Packets /\ begun + 1 \in Nat /\ length[begun + 1] \in Nat
  BY <1>1, FrameAssumption DEF InRange, write_iobuf_abuffer
<1> PICK w : w = Frame(begun + 1, length[begun + 1])
  OBVIOUS
<1>4. /\ w \in Seq(FrameByte) /\ Len(w) = FullLength(begun + 1) /\ FullLength(begun + 1) \in Nat
      /\ FullLength(begun + 1) = IdLength + HeaderLength + length[begun + 1]
      /\ FullLength(begun + 1) > 0
  <2>1. /\ w \in Seq(FrameByte) /\ Len(w) = IdLength + HeaderLength + length[begun + 1]
    BY <1>3, PartsOfFrame
  <2> QED
    BY <1>3, <2>1, FrameAssumption DEF FullLength
<1>5. output \in Seq(FrameByte) /\ Len(output) <= WSize /\ Len(output) \in Nat
  BY <1>1 DEF DownTyped, DownTypeOK
<1> PICK l : l = Least(Len(w), WSize - Len(output))
  OBVIOUS
<1> DEFINE fits == Len(output) + Len(w) <= WSize
<1>6. /\ l \in Nat /\ l \in 0 .. Len(w) /\ l <= FullLength(begun + 1)
      /\ l < FullLength(begun + 1) => ~fits
  BY <1>4, <1>5, DownlinkAssumption DEF Least
<1> PICK G : G = IF ~fits THEN MostLost ELSE IF TooLong(begun + 1) THEN 1 ELSE 0
  OBVIOUS
<1>7. /\ output' = output \o First(w, l)
      /\ losses' = losses + G
  BY DEF write_iobuf_abuffer, Written
<1>8. /\ G \in Nat /\ G <= MostLost /\ (TooLong(begun + 1) => G >= 1)
      /\ ~fits => G >= MostLost
  BY MostLostIsNat
<1> HIDE DEF fits
<1>9. Laid(start, granted) /\ Holds(socket, x, start) /\ Holds(output, x + Len(socket), start)
  BY DEF DownPlaced
<1>11. PICK S2, G2 :
         /\ Laid(S2, G2)'
         /\ S2[begun + 2] = start[begun + 1] + l /\ G2[begun + 1] = granted[begun] + G
         /\ \A p \in 1 .. begun + 1 : S2[p] = start[p]
         /\ \A p \in 0 .. begun : G2[p] = granted[p]
  <2>1. InRange /\ Laid(start, granted)
    BY <1>1, <1>9
  <2>2. begun' = begun + 1 /\ length' = length /\ begun + 1 \in 1 .. Packets
    BY <1>2, <1>3
  <2>3. l \in Nat /\ l <= FullLength(begun + 1)
    BY <1>6
  <2>4. l < FullLength(begun + 1) => G >= MostLost
    BY <1>6, <1>8
  <2>5. G \in Nat /\ (TooLong(begun + 1) => G >= 1)
    BY <1>8
  <2> QED
    BY <2>1, <2>2, <2>3, <2>4, <2>5, LaidExtended
<1>12. S2[begun + 2] \in Nat /\ start[begun + 1] <= S2[begun + 2]
  BY <1>1, <1>6, <1>11
<1>13. Holds(socket, x, S2)'
  BY <1>1, <1>2, <1>3, <1>9, <1>11, <1>12, HoldsExtended
<1>14. PICK y \in Nat : y = x + Len(socket)
  BY <1>1
<1>15. PICK z \in Nat : z = start[begun + 1]
  BY <1>1
<1>16. z = y + Len(output)
  BY <1>1, <1>14, <1>15
<1>17. PICK f : f = First(w, l)
  OBVIOUS
<1>18. f \in Seq(FrameByte) /\ Len(f) = l /\ \A i \in 1 .. Len(f) : f[i] = w[i]
  <2>1. /\ First(w, l) \in Seq(FrameByte) /\ Len(First(w, l)) = l
    BY <1>4, <1>6, Parts
  <2>2. \A i \in 1 .. l : First(w, l)[i] = w[i]
    BY <1>4, <1>6 DEF First
  <2> QED
    BY <1>17, <2>1, <2>2
<1>19. Holds(f, z, S2)'
  <2>1. Len(f) \in Nat /\ S2[begun + 2] = z + Len(f)
    BY <1>6, <1>11, <1>15, <1>18
  <2>2. \A i \in 1 .. Len(f) : f[i] = Frame(begun + 1, length[begun + 1])[i]
    BY <1>18
  <2> QED
    BY <1>1, <1>2, <1>9, <1>11, <1>15, <2>1, <2>2, HoldsWritten
<1>20. PICK o : o = output
  OBVIOUS
<1>21. Holds(o, y, S2)'
  <2>1. Holds(o, y, start) /\ Len(o) \in Nat
    BY <1>5, <1>9, <1>14, <1>20
  <2> QED
    BY <1>1, <1>2, <1>3, <1>11, <1>12, <2>1, HoldsExtended
<1>23. Len(output') = Len(output) + l /\ Holds(output, y, S2)'
  <2>1. o \in Seq(FrameByte) /\ z = y + Len(o)
    BY <1>5, <1>16, <1>20
  <2>2. Len(o \o f) = Len(o) + Len(f)
    BY <1>18, <2>1, JoinedBytes
  <2>3. PICK n : n = begun'
    OBVIOUS
  <2>4. PICK L : L = length'
    OBVIOUS
  <2>5. n \in Nat /\ S2[n + 1] \in Nat /\ \A p \in 1 .. n : S2[p] \in Nat
    <3>1. n \in Nat
      BY <1>2, <1>3, <2>3
    <3>2. S2 \in [Nat -> Nat]
      BY <1>11 DEF Laid
    <3>3. n + 1 \in Nat /\ \A p \in 1 .. n : p \in Nat
      BY <3>1
    <3>4. S2[n + 1] \in Nat
      BY <3>2, <3>3
    <3>5. \A p \in 1 .. n : S2[p] \in Nat
      BY <3>2, <3>3
    <3> QED
      BY <3>1, <3>4, <3>5
  <2>6. z + Len(f) <= S2[n + 1] /\ Stands(o, y, S2, n, L) /\ Stands(f, z, S2, n, L)
    BY <1>19, <1>21, <2>3, <2>4 DEF Holds, Stands
  <2>7. Stands(o \o f, y, S2, n, L)
    BY <1>18, <2>1, <2>5, <2>6, BytesJoined
  <2>8. y + Len(o \o f) <= S2[n + 1]
    BY <1>6, <1>14, <1>16, <1>18, <1>20, <2>1, <2>2, <2>5, <2>6
  <2>9. Holds(o \o f, y, S2)'
    BY <2>3, <2>4, <2>7, <2>8 DEF Holds, Stands
  <2>10. output' = o \o f
    BY <1>7, <1>17, <1>20
  <2>11. Len(output') = Len(output) + l
    BY <1>18, <1>20, <2>2, <2>10
  <2> QED
    BY <2>9, <2>10, <2>11
<1>24. /\ x <= start[begun + 1] /\ Settled(x, start, granted) => Settled(x, S2, G2)'
       /\ \A p, j : InStep(p, j, x, start, granted) => InStep(p, j, x, S2, G2)'
       /\ Promised(x, start, granted) => Promised(x, S2, G2)'
  BY <1>1, <1>2, <1>7, <1>8, <1>9, <1>11, ReaderExtended
<1>25. DownPlaced(S2, G2, x)'
  <2>1. y = x + Len(socket')
    BY <1>2, <1>14
  <2>2. x + Len(socket') + Len(output') = S2[begun' + 1]
    <3>1. begun' + 1 = begun + 2
      BY <1>2, <1>3
    <3>2. x + Len(socket') + Len(output') = z + l
      BY <1>1, <1>2, <1>6, <1>15, <1>23
    <3> QED
      BY <1>11, <1>15, <3>1, <3>2
  <2>3. (reading \in {"select", "id"} /\ matched = 0 => Settled(x, S2, G2))'
    BY <1>1, <1>2, <1>24 DEF DownPlaced
  <2>4. (reading \in {"id", "header"} /\ matched # 0 =>
               \E p \in 1 .. begun : InStep(p, matched, x, S2, G2))'
    <3> SUFFICES ASSUME reading \in {"id", "header"}, matched # 0
                 PROVE  \E p \in 1 .. begun' : InStep(p, matched, x, S2, G2)'
      BY <1>2
    <3>1. PICK p \in 1 .. begun : InStep(p, matched, x, start, granted)
      BY DEF DownPlaced
    <3>2. InStep(p, matched, x, S2, G2)'
      <4>1. PICK j : j = matched
        OBVIOUS
      <4>2. InStep(p, j, x, S2, G2)'
        BY <1>24, <3>1, <4>1
      <4> QED
        BY <1>2, <4>1, <4>2
    <3>3. p \in 1 .. begun'
      BY <1>2, <1>3
    <3> QED
      BY <3>2, <3>3
  <2>5. (reading = "payload" => Promised(x, S2, G2))'
    BY <1>2, <1>24 DEF DownPlaced
  <2> QED
    BY <1>1, <1>11, <1>13, <1>23, <2>1, <2>2, <2>3, <2>4, <2>5 DEF DownPlaced
<1>26. Stream!Send
  BY <1>1, <1>2, <1>7, <1>8, StreamSend
<1>27. losses' \in Int
  BY <1>7, <1>8
<1> QED
  BY <1>25, <1>26, <1>27

LEMMA ReadIdPlaced ==
  ASSUME DownTyped, losses \in Int, NEW start, NEW granted, NEW x, DownPlaced(start, granted, x),
         ReadId
  PROVE  /\ losses' \in Int /\ (\E s, g, y : DownPlaced(s, g, y)')
         /\ Stream!Idle
<1> USE FrameAssumption
<1>1. /\ UNCHANGED <<length, begun, output, arrived, losses>> /\ delivered' = 0
      /\ reading = "id" /\ socket # << >> /\ socket' = After(socket, 1)
  BY DEF ReadId, ending
<1>2. x \in Nat /\ Len(socket) \in Nat /\ InRange /\ socket \in Seq(FrameByte)
      /\ matched \in 0 .. IdLength /\ matched < IdLength /\ matched \in Nat
  BY <1>1, DownPlacedNumbers DEF DownTyped, DownTypeOK
<1>3. PICK t : t = socket
  OBVIOUS
<1>4. Len(t) > 0 /\ Len(t) \in Nat /\ 1 \in 0 .. Len(socket) /\ 1 \in 1 .. Len(t) /\ 1 \in 1 .. IdLength
  BY <1>1, <1>2, <1>3
<1>5. Laid(start, granted) /\ Holds(t, x, start)
  BY <1>3 DEF DownPlaced
<1>6. PICK j : j = matched
  OBVIOUS
<1>7. j = 0 => Settled(x, start, granted)
  BY <1>1, <1>6 DEF DownPlaced
<1>8. j # 0 => \E p \in 1 .. begun : InStep(p, j, x, start, granted)
  BY <1>1, <1>6 DEF DownPlaced
<1>9. PICK y : y = x + 1
  OBVIOUS
<1>10. y \in Nat
  BY <1>2, <1>9
<1>11. ASSUME t[1] # MsgId[j + 1] PROVE Settled(y, start, granted)
  <2>1. CASE j = 0
    <3>1. t[1] # MsgId[1]
      BY <1>11, <2>1
    <3> QED
      BY <1>2, <1>4, <1>5, <1>7, <1>9, <2>1, <3>1, FirstByteDiffers
  <2>2. CASE j # 0
    <3>1. PICK p \in 1 .. begun : InStep(p, j, x, start, granted)
      BY <1>8, <2>2
    <3>2. j \in 1 .. IdLength /\ j < IdLength
      BY <1>2, <1>6, <2>2
    <3> QED
      BY <1>2, <1>4, <1>5, <1>9, <1>11, <3>1, <3>2, NextByteDiffers
  <2> QED
    BY <2>1, <2>2
<1>12. ASSUME t[1] = MsgId[j + 1] PROVE \E p \in 1 .. begun : InStep(p, j + 1, y, start, granted)
  <2>1. CASE j = 0
    <3>1. t[1] = MsgId[1]
      BY <1>12, <2>1
    <3>2. PICK p \in 1 .. begun : InStep(p, 1, x + 1, start, granted)
      BY <1>2, <1>4, <1>5, <1>7, <2>1, <3>1, FirstByteFits
    <3>3. j + 1 = 1
      BY <2>1
    <3> QED
      BY <1>9, <3>2, <3>3
  <2>2. CASE j # 0
    <3>1. PICK p \in 1 .. begun : InStep(p, j, x, start, granted)
      BY <1>8, <2>2
    <3>2. j \in 1 .. IdLength /\ j < IdLength
      BY <1>2, <1>6, <2>2
    <3>3. InStep(p, j + 1, x + 1, start, granted)
      BY <1>2, <1>4, <1>5, <1>12, <3>1, <3>2, NextByteFits
    <3> QED
      BY <1>9, <3>3
  <2> QED
    BY <2>1, <2>2
<1>13. DownPlaced(start, granted, y)'
  <2>1. CASE socket[1] # MsgId[matched + 1] /\ NotMsgId
    <3>1. reading' = "select" /\ matched' = 0
      BY <2>1 DEF NotMsgId, BackToSelect
    <3>2. Settled(y, start, granted)
      BY <1>3, <1>6, <1>11, <2>1
    <3>3. Settled(y, start, granted)'
      BY <1>1, <3>2 DEF Settled
    <3>4. (reading \in {"id", "header"} /\ matched # 0 =>
               \E p \in 1 .. begun : InStep(p, matched, y, start, granted))'
      BY <3>1
    <3>5. (reading = "payload" => Promised(y, start, granted))'
      BY <3>1
    <3> QED
      BY <1>1, <1>4, <1>9, <3>1, <3>3, <3>4, <3>5, DownTake
  <2>2. CASE /\ socket[1] = MsgId[matched + 1]
             /\ reading' \in {"header", "id"} /\ matched' = matched + 1
    <3>1. PICK p \in 1 .. begun : InStep(p, j + 1, y, start, granted)
      BY <1>3, <1>6, <1>12, <2>2
    <3>2. InStep(p, j + 1, y, start, granted)'
      BY <1>1, <3>1 DEF InStep, Entered
    <3>3. InStep(p, matched, y, start, granted)'
      BY <1>6, <2>2, <3>2
    <3>4. (reading \in {"id", "header"} /\ matched # 0 =>
               \E q \in 1 .. begun : InStep(q, matched, y, start, granted))'
      BY <1>1, <3>3
    <3>5. matched' # 0 /\ reading' # "payload"
      BY <1>2, <2>2
    <3>6. /\ (reading \in {"select", "id"} /\ matched = 0 => Settled(y, start, granted))'
          /\ (reading = "payload" => Promised(y, start, granted))'
      BY <3>5
    <3> QED
      BY <1>1, <1>4, <1>9, <3>4, <3>6, DownTake
  <2> QED
    BY <2>1, <2>2 DEF ReadId
<1>14. Stream!Idle
  BY <1>1, StreamIdle
<1> QED
  BY <1>1, <1>2, <1>13, <1>14

LEMMA ReadHeaderPlaced ==
  ASSUME DownTyped, losses \in Int, NEW start, NEW granted, NEW x, DownPlaced(start, granted, x),
         ReadHeaderBytes
  PROVE  /\ losses' \in Int /\ (\E s, g, y : DownPlaced(s, g, y)')
         /\ Stream!Idle \/ Stream!Damage
<1> USE FrameAssumption
<1>0. PICK n : n = Least(HeaderLength, Len(socket))
  OBVIOUS
<1>1. /\ length' = length /\ begun' = begun /\ output' = output /\ UNCHANGED ending
      /\ reading = "header" /\ socket # << >> /\ socket' = After(socket, n)
  BY <1>0 DEF ReadHeaderBytes, ending, Unread
<1>2. x \in Nat /\ Len(socket) \in Nat /\ InRange /\ socket \in Seq(FrameByte)
      /\ matched = IdLength /\ matched # 0
  BY <1>1, DownPlacedNumbers DEF DownTyped, DownTypeOK
<1>3. n \in 0 .. Len(socket) /\ n \in Nat /\ n <= HeaderLength
  BY <1>0, <1>2 DEF Least
<1>4. PICK t : t = socket
  OBVIOUS
<1>5. Laid(start, granted) /\ Holds(t, x, start) /\ t \in Seq(FrameByte) /\ Len(t) \in Nat
  BY <1>2, <1>4 DEF DownPlaced
<1>6. PICK p \in 1 .. begun : InStep(p, IdLength, x, start, granted)
  BY <1>1, <1>2 DEF DownPlaced
<1>7. PICK y : y = x + n
  OBVIOUS
<1>8. CASE n < HeaderLength /\ GivePacketUp
  <2>1. FullLength(p) = IdLength + HeaderLength + length[p] /\ length[p] \in Nat
    BY <1>2, <1>5, LaidNumbers
  <2>2. IdLength + n < FullLength(p) /\ n <= HeaderLength + MaxSize /\ IdLength \in Nat /\ IdLength > 0
    BY <1>3, <1>8, <2>1
  <2>3. losses' = losses + 1 /\ arrived' = arrived
    BY <1>8 DEF GivePacketUp
  <2>4. Settled(x + n, start, granted)'
    BY <1>1, <1>2, <1>3, <1>5, <1>6, <2>2, <2>3, GivenUpWithin
  <2> QED
    BY <1>1, <1>3, <1>8, <2>4, GiveUpPlaced
<1>9. CASE /\ n = HeaderLength
           /\ reading' = "payload"
           /\ \/ /\ packet' \in 1 .. begun
                 /\ First(socket, n) = Header(packet')
                 /\ payload_length' = Least(length[packet'], MaxSize)
              \/ /\ \A q \in 1 .. begun : First(socket, n) # Header(q)
                 /\ packet' = 0
                 /\ payload_length' \in 0 .. MaxSize
           /\ delivered' = 0
           /\ UNCHANGED <<matched, arrived, losses, damaged>>
  <2>1. p \in Nat /\ \A q \in 1 .. begun : Header(q) \in Seq(FrameByte) /\ Len(Header(q)) = HeaderLength
    <3>1. \A q \in 1 .. begun : q \in Nat
      BY <1>2 DEF InRange
    <3> QED
      BY <3>1, PartsOfFrame
  <2>2. HeaderLength <= Len(t) /\ HeaderLength \in 0 .. Len(t) /\ y = x + HeaderLength /\ y \in Nat
    BY <1>2, <1>3, <1>4, <1>7, <1>9
  <2>3. Promised(y, start, granted)'
    <3>1. CASE /\ packet' \in 1 .. begun
               /\ First(t, HeaderLength) = Header(packet')
               /\ payload_length' = Least(length[packet'], MaxSize)
      <4>1. PICK q \in 1 .. begun : q = packet'
        BY <3>1
      <4>2. \A i \in 1 .. HeaderLength : t[i] = Header(q)[i]
        BY <1>5, <2>1, <2>2, <3>1, <4>1, FirstIs
      <4>3. t[HeaderLength] = Header(q)[HeaderLength]
        BY <4>2
      <4>4. InStep(q, IdLength + HeaderLength, x + HeaderLength, start, granted)
        BY <1>2, <1>5, <1>6, <2>2, <4>3, HeaderFits
      <4>5. InStep(q, IdLength + HeaderLength, y, start, granted)'
        BY <1>1, <1>9, <2>2, <4>4 DEF InStep, Entered
      <4>6. packet' # 0
        BY <1>2, <4>1 DEF InRange
      <4> QED
        BY <1>1, <3>1, <4>1, <4>5, <4>6 DEF Promised
    <3>2. CASE /\ \A q \in 1 .. begun : First(t, HeaderLength) # Header(q)
               /\ packet' = 0 /\ payload_length' \in 0 .. MaxSize
      <4>1. First(t, HeaderLength) # Header(p)
        BY <3>2
      <4>2. PICK i \in 1 .. HeaderLength : t[i] # Header(p)[i]
        BY <1>5, <2>1, <2>2, <4>1, FirstIs
      <4>3. PICK m \in 0 .. MaxSize : m = payload_length'
        BY <3>2
      <4>4. Confused(x + HeaderLength, m, start, granted)
        BY <1>2, <1>5, <1>6, <2>2, <4>2, HeaderDiffers
      <4>5. Confused(y, m, start, granted)'
        BY <1>1, <1>9, <2>2, <4>4 DEF Confused, Entered, CutShort, FullLength
      <4> QED
        BY <3>2, <4>3, <4>5 DEF Promised
    <3> QED
      BY <1>4, <1>9, <3>1, <3>2
  <2>4. DownPlaced(start, granted, y)'
    <3>1. /\ (reading \in {"select", "id"} /\ matched = 0 => Settled(y, start, granted))'
          /\ (reading \in {"id", "header"} /\ matched # 0 =>
               \E q \in 1 .. begun : InStep(q, matched, y, start, granted))'
      BY <1>9
    <3> QED
      BY <1>1, <1>3, <1>7, <2>3, <3>1, DownTake
  <2>5. Stream!Idle
    BY <1>1, <1>9, StreamIdle
  <2>6. losses' \in Int
    BY <1>9
  <2> QED
    BY <2>4, <2>5, <2>6
<1> QED
  BY <1>0, <1>8, <1>9 DEF ReadHeaderBytes, ReadUpTo

LEMMA ReadPayloadPlaced ==
  ASSUME DownTyped, losses \in Int, NEW start, NEW granted, NEW x, DownPlaced(start, granted, x),
         ReadPayloadBytes
  PROVE  /\ losses' \in Int /\ (\E s, g, y : DownPlaced(s, g, y)')
         /\ Stream!Idle \/ Stream!Damage \/ Stream!Deliver
<1> USE FrameAssumption
<1>0. PICK n : n = Least(payload_length, Len(socket))
  OBVIOUS
<1>1. /\ length' = length /\ begun' = begun /\ output' = output /\ UNCHANGED ending
      /\ reading = "payload" /\ socket' = After(socket, n)
  BY <1>0 DEF ReadPayloadBytes, ending, Unread
<1>2. x \in Nat /\ Len(socket) \in Nat /\ InRange /\ socket \in Seq(FrameByte)
      /\ payload_length \in Nat /\ payload_length <= MaxSize
  BY <1>1, DownPlacedNumbers DEF DownTyped, DownTypeOK, InRange
<1>3. n \in 0 .. Len(socket) /\ n \in Nat /\ n <= payload_length
  BY <1>0, <1>2 DEF Least
<1>4. Laid(start, granted) /\ Holds(socket, x, start) /\ Promised(x, start, granted)
  BY <1>1 DEF DownPlaced
<1>5. PICK y : y = x + n
  OBVIOUS
<1>6. CASE n < payload_length /\ GivePacketUp
  <2>1. losses' = losses + 1 /\ arrived' = arrived
    BY <1>6 DEF GivePacketUp
  <2>2. Settled(x + n, start, granted)'
    <3>1. CASE packet = 0
      <4>1. PICK p \in 1 .. begun :
              /\ Entered(p, granted) /\ CutShort(p, start)
              /\ start[p] < x /\ x + payload_length <= start[p + 1] + HeaderLength + MaxSize
        BY <1>4, <3>1 DEF Promised, Confused
      <4>2. start[p] \in Nat /\ start[p + 1] \in Nat
        BY <1>2, <1>4, LaidNumbers
      <4>3. y \in Nat /\ start[p] < y /\ y <= start[p + 1] + HeaderLength + MaxSize
        BY <1>2, <1>3, <1>5, <4>1, <4>2
      <4>4. Settled(y, start, granted)'
        BY <1>1, <1>2, <1>4, <2>1, <4>1, <4>3, GivenUpHere
      <4> QED
        BY <1>5, <4>4
    <3>2. CASE packet # 0
      <4>1. PICK p \in 1 .. begun : p = packet
        BY <1>4, <3>2 DEF Promised, InStep, Entered
      <4>2. /\ InStep(p, IdLength + HeaderLength, x, start, granted)
            /\ payload_length = Least(length[p], MaxSize)
        BY <1>4, <3>2, <4>1 DEF Promised
      <4>3. FullLength(p) = IdLength + HeaderLength + length[p] /\ length[p] \in Nat
        BY <1>2, <1>4, LaidNumbers
      <4>4. n < length[p] /\ n <= MaxSize
        BY <1>2, <1>3, <1>6, <4>2, <4>3 DEF Least
      <4>5. PICK j : j = IdLength + HeaderLength
        OBVIOUS
      <4>6. j \in Nat /\ j > 0 /\ j + n < FullLength(p) /\ n <= HeaderLength + MaxSize
        BY <1>3, <4>3, <4>4, <4>5
      <4>7. InStep(p, j, x, start, granted)
        BY <4>2, <4>5
      <4> QED
        BY <1>1, <1>2, <1>3, <1>4, <2>1, <4>6, <4>7, GivenUpWithin
    <3> QED
      BY <3>1, <3>2
  <2> QED
    BY <1>1, <1>3, <1>6, <2>2, GiveUpPlaced
<1>7. CASE /\ n = payload_length /\ BackToSelect
           /\ IF Intact(n) THEN Deliver(packet)
              ELSE delivered' = 0 /\ UNCHANGED <<arrived, losses>>
  <2>1. reading' = "select" /\ matched' = 0
    BY <1>7 DEF BackToSelect
  <2>2. PICK t : t = socket
    OBVIOUS
  <2>3. t \in Seq(FrameByte) /\ Holds(t, x, start) /\ n <= Len(t) /\ n = payload_length
    BY <1>2, <1>3, <1>4, <1>7, <2>2
  <2>4. losses' \in Int /\ Settled(y, start, granted)' /\ (Stream!Deliver \/ Stream!Idle)
    <3>1. CASE packet # 0 /\ First(t, n) = Payload(packet, length[packet])
      <4>1. Intact(n)
        BY <2>2, <3>1 DEF Intact, ReadUpTo
      <4>2. Deliver(packet)
        BY <1>7, <4>1
      <4>3. Settled(x + n, start, granted)' /\ Stream!Deliver /\ losses' \in Int
        BY <1>1, <1>2, <1>4, <2>3, <3>1, <4>2, PayloadRead
      <4> QED
        BY <1>5, <4>3
    <3>2. CASE ~ (packet # 0 /\ First(t, n) = Payload(packet, length[packet]))
      <4>1. ~Intact(n)
        BY <2>2, <3>2 DEF Intact, ReadUpTo
      <4>2. delivered' = 0 /\ UNCHANGED <<arrived, losses>>
        BY <1>7, <4>1, Zenon
      <4>3. arrived' = arrived /\ losses' = losses
        BY <4>2
      <4>4. Settled(x + n, start, granted)
        BY <1>1, <1>2, <1>4, <2>3, <3>2, PayloadRead
      <4>5. Settled(y, start, granted)'
        BY <1>1, <1>5, <4>3, <4>4 DEF Settled
      <4>6. Stream!Idle
        BY <1>1, <4>2, <4>3, StreamIdle
      <4> QED
        BY <4>3, <4>5, <4>6
    <3> QED
      BY <3>1, <3>2
  <2>5. DownPlaced(start, granted, y)'
    <3>1. (reading \in {"id", "header"} /\ matched # 0 =>
             \E q \in 1 .. begun : InStep(q, matched, y, start, granted))'
      BY <2>1
    <3>2. (reading = "payload" => Promised(y, start, granted))'
      BY <2>1
    <3> QED
      BY <1>1, <1>3, <1>5, <2>4, <3>1, <3>2, DownTake
  <2> QED
    BY <2>4, <2>5
<1>8. \/ n < payload_length /\ GivePacketUp
      \/ /\ n = payload_length /\ BackToSelect
         /\ IF Intact(n) THEN Deliver(packet)
            ELSE delivered' = 0 /\ UNCHANGED <<arrived, losses>>
  BY <1>0 DEF ReadPayloadBytes
<1> QED
  BY <1>6, <1>7, <1>8

LEMMA InterruptPlaced ==
  ASSUME DownTyped, losses \in Int, NEW start, NEW granted, NEW x, DownPlaced(start, granted, x),
         sigusr1_in_read
  PROVE  /\ losses' \in Int /\ (\E s, g, y : DownPlaced(s, g, y)')
         /\ Stream!Damage
<1> USE FrameAssumption
<1>1. /\ length' = length /\ begun' = begun /\ output' = output /\ UNCHANGED ending
      /\ reading # "select" /\ socket' = socket /\ GivePacketUp
      /\ losses' = losses + 1 /\ arrived' = arrived
  BY DEF sigusr1_in_read, ending, GivePacketUp
<1>2. x \in Nat /\ Len(socket) \in Nat /\ InRange /\ socket \in Seq(FrameByte)
      /\ matched \in Nat /\ reading \in {"id", "header", "payload"}
      /\ (reading = "header" => matched # 0)
  BY <1>1, DownPlacedNumbers DEF DownTyped, DownTypeOK
<1>3. socket' = After(socket, 0) /\ 0 \in 0 .. Len(socket) /\ x + 0 = x
  BY <1>1, <1>2 DEF After
<1>4. Laid(start, granted)
  BY DEF DownPlaced
<1>5. Settled(x, start, granted)'
  <2>1. CASE reading = "id" /\ matched = 0
    <3>1. Settled(x, start, granted)
      BY <2>1 DEF DownPlaced
    <3>2. losses' \in Int /\ losses <= losses'
      BY <1>1
    <3> QED
      BY <1>1, <1>2, <1>4, <3>1, <3>2, SettledStill
  <2>2. CASE reading \in {"id", "header"} /\ matched # 0
    <3>1. PICK p \in 1 .. begun : InStep(p, matched, x, start, granted)
      BY <2>2 DEF DownPlaced
    <3>2. PICK j : j = matched
      OBVIOUS
    <3>3. j \in Nat /\ j > 0 /\ InStep(p, j, x, start, granted) /\ 0 \in Nat
      BY <1>2, <2>2, <3>1, <3>2
    <3>4. Settled(x + 0, start, granted)'
      BY <1>1, <1>2, <1>4, <3>3, GivenUpWithin
    <3> QED
      BY <1>3, <3>4
  <2>3. CASE reading = "payload"
    <3>1. Promised(x, start, granted)
      BY <2>3 DEF DownPlaced
    <3>2. CASE packet = 0
      <4>1. PICK p \in 1 .. begun :
              /\ Entered(p, granted) /\ CutShort(p, start)
              /\ start[p] < x /\ x + payload_length <= start[p + 1] + HeaderLength + MaxSize
        BY <3>1, <3>2 DEF Promised, Confused
      <4>2. start[p] \in Nat /\ start[p + 1] \in Nat /\ payload_length \in Nat
        BY <1>2, <1>4, LaidNumbers DEF InRange
      <4>3. x <= start[p + 1] + HeaderLength + MaxSize
        BY <1>2, <4>1, <4>2
      <4> QED
        BY <1>1, <1>2, <1>4, <4>1, <4>3, GivenUpHere
    <3>3. CASE packet # 0
      <4>1. PICK p : p = packet
        OBVIOUS
      <4>2. PICK j : j = IdLength + HeaderLength
        OBVIOUS
      <4>3. j \in Nat /\ j > 0 /\ InStep(p, j, x, start, granted) /\ 0 \in Nat
        BY <3>1, <3>3, <4>1, <4>2 DEF Promised
      <4>4. Settled(x + 0, start, granted)'
        BY <1>1, <1>2, <1>4, <4>3, GivenUpWithin
      <4> QED
        BY <1>3, <4>4
    <3> QED
      BY <3>2, <3>3
  <2> QED
    BY <1>2, <2>1, <2>2, <2>3
<1>6. Settled(x + 0, start, granted)'
  BY <1>3, <1>5
<1> QED
  BY <1>1, <1>3, <1>6, GiveUpPlaced

\* Every step keeps the bytes in place and is one of the stream's.
LEMMA DownStep ==
  ASSUME DownInv, [DownNext]_downVars
  PROVE  DownInv' /\ [Stream!Next]_(Stream!vars)
<1>1. DownTyped /\ losses \in Int /\ DownTyped'
  BY DownStepKeeps DEF DownInv
<1>2. PICK start, granted, x : DownPlaced(start, granted, x)
  BY DEF DownInv
<1>3. CASE UNCHANGED downVars
  <2>1. /\ UNCHANGED <<length, begun, reading, matched, packet, payload_length, arrived, losses>>
        /\ delivered' = delivered
        /\ socket' = socket /\ output' = output
    BY <1>3 DEF downVars, ending, reader, history
  <2>2. DownPlaced(start, granted, x)'
    <3>1. x \in Nat /\ Len(socket) \in Nat /\ socket \in Seq(FrameByte)
      BY <1>1, <1>2, DownPlacedNumbers DEF DownTyped
    <3>2. socket' = After(socket, 0) /\ 0 \in 0 .. Len(socket) /\ x = x + 0
      BY <2>1, <3>1 DEF After
    <3>3. /\ (reading \in {"select", "id"} /\ matched = 0 => Settled(x, start, granted))'
          /\ (reading \in {"id", "header"} /\ matched # 0 =>
               \E p \in 1 .. begun : InStep(p, matched, x, start, granted))'
          /\ (reading = "payload" => Promised(x, start, granted))'
      BY <1>2, <2>1, ClientStays
    <3> QED
      BY <1>1, <1>2, <2>1, <3>2, <3>3, DownTake
  <2>3. UNCHANGED Stream!vars
    BY <2>1 DEF Stream!vars
  <2> QED
    BY <1>1, <2>1, <2>2, <2>3 DEF DownInv
<1>4. CASE DownNext
  <2>1. /\ losses' \in Int /\ (\E s, g, y : DownPlaced(s, g, y)')
        /\ Stream!Send \/ Stream!Deliver \/ Stream!Damage \/ Stream!Idle
    <3>1. CASE write_iobuf_abuffer
      BY <1>1, <1>2, <3>1, WriteIobufPlaced
    <3>2. CASE poll_output
      BY <1>1, <1>2, <3>2, PollOutputPlaced
    <3>3. CASE Select
      BY <1>1, <1>2, <3>3, SelectPlaced
    <3>4. CASE ReadId
      BY <1>1, <1>2, <3>4, ReadIdPlaced
    <3>5. CASE ReadHeaderBytes
      BY <1>1, <1>2, <3>5, ReadHeaderPlaced
    <3>6. CASE ReadPayloadBytes
      BY <1>1, <1>2, <3>6, ReadPayloadPlaced
    <3>7. CASE sigusr1_in_read
      BY <1>1, <1>2, <3>7, InterruptPlaced
    <3> QED
      BY <1>4, <3>1, <3>2, <3>3, <3>4, <3>5, <3>6, <3>7 DEF DownNext, read_abuffer
  <2> QED
    BY <1>1, <2>1 DEF DownInv, Stream!Next
<1> QED
  BY <1>3, <1>4

\* The server's packets reach the client's main loop whole, in order and at most
\* once; one that is given up costs itself, one that is truncated at most
\* MostLost, whatever the sizes, lengths and interleavings
\* (Client/abufcli.c:24-68, Server/srv_abuf.c:71-95).
THEOREM DownlinkInOrder == DownSpec => ArrivesInOrder
<1>1. DownInit => DownInv /\ Stream!Init
  BY DownInitPlaced, StreamInit DEF DownInit
<1>2. DownInv /\ [DownNext]_downVars => DownInv' /\ [Stream!Next]_(Stream!vars)
  BY DownStep
<1> QED
  BY <1>1, <1>2, PTL DEF DownSpec, ArrivesInOrder, Stream!Spec
=============================================================================
