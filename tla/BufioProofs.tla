---------------------------- MODULE BufioProofs ----------------------------
(***************************************************************************)
(* Proofs about the buffered connections of Bufio, for all sizes: first    *)
(* what each operation of Fifo does to the content of a sound fifo, then   *)
(* that the two fifos stay sound and that each direction is a ByteQueue.   *)
(***************************************************************************)
EXTENDS Bufio, SequenceTheorems, TLAPS

-----------------------------------------------------------------------------
(* Pointers that go round.                                                 *)

LEMMA StaysInside ==
  ASSUME NEW n \in Nat, NEW p \in 0 .. n - 1, NEW k \in 0 .. n
  PROVE  Forward(n, p, k) \in 0 .. n - 1
BY DEF Forward

LEMMA StepsAdd ==
  ASSUME NEW n \in Nat, NEW p \in 0 .. n - 1, NEW j \in Nat, NEW k \in Nat, j + k <= n
  PROVE  Forward(n, Forward(n, p, j), k) = Forward(n, p, j + k)
BY DEF Forward

LEMMA AheadInside ==
  ASSUME NEW n \in Nat, NEW p \in 0 .. n - 1, NEW i \in 0 .. n - 1
  PROVE  Ahead(n, i, p) \in 0 .. n - 1
BY DEF Ahead

\* The cell j steps from p, seen from the cell u steps from p.
LEMMA AheadOfForward ==
  ASSUME NEW n \in Nat, NEW p \in 0 .. n - 1, NEW u \in 0 .. n, NEW j \in 0 .. n - 1
  PROVE  Ahead(n, Forward(n, p, j), Forward(n, p, u)) = IF j < u THEN j - u + n ELSE j - u
BY DEF Ahead, Forward

LEMMA ElementOfConcat ==
  ASSUME NEW s \in Seq(Byte), NEW t \in Seq(Byte), NEW i \in 1 .. Len(s) + Len(t)
  PROVE  (s \o t)[i] = IF i <= Len(s) THEN s[i] ELSE t[i - Len(s)]
BY ConcatProperties

\* Two halves of a sequence.
LEMMA Halves ==
  ASSUME NEW s \in Seq(Byte), NEW k \in 0 .. Len(s)
  PROVE  /\ SubSeq(s, 1, k) \in Seq(Byte) /\ Len(SubSeq(s, 1, k)) = k
         /\ \A i \in 1 .. k : SubSeq(s, 1, k)[i] = s[i]
         /\ SubSeq(s, k + 1, Len(s)) \in Seq(Byte)
         /\ Len(SubSeq(s, k + 1, Len(s))) = Len(s) - k
         /\ \A i \in 1 .. Len(s) - k : SubSeq(s, k + 1, Len(s))[i] = s[k + i]
OBVIOUS

LEMMA HalvesJoin ==
  ASSUME NEW s \in Seq(Byte), NEW k \in 0 .. Len(s)
  PROVE  SubSeq(s, 1, k) \o SubSeq(s, k + 1, Len(s)) = s
<1>1. SubSeq(s, 1, k) \o SubSeq(s, k + 1, Len(s)) = SubSeq(s, 1, Len(s))
  <2>1. 1 \in 1 .. Len(s) + 1 /\ k \in 1 - 1 .. Len(s) /\ Len(s) \in k .. Len(s)
    OBVIOUS
  <2> QED
    BY <2>1, ConcatAdjacentSubSeq
<1> QED
  BY <1>1, SubSeqFull

LEMMA FirstOfFirst ==
  ASSUME NEW s \in Seq(Byte), NEW m \in 0 .. Len(s), NEW k \in 0 .. m
  PROVE  SubSeq(SubSeq(s, 1, m), 1, k) = SubSeq(s, 1, k)
<1> DEFINE t == SubSeq(s, 1, m)
<1>1. t \in Seq(Byte) /\ Len(t) = m /\ \A i \in 1 .. m : t[i] = s[i]
  BY Halves
<1> HIDE DEF t
<1>2. /\ SubSeq(t, 1, k) \in Seq(Byte) /\ Len(SubSeq(t, 1, k)) = k
      /\ \A i \in 1 .. k : SubSeq(t, 1, k)[i] = t[i]
  BY <1>1, Halves
<1>3. /\ SubSeq(s, 1, k) \in Seq(Byte) /\ Len(SubSeq(s, 1, k)) = k
      /\ \A i \in 1 .. k : SubSeq(s, 1, k)[i] = s[i]
  <2>1. k \in 0 .. Len(s)
    OBVIOUS
  <2> QED
    BY <2>1, Halves
<1>4. SubSeq(t, 1, k) = SubSeq(s, 1, k)
  BY <1>1, <1>2, <1>3, SeqEqual
<1> QED
  BY <1>4 DEF t

LEMMA Associative ==
  ASSUME NEW s \in Seq(Byte), NEW t \in Seq(Byte), NEW u \in Seq(Byte)
  PROVE  (s \o t) \o u = s \o (t \o u)
<1>1. /\ s \o t \in Seq(Byte) /\ Len(s \o t) = Len(s) + Len(t)
      /\ t \o u \in Seq(Byte) /\ Len(t \o u) = Len(t) + Len(u)
  BY ConcatProperties
<1> QED
  BY <1>1, ConcatAssociative, Z3

\* A concatenation, cut inside its first part.
LEMMA CutConcat ==
  ASSUME NEW s \in Seq(Byte), NEW t \in Seq(Byte), NEW k \in 0 .. Len(s)
  PROVE  /\ s \o t \in Seq(Byte) /\ Len(s \o t) = Len(s) + Len(t)
         /\ SubSeq(s \o t, 1, k) = SubSeq(s, 1, k)
         /\ SubSeq(s \o t, k + 1, Len(s \o t)) = SubSeq(s, k + 1, Len(s)) \o t
<1> DEFINE u == s \o t
           r == SubSeq(s, k + 1, Len(s))
<1>1. u \in Seq(Byte) /\ Len(u) = Len(s) + Len(t)
  BY ConcatProperties
<1>2. \A i \in 1 .. Len(s) + Len(t) : u[i] = IF i <= Len(s) THEN s[i] ELSE t[i - Len(s)]
  BY ElementOfConcat
<1>3. r \in Seq(Byte) /\ Len(r) = Len(s) - k /\ \A i \in 1 .. Len(s) - k : r[i] = s[k + i]
  BY Halves
<1>4. r \o t \in Seq(Byte) /\ Len(r \o t) = Len(s) - k + Len(t)
  <2> HIDE DEF r
  <2> QED
    BY <1>3, ConcatProperties
<1>5. ASSUME NEW i \in 1 .. Len(s) - k + Len(t)
      PROVE  (r \o t)[i] = IF i <= Len(s) - k THEN r[i] ELSE t[i - (Len(s) - k)]
  <2> HIDE DEF r
  <2> QED
    BY <1>3, ElementOfConcat
<1> HIDE DEF u, r
<1>6. k \in 0 .. Len(u)
  BY <1>1
<1>7. SubSeq(u, 1, k) = SubSeq(s, 1, k)
  <2>1. /\ SubSeq(u, 1, k) \in Seq(Byte) /\ Len(SubSeq(u, 1, k)) = k
        /\ \A i \in 1 .. k : SubSeq(u, 1, k)[i] = u[i]
    BY <1>1, <1>6, Halves
  <2>2. /\ SubSeq(s, 1, k) \in Seq(Byte) /\ Len(SubSeq(s, 1, k)) = k
        /\ \A i \in 1 .. k : SubSeq(s, 1, k)[i] = s[i]
    BY Halves
  <2>3. \A i \in 1 .. k : u[i] = s[i]
    BY <1>2
  <2> QED
    BY <2>1, <2>2, <2>3, SeqEqual
<1>8. SubSeq(u, k + 1, Len(u)) = r \o t
  <2> DEFINE v == SubSeq(u, k + 1, Len(u))
             w == r \o t
  <2>1. /\ v \in Seq(Byte) /\ Len(v) = Len(s) + Len(t) - k
        /\ \A i \in 1 .. Len(s) + Len(t) - k : v[i] = u[k + i]
    BY <1>1, <1>6, Halves
  <2>2. ASSUME NEW i \in 1 .. Len(s) + Len(t) - k
        PROVE  v[i] = w[i]
    <3>1. v[i] = u[k + i] /\ k + i \in 1 .. Len(s) + Len(t)
      BY <2>1
    <3>2. i \in 1 .. Len(s) - k + Len(t)
      OBVIOUS
    <3>3. CASE i <= Len(s) - k
      <4>1. u[k + i] = s[k + i]
        BY <3>1, <3>3, <1>2
      <4>2. w[i] = r[i] /\ r[i] = s[k + i]
        BY <3>2, <3>3, <1>3, <1>5
      <4> QED
        BY <3>1, <4>1, <4>2
    <3>4. CASE ~(i <= Len(s) - k)
      <4>1. u[k + i] = t[i - (Len(s) - k)]
        BY <3>1, <3>4, <1>2
      <4> QED
        BY <3>1, <3>2, <3>4, <4>1, <1>5
    <3> QED
      BY <3>3, <3>4
  <2>3. w \in Seq(Byte) /\ Len(w) = Len(v)
    BY <1>4, <2>1
  <2> HIDE DEF v, w
  <2>4. v = w
    BY <2>1, <2>2, <2>3, SeqEqual
  <2> QED
    BY <2>4 DEF v, w
<1> QED
  BY <1>1, <1>7, <1>8 DEF u, r

-----------------------------------------------------------------------------
(* Operations of a fifo and its content.                                   *)

\* The same record, seen through its fields.
LEMMA FieldTypes ==
  ASSUME NEW n \in Nat, NEW f, Sound(f, n)
  PROVE  /\ f.buffer \in [0 .. n - 1 -> Byte]
         /\ f.head \in Nat /\ f.tail \in Nat /\ f.used \in 0 .. n /\ f.size = n
         /\ IF n = 0 THEN f.tail = 0 ELSE f.tail \in 0 .. n - 1
         /\ f.head = Forward(n, f.tail, f.used)
         /\ f = [buffer |-> f.buffer, head |-> f.head, tail |-> f.tail,
                 used |-> f.used, size |-> n]
BY DEF Sound, FifoRecord

LEMMA FieldsSuffice ==
  ASSUME NEW n \in Nat, NEW b \in [0 .. n - 1 -> Byte], NEW t \in Nat, NEW u \in 0 .. n,
         IF n = 0 THEN t = 0 ELSE t \in 0 .. n - 1
  PROVE  Sound([buffer |-> b, head |-> Forward(n, t, u), tail |-> t, used |-> u, size |-> n], n)
<1>1. Forward(n, t, u) \in Nat
  BY DEF Forward
<1> QED
  BY <1>1 DEF Sound, FifoRecord

LEMMA ContentType ==
  ASSUME NEW n \in Nat, NEW f, Sound(f, n)
  PROVE  /\ Content(f) \in Seq(Byte)
         /\ Len(Content(f)) = f.used
         /\ \A i \in 1 .. f.used : Content(f)[i] = f.buffer[Forward(n, f.tail, i - 1)]
<1>1. f.used \in Nat /\ f.used <= n /\ f.size = n
  BY FieldTypes
<1>2. ASSUME NEW i \in 1 .. f.used
      PROVE  f.buffer[Forward(n, f.tail, i - 1)] \in Byte
  <2>1. n # 0 /\ i - 1 \in 0 .. n
    BY <1>1
  <2>2. f.tail \in 0 .. n - 1
    BY <2>1, FieldTypes
  <2>3. Forward(n, f.tail, i - 1) \in 0 .. n - 1
    BY <2>1, <2>2, StaysInside
  <2> QED
    BY <2>3, FieldTypes
<1> QED
  BY <1>1, <1>2 DEF Content

LEMMA ContentFits ==
  ASSUME NEW n \in Nat, NEW f, Sound(f, n) \/ Sound(f, 0)
  PROVE  Content(f) \in Seq(Byte) /\ Len(Content(f)) <= n
<1>1. CASE Sound(f, n)
  BY <1>1, ContentType, FieldTypes
<1>2. CASE Sound(f, 0)
  <2>1. Content(f) \in Seq(Byte) /\ Len(Content(f)) = f.used /\ f.used \in 0 .. 0
    BY <1>2, ContentType, FieldTypes
  <2> QED
    BY <2>1
<1> QED
  BY <1>1, <1>2

\* Writing appends the longest prefix there is room for.
LEMMA WriteAppends ==
  ASSUME NEW n \in Nat, NEW f, Sound(f, n), NEW data \in Seq(Byte)
  PROVE  /\ Sound(write_to_iofifo(f, data), n)
         /\ Content(write_to_iofifo(f, data))
              = Content(f) \o SubSeq(data, 1, Least(n - f.used, Len(data)))
<1> DEFINE k == Least(n - f.used, Len(data))
           b == [i \in 0 .. n - 1 |-> IF Ahead(n, i, f.head) < k
                                        THEN data[Ahead(n, i, f.head) + 1]
                                        ELSE f.buffer[i]]
           g == [buffer |-> b, head |-> Forward(n, f.head, k), tail |-> f.tail,
                 used |-> f.used + k, size |-> n]
<1>0. /\ f.size = n /\ f.used \in 0 .. n /\ f.tail \in Nat /\ f.head \in Nat
      /\ f.buffer \in [0 .. n - 1 -> Byte]
  BY FieldTypes
<1>1. k \in Nat /\ k <= Len(data) /\ f.used + k <= n /\ f.used + k \in 0 .. n
  BY <1>0 DEF Least
<1>2. write_to_iofifo(f, data) = g
  BY <1>0 DEF write_to_iofifo
<1>3. n # 0 => f.tail \in 0 .. n - 1 /\ f.head \in 0 .. n - 1
  <2>1. n # 0 => f.tail \in 0 .. n - 1
    BY FieldTypes
  <2>2. n # 0 => Forward(n, f.tail, f.used) \in 0 .. n - 1
    BY <2>1, <1>0, StaysInside
  <2> QED
    BY <2>1, <2>2, FieldTypes
<1>4. b \in [0 .. n - 1 -> Byte]
  <2>1. ASSUME NEW i \in 0 .. n - 1, Ahead(n, i, f.head) < k
        PROVE  data[Ahead(n, i, f.head) + 1] \in Byte
    <3>0. n # 0
      BY <1>0
    <3>1. Ahead(n, i, f.head) \in 0 .. n - 1
      BY <3>0, <1>3, AheadInside
    <3>2. Ahead(n, i, f.head) + 1 \in 1 .. Len(data)
      BY <2>1, <3>1, <1>1
    <3> QED
      BY <3>2
  <2> QED
    BY <2>1, <1>0
<1>5. Forward(n, f.head, k) = Forward(n, f.tail, f.used + k)
  <2>1. CASE n = 0
    BY <2>1, <1>0, <1>1, FieldTypes DEF Forward
  <2>2. CASE n # 0
    BY <2>2, <1>0, <1>1, <1>3, StepsAdd, FieldTypes
  <2> QED
    BY <2>1, <2>2
<1>6. Sound(g, n)
  <2>1. IF n = 0 THEN f.tail = 0 ELSE f.tail \in 0 .. n - 1
    BY FieldTypes
  <2> HIDE DEF b, k
  <2> QED
    BY <1>0, <1>1, <1>4, <1>5, <2>1, FieldsSuffice
<1>7. SubSeq(data, 1, k) \in Seq(Byte) /\ Len(SubSeq(data, 1, k)) = k
      /\ \A i \in 1 .. k : SubSeq(data, 1, k)[i] = data[i]
  <2> HIDE DEF k
  <2> QED
    BY <1>1
<1>8. Content(g) = Content(f) \o SubSeq(data, 1, k)
  <2>0. g.used = f.used + k /\ g.buffer = b /\ g.tail = f.tail
    OBVIOUS
  <2> HIDE DEF g
  <2>1. /\ Content(f) \in Seq(Byte) /\ Len(Content(f)) = f.used
        /\ Content(g) \in Seq(Byte) /\ Len(Content(g)) = f.used + k
    BY <2>0, <1>6, ContentType
  <2>4. ASSUME NEW i \in 1 .. f.used + k
        PROVE  (Content(f) \o SubSeq(data, 1, k))[i]
                 = IF i <= f.used THEN Content(f)[i] ELSE SubSeq(data, 1, k)[i - f.used]
    <3> DEFINE s == Content(f)
               d == SubSeq(data, 1, k)
    <3>1. s \in Seq(Byte) /\ d \in Seq(Byte) /\ Len(s) = f.used /\ Len(d) = k
      BY <2>1, <1>7
    <3> HIDE DEF s, d, k
    <3>2. (s \o d)[i] = IF i <= Len(s) THEN s[i] ELSE d[i - Len(s)]
      BY <3>1, ElementOfConcat
    <3> QED
      BY <3>1, <3>2 DEF s, d
  <2>2. ASSUME NEW i \in 1 .. f.used + k
        PROVE  Content(g)[i] = (Content(f) \o SubSeq(data, 1, k))[i]
    <3> DEFINE c == Forward(n, f.tail, i - 1)
    <3> HIDE DEF k
    <3>0. i \in Nat /\ i - 1 \in 0 .. n - 1 /\ n # 0 /\ i - 1 \in 0 .. n
      BY <1>0, <1>1
    <3>1. c \in 0 .. n - 1
      BY <1>3, <3>0, StaysInside
    <3>2. Content(g)[i] = b[c]
      <4>1. i \in 1 .. g.used
        BY <2>0
      <4>2. Content(g)[i] = g.buffer[Forward(n, g.tail, i - 1)]
        BY <4>1, <1>6, ContentType
      <4> QED
        BY <4>2, <2>0
    <3>3. Ahead(n, c, f.head) = IF i - 1 < f.used THEN i - 1 - f.used + n ELSE i - 1 - f.used
      BY <1>0, <1>3, <3>0, AheadOfForward, FieldTypes
    <3> HIDE DEF c
    <3>4. CASE i <= f.used
      <4>1. ~(Ahead(n, c, f.head) < k)
        BY <1>0, <1>1, <3>0, <3>3, <3>4
      <4>2. b[c] = f.buffer[c]
        BY <3>1, <4>1
      <4>3. Content(f)[i] = f.buffer[c]
        BY <3>4, <3>0, ContentType DEF c
      <4> QED
        BY <3>2, <3>4, <4>2, <4>3, <2>4
    <3>5. CASE i > f.used
      <4>1. Ahead(n, c, f.head) < k /\ Ahead(n, c, f.head) + 1 = i - f.used
        BY <1>0, <1>1, <3>0, <3>3, <3>5
      <4>2. b[c] = data[i - f.used]
        BY <3>1, <4>1
      <4>3. i - f.used \in 1 .. k /\ SubSeq(data, 1, k)[i - f.used] = data[i - f.used]
        BY <1>0, <1>1, <3>0, <3>5, <1>7
      <4>4. (Content(f) \o SubSeq(data, 1, k))[i] = SubSeq(data, 1, k)[i - f.used]
        <5>1. ~(i <= f.used)
          BY <3>0, <3>5, <1>0
        <5> QED
          BY <5>1, <2>4
      <4> HIDE DEF b
      <4> QED
        BY <3>2, <4>2, <4>3, <4>4
    <3>6. i <= f.used \/ i > f.used
      BY <1>0, <3>0
    <3> QED
      BY <3>4, <3>5, <3>6
  <2>3. /\ Content(f) \o SubSeq(data, 1, k) \in Seq(Byte)
        /\ Len(Content(f) \o SubSeq(data, 1, k)) = f.used + k
    <3> HIDE DEF k
    <3> QED
      BY <2>1, <1>7
  <2> HIDE DEF k
  <2> QED
    BY <2>1, <2>2, <2>3, SeqEqual
<1> QED
  BY <1>2, <1>6, <1>8

\* Reading takes the oldest bytes.
LEMMA ReadTakes ==
  ASSUME NEW n \in Nat, NEW f, Sound(f, n), NEW k \in Nat
  PROVE  LET m == Least(f.used, k)
         IN  /\ m \in 0 .. Len(Content(f))
             /\ BytesRead(f, k) = SubSeq(Content(f), 1, m)
             /\ Sound(read_from_iofifo(f, k), n)
             /\ Content(read_from_iofifo(f, k)) = SubSeq(Content(f), m + 1, Len(Content(f)))
<1> DEFINE m == Least(f.used, k)
           s == Content(f)
           g == [buffer |-> f.buffer, head |-> f.head, tail |-> Forward(n, f.tail, m),
                 used |-> f.used - m, size |-> n]
<1>0. /\ f.size = n /\ f.used \in 0 .. n /\ f.tail \in Nat /\ f.head \in Nat
      /\ f.buffer \in [0 .. n - 1 -> Byte]
      /\ n # 0 => f.tail \in 0 .. n - 1
      /\ n = 0 => f.tail = 0
      /\ f.head = Forward(n, f.tail, f.used)
  BY FieldTypes
<1>1. m \in 0 .. f.used
  BY <1>0 DEF Least
<1>2. s \in Seq(Byte) /\ Len(s) = f.used
      /\ \A i \in 1 .. f.used : s[i] = f.buffer[Forward(n, f.tail, i - 1)]
  BY ContentType
<1>3. read_from_iofifo(f, k) = g
  BY <1>0 DEF read_from_iofifo
<1>4. BytesRead(f, k) = [i \in 1 .. m |-> f.buffer[Forward(n, f.tail, i - 1)]]
  BY <1>0 DEF BytesRead
<1> HIDE DEF m, s
<1>5. m \in 0 .. Len(s)
  BY <1>1, <1>2
<1>6. BytesRead(f, k) = SubSeq(s, 1, m)
  <2>1. /\ SubSeq(s, 1, m) \in Seq(Byte) /\ Len(SubSeq(s, 1, m)) = m
        /\ \A i \in 1 .. m : SubSeq(s, 1, m)[i] = s[i]
    BY <1>2, <1>5, Halves
  <2>2. \A i \in 1 .. m : s[i] = f.buffer[Forward(n, f.tail, i - 1)] /\ s[i] \in Byte
    BY <1>0, <1>1, <1>2
  <2>3. BytesRead(f, k) \in Seq(Byte) /\ Len(BytesRead(f, k)) = m
    <3>1. m \in Nat
      BY <1>0, <1>1
    <3>2. BytesRead(f, k) \in [1 .. m -> Byte]
      BY <1>4, <2>2
    <3> QED
      BY <3>1, <3>2
  <2> QED
    BY <1>4, <2>1, <2>2, <2>3, SeqEqual
<1>7. Sound(g, n)
  <2> DEFINE t == Forward(n, f.tail, m)
  <2>1. IF n = 0 THEN t = 0 ELSE t \in 0 .. n - 1
    <3>1. CASE n = 0
      BY <3>1, <1>0, <1>1 DEF Forward
    <3>2. CASE n # 0
      BY <3>2, <1>0, <1>1, StaysInside
    <3> QED
      BY <3>1, <3>2
  <2>2. f.head = Forward(n, t, f.used - m)
    <3>1. CASE n = 0
      BY <3>1, <1>0, <1>1 DEF Forward
    <3>2. CASE n # 0
      <4>1. /\ m \in Nat /\ f.used - m \in Nat
            /\ m + (f.used - m) = f.used /\ m + (f.used - m) <= n
        BY <1>0, <1>1
      <4> QED
        BY <3>2, <4>1, <1>0, StepsAdd
    <3> QED
      BY <3>1, <3>2
  <2>3. f.used - m \in 0 .. n /\ t \in Nat
    BY <1>0, <1>1, <2>1
  <2> HIDE DEF t
  <2>4. Sound([buffer |-> f.buffer, head |-> Forward(n, t, f.used - m), tail |-> t,
               used |-> f.used - m, size |-> n], n)
    BY <1>0, <2>1, <2>3, FieldsSuffice
  <2> QED
    BY <2>2, <2>4 DEF t
<1>8. Content(g) = SubSeq(s, m + 1, Len(s))
  <2> DEFINE t == SubSeq(s, m + 1, Len(s))
  <2>0. g.used = f.used - m /\ g.buffer = f.buffer /\ g.tail = Forward(n, f.tail, m)
    OBVIOUS
  <2> HIDE DEF g
  <2>1. /\ Content(g) \in Seq(Byte) /\ Len(Content(g)) = g.used
        /\ \A i \in 1 .. g.used : Content(g)[i] = g.buffer[Forward(n, g.tail, i - 1)]
    BY <1>7, ContentType
  <2>2. /\ t \in Seq(Byte) /\ Len(t) = f.used - m
        /\ \A i \in 1 .. f.used - m : t[i] = s[m + i]
    BY <1>2, <1>5, Halves
  <2> HIDE DEF t
  <2>3. ASSUME NEW i \in 1 .. f.used - m
        PROVE  Content(g)[i] = t[i]
    <3>0. n # 0 /\ m \in Nat /\ i - 1 \in Nat /\ m + (i - 1) <= n
      BY <1>0, <1>1
    <3>1. Forward(n, Forward(n, f.tail, m), i - 1) = Forward(n, f.tail, m + (i - 1))
      BY <3>0, <1>0, StepsAdd
    <3>2. PICK j \in 1 .. f.used : j = m + i
      BY <1>0, <1>1
    <3>3. s[j] = f.buffer[Forward(n, f.tail, j - 1)]
      BY <3>2, <1>2
    <3>4. j - 1 = m + (i - 1)
      BY <3>2, <1>0, <1>1
    <3>5. Content(g)[i] = f.buffer[Forward(n, f.tail, j - 1)]
      BY <2>0, <2>1, <3>1, <3>4
    <3> QED
      BY <2>2, <3>2, <3>3, <3>5
  <2>4. Content(g) = t
    BY <2>0, <2>1, <2>2, <2>3, SeqEqual
  <2> QED
    BY <2>4 DEF t
<1> QED
  BY <1>3, <1>5, <1>6, <1>7, <1>8 DEF m, s

\* Putting back the end of what was read is as if less had been read.
LEMMA RequeueUndoes ==
  ASSUME NEW n \in Nat, NEW f, Sound(f, n), NEW m \in 0 .. f.used, NEW k \in 0 .. m
  PROVE  requeue_iofifo(read_from_iofifo(f, m), m - k) = read_from_iofifo(f, k)
<1>0. /\ f.size = n /\ f.used \in 0 .. n
      /\ n # 0 => f.tail \in 0 .. n - 1
      /\ n = 0 => f.tail = 0
  BY FieldTypes
<1>1. Least(f.used, m) = m /\ Least(f.used, k) = k
  BY <1>0 DEF Least
<1> DEFINE t == Forward(n, f.tail, m)
<1>2. (IF t < m - k THEN t - (m - k) + n ELSE t - (m - k)) = Forward(n, f.tail, k)
  <2>1. CASE n = 0
    BY <2>1, <1>0 DEF Forward
  <2>2. CASE n # 0
    BY <2>2, <1>0 DEF Forward
  <2> QED
    BY <2>1, <2>2
<1>3. f.used - m + (m - k) = f.used - k
  BY <1>0
<1> QED
  BY <1>0, <1>1, <1>2, <1>3 DEF requeue_iofifo, read_from_iofifo

\* poll_buffers reads a chunk out and puts back what the kernel refused.
LEMMA RefusedGoesBack ==
  ASSUME NEW n \in Nat, NEW f, Sound(f, n), NEW c \in Nat, NEW k \in 0 .. Least(c, f.used)
  PROVE  LET m == Least(c, f.used)
             g == requeue_iofifo(read_from_iofifo(f, m), m - k)
         IN  /\ k \in 0 .. Len(Content(f))
             /\ SubSeq(BytesRead(f, m), 1, k) = SubSeq(Content(f), 1, k)
             /\ Sound(g, n)
             /\ Content(g) = SubSeq(Content(f), k + 1, Len(Content(f)))
<1> DEFINE m == Least(c, f.used)
           g == requeue_iofifo(read_from_iofifo(f, m), m - k)
<1>0. f.used \in Nat /\ m \in 0 .. f.used /\ k \in 0 .. m /\ k \in Nat /\ m \in Nat
  BY FieldTypes DEF Least
<1>1. Content(f) \in Seq(Byte) /\ Len(Content(f)) = f.used
  BY ContentType
<1>2. Least(f.used, m) = m /\ Least(f.used, k) = k
  BY <1>0 DEF Least
<1> HIDE DEF m
<1>3. g = read_from_iofifo(f, k)
  BY <1>0, RequeueUndoes
<1>4. BytesRead(f, m) = SubSeq(Content(f), 1, m)
  <2>1. m \in Nat /\ Least(f.used, m) = m
    BY <1>0, <1>2
  <2>2. BytesRead(f, m) = SubSeq(Content(f), 1, Least(f.used, m))
    BY <2>1, ReadTakes
  <2> QED
    BY <2>1, <2>2
<1>5. SubSeq(BytesRead(f, m), 1, k) = SubSeq(Content(f), 1, k)
  BY <1>0, <1>1, <1>4, FirstOfFirst
<1>6. /\ Sound(read_from_iofifo(f, k), n)
      /\ Content(read_from_iofifo(f, k)) = SubSeq(Content(f), k + 1, Len(Content(f)))
  BY <1>0, <1>2, ReadTakes
<1> QED
  BY <1>0, <1>1, <1>3, <1>5, <1>6 DEF m

LEMMA NewIsEmpty ==
  ASSUME NEW n \in Nat \ {0}, NEW junk \in [0 .. n - 1 -> Byte]
  PROVE  Sound(init_iofifo(junk, n), n) /\ Content(init_iofifo(junk, n)) = << >>
<1>1. Forward(n, 0, 0) = 0
  BY DEF Forward
<1>2. Sound(init_iofifo(junk, n), n)
  BY <1>1 DEF Sound, FifoRecord, init_iofifo
<1> QED
  BY <1>2, ContentType DEF init_iofifo

LEMMA DeallocatedIsEmpty == Sound(dealloc_fifo, 0) /\ Content(dealloc_fifo) = << >>
<1>1. Forward(0, 0, 0) = 0
  BY DEF Forward
<1>2. << >> \in [0 .. 0 - 1 -> Byte]
  OBVIOUS
<1>3. Sound(dealloc_fifo, 0)
  BY <1>1, <1>2 DEF Sound, FifoRecord, dealloc_fifo
<1> QED
  BY <1>3, ContentType DEF dealloc_fifo

-----------------------------------------------------------------------------
(* The invariant.                                                          *)

\* What a step does to the input fifo and to the bytes still in the socket:
\* the handlers get the oldest bytes of the two together, the client adds at
\* the end, or a connection begins or ends.
InputStep ==
  LET q == Content(input) \o incoming
      r == Content(input') \o incoming'
  IN  \/ /\ \E k \in 0 .. Len(q) : got' = SubSeq(q, 1, k) /\ r = SubSeq(q, k + 1, Len(q))
         /\ peerGone' = peerGone
      \/ /\ \E b \in Byte : r = Append(q, b)
         /\ got' = << >> /\ peerGone' = peerGone
      \/ r = q /\ got' = << >> /\ peerGone' = TRUE
      \/ r = << >> /\ got' = << >> /\ peerGone' = FALSE

\* What a step does to the output fifo.
OutputStep ==
  LET q == Content(output)
      r == Content(output')
  IN  \/ /\ \E k \in 0 .. Len(q) : taken' = SubSeq(q, 1, k) /\ r = SubSeq(q, k + 1, Len(q))
         /\ peerGone' = peerGone
      \/ /\ \E data \in Seq(Byte) : r = q \o data
         /\ taken' = << >> /\ peerGone' = peerGone
      \/ /\ peerGone
         /\ \E k \in 0 .. Len(q) : r = SubSeq(q, k + 1, Len(q))
         /\ taken' = << >> /\ peerGone' = peerGone
      \/ r = q /\ taken' = << >> /\ peerGone' = TRUE
      \/ r = << >> /\ taken' = << >> /\ peerGone' = FALSE

\* Nothing comes out and nothing changes: a Get of no bytes.
LEMMA NothingTaken ==
  ASSUME NEW q \in Seq(Byte)
  PROVE  0 \in 0 .. Len(q) /\ << >> = SubSeq(q, 1, 0) /\ q = SubSeq(q, 0 + 1, Len(q))
BY SubSeqFull

LEMMA StepsKeep ==
  ASSUME TypeOK, Next
  PROVE  TypeOK' /\ InputStep /\ OutputStep
<1>0. PICK n \in Nat, m \in Nat :
        /\ Sound(input, n) /\ Sound(output, m)
        /\ (n = RSize /\ m = WSize) \/ (n = 0 /\ m = 0)
  BY SizesAssumption DEF TypeOK
<1>1. /\ closed \in BOOLEAN /\ read_error \in BOOLEAN /\ write_error \in BOOLEAN
      /\ clogged \in BOOLEAN /\ peerGone \in BOOLEAN
      /\ incoming \in Seq(Byte) /\ Len(incoming) \in Nat /\ Len(incoming) <= SocketRoom
      /\ got \in Seq(Byte) /\ taken \in Seq(Byte)
  BY DEF TypeOK
<1>2. /\ Content(input) \in Seq(Byte) /\ Len(Content(input)) = input.used
      /\ Content(output) \in Seq(Byte) /\ Len(Content(output)) = output.used
      /\ input.used \in 0 .. n /\ output.used \in 0 .. m
      /\ input.size = n /\ output.size = m
  BY <1>0, ContentType, FieldTypes
<1>3. Content(input) \o incoming \in Seq(Byte)
  BY <1>1, <1>2, ConcatProperties
<1> DEFINE q == Content(input) \o incoming
\* A step that leaves a direction alone is a step of its queue.
<1>4. ASSUME input' = input, incoming' = incoming, peerGone' = peerGone, got' = << >>
      PROVE  InputStep
  <2>1. Content(input') \o incoming' = q
    BY <1>4
  <2> HIDE DEF q
  <2>2. 0 \in 0 .. Len(q) /\ << >> = SubSeq(q, 1, 0) /\ q = SubSeq(q, 0 + 1, Len(q))
    BY <1>3, NothingTaken DEF q
  <2> QED
    BY <1>4, <2>1, <2>2 DEF InputStep, q
<1>5. ASSUME output' = output, peerGone' = peerGone, taken' = << >>
      PROVE  OutputStep
  <2>1. Content(output') = Content(output)
    BY <1>5
  <2>2. LET s == Content(output)
        IN  0 \in 0 .. Len(s) /\ << >> = SubSeq(s, 1, 0) /\ s = SubSeq(s, 0 + 1, Len(s))
    BY <1>2, NothingTaken
  <2> QED
    BY <1>5, <2>1, <2>2 DEF OutputStep
<1>6. CASE FdBuffer
  <2>1. /\ Sound(input', RSize) /\ Content(input') = << >>
        /\ Sound(output', WSize) /\ Content(output') = << >>
    BY <1>6, SizesAssumption, NewIsEmpty DEF FdBuffer
  <2>2. TypeOK'
    <3>1. /\ closed' = FALSE /\ read_error' = FALSE /\ write_error' = FALSE
          /\ incoming' = << >> /\ clogged' = FALSE /\ peerGone' = FALSE
          /\ got' = << >> /\ taken' = << >>
      BY <1>6 DEF FdBuffer, Quiet
    <3>2. << >> \in Seq(Byte) /\ Len(<< >>) <= SocketRoom
      BY SizesAssumption
    <3> QED
      BY <2>1, <3>1, <3>2 DEF TypeOK
  <2>3. Content(input') \o incoming' = << >>
    BY <1>6, <2>1 DEF FdBuffer
  <2> QED
    BY <1>6, <2>1, <2>2, <2>3 DEF FdBuffer, Quiet, InputStep, OutputStep
<1>7. CASE KillFdBuffer
  <2>1. /\ Sound(input', 0) /\ Content(input') = << >>
        /\ Sound(output', 0) /\ Content(output') = << >>
    BY <1>7, DeallocatedIsEmpty DEF KillFdBuffer
  <2>2. TypeOK'
    <3>1. /\ closed' = closed /\ read_error' = read_error /\ write_error' = write_error
          /\ incoming' = << >> /\ clogged' = FALSE /\ peerGone' = FALSE
          /\ got' = << >> /\ taken' = << >>
      BY <1>7 DEF KillFdBuffer, Quiet, flags
    <3>2. << >> \in Seq(Byte) /\ Len(<< >>) <= SocketRoom
      BY SizesAssumption
    <3> QED
      BY <1>1, <2>1, <3>1, <3>2 DEF TypeOK
  <2>3. Content(input') \o incoming' = << >>
    BY <1>7, <2>1 DEF KillFdBuffer
  <2> QED
    BY <1>7, <2>1, <2>2, <2>3 DEF KillFdBuffer, Quiet, InputStep, OutputStep
<1>8. ASSUME NEW data \in Writes, WriteBuffer(data)
      PROVE  TypeOK' /\ InputStep /\ OutputStep
  <2> DEFINE k == Least(m - output.used, Len(data))
  <2>1. data \in Seq(Byte)
    BY CallsAssumption
  <2>2. /\ Sound(output', m)
        /\ Content(output') = Content(output) \o SubSeq(data, 1, k)
    BY <1>0, <1>8, <2>1, WriteAppends DEF WriteBuffer
  <2>3. SubSeq(data, 1, k) \in Seq(Byte)
    <3>1. k \in 0 .. Len(data)
      BY <1>2, <2>1 DEF Least
    <3> HIDE DEF k
    <3> QED
      BY <2>1, <3>1, Halves
  <2>4. TypeOK'
    BY <1>0, <1>1, <1>8, <2>2 DEF WriteBuffer, TypeOK, Quiet, flags, peer
  <2>5. InputStep
    BY <1>4, <1>8 DEF WriteBuffer, Quiet, peer
  <2>6. OutputStep
    <3> HIDE DEF k
    <3> QED
      BY <1>8, <2>2, <2>3 DEF WriteBuffer, Quiet, peer, OutputStep
  <2> QED
    BY <2>4, <2>5, <2>6
<1>9. ASSUME NEW c \in Reads, ReadBuffer(c)
      PROVE  TypeOK' /\ InputStep /\ OutputStep
  <2> DEFINE k == Least(input.used, c)
             s == Content(input)
  <2>1. c \in Nat
    BY CallsAssumption
  <2>2. /\ k \in 0 .. Len(s) /\ got' = SubSeq(s, 1, k)
        /\ Sound(input', n) /\ Content(input') = SubSeq(s, k + 1, Len(s))
    BY <1>0, <1>9, <2>1, ReadTakes DEF ReadBuffer
  <2>3. s \in Seq(Byte)
    BY <1>2
  <2>4. got' \in Seq(Byte)
    <3> HIDE DEF k, s
    <3> QED
      BY <2>2, <2>3, Halves
  <2>5. TypeOK'
    BY <1>0, <1>1, <1>9, <2>2, <2>4 DEF ReadBuffer, TypeOK, flags, peer
  <2>6. /\ Len(q) = Len(s) + Len(incoming)
        /\ SubSeq(q, 1, k) = SubSeq(s, 1, k)
        /\ SubSeq(q, k + 1, Len(q)) = SubSeq(s, k + 1, Len(s)) \o incoming
    <3> HIDE DEF k
    <3> QED
      BY <1>1, <2>2, <2>3, CutConcat
  <2>7. InputStep
    <3>1. k \in 0 .. Len(q)
      <4> HIDE DEF k, q, s
      <4> QED
        BY <1>1, <2>2, <2>3, <2>6
    <3>2. incoming' = incoming /\ peerGone' = peerGone
      BY <1>9 DEF ReadBuffer, peer
    <3> HIDE DEF k, s
    <3> QED
      BY <2>2, <2>6, <3>1, <3>2 DEF InputStep
  <2>8. OutputStep
    BY <1>5, <1>9 DEF ReadBuffer, peer
  <2> QED
    BY <2>5, <2>7, <2>8
<1>10. CASE Poll
  <2>1. /\ Sound(input', n) /\ incoming' \in Seq(Byte) /\ Len(incoming') <= SocketRoom
        /\ closed' \in BOOLEAN /\ read_error' \in BOOLEAN
        /\ Content(input') \o incoming' = q
    <3>1. CASE UNCHANGED <<input, incoming, closed, read_error>>
      BY <1>0, <1>1, <3>1
    <3>2. CASE ReadSome
      <4>1. PICK k \in 1 .. Least(Len(incoming), Least(Chunk, n - input.used)) :
              /\ input' = write_to_iofifo(input, SubSeq(incoming, 1, k))
              /\ incoming' = SubSeq(incoming, k + 1, Len(incoming))
        BY <3>2, <1>2 DEF ReadSome
      <4>2. k \in 0 .. Len(incoming) /\ k <= n - input.used
        BY <1>1, <1>2, SizesAssumption DEF Least
      <4> DEFINE d == SubSeq(incoming, 1, k)
                 e == SubSeq(incoming, k + 1, Len(incoming))
      <4>3. d \in Seq(Byte) /\ Len(d) = k /\ e \in Seq(Byte) /\ Len(e) = Len(incoming) - k
        BY <1>1, <4>2, Halves
      <4>4. d \o e = incoming
        BY <1>1, <4>2, HalvesJoin
      <4> HIDE DEF d, e
      <4>5. Least(n - input.used, Len(d)) = k
        BY <1>2, <4>2, <4>3 DEF Least
      <4>6. SubSeq(d, 1, k) = d
        BY <4>3, SubSeqFull
      <4>7. /\ Sound(write_to_iofifo(input, d), n)
            /\ Content(write_to_iofifo(input, d)) = Content(input) \o d
        <5>1. /\ Sound(write_to_iofifo(input, d), n)
              /\ Content(write_to_iofifo(input, d))
                   = Content(input) \o SubSeq(d, 1, Least(n - input.used, Len(d)))
          BY <1>0, <4>3, WriteAppends, Zenon
        <5> QED
          BY <5>1, <4>5, <4>6, Zenon
      <4>8. (Content(input) \o d) \o e = Content(input) \o (d \o e)
        BY <1>2, <4>3, Associative, Zenon
      <4>9. input' = write_to_iofifo(input, d) /\ incoming' = e
        BY <4>1 DEF d, e
      <4>10. Len(incoming') <= SocketRoom
        BY <1>1, <4>2, <4>3, <4>9, SizesAssumption
      <4> QED
        BY <1>1, <3>2, <4>3, <4>4, <4>7, <4>8, <4>9, <4>10 DEF ReadSome
    <3>3. CASE ReadNothing
      BY <1>0, <1>1, <3>3 DEF ReadNothing
    <3> QED
      BY <1>10, <3>1, <3>2, <3>3 DEF Poll
  <2>2. peerGone' = peerGone /\ clogged' = clogged /\ got' = << >>
    BY <1>10 DEF Poll
  <2>3. InputStep
    <3> HIDE DEF q
    <3>1. 0 \in 0 .. Len(q) /\ << >> = SubSeq(q, 1, 0) /\ q = SubSeq(q, 0 + 1, Len(q))
      BY <1>3, NothingTaken DEF q
    <3> QED
      BY <2>1, <2>2, <3>1 DEF InputStep, q
  <2>4. Sound(output', m) /\ taken' \in Seq(Byte) /\ write_error' \in BOOLEAN /\ OutputStep
    <3> DEFINE s == Content(output)
    <3>1. CASE UNCHANGED <<output, write_error>> /\ taken' = << >>
      BY <1>0, <1>1, <1>5, <2>2, <3>1
    <3>2. CASE WriteSome
      <4>1. PICK k \in 1 .. Maxwrite :
              /\ taken' = SubSeq(BytesRead(output, Maxwrite), 1, k)
              /\ output' = requeue_iofifo(read_from_iofifo(output, Maxwrite), Maxwrite - k)
              /\ write_error' = write_error
        BY <3>2 DEF WriteSome
      <4>2. Maxwrite \in Nat /\ k \in 0 .. Least(Chunk, output.used) /\ Chunk \in Nat
        BY <1>2, SizesAssumption DEF Maxwrite, Least
      <4>3. /\ k \in 0 .. Len(s) /\ taken' = SubSeq(s, 1, k)
            /\ Sound(output', m) /\ Content(output') = SubSeq(s, k + 1, Len(s))
        <5> DEFINE a == Least(Chunk, output.used)
                   g == requeue_iofifo(read_from_iofifo(output, a), a - k)
        <5>1. taken' = SubSeq(BytesRead(output, a), 1, k) /\ output' = g
          BY <4>1 DEF Maxwrite
        <5>2. m \in Nat /\ Sound(output, m) /\ Chunk \in Nat /\ k \in 0 .. Least(Chunk, output.used)
          BY <1>0, <4>2
        <5>3. /\ k \in 0 .. Len(Content(output))
              /\ SubSeq(BytesRead(output, a), 1, k) = SubSeq(Content(output), 1, k)
              /\ Sound(g, m)
              /\ Content(g) = SubSeq(Content(output), k + 1, Len(Content(output)))
          BY <5>2, RefusedGoesBack
        <5> HIDE DEF g
        <5> QED
          BY <5>1, <5>3
      <4>4. taken' \in Seq(Byte)
        BY <1>2, <4>3, Halves
      <4>5. OutputStep
        BY <2>2, <4>3 DEF OutputStep
      <4> QED
        BY <1>1, <4>1, <4>3, <4>4, <4>5
    <3>3. CASE peerGone /\ WriteFails
      <4> DEFINE k == Least(output.used, Maxwrite)
      <4>1. Maxwrite \in Nat
        BY <1>2, SizesAssumption DEF Maxwrite, Least
      <4>2. /\ k \in 0 .. Len(s)
            /\ Sound(output', m) /\ Content(output') = SubSeq(s, k + 1, Len(s))
        BY <1>0, <3>3, <4>1, ReadTakes DEF WriteFails
      <4> HIDE DEF k
      <4>3. OutputStep
        BY <2>2, <3>3, <4>2 DEF OutputStep, WriteFails
      <4> QED
        BY <3>3, <4>2, <4>3 DEF WriteFails
    <3> QED
      BY <1>10, <3>1, <3>2, <3>3 DEF Poll
  <2>5. TypeOK'
    BY <1>0, <1>1, <2>1, <2>2, <2>4 DEF TypeOK
  <2> QED
    BY <2>3, <2>4, <2>5
<1>11. ASSUME NEW byte \in Byte, PeerSend(byte)
       PROVE  TypeOK' /\ InputStep /\ OutputStep
  <2>1. incoming' \in Seq(Byte) /\ Len(incoming') <= SocketRoom
    BY <1>1, <1>11, SizesAssumption DEF PeerSend
  <2>2. TypeOK'
    BY <1>0, <1>1, <1>11, <2>1 DEF PeerSend, TypeOK, Quiet, flags
  <2>3. Content(input') \o incoming' = Append(q, byte)
    <3> DEFINE d == <<byte>>
               s == Content(input)
    <3>1. incoming' = incoming \o d /\ input' = input
      BY <1>1, <1>11, AppendIsConcat DEF PeerSend
    <3>2. d \in Seq(Byte)
      OBVIOUS
    <3>3. Append(q, byte) = q \o d
      BY <1>3, AppendIsConcat
    <3>4. s \in Seq(Byte)
      BY <1>2
    <3> HIDE DEF d, s
    <3>5. (s \o incoming) \o d = s \o (incoming \o d)
      BY <1>1, <3>2, <3>4, Associative
    <3> QED
      BY <3>1, <3>3, <3>5 DEF s
  <2>4. InputStep
    <3> HIDE DEF q
    <3> QED
      BY <1>11, <2>3 DEF PeerSend, Quiet, InputStep, q
  <2>5. OutputStep
    BY <1>5, <1>11 DEF PeerSend, Quiet
  <2> QED
    BY <2>2, <2>4, <2>5
<1>12. CASE PeerClose
  <2>1. TypeOK'
    <3>1. /\ input' = input /\ output' = output /\ incoming' = incoming
          /\ closed' = closed /\ read_error' = read_error /\ write_error' = write_error
          /\ clogged' = FALSE /\ peerGone' = TRUE
          /\ got' = << >> /\ taken' = << >>
      BY <1>12 DEF PeerClose, Quiet, flags
    <3>2. << >> \in Seq(Byte)
      OBVIOUS
    <3>3. Sound(input', n) /\ Sound(output', m) /\ Len(incoming') <= SocketRoom
      BY <1>0, <1>1, <3>1
    <3> QED
      BY <1>0, <1>1, <3>1, <3>2, <3>3 DEF TypeOK
  <2> QED
    BY <1>12, <2>1 DEF PeerClose, Quiet, InputStep, OutputStep
<1>13. CASE Clog
  <2>1. TypeOK'
    BY <1>0, <1>1, <1>13 DEF Clog, TypeOK, Quiet, flags
  <2> QED
    BY <1>4, <1>5, <1>13, <2>1 DEF Clog, Quiet
<1> QED
  BY <1>6, <1>7, <1>8, <1>9, <1>10, <1>11, <1>12, <1>13 DEF Next

-----------------------------------------------------------------------------
(* Theorems.                                                               *)

\* The fifos stay sound: the pointers, the count and the size agree after
\* any calls of write_buffer, read_buffer and poll_buffers.
THEOREM BufioTypeCorrect == Spec => []TypeOK
<1>1. Init => TypeOK
  <2>1. << >> \in Seq(Byte) /\ Len(<< >>) <= SocketRoom
    BY SizesAssumption
  <2> QED
    BY <2>1, DeallocatedIsEmpty DEF Init, TypeOK
<1>2. TypeOK /\ [Next]_vars => TypeOK'
  <2>1. CASE Next
    BY <2>1, StepsKeep
  <2>2. CASE UNCHANGED vars
    BY <2>2 DEF vars, flags, peer, TypeOK
  <2> QED
    BY <2>1, <2>2
<1> QED
  BY <1>1, <1>2, PTL DEF Spec

\* The server's bytes reach the kernel in order, each once, and none is lost
\* while the client is there.
THEOREM OutputIsQueue == Spec => OutputIsAQueue
<1>1. Init => Outward!Init
  BY DeallocatedIsEmpty DEF Init, Outward!Init
<1>2. ASSUME TypeOK, TypeOK', [Next]_vars
      PROVE  [Outward!Next]_Outward!vars
  <2>1. CASE Next
    <3> DEFINE q == Content(output)
               r == Content(output')
    <3>1. q \in Seq(Byte) /\ r \in Seq(Byte) /\ Len(q) <= WSize /\ Len(r) <= WSize
      <4>1. /\ Sound(output, WSize) \/ Sound(output, 0)
            /\ Sound(output', WSize) \/ Sound(output', 0)
        BY <1>2 DEF TypeOK
      <4> QED
        BY <4>1, ContentFits, SizesAssumption
    <3>2. OutputStep
      BY <1>2, <2>1, StepsKeep
    <3>3. CASE /\ \E k \in 0 .. Len(q) : taken' = SubSeq(q, 1, k) /\ r = SubSeq(q, k + 1, Len(q))
               /\ peerGone' = peerGone
      BY <3>3 DEF Outward!Next, Outward!Get
    <3>4. CASE /\ \E data \in Seq(Byte) : r = q \o data
               /\ taken' = << >> /\ peerGone' = peerGone
      <4>1. PICK data \in Seq(Byte) : r = q \o data
        BY <3>4
      <4> HIDE DEF q, r
      <4>2. Len(q) \in 0 .. Len(q) /\ SubSeq(r, 1, Len(q)) = SubSeq(q, 1, Len(q))
            /\ Len(r) = Len(q) + Len(data)
        BY <3>1, <4>1, CutConcat
      <4>3. SubSeq(q, 1, Len(q)) = q
        BY <3>1, SubSeqFull
      <4>4. Len(q) <= Len(r)
        BY <3>1, <4>1, <4>2
      <4> QED
        BY <3>1, <3>4, <4>2, <4>3, <4>4 DEF q, r, Outward!Next, Outward!Put
    <3>5. CASE /\ peerGone
               /\ \E k \in 0 .. Len(q) : r = SubSeq(q, k + 1, Len(q))
               /\ taken' = << >> /\ peerGone' = peerGone
      BY <3>5 DEF Outward!Next, Outward!Lose
    <3>6. CASE r = q /\ taken' = << >> /\ peerGone' = TRUE
      BY <3>6 DEF Outward!Next, Outward!Leave
    <3>7. CASE r = << >> /\ taken' = << >> /\ peerGone' = FALSE
      BY <3>7 DEF Outward!Next, Outward!Restart
    <3> QED
      BY <3>2, <3>3, <3>4, <3>5, <3>6, <3>7 DEF OutputStep
  <2>2. CASE UNCHANGED vars
    BY <2>2 DEF vars, flags, peer, Outward!vars
  <2> QED
    BY <1>2, <2>1, <2>2
<1> QED
  BY <1>1, <1>2, BufioTypeCorrect, PTL DEF Spec, OutputIsAQueue, Outward!Spec

\* The client's bytes reach the handlers in order, each once, and nothing of
\* an earlier client does.
THEOREM InputIsQueue == Spec => InputIsAQueue
<1>1. Init => Inward!Init
  <2>1. << >> \o << >> = << >>
    OBVIOUS
  <2> QED
    BY <2>1, DeallocatedIsEmpty DEF Init, Inward!Init
<1>2. ASSUME TypeOK, TypeOK', [Next]_vars
      PROVE  [Inward!Next]_Inward!vars
  <2>1. CASE Next
    <3> DEFINE q == Content(input) \o incoming
               r == Content(input') \o incoming'
    <3>1. /\ q \in Seq(Byte) /\ Len(q) <= RSize + SocketRoom
          /\ r \in Seq(Byte) /\ Len(r) <= RSize + SocketRoom
      <4>1. /\ Content(input) \in Seq(Byte) /\ Len(Content(input)) <= RSize
            /\ Content(input') \in Seq(Byte) /\ Len(Content(input')) <= RSize
        <5>1. /\ Sound(input, RSize) \/ Sound(input, 0)
              /\ Sound(input', RSize) \/ Sound(input', 0)
          BY <1>2 DEF TypeOK
        <5> QED
          BY <5>1, ContentFits, SizesAssumption
      <4>2. /\ incoming \in Seq(Byte) /\ Len(incoming) <= SocketRoom
            /\ incoming' \in Seq(Byte) /\ Len(incoming') <= SocketRoom
        BY <1>2 DEF TypeOK
      <4> QED
        BY <4>1, <4>2, ConcatProperties, SizesAssumption
    <3>2. InputStep
      BY <1>2, <2>1, StepsKeep
    <3>3. CASE /\ \E k \in 0 .. Len(q) : got' = SubSeq(q, 1, k) /\ r = SubSeq(q, k + 1, Len(q))
               /\ peerGone' = peerGone
      BY <3>3 DEF Inward!Next, Inward!Get
    <3>4. CASE /\ \E b \in Byte : r = Append(q, b)
               /\ got' = << >> /\ peerGone' = peerGone
      <4>1. PICK b \in Byte : r = Append(q, b)
        BY <3>4
      <4> HIDE DEF q, r
      <4>2. <<b>> \in Seq(Byte) /\ r = q \o <<b>>
        BY <3>1, <4>1, AppendIsConcat
      <4>3. SubSeq(r, 1, Len(q)) = SubSeq(q, 1, Len(q)) /\ Len(r) = Len(q) + 1
        BY <3>1, <4>1, <4>2, CutConcat
      <4>4. SubSeq(q, 1, Len(q)) = q
        BY <3>1, SubSeqFull
      <4>5. Len(q) <= Len(r)
        BY <3>1, <4>3
      <4> QED
        BY <3>1, <3>4, <4>3, <4>4, <4>5 DEF q, r, Inward!Next, Inward!Put
    <3>5. CASE r = q /\ got' = << >> /\ peerGone' = TRUE
      BY <3>5 DEF Inward!Next, Inward!Leave
    <3>6. CASE r = << >> /\ got' = << >> /\ peerGone' = FALSE
      BY <3>6 DEF Inward!Next, Inward!Restart
    <3> QED
      BY <3>2, <3>3, <3>4, <3>5, <3>6 DEF InputStep
  <2>2. CASE UNCHANGED vars
    BY <2>2 DEF vars, flags, peer, Inward!vars
  <2> QED
    BY <1>2, <2>1, <2>2
<1> QED
  BY <1>1, <1>2, BufioTypeCorrect, PTL DEF Spec, InputIsAQueue, Inward!Spec
=============================================================================
