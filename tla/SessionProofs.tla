--------------------------- MODULE SessionProofs ---------------------------
(***************************************************************************)
(* Proofs about Session: the client's idea of its channel and the server's *)
(* list agree, as far as the requests and words still in the pipes allow.  *)
(*                                                                         *)
(* First comes what the server does with one message, seen from the        *)
(* client: which seats its user has afterwards (Seats), and what he is     *)
(* told (WordsOf, Granted, Refused, Seated).  Then what is in the pipes,   *)
(* the inductive invariant SessionInvariant, that every action keeps it,   *)
(* and the two theorems.  The invariant says where a channel change can    *)
(* be: asked for and still in the pipe to the server, answered and still   *)
(* in the pipe to the client, or over.                                     *)
(***************************************************************************)
EXTENDS Session, ChannelsProofs, SequenceTheorems

\* What the client heeds is about its own user.
Word(kind, c) == [to |-> me, kind |-> kind, chan |-> c, who |-> me]

WordKind == {"JOINCHANNEL"} \cup Refusals

\* What a request about the user tells him: his own JOINCHANNEL if he has got the
\* right to read, a ban if he is banned by it.
LEMMA MyRequest ==
  ASSUME NEW c \in Channel, NEW ch \in ChannelRecord, GoodChannel(ch), NEW q, SafeRequest(q),
         Refusal(ch, me, q) = "OK"
  PROVE  LET new     == NewAccess(ch, me, q)
             old     == ch.access[me]
             packets == Announcements(c, ch, me, q)
         IN  /\ \A p \in packets : Heeded(p) =>
                  \/ p = Word("JOINCHANNEL", c) /\ "READ" \in new
                       /\ (q.forcemsg \/ "READ" \notin old)
                  \/ p = Word("BANNED", c) /\ "BANNED" \in new \ old
             /\ "READ" \in new /\ (q.forcemsg \/ "READ" \notin old) =>
                  Word("JOINCHANNEL", c) \in packets
             /\ "BANNED" \in new \ old => Word("BANNED", c) \in packets
<1> DEFINE new     == NewAccess(ch, me, q)
           old     == ch.access[me]
           hearers == Readers(Changed(ch, me, q))
<1>0. me \in Node
  BY SessionAssumption
<1>1. OnChannel(new) <=> "READ" \in new
  BY <1>0, AllowedEffect
<1>2. OnChannel(old) <=> "READ" \in old
  BY <1>0 DEF GoodChannel, OnChannel, ChannelRecord
<1>3. me \in hearers <=> "READ" \in new
  <2>1. hearers = IF "READ" \in new THEN Readers(ch) \cup {me} ELSE Readers(ch) \ {me}
    BY <1>0, AllowedEffect
  <2> HIDE DEF hearers, new
  <2> QED
    BY <2>1
<1>4. Announcements(c, ch, me, q) =
        UNION {When((q.forcemsg \/ ~OnChannel(old)) /\ OnChannel(new),
                    PacketsTo(hearers, "JOINCHANNEL", c, me)),
               When((q.forcemsg \/ OnChannel(old)) /\ ~OnChannel(new),
                    PacketsTo(hearers, "LEAVECHANNEL", c, me)),
               Notices(c, me, old, new)}
  BY DEF Announcements
<1> HIDE DEF new, old, hearers
<1>5. ASSUME NEW p \in Notices(c, me, old, new)
      PROVE  /\ p.to = me /\ p.chan = c /\ p.who = me
             /\ p = Word(p.kind, c)
             /\ p.kind \in {"INVITED", "UNINVITED", "BANNED", "UNBANNED"}
             /\ p.kind = "BANNED" => "BANNED" \in new \ old
  BY <1>5 DEF Notices, When, PacketsTo, Word
<1>6. "BANNED" \in new \ old => Word("BANNED", c) \in Notices(c, me, old, new)
  BY DEF Notices, When, PacketsTo, Word
<1>7. ASSUME NEW p \in PacketsTo(hearers, "JOINCHANNEL", c, me), p.to = me
      PROVE  p = Word("JOINCHANNEL", c)
  BY <1>7 DEF PacketsTo, Word
<1>8. \A p \in PacketsTo(hearers, "LEAVECHANNEL", c, me) :
        p.kind = "LEAVECHANNEL" /\ p.to \in hearers
  BY DEF PacketsTo
<1>9. me \in hearers => Word("JOINCHANNEL", c) \in PacketsTo(hearers, "JOINCHANNEL", c, me)
  BY DEF PacketsTo, Word
<1>10. ASSUME NEW p \in Announcements(c, ch, me, q), Heeded(p)
       PROVE  \/ p = Word("JOINCHANNEL", c) /\ "READ" \in new /\ (q.forcemsg \/ "READ" \notin old)
              \/ p = Word("BANNED", c) /\ "BANNED" \in new \ old
  <2>1. p.to = me
    BY <1>10 DEF Heeded
  <2>2. CASE p \in PacketsTo(hearers, "JOINCHANNEL", c, me)
               /\ (q.forcemsg \/ ~OnChannel(old)) /\ OnChannel(new)
    BY <1>1, <1>2, <1>7, <2>1, <2>2
  <2>3. CASE p \in PacketsTo(hearers, "LEAVECHANNEL", c, me) /\ ~OnChannel(new)
    BY <1>1, <1>3, <1>8, <2>1, <2>3
  <2>4. CASE p \in Notices(c, me, old, new)
    BY <1>5, <1>10, <2>4 DEF Heeded, Refusals
  <2> QED
    BY <1>4, <1>10, <2>2, <2>3, <2>4 DEF When
<1>11. "READ" \in new /\ (q.forcemsg \/ "READ" \notin old) =>
         Word("JOINCHANNEL", c) \in Announcements(c, ch, me, q)
  BY <1>1, <1>2, <1>3, <1>4, <1>9 DEF When
<1>12. "BANNED" \in new \ old => Word("BANNED", c) \in Announcements(c, ch, me, q)
  BY <1>4, <1>6
<1> QED
  BY <1>10, <1>11, <1>12 DEF new, old

\* Nothing about another user is heeded.
LEMMA OthersRequest ==
  ASSUME NEW c \in Channel, NEW ch \in ChannelRecord, GoodChannel(ch), NEW q, SafeRequest(q),
         NEW n \in Node \ {me}
  PROVE  LET outcome == Outcome(c, ch, n, {n}, q)
         IN  /\ me \in Readers(outcome.ch) <=> me \in Readers(ch)
             /\ \A p \in outcome.packets : ~Heeded(p)
<1>1. CASE Refusal(ch, n, q) = "OK"
  <2>1. me \in Readers(Changed(ch, n, q)) <=> me \in Readers(ch)
    <3> DEFINE after == Changed(ch, n, q)
               new   == NewAccess(ch, n, q)
    <3>1. Readers(after) = IF "READ" \in new THEN Readers(ch) \cup {n} ELSE Readers(ch) \ {n}
      BY <1>1, AllowedEffect
    <3> HIDE DEF after, new
    <3>2. me \in Readers(after) <=> me \in Readers(ch)
      BY <3>1
    <3> QED
      BY <3>2 DEF after
  <2>2. \A p \in Announcements(c, ch, n, q) :
          /\ p.who = n
          /\ p.to = n \/ p.kind \in {"JOINCHANNEL", "LEAVECHANNEL"}
    BY DEF Announcements, Notices, When, PacketsTo
  <2> QED
    BY <1>1, <2>1, <2>2 DEF Outcome, Heeded, Refusals
<1>2. CASE Refusal(ch, n, q) # "OK"
  BY <1>2 DEF Outcome, PacketsTo, Heeded
<1> QED
  BY <1>1, <1>2

\* What the server tells the client in a step is about one channel.
WordsOf(c) == \A p \in sent' : Heeded(p) => p.kind \in WordKind /\ p = Word(p.kind, c)

\* A step in which the user may lose his seat, not without a word, but gets none.
NoSeatWon ==
  /\ Seats' \subseteq Seats
  /\ \A p \in sent' : Heeded(p) => p.kind \in Refusals
  /\ Seats' # Seats => \E p \in sent' : Heeded(p)

\* The seats after one channel was replaced.
LEMMA SeatsAfter ==
  ASSUME channels \in [Channel -> ChannelRecord], NEW c \in Channel, NEW ch,
         channels' = [channels EXCEPT ![c] = ch]
  PROVE  Seats' = IF me \in Readers(ch) THEN Seats \cup {c} ELSE Seats \ {c}
<1>1. \A d \in Channel : channels'[d] = IF d = c THEN ch ELSE channels[d]
  OBVIOUS
<1>2. Seats' = {d \in Channel : me \in Readers(channels'[d])}
  BY DEF Seats
<1> QED
  BY <1>1, <1>2 DEF Seats

\* A step that keeps the readers of the channel and tells the client nothing.
LEMMA NothingForMe ==
  ASSUME Seats' = Seats, \A p \in sent' : ~Heeded(p), NEW c \in Channel
  PROVE  NoSeatWon /\ WordsOf(c)
BY DEF NoSeatWon, WordsOf

LEMMA SameSeats == channels' = channels => Seats' = Seats
BY DEF Seats

\* A request about the user, and what it leads to.
Granted(c, q, new, old) ==
  /\ Seats' = IF "READ" \in new THEN Seats \cup {c} ELSE Seats \ {c}
  /\ \A p \in sent' : Heeded(p) =>
       \/ p = Word("JOINCHANNEL", c) /\ "READ" \in new /\ (q.forcemsg \/ "READ" \notin old)
       \/ p = Word("BANNED", c) /\ "BANNED" \in new \ old
  /\ "READ" \in new /\ (q.forcemsg \/ "READ" \notin old) => Word("JOINCHANNEL", c) \in sent'
  /\ "BANNED" \in new \ old => Word("BANNED", c) \in sent'

Refused == Seats' = Seats /\ NoSeatWon /\ \E p \in sent' : Heeded(p)

LEMMA WordsAreHeeded ==
  ASSUME NEW c \in Channel, NEW kind \in WordKind
  PROVE  Heeded(Word(kind, c)) /\ Word(kind, c).kind = kind
BY DEF Heeded, Word, WordKind

\* channel_stat_change for the user: refused, or granted.
LEMMA MyOutcome ==
  ASSUME ServerInvariant, Online(me), NEW c \in Channel, NEW q, SafeRequest(q),
         NEW ch \in ChannelRecord, GoodChannel(ch), Readers(ch) = Readers(channels[c]),
         NEW more, \A p \in more : ~Heeded(p),
         channels' = [channels EXCEPT ![c] = Outcome(c, ch, me, {me}, q).ch],
         sent' = Delivered(more \cup Outcome(c, ch, me, {me}, q).packets)
  PROVE  /\ WordsOf(c)
         /\ \/ Refusal(ch, me, q) # "OK" /\ Refused
            \/ Refusal(ch, me, q) = "OK" /\ Granted(c, q, NewAccess(ch, me, q), ch.access[me])
<1> DEFINE refusal == Refusal(ch, me, q)
           new     == NewAccess(ch, me, q)
           old     == ch.access[me]
           packets == Outcome(c, ch, me, {me}, q).packets
           after   == Outcome(c, ch, me, {me}, q).ch
<1>0. channels \in [Channel -> ChannelRecord] /\ me \in Node
  BY SessionAssumption DEF ServerInvariant, TypeOK
<1>1. Seats' = IF me \in Readers(after) THEN Seats \cup {c} ELSE Seats \ {c}
  BY <1>0, SeatsAfter
<1>2. \A p : p.to = me => (p \in sent' <=> p \in more \cup packets)
  BY DEF Delivered
<1>3. me \in Readers(channels[c]) <=> c \in Seats
  BY DEF Seats
<1>4. CASE refusal # "OK"
  <2>1. refusal \in Refusals
    BY <1>4 DEF Refusal, Refusals
  <2>2. after = ch /\ packets = {Word(refusal, c)}
    <3>1. packets = PacketsTo({me}, refusal, c, me)
      BY <1>4 DEF Outcome
    <3>2. PacketsTo({me}, refusal, c, me) = {Word(refusal, c)}
      BY DEF PacketsTo, Word
    <3> QED
      BY <1>4, <3>1, <3>2 DEF Outcome
  <2> HIDE DEF refusal, packets, after
  <2>3. Heeded(Word(refusal, c)) /\ Word(refusal, c).kind = refusal /\ Word(refusal, c).to = me
    BY <2>1, WordsAreHeeded DEF Word, WordKind
  <2>4. Word(refusal, c) \in sent'
    BY <1>2, <2>2, <2>3
  <2>5. ASSUME NEW p \in sent', Heeded(p) PROVE p = Word(refusal, c)
    BY <1>2, <2>2, <2>5 DEF Heeded
  <2>6. Seats' = Seats
    BY <1>1, <1>3, <2>2
  <2>7. WordsOf(c)
    BY <2>1, <2>3, <2>5 DEF WordsOf, WordKind
  <2>8. Refused
    BY <2>1, <2>3, <2>4, <2>5, <2>6 DEF Refused, NoSeatWon
  <2> QED
    BY <1>4, <2>7, <2>8 DEF refusal
<1>5. CASE refusal = "OK"
  <2>1. packets = Announcements(c, ch, me, q) /\ after = Changed(ch, me, q)
    BY <1>5 DEF Outcome
  <2>2. /\ \A p \in packets : Heeded(p) =>
             \/ p = Word("JOINCHANNEL", c) /\ "READ" \in new
                  /\ (q.forcemsg \/ "READ" \notin old)
             \/ p = Word("BANNED", c) /\ "BANNED" \in new \ old
        /\ "READ" \in new /\ (q.forcemsg \/ "READ" \notin old) =>
             Word("JOINCHANNEL", c) \in packets
        /\ "BANNED" \in new \ old => Word("BANNED", c) \in packets
    BY <1>5, <2>1, MyRequest
  <2>3. Readers(after) = IF "READ" \in new THEN Readers(ch) \cup {me} ELSE Readers(ch) \ {me}
    BY <1>0, <1>5, <2>1, AllowedEffect
  <2> HIDE DEF new, old, packets, after, refusal
  <2>4. Seats' = IF "READ" \in new THEN Seats \cup {c} ELSE Seats \ {c}
    BY <1>1, <2>3
  <2>5. ASSUME NEW p \in sent', Heeded(p) PROVE p \in packets
    BY <1>2, <2>5 DEF Heeded
  <2>6. \A kind : Word(kind, c) \in packets => Word(kind, c) \in sent'
    BY <1>2 DEF Word
  <2>7. Granted(c, q, new, old)
    BY <2>2, <2>4, <2>5, <2>6 DEF Granted
  <2>8. WordsOf(c)
    BY <2>2, <2>5, WordsAreHeeded DEF WordsOf, WordKind, Refusals
  <2> QED
    BY <1>5, <2>7, <2>8 DEF new, old, refusal
<1> QED
  BY <1>4, <1>5

\* Requests about others tell the client nothing.
LEMMA OthersStatChange ==
  ASSUME ServerInvariant, NEW c \in Channel, NEW q, SafeRequest(q), NEW n \in Node \ {me},
         StatChange(c, n, {n}, q)
  PROVE  NoSeatWon /\ WordsOf(c)
<1> DEFINE outcome == Outcome(c, channels[c], n, {n}, q)
<1>0. /\ channels \in [Channel -> ChannelRecord] /\ channels[c] \in ChannelRecord
      /\ GoodChannel(channels[c])
  BY DEF ServerInvariant, TypeOK
<1>1. CASE channels' = channels /\ sent' = {}
  BY <1>1, SameSeats, NothingForMe
<1>2. CASE channels' = [channels EXCEPT ![c] = outcome.ch] /\ sent' = Delivered(outcome.packets)
  <2>1. /\ me \in Readers(outcome.ch) <=> me \in Readers(channels[c])
        /\ \A p \in outcome.packets : ~Heeded(p)
    BY <1>0, OthersRequest
  <2> HIDE DEF outcome
  <2>2. Seats' = Seats
    BY <1>0, <1>2, <2>1, SeatsAfter DEF Seats
  <2>3. \A p \in sent' : ~Heeded(p)
    BY <1>2, <2>1 DEF Delivered
  <2> QED
    BY <2>2, <2>3, NothingForMe
<1> QED
  BY <1>1, <1>2 DEF StatChange, Crash, Delivered

\* A message that fails the checks of its sender costs no seat.
LEMMA RebuffedWords ==
  ASSUME NEW n \in Node, NEW c \in Channel, NEW checks, checks \in {Speaking, Moderating},
         Rebuffed(n, c, checks), n = me => checks = Speaking
  PROVE  NoSeatWon /\ WordsOf(c)
<1> DEFINE error == SenderError(channels[c], n, checks)
<1>1. Seats' = Seats
  BY SameSeats DEF Rebuffed
<1>2. sent' \subseteq PacketsTo({n}, error, c, n)
  BY DEF Rebuffed, Delivered
<1>3. n = me => error \in Refusals
  BY DEF Rebuffed, SenderError, Refusals, Speaking
<1> HIDE DEF error
<1>4. \A p \in sent' : Heeded(p) => p = Word(error, c) /\ p.kind = error /\ error \in Refusals
  <2>1. ASSUME NEW p \in sent', Heeded(p)
        PROVE  p = Word(error, c) /\ p.kind = error /\ error \in Refusals
    <3>1. p = [to |-> n, kind |-> error, chan |-> c, who |-> n]
      BY <1>2 DEF PacketsTo
    <3>2. n = me
      BY <2>1, <3>1 DEF Heeded
    <3> QED
      BY <1>3, <3>1, <3>2 DEF Word
  <2> QED
    BY <2>1
<1> QED
  BY <1>1, <1>4 DEF NoSeatWon, WordsOf, WordKind

LEMMA MyStatChange ==
  ASSUME ServerInvariant, NEW c \in Channel, NEW q, SafeRequest(q), StatChange(c, me, {me}, q)
  PROVE  /\ WordsOf(c)
         /\ \/ ~Online(me) /\ NoSeatWon
            \/ Online(me) /\ Refusal(channels[c], me, q) # "OK" /\ Refused
            \/ /\ Online(me) /\ Refusal(channels[c], me, q) = "OK"
               /\ Granted(c, q, NewAccess(channels[c], me, q), channels[c].access[me])
<1> DEFINE outcome == Outcome(c, channels[c], me, {me}, q)
<1>0. channels[c] \in ChannelRecord /\ GoodChannel(channels[c])
  BY DEF ServerInvariant, TypeOK
<1>1. CASE ~Online(me)
  <2>1. channels' = channels /\ sent' = {}
    BY <1>1 DEF StatChange, Crash, Delivered
  <2> QED
    BY <1>1, <2>1, SameSeats, NothingForMe
<1>2. CASE Online(me)
  <2>1. /\ channels' = [channels EXCEPT ![c] = outcome.ch]
        /\ sent' = Delivered(outcome.packets)
    BY <1>2 DEF StatChange
  <2> DEFINE none == {}
  <2>2. outcome.packets = none \cup outcome.packets /\ \A p \in none : ~Heeded(p)
    OBVIOUS
  <2> HIDE DEF none
  <2>3. sent' = Delivered(none \cup outcome.packets)
    BY <2>1, <2>2
  <2> QED
    BY <1>0, <1>2, <2>1, <2>2, <2>3, MyOutcome
<1> QED
  BY <1>1, <1>2

\* A request that sets no READ and is not one to be told of anyway.
LEMMA NoReadGiven ==
  ASSUME ServerInvariant, NEW c \in Channel, NEW ch \in ChannelRecord, GoodChannel(ch),
         ch.access = channels[c].access, ch.users = channels[c].users,
         NEW q, SafeRequest(q), q.read = -1, ~q.forcemsg,
         Granted(c, q, NewAccess(ch, me, q), ch.access[me])
  PROVE  NoSeatWon
<1> DEFINE new == NewAccess(ch, me, q)
           old == ch.access[me]
<1>0. me \in Node /\ q \in Request
  BY SessionAssumption DEF SafeRequest
<1>1. "READ" \in new => "READ" \in old
  BY <1>0, NewAccessElements
<1>2. "READ" \in old /\ "READ" \notin new => "BANNED" \in new /\ "BANNED" \notin old
  BY <1>0, NewAccessElements DEF GoodChannel
<1>3. c \in Seats <=> "READ" \in old
  <2>1. /\ Readers(ch) = Readers(channels[c])
        /\ me \in Readers(ch) <=> "READ" \in ch.access[me]
    BY <1>0, ReadersOfGood DEF Readers
  <2> QED
    BY <2>1 DEF Seats
<1>4. Granted(c, q, new, old)
  OBVIOUS
<1>5. Seats \subseteq Channel
  BY DEF Seats
<1> HIDE DEF new, old
<1>6. ASSUME NEW p \in sent', Heeded(p) PROVE p.kind \in Refusals
  BY <1>1, <1>4, <1>6, WordsAreHeeded DEF Granted, Refusals, WordKind
<1>7. Seats' \subseteq Seats
  BY <1>1, <1>3, <1>4 DEF Granted
<1>8. Seats' # Seats => Word("BANNED", c) \in sent'
  BY <1>1, <1>2, <1>3, <1>4 DEF Granted
<1> QED
  BY <1>6, <1>7, <1>8, WordsAreHeeded DEF NoSeatWon, WordKind, Refusals

\* What others do to him: at worst they ban him, and he is told.
LEMMA BansAreTold ==
  ASSUME ServerInvariant, NEW n \in Node \ {me}, NEW c \in Channel, NEW change \in {0, 1},
         SetPerm(n, c, me, "B", change)
  PROVE  NoSeatWon /\ WordsOf(c)
<1> DEFINE q == PermRequest("B", change)
<1>0. channels[c] \in ChannelRecord /\ GoodChannel(channels[c])
  BY DEF ServerInvariant, TypeOK
<1>1. SafeRequest(q) /\ q.read = -1 /\ ~q.forcemsg
  <2>1. "B" \in PermLetter
    BY DEF PermLetter
  <2>2. SafeRequest(q)
    BY <2>1, RequestsAreSafe
  <2> QED
    BY <2>2 DEF PermRequest
<1>2. Rebuffed(n, c, Moderating) \/ StatChange(c, me, {me}, q)
  BY DEF SetPerm
<1> HIDE DEF q
<1>3. CASE Rebuffed(n, c, Moderating)
  BY <1>3, RebuffedWords
<1>4. CASE StatChange(c, me, {me}, q)
  <2>1. /\ WordsOf(c)
        /\ \/ NoSeatWon
           \/ Refused
           \/ Granted(c, q, NewAccess(channels[c], me, q), channels[c].access[me])
    BY <1>1, <1>4, MyStatChange
  <2>2. Granted(c, q, NewAccess(channels[c], me, q), channels[c].access[me]) => NoSeatWon
    BY <1>0, <1>1, NoReadGiven
  <2> QED
    BY <2>1, <2>2 DEF Refused
<1> QED
  BY <1>2, <1>3, <1>4

\* His own lines get him banned at worst, and he is told.
LEMMA LinesAreTold ==
  ASSUME ServerInvariant, NEW c \in Channel, Distribute(me, c)
  PROVE  NoSeatWon /\ WordsOf(c)
<1> DEFINE ch      == [channels[c] EXCEPT !.lineout = LinesAfter(channels[c], me)]
           heard   == PacketsTo(Readers(ch), "MESSAGE", c, me)
           outcome == Outcome(c, ch, me, {me}, LineoutRequest)
<1>0. /\ me \in Node /\ channels \in [Channel -> ChannelRecord]
      /\ channels[c] \in ChannelRecord /\ GoodChannel(channels[c])
  BY SessionAssumption DEF ServerInvariant, TypeOK
<1>1. /\ ch \in ChannelRecord /\ GoodChannel(ch)
      /\ ch.access = channels[c].access /\ ch.users = channels[c].users
  <2>1. LinesAfter(channels[c], me) \in [Node -> Nat]
    BY <1>0, LinesAfterType
  <2>2. ch \in ChannelRecord /\ GoodChannel(ch)
    BY <1>0, <2>1, LineoutKeepsGood
  <2> QED
    BY <1>0, <2>2 DEF ChannelRecord
<1>2. Readers(ch) = Readers(channels[c])
  BY <1>1 DEF Readers
<1>3. \A p \in heard : ~Heeded(p)
  BY DEF PacketsTo, Heeded, Refusals
<1>4. \/ Rebuffed(me, c, Speaking)
      \/ channels' = [channels EXCEPT ![c] = ch] /\ sent' = Delivered(heard)
      \/ /\ Online(me)
         /\ channels' = [channels EXCEPT ![c] = outcome.ch]
         /\ sent' = Delivered(heard \cup outcome.packets)
      \/ channels' = channels /\ sent' = Delivered(heard)
  BY DEF Distribute, Crash
<1>5. SafeRequest(LineoutRequest) /\ LineoutRequest.read = -1 /\ ~LineoutRequest.forcemsg
  BY RequestsAreSafe DEF LineoutRequest
<1> HIDE DEF ch, heard
<1>6. CASE Rebuffed(me, c, Speaking)
  BY <1>0, <1>6, RebuffedWords
<1>7. CASE channels' \in {channels, [channels EXCEPT ![c] = ch]} /\ sent' = Delivered(heard)
  <2>1. Seats' = Seats
    BY <1>0, <1>2, <1>7, SameSeats, SeatsAfter DEF Seats
  <2>2. \A p \in sent' : ~Heeded(p)
    BY <1>3, <1>7 DEF Delivered
  <2> QED
    BY <2>1, <2>2, NothingForMe
<1>8. CASE /\ Online(me)
           /\ channels' = [channels EXCEPT ![c] = outcome.ch]
           /\ sent' = Delivered(heard \cup outcome.packets)
  <2>1. /\ WordsOf(c)
        /\ \/ Refused
           \/ Granted(c, LineoutRequest, NewAccess(ch, me, LineoutRequest), ch.access[me])
    BY <1>1, <1>2, <1>3, <1>5, <1>8, MyOutcome
  <2>2. Granted(c, LineoutRequest, NewAccess(ch, me, LineoutRequest), ch.access[me]) => NoSeatWon
    BY <1>1, <1>5, NoReadGiven
  <2> QED
    BY <2>1, <2>2 DEF Refused
<1> QED
  BY <1>4, <1>6, <1>7, <1>8

\* A LEAVE is refused only to those who are not on the channel.
LEMMA LeavesAreServed ==
  ASSUME ServerInvariant, NEW c \in Channel, Leave(me, c), Online(me)
  PROVE  /\ WordsOf(c)
         /\ Seats' \subseteq Seats \ {c}
         /\ \A p \in sent' : Heeded(p) => p.kind \in Refusals
<1> DEFINE ch == channels[c]
           q  == LeaveRequest
<1>0. ch \in ChannelRecord /\ GoodChannel(ch) /\ me \in Node
  BY SessionAssumption DEF ServerInvariant, TypeOK
<1>1. SafeRequest(q) /\ q.read = 0 /\ q \in Request
  BY RequestsAreSafe DEF LeaveRequest, SafeRequest
<1>2. /\ WordsOf(c)
      /\ \/ Refusal(ch, me, q) # "OK" /\ Refused
         \/ Refusal(ch, me, q) = "OK" /\ Granted(c, q, NewAccess(ch, me, q), ch.access[me])
  BY <1>1, MyStatChange DEF Leave
<1>3. ASSUME Refusal(ch, me, q) # "OK" PROVE c \notin Seats
  <2>1. Seats = {d \in Channel : me \in Readers(channels[d])}
    BY DEF Seats
  <2>2. me \notin Readers(ch)
    <3>1. "ALLJOIN" \in ch.flags /\ (~ch.open => ch.users = {})
      BY <1>0 DEF GoodChannel
    <3>2. me \in ch.users => ch.open /\ "BANNED" \in ch.access[me]
      BY <1>3, <3>1 DEF Refusal, LeaveRequest
    <3> QED
      BY <3>2 DEF Readers, OnChannel
  <2> QED
    BY <2>1, <2>2
<1>4. "READ" \notin NewAccess(ch, me, q)
  BY <1>0, <1>1, NewAccessElements
<1>5. Granted(c, q, NewAccess(ch, me, q), ch.access[me]) =>
        /\ Seats' = Seats \ {c}
        /\ \A p \in sent' : Heeded(p) => p.kind \in Refusals
  BY <1>4, WordsAreHeeded DEF Granted, WordKind, Refusals
<1> QED
  BY <1>2, <1>3, <1>5 DEF Refused, NoSeatWon

\* A JOIN gets him the seat, and word of it, or a refusal.
Seated(c) ==
  /\ Seats' = Seats \cup {c}
  /\ Word("JOINCHANNEL", c) \in sent'
  /\ \A p \in sent' : Heeded(p) => p = Word("JOINCHANNEL", c)

\* JOIN is answered: with a refusal, or with a seat and a JOINCHANNEL.
LEMMA JoinsAreAnswered ==
  ASSUME ServerInvariant, NEW c \in Channel, Join(me, c), Online(me)
  PROVE  WordsOf(c) /\ (Refused \/ Seated(c))
<1> DEFINE ch  == channels[c]
           q   == JoinRequest
           new == NewAccess(ch, me, q)
           old == ch.access[me]
<1>0. ch \in ChannelRecord /\ GoodChannel(ch) /\ me \in Node
  BY SessionAssumption DEF ServerInvariant, TypeOK
<1>1. SafeRequest(q) /\ q.read = 1 /\ q.banned = -1 /\ q.forcemsg /\ q \in Request
  BY RequestsAreSafe DEF JoinRequest, SafeRequest
<1>2. /\ WordsOf(c)
      /\ \/ Refusal(ch, me, q) # "OK" /\ Refused
         \/ Refusal(ch, me, q) = "OK" /\ Granted(c, q, new, old)
  BY <1>1, MyStatChange DEF Join
<1>3. ASSUME Refusal(ch, me, q) = "OK", Granted(c, q, new, old) PROVE Seated(c)
  <2>1. "READ" \in new
    BY <1>0, <1>1, NewAccessElements DEF BannedChange
  <2>2. "BANNED" \notin new
    <3>1. me \notin ch.users => old = {}
      BY <1>0 DEF GoodChannel
    <3>2. BannedChange(ch, me, q) = 0 \/ (BannedChange(ch, me, q) = -1 /\ "BANNED" \notin old)
      BY <1>1, <1>3, <3>1 DEF BannedChange, Refusal
    <3> QED
      BY <1>0, <1>1, <3>2, NewAccessElements
  <2> HIDE DEF new, old, q
  <2> QED
    BY <1>1, <1>3, <2>1, <2>2 DEF Granted, Seated
<1> QED
  BY <1>2, <1>3

\* Whatever the others do, he gets no seat by it and loses none unheard.
LEMMA OthersAreHarmless ==
  ASSUME ServerInvariant, OthersAct
  PROVE  NoSeatWon /\ \E c \in Channel : WordsOf(c)
<1>1. PICK n \in Node \ {me}, c \in Channel :
        \/ Join(n, c)
        \/ Leave(n, c)
        \/ \E change \in {0, 1} : SetPerm(n, c, me, "B", change)
        \/ Connect(n)
        \/ \E class \in Classes : Login(n, class)
  BY DEF OthersAct
<1>2. SafeRequest(JoinRequest) /\ SafeRequest(LeaveRequest)
  BY RequestsAreSafe
<1>3. CASE Join(n, c) \/ Leave(n, c)
  BY <1>2, <1>3, OthersStatChange DEF Join, Leave
<1>4. CASE \E change \in {0, 1} : SetPerm(n, c, me, "B", change)
  BY <1>4, BansAreTold
<1>5. CASE Connect(n) \/ \E class \in Classes : Login(n, class)
  <2>1. channels' = channels /\ sent' = {}
    BY <1>5 DEF Connect, Login, ClientChanges
  <2> QED
    BY <2>1, SameSeats, NothingForMe
<1> QED
  BY <1>1, <1>3, <1>4, <1>5

-----------------------------------------------------------------------------
(* The pipes.                                                               *)

WordType == [to : {me}, kind : WordKind, chan : Channel, who : {me}]

RequestKind == {"JOIN", "LEAVE", "MESSAGE"}
RequestType == [kind : RequestKind, chan : Channel]

SessionTypeOK ==
  /\ mode \in {"off", "prompt", "command", "game"}
  /\ cur_chan \in Channel \cup {NoChannel} /\ new_chan \in Channel \cup {NoChannel}
  /\ old_channel_name \in Channel \cup {NoChannel}
  /\ up \in Seq(RequestType) /\ down \in Seq(WordType)
  /\ hasty \in BOOLEAN /\ told \in {"no", "told", "missed"}
  /\ lost \in BOOLEAN /\ missed \in BOOLEAN

\* SetToSeq lists a finite set, each element once.
LEMMA Listing ==
  ASSUME NEW S, IsFiniteSet(S)
  PROVE  /\ SetToSeq(S) \in Seq(S)
         /\ \A i, j \in 1 .. Len(SetToSeq(S)) : SetToSeq(S)[i] = SetToSeq(S)[j] => i = j
         /\ \A x \in S : \E i \in 1 .. Len(SetToSeq(S)) : SetToSeq(S)[i] = x
<1> DEFINE n == Cardinality(S)
           f == SetToSeq(S)
<1>1. n \in Nat /\ ExistsBijection(1 .. n, S)
  BY FS_CardinalityType
<1>2. \E g \in [1 .. n -> S] : IsInjective(g)
  BY <1>1 DEF ExistsBijection, Bijection, Injection
<1>3. f \in [1 .. n -> S] /\ IsInjective(f)
  BY <1>2 DEF SetToSeq
<1> HIDE DEF f
<1>4. f \in Seq(S) /\ Len(f) = n
  <2>1. f \in Seq(S)
    BY <1>1, <1>3, SeqDef
  <2> QED
    BY <1>1, <1>3, <2>1, LenProperties
<1>5. f \in Surjection(1 .. n, S)
  <2>1. IsFiniteSet(1 .. n) /\ Cardinality(1 .. n) = n
    BY <1>1, FS_Interval
  <2>2. f \in Injection(1 .. n, S)
    BY <1>3 DEF Injection
  <2> QED
    BY <2>1, <2>2, FS_Injection
<1>6. \A x \in S : \E i \in 1 .. n : f[i] = x
  BY <1>5 DEF Surjection
<1> HIDE DEF n
<1> QED
  BY <1>3, <1>4, <1>6 DEF IsInjective, f

\* The step had no JOINCHANNEL for the client.
NoneJoined == \A p \in sent' : Heeded(p) => p.kind # "JOINCHANNEL"

\* What is added to the pipe in a step: words of the step, in some order; what is
\* not added is lost or missed.
Adds(new) ==
  /\ down' = down \o new
  /\ new \in Seq(WordType)
  /\ \A i \in 1 .. Len(new) : new[i] \in sent' /\ Heeded(new[i])
  /\ \A i, j \in 1 .. Len(new) : new[i] = new[j] => i = j
  /\ \A p \in sent' : Heeded(p) =>
       \/ \E i \in 1 .. Len(new) : new[i] = p
       \/ p.kind = "JOINCHANNEL" /\ lost'
       \/ p.kind # "JOINCHANNEL" /\ (NoneJoined => missed')
  /\ lost' \in BOOLEAN /\ missed' \in BOOLEAN
  /\ lost => lost'
  /\ NoneJoined => (lost' => lost) /\ (missed => missed')

LEMMA WrittenAdds ==
  ASSUME SessionTypeOK, NEW c \in Channel, WordsOf(c), Written(sent')
  PROVE  \E new : Adds(new)
<1> DEFINE heeded  == {p \in sent' : Heeded(p)}
           answers == {p \in heeded : p.kind = "JOINCHANNEL"}
           refused == {p \in heeded : p.kind \in Refusals}
           all     == {Word(kind, c) : kind \in WordKind}
<1>0. PICK words \in SUBSET heeded :
        /\ down' = down \o SetToSeq(words)
        /\ lost' = (lost \/ ~ answers \subseteq words)
        /\ missed' = (answers = {} /\ (missed \/ ~ refused \subseteq words))
  BY DEF Written
<1>1. IsFiniteSet(WordKind)
  <2>1. IsFiniteSet({})
    BY FS_EmptySet
  <2>2. \A S, x : IsFiniteSet(S) => IsFiniteSet(S \cup {x})
    BY FS_AddElement
  <2> DEFINE some == {} \cup {"JOINCHANNEL"} \cup {"BANNED"} \cup {"NOPERMCREATE"} \cup {"NOTINVITED"}
  <2>3. IsFiniteSet(some)
    BY ONLY <2>1, <2>2
  <2> HIDE DEF some
  <2>4. IsFiniteSet(some \cup {"NOBELONG"} \cup {"PRIVATE"} \cup {"NOCHANNEL"} \cup {"NOWRITE"})
    BY ONLY <2>2, <2>3
  <2>5. WordKind = some \cup {"NOBELONG"} \cup {"PRIVATE"} \cup {"NOCHANNEL"} \cup {"NOWRITE"}
    BY DEF some, WordKind, Refusals
  <2> QED
    BY <2>4, <2>5
<1>2. IsFiniteSet(all)
  <2> DEFINE word == [kind \in WordKind |-> Word(kind, c)]
  <2>1. word \in Surjection(WordKind, all)
    BY DEF Surjection
  <2> HIDE DEF word, all
  <2> QED
    BY <1>1, <2>1, FS_Surjection
<1>3. words \subseteq all
  BY DEF WordsOf
<1>4. all \subseteq WordType
  BY DEF Word, WordType
<1>10. \A p \in sent' : Heeded(p) => p.kind = "JOINCHANNEL" \/ p.kind \in Refusals
  BY DEF WordsOf, WordKind
<1>11. NoneJoined <=> answers = {}
  BY DEF NoneJoined
<1>12. /\ lost' \in BOOLEAN /\ missed' \in BOOLEAN /\ (lost => lost')
       /\ NoneJoined => (lost' => lost) /\ (missed => missed')
  BY <1>0, <1>11 DEF SessionTypeOK
<1>13. ASSUME NEW p \in sent', Heeded(p), p \notin words
       PROVE  \/ p.kind = "JOINCHANNEL" /\ lost'
              \/ p.kind # "JOINCHANNEL" /\ (NoneJoined => missed')
  <2>1. CASE p.kind = "JOINCHANNEL"
    <3>1. p \in answers
      BY <1>13, <2>1
    <3> QED
      BY <1>0, <1>13, <2>1, <3>1
  <2>2. CASE p.kind \in Refusals
    <3>1. p \in refused /\ p.kind # "JOINCHANNEL"
      BY <1>13, <2>2 DEF Refusals
    <3> QED
      BY <1>0, <1>11, <1>13, <3>1
  <2> QED
    BY <1>10, <1>13, <2>1, <2>2
<1>14. \A p \in words : p \in sent' /\ Heeded(p)
  OBVIOUS
<1> HIDE DEF heeded, answers, refused, all
<1>5. IsFiniteSet(words)
  BY <1>2, <1>3, FS_Subset
<1> DEFINE new == SetToSeq(words)
<1>6. down' = down \o new
  BY <1>0
<1> HIDE DEF new
<1>7. /\ new \in Seq(words)
      /\ \A i, j \in 1 .. Len(new) : new[i] = new[j] => i = j
      /\ \A x \in words : \E i \in 1 .. Len(new) : new[i] = x
  BY <1>5, Listing DEF new
<1>8. new \in Seq(WordType)
  BY <1>3, <1>4, <1>7, SeqMonotonic
<1>9. \A i \in 1 .. Len(new) : new[i] \in words
  BY <1>7, ElementOfSeq
<1> QED
  BY <1>6, <1>7, <1>8, <1>9, <1>12, <1>13, <1>14 DEF Adds

-----------------------------------------------------------------------------
(* The inductive invariant.                                                 *)

\* Nobody is at the keyboard of a node that is not online, and it has neither
\* a seat nor anything in its pipes.
NodeAndClient ==
  /\ mode # "off" => Online(me)
  /\ ~Online(me) => up = <<>> /\ down = <<>> /\ Seats = {}

LeaveAsked(c, i) == up[i].kind = "LEAVE" /\ up[i].chan = c

\* No JOINCHANNEL is on its way.
NoAnswer == \A i \in 1 .. Len(down) : down[i].kind # "JOINCHANNEL"

\* The seat whose JOINCHANNEL did not get through.
WordLost(c) == lost /\ c = new_chan

\* A JOIN on its way is for the channel the client waits for, nothing but
\* lines follows it, and every other seat is given up before the server gets to it.
JoinUnderWay ==
  \A i \in 1 .. Len(up) : up[i].kind = "JOIN" =>
    /\ up[i].chan = new_chan
    /\ \A j \in i + 1 .. Len(up) : up[j].kind = "MESSAGE"
    /\ NoAnswer
    /\ \A c \in Seats : WordLost(c) \/ \E j \in 1 .. i - 1 : LeaveAsked(c, j)

\* A JOINCHANNEL on its way is the only one, is for the channel the client
\* waits for, and there is no other seat.
JoinAnswered ==
  \A i \in 1 .. Len(down) : down[i].kind = "JOINCHANNEL" =>
    /\ down[i].chan = new_chan
    /\ \A j \in 1 .. Len(down) : down[j].kind = "JOINCHANNEL" => j = i
    /\ \A j \in 1 .. Len(up) : up[j].kind = "MESSAGE"
    /\ Seats \subseteq {new_chan}

\* Otherwise every seat is the one he thinks he has, or about to be given up, or
\* the one he asked for and has not heard of.
SeatsInSight ==
  NoAnswer => \A c \in Seats :
    c = cur_chan \/ WordLost(c) \/ \E j \in 1 .. Len(up) : LeaveAsked(c, j)

\* While a program runs, no answer is awaited.
Settled == NoAnswer /\ \A i \in 1 .. Len(up) : up[i].kind # "JOIN"

Orderly ==
  ~hasty /\ mode # "off" =>
    /\ JoinUnderWay
    /\ JoinAnswered
    /\ SeatsInSight
    /\ mode \in {"command", "game"} => Settled
    /\ mode = "command" => cur_chan = NoChannel /\ ~lost

\* The last channel request on its way is a JOIN, or one will follow.
LastIsJoin ==
  \E i \in 1 .. Len(up) :
    up[i].kind = "JOIN" /\ \A j \in i + 1 .. Len(up) : up[j].kind = "MESSAGE"

ToReturn == mode = "command" /\ old_channel_name # NoChannel

Leaving == \E i \in 1 .. Len(up) : up[i].kind = "LEAVE"

LeavesToJoin == mode # "off" /\ Leaving => LastIsJoin \/ ToReturn

\* The last word on its way is a refusal.
LastIsRefusal == down # <<>> /\ down[Len(down)].kind \in Refusals

\* Whoever is online has asked for a seat, has one, or hears why not.
HearsOfIt ==
  mode # "off" =>
    \/ LastIsJoin
    \/ ToReturn
    \/ ~Leaving /\ Seats # {}
    \/ LastIsRefusal \/ missed
    \/ told # "no" /\ NoAnswer

SessionInvariant ==
  /\ ServerInvariant /\ SessionTypeOK
  /\ NodeAndClient /\ Orderly /\ LeavesToJoin /\ HearsOfIt

-----------------------------------------------------------------------------
(* What requests and words do to the pipes.                                 *)

LEMMA UnansweredSettled == SessionTypeOK => (~Unanswered <=> Settled)
<1> SUFFICES ASSUME SessionTypeOK PROVE ~Unanswered <=> Settled
  OBVIOUS
<1>1. DOMAIN up = 1 .. Len(up) /\ DOMAIN down = 1 .. Len(down)
  BY LenProperties DEF SessionTypeOK
<1> QED
  BY <1>1 DEF Unanswered, Settled, NoAnswer

LEMMA AfterAdds ==
  ASSUME SessionTypeOK, NEW new, Adds(new)
  PROVE  /\ down' \in Seq(WordType)
         /\ Len(down) \in Nat /\ Len(new) \in Nat /\ Len(down') = Len(down) + Len(new)
         /\ \A i \in 1 .. Len(down) : down'[i] = down[i]
         /\ \A i \in 1 .. Len(new) : down'[Len(down) + i] = new[i]
         /\ \A i \in 1 .. Len(down') : i > Len(down) =>
              i - Len(down) \in 1 .. Len(new) /\ down'[i] = new[i - Len(down)]
<1>1. down \in Seq(WordType) /\ new \in Seq(WordType) /\ down' = down \o new
  BY DEF SessionTypeOK, Adds
<1>2. Len(down) \in Nat /\ Len(new) \in Nat
  BY <1>1, LenProperties
<1>3. /\ down' \in Seq(WordType) /\ Len(down') = Len(down) + Len(new)
      /\ \A i \in 1 .. Len(down) + Len(new) :
           down'[i] = IF i <= Len(down) THEN down[i] ELSE new[i - Len(down)]
  BY <1>1, ConcatProperties
<1> QED
  BY <1>2, <1>3

\* Refusals and word of a ban: no JOINCHANNEL comes, and the last word, if any
\* is added, is a refusal.
LEMMA AfterRefusals ==
  ASSUME SessionTypeOK, NEW new, Adds(new), \A p \in sent' : Heeded(p) => p.kind \in Refusals
  PROVE  /\ \A i \in 1 .. Len(down') : down'[i].kind = "JOINCHANNEL" =>
              i \in 1 .. Len(down) /\ down'[i] = down[i]
         /\ NoAnswer => NoAnswer'
         /\ NoAnswer' => NoAnswer
         /\ LastIsRefusal => LastIsRefusal'
         /\ (\E p \in sent' : Heeded(p)) => LastIsRefusal' \/ missed'
         /\ missed => missed'
         /\ lost' \in BOOLEAN /\ missed' \in BOOLEAN /\ (lost' <=> lost)
<1>0. /\ Len(down) \in Nat /\ Len(new) \in Nat /\ Len(down') = Len(down) + Len(new)
      /\ \A i \in 1 .. Len(down) : down'[i] = down[i]
      /\ \A i \in 1 .. Len(new) : down'[Len(down) + i] = new[i]
      /\ \A i \in 1 .. Len(down') : i > Len(down) =>
              i - Len(down) \in 1 .. Len(new) /\ down'[i] = new[i - Len(down)]
      /\ down' \in Seq(WordType) /\ down \in Seq(WordType)
  BY AfterAdds DEF SessionTypeOK
<1>1. \A i \in 1 .. Len(new) : new[i].kind \in Refusals
  BY DEF Adds
<1>2. "JOINCHANNEL" \notin Refusals
  BY DEF Refusals
<1>8. NoneJoined
  BY <1>2 DEF NoneJoined
<1>9. /\ lost' \in BOOLEAN /\ missed' \in BOOLEAN /\ (lost' <=> lost) /\ (missed => missed')
  BY <1>8 DEF Adds
<1>3. ASSUME NEW i \in 1 .. Len(down'), down'[i].kind = "JOINCHANNEL"
      PROVE  i \in 1 .. Len(down) /\ down'[i] = down[i]
  <2>1. ~(i > Len(down))
    <3> SUFFICES ASSUME i > Len(down) PROVE FALSE
      OBVIOUS
    <3>1. i - Len(down) \in 1 .. Len(new) /\ down'[i] = new[i - Len(down)]
      BY <1>0
    <3> QED
      BY <1>1, <1>2, <1>3, <3>1
  <2>2. i \in 1 .. Len(down)
    BY <1>0, <2>1
  <2> QED
    BY <1>0, <2>2
<1>4. NoAnswer <=> NoAnswer'
  <2>1. NoAnswer => NoAnswer'
    BY <1>3 DEF NoAnswer
  <2>2. ASSUME NoAnswer', NEW i \in 1 .. Len(down) PROVE down[i].kind # "JOINCHANNEL"
    <3>1. i \in 1 .. Len(down') /\ down'[i] = down[i]
      BY <1>0
    <3> QED
      BY <2>2, <3>1 DEF NoAnswer
  <2> QED
    BY <2>1, <2>2 DEF NoAnswer
<1>5. down' # <<>> <=> Len(down') # 0
  <2>1. down' \in Seq(WordType)
    BY <1>0
  <2> QED
    BY ONLY <2>1, EmptySeq
<1>6. CASE Len(new) = 0
  <2>1. (\E p \in sent' : Heeded(p)) => missed'
    <3>1. \A p \in sent' : Heeded(p) => p.kind # "JOINCHANNEL"
      BY <1>2
    <3> QED
      BY <1>6, <1>8, <3>1 DEF Adds
  <2>2. down # <<>> => Len(down) # 0
    BY <1>0, EmptySeq
  <2>3. LastIsRefusal => LastIsRefusal'
    BY <1>0, <1>5, <1>6, <2>2 DEF LastIsRefusal
  <2> QED
    BY <1>3, <1>4, <1>9, <2>1, <2>3
<1>7. CASE Len(new) # 0
  <2>1. down'[Len(down')].kind \in Refusals
    BY <1>0, <1>1, <1>7
  <2>2. LastIsRefusal'
    BY <1>0, <1>5, <1>7, <2>1 DEF LastIsRefusal
  <2> QED
    BY <1>3, <1>4, <1>9, <2>2
<1> QED
  BY <1>6, <1>7

\* The server takes the first request.
LEMMA AfterTake ==
  ASSUME SessionTypeOK, up # <<>>, up' = Tail(up)
  PROVE  /\ up' \in Seq(RequestType) /\ Head(up) = up[1] /\ up[1] \in RequestType
         /\ Len(up) \in Nat \ {0} /\ Len(up') = Len(up) - 1
         /\ \A i \in 1 .. Len(up') : up'[i] = up[i + 1]
<1>1. up \in Seq(RequestType)
  BY DEF SessionTypeOK
<1>2. Len(up) \in Nat \ {0}
  BY <1>1, EmptySeq
<1>3. up[1] \in RequestType /\ Head(up) = up[1]
  BY <1>1, <1>2, ElementOfSeq
<1> QED
  BY <1>1, <1>2, <1>3, HeadTailProperties

\* What the last channel request is does not change unless it is taken.
LEMMA TakeKeepsJoin ==
  ASSUME SessionTypeOK, up # <<>>, up' = Tail(up)
  PROVE  /\ Leaving' => Leaving
         /\ LastIsJoin /\ up[1].kind # "JOIN" => LastIsJoin'
         /\ up[1].kind = "JOIN" /\ LastIsJoin => LastIsJoin' \/ ~Leaving'
         /\ up[1].kind = "MESSAGE" /\ ~Leaving => ~Leaving'
<1>1. /\ Len(up) \in Nat \ {0} /\ Len(up') = Len(up) - 1
      /\ \A i \in 1 .. Len(up') : up'[i] = up[i + 1]
  BY AfterTake
<1>2. \A i \in 1 .. Len(up') : i + 1 \in 1 .. Len(up)
  BY <1>1
<1>3. Leaving' => Leaving
  BY <1>1, <1>2 DEF Leaving
<1>4. ASSUME NEW i \in 1 .. Len(up), up[i].kind = "JOIN",
             \A j \in i + 1 .. Len(up) : up[j].kind = "MESSAGE"
      PROVE  /\ i # 1 => LastIsJoin'
             /\ i = 1 => ~Leaving'
  <2>1. ASSUME i # 1 PROVE LastIsJoin'
    <3>1. i - 1 \in 1 .. Len(up') /\ up'[i - 1].kind = "JOIN"
      BY <1>1, <1>4, <2>1
    <3>2. \A j \in (i - 1) + 1 .. Len(up') : up'[j].kind = "MESSAGE"
      <4> SUFFICES ASSUME NEW j \in (i - 1) + 1 .. Len(up') PROVE up'[j].kind = "MESSAGE"
        OBVIOUS
      <4>1. j \in 1 .. Len(up') /\ j + 1 \in i + 1 .. Len(up)
        BY <1>1, <3>1
      <4> QED
        BY <1>1, <1>4, <4>1
    <3> QED
      BY <3>1, <3>2 DEF LastIsJoin
  <2>2. ASSUME i = 1 PROVE ~Leaving'
    <3>1. \A j \in 1 .. Len(up') : j + 1 \in i + 1 .. Len(up)
      BY <1>1, <2>2
    <3>2. \A j \in 1 .. Len(up') : up'[j].kind = "MESSAGE"
      BY <1>1, <1>4, <3>1
    <3> QED
      BY <3>2 DEF Leaving
  <2> QED
    BY <2>1, <2>2
<1> QED
  BY <1>3, <1>4 DEF LastIsJoin

\* The client writes requests behind the others.
LEMMA AfterAsk ==
  ASSUME SessionTypeOK, NEW requests \in Seq(RequestType), Ask(requests)
  PROVE  /\ up' \in Seq(RequestType)
         /\ Len(up) \in Nat /\ Len(requests) \in Nat /\ Len(up') = Len(up) + Len(requests)
         /\ \A i \in 1 .. Len(up) : up'[i] = up[i]
         /\ \A i \in 1 .. Len(requests) : up'[Len(up) + i] = requests[i]
         /\ \A i \in 1 .. Len(up') : i > Len(up) =>
              i - Len(up) \in 1 .. Len(requests) /\ up'[i] = requests[i - Len(up)]
<1>1. up \in Seq(RequestType) /\ up' = up \o requests
  BY DEF SessionTypeOK, Ask
<1>2. Len(up) \in Nat /\ Len(requests) \in Nat
  BY <1>1, LenProperties
<1>3. /\ up' \in Seq(RequestType) /\ Len(up') = Len(up) + Len(requests)
      /\ \A i \in 1 .. Len(up) + Len(requests) :
           up'[i] = IF i <= Len(up) THEN up[i] ELSE requests[i - Len(up)]
  BY <1>1, ConcatProperties
<1>4. \A i \in 1 .. Len(requests) : up'[Len(up) + i] = requests[i]
  <2> SUFFICES ASSUME NEW i \in 1 .. Len(requests) PROVE up'[Len(up) + i] = requests[i]
    OBVIOUS
  <2>1. Len(up) + i \in 1 .. Len(up) + Len(requests) /\ ~(Len(up) + i <= Len(up))
        /\ (Len(up) + i) - Len(up) = i
    BY <1>2
  <2> QED
    BY <1>3, <2>1
<1>5. \A i \in 1 .. Len(up) : up'[i] = up[i]
  BY <1>2, <1>3
<1>6. \A i \in 1 .. Len(up') : i > Len(up) =>
        i - Len(up) \in 1 .. Len(requests) /\ up'[i] = requests[i - Len(up)]
  BY <1>2, <1>3
<1> QED
  BY <1>2, <1>3, <1>4, <1>5, <1>6

LEMMA RequestIs ==
  ASSUME NEW kind \in RequestKind, NEW c \in Channel
  PROVE  /\ Request1(kind, c) \in Seq(RequestType) /\ Len(Request1(kind, c)) = 1
         /\ Request1(kind, c)[1].kind = kind /\ Request1(kind, c)[1].chan = c
BY DEF Request1, RequestType

\* A JOIN behind the rest, with or without the LEAVE before it.
LEMMA JoinBehind ==
  ASSUME NEW leave \in Seq(RequestType), NEW c \in Channel
  PROVE  LET requests == leave \o Request1("JOIN", c)
         IN  /\ requests \in Seq(RequestType) /\ Len(leave) \in Nat
             /\ Len(requests) = Len(leave) + 1
             /\ \A i \in 1 .. Len(leave) : requests[i] = leave[i]
             /\ requests[Len(requests)].kind = "JOIN" /\ requests[Len(requests)].chan = c
<1> DEFINE join == Request1("JOIN", c)
<1>1. /\ join \in Seq(RequestType) /\ Len(join) = 1
      /\ join[1].kind = "JOIN" /\ join[1].chan = c
  BY RequestIs DEF RequestKind
<1>2. Len(leave) \in Nat
  BY LenProperties
<1> HIDE DEF join
<1>3. /\ leave \o join \in Seq(RequestType) /\ Len(leave \o join) = Len(leave) + 1
      /\ \A i \in 1 .. Len(leave) + 1 :
           (leave \o join)[i] = IF i <= Len(leave) THEN leave[i] ELSE join[i - Len(leave)]
  <2>1. /\ leave \o join \in Seq(RequestType)
        /\ Len(leave \o join) = Len(leave) + Len(join)
        /\ \A i \in 1 .. Len(leave) + Len(join) :
             (leave \o join)[i] = IF i <= Len(leave) THEN leave[i] ELSE join[i - Len(leave)]
    BY <1>1, ConcatProperties
  <2> QED
    BY <1>1, <2>1
<1>4. (leave \o join)[Len(leave) + 1] = join[1]
  BY <1>2, <1>3
<1> QED
  BY <1>1, <1>2, <1>3, <1>4 DEF join

-----------------------------------------------------------------------------
(* What the user does.                                                      *)

ClientSound ==
  SessionTypeOK /\ NodeAndClient /\ Orderly /\ LeavesToJoin /\ HearsOfIt

\* The server, the user's place and the words on their way stay as they are.
LEMMA StillServer ==
  ASSUME UNCHANGED <<vars, down>>
  PROVE  /\ Seats' = Seats /\ (Online(me)' <=> Online(me))
         /\ (NoAnswer' <=> NoAnswer) /\ (LastIsRefusal' <=> LastIsRefusal)
<1>1. channels' = channels /\ status' = status /\ down' = down
  BY DEF vars
<1> QED
  BY <1>1, SameSeats DEF Online, NoAnswer, LastIsRefusal

LEMMA LeaveIs ==
  ASSUME SessionTypeOK
  PROVE  /\ LeaveCurrent \in Seq(RequestType) /\ Len(LeaveCurrent) \in {0, 1}
         /\ \A i \in 1 .. Len(LeaveCurrent) : LeaveCurrent[i].kind = "LEAVE"
         /\ cur_chan # NoChannel => Len(LeaveCurrent) = 1 /\ LeaveCurrent[1].chan = cur_chan
<1>1. CASE cur_chan = NoChannel
  <2>1. LeaveCurrent = <<>>
    BY <1>1 DEF LeaveCurrent
  <2> QED
    BY <1>1, <2>1, EmptySeq
<1>2. CASE cur_chan # NoChannel
  <2>1. LeaveCurrent = Request1("LEAVE", cur_chan) /\ cur_chan \in Channel
    BY <1>2 DEF LeaveCurrent, SessionTypeOK
  <2>2. /\ LeaveCurrent \in Seq(RequestType) /\ Len(LeaveCurrent) = 1
        /\ LeaveCurrent[1].kind = "LEAVE" /\ LeaveCurrent[1].chan = cur_chan
    BY <2>1, RequestIs DEF RequestKind
  <2> QED
    BY <2>2
<1> QED
  BY <1>1, <1>2

\* What is asked for stays asked for.
LEMMA AskKeepsLeaves ==
  ASSUME SessionTypeOK, NEW requests \in Seq(RequestType), Ask(requests),
         NEW c, \E j \in 1 .. Len(up) : LeaveAsked(c, j)
  PROVE  \E j \in 1 .. Len(up) : j \in 1 .. Len(up') /\ LeaveAsked(c, j)'
<1>1. PICK j \in 1 .. Len(up) : LeaveAsked(c, j)
  OBVIOUS
<1>2. up'[j] = up[j] /\ j \in 1 .. Len(up')
  BY AfterAsk
<1> QED
  BY <1>1, <1>2 DEF LeaveAsked

\* /JOIN: LEAVE and JOIN go behind the rest.
LEMMA ChangeChannelSound ==
  ASSUME SessionInvariant, NEW c \in Channel, ChangeChannel(c)
  PROVE  ClientSound'
<1> DEFINE requests == LeaveCurrent \o Request1("JOIN", c)
<1>0. SessionTypeOK
  BY DEF SessionInvariant
<1>1. /\ UNCHANGED <<vars, down>> /\ UNCHANGED <<lost, missed>> /\ mode = "prompt"
      /\ Ask(requests) /\ new_chan' = c
      /\ hasty' = (hasty \/ Unanswered \/ (lost /\ c # new_chan))
      /\ UNCHANGED <<mode, cur_chan, old_channel_name, told>>
  BY DEF ChangeChannel, ClientStep, change_to_channel, pipeHistory
<1>2. /\ LeaveCurrent \in Seq(RequestType) /\ Len(LeaveCurrent) \in {0, 1}
      /\ \A i \in 1 .. Len(LeaveCurrent) : LeaveCurrent[i].kind = "LEAVE"
      /\ cur_chan # NoChannel => Len(LeaveCurrent) = 1 /\ LeaveCurrent[1].chan = cur_chan
  BY <1>0, LeaveIs
<1>3. /\ requests \in Seq(RequestType) /\ Len(requests) = Len(LeaveCurrent) + 1
      /\ \A i \in 1 .. Len(LeaveCurrent) : requests[i] = LeaveCurrent[i]
      /\ requests[Len(requests)].kind = "JOIN" /\ requests[Len(requests)].chan = c
  BY <1>2, JoinBehind
<1> HIDE DEF requests
<1>4. /\ up' \in Seq(RequestType)
      /\ Len(up) \in Nat /\ Len(requests) \in Nat /\ Len(up') = Len(up) + Len(requests)
      /\ \A i \in 1 .. Len(up) : up'[i] = up[i]
      /\ \A i \in 1 .. Len(requests) : up'[Len(up) + i] = requests[i]
      /\ \A i \in 1 .. Len(up') : i > Len(up) =>
           i - Len(up) \in 1 .. Len(requests) /\ up'[i] = requests[i - Len(up)]
  BY <1>0, <1>1, <1>3, AfterAsk
<1>5. /\ Seats' = Seats /\ (Online(me)' <=> Online(me))
      /\ (NoAnswer' <=> NoAnswer) /\ (LastIsRefusal' <=> LastIsRefusal)
  BY <1>1, StillServer
<1>6. Len(up') \in 1 .. Len(up') /\ up'[Len(up')].kind = "JOIN" /\ up'[Len(up')].chan = c
  BY <1>2, <1>3, <1>4
<1>7. LastIsJoin'
  BY <1>4, <1>6 DEF LastIsJoin
<1>8. SessionTypeOK'
  <2>1. hasty' \in BOOLEAN
    BY <1>0, <1>1 DEF SessionTypeOK, Unanswered
  <2> QED
    BY <1>0, <1>1, <1>4, <2>1 DEF SessionTypeOK
<1>9. NodeAndClient'
  BY <1>1, <1>5 DEF SessionInvariant, NodeAndClient
<1>10. ASSUME ~hasty' PROVE JoinUnderWay' /\ JoinAnswered' /\ SeatsInSight'
  <2>1. ~hasty /\ Settled
    BY <1>0, <1>1, <1>10, UnansweredSettled
  <2>2. SeatsInSight
    BY <1>1, <2>1 DEF SessionInvariant, Orderly
  <2>3. NoAnswer'
    BY <1>5, <2>1 DEF Settled
  <2>9. \A d : WordLost(d) => WordLost(d)'
    BY <1>1, <1>10 DEF WordLost
  <2>4. ASSUME NEW d \in Seats
        PROVE  WordLost(d)' \/ \E j \in 1 .. Len(up') - 1 : LeaveAsked(d, j)'
    <3>1. CASE d = cur_chan
      <4>1. cur_chan # NoChannel
        BY <3>1, SessionAssumption DEF Seats
      <4>2. Len(requests) = 2 /\ requests[1].kind = "LEAVE" /\ requests[1].chan = cur_chan
        <5>1. Len(LeaveCurrent) = 1 /\ 1 \in 1 .. Len(LeaveCurrent)
          <6>1. Len(LeaveCurrent) = 1
            BY <1>2, <4>1
          <6>2. 1 \in 1 .. 1
            OBVIOUS
          <6> QED
            BY ONLY <6>1, <6>2
        <5>2. requests[1] = LeaveCurrent[1] /\ LeaveCurrent[1].kind = "LEAVE"
          BY <1>2, <1>3, <5>1
        <5> QED
          BY <1>2, <1>3, <4>1, <5>1, <5>2
      <4>3. /\ Len(up) + 1 \in 1 .. Len(up') - 1
            /\ up'[Len(up) + 1].kind = "LEAVE" /\ up'[Len(up) + 1].chan = cur_chan
        BY <1>4, <4>2
      <4> QED
        BY <3>1, <4>3 DEF LeaveAsked
    <3>2. CASE \E j \in 1 .. Len(up) : LeaveAsked(d, j)
      <4>1. PICK j \in 1 .. Len(up) : LeaveAsked(d, j)'
        BY <1>0, <1>1, <1>3, <3>2, AskKeepsLeaves
      <4> QED
        BY <1>2, <1>3, <1>4, <4>1
    <3> QED
      BY <2>1, <2>2, <2>9, <3>1, <3>2 DEF SeatsInSight, Settled
  <2>5. ASSUME NEW i \in 1 .. Len(up'), up'[i].kind = "JOIN" PROVE i = Len(up')
    <3>1. i > Len(up)
      BY <1>4, <2>1, <2>5 DEF Settled
    <3>2. i - Len(up) \in 1 .. Len(requests) /\ requests[i - Len(up)].kind = "JOIN"
      BY <1>4, <2>5, <3>1
    <3>3. i - Len(up) = Len(requests)
      BY <1>2, <1>3, <3>2
    <3> QED
      BY <1>4, <3>3
  <2>6. JoinUnderWay'
    BY <1>1, <1>4, <1>5, <1>6, <2>3, <2>4, <2>5 DEF JoinUnderWay
  <2>7. JoinAnswered'
    BY <2>3 DEF JoinAnswered, NoAnswer
  <2>8. SeatsInSight'
    BY <1>4, <1>5, <2>4 DEF SeatsInSight
  <2> QED
    BY <2>6, <2>7, <2>8
<1>11. Orderly'
  BY <1>1, <1>10 DEF Orderly
<1> QED
  BY <1>7, <1>8, <1>9, <1>11 DEF ClientSound, LeavesToJoin, HearsOfIt

\* Lines behind the rest change nothing about his seats.
LEMMA TypeLineSound ==
  ASSUME SessionInvariant, TypeLine
  PROVE  ClientSound'
<1> DEFINE line == Request1("MESSAGE", cur_chan)
<1>0. SessionTypeOK
  BY DEF SessionInvariant
<1>1. /\ UNCHANGED <<vars, down>> /\ mode = "prompt" /\ cur_chan \in Channel
      /\ Ask(line) /\ UNCHANGED clientVars /\ UNCHANGED <<lost, missed>>
  BY <1>0 DEF TypeLine, ClientStep, SessionTypeOK, pipeHistory
<1>2. line \in Seq(RequestType) /\ Len(line) = 1 /\ line[1].kind = "MESSAGE"
  BY <1>1, RequestIs DEF RequestKind
<1> HIDE DEF line
<1>3. /\ up' \in Seq(RequestType)
      /\ Len(up) \in Nat /\ Len(up') = Len(up) + 1
      /\ \A i \in 1 .. Len(up) : up'[i] = up[i]
      /\ \A i \in 1 .. Len(up') : i \in 1 .. Len(up) \/ up'[i].kind = "MESSAGE"
  <2>1. /\ up' \in Seq(RequestType)
        /\ Len(up) \in Nat /\ Len(up') = Len(up) + Len(line)
        /\ \A i \in 1 .. Len(up) : up'[i] = up[i]
        /\ \A i \in 1 .. Len(up') : i > Len(up) =>
             i - Len(up) \in 1 .. Len(line) /\ up'[i] = line[i - Len(up)]
    BY <1>0, <1>1, <1>2, AfterAsk
  <2> QED
    BY <1>2, <2>1
<1>4. /\ Seats' = Seats /\ (Online(me)' <=> Online(me))
      /\ (NoAnswer' <=> NoAnswer) /\ (LastIsRefusal' <=> LastIsRefusal)
  BY <1>1, StillServer
<1>5. UNCHANGED <<mode, cur_chan, new_chan, old_channel_name, hasty, told, down, lost, missed>>
  BY <1>1 DEF clientVars
<1>6. \A i \in 1 .. Len(up) : i \in 1 .. Len(up')
  BY <1>3
<1>7. SessionTypeOK'
  BY <1>0, <1>3, <1>5 DEF SessionTypeOK
<1>8. NodeAndClient'
  BY <1>1, <1>4, <1>5 DEF SessionInvariant, NodeAndClient
<1>9. Leaving' <=> Leaving
  BY <1>3, <1>6 DEF Leaving
<1>10. LastIsJoin => LastIsJoin'
  <2> SUFFICES ASSUME NEW i \in 1 .. Len(up), up[i].kind = "JOIN",
                      \A j \in i + 1 .. Len(up) : up[j].kind = "MESSAGE"
               PROVE  LastIsJoin'
    BY DEF LastIsJoin
  <2>1. ASSUME NEW j \in i + 1 .. Len(up') PROVE up'[j].kind = "MESSAGE"
    BY <1>3, <2>1
  <2> QED
    BY <1>3, <1>6, <2>1 DEF LastIsJoin
<1>11. /\ \A c, i : i \in 1 .. Len(up) /\ LeaveAsked(c, i) => LeaveAsked(c, i)'
       /\ \A c : WordLost(c)' <=> WordLost(c)
  BY <1>3, <1>5 DEF LeaveAsked, WordLost
<1>12. ASSUME ~hasty
       PROVE  JoinUnderWay' /\ JoinAnswered' /\ SeatsInSight'
  <2>0. JoinUnderWay /\ JoinAnswered /\ SeatsInSight
    BY <1>1, <1>12 DEF SessionInvariant, Orderly
  <2>1. ASSUME NEW i \in 1 .. Len(up'), up'[i].kind = "JOIN"
        PROVE  /\ up'[i].chan = new_chan
               /\ \A j \in i + 1 .. Len(up') : up'[j].kind = "MESSAGE"
               /\ NoAnswer
               /\ \A c \in Seats : WordLost(c)' \/ \E j \in 1 .. i - 1 : LeaveAsked(c, j)'
    <3>1. i \in 1 .. Len(up) /\ up[i].kind = "JOIN" /\ up'[i] = up[i]
      BY <1>3, <2>1
    <3>2. /\ up[i].chan = new_chan /\ NoAnswer
          /\ \A j \in i + 1 .. Len(up) : up[j].kind = "MESSAGE"
          /\ \A c \in Seats : WordLost(c) \/ \E j \in 1 .. i - 1 : LeaveAsked(c, j)
      BY <2>0, <3>1 DEF JoinUnderWay
    <3>3. \A j \in i + 1 .. Len(up') : up'[j].kind = "MESSAGE"
      BY <1>3, <3>1, <3>2
    <3>4. \A j \in 1 .. i - 1 : j \in 1 .. Len(up)
      BY <1>3, <3>1
    <3> QED
      BY <1>11, <3>1, <3>2, <3>3, <3>4
  <2>2. JoinUnderWay'
    BY <1>4, <1>5, <2>1 DEF JoinUnderWay
  <2>3. JoinAnswered'
    BY <1>3, <1>4, <1>5, <2>0 DEF JoinAnswered
  <2>4. SeatsInSight'
    BY <1>4, <1>5, <1>6, <1>11, <2>0 DEF SeatsInSight
  <2> QED
    BY <2>2, <2>3, <2>4
<1>13. Orderly'
  BY <1>1, <1>5, <1>12 DEF Orderly
<1>14. LeavesToJoin'
  BY <1>5, <1>9, <1>10 DEF SessionInvariant, LeavesToJoin, ToReturn
<1>15. HearsOfIt'
  BY <1>4, <1>5, <1>9, <1>10 DEF SessionInvariant, HearsOfIt, ToReturn
<1> QED
  BY <1>7, <1>8, <1>13, <1>14, <1>15 DEF ClientSound

\* A program starts: LEAVE goes behind the rest, and he is on no channel he knows of.
LEMMA StartCommandSound ==
  ASSUME SessionInvariant, StartCommand
  PROVE  ClientSound'
<1>0. SessionTypeOK
  BY DEF SessionInvariant
<1>1. /\ UNCHANGED <<vars, down>> /\ UNCHANGED <<lost, missed>>
      /\ mode = "prompt" /\ mode' = "command"
      /\ Ask(LeaveCurrent)
      /\ old_channel_name' = cur_chan /\ cur_chan' = NoChannel
      /\ hasty' = (hasty \/ Unanswered \/ lost)
      /\ UNCHANGED <<new_chan, told>>
  BY DEF StartCommand, ClientStep, pipeHistory
<1>2. /\ LeaveCurrent \in Seq(RequestType) /\ Len(LeaveCurrent) \in {0, 1}
      /\ \A i \in 1 .. Len(LeaveCurrent) : LeaveCurrent[i].kind = "LEAVE"
      /\ cur_chan # NoChannel => Len(LeaveCurrent) = 1 /\ LeaveCurrent[1].chan = cur_chan
  BY <1>0, LeaveIs
<1>3. /\ up' \in Seq(RequestType)
      /\ Len(up) \in Nat /\ Len(up') = Len(up) + Len(LeaveCurrent)
      /\ \A i \in 1 .. Len(up) : up'[i] = up[i]
      /\ \A i \in 1 .. Len(LeaveCurrent) : up'[Len(up) + i] = LeaveCurrent[i]
      /\ \A i \in 1 .. Len(up') : i > Len(up) =>
           i - Len(up) \in 1 .. Len(LeaveCurrent) /\ up'[i] = LeaveCurrent[i - Len(up)]
  BY <1>0, <1>1, <1>2, AfterAsk
<1>4. /\ Seats' = Seats /\ (Online(me)' <=> Online(me))
      /\ (NoAnswer' <=> NoAnswer) /\ (LastIsRefusal' <=> LastIsRefusal)
  BY <1>1, StillServer
<1>5. SessionTypeOK'
  <2>1. hasty' \in BOOLEAN
    BY <1>0, <1>1 DEF SessionTypeOK, Unanswered
  <2> QED
    BY <1>0, <1>1, <1>3, <2>1 DEF SessionTypeOK
<1>6. NodeAndClient'
  BY <1>1, <1>4 DEF SessionInvariant, NodeAndClient
<1>7. ASSUME ~hasty'
      PROVE  JoinUnderWay' /\ JoinAnswered' /\ SeatsInSight' /\ Settled' /\ ~lost'
  <2>1. ~hasty /\ Settled /\ ~lost
    BY <1>0, <1>1, <1>7, UnansweredSettled
  <2>2. SeatsInSight
    BY <1>1, <2>1 DEF SessionInvariant, Orderly
  <2>3. NoAnswer'
    BY <1>4, <2>1 DEF Settled
  <2>4. \A i \in 1 .. Len(up') : up'[i].kind # "JOIN"
    BY <1>2, <1>3, <2>1 DEF Settled
  <2>5. ASSUME NEW d \in Seats PROVE \E j \in 1 .. Len(up') : LeaveAsked(d, j)'
    <3>1. CASE d = cur_chan
      <4>1. cur_chan # NoChannel
        BY <3>1, SessionAssumption DEF Seats
      <4>2. Len(LeaveCurrent) = 1 /\ LeaveCurrent[1].chan = cur_chan
        BY <1>2, <4>1
      <4>3. 1 \in 1 .. 1
        OBVIOUS
      <4>4. LeaveCurrent[1].kind = "LEAVE"
        BY <1>2, <4>2, <4>3
      <4>5. Len(up) + 1 \in 1 .. Len(up') /\ up'[Len(up) + 1] = LeaveCurrent[1]
        BY <1>3, <4>2, <4>3
      <4> QED
        BY <3>1, <4>2, <4>4, <4>5 DEF LeaveAsked
    <3>2. CASE \E j \in 1 .. Len(up) : LeaveAsked(d, j)
      BY <1>0, <1>1, <1>2, <3>2, AskKeepsLeaves
    <3> QED
      BY <2>1, <2>2, <3>1, <3>2 DEF SeatsInSight, Settled, WordLost
  <2>6. JoinUnderWay'
    BY <2>4 DEF JoinUnderWay
  <2>7. JoinAnswered'
    BY <2>3 DEF JoinAnswered, NoAnswer
  <2>8. SeatsInSight'
    BY <1>4, <2>5 DEF SeatsInSight
  <2> QED
    BY <1>1, <2>1, <2>3, <2>4, <2>6, <2>7, <2>8 DEF Settled
<1>8. Orderly'
  BY <1>1, <1>7 DEF Orderly
<1>9. CASE cur_chan # NoChannel
  <2>1. ToReturn'
    BY <1>1, <1>9 DEF ToReturn
  <2> QED
    BY <1>5, <1>6, <1>8, <2>1 DEF ClientSound, LeavesToJoin, HearsOfIt
<1>10. CASE cur_chan = NoChannel
  <2>1. up' = up
    <3>1. LeaveCurrent = <<>>
      BY <1>10 DEF LeaveCurrent
    <3>2. up' = up \o <<>>
      BY <1>1, <3>1 DEF Ask
    <3> QED
      BY <1>0, <3>2, ConcatEmptySeq DEF SessionTypeOK
  <2>2. (LastIsJoin' <=> LastIsJoin) /\ (Leaving' <=> Leaving) /\ ~ToReturn
    BY <1>1, <2>1 DEF LastIsJoin, Leaving, ToReturn
  <2>3. LeavesToJoin'
    BY <1>1, <2>2 DEF SessionInvariant, LeavesToJoin
  <2>4. HearsOfIt'
    BY <1>1, <1>4, <2>2 DEF SessionInvariant, HearsOfIt
  <2> QED
    BY <1>5, <1>6, <1>8, <2>3, <2>4 DEF ClientSound
<1> QED
  BY <1>9, <1>10

\* Back from a program he asks for the channel he was on, if he was on one.
LEMMA EndCommandSound ==
  ASSUME SessionInvariant, EndCommand
  PROVE  ClientSound'
<1>0. SessionTypeOK
  BY DEF SessionInvariant
<1>1. /\ UNCHANGED <<vars, down>> /\ mode = "command" /\ mode' = "prompt"
      /\ old_channel_name' = NoChannel
      /\ UNCHANGED <<cur_chan, hasty, told, lost, missed>>
  BY DEF EndCommand, ClientStep, pipeHistory
<1>2. /\ Seats' = Seats /\ (Online(me)' <=> Online(me))
      /\ (NoAnswer' <=> NoAnswer) /\ (LastIsRefusal' <=> LastIsRefusal)
  BY <1>1, StillServer
<1>3. NodeAndClient'
  BY <1>1, <1>2 DEF SessionInvariant, NodeAndClient
<1>4. ~hasty => Settled /\ JoinAnswered /\ SeatsInSight /\ cur_chan = NoChannel /\ ~lost
  BY <1>1 DEF SessionInvariant, Orderly
<1>5. CASE old_channel_name = NoChannel
  <2>1. up' = up /\ new_chan' = new_chan
    <3>1. up' = up \o <<>> /\ new_chan' = new_chan
      BY <1>5 DEF EndCommand, Return, Ask
    <3> QED
      BY <1>0, <3>1, ConcatEmptySeq DEF SessionTypeOK
  <2>2. SessionTypeOK'
    BY <1>0, <1>1, <2>1 DEF SessionTypeOK
  <2>3. (LastIsJoin' <=> LastIsJoin) /\ (Leaving' <=> Leaving) /\ ~ToReturn
    BY <1>5, <2>1 DEF LastIsJoin, Leaving, ToReturn
  <2>4. \A c, j : LeaveAsked(c, j)' <=> LeaveAsked(c, j)
    BY <2>1 DEF LeaveAsked
  <2>5. ASSUME ~hasty PROVE JoinUnderWay' /\ JoinAnswered' /\ SeatsInSight'
    <3>1. JoinUnderWay'
      BY <1>4, <2>1, <2>5 DEF JoinUnderWay, Settled
    <3>2. JoinAnswered'
      BY <1>2, <1>4, <2>5 DEF JoinAnswered, NoAnswer, Settled
    <3>3. SeatsInSight'
      BY <1>1, <1>2, <1>4, <2>1, <2>4, <2>5 DEF SeatsInSight, WordLost
    <3> QED
      BY <3>1, <3>2, <3>3
  <2>6. Orderly'
    BY <1>1, <2>5 DEF Orderly
  <2>7. LeavesToJoin'
    BY <1>1, <2>3 DEF SessionInvariant, LeavesToJoin
  <2>8. HearsOfIt'
    BY <1>1, <1>2, <2>3 DEF SessionInvariant, HearsOfIt
  <2> QED
    BY <1>3, <2>2, <2>6, <2>7, <2>8 DEF ClientSound
<1>6. CASE old_channel_name # NoChannel
  <2> DEFINE join == Request1("JOIN", old_channel_name)
  <2>1. Ask(join) /\ new_chan' = old_channel_name /\ old_channel_name \in Channel
    BY <1>0, <1>6 DEF EndCommand, Return, SessionTypeOK
  <2>2. /\ join \in Seq(RequestType) /\ Len(join) = 1
        /\ join[1].kind = "JOIN" /\ join[1].chan = old_channel_name
    BY <2>1, RequestIs DEF RequestKind
  <2> HIDE DEF join
  <2>3. /\ up' \in Seq(RequestType)
        /\ Len(up) \in Nat /\ Len(up') = Len(up) + 1
        /\ \A i \in 1 .. Len(up) : up'[i] = up[i]
        /\ up'[Len(up')].kind = "JOIN" /\ up'[Len(up')].chan = old_channel_name
    <3>1. /\ up' \in Seq(RequestType)
          /\ Len(up) \in Nat /\ Len(up') = Len(up) + Len(join)
          /\ \A i \in 1 .. Len(up) : up'[i] = up[i]
          /\ \A i \in 1 .. Len(join) : up'[Len(up) + i] = join[i]
      BY <1>0, <2>1, <2>2, AfterAsk
    <3>2. 1 \in 1 .. Len(join)
      BY <2>2
    <3>3. up'[Len(up) + 1] = join[1] /\ Len(up') = Len(up) + 1
      BY <2>2, <3>1, <3>2
    <3> QED
      BY <2>2, <3>1, <3>3
  <2>4. SessionTypeOK'
    BY <1>0, <1>1, <2>1, <2>3 DEF SessionTypeOK
  <2>5. LastIsJoin'
    BY <2>3 DEF LastIsJoin
  <2>6. ASSUME ~hasty PROVE JoinUnderWay' /\ JoinAnswered' /\ SeatsInSight'
    <3>1. NoAnswer' /\ \A i \in 1 .. Len(up) : up[i].kind # "JOIN"
      BY <1>2, <1>4, <2>6 DEF Settled
    <3>2. \A i \in 1 .. Len(up') : up'[i].kind = "JOIN" => i = Len(up')
      BY <2>3, <3>1
    <3>3. ASSUME NEW d \in Seats PROVE \E j \in 1 .. Len(up') - 1 : LeaveAsked(d, j)'
      <4>1. d # cur_chan
        BY <1>4, <2>6, SessionAssumption DEF Seats
      <4>2. PICK j \in 1 .. Len(up) : LeaveAsked(d, j)
        BY <1>4, <2>6, <4>1 DEF SeatsInSight, Settled, WordLost
      <4> QED
        BY <2>3, <4>2 DEF LeaveAsked
    <3>4. JoinUnderWay'
      BY <1>2, <2>1, <2>3, <3>1, <3>2, <3>3 DEF JoinUnderWay
    <3>5. JoinAnswered'
      BY <3>1 DEF JoinAnswered, NoAnswer
    <3>6. SeatsInSight'
      BY <1>2, <2>3, <3>3 DEF SeatsInSight
    <3> QED
      BY <3>4, <3>5, <3>6
  <2>7. Orderly'
    BY <1>1, <2>6 DEF Orderly
  <2> QED
    BY <1>3, <2>4, <2>5, <2>7 DEF ClientSound, LeavesToJoin, HearsOfIt
<1> QED
  BY <1>5, <1>6

\* The game connection, and hanging up, ask for nothing.
LEMMA GameSound ==
  ASSUME SessionInvariant, StartGame \/ EndGame
  PROVE  ClientSound'
<1>0. SessionTypeOK
  BY DEF SessionInvariant
<1>1. /\ UNCHANGED <<vars, down, up, cur_chan, new_chan, old_channel_name, told>>
      /\ UNCHANGED <<lost, missed>>
      /\ mode \in {"prompt", "game"} /\ mode' \in {"prompt", "game"}
  BY DEF StartGame, EndGame, ClientStep, pipeHistory
<1>2. /\ Seats' = Seats /\ (Online(me)' <=> Online(me))
      /\ (NoAnswer' <=> NoAnswer) /\ (LastIsRefusal' <=> LastIsRefusal)
  BY <1>1, StillServer
<1>3. hasty' \in BOOLEAN /\ (~hasty' => ~hasty) /\ (~hasty' /\ mode' = "game" => Settled)
  <2>1. CASE StartGame
    BY <1>0, <2>1, UnansweredSettled DEF StartGame, SessionTypeOK, Unanswered
  <2>2. CASE EndGame
    BY <1>0, <2>2 DEF EndGame, SessionTypeOK
  <2> QED
    BY <2>1, <2>2
<1>4. SessionTypeOK'
  BY <1>0, <1>1, <1>3 DEF SessionTypeOK
<1>5. NodeAndClient'
  BY <1>1, <1>2 DEF SessionInvariant, NodeAndClient
<1>6. /\ (LastIsJoin' <=> LastIsJoin) /\ (Leaving' <=> Leaving) /\ (Settled' <=> Settled)
      /\ ~ToReturn /\ \A c, j : LeaveAsked(c, j)' <=> LeaveAsked(c, j)
      /\ \A c : WordLost(c)' <=> WordLost(c)
  BY <1>1, <1>2 DEF LastIsJoin, Leaving, Settled, ToReturn, LeaveAsked, WordLost
<1>7. ASSUME ~hasty' PROVE JoinUnderWay' /\ JoinAnswered' /\ SeatsInSight'
  <2>1. JoinUnderWay /\ JoinAnswered /\ SeatsInSight
    BY <1>1, <1>3, <1>7 DEF SessionInvariant, Orderly
  <2>2. JoinUnderWay'
    BY <1>1, <1>2, <1>6, <2>1 DEF JoinUnderWay
  <2>3. JoinAnswered'
    BY <1>1, <1>2, <2>1 DEF JoinAnswered
  <2>4. SeatsInSight'
    BY <1>1, <1>2, <1>6, <2>1 DEF SeatsInSight
  <2> QED
    BY <2>2, <2>3, <2>4
<1>8. Orderly'
  BY <1>1, <1>3, <1>6, <1>7 DEF Orderly
<1>9. LeavesToJoin' /\ HearsOfIt'
  BY <1>1, <1>2, <1>6 DEF SessionInvariant, LeavesToJoin, HearsOfIt
<1> QED
  BY <1>4, <1>5, <1>8, <1>9 DEF ClientSound

\* Nothing is asked of a client that is gone.
LEMMA HangUpSound ==
  ASSUME SessionInvariant, HangUp
  PROVE  ClientSound'
<1>1. /\ UNCHANGED <<vars, down>> /\ mode' = "off" /\ mode # "off"
      /\ old_channel_name' = NoChannel /\ hasty' = FALSE /\ told' = "no"
      /\ UNCHANGED <<cur_chan, new_chan, up, lost, missed>>
  BY DEF HangUp, ClientStep, pipeHistory
<1>2. Seats' = Seats /\ (Online(me)' <=> Online(me))
  BY <1>1, StillServer
<1>3. SessionTypeOK' /\ NodeAndClient'
  BY <1>1, <1>2 DEF SessionInvariant, SessionTypeOK, NodeAndClient
<1> QED
  BY <1>1, <1>3 DEF ClientSound, Orderly, LeavesToJoin, HearsOfIt

-----------------------------------------------------------------------------
(* What the client reads.                                                   *)

\* The client takes the first word out of the pipe.
LEMMA AfterRead ==
  ASSUME SessionTypeOK, down # <<>>, down' = Tail(down)
  PROVE  /\ down' \in Seq(WordType) /\ Head(down) = down[1] /\ down[1] \in WordType
         /\ Len(down) \in Nat \ {0} /\ Len(down') = Len(down) - 1
         /\ \A i \in 1 .. Len(down') : i + 1 \in 1 .. Len(down) /\ down'[i] = down[i + 1]
         /\ NoAnswer => NoAnswer'
         /\ NoAnswer' => NoAnswer \/ down[1].kind = "JOINCHANNEL"
         /\ LastIsRefusal => LastIsRefusal' \/ (NoAnswer' /\ down[1].kind \in Refusals)
<1>1. down \in Seq(WordType)
  BY DEF SessionTypeOK
<1>2. Len(down) \in Nat \ {0}
  BY <1>1, EmptySeq
<1>3. down[1] \in WordType /\ Head(down) = down[1]
  BY <1>1, <1>2, ElementOfSeq
<1>4. /\ down' \in Seq(WordType) /\ Len(down') = Len(down) - 1
      /\ \A i \in 1 .. Len(down') : down'[i] = down[i + 1]
  BY <1>1, <1>2, HeadTailProperties
<1>5. \A i \in 1 .. Len(down') : i + 1 \in 1 .. Len(down)
  BY <1>2, <1>4
<1>6. NoAnswer => NoAnswer'
  BY <1>4, <1>5 DEF NoAnswer
<1>7. ASSUME NoAnswer', down[1].kind # "JOINCHANNEL" PROVE NoAnswer
  <2> SUFFICES ASSUME NEW i \in 1 .. Len(down) PROVE down[i].kind # "JOINCHANNEL"
    BY DEF NoAnswer
  <2>1. CASE i = 1
    BY <1>7, <2>1
  <2>2. CASE i # 1
    <3>1. i - 1 \in 1 .. Len(down') /\ (i - 1) + 1 = i
      BY <1>2, <1>4, <2>2
    <3>2. down'[i - 1] = down[i] /\ down'[i - 1].kind # "JOINCHANNEL"
      BY <1>4, <1>7, <3>1 DEF NoAnswer
    <3> QED
      BY <3>2
  <2> QED
    BY <2>1, <2>2
<1>8. ASSUME LastIsRefusal PROVE LastIsRefusal' \/ (NoAnswer' /\ down[1].kind \in Refusals)
  <2>1. CASE Len(down) = 1
    <3>1. NoAnswer'
      BY <1>4, <2>1 DEF NoAnswer
    <3> QED
      BY <1>8, <2>1, <3>1 DEF LastIsRefusal
  <2>2. CASE Len(down) # 1
    <3>1. Len(down') \in 1 .. Len(down') /\ Len(down') + 1 = Len(down)
      BY <1>2, <1>4, <2>2
    <3>2. down'[Len(down')] = down[Len(down)]
      BY <1>4, <3>1
    <3>3. down' # <<>>
      BY <1>4, <3>1, EmptySeq
    <3> QED
      BY <1>8, <3>2, <3>3 DEF LastIsRefusal
  <2> QED
    BY <2>1, <2>2
<1> QED
  BY <1>2, <1>3, <1>4, <1>5, <1>6, <1>7, <1>8

\* His own JOINCHANNEL puts the client on the channel he has his seat on; word
\* of a refusal leaves it where it is.
LEMMA ReadPacketSound ==
  ASSUME SessionInvariant, ReadPacket
  PROVE  ClientSound'
<1>0. SessionTypeOK
  BY DEF SessionInvariant
<1>1. /\ mode = "prompt" /\ down # <<>> /\ down' = Tail(down)
      /\ UNCHANGED <<vars, mode, old_channel_name, up, hasty, missed>>
  BY DEF ReadPacket
<1>2. /\ down' \in Seq(WordType) /\ Head(down) = down[1] /\ down[1] \in WordType
      /\ Len(down) \in Nat \ {0} /\ Len(down') = Len(down) - 1
      /\ \A i \in 1 .. Len(down') : i + 1 \in 1 .. Len(down) /\ down'[i] = down[i + 1]
      /\ NoAnswer => NoAnswer'
      /\ NoAnswer' => NoAnswer \/ down[1].kind = "JOINCHANNEL"
      /\ LastIsRefusal => LastIsRefusal' \/ (NoAnswer' /\ down[1].kind \in Refusals)
  BY <1>0, <1>1, AfterRead
<1>3. /\ channels' = channels /\ status' = status
      /\ Seats' = Seats /\ (Online(me)' <=> Online(me)) /\ Online(me)
  BY <1>1, SameSeats DEF vars, Online, SessionInvariant, NodeAndClient
<1>4. down[1].kind \in WordKind /\ down[1].chan \in Channel
  BY <1>2 DEF WordType
<1>5. /\ cur_chan' = IF join_channel_msg(down[1]) THEN down[1].chan ELSE cur_chan
      /\ new_chan' = IF join_channel_msg(down[1]) THEN NoChannel ELSE new_chan
      /\ told' = IF down[1].kind = "JOINCHANNEL" THEN "no" ELSE "told"
      /\ lost' = (lost /\ ~join_channel_msg(down[1]))
  <2>1. ~leave_channel_msg(down[1])
    BY <1>4 DEF leave_channel_msg, WordKind, Refusals
  <2> QED
    BY <1>2, <2>1 DEF ReadPacket
<1>6. SessionTypeOK'
  BY <1>0, <1>1, <1>2, <1>4, <1>5 DEF SessionTypeOK
<1>7. NodeAndClient'
  BY <1>1, <1>3 DEF NodeAndClient
<1>8. /\ (LastIsJoin' <=> LastIsJoin) /\ (Leaving' <=> Leaving) /\ (ToReturn' <=> ToReturn)
      /\ \A c, j : LeaveAsked(c, j)' <=> LeaveAsked(c, j)
  BY <1>1 DEF LastIsJoin, Leaving, ToReturn, LeaveAsked
<1>9. ASSUME ~hasty PROVE JoinUnderWay' /\ JoinAnswered' /\ SeatsInSight'
  <2>0. JoinUnderWay /\ JoinAnswered /\ SeatsInSight
    BY <1>1, <1>9 DEF SessionInvariant, Orderly
  <2>1. CASE down[1].kind = "JOINCHANNEL"
    <3>1. 1 \in 1 .. Len(down)
      BY <1>2
    <3>2. /\ down[1].chan = new_chan
          /\ \A j \in 1 .. Len(down) : down[j].kind = "JOINCHANNEL" => j = 1
          /\ \A j \in 1 .. Len(up) : up[j].kind = "MESSAGE"
          /\ Seats \subseteq {new_chan}
      BY <2>0, <2>1, <3>1 DEF JoinAnswered
    <3>3. cur_chan' = new_chan
      BY <1>5, <2>1, <3>2 DEF join_channel_msg
    <3>4. NoAnswer'
      BY <1>2, <3>2 DEF NoAnswer
    <3>5. JoinUnderWay'
      BY <1>1, <3>2 DEF JoinUnderWay
    <3>6. JoinAnswered'
      BY <3>4 DEF JoinAnswered, NoAnswer
    <3>7. SeatsInSight'
      BY <1>3, <3>2, <3>3 DEF SeatsInSight
    <3> QED
      BY <3>5, <3>6, <3>7
  <2>2. CASE down[1].kind # "JOINCHANNEL"
    <3>1. cur_chan' = cur_chan /\ new_chan' = new_chan /\ (NoAnswer' <=> NoAnswer)
          /\ \A c : WordLost(c)' <=> WordLost(c)
      BY <1>2, <1>5, <2>2 DEF join_channel_msg, WordLost
    <3>2. JoinUnderWay'
      BY <1>1, <1>3, <1>8, <2>0, <3>1 DEF JoinUnderWay
    <3>3. JoinAnswered'
      <4> SUFFICES ASSUME NEW i \in 1 .. Len(down'), down'[i].kind = "JOINCHANNEL"
                   PROVE  /\ down'[i].chan = new_chan
                          /\ \A j \in 1 .. Len(down') : down'[j].kind = "JOINCHANNEL" => j = i
                          /\ \A j \in 1 .. Len(up) : up[j].kind = "MESSAGE"
                          /\ Seats \subseteq {new_chan}
        BY <1>1, <1>3, <3>1 DEF JoinAnswered
      <4>1. i + 1 \in 1 .. Len(down) /\ down'[i] = down[i + 1]
        BY <1>2
      <4>2. /\ down[i + 1].chan = new_chan
            /\ \A j \in 1 .. Len(down) : down[j].kind = "JOINCHANNEL" => j = i + 1
            /\ \A j \in 1 .. Len(up) : up[j].kind = "MESSAGE"
            /\ Seats \subseteq {new_chan}
        BY <2>0, <4>1 DEF JoinAnswered
      <4>3. \A j \in 1 .. Len(down') : down'[j].kind = "JOINCHANNEL" => j = i
        <5> SUFFICES ASSUME NEW j \in 1 .. Len(down'), down'[j].kind = "JOINCHANNEL"
                     PROVE  j = i
          OBVIOUS
        <5>1. j + 1 \in 1 .. Len(down) /\ down[j + 1].kind = "JOINCHANNEL"
          BY <1>2
        <5>2. j + 1 = i + 1
          BY <4>2, <5>1
        <5> QED
          BY <5>2
      <4> QED
        BY <4>1, <4>2, <4>3
    <3>4. SeatsInSight'
      BY <1>1, <1>3, <1>8, <2>0, <3>1 DEF SeatsInSight
    <3> QED
      BY <3>2, <3>3, <3>4
  <2> QED
    BY <2>1, <2>2
<1>10. Orderly'
  BY <1>1, <1>9 DEF Orderly
<1>11. LeavesToJoin'
  BY <1>1, <1>8 DEF SessionInvariant, LeavesToJoin
<1>12. HearsOfIt'
  <2>1. "JOINCHANNEL" \notin Refusals
    BY DEF Refusals
  <2>2. NoAnswer => down[1].kind # "JOINCHANNEL"
    BY <1>2 DEF NoAnswer
  <2> QED
    BY <1>1, <1>2, <1>3, <1>5, <1>8, <2>1, <2>2 DEF SessionInvariant, HearsOfIt
<1> QED
  BY <1>6, <1>7, <1>10, <1>11, <1>12 DEF ClientSound

\* The game connection throws away nothing but refusals, unless he was hasty.
LEMMA DiscardPacketSound ==
  ASSUME SessionInvariant, DiscardPacket
  PROVE  ClientSound'
<1>0. SessionTypeOK
  BY DEF SessionInvariant
<1>1. /\ mode = "game" /\ down # <<>> /\ down' = Tail(down)
      /\ told' = IF Head(down).kind \in Refusals THEN "missed" ELSE told
      /\ UNCHANGED <<vars, mode, cur_chan, new_chan, old_channel_name, up, hasty>>
      /\ UNCHANGED <<lost, missed>>
  BY DEF DiscardPacket, pipeHistory
<1>2. /\ down' \in Seq(WordType) /\ Head(down) = down[1] /\ down[1] \in WordType
      /\ NoAnswer => NoAnswer'
      /\ LastIsRefusal => LastIsRefusal' \/ (NoAnswer' /\ down[1].kind \in Refusals)
  BY <1>0, <1>1, AfterRead
<1>3. /\ channels' = channels /\ status' = status
      /\ Seats' = Seats /\ (Online(me)' <=> Online(me)) /\ Online(me)
  BY <1>1, SameSeats DEF vars, Online, SessionInvariant, NodeAndClient
<1>4. SessionTypeOK'
  BY <1>0, <1>1, <1>2 DEF SessionTypeOK
<1>5. NodeAndClient'
  BY <1>1, <1>3 DEF NodeAndClient
<1>6. /\ (LastIsJoin' <=> LastIsJoin) /\ (Leaving' <=> Leaving) /\ (ToReturn' <=> ToReturn)
      /\ \A c, j : LeaveAsked(c, j)' <=> LeaveAsked(c, j)
      /\ \A c : WordLost(c)' <=> WordLost(c)
  BY <1>1 DEF LastIsJoin, Leaving, ToReturn, LeaveAsked, WordLost
<1>7. ASSUME ~hasty PROVE JoinUnderWay' /\ JoinAnswered' /\ SeatsInSight' /\ Settled'
  <2>1. Settled /\ SeatsInSight
    BY <1>1, <1>7 DEF SessionInvariant, Orderly
  <2>2. Settled'
    BY <1>1, <1>2, <2>1 DEF Settled
  <2>3. JoinUnderWay' /\ JoinAnswered'
    BY <2>2 DEF JoinUnderWay, JoinAnswered, Settled, NoAnswer
  <2>4. SeatsInSight'
    BY <1>1, <1>3, <1>6, <2>1 DEF SeatsInSight, Settled
  <2> QED
    BY <2>2, <2>3, <2>4
<1>8. Orderly'
  BY <1>1, <1>7 DEF Orderly
<1>9. LeavesToJoin' /\ HearsOfIt'
  BY <1>1, <1>2, <1>3, <1>6 DEF SessionInvariant, LeavesToJoin, HearsOfIt
<1> QED
  BY <1>4, <1>5, <1>8, <1>9 DEF ClientSound

-----------------------------------------------------------------------------
(* The server and the others.                                               *)

\* What the server does with a line or a LEAVE, and what the others do, gives
\* the user no seat, and tells his client of nothing but refusals.
QuietStep(new) ==
  /\ Adds(new)
  /\ \A p \in sent' : Heeded(p) => p.kind \in Refusals
  /\ Seats' \subseteq Seats
  /\ UNCHANGED clientVars

\* Either no request is taken, or one that is not a JOIN, and a LEAVE is heeded.
TakenQuietly ==
  /\ up # <<>> /\ up' = Tail(up)
  /\ up[1].kind # "JOIN"
  /\ \A c \in Seats' : ~LeaveAsked(c, 1)

\* Such a step leaves a channel change where it is on its way.
LEMMA QuietStepOrderly ==
  ASSUME SessionInvariant, NEW new, QuietStep(new), up' = up \/ TakenQuietly
  PROVE  SessionTypeOK' /\ Orderly'
<1>0. SessionTypeOK
  BY DEF SessionInvariant
<1>1. /\ UNCHANGED <<mode, cur_chan, new_chan, old_channel_name, hasty, told>>
      /\ Adds(new) /\ Seats' \subseteq Seats
  BY DEF QuietStep, clientVars
<1>2. /\ down' \in Seq(WordType)
      /\ \A i \in 1 .. Len(down') : down'[i].kind = "JOINCHANNEL" =>
           i \in 1 .. Len(down) /\ down'[i] = down[i]
      /\ NoAnswer' <=> NoAnswer
      /\ lost' \in BOOLEAN /\ missed' \in BOOLEAN /\ (lost' <=> lost)
  <2>1. \A p \in sent' : Heeded(p) => p.kind \in Refusals
    BY DEF QuietStep
  <2> QED
    BY <1>0, <1>1, <2>1, AfterAdds, AfterRefusals
<1>3. PICK taken \in {0, 1} :
        /\ up' \in Seq(RequestType) /\ Len(up) \in Nat /\ Len(up') = Len(up) - taken
        /\ \A i \in 1 .. Len(up') : i + taken \in 1 .. Len(up) /\ up'[i] = up[i + taken]
        /\ taken = 1 => up[1].kind # "JOIN" /\ \A c \in Seats' : ~LeaveAsked(c, 1)
  <2>1. CASE up' = up
    <3>1. Len(up) \in Nat
      BY <1>0, LenProperties DEF SessionTypeOK
    <3>2. \A i \in 1 .. Len(up) : i + 0 = i
      BY <3>1
    <3> QED
      BY <1>0, <2>1, <3>1, <3>2 DEF SessionTypeOK
  <2>2. CASE TakenQuietly
    <3>1. /\ up' \in Seq(RequestType) /\ Len(up) \in Nat /\ Len(up') = Len(up) - 1
          /\ \A i \in 1 .. Len(up') : up'[i] = up[i + 1]
      BY <1>0, <2>2, AfterTake DEF TakenQuietly
    <3>2. \A i \in 1 .. Len(up') : i + 1 \in 1 .. Len(up)
      BY <3>1
    <3> QED
      BY <2>2, <3>1, <3>2 DEF TakenQuietly
  <2> QED
    BY <2>1, <2>2
<1>4. SessionTypeOK'
  BY <1>0, <1>1, <1>2, <1>3 DEF SessionTypeOK
<1>9. \A c : WordLost(c)' <=> WordLost(c)
  BY <1>1, <1>2 DEF WordLost
<1>5. ASSUME NEW c \in Seats', NEW k \in 1 .. Len(up), \E j \in 1 .. k : LeaveAsked(c, j)
      PROVE  \E j \in 1 .. k - taken : j \in 1 .. Len(up') /\ LeaveAsked(c, j)'
  <2>1. PICK j \in 1 .. k : LeaveAsked(c, j)
    BY <1>5
  <2>2. j - taken \in 1 .. k - taken /\ j - taken \in 1 .. Len(up') /\ (j - taken) + taken = j
    BY <1>3, <2>1
  <2>3. up'[j - taken] = up[j]
    BY <1>3, <2>2
  <2> QED
    BY <2>1, <2>2, <2>3 DEF LeaveAsked
<1>6. ASSUME ~hasty, mode # "off" PROVE JoinUnderWay' /\ JoinAnswered' /\ SeatsInSight'
  <2>0. JoinUnderWay /\ JoinAnswered /\ SeatsInSight
    BY <1>6 DEF SessionInvariant, Orderly
  <2>1. JoinUnderWay'
    <3> SUFFICES ASSUME NEW i \in 1 .. Len(up'), up'[i].kind = "JOIN"
                 PROVE  /\ up'[i].chan = new_chan
                        /\ \A j \in i + 1 .. Len(up') : up'[j].kind = "MESSAGE"
                        /\ NoAnswer
                        /\ \A c \in Seats' :
                             WordLost(c) \/ \E j \in 1 .. i - 1 : LeaveAsked(c, j)'
      BY <1>1, <1>2, <1>9 DEF JoinUnderWay
    <3> DEFINE k == i + taken
    <3>1. k \in 1 .. Len(up) /\ up'[i] = up[k] /\ k - 1 \in Nat
      BY <1>3
    <3>2. /\ up[k].chan = new_chan
          /\ \A j \in k + 1 .. Len(up) : up[j].kind = "MESSAGE"
          /\ NoAnswer
          /\ \A c \in Seats : WordLost(c) \/ \E j \in 1 .. k - 1 : LeaveAsked(c, j)
      BY <2>0, <3>1 DEF JoinUnderWay
    <3>3. ASSUME NEW j \in i + 1 .. Len(up') PROVE up'[j].kind = "MESSAGE"
      <4>1. j \in 1 .. Len(up') /\ j + taken \in k + 1 .. Len(up)
        BY <1>3, <3>3
      <4> QED
        BY <1>3, <3>2, <4>1
    <3>4. ASSUME NEW c \in Seats', ~WordLost(c)
          PROVE  \E j \in 1 .. i - 1 : LeaveAsked(c, j)'
      <4>1. PICK j \in 1 .. k - 1 : LeaveAsked(c, j)
        BY <1>1, <3>2, <3>4
      <4>2. k - 1 \in 1 .. Len(up)
        BY <3>1, <4>1
      <4>3. \E m \in 1 .. (k - 1) - taken : LeaveAsked(c, m)'
        BY <1>5, <3>4, <4>1, <4>2
      <4>4. (k - 1) - taken = i - 1
        BY <1>3
      <4> QED
        BY <4>3, <4>4
    <3> QED
      BY <3>1, <3>2, <3>3, <3>4
  <2>2. JoinAnswered'
    <3> SUFFICES ASSUME NEW i \in 1 .. Len(down'), down'[i].kind = "JOINCHANNEL"
                 PROVE  /\ down'[i].chan = new_chan
                        /\ \A j \in 1 .. Len(down') : down'[j].kind = "JOINCHANNEL" => j = i
                        /\ \A j \in 1 .. Len(up') : up'[j].kind = "MESSAGE"
                        /\ Seats' \subseteq {new_chan}
      BY <1>1 DEF JoinAnswered
    <3>1. i \in 1 .. Len(down) /\ down'[i] = down[i]
      BY <1>2
    <3>2. /\ down[i].chan = new_chan
          /\ \A j \in 1 .. Len(down) : down[j].kind = "JOINCHANNEL" => j = i
          /\ \A j \in 1 .. Len(up) : up[j].kind = "MESSAGE"
          /\ Seats \subseteq {new_chan}
      BY <2>0, <3>1 DEF JoinAnswered
    <3>3. \A j \in 1 .. Len(down') : down'[j].kind = "JOINCHANNEL" => j = i
      BY <1>2, <3>2
    <3>4. \A j \in 1 .. Len(up') : up'[j].kind = "MESSAGE"
      BY <1>3, <3>2
    <3> QED
      BY <1>1, <3>1, <3>2, <3>3, <3>4
  <2>3. SeatsInSight'
    <3> SUFFICES ASSUME NoAnswer, NEW c \in Seats'
                 PROVE  \/ c = cur_chan \/ WordLost(c)
                        \/ \E j \in 1 .. Len(up') : LeaveAsked(c, j)'
      BY <1>1, <1>2, <1>9 DEF SeatsInSight
    <3>1. c = cur_chan \/ WordLost(c) \/ \E j \in 1 .. Len(up) : LeaveAsked(c, j)
      BY <1>1, <2>0 DEF SeatsInSight
    <3>2. ASSUME NEW j \in 1 .. Len(up), LeaveAsked(c, j)
          PROVE  \E m \in 1 .. Len(up') : LeaveAsked(c, m)'
      <4>1. Len(up) \in 1 .. Len(up) /\ Len(up) - taken = Len(up')
        BY <1>3, <3>2
      <4> QED
        BY <1>5, <3>2, <4>1
    <3> QED
      BY <3>1, <3>2
  <2> QED
    BY <2>1, <2>2, <2>3
<1>7. Settled => Settled'
  BY <1>2, <1>3 DEF Settled
<1>8. Orderly'
  BY <1>1, <1>2, <1>6, <1>7 DEF Orderly, SessionInvariant
<1> QED
  BY <1>4, <1>8

\* The others reach the client only while its node is online.
LEMMA OthersReach ==
  ASSUME ServerInvariant, OthersAct
  PROVE  /\ Online(me)' <=> Online(me)
         /\ (\E p \in sent' : Heeded(p)) => Online(me)
<1>1. PICK n \in Node \ {me}, c \in Channel :
        \/ Join(n, c)
        \/ Leave(n, c)
        \/ \E change \in {0, 1} : SetPerm(n, c, me, "B", change)
        \/ Connect(n)
        \/ \E class \in Classes : Login(n, class)
  BY DEF OthersAct
<1>2. me \in Node /\ status \in [Node -> Status]
  BY SessionAssumption DEF ServerInvariant, TypeOK
<1>3. status'[me] = status[me] /\ \E packets : sent' = Delivered(packets)
  <2>1. ASSUME NEW from, NEW to, ClientChanges(n, from, to)
        PROVE  status'[me] = status[me] /\ \E packets : sent' = Delivered(packets)
    <3>1. sent' = Delivered({})
      BY <2>1 DEF ClientChanges, Delivered
    <3> QED
      BY <1>2, <2>1, <3>1 DEF ClientChanges
  <2>2. ASSUME NEW m, NEW q, StatChange(c, m, {m}, q)
        PROVE  status'[me] = status[me] /\ \E packets : sent' = Delivered(packets)
    BY <2>2 DEF StatChange, Crash
  <2>3. CASE Join(n, c) \/ Leave(n, c)
    BY <2>2, <2>3 DEF Join, Leave
  <2>4. CASE \E change \in {0, 1} : SetPerm(n, c, me, "B", change)
    <3>1. PICK change \in {0, 1} : SetPerm(n, c, me, "B", change)
      BY <2>4
    <3> QED
      BY <2>2, <3>1 DEF SetPerm, Rebuffed
  <2>5. CASE Connect(n) \/ \E class \in Classes : Login(n, class)
    BY <2>1, <2>5 DEF Connect, Login
  <2> QED
    BY <1>1, <2>3, <2>4, <2>5
<1> QED
  BY <1>3 DEF Online, Delivered, Heeded

\* The others do not disturb what the client knows.
LEMMA OthersActSound ==
  ASSUME SessionInvariant, OthersAct
  PROVE  ClientSound'
<1>0. ServerInvariant /\ SessionTypeOK
  BY DEF SessionInvariant
<1>1. NoSeatWon /\ \E c \in Channel : WordsOf(c)
  BY <1>0, OthersAreHarmless
<1>2. Written(sent') /\ UNCHANGED <<clientVars, up>>
  BY DEF OthersAct
<1>3. PICK new : Adds(new)
  BY <1>0, <1>1, <1>2, WrittenAdds
<1>4. QuietStep(new) /\ (Seats' # Seats => \E p \in sent' : Heeded(p))
  BY <1>1, <1>2, <1>3 DEF QuietStep, NoSeatWon
<1>5. SessionTypeOK' /\ Orderly'
  BY <1>2, <1>4, QuietStepOrderly
<1>6. UNCHANGED <<mode, old_channel_name, told, up>>
  BY <1>2 DEF clientVars
<1>7. /\ (LastIsJoin' <=> LastIsJoin) /\ (Leaving' <=> Leaving) /\ (ToReturn' <=> ToReturn)
  BY <1>6 DEF LastIsJoin, Leaving, ToReturn
<1>8. /\ NoAnswer => NoAnswer'
      /\ LastIsRefusal => LastIsRefusal'
      /\ missed => missed'
      /\ (\E p \in sent' : Heeded(p)) => LastIsRefusal' \/ missed'
  <2>1. \A p \in sent' : Heeded(p) => p.kind \in Refusals
    BY <1>4 DEF QuietStep
  <2> QED
    BY <1>0, <1>3, <2>1, AfterRefusals
<1>9. NodeAndClient'
  <2>1. ASSUME ~Online(me) PROVE down' = <<>> /\ Seats' = {} /\ up' = <<>>
    <3>1. down = <<>> /\ Seats = {} /\ up = <<>>
      BY <2>1 DEF SessionInvariant, NodeAndClient
    <3>2. ~(\E p \in sent' : Heeded(p))
      BY <1>0, <2>1, OthersReach
    <3>3. Len(new) = 0 /\ new \in Seq(WordType) /\ down' = <<>> \o new
      <4>1. new \in Seq(WordType) /\ \A i \in 1 .. Len(new) : new[i] \in sent' /\ Heeded(new[i])
        BY <1>3 DEF Adds
      <4>2. Len(new) \in Nat
        BY <4>1, LenProperties
      <4>3. Len(new) # 0 => 1 \in 1 .. Len(new)
        BY <4>2
      <4> QED
        BY <1>3, <3>1, <3>2, <4>1, <4>3 DEF Adds
    <3>4. new = <<>>
      BY <3>3, EmptySeq
    <3>5. down' = <<>>
      BY <3>3, <3>4, ConcatEmptySeq
    <3> QED
      BY <1>4, <1>6, <3>1, <3>5 DEF QuietStep
  <2>2. Online(me)' <=> Online(me)
    BY <1>0, OthersReach
  <2> QED
    BY <1>6, <2>1, <2>2 DEF SessionInvariant, NodeAndClient
<1>10. LeavesToJoin'
  BY <1>6, <1>7 DEF SessionInvariant, LeavesToJoin
<1>11. HearsOfIt'
  BY <1>4, <1>6, <1>7, <1>8 DEF SessionInvariant, HearsOfIt
<1> QED
  BY <1>5, <1>9, <1>10, <1>11 DEF ClientSound

\* The server's answers to the client's own requests.
LEMMA MyStepKeepsNode ==
  ASSUME ServerInvariant, Online(me), NEW c \in Channel,
         Join(me, c) \/ Leave(me, c) \/ Distribute(me, c)
  PROVE  Online(me)'
<1>1. status' = status
  BY DEF Join, Leave, Distribute, StatChange, Crash, Rebuffed
<1> QED
  BY <1>1 DEF Online

\* A line or a LEAVE is taken.
LEMMA ServedQuietly ==
  ASSUME SessionInvariant, ServeRequest, NEW new, QuietStep(new), TakenQuietly, Online(me)',
         \/ up[1].kind = "LEAVE"
         \/ up[1].kind = "MESSAGE" /\ (Seats' # Seats => \E p \in sent' : Heeded(p))
  PROVE  ClientSound'
<1>0. SessionTypeOK
  BY DEF SessionInvariant
<1>1. SessionTypeOK' /\ Orderly'
  BY QuietStepOrderly
<1>2. /\ up # <<>> /\ up' = Tail(up) /\ up[1].kind # "JOIN"
      /\ UNCHANGED <<mode, old_channel_name, told>>
  BY DEF TakenQuietly, QuietStep, clientVars
<1>3. /\ Leaving' => Leaving
      /\ LastIsJoin => LastIsJoin'
      /\ up[1].kind = "MESSAGE" /\ ~Leaving => ~Leaving'
      /\ ToReturn' <=> ToReturn
  BY <1>0, <1>2, TakeKeepsJoin DEF ToReturn
<1>4. /\ NoAnswer => NoAnswer'
      /\ LastIsRefusal => LastIsRefusal'
      /\ missed => missed'
      /\ (\E p \in sent' : Heeded(p)) => LastIsRefusal' \/ missed'
  BY <1>0, AfterRefusals DEF QuietStep
<1>5. NodeAndClient'
  BY DEF NodeAndClient
<1>6. LeavesToJoin'
  BY <1>2, <1>3 DEF SessionInvariant, LeavesToJoin
<1>7. HearsOfIt'
  <2>1. CASE up[1].kind = "LEAVE"
    <3>1. Leaving
      <4>1. 1 \in 1 .. Len(up)
        BY <1>0, <1>2, AfterTake
      <4> QED
        BY <2>1, <4>1 DEF Leaving
    <3> QED
      BY <1>2, <1>3, <3>1 DEF SessionInvariant, LeavesToJoin, HearsOfIt
  <2>2. CASE up[1].kind = "MESSAGE" /\ (Seats' # Seats => \E p \in sent' : Heeded(p))
    BY <1>2, <1>3, <1>4, <2>2 DEF SessionInvariant, HearsOfIt
  <2> QED
    BY <2>1, <2>2
<1> QED
  BY <1>1, <1>5, <1>6, <1>7 DEF ClientSound

\* A JOIN is taken: he is told why not, or his JOINCHANNEL is on its way.
LEMMA ServedJoin ==
  ASSUME SessionInvariant, ServeRequest, NEW new, Adds(new), up[1].kind = "JOIN",
         Online(me)', Refused \/ Seated(up[1].chan)
  PROVE  ClientSound'
<1>0. SessionTypeOK
  BY DEF SessionInvariant
<1> DEFINE c == up[1].chan
<1>1. /\ up # <<>> /\ up' = Tail(up)
      /\ UNCHANGED <<mode, cur_chan, new_chan, old_channel_name, hasty, told>>
  BY DEF ServeRequest, clientVars
<1>2. /\ up' \in Seq(RequestType) /\ c \in Channel
      /\ Len(up) \in Nat \ {0} /\ Len(up') = Len(up) - 1
      /\ \A i \in 1 .. Len(up') : up'[i] = up[i + 1]
  BY <1>0, <1>1, AfterTake DEF RequestType
<1>3. /\ down' \in Seq(WordType)
      /\ Len(down) \in Nat /\ Len(new) \in Nat /\ Len(down') = Len(down) + Len(new)
      /\ \A i \in 1 .. Len(down) : down'[i] = down[i]
      /\ \A i \in 1 .. Len(new) : down'[Len(down) + i] = new[i]
      /\ \A i \in 1 .. Len(down') : i > Len(down) =>
           i - Len(down) \in 1 .. Len(new) /\ down'[i] = new[i - Len(down)]
  BY <1>0, AfterAdds
<1>11. lost' \in BOOLEAN /\ missed' \in BOOLEAN /\ (lost => lost')
  BY DEF Adds
<1>4. SessionTypeOK'
  BY <1>0, <1>1, <1>2, <1>3, <1>11 DEF SessionTypeOK
<1>5. NodeAndClient'
  BY DEF NodeAndClient
<1>6. /\ Leaving' => Leaving
      /\ LastIsJoin => LastIsJoin' \/ ~Leaving'
      /\ ToReturn' <=> ToReturn
  BY <1>0, <1>1, TakeKeepsJoin DEF ToReturn
<1>7. LeavesToJoin'
  BY <1>1, <1>6 DEF SessionInvariant, LeavesToJoin
<1>8. HearsOfIt'
  <2>1. CASE Refused
    <3>1. LastIsRefusal' \/ missed'
      BY <1>0, <2>1, AfterRefusals DEF Refused, NoSeatWon
    <3> QED
      BY <3>1 DEF HearsOfIt
  <2>2. CASE Seated(c)
    <3>1. Seats' # {}
      BY <2>2 DEF Seated
    <3> QED
      BY <1>1, <1>6, <3>1 DEF SessionInvariant, LeavesToJoin, HearsOfIt
  <2> QED
    BY <2>1, <2>2
<1>9. ASSUME ~hasty, mode # "off"
      PROVE  /\ JoinUnderWay' /\ JoinAnswered' /\ SeatsInSight'
             /\ mode \notin {"command", "game"}
  <2>0. JoinUnderWay /\ (mode \in {"command", "game"} => Settled)
    BY <1>9 DEF SessionInvariant, Orderly
  <2>1. 1 \in 1 .. Len(up)
    BY <1>2
  <2>2. /\ c = new_chan /\ NoAnswer
        /\ \A j \in 2 .. Len(up) : up[j].kind = "MESSAGE"
        /\ \A d \in Seats : WordLost(d)
    <3>1. /\ up[1].chan = new_chan /\ NoAnswer
          /\ \A j \in 1 + 1 .. Len(up) : up[j].kind = "MESSAGE"
          /\ \A d \in Seats : WordLost(d) \/ \E j \in 1 .. 1 - 1 : LeaveAsked(d, j)
      BY <2>0, <2>1 DEF JoinUnderWay
    <3>2. \A j : j \notin 1 .. 1 - 1
      OBVIOUS
    <3>3. \A d \in Seats : WordLost(d)
      BY <3>1, <3>2
    <3> QED
      BY <3>1, <3>3
  <2>3. mode \notin {"command", "game"}
    BY <2>0, <2>1 DEF Settled
  <2>4. \A j \in 1 .. Len(up') : up'[j].kind = "MESSAGE"
    <3>1. \A j \in 1 .. Len(up') : j + 1 \in 2 .. Len(up)
      BY <1>2
    <3> QED
      BY <1>2, <2>2, <3>1
  <2>5. JoinUnderWay'
    BY <2>4 DEF JoinUnderWay
  <2>6. CASE Refused
    <3>1. \A d \in Seats' : WordLost(d)'
      BY <1>1, <1>11, <2>2, <2>6 DEF Refused, WordLost
    <3>2. NoAnswer'
      BY <1>0, <2>2, <2>6, AfterRefusals DEF Refused, NoSeatWon
    <3>3. JoinAnswered' /\ SeatsInSight'
      BY <3>1, <3>2 DEF JoinAnswered, SeatsInSight, NoAnswer
    <3> QED
      BY <2>3, <2>5, <3>3
  <2>7. CASE Seated(c)
    <3>1. Seats' = {c}
      BY <2>2, <2>7 DEF Seated, WordLost
    <3>2. /\ \A i \in 1 .. Len(new) : new[i] = Word("JOINCHANNEL", c)
          /\ lost' \/ \E i \in 1 .. Len(new) : new[i] = Word("JOINCHANNEL", c)
      <4>1. Heeded(Word("JOINCHANNEL", c)) /\ Word("JOINCHANNEL", c).kind = "JOINCHANNEL"
        BY <1>2, WordsAreHeeded DEF WordKind
      <4>2. ~NoneJoined
        BY <2>7, <4>1 DEF Seated, NoneJoined
      <4>3. Word("JOINCHANNEL", c) \in sent'
            /\ \A p \in sent' : Heeded(p) => p = Word("JOINCHANNEL", c)
        BY <2>7 DEF Seated
      <4>4. \A i \in 1 .. Len(new) : new[i] = Word("JOINCHANNEL", c)
        BY <4>3 DEF Adds
      <4>5. lost' \/ \E i \in 1 .. Len(new) : new[i] = Word("JOINCHANNEL", c)
        BY <4>1, <4>2, <4>3 DEF Adds
      <4> QED
        BY <4>4, <4>5
    <3>3. \A i \in 1 .. Len(down') : down'[i].kind = "JOINCHANNEL" =>
            i > Len(down) /\ down'[i] = Word("JOINCHANNEL", c)
      <4> SUFFICES ASSUME NEW i \in 1 .. Len(down'), down'[i].kind = "JOINCHANNEL"
                   PROVE  i > Len(down) /\ down'[i] = Word("JOINCHANNEL", c)
        OBVIOUS
      <4>1. i \notin 1 .. Len(down)
        BY <1>3, <2>2 DEF NoAnswer
      <4>2. i > Len(down)
        BY <1>3, <4>1
      <4>3. i - Len(down) \in 1 .. Len(new) /\ down'[i] = new[i - Len(down)]
        BY <1>3, <4>2
      <4> QED
        BY <3>2, <4>2, <4>3
    <3>4. ASSUME NEW i \in 1 .. Len(down'), down'[i].kind = "JOINCHANNEL",
                 NEW j \in 1 .. Len(down'), down'[j].kind = "JOINCHANNEL"
          PROVE  i = j
      <4>1. /\ i - Len(down) \in 1 .. Len(new) /\ new[i - Len(down)] = Word("JOINCHANNEL", c)
            /\ j - Len(down) \in 1 .. Len(new) /\ new[j - Len(down)] = Word("JOINCHANNEL", c)
        BY <1>3, <3>3, <3>4
      <4>2. i - Len(down) = j - Len(down)
        BY <4>1 DEF Adds
      <4> QED
        BY <1>3, <4>2
    <3>5. Word("JOINCHANNEL", c).chan = c /\ Word("JOINCHANNEL", c).kind = "JOINCHANNEL"
      BY DEF Word
    <3>6. ~lost' => ~NoAnswer'
      <4> SUFFICES ASSUME ~lost' PROVE ~NoAnswer'
        OBVIOUS
      <4>1. PICK i \in 1 .. Len(new) : new[i] = Word("JOINCHANNEL", c)
        BY <3>2
      <4>2. Len(down) + i \in 1 .. Len(down') /\ down'[Len(down) + i] = new[i]
        BY <1>3
      <4> QED
        BY <3>5, <4>1, <4>2 DEF NoAnswer
    <3>7. JoinAnswered'
      BY <1>1, <2>2, <2>4, <3>1, <3>3, <3>4, <3>5 DEF JoinAnswered
    <3>8. SeatsInSight'
      BY <1>1, <2>2, <3>1, <3>6 DEF SeatsInSight, WordLost
    <3> QED
      BY <2>3, <2>5, <3>7, <3>8
  <2> QED
    BY <2>6, <2>7
<1>10. Orderly'
  BY <1>1, <1>9 DEF Orderly
<1> QED
  BY <1>4, <1>5, <1>7, <1>8, <1>10 DEF ClientSound

\* The server takes a request of the client.
LEMMA ServeRequestSound ==
  ASSUME SessionInvariant, ServeRequest
  PROVE  ClientSound'
<1> DEFINE c == up[1].chan
<1>0. ServerInvariant /\ SessionTypeOK
  BY DEF SessionInvariant
<1>1. up # <<>> /\ up' = Tail(up) /\ Written(sent') /\ UNCHANGED clientVars
  BY DEF ServeRequest
<1>2. Head(up) = up[1] /\ c \in Channel /\ up[1] \in RequestType
  BY <1>0, <1>1, AfterTake DEF RequestType
<1>3. Online(me)
  BY <1>1 DEF SessionInvariant, NodeAndClient
<1>4. \/ up[1].kind = "JOIN" /\ Join(me, c)
      \/ up[1].kind = "LEAVE" /\ Leave(me, c)
      \/ up[1].kind = "MESSAGE" /\ Distribute(me, c)
  BY <1>2 DEF ServeRequest
<1>5. Online(me)'
  BY <1>0, <1>2, <1>3, <1>4, MyStepKeepsNode
<1>6. CASE up[1].kind = "JOIN" /\ Join(me, c)
  <2>1. WordsOf(c) /\ (Refused \/ Seated(c))
    BY <1>0, <1>2, <1>3, <1>6, JoinsAreAnswered
  <2>2. PICK new : Adds(new)
    BY <1>0, <1>1, <1>2, <2>1, WrittenAdds
  <2> QED
    BY <1>5, <1>6, <2>1, <2>2, ServedJoin
<1>7. CASE up[1].kind = "LEAVE" /\ Leave(me, c)
  <2>1. /\ WordsOf(c) /\ Seats' \subseteq Seats \ {c}
        /\ \A p \in sent' : Heeded(p) => p.kind \in Refusals
    BY <1>0, <1>2, <1>3, <1>7, LeavesAreServed
  <2>2. PICK new : Adds(new)
    BY <1>0, <1>1, <1>2, <2>1, WrittenAdds
  <2>3. QuietStep(new)
    BY <1>1, <2>1, <2>2 DEF QuietStep
  <2>4. TakenQuietly
    BY <1>1, <1>7, <2>1 DEF TakenQuietly, LeaveAsked
  <2> QED
    BY <1>5, <1>7, <2>3, <2>4, ServedQuietly
<1>8. CASE up[1].kind = "MESSAGE" /\ Distribute(me, c)
  <2>1. NoSeatWon /\ WordsOf(c)
    BY <1>0, <1>2, <1>8, LinesAreTold
  <2>2. PICK new : Adds(new)
    BY <1>0, <1>1, <1>2, <2>1, WrittenAdds
  <2>3. QuietStep(new)
    BY <1>1, <2>1, <2>2 DEF QuietStep, NoSeatWon
  <2>4. TakenQuietly
    BY <1>1, <1>8 DEF TakenQuietly, LeaveAsked
  <2>5. Seats' # Seats => \E p \in sent' : Heeded(p)
    BY <2>1 DEF NoSeatWon
  <2> QED
    BY <1>5, <1>8, <2>3, <2>4, <2>5, ServedQuietly
<1> QED
  BY <1>4, <1>6, <1>7, <1>8

\* The server reaps the client: his seats go, and so does what is in the pipes.
LEMMA ReapSound ==
  ASSUME SessionInvariant, NoGhosts', Reap
  PROVE  ClientSound'
<1>0. SessionTypeOK /\ me \in Node /\ status \in [Node -> Status]
  BY SessionAssumption DEF SessionInvariant, ServerInvariant, TypeOK
<1>1. /\ mode' = "off" /\ Online(me) /\ ClearNode(me) /\ up' = <<>> /\ down' = <<>>
      /\ UNCHANGED <<mode, cur_chan, new_chan, old_channel_name, hasty, told, lost, missed>>
  BY DEF Reap, clientVars, pipeHistory
<1>2. status' = [status EXCEPT ![me] = "EMPTY"]
  BY <1>1 DEF ClearNode
<1>3. status'[me] = "EMPTY"
  BY <1>0, <1>2
<1>4. Seats' = {}
  BY <1>0, <1>3 DEF NoGhosts, Seats, Readers
<1>5. ~Online(me)'
  BY <1>3 DEF Online
<1>6. SessionTypeOK'
  <2>1. <<>> \in Seq(RequestType) /\ <<>> \in Seq(WordType)
    BY EmptySeq
  <2> QED
    BY <1>0, <1>1, <2>1 DEF SessionTypeOK
<1> QED
  BY <1>1, <1>4, <1>5, <1>6 DEF ClientSound, NodeAndClient, Orderly, LeavesToJoin, HearsOfIt

\* The next caller at the node finds empty pipes and no seat.
LEMMA StartClientSound ==
  ASSUME SessionInvariant, StartClient
  PROVE  ClientSound'
<1>0. SessionTypeOK /\ me \in Node /\ status \in [Node -> Status]
  BY SessionAssumption DEF SessionInvariant, ServerInvariant, TypeOK
<1>1. /\ status[me] = "EMPTY" /\ status' = [status EXCEPT ![me] = "CONNECTED"]
      /\ channels' = channels
      /\ cur_chan' = NoChannel /\ new_chan' = NoChannel
      /\ UNCHANGED <<mode, old_channel_name, hasty, told, up, down, lost, missed>>
  BY DEF StartClient, Connect, ClientChanges, pipeHistory
<1>2. ~Online(me) /\ ~Online(me)'
  BY <1>0, <1>1 DEF Online
<1>3. Seats' = {} /\ up' = <<>> /\ down' = <<>> /\ mode' = "off"
  BY <1>1, <1>2, SameSeats DEF SessionInvariant, NodeAndClient
<1>4. SessionTypeOK'
  BY <1>0, <1>1 DEF SessionTypeOK
<1> QED
  BY <1>2, <1>3, <1>4 DEF ClientSound, NodeAndClient, Orderly, LeavesToJoin, HearsOfIt

\* A login asks for the main channel.
LEMMA LogInSound ==
  ASSUME SessionInvariant, LogIn
  PROVE  ClientSound'
<1> DEFINE join == Request1("JOIN", MAIN)
<1>0. /\ SessionTypeOK /\ me \in Node /\ MAIN \in Channel
      /\ status \in [Node -> Status]
  BY SessionAssumption DEF SessionInvariant, ServerInvariant, TypeOK
<1>1. /\ status[me] \in {"CONNECTED", "RELOGGED"} /\ status' = [status EXCEPT ![me] = "ACTIVE"]
      /\ channels' = channels
      /\ mode' = "prompt" /\ cur_chan' = NoChannel /\ new_chan' = MAIN
      /\ Ask(join) /\ hasty' = FALSE /\ told' = "no" /\ lost' = FALSE /\ missed' = FALSE
      /\ UNCHANGED <<old_channel_name, down>>
  BY DEF LogIn, Login, ClientChanges
<1>2. ~Online(me) /\ Online(me)'
  BY <1>0, <1>1 DEF Online
<1>3. Seats' = {} /\ up = <<>> /\ down' = <<>>
  BY <1>1, <1>2, SameSeats DEF SessionInvariant, NodeAndClient
<1>4. /\ join \in Seq(RequestType) /\ Len(join) = 1
      /\ join[1].kind = "JOIN" /\ join[1].chan = MAIN
  BY <1>0, RequestIs DEF RequestKind
<1> HIDE DEF join
<1>5. up' = join
  <2>1. up' = <<>> \o join
    BY <1>1, <1>3 DEF Ask
  <2> QED
    BY <1>4, <2>1, ConcatEmptySeq
<1>6. SessionTypeOK'
  BY <1>0, <1>1, <1>4, <1>5 DEF SessionTypeOK
<1>7. NodeAndClient'
  BY <1>2 DEF NodeAndClient
<1>8. Len(up') = 1 /\ \A i \in 1 .. Len(up') : i = 1
  <2>1. Len(up') = 1
    BY <1>4, <1>5
  <2>2. \A i \in 1 .. 1 : i = 1
    OBVIOUS
  <2> QED
    BY ONLY <2>1, <2>2
<1>9. LastIsJoin'
  BY <1>4, <1>5, <1>8 DEF LastIsJoin
<1>10. NoAnswer'
  BY <1>3 DEF NoAnswer
<1>11. JoinUnderWay'
  BY <1>1, <1>3, <1>4, <1>5, <1>8, <1>10 DEF JoinUnderWay
<1>12. JoinAnswered' /\ SeatsInSight'
  BY <1>3, <1>10 DEF JoinAnswered, SeatsInSight, NoAnswer
<1> QED
  BY <1>1, <1>6, <1>7, <1>9, <1>11, <1>12 DEF ClientSound, Orderly, LeavesToJoin, HearsOfIt

-----------------------------------------------------------------------------
(* The theorems.                                                            *)

\* To the server a session is nothing new.
LEMMA SessionIsServing ==
  ASSUME SessionTypeOK, [SessionNext]_sessionVars
  PROVE  [Next]_vars
<1>0. me \in Node
  BY SessionAssumption
<1>1. CASE UNCHANGED sessionVars
  BY <1>1 DEF sessionVars
<1>2. CASE StartClient
  BY <1>0, <1>2 DEF StartClient, Next
<1>3. CASE LogIn
  BY <1>0, <1>3 DEF LogIn, Next
<1>4. ASSUME ClientStep PROVE [Next]_vars
  BY <1>4 DEF ClientStep
<1>5. CASE \/ \E c \in Channel : ChangeChannel(c)
           \/ TypeLine \/ StartCommand \/ EndCommand \/ StartGame \/ EndGame \/ HangUp
  BY <1>4, <1>5 DEF ChangeChannel, TypeLine, StartCommand, EndCommand, StartGame, EndGame,
       HangUp
<1>6. CASE ReadPacket \/ DiscardPacket
  BY <1>6 DEF ReadPacket, DiscardPacket
<1>7. CASE ServeRequest
  <2>1. up[1].chan \in Channel /\ Head(up) = up[1]
    <3>1. up # <<>> /\ up' = Tail(up)
      BY <1>7 DEF ServeRequest
    <3> QED
      BY <3>1, AfterTake DEF RequestType
  <2>2. ChannelMessage(me, up[1].chan)
    BY <1>7, <2>1 DEF ServeRequest, ChannelMessage
  <2> QED
    BY <1>0, <2>1, <2>2 DEF Next
<1>8. CASE OthersAct
  <2>1. PICK n \in Node, c \in Channel :
          \/ Join(n, c)
          \/ Leave(n, c)
          \/ \E change \in {0, 1} : SetPerm(n, c, me, "B", change)
          \/ Connect(n)
          \/ \E class \in Classes : Login(n, class)
    BY <1>8 DEF OthersAct
  <2>2. CASE Join(n, c) \/ Leave(n, c) \/ \E change \in {0, 1} : SetPerm(n, c, me, "B", change)
    <3>1. ChannelMessage(n, c)
      BY <1>0, <2>2 DEF ChannelMessage, PermLetter
    <3> QED
      BY <3>1 DEF Next
  <2>3. CASE Connect(n) \/ \E class \in Classes : Login(n, class)
    BY <2>3 DEF Next
  <2> QED
    BY <2>1, <2>2, <2>3
<1>9. CASE Reap
  BY <1>0, <1>9 DEF Reap, Next
<1> QED
  BY <1>1, <1>2, <1>3, <1>5, <1>6, <1>7, <1>8, <1>9 DEF SessionNext

LEMMA SessionStarts == SessionInit => SessionInvariant
<1> SUFFICES ASSUME SessionInit PROVE SessionInvariant
  OBVIOUS
<1>1. ServerInvariant
  BY InitGood DEF SessionInit
<1>2. /\ mode = "off" /\ up = <<>> /\ down = <<>> /\ hasty = FALSE /\ told = "no"
      /\ lost = FALSE /\ missed = FALSE /\ cur_chan = NoChannel /\ new_chan = NoChannel /\ old_channel_name = NoChannel
  BY DEF SessionInit
<1>3. <<>> \in Seq(RequestType) /\ <<>> \in Seq(WordType)
  BY EmptySeq
<1>4. SessionTypeOK
  BY <1>2, <1>3 DEF SessionTypeOK
<1>5. Seats = {}
  BY SessionAssumption DEF SessionInit, Init, NewChannel, Seats, Readers
<1> QED
  BY <1>1, <1>2, <1>4, <1>5
     DEF SessionInvariant, NodeAndClient, Orderly, LeavesToJoin, HearsOfIt

LEMMA SessionKeeps == SessionInvariant /\ [SessionNext]_sessionVars => SessionInvariant'
<1> SUFFICES ASSUME SessionInvariant, [SessionNext]_sessionVars
             PROVE  SessionInvariant'
  OBVIOUS
<1>1. ServerInvariant'
  BY SessionIsServing, NextKeeps DEF SessionInvariant
<1>2. ClientSound'
  <2>1. CASE SessionNext
    <3>1. NoGhosts'
      BY <1>1 DEF ServerInvariant
    <3>2. CASE StartClient
      BY <3>2, StartClientSound
    <3>3. CASE LogIn
      BY <3>3, LogInSound
    <3>4. CASE \E c \in Channel : ChangeChannel(c)
      BY <3>4, ChangeChannelSound
    <3>5. CASE TypeLine
      BY <3>5, TypeLineSound
    <3>6. CASE StartCommand
      BY <3>6, StartCommandSound
    <3>7. CASE EndCommand
      BY <3>7, EndCommandSound
    <3>8. CASE StartGame \/ EndGame
      BY <3>8, GameSound
    <3>9. CASE HangUp
      BY <3>9, HangUpSound
    <3>10. CASE ReadPacket
      BY <3>10, ReadPacketSound
    <3>11. CASE DiscardPacket
      BY <3>11, DiscardPacketSound
    <3>12. CASE ServeRequest
      BY <3>12, ServeRequestSound
    <3>13. CASE OthersAct
      BY <3>13, OthersActSound
    <3>14. CASE Reap
      BY <3>1, <3>14, ReapSound
    <3> QED
      BY <2>1, <3>2, <3>3, <3>4, <3>5, <3>6, <3>7, <3>8, <3>9, <3>10, <3>11, <3>12, <3>13,
         <3>14 DEF SessionNext
  <2>2. CASE UNCHANGED sessionVars
    <3>1. /\ UNCHANGED <<vars, down>> /\ UNCHANGED up
          /\ UNCHANGED <<mode, cur_chan, new_chan, old_channel_name, hasty, told, lost, missed>>
      BY <2>2 DEF sessionVars, clientVars, pipeHistory
    <3>2. /\ Seats' = Seats /\ (Online(me)' <=> Online(me))
          /\ (NoAnswer' <=> NoAnswer) /\ (LastIsRefusal' <=> LastIsRefusal)
      BY <3>1, StillServer
    <3>3. /\ (LastIsJoin' <=> LastIsJoin) /\ (Leaving' <=> Leaving)
          /\ (ToReturn' <=> ToReturn) /\ (Settled' <=> Settled)
          /\ \A c, j : LeaveAsked(c, j)' <=> LeaveAsked(c, j)
          /\ \A c : WordLost(c)' <=> WordLost(c)
      BY <3>1, <3>2 DEF LastIsJoin, Leaving, ToReturn, Settled, LeaveAsked, WordLost
    <3>4. SessionTypeOK' /\ NodeAndClient'
      BY <3>1, <3>2 DEF SessionInvariant, SessionTypeOK, NodeAndClient
    <3>5. JoinUnderWay => JoinUnderWay'
      BY <3>1, <3>2, <3>3 DEF JoinUnderWay
    <3>6. JoinAnswered => JoinAnswered'
      BY <3>1, <3>2 DEF JoinAnswered
    <3>7. SeatsInSight => SeatsInSight'
      BY <3>1, <3>2, <3>3 DEF SeatsInSight
    <3>8. Orderly'
      BY <3>1, <3>3, <3>5, <3>6, <3>7 DEF SessionInvariant, Orderly
    <3>9. LeavesToJoin' /\ HearsOfIt'
      BY <3>1, <3>2, <3>3 DEF SessionInvariant, LeavesToJoin, HearsOfIt
    <3> QED
      BY <3>4, <3>8, <3>9 DEF ClientSound
  <2> QED
    BY <2>1, <2>2
<1> QED
  BY <1>1, <1>2 DEF SessionInvariant, ClientSound

\* Client and server agree, as far as requests and words on their way allow.
THEOREM SessionIsSound == SessionSpec => []SessionInvariant
BY SessionStarts, SessionKeeps, PTL DEF SessionSpec

\* However many users and channels there are, whatever the moderators do and
\* however full the pipes: a client that waits for the answers to its channel
\* commands knows of every channel its user is on.
THEOREM NoUnknownSeat == SessionSpec => []SeatsKnown
<1>1. SessionInvariant => SeatsKnown
  <2> SUFFICES ASSUME SessionInvariant, up = <<>>, ~hasty, mode # "off", NEW c \in Seats
               PROVE  c = cur_chan \/ (c = new_chan /\ (Announced(c) \/ lost))
    BY DEF SeatsKnown
  <2>1. JoinAnswered /\ SeatsInSight
    BY DEF SessionInvariant, Orderly
  <2>2. DOMAIN down = 1 .. Len(down)
    BY LenProperties DEF SessionInvariant, SessionTypeOK
  <2>3. CASE NoAnswer
    <3>1. \A j \in 1 .. Len(up) : FALSE
      OBVIOUS
    <3> QED
      BY <2>1, <2>3, <3>1 DEF SeatsInSight, WordLost
  <2>4. CASE ~NoAnswer
    <3>1. PICK i \in 1 .. Len(down) : down[i].kind = "JOINCHANNEL"
      BY <2>4 DEF NoAnswer
    <3>2. down[i].chan = new_chan /\ c = new_chan
      BY <2>1, <3>1 DEF JoinAnswered
    <3> QED
      BY <2>2, <3>1, <3>2 DEF Announced
  <2> QED
    BY <2>3, <2>4
<1> QED
  BY <1>1, SessionIsSound, PTL

\* Nobody at the prompt is on no channel without having been told why since he
\* last joined one.
THEOREM NobodyLostSilently == SessionSpec => []NeverLostSilently
<1>1. SessionInvariant => NeverLostSilently
  <2> SUFFICES ASSUME SessionInvariant, mode = "prompt", up = <<>>, down = <<>>, Seats = {}
               PROVE  told # "no" \/ missed
    BY DEF NeverLostSilently
  <2>1. ~LastIsJoin /\ ~ToReturn /\ ~LastIsRefusal
    BY DEF LastIsJoin, ToReturn, LastIsRefusal
  <2> QED
    BY <2>1 DEF SessionInvariant, HearsOfIt
<1> QED
  BY <1>1, SessionIsSound, PTL
=============================================================================
