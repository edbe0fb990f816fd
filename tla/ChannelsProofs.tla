--------------------------- MODULE ChannelsProofs ---------------------------
(***************************************************************************)
(* Proofs about Channels, for any number of nodes, channels and classes.   *)
(*                                                                         *)
(* First the type invariant and the three invariants of the channel lists. *)
(* The work is in RequestKeepsGood: one request to channel_stat_change     *)
(* leaves a good channel good, provided nobody asks to set READ and to     *)
(* change BANNED at once.  Everything else is a matter of which action     *)
(* makes which request.                                                    *)
(*                                                                         *)
(* Then what a request does to who is on the channel (AllowedEffect), from *)
(* which follow that everybody is told of each change (ChangesAnnounced)   *)
(* and that the server implements Roster; and, with the counters of        *)
(* distribute_message, that monologues end.                                *)
(***************************************************************************)
EXTENDS Monologue, FiniteSetTheorems, TLAPS

\* The requests the server ever makes: none sets READ and touches BANNED.
SafeRequest(q) == q \in Request /\ (q.read = 1 => q.banned = -1)

\* Setting, clearing or leaving one right alone changes no other right.
LEMMA WithElements ==
  ASSUME NEW access, NEW right, NEW change \in Change, NEW r
  PROVE  r \in With(access, right, change)
           <=> IF r = right THEN change = 1 \/ (change = -1 /\ r \in access)
               ELSE r \in access
<1>1. CASE change = 1
  BY <1>1 DEF With
<1>2. CASE change = 0
  BY <1>2 DEF With
<1>3. CASE change = -1
  BY <1>3 DEF With
<1>4. QED
  BY <1>1, <1>2, <1>3 DEF Change

\* Every request the server makes is safe in that sense.
LEMMA RequestsAreSafe ==
  /\ SafeRequest(JoinRequest)
  /\ SafeRequest(LeaveRequest)
  /\ SafeRequest(OffRequest)
  /\ SafeRequest(LineoutRequest)
  /\ \A letter \in PermLetter, change \in {0, 1} :
       SafeRequest(PermRequest(letter, change))
<1>1. SafeRequest(JoinRequest) /\ SafeRequest(LeaveRequest)
  BY DEF SafeRequest, JoinRequest, LeaveRequest, Request, Change
<1>2. SafeRequest(OffRequest) /\ SafeRequest(LineoutRequest)
  BY DEF SafeRequest, OffRequest, LineoutRequest, Request, Change
<1>3. ASSUME NEW letter \in PermLetter, NEW change \in {0, 1}
      PROVE  SafeRequest(PermRequest(letter, change))
  BY DEF SafeRequest, PermRequest, PermLetter, Request, Change
<1>4. QED
  BY <1>1, <1>2, <1>3

\* The rights of the user after a request, right by right.
LEMMA NewAccessElements ==
  ASSUME NEW ch \in ChannelRecord, NEW n \in Node, NEW q \in Request
  PROVE  /\ NewAccess(ch, n, q) \subseteq Access
         /\ "BANNED" \in NewAccess(ch, n, q) <=>
              \/ BannedChange(ch, n, q) = 1
              \/ BannedChange(ch, n, q) = -1 /\ "BANNED" \in ch.access[n]
         /\ "READ" \in NewAccess(ch, n, q) <=>
              /\ q.read = 1 \/ (q.read = -1 /\ "READ" \in ch.access[n])
              /\ BannedChange(ch, n, q) # 1 \/ "BANNED" \in ch.access[n]
         /\ "MODERATE" \in NewAccess(ch, n, q) <=>
              \/ ModerateChange(ch, n, q) = 1
              \/ ModerateChange(ch, n, q) = -1 /\ "MODERATE" \in ch.access[n]
<1> DEFINE rw   == With(With(ch.access[n], "READ", q.read), "WRITE", q.write)
           rwm  == With(rw, "MODERATE", ModerateChange(ch, n, q))
           rwmi == With(rwm, "INVITED", q.invited)
           ban  == BannedChange(ch, n, q)
<1>1. /\ q.read \in Change /\ q.write \in Change /\ q.invited \in Change
      /\ ModerateChange(ch, n, q) \in Change /\ ban \in Change
  BY DEF Request, Change, ModerateChange, BannedChange
<1>2. ch.access[n] \subseteq Access
  BY DEF ChannelRecord
<1>3. \A r : r \in rwmi => r \in ch.access[n] \cup Access
  BY <1>1, WithElements DEF Access
<1>4. NewAccess(ch, n, q) =
        IF ban = 1 /\ "BANNED" \notin rwmi THEN (rwmi \cup {"BANNED"}) \ {"READ"}
        ELSE With(rwmi, "BANNED", ban)
  BY DEF NewAccess
<1>5. "BANNED" \in rwmi <=> "BANNED" \in ch.access[n]
  BY <1>1, WithElements
<1>6. "READ" \in rwmi <=> q.read = 1 \/ (q.read = -1 /\ "READ" \in ch.access[n])
  BY <1>1, WithElements
<1>7. rwmi \subseteq Access
  BY <1>2, <1>3 DEF Access
<1>7a. "MODERATE" \in rwmi <=>
        \/ ModerateChange(ch, n, q) = 1
        \/ ModerateChange(ch, n, q) = -1 /\ "MODERATE" \in ch.access[n]
  BY <1>1, WithElements
<1> HIDE DEF rwmi, ban
<1>8. CASE ban = 1 /\ "BANNED" \notin rwmi
  BY <1>4, <1>5, <1>6, <1>7, <1>7a, <1>8 DEF Access, ban
<1>9. CASE ~(ban = 1 /\ "BANNED" \notin rwmi)
  <2>1. NewAccess(ch, n, q) = With(rwmi, "BANNED", ban)
    BY <1>4, <1>9
  <2>2. \A r : r \in NewAccess(ch, n, q) <=>
          IF r = "BANNED" THEN ban = 1 \/ (ban = -1 /\ r \in rwmi) ELSE r \in rwmi
    BY <2>1, <1>1, WithElements
  <2>3. QED
    BY <2>2, <1>1, <1>5, <1>6, <1>7, <1>7a, <1>9 DEF Access, Change, ban
<1>10. QED
  BY <1>8, <1>9

\* A request that is not refused leaves the channel well formed.
LEMMA ChangedType ==
  ASSUME NEW ch \in ChannelRecord, NEW n \in Node, NEW q \in Request
  PROVE  Changed(ch, n, q) \in ChannelRecord
<1>1. NewAccess(ch, n, q) \subseteq Access
  BY NewAccessElements
<1>2. QED
  BY <1>1 DEF Changed, ChannelRecord

\* What such a request does to the channel, field by field.
LEMMA ChangedOpen ==
  ASSUME NEW ch \in ChannelRecord, NEW n \in Node, NEW q
  PROVE  Changed(ch, n, q).open = TRUE /\ Changed(ch, n, q).flags = ch.flags
BY DEF Changed, ChannelRecord

\* The list of users gains or loses the user the request is about.
LEMMA ChangedUsers ==
  ASSUME NEW ch \in ChannelRecord, NEW n \in Node, NEW q
  PROVE  Changed(ch, n, q).users =
           IF NewAccess(ch, n, q) = {} THEN ch.users \ {n} ELSE ch.users \cup {n}
<1>1. DOMAIN ch = {"open", "users", "access", "lineout", "flags", "max"}
  BY DEF ChannelRecord
<1>2. QED
  BY <1>1, Zenon DEF Changed, ChannelRecord

\* Only his rights change.
LEMMA ChangedAccess ==
  ASSUME NEW ch \in ChannelRecord, NEW n \in Node, NEW q
  PROVE  Changed(ch, n, q).access = [ch.access EXCEPT ![n] = NewAccess(ch, n, q)]
<1>1. DOMAIN ch = {"open", "users", "access", "lineout", "flags", "max"}
  BY DEF ChannelRecord
<1>2. QED
  BY <1>1, Zenon DEF Changed, ChannelRecord

\* Packets to users of this model are packets.
LEMMA PacketsType ==
  ASSUME NEW S \in SUBSET Node, NEW kind \in PacketKind, NEW c \in Channel,
         NEW who \in Node
  PROVE  PacketsTo(S, kind, c, who) \subseteq Packet
BY DEF PacketsTo, Packet

\* So are those that announce a change.
LEMMA AnnouncementsType ==
  ASSUME NEW c \in Channel, NEW ch \in ChannelRecord, NEW n \in Node,
         NEW q \in Request
  PROVE  Announcements(c, ch, n, q) \subseteq Packet
<1>1. Readers(Changed(ch, n, q)) \in SUBSET Node
  BY ChangedType DEF Readers, ChannelRecord
<1>2. \A kind \in PacketKind :
        /\ PacketsTo(Readers(Changed(ch, n, q)), kind, c, n) \subseteq Packet
        /\ PacketsTo({n}, kind, c, n) \subseteq Packet
  BY <1>1, PacketsType
<1>3. /\ {"JOINCHANNEL", "LEAVECHANNEL"} \subseteq PacketKind
      /\ {"INVITED", "UNINVITED", "BANNED", "UNBANNED"} \subseteq PacketKind
  BY DEF PacketKind
<1>4. Notices(c, n, ch.access[n], NewAccess(ch, n, q)) \subseteq Packet
  BY <1>2, <1>3 DEF Notices, When
<1>5. QED
  BY <1>2, <1>3, <1>4 DEF Announcements, When

\* One request, refused or not, leaves a good channel good.
LEMMA RequestKeepsGood ==
  ASSUME NEW c \in Channel, NEW ch \in ChannelRecord, NEW n \in Node,
         NEW replyTo \in SUBSET Node, NEW q, SafeRequest(q), GoodChannel(ch)
  PROVE  LET outcome == Outcome(c, ch, n, replyTo, q)
         IN  /\ outcome.ch \in ChannelRecord
             /\ GoodChannel(outcome.ch)
             /\ outcome.packets \subseteq Packet
             /\ outcome.ch.users \subseteq ch.users \cup {n}
<1>1. q \in Request
  BY DEF SafeRequest
<1>2. CASE Refusal(ch, n, q) # "OK"
  <2>1. Refusal(ch, n, q) \in PacketKind
    BY <1>2 DEF Refusal, PacketKind
  <2>2. QED
    BY <1>2, <2>1, PacketsType DEF Outcome
<1>3. CASE Refusal(ch, n, q) = "OK"
  <2> DEFINE access == NewAccess(ch, n, q)
             after  == Changed(ch, n, q)
  <2>1. /\ Outcome(c, ch, n, replyTo, q).ch = after
        /\ Outcome(c, ch, n, replyTo, q).packets = Announcements(c, ch, n, q)
    BY <1>3 DEF Outcome
  <2>2. /\ after \in ChannelRecord
        /\ after.open = TRUE
        /\ after.flags = ch.flags
    BY <1>1, ChangedType, ChangedOpen
  <2>3. /\ after.users = IF access = {} THEN ch.users \ {n} ELSE ch.users \cup {n}
        /\ after.access = [ch.access EXCEPT ![n] = access]
    BY ChangedUsers, ChangedAccess, Zenon
  <2> HIDE DEF access, after
  <2>4. after.users = {m \in Node : after.access[m] # {}}
    BY <2>3 DEF GoodChannel, ChannelRecord
  <2>5. "BANNED" \in access => "READ" \notin access
    <3> SUFFICES ASSUME "BANNED" \in access, "READ" \in access
                 PROVE  FALSE
      OBVIOUS
    <3> DEFINE ban == BannedChange(ch, n, q)
    <3>1. /\ ban = 1 \/ (ban = -1 /\ "BANNED" \in ch.access[n])
          /\ q.read = 1 \/ (q.read = -1 /\ "READ" \in ch.access[n])
          /\ ban # 1 \/ "BANNED" \in ch.access[n]
      BY <1>1, NewAccessElements DEF access
    <3>2. "BANNED" \in ch.access[n] /\ "READ" \notin ch.access[n]
      BY <3>1 DEF GoodChannel
    <3>3. q.read = 1 /\ q.banned = -1
      BY <3>1, <3>2 DEF SafeRequest
    <3>4. ban = -1 /\ n \in ch.users
      BY <3>1, <3>2, <3>3 DEF BannedChange, GoodChannel
    <3>5. ~testFlag(n, "CHN_ALLMODERATE")
      BY <3>4 DEF BannedChange
    <3>6. QED
      BY <1>3, <3>2, <3>3, <3>4, <3>5 DEF Refusal
  <2>6. GoodChannel(after)
    BY <2>2, <2>3, <2>4, <2>5 DEF GoodChannel, ChannelRecord
  <2>7. Announcements(c, ch, n, q) \subseteq Packet
    BY <1>1, AnnouncementsType
  <2>8. after.users \subseteq ch.users \cup {n}
    BY <2>3
  <2>9. QED
    BY <2>1, <2>2, <2>6, <2>7, <2>8
<1>4. QED
  BY <1>2, <1>3

\* A request of take_off_channels is never refused for a user on the list,
\* and takes every right from him.
LEMMA OffAllowed ==
  ASSUME NEW ch \in ChannelRecord, NEW n \in Node, GoodChannel(ch), n \in ch.users
  PROVE  Refusal(ch, n, OffRequest) = "OK" /\ NewAccess(ch, n, OffRequest) = {}
<1>1. OffRequest \in Request
  BY DEF OffRequest, Request, Change
<1>2. Refusal(ch, n, OffRequest) = "OK"
  BY DEF Refusal, OffRequest, GoodChannel
<1>3. /\ OffRequest.read = 0 /\ OffRequest.write = 0 /\ OffRequest.moderate = 0
      /\ OffRequest.invited = 0 /\ OffRequest.banned = 0
  BY DEF OffRequest
<1>4. /\ ModerateChange(ch, n, OffRequest) = 0
      /\ BannedChange(ch, n, OffRequest) = 0
  BY <1>3 DEF ModerateChange, BannedChange
<1>5. NewAccess(ch, n, OffRequest) =
        With(With(With(With(With(ch.access[n], "READ", 0), "WRITE", 0),
                       "MODERATE", 0), "INVITED", 0), "BANNED", 0)
  BY <1>3, <1>4 DEF NewAccess
<1>6. \A r \in Access : r \notin NewAccess(ch, n, OffRequest)
  BY <1>5, WithElements DEF Access, Change
<1>7. NewAccess(ch, n, OffRequest) = {}
  BY <1>1, <1>6, NewAccessElements
<1> QED
  BY <1>2, <1>7

\* So he is off the list.
LEMMA OffTakesOff ==
  ASSUME NEW c \in Channel, NEW ch \in ChannelRecord, NEW n \in Node,
         GoodChannel(ch)
  PROVE  n \notin Outcome(c, ch, n, {}, OffRequest).ch.users
<1>1. CASE n \notin ch.users
  BY <1>1 DEF Outcome, Refusal, OffRequest
<1>2. CASE n \in ch.users
  <2>1. Refusal(ch, n, OffRequest) = "OK" /\ NewAccess(ch, n, OffRequest) = {}
    BY <1>2, OffAllowed
  <2>2. Outcome(c, ch, n, {}, OffRequest).ch = Changed(ch, n, OffRequest)
    BY <2>1 DEF Outcome
  <2>3. Changed(ch, n, OffRequest).users = ch.users \ {n}
    BY <2>1, ChangedUsers, Zenon
  <2> QED
    BY <2>2, <2>3
<1> QED
  BY <1>1, <1>2

\* server_abuf_write only ever drops packets.
LEMMA DeliveredType ==
  ASSUME NEW packets, packets \subseteq Packet
  PROVE  Delivered(packets) \subseteq Packet
BY DEF Delivered

\* The counters of a channel have nothing to do with its being good.
LEMMA LineoutKeepsGood ==
  ASSUME NEW ch \in ChannelRecord, GoodChannel(ch), NEW lines \in [Node -> Nat]
  PROVE  LET after == [ch EXCEPT !.lineout = lines]
         IN  after \in ChannelRecord /\ GoodChannel(after) /\ after.users = ch.users
BY DEF GoodChannel, ChannelRecord

\* A line leaves the counters natural numbers.
LEMMA LinesAfterType ==
  ASSUME NEW ch \in ChannelRecord, NEW n \in Node
  PROVE  LinesAfter(ch, n) \in [Node -> Nat]
BY DEF LinesAfter, ChannelRecord

-----------------------------------------------------------------------------
(* The inductive invariant.                                                 *)

\* What a step that replaces one channel, or none, has to show.
LEMMA OneChannel ==
  ASSUME ServerInvariant, NEW c \in Channel, NEW ch \in ChannelRecord,
         GoodChannel(ch),
         \A n \in Node : n \in ch.users => n \in channels[c].users \/ Online(n),
         channels' = [channels EXCEPT ![c] = ch],
         sent' \subseteq Packet, signalled' \subseteq Node, crashed' \in BOOLEAN,
         UNCHANGED <<status, privs>>
  PROVE  ServerInvariant'
<1>1. channels \in [Channel -> ChannelRecord]
  BY DEF ServerInvariant, TypeOK
<1>2. TypeOK'
  BY <1>1 DEF ServerInvariant, TypeOK
<1>3. (\A d \in Channel : GoodChannel(channels[d]))'
  <2> SUFFICES ASSUME NEW d \in Channel
               PROVE  GoodChannel(channels'[d])
    BY DEF GoodChannel
  <2>1. channels'[d] = IF d = c THEN ch ELSE channels[d]
    BY <1>1
  <2>2. QED
    BY <2>1, Zenon DEF ServerInvariant
<1>4. NoGhosts'
  BY <1>1 DEF ServerInvariant, NoGhosts, Online
<1>5. QED
  BY <1>2, <1>3, <1>4 DEF ServerInvariant

\* Steps that change nothing but who was told what.
LEMMA NoChange ==
  ASSUME ServerInvariant, sent' \subseteq Packet, signalled' \subseteq Node,
         crashed' \in BOOLEAN, UNCHANGED <<status, privs, channels>>
  PROVE  ServerInvariant'
BY DEF ServerInvariant, TypeOK, NoGhosts

\* channel_stat_change for a request the server makes.
LEMMA StatChangeKeeps ==
  ASSUME ServerInvariant, NEW c \in Channel, NEW n \in Node,
         NEW replyTo \in SUBSET Node, NEW q, SafeRequest(q),
         StatChange(c, n, replyTo, q)
  PROVE  ServerInvariant'
<1>1. CASE Crash({})
  <2>1. sent' \subseteq Packet /\ crashed' \in BOOLEAN
    BY <1>1, DeliveredType DEF Crash
  <2>2. QED
    BY <1>1, <2>1, NoChange DEF Crash, ServerInvariant, TypeOK
<1>2. CASE ~Crash({})
  <2> DEFINE outcome == Outcome(c, channels[c], n, replyTo, q)
  <2>1. channels[c] \in ChannelRecord /\ GoodChannel(channels[c])
    BY DEF ServerInvariant, TypeOK
  <2>2. /\ outcome.ch \in ChannelRecord
        /\ GoodChannel(outcome.ch)
        /\ outcome.packets \subseteq Packet
        /\ outcome.ch.users \subseteq channels[c].users \cup {n}
    BY <2>1, RequestKeepsGood
  <2>3. /\ channels' = [channels EXCEPT ![c] = outcome.ch]
        /\ sent' = Delivered(outcome.packets)
        /\ UNCHANGED <<status, privs, signalled, crashed>>
        /\ Online(n)
    BY <1>2 DEF StatChange
  <2>4. sent' \subseteq Packet
    BY <2>2, <2>3, DeliveredType
  <2>5. signalled' \subseteq Node /\ crashed' \in BOOLEAN
    BY <2>3 DEF ServerInvariant, TypeOK
  <2> HIDE DEF outcome
  <2>6. QED
    BY <2>2, <2>3, <2>4, <2>5, OneChannel
<1>3. QED
  BY <1>1, <1>2

\* The answer to a message of somebody who lacks a right.
LEMMA RebuffedKeeps ==
  ASSUME ServerInvariant, NEW n \in Node, NEW c \in Channel, NEW checks,
         Rebuffed(n, c, checks)
  PROVE  ServerInvariant'
<1>1. SenderError(channels[c], n, checks) \in PacketKind
  BY DEF Rebuffed, SenderError, PacketKind
<1>2. PacketsTo({n}, SenderError(channels[c], n, checks), c, n) \subseteq Packet
  BY <1>1, PacketsType
<1>3. sent' \subseteq Packet
  BY <1>2, DeliveredType DEF Rebuffed
<1>4. QED
  BY <1>3, NoChange DEF Rebuffed, ServerInvariant, TypeOK

\* Messages that are passed on to any set of nodes.
LEMMA RelayKeeps ==
  ASSUME ServerInvariant, NEW n \in Node, NEW c \in Channel, NEW checks,
         NEW to \in SUBSET Node, NEW kind \in PacketKind, Relay(n, c, checks, to, kind)
  PROVE  ServerInvariant'
<1>1. CASE Rebuffed(n, c, checks)
  BY <1>1, RebuffedKeeps
<1>2. CASE ~Rebuffed(n, c, checks)
  <2>1. sent' = Delivered(PacketsTo(to, kind, c, n))
    BY <1>2 DEF Relay
  <2>2. sent' \subseteq Packet
    BY <2>1, PacketsType, DeliveredType
  <2>3. QED
    BY <1>2, <2>2, NoChange DEF Relay, ServerInvariant, TypeOK
<1>3. QED
  BY <1>1, <1>2

\* SETCHAN, whatever it does to the flags and the limit, as long as it does
\* not clear ALLJOIN.
LEMMA SetChannelKeeps ==
  ASSUME ServerInvariant, NEW n \in Node, NEW c \in Channel, NEW ch \in ChannelRecord,
         GoodChannel(ch), ch.users = channels[c].users, SetChannel(n, c, ch)
  PROVE  ServerInvariant'
<1>1. CASE Rebuffed(n, c, Moderating)
  BY <1>1, RebuffedKeeps
<1>2. CASE ~Rebuffed(n, c, Moderating)
  BY <1>2, OneChannel DEF SetChannel, ServerInvariant, TypeOK
<1>3. QED
  BY <1>1, <1>2

\* The other flags and the limit can be what they like.
LEMMA FlagsAndLimit ==
  ASSUME NEW ch \in ChannelRecord, GoodChannel(ch), NEW num \in Nat,
         NEW letter \in {"A", "a"}
  PROVE  /\ LET after == [ch EXCEPT !.flags = FlagsAfter(@, Capital(letter))]
            IN  after \in ChannelRecord /\ GoodChannel(after) /\ after.users = ch.users
         /\ LET after == [ch EXCEPT !.max = IF num \in MinMaxLineout .. MaxMaxLineout THEN num ELSE @]
            IN  after \in ChannelRecord /\ GoodChannel(after) /\ after.users = ch.users
<1>1. Capital(letter) = "A"
  BY DEF Capital
<1>2. FlagsAfter(ch.flags, Capital(letter)) = ch.flags \cup {"ALLJOIN"}
  BY <1>1 DEF FlagsAfter
<1>3. QED
  BY <1>2 DEF GoodChannel, ChannelRecord, ChannelFlag

\* take_off_channels leaves every channel good and the node on none.
LEMMA OffAllKeeps ==
  ASSUME ServerInvariant, NEW n \in Node, OffAll(n)
  PROVE  /\ channels' \in [Channel -> ChannelRecord]
         /\ \A c \in Channel : /\ GoodChannel(channels'[c])
                               /\ channels'[c].users \subseteq channels[c].users \ {n}
         /\ sent' \subseteq Packet
<1> DEFINE Out(c) == Outcome(c, channels[c], n, {}, OffRequest)
<1>1. \A c \in Channel : channels[c] \in ChannelRecord /\ GoodChannel(channels[c])
  BY DEF ServerInvariant, TypeOK
<1>2. \A c \in Channel : /\ Out(c).ch \in ChannelRecord
                         /\ GoodChannel(Out(c).ch)
                         /\ Out(c).packets \subseteq Packet
                         /\ Out(c).ch.users \subseteq channels[c].users \cup {n}
  BY <1>1, RequestKeepsGood, RequestsAreSafe
<1>3. \A c \in Channel : n \notin Out(c).ch.users
  BY <1>1, OffTakesOff
<1>4. \A c \in Channel : ~channels[c].open => channels[c].users = {}
  BY <1>1 DEF GoodChannel
<1>5. /\ channels' = [c \in Channel |-> IF channels[c].open THEN Out(c).ch ELSE channels[c]]
      /\ sent' = Delivered(UNION {Out(c).packets : c \in {d \in Channel : channels[d].open}})
  BY DEF OffAll
<1> HIDE DEF Out
<1>6. sent' \subseteq Packet
  <2>1. UNION {Out(c).packets : c \in {d \in Channel : channels[d].open}} \subseteq Packet
    BY <1>2
  <2>2. QED
    BY <1>5, <2>1, DeliveredType
<1>7. channels' \in [Channel -> ChannelRecord]
  BY <1>1, <1>2, <1>5
<1>8. ASSUME NEW c \in Channel
      PROVE  /\ GoodChannel(channels'[c])
             /\ channels'[c].users \subseteq channels[c].users \ {n}
  <2>1. CASE channels[c].open
    BY <1>2, <1>3, <1>5, <2>1
  <2>2. CASE ~channels[c].open
    BY <1>1, <1>4, <1>5, <2>2
  <2>3. QED
    BY <2>1, <2>2
<1>9. QED
  BY <1>6, <1>7, <1>8

\* MESSAGE, with the ban of a user who goes on too long.
LEMMA DistributeKeeps ==
  ASSUME ServerInvariant, NEW n \in Node, NEW c \in Channel, Distribute(n, c)
  PROVE  ServerInvariant'
<1> DEFINE ch      == [channels[c] EXCEPT !.lineout = LinesAfter(channels[c], n)]
           heard   == PacketsTo(Readers(ch), "MESSAGE", c, n)
           outcome == Outcome(c, ch, n, {n}, LineoutRequest)
<1>1. channels[c] \in ChannelRecord /\ GoodChannel(channels[c])
  BY DEF ServerInvariant, TypeOK
<1>2. ch \in ChannelRecord /\ GoodChannel(ch) /\ ch.users = channels[c].users
  BY <1>1, LinesAfterType, LineoutKeepsGood
<1>3. heard \subseteq Packet
  <2>1. Readers(ch) \in SUBSET Node
    BY <1>2 DEF Readers, ChannelRecord
  <2>2. QED
    BY <2>1, PacketsType DEF PacketKind
<1> HIDE DEF ch
<1>4. /\ outcome.ch \in ChannelRecord
      /\ GoodChannel(outcome.ch)
      /\ outcome.packets \subseteq Packet
      /\ outcome.ch.users \subseteq channels[c].users \cup {n}
  <2>1. SafeRequest(LineoutRequest)
    BY RequestsAreSafe
  <2>2. {n} \in SUBSET Node
    OBVIOUS
  <2>3. /\ outcome.ch \in ChannelRecord
        /\ GoodChannel(outcome.ch)
        /\ outcome.packets \subseteq Packet
        /\ outcome.ch.users \subseteq ch.users \cup {n}
    BY <1>2, <2>1, <2>2, RequestKeepsGood
  <2>4. QED
    BY <1>2, <2>3
<1>5. \/ Rebuffed(n, c, Speaking)
      \/ /\ channels' = [channels EXCEPT ![c] = ch]
         /\ sent' = Delivered(heard)
         /\ UNCHANGED <<status, privs, signalled, crashed>>
      \/ /\ Online(n)
         /\ channels' = [channels EXCEPT ![c] = outcome.ch]
         /\ sent' = Delivered(heard \cup outcome.packets)
         /\ signalled' = signalled \cup {n}
         /\ UNCHANGED <<status, privs, crashed>>
      \/ Crash(heard)
  BY DEF Distribute, ch
<1>6. /\ Delivered(heard) \subseteq Packet
      /\ Delivered(heard \cup outcome.packets) \subseteq Packet
  BY <1>3, <1>4, DeliveredType
<1>7. signalled \subseteq Node /\ crashed \in BOOLEAN
  BY DEF ServerInvariant, TypeOK
<1> HIDE DEF heard, outcome
<1>8. CASE Rebuffed(n, c, Speaking)
  BY <1>8, RebuffedKeeps
<1>9. CASE /\ channels' = [channels EXCEPT ![c] = ch]
           /\ sent' = Delivered(heard)
           /\ UNCHANGED <<status, privs, signalled, crashed>>
  BY <1>2, <1>6, <1>7, <1>9, OneChannel
<1>10. CASE /\ Online(n)
            /\ channels' = [channels EXCEPT ![c] = outcome.ch]
            /\ sent' = Delivered(heard \cup outcome.packets)
            /\ signalled' = signalled \cup {n}
            /\ UNCHANGED <<status, privs, crashed>>
  BY <1>4, <1>6, <1>7, <1>10, OneChannel
<1>11. CASE Crash(heard)
  BY <1>6, <1>7, <1>11, NoChange DEF Crash
<1>12. QED
  BY <1>5, <1>8, <1>9, <1>10, <1>11

\* Lines of links reset counters and no more.
LEMMA DdialDistributeKeeps ==
  ASSUME ServerInvariant, NEW n \in Node, NEW c \in Channel, DdialDistribute(n, c)
  PROVE  ServerInvariant'
<1> DEFINE to    == DdialReaders(channels[c], n)
           lines == [m \in Node |-> IF m \in to THEN 0 ELSE channels[c].lineout[m]]
           ch    == [channels[c] EXCEPT !.lineout = lines]
<1>1. CASE Rebuffed(n, c, Speaking)
  BY <1>1, RebuffedKeeps
<1>2. CASE ~Rebuffed(n, c, Speaking)
  <2>1. channels[c] \in ChannelRecord /\ GoodChannel(channels[c])
    BY DEF ServerInvariant, TypeOK
  <2>2. lines \in [Node -> Nat] /\ to \in SUBSET Node
    BY <2>1 DEF DdialReaders, ChannelRecord
  <2>3. ch \in ChannelRecord /\ GoodChannel(ch) /\ ch.users = channels[c].users
    BY <2>1, <2>2, LineoutKeepsGood
  <2>4. /\ channels' = [channels EXCEPT ![c] = ch]
        /\ sent' = Delivered(PacketsTo(to, "DDIAL", c, n))
        /\ UNCHANGED <<status, privs, signalled, crashed>>
    BY <1>2 DEF DdialDistribute
  <2>5. sent' \subseteq Packet
    BY <2>2, <2>4, PacketsType, DeliveredType DEF PacketKind
  <2>6. signalled' \subseteq Node /\ crashed' \in BOOLEAN
    BY <2>4 DEF ServerInvariant, TypeOK
  <2> HIDE DEF ch, lines, to
  <2>7. QED
    BY <2>3, <2>4, <2>5, <2>6, OneChannel
<1>3. QED
  BY <1>1, <1>2

\* Every message a node can send about a channel.
LEMMA ChannelMessageKeeps ==
  ASSUME ServerInvariant, NEW n \in Node, NEW c \in Channel, ChannelMessage(n, c)
  PROVE  ServerInvariant'
<1>1. channels[c] \in ChannelRecord /\ GoodChannel(channels[c])
  BY DEF ServerInvariant, TypeOK
<1>2. CASE Join(n, c)
  BY <1>2, StatChangeKeeps, RequestsAreSafe DEF Join
<1>3. CASE Leave(n, c)
  BY <1>3, StatChangeKeeps, RequestsAreSafe DEF Leave
<1>4. ASSUME NEW letter \in {"A", "a"}, SetChanFlag(n, c, letter)
      PROVE  ServerInvariant'
  <2>1. LET after == [channels[c] EXCEPT !.flags = FlagsAfter(@, Capital(letter))]
        IN  /\ after \in ChannelRecord /\ GoodChannel(after)
            /\ after.users = channels[c].users
    BY <1>1, FlagsAndLimit
  <2>2. QED
    BY <1>4, <2>1, SetChannelKeeps DEF SetChanFlag
<1>5. ASSUME NEW target \in Node, NEW letter \in PermLetter, NEW change \in {0, 1},
             SetPerm(n, c, target, letter, change)
      PROVE  ServerInvariant'
  <2>1. CASE Rebuffed(n, c, Moderating)
    BY <2>1, RebuffedKeeps
  <2>2. CASE StatChange(c, target, {target}, PermRequest(letter, change))
    BY <2>2, StatChangeKeeps, RequestsAreSafe
  <2>3. QED
    BY <1>5, <2>1, <2>2 DEF SetPerm
<1>6. ASSUME NEW num \in Limits, SetChanLimit(n, c, num)
      PROVE  ServerInvariant'
  <2>1. num \in Nat
    BY ChannelsAssumption
  <2>2. LET after == [channels[c] EXCEPT !.max = IF num \in MinMaxLineout .. MaxMaxLineout THEN num ELSE @]
        IN  /\ after \in ChannelRecord /\ GoodChannel(after)
            /\ after.users = channels[c].users
    BY <1>1, <2>1, FlagsAndLimit
  <2>3. QED
    BY <1>6, <2>2, SetChannelKeeps DEF SetChanLimit
<1>7. CASE Distribute(n, c)
  BY <1>7, DistributeKeeps
<1>8. CASE DdialDistribute(n, c)
  BY <1>8, DdialDistributeKeeps
<1>9. Readers(channels[c]) \in SUBSET Node
  BY <1>1 DEF Readers, ChannelRecord
<1>10. CASE Binary(n, c)
  BY <1>9, <1>10, RelayKeeps DEF Binary, PacketKind
<1>11. CASE Wall(n, c)
  <2>1. PICK stale \in SUBSET (Node \ Readers(channels[c])) :
          Relay(n, c, {}, Readers(channels[c]) \cup stale, "WALL")
    BY <1>11 DEF Wall
  <2>2. QED
    BY <1>9, <2>1, RelayKeeps DEF PacketKind
<1>12. CASE WallA(n, c)
  BY <1>9, <1>12, RelayKeeps DEF WallA, PacketKind
<1>13. QED
  BY <1>2, <1>3, <1>4, <1>5, <1>6, <1>7, <1>8, <1>10, <1>11, <1>12
     DEF ChannelMessage

\* What a step that only takes nodes off channels has to show.
LEMMA FewerUsers ==
  ASSUME ServerInvariant, NEW n \in Node, OffAll(n),
         status' = status \/ status' = [status EXCEPT ![n] = "EMPTY"],
         privs' \in [Node -> SUBSET Priv], signalled' \subseteq Node,
         UNCHANGED crashed
  PROVE  ServerInvariant'
<1>1. /\ channels' \in [Channel -> ChannelRecord]
      /\ \A c \in Channel : /\ GoodChannel(channels'[c])
                            /\ channels'[c].users \subseteq channels[c].users \ {n}
      /\ sent' \subseteq Packet
  BY OffAllKeeps
<1>2. status \in [Node -> Status] /\ status' \in [Node -> Status] /\ crashed' \in BOOLEAN
  BY DEF ServerInvariant, TypeOK, Status
<1>3. TypeOK'
  BY <1>1, <1>2 DEF TypeOK
<1>4. NoGhosts'
  BY <1>1, <1>2 DEF NoGhosts, ServerInvariant
<1>5. QED
  BY <1>1, <1>3, <1>4 DEF ServerInvariant, GoodChannel

\* What a client does to its own node.
LEMMA ClientKeeps ==
  ASSUME ServerInvariant, NEW n \in Node, NEW from \in Status,
         NEW to \in Status \ {"EMPTY"}, ClientChanges(n, from, to),
         privs' \in [Node -> SUBSET Priv], signalled' \subseteq Node
  PROVE  ServerInvariant'
<1>1. /\ status \in [Node -> Status] /\ status' = [status EXCEPT ![n] = to]
      /\ UNCHANGED <<channels, crashed>> /\ sent' = {}
  BY DEF ServerInvariant, TypeOK, ClientChanges
<1>2. TypeOK'
  BY <1>1 DEF ServerInvariant, TypeOK, Status
<1>3. NoGhosts'
  BY <1>1 DEF ServerInvariant, NoGhosts
<1>4. QED
  BY <1>1, <1>2, <1>3 DEF ServerInvariant

\* The initial state: no channel in the list, no client.
LEMMA InitGood == Init => ServerInvariant
<1> SUFFICES ASSUME Init
             PROVE  ServerInvariant
  OBVIOUS
<1>1. NewChannel \in ChannelRecord
  BY ChannelsAssumption DEF NewChannel, ChannelRecord, ChannelFlag
<1>2. GoodChannel(NewChannel)
  BY DEF NewChannel, GoodChannel
<1>3. TypeOK
  BY <1>1 DEF Init, TypeOK, Status
<1>4. \A c \in Channel : GoodChannel(channels[c]) /\ channels[c].users = {}
  BY <1>2 DEF Init, NewChannel
<1>5. QED
  BY <1>3, <1>4 DEF ServerInvariant, NoGhosts

\* Every step of the server and of the clients keeps the invariant.
LEMMA NextKeeps == ServerInvariant /\ [Next]_vars => ServerInvariant'
<1> SUFFICES ASSUME ServerInvariant, [Next]_vars
             PROVE  ServerInvariant'
  OBVIOUS
<1>1. CASE UNCHANGED vars
  BY <1>1, NoChange DEF vars, ServerInvariant, TypeOK
<1>2. ASSUME NEW n \in Node, NEW c \in Channel, ChannelMessage(n, c)
      PROVE  ServerInvariant'
  BY <1>2, ChannelMessageKeeps
<1>3. privs \in [Node -> SUBSET Priv] /\ signalled \subseteq Node /\ crashed \in BOOLEAN
  BY DEF ServerInvariant, TypeOK
<1>4. ASSUME Crash({})
      PROVE  ServerInvariant'
  BY <1>3, <1>4, DeliveredType, NoChange DEF Crash
<1>5. ASSUME NEW n \in Node, Bye(n)
      PROVE  ServerInvariant'
  BY <1>3, <1>4, <1>5, FewerUsers DEF Bye
<1>6. ASSUME NEW n \in Node, ClearNode(n)
      PROVE  ServerInvariant'
  <2>1. ForgetPrivs(n) => privs' \in [Node -> SUBSET Priv]
    BY <1>3 DEF ForgetPrivs
  <2>2. QED
    BY <1>3, <1>4, <1>6, <2>1, FewerUsers DEF ClearNode
<1>7. ASSUME NEW n \in Node, Connect(n)
      PROVE  ServerInvariant'
  BY <1>3, <1>7, ClientKeeps DEF Connect, Status
<1>8. ASSUME NEW n \in Node, NEW class \in Classes,
             Login(n, class) \/ ChangeClass(n, class)
      PROVE  ServerInvariant'
  <2>1. class \in SUBSET Priv
    BY ChannelsAssumption
  <2>2. privs' \in [Node -> SUBSET Priv] /\ signalled' \subseteq Node
    BY <1>3, <1>8, <2>1 DEF Login, ChangeClass
  <2>3. QED
    BY <1>8, <2>2, ClientKeeps DEF Login, ChangeClass, Status
<1>9. ASSUME NEW n \in Node, Relog(n)
      PROVE  ServerInvariant'
  <2>1. privs' \in [Node -> SUBSET Priv] /\ signalled' \subseteq Node
    BY <1>3, <1>9 DEF Relog, ForgetPrivs
  <2>2. QED
    BY <1>9, <2>1, ClientKeeps DEF Relog, Status
<1>10. QED
  BY <1>1, <1>2, <1>5, <1>6, <1>7, <1>8, <1>9 DEF Next

\* Every channel is good at all times, and no node without a client is on one.
THEOREM ServerIsSound == Spec => []ServerInvariant
<1>1. QED
  BY InitGood, NextKeeps, PTL DEF Spec

\* The variables keep their types.
THEOREM TypeCorrect == Spec => []TypeOK
<1>1. ServerInvariant => TypeOK
  BY DEF ServerInvariant
<1>2. QED
  BY <1>1, ServerIsSound, PTL

\* A banned user never reads a channel, however many users, channels and
\* classes there are, and whatever the moderators and the lineout do.
THEOREM BansHold == Spec => []BannedNeverReads
<1>1. ServerInvariant => BannedNeverReads
  BY DEF ServerInvariant, GoodChannel, BannedNeverReads
<1>2. QED
  BY <1>1, ServerIsSound, PTL

\* The lists hold exactly the users with a right.
THEOREM ListsAreExact == Spec => []ListedIffEntitled
<1>1. ServerInvariant => ListedIffEntitled
  BY DEF ServerInvariant, GoodChannel, ListedIffEntitled
<1>2. QED
  BY <1>1, ServerIsSound, PTL

\* A freed node is on no channel: its next user inherits nothing.
THEOREM GhostsNeverAppear == Spec => []NoGhosts
<1>1. ServerInvariant => NoGhosts
  BY DEF ServerInvariant
<1>2. QED
  BY <1>1, ServerIsSound, PTL

-----------------------------------------------------------------------------
(* ChangesAnnounced: what a request does to who is on the channel, and to  *)
(* whom it is told.                                                        *)

\* On a good channel the readers are the users with the right to read.
LEMMA ReadersOfGood ==
  ASSUME NEW ch \in ChannelRecord, GoodChannel(ch)
  PROVE  /\ Readers(ch) = {m \in Node : "READ" \in ch.access[m]}
         /\ \A m \in Node : OnChannel(ch.access[m]) <=> m \in Readers(ch)
<1>1. \A m \in Node : OnChannel(ch.access[m]) <=> "READ" \in ch.access[m]
  BY DEF GoodChannel, OnChannel
<1>2. \A m \in Node : "READ" \in ch.access[m] => m \in ch.users
  BY DEF GoodChannel
<1>3. ch.users \subseteq Node
  BY DEF ChannelRecord
<1> QED
  BY <1>1, <1>2, <1>3 DEF Readers

\* A request that is not refused moves its user in or out of the readers, the
\* barred and the moderators, and nobody else.
LEMMA AllowedEffect ==
  ASSUME NEW c \in Channel, NEW ch \in ChannelRecord, GoodChannel(ch), NEW n \in Node,
         NEW q, SafeRequest(q), Refusal(ch, n, q) = "OK"
  PROVE  LET after == Changed(ch, n, q)
             new   == NewAccess(ch, n, q)
         IN  /\ after \in ChannelRecord /\ GoodChannel(after) /\ after.open = TRUE
             /\ Readers(after) =
                  IF "READ" \in new THEN Readers(ch) \cup {n} ELSE Readers(ch) \ {n}
             /\ Barred(after) =
                  IF "BANNED" \in new THEN Barred(ch) \cup {n} ELSE Barred(ch) \ {n}
             /\ Moderators(after) =
                  IF "MODERATE" \in new THEN Moderators(ch) \cup {n}
                  ELSE Moderators(ch) \ {n}
             /\ OnChannel(new) <=> "READ" \in new
<1> DEFINE after == Changed(ch, n, q)
           new   == NewAccess(ch, n, q)
<1>1. q \in Request
  BY DEF SafeRequest
<1>2. after.open = TRUE /\ after \in ChannelRecord
  BY <1>1, ChangedOpen, ChangedType
<1>3. GoodChannel(after)
  BY RequestKeepsGood DEF Outcome
<1>4. after.access = [ch.access EXCEPT ![n] = new]
  BY ChangedAccess, Zenon
<1>5. ch.access \in [Node -> SUBSET Access]
  BY DEF ChannelRecord
<1> HIDE DEF after, new
<1>6. \A m \in Node : after.access[m] = IF m = n THEN new ELSE ch.access[m]
  BY <1>4, <1>5
<1>7. /\ Readers(after) = {m \in Node : "READ" \in after.access[m]}
      /\ Readers(ch) = {m \in Node : "READ" \in ch.access[m]}
      /\ \A m \in Node : OnChannel(after.access[m]) <=> m \in Readers(after)
  BY <1>2, <1>3, ReadersOfGood
<1>8. Readers(after) = IF "READ" \in new THEN Readers(ch) \cup {n} ELSE Readers(ch) \ {n}
  BY <1>6, <1>7
<1>9. Barred(after) = IF "BANNED" \in new THEN Barred(ch) \cup {n} ELSE Barred(ch) \ {n}
  BY <1>6 DEF Barred
<1>10. Moderators(after) = IF "MODERATE" \in new THEN Moderators(ch) \cup {n}
                           ELSE Moderators(ch) \ {n}
  BY <1>6 DEF Moderators
<1>11. OnChannel(new) <=> "READ" \in new
  BY <1>6, <1>7
<1> QED
  BY <1>2, <1>3, <1>8, <1>9, <1>10, <1>11 DEF after, new

\* What ChangesAnnounced says of one channel, for the packets sent.
Told(c, old, new, packets) ==
  \A n \in Node :
    (n \in Readers(old)) # (n \in Readers(new)) =>
      PacketsTo({m \in Readers(new) \ {n} : Online(m)},
                IF n \in Readers(new) THEN "JOINCHANNEL" ELSE "LEAVECHANNEL", c, n)
        \subseteq packets

\* server_abuf_write drops no packet to somebody who is online.
LEMMA DeliveredToOnline ==
  ASSUME NEW S, NEW kind, NEW c, NEW n, NEW packets,
         PacketsTo(S, kind, c, n) \subseteq packets, NEW T, T \subseteq S
  PROVE  PacketsTo({m \in T : Online(m)}, kind, c, n) \subseteq Delivered(packets)
BY DEF PacketsTo, Delivered

\* channel_stat_change tells everybody on the channel.
LEMMA OutcomeTold ==
  ASSUME NEW c \in Channel, NEW ch \in ChannelRecord, GoodChannel(ch), NEW n \in Node,
         NEW replyTo, NEW q, SafeRequest(q)
  PROVE  LET outcome == Outcome(c, ch, n, replyTo, q)
         IN  Told(c, ch, outcome.ch, Delivered(outcome.packets))
<1>1. CASE Refusal(ch, n, q) # "OK"
  BY <1>1 DEF Outcome, Told
<1>2. CASE Refusal(ch, n, q) = "OK"
  <2> DEFINE after == Changed(ch, n, q)
             new   == NewAccess(ch, n, q)
             told  == Announcements(c, ch, n, q)
  <2>1. /\ Outcome(c, ch, n, replyTo, q).ch = after
        /\ Outcome(c, ch, n, replyTo, q).packets = told
    BY <1>2 DEF Outcome
  <2>2. /\ Readers(after) = IF "READ" \in new THEN Readers(ch) \cup {n} ELSE Readers(ch) \ {n}
        /\ OnChannel(new) <=> "READ" \in new
    BY <1>2, AllowedEffect
  <2>3. OnChannel(ch.access[n]) <=> n \in Readers(ch)
    BY ReadersOfGood
  <2>4. ASSUME n \notin Readers(ch), OnChannel(new)
        PROVE  PacketsTo(Readers(after), "JOINCHANNEL", c, n) \subseteq told
    BY <2>3, <2>4 DEF Announcements, When
  <2>5. ASSUME n \in Readers(ch), ~OnChannel(new)
        PROVE  PacketsTo(Readers(after), "LEAVECHANNEL", c, n) \subseteq told
    BY <2>3, <2>5 DEF Announcements, When
  <2> HIDE DEF after, new, told
  <2>6. ASSUME NEW m \in Node, (m \in Readers(ch)) # (m \in Readers(after))
        PROVE  PacketsTo({k \in Readers(after) \ {m} : Online(k)},
                         IF m \in Readers(after) THEN "JOINCHANNEL" ELSE "LEAVECHANNEL", c, m)
                 \subseteq Delivered(told)
    <3>1. m = n
      BY <2>2, <2>6
    <3>2. PacketsTo(Readers(after),
                    IF m \in Readers(after) THEN "JOINCHANNEL" ELSE "LEAVECHANNEL", c, m)
            \subseteq told
      BY <2>2, <2>4, <2>5, <2>6, <3>1
    <3> QED
      BY <3>2, DeliveredToOnline
  <2> QED
    BY <2>1, <2>6 DEF Told
<1> QED
  BY <1>1, <1>2

\* A step that replaces one channel at most tells of no other.
LEMMA OneChannelTold ==
  ASSUME ServerInvariant, NEW c \in Channel, NEW ch,
         channels' = [channels EXCEPT ![c] = ch], Told(c, channels[c], ch, sent')
  PROVE  \A d \in Channel : Told(d, channels[d], channels'[d], sent')
<1>1. channels \in [Channel -> ChannelRecord]
  BY DEF ServerInvariant, TypeOK
<1>2. ASSUME NEW d \in Channel PROVE Told(d, channels[d], channels'[d], sent')
  <2>1. CASE d = c
    BY <1>1, <2>1
  <2>2. CASE d # c
    <3>1. channels'[d] = channels[d]
      BY <1>1, <2>2
    <3> QED
      BY <3>1 DEF Told
  <2> QED
    BY <2>1, <2>2
<1> QED
  BY <1>2

\* Who reads a channel does not depend on its counters, flags and limit.
LEMMA SameReadersTold ==
  ASSUME NEW c, NEW old, NEW new, NEW packets, Readers(new) = Readers(old)
  PROVE  Told(c, old, new, packets)
BY DEF Told

\* More packets tell no less.
LEMMA MoreTold ==
  ASSUME NEW c, NEW old, NEW new, NEW few, NEW many, Told(c, old, new, few), few \subseteq many
  PROVE  Told(c, old, new, many)
BY DEF Told

AllTold == \A c \in Channel : Told(c, channels[c], channels'[c], sent')

\* Steps that leave the channels alone have nothing to tell.
LEMMA NothingToTell == UNCHANGED channels => AllTold
BY DEF AllTold, Told

LEMMA StatChangeTells ==
  ASSUME ServerInvariant, NEW c \in Channel, NEW n \in Node,
         NEW replyTo \in SUBSET Node, NEW q, SafeRequest(q),
         StatChange(c, n, replyTo, q)
  PROVE  AllTold
<1>1. CASE Crash({})
  BY <1>1, NothingToTell DEF Crash
<1>2. CASE ~Crash({})
  <2> DEFINE outcome == Outcome(c, channels[c], n, replyTo, q)
  <2>1. channels[c] \in ChannelRecord /\ GoodChannel(channels[c])
    BY DEF ServerInvariant, TypeOK
  <2>2. /\ channels' = [channels EXCEPT ![c] = outcome.ch]
        /\ sent' = Delivered(outcome.packets)
    BY <1>2 DEF StatChange
  <2>3. Told(c, channels[c], outcome.ch, sent')
    BY <2>1, <2>2, OutcomeTold
  <2> HIDE DEF outcome
  <2> QED
    BY <2>2, <2>3, OneChannelTold DEF AllTold
<1> QED
  BY <1>1, <1>2

\* take_off_channels tells those on every channel.
LEMMA OffAllTells ==
  ASSUME ServerInvariant, NEW n \in Node, OffAll(n)
  PROVE  AllTold
<1> DEFINE Out(c) == Outcome(c, channels[c], n, {}, OffRequest)
           opened == {c \in Channel : channels[c].open}
<1>1. \A c \in Channel : channels[c] \in ChannelRecord /\ GoodChannel(channels[c])
  BY DEF ServerInvariant, TypeOK
<1>2. \A c \in Channel : Told(c, channels[c], Out(c).ch, Delivered(Out(c).packets))
  BY <1>1, OutcomeTold, RequestsAreSafe
<1>3. /\ channels' = [c \in Channel |-> IF c \in opened THEN Out(c).ch ELSE channels[c]]
      /\ sent' = Delivered(UNION {Out(c).packets : c \in opened})
  BY DEF OffAll
<1>4. ASSUME NEW c \in Channel PROVE Told(c, channels[c], channels'[c], sent')
  <2>1. CASE c \in opened
    <3>1. Delivered(Out(c).packets) \subseteq sent'
      BY <1>3, <2>1 DEF Delivered
    <3>2. channels'[c] = Out(c).ch
      BY <1>3, <2>1
    <3> QED
      BY <1>2, <3>1, <3>2, MoreTold
  <2>2. CASE c \notin opened
    <3>1. channels'[c] = channels[c]
      BY <1>3, <2>2
    <3> QED
      BY <3>1, SameReadersTold
  <2> QED
    BY <2>1, <2>2
<1> QED
  BY <1>4 DEF AllTold

\* Counters, flags and limits do not make a reader.
LEMMA ReadersOfCopy ==
  ASSUME NEW ch \in ChannelRecord, NEW lines, NEW flags, NEW max
  PROVE  /\ Readers([ch EXCEPT !.lineout = lines]) = Readers(ch)
         /\ Readers([ch EXCEPT !.flags = flags]) = Readers(ch)
         /\ Readers([ch EXCEPT !.max = max]) = Readers(ch)
BY DEF Readers, ChannelRecord

\* The line that is one too many is told with the ban it earns.
LEMMA DistributeTells ==
  ASSUME ServerInvariant, NEW n \in Node, NEW c \in Channel, Distribute(n, c)
  PROVE  AllTold
<1> DEFINE ch      == [channels[c] EXCEPT !.lineout = LinesAfter(channels[c], n)]
           heard   == PacketsTo(Readers(ch), "MESSAGE", c, n)
           outcome == Outcome(c, ch, n, {n}, LineoutRequest)
<1>1. channels[c] \in ChannelRecord /\ GoodChannel(channels[c])
  BY DEF ServerInvariant, TypeOK
<1>2. ch \in ChannelRecord /\ GoodChannel(ch) /\ Readers(ch) = Readers(channels[c])
  BY <1>1, LinesAfterType, LineoutKeepsGood, ReadersOfCopy
<1> HIDE DEF ch
<1>3. Told(c, ch, outcome.ch, Delivered(outcome.packets))
  BY <1>2, OutcomeTold, RequestsAreSafe
<1>4. \/ UNCHANGED channels
      \/ channels' = [channels EXCEPT ![c] = ch]
      \/ /\ channels' = [channels EXCEPT ![c] = outcome.ch]
         /\ sent' = Delivered(heard \cup outcome.packets)
  BY DEF Distribute, ch, Rebuffed, Crash
<1> HIDE DEF heard, outcome
<1>5. CASE channels' = [channels EXCEPT ![c] = ch]
  BY <1>2, <1>5, SameReadersTold, OneChannelTold DEF AllTold
<1>6. CASE /\ channels' = [channels EXCEPT ![c] = outcome.ch]
           /\ sent' = Delivered(heard \cup outcome.packets)
  <2>1. Delivered(outcome.packets) \subseteq sent'
    BY <1>6 DEF Delivered
  <2>2. Told(c, ch, outcome.ch, sent')
    BY <1>3, <2>1, MoreTold
  <2>3. Told(c, channels[c], outcome.ch, sent')
    BY <1>2, <2>2 DEF Told
  <2> QED
    BY <1>6, <2>3, OneChannelTold DEF AllTold
<1> QED
  BY <1>4, <1>5, <1>6, NothingToTell

\* Every message a node can send about a channel.
LEMMA ChannelMessageTells ==
  ASSUME ServerInvariant, NEW n \in Node, NEW c \in Channel, ChannelMessage(n, c)
  PROVE  AllTold
<1>1. channels[c] \in ChannelRecord /\ GoodChannel(channels[c])
  BY DEF ServerInvariant, TypeOK
<1>2. CASE Join(n, c) \/ Leave(n, c)
  BY <1>2, StatChangeTells, RequestsAreSafe DEF Join, Leave
<1>3. ASSUME NEW ch, SetChannel(n, c, ch), Readers(ch) = Readers(channels[c])
      PROVE  AllTold
  <2>1. UNCHANGED channels \/ channels' = [channels EXCEPT ![c] = ch]
    BY <1>3 DEF SetChannel, Rebuffed
  <2> QED
    BY <1>3, <2>1, NothingToTell, SameReadersTold, OneChannelTold DEF AllTold
<1>4. ASSUME NEW letter \in {"A", "a"}, SetChanFlag(n, c, letter)
      PROVE  AllTold
  BY <1>1, <1>3, <1>4, ReadersOfCopy DEF SetChanFlag
<1>5. ASSUME NEW num \in Limits, SetChanLimit(n, c, num)
      PROVE  AllTold
  BY <1>1, <1>3, <1>5, ReadersOfCopy DEF SetChanLimit
<1>6. ASSUME NEW target \in Node, NEW letter \in PermLetter, NEW change \in {0, 1},
             SetPerm(n, c, target, letter, change)
      PROVE  AllTold
  <2>1. CASE Rebuffed(n, c, Moderating)
    BY <2>1, NothingToTell DEF Rebuffed
  <2>2. CASE StatChange(c, target, {target}, PermRequest(letter, change))
    BY <2>2, StatChangeTells, RequestsAreSafe
  <2> QED
    BY <1>6, <2>1, <2>2 DEF SetPerm
<1>7. CASE Distribute(n, c)
  BY <1>7, DistributeTells
<1>8. CASE DdialDistribute(n, c)
  <2>1. CASE Rebuffed(n, c, Speaking)
    BY <2>1, NothingToTell DEF Rebuffed
  <2>2. CASE ~Rebuffed(n, c, Speaking)
    <3>1. PICK lines : channels' = [channels EXCEPT ![c] =
                                      [channels[c] EXCEPT !.lineout = lines]]
      BY <1>8, <2>2 DEF DdialDistribute
    <3> QED
      BY <1>1, <3>1, ReadersOfCopy, SameReadersTold, OneChannelTold DEF AllTold
  <2> QED
    BY <2>1, <2>2
<1>9. CASE Binary(n, c) \/ Wall(n, c) \/ WallA(n, c)
  BY <1>9, NothingToTell DEF Binary, Wall, WallA, Relay, Rebuffed
<1> QED
  BY <1>2, <1>4, <1>5, <1>6, <1>7, <1>8, <1>9 DEF ChannelMessage

LEMMA NextTells ==
  ASSUME ServerInvariant, [Next]_vars
  PROVE  AllTold
<1>1. CASE UNCHANGED vars
  BY <1>1, NothingToTell DEF vars
<1>2. ASSUME NEW n \in Node, NEW c \in Channel, ChannelMessage(n, c)
      PROVE  AllTold
  BY <1>2, ChannelMessageTells
<1>3. ASSUME NEW n \in Node, Bye(n) \/ ClearNode(n)
      PROVE  AllTold
  BY <1>3, OffAllTells, NothingToTell DEF Bye, ClearNode, Crash
<1>4. ASSUME NEW n \in Node, NEW class,
             Connect(n) \/ Login(n, class) \/ ChangeClass(n, class) \/ Relog(n)
      PROVE  AllTold
  BY <1>4, NothingToTell DEF Connect, Login, ChangeClass, Relog, ClientChanges
<1> QED
  BY <1>1, <1>2, <1>3, <1>4 DEF Next

\* Whoever comes to be on a channel or ceases to be is announced, in the same step,
\* to everybody else on it who is online: clients never keep a list of users that
\* is not the server's (srv_channel.c, channel_stat_change and take_off_channels).
THEOREM EverybodyIsTold == Spec => ChangesAnnounced
<1>1. ServerInvariant /\ [Next]_vars =>
        [\A c \in Channel : \A n \in Node :
           LET was == n \in Readers(channels[c])
               is  == n \in Readers(channels'[c])
           IN  was # is =>
                 PacketsTo({m \in Readers(channels'[c]) \ {n} : Online(m)},
                           IF is THEN "JOINCHANNEL" ELSE "LEAVECHANNEL", c, n)
                   \subseteq sent']_vars
  BY NextTells DEF AllTold, Told
<1> QED
  BY <1>1, ServerIsSound, PTL DEF Spec, ChangesAnnounced

-----------------------------------------------------------------------------
(* The server implements Roster.                                            *)

\* What Roster sees of a step that replaces one channel.
LEMMA OneChannelSeen ==
  ASSUME ServerInvariant, NEW c \in Channel, NEW ch \in ChannelRecord,
         channels' = [channels EXCEPT ![c] = ch], UNCHANGED <<status, privs>>
  PROVE  /\ Present' = [Present EXCEPT ![c] = Readers(ch)]
         /\ Bars' = [Bars EXCEPT ![c] = Barred(ch)]
         /\ Mods' = [Mods EXCEPT ![c] = Moderators(ch)]
         /\ Founded' = IF ch.open THEN Founded \cup {c} ELSE Founded \ {c}
         /\ OnlineNodes' = OnlineNodes /\ Gods' = Gods
<1>1. channels \in [Channel -> ChannelRecord]
  BY DEF ServerInvariant, TypeOK
<1>2. \A d \in Channel : channels'[d] = IF d = c THEN ch ELSE channels[d]
  BY <1>1
<1>3. Present' = [Present EXCEPT ![c] = Readers(ch)]
  <2>1. \A d \in Channel : Readers(channels'[d]) = IF d = c THEN Readers(ch) ELSE Readers(channels[d])
    BY <1>2
  <2>2. Present' = [d \in Channel |-> Readers(channels'[d])]
    BY DEF Present, Readers
  <2> QED
    BY <2>1, <2>2 DEF Present
<1>4. Bars' = [Bars EXCEPT ![c] = Barred(ch)]
  <2>1. \A d \in Channel : Barred(channels'[d]) = IF d = c THEN Barred(ch) ELSE Barred(channels[d])
    BY <1>2
  <2>2. Bars' = [d \in Channel |-> Barred(channels'[d])]
    BY DEF Bars, Barred
  <2> QED
    BY <2>1, <2>2 DEF Bars
<1>5. Mods' = [Mods EXCEPT ![c] = Moderators(ch)]
  <2>1. \A d \in Channel : Moderators(channels'[d]) = IF d = c THEN Moderators(ch) ELSE Moderators(channels[d])
    BY <1>2
  <2>2. Mods' = [d \in Channel |-> Moderators(channels'[d])]
    BY DEF Mods, Moderators
  <2> QED
    BY <2>1, <2>2 DEF Mods
<1>6. Founded' = IF ch.open THEN Founded \cup {c} ELSE Founded \ {c}
  BY <1>2 DEF Founded
<1>7. OnlineNodes' = OnlineNodes /\ Gods' = Gods
  BY DEF OnlineNodes, Gods, Online, testFlag
<1> QED
  BY <1>3, <1>4, <1>5, <1>6, <1>7

\* Packets that are no lines are not heard.
LEMMA Unheard ==
  ASSUME NEW packets, \A p \in packets : p.kind \notin LineKind
  PROVE  Lines(Delivered(packets)) = {}
BY DEF Lines, Delivered

LEMMA UnheardKinds ==
  ASSUME NEW S, NEW kind, kind \notin LineKind, NEW c, NEW n
  PROVE  \A p \in PacketsTo(S, kind, c, n) : p.kind \notin LineKind
BY DEF PacketsTo

\* The answers and announcements of channel_stat_change are no lines.
LEMMA OutcomeUnheard ==
  ASSUME NEW c, NEW ch, NEW n, NEW replyTo, NEW q
  PROVE  \A p \in Outcome(c, ch, n, replyTo, q).packets : p.kind \notin LineKind
<1>1. CASE Refusal(ch, n, q) # "OK"
  <2>1. Refusal(ch, n, q) \notin LineKind
    BY <1>1 DEF Refusal, LineKind
  <2> QED
    BY <1>1, <2>1, UnheardKinds DEF Outcome
<1>2. CASE Refusal(ch, n, q) = "OK"
  <2>1. \A kind \in {"JOINCHANNEL", "LEAVECHANNEL", "INVITED", "UNINVITED", "BANNED",
                     "UNBANNED"} : kind \notin LineKind
    BY DEF LineKind
  <2>2. \A S, kind : kind \notin LineKind =>
           \A p \in PacketsTo(S, kind, c, n) : p.kind \notin LineKind
    BY UnheardKinds
  <2>3. \A old, new : \A p \in Notices(c, n, old, new) : p.kind \notin LineKind
    BY <2>1, <2>2 DEF Notices, When
  <2>4. \A p \in Announcements(c, ch, n, q) : p.kind \notin LineKind
    BY <2>1, <2>2, <2>3 DEF Announcements, When
  <2> QED
    BY <1>2, <2>4 DEF Outcome
<1> QED
  BY <1>1, <1>2

\* A line is heard by those of its addressees who are online.
LEMMA LinesHeard ==
  ASSUME NEW S \in SUBSET Node, NEW kind \in LineKind, NEW c, NEW n
  PROVE  Lines(Delivered(PacketsTo(S, kind, c, n)))
           = {[chan |-> c, by |-> n, to |-> m] : m \in S \cap OnlineNodes}
<1> DEFINE packets == Delivered(PacketsTo(S, kind, c, n))
           heard   == {[chan |-> c, by |-> n, to |-> m] : m \in S \cap OnlineNodes}
<1>1. ASSUME NEW m \in S \cap OnlineNodes
      PROVE  [chan |-> c, by |-> n, to |-> m] \in Lines(packets)
  <2> DEFINE p == [to |-> m, kind |-> kind, chan |-> c, who |-> n]
  <2>1. p \in packets /\ p.kind = kind
    BY <1>1 DEF PacketsTo, Delivered, OnlineNodes
  <2> QED
    BY <2>1 DEF Lines
<1>2. ASSUME NEW l \in Lines(packets)
      PROVE  l \in heard
  <2>1. PICK p \in packets : l = [chan |-> p.chan, by |-> p.who, to |-> p.to]
    BY DEF Lines
  <2>2. PICK m \in S : p = [to |-> m, kind |-> kind, chan |-> c, who |-> n]
    BY <2>1 DEF PacketsTo, Delivered
  <2>3. m \in OnlineNodes
    BY <2>1, <2>2 DEF Delivered, OnlineNodes
  <2> QED
    BY <2>1, <2>2, <2>3
<1> QED
  BY <1>1, <1>2

\* Packets that are no lines add nothing to what is heard.
LEMMA LinesAlone ==
  ASSUME NEW few, NEW more, \A p \in more : p.kind \notin LineKind
  PROVE  Lines(Delivered(few \cup more)) = Lines(Delivered(few))
BY DEF Lines, Delivered

\* Nothing is heard, and nobody comes, goes, is barred or appointed.
LEMMA Idle ==
  ASSUME Lines(sent') = {}, UNCHANGED channels
  PROVE  Abstract!Next
<1>1. UNCHANGED <<Founded, Present, Bars, Mods>>
  BY DEF Founded, Present, Bars, Mods
<1>2. Lines(sent)' = {}
  OBVIOUS
<1> QED
  BY <1>1, <1>2 DEF Abstract!Next, Abstract!Other, Abstract!Silence

\* What Roster sees of a step that leaves a user of a channel with new rights.
Seen(c, n, new) ==
  /\ Present' = [Present EXCEPT ![c] = IF "READ" \in new THEN @ \cup {n} ELSE @ \ {n}]
  /\ Bars' = [Bars EXCEPT ![c] = IF "BANNED" \in new THEN @ \cup {n} ELSE @ \ {n}]
  /\ Mods' = [Mods EXCEPT ![c] = IF "MODERATE" \in new THEN @ \cup {n} ELSE @ \ {n}]
  /\ Founded' = Founded \cup {c}
  /\ OnlineNodes' = OnlineNodes /\ Gods' = Gods

\* A request that is not refused is seen as such a step.
LEMMA AllowedSeen ==
  ASSUME ServerInvariant, NEW c \in Channel, NEW n \in Node, NEW q, SafeRequest(q),
         NEW ch \in ChannelRecord, GoodChannel(ch), ch.open = channels[c].open,
         ch.access = channels[c].access, ch.users = channels[c].users,
         Refusal(ch, n, q) = "OK",
         channels' = [channels EXCEPT ![c] = Changed(ch, n, q)],
         UNCHANGED <<status, privs>>
  PROVE  Seen(c, n, NewAccess(ch, n, q))
<1> DEFINE new   == NewAccess(ch, n, q)
           after == Changed(ch, n, q)
<1>1. /\ after \in ChannelRecord /\ after.open = TRUE
      /\ Readers(after) = IF "READ" \in new THEN Readers(ch) \cup {n} ELSE Readers(ch) \ {n}
      /\ Barred(after) = IF "BANNED" \in new THEN Barred(ch) \cup {n} ELSE Barred(ch) \ {n}
      /\ Moderators(after) = IF "MODERATE" \in new THEN Moderators(ch) \cup {n}
                             ELSE Moderators(ch) \ {n}
  BY AllowedEffect
<1>2. /\ Present[c] = Readers(ch) /\ Bars[c] = Barred(ch) /\ Mods[c] = Moderators(ch)
  BY DEF Present, Bars, Mods, Readers, Barred, Moderators
<1> HIDE DEF new, after
<1>3. /\ Present' = [Present EXCEPT ![c] = Readers(after)]
      /\ Bars' = [Bars EXCEPT ![c] = Barred(after)]
      /\ Mods' = [Mods EXCEPT ![c] = Moderators(after)]
      /\ Founded' = IF after.open THEN Founded \cup {c} ELSE Founded \ {c}
      /\ OnlineNodes' = OnlineNodes /\ Gods' = Gods
  BY <1>1, OneChannelSeen DEF after
<1> QED
  BY <1>1, <1>2, <1>3 DEF Seen, new

\* Who is let in is not barred, or is a god; he is not barred afterwards, and
\* moderates only what he founds, unless he is a god.
LEMMA JoinAllowed ==
  ASSUME NEW ch \in ChannelRecord, GoodChannel(ch), NEW n \in Node,
         Refusal(ch, n, JoinRequest) = "OK"
  PROVE  LET new == NewAccess(ch, n, JoinRequest)
         IN  /\ n \notin Barred(ch) \/ n \in Gods
             /\ "READ" \in new /\ "BANNED" \notin new
             /\ "MODERATE" \in new => ~ch.open \/ n \in Gods
<1> DEFINE q == JoinRequest
<1>1. q \in Request /\ q.read = 1 /\ q.moderate = 1 /\ q.banned = -1
  BY DEF JoinRequest, Request, Change
<1>2. n \in Gods <=> testFlag(n, "CHN_ALLMODERATE")
  BY DEF Gods
<1>3. n \notin Barred(ch) \/ (n \in Gods /\ n \in ch.users)
  BY <1>1, <1>2 DEF Refusal, Barred, GoodChannel
<1>4. BannedChange(ch, n, q) \in {0, -1} /\ (n \in Barred(ch) => BannedChange(ch, n, q) = 0)
  BY <1>1, <1>2, <1>3 DEF BannedChange
<1>5. "BANNED" \in ch.access[n] <=> n \in Barred(ch)
  BY DEF Barred
<1>6. ModerateChange(ch, n, q) = 1 => ~ch.open \/ n \in Gods
  BY <1>2 DEF ModerateChange, MayModerate
<1>7. ModerateChange(ch, n, q) # -1
  BY <1>1 DEF ModerateChange
<1> HIDE DEF q
<1>8. LET new == NewAccess(ch, n, q)
      IN  /\ "READ" \in new /\ "BANNED" \notin new
          /\ "MODERATE" \in new => ~ch.open \/ n \in Gods
  BY <1>1, <1>4, <1>5, <1>6, <1>7, NewAccessElements
<1> QED
  BY <1>3, <1>8 DEF q

LEMMA LeaveAllowed ==
  ASSUME NEW ch \in ChannelRecord, GoodChannel(ch), NEW n \in Node,
         Refusal(ch, n, LeaveRequest) = "OK"
  PROVE  LET new == NewAccess(ch, n, LeaveRequest)
         IN  /\ n \notin Barred(ch) \/ n \in Gods
             /\ {"READ", "BANNED", "MODERATE"} \cap new = {}
             /\ ch.open
<1> DEFINE q == LeaveRequest
<1>1. /\ q \in Request /\ q.read = 0 /\ q.moderate = 0 /\ q.banned = -1
      /\ q.newchannel = FALSE /\ q.newuser = FALSE
  BY DEF LeaveRequest, Request, Change
<1>2. n \in Gods <=> testFlag(n, "CHN_ALLMODERATE")
  BY DEF Gods
<1>3. ch.open /\ n \in ch.users
  BY <1>1 DEF Refusal, ChannelRecord
<1>4. n \notin Barred(ch) \/ n \in Gods
  BY <1>1, <1>2, <1>3 DEF Refusal, Barred
<1>5. BannedChange(ch, n, q) \in {0, -1} /\ (n \in Barred(ch) => BannedChange(ch, n, q) = 0)
  BY <1>1, <1>2, <1>3, <1>4 DEF BannedChange
<1>6. "BANNED" \in ch.access[n] <=> n \in Barred(ch)
  BY DEF Barred
<1>7. ModerateChange(ch, n, q) = 0
  BY <1>1 DEF ModerateChange
<1> HIDE DEF q
<1>8. {"READ", "BANNED", "MODERATE"} \cap NewAccess(ch, n, q) = {}
  BY <1>1, <1>5, <1>6, <1>7, NewAccessElements
<1> QED
  BY <1>3, <1>4, <1>8 DEF q

\* An order about a user bars him, pardons him, or appoints or dismisses him.
BarsHim(ch, n, new) ==
  /\ n \notin Gods \/ n \notin Readers(ch) \cup Moderators(ch)
  /\ "READ" \notin new /\ "BANNED" \in new
  /\ "MODERATE" \in new <=> n \in Moderators(ch)

PardonsHim(ch, n, new) ==
  /\ "BANNED" \notin new
  /\ "READ" \in new <=> n \in Readers(ch)
  /\ "MODERATE" \in new <=> n \in Moderators(ch)

AppointsHim(ch, n, new) ==
  /\ "MODERATE" \notin new \/ n \in Gods
  /\ "READ" \in new <=> n \in Readers(ch)
  /\ "BANNED" \in new <=> n \in Barred(ch) \ Gods

\* An order is a request to change one of the four rights, and never READ.
LEMMA OrderAllowed ==
  ASSUME NEW ch \in ChannelRecord, GoodChannel(ch), NEW n \in Node, ch.open,
         NEW q \in Request, q.read = -1, Refusal(ch, n, q) = "OK",
         q.banned = -1 \/ q.moderate = -1
  PROVE  LET new == NewAccess(ch, n, q)
         IN  BarsHim(ch, n, new) \/ PardonsHim(ch, n, new) \/ AppointsHim(ch, n, new)
<1> DEFINE new == NewAccess(ch, n, q)
           ban == BannedChange(ch, n, q)
           mod == ModerateChange(ch, n, q)
<1>1. /\ "BANNED" \in new <=> ban = 1 \/ (ban = -1 /\ n \in Barred(ch))
      /\ "READ" \in new <=> "READ" \in ch.access[n] /\ (ban # 1 \/ n \in Barred(ch))
      /\ "MODERATE" \in new <=> mod = 1 \/ (mod = -1 /\ n \in Moderators(ch))
  BY NewAccessElements DEF Barred, Moderators
<1>2. /\ n \in Readers(ch) <=> "READ" \in ch.access[n]
      /\ n \in Barred(ch) => n \notin Readers(ch)
  BY ReadersOfGood DEF GoodChannel, Barred
<1>3. n \in Gods <=> testFlag(n, "CHN_ALLMODERATE")
  BY DEF Gods
<1>4. /\ ban = IF n \in ch.users /\ n \in Gods THEN 0 ELSE q.banned
      /\ mod = 1 => n \in Gods
      /\ q.moderate = -1 => mod = -1
      /\ ban \in Change /\ mod \in Change
  BY <1>3 DEF BannedChange, ModerateChange, MayModerate, Request, Change
<1>5. n \notin ch.users => n \notin Readers(ch) \cup Moderators(ch) \cup Barred(ch)
  BY <1>2 DEF GoodChannel, Moderators, Barred
<1>6. ch.users \subseteq Node /\ (n \in Barred(ch) => n \in ch.users)
  BY <1>5 DEF ChannelRecord
<1>7. CASE q.moderate = -1
  <2>1. "MODERATE" \in new <=> n \in Moderators(ch)
    BY <1>1, <1>4, <1>7
  <2>2. CASE ban = 1
    BY <1>1, <1>2, <1>4, <1>5, <2>1, <2>2 DEF BarsHim
  <2>3. CASE ban = 0
    BY <1>1, <1>2, <2>1, <2>3 DEF PardonsHim
  <2>4. CASE ban = -1
    <3>1. q.banned = -1 /\ ~(n \in ch.users /\ n \in Gods)
      BY <1>4, <2>4
    <3>2. n \notin Barred(ch)
      BY <1>3, <1>6, <3>1 DEF Refusal, Barred
    <3> QED
      BY <1>1, <1>2, <2>1, <2>4, <3>2 DEF PardonsHim
  <2> QED
    BY <1>4, <2>2, <2>3, <2>4 DEF Change
<1>8. CASE q.banned = -1
  <2>1. ban \in {0, -1} /\ (n \in ch.users /\ n \in Gods => ban = 0)
    BY <1>4, <1>8
  <2>2. n \in Barred(ch) => n \in Gods
    BY <1>3, <1>6, <1>8 DEF Refusal, Barred
  <2>3. "MODERATE" \notin new \/ n \in Gods \/ mod = -1
    BY <1>1, <1>4
  <2>4. "BANNED" \notin new
    BY <1>1, <1>6, <2>1, <2>2
  <2>5. "READ" \in new <=> n \in Readers(ch)
    BY <1>1, <1>2, <2>1
  <2>6. CASE mod = -1
    BY <1>1, <2>4, <2>5, <2>6 DEF PardonsHim
  <2>7. CASE mod # -1
    BY <2>2, <2>3, <2>4, <2>5, <2>7 DEF AppointsHim
  <2> QED
    BY <2>6, <2>7
<1> QED
  BY <1>7, <1>8

LEMMA ExceptSame ==
  ASSUME NEW f \in [Channel -> SUBSET Node], NEW c \in Channel, NEW S, S = f[c]
  PROVE  [f EXCEPT ![c] = S] = f
OBVIOUS

\* Those steps are Roster's.
LEMMA OrderSeen ==
  ASSUME ServerInvariant, NEW c \in Founded, NEW n \in Node, NEW new, Seen(c, n, new)
  PROVE  /\ BarsHim(channels[c], n, new) => Abstract!Bar(n, c)
         /\ PardonsHim(channels[c], n, new) => Abstract!Pardon(n, c)
         /\ AppointsHim(channels[c], n, new) => Abstract!Appoint(n, c)
<1> DEFINE ch == channels[c]
<1>1. c \in Channel /\ ch \in ChannelRecord /\ Founded \cup {c} = Founded
  BY DEF Founded, ServerInvariant, TypeOK
<1>2. Present[c] = Readers(ch) /\ Bars[c] = Barred(ch) /\ Mods[c] = Moderators(ch)
  BY <1>1 DEF Present, Bars, Mods
<1>3. /\ Present \in [Channel -> SUBSET Node] /\ Bars \in [Channel -> SUBSET Node]
      /\ Mods \in [Channel -> SUBSET Node]
  <2>1. \A d \in Channel : Readers(channels[d]) \subseteq Node
    BY DEF ServerInvariant, TypeOK, ChannelRecord, Readers
  <2> QED
    BY <2>1 DEF Present, Bars, Mods, Barred, Moderators
<1>4. Founded' = Founded /\ OnlineNodes' = OnlineNodes /\ Gods' = Gods
  BY <1>1 DEF Seen
<1>5. /\ Present' = [Present EXCEPT ![c] = IF "READ" \in new THEN @ \cup {n} ELSE @ \ {n}]
      /\ Bars' = [Bars EXCEPT ![c] = IF "BANNED" \in new THEN @ \cup {n} ELSE @ \ {n}]
      /\ Mods' = [Mods EXCEPT ![c] = IF "MODERATE" \in new THEN @ \cup {n} ELSE @ \ {n}]
  BY DEF Seen
<1>6. ("READ" \in new <=> n \in Readers(ch)) => Present' = Present
  BY <1>1, <1>2, <1>3, <1>5, ExceptSame
<1>7. ("MODERATE" \in new <=> n \in Moderators(ch)) => Mods' = Mods
  BY <1>1, <1>2, <1>3, <1>5, ExceptSame
<1> HIDE DEF ch
<1>8. ASSUME BarsHim(ch, n, new) PROVE Abstract!Bar(n, c)
  BY <1>2, <1>4, <1>5, <1>7, <1>8 DEF BarsHim, Abstract!Bar
<1>9. ASSUME PardonsHim(ch, n, new) PROVE Abstract!Pardon(n, c)
  BY <1>2, <1>4, <1>5, <1>6, <1>7, <1>9 DEF PardonsHim, Abstract!Pardon
<1>10. ASSUME AppointsHim(ch, n, new) PROVE Abstract!Appoint(n, c)
  <2>1. Bars' = [Bars EXCEPT ![c] = IF n \in Gods THEN @ \ {n} ELSE @]
    <3>1. CASE n \in Gods
      BY <1>5, <1>10, <3>1 DEF AppointsHim
    <3>2. CASE n \notin Gods
      <4>1. Bars' = Bars
        BY <1>1, <1>2, <1>3, <1>5, <1>10, <3>2, ExceptSame DEF AppointsHim
      <4> QED
        BY <1>1, <1>3, <3>2, <4>1
    <3> QED
      BY <3>1, <3>2
  <2>2. \/ Mods' = [Mods EXCEPT ![c] = @ \ {n}]
        \/ n \in Gods /\ Mods' = [Mods EXCEPT ![c] = @ \cup {n}]
    BY <1>5, <1>10 DEF AppointsHim
  <2> QED
    BY <1>4, <1>6, <1>10, <2>1, <2>2 DEF AppointsHim, Abstract!Appoint
<1> QED
  BY <1>8, <1>9, <1>10 DEF ch

\* channel_stat_change: the server dies, refuses, or does what was asked.
LEMMA StatChangeCases ==
  ASSUME ServerInvariant, NEW c \in Channel, NEW n \in Node, NEW replyTo \in SUBSET Node,
         NEW q, SafeRequest(q), StatChange(c, n, replyTo, q)
  PROVE  \/ Abstract!Next
         \/ /\ Refusal(channels[c], n, q) = "OK" /\ n \in OnlineNodes
            /\ Seen(c, n, NewAccess(channels[c], n, q))
            /\ Lines(sent') = {}
<1> DEFINE outcome == Outcome(c, channels[c], n, replyTo, q)
<1>0. channels \in [Channel -> ChannelRecord] /\ GoodChannel(channels[c])
  BY DEF ServerInvariant, TypeOK
<1>1. CASE ~Online(n)
  <2>1. UNCHANGED channels /\ Lines(sent') = {}
    BY <1>1, Unheard DEF StatChange, Crash
  <2> QED
    BY <2>1, Idle
<1>2. CASE Online(n)
  <2>1. /\ channels' = [channels EXCEPT ![c] = outcome.ch]
        /\ sent' = Delivered(outcome.packets)
        /\ UNCHANGED <<status, privs>> \/ UNCHANGED channels
    BY <1>2 DEF StatChange, Crash
  <2>2. Lines(sent') = {}
    BY <2>1, OutcomeUnheard, Unheard
  <2>3. CASE Refusal(channels[c], n, q) # "OK"
    <3>1. outcome.ch = channels[c]
      BY <2>3 DEF Outcome
    <3>2. UNCHANGED channels
      BY <1>0, <2>1, <3>1
    <3> QED
      BY <2>2, <3>2, Idle
  <2>4. CASE Refusal(channels[c], n, q) = "OK"
    <3>1. outcome.ch = Changed(channels[c], n, q)
      BY <2>4 DEF Outcome
    <3>2. UNCHANGED <<status, privs>>
      BY <1>2 DEF StatChange
    <3>3. channels' = [channels EXCEPT ![c] = Changed(channels[c], n, q)]
      BY <2>1, <3>1
    <3>4. Seen(c, n, NewAccess(channels[c], n, q))
      BY <1>0, <2>4, <3>2, <3>3, AllowedSeen
    <3> QED
      BY <1>2, <2>2, <2>4, <3>4 DEF OnlineNodes
  <2> QED
    BY <2>3, <2>4
<1> QED
  BY <1>1, <1>2

\* JOIN is an Enter.
LEMMA JoinSeen ==
  ASSUME ServerInvariant, NEW c \in Channel, NEW n \in Node, Join(n, c)
  PROVE  Abstract!Next
<1> DEFINE ch  == channels[c]
           new == NewAccess(ch, n, JoinRequest)
<1>0. ch \in ChannelRecord /\ GoodChannel(ch)
  BY DEF ServerInvariant, TypeOK
<1> SUFFICES ASSUME Refusal(ch, n, JoinRequest) = "OK", n \in OnlineNodes,
                    Seen(c, n, new), Lines(sent') = {}
             PROVE  Abstract!Enter(n, c)
  BY StatChangeCases, RequestsAreSafe DEF Join, Abstract!Next
<1>1. /\ n \notin Barred(ch) \/ n \in Gods
      /\ "READ" \in new /\ "BANNED" \notin new
      /\ "MODERATE" \in new => ~ch.open \/ n \in Gods
  BY <1>0, JoinAllowed
<1>2. Bars[c] = Barred(ch) /\ (~ch.open <=> c \notin Founded)
  BY DEF Bars, Founded
<1> HIDE DEF ch, new
<1>3. \/ Mods' = [Mods EXCEPT ![c] = @ \ {n}]
      \/ (c \notin Founded \/ n \in Gods) /\ Mods' = [Mods EXCEPT ![c] = @ \cup {n}]
  BY <1>1, <1>2 DEF Seen
<1> QED
  BY <1>1, <1>2, <1>3 DEF Seen, Abstract!Enter, Abstract!Silence

\* LEAVE is a Withdraw.
LEMMA LeaveSeen ==
  ASSUME ServerInvariant, NEW c \in Channel, NEW n \in Node, Leave(n, c)
  PROVE  Abstract!Next
<1> DEFINE ch  == channels[c]
           new == NewAccess(ch, n, LeaveRequest)
<1>0. ch \in ChannelRecord /\ GoodChannel(ch)
  BY DEF ServerInvariant, TypeOK
<1> SUFFICES ASSUME Refusal(ch, n, LeaveRequest) = "OK",
                    Seen(c, n, new), Lines(sent') = {}
             PROVE  Abstract!Withdraw(n, c)
  BY StatChangeCases, RequestsAreSafe DEF Leave, Abstract!Next
<1>1. /\ n \notin Barred(ch) \/ n \in Gods
      /\ {"READ", "BANNED", "MODERATE"} \cap new = {}
      /\ ch.open
  BY <1>0, LeaveAllowed
<1>2. Bars[c] = Barred(ch) /\ Founded \cup {c} = Founded
  BY <1>1 DEF Bars, Founded
<1>3. "READ" \notin new /\ "BANNED" \notin new /\ "MODERATE" \notin new
  BY <1>1
<1> HIDE DEF ch, new
<1> QED
  BY <1>1, <1>2, <1>3 DEF Seen, Abstract!Withdraw, Abstract!Silence

\* Who may moderate has authority.
LEMMA ModeratorHasAuthority ==
  ASSUME ServerInvariant, NEW c \in Channel, NEW n \in Node, Accepted(n, c, Moderating)
  PROVE  Abstract!Authority(c) /\ c \in Founded /\ channels[c].open
<1>1. channels[c].open /\ n \in Moderators(channels[c]) \ Barred(channels[c])
  BY DEF Accepted, SenderError, Moderating, Moderators, Barred
<1>2. Mods[c] = Moderators(channels[c]) /\ Bars[c] = Barred(channels[c])
  BY DEF Mods, Bars
<1> QED
  BY <1>1, <1>2 DEF Abstract!Authority, Founded

\* SETPERM is an order.
LEMMA SetPermSeen ==
  ASSUME ServerInvariant, NEW c \in Channel, NEW n \in Node, NEW target \in Node,
         NEW letter \in PermLetter, NEW change \in {0, 1}, Accepted(n, c, Moderating),
         StatChange(c, target, {target}, PermRequest(letter, change))
  PROVE  Abstract!Next
<1> DEFINE ch  == channels[c]
           q   == PermRequest(letter, change)
           new == NewAccess(ch, target, q)
<1>0. ch \in ChannelRecord /\ GoodChannel(ch)
  BY DEF ServerInvariant, TypeOK
<1>1. SafeRequest(q)
  BY RequestsAreSafe
<1> SUFFICES ASSUME Refusal(ch, target, q) = "OK", target \in OnlineNodes,
                    Seen(c, target, new), Lines(sent') = {}
             PROVE  Abstract!Ordered(target, c)
  BY <1>1, StatChangeCases DEF Abstract!Next
<1>2. Abstract!Authority(c) /\ c \in Founded /\ ch.open
  BY ModeratorHasAuthority
<1>3. q \in Request /\ q.read = -1 /\ (q.banned = -1 \/ q.moderate = -1)
  BY <1>1 DEF SafeRequest, PermRequest, PermLetter
<1> HIDE DEF q
<1>4. BarsHim(ch, target, new) \/ PardonsHim(ch, target, new) \/ AppointsHim(ch, target, new)
  BY <1>0, <1>2, <1>3, OrderAllowed
<1> HIDE DEF new
<1>5. Abstract!Bar(target, c) \/ Abstract!Pardon(target, c) \/ Abstract!Appoint(target, c)
  BY <1>2, <1>4, OrderSeen
<1> QED
  BY <1>2, <1>5 DEF Abstract!Ordered, Abstract!Silence

\* An answer to somebody who lacks a right is no line.
LEMMA RebuffedSeen ==
  ASSUME NEW n, NEW c, NEW checks, Rebuffed(n, c, checks)
  PROVE  Abstract!Next
<1>1. SenderError(channels[c], n, checks) \notin LineKind
  BY DEF Rebuffed, SenderError, LineKind
<1>2. Lines(sent') = {} /\ UNCHANGED channels
  BY <1>1, UnheardKinds, Unheard DEF Rebuffed
<1> QED
  BY <1>2, Idle

\* What is passed on to everybody present, or to all but its sender, is a line.
LEMMA LineSeen ==
  ASSUME ServerInvariant, NEW n \in Node, NEW c \in Channel, Accepted(n, c, Speaking),
         NEW kind \in LineKind, NEW to \in SUBSET Node,
         to = Readers(channels[c]) \/ to = Readers(channels[c]) \ {n},
         sent' = Delivered(PacketsTo(to, kind, c, n)),
         UNCHANGED <<status, privs, Founded, Present, Bars, Mods>>
  PROVE  Abstract!Next
<1>1. n \notin Bars[c] /\ Present[c] = Readers(channels[c])
  BY DEF Accepted, SenderError, Speaking, Bars, Barred, Present
<1>2. Lines(sent)' = {[chan |-> c, by |-> n, to |-> m] : m \in to \cap OnlineNodes}
  BY LinesHeard
<1>3. OnlineNodes' = OnlineNodes /\ Gods' = Gods
  BY DEF OnlineNodes, Gods, Online, testFlag
<1>4. Abstract!Hear(n, c, Present[c]) \/ Abstract!Hear(n, c, Present[c] \ {n})
  BY <1>1, <1>2 DEF Abstract!Hear
<1>5. Abstract!Say(n, c)
  BY <1>1, <1>3, <1>4 DEF Abstract!Say
<1> QED
  BY <1>5 DEF Abstract!Next

LEMMA ChannelsUnchangedSeen ==
  UNCHANGED channels => UNCHANGED <<Founded, Present, Bars, Mods>>
BY DEF Founded, Present, Bars, Mods

LEMMA ReadersAreNodes ==
  ServerInvariant => \A c \in Channel : Readers(channels[c]) \in SUBSET Node
BY DEF ServerInvariant, TypeOK, ChannelRecord, Readers

LEMMA RelaySeen ==
  ASSUME ServerInvariant, NEW n \in Node, NEW c \in Channel, Binary(n, c) \/ WallA(n, c) \/ Wall(n, c)
  PROVE  Abstract!Next
<1>1. CASE \E checks : Rebuffed(n, c, checks)
  BY <1>1, RebuffedSeen
<1>2. CASE ~\E checks : Rebuffed(n, c, checks)
  <2>1. Readers(channels[c]) \in SUBSET Node
    BY ReadersAreNodes
  <2>2. UNCHANGED <<status, privs, channels>>
    BY <1>2 DEF Binary, WallA, Wall, Relay
  <2>3. CASE Binary(n, c)
    <3>1. /\ Accepted(n, c, Speaking)
          /\ sent' = Delivered(PacketsTo(Readers(channels[c]) \ {n}, "BINARY", c, n))
      BY <1>2, <2>3 DEF Binary, Relay
    <3> QED
      BY <2>1, <2>2, <3>1, LineSeen, ChannelsUnchangedSeen DEF LineKind
  <2>4. CASE WallA(n, c)
    <3>1. /\ Accepted(n, c, Speaking)
          /\ sent' = Delivered(PacketsTo(Readers(channels[c]), "WALLA", c, n))
      BY <1>2, <2>4 DEF WallA, Relay
    <3> QED
      BY <2>1, <2>2, <3>1, LineSeen, ChannelsUnchangedSeen DEF LineKind
  <2>5. CASE Wall(n, c)
    <3>1. PICK to : sent' = Delivered(PacketsTo(to, "WALL", c, n))
      BY <1>2, <2>5 DEF Wall, Relay
    <3>2. Lines(sent') = {}
      BY <3>1, UnheardKinds, Unheard DEF LineKind
    <3> QED
      BY <2>2, <3>2, Idle
  <2> QED
    BY <2>3, <2>4, <2>5
<1> QED
  BY <1>1, <1>2

\* Counters, flags and the limit are nothing Roster knows of.
LEMMA CopySeen ==
  ASSUME ServerInvariant, NEW c \in Channel, NEW ch \in ChannelRecord,
         ch.open = channels[c].open, ch.access = channels[c].access,
         ch.users = channels[c].users, channels' = [channels EXCEPT ![c] = ch]
  PROVE  UNCHANGED <<Founded, Present, Bars, Mods>>
<1>1. channels \in [Channel -> ChannelRecord]
  BY DEF ServerInvariant, TypeOK
<1>2. \A d \in Channel : /\ channels'[d].open = channels[d].open
                         /\ channels'[d].access = channels[d].access
                         /\ channels'[d].users = channels[d].users
  BY <1>1
<1> QED
  BY <1>2 DEF Founded, Present, Bars, Mods, Readers, Barred, Moderators

LEMMA SetChannelSeen ==
  ASSUME ServerInvariant, NEW n \in Node, NEW c \in Channel, NEW ch \in ChannelRecord,
         ch.open = channels[c].open, ch.access = channels[c].access,
         ch.users = channels[c].users, SetChannel(n, c, ch)
  PROVE  Abstract!Next
<1>1. CASE Rebuffed(n, c, Moderating)
  BY <1>1, RebuffedSeen
<1>2. CASE ~Rebuffed(n, c, Moderating)
  <2>1. channels' = [channels EXCEPT ![c] = ch] /\ sent' = {}
    BY <1>2 DEF SetChannel
  <2>2. UNCHANGED <<Founded, Present, Bars, Mods>>
    BY <2>1, CopySeen
  <2>3. Lines(sent)' = {}
    BY <2>1 DEF Lines
  <2> QED
    BY <2>2, <2>3 DEF Abstract!Next, Abstract!Other, Abstract!Silence
<1> QED
  BY <1>1, <1>2

\* The line that is one too many bars its speaker, or, if he is a
\* god, leaves him unbarred.
LEMMA LineoutAllowed ==
  ASSUME NEW ch \in ChannelRecord, GoodChannel(ch), NEW n \in Node, ch.open,
         n \in ch.users, n \notin Barred(ch)
  PROVE  LET new == NewAccess(ch, n, LineoutRequest)
         IN  /\ Refusal(ch, n, LineoutRequest) = "OK"
             /\ BarsHim(ch, n, new) \/ (n \in Gods /\ PardonsHim(ch, n, new))
<1> DEFINE q   == LineoutRequest
           new == NewAccess(ch, n, q)
<1>1. q \in Request /\ q.read = -1 /\ q.moderate = -1 /\ q.banned = 1
  BY DEF LineoutRequest, Request, Change
<1>2. Refusal(ch, n, q) = "OK"
  BY <1>1 DEF Refusal, GoodChannel
<1>3. n \in Gods <=> testFlag(n, "CHN_ALLMODERATE")
  BY DEF Gods
<1>4. /\ BannedChange(ch, n, q) = IF n \in Gods THEN 0 ELSE 1
      /\ ModerateChange(ch, n, q) = -1
  BY <1>1, <1>3 DEF BannedChange, ModerateChange
<1> HIDE DEF q
<1>5. /\ "BANNED" \in new <=> n \notin Gods
      /\ "READ" \in new <=> "READ" \in ch.access[n] /\ n \in Gods
      /\ "MODERATE" \in new <=> n \in Moderators(ch)
  BY <1>1, <1>4, NewAccessElements DEF Barred, Moderators
<1>6. n \in Readers(ch) <=> "READ" \in ch.access[n]
  BY ReadersOfGood
<1>7. BarsHim(ch, n, new) \/ (n \in Gods /\ PardonsHim(ch, n, new))
  BY <1>5, <1>6 DEF BarsHim, PardonsHim
<1> QED
  BY <1>2, <1>7 DEF q

\* MESSAGE is a line, or the line that is one too many.
LEMMA DistributeSeen ==
  ASSUME ServerInvariant, NEW n \in Node, NEW c \in Channel, Distribute(n, c)
  PROVE  Abstract!Next
<1> DEFINE ch      == [channels[c] EXCEPT !.lineout = LinesAfter(channels[c], n)]
           heard   == PacketsTo(Readers(channels[c]), "MESSAGE", c, n)
           outcome == Outcome(c, ch, n, {n}, LineoutRequest)
<1>0. channels[c] \in ChannelRecord /\ GoodChannel(channels[c])
  BY DEF ServerInvariant, TypeOK
<1>1. /\ ch \in ChannelRecord /\ GoodChannel(ch) /\ Readers(ch) = Readers(channels[c])
      /\ ch.open = channels[c].open /\ ch.access = channels[c].access
      /\ ch.users = channels[c].users
  <2>1. ch \in ChannelRecord /\ GoodChannel(ch) /\ ch.users = channels[c].users
    BY <1>0, LinesAfterType, LineoutKeepsGood
  <2>2. Readers(ch) = Readers(channels[c])
    BY <1>0, ReadersOfCopy
  <2>3. ch.open = channels[c].open /\ ch.access = channels[c].access
    BY <1>0 DEF ChannelRecord
  <2> QED
    BY <2>1, <2>2, <2>3
<1>2. heard = PacketsTo(Readers(ch), "MESSAGE", c, n)
  BY <1>1
<1>3. LinedOut(ch, n) => n \notin Moderators(channels[c])
  BY <1>1 DEF LinedOut, Moderators
<1> HIDE DEF ch
<1>4. CASE Rebuffed(n, c, Speaking)
  BY <1>4, RebuffedSeen
<1>5. CASE ~Rebuffed(n, c, Speaking)
  <2>1. /\ Accepted(n, c, Speaking)
        /\ \/ /\ channels' = [channels EXCEPT ![c] = ch] \/ UNCHANGED channels
              /\ sent' = Delivered(heard)
              /\ UNCHANGED <<status, privs>>
           \/ /\ LinedOut(ch, n)
              /\ channels' = [channels EXCEPT ![c] = outcome.ch]
              /\ sent' = Delivered(heard \cup outcome.packets)
              /\ UNCHANGED <<status, privs>>
    BY <1>2, <1>5 DEF Distribute, ch, Crash
  <2>2. CASE /\ channels' = [channels EXCEPT ![c] = ch] \/ UNCHANGED channels
             /\ sent' = Delivered(heard)
             /\ UNCHANGED <<status, privs>>
    <3>1. UNCHANGED <<Founded, Present, Bars, Mods>>
      BY <1>1, <2>2, CopySeen, ChannelsUnchangedSeen
    <3>2. Readers(channels[c]) \in SUBSET Node /\ "MESSAGE" \in LineKind
      BY ReadersAreNodes DEF LineKind
    <3> QED
      BY <2>1, <2>2, <3>1, <3>2, LineSeen
  <2>3. CASE /\ LinedOut(ch, n)
             /\ channels' = [channels EXCEPT ![c] = outcome.ch]
             /\ sent' = Delivered(heard \cup outcome.packets)
             /\ UNCHANGED <<status, privs>>
    <3> DEFINE new == NewAccess(ch, n, LineoutRequest)
    <3>1. channels[c].open /\ n \in channels[c].users /\ n \notin Barred(channels[c])
      BY <2>1 DEF Accepted, SenderError, Speaking, Barred
    <3>2. c \in Founded /\ n \notin Bars[c] /\ n \notin Mods[c] /\ Present[c] = Readers(channels[c])
      BY <1>3, <2>3, <3>1 DEF Founded, Bars, Mods, Present
    <3>3. /\ Refusal(ch, n, LineoutRequest) = "OK"
          /\ BarsHim(ch, n, new) \/ (n \in Gods /\ PardonsHim(ch, n, new))
      BY <1>1, <3>1, LineoutAllowed DEF Barred
    <3>4. outcome.ch = Changed(ch, n, LineoutRequest)
      BY <3>3 DEF Outcome
    <3>5. SafeRequest(LineoutRequest)
      BY RequestsAreSafe
    <3>6. Seen(c, n, new)
      BY <1>1, <2>3, <3>3, <3>4, <3>5, AllowedSeen
    <3> HIDE DEF new
    <3>7. \/ BarsHim(channels[c], n, new)
          \/ n \in Gods /\ PardonsHim(channels[c], n, new)
      BY <1>1, <3>3 DEF BarsHim, PardonsHim, Moderators
    <3>8. Abstract!Bar(n, c) \/ (n \in Gods /\ Abstract!Pardon(n, c))
      BY <3>2, <3>6, <3>7, OrderSeen
    <3>9. Lines(sent)' = {[chan |-> c, by |-> n, to |-> m] : m \in Present[c] \cap OnlineNodes}
      <4>1. Lines(sent') = Lines(Delivered(heard))
        BY <2>3, OutcomeUnheard, LinesAlone
      <4>2. Readers(channels[c]) \in SUBSET Node /\ "MESSAGE" \in LineKind
        BY ReadersAreNodes DEF LineKind
      <4> QED
        BY <3>2, <4>1, <4>2, LinesHeard
    <3>10. Abstract!LineOut(n, c)
      BY <3>2, <3>8, <3>9 DEF Abstract!LineOut, Abstract!Hear
    <3> QED
      BY <3>10 DEF Abstract!Next
  <2> QED
    BY <2>1, <2>2, <2>3
<1> QED
  BY <1>4, <1>5

\* A line of a link is none that Roster knows of.
LEMMA DdialDistributeSeen ==
  ASSUME ServerInvariant, NEW n \in Node, NEW c \in Channel, DdialDistribute(n, c)
  PROVE  Abstract!Next
<1> DEFINE to    == DdialReaders(channels[c], n)
           lines == [m \in Node |-> IF m \in to THEN 0 ELSE channels[c].lineout[m]]
           ch    == [channels[c] EXCEPT !.lineout = lines]
<1>1. CASE Rebuffed(n, c, Speaking)
  BY <1>1, RebuffedSeen
<1>2. CASE ~Rebuffed(n, c, Speaking)
  <2>1. channels[c] \in ChannelRecord /\ GoodChannel(channels[c])
    BY DEF ServerInvariant, TypeOK
  <2>2. lines \in [Node -> Nat]
    BY <2>1 DEF ChannelRecord
  <2> HIDE DEF lines
  <2>3. ch \in ChannelRecord /\ ch.users = channels[c].users
    BY <2>1, <2>2, LineoutKeepsGood
  <2>4. ch.open = channels[c].open /\ ch.access = channels[c].access
    BY <2>1 DEF ChannelRecord
  <2>5. /\ channels' = [channels EXCEPT ![c] = ch]
        /\ sent' = Delivered(PacketsTo(to, "DDIAL", c, n))
    BY <1>2 DEF DdialDistribute, lines
  <2> HIDE DEF ch, to
  <2>6. UNCHANGED <<Founded, Present, Bars, Mods>>
    BY <2>3, <2>4, <2>5, CopySeen
  <2>7. Lines(sent)' = {}
    BY <2>5, UnheardKinds, Unheard DEF LineKind
  <2> QED
    BY <2>6, <2>7 DEF Abstract!Next, Abstract!Other, Abstract!Silence
<1> QED
  BY <1>1, <1>2

\* take_off_channels leaves nothing of the user on any channel.
LEMMA OffAllSeen ==
  ASSUME ServerInvariant, NEW n \in Node, OffAll(n)
  PROVE  /\ Present' = [c \in Channel |-> Present[c] \ {n}]
         /\ Bars' = [c \in Channel |-> Bars[c] \ {n}]
         /\ Mods' = [c \in Channel |-> Mods[c] \ {n}]
         /\ Founded' = Founded /\ Lines(sent)' = {}
<1> DEFINE Out(c) == Outcome(c, channels[c], n, {}, OffRequest)
           opened == {c \in Channel : channels[c].open}
<1>1. /\ channels' = [c \in Channel |-> IF c \in opened THEN Out(c).ch ELSE channels[c]]
      /\ sent' = Delivered(UNION {Out(c).packets : c \in opened})
  BY DEF OffAll
<1>2. Lines(sent)' = {}
  <2>1. \A c \in opened : \A p \in Out(c).packets : p.kind \notin LineKind
    BY OutcomeUnheard
  <2> HIDE DEF Out
  <2>2. \A p \in UNION {Out(c).packets : c \in opened} : p.kind \notin LineKind
    BY <2>1
  <2> QED
    BY <1>1, <2>2, Unheard
<1>3. ASSUME NEW c \in Channel
      PROVE  /\ Readers(channels'[c]) = Readers(channels[c]) \ {n}
             /\ Barred(channels'[c]) = Barred(channels[c]) \ {n}
             /\ Moderators(channels'[c]) = Moderators(channels[c]) \ {n}
             /\ channels'[c].open = channels[c].open
  <2> DEFINE ch == channels[c]
  <2>1. ch \in ChannelRecord /\ GoodChannel(ch)
    BY DEF ServerInvariant, TypeOK
  <2>2. CASE n \in ch.users
    <3>1. ch.open /\ ch.open = TRUE
      BY <2>1, <2>2 DEF GoodChannel, ChannelRecord
    <3>2. Refusal(ch, n, OffRequest) = "OK" /\ NewAccess(ch, n, OffRequest) = {}
      BY <2>1, <2>2, OffAllowed
    <3>3. channels'[c] = Changed(ch, n, OffRequest)
      BY <1>1, <3>1, <3>2 DEF Outcome
    <3>4. SafeRequest(OffRequest)
      BY RequestsAreSafe
    <3> HIDE DEF ch
    <3>5. LET after == Changed(ch, n, OffRequest)
          IN  /\ after.open = TRUE
              /\ Readers(after) = Readers(ch) \ {n}
              /\ Barred(after) = Barred(ch) \ {n}
              /\ Moderators(after) = Moderators(ch) \ {n}
      BY <2>1, <3>2, <3>4, AllowedEffect
    <3> QED
      BY <3>1, <3>3, <3>5 DEF ch
  <2>3. CASE n \notin ch.users
    <3>1. channels'[c] = ch
      BY <1>1, <2>3 DEF Outcome, Refusal, OffRequest
    <3>2. ch.access[n] = {}
      BY <2>1, <2>3 DEF GoodChannel
    <3>3. n \notin Readers(ch) /\ n \notin Barred(ch) /\ n \notin Moderators(ch)
      BY <2>3, <3>2 DEF Readers, Barred, Moderators
    <3> QED
      BY <3>1, <3>3
  <2> QED
    BY <2>2, <2>3
<1> HIDE DEF Out, opened
<1>4. Present' = [c \in Channel |-> Present[c] \ {n}]
  <2>1. Present' = [c \in Channel |-> Readers(channels'[c])]
    BY DEF Present, Readers
  <2> QED
    BY <1>3, <2>1 DEF Present
<1>5. Bars' = [c \in Channel |-> Bars[c] \ {n}]
  <2>1. Bars' = [c \in Channel |-> Barred(channels'[c])]
    BY DEF Bars, Barred
  <2> QED
    BY <1>3, <2>1 DEF Bars
<1>6. Mods' = [c \in Channel |-> Mods[c] \ {n}]
  <2>1. Mods' = [c \in Channel |-> Moderators(channels'[c])]
    BY DEF Mods, Moderators
  <2> QED
    BY <1>3, <2>1 DEF Mods
<1>7. Founded' = Founded
  BY <1>3 DEF Founded
<1> QED
  BY <1>2, <1>4, <1>5, <1>6, <1>7

\* BYE and the end of a client are a Depart, or the server's death.
LEMMA DepartSeen ==
  ASSUME ServerInvariant, NEW n \in Node, Bye(n) \/ ClearNode(n)
  PROVE  Abstract!Next
<1>1. CASE Crash({})
  <2>1. UNCHANGED channels /\ Lines(sent') = {}
    BY <1>1, Unheard DEF Crash
  <2> QED
    BY <2>1, Idle
<1>2. CASE ~Crash({})
  <2>1. /\ OffAll(n)
        /\ \/ UNCHANGED <<status, privs>>
           \/ status' = [status EXCEPT ![n] = "EMPTY"] /\ privs' = [privs EXCEPT ![n] = {}]
    BY <1>2 DEF Bye, ClearNode, ForgetPrivs
  <2>2. status \in [Node -> Status] /\ privs \in [Node -> SUBSET Priv]
    BY DEF ServerInvariant, TypeOK
  <2>3. OnlineNodes' \in {OnlineNodes, OnlineNodes \ {n}}
    BY <2>1, <2>2 DEF OnlineNodes, Online
  <2>4. Gods' \in {Gods, Gods \ {n}}
    BY <2>1, <2>2 DEF Gods, testFlag
  <2>5. Abstract!Depart(n)
    BY <2>1, <2>3, <2>4, OffAllSeen DEF Abstract!Depart, Abstract!Silence
  <2> QED
    BY <2>5 DEF Abstract!Next
<1> QED
  BY <1>1, <1>2

LEMMA ChannelMessageSeen ==
  ASSUME ServerInvariant, NEW n \in Node, NEW c \in Channel, ChannelMessage(n, c)
  PROVE  Abstract!Next
<1>1. channels[c] \in ChannelRecord /\ GoodChannel(channels[c])
  BY DEF ServerInvariant, TypeOK
<1>2. ASSUME NEW letter \in {"A", "a"}, SetChanFlag(n, c, letter)
      PROVE  Abstract!Next
  <2> DEFINE ch == [channels[c] EXCEPT !.flags = FlagsAfter(@, Capital(letter))]
  <2>1. ch \in ChannelRecord /\ ch.users = channels[c].users
    <3>1. 0 \in Nat
      OBVIOUS
    <3> QED
      BY <1>1, <3>1, FlagsAndLimit
  <2>2. ch.open = channels[c].open /\ ch.access = channels[c].access
    BY <1>1 DEF ChannelRecord
  <2>3. SetChannel(n, c, ch)
    BY <1>2 DEF SetChanFlag
  <2> HIDE DEF ch
  <2> QED
    BY <2>1, <2>2, <2>3, SetChannelSeen
<1>3. ASSUME NEW num \in Limits, SetChanLimit(n, c, num)
      PROVE  Abstract!Next
  <2> DEFINE ch == [channels[c] EXCEPT !.max = IF num \in MinMaxLineout .. MaxMaxLineout THEN num ELSE @]
  <2>1. ch \in ChannelRecord /\ ch.users = channels[c].users
    <3>1. num \in Nat /\ "A" \in {"A", "a"}
      BY ChannelsAssumption
    <3> QED
      BY <1>1, <3>1, FlagsAndLimit
  <2>2. ch.open = channels[c].open /\ ch.access = channels[c].access
    BY <1>1 DEF ChannelRecord
  <2>3. SetChannel(n, c, ch)
    BY <1>3 DEF SetChanLimit
  <2> HIDE DEF ch
  <2> QED
    BY <2>1, <2>2, <2>3, SetChannelSeen
<1>4. ASSUME NEW target \in Node, NEW letter \in PermLetter, NEW change \in {0, 1},
             SetPerm(n, c, target, letter, change)
      PROVE  Abstract!Next
  BY <1>4, RebuffedSeen, SetPermSeen DEF SetPerm
<1> QED
  BY <1>2, <1>3, <1>4, JoinSeen, LeaveSeen, DistributeSeen, DdialDistributeSeen, RelaySeen
     DEF ChannelMessage

\* Every step of the server and of the clients is one of Roster's, or none.
LEMMA NextSeen ==
  ASSUME ServerInvariant, [Next]_vars
  PROVE  [Abstract!Next]_(Abstract!rosterVars)
<1>1. CASE UNCHANGED vars
  BY <1>1 DEF vars, Abstract!rosterVars, OnlineNodes, Gods, Founded, Present, Bars, Mods,
              Lines, Online, testFlag
<1>2. ASSUME NEW n \in Node, NEW class,
             Connect(n) \/ Login(n, class) \/ ChangeClass(n, class) \/ Relog(n)
      PROVE  Abstract!Next
  <2>1. UNCHANGED channels /\ sent' = {}
    BY <1>2 DEF Connect, Login, ChangeClass, Relog, ClientChanges
  <2>2. Lines(sent') = {}
    BY <2>1 DEF Lines
  <2> QED
    BY <2>1, <2>2, Idle
<1> QED
  BY <1>1, <1>2, ChannelMessageSeen, DepartSeen DEF Next

\* The server implements Roster, for any number of users and channels: a bar keeps
\* out all but gods, only founders and gods come to moderate, orders take authority,
\* whoever leaves leaves nothing behind, and a line is heard by those present.
THEOREM RosterIsKept == Spec => ImplementsRoster
<1>1. Init => Abstract!Init
  <2> SUFFICES ASSUME Init PROVE Abstract!Init
    OBVIOUS
  <2>1. \A c \in Channel : channels[c] = NewChannel
    BY DEF Init
  <2>2. /\ Readers(NewChannel) = {} /\ Barred(NewChannel) = {} /\ Moderators(NewChannel) = {}
        /\ ~NewChannel.open
    BY DEF Readers, Barred, Moderators, NewChannel
  <2>3. /\ Present = [c \in Channel |-> {}] /\ Bars = [c \in Channel |-> {}]
        /\ Mods = [c \in Channel |-> {}] /\ Founded = {}
    BY <2>1, <2>2 DEF Present, Bars, Mods, Founded
  <2>4. OnlineNodes = {} /\ Gods = {} /\ Lines(sent) = {}
    BY DEF Init, OnlineNodes, Gods, Online, testFlag, Lines
  <2> QED
    BY <2>3, <2>4 DEF Abstract!Init
<1>2. ServerInvariant /\ [Next]_vars => [Abstract!Next]_(Abstract!rosterVars)
  BY NextSeen
<1> QED
  BY <1>1, <1>2, ServerIsSound, PTL DEF Spec, ImplementsRoster, Abstract!Spec

-----------------------------------------------------------------------------
(* Monologues: the server's counter of a user on a channel never falls     *)
(* behind the lines he got through to others in a row.                     *)

MonologueTypeOK == monologue \in [Channel -> [Node -> Nat]]

Counted ==
  \A c \in Channel : \A n \in Readers(channels[c]) :
    monologue[c][n] <= channels[c].lineout[n]

MonologueInv == ServerInvariant /\ MonologueTypeOK /\ Counted

\* Nobody who stays on the channel loses lines that were counted.
KeepsCounts(old, new) ==
  \A n \in Readers(old) \cap Readers(new) : new.lineout[n] >= old.lineout[n]

NoMessage == \A p \in sent' : p.kind # "MESSAGE"

Quiet == NoMessage /\ \A c \in Channel : KeepsCounts(channels[c], channels'[c])

LEMMA SameChannelCounts ==
  ASSUME NEW ch \in ChannelRecord
  PROVE  KeepsCounts(ch, ch)
<1>1. \A n \in Readers(ch) : ch.lineout[n] \in Nat
  BY DEF Readers, ChannelRecord
<1> QED
  BY <1>1 DEF KeepsCounts

\* A request forgets the lines of a user only when it puts him on the list or
\* takes him off.
LEMMA ChangedCounts ==
  ASSUME NEW ch \in ChannelRecord, NEW n \in Node, NEW q
  PROVE  KeepsCounts(ch, Changed(ch, n, q))
<1> DEFINE new   == NewAccess(ch, n, q)
           after == Changed(ch, n, q)
<1>1. DOMAIN ch = {"open", "users", "access", "lineout", "flags", "max"}
  BY DEF ChannelRecord
<1>2. after.lineout = [ch.lineout EXCEPT ![n] = IF new = {} \/ n \notin ch.users THEN 0 ELSE @]
  BY <1>1, Zenon DEF Changed, ChannelRecord
<1>3. after.users = IF new = {} THEN ch.users \ {n} ELSE ch.users \cup {n}
  BY ChangedUsers, Zenon
<1>4. ch.lineout \in [Node -> Nat] /\ ch.users \subseteq Node
  BY DEF ChannelRecord
<1> HIDE DEF new, after
<1>5. ASSUME NEW m \in ch.users, m \in after.users
      PROVE  after.lineout[m] >= ch.lineout[m]
  BY <1>2, <1>3, <1>4, <1>5
<1>6. Readers(ch) \subseteq ch.users /\ Readers(after) \subseteq after.users
  BY DEF Readers
<1> QED
  BY <1>5, <1>6 DEF KeepsCounts, after

LEMMA OutcomeCounts ==
  ASSUME NEW c, NEW ch \in ChannelRecord, NEW n \in Node, NEW replyTo, NEW q
  PROVE  /\ KeepsCounts(ch, Outcome(c, ch, n, replyTo, q).ch)
         /\ \A p \in Outcome(c, ch, n, replyTo, q).packets : p.kind # "MESSAGE"
<1>1. KeepsCounts(ch, Outcome(c, ch, n, replyTo, q).ch)
  BY SameChannelCounts, ChangedCounts DEF Outcome
<1> QED
  BY <1>1, OutcomeUnheard DEF LineKind

\* A step that leaves the channels alone and passes no line on.
LEMMA StillQuiet ==
  ASSUME ServerInvariant, UNCHANGED channels, NoMessage
  PROVE  Quiet
BY SameChannelCounts DEF Quiet, ServerInvariant, TypeOK

LEMMA OneChannelQuiet ==
  ASSUME ServerInvariant, NEW c \in Channel, NEW ch, KeepsCounts(channels[c], ch),
         channels' = [channels EXCEPT ![c] = ch], NoMessage
  PROVE  Quiet
<1>1. channels \in [Channel -> ChannelRecord]
  BY DEF ServerInvariant, TypeOK
<1>2. \A d \in Channel : channels'[d] = IF d = c THEN ch ELSE channels[d]
  BY <1>1
<1>3. \A d \in Channel : KeepsCounts(channels[d], channels'[d])
  BY <1>1, <1>2, SameChannelCounts
<1> QED
  BY <1>3 DEF Quiet

LEMMA StatChangeQuiet ==
  ASSUME ServerInvariant, NEW c \in Channel, NEW n \in Node, NEW replyTo, NEW q,
         StatChange(c, n, replyTo, q)
  PROVE  Quiet
<1> DEFINE outcome == Outcome(c, channels[c], n, replyTo, q)
<1>1. CASE Crash({})
  BY <1>1, StillQuiet DEF Crash, Delivered, NoMessage
<1>2. CASE ~Crash({})
  <2>1. /\ channels' = [channels EXCEPT ![c] = outcome.ch]
        /\ sent' = Delivered(outcome.packets)
    BY <1>2 DEF StatChange
  <2>2. channels[c] \in ChannelRecord
    BY DEF ServerInvariant, TypeOK
  <2>3. NoMessage
    BY <2>1, <2>2, OutcomeCounts DEF NoMessage, Delivered
  <2>4. KeepsCounts(channels[c], outcome.ch)
    BY <2>2, OutcomeCounts
  <2> HIDE DEF outcome
  <2> QED
    BY <2>1, <2>3, <2>4, OneChannelQuiet
<1> QED
  BY <1>1, <1>2

LEMMA OffAllQuiet ==
  ASSUME ServerInvariant, NEW n \in Node, OffAll(n)
  PROVE  Quiet
<1> DEFINE Out(c) == Outcome(c, channels[c], n, {}, OffRequest)
           opened == {c \in Channel : channels[c].open}
<1>1. /\ channels' = [c \in Channel |-> IF c \in opened THEN Out(c).ch ELSE channels[c]]
      /\ sent' = Delivered(UNION {Out(c).packets : c \in opened})
  BY DEF OffAll
<1>2. \A c \in Channel : channels[c] \in ChannelRecord
  BY DEF ServerInvariant, TypeOK
<1>3. \A c \in Channel : /\ KeepsCounts(channels[c], Out(c).ch)
                         /\ \A p \in Out(c).packets : p.kind # "MESSAGE"
  BY <1>2, OutcomeCounts
<1> HIDE DEF Out
<1>4. NoMessage
  BY <1>1, <1>3 DEF NoMessage, Delivered
<1>5. \A c \in Channel : KeepsCounts(channels[c], channels'[c])
  BY <1>1, <1>2, <1>3, SameChannelCounts
<1> QED
  BY <1>4, <1>5 DEF Quiet

LEMMA RebuffedQuiet ==
  ASSUME ServerInvariant, NEW n, NEW c, NEW checks, Rebuffed(n, c, checks)
  PROVE  Quiet
<1>1. SenderError(channels[c], n, checks) # "MESSAGE"
  BY DEF SenderError
<1>2. NoMessage /\ UNCHANGED channels
  BY <1>1 DEF Rebuffed, Delivered, PacketsTo, NoMessage
<1> QED
  BY <1>2, StillQuiet

\* Only a line that is passed on is anything else.
Spoken(n, c) ==
  /\ Accepted(n, c, Speaking) /\ ~Rebuffed(n, c, Speaking)
  /\ Distribute(n, c) \/ DdialDistribute(n, c)

LEMMA ChannelMessageQuiet ==
  ASSUME ServerInvariant, NEW n \in Node, NEW c \in Channel, ChannelMessage(n, c)
  PROVE  Quiet \/ Spoken(n, c)
<1>1. channels[c] \in ChannelRecord
  BY DEF ServerInvariant, TypeOK
<1>2. CASE Join(n, c) \/ Leave(n, c)
  BY <1>2, StatChangeQuiet DEF Join, Leave
<1>3. ASSUME NEW ch, SetChannel(n, c, ch), KeepsCounts(channels[c], ch)
      PROVE  Quiet
  <2>1. CASE Rebuffed(n, c, Moderating)
    BY <2>1, RebuffedQuiet
  <2>2. CASE ~Rebuffed(n, c, Moderating)
    BY <1>3, <2>2, OneChannelQuiet DEF SetChannel, NoMessage
  <2> QED
    BY <2>1, <2>2
<1>4. \A n1 \in Readers(channels[c]) : channels[c].lineout[n1] \in Nat
  BY <1>1 DEF Readers, ChannelRecord
<1>5. ASSUME NEW letter \in {"A", "a"}, SetChanFlag(n, c, letter)
      PROVE  Quiet
  <2> DEFINE ch == [channels[c] EXCEPT !.flags = FlagsAfter(@, Capital(letter))]
  <2>1. ch.lineout = channels[c].lineout /\ SetChannel(n, c, ch)
    BY <1>1, <1>5 DEF SetChanFlag, ChannelRecord
  <2> HIDE DEF ch
  <2> QED
    BY <1>3, <1>4, <2>1 DEF KeepsCounts
<1>6. ASSUME NEW num \in Limits, SetChanLimit(n, c, num)
      PROVE  Quiet
  <2> DEFINE ch == [channels[c] EXCEPT !.max = IF num \in MinMaxLineout .. MaxMaxLineout THEN num ELSE @]
  <2>1. ch.lineout = channels[c].lineout /\ SetChannel(n, c, ch)
    BY <1>1, <1>6 DEF SetChanLimit, ChannelRecord
  <2> HIDE DEF ch
  <2> QED
    BY <1>3, <1>4, <2>1 DEF KeepsCounts
<1>7. ASSUME NEW target \in Node, NEW letter \in PermLetter, NEW change \in {0, 1},
             SetPerm(n, c, target, letter, change)
      PROVE  Quiet
  BY <1>7, RebuffedQuiet, StatChangeQuiet DEF SetPerm
<1>8. CASE Distribute(n, c) \/ DdialDistribute(n, c)
  BY <1>8, RebuffedQuiet DEF Distribute, DdialDistribute, Spoken
<1>9. CASE Binary(n, c) \/ Wall(n, c) \/ WallA(n, c)
  <2>1. ASSUME NEW checks, NEW to, NEW kind, Relay(n, c, checks, to, kind), kind # "MESSAGE"
        PROVE  Quiet
    <3>1. CASE Rebuffed(n, c, checks)
      BY <3>1, RebuffedQuiet
    <3>2. CASE ~Rebuffed(n, c, checks)
      <4>1. NoMessage /\ UNCHANGED channels
        BY <2>1, <3>2 DEF Relay, NoMessage, Delivered, PacketsTo
      <4> QED
        BY <4>1, StillQuiet
    <3> QED
      BY <3>1, <3>2
  <2> QED
    BY <1>9, <2>1 DEF Binary, Wall, WallA
<1> QED
  BY <1>2, <1>5, <1>6, <1>7, <1>8, <1>9 DEF ChannelMessage

LEMMA NextQuiet ==
  ASSUME ServerInvariant, Next
  PROVE  Quiet \/ \E n \in Node, c \in Channel : Spoken(n, c)
<1>1. ASSUME NEW n \in Node, NEW c \in Channel, ChannelMessage(n, c)
      PROVE  Quiet \/ Spoken(n, c)
  BY <1>1, ChannelMessageQuiet
<1>2. ASSUME NEW n \in Node, Bye(n) \/ ClearNode(n)
      PROVE  Quiet
  <2>1. CASE Crash({})
    BY <2>1, StillQuiet DEF Crash, Delivered, NoMessage
  <2>2. CASE ~Crash({})
    BY <1>2, <2>2, OffAllQuiet DEF Bye, ClearNode
  <2> QED
    BY <2>1, <2>2
<1>3. ASSUME NEW n \in Node, NEW class,
             Connect(n) \/ Login(n, class) \/ ChangeClass(n, class) \/ Relog(n)
      PROVE  Quiet
  <2>1. UNCHANGED channels /\ NoMessage
    BY <1>3 DEF Connect, Login, ChangeClass, Relog, ClientChanges, NoMessage
  <2> QED
    BY <2>1, StillQuiet
<1> QED
  BY <1>1, <1>2, <1>3 DEF Next

LEMMA TwoAreTwo ==
  ASSUME NEW S \in SUBSET Node, NEW x \in S, NEW y \in S, x # y
  PROVE  ~(Cardinality(S) < 2)
<1>1. IsFiniteSet(S)
  BY ChannelsAssumption, FS_Subset
<1>2. IsFiniteSet(S \ {x}) /\ Cardinality(S \ {x}) = Cardinality(S) - 1
  BY <1>1, FS_RemoveElement
<1>3. IsFiniteSet((S \ {x}) \ {y}) /\ Cardinality((S \ {x}) \ {y}) = Cardinality(S \ {x}) - 1
  BY <1>2, FS_RemoveElement
<1>4. /\ Cardinality(S) \in Nat /\ Cardinality(S \ {x}) \in Nat
      /\ Cardinality((S \ {x}) \ {y}) \in Nat
  BY <1>1, <1>2, <1>3, FS_CardinalityType
<1> QED
  BY <1>2, <1>3, <1>4

\* What goes through on the channel of a spoken line reaches its readers.
LEMMA SaidByMessage ==
  ASSUME NEW S \in SUBSET Node, NEW kind, NEW c \in Channel, NEW n \in Node, NEW more,
         sent' = Delivered(PacketsTo(S, kind, c, n) \cup more),
         \A p \in more : p.kind # kind
  PROVE  /\ Said(c, n, {kind}) = {m \in S : Online(m)}
         /\ \A d \in Channel, m \in Node : d # c \/ m # n => Said(d, m, {kind}) = {}
<1>1. ASSUME NEW p \in sent', p.kind = kind
      PROVE  p.to \in S /\ Online(p.to) /\ p.chan = c /\ p.who = n
  BY <1>1 DEF Delivered, PacketsTo
<1>2. ASSUME NEW m \in S, Online(m)
      PROVE  m \in Said(c, n, {kind})
  <2> DEFINE p == [to |-> m, kind |-> kind, chan |-> c, who |-> n]
  <2>1. p \in sent' /\ p.to = m /\ p.kind \in {kind} /\ p.chan = c /\ p.who = n
    BY <1>2 DEF Delivered, PacketsTo
  <2> HIDE DEF p
  <2> QED
    BY <2>1 DEF Said
<1> QED
  BY <1>1, <1>2, ZenonT(30) DEF Said

\* The same of a step that sends nothing else.
LEMMA SaidAlone ==
  ASSUME NEW S \in SUBSET Node, NEW kind, NEW c \in Channel, NEW n \in Node,
         sent' = Delivered(PacketsTo(S, kind, c, n))
  PROVE  /\ Said(c, n, {kind}) = {m \in S : Online(m)}
         /\ \A d \in Channel, m \in Node : d # c \/ m # n => Said(d, m, {kind}) = {}
<1>1. ASSUME NEW p \in sent'
      PROVE  p.to \in S /\ Online(p.to) /\ p.chan = c /\ p.who = n
  BY <1>1 DEF Delivered, PacketsTo
<1>2. ASSUME NEW m \in S, Online(m)
      PROVE  m \in Said(c, n, {kind})
  <2> DEFINE p == [to |-> m, kind |-> kind, chan |-> c, who |-> n]
  <2>1. p \in sent' /\ p.to = m /\ p.kind \in {kind} /\ p.chan = c /\ p.who = n
    BY <1>2 DEF Delivered, PacketsTo
  <2> HIDE DEF p
  <2> QED
    BY <2>1 DEF Said
<1> QED
  BY <1>1, <1>2, ZenonT(30) DEF Said

\* What a step does to the count of a user who is not interrupted, if he stays.
Advances(c, n) ==
  n \in Readers(channels'[c]) =>
    /\ GotThrough(c, n) => channels'[c].lineout[n] >= channels[c].lineout[n] + 1
    /\ channels'[c].lineout[n] >= channels[c].lineout[n]

LEMMA QuietAdvances ==
  ASSUME ServerInvariant, Quiet, NEW c \in Channel, NEW n \in Node, ~Interrupted(c, n)
  PROVE  Advances(c, n)
<1>1. ~GotThrough(c, n)
  BY DEF Quiet, NoMessage, GotThrough, Said
<1>2. n \in Readers(channels[c])
  BY DEF Interrupted
<1> QED
  BY <1>1, <1>2 DEF Quiet, KeepsCounts, Advances

\* What the server counts of a line before it looks for a monologue.
LEMMA LinesAfterAdvances ==
  ASSUME NEW ch \in ChannelRecord, NEW s \in Node, NEW n \in Readers(ch),
         n = s, ~(Cardinality(Readers(ch)) < 2)
  PROVE  LinesAfter(ch, s)[n] = ch.lineout[n] + 1
BY DEF LinesAfter, Readers, ChannelRecord

LEMMA DistributeAdvances ==
  ASSUME ServerInvariant, NEW s \in Node, NEW d \in Channel, Spoken(s, d), Distribute(s, d),
         NEW c \in Channel, NEW n \in Node, ~Interrupted(c, n)
  PROVE  /\ Advances(c, n)
         /\ GotThrough(c, n) =>
              /\ c = d /\ n = s /\ Online(n)
              /\ LinesAfter(channels[d], s)[s] = channels[d].lineout[s] + 1
<1> DEFINE ch      == [channels[d] EXCEPT !.lineout = LinesAfter(channels[d], s)]
           heard   == PacketsTo(Readers(channels[d]), "MESSAGE", d, s)
           outcome == Outcome(d, ch, s, {s}, LineoutRequest)
<1>0. channels \in [Channel -> ChannelRecord] /\ channels[d] \in ChannelRecord
  BY DEF ServerInvariant, TypeOK
<1>1. /\ ch \in ChannelRecord /\ Readers(ch) = Readers(channels[d])
      /\ ch.lineout = LinesAfter(channels[d], s)
  <2>1. GoodChannel(channels[d]) /\ LinesAfter(channels[d], s) \in [Node -> Nat]
    BY <1>0, LinesAfterType DEF ServerInvariant
  <2> QED
    BY <1>0, <2>1, LineoutKeepsGood, ReadersOfCopy DEF ChannelRecord
<1>2. heard = PacketsTo(Readers(ch), "MESSAGE", d, s)
  BY <1>1
<1> HIDE DEF ch
<1>3. /\ KeepsCounts(ch, outcome.ch) /\ KeepsCounts(ch, ch)
      /\ \A p \in outcome.packets : p.kind # "MESSAGE"
  BY <1>1, OutcomeCounts, SameChannelCounts
<1>4. /\ UNCHANGED status
      /\ \/ ~Online(s) /\ UNCHANGED channels /\ sent' = Delivered(heard)
         \/ \E new : /\ channels' = [channels EXCEPT ![d] = new] /\ KeepsCounts(ch, new)
                     /\ sent' = Delivered(heard) \/ sent' = Delivered(heard \cup outcome.packets)
  BY <1>2, <1>3 DEF Spoken, Distribute, Crash, ch
<1>5. Readers(channels[d]) \in SUBSET Node
  BY ReadersAreNodes
<1>6. /\ Said(d, s, {"MESSAGE"}) = {m \in Readers(channels[d]) : Online(m)}
      /\ \A e \in Channel, m \in Node : e # d \/ m # s => Said(e, m, {"MESSAGE"}) = {}
  <2>2. CASE sent' = Delivered(heard)
    BY <1>5, <2>2, SaidAlone
  <2>3. CASE sent' = Delivered(heard \cup outcome.packets)
    BY <1>3, <1>5, <2>3, SaidByMessage
  <2> HIDE DEF heard, outcome
  <2> QED
    BY <1>4, <2>2, <2>3
<1> HIDE DEF heard, outcome
<1>7. Online(n) /\ n \in Readers(channels[c])
  BY <1>4 DEF Interrupted, Online
<1>8. CASE c # d
  <2>1. channels'[c] = channels[c] /\ ~GotThrough(c, n)
    BY <1>0, <1>4, <1>6, <1>8 DEF GotThrough
  <2> QED
    BY <1>0, <1>7, <2>1 DEF Advances, ChannelRecord
<1>9. CASE c = d
  <2>1. n = s
    <3> SUFFICES ASSUME n # s PROVE FALSE
      OBVIOUS
    <3>1. n \in Said(c, s, {"MESSAGE"})
      BY <1>6, <1>7, <1>9
    <3> QED
      BY <3>1 DEF Interrupted
  <2>2. PICK m \in Readers(channels[d]) : m # s
    <3>1. s \in Said(c, s, {"MESSAGE"}) /\ Said(c, s, {"MESSAGE"}) # {s}
      BY <1>6, <1>7, <1>9, <2>1 DEF Interrupted
    <3> QED
      BY <1>6, <1>9, <3>1
  <2>3. ~(Cardinality(Readers(channels[d])) < 2)
    BY <1>5, <1>7, <1>9, <2>1, <2>2, TwoAreTwo
  <2>4. ch.lineout[n] = channels[c].lineout[n] + 1
    BY <1>0, <1>1, <1>7, <1>9, <2>1, <2>3, LinesAfterAdvances
  <2>5. PICK new : channels' = [channels EXCEPT ![d] = new] /\ KeepsCounts(ch, new)
    BY <1>4, <1>7, <2>1
  <2>6. channels'[c] = new
    BY <1>0, <1>9, <2>5
  <2>7. n \in Readers(new) => new.lineout[n] >= ch.lineout[n]
    BY <1>1, <1>7, <1>9, <2>5 DEF KeepsCounts
  <2>8. channels[c].lineout[n] \in Nat
    BY <1>0 DEF ChannelRecord
  <2>9. channels'[c].lineout[n] \in Int
    <3>1. ServerInvariant'
      BY DistributeKeeps
    <3> QED
      BY <3>1 DEF ServerInvariant, TypeOK, ChannelRecord
  <2>10. Advances(c, n)
    BY <2>4, <2>6, <2>7, <2>8, <2>9 DEF Advances
  <2> QED
    BY <1>1, <1>7, <1>9, <2>1, <2>4, <2>10
<1> QED
  BY <1>8, <1>9

LEMMA DdialAdvances ==
  ASSUME ServerInvariant, NEW s \in Node, NEW d \in Channel, Spoken(s, d), DdialDistribute(s, d),
         NEW c \in Channel, NEW n \in Node, ~Interrupted(c, n)
  PROVE  Advances(c, n) /\ ~GotThrough(c, n)
<1> DEFINE to    == DdialReaders(channels[d], s)
           lines == [m \in Node |-> IF m \in to THEN 0 ELSE channels[d].lineout[m]]
<1>0. channels \in [Channel -> ChannelRecord] /\ channels[d] \in ChannelRecord
  BY DEF ServerInvariant, TypeOK
<1>1. /\ UNCHANGED status /\ channels' = [channels EXCEPT ![d].lineout = lines]
      /\ sent' = Delivered(PacketsTo(to, "DDIAL", d, s))
  BY DEF Spoken, DdialDistribute
<1>2. ~GotThrough(c, n)
  BY <1>1 DEF GotThrough, Said, Delivered, PacketsTo
<1>3. to \in SUBSET Node /\ channels[d].lineout \in [Node -> Nat]
  BY <1>0 DEF DdialReaders, ChannelRecord
<1>4. Said(d, s, {"DDIAL"}) = {m \in to : Online(m)}
  <2> HIDE DEF to
  <2> QED
    BY <1>1, <1>3, SaidAlone
<1>5. Online(n)
  BY <1>1 DEF Interrupted, Online
<1> HIDE DEF to
<1>6. c = d => n \notin to
  <2> SUFFICES ASSUME c = d, n \in to PROVE FALSE
    OBVIOUS
  <2>1. n \in Said(c, s, {"DDIAL"})
    BY <1>4, <1>5
  <2> QED
    BY <2>1 DEF Interrupted
<1>7. channels'[c].lineout[n] = channels[c].lineout[n] /\ channels[c].lineout[n] \in Nat
  <2>1. CASE c # d
    BY <1>0, <1>1, <2>1 DEF ChannelRecord
  <2>2. CASE c = d
    <3>1. channels'[c].lineout = lines
      BY <1>0, <1>1, <2>2 DEF ChannelRecord
    <3> QED
      BY <1>3, <1>6, <2>2, <3>1
  <2> QED
    BY <2>1, <2>2
<1> QED
  BY <1>2, <1>7 DEF Advances

\* Every step of the server that lets a user go on counts what he gets through.
LEMMA NextAdvances ==
  ASSUME ServerInvariant, Next, NEW c \in Channel, NEW n \in Node, ~Interrupted(c, n)
  PROVE  /\ Advances(c, n)
         /\ GotThrough(c, n) =>
              /\ Spoken(n, c) /\ Distribute(n, c) /\ Online(n)
              /\ LinesAfter(channels[c], n)[n] = channels[c].lineout[n] + 1
<1>1. CASE Quiet
  <2>1. ~GotThrough(c, n)
    BY <1>1 DEF Quiet, NoMessage, GotThrough, Said
  <2> QED
    BY <1>1, <2>1, QuietAdvances
<1>2. ASSUME NEW s \in Node, NEW d \in Channel, Spoken(s, d)
      PROVE  /\ Advances(c, n)
             /\ GotThrough(c, n) =>
                  /\ Spoken(n, c) /\ Distribute(n, c) /\ Online(n)
                  /\ LinesAfter(channels[c], n)[n] = channels[c].lineout[n] + 1
  <2>1. CASE Distribute(s, d)
    BY <1>2, <2>1, DistributeAdvances
  <2>2. CASE DdialDistribute(s, d)
    BY <1>2, <2>2, DdialAdvances
  <2> QED
    BY <1>2, <2>1, <2>2 DEF Spoken
<1> QED
  BY <1>1, <1>2, NextQuiet

\* The counts stay behind the server's own.
LEMMA MonologueInvKept ==
  ASSUME MonologueInv, [MonologueNext]_<<vars, monologue>>
  PROVE  MonologueInv'
<1>1. CASE UNCHANGED <<vars, monologue>>
  <2>1. ServerInvariant'
    BY <1>1, NextKeeps DEF MonologueInv
  <2> QED
    BY <1>1, <2>1 DEF MonologueInv, MonologueTypeOK, Counted, vars, Readers
<1>2. CASE MonologueNext
  <2>1. ServerInvariant /\ Next /\ ServerInvariant'
    BY <1>2, NextKeeps DEF MonologueNext, MonologueInv
  <2>2. \A c \in Channel, n \in Node :
          monologue'[c][n] = IF Interrupted(c, n) THEN 0
                             ELSE IF GotThrough(c, n) THEN monologue[c][n] + 1
                             ELSE monologue[c][n]
    BY <1>2 DEF MonologueNext
  <2>3. MonologueTypeOK'
    BY <1>2 DEF MonologueNext, MonologueInv, MonologueTypeOK
  <2>4. ASSUME NEW c \in Channel, NEW n \in Readers(channels'[c])
        PROVE  monologue'[c][n] <= channels'[c].lineout[n]
    <3>1. channels[c] \in ChannelRecord /\ channels'[c] \in ChannelRecord
      BY <2>1 DEF ServerInvariant, TypeOK
    <3>2. n \in Node
      BY <2>4, <3>1 DEF Readers, ChannelRecord
    <3>3. /\ channels[c].lineout[n] \in Nat /\ channels'[c].lineout[n] \in Nat
          /\ monologue[c][n] \in Nat
      BY <3>1, <3>2 DEF ChannelRecord, MonologueInv, MonologueTypeOK
    <3>4. CASE Interrupted(c, n)
      BY <2>2, <3>2, <3>3, <3>4
    <3>5. CASE ~Interrupted(c, n)
      <4>1. Advances(c, n)
        BY <2>1, <3>2, <3>5, NextAdvances
      <4>2. monologue[c][n] <= channels[c].lineout[n]
        BY <3>5 DEF Interrupted, MonologueInv, Counted
      <4> QED
        BY <2>2, <2>4, <3>2, <3>3, <3>5, <4>1, <4>2 DEF Advances
    <3> QED
      BY <3>4, <3>5
  <2>5. Counted'
    BY <2>4 DEF Counted, Readers
  <2> QED
    BY <2>1, <2>3, <2>5 DEF MonologueInv
<1> QED
  BY <1>1, <1>2

\* A lineout bans its speaker, unless he is a god, and signals him.
LEMMA LineoutBans ==
  ASSUME ServerInvariant, NEW n \in Node, NEW c \in Channel, Spoken(n, c), Distribute(n, c),
         Online(n), LinesAfter(channels[c], n)[n] >= channels[c].max,
         "MODERATE" \notin channels[c].access[n]
  PROVE  /\ n \in signalled'
         /\ "BANNED" \in channels'[c].access[n] \/ testFlag(n, "CHN_ALLMODERATE")
<1> DEFINE ch  == [channels[c] EXCEPT !.lineout = LinesAfter(channels[c], n)]
           new == NewAccess(ch, n, LineoutRequest)
<1>0. channels \in [Channel -> ChannelRecord] /\ channels[c] \in ChannelRecord
      /\ GoodChannel(channels[c])
  BY DEF ServerInvariant, TypeOK
<1>1. /\ ch \in ChannelRecord /\ GoodChannel(ch)
      /\ ch.lineout = LinesAfter(channels[c], n) /\ ch.max = channels[c].max
      /\ ch.open = channels[c].open /\ ch.access = channels[c].access
      /\ ch.users = channels[c].users
  <2>1. LinesAfter(channels[c], n) \in [Node -> Nat]
    BY <1>0, LinesAfterType
  <2>2. ch \in ChannelRecord /\ GoodChannel(ch)
    BY <1>0, <2>1, LineoutKeepsGood
  <2> QED
    BY <1>0, <2>2 DEF ChannelRecord
<1>2. /\ LinedOut(ch, n)
      /\ channels' = [channels EXCEPT ![c] = Outcome(c, ch, n, {n}, LineoutRequest).ch]
      /\ signalled' = signalled \cup {n}
  <2>1. LinedOut(ch, n)
    BY <1>1 DEF LinedOut
  <2> QED
    BY <2>1 DEF Spoken, Distribute
<1>3. channels[c].open /\ n \in channels[c].users /\ n \notin Barred(channels[c])
  BY DEF Spoken, Accepted, SenderError, Speaking, Barred
<1> HIDE DEF ch
<1>4. /\ Refusal(ch, n, LineoutRequest) = "OK"
      /\ BarsHim(ch, n, new) \/ (n \in Gods /\ PardonsHim(ch, n, new))
  BY <1>1, <1>3, LineoutAllowed DEF Barred
<1>5. channels'[c] = Changed(ch, n, LineoutRequest)
  BY <1>0, <1>2, <1>4 DEF Outcome
<1>6. channels'[c].access[n] = new
  <2>1. Changed(ch, n, LineoutRequest).access = [ch.access EXCEPT ![n] = new]
    BY <1>1, ChangedAccess, Zenon
  <2>2. ch.access \in [Node -> SUBSET Access]
    BY <1>1 DEF ChannelRecord
  <2> HIDE DEF new
  <2> QED
    BY <1>5, <2>1, <2>2
<1> HIDE DEF new
<1> QED
  BY <1>2, <1>4, <1>6 DEF BarsHim, Gods

\* Nobody but a moderator gets through with as many lines in a row as the channel's
\* limit and stays: whatever else happens to the counters in the lists, with that
\* line he is banned, or is a god, and his client is told to quit
\* (srv_channel.c, distribute_message).
THEOREM MonologuesAreEnded == MonologueSpec => MonologuesEnd
<1>1. MonologueInit => MonologueInv
  <2> SUFFICES ASSUME MonologueInit PROVE MonologueInv
    OBVIOUS
  <2>1. ServerInvariant
    BY InitGood DEF MonologueInit
  <2>2. \A c \in Channel : Readers(channels[c]) = {}
    BY DEF MonologueInit, Init, NewChannel, Readers
  <2> QED
    BY <2>1, <2>2 DEF MonologueInit, MonologueInv, MonologueTypeOK, Counted
<1>2. MonologueInv /\ [MonologueNext]_<<vars, monologue>> => MonologueInv'
  BY MonologueInvKept
<1>3. ASSUME MonologueInv, MonologueNext, NEW c \in Channel, NEW n \in Node,
             monologue'[c][n] > monologue[c][n], monologue'[c][n] >= channels[c].max,
             "MODERATE" \notin channels[c].access[n], ~crashed'
      PROVE  /\ n \in signalled'
             /\ "BANNED" \in channels'[c].access[n] \/ testFlag(n, "CHN_ALLMODERATE")
  <2>1. ServerInvariant /\ Next
    BY <1>3 DEF MonologueInv, MonologueNext
  <2>2. monologue[c][n] \in Nat
    BY <1>3 DEF MonologueInv, MonologueTypeOK
  <2>3. ~Interrupted(c, n) /\ GotThrough(c, n) /\ monologue'[c][n] = monologue[c][n] + 1
    BY <1>3, <2>2 DEF MonologueNext
  <2>4. /\ Spoken(n, c) /\ Distribute(n, c) /\ Online(n)
        /\ LinesAfter(channels[c], n)[n] = channels[c].lineout[n] + 1
    BY <2>1, <2>3, NextAdvances
  <2>5. monologue[c][n] <= channels[c].lineout[n]
    BY <1>3, <2>3 DEF Interrupted, MonologueInv, Counted
  <2>6. channels[c].lineout[n] \in Nat /\ channels[c].max \in Nat
    BY <2>1 DEF ServerInvariant, TypeOK, ChannelRecord
  <2>7. LinesAfter(channels[c], n)[n] >= channels[c].max
    BY <1>3, <2>2, <2>3, <2>4, <2>5, <2>6
  <2> QED
    BY <1>3, <2>1, <2>4, <2>7, LineoutBans
<1>4. MonologueInv /\ [MonologueNext]_<<vars, monologue>> =>
        [\A c \in Channel, n \in Node :
           /\ monologue'[c][n] > monologue[c][n]
           /\ monologue'[c][n] >= channels[c].max
           /\ "MODERATE" \notin channels[c].access[n]
           /\ ~crashed'
           => /\ n \in signalled'
              /\ \/ "BANNED" \in channels'[c].access[n]
                 \/ testFlag(n, "CHN_ALLMODERATE")]_<<vars, monologue>>
  BY <1>3
<1> QED
  BY <1>1, <1>2, <1>4, PTL DEF MonologueSpec, MonologuesEnd
=============================================================================
