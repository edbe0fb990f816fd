------------------------------ MODULE Channels ------------------------------
(***************************************************************************)
(* The channel server of the unix GTalk (Server/srv_channel.c,             *)
(* Server/chuser.c, Server/ddial_serv.c).  One server process keeps the    *)
(* list of channels; each channel keeps a list of users with access flags  *)
(* and a "lineout" counter that limits how long a user may monologue.      *)
(* Clients ask for changes with messages (JOIN, LEAVE, SETPERM, ...), each *)
(* handled to completion before the next one, so one action is one handled *)
(* message.  Next to the server run the clients: they write their node's   *)
(* status in shared memory without asking the server.                      *)
(*                                                                         *)
(* Only local nodes are modelled: server_abuf_write drops everything for   *)
(* another machine.                                                        *)
(***************************************************************************)
EXTENDS Integers, FiniteSets

CONSTANTS
  Node,              \* node numbers: one per connected user
  Channel,           \* channel names
  Classes,           \* the privilege sets a user class may have
  DefaultMaxLineout, \* max_lineout_counter of a new channel (9 in the code)
  MinMaxLineout,     \* the smallest limit SETCHAN L accepts (3 in the code)
  MaxMaxLineout,     \* the largest (10000000 in the code)
  Limits,            \* the numbers users type after /CC
  LineoutBound       \* bound of the model: lines counted for one user

Priv == {"CHN_ADDCHANNEL", "CHN_MODERATE", "CHN_ALLMODERATE"}

ASSUME ChannelsAssumption ==
  /\ IsFiniteSet(Node)
  /\ Classes \subseteq SUBSET Priv
  /\ DefaultMaxLineout \in Nat /\ MinMaxLineout \in Nat /\ MaxMaxLineout \in Nat
  /\ Limits \subseteq Nat
  /\ LineoutBound \in Nat

VARIABLES
  status,     \* shared memory: the node's status, as far as channels care
  privs,      \* shared memory: the privileges of the class of the node's user
  channels,   \* the server's list of channels
  sent,       \* the packets the server wrote to clients in the last step
  signalled,  \* nodes whose client got SIGUSR1 with SIG1_ACTION_LINEOUT
  crashed     \* the server process has died of a segmentation fault

vars == <<status, privs, channels, sent, signalled, crashed>>

Access == {"READ", "WRITE", "MODERATE", "BANNED", "INVITED"}
ChannelFlag == {"ALLJOIN", "STAYOPEN", "ALLPOST"}

\* CONNECTED and RELOGGED stand for every status before NODE_ACTIVE.  At a
\* RELOGGED node another user was online before and his last messages may
\* still be in the pipe to the server.
Status == {"EMPTY", "CONNECTED", "RELOGGED", "ACTIVE"}

\* A channel not in the server's list has open = FALSE and the contents that
\* add_channel would give it.  users is the channel's user list.
ChannelRecord ==
  [open : BOOLEAN, users : SUBSET Node, access : [Node -> SUBSET Access],
   lineout : [Node -> Nat], flags : SUBSET ChannelFlag, max : Nat]

NewChannel ==
  [open |-> FALSE, users |-> {}, access |-> [n \in Node |-> {}],
   lineout |-> [n \in Node |-> 0], flags |-> {"ALLJOIN", "ALLPOST"},
   max |-> DefaultMaxLineout]

Online(n) == status[n] = "ACTIVE"
testFlag(n, flag) == flag \in privs[n]

\* is_on_channel looks at its first argument only.
OnChannel(access) == "READ" \in access /\ "BANNED" \notin access
Readers(ch) == {n \in ch.users : OnChannel(ch.access[n])}

-----------------------------------------------------------------------------
(* Packets to clients. *)

PacketKind ==
  {"JOINCHANNEL", "LEAVECHANNEL", "MESSAGE", "BINARY", "WALL", "WALLA",
   "DDIAL", "INVITED", "UNINVITED", "BANNED", "UNBANNED", "NOPERMCREATE",
   "NOTINVITED", "NOBELONG", "PRIVATE", "NOCHANNEL", "NOWRITE", "NOMODERATE"}

\* who is the user the packet is about (the speaker, the one who joined...).
Packet == [to : Node, kind : PacketKind, chan : Channel, who : Node]

PacketsTo(S, kind, c, who) ==
  {[to |-> m, kind |-> kind, chan |-> c, who |-> who] : m \in S}

\* server_abuf_write: only a node that is online gets anything.
Delivered(packets) == {p \in packets : Online(p.to)}

-----------------------------------------------------------------------------
(* channel_stat_change: every change of a user's place on a channel goes    *)
(* through it.  A request says, for each right, grant (1), withdraw (0) or  *)
(* leave alone (-1).                                                        *)

Change == {-1, 0, 1}

Request ==
  [newchannel : BOOLEAN, newuser : BOOLEAN, read : Change, write : Change,
   moderate : Change, invited : Change, banned : Change, forcemsg : BOOLEAN]

\* Which early return the request ends in; "OK" if in none.
Refusal(ch, n, q) ==
  IF ~ch.open /\ (~q.newchannel \/ ~testFlag(n, "CHN_ADDCHANNEL"))
    THEN "NOPERMCREATE"
  ELSE IF n \in ch.users
    THEN IF testFlag(n, "CHN_ALLMODERATE") THEN "OK"
         ELSE IF q.banned < 0 /\ "BANNED" \in ch.access[n] THEN "BANNED"
         ELSE IF "ALLJOIN" \notin ch.flags /\ "INVITED" \notin ch.access[n]
                THEN "NOTINVITED"
         ELSE "OK"
  ELSE IF ~q.newuser THEN "NOBELONG"
  ELSE IF "ALLJOIN" \notin ch.flags THEN "PRIVATE"
  ELSE "OK"

With(access, right, change) ==
  CASE change = 1 -> access \cup {right}
    [] change = 0 -> access \ {right}
    [] change = -1 -> access

\* Granting MODERATE needs a privilege of the user who is to receive it.
MayModerate(ch, n) ==
  \/ ~ch.open /\ testFlag(n, "CHN_MODERATE")
  \/ testFlag(n, "CHN_ALLMODERATE")

\* Mutant of ModerateChange: whoever is to get MODERATE gets it.
ModerateForAll(ch, n, q) == q.moderate

ModerateChange(ch, n, q) ==
  IF q.moderate = 1 /\ ~MayModerate(ch, n) THEN 0 ELSE q.moderate

\* Mutant of BannedChange: gods can be banned.
GodsBannable(ch, n, q) == q.banned

\* A user on the list with CHN_ALLMODERATE is never banned: banned = 0.
BannedChange(ch, n, q) ==
  IF n \in ch.users /\ testFlag(n, "CHN_ALLMODERATE") THEN 0 ELSE q.banned

NewAccess(ch, n, q) ==
  LET rw   == With(With(ch.access[n], "READ", q.read), "WRITE", q.write)
      rwm  == With(rw, "MODERATE", ModerateChange(ch, n, q))
      rwmi == With(rwm, "INVITED", q.invited)
      ban  == BannedChange(ch, n, q)
  IN  IF ban = 1 /\ "BANNED" \notin rwmi
        THEN (rwmi \cup {"BANNED"}) \ {"READ"}
        ELSE With(rwmi, "BANNED", ban)

\* The channel after a request that is not refused.  A user left with no
\* access flag is deleted from the list; the code then returns before it
\* looks whether the list is empty, so the channel itself stays.
Changed(ch, n, q) ==
  LET access == NewAccess(ch, n, q)
  IN  [ch EXCEPT
        !.open      = TRUE,
        !.users     = IF access = {} THEN @ \ {n} ELSE @ \cup {n},
        !.access[n] = access,
        !.lineout[n] = IF access = {} \/ n \notin ch.users THEN 0 ELSE @]

When(condition, packets) == IF condition THEN packets ELSE {}

Notices(c, n, old, new) ==
  UNION {
    When("INVITED" \in new \ old, PacketsTo({n}, "INVITED", c, n)),
    When("INVITED" \in old \ new, PacketsTo({n}, "UNINVITED", c, n)),
    When("BANNED" \in new \ old, PacketsTo({n}, "BANNED", c, n)),
    When("BANNED" \in old \ new, PacketsTo({n}, "UNBANNED", c, n))}

\* Mutant of Announcements: those who were on the channel before are told.
FormerReadersTold(c, ch, n, q) ==
  LET old == ch.access[n]
      new == NewAccess(ch, n, q)
  IN  UNION {
        When((q.forcemsg \/ ~OnChannel(old)) /\ OnChannel(new),
             PacketsTo(Readers(ch), "JOINCHANNEL", c, n)),
        When((q.forcemsg \/ OnChannel(old)) /\ ~OnChannel(new),
             PacketsTo({n}, "LEAVECHANNEL", c, n)),
        Notices(c, n, old, new)}

\* Everyone who is on the channel after the change hears of it.
Announcements(c, ch, n, q) ==
  LET old     == ch.access[n]
      new     == NewAccess(ch, n, q)
      hearers == Readers(Changed(ch, n, q))
  IN  UNION {
        When((q.forcemsg \/ ~OnChannel(old)) /\ OnChannel(new),
             PacketsTo(hearers, "JOINCHANNEL", c, n)),
        When((q.forcemsg \/ OnChannel(old)) /\ ~OnChannel(new),
             PacketsTo(hearers, "LEAVECHANNEL", c, n)),
        Notices(c, n, old, new)}

\* The channel and the packets a request leads to; a refusal is answered to
\* the node replyTo.
Outcome(c, ch, n, replyTo, q) ==
  LET refusal == Refusal(ch, n, q)
  IN  IF refusal = "OK"
        THEN [ch |-> Changed(ch, n, q), packets |-> Announcements(c, ch, n, q)]
        ELSE [ch |-> ch, packets |-> PacketsTo(replyTo, refusal, c, n)]

\* The first thing channel_stat_change does with the node it is about is to
\* read the name of its user through a pointer that is NULL when the node is
\* not online.
Crash(packets) ==
  /\ crashed' = TRUE
  /\ sent' = Delivered(packets)
  /\ UNCHANGED <<status, privs, channels, signalled>>

StatChange(c, n, replyTo, q) ==
  \/ /\ ~Online(n)
     /\ Crash({})
  \/ /\ Online(n)
     /\ LET outcome == Outcome(c, channels[c], n, replyTo, q)
        IN  /\ channels' = [channels EXCEPT ![c] = outcome.ch]
            /\ sent' = Delivered(outcome.packets)
     /\ UNCHANGED <<status, privs, signalled, crashed>>

-----------------------------------------------------------------------------
(* Messages that ask for a change.  The node a message comes from was ACTIVE *)
(* when it was sent; it need not be when the server gets to the message.     *)

Asks(n) == ~crashed /\ status[n] \in {"ACTIVE", "RELOGGED"}

JoinRequest ==
  [newchannel |-> TRUE, newuser |-> TRUE, read |-> 1, write |-> 1,
   moderate |-> 1, invited |-> -1, banned |-> -1, forcemsg |-> TRUE]

LeaveRequest ==
  [newchannel |-> FALSE, newuser |-> FALSE, read |-> 0, write |-> 0,
   moderate |-> 0, invited |-> 0, banned |-> -1, forcemsg |-> TRUE]

OffRequest ==
  [newchannel |-> FALSE, newuser |-> FALSE, read |-> 0, write |-> 0,
   moderate |-> 0, invited |-> 0, banned |-> 0, forcemsg |-> FALSE]

LineoutRequest ==
  [newchannel |-> FALSE, newuser |-> FALSE, read |-> -1, write |-> -1,
   moderate |-> -1, invited |-> -1, banned |-> 1, forcemsg |-> FALSE]

\* The clients send one letter with + or - per SETPERM message.
PermLetter == {"W", "M", "I", "B"}

PermRequest(letter, change) ==
  LET Of(l) == IF l = letter THEN change ELSE -1
  IN  [newchannel |-> FALSE, newuser |-> letter \in {"B", "I"},
       read |-> -1, write |-> Of("W"), moderate |-> Of("M"),
       invited |-> Of("I"), banned |-> Of("B"), forcemsg |-> FALSE]

\* get_channel_st and the check_... functions: what is wrong, if anything,
\* with the sender of a message that needs the rights in checks.
SenderError(ch, n, checks) ==
  IF ~ch.open THEN "NOCHANNEL"
  ELSE IF n \notin ch.users THEN "NOBELONG"
  ELSE IF "BANNED" \in checks /\ "BANNED" \in ch.access[n] THEN "BANNED"
  ELSE IF "WRITE" \in checks /\ "WRITE" \notin ch.access[n] THEN "NOWRITE"
  ELSE IF "MODERATE" \in checks /\ "MODERATE" \notin ch.access[n]
         THEN "NOMODERATE"
  ELSE "OK"

Rebuffed(n, c, checks) ==
  LET error == SenderError(channels[c], n, checks)
  IN  /\ error # "OK"
      /\ sent' = Delivered(PacketsTo({n}, error, c, n))
      /\ UNCHANGED <<status, privs, channels, signalled, crashed>>

Accepted(n, c, checks) == SenderError(channels[c], n, checks) = "OK"

Moderating == {"BANNED", "MODERATE"}
Speaking   == {"BANNED", "WRITE"}

Join(n, c) == Asks(n) /\ StatChange(c, n, {n}, JoinRequest)

Leave(n, c) == Asks(n) /\ StatChange(c, n, {n}, LeaveRequest)

\* Errors go to the node the message is about, not to the moderator.
SetPerm(n, c, target, letter, change) ==
  /\ Asks(n)
  /\ \/ Rebuffed(n, c, Moderating)
     \/ /\ Accepted(n, c, Moderating)
        /\ StatChange(c, target, {target}, PermRequest(letter, change))

\* SETCHAN turns a letter above Z into the capital before it looks at it.
Capital(letter) == IF letter = "a" THEN "A" ELSE letter

FlagsAfter(flags, letter) ==
  CASE letter = "A" -> flags \cup {"ALLJOIN"}
    [] letter = "a" -> flags \ {"ALLJOIN"}

SetChannel(n, c, ch) ==
  /\ Asks(n)
  /\ \/ Rebuffed(n, c, Moderating)
     \/ /\ Accepted(n, c, Moderating)
        /\ channels' = [channels EXCEPT ![c] = ch]
        /\ sent' = {}
        /\ UNCHANGED <<status, privs, signalled, crashed>>

SetChanFlag(n, c, letter) ==
  SetChannel(n, c, [channels[c] EXCEPT !.flags = FlagsAfter(@, Capital(letter))])

SetChanLimit(n, c, num) ==
  SetChannel(n, c,
    [channels[c] EXCEPT !.max = IF num \in MinMaxLineout .. MaxMaxLineout THEN num ELSE @])

\* Mutant of OffAll: the loop over the channels ends with the first.
OffOne(n) ==
  LET opened == {c \in Channel : channels[c].open}
      first  == IF opened = {} THEN {} ELSE {CHOOSE c \in opened : TRUE}
      Out(c) == Outcome(c, channels[c], n, {}, OffRequest)
  IN  /\ channels' = [c \in Channel |-> IF c \in first THEN Out(c).ch
                                        ELSE channels[c]]
      /\ sent' = Delivered(UNION {Out(c).packets : c \in first})

\* take_off_channels: one request per channel, no answers.
OffAll(n) ==
  LET Out(c) == Outcome(c, channels[c], n, {}, OffRequest)
      opened == {c \in Channel : channels[c].open}
  IN  /\ channels' = [c \in Channel |-> IF c \in opened THEN Out(c).ch
                                        ELSE channels[c]]
      /\ sent' = Delivered(UNION {Out(c).packets : c \in opened})

SomeOpen == \E c \in Channel : channels[c].open

Bye(n) ==
  /\ Asks(n)
  /\ \/ SomeOpen /\ ~Online(n) /\ Crash({})
     \/ /\ SomeOpen => Online(n)
        /\ OffAll(n)
        /\ UNCHANGED <<status, privs, signalled, crashed>>

-----------------------------------------------------------------------------
(* Messages that are passed on.                                             *)

\* Mutant of LinesAfter: a line nobody saw is taken back, not all of them.
LineTakenBack(ch, n) ==
  LET readers == Readers(ch)
  IN  [m \in Node |->
        IF m = n /\ Cardinality(readers) < 2 THEN ch.lineout[m] - 1
        ELSE IF m \notin readers THEN ch.lineout[m]
        ELSE IF m = n THEN ch.lineout[m] + 1
        ELSE 0]

\* A line resets the counters of those who see it and advances that of its
\* speaker, unless nobody else is there to see it.
LinesAfter(ch, n) ==
  LET readers == Readers(ch)
  IN  [m \in Node |->
        IF m = n /\ Cardinality(readers) < 2 THEN 0
        ELSE IF m \notin readers THEN ch.lineout[m]
        ELSE IF m = n THEN ch.lineout[m] + 1
        ELSE 0]

\* Mutant of LinedOut: one line too late.
LinedOutLate(ch, n) ==
  ch.lineout[n] > ch.max /\ "MODERATE" \notin ch.access[n]

LinedOut(ch, n) ==
  ch.lineout[n] >= ch.max /\ "MODERATE" \notin ch.access[n]

\* MESSAGE.  One line too many gets the speaker banned and signalled.
Distribute(n, c) ==
  /\ Asks(n)
  /\ \/ Rebuffed(n, c, Speaking)
     \/ /\ Accepted(n, c, Speaking)
        /\ channels[c].lineout[n] < LineoutBound
        /\ LET ch      == [channels[c] EXCEPT !.lineout = LinesAfter(channels[c], n)]
               heard   == PacketsTo(Readers(ch), "MESSAGE", c, n)
               outcome == Outcome(c, ch, n, {n}, LineoutRequest)
           IN  \/ /\ ~LinedOut(ch, n)
                  /\ channels' = [channels EXCEPT ![c] = ch]
                  /\ sent' = Delivered(heard)
                  /\ UNCHANGED <<status, privs, signalled, crashed>>
               \/ /\ LinedOut(ch, n) /\ Online(n)
                  /\ channels' = [channels EXCEPT ![c] = outcome.ch]
                  /\ sent' = Delivered(heard \cup outcome.packets)
                  /\ signalled' = signalled \cup {n}
                  /\ UNCHANGED <<status, privs, crashed>>
               \/ LinedOut(ch, n) /\ ~Online(n) /\ Crash(heard)

\* Lines from a link.  The test whether a user is to get the line looks at
\* the speaker's access instead of the user's: all users or none.
DdialReaders(ch, n) == IF OnChannel(ch.access[n]) THEN ch.users ELSE {}

DdialDistribute(n, c) ==
  /\ Asks(n)
  /\ \/ Rebuffed(n, c, Speaking)
     \/ /\ Accepted(n, c, Speaking)
        /\ LET ch == channels[c]
               to == DdialReaders(ch, n)
           IN  /\ channels' = [channels EXCEPT ![c].lineout =
                    [m \in Node |-> IF m \in to THEN 0 ELSE ch.lineout[m]]]
               /\ sent' = Delivered(PacketsTo(to, "DDIAL", c, n))
        /\ UNCHANGED <<status, privs, signalled, crashed>>

\* A message that is passed on and changes nothing on the server.
Relay(n, c, checks, to, kind) ==
  /\ Asks(n)
  /\ \/ Rebuffed(n, c, checks)
     \/ /\ Accepted(n, c, checks)
        /\ sent' = Delivered(PacketsTo(to, kind, c, n))
        /\ UNCHANGED <<status, privs, channels, signalled, crashed>>

Binary(n, c) == Relay(n, c, Speaking, Readers(channels[c]) \ {n}, "BINARY")

WallA(n, c) == Relay(n, c, Speaking, Readers(channels[c]), "WALLA")

\* wall_message runs over the list up to the number of nodes, past its last
\* element: what lies there names any set of further nodes.
Wall(n, c) ==
  \E stale \in SUBSET (Node \ Readers(channels[c])) :
    Relay(n, c, {}, Readers(channels[c]) \cup stale, "WALL")

-----------------------------------------------------------------------------
(* The clients and the end of their nodes.                                  *)

ClientChanges(n, from, to) ==
  /\ ~crashed
  /\ status[n] = from
  /\ status' = [status EXCEPT ![n] = to]
  /\ sent' = {}
  /\ UNCHANGED <<channels, crashed>>

\* A client for the node is started and asks for a login.
Connect(n) == ClientChanges(n, "EMPTY", "CONNECTED") /\ UNCHANGED <<privs, signalled>>

Login(n, class) ==
  /\ \E from \in {"CONNECTED", "RELOGGED"} : ClientChanges(n, from, "ACTIVE")
  /\ privs' = [privs EXCEPT ![n] = class]
  /\ UNCHANGED signalled

\* Someone gives the class of an online user, or a class, other privileges.
ChangeClass(n, class) ==
  /\ ClientChanges(n, "ACTIVE", "ACTIVE")
  /\ privs' = [privs EXCEPT ![n] = class]
  /\ UNCHANGED signalled

\* Nothing reads the privileges of a node that is not online, and the next
\* login overwrites them, so the model forgets them (the code does not).
ForgetPrivs(n) == privs' = [privs EXCEPT ![n] = {}]

\* The client has run another client in its place, for a new login.
Relog(n) ==
  /\ ClientChanges(n, "ACTIVE", "RELOGGED")
  /\ signalled' = signalled \ {n}
  /\ ForgetPrivs(n)

\* clear_node_data: the server found the client dead.
ClearNode(n) ==
  /\ ~crashed /\ status[n] # "EMPTY"
  /\ \/ SomeOpen /\ ~Online(n) /\ Crash({})
     \/ /\ SomeOpen => Online(n)
        /\ OffAll(n)
        /\ status' = [status EXCEPT ![n] = "EMPTY"]
        /\ signalled' = signalled \ {n}
        /\ ForgetPrivs(n)
        /\ UNCHANGED crashed

-----------------------------------------------------------------------------
Init ==
  /\ status = [n \in Node |-> "EMPTY"]
  /\ privs = [n \in Node |-> {}]
  /\ channels = [c \in Channel |-> NewChannel]
  /\ sent = {}
  /\ signalled = {}
  /\ crashed = FALSE

ChannelMessage(n, c) ==
  \/ Join(n, c)
  \/ Leave(n, c)
  \/ \E letter \in {"A", "a"} : SetChanFlag(n, c, letter)
  \/ \E target \in Node, letter \in PermLetter, change \in {0, 1} :
       SetPerm(n, c, target, letter, change)
  \/ \E num \in Limits : SetChanLimit(n, c, num)
  \/ Distribute(n, c)
  \/ DdialDistribute(n, c)
  \/ Binary(n, c)
  \/ Wall(n, c)
  \/ WallA(n, c)

Next ==
  \E n \in Node :
    \/ \E c \in Channel : ChannelMessage(n, c)
    \/ Bye(n)
    \/ ClearNode(n)
    \/ Connect(n)
    \/ \E class \in Classes : Login(n, class) \/ ChangeClass(n, class)
    \/ Relog(n)

Spec == Init /\ [][Next]_vars

-----------------------------------------------------------------------------
(* Properties.                                                              *)

TypeOK ==
  /\ status \in [Node -> Status]
  /\ privs \in [Node -> SUBSET Priv]
  /\ channels \in [Channel -> ChannelRecord]
  /\ sent \subseteq Packet
  /\ signalled \subseteq Node
  /\ crashed \in BOOLEAN

\* A banned user is never among the readers of the channel, whichever of the
\* server's many ways of changing flags were taken: banning and joining touch
\* READ and BANNED on different paths of channel_stat_change.
BannedNeverReads ==
  \A c \in Channel, n \in Node :
    "BANNED" \in channels[c].access[n] => "READ" \notin channels[c].access[n]

\* A user is on a channel's list exactly while a flag is set for him: no path
\* leaves an entry without flags behind, or frees one that still has some.
ListedIffEntitled ==
  \A c \in Channel :
    channels[c].users = {n \in Node : channels[c].access[n] # {}}

\* Once a client is gone and its node is free again, no channel lists the
\* node, so the next user of the node inherits nothing.  This rests on
\* take_off_channels never being refused with NOTINVITED.
NoGhosts ==
  \A n \in Node :
    status[n] = "EMPTY" => \A c \in Channel : n \notin channels[c].users

\* What holds of every channel, listed or not: what it takes for the three
\* invariants above to be kept by every request.  No channel is ever locked
\* (see Capital), whatever /CL says (LockedIsLocked in Moderation is violated),
\* and nobody is on a channel that is not in the server's list.
GoodChannel(ch) ==
  /\ ch.users = {n \in Node : ch.access[n] # {}}
  /\ \A n \in Node : "BANNED" \in ch.access[n] => "READ" \notin ch.access[n]
  /\ "ALLJOIN" \in ch.flags
  /\ ~ch.open => ch.users = {}

\* The inductive invariant of the server: every channel is good, and no node
\* without a client is on one.
ServerInvariant ==
  /\ TypeOK
  /\ \A c \in Channel : GoodChannel(channels[c])
  /\ NoGhosts

\* The users on a channel never disagree with what they were told: whenever
\* someone comes to be on a channel or ceases to be, everyone else on it and
\* online gets a JOINCHANNEL or LEAVECHANNEL for it in the same step.
ChangesAnnounced ==
  [][\A c \in Channel : \A n \in Node :
       LET was == n \in Readers(channels[c])
           is  == n \in Readers(channels'[c])
       IN  was # is =>
             PacketsTo({m \in Readers(channels'[c]) \ {n} : Online(m)},
                       IF is THEN "JOINCHANNEL" ELSE "LEAVECHANNEL", c, n)
               \subseteq sent']_vars

\* The channels as Roster sees them.  Lines of links and broadcasts (DDIAL, WALL)
\* are not among the lines heard: the code gives them to others too.
Barred(ch)     == {n \in Node : "BANNED" \in ch.access[n]}
Moderators(ch) == {n \in Node : "MODERATE" \in ch.access[n]}

LineKind == {"MESSAGE", "BINARY", "WALLA"}

Lines(packets) ==
  {[chan |-> p.chan, by |-> p.who, to |-> p.to] :
     p \in {q \in packets : q.kind \in LineKind}}

OnlineNodes == {n \in Node : Online(n)}
Gods    == {n \in Node : testFlag(n, "CHN_ALLMODERATE")}
Founded == {c \in Channel : channels[c].open}
Present == [c \in Channel |-> Readers(channels[c])]
Bars    == [c \in Channel |-> Barred(channels[c])]
Mods    == [c \in Channel |-> Moderators(channels[c])]

Abstract == INSTANCE Roster WITH
  online <- OnlineNodes, gods <- Gods, founded <- Founded, present <- Present,
  barred <- Bars, mods <- Mods, heard <- Lines(sent)

\* The server implements Roster: bars hold, authority is not passed on, and a
\* line is heard by exactly those who are on the channel.  That authority is not
\* passed on is what the code does; /CG says it is (GivenModerates in Moderation
\* is violated).
ImplementsRoster == Abstract!Spec
=============================================================================
