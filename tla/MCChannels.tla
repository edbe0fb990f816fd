----------------------------- MODULE MCChannels -----------------------------
(* Two users on one channel with the lines in a row counted, three users on *)
(* one channel, and two users on two channels.                              *)
EXTENDS Monologue, TLC

CONSTANTS main, side

MCChannel == {main, side}

\* A user who may open and moderate channels, one who may open them, and a
\* channel god who may not open any.
Founder == {"CHN_ADDCHANNEL", "CHN_MODERATE"}
Talker  == {"CHN_ADDCHANNEL"}
God     == {"CHN_ALLMODERATE"}

MCClasses == {Founder, Talker, God}

UsersOf(classes) == \A n \in Node : privs[n] \in {{}} \cup classes

\* The third node has never been used.
TwoOnly ==
  \E n \in Node :
    /\ status[n] = "EMPTY" /\ privs[n] = {}
    /\ \A c \in Channel : n \notin channels[c].users

AtMostOne(nodes) == Cardinality(nodes) <= 1

\* One god, one user at a time that logs in anew, and one invited.
TwoUsers ==
  /\ TwoOnly /\ ~channels[side].open /\ UsersOf({Founder, God})
  /\ AtMostOne({n \in Node : testFlag(n, "CHN_ALLMODERATE")})
  /\ AtMostOne({n \in Node : status[n] = "RELOGGED"})
  /\ AtMostOne({n \in Node : "INVITED" \in channels[main].access[n]})

Unlimited(c) == channels[c].max = DefaultMaxLineout

\* One class for all: whoever comes first moderates; nobody logs in anew.
ThreeUsers ==
  /\ ~channels[side].open /\ Unlimited(main) /\ UsersOf({Founder})
  /\ \A n \in Node : status[n] # "RELOGGED"
  /\ \A n \in Node : channels[main].lineout[n] = 0

\* Users who open channels and moderate none: only the lineout bans.
TwoChannels ==
  /\ TwoOnly /\ UsersOf({Talker})
  /\ \A c \in Channel :
       /\ Unlimited(c)
       /\ channels[c].flags = NewChannel.flags
       /\ \A n \in Node : {"MODERATE", "INVITED"} \cap channels[c].access[n] = {}

Scenarios == TwoUsers \/ ThreeUsers \/ TwoChannels

\* No action reads sent or signalled, and the properties of them are of steps.
WithoutSent == <<status, privs, channels, crashed, monologue>>

NodeSymmetry == Permutations(Node)
=============================================================================
