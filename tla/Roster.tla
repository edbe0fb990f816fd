------------------------------- MODULE Roster -------------------------------
(***************************************************************************)
(* What the channel server promises: for every channel who is present, who *)
(* is barred and who moderates, and that a line spoken on a channel is     *)
(* heard by everyone present and by nobody else.  Gods are the users whom  *)
(* no bar holds (CHN_ALLMODERATE).                                         *)
(***************************************************************************)
CONSTANTS Node, Channel

VARIABLES
  online,   \* nodes with a user
  gods,     \* nodes whose user is a channel god
  founded,  \* channels that exist
  present, barred, mods,  \* for each channel a set of nodes
  heard     \* the lines heard in the last step

rosterVars == <<online, gods, founded, present, barred, mods, heard>>

Line == [chan : Channel, by : Node, to : Node]

Init ==
  /\ online = {} /\ gods = {} /\ founded = {} /\ heard = {}
  /\ present = [c \in Channel |-> {}]
  /\ barred = [c \in Channel |-> {}]
  /\ mods = [c \in Channel |-> {}]

\* Somebody on the channel has the authority to change the rights of others.
Authority(c) == mods[c] \ barred[c] # {}

Silence == heard' = {}

\* A bar keeps everyone out but the gods, and the founder of a channel is
\* the only one who comes to moderate it without being a god.  (So the server
\* does; the text of the command /CG promises moderators more.)
Enter(n, c) ==
  /\ n \in online
  /\ n \notin barred[c] \/ n \in gods
  /\ founded' = founded \cup {c}
  /\ present' = [present EXCEPT ![c] = @ \cup {n}]
  /\ barred' = [barred EXCEPT ![c] = @ \ {n}]
  /\ \/ mods' = [mods EXCEPT ![c] = @ \ {n}]
     \/ /\ c \notin founded \/ n \in gods
        /\ mods' = [mods EXCEPT ![c] = @ \cup {n}]
  /\ Silence
  /\ UNCHANGED <<online, gods>>

\* Leaving does not lift a bar either.
Withdraw(n, c) ==
  /\ n \notin barred[c] \/ n \in gods
  /\ present' = [present EXCEPT ![c] = @ \ {n}]
  /\ barred' = [barred EXCEPT ![c] = @ \ {n}]
  /\ mods' = [mods EXCEPT ![c] = @ \ {n}]
  /\ Silence
  /\ UNCHANGED <<online, gods, founded>>

\* A user who goes offline, or says BYE, leaves nothing behind anywhere.
Depart(n) ==
  /\ online' \in {online, online \ {n}}
  /\ gods' \in {gods, gods \ {n}}
  /\ present' = [c \in Channel |-> present[c] \ {n}]
  /\ barred' = [c \in Channel |-> barred[c] \ {n}]
  /\ mods' = [c \in Channel |-> mods[c] \ {n}]
  /\ Silence
  /\ UNCHANGED founded

Bar(n, c) ==
  /\ n \notin gods \/ n \notin present[c] \cup mods[c]
  /\ present' = [present EXCEPT ![c] = @ \ {n}]
  /\ barred' = [barred EXCEPT ![c] = @ \cup {n}]
  /\ UNCHANGED <<online, gods, founded, mods>>

Pardon(n, c) ==
  /\ barred' = [barred EXCEPT ![c] = @ \ {n}]
  /\ UNCHANGED <<online, gods, founded, present, mods>>

Appoint(n, c) ==
  /\ \/ mods' = [mods EXCEPT ![c] = @ \ {n}]
     \/ /\ n \in gods
        /\ mods' = [mods EXCEPT ![c] = @ \cup {n}]
  /\ barred' = [barred EXCEPT ![c] = IF n \in gods THEN @ \ {n} ELSE @]
  /\ UNCHANGED <<online, gods, founded, present>>

Ordered(n, c) ==
  /\ Authority(c)
  /\ n \in online
  /\ Bar(n, c) \/ Pardon(n, c) \/ Appoint(n, c)
  /\ Silence

Hear(n, c, listeners) ==
  heard' = {[chan |-> c, by |-> n, to |-> m] : m \in listeners \cap online}

\* A line reaches everyone present (a binary message spares its sender).  A
\* user who goes on too long is barred with the line that was one too many.
Say(n, c) ==
  /\ n \notin barred[c]
  /\ Hear(n, c, present[c]) \/ Hear(n, c, present[c] \ {n})
  /\ UNCHANGED <<online, gods, founded, present, barred, mods>>

LineOut(n, c) ==
  /\ n \notin barred[c]
  /\ Hear(n, c, present[c])
  /\ n \notin mods[c]
  /\ Bar(n, c) \/ (n \in gods /\ Pardon(n, c))

Other ==
  /\ Silence
  /\ UNCHANGED <<founded, present, barred, mods>>

Next ==
  \/ \E n \in Node, c \in Channel :
       Enter(n, c) \/ Withdraw(n, c) \/ Ordered(n, c) \/ Say(n, c) \/ LineOut(n, c)
  \/ \E n \in Node : Depart(n)
  \/ Other

Spec == Init /\ [][Next]_rosterVars
=============================================================================
