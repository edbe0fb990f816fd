------------------------------ MODULE Squelch ------------------------------
(***************************************************************************)
(* Private messages and squelches (Client/squelch.c, private_message in    *)
(* Client/channelcli.c, Client/login_cli.c, Server/srv_login.c).           *)
(*                                                                         *)
(* A client keeps the numbers of the nodes its user does not want to hear. *)
(* A private message from one of them is answered with another private     *)
(* message.  The server tells every client when a node is freed, so that   *)
(* the next user of the node does not inherit the squelch; but it tells    *)
(* nobody when the user of a node makes room for another (relog).          *)
(* Every client writes to one pipe and reads from another; the server      *)
(* passes private messages on in the order of each pipe, and throws away   *)
(* what it cannot write to a client at once.                               *)
(***************************************************************************)
EXTENDS Naturals, Sequences, FiniteSetsExt

CONSTANTS
  Nodes,      \* how many nodes there are, numbered from 0
  Bound       \* bound of the model: packets in all pipes together

ASSUME SquelchAssumption == Nodes \in Nat \ {0} /\ Bound \in Nat

Node == 0 .. Nodes - 1

VARIABLES
  status,     \* shared memory: status of the node
  deaf,       \* clients in the game connection or linked: they throw away
              \*   every packet that is not for a channel
  squelched,  \* squelched_nodes of each client
  toServer,   \* the private messages in the pipe of each client
  toClient,   \* the packets in the pipe to each client
  aimed,      \* history: the nodes whose present user he has squelched, with
              \*   no LOGOUT of an earlier one to come
  inherited   \* history: squelched nodes whose user has relogged, or whose
              \*   LOGOUT was thrown away by the client or the server

vars == <<status, deaf, squelched, toServer, toClient, aimed, inherited>>
history == <<aimed, inherited>>

Status == {"EMPTY", "CONNECTED", "ACTIVE"}
Private == [from : Node, to : Node]
Packet == [kind : {"PRIVATE", "LOGOUT"}, about : Node]

Online(n) == status[n] = "ACTIVE"

PrivateFrom(n) == [kind |-> "PRIVATE", about |-> n]
Logout(n) == [kind |-> "LOGOUT", about |-> n]

LogoutPending(n, m) == \E i \in DOMAIN toClient[n] : toClient[n][i] = Logout(m)

\* The bound holds for what users and hang-ups start: answers take the place
\* of what they answer.
Room(pipesUp, pipesDown) ==
  MapThenSumSet(LAMBDA n : Len(pipesUp[n]) + Len(pipesDown[n]), Node)
    <= Bound

Send(n, m) == toServer' = [toServer EXCEPT ![n] = Append(@, [from |-> n, to |-> m])]

-----------------------------------------------------------------------------
(* Commands.  Both want a node that is online.                              *)

cmd_send_private_message(n, m) ==
  /\ Online(n) /\ Online(m)
  /\ Send(n, m)
  /\ Room(toServer', toClient)
  /\ UNCHANGED <<status, deaf, squelched, toClient, history>>

add_squelch_node(n, m) ==
  /\ m \notin squelched[n]
  /\ squelched' = [squelched EXCEPT ![n] = @ \cup {m}]
  /\ aimed' = IF LogoutPending(n, m) THEN aimed
              ELSE [aimed EXCEPT ![n] = @ \cup {m}]
  /\ UNCHANGED inherited

Forgotten(n, m) ==
  /\ squelched' = [squelched EXCEPT ![n] = @ \ {m}]
  /\ inherited' = [inherited EXCEPT ![n] = @ \ {m}]

delete_squelch_node(n, m) ==
  /\ m \in squelched[n]
  /\ Forgotten(n, m)
  /\ aimed' = [aimed EXCEPT ![n] = @ \ {m}]

\* /X squelches, and unsquelches whom it finds squelched.
cmd_squelch_node(n, m) ==
  /\ Online(n) /\ Online(m)
  /\ add_squelch_node(n, m) \/ delete_squelch_node(n, m)
  /\ UNCHANGED <<status, deaf, toServer, toClient>>

-----------------------------------------------------------------------------
(* Packets.                                                                 *)

\* Mutant of Squelches: the index of the node found is taken for a Boolean,
\* so -1 is true and the first of the list is not squelched.
SquelchesUnfound(n, m) == m \notin squelched[n]

\* find_num_squelched_node(m) >= 0.
Squelches(n, m) == m \in squelched[n]

\* What is not answered is printed.
private_message(n, m) ==
  /\ \/ Squelches(n, m) /\ Send(n, m)
     \/ ~Squelches(n, m) /\ UNCHANGED toServer
  /\ UNCHANGED <<squelched, history>>

\* A LOGOUT of a node that is not squelched does nothing.
logout_message(n, m) ==
  /\ Forgotten(n, m)
  /\ UNCHANGED <<toServer, aimed>>

Receive(n) ==
  /\ Online(n) /\ n \notin deaf /\ toClient[n] # <<>>
  /\ toClient' = [toClient EXCEPT ![n] = Tail(@)]
  /\ LET p == Head(toClient[n])
     IN  \/ p.kind = "PRIVATE" /\ private_message(n, p.about)
         \/ p.kind = "LOGOUT" /\ logout_message(n, p.about)
  /\ UNCHANGED <<status, deaf>>

Discard(n) ==
  /\ n \in deaf /\ toClient[n] # <<>>
  /\ toClient' = [toClient EXCEPT ![n] = Tail(@)]
  /\ LET p == Head(toClient[n])
     IN  inherited' = IF p.kind = "LOGOUT" /\ p.about \in squelched[n]
                      THEN [inherited EXCEPT ![n] = @ \cup {p.about}]
                      ELSE inherited
  /\ UNCHANGED <<status, deaf, squelched, toServer, aimed>>

\* Mutant of PassedOn: nodes without an active user get messages as well.
PassedOnAnyway(pipes, q) == [pipes EXCEPT ![q.to] = Append(@, PrivateFrom(q.from))]

\* outward_bound: only for a node that is online.  The frame is dropped, or
\* cut and skipped by the client, when the fifo has no room for it: all that
\* is said on channels goes through the same fifo.
PassedOn(pipes, q) ==
  IF Online(q.to) THEN [pipes EXCEPT ![q.to] = Append(@, PrivateFrom(q.from))]
  ELSE pipes

Route(n) ==
  /\ toServer[n] # <<>>
  /\ toServer' = [toServer EXCEPT ![n] = Tail(@)]
  /\ \/ toClient' = PassedOn(toClient, Head(toServer[n]))
     \/ UNCHANGED toClient
  /\ UNCHANGED <<status, deaf, squelched, history>>

-----------------------------------------------------------------------------
(* Nodes.                                                                   *)

\* Mutant of LogoutTold: the loop ends one node early.
LogoutToldEarly(n, full) ==
  [m \in Node |-> IF Online(m) /\ m \notin full /\ m + 1 < Nodes
                  THEN Append(toClient[m], Logout(n)) ELSE toClient[m]]

\* broadcast_login_message("LOGOUT"), to those whose fifo is not full.
LogoutTold(n, full) ==
  [m \in Node |-> IF Online(m) /\ m \notin full
                  THEN Append(toClient[m], Logout(n)) ELSE toClient[m]]

\* /GAMECON and /LINK, and the return from them.
StopListening(n) ==
  /\ Online(n) /\ n \notin deaf
  /\ deaf' = deaf \cup {n}
  /\ UNCHANGED <<status, squelched, toServer, toClient, history>>

ListenAgain(n) ==
  /\ n \in deaf
  /\ deaf' = deaf \ {n}
  /\ UNCHANGED <<status, squelched, toServer, toClient, history>>

NobodyAimsAt(n) == [m \in Node |-> IF m = n THEN {} ELSE aimed[m] \ {n}]

\* The next user of node n inherits the squelches of these.
PassesOn(n, nodes) ==
  inherited' = [m \in Node |->
                  IF m = n THEN {}
                  ELSE IF m \in nodes /\ n \in squelched[m] THEN inherited[m] \cup {n}
                  ELSE inherited[m]]

\* What is in the pipes of the node is lost, and the LOGOUT where it finds the
\* fifo full.
clear_node_data(n) ==
  /\ status[n] # "EMPTY"
  /\ status' = [status EXCEPT ![n] = "EMPTY"]
  /\ deaf' = deaf \ {n}
  /\ \E full \in SUBSET {m \in Node \ {n} : Online(m)} :
       /\ toClient' = [LogoutTold(n, full) EXCEPT ![n] = <<>>]
       /\ PassesOn(n, full)
  /\ toServer' = [toServer EXCEPT ![n] = <<>>]
  /\ Room(toServer', toClient')
  /\ squelched' = [squelched EXCEPT ![n] = {}]
  /\ aimed' = NobodyAimsAt(n)

\* The client executes a new one: its list is gone, its pipes are not.
respawn_self(n) ==
  /\ Online(n)
  /\ status' = [status EXCEPT ![n] = "CONNECTED"]
  /\ deaf' = deaf \ {n}
  /\ squelched' = [squelched EXCEPT ![n] = {}]
  /\ aimed' = NobodyAimsAt(n)
  /\ PassesOn(n, Node)
  /\ UNCHANGED <<toServer, toClient>>

BecomesOnline(n, from, to) ==
  /\ status[n] = from
  /\ status' = [status EXCEPT ![n] = to]
  /\ UNCHANGED <<deaf, squelched, toServer, toClient, history>>

Start(n) == BecomesOnline(n, "EMPTY", "CONNECTED")
LogIn(n) == BecomesOnline(n, "CONNECTED", "ACTIVE")

-----------------------------------------------------------------------------
Init ==
  /\ status = [n \in Node |-> "EMPTY"]
  /\ deaf = {}
  /\ squelched = [n \in Node |-> {}]
  /\ toServer = [n \in Node |-> <<>>]
  /\ toClient = [n \in Node |-> <<>>]
  /\ aimed = [n \in Node |-> {}]
  /\ inherited = [n \in Node |-> {}]

UserActs ==
  \E n \in Node :
    \/ \E m \in Node : cmd_send_private_message(n, m) \/ cmd_squelch_node(n, m)
    \/ StopListening(n) \/ ListenAgain(n)
    \/ Start(n) \/ LogIn(n) \/ respawn_self(n) \/ clear_node_data(n)

Next == UserActs \/ \E n \in Node : Receive(n) \/ Discard(n) \/ Route(n)

\* The server reads every pipe that has something in it, and the loop of a
\* client looks at its pipe after every line from the keyboard.  (A user who
\* is in the middle of a line or in a mail program keeps it from reading: he
\* has not stopped doing something.)
Fairness ==
  \A n \in Node : WF_vars(Receive(n)) /\ WF_vars(Discard(n)) /\ WF_vars(Route(n))

Spec == Init /\ [][Next]_vars /\ Fairness

-----------------------------------------------------------------------------
(* Properties.                                                              *)

\* The types, and no packets wait for a node without a client, whose next
\* client would read them.
TypeOK ==
  /\ status \in [Node -> Status]
  /\ deaf \subseteq {n \in Node : Online(n)}
  /\ squelched \in [Node -> SUBSET Node]
  /\ toServer \in [Node -> Seq(Private)]
  /\ toClient \in [Node -> Seq(Packet)]
  /\ aimed \in [Node -> SUBSET Node]
  /\ inherited \in [Node -> SUBSET Node]
  /\ \A n \in Node :
       status[n] = "EMPTY" => toClient[n] = <<>> /\ toServer[n] = <<>>

\* A squelch holds for the user it was meant for and ends with him: once no
\* LOGOUT of the node is on its way, a node is squelched exactly if its
\* present user was squelched, or the one squelched there has relogged or his
\* LOGOUT was thrown away.
\* (/X given after the next user has logged in but before the LOGOUT of the
\* last one was read is undone by it, or takes back the squelch of the last
\* one: aimed leaves such commands out.)
SquelchesMeant ==
  \A n, m \in Node :
    Online(n) /\ ~LogoutPending(n, m) =>
      (m \in squelched[n] <=> m \in aimed[n] \cup inherited[n])

Quiet ==
  \A n \in Node : toServer[n] = <<>> /\ (Online(n) => toClient[n] = <<>>)

\* Two users who squelch each other, or one who squelches himself: what one
\* private message starts between them never ends.
Mutual == \E n, m \in Node : m \in squelched[n] /\ n \in squelched[m]

\* The answers to private messages are private messages, and come to an end
\* all the same: when no user does anything any more, the pipes become empty
\* for good, unless two users squelch each other.
AnswersEnd == <>[][~UserActs]_vars => <>[](Quiet \/ Mutual)
=============================================================================
