---------------------------- MODULE LookupProofs ----------------------------
(***************************************************************************)
(* What is looked up is what was meant: a squelch ends with the user it    *)
(* was meant for, every token in place in a table of tokens is found, and  *)
(* a list is searched by its indexes as a table would be.                  *)
(*                                                                         *)
(* Squelches: for any number of nodes and any traffic the types hold, a    *)
(* node whose LOGOUT is not on its way is squelched exactly if its present *)
(* user was, or the record says that it was inherited.  The argument is    *)
(* about what a LOGOUT on its way may still undo.                          *)
(*                                                                         *)
(* Lists: for any records, keys and comparison functions, every index has  *)
(* every record once and in its order.  Searching and sorting are          *)
(* functions defined from themselves: they exist because every call is of  *)
(* a shorter range, and what they return is shown by the same measure.     *)
(***************************************************************************)
EXTENDS Squelch, IndexedList, TokenSearch,
        FiniteSetTheorems, SequenceTheorems, WellFoundedInduction, TLAPS

\* Nobody has aimed at the user of a node while the LOGOUT of the one before
\* him is on its way: what is read next clears the squelch.
LogoutClears ==
  \A n, m \in Node : LogoutPending(n, m) => m \notin aimed[n]

\* What was inherited is still squelched.
InheritedKept == \A n \in Node : inherited[n] \subseteq squelched[n]

\* A list belongs to a user who is online: the next one starts without.
ListsOnline ==
  \A n \in Node :
    ~Online(n) => squelched[n] = {} /\ aimed[n] = {} /\ inherited[n] = {}

\* SquelchesMeant alone is not inductive: a LOGOUT that is read may leave
\* nothing of it to be aimed, and one thrown away must find what it leaves.
IInv == TypeOK /\ SquelchesMeant /\ LogoutClears /\ InheritedKept /\ ListsOnline
-----------------------------------------------------------------------------
(* Pipes.                                                                  *)

\* A LOGOUT of m is in a pipe.
Carries(pipe, m) == \E i \in DOMAIN pipe : pipe[i] = Logout(m)

LEMMA PacketsTyped ==
  ASSUME NEW n \in Node
  PROVE  /\ PrivateFrom(n) \in Packet /\ Logout(n) \in Packet
         /\ \A m \in Node : Logout(m) = Logout(n) => m = n
         /\ \A m : PrivateFrom(m) # Logout(n)
BY DEF PrivateFrom, Logout, Packet

LEMMA EmptyCarries ==
  ASSUME NEW m PROVE ~Carries(<< >>, m)
BY DEF Carries

LEMMA AppendCarries ==
  ASSUME NEW s \in Seq(Packet), NEW p \in Packet, NEW m \in Node
  PROVE  /\ Append(s, p) \in Seq(Packet)
         /\ Carries(Append(s, p), m) <=> Carries(s, m) \/ p = Logout(m)
<1>1. Append(s, p) \in Seq(Packet)
  OBVIOUS
<1>2. ASSUME Carries(s, m) \/ p = Logout(m) PROVE Carries(Append(s, p), m)
  <2>1. CASE p = Logout(m)
    <3>1. Len(s) + 1 \in DOMAIN Append(s, p) /\ Append(s, p)[Len(s) + 1] = p
      OBVIOUS
    <3> QED
      BY <2>1, <3>1 DEF Carries
  <2>2. CASE Carries(s, m)
    <3>1. PICK i \in DOMAIN s : s[i] = Logout(m)
      BY <2>2 DEF Carries
    <3>2. i \in DOMAIN Append(s, p) /\ Append(s, p)[i] = s[i]
      BY <3>1
    <3> QED
      BY <3>1, <3>2 DEF Carries
  <2> QED
    BY <1>2, <2>1, <2>2
<1>3. ASSUME Carries(Append(s, p), m) PROVE Carries(s, m) \/ p = Logout(m)
  <2>1. PICK i \in DOMAIN Append(s, p) : Append(s, p)[i] = Logout(m)
    BY <1>3 DEF Carries
  <2>2. CASE i = Len(s) + 1
    BY <2>1, <2>2
  <2>3. CASE i # Len(s) + 1
    <3>1. i \in DOMAIN s /\ Append(s, p)[i] = s[i]
      BY <2>1, <2>3
    <3> QED
      BY <2>1, <3>1 DEF Carries
  <2> QED
    BY <2>2, <2>3
<1> QED
  BY <1>1, <1>2, <1>3

LEMMA TailCarries ==
  ASSUME NEW s \in Seq(Packet), s # << >>, NEW m \in Node
  PROVE  /\ Tail(s) \in Seq(Packet) /\ Head(s) \in Packet
         /\ Carries(s, m) <=> Carries(Tail(s), m) \/ Head(s) = Logout(m)
<1>1. /\ Tail(s) \in Seq(Packet) /\ Head(s) \in Packet
      /\ Head(s) = s[1] /\ 1 \in DOMAIN s
  OBVIOUS
<1>2. ASSUME Carries(Tail(s), m) PROVE Carries(s, m)
  <2>1. PICK i \in DOMAIN Tail(s) : Tail(s)[i] = Logout(m)
    BY <1>2 DEF Carries
  <2>2. i + 1 \in DOMAIN s /\ s[i + 1] = Tail(s)[i]
    BY <2>1
  <2> QED
    BY <2>1, <2>2 DEF Carries
<1>3. ASSUME Head(s) = Logout(m) PROVE Carries(s, m)
  BY <1>1, <1>3 DEF Carries
<1>4. ASSUME Carries(s, m), Head(s) # Logout(m) PROVE Carries(Tail(s), m)
  <2>1. PICK i \in DOMAIN s : s[i] = Logout(m)
    BY <1>4 DEF Carries
  <2>2. i - 1 \in DOMAIN Tail(s) /\ Tail(s)[i - 1] = s[i]
    <3>1. i # 1
      BY <1>1, <1>4, <2>1
    <3> QED
      BY <2>1, <3>1
  <2> QED
    BY <2>1, <2>2 DEF Carries
<1> QED
  BY <1>1, <1>2, <1>3, <1>4
-----------------------------------------------------------------------------
(* The steps.                                                              *)

\* LogoutPending is about the pipe of a node only.
LEMMA PendingIsCarried ==
  /\ \A n, m \in Node : LogoutPending(n, m) <=> Carries(toClient[n], m)
  /\ \A n, m \in Node : LogoutPending(n, m)' <=> Carries(toClient'[n], m)
BY DEF LogoutPending, Carries, Logout

LEMMA InitTyped == Init => IInv
<1> SUFFICES ASSUME Init PROVE IInv
  OBVIOUS
<1>1. TypeOK
  BY DEF Init, TypeOK, Status, Online
<1>2. \A n, m \in Node : ~LogoutPending(n, m)
  BY EmptyCarries, PendingIsCarried DEF Init
<1>3. SquelchesMeant /\ LogoutClears /\ InheritedKept /\ ListsOnline
  BY <1>2 DEF Init, SquelchesMeant, LogoutClears, InheritedKept, ListsOnline
<1> QED
  BY <1>1, <1>3 DEF IInv

\* Steps that leave the lists and what is on its way to the clients alone,
\* and let no user go offline, keep all that is said of the lists.
LEMMA ListsUntouched ==
  ASSUME IInv, UNCHANGED <<squelched, history>>,
         \A n \in Node : Online(n) => Online(n)',
         \A n, m \in Node : Carries(toClient'[n], m) <=> Carries(toClient[n], m)
  PROVE  SquelchesMeant' /\ LogoutClears' /\ InheritedKept' /\ ListsOnline'
<1> USE PendingIsCarried DEF IInv, history
<1>1. InheritedKept' /\ ListsOnline'
  BY DEF InheritedKept, ListsOnline
<1>2. LogoutClears'
  BY DEF LogoutClears
<1>3. SquelchesMeant'
  <2> SUFFICES ASSUME NEW n \in Node, NEW m \in Node, ~Carries(toClient[n], m)
               PROVE  m \in squelched[n] <=> m \in aimed[n] \cup inherited[n]
    BY DEF SquelchesMeant
  <2>1. CASE Online(n)
    BY <2>1 DEF SquelchesMeant
  <2>2. CASE ~Online(n)
    BY <2>2 DEF ListsOnline
  <2> QED
    BY <2>1, <2>2
<1> QED
  BY <1>1, <1>2, <1>3

LEMMA SendTyped ==
  ASSUME IInv, NEW n \in Node, NEW m \in Node, Send(n, m)
  PROVE  /\ toServer' \in [Node -> Seq(Private)]
         /\ \A k \in Node : k # n => toServer'[k] = toServer[k]
<1>1. [from |-> n, to |-> m] \in Private
  BY DEF Private
<1>2. Append(toServer[n], [from |-> n, to |-> m]) \in Seq(Private)
  BY <1>1 DEF IInv, TypeOK
<1> QED
  BY <1>2 DEF Send, IInv, TypeOK

LEMMA SendKeeps ==
  ASSUME IInv, NEW n \in Node, NEW m \in Node, cmd_send_private_message(n, m)
  PROVE  IInv'
<1> USE DEF cmd_send_private_message, Online, history
<1>1. TypeOK'
  BY SendTyped DEF IInv, TypeOK
<1>2. SquelchesMeant' /\ LogoutClears' /\ InheritedKept' /\ ListsOnline'
  BY ListsUntouched
<1> QED
  BY <1>1, <1>2 DEF IInv

LEMMA SquelchKeeps ==
  ASSUME IInv, NEW n \in Node, NEW m \in Node, cmd_squelch_node(n, m)
  PROVE  IInv'
<1> USE PendingIsCarried DEF cmd_squelch_node, Online
<1>1. /\ squelched' \in [Node -> SUBSET Node] /\ aimed' \in [Node -> SUBSET Node]
      /\ inherited' \in [Node -> SUBSET Node]
  <2>1. \A l \in {aimed, squelched, inherited} :
          /\ l \in [Node -> SUBSET Node]
          /\ [l EXCEPT ![n] = @ \cup {m}] \in [Node -> SUBSET Node]
          /\ [l EXCEPT ![n] = @ \ {m}] \in [Node -> SUBSET Node]
    BY DEF IInv, TypeOK
  <2> QED
    BY <2>1 DEF add_squelch_node, delete_squelch_node, Forgotten
<1>2. TypeOK'
  BY <1>1 DEF IInv, TypeOK
<1>3. CASE add_squelch_node(n, m)
  <2> USE <1>3 DEF add_squelch_node
  <2>1. LogoutClears'
    BY DEF IInv, TypeOK, LogoutClears
  <2>2. InheritedKept'
    BY DEF IInv, TypeOK, InheritedKept
  <2>3. ListsOnline'
    BY DEF IInv, TypeOK, ListsOnline
  <2>4. SquelchesMeant'
    BY DEF IInv, TypeOK, SquelchesMeant
  <2> QED
    BY <1>2, <2>1, <2>2, <2>3, <2>4 DEF IInv
<1>4. CASE delete_squelch_node(n, m)
  <2> USE <1>4 DEF delete_squelch_node, Forgotten
  <2>1. LogoutClears'
    BY DEF IInv, TypeOK, LogoutClears
  <2>2. InheritedKept'
    BY DEF IInv, TypeOK, InheritedKept
  <2>3. ListsOnline'
    BY DEF IInv, TypeOK, ListsOnline
  <2>4. SquelchesMeant'
    BY DEF IInv, TypeOK, SquelchesMeant
  <2> QED
    BY <1>2, <2>1, <2>2, <2>3, <2>4 DEF IInv
<1> QED
  BY <1>3, <1>4

\* One packet is read: the rest of the pipe is what is still on its way.
LEMMA Taken ==
  ASSUME IInv, NEW n \in Node, toClient[n] # << >>,
         toClient' = [toClient EXCEPT ![n] = Tail(@)]
  PROVE  /\ toClient' \in [Node -> Seq(Packet)]
         /\ Head(toClient[n]) \in Packet
         /\ \A k \in Node \ {n} : toClient'[k] = toClient[k]
         /\ \A m \in Node :
              Carries(toClient[n], m)
                <=> Carries(toClient'[n], m) \/ Head(toClient[n]) = Logout(m)
<1>1. toClient[n] \in Seq(Packet) /\ toClient \in [Node -> Seq(Packet)]
  BY DEF IInv, TypeOK
<1>2. /\ Tail(toClient[n]) \in Seq(Packet) /\ Head(toClient[n]) \in Packet
      /\ \A m \in Node :
           Carries(toClient[n], m)
             <=> Carries(Tail(toClient[n]), m) \/ Head(toClient[n]) = Logout(m)
  BY <1>1, TailCarries
<1> QED
  BY <1>1, <1>2

LEMMA PrivateReadKeeps ==
  ASSUME IInv, NEW n \in Node, Receive(n), NEW m \in Node,
         Head(toClient[n]) = PrivateFrom(m), private_message(n, m)
  PROVE  IInv'
<1> USE DEF Receive, private_message, Online, history
<1>1. /\ toServer' \in [Node -> Seq(Private)]
      /\ \A k \in Node : k # n => toServer'[k] = toServer[k]
  BY SendTyped DEF IInv, TypeOK
<1>2. TypeOK'
  BY <1>1, Taken DEF IInv, TypeOK
<1>3. \A k, l \in Node : Carries(toClient'[k], l) <=> Carries(toClient[k], l)
  BY Taken, PacketsTyped
<1>4. SquelchesMeant' /\ LogoutClears' /\ InheritedKept' /\ ListsOnline'
  BY <1>3, ListsUntouched
<1> QED
  BY <1>2, <1>4 DEF IInv

LEMMA LogoutReadKeeps ==
  ASSUME IInv, NEW n \in Node, Receive(n), NEW m \in Node,
         Head(toClient[n]) = Logout(m), logout_message(n, m)
  PROVE  IInv'
<1> USE PendingIsCarried, PacketsTyped, Taken
    DEF Receive, logout_message, Forgotten, Online
<1>1. /\ squelched' \in [Node -> SUBSET Node] /\ inherited' \in [Node -> SUBSET Node]
      /\ \A k \in Node : squelched'[k] = IF k = n THEN squelched[n] \ {m} ELSE squelched[k]
      /\ \A k \in Node : inherited'[k] = IF k = n THEN inherited[n] \ {m} ELSE inherited[k]
  BY DEF IInv, TypeOK
<1>2. TypeOK'
  BY <1>1 DEF IInv, TypeOK
<1>3. m \notin aimed[n]
  BY DEF IInv, LogoutClears
<1>4. LogoutClears' /\ InheritedKept' /\ ListsOnline'
  <2>1. LogoutClears'
    BY DEF IInv, LogoutClears
  <2>2. InheritedKept'
    BY <1>1 DEF IInv, InheritedKept
  <2>3. ListsOnline'
    BY <1>1 DEF IInv, ListsOnline
  <2> QED
    BY <2>1, <2>2, <2>3
<1>5. SquelchesMeant'
  <2> SUFFICES ASSUME NEW k \in Node, NEW l \in Node, Online(k), ~Carries(toClient'[k], l)
               PROVE  (l \in squelched[k] <=> l \in aimed[k] \cup inherited[k])'
    BY DEF SquelchesMeant
  <2>1. CASE k # n
    BY <2>1, <1>1 DEF IInv, SquelchesMeant
  <2>2. CASE k = n /\ l = m
    BY <2>2, <1>1, <1>3, SMTT(30)
  <2>3. CASE k = n /\ l # m
    <3>1. ~Carries(toClient[n], l)
      BY <2>3
    <3>2. l \in squelched[n] <=> l \in aimed[n] \cup inherited[n]
      BY <2>3, <3>1 DEF IInv, SquelchesMeant
    <3> QED
      BY <2>3, <3>2, <1>1
  <2> QED
    BY <2>1, <2>2, <2>3
<1> QED
  BY <1>2, <1>4, <1>5 DEF IInv

LEMMA ReceiveKeeps ==
  ASSUME IInv, NEW n \in Node, Receive(n)
  PROVE  IInv'
<1> DEFINE p == Head(toClient[n])
<1>1. p \in Packet
  BY Taken DEF Receive
<1>2. p.about \in Node
  BY <1>1 DEF Packet
<1>3. CASE p.kind = "PRIVATE" /\ private_message(n, p.about)
  <2>1. p = PrivateFrom(p.about)
    BY <1>1, <1>3 DEF Packet, PrivateFrom
  <2> QED
    BY <1>2, <1>3, <2>1, PrivateReadKeeps
<1>4. CASE p.kind = "LOGOUT" /\ logout_message(n, p.about)
  <2>1. p = Logout(p.about)
    BY <1>1, <1>4 DEF Packet, Logout
  <2> QED
    BY <1>2, <1>4, <2>1, LogoutReadKeeps
<1> QED
  BY <1>3, <1>4 DEF Receive

LEMMA DiscardKeeps ==
  ASSUME IInv, NEW n \in Node, Discard(n)
  PROVE  IInv'
<1> USE PendingIsCarried, PacketsTyped, Taken DEF Discard, Online
<1> DEFINE p == Head(toClient[n])
<1>1. p \in Packet /\ p.about \in Node
  BY DEF Packet
<1>2. inherited' \in [Node -> SUBSET Node]
  BY <1>1 DEF IInv, TypeOK
<1>3. TypeOK'
  BY <1>2 DEF IInv, TypeOK
<1>4. \A k \in Node : inherited[k] \subseteq inherited'[k]
  BY DEF IInv, TypeOK
<1>5. \A k, l \in Node :
        l \in inherited'[k] \ inherited[k] => k = n /\ l \in squelched[n] /\ p = Logout(l)
  <2>1. CASE p.kind = "LOGOUT" /\ p.about \in squelched[n]
    <3>1. p = Logout(p.about)
      BY <1>1, <2>1 DEF Packet, Logout
    <3>2. inherited' = [inherited EXCEPT ![n] = @ \cup {p.about}]
      BY <2>1
    <3> QED
      BY <2>1, <3>1, <3>2 DEF IInv, TypeOK
  <2>2. CASE ~(p.kind = "LOGOUT" /\ p.about \in squelched[n])
    BY <2>2
  <2> QED
    BY <2>1, <2>2
<1>6. \A l \in squelched[n] : p = Logout(l) => l \in inherited'[n]
  BY <1>1 DEF IInv, TypeOK, Logout
<1>7. LogoutClears'
  BY DEF IInv, LogoutClears
<1>8. InheritedKept'
  BY <1>2, <1>5 DEF IInv, TypeOK, InheritedKept
<1>9. ListsOnline'
  BY <1>2, <1>5 DEF IInv, TypeOK, ListsOnline
<1>10. SquelchesMeant'
  <2> SUFFICES ASSUME NEW k \in Node, NEW l \in Node, Online(k), ~Carries(toClient'[k], l)
               PROVE  (l \in squelched[k] <=> l \in aimed[k] \cup inherited[k])'
    BY DEF SquelchesMeant
  <2>1. CASE Carries(toClient[k], l)
    <3>1. k = n /\ p = Logout(l)
      BY <2>1
    <3>2. l \notin aimed[n]
      BY <2>1, <3>1 DEF IInv, LogoutClears
    <3> QED
      BY <3>1, <3>2, <1>6, <1>8 DEF InheritedKept
  <2>2. CASE ~Carries(toClient[k], l)
    <3>1. l \in squelched[k] <=> l \in aimed[k] \cup inherited[k]
      BY <2>2 DEF IInv, SquelchesMeant
    <3> QED
      BY <3>1, <1>4, <1>5
  <2> QED
    BY <2>1, <2>2
<1> QED
  BY <1>3, <1>7, <1>8, <1>9, <1>10 DEF IInv
LEMMA RouteKeeps ==
  ASSUME IInv, NEW n \in Node, Route(n)
  PROVE  IInv'
<1> USE DEF Route, Online, history
<1> DEFINE q == Head(toServer[n])
<1>1. /\ Tail(toServer[n]) \in Seq(Private)
      /\ q \in Private /\ q.from \in Node /\ q.to \in Node
  <2>1. toServer[n] \in Seq(Private)
    BY DEF IInv, TypeOK
  <2>2. q \in Private /\ Tail(toServer[n]) \in Seq(Private)
    BY <2>1
  <2> QED
    BY <2>2 DEF Private
<1>2. /\ toClient' \in [Node -> Seq(Packet)]
      /\ \A k \in Node : status[k] = "EMPTY" => toClient'[k] = toClient[k]
      /\ \A k, l \in Node : Carries(toClient'[k], l) <=> Carries(toClient[k], l)
  <2>1. CASE Online(q.to) /\ toClient' = PassedOn(toClient, q)
    <3>1. toClient' = [toClient EXCEPT ![q.to] = Append(@, PrivateFrom(q.from))]
      BY <2>1 DEF PassedOn
    <3>2. /\ toClient[q.to] \in Seq(Packet) /\ toClient \in [Node -> Seq(Packet)]
          /\ PrivateFrom(q.from) \in Packet
          /\ \A l \in Node : PrivateFrom(q.from) # Logout(l)
      BY <1>1, PacketsTyped DEF IInv, TypeOK
    <3>3. /\ Append(toClient[q.to], PrivateFrom(q.from)) \in Seq(Packet)
          /\ \A l \in Node : Carries(Append(toClient[q.to], PrivateFrom(q.from)), l)
                              <=> Carries(toClient[q.to], l)
      BY <3>2, AppendCarries
    <3> QED
      BY <1>1, <2>1, <3>1, <3>2, <3>3
  <2>2. CASE ~Online(q.to) /\ toClient' = PassedOn(toClient, q)
    BY <2>2 DEF PassedOn, IInv, TypeOK
  <2>3. CASE UNCHANGED toClient
    BY <2>3 DEF IInv, TypeOK
  <2>4. toClient' = PassedOn(toClient, q) \/ UNCHANGED toClient
    OBVIOUS
  <2> QED
    BY <2>1, <2>2, <2>3, <2>4
<1>3. TypeOK'
  BY <1>1, <1>2 DEF IInv, TypeOK
<1>4. SquelchesMeant' /\ LogoutClears' /\ InheritedKept' /\ ListsOnline'
  BY <1>2, ListsUntouched
<1> QED
  BY <1>3, <1>4 DEF IInv

LEMMA ListenKeeps ==
  ASSUME IInv, NEW n \in Node, StopListening(n) \/ ListenAgain(n)
  PROVE  IInv'
<1> USE DEF StopListening, ListenAgain, Online, history
<1>1. TypeOK'
  BY DEF IInv, TypeOK
<1>2. SquelchesMeant' /\ LogoutClears' /\ InheritedKept' /\ ListsOnline'
  BY ListsUntouched
<1> QED
  BY <1>1, <1>2 DEF IInv

LEMMA OnlineKeeps ==
  ASSUME IInv, NEW n \in Node, Start(n) \/ LogIn(n)
  PROVE  IInv'
<1> USE DEF Start, LogIn, BecomesOnline, Online, history
<1>1. /\ status' \in [Node -> Status]
      /\ \A k \in Node : /\ status'[k] = "EMPTY" => status[k] = "EMPTY"
                         /\ status[k] = "ACTIVE" => status'[k] = "ACTIVE"
  BY DEF IInv, TypeOK, Status
<1>2. TypeOK'
  BY <1>1 DEF IInv, TypeOK
<1>3. SquelchesMeant' /\ LogoutClears' /\ InheritedKept' /\ ListsOnline'
  BY <1>1, ListsUntouched
<1> QED
  BY <1>2, <1>3 DEF IInv

\* What both ways of losing a user do to the lists.
LEMMA NobodyAims ==
  ASSUME IInv, NEW n \in Node
  PROVE  /\ NobodyAimsAt(n) \in [Node -> SUBSET Node]
         /\ NobodyAimsAt(n)[n] = {}
         /\ \A m \in Node \ {n} : NobodyAimsAt(n)[m] = aimed[m] \ {n}
BY DEF IInv, TypeOK, NobodyAimsAt

LEMMA Inheriting ==
  ASSUME IInv, NEW n \in Node, NEW nodes, PassesOn(n, nodes)
  PROVE  /\ inherited' \in [Node -> SUBSET Node] /\ inherited'[n] = {}
         /\ \A k \in Node \ {n} :
              inherited'[k] = inherited[k] \cup
                                (IF k \in nodes /\ n \in squelched[k] THEN {n} ELSE {})
BY DEF PassesOn, IInv, TypeOK

LEMMA RespawnKeeps ==
  ASSUME IInv, NEW n \in Node, respawn_self(n)
  PROVE  IInv'
<1> USE PendingIsCarried DEF respawn_self, Online
<1>1. /\ status' \in [Node -> Status] /\ status'[n] = "CONNECTED"
      /\ \A k \in Node \ {n} : status'[k] = status[k]
  BY DEF IInv, TypeOK, Status
<1>2. /\ squelched' \in [Node -> SUBSET Node] /\ squelched'[n] = {}
      /\ \A k \in Node \ {n} : squelched'[k] = squelched[k]
  BY DEF IInv, TypeOK
<1>3. /\ aimed' \in [Node -> SUBSET Node] /\ aimed'[n] = {}
      /\ \A k \in Node \ {n} : aimed'[k] = aimed[k] \ {n}
  BY NobodyAims
<1>4. /\ inherited' \in [Node -> SUBSET Node] /\ inherited'[n] = {}
      /\ \A k \in Node \ {n} :
           inherited'[k] = inherited[k] \cup (IF n \in squelched[k] THEN {n} ELSE {})
  BY Inheriting
<1>5. TypeOK'
  <2>1. deaf' \subseteq {k \in Node : Online(k)}'
    BY <1>1 DEF IInv, TypeOK
  <2>2. \A k \in Node : status'[k] = "EMPTY" => toClient'[k] = << >> /\ toServer'[k] = << >>
    BY <1>1 DEF IInv, TypeOK
  <2> QED
    BY <1>1, <1>2, <1>3, <1>4, <2>1, <2>2 DEF IInv, TypeOK
<1>6. LogoutClears'
  BY <1>3 DEF IInv, LogoutClears
<1>7. InheritedKept'
  BY <1>2, <1>4 DEF IInv, InheritedKept
<1>8. ListsOnline'
  BY <1>1, <1>2, <1>3, <1>4 DEF IInv, ListsOnline, InheritedKept
<1>9. SquelchesMeant'
  <2> SUFFICES ASSUME NEW k \in Node, NEW l \in Node, Online(k)', ~Carries(toClient[k], l)
               PROVE  (l \in squelched[k] <=> l \in aimed[k] \cup inherited[k])'
    BY DEF SquelchesMeant
  <2>1. k # n /\ Online(k)
    BY <1>1
  <2>2. l \in squelched[k] <=> l \in aimed[k] \cup inherited[k]
    BY <2>1 DEF IInv, SquelchesMeant
  <2> QED
    BY <1>2, <1>3, <1>4, <2>1, <2>2 DEF IInv, InheritedKept
<1> QED
  BY <1>5, <1>6, <1>7, <1>8, <1>9 DEF IInv

\* broadcast_login_message: who is online has the LOGOUT in his pipe, and
\* nothing else changes.
LEMMA Told ==
  ASSUME IInv, NEW n \in Node, NEW full
  PROVE  /\ LogoutTold(n, full) \in [Node -> Seq(Packet)]
         /\ \A m \in Node : ~Online(m) => LogoutTold(n, full)[m] = toClient[m]
         /\ \A m, l \in Node : Carries(LogoutTold(n, full)[m], l)
                               <=> Carries(toClient[m], l) \/ (Online(m) /\ m \notin full /\ l = n)
<1>1. Logout(n) \in Packet /\ \A l \in Node : Logout(l) = Logout(n) <=> l = n
  BY PacketsTyped
<1>2. ASSUME NEW m \in Node
      PROVE  /\ Append(toClient[m], Logout(n)) \in Seq(Packet) /\ toClient[m] \in Seq(Packet)
             /\ \A l \in Node : Carries(Append(toClient[m], Logout(n)), l)
                                 <=> Carries(toClient[m], l) \/ l = n
  <2>1. toClient[m] \in Seq(Packet)
    BY DEF IInv, TypeOK
  <2> QED
    BY <1>1, <2>1, AppendCarries
<1> QED
  BY <1>2 DEF LogoutTold

LEMMA ClearKeeps ==
  ASSUME IInv, NEW n \in Node, clear_node_data(n)
  PROVE  IInv'
<1> USE PendingIsCarried DEF clear_node_data, Online
<1>0. PICK full \in SUBSET {m \in Node \ {n} : Online(m)} :
        /\ toClient' = [LogoutTold(n, full) EXCEPT ![n] = << >>]
        /\ PassesOn(n, full)
  OBVIOUS
<1>1. /\ status' \in [Node -> Status] /\ status'[n] = "EMPTY"
      /\ \A k \in Node \ {n} : status'[k] = status[k]
  BY DEF IInv, TypeOK, Status
<1>2. /\ squelched' \in [Node -> SUBSET Node] /\ squelched'[n] = {}
      /\ \A k \in Node \ {n} : squelched'[k] = squelched[k]
  BY DEF IInv, TypeOK
<1>3. /\ aimed' \in [Node -> SUBSET Node] /\ aimed'[n] = {}
      /\ \A k \in Node \ {n} : aimed'[k] = aimed[k] \ {n}
  BY NobodyAims
<1>4. /\ inherited' \in [Node -> SUBSET Node] /\ inherited'[n] = {}
      /\ \A k \in Node \ {n} :
           inherited'[k] = inherited[k] \cup
                             (IF k \in full /\ n \in squelched[k] THEN {n} ELSE {})
  BY <1>0, Inheriting
<1>5. /\ toServer' \in [Node -> Seq(Private)] /\ toServer'[n] = << >>
      /\ \A k \in Node \ {n} : toServer'[k] = toServer[k]
  BY DEF IInv, TypeOK
<1>6. /\ toClient' \in [Node -> Seq(Packet)] /\ toClient'[n] = << >>
      /\ \A k \in Node \ {n} : ~Online(k) => toClient'[k] = toClient[k]
      /\ \A k \in Node \ {n} : \A l \in Node :
           Carries(toClient'[k], l)
             <=> Carries(toClient[k], l) \/ (Online(k) /\ k \notin full /\ l = n)
  <2>1. toClient' = [LogoutTold(n, full) EXCEPT ![n] = << >>]
    BY <1>0
  <2>2. /\ LogoutTold(n, full) \in [Node -> Seq(Packet)]
        /\ \A m \in Node : ~(status[m] = "ACTIVE") => LogoutTold(n, full)[m] = toClient[m]
        /\ \A m, l \in Node : Carries(LogoutTold(n, full)[m], l)
                              <=> Carries(toClient[m], l) \/ (status[m] = "ACTIVE" /\ m \notin full /\ l = n)
    BY Told
  <2>3. << >> \in Seq(Packet)
    OBVIOUS
  <2> QED
    BY ONLY <2>1, <2>2, <2>3, n \in Node DEF Online
<1>7. TypeOK'
  <2>1. deaf' \subseteq {k \in Node : Online(k)}'
    BY <1>1 DEF IInv, TypeOK
  <2>2. \A k \in Node : status'[k] = "EMPTY" => toClient'[k] = << >> /\ toServer'[k] = << >>
    BY <1>1, <1>5, <1>6 DEF IInv, TypeOK
  <2> QED
    BY <1>1, <1>2, <1>3, <1>4, <1>5, <1>6, <2>1, <2>2 DEF TypeOK
<1>8. LogoutClears'
  BY <1>3, <1>6 DEF IInv, LogoutClears
<1>9. InheritedKept'
  BY <1>2, <1>4 DEF IInv, InheritedKept
<1>10. ListsOnline'
  <2> SUFFICES ASSUME NEW k \in Node, ~Online(k)'
               PROVE  squelched'[k] = {} /\ aimed'[k] = {} /\ inherited'[k] = {}
    BY DEF ListsOnline
  <2>1. CASE k = n
    BY <1>2, <1>3, <1>4, <2>1
  <2>2. CASE k # n
    <3>1. squelched[k] = {} /\ aimed[k] = {} /\ inherited[k] = {}
      BY <1>1, <2>2 DEF IInv, ListsOnline
    <3> QED
      BY <1>2, <1>3, <1>4, <2>2, <3>1
  <2> QED
    BY <2>1, <2>2
<1>11. SquelchesMeant'
  <2> SUFFICES ASSUME NEW k \in Node, NEW l \in Node, Online(k)', ~Carries(toClient'[k], l)
               PROVE  (l \in squelched[k] <=> l \in aimed[k] \cup inherited[k])'
    BY DEF SquelchesMeant
  <2>1. k # n /\ Online(k) /\ ~Carries(toClient[k], l)
    BY <1>1, <1>6
  <2>2. l \in squelched[k] <=> l \in aimed[k] \cup inherited[k]
    BY <2>1 DEF IInv, SquelchesMeant
  <2>3. l = n => k \in full
    BY <1>6, <2>1
  <2>4. CASE l # n
    BY <1>2, <1>3, <1>4, <2>1, <2>2, <2>4
  <2>5. CASE l = n
    <3>1. inherited[k] \subseteq squelched[k]
      BY DEF IInv, InheritedKept
    <3>2. l \in aimed'[k] \cup inherited'[k] <=> l \in inherited[k] \/ l \in squelched[k]
      BY <1>3, <1>4, <2>1, <2>3, <2>5
    <3> QED
      BY <1>2, <2>1, <3>1, <3>2
  <2> QED
    BY <2>4, <2>5
<1> QED
  BY <1>7, <1>8, <1>9, <1>10, <1>11 DEF IInv

-----------------------------------------------------------------------------
LEMMA StepKeeps == IInv /\ [Next]_vars => IInv'
<1> SUFFICES ASSUME IInv, [Next]_vars PROVE IInv'
  OBVIOUS
<1>1. CASE UserActs
  BY <1>1, SendKeeps, SquelchKeeps, ListenKeeps, OnlineKeeps, RespawnKeeps, ClearKeeps
  DEF UserActs
<1>2. CASE \E n \in Node : Receive(n) \/ Discard(n) \/ Route(n)
  BY <1>2, ReceiveKeeps, DiscardKeeps, RouteKeeps
<1>3. CASE UNCHANGED vars
  <2>1. TypeOK'
    BY <1>3 DEF vars, IInv, TypeOK, Online
  <2>2. SquelchesMeant' /\ LogoutClears' /\ InheritedKept' /\ ListsOnline'
    BY <1>3, ListsUntouched DEF vars, history, Online
  <2> QED
    BY <2>1, <2>2 DEF IInv
<1> QED
  BY <1>1, <1>2, <1>3 DEF Next

LEMMA InductiveInvariant == Spec => []IInv
<1>1. Init => IInv
  BY InitTyped
<1>2. IInv /\ [Next]_vars => IInv'
  BY StepKeeps
<1> QED
  BY <1>1, <1>2, PTL DEF Spec

\* The types hold, and no packet waits for the next client of a free node.
THEOREM TypesHold == Spec => []TypeOK
<1>1. IInv => TypeOK
  BY DEF IInv
<1> QED
  BY <1>1, InductiveInvariant, PTL

\* A squelch holds for the user it was meant for and ends with him
\* (squelch.c; logout_message in login_cli.c), whatever waits in the pipes: the exceptions
\* are the users who relog and the LOGOUTs thrown away by the client or by the
\* server, and no other.
THEOREM SquelchesEnd == Spec => []SquelchesMeant
<1>1. IInv => SquelchesMeant
  BY DEF IInv
<1> QED
  BY <1>1, InductiveInvariant, PTL

-----------------------------------------------------------------------------
(* get_token.                                                              *)

\* The entry looked for.
Target(k) == k \in DOMAIN table /\ InPlace(table, k) /\ table[k] = word

\* The search goes on around the entry looked for, and an entry is not
\* compared twice in a row while it is still there: the middle moves on from
\* the bound it became.
SearchInvariant ==
  /\ TokenTypeOK
  /\ EntriesFound
  /\ searching =>
       /\ found = -1 /\ mid \in {first, last}
       /\ first > 0 => first + 1 \in DOMAIN table /\ table[first + 1] < word
       /\ \A k : Target(k) => first < k /\ k <= last /\ lmid # mid

\* The middle lies between the bounds, below the upper one.
LEMMA MiddleBetween ==
  ASSUME NEW f \in Nat, NEW l \in Nat, f <= l
  PROVE  /\ Middle(f, l) \in Nat
         /\ f <= Middle(f, l) /\ Middle(f, l) <= l
         /\ f < l => Middle(f, l) < l
         /\ f + 2 <= l => f < Middle(f, l)
  BY DEF Middle

\* A search starts with the whole table.
LEMMA StartKeeps ==
  ASSUME SearchInvariant, NEW t \in Table, NEW w \in Word, get_token(t, w)
  PROVE  SearchInvariant'
<1>1. /\ t \in Seq(Int) /\ t # <<>> /\ w \in Int
      /\ Len(t) \in Nat /\ Len(t) # 0 /\ DOMAIN t = 1 .. Len(t)
  BY TokenAssumption
<1>2. /\ table' = t /\ word' = w /\ lmid' = -1 /\ mid' = 0 /\ first' = 0
      /\ last' = Len(t) /\ found' = -1 /\ searching' = TRUE
  BY DEF get_token, number
<1>3. TokenTypeOK'
  BY <1>1, <1>2 DEF TokenTypeOK
<1>4. EntriesFound'
  BY <1>2 DEF EntriesFound
<1>5. \A k : Target(k)' => first' < k /\ k <= last' /\ lmid' # mid'
  BY <1>1, <1>2 DEF Target
<1>6. QED
  BY <1>2, <1>3, <1>4, <1>5 DEF SearchInvariant

\* When the same entry has been compared twice nothing is left to be found.
LEMMA GiveUpKeeps ==
  ASSUME SearchInvariant, GiveUp
  PROVE  SearchInvariant'
<1>1. /\ searching /\ lmid = mid /\ searching' = FALSE
      /\ UNCHANGED <<table, word, first, last, mid, lmid, found>>
  BY DEF GiveUp, Halved
<1>2. \A k : ~Target(k)
  BY <1>1 DEF SearchInvariant
<1>3. TokenTypeOK'
  BY <1>1 DEF SearchInvariant, TokenTypeOK
<1>4. found = -1
  BY <1>1 DEF SearchInvariant
<1>5. EntriesFound'
  BY <1>1, <1>2, <1>4 DEF EntriesFound, Target
<1>6. QED
  BY <1>1, <1>3, <1>5 DEF SearchInvariant

\* A comparison halves the range and keeps the entry looked for in it.
LEMMA CompareKeeps ==
  ASSUME SearchInvariant, Compare
  PROVE  SearchInvariant'
<1> DEFINE m == Middle(first, last)
           token == table[m + 1]
<1>1. /\ word \in Int /\ table \in Seq(Int) /\ lmid \in Int
      /\ first \in Nat /\ last \in Int /\ mid \in Nat
      /\ first <= last /\ last <= Len(table) /\ mid < Len(table)
      /\ first < last \/ last = 0
      /\ found = -1 /\ mid \in {first, last} /\ searching
      /\ first > 0 => first + 1 \in DOMAIN table /\ table[first + 1] < word
  BY DEF SearchInvariant, TokenTypeOK, Compare
<1>2. last \in Nat /\ Len(table) \in Nat
  BY <1>1
<1>3. /\ m \in Nat /\ first <= m /\ m <= last
      /\ first < last => m < last
      /\ first + 2 <= last => first < m
  BY <1>1, <1>2, MiddleBetween
<1>4. mid' = m /\ lmid' = mid /\ table' = table /\ word' = word
  BY DEF Compare
<1>5. m < Len(table)
  BY <1>1, <1>2, <1>3
<1>6. m + 1 \in DOMAIN table /\ token \in Int
  BY <1>1, <1>2, <1>3, <1>5
<1>a. \/ word = token /\ found' = m /\ searching' = FALSE
            /\ first' = first /\ last' = last
      \/ word < token /\ last' = m
            /\ first' = first /\ found' = found /\ searching' = searching
      \/ word > token /\ first' = m
            /\ last' = last /\ found' = found /\ searching' = searching
  BY <1>4, Zenon DEF Compare, UpperHalf
<1> HIDE DEF m, token
<1>b. /\ word = token => ~(word < token) /\ ~(word > token)
      /\ word < token => ~(word = token) /\ ~(word > token)
      /\ word > token => ~(word = token) /\ ~(word < token)
  BY <1>1, <1>6
<1>7. ASSUME NEW k, Target(k)
      PROVE  /\ k \in Nat /\ table[k] = word /\ first < k /\ k <= last
             /\ m + 1 = k => token = word
             /\ m + 1 < k => token < word
             /\ m + 1 > k => token > word
  <2>1. k \in DOMAIN table /\ table[k] = word /\ first < k /\ k <= last
    BY <1>7, <1>1 DEF SearchInvariant, Target
  <2>2. k \in Nat
    BY <2>1, <1>1
  <2>3. /\ m + 1 < k => table[m + 1] < table[k]
        /\ m + 1 > k => table[m + 1] > table[k]
    BY <1>7, <1>6 DEF Target, InPlace
  <2>4. QED
    BY <2>1, <2>2, <2>3 DEF token
<1>8. \A k : Target(k)' <=> Target(k)
  BY <1>4 DEF Target
<1>9. CASE word = token
  <2>1. found' = m /\ searching' = FALSE /\ first' = first /\ last' = last
    BY <1>9, <1>a, <1>b, Zenon
  <2>2. TokenTypeOK'
    <3>1. searching' \in BOOLEAN /\ ~searching'
      BY <2>1, Zenon
    <3>2. /\ word' \in Int /\ table' \in Seq(Int) /\ mid' \in Nat
          /\ lmid' \in Int /\ found' \in Int
          /\ first' \in Nat /\ last' \in Nat /\ first' <= last'
          /\ last' <= Len(table')
      BY <2>1, <1>1, <1>2, <1>3, <1>4
    <3>3. QED
      BY <3>1, <3>2 DEF TokenTypeOK
  <2>3. EntriesFound'
    BY <2>1, <1>3, <1>4, <1>6, <1>9 DEF EntriesFound, token
  <2>4. QED
    BY <2>1, <2>2, <2>3 DEF SearchInvariant
<1>10. CASE word < token
  <2>1. last' = m /\ first' = first /\ found' = found
    BY <1>10, <1>a, <1>b, <1>1, Zenon
  <2>2. searching'
    BY <1>10, <1>a, <1>b, <1>1, Zenon
  <2>3. searching' \in BOOLEAN
    BY <1>10, <1>a, <1>b, Zenon DEF SearchInvariant, TokenTypeOK
  <2>4. TokenTypeOK'
    <3>1. first < m \/ m = 0
      BY <1>10, <1>1, <1>2, <1>3, <1>6 DEF token
    <3>2. /\ word' \in Int /\ table' \in Seq(Int) /\ mid' \in Nat
          /\ lmid' \in Int /\ found' \in Int
      BY <2>1, <1>1, <1>3, <1>4
    <3>3. /\ first' \in Nat /\ last' \in Nat /\ first' <= last'
          /\ last' <= Len(table') /\ mid' < Len(table')
          /\ first' < last' \/ last' = 0
      BY <3>1, <2>1, <1>1, <1>2, <1>3, <1>4, <1>5
    <3>4. QED
      BY <2>3, <3>2, <3>3 DEF TokenTypeOK
  <2>5. EntriesFound'
    BY <2>2 DEF EntriesFound
  <2>6. ASSUME NEW k, Target(k)
        PROVE  first' < k /\ k <= last' /\ lmid' # mid'
    <3>1. k <= m
      BY <2>6, <1>7, <1>10, <1>3, <1>6, <1>1
    <3>2. m # mid
      BY <2>6, <1>7, <3>1, <1>1, <1>2, <1>3
    <3>3. QED
      BY <2>6, <1>7, <3>1, <3>2, <2>1, <1>4
  <2>7. QED
    BY <2>1, <2>4, <2>5, <2>6, <1>1, <1>4, <1>8 DEF SearchInvariant
<1>11. CASE word > token
  <2>1. first' = m /\ last' = last /\ found' = found
    BY <1>11, <1>a, <1>b, <1>1, Zenon
  <2>2. searching'
    BY <1>11, <1>a, <1>b, <1>1, Zenon
  <2>3. searching' \in BOOLEAN
    BY <1>11, <1>a, <1>b, Zenon DEF SearchInvariant, TokenTypeOK
  <2>4. TokenTypeOK'
    <3>1. /\ word' \in Int /\ table' \in Seq(Int) /\ mid' \in Nat
          /\ lmid' \in Int /\ found' \in Int
      BY <2>1, <1>1, <1>3, <1>4
    <3>2. /\ first' \in Nat /\ last' \in Nat /\ first' <= last'
          /\ last' <= Len(table') /\ mid' < Len(table')
          /\ first' < last' \/ last' = 0
      BY <2>1, <1>1, <1>2, <1>3, <1>4, <1>5
    <3>3. QED
      BY <2>3, <3>1, <3>2 DEF TokenTypeOK
  <2>5. EntriesFound'
    BY <2>2 DEF EntriesFound
  <2>6. ASSUME NEW k, Target(k)
        PROVE  first' < k /\ k <= last' /\ lmid' # mid'
    <3>1. m + 1 < k
      BY <2>6, <1>7, <1>11, <1>3, <1>6, <1>1
    <3>2. m # mid
      BY <2>6, <1>7, <3>1, <1>1, <1>2, <1>3
    <3>3. QED
      BY <2>6, <1>7, <3>1, <3>2, <2>1, <1>3, <1>4
  <2>7. QED
    BY <2>1, <2>4, <2>5, <2>6, <1>1, <1>4, <1>6, <1>8, <1>11 DEF SearchInvariant, token
<1>12. QED
  BY <1>9, <1>10, <1>11, <1>1, <1>6

\* Every state of every search satisfies the invariant.
THEOREM SearchIsSound == TokenSpec => []SearchInvariant
<1>1. ASSUME Idle
      PROVE  SearchInvariant
  <2>1. /\ table = <<>> /\ word = 0 /\ first = 0 /\ last = 0 /\ mid = 0
        /\ lmid = -1 /\ found = -1 /\ searching = FALSE
    BY <1>1 DEF Idle
  <2>2. table \in Seq(Int) /\ Len(table) = 0 /\ DOMAIN table = {}
    BY <2>1
  <2>3. TokenTypeOK
    <3>1. searching \in BOOLEAN /\ ~searching
      BY <2>1, Zenon
    <3>2. QED
      BY <2>1, <2>2, <3>1 DEF TokenTypeOK
  <2>4. EntriesFound
    BY <2>1, <2>2 DEF EntriesFound
  <2>5. QED
    BY <2>1, <2>3, <2>4 DEF SearchInvariant
<1>2. ASSUME SearchInvariant, [TokenNext]_token_vars
      PROVE  SearchInvariant'
  <2>1. CASE \E t \in Table, w \in Word : get_token(t, w)
    BY <1>2, <2>1, StartKeeps
  <2>2. CASE Compare
    BY <1>2, <2>2, CompareKeeps
  <2>3. CASE GiveUp
    BY <1>2, <2>3, GiveUpKeeps
  <2>4. CASE UNCHANGED token_vars
    BY <1>2, <2>4 DEF token_vars, SearchInvariant, TokenTypeOK, EntriesFound,
                      Target
  <2>5. QED
    BY <1>2, <2>1, <2>2, <2>3, <2>4 DEF TokenNext, TokenStep
<1>3. QED
  BY <1>1, <1>2, PTL DEF TokenSpec

\* The search never compares an entry that is not in the table.
THEOREM SearchStaysInTable == TokenSpec => []TokenTypeOK
<1>1. SearchInvariant => TokenTypeOK
  BY DEF SearchInvariant
<1>2. QED
  BY <1>1, SearchIsSound, PTL

\* An entry in its place is found, whatever the rest of the table looks like.
THEOREM EntriesInPlaceFound == TokenSpec => []EntriesFound
<1>1. SearchInvariant => EntriesFound
  BY DEF SearchInvariant
<1>2. QED
  BY <1>1, SearchIsSound, PTL

-----------------------------------------------------------------------------
(* Functions defined from themselves.                                      *)

LEMMA NaturalsHaveALeast ==
  ASSUME NEW S \in SUBSET Nat, S # {}
  PROVE  \E x \in S : \A y \in S : x <= y
<1>1. PICK x \in S : \A y \in S : ~(<<y, x>> \in OpToRel(<, Nat))
  BY NatLessThanWellFounded, WFMin, Zenon
<1>2. \A y \in S : ~(y < x)
  BY <1>1 DEF OpToRel
<1> QED
  BY <1>2

\* What holds of x if it holds of everything of a smaller measure, holds.
LEMMA SmallestFirst ==
  ASSUME NEW D, NEW m \in [D -> Nat], NEW S,
         \A x \in D : (\A y \in D : m[y] < m[x] => y \in S) => x \in S
  PROVE  \A x \in D : x \in S
<1> SUFFICES ASSUME NEW a \in D, a \notin S PROVE FALSE
  OBVIOUS
<1> DEFINE T == {m[x] : x \in D \ S}
<1>1. T \in SUBSET Nat /\ T # {}
  OBVIOUS
<1>2. PICK k \in T : \A j \in T : k <= j
  BY <1>1, NaturalsHaveALeast
<1>3. PICK x \in D \ S : k = m[x]
  BY <1>2
<1>4. ASSUME NEW y \in D, m[y] < m[x] PROVE y \in S
  <2>1. y \notin S => m[y] \in T
    OBVIOUS
  <2>2. m[y] \in Nat /\ m[x] \in Nat
    BY <1>3
  <2> HIDE DEF T
  <2> QED
    BY <2>1, <2>2, <1>2, <1>3, <1>4
<1> QED
  BY <1>3, <1>4

\* What F makes of a function at a place depends on its values at places of a
\* smaller measure.
LooksBelow(F, m, D, R) ==
  \A g, h \in [D -> R], x \in D :
    (\A y \in D : m[y] < m[x] => g[y] = h[y]) => F[g][x] = F[h][x]

Transforms(F, D, R) == F \in [[D -> R] -> [D -> R]]

HasFixpoint(F, D, R) == \E g \in [D -> R] : g = F[g]

Within(m, D, N) == m \in [D -> Nat] /\ N \in Nat /\ \A x \in D : m[x] < N

\* Then a function that is defined by F from itself exists.
LEMMA RecursionEnds ==
  ASSUME NEW D, NEW R, NEW e \in [D -> R], NEW m, NEW N, NEW F,
         Within(m, D, N), Transforms(F, D, R), LooksBelow(F, m, D, R)
  PROVE  HasFixpoint(F, D, R)
<1> USE DEF Within, LooksBelow, Transforms, HasFixpoint
<1> DEFINE Reaches(n) == \E g \in [D -> R] : \A x \in D : m[x] < n => g[x] = F[g][x]
           S == {n \in Nat : ~Reaches(n)}
<1>1. SUFFICES N \notin S
  <2>1. PICK g \in [D -> R] : \A x \in D : m[x] < N => g[x] = F[g][x]
    BY <1>1
  <2>2. F[g] \in [D -> R]
    OBVIOUS
  <2>3. \A x \in D : g[x] = F[g][x]
    BY <2>1
  <2>4. g = F[g]
    BY <2>2, <2>3
  <2> QED
    BY <2>4
<1>2. Reaches(0)
  <2>1. \A x \in D : ~(m[x] < 0)
    OBVIOUS
  <2> QED
    BY <2>1
<1>3. ASSUME NEW n \in Nat, Reaches(n) PROVE Reaches(n + 1)
  <2>1. PICK g \in [D -> R] : \A x \in D : m[x] < n => g[x] = F[g][x]
    BY <1>3
  <2> DEFINE h == F[g]
  <2>2. h \in [D -> R]
    OBVIOUS
  <2>3. ASSUME NEW x \in D, m[x] < n + 1 PROVE h[x] = F[h][x]
    <3>1. \A y \in D : m[y] < m[x] => g[y] = h[y]
      <4>1. \A y \in D : m[y] < m[x] => m[y] < n
        <5>1. \A y \in D : m[y] \in Nat
          OBVIOUS
        <5> QED
          BY <5>1, <2>3
      <4> QED
        BY <4>1, <2>1
    <3> HIDE DEF h
    <3>2. F[g][x] = F[h][x]
      BY <3>1, <2>2
    <3> QED
      BY <3>2 DEF h
  <2> HIDE DEF h
  <2> QED
    BY <2>2, <2>3
<1> HIDE DEF Reaches
<1>4. SUFFICES ASSUME S # {} PROVE FALSE
  OBVIOUS
<1>5. PICK k \in S : \A j \in S : k <= j
  BY <1>4, NaturalsHaveALeast
<1>6. k # 0
  BY <1>2, <1>5
<1>7. k - 1 \in Nat /\ k - 1 \notin S
  BY <1>5, <1>6
<1>8. Reaches(k - 1 + 1)
  BY <1>7, <1>3
<1> QED
  BY <1>5, <1>8

-----------------------------------------------------------------------------
(* search_list_for.                                                        *)

Results(n) == [exact : BOOLEAN, at : 0 .. n]

MiddleOf(b) == (b.first + b.last) \div 2

\* One turn of the loop, which goes on with g.
HalveStep(o, r, s, g, b) ==
  LET srch == Srch(o, r, s, MiddleOf(b))
  IN  IF MiddleOf(b) = b.last_mid THEN Inexact(MiddleOf(b))
      ELSE IF srch = 0 THEN Exact(MiddleOf(b))
      ELSE IF srch < 0 THEN g[[first |-> b.first, last |-> MiddleOf(b), last_mid |-> MiddleOf(b)]]
      ELSE g[[first |-> MiddleOf(b), last |-> b.last, last_mid |-> MiddleOf(b)]]

Apart(b) == IF b.first <= b.last THEN b.last - b.first ELSE b.first - b.last

\* What is left to halve.
ToHalve(b) == 2 * Apart(b) + (IF MiddleOf(b) = b.last_mid THEN 0 ELSE 1)

LEMMA HalveNat ==
  ASSUME NEW n \in Nat, NEW b \in Bounds(n)
  PROVE  ToHalve(b) \in Nat /\ ToHalve(b) < 2 * n + 2 /\ Apart(b) \in Nat
<1>1. b.first \in 0 .. n /\ b.last \in 0 .. n
  BY DEF Bounds
<1>2. Apart(b) \in Nat /\ Apart(b) <= n
  BY <1>1 DEF Apart
<1> QED
  BY <1>2 DEF ToHalve

LEMMA HalvingShrinks ==
  ASSUME NEW n \in Nat, NEW b \in Bounds(n)
  PROVE  /\ ToHalve(b) \in Nat /\ ToHalve(b) < 2 * n + 2
         /\ MiddleOf(b) \in 0 .. n
         /\ [first |-> b.first, last |-> MiddleOf(b), last_mid |-> MiddleOf(b)] \in Bounds(n)
         /\ [first |-> MiddleOf(b), last |-> b.last, last_mid |-> MiddleOf(b)] \in Bounds(n)
         /\ MiddleOf(b) # b.last_mid =>
              /\ ToHalve([first |-> b.first, last |-> MiddleOf(b), last_mid |-> MiddleOf(b)]) < ToHalve(b)
              /\ ToHalve([first |-> MiddleOf(b), last |-> b.last, last_mid |-> MiddleOf(b)]) < ToHalve(b)
<1> DEFINE m == MiddleOf(b)
           lower == [first |-> b.first, last |-> m, last_mid |-> m]
           upper == [first |-> m, last |-> b.last, last_mid |-> m]
<1>1. b.first \in 0 .. n /\ b.last \in 0 .. n /\ b.last_mid \in -1 .. n
  BY DEF Bounds
<1>2. m \in 0 .. n /\ m = (b.first + b.last) \div 2
  BY <1>1 DEF MiddleOf
<1> HIDE DEF m
<1>3. lower \in Bounds(n) /\ lower.first = b.first /\ lower.last = m /\ lower.last_mid = m
  BY <1>1, <1>2 DEF Bounds
<1>4. upper \in Bounds(n) /\ upper.first = m /\ upper.last = b.last /\ upper.last_mid = m
  BY <1>1, <1>2 DEF Bounds
<1> HIDE DEF lower, upper
<1>5. ToHalve(b) \in Nat /\ ToHalve(b) < 2 * n + 2
  BY <1>1 DEF ToHalve, Apart
<1>6. m # b.last_mid => ToHalve(lower) < ToHalve(b)
  BY <1>1, <1>2, <1>3 DEF ToHalve, Apart, MiddleOf
<1>7. /\ b.first <= b.last => b.first <= m /\ m <= b.last
      /\ b.last < b.first => b.last <= m /\ m < b.first
  BY <1>1, <1>2
<1>8. m # b.last_mid => ToHalve(upper) < ToHalve(b)
  <2> SUFFICES ASSUME m # b.last_mid PROVE ToHalve(upper) < ToHalve(b)
    OBVIOUS
  <2>1. ToHalve(b) = 2 * Apart(b) + 1
    BY <1>2, <1>1 DEF ToHalve, MiddleOf
  <2>2. CASE m = b.first
    <3>1. MiddleOf(upper) = m
      BY <1>4, <1>2, <2>2 DEF MiddleOf
    <3>2. Apart(upper) = Apart(b)
      BY <1>4, <2>2 DEF Apart
    <3>3. Apart(b) \in Nat
      BY <1>1 DEF Apart
    <3> QED
      BY <3>1, <3>2, <3>3, <2>1, <1>4 DEF ToHalve
  <2>3. CASE m # b.first
    <3>1. Apart(upper) < Apart(b) /\ Apart(upper) \in Nat /\ Apart(b) \in Nat
      BY <1>1, <1>2, <1>4, <1>7, <2>3 DEF Apart
    <3>2. ToHalve(upper) <= 2 * Apart(upper) + 1
      BY <3>1 DEF ToHalve
    <3> QED
      BY <3>1, <3>2, <2>1, <1>4, <1>1, HalveNat
  <2> QED
    BY <2>2, <2>3
<1> QED
  BY <1>2, <1>3, <1>4, <1>5, <1>6, <1>8 DEF m, lower, upper

LEMMA BisectDefined ==
  ASSUME NEW o, NEW r, NEW s, Len(s) \in Nat
  PROVE  /\ Bisect(o, r, s) \in [Bounds(Len(s)) -> Results(Len(s))]
         /\ \A b \in Bounds(Len(s)) : Bisect(o, r, s)[b] = HalveStep(o, r, s, Bisect(o, r, s), b)
<1> DEFINE n == Len(s)
           D == Bounds(n)
           R == Results(n)
           step(g) == [b \in D |-> HalveStep(o, r, s, g, b)]
           F == [g \in [D -> R] |-> step(g)]
           m == [b \in D |-> ToHalve(b)]
<1>1. ASSUME NEW g, NEW b \in D, \A c \in D : m[c] < m[b] => g[c] \in R
      PROVE  HalveStep(o, r, s, g, b) \in R
  <2>1. MiddleOf(b) \in 0 .. n
    BY HalvingShrinks
  <2>2. Inexact(MiddleOf(b)) \in R /\ Exact(MiddleOf(b)) \in R
    BY <2>1 DEF Results, Inexact, Exact
  <2>3. MiddleOf(b) # b.last_mid =>
          /\ g[[first |-> b.first, last |-> MiddleOf(b), last_mid |-> MiddleOf(b)]] \in R
          /\ g[[first |-> MiddleOf(b), last |-> b.last, last_mid |-> MiddleOf(b)]] \in R
    BY <1>1, HalvingShrinks
  <2> HIDE DEF R
  <2> QED
    BY <2>2, <2>3 DEF HalveStep
<1>2. F \in [[D -> R] -> [D -> R]]
  <2>1. ASSUME NEW g \in [D -> R], NEW b \in D PROVE HalveStep(o, r, s, g, b) \in R
    BY <1>1
  <2> HIDE DEF D, R
  <2> QED
    BY <2>1
<1>3. m \in [D -> Nat] /\ \A b \in D : m[b] < 2 * n + 2
  BY HalvingShrinks
<1>4. ASSUME NEW g \in [D -> R], NEW h \in [D -> R], NEW b \in D,
             \A c \in D : m[c] < m[b] => g[c] = h[c]
      PROVE  F[g][b] = F[h][b]
  <2>1. MiddleOf(b) # b.last_mid =>
          /\ g[[first |-> b.first, last |-> MiddleOf(b), last_mid |-> MiddleOf(b)]]
             = h[[first |-> b.first, last |-> MiddleOf(b), last_mid |-> MiddleOf(b)]]
          /\ g[[first |-> MiddleOf(b), last |-> b.last, last_mid |-> MiddleOf(b)]]
             = h[[first |-> MiddleOf(b), last |-> b.last, last_mid |-> MiddleOf(b)]]
    BY <1>4, HalvingShrinks
  <2>2. HalveStep(o, r, s, g, b) = HalveStep(o, r, s, h, b)
    BY <2>1 DEF HalveStep
  <2> HIDE DEF D, R
  <2> QED
    BY <2>2
<1>5. [b \in D |-> Inexact(0)] \in [D -> R]
  BY DEF Results, Inexact
<1>7. HasFixpoint(F, D, R)
  <2>1. LooksBelow(F, m, D, R)
    BY <1>4 DEF LooksBelow
  <2> DEFINE N == 2 * n + 2
             e == [b \in D |-> Inexact(0)]
  <2>2. Within(m, D, N)
    BY <1>3 DEF Within
  <2>3. e \in [D -> R]
    BY <1>5
  <2>4. Transforms(F, D, R)
    BY <1>2 DEF Transforms
  <2> HIDE DEF D, R, F, m, n, N, e
  <2> QED
    BY <2>1, <2>2, <2>3, <2>4, RecursionEnds
<1> HIDE DEF R
<1>8. PICK g \in [D -> R] : g = step(g)
  BY <1>7 DEF HasFixpoint
<1>9. Bisect(o, r, s) = CHOOSE f : f = step(f)
  BY DEF Bisect, HalveStep, MiddleOf
<1> DEFINE f == Bisect(o, r, s)
<1>10. f = step(f)
  BY <1>8, <1>9
<1> HIDE DEF f
<1>11. \A b \in D : f[b] = HalveStep(o, r, s, f, b)
  BY <1>10
<1>12. \A b \in D : f[b] \in R
  <2> DEFINE S == {b \in D : f[b] \in R}
  <2>1. ASSUME NEW b \in D, \A c \in D : m[c] < m[b] => c \in S
        PROVE  b \in S
    BY <2>1, <1>1, <1>11
  <2>2. \A b \in D : (\A c \in D : m[c] < m[b] => c \in S) => b \in S
    BY <2>1
  <2>3. m \in [D -> Nat]
    BY <1>3
  <2> HIDE DEF S, m, D
  <2>4. \A b \in D : b \in S
    BY <2>2, <2>3, SmallestFirst
  <2> QED
    BY <2>4 DEF S
<1>13. f \in [D -> R]
  BY <1>10, <1>12
<1> QED
  BY <1>11, <1>13 DEF f, R

Sorted(o, s) == \A i, j \in 1 .. Len(s) : i <= j => Key[o][s[i]] <= Key[o][s[j]]

LEMMA SrchFalls ==
  ASSUME NEW o \in Order, NEW r \in Record, NEW s \in Seq(Record), Sorted(o, s)
  PROVE  /\ \A k \in Elements(s) : Srch(o, r, s, k) \in Int
         /\ \A j, k \in Elements(s) : j <= k => Srch(o, r, s, k) <= Srch(o, r, s, j)
<1>1. Len(s) \in Nat
  OBVIOUS
<1>2. \A k \in Elements(s) : k + 1 \in 1 .. Len(s) /\ s[k + 1] \in Record
  BY <1>1 DEF Elements
<1>3. \A x \in Record : Key[o][x] \in Int
  BY ListAssumption
<1>4. ASSUME NEW j \in Elements(s), NEW k \in Elements(s), j <= k
      PROVE  Srch(o, r, s, k) <= Srch(o, r, s, j)
  <2>1. Key[o][s[j + 1]] <= Key[o][s[k + 1]]
    <3>1. j + 1 <= k + 1
      BY <1>1, <1>4 DEF Elements
    <3> QED
      BY <1>2, <3>1 DEF Sorted
  <2>2. Key[o][s[j + 1]] \in Int /\ Key[o][s[k + 1]] \in Int /\ Key[o][r] \in Int
    BY <1>2, <1>3
  <2> QED
    BY <2>1, <2>2 DEF Srch, cf
<1>5. ASSUME NEW k \in Elements(s) PROVE Srch(o, r, s, k) \in Int
  <2>1. Key[o][s[k + 1]] \in Int /\ Key[o][r] \in Int
    BY <1>2, <1>3
  <2> QED
    BY <2>1 DEF Srch, cf
<1> QED
  BY <1>4, <1>5

\* What search_list_for answers: an element with the key of r, or one that
\* those before and those behind r meet at.
Answers(o, r, s, a) ==
  /\ a.at \in Elements(s)
  /\ a.exact => Srch(o, r, s, a.at) = 0
  /\ ~a.exact =>
       /\ Srch(o, r, s, a.at) # 0
       /\ \A k \in Elements(s) : (k < a.at => 0 < Srch(o, r, s, k))
                              /\ (a.at < k => Srch(o, r, s, k) < 0)

\* The bounds have been compared, and r is between them.
Around(o, r, s, b) ==
  /\ b.first <= b.last
  /\ b.first # 0 => b.first \in Elements(s) /\ 0 < Srch(o, r, s, b.first)
  /\ b.last # Len(s) => b.last \in Elements(s) /\ Srch(o, r, s, b.last) < 0
  /\ b.last_mid # -1 => b.last_mid \in {b.first, b.last} /\ Srch(o, r, s, b.last_mid) # 0

LEMMA MiddleCompared ==
  ASSUME NEW o \in Order, NEW r \in Record, NEW s \in Seq(Record), Len(s) > 0,
         NEW b \in Bounds(Len(s)), Sorted(o, s), Around(o, r, s, b)
  PROVE  /\ MiddleOf(b) \in Elements(s)
         /\ b.first <= MiddleOf(b) /\ MiddleOf(b) <= b.last
         /\ b.last <= MiddleOf(b) => b.last = 0
         /\ MiddleOf(b) = b.first => b.last <= b.first + 1
<1> DEFINE n == Len(s)
<1>1. n \in Nat /\ b.first \in 0 .. n /\ b.last \in 0 .. n
  BY DEF Bounds
<1>2. b.first <= b.last
  BY DEF Around
<1>3. CASE b.first < b.last
  BY <1>1, <1>3 DEF MiddleOf, Elements
<1>4. CASE b.first = b.last
  <2>1. MiddleOf(b) = b.first
    BY <1>1, <1>4 DEF MiddleOf
  <2>2. b.first = 0
    <3> SUFFICES ASSUME b.first # 0 PROVE FALSE
      OBVIOUS
    <3>1. b.first \in Elements(s) /\ 0 < Srch(o, r, s, b.first)
      BY DEF Around
    <3>2. b.last # n
      BY <3>1, <1>4, <1>1 DEF Elements
    <3>3. Srch(o, r, s, b.last) < 0
      BY <3>2 DEF Around
    <3>4. Srch(o, r, s, b.first) \in Int
      BY <3>1, SrchFalls
    <3> QED
      BY <3>1, <3>3, <3>4, <1>4
  <2> QED
    BY <2>1, <2>2, <1>4, <1>1 DEF Elements
<1> QED
  BY <1>1, <1>2, <1>3, <1>4

LEMMA BisectFinds ==
  ASSUME NEW o \in Order, NEW r \in Record, NEW s \in Seq(Record), Len(s) > 0,
         Sorted(o, s), NEW b \in Bounds(Len(s)), Around(o, r, s, b)
  PROVE  Answers(o, r, s, Bisect(o, r, s)[b])
<1> DEFINE n == Len(s)
           D == Bounds(n)
           m == [c \in D |-> ToHalve(c)]
           B == Bisect(o, r, s)
           S == {c \in D : Around(o, r, s, c) => Answers(o, r, s, B[c])}
<1>1. n \in Nat
  OBVIOUS
<1>2. m \in [D -> Nat]
  BY <1>1, HalvingShrinks
<1>3. ASSUME NEW c \in D, Around(o, r, s, c), \A d \in D : m[d] < m[c] => d \in S
      PROVE  Answers(o, r, s, B[c])
  <2> DEFINE M == MiddleOf(c)
             lower == [first |-> c.first, last |-> M, last_mid |-> M]
             upper == [first |-> M, last |-> c.last, last_mid |-> M]
  <2>1. B[c] = HalveStep(o, r, s, B, c)
    BY <1>1, BisectDefined
  <2>2. /\ M \in Elements(s) /\ c.first <= M /\ M <= c.last
        /\ c.last <= M => c.last = 0
        /\ M = c.first => c.last <= c.first + 1
    BY <1>3, MiddleCompared
  <2>3. M # c.last_mid => lower \in S /\ upper \in S
    BY <1>1, <1>3, HalvingShrinks
  <2>4. c.first \in 0 .. n /\ c.last \in 0 .. n /\ c.last_mid \in -1 .. n
    BY DEF Bounds
  <2>5. Srch(o, r, s, M) \in Int
    BY <2>2, SrchFalls
  <2> HIDE DEF B, M
  <2>6. CASE M = c.last_mid
    <3>1. B[c] = Inexact(M)
      BY <2>1, <2>6 DEF HalveStep, M
    <3>2. M \in {c.first, c.last} /\ Srch(o, r, s, M) # 0
      BY <2>6, <1>3, <2>2, <2>4, <1>1 DEF Around, Elements
    <3>3. M \in 0 .. n - 1 /\ (M = c.first \/ (c.last = 0 /\ M = 0))
      BY <2>2, <2>4, <3>2, <1>1 DEF Elements
    <3>4. M = c.first /\ c.last <= M + 1
      BY <3>3, <2>2, <2>4, <1>1
    <3>5. ASSUME NEW k \in Elements(s), k < M PROVE 0 < Srch(o, r, s, k)
      <4>1. c.first # 0
        BY <3>5, <3>4, <2>4, <1>1 DEF Elements
      <4>2. 0 < Srch(o, r, s, M)
        BY <4>1, <3>4, <1>3 DEF Around
      <4>3. Srch(o, r, s, M) <= Srch(o, r, s, k) /\ Srch(o, r, s, k) \in Int
        BY <2>2, <3>5, <1>1, SrchFalls DEF Elements
      <4> QED
        BY <4>2, <4>3, <2>5
    <3>6. ASSUME NEW k \in Elements(s), M < k PROVE Srch(o, r, s, k) < 0
      <4>1. c.last # n /\ c.last <= k
        BY <3>6, <3>4, <3>3, <2>4, <1>1 DEF Elements
      <4>2. c.last \in Elements(s) /\ Srch(o, r, s, c.last) < 0
        BY <4>1, <1>3 DEF Around
      <4>3. Srch(o, r, s, k) <= Srch(o, r, s, c.last) /\ Srch(o, r, s, k) \in Int
            /\ Srch(o, r, s, c.last) \in Int
        BY <4>1, <4>2, <3>6, SrchFalls
      <4> QED
        BY <4>2, <4>3
    <3> QED
      BY <3>1, <3>2, <3>5, <3>6, <2>2 DEF Answers, Inexact
  <2>7. CASE M # c.last_mid /\ Srch(o, r, s, M) = 0
    <3>1. B[c] = Exact(M)
      BY <2>1, <2>7 DEF HalveStep, M
    <3> QED
      BY <3>1, <2>7, <2>2 DEF Answers, Exact
  <2>8. CASE M # c.last_mid /\ Srch(o, r, s, M) < 0
    <3>1. B[c] = B[lower]
      BY <2>1, <2>8, <2>5 DEF HalveStep, M
    <3>2. lower.first = c.first /\ lower.last = M /\ lower.last_mid = M
      OBVIOUS
    <3> HIDE DEF lower
    <3>3. Around(o, r, s, lower)
      BY <3>2, <2>8, <2>2, <2>5, <1>3 DEF Around
    <3> QED
      BY <3>1, <3>3, <2>3, <2>8
  <2>9. CASE M # c.last_mid /\ 0 < Srch(o, r, s, M)
    <3>1. B[c] = B[upper]
      BY <2>1, <2>9, <2>5 DEF HalveStep, M
    <3>2. upper.first = M /\ upper.last = c.last /\ upper.last_mid = M
      OBVIOUS
    <3> HIDE DEF upper
    <3>3. Around(o, r, s, upper)
      BY <3>2, <2>9, <2>2, <2>5, <1>3 DEF Around
    <3> QED
      BY <3>1, <3>3, <2>3, <2>9
  <2> QED
    BY <2>5, <2>6, <2>7, <2>8, <2>9
<1>4. \A c \in D : (\A d \in D : m[d] < m[c] => d \in S) => c \in S
  BY <1>3
<1> HIDE DEF D, m, S
<1>5. \A c \in D : c \in S
  BY <1>2, <1>4, SmallestFirst
<1> QED
  BY <1>5 DEF D, S

LEMMA SearchAnswers ==
  ASSUME NEW o \in Order, NEW r \in Record, NEW s \in Seq(Record), Len(s) > 0, Sorted(o, s)
  PROVE  Answers(o, r, s, search_list_for(o, r, s)) /\ search_list_for(o, r, s).exact \in BOOLEAN
<1> DEFINE b == [first |-> 0, last |-> Len(s), last_mid |-> -1]
<1>1. Len(s) \in Nat /\ s # <<>>
  OBVIOUS
<1>2. b \in Bounds(Len(s))
  BY <1>1 DEF Bounds
<1>3. Around(o, r, s, b)
  BY <1>1 DEF Around
<1>4. search_list_for(o, r, s) = Bisect(o, r, s)[b]
  BY <1>1 DEF search_list_for
<1>5. Bisect(o, r, s)[b] \in Results(Len(s))
  BY <1>1, <1>2, BisectDefined
<1> HIDE DEF b
<1> QED
  BY <1>2, <1>3, <1>4, <1>5, BisectFinds DEF Results

-----------------------------------------------------------------------------
(* Scans.                                                                  *)

LEMMA MinOfIntegers ==
  ASSUME NEW S \in SUBSET Int, S # {}, NEW lo \in Int, \A x \in S : lo <= x
  PROVE  Min(S) \in S /\ \A y \in S : Min(S) <= y
<1> DEFINE T == {x - lo : x \in S}
<1>1. T \in SUBSET Nat /\ T # {}
  <2>1. \A x \in S : x - lo \in Nat
    OBVIOUS
  <2> QED
    BY <2>1
<1>2. PICK t \in T : \A y \in T : t <= y
  BY <1>1, NaturalsHaveALeast
<1>3. PICK x \in S : t = x - lo
  BY <1>2
<1>4. ASSUME NEW y \in S PROVE x <= y
  <2>1. t <= y - lo
    BY <1>2
  <2>2. x \in Int /\ y \in Int
    OBVIOUS
  <2> QED
    BY <2>1, <2>2, <1>3
<1> QED
  BY <1>4 DEF Min

LEMMA MaxOfIntegers ==
  ASSUME NEW S \in SUBSET Int, S # {}, NEW hi \in Int, \A x \in S : x <= hi
  PROVE  Max(S) \in S /\ \A y \in S : y <= Max(S)
<1> DEFINE T == {hi - x : x \in S}
<1>1. T \in SUBSET Nat /\ T # {}
  <2>1. \A x \in S : hi - x \in Nat
    OBVIOUS
  <2> QED
    BY <2>1
<1>2. PICK t \in T : \A y \in T : t <= y
  BY <1>1, NaturalsHaveALeast
<1>3. PICK x \in S : t = hi - x
  BY <1>2
<1>4. ASSUME NEW y \in S PROVE x >= y
  <2>1. t <= hi - y
    BY <1>2
  <2>2. x \in Int /\ y \in Int
    OBVIOUS
  <2> QED
    BY <2>1, <2>2, <1>3
<1>5. Max(S) \in S /\ \A y \in S : Max(S) >= y
  BY <1>4 DEF Max
<1>6. \A y \in S : y \in Int
  OBVIOUS
<1> QED
  BY <1>5, <1>6

LEMMA ScanUpStops ==
  ASSUME NEW from \in Int, NEW to \in Int, from <= to, NEW Stops
  PROVE  /\ ScanUp(from, to, Stops) \in from .. to
         /\ ScanUp(from, to, Stops) = to \/ ScanUp(from, to, Stops) \in Stops
         /\ \A k \in from .. to : k < ScanUp(from, to, Stops) => k \notin Stops
<1> DEFINE T == {k \in from .. to : k = to \/ k \in Stops}
<1>1. T \in SUBSET Int /\ to \in T /\ \A x \in T : from <= x
  OBVIOUS
<1>2. Min(T) \in T /\ \A y \in T : Min(T) <= y
  <2> HIDE DEF T
  <2> QED
    BY <1>1, MinOfIntegers
<1>3. ScanUp(from, to, Stops) = Min(T)
  BY DEF ScanUp
<1>4. \A k \in from .. to : k < Min(T) => k \notin T
  <2>1. Min(T) \in Int
    BY <1>1, <1>2
  <2> HIDE DEF T
  <2> QED
    BY <2>1, <1>2
<1>5. Min(T) \in from .. to /\ (Min(T) = to \/ Min(T) \in Stops)
  BY <1>2
<1> QED
  BY <1>3, <1>4, <1>5

LEMMA ScanDownStops ==
  ASSUME NEW from \in Int, NEW to \in Int, to <= from, NEW Stops
  PROVE  /\ ScanDown(from, to, Stops) \in to .. from
         /\ ScanDown(from, to, Stops) = to \/ ScanDown(from, to, Stops) \in Stops
         /\ \A k \in to .. from : ScanDown(from, to, Stops) < k => k \notin Stops
<1> DEFINE T == {k \in to .. from : k = to \/ k \in Stops}
<1>1. T \in SUBSET Int /\ to \in T /\ \A x \in T : x <= from
  OBVIOUS
<1>2. Max(T) \in T /\ \A y \in T : y <= Max(T)
  <2> HIDE DEF T
  <2> QED
    BY <1>1, MaxOfIntegers
<1>3. ScanDown(from, to, Stops) = Max(T)
  BY DEF ScanDown
<1>4. \A k \in to .. from : Max(T) < k => k \notin T
  <2>1. Max(T) \in Int
    BY <1>1, <1>2
  <2> HIDE DEF T
  <2> QED
    BY <2>1, <1>2
<1>5. Max(T) \in to .. from /\ (Max(T) = to \/ Max(T) \in Stops)
  BY <1>2
<1> QED
  BY <1>3, <1>4, <1>5

\* Among the records of an index that are all different find_exact_in_index
\* finds the very one.
LEMMA ExactFound ==
  ASSUME NEW o \in Order, NEW r \in Record, NEW s \in Seq(Record), Sorted(o, s),
         NEW p \in Elements(s), s[p + 1] = r, \A k \in Elements(s) : s[k + 1] = r => k = p
  PROVE  find_exact_in_index(o, r, s) = p
<1> DEFINE n == Len(s)
           a == search_list_for(o, r, s)
           Here == {k \in Elements(s) : s[k + 1] = r}
           Other == {k \in Elements(s) : Srch(o, r, s, k) # 0}
           low == ScanDown(a.at - 1, -1, Here \union Other)
           high == ScanUp(a.at, Len(s), Here \union Other)
<1>1. n \in Nat /\ n > 0 /\ p \in 0 .. n - 1
  BY DEF Elements
<1>2. Answers(o, r, s, a) /\ a.exact \in BOOLEAN
  BY <1>1, SearchAnswers
<1>3. /\ \A k \in Elements(s) : Srch(o, r, s, k) \in Int
      /\ \A j, k \in Elements(s) : j <= k => Srch(o, r, s, k) <= Srch(o, r, s, j)
  BY SrchFalls
<1>4. Srch(o, r, s, p) = 0
  <2>1. Key[o][r] \in Int
    BY ListAssumption
  <2> QED
    BY <2>1 DEF Srch, cf
<1>5. find_exact_in_index(o, r, s) =
        IF ~a.exact THEN -1 ELSE IF low \in Here THEN low ELSE IF high \in Here THEN high ELSE -1
  BY DEF find_exact_in_index
<1>6. Here = {p}
  OBVIOUS
<1>7. Other \subseteq Elements(s) /\ \A k \in Other : Srch(o, r, s, k) # 0
  OBVIOUS
<1> HIDE DEF a, Here, Other
<1>8. a.at \in 0 .. n - 1
  BY <1>2 DEF Answers, Elements
<1>9. a.exact
  <2> SUFFICES ASSUME ~a.exact PROVE FALSE
    BY <1>2
  <2>1. /\ Srch(o, r, s, a.at) # 0
        /\ (p < a.at => 0 < Srch(o, r, s, p)) /\ (a.at < p => Srch(o, r, s, p) < 0)
    BY <1>2 DEF Answers
  <2> QED
    BY <2>1, <1>1, <1>4, <1>8
<1>10. Srch(o, r, s, a.at) = 0
  BY <1>2, <1>9 DEF Answers
\* Between two elements with the key of r all have it.
<1>11. ASSUME NEW k \in Elements(s), (p <= k /\ k <= a.at) \/ (a.at <= k /\ k <= p)
       PROVE  k \notin Other
  <2>1. a.at \in Elements(s)
    BY <1>8 DEF Elements
  <2>2. Srch(o, r, s, k) \in Int
    BY <1>3
  <2>3. CASE p <= k /\ k <= a.at
    <3>1. Srch(o, r, s, k) <= 0 /\ 0 <= Srch(o, r, s, k)
      BY <1>3, <1>4, <1>10, <2>1, <2>3
    <3> QED
      BY <3>1, <2>2, <1>7
  <2>4. CASE a.at <= k /\ k <= p
    <3>1. Srch(o, r, s, k) <= 0 /\ 0 <= Srch(o, r, s, k)
      BY <1>3, <1>4, <1>10, <2>1, <2>4
    <3> QED
      BY <3>1, <2>2, <1>7
  <2> QED
    BY <1>11, <2>3, <2>4
<1>12. /\ low \in -1 .. a.at - 1
       /\ low = -1 \/ low \in Here \union Other
       /\ \A k \in -1 .. a.at - 1 : low < k => k \notin Here \union Other
  <2>1. a.at - 1 \in Int /\ -1 <= a.at - 1
    BY <1>8
  <2> QED
    BY <2>1, ScanDownStops
<1>13. /\ high \in a.at .. n
       /\ high = n \/ high \in Here \union Other
       /\ \A k \in a.at .. n : k < high => k \notin Here \union Other
  <2>1. a.at \in Int /\ n \in Int /\ a.at <= n
    BY <1>8, <1>1
  <2> QED
    BY <2>1, ScanUpStops
<1> HIDE DEF low, high, n
<1>14. CASE p < a.at
  <2>1. p <= low
    BY <1>12, <1>6, <1>14, <1>1, <1>8
  <2>2. low \in Elements(s) /\ low <= a.at
    BY <2>1, <1>12, <1>8, <1>1 DEF Elements, n
  <2>3. low \notin Other
    BY <2>1, <2>2, <1>11
  <2>4. low \in Here
    BY <2>1, <2>3, <1>12, <1>1
  <2> QED
    BY <2>4, <1>5, <1>9, <1>6
<1>15. CASE a.at <= p
  <2>1. low \notin Here
    BY <1>12, <1>6, <1>15, <1>1, <1>8
  <2>2. high <= p
    BY <1>13, <1>6, <1>15, <1>1, <1>8
  <2>3. high \in Elements(s) /\ a.at <= high
    BY <2>2, <1>13, <1>8, <1>1 DEF Elements, n
  <2>4. high \notin Other
    BY <2>2, <2>3, <1>11
  <2>5. high \in Here
    BY <2>2, <2>4, <1>13, <1>1
  <2> QED
    BY <2>1, <2>5, <1>5, <1>9, <1>6
<1> QED
  BY <1>14, <1>15, <1>1, <1>8

\* What r is to be put in front of is greater, what it is put behind is not.
LEMMA FirstAfterFound ==
  ASSUME NEW o \in Order, NEW r \in Record, NEW s \in Seq(Record), Sorted(o, s)
  PROVE  /\ find_first_after(o, r, s) \in 0 .. Len(s)
         /\ \A k \in Elements(s) :
              /\ k < find_first_after(o, r, s) => 0 <= Srch(o, r, s, k)
              /\ find_first_after(o, r, s) <= k => Srch(o, r, s, k) < 0
<1> DEFINE n == Len(s)
           a == search_list_for(o, r, s)
           back == a.at > 0 /\ a.at < n /\ Srch(o, r, s, a.at) < 0
           start == IF back THEN a.at - 1 ELSE a.at
           Stops == {k \in Elements(s) : Srch(o, r, s, k) < 0}
           u == ScanUp(start, n, Stops)
<1>1. n \in Nat
  OBVIOUS
<1>2. find_first_after(o, r, s) = u
  BY DEF find_first_after
<1>3. /\ \A k \in Elements(s) : Srch(o, r, s, k) \in Int
      /\ \A j, k \in Elements(s) : j <= k => Srch(o, r, s, k) <= Srch(o, r, s, j)
  BY SrchFalls
<1>4. start \in 0 .. n /\ \A k \in Elements(s) : k < start => 0 <= Srch(o, r, s, k)
  <2>1. CASE n = 0
    <3>1. s = <<>>
      BY <2>1
    <3>2. a.at = 0
      BY <3>1 DEF search_list_for, Inexact
    <3>3. ~back /\ start = 0
      BY <3>2, <2>1
    <3>4. Elements(s) = {}
      BY <2>1 DEF Elements
    <3> QED
      BY <3>3, <3>4, <2>1
  <2>2. CASE n # 0
    <3>1. Answers(o, r, s, a) /\ a.exact \in BOOLEAN
      BY <2>2, SearchAnswers
    <3> HIDE DEF a
    <3>2. a.at \in 0 .. n - 1
      BY <3>1 DEF Answers, Elements
    <3>3. start \in 0 .. n /\ start <= a.at
      BY <3>2
    <3>4. ASSUME NEW k \in Elements(s), k < start PROVE 0 <= Srch(o, r, s, k)
      <4>1. k < a.at
        BY <3>3, <3>4, <3>2 DEF Elements
      <4>2. CASE ~a.exact
        <5>1. 0 < Srch(o, r, s, k)
          BY <4>1, <4>2, <3>1 DEF Answers
        <5> QED
          BY <5>1, <1>3
      <4>3. CASE a.exact
        <5>1. Srch(o, r, s, a.at) = 0 /\ a.at \in Elements(s)
          BY <4>3, <3>1 DEF Answers
        <5>2. k <= a.at
          BY <4>1, <3>2 DEF Elements
        <5> QED
          BY <5>1, <5>2, <1>3
      <4> QED
        BY <4>2, <4>3, <3>1
    <3> QED
      BY <3>3, <3>4
  <2> QED
    BY <2>1, <2>2
<1>5. /\ u \in start .. n
      /\ u = n \/ u \in Stops
      /\ \A k \in start .. n : k < u => k \notin Stops
  <2>1. start \in Int /\ n \in Int /\ start <= n
    BY <1>4, <1>1
  <2> HIDE DEF start, Stops, n
  <2> QED
    BY <2>1, ScanUpStops
<1> HIDE DEF start, u
<1>6. ASSUME NEW k \in Elements(s), k < u PROVE 0 <= Srch(o, r, s, k)
  <2>1. CASE k < start
    BY <2>1, <1>4
  <2>2. CASE ~(k < start)
    <3>1. k \in start .. n
      BY <2>2, <1>4, <1>1 DEF Elements
    <3>2. ~(Srch(o, r, s, k) < 0)
      BY <3>1, <1>5, <1>6
    <3> QED
      BY <3>2, <1>3
  <2> QED
    BY <2>1, <2>2
<1>7. ASSUME NEW k \in Elements(s), u <= k PROVE Srch(o, r, s, k) < 0
  <2>1. u # n
    BY <1>7, <1>1, <1>4, <1>5 DEF Elements
  <2>2. u \in Elements(s) /\ Srch(o, r, s, u) < 0
    BY <2>1, <1>5
  <2>3. Srch(o, r, s, k) <= Srch(o, r, s, u)
    BY <2>2, <1>3, <1>7
  <2>4. Srch(o, r, s, k) \in Int /\ Srch(o, r, s, u) \in Int
    BY <2>2, <1>3
  <2> QED
    BY <2>2, <2>3, <2>4
<1>8. u \in 0 .. n
  BY <1>4, <1>5, <1>1
<1> QED
  BY <1>2, <1>6, <1>7, <1>8

-----------------------------------------------------------------------------
(* list_qsort.                                                             *)

\* One turn of the loop in list_qsort.
FiOf(o, pivot, end, p) ==
  IF p.fi >= end THEN p.fi
  ELSE ScanUp(p.fi, end, {k \in 0 .. cur_no - 1 : AtPivot(o, pivot, p.list, k) >= 0})

LiOf(o, pivot, begin, p) ==
  IF p.li <= begin THEN p.li
  ELSE ScanDown(p.li, begin, {k \in 0 .. cur_no - 1 : AtPivot(o, pivot, p.list, k) <= 0})

Swapped(p, fi, li) == [list |-> Swap(p.list, fi, li), fi |-> fi + 1, li |-> li - 1]

PartitionStep(o, pivot, begin, end, g, p) ==
  IF FiOf(o, pivot, end, p) <= LiOf(o, pivot, begin, p)
    THEN g[Swapped(p, FiOf(o, pivot, end, p), LiOf(o, pivot, begin, p))]
    ELSE [list |-> p.list, fi |-> FiOf(o, pivot, end, p), li |-> LiOf(o, pivot, begin, p)]

ToSplit(p) == p.li - p.fi + cur_no + 1

LEMMA SwapSwaps ==
  ASSUME cur_no \in Nat, NEW l \in Lists, NEW i \in 0 .. cur_no - 1, NEW j \in 0 .. cur_no - 1
  PROVE  /\ Swap(l, i, j) \in Lists
         /\ Swap(l, i, j)[i + 1] = l[j + 1] /\ Swap(l, i, j)[j + 1] = l[i + 1]
         /\ \A k \in 0 .. cur_no - 1 : k # i /\ k # j => Swap(l, i, j)[k + 1] = l[k + 1]
<1> DEFINE n == cur_no
<1>1. n \in Nat
  OBVIOUS
<1> HIDE DEF n
<1>2. i + 1 \in 1 .. n /\ j + 1 \in 1 .. n
  BY <1>1 DEF n
<1>3. l \in [1 .. n -> 0 .. n - 1]
  BY DEF Lists, n
<1>4. l[i + 1] \in 0 .. n - 1 /\ l[j + 1] \in 0 .. n - 1
  BY <1>2, <1>3
<1>5. Swap(l, i, j) \in [1 .. n -> 0 .. n - 1]
  BY <1>3, <1>4 DEF Swap
<1>6. \A k \in 0 .. n - 1 : k + 1 \in 1 .. n
  BY <1>1
<1>7. \A k \in 0 .. n - 1 : k # i /\ k # j => Swap(l, i, j)[k + 1] = l[k + 1]
  <2> TAKE k \in 0 .. n - 1
  <2>1. k # i /\ k # j => k + 1 # i + 1 /\ k + 1 # j + 1
    BY <1>1, <1>2
  <2> QED
    BY <2>1, <1>3, <1>6 DEF Swap
<1>8. Swap(l, i, j)[j + 1] = l[i + 1] /\ Swap(l, i, j)[i + 1] = l[j + 1]
  BY <1>2, <1>3 DEF Swap
<1> QED
  BY <1>5, <1>7, <1>8 DEF n, Lists

LEMMA EndsMove ==
  ASSUME cur_no \in Nat, NEW o, NEW pivot, NEW begin \in 0 .. cur_no - 1,
         NEW end \in 0 .. cur_no - 1, NEW p \in Ends
  PROVE  LET fi == FiOf(o, pivot, end, p)
             li == LiOf(o, pivot, begin, p)
         IN  /\ fi \in 0 .. cur_no /\ p.fi <= fi
             /\ li \in -1 .. cur_no - 1 /\ li <= p.li
             /\ fi <= li => /\ Swapped(p, fi, li) \in Ends
                            /\ ToSplit(Swapped(p, fi, li)) < ToSplit(p)
<1> DEFINE n == cur_no
           fi == FiOf(o, pivot, end, p)
           li == LiOf(o, pivot, begin, p)
           Ups == {k \in 0 .. n - 1 : AtPivot(o, pivot, p.list, k) >= 0}
           Downs == {k \in 0 .. n - 1 : AtPivot(o, pivot, p.list, k) <= 0}
<1>1. n \in Nat
  OBVIOUS
<1>2. p.list \in Lists /\ p.fi \in 0 .. n /\ p.li \in -1 .. n - 1
  BY DEF Ends
<1>3. fi = IF p.fi >= end THEN p.fi ELSE ScanUp(p.fi, end, Ups)
  BY DEF FiOf
<1>4. li = IF p.li <= begin THEN p.li ELSE ScanDown(p.li, begin, Downs)
  BY DEF LiOf
<1> HIDE DEF fi, li, n, Ups, Downs
<1>5. begin \in 0 .. n - 1 /\ end \in 0 .. n - 1
  BY DEF n
<1>6. fi \in 0 .. n /\ p.fi <= fi
  <2>1. CASE p.fi >= end
    BY <2>1, <1>2, <1>3
  <2>2. CASE ~(p.fi >= end)
    <3>1. p.fi \in Int /\ end \in Int /\ p.fi <= end
      BY <2>2, <1>2, <1>5
    <3>2. ScanUp(p.fi, end, Ups) \in p.fi .. end
      BY <3>1, ScanUpStops
    <3>3. fi \in p.fi .. end
      BY <3>2, <2>2, <1>3
    <3> QED
      BY <3>3, <1>1, <1>2, <1>5
  <2> QED
    BY <2>1, <2>2
<1>7. li \in -1 .. n - 1 /\ li <= p.li
  <2>1. CASE p.li <= begin
    BY <2>1, <1>2, <1>4
  <2>2. CASE ~(p.li <= begin)
    <3>1. p.li \in Int /\ begin \in Int /\ begin <= p.li
      BY <2>2, <1>2, <1>5
    <3>2. ScanDown(p.li, begin, Downs) \in begin .. p.li
      BY <3>1, ScanDownStops
    <3>3. li \in begin .. p.li
      BY <3>2, <2>2, <1>4
    <3> QED
      BY <3>3, <1>1, <1>2, <1>5
  <2> QED
    BY <2>1, <2>2
<1>8. ASSUME fi <= li
      PROVE  Swapped(p, fi, li) \in Ends /\ ToSplit(Swapped(p, fi, li)) < ToSplit(p)
  <2>1. fi \in 0 .. n - 1 /\ li \in 0 .. n - 1
    BY <1>8, <1>6, <1>7, <1>1
  <2>2. Swap(p.list, fi, li) \in Lists
    BY <2>1, <1>1, <1>2, SwapSwaps DEF n
  <2>3. fi + 1 \in 0 .. n /\ li - 1 \in -1 .. n - 1
    BY <2>1, <1>1
  <2>4. Swapped(p, fi, li) \in Ends
    BY <2>2, <2>3 DEF Ends, Swapped, n
  <2>5. (li - 1) - (fi + 1) + n + 1 < p.li - p.fi + n + 1
    BY <1>1, <1>2, <1>6, <1>7
  <2> QED
    BY <2>4, <2>5 DEF Swapped, ToSplit, n
<1> QED
  BY <1>6, <1>7, <1>8 DEF n, fi, li

LEMMA ToSplitNat ==
  ASSUME cur_no \in Nat, NEW p \in Ends
  PROVE  ToSplit(p) \in Nat /\ ToSplit(p) < 2 * cur_no + 1
<1> DEFINE n == cur_no
<1>1. n \in Nat
  OBVIOUS
<1>2. p.fi \in 0 .. n /\ p.li \in -1 .. n - 1
  BY DEF Ends
<1>3. ToSplit(p) = p.li - p.fi + n + 1
  BY DEF ToSplit
<1> HIDE DEF n
<1>4. ToSplit(p) \in Nat /\ ToSplit(p) < 2 * n + 1
  BY <1>1, <1>2, <1>3
<1> QED
  BY <1>4 DEF n

LEMMA PartitionDefined ==
  ASSUME cur_no \in Nat, NEW o, NEW pivot, NEW begin \in 0 .. cur_no - 1,
         NEW end \in 0 .. cur_no - 1
  PROVE  /\ Partition(o, pivot, begin, end) \in [Ends -> Ends]
         /\ \A p \in Ends : Partition(o, pivot, begin, end)[p] =
              PartitionStep(o, pivot, begin, end, Partition(o, pivot, begin, end), p)
<1> DEFINE D == Ends
           step(g) == [p \in D |-> PartitionStep(o, pivot, begin, end, g, p)]
           F == [g \in [D -> D] |-> step(g)]
           m == [p \in D |-> ToSplit(p)]
           N == 2 * cur_no + 1
<1>1. ASSUME NEW g, NEW p \in D, \A q \in D : m[q] < m[p] => g[q] \in D
      PROVE  PartitionStep(o, pivot, begin, end, g, p) \in D
  <2> DEFINE fi == FiOf(o, pivot, end, p)
             li == LiOf(o, pivot, begin, p)
  <2>1. /\ fi \in 0 .. cur_no /\ li \in -1 .. cur_no - 1
        /\ fi <= li => Swapped(p, fi, li) \in D /\ m[Swapped(p, fi, li)] < m[p]
    BY EndsMove
  <2>2. [list |-> p.list, fi |-> fi, li |-> li] \in D
    BY <2>1 DEF Ends
  <2>3. fi <= li => g[Swapped(p, fi, li)] \in D
    BY <2>1, <1>1
  <2>4. PartitionStep(o, pivot, begin, end, g, p) =
          IF fi <= li THEN g[Swapped(p, fi, li)] ELSE [list |-> p.list, fi |-> fi, li |-> li]
    BY DEF PartitionStep
  <2> HIDE DEF D, fi, li
  <2> QED
    BY <2>2, <2>3, <2>4
<1>2. Transforms(F, D, D)
  <2>1. ASSUME NEW g \in [D -> D], NEW p \in D
        PROVE  PartitionStep(o, pivot, begin, end, g, p) \in D
    BY <1>1
  <2> HIDE DEF D
  <2> QED
    BY <2>1 DEF Transforms
<1>3. m \in [D -> Nat] /\ N \in Nat /\ \A p \in D : m[p] < N
  BY ToSplitNat
<1>4. ASSUME NEW g \in [D -> D], NEW h \in [D -> D], NEW p \in D,
             \A q \in D : m[q] < m[p] => g[q] = h[q]
      PROVE  F[g][p] = F[h][p]
  <2> DEFINE fi == FiOf(o, pivot, end, p)
             li == LiOf(o, pivot, begin, p)
  <2>1. fi <= li => Swapped(p, fi, li) \in D /\ m[Swapped(p, fi, li)] < m[p]
    BY EndsMove
  <2>2. fi <= li => g[Swapped(p, fi, li)] = h[Swapped(p, fi, li)]
    BY <2>1, <1>4
  <2>3. PartitionStep(o, pivot, begin, end, g, p) = PartitionStep(o, pivot, begin, end, h, p)
    BY <2>2 DEF PartitionStep
  <2> HIDE DEF D
  <2> QED
    BY <2>3
<1>5. [p \in D |-> p] \in [D -> D]
  OBVIOUS
<1>6. HasFixpoint(F, D, D)
  <2>1. LooksBelow(F, m, D, D)
    BY <1>4 DEF LooksBelow
  <2>2. Within(m, D, N)
    BY <1>3 DEF Within
  <2> DEFINE e == [p \in D |-> p]
  <2>3. e \in [D -> D]
    BY <1>5
  <2> HIDE DEF D, F, m, N, e
  <2> QED
    BY <1>2, <2>1, <2>2, <2>3, RecursionEnds
<1>7. PICK g \in [D -> D] : g = step(g)
  <2> HIDE DEF D
  <2> QED
    BY <1>6 DEF HasFixpoint
<1> DEFINE f == Partition(o, pivot, begin, end)
<1>8. f = CHOOSE x : x = step(x)
  BY DEF Partition, PartitionStep, FiOf, LiOf, Swapped
<1>9. f = step(f)
  <2> HIDE DEF D, f
  <2> QED
    BY <1>7, <1>8
<1> HIDE DEF f
<1>10. \A p \in D : f[p] = PartitionStep(o, pivot, begin, end, f, p)
  BY <1>9
<1>11. \A p \in D : f[p] \in D
  <2> DEFINE S == {p \in D : f[p] \in D}
  <2>1. \A p \in D : (\A q \in D : m[q] < m[p] => q \in S) => p \in S
    BY <1>1, <1>10
  <2>2. m \in [D -> Nat]
    BY <1>3
  <2> HIDE DEF S, m, D
  <2>3. \A p \in D : p \in S
    BY <2>1, <2>2, SmallestFirst
  <2> QED
    BY <2>3 DEF S
<1>12. f \in [D -> D]
  <2> HIDE DEF D
  <2> QED
    BY <1>9, <1>11
<1> QED
  BY <1>10, <1>12 DEF f

\* Between b and e the elements of m are those of l, elsewhere nothing changes.
Rearranged(l, m, b, e) ==
  /\ \A k \in 0 .. cur_no - 1 : k \notin b .. e => m[k + 1] = l[k + 1]
  /\ \A k \in b .. e : \E j \in b .. e : m[k + 1] = l[j + 1]
  /\ \A j \in b .. e : \E k \in b .. e : m[k + 1] = l[j + 1]

\* What is left of fi is not above the pivot, what is right of li not below, and
\* neither scan runs into the end of the range.
Splitting(o, pivot, begin, end, p) ==
  /\ begin <= p.fi /\ p.li <= end
  /\ \A k \in begin .. end :
       /\ k < p.fi => AtPivot(o, pivot, p.list, k) <= 0
       /\ p.li < k => 0 <= AtPivot(o, pivot, p.list, k)
  /\ p.fi <= end => \E k \in p.fi .. end : 0 <= AtPivot(o, pivot, p.list, k)
  /\ begin <= p.li => \E k \in begin .. p.li : AtPivot(o, pivot, p.list, k) <= 0

LEMMA AtPivotInt ==
  ASSUME data \in Seq(Record), NEW o \in Order, NEW pivot \in Record, NEW l \in Lists,
         NEW k \in 0 .. cur_no - 1
  PROVE  AtPivot(o, pivot, l, k) \in Int
<1>1. cur_no \in Nat
  BY DEF cur_no
<1>2. l[k + 1] \in 0 .. cur_no - 1
  <2>1. k + 1 \in 1 .. cur_no
    BY <1>1
  <2> QED
    BY <2>1 DEF Lists
<1>3. l[k + 1] + 1 \in 1 .. Len(data)
  BY <1>1, <1>2 DEF cur_no
<1>4. data[l[k + 1] + 1] \in Record
  BY <1>3
<1>5. Key[o][data[l[k + 1] + 1]] \in Int /\ Key[o][pivot] \in Int
  BY <1>4, ListAssumption
<1> QED
  BY <1>5 DEF AtPivot, cf

\* Where the scans of one turn stop.
LEMMA ScansSplit ==
  ASSUME data \in Seq(Record), NEW o \in Order, NEW pivot \in Record,
         NEW begin \in 0 .. cur_no - 1, NEW end \in 0 .. cur_no - 1, begin <= end,
         NEW p \in Ends, Splitting(o, pivot, begin, end, p)
  PROVE  LET fi == FiOf(o, pivot, end, p)
             li == LiOf(o, pivot, begin, p)
         IN  /\ \A k \in begin .. end :
                  /\ k < fi => AtPivot(o, pivot, p.list, k) <= 0
                  /\ li < k => 0 <= AtPivot(o, pivot, p.list, k)
             /\ \A k \in p.fi .. end : 0 <= AtPivot(o, pivot, p.list, k) => fi <= k
             /\ \A k \in begin .. p.li : AtPivot(o, pivot, p.list, k) <= 0 => k <= li
             /\ begin <= fi /\ li <= end
             /\ fi <= li => /\ 0 <= AtPivot(o, pivot, p.list, fi)
                            /\ AtPivot(o, pivot, p.list, li) <= 0
<1> DEFINE n == cur_no
           fi == FiOf(o, pivot, end, p)
           li == LiOf(o, pivot, begin, p)
           At(k) == AtPivot(o, pivot, p.list, k)
           Ups == {k \in 0 .. n - 1 : At(k) >= 0}
           Downs == {k \in 0 .. n - 1 : At(k) <= 0}
<1>1. n \in Nat
  BY DEF cur_no
<1>2. p.list \in Lists /\ p.fi \in 0 .. n /\ p.li \in -1 .. n - 1
  BY DEF Ends
<1>3. \A k \in 0 .. n - 1 : At(k) \in Int
  BY <1>2, AtPivotInt
<1>4. fi = IF p.fi >= end THEN p.fi ELSE ScanUp(p.fi, end, Ups)
  BY DEF FiOf
<1>5. li = IF p.li <= begin THEN p.li ELSE ScanDown(p.li, begin, Downs)
  BY DEF LiOf
<1>6. fi \in 0 .. n /\ p.fi <= fi /\ li \in -1 .. n - 1 /\ li <= p.li
  BY <1>1, EndsMove
<1>7. /\ begin <= p.fi /\ p.li <= end
      /\ \A k \in begin .. end : (k < p.fi => At(k) <= 0) /\ (p.li < k => 0 <= At(k))
      /\ p.fi <= end => \E k \in p.fi .. end : 0 <= At(k)
      /\ begin <= p.li => \E k \in begin .. p.li : At(k) <= 0
  BY DEF Splitting
<1>8. begin \in 0 .. n - 1 /\ end \in 0 .. n - 1
  OBVIOUS
<1>9. /\ \A k \in 0 .. n - 1 : k \in Ups <=> 0 <= At(k)
      /\ \A k \in 0 .. n - 1 : k \in Downs <=> At(k) <= 0
  BY <1>3
<1> HIDE DEF fi, li, n, At, Ups, Downs
<1>10. p.fi < end =>
         /\ fi \in p.fi .. end /\ (fi = end \/ fi \in Ups)
         /\ \A k \in p.fi .. end : k < fi => k \notin Ups
  <2> HAVE p.fi < end
  <2>1. p.fi \in Int /\ end \in Int /\ p.fi <= end /\ ~(p.fi >= end)
    BY <1>2, <1>8
  <2> QED
    BY <2>1, <1>4, ScanUpStops
<1>11. begin < p.li =>
         /\ li \in begin .. p.li /\ (li = begin \/ li \in Downs)
         /\ \A k \in begin .. p.li : li < k => k \notin Downs
  <2> HAVE begin < p.li
  <2>1. p.li \in Int /\ begin \in Int /\ begin <= p.li /\ ~(p.li <= begin)
    BY <1>2, <1>8
  <2> QED
    BY <2>1, <1>5, ScanDownStops
<1>12. ~(p.fi < end) => fi = p.fi
  BY <1>4, <1>2, <1>8
<1>13. ~(begin < p.li) => li = p.li
  BY <1>5, <1>2, <1>8
<1>14. ASSUME NEW k \in p.fi .. end, 0 <= At(k) PROVE fi <= k
  <2>1. k \in 0 .. n - 1 /\ k \in Ups
    BY <1>1, <1>2, <1>8, <1>9, <1>14
  <2>2. CASE p.fi < end
    BY <2>1, <2>2, <1>10, <1>6
  <2>3. CASE ~(p.fi < end)
    BY <2>3, <1>12, <1>2
  <2> QED
    BY <2>2, <2>3
<1>15. ASSUME NEW k \in begin .. p.li, At(k) <= 0 PROVE k <= li
  <2>1. k \in 0 .. n - 1 /\ k \in Downs
    BY <1>1, <1>2, <1>8, <1>9, <1>15
  <2>2. CASE begin < p.li
    BY <2>1, <2>2, <1>11, <1>6
  <2>3. CASE ~(begin < p.li)
    BY <2>3, <1>13, <1>2
  <2> QED
    BY <2>2, <2>3
<1>16. ASSUME NEW k \in begin .. end, k < fi PROVE At(k) <= 0
  <2>1. k \in 0 .. n - 1
    BY <1>1, <1>8
  <2>2. CASE k < p.fi
    BY <2>2, <1>7
  <2>3. CASE ~(k < p.fi)
    <3>1. k \in p.fi .. end
      BY <2>1, <2>3, <1>2
    <3>2. ~(0 <= At(k))
      BY <3>1, <1>14, <1>16, <1>6, <2>1
    <3> QED
      BY <3>2, <2>1, <1>3
  <2> QED
    BY <2>2, <2>3
<1>17. ASSUME NEW k \in begin .. end, li < k PROVE 0 <= At(k)
  <2>1. k \in 0 .. n - 1
    BY <1>1, <1>8
  <2>2. CASE p.li < k
    BY <2>2, <1>7
  <2>3. CASE ~(p.li < k)
    <3>1. k \in begin .. p.li
      BY <2>1, <2>3, <1>2
    <3>2. ~(At(k) <= 0)
      BY <3>1, <1>15, <1>17, <1>6, <2>1
    <3> QED
      BY <3>2, <2>1, <1>3
  <2> QED
    BY <2>2, <2>3
<1>18. begin <= fi /\ li <= end
  BY <1>6, <1>7, <1>8, <1>2, <1>1
<1>19. ASSUME fi <= li PROVE 0 <= At(fi) /\ At(li) <= 0
  <2>1. fi \in begin .. end /\ li \in begin .. end /\ fi \in 0 .. n - 1 /\ li \in 0 .. n - 1
    BY <1>18, <1>19, <1>6, <1>8, <1>1
  <2>2. p.fi <= end /\ begin <= p.li
    BY <2>1, <1>6, <1>2, <1>8
  <2>3. 0 <= At(fi)
    <3>1. PICK k \in p.fi .. end : 0 <= At(k)
      BY <2>2, <1>7
    <3>2. fi <= k
      BY <3>1, <1>14
    <3>3. CASE fi = end \/ ~(p.fi < end)
      <4>1. k = fi
        BY <3>2, <3>3, <1>12, <2>1, <2>2, <1>2, <1>8
      <4> QED
        BY <4>1, <3>1
    <3>4. CASE ~(fi = end \/ ~(p.fi < end))
      BY <3>4, <1>10, <1>9, <2>1
    <3> QED
      BY <3>3, <3>4
  <2>4. At(li) <= 0
    <3>1. PICK k \in begin .. p.li : At(k) <= 0
      BY <2>2, <1>7
    <3>2. k <= li
      BY <3>1, <1>15
    <3>3. CASE li = begin \/ ~(begin < p.li)
      <4>1. k = li
        BY <3>2, <3>3, <1>13, <2>1, <2>2, <1>2, <1>8
      <4> QED
        BY <4>1, <3>1
    <3>4. CASE ~(li = begin \/ ~(begin < p.li))
      BY <3>4, <1>11, <1>9, <2>1
    <3> QED
      BY <3>3, <3>4
  <2> QED
    BY <2>3, <2>4
<1> QED
  BY <1>14, <1>15, <1>16, <1>17, <1>18, <1>19 DEF fi, li, At

\* m is l with elements i and j exchanged.
SwappedIn(l, m, i, j) ==
  /\ m[i + 1] = l[j + 1] /\ m[j + 1] = l[i + 1]
  /\ \A k \in 0 .. cur_no - 1 : k # i /\ k # j => m[k + 1] = l[k + 1]

LEMMA SwapIs ==
  ASSUME cur_no \in Nat, NEW l \in Lists, NEW i \in 0 .. cur_no - 1, NEW j \in 0 .. cur_no - 1
  PROVE  SwappedIn(l, Swap(l, i, j), i, j)
BY SwapSwaps DEF SwappedIn

LEMMA SwapSplits ==
  ASSUME data \in Seq(Record), NEW o \in Order, NEW pivot \in Record,
         NEW begin \in 0 .. cur_no - 1, NEW end \in 0 .. cur_no - 1, begin <= end,
         NEW p \in Ends, Splitting(o, pivot, begin, end, p),
         FiOf(o, pivot, end, p) <= LiOf(o, pivot, begin, p)
  PROVE  LET q == Swapped(p, FiOf(o, pivot, end, p), LiOf(o, pivot, begin, p))
         IN  Splitting(o, pivot, begin, end, q) /\ Rearranged(p.list, q.list, begin, end)
<1> DEFINE n == cur_no
           fi == FiOf(o, pivot, end, p)
           li == LiOf(o, pivot, begin, p)
           q == Swapped(p, fi, li)
           At(k) == AtPivot(o, pivot, p.list, k)
           New(k) == AtPivot(o, pivot, q.list, k)
<1>1. n \in Nat
  BY DEF cur_no
<1>2. p.list \in Lists
  BY DEF Ends
<1>3. /\ \A k \in begin .. end : (k < fi => At(k) <= 0) /\ (li < k => 0 <= At(k))
      /\ begin <= fi /\ li <= end /\ 0 <= At(fi) /\ At(li) <= 0
  BY ScansSplit
<1>4. fi \in 0 .. n /\ li \in -1 .. n - 1
  BY <1>1, EndsMove
<1>5. q.list = Swap(p.list, fi, li) /\ q.fi = fi + 1 /\ q.li = li - 1
  BY DEF Swapped
<1>6. begin \in 0 .. n - 1 /\ end \in 0 .. n - 1 /\ fi <= li /\ begin <= end
  OBVIOUS
<1> HIDE DEF n, fi, li, q, At, New
<1>7. fi \in begin .. end /\ li \in begin .. end /\ fi \in 0 .. n - 1 /\ li \in 0 .. n - 1
  BY <1>3, <1>4, <1>6, <1>1
<1>8. /\ q.list[fi + 1] = p.list[li + 1] /\ q.list[li + 1] = p.list[fi + 1]
      /\ \A k \in 0 .. n - 1 : k # fi /\ k # li => q.list[k + 1] = p.list[k + 1]
  <2> DEFINE l == p.list
             m == Swap(l, fi, li)
  <2>1. cur_no \in Nat /\ l \in Lists /\ fi \in 0 .. cur_no - 1 /\ li \in 0 .. cur_no - 1
    BY <1>1, <1>2, <1>7 DEF n
  <2> HIDE DEF l
  <2>2. /\ m[fi + 1] = l[li + 1] /\ m[li + 1] = l[fi + 1]
        /\ \A k \in 0 .. cur_no - 1 : k # fi /\ k # li => m[k + 1] = l[k + 1]
    <3>1. SwappedIn(l, m, fi, li)
      BY <2>1, SwapIs
    <3> QED
      BY <3>1 DEF SwappedIn
  <2> QED
    BY <2>2, <1>5 DEF n, l
<1>9. /\ New(fi) = At(li) /\ New(li) = At(fi)
      /\ \A k \in 0 .. n - 1 : k # fi /\ k # li => New(k) = At(k)
  BY <1>8 DEF New, At, AtPivot
<1>10. \A k \in begin .. end : k \in 0 .. n - 1
  BY <1>6, <1>1
<1>11. ASSUME NEW k \in begin .. end, k < fi + 1 PROVE New(k) <= 0
  <2>1. CASE k = fi
    BY <2>1, <1>9, <1>3
  <2>2. CASE k # fi
    <3>1. k < fi /\ k # li
      BY <2>2, <1>11, <1>10, <1>7, <1>6
    <3> QED
      BY <3>1, <1>9, <1>10, <1>3
  <2> QED
    BY <2>1, <2>2
<1>12. ASSUME NEW k \in begin .. end, li - 1 < k PROVE 0 <= New(k)
  <2>1. CASE k = li
    BY <2>1, <1>9, <1>3
  <2>2. CASE k # li
    <3>1. li < k /\ k # fi
      BY <2>2, <1>12, <1>10, <1>7, <1>6
    <3> QED
      BY <3>1, <1>9, <1>10, <1>3
  <2> QED
    BY <2>1, <2>2
<1>13. ASSUME fi + 1 <= end PROVE \E k \in fi + 1 .. end : 0 <= New(k)
  <2>1. CASE fi < li
    <3>1. li \in fi + 1 .. end
      BY <2>1, <1>7
    <3> QED
      BY <3>1, <1>9, <1>3
  <2>2. CASE fi = li
    <3>1. end \in fi + 1 .. end /\ li < end /\ end \in begin .. end
      BY <2>2, <1>13, <1>7, <1>6
    <3>2. 0 <= New(end)
      BY <3>1, <1>12, <1>7, <1>6
    <3> QED
      BY <3>1, <3>2
  <2> QED
    BY <2>1, <2>2, <1>6, <1>7
<1>14. ASSUME begin <= li - 1 PROVE \E k \in begin .. li - 1 : New(k) <= 0
  <2>1. CASE fi < li
    <3>1. fi \in begin .. li - 1
      BY <2>1, <1>7
    <3> QED
      BY <3>1, <1>9, <1>3
  <2>2. CASE fi = li
    <3>1. begin \in begin .. li - 1 /\ begin < fi /\ begin \in begin .. end
      BY <2>2, <1>14, <1>7, <1>6
    <3>2. New(begin) <= 0
      BY <3>1, <1>11, <1>7, <1>6
    <3> QED
      BY <3>1, <3>2
  <2> QED
    BY <2>1, <2>2, <1>6, <1>7
<1>15. begin <= fi + 1 /\ li - 1 <= end
  BY <1>7, <1>6
<1>16. Splitting(o, pivot, begin, end, q)
  BY <1>5, <1>11, <1>12, <1>13, <1>14, <1>15 DEF Splitting, New
<1>17. Rearranged(p.list, q.list, begin, end)
  <2>1. ASSUME NEW k \in 0 .. n - 1, k \notin begin .. end PROVE q.list[k + 1] = p.list[k + 1]
    <3>1. k # fi /\ k # li
      BY <2>1, <1>7
    <3> QED
      BY <3>1, <1>8
  <2>2. ASSUME NEW k \in begin .. end
        PROVE  /\ \E j \in begin .. end : q.list[k + 1] = p.list[j + 1]
               /\ \E j \in begin .. end : q.list[j + 1] = p.list[k + 1]
    <3>1. CASE k = fi
      BY <3>1, <1>7, <1>8
    <3>2. CASE k = li
      BY <3>2, <1>7, <1>8
    <3>3. CASE k # fi /\ k # li
      BY <3>3, <1>8, <1>10
    <3> QED
      BY <3>1, <3>2, <3>3
  <2> QED
    BY <2>1, <2>2 DEF Rearranged, n
<1> QED
  BY <1>16, <1>17 DEF q, fi, li

LEMMA RearrangedTwice ==
  ASSUME NEW l, NEW m, NEW h, NEW b, NEW e,
         Rearranged(l, m, b, e), Rearranged(m, h, b, e)
  PROVE  Rearranged(l, h, b, e)
<1>1. \A k \in 0 .. cur_no - 1 : k \notin b .. e => h[k + 1] = l[k + 1]
  BY DEF Rearranged
<1>2. ASSUME NEW k \in b .. e PROVE \E j \in b .. e : h[k + 1] = l[j + 1]
  <2>1. PICK i \in b .. e : h[k + 1] = m[i + 1]
    BY DEF Rearranged
  <2>2. PICK j \in b .. e : m[i + 1] = l[j + 1]
    BY DEF Rearranged
  <2> QED
    BY <2>1, <2>2
<1>3. ASSUME NEW j \in b .. e PROVE \E k \in b .. e : h[k + 1] = l[j + 1]
  <2>1. PICK i \in b .. e : m[i + 1] = l[j + 1]
    BY DEF Rearranged
  <2>2. PICK k \in b .. e : h[k + 1] = m[i + 1]
    BY DEF Rearranged
  <2> QED
    BY <2>1, <2>2
<1> QED
  BY <1>1, <1>2, <1>3 DEF Rearranged

LEMMA RearrangedWithin ==
  ASSUME cur_no \in Nat, NEW l, NEW m, NEW b \in Int, NEW e \in Int, NEW c \in Int, NEW d \in Int,
         Rearranged(l, m, b, e), c <= b, e <= d, 0 <= c, d <= cur_no - 1
  PROVE  Rearranged(l, m, c, d)
<1> DEFINE n == cur_no
<1>1. n \in Nat /\ d <= n - 1
  OBVIOUS
<1>2. /\ \A k \in 0 .. n - 1 : k \notin b .. e => m[k + 1] = l[k + 1]
      /\ \A k \in b .. e : \E j \in b .. e : m[k + 1] = l[j + 1]
      /\ \A j \in b .. e : \E k \in b .. e : m[k + 1] = l[j + 1]
  BY DEF Rearranged
<1> HIDE DEF n
<1>3. \A k \in b .. e : k \in c .. d
  OBVIOUS
<1>4. \A k \in c .. d : k \in 0 .. n - 1
  BY <1>1
<1>5. \A k \in 0 .. n - 1 : k \notin c .. d => m[k + 1] = l[k + 1]
  BY <1>2, <1>3
<1>6. ASSUME NEW k \in c .. d
      PROVE  (\E j \in c .. d : m[k + 1] = l[j + 1]) /\ (\E j \in c .. d : m[j + 1] = l[k + 1])
  <2>1. CASE k \in b .. e
    BY <2>1, <1>2, <1>3
  <2>2. CASE k \notin b .. e
    BY <2>2, <1>2, <1>4
  <2> QED
    BY <2>1, <2>2
<1> QED
  BY <1>5, <1>6 DEF Rearranged, n

\* The loop in list_qsort, begun at p, has ended at q.
Split(o, pivot, begin, end, p, q) ==
  /\ q.li < q.fi /\ p.fi <= q.fi /\ q.li <= p.li /\ begin <= q.fi /\ q.li <= end
  /\ \A k \in begin .. end :
       /\ k < q.fi => AtPivot(o, pivot, q.list, k) <= 0
       /\ q.li < k => 0 <= AtPivot(o, pivot, q.list, k)
  /\ Rearranged(p.list, q.list, begin, end)

LEMMA EndsAreInt ==
  ASSUME cur_no \in Nat, NEW z \in Ends
  PROVE  z.fi \in Int /\ z.li \in Int
<1> DEFINE n == cur_no
<1>1. n \in Nat /\ z.fi \in 0 .. n /\ z.li \in -1 .. n - 1
  BY DEF Ends
<1> HIDE DEF n
<1> QED
  BY <1>1

LEMMA PartitionSplits ==
  ASSUME data \in Seq(Record), NEW o \in Order, NEW pivot \in Record,
         NEW begin \in 0 .. cur_no - 1, NEW end \in 0 .. cur_no - 1, begin <= end,
         NEW p \in Ends, Splitting(o, pivot, begin, end, p)
  PROVE  Split(o, pivot, begin, end, p, Partition(o, pivot, begin, end)[p])
<1> DEFINE D == Ends
           m == [q \in D |-> ToSplit(q)]
           B == Partition(o, pivot, begin, end)
           S == {q \in D : Splitting(o, pivot, begin, end, q) => Split(o, pivot, begin, end, q, B[q])}
<1>1. cur_no \in Nat
  BY DEF cur_no
<1>2. m \in [D -> Nat]
  BY <1>1, ToSplitNat
<1>3. ASSUME NEW q \in D, Splitting(o, pivot, begin, end, q), \A c \in D : m[c] < m[q] => c \in S
      PROVE  Split(o, pivot, begin, end, q, B[q])
  <2> DEFINE fi == FiOf(o, pivot, end, q)
             li == LiOf(o, pivot, begin, q)
             after == Swapped(q, fi, li)
  <2>1. /\ fi \in 0 .. cur_no /\ q.fi <= fi
        /\ li \in -1 .. cur_no - 1 /\ li <= q.li
        /\ fi <= li => after \in D /\ m[after] < m[q]
    BY <1>1, EndsMove
  <2>2. B[q] = IF fi <= li THEN B[after] ELSE [list |-> q.list, fi |-> fi, li |-> li]
    BY <1>1, PartitionDefined DEF PartitionStep
  <2>3. /\ \A k \in begin .. end :
             /\ k < fi => AtPivot(o, pivot, q.list, k) <= 0
             /\ li < k => 0 <= AtPivot(o, pivot, q.list, k)
        /\ begin <= fi /\ li <= end
    BY <1>3, ScansSplit
  <2>4. after.list = Swap(q.list, fi, li) /\ after.fi = fi + 1 /\ after.li = li - 1
    BY DEF Swapped
  <2>5. fi <= li => Splitting(o, pivot, begin, end, after) /\ Rearranged(q.list, after.list, begin, end)
    BY <1>3, SwapSplits
  <2>6. q.fi \in Int /\ q.li \in Int
    BY <1>1 DEF Ends
  <2>7. B \in [D -> D]
    BY <1>1, PartitionDefined
  <2> HIDE DEF fi, li, after, B, m
  <2>8. CASE fi <= li
    <3>1. Split(o, pivot, begin, end, after, B[after])
      BY <2>1, <2>5, <2>8, <1>3
    <3> DEFINE z == B[after]
    <3>2. B[q] = z
      BY <2>2, <2>8
    <3>3. Split(o, pivot, begin, end, after, z)
      BY <3>1
    <3>4. z.fi \in Int /\ z.li \in Int
      <4>1. z \in Ends
        <5> HIDE DEF D
        <5>1. z \in D
          BY <2>1, <2>7, <2>8
        <5> QED
          BY <5>1 DEF D
      <4> HIDE DEF z
      <4> QED
        BY <4>1, <1>1, EndsAreInt
    <3> HIDE DEF z
    <3>5. q.fi <= z.fi /\ z.li <= q.li
      BY <3>3, <3>4, <2>1, <2>4, <2>6, <1>1 DEF Split
    <3>6. Rearranged(q.list, z.list, begin, end)
      BY <3>3, <2>5, <2>8, RearrangedTwice DEF Split
    <3> QED
      BY <3>2, <3>3, <3>5, <3>6 DEF Split
  <2>9. CASE ~(fi <= li)
    <3> DEFINE z == [list |-> q.list, fi |-> fi, li |-> li]
    <3>1. B[q] = z /\ z.list = q.list /\ z.fi = fi /\ z.li = li
      BY <2>2, <2>9
    <3> HIDE DEF z
    <3>2. z.li < z.fi
      BY <3>1, <2>1, <2>9, <1>1
    <3>3. Rearranged(q.list, q.list, begin, end)
      BY DEF Rearranged
    <3> QED
      BY <3>1, <3>2, <3>3, <2>1, <2>3 DEF Split
  <2> QED
    BY <2>8, <2>9
<1>4. \A q \in D : (\A c \in D : m[c] < m[q] => c \in S) => q \in S
  BY <1>3
<1> HIDE DEF D, m, S
<1>5. \A q \in D : q \in S
  BY <1>2, <1>4, SmallestFirst
<1> QED
  BY <1>5 DEF D, S

\* A whole range is split in two that are both shorter.
LEMMA RangeSplits ==
  ASSUME data \in Seq(Record), NEW o \in Order, NEW l \in Lists,
         NEW begin \in 0 .. cur_no - 1, NEW end \in 0 .. cur_no - 1, begin <= end,
         NEW x \in begin .. end
  PROVE  LET pivot == data[l[x + 1] + 1]
             p == [list |-> l, fi |-> begin, li |-> end]
             q == Partition(o, pivot, begin, end)[p]
         IN  /\ q \in Ends /\ begin < q.fi /\ q.li < end
             /\ pivot \in Record /\ Split(o, pivot, begin, end, p, q)
<1> DEFINE n == cur_no
           pivot == data[l[x + 1] + 1]
           p == [list |-> l, fi |-> begin, li |-> end]
           B == Partition(o, pivot, begin, end)
           fi == FiOf(o, pivot, end, p)
           li == LiOf(o, pivot, begin, p)
           after == Swapped(p, fi, li)
<1>1. n \in Nat /\ begin \in 0 .. n - 1 /\ end \in 0 .. n - 1 /\ begin <= end /\ x \in begin .. end
  BY DEF cur_no
<1>2. pivot \in Record
  <2>1. l[x + 1] \in 0 .. n - 1
    <3>1. x + 1 \in 1 .. n
      BY <1>1
    <3> QED
      BY <3>1 DEF Lists
  <2>2. l[x + 1] + 1 \in 1 .. Len(data)
    BY <2>1, <1>1 DEF cur_no
  <2> QED
    BY <2>2
<1>3. p.list = l /\ p.fi = begin /\ p.li = end /\ p \in Ends
  BY <1>1 DEF Ends
<1>4. AtPivot(o, pivot, l, x) = 0
  <2>1. Key[o][pivot] \in Int
    BY <1>2, ListAssumption
  <2> QED
    BY <2>1 DEF AtPivot, cf
<1>5. B \in [Ends -> Ends] /\ \A c \in Ends : B[c] = PartitionStep(o, pivot, begin, end, B, c)
  <2> HIDE DEF pivot, p
  <2> QED
    BY <1>1, PartitionDefined
<1> HIDE DEF n, pivot, p, B, fi, li, after
<1>6. Splitting(o, pivot, begin, end, p)
  <2>1. \A k \in begin .. end : ~(k < begin) /\ ~(end < k)
    BY <1>1
  <2> QED
    BY <2>1, <1>1, <1>3, <1>4 DEF Splitting
<1>7. Split(o, pivot, begin, end, p, B[p])
  BY <1>1, <1>2, <1>3, <1>6, PartitionSplits DEF B, n
<1>8. fi <= x /\ x <= li
  BY <1>1, <1>2, <1>3, <1>4, <1>6, ScansSplit DEF fi, li, n
<1>9. /\ fi \in 0 .. n /\ p.fi <= fi /\ li \in -1 .. n - 1 /\ li <= p.li
      /\ fi <= li => after \in Ends
  BY <1>1, <1>3, EndsMove DEF fi, li, n, after
<1>10. fi <= li
  BY <1>8, <1>9, <1>1
<1>11. B[p] = B[after]
  BY <1>3, <1>5, <1>10 DEF PartitionStep, fi, li, after
<1>12. Splitting(o, pivot, begin, end, after)
  BY <1>1, <1>2, <1>3, <1>6, <1>10, SwapSplits DEF fi, li, after, n
<1>13. Split(o, pivot, begin, end, after, B[after])
  BY <1>1, <1>2, <1>9, <1>10, <1>12, PartitionSplits DEF B, n
<1>14. after.fi = fi + 1 /\ after.li = li - 1
  BY DEF after, Swapped
<1>15. B[p] \in Ends
  BY <1>3, <1>5
<1>16. begin < B[p].fi /\ B[p].li < end
  <2> DEFINE z == B[p]
  <2>1. z.fi \in Int /\ z.li \in Int
    BY <1>15, <1>1 DEF Ends, n
  <2>2. fi + 1 <= z.fi /\ z.li <= li - 1
    BY <1>11, <1>13, <1>14 DEF Split
  <2> HIDE DEF z
  <2>3. begin < z.fi /\ z.li < end
    BY <2>1, <2>2, <1>9, <1>3, <1>1
  <2> QED
    BY <2>3 DEF z
<1> QED
  BY <1>2, <1>7, <1>15, <1>16 DEF pivot, p, B

\* One call of list_qsort, its own calls by g.
PivotOf(q) == data[q.list[q.begin + (q.end - q.begin) \div 2 + 1] + 1]

SplitOf(o, q) ==
  Partition(o, PivotOf(q), q.begin, q.end)[[list |-> q.list, fi |-> q.begin, li |-> q.end]]

LowerOf(o, g, q) ==
  IF SplitOf(o, q).li > q.begin
    THEN g[[list |-> SplitOf(o, q).list, begin |-> q.begin, end |-> SplitOf(o, q).li]]
    ELSE SplitOf(o, q).list

QsortStep(o, g, q) ==
  IF SplitOf(o, q).fi < q.end
    THEN g[[list |-> LowerOf(o, g, q), begin |-> SplitOf(o, q).fi, end |-> q.end]]
    ELSE LowerOf(o, g, q)

ToSort(q) == q.end - q.begin

LEMMA ToSortNat ==
  ASSUME cur_no \in Nat, NEW q \in Ranges
  PROVE  ToSort(q) \in Nat /\ ToSort(q) < cur_no
<1> DEFINE n == cur_no
<1>1. n \in Nat /\ q.begin \in 0 .. n - 1 /\ q.end \in 0 .. n - 1 /\ q.begin <= q.end
  BY DEF Ranges
<1> HIDE DEF n
<1>2. q.end - q.begin \in Nat /\ q.end - q.begin < n
  BY <1>1
<1> QED
  BY <1>2 DEF ToSort, n

LEMMA RangeIsSplit ==
  ASSUME data \in Seq(Record), NEW o \in Order, NEW q \in Ranges
  PROVE  LET p == SplitOf(o, q) IN
         /\ p.list \in Lists /\ p.fi \in Int /\ p.li \in Int
         /\ q.begin < p.fi /\ p.li < q.end /\ PivotOf(q) \in Record
         /\ Split(o, PivotOf(q), q.begin, q.end,
                  [list |-> q.list, fi |-> q.begin, li |-> q.end], p)
<1> DEFINE n == cur_no
           x == q.begin + (q.end - q.begin) \div 2
           p == SplitOf(o, q)
<1>1. n \in Nat
  BY DEF cur_no
<1>2. /\ q.list \in Lists /\ q.begin \in 0 .. n - 1 /\ q.end \in 0 .. n - 1
      /\ q.begin <= q.end
  BY DEF Ranges
<1>3. PivotOf(q) = data[q.list[x + 1] + 1]
  BY DEF PivotOf
<1>4. p = Partition(o, data[q.list[x + 1] + 1], q.begin, q.end)
            [[list |-> q.list, fi |-> q.begin, li |-> q.end]]
  BY <1>3 DEF SplitOf
<1> HIDE DEF n
<1>5. x \in q.begin .. q.end
  BY <1>1, <1>2
<1> HIDE DEF x, p
<1>6. /\ p \in Ends /\ q.begin < p.fi /\ p.li < q.end
      /\ PivotOf(q) \in Record
      /\ Split(o, PivotOf(q), q.begin, q.end, [list |-> q.list, fi |-> q.begin, li |-> q.end], p)
  BY <1>2, <1>3, <1>4, <1>5, RangeSplits DEF n
<1>7. p.fi \in Int /\ p.li \in Int
  BY <1>1, <1>6, EndsAreInt DEF n
<1>8. p.list \in Lists
  BY <1>6 DEF Ends
<1> QED
  BY <1>6, <1>7, <1>8 DEF p

\* Its own calls are of shorter ranges.
LEMMA RangesShrink ==
  ASSUME data \in Seq(Record), NEW o \in Order, NEW q \in Ranges
  PROVE  LET p == SplitOf(o, q) IN
         /\ p.list \in Lists
         /\ \A l \in Lists :
              /\ p.li > q.begin =>
                   /\ [list |-> l, begin |-> q.begin, end |-> p.li] \in Ranges
                   /\ ToSort([list |-> l, begin |-> q.begin, end |-> p.li]) < ToSort(q)
              /\ p.fi < q.end =>
                   /\ [list |-> l, begin |-> p.fi, end |-> q.end] \in Ranges
                   /\ ToSort([list |-> l, begin |-> p.fi, end |-> q.end]) < ToSort(q)
<1> DEFINE n == cur_no
           p == SplitOf(o, q)
<1>1. n \in Nat
  BY DEF cur_no
<1>2. q.begin \in 0 .. n - 1 /\ q.end \in 0 .. n - 1 /\ q.begin <= q.end
  BY DEF Ranges
<1>3. p.list \in Lists /\ p.fi \in Int /\ p.li \in Int /\ q.begin < p.fi /\ p.li < q.end
  BY RangeIsSplit
<1> HIDE DEF n, p
<1>4. ASSUME NEW l \in Lists, p.li > q.begin
      PROVE  /\ [list |-> l, begin |-> q.begin, end |-> p.li] \in Ranges
             /\ ToSort([list |-> l, begin |-> q.begin, end |-> p.li]) < ToSort(q)
  <2>1. p.li \in 0 .. n - 1 /\ q.begin <= p.li /\ p.li - q.begin < q.end - q.begin
    BY <1>1, <1>2, <1>3, <1>4
  <2> QED
    BY <2>1, <1>2 DEF Ranges, ToSort, n
<1>5. ASSUME NEW l \in Lists, p.fi < q.end
      PROVE  /\ [list |-> l, begin |-> p.fi, end |-> q.end] \in Ranges
             /\ ToSort([list |-> l, begin |-> p.fi, end |-> q.end]) < ToSort(q)
  <2>1. p.fi \in 0 .. n - 1 /\ p.fi <= q.end /\ q.end - p.fi < q.end - q.begin
    BY <1>1, <1>2, <1>3, <1>5
  <2> QED
    BY <2>1, <1>2 DEF Ranges, ToSort, n
<1> QED
  BY <1>3, <1>4, <1>5 DEF p

LEMMA QsortDefined ==
  ASSUME data \in Seq(Record), NEW o \in Order
  PROVE  /\ list_qsort(o) \in [Ranges -> Lists]
         /\ \A q \in Ranges : list_qsort(o)[q] = QsortStep(o, list_qsort(o), q)
<1> DEFINE D == Ranges
           R == Lists
           step(g) == [q \in D |-> QsortStep(o, g, q)]
           F == [g \in [D -> R] |-> step(g)]
           m == [q \in D |-> ToSort(q)]
           N == cur_no
<1>0. cur_no \in Nat
  BY DEF cur_no
<1>1. ASSUME NEW g, NEW q \in D, \A c \in D : m[c] < m[q] => g[c] \in R
      PROVE  LowerOf(o, g, q) \in R /\ QsortStep(o, g, q) \in R
  <2> DEFINE p == SplitOf(o, q)
             low(l) == [list |-> l, begin |-> q.begin, end |-> p.li]
             high(l) == [list |-> l, begin |-> p.fi, end |-> q.end]
             lower == LowerOf(o, g, q)
  <2>1. p.list \in R
    BY RangesShrink
  <2>2. \A l \in R : /\ p.li > q.begin => low(l) \in D /\ m[low(l)] < m[q]
                     /\ p.fi < q.end => high(l) \in D /\ m[high(l)] < m[q]
    BY RangesShrink
  <2>3. lower = IF p.li > q.begin THEN g[low(p.list)] ELSE p.list
    BY DEF LowerOf
  <2>4. QsortStep(o, g, q) = IF p.fi < q.end THEN g[high(lower)] ELSE lower
    BY DEF QsortStep
  <2> HIDE DEF D, R, m, p, low, high, lower
  <2>5. lower \in R
    BY <2>1, <2>2, <2>3, <1>1
  <2>6. QsortStep(o, g, q) \in R
    BY <2>2, <2>4, <2>5, <1>1
  <2> QED
    BY <2>5, <2>6 DEF lower
<1>2. Transforms(F, D, R)
  <2>1. ASSUME NEW g \in [D -> R], NEW q \in D
        PROVE  QsortStep(o, g, q) \in R
    <3>1. \A c \in D : g[c] \in R
      <4> HIDE DEF D, R
      <4> QED
        OBVIOUS
    <3> QED
      BY <3>1, <1>1
  <2> HIDE DEF D, R
  <2> QED
    BY <2>1 DEF Transforms
<1>3. m \in [D -> Nat] /\ N \in Nat /\ \A q \in D : m[q] < N
  BY <1>0, ToSortNat
<1>4. ASSUME NEW g \in [D -> R], NEW h \in [D -> R], NEW q \in D,
             \A c \in D : m[c] < m[q] => g[c] = h[c]
      PROVE  F[g][q] = F[h][q]
  <2> DEFINE p == SplitOf(o, q)
             low(l) == [list |-> l, begin |-> q.begin, end |-> p.li]
             high(l) == [list |-> l, begin |-> p.fi, end |-> q.end]
             lower == LowerOf(o, g, q)
  <2>1. p.list \in R
    BY RangesShrink
  <2>2. \A l \in R : /\ p.li > q.begin => low(l) \in D /\ m[low(l)] < m[q]
                     /\ p.fi < q.end => high(l) \in D /\ m[high(l)] < m[q]
    BY RangesShrink
  <2>3. \A f : LowerOf(o, f, q) = IF p.li > q.begin THEN f[low(p.list)] ELSE p.list
    BY DEF LowerOf
  <2>4. \A f : QsortStep(o, f, q) = IF p.fi < q.end THEN f[high(LowerOf(o, f, q))] ELSE LowerOf(o, f, q)
    BY DEF QsortStep
  <2>5. lower \in R
    <3>1. \A c \in D : g[c] \in R
      <4> HIDE DEF D, R
      <4> QED
        OBVIOUS
    <3> QED
      BY <3>1, <1>1
  <2> HIDE DEF D, R, m, p, low, high
  <2>6. LowerOf(o, h, q) = lower
    BY <2>1, <2>2, <2>3, <1>4
  <2> HIDE DEF lower
  <2>7. QsortStep(o, g, q) = QsortStep(o, h, q)
    <3>1. QsortStep(o, g, q) = IF p.fi < q.end THEN g[high(lower)] ELSE lower
      BY <2>4 DEF lower
    <3>2. QsortStep(o, h, q) = IF p.fi < q.end THEN h[high(lower)] ELSE lower
      BY <2>4, <2>6
    <3> QED
      BY <3>1, <3>2, <2>2, <2>5, <1>4
  <2> QED
    BY <2>7
<1>5. [q \in D |-> q.list] \in [D -> R]
  BY DEF Ranges
<1>6. HasFixpoint(F, D, R)
  <2>1. LooksBelow(F, m, D, R)
    BY <1>4 DEF LooksBelow
  <2>2. Within(m, D, N)
    BY <1>3 DEF Within
  <2> DEFINE e == [q \in D |-> q.list]
  <2>3. e \in [D -> R]
    BY <1>5
  <2> HIDE DEF D, R, F, m, N, e
  <2> QED
    BY <1>2, <2>1, <2>2, <2>3, RecursionEnds
<1>7. PICK g \in [D -> R] : g = step(g)
  <2> HIDE DEF D, R
  <2> QED
    BY <1>6 DEF HasFixpoint
<1> DEFINE f == list_qsort(o)
<1>8. f = CHOOSE x : x = step(x)
  BY DEF list_qsort, QsortStep, LowerOf, SplitOf, PivotOf
<1>9. f = step(f)
  <2> HIDE DEF D, f
  <2> QED
    BY <1>7, <1>8
<1> HIDE DEF f
<1>10. \A q \in D : f[q] = QsortStep(o, f, q)
  BY <1>9
<1>11. \A q \in D : f[q] \in R
  <2> DEFINE S == {q \in D : f[q] \in R}
  <2>1. \A q \in D : (\A c \in D : m[c] < m[q] => c \in S) => q \in S
    BY <1>1, <1>10
  <2>2. m \in [D -> Nat]
    BY <1>3
  <2> HIDE DEF S, m, D
  <2>3. \A q \in D : q \in S
    BY <2>1, <2>2, SmallestFirst
  <2> QED
    BY <2>3 DEF S
<1>12. f \in [D -> R]
  <2> HIDE DEF D, R
  <2> QED
    BY <1>9, <1>11
<1> QED
  BY <1>10, <1>12 DEF f

\* Between b and e the numbers of l are in the order of their records.
InOrder(o, l, b, e) ==
  \A j, k \in b .. e : j <= k => Key[o][data[l[j + 1] + 1]] <= Key[o][data[l[k + 1] + 1]]

\* What sorting a range does.
SortedFrom(o, l, m, b, e) == m \in Lists /\ Rearranged(l, m, b, e) /\ InOrder(o, m, b, e)

LEMMA RearrangedSame ==
  ASSUME NEW l, NEW b, NEW e
  PROVE  Rearranged(l, l, b, e)
BY DEF Rearranged

LEMMA OneInOrder ==
  ASSUME data \in Seq(Record), NEW o \in Order, NEW l \in Lists,
         NEW b \in 0 .. cur_no - 1, NEW e \in Int, e <= b
  PROVE  InOrder(o, l, b, e)
<1> DEFINE n == cur_no
           K(j) == Key[o][data[l[j + 1] + 1]]
<1>1. n \in Nat
  BY DEF cur_no
<1>3. K(b) \in Int
  <2>1. l[b + 1] \in 0 .. n - 1
    <3>1. b + 1 \in 1 .. n
      BY <1>1
    <3> QED
      BY <3>1 DEF Lists
  <2>2. l[b + 1] + 1 \in 1 .. Len(data)
    BY <2>1, <1>1 DEF cur_no
  <2> QED
    BY <2>2, ListAssumption
<1>4. \A j \in b .. e : j = b
  BY <1>1
<1> HIDE DEF K
<1>5. \A j, k \in b .. e : j <= k => K(j) <= K(k)
  BY <1>3, <1>4
<1> QED
  BY <1>5 DEF K, InOrder

\* Two sorted ranges left and right of a pivot are one sorted range.
LEMMA HalvesSort ==
  ASSUME data \in Seq(Record), NEW o \in Order, NEW pivot \in Record,
         NEW begin \in 0 .. cur_no - 1, NEW end \in 0 .. cur_no - 1,
         NEW p, p.fi \in Int, p.li \in Int, p.list \in Lists, begin < p.fi, p.li < end,
         NEW start, start.list \in Lists,
         Split(o, pivot, begin, end, start, p),
         NEW l, SortedFrom(o, p.list, l, begin, p.li),
         NEW m, SortedFrom(o, l, m, p.fi, end)
  PROVE  SortedFrom(o, start.list, m, begin, end)
<1> DEFINE n == cur_no
           fi == p.fi
           li == p.li
           K(x, j) == Key[o][data[x[j + 1] + 1]]
           P == Key[o][pivot]
<1>1. /\ n \in Nat /\ begin \in 0 .. n - 1 /\ end \in 0 .. n - 1
      /\ fi \in Int /\ li \in Int /\ begin < fi /\ li < end /\ P \in Int
  BY ListAssumption DEF cur_no
<1>2. ASSUME NEW x \in Lists, NEW j \in begin .. end PROVE K(x, j) \in Int
  <2>1. x[j + 1] \in 0 .. n - 1
    <3>1. j + 1 \in 1 .. n
      BY <1>1
    <3> QED
      BY <3>1 DEF Lists
  <2>2. x[j + 1] + 1 \in 1 .. Len(data)
    BY <2>1, <1>1 DEF cur_no
  <2> QED
    BY <2>2, ListAssumption
<1>3. /\ li < fi
      /\ \A k \in begin .. end : /\ k < fi => K(p.list, k) - P <= 0
                                 /\ li < k => 0 <= K(p.list, k) - P
      /\ Rearranged(start.list, p.list, begin, end)
  BY DEF Split, AtPivot, cf
<1>4. /\ l \in Lists /\ Rearranged(p.list, l, begin, li)
      /\ \A j, k \in begin .. li : j <= k => K(l, j) <= K(l, k)
  BY DEF SortedFrom, InOrder
<1>5. /\ m \in Lists /\ Rearranged(l, m, fi, end)
      /\ \A j, k \in fi .. end : j <= k => K(m, j) <= K(m, k)
  BY DEF SortedFrom, InOrder
<1>6. /\ \A k \in 0 .. n - 1 : k \notin begin .. li => l[k + 1] = p.list[k + 1]
      /\ \A k \in begin .. li : \E j \in begin .. li : l[k + 1] = p.list[j + 1]
  BY <1>4 DEF Rearranged
<1>7. /\ \A k \in 0 .. n - 1 : k \notin fi .. end => m[k + 1] = l[k + 1]
      /\ \A k \in fi .. end : \E j \in fi .. end : m[k + 1] = l[j + 1]
  BY <1>5 DEF Rearranged
<1>8. Rearranged(start.list, m, begin, end)
  <2>1. Rearranged(p.list, l, begin, end)
    BY <1>1, <1>4, RearrangedWithin DEF n
  <2>2. Rearranged(l, m, begin, end)
    BY <1>1, <1>5, RearrangedWithin DEF n
  <2> QED
    BY <2>1, <2>2, <1>3, RearrangedTwice
<1>9. /\ \A k \in begin .. end : /\ k \notin begin .. li => K(l, k) = K(p.list, k)
                                 /\ k \notin fi .. end => K(m, k) = K(l, k)
      /\ \A k \in begin .. li : \E j \in begin .. li : K(l, k) = K(p.list, j)
      /\ \A k \in fi .. end : \E j \in fi .. end : K(m, k) = K(l, j)
  <2>1. \A k \in begin .. end : k \in 0 .. n - 1
    <3> HIDE DEF n
    <3> QED
      BY <1>1
  <2> QED
    BY <2>1, <1>6, <1>7
<1>10. /\ \A k \in begin .. end : K(m, k) \in Int /\ K(p.list, k) \in Int
  BY <1>2, <1>5
<1> HIDE DEF n, K, P, fi, li
<1>11. /\ \A k \in begin .. li : k \in begin .. end /\ k < fi
       /\ \A k \in fi .. end : k \in begin .. end /\ li < k
  BY <1>1, <1>3
<1>12. ASSUME NEW k \in begin .. end, k < fi PROVE K(m, k) <= P
  <2>1. K(m, k) = K(l, k)
    BY <1>1, <1>9, <1>12
  <2>2. CASE k \in begin .. li
    <3>1. PICK j \in begin .. li : K(l, k) = K(p.list, j)
      BY <2>2, <1>9
    <3>2. K(p.list, j) - P <= 0 /\ K(p.list, j) \in Int
      BY <1>3, <1>10, <1>11
    <3> QED
      BY <2>1, <3>1, <3>2, <1>1
  <2>3. CASE k \notin begin .. li
    <3>1. K(l, k) = K(p.list, k) /\ K(p.list, k) - P <= 0 /\ K(p.list, k) \in Int
      BY <2>3, <1>3, <1>9, <1>10, <1>12
    <3> QED
      BY <2>1, <3>1, <1>1
  <2> QED
    BY <2>2, <2>3
<1>13. ASSUME NEW k \in begin .. end, li < k PROVE P <= K(m, k)
  <2>1. \A j \in begin .. end : li < j =>
           K(l, j) = K(p.list, j) /\ 0 <= K(p.list, j) - P /\ K(p.list, j) \in Int
    <3>1. \A j \in begin .. end : li < j => j \notin begin .. li
      BY <1>1
    <3> QED
      BY <3>1, <1>3, <1>9, <1>10
  <2>2. CASE k \in fi .. end
    <3>1. PICK j \in fi .. end : K(m, k) = K(l, j)
      BY <2>2, <1>9
    <3>2. K(l, j) = K(p.list, j) /\ 0 <= K(p.list, j) - P /\ K(p.list, j) \in Int
      BY <2>1, <1>11
    <3> QED
      BY <3>1, <3>2, <1>1
  <2>3. CASE k \notin fi .. end
    <3>1. K(m, k) = K(l, k)
      BY <2>3, <1>9
    <3>2. K(l, k) = K(p.list, k) /\ 0 <= K(p.list, k) - P /\ K(p.list, k) \in Int
      BY <2>1, <1>13
    <3> QED
      BY <3>1, <3>2, <1>1
  <2> QED
    BY <2>2, <2>3
<1>14. ASSUME NEW j \in begin .. end, NEW k \in begin .. end, j <= k
       PROVE  K(m, j) <= K(m, k)
  <2>1. CASE k <= li
    <3>1. j \in begin .. li /\ k \in begin .. li /\ j < fi /\ k < fi
      BY <2>1, <1>14, <1>1, <1>3
    <3>2. K(m, j) = K(l, j) /\ K(m, k) = K(l, k)
      BY <3>1, <1>9, <1>1
    <3> QED
      BY <3>1, <3>2, <1>4, <1>14
  <2>2. CASE fi <= j
    <3>1. j \in fi .. end /\ k \in fi .. end
      BY <2>2, <1>14, <1>1
    <3> QED
      BY <3>1, <1>5, <1>14
  <2>3. CASE ~(k <= li) /\ ~(fi <= j)
    <3>1. li < k /\ j < fi
      BY <2>3, <1>1
    <3>2. K(m, j) <= P /\ P <= K(m, k)
      BY <3>1, <1>12, <1>13
    <3> QED
      BY <3>2, <1>10, <1>1
  <2> QED
    BY <2>1, <2>2, <2>3
<1>15. InOrder(o, m, begin, end)
  BY <1>14 DEF InOrder, K
<1> QED
  BY <1>5, <1>8, <1>15 DEF SortedFrom

LEMMA QsortSorts ==
  ASSUME data \in Seq(Record), NEW o \in Order, NEW q \in Ranges
  PROVE  SortedFrom(o, q.list, list_qsort(o)[q], q.begin, q.end)
<1> DEFINE D == Ranges
           f == list_qsort(o)
           m == [c \in D |-> ToSort(c)]
           S == {c \in D : SortedFrom(o, c.list, f[c], c.begin, c.end)}
<1>1. m \in [D -> Nat]
  <2>1. cur_no \in Nat
    BY DEF cur_no
  <2> QED
    BY <2>1, ToSortNat
<1>2. ASSUME NEW c \in D, \A d \in D : m[d] < m[c] => d \in S
      PROVE  SortedFrom(o, c.list, f[c], c.begin, c.end)
  <2> DEFINE p == SplitOf(o, c)
             low(l) == [list |-> l, begin |-> c.begin, end |-> p.li]
             high(l) == [list |-> l, begin |-> p.fi, end |-> c.end]
             lower == LowerOf(o, f, c)
             start == [list |-> c.list, fi |-> c.begin, li |-> c.end]
  <2>1. /\ p.list \in Lists /\ p.fi \in Int /\ p.li \in Int
        /\ c.begin < p.fi /\ p.li < c.end /\ PivotOf(c) \in Record
        /\ Split(o, PivotOf(c), c.begin, c.end, start, p)
    BY RangeIsSplit
  <2>2. \A l \in Lists : /\ p.li > c.begin => low(l) \in D /\ m[low(l)] < m[c]
                         /\ p.fi < c.end => high(l) \in D /\ m[high(l)] < m[c]
    BY RangesShrink
  <2>3. \A l \in Lists : /\ p.li > c.begin => SortedFrom(o, l, f[low(l)], c.begin, p.li)
                         /\ p.fi < c.end => SortedFrom(o, l, f[high(l)], p.fi, c.end)
    <3>1. \A d \in D : m[d] < m[c] => SortedFrom(o, d.list, f[d], d.begin, d.end)
      BY <1>2
    <3>2. \A l : /\ low(l).list = l /\ low(l).begin = c.begin /\ low(l).end = p.li
                 /\ high(l).list = l /\ high(l).begin = p.fi /\ high(l).end = c.end
      OBVIOUS
    <3> HIDE DEF D, f, m, p, low, high, S
    <3>3. ASSUME NEW l \in Lists, p.li > c.begin
          PROVE  SortedFrom(o, l, f[low(l)], c.begin, p.li)
      <4>1. SortedFrom(o, low(l).list, f[low(l)], low(l).begin, low(l).end)
        BY <3>1, <3>3, <2>2
      <4> QED
        BY <4>1, <3>2
    <3>4. ASSUME NEW l \in Lists, p.fi < c.end
          PROVE  SortedFrom(o, l, f[high(l)], p.fi, c.end)
      <4>1. SortedFrom(o, high(l).list, f[high(l)], high(l).begin, high(l).end)
        BY <3>1, <3>4, <2>2
      <4> QED
        BY <4>1, <3>2
    <3> QED
      BY <3>3, <3>4
  <2>4. f[c] = IF p.fi < c.end THEN f[high(lower)] ELSE lower
    BY QsortDefined DEF QsortStep
  <2>5. lower = IF p.li > c.begin THEN f[low(p.list)] ELSE p.list
    BY DEF LowerOf
  <2>6. c.list \in Lists /\ c.begin \in 0 .. cur_no - 1 /\ c.end \in 0 .. cur_no - 1
    BY DEF Ranges
  <2>7. start.list = c.list
    OBVIOUS
  <2>8. cur_no \in Nat
    BY DEF cur_no
  <2> HIDE DEF p, f, low, high, lower, start, D, m, S
  <2>9. SortedFrom(o, p.list, lower, c.begin, p.li)
    <3>1. CASE p.li > c.begin
      BY <3>1, <2>1, <2>3, <2>5
    <3>2. CASE ~(p.li > c.begin)
      <4> DEFINE n == cur_no
      <4>0. n \in Nat /\ c.begin \in 0 .. n - 1
        BY <2>6, <2>8
      <4> HIDE DEF n
      <4>1. p.li <= c.begin
        BY <3>2, <4>0, <2>1
      <4>2. InOrder(o, p.list, c.begin, p.li)
        BY <4>1, <2>1, <2>6, OneInOrder
      <4> QED
        BY <3>2, <4>2, <2>1, <2>5, RearrangedSame DEF SortedFrom
    <3> QED
      BY <3>1, <3>2
  <2>10. lower \in Lists
    BY <2>9 DEF SortedFrom
  <2>11. SortedFrom(o, lower, f[c], p.fi, c.end)
    <3>1. CASE p.fi < c.end
      BY <3>1, <2>10, <2>3, <2>4
    <3>2. CASE ~(p.fi < c.end)
      <4>2. InOrder(o, lower, p.fi, c.end)
        <5> DEFINE n == cur_no
        <5>0. n \in Nat /\ c.end \in 0 .. n - 1
          BY <2>6, <2>8
        <5>1. CASE p.fi = c.end
          <6>1. c.end \in Int
            <7> HIDE DEF n
            <7> QED
              BY <5>0
          <6> QED
            BY <5>1, <6>1, <2>6, <2>10, OneInOrder
        <5>2. CASE p.fi # c.end
          <6> HIDE DEF n
          <6>1. p.fi .. c.end = {}
            BY <5>2, <3>2, <5>0, <2>1
          <6> QED
            BY <6>1 DEF InOrder
        <5> QED
          BY <5>1, <5>2
      <4> QED
        BY <3>2, <4>2, <2>10, <2>4, RearrangedSame DEF SortedFrom
    <3> QED
      BY <3>1, <3>2
  <2> DEFINE fc == f[c]
  <2>12. SortedFrom(o, lower, fc, p.fi, c.end)
    BY <2>11
  <2> HIDE DEF fc
  <2>13. SortedFrom(o, start.list, fc, c.begin, c.end)
    BY <2>1, <2>6, <2>7, <2>9, <2>12, HalvesSort
  <2> QED
    BY <2>7, <2>13 DEF fc
<1>3. \A c \in D : (\A d \in D : m[d] < m[c] => d \in S) => c \in S
  BY <1>2
<1> HIDE DEF D, m, S
<1>4. \A c \in D : c \in S
  BY <1>1, <1>3, SmallestFirst
<1> QED
  BY <1>4 DEF D, S, f

LEMMA InsertAtIs ==
  ASSUME NEW S, NEW s \in Seq(S), NEW i \in 1 .. Len(s) + 1, NEW e \in S
  PROVE  /\ InsertAt(s, i, e) \in Seq(S) /\ Len(InsertAt(s, i, e)) = Len(s) + 1
         /\ \A k \in 1 .. Len(s) + 1 :
              InsertAt(s, i, e)[k] = IF k < i THEN s[k] ELSE IF k = i THEN e ELSE s[k - 1]
<1> DEFINE a == SubSeq(s, 1, i - 1)
           b == SubSeq(s, i, Len(s))
           t == a \o <<e>>
<1>1. Len(s) \in Nat
  OBVIOUS
<1>2. a \in Seq(S) /\ Len(a) = i - 1 /\ \A k \in 1 .. i - 1 : a[k] = s[k]
  BY <1>1
<1>3. /\ b \in Seq(S) /\ Len(b) = Len(s) - i + 1
      /\ \A k \in 1 .. Len(s) - i + 1 : b[k] = s[i + k - 1]
  BY <1>1
<1>4. InsertAt(s, i, e) = t \o b
  BY DEF InsertAt
<1> HIDE DEF a, b
<1>5. /\ t \in Seq(S) /\ Len(t) = i /\ t[i] = e
      /\ \A k \in 1 .. i - 1 : t[k] = s[k]
  BY <1>1, <1>2
<1> HIDE DEF t
<1>6. t \o b \in Seq(S) /\ Len(t \o b) = Len(s) + 1
  BY <1>1, <1>3, <1>5
<1>7. ASSUME NEW k \in 1 .. Len(s) + 1
      PROVE  (t \o b)[k] = IF k < i THEN s[k] ELSE IF k = i THEN e ELSE s[k - 1]
  <2>1. CASE k <= i
    <3>1. (t \o b)[k] = t[k]
      BY <2>1, <1>1, <1>3, <1>5
    <3> QED
      BY <3>1, <2>1, <1>1, <1>5
  <2>2. CASE i < k
    <3>1. k - i \in 1 .. Len(s) - i + 1 /\ i + (k - i) - 1 = k - 1
      BY <2>2, <1>1
    <3>2. (t \o b)[k] = b[k - i]
      BY <2>2, <1>1, <1>3, <1>5
    <3>3. b[k - i] = s[k - 1]
      BY <3>1, <1>3
    <3> QED
      BY <3>2, <3>3, <2>2, <1>1
  <2>3. k <= i \/ i < k
    BY <1>1
  <2> QED
    BY <2>1, <2>2, <2>3
<1> QED
  BY <1>4, <1>6, <1>7

LEMMA RemoveAtIs ==
  ASSUME NEW S, NEW s \in Seq(S), NEW i \in 1 .. Len(s)
  PROVE  /\ RemoveAt(s, i) \in Seq(S) /\ Len(RemoveAt(s, i)) = Len(s) - 1
         /\ \A k \in 1 .. Len(s) - 1 : RemoveAt(s, i)[k] = IF k < i THEN s[k] ELSE s[k + 1]
<1> DEFINE a == SubSeq(s, 1, i - 1)
           b == SubSeq(s, i + 1, Len(s))
<1>1. Len(s) \in Nat
  OBVIOUS
<1>2. a \in Seq(S) /\ Len(a) = i - 1 /\ \A k \in 1 .. i - 1 : a[k] = s[k]
  BY <1>1
<1>3. /\ b \in Seq(S) /\ Len(b) = Len(s) - i
      /\ \A k \in 1 .. Len(s) - i : b[k] = s[i + k]
  BY <1>1
<1>4. RemoveAt(s, i) = a \o b
  BY DEF RemoveAt
<1> HIDE DEF a, b
<1>5. a \o b \in Seq(S) /\ Len(a \o b) = Len(s) - 1
  <2>1. a \in Seq(S) /\ b \in Seq(S)
    BY <1>2, <1>3
  <2>3. a \o b \in Seq(S) /\ Len(a \o b) = Len(a) + Len(b)
    BY <2>1
  <2>2. i - 1 + (Len(s) - i) = Len(s) - 1
    BY <1>1
  <2> QED
    BY <2>2, <2>3, <1>2, <1>3
<1>6. ASSUME NEW k \in 1 .. Len(s) - 1
      PROVE  (a \o b)[k] = IF k < i THEN s[k] ELSE s[k + 1]
  <2>1. CASE k < i
    <3>1. (a \o b)[k] = a[k]
      BY <2>1, <1>1, <1>2, <1>3
    <3> QED
      BY <3>1, <2>1, <1>1, <1>2
  <2>2. CASE ~(k < i)
    <3>1. k - i + 1 \in 1 .. Len(s) - i /\ i + (k - i + 1) = k + 1
      BY <2>2, <1>1
    <3>2. (a \o b)[k] = b[k - i + 1]
      BY <2>2, <1>1, <1>2, <1>3
    <3>3. b[k - i + 1] = s[k + 1]
      BY <3>1, <1>3
    <3> QED
      BY <3>2, <3>3, <2>2, <1>1
  <2> QED
    BY <2>1, <2>2
<1> QED
  BY <1>4, <1>5, <1>6

-----------------------------------------------------------------------------
\* l has every one of the n records in d once, by the order o.
Indexes(d, o, l) ==
  /\ l \in Seq(0 .. Len(d) - 1) /\ Len(l) = Len(d)
  /\ \A v \in 0 .. Len(d) - 1 : \E k \in 1 .. Len(d) : l[k] = v
  /\ \A j, k \in 1 .. Len(d) : j < k => Key[o][d[l[j] + 1]] <= Key[o][d[l[k] + 1]]

\* No record is there twice.
Distinct(d) == \A j, k \in 1 .. Len(d) : d[j] = d[k] => j = k

Listed(d, l) == [k \in DOMAIN l |-> d[l[k] + 1]]

\* As many places as records: none has two.
LEMMA OncePlaced ==
  ASSUME NEW d \in Seq(Record), NEW o, NEW l, Indexes(d, o, l)
  PROVE  \A j, k \in 1 .. Len(d) : l[j] = l[k] => j = k
<1> DEFINE n == Len(d)
           S == 1 .. n
           T == 0 .. n - 1
<1>1. n \in Nat
  OBVIOUS
<1>2. l \in Seq(T) /\ Len(l) = n /\ \A v \in T : \E k \in S : l[k] = v
  BY DEF Indexes
<1> HIDE DEF n
<1>3. l \in [S -> T]
  BY <1>2, <1>1
<1>4. IsFiniteSet(S) /\ Cardinality(S) = n
  BY <1>1, FS_Interval
<1>5. Cardinality(T) = n
  <2>1. 0 \in Int /\ n - 1 \in Int /\ (0 > n - 1 <=> n = 0) /\ n - 1 - 0 + 1 = n
    BY <1>1
  <2> QED
    BY <2>1, FS_Interval
<1> HIDE DEF S, T
<1>6. l \in Surjection(S, T)
  BY <1>2, <1>3 DEF Surjection
<1>7. l \in Injection(S, T)
  BY <1>4, <1>5, <1>6, FS_SurjSameCardinalityImpliesInj
<1> QED
  BY <1>7 DEF Injection, IsInjective, S, n

LEMMA ListedSorted ==
  ASSUME NEW d \in Seq(Record), NEW o \in Order, NEW l, Indexes(d, o, l)
  PROVE  /\ Listed(d, l) \in Seq(Record) /\ Len(Listed(d, l)) = Len(d)
         /\ Sorted(o, Listed(d, l))
         /\ \A k \in 1 .. Len(d) : l[k] \in 0 .. Len(d) - 1 /\ Listed(d, l)[k] = d[l[k] + 1]
<1> DEFINE n == Len(d)
           s == Listed(d, l)
<1>1. n \in Nat
  OBVIOUS
<1>2. /\ l \in Seq(0 .. n - 1) /\ Len(l) = n
      /\ \A j, k \in 1 .. n : j < k => Key[o][d[l[j] + 1]] <= Key[o][d[l[k] + 1]]
  BY DEF Indexes
<1>3. DOMAIN l = 1 .. n
  BY <1>2
<1> HIDE DEF n
<1>4. \A k \in 1 .. n : l[k] \in 0 .. n - 1
  BY <1>2, <1>1
<1>5. \A k \in 1 .. n : d[l[k] + 1] \in Record
  <2>1. \A k \in 1 .. n : l[k] + 1 \in 1 .. n
    BY <1>1, <1>4
  <2> QED
    BY <2>1 DEF n
<1>6. s = [k \in 1 .. n |-> d[l[k] + 1]]
  BY <1>3 DEF Listed
<1>7. s \in Seq(Record) /\ Len(s) = n
  <2>1. s \in [1 .. n -> Record]
    BY <1>5, <1>6
  <2> QED
    BY <2>1, <1>1
<1>8. \A k \in 1 .. n : Key[o][s[k]] \in Int
  BY <1>5, <1>6, ListAssumption
<1>9. Sorted(o, s)
  <2> SUFFICES ASSUME NEW j \in 1 .. n, NEW k \in 1 .. n, j <= k
               PROVE  Key[o][s[j]] <= Key[o][s[k]]
    BY <1>7 DEF Sorted
  <2>1. CASE j = k
    BY <2>1, <1>8
  <2>2. CASE j < k
    BY <2>2, <1>2, <1>6
  <2> QED
    BY <2>1, <2>2
<1> QED
  BY <1>4, <1>6, <1>7, <1>9 DEF n, s

-----------------------------------------------------------------------------
(* Adding.                                                                 *)

LEMMA AddIndexes ==
  ASSUME NEW d \in Seq(Record), NEW o \in Order, NEW l, Indexes(d, o, l), NEW r \in Record
  PROVE  Indexes(Append(d, r), o, InsertAt(l, find_first_after(o, r, Listed(d, l)) + 1, Len(d)))
<1> DEFINE n == Len(d)
           s == Listed(d, l)
           at == find_first_after(o, r, s)
           dd == Append(d, r)
           m == InsertAt(l, at + 1, n)
           K(x) == Key[o][x]
<1>1. n \in Nat
  OBVIOUS
<1>2. /\ l \in Seq(0 .. n - 1) /\ Len(l) = n
      /\ \A v \in 0 .. n - 1 : \E k \in 1 .. n : l[k] = v
      /\ \A j, k \in 1 .. n : j < k => K(d[l[j] + 1]) <= K(d[l[k] + 1])
  BY DEF Indexes
<1>3. /\ s \in Seq(Record) /\ Len(s) = n /\ Sorted(o, s)
      /\ \A k \in 1 .. n : l[k] \in 0 .. n - 1 /\ s[k] = d[l[k] + 1]
  BY ListedSorted
<1>4. /\ dd \in Seq(Record) /\ Len(dd) = n + 1 /\ dd[n + 1] = r
      /\ \A k \in 1 .. n : dd[k] = d[k]
  BY <1>1
<1> HIDE DEF dd, s
<1>5. /\ at \in 0 .. n
      /\ \A k \in 0 .. n - 1 : /\ k < at => 0 <= Srch(o, r, s, k)
                               /\ at <= k => Srch(o, r, s, k) < 0
  BY <1>3, FirstAfterFound DEF Elements
<1> HIDE DEF at, n
<1>6. l \in Seq(0 .. n) /\ n \in 0 .. n /\ at + 1 \in 1 .. Len(l) + 1
  <2>1. \A x \in 0 .. n - 1 : x \in 0 .. n
    BY <1>1
  <2>2. l \in [1 .. n -> 0 .. n]
    BY <2>1, <1>2, <1>3
  <2> QED
    BY <2>2, <1>1, <1>2, <1>5
<1>7. /\ m \in Seq(0 .. n) /\ Len(m) = n + 1
      /\ \A k \in 1 .. n + 1 : m[k] = IF k < at + 1 THEN l[k] ELSE IF k = at + 1 THEN n ELSE l[k - 1]
  <2> DEFINE i == at + 1
             S == 0 .. n
  <2>1. l \in Seq(S) /\ n \in S /\ i \in 1 .. Len(l) + 1
    BY <1>6, <1>2
  <2>2. m = InsertAt(l, i, n)
    OBVIOUS
  <2> HIDE DEF S, i, m
  <2>5. /\ InsertAt(l, i, n) \in Seq(S) /\ Len(InsertAt(l, i, n)) = Len(l) + 1
        /\ \A k \in 1 .. Len(l) + 1 :
             InsertAt(l, i, n)[k] = IF k < i THEN l[k] ELSE IF k = i THEN n ELSE l[k - 1]
    BY <2>1, InsertAtIs
  <2>3. /\ m \in Seq(S) /\ Len(m) = Len(l) + 1
        /\ \A k \in 1 .. Len(l) + 1 : m[k] = IF k < i THEN l[k] ELSE IF k = i THEN n ELSE l[k - 1]
    BY <2>2, <2>5
  <2>4. /\ m \in Seq(S) /\ Len(m) = n + 1
        /\ \A k \in 1 .. n + 1 : m[k] = IF k < i THEN l[k] ELSE IF k = i THEN n ELSE l[k - 1]
    BY <1>2, <2>3
  <2> QED
    BY <2>4 DEF S, i
<1> HIDE DEF m
<1>8. \A k \in 1 .. n : K(s[k]) \in Int /\ K(r) \in Int
  BY <1>3, ListAssumption
<1>9. \A k \in 1 .. n : (k <= at => K(s[k]) <= K(r)) /\ (at < k => K(r) <= K(s[k]))
  <2> TAKE k \in 1 .. n
  <2>1. k - 1 \in 0 .. n - 1 /\ k - 1 + 1 = k
    BY <1>1
  <2>2. Srch(o, r, s, k - 1) = K(r) - K(s[k])
    BY <2>1 DEF Srch, cf
  <2>3. k <= at => 0 <= K(r) - K(s[k])
    BY <2>1, <2>2, <1>1, <1>5
  <2>4. at < k => K(r) - K(s[k]) < 0
    BY <2>1, <2>2, <1>1, <1>5
  <2> HIDE DEF K
  <2> QED
    BY <2>3, <2>4, <1>8
<1>10. \A k \in 1 .. n + 1 :
         dd[m[k] + 1] = IF k < at + 1 THEN s[k] ELSE IF k = at + 1 THEN r ELSE s[k - 1]
  <2> TAKE k \in 1 .. n + 1
  <2>1. CASE k < at + 1
    <3>1. k \in 1 .. n
      BY <2>1, <1>1, <1>5
    <3>2. l[k] + 1 \in 1 .. n
      BY <3>1, <1>1, <1>3
    <3>3. m[k] = l[k]
      BY <2>1, <1>7
    <3>4. dd[l[k] + 1] = s[k]
      BY <3>1, <3>2, <1>3, <1>4
    <3> QED
      BY <2>1, <3>3, <3>4
  <2>2. CASE k = at + 1
    <3>1. ~(k < at + 1)
      BY <2>2, <1>1, <1>5
    <3>2. m[k] = n
      BY <2>2, <3>1, <1>7
    <3> QED
      BY <2>2, <3>1, <3>2, <1>4
  <2>3. CASE at + 1 < k
    <3>1. k - 1 \in 1 .. n
      BY <2>3, <1>1, <1>5
    <3>2. l[k - 1] + 1 \in 1 .. n
      BY <3>1, <1>1, <1>3
    <3>3. m[k] = l[k - 1] /\ ~(k < at + 1) /\ k # at + 1
      BY <2>3, <1>1, <1>5, <1>7
    <3> QED
      BY <3>1, <3>2, <3>3, <1>3, <1>4
  <2> QED
    BY <2>1, <2>2, <2>3, <1>1, <1>5
<1>11. \A j, k \in 1 .. n : j < k => K(s[j]) <= K(s[k])
  BY <1>2, <1>3
<1>12. ASSUME NEW j \in 1 .. n + 1, NEW k \in 1 .. n + 1, j < k
       PROVE  K(dd[m[j] + 1]) <= K(dd[m[k] + 1])
  <2> HIDE DEF K
  <2>1. CASE k < at + 1
    <3>1. j \in 1 .. n /\ k \in 1 .. n /\ j < at + 1
      BY <2>1, <1>12, <1>1, <1>5
    <3> QED
      BY <3>1, <2>1, <1>10, <1>11, <1>12
  <2>2. CASE k = at + 1
    <3>1. j \in 1 .. n /\ j < at + 1 /\ j <= at
      BY <2>2, <1>12, <1>1, <1>5
    <3> QED
      BY <3>1, <2>2, <1>9, <1>10
  <2>3. CASE at + 1 < k
    <3>1. k - 1 \in 1 .. n /\ ~(k < at + 1) /\ k # at + 1 /\ at < k - 1
      BY <2>3, <1>1, <1>5
    <3>2. dd[m[k] + 1] = s[k - 1]
      BY <3>1, <1>10
    <3>3. CASE j = at + 1
      BY <3>1, <3>2, <3>3, <1>9, <1>10
    <3>4. CASE j < at + 1
      <4>1. j \in 1 .. n /\ j < k - 1
        BY <3>4, <2>3, <1>1, <1>5
      <4> QED
        BY <4>1, <3>1, <3>2, <3>4, <1>10, <1>11
    <3>5. CASE at + 1 < j
      <4>1. j - 1 \in 1 .. n /\ j - 1 < k - 1 /\ ~(j < at + 1) /\ j # at + 1
        BY <3>5, <1>12, <1>1, <1>5
      <4> QED
        BY <4>1, <3>1, <3>2, <1>10, <1>11
    <3> QED
      BY <3>3, <3>4, <3>5, <1>5
  <2> QED
    BY <2>1, <2>2, <2>3, <1>5
<1>13. ASSUME NEW v \in 0 .. n PROVE \E k \in 1 .. n + 1 : m[k] = v
  <2>1. CASE v = n
    <3>1. at + 1 \in 1 .. n + 1 /\ ~(at + 1 < at + 1)
      BY <1>1, <1>5
    <3> QED
      BY <3>1, <2>1, <1>7
  <2>2. CASE v # n
    <3>1. v \in 0 .. n - 1
      BY <2>2, <1>1
    <3>2. PICK k \in 1 .. n : l[k] = v
      BY <3>1, <1>2
    <3>3. CASE k < at + 1
      <4>1. k \in 1 .. n + 1
        BY <1>1
      <4> QED
        BY <4>1, <3>2, <3>3, <1>7
    <3>4. CASE ~(k < at + 1)
      <4>1. k + 1 \in 1 .. n + 1 /\ ~(k + 1 < at + 1) /\ k + 1 # at + 1 /\ k + 1 - 1 = k
        BY <3>4, <1>1, <1>5
      <4> QED
        BY <4>1, <3>2, <1>7
    <3> QED
      BY <3>3, <3>4
  <2> QED
    BY <2>1, <2>2
<1>14. Len(dd) - 1 = n
  BY <1>1, <1>4
<1> QED
  BY <1>4, <1>7, <1>12, <1>13, <1>14 DEF Indexes, n, s, dd, at, m, K

-----------------------------------------------------------------------------
(* Deleting.                                                               *)

\* The records when the last one has taken the place of element x.
Without(d, x) == SubSeq([d EXCEPT ![x + 1] = d[Len(d)]], 1, Len(d) - 1)

LEMMA WithoutIs ==
  ASSUME NEW d \in Seq(Record), NEW x \in 0 .. Len(d) - 1
  PROVE  /\ Without(d, x) \in Seq(Record) /\ Len(Without(d, x)) = Len(d) - 1
         /\ \A k \in 1 .. Len(d) - 1 :
              Without(d, x)[k] = IF k = x + 1 THEN d[Len(d)] ELSE d[k]
<1> DEFINE n == Len(d)
           e == [d EXCEPT ![x + 1] = d[n]]
<1>1. n \in Nat /\ n # 0 /\ x + 1 \in 1 .. n
  OBVIOUS
<1>2. d \in [1 .. n -> Record] /\ d[n] \in Record
  BY <1>1
<1> HIDE DEF n
<1>3. e \in [1 .. n -> Record] /\ \A k \in 1 .. n : e[k] = IF k = x + 1 THEN d[n] ELSE d[k]
  BY <1>1, <1>2
<1> HIDE DEF e
<1>4. e \in Seq(Record) /\ Len(e) = n
  BY <1>1, <1>3
<1>5. n - 1 \in 0 .. Len(e)
  BY <1>1, <1>4
<1>6. /\ SubSeq(e, 1, n - 1) \in Seq(Record) /\ Len(SubSeq(e, 1, n - 1)) = n - 1
      /\ \A k \in 1 .. n - 1 : SubSeq(e, 1, n - 1)[k] = e[k]
  BY <1>1, <1>4, <1>5
<1>7. \A k \in 1 .. n - 1 : k \in 1 .. n
  BY <1>1
<1>8. Without(d, x) = SubSeq(e, 1, n - 1)
  BY DEF Without, e, n
<1> QED
  BY <1>3, <1>6, <1>7, <1>8 DEF n

LEMMA WithoutDistinct ==
  ASSUME NEW d \in Seq(Record), NEW x \in 0 .. Len(d) - 1, Distinct(d)
  PROVE  /\ Distinct(Without(d, x))
         /\ \A r : (\E k \in DOMAIN Without(d, x) : Without(d, x)[k] = r)
                     <=> r # d[x + 1] /\ \E k \in DOMAIN d : d[k] = r
<1> DEFINE n == Len(d)
           e == Without(d, x)
<1>1. n \in Nat /\ n # 0 /\ x + 1 \in 1 .. n
  OBVIOUS
<1>2. /\ e \in Seq(Record) /\ Len(e) = n - 1
      /\ \A k \in 1 .. n - 1 : e[k] = IF k = x + 1 THEN d[n] ELSE d[k]
  BY WithoutIs
<1>3. \A j, k \in 1 .. n : d[j] = d[k] => j = k
  BY DEF Distinct
<1>4. DOMAIN d = 1 .. n
  OBVIOUS
<1> HIDE DEF n, e
<1>5. DOMAIN e = 1 .. n - 1
  BY <1>2
<1>6. \A k \in 1 .. n - 1 : k \in 1 .. n /\ n \in 1 .. n /\ k # n
  BY <1>1
<1>7. Distinct(e)
  BY <1>2, <1>3, <1>6 DEF Distinct
<1>8. ASSUME NEW k \in 1 .. n - 1 PROVE e[k] # d[x + 1] /\ \E j \in 1 .. n : d[j] = e[k]
  <2>1. CASE k = x + 1
    BY <2>1, <1>1, <1>2, <1>3, <1>6
  <2>2. CASE k # x + 1
    BY <2>2, <1>1, <1>2, <1>3, <1>6
  <2> QED
    BY <2>1, <2>2
<1>9. ASSUME NEW j \in 1 .. n, j # x + 1 PROVE \E k \in 1 .. n - 1 : e[k] = d[j]
  <2>1. CASE j = n
    <3>1. x + 1 \in 1 .. n - 1
      BY <2>1, <1>1, <1>9
    <3> QED
      BY <3>1, <2>1, <1>2
  <2>2. CASE j # n
    <3>1. j \in 1 .. n - 1
      BY <2>2, <1>1
    <3> QED
      BY <3>1, <1>2, <1>9
  <2> QED
    BY <2>1, <2>2
<1>10. ASSUME NEW r, r # d[x + 1], NEW j \in 1 .. n, d[j] = r
       PROVE  \E k \in 1 .. n - 1 : e[k] = r
  <2>1. j # x + 1
    BY <1>10
  <2> QED
    BY <2>1, <1>9, <1>10
<1> QED
  BY <1>4, <1>5, <1>7, <1>8, <1>10 DEF e

LEMMA SeqFunction ==
  ASSUME NEW S, NEW n \in Nat
  PROVE  /\ \A s \in Seq(S) : Len(s) = n => s \in [1 .. n -> S]
         /\ \A f \in [1 .. n -> S] : f \in Seq(S) /\ Len(f) = n
OBVIOUS

\* Where a record is found by an index.
LEMMA PlaceFound ==
  ASSUME NEW d \in Seq(Record), Distinct(d), NEW o \in Order, NEW l, Indexes(d, o, l),
         NEW v \in 0 .. Len(d) - 1
  PROVE  /\ find_exact_in_index(o, d[v + 1], Listed(d, l)) \in 0 .. Len(d) - 1
         /\ l[find_exact_in_index(o, d[v + 1], Listed(d, l)) + 1] = v
<1> DEFINE n == Len(d)
           s == Listed(d, l)
           r == d[v + 1]
<1>1. n \in Nat /\ v + 1 \in 1 .. n /\ r \in Record
  OBVIOUS
<1>2. /\ s \in Seq(Record) /\ Len(s) = n /\ Sorted(o, s)
      /\ \A k \in 1 .. n : l[k] \in 0 .. n - 1 /\ s[k] = d[l[k] + 1]
  BY ListedSorted
<1>3. PICK k \in 1 .. n : l[k] = v
  BY DEF Indexes
<1>4. \A i, j \in 1 .. n : d[i] = d[j] => i = j
  BY DEF Distinct
<1>5. \A i, j \in 1 .. n : l[i] = l[j] => i = j
  BY OncePlaced
<1> DEFINE p == k - 1
<1> HIDE DEF s, n, r
<1>6. p \in 0 .. n - 1 /\ p + 1 = k /\ Elements(s) = 0 .. n - 1
  BY <1>1, <1>2 DEF Elements
<1>7. s[p + 1] = r
  BY <1>2, <1>3, <1>6 DEF r
<1>8. ASSUME NEW j \in 0 .. n - 1, s[j + 1] = r PROVE j = p
  <2> DEFINE i == j + 1
  <2>1. i \in 1 .. n /\ j = i - 1
    BY <1>1
  <2>2. l[i] \in Int /\ l[i] + 1 \in 1 .. n /\ d[l[i] + 1] = r
    BY <2>1, <1>1, <1>2, <1>8
  <2>3. l[i] + 1 = v + 1
    BY <2>2, <1>1, <1>4 DEF r
  <2>4. l[i] = v
    BY <2>2, <2>3, <1>1
  <2>5. i = k
    BY <2>1, <2>4, <1>3, <1>5
  <2> QED
    BY <2>1, <2>5
<1>9. find_exact_in_index(o, r, s) = p
  <2> HIDE DEF p
  <2>1. p \in Elements(s) /\ \A j \in Elements(s) : s[j + 1] = r => j = p
    BY <1>6, <1>8
  <2>2. r \in Record /\ s \in Seq(Record) /\ Sorted(o, s)
    BY <1>1, <1>2
  <2> QED
    BY <2>1, <2>2, <1>7, ExactFound
<1> QED
  BY <1>3, <1>6, <1>9 DEF r, s, n

\* The index when place p has been taken out and the last record, which is at
\* place w, has got the number of the one that was there.
LEMMA RemoveKeepsIndexed ==
  ASSUME NEW d \in Seq(Record), NEW o \in Order, NEW l, Indexes(d, o, l),
         NEW x \in 0 .. Len(d) - 1,
         NEW p \in 1 .. Len(d), l[p] = x, NEW w \in 1 .. Len(d), l[w] = Len(d) - 1
  PROVE  Indexes(Without(d, x), o, RemoveAt([l EXCEPT ![w] = x], p))
<1> DEFINE n == Len(d)
           e == Without(d, x)
           c == [l EXCEPT ![w] = x]
           m == RemoveAt(c, p)
           K(y) == Key[o][y]
           old(k) == IF k < p THEN k ELSE k + 1
<1>1. n \in Nat /\ x \in 0 .. n - 1 /\ p \in 1 .. n /\ w \in 1 .. n /\ l[p] = x /\ l[w] = n - 1
  OBVIOUS
<1>2. /\ l \in Seq(0 .. n - 1) /\ Len(l) = n
      /\ \A v \in 0 .. n - 1 : \E k \in 1 .. n : l[k] = v
      /\ \A j, k \in 1 .. n : j < k => K(d[l[j] + 1]) <= K(d[l[k] + 1])
  BY DEF Indexes
<1>3. \A i, j \in 1 .. n : l[i] = l[j] => i = j
  BY OncePlaced
<1>4. /\ e \in Seq(Record) /\ Len(e) = n - 1
      /\ \A k \in 1 .. n - 1 : e[k] = IF k = x + 1 THEN d[n] ELSE d[k]
  BY WithoutIs
<1> HIDE DEF n, e
<1>5. l \in [1 .. n -> 0 .. n - 1]
  <2> DEFINE S == 0 .. n - 1
  <2>1. l \in Seq(S) /\ Len(l) = n
    BY <1>2
  <2> HIDE DEF S
  <2>2. l \in [1 .. n -> S]
    BY <2>1, <1>1, SeqFunction
  <2> QED
    BY <2>2 DEF S
<1>6. c \in [1 .. n -> 0 .. n - 1] /\ \A k \in 1 .. n : c[k] = IF k = w THEN x ELSE l[k]
  BY <1>1, <1>5
<1> HIDE DEF c
<1>7. c \in Seq(0 .. n - 1) /\ Len(c) = n
  BY <1>1, <1>6
<1>8. /\ m \in Seq(0 .. n - 1) /\ Len(m) = n - 1
      /\ \A k \in 1 .. n - 1 : m[k] = IF k < p THEN c[k] ELSE c[k + 1]
  <2>1. p \in 1 .. Len(c)
    BY <1>1, <1>7
  <2> DEFINE S == 0 .. n - 1
  <2>2. c \in Seq(S)
    BY <1>7
  <2> HIDE DEF S, m
  <2>3. /\ RemoveAt(c, p) \in Seq(S) /\ Len(RemoveAt(c, p)) = Len(c) - 1
        /\ \A k \in 1 .. Len(c) - 1 : RemoveAt(c, p)[k] = IF k < p THEN c[k] ELSE c[k + 1]
    BY <2>1, <2>2, RemoveAtIs
  <2> QED
    BY <2>3, <1>7 DEF S, m
<1> HIDE DEF m
<1>9. /\ \A k \in 1 .. n - 1 : old(k) \in 1 .. n /\ old(k) # p
      /\ \A j, k \in 1 .. n - 1 : j < k => old(j) < old(k)
      /\ \A k \in 1 .. n : k # p => \E j \in 1 .. n - 1 : old(j) = k
  <2>1. \A k \in 1 .. n - 1 : old(k) \in 1 .. n /\ old(k) # p
    BY <1>1
  <2>2. \A j, k \in 1 .. n - 1 : j < k => old(j) < old(k)
    BY <1>1
  <2>3. ASSUME NEW k \in 1 .. n, k # p PROVE \E j \in 1 .. n - 1 : old(j) = k
    <3>1. CASE k < p
      <4>1. k \in 1 .. n - 1
        BY <3>1, <1>1
      <4> QED
        BY <4>1, <3>1
    <3>2. CASE p < k
      <4>1. k - 1 \in 1 .. n - 1 /\ ~(k - 1 < p) /\ k - 1 + 1 = k
        BY <3>2, <1>1
      <4>2. old(k - 1) = k
        BY <4>1
      <4> HIDE DEF old
      <4> QED
        BY <4>1, <4>2
    <3> QED
      BY <3>1, <3>2, <2>3, <1>1
  <2> QED
    BY <2>1, <2>2, <2>3
<1>10. \A k \in 1 .. n - 1 : m[k] = c[old(k)]
  BY <1>8
<1> HIDE DEF old
<1>11. ASSUME NEW k \in 1 .. n, k # p
       PROVE  c[k] \in 0 .. n - 2 /\ e[c[k] + 1] = d[l[k] + 1]
  <2>1. CASE k = w
    <3>1. c[k] = x /\ l[k] = n - 1 /\ x # n - 1
      BY <2>1, <1>1, <1>3, <1>6, <1>11
    <3>2. x \in 0 .. n - 2 /\ x + 1 \in 1 .. n - 1 /\ n - 1 + 1 = n
      BY <3>1, <1>1
    <3> QED
      BY <3>1, <3>2, <1>4
  <2>2. CASE k # w
    <3>1. c[k] = l[k] /\ l[k] \in 0 .. n - 1 /\ l[k] # n - 1 /\ l[k] # x
      BY <2>2, <1>1, <1>3, <1>5, <1>6, <1>11
    <3>2. l[k] \in 0 .. n - 2 /\ l[k] + 1 \in 1 .. n - 1 /\ l[k] + 1 # x + 1
      BY <3>1, <1>1
    <3> QED
      BY <3>1, <3>2, <1>4
  <2> QED
    BY <2>1, <2>2
<1>12. ASSUME NEW k \in 1 .. n - 1
       PROVE  m[k] \in 0 .. n - 2 /\ e[m[k] + 1] = d[l[old(k)] + 1]
  <2>1. PICK j \in 1 .. n : j = old(k) /\ j # p /\ m[k] = c[j]
    BY <1>9, <1>10
  <2>2. c[j] \in 0 .. n - 2 /\ e[c[j] + 1] = d[l[j] + 1]
    BY <2>1, <1>11
  <2> QED
    BY <2>1, <2>2
<1>13. m \in Seq(0 .. n - 2)
  <2>1. m \in [1 .. n - 1 -> 0 .. n - 2]
    BY <1>8, <1>12
  <2>2. n - 1 \in Nat
    BY <1>1
  <2> DEFINE S == 0 .. n - 2
             a == n - 1
  <2>3. m \in [1 .. a -> S] /\ a \in Nat
    BY <2>1, <2>2
  <2> HIDE DEF S, a
  <2>4. m \in Seq(S)
    BY <2>3, SeqFunction
  <2> QED
    BY <2>4 DEF S
<1>14. \A j, k \in 1 .. n - 1 : j < k => K(e[m[j] + 1]) <= K(e[m[k] + 1])
  <2> SUFFICES ASSUME NEW j \in 1 .. n - 1, NEW k \in 1 .. n - 1, j < k
               PROVE  K(e[m[j] + 1]) <= K(e[m[k] + 1])
    OBVIOUS
  <2>1. old(j) \in 1 .. n /\ old(k) \in 1 .. n /\ old(j) < old(k)
    BY <1>9
  <2>2. K(d[l[old(j)] + 1]) <= K(d[l[old(k)] + 1])
    BY <2>1, <1>2
  <2>3. e[m[j] + 1] = d[l[old(j)] + 1] /\ e[m[k] + 1] = d[l[old(k)] + 1]
    BY <1>12
  <2> QED
    BY <2>2, <2>3
<1>15. ASSUME NEW v \in 0 .. n - 2 PROVE \E k \in 1 .. n - 1 : m[k] = v
  <2>1. v \in 0 .. n - 1 /\ v # n - 1
    BY <1>1
  <2>2. PICK i \in 1 .. n : c[i] = v /\ i # p
    <3>1. CASE v = x
      <4>1. w # p
        BY <3>1, <2>1, <1>1
      <4> QED
        BY <4>1, <3>1, <1>1, <1>6
    <3>2. CASE v # x
      <4>1. PICK i \in 1 .. n : l[i] = v
        BY <2>1, <1>2
      <4>2. i # p /\ i # w
        BY <4>1, <3>2, <2>1, <1>1
      <4> QED
        BY <4>1, <4>2, <1>6
    <3> QED
      BY <3>1, <3>2
  <2>3. PICK j \in 1 .. n - 1 : old(j) = i
    BY <2>2, <1>9
  <2> QED
    BY <2>2, <2>3, <1>10
<1>16. n - 1 - 1 = n - 2
  BY <1>1
<1> QED
  BY <1>4, <1>8, <1>13, <1>14, <1>15, <1>16 DEF Indexes, e, m, c, K

-----------------------------------------------------------------------------
(* Writing over a record.                                                  *)

LEMMA WriteIndexes ==
  ASSUME NEW d \in Seq(Record), NEW o, NEW l, Indexes(d, o, l),
         NEW x \in 0 .. Len(d) - 1, NEW r \in Record, Key[o][r] = Key[o][d[x + 1]]
  PROVE  Indexes([d EXCEPT ![x + 1] = r], o, l)
<1> DEFINE n == Len(d)
           e == [d EXCEPT ![x + 1] = r]
<1>1. n \in Nat /\ x + 1 \in 1 .. n
  OBVIOUS
<1>2. d \in [1 .. n -> Record]
  OBVIOUS
<1>3. /\ l \in Seq(0 .. n - 1) /\ Len(l) = n
      /\ \A v \in 0 .. n - 1 : \E k \in 1 .. n : l[k] = v
      /\ \A j, k \in 1 .. n : j < k => Key[o][d[l[j] + 1]] <= Key[o][d[l[k] + 1]]
  BY DEF Indexes
<1> HIDE DEF n
<1>4. e \in [1 .. n -> Record] /\ \A k \in 1 .. n : Key[o][e[k]] = Key[o][d[k]]
  BY <1>1, <1>2
<1> HIDE DEF e
<1>5. e \in Seq(Record) /\ Len(e) = n
  BY <1>1, <1>4
<1>6. \A k \in 1 .. n : l[k] + 1 \in 1 .. n
  <2>1. \A k \in 1 .. n : l[k] \in 0 .. n - 1
    BY <1>3
  <2> QED
    BY <2>1, <1>1
<1>7. \A j, k \in 1 .. n : j < k => Key[o][e[l[j] + 1]] <= Key[o][e[l[k] + 1]]
  <2>1. SUFFICES ASSUME NEW j \in 1 .. n, NEW k \in 1 .. n, j < k
                 PROVE  Key[o][e[l[j] + 1]] <= Key[o][e[l[k] + 1]]
    OBVIOUS
  <2>2. Key[o][d[l[j] + 1]] <= Key[o][d[l[k] + 1]]
    BY <2>1, <1>3
  <2>3. l[j] + 1 \in 1 .. n /\ l[k] + 1 \in 1 .. n
    BY <1>6
  <2>4. Key[o][e[l[j] + 1]] = Key[o][d[l[j] + 1]]
    BY <2>3, <1>4
  <2>5. Key[o][e[l[k] + 1]] = Key[o][d[l[k] + 1]]
    BY <2>3, <1>4
  <2> QED
    BY <2>2, <2>4, <2>5
<1> QED
  BY <1>3, <1>5, <1>7 DEF Indexes, e

-----------------------------------------------------------------------------
(* A new index.                                                            *)

LEMMA SortIndexes ==
  ASSUME data \in Seq(Record), NEW o \in Order
  PROVE  Indexes(data, o, sort_index(o, [k \in 1 .. cur_no |-> k - 1]))
<1> DEFINE n == cur_no
           l == [k \in 1 .. n |-> k - 1]
           m == sort_index(o, l)
<1>1. n \in Nat /\ n = Len(data)
  BY DEF cur_no
<1> HIDE DEF n
<1>2. l \in [1 .. n -> 0 .. n - 1] /\ l \in Seq(0 .. n - 1) /\ Len(l) = n
  BY <1>1
<1>3. \A k \in 1 .. n : l[k] = k - 1
  OBVIOUS
<1> HIDE DEF l
<1>4. CASE n = 0
  <2>1. l = <<>> /\ 1 .. n = {} /\ 0 .. n - 1 = {}
    BY <1>2, <1>4
  <2>2. m = l
    BY <2>1 DEF sort_index
  <2> QED
    BY <2>1, <2>2, <1>1, <1>2 DEF Indexes, m, l, n
<1>5. CASE n # 0
  <2> DEFINE q == [list |-> l, begin |-> 0, end |-> n - 1]
  <2>1. l # <<>> /\ 0 \in 0 .. n - 1 /\ n - 1 \in 0 .. n - 1 /\ 0 <= n - 1
    BY <1>1, <1>2, <1>5
  <2>2. q \in Ranges /\ q.list = l /\ q.begin = 0 /\ q.end = n - 1
    BY <2>1, <1>2 DEF Ranges, Lists, n
  <2>3. m = list_qsort(o)[q]
    BY <2>1, <1>2 DEF sort_index
  <2> HIDE DEF q, m
  <2>4. SortedFrom(o, l, m, 0, n - 1)
    BY <2>2, <2>3, QsortSorts
  <2>5. /\ m \in Lists
        /\ \A j \in 0 .. n - 1 : \E k \in 0 .. n - 1 : m[k + 1] = l[j + 1]
        /\ \A j, k \in 0 .. n - 1 : j <= k => Key[o][data[m[j + 1] + 1]] <= Key[o][data[m[k + 1] + 1]]
    BY <2>4 DEF SortedFrom, Rearranged, InOrder
  <2>6. m \in [1 .. n -> 0 .. n - 1]
    BY <2>5 DEF Lists, n
  <2>7. m \in Seq(0 .. n - 1) /\ Len(m) = n
    BY <2>6, <1>1
  <2>8. ASSUME NEW v \in 0 .. n - 1 PROVE \E k \in 1 .. n : m[k] = v
    <3>1. PICK k \in 0 .. n - 1 : m[k + 1] = l[v + 1]
      BY <2>5
    <3>2. k + 1 \in 1 .. n /\ v + 1 \in 1 .. n /\ v + 1 - 1 = v
      BY <1>1
    <3>3. l[v + 1] = v
      BY <3>2, <1>3
    <3> QED
      BY <3>1, <3>2, <3>3
  <2>9. ASSUME NEW j \in 1 .. n, NEW k \in 1 .. n, j < k
        PROVE  Key[o][data[m[j] + 1]] <= Key[o][data[m[k] + 1]]
    <3>1. j - 1 \in 0 .. n - 1 /\ k - 1 \in 0 .. n - 1 /\ j - 1 <= k - 1
          /\ j - 1 + 1 = j /\ k - 1 + 1 = k
      BY <2>9, <1>1
    <3>2. Key[o][data[m[j - 1 + 1] + 1]] <= Key[o][data[m[k - 1 + 1] + 1]]
      BY <3>1, <2>5
    <3> QED
      BY <3>1, <3>2
  <2> QED
    BY <2>7, <2>8, <2>9, <1>1 DEF Indexes, m, l, n
<1> QED
  BY <1>4, <1>5

-----------------------------------------------------------------------------
(* The list in memory.                                                     *)

Index == [order : Order, list : Seq(Nat)]

\* Every index of x has every record in d once, by its order.
Sound(d, ind) == ind \in Index /\ Indexes(d, ind.order, ind.list)

AllSound(d, x) == x \in Seq(Index) /\ \A i \in DOMAIN x : Sound(d, x[i])

\* ListInvariant alone is not inductive: of two records that are equal the
\* wrong one would be taken out of an index.
ListIInv ==
  /\ data \in Seq(Record) /\ Distinct(data)
  /\ alloc_no \in Nat /\ Capacity
  /\ AllSound(data, index) /\ Len(index) <= MAX_INDEXES
  /\ Len(answer) <= 1

LEMMA SoundIs ==
  ASSUME NEW d \in Seq(Record), NEW ind, Sound(d, ind)
  PROVE  /\ ind.order \in Order /\ ind.list \in Seq(0 .. Len(d) - 1) /\ Len(ind.list) = Len(d)
         /\ ToSet(ind.list) = 0 .. Len(d) - 1
         /\ \A j, k \in DOMAIN ind.list : j < k =>
              cf(ind.order, d[ind.list[j] + 1], d[ind.list[k] + 1]) <= 0
<1> DEFINE n == Len(d)
           l == ind.list
           o == ind.order
           K(x) == Key[o][x]
<1>1. n \in Nat
  OBVIOUS
<1>2. o \in Order /\ Indexes(d, o, l)
  BY DEF Sound, Index
<1>3. /\ l \in Seq(0 .. n - 1) /\ Len(l) = n
      /\ \A v \in 0 .. n - 1 : \E k \in 1 .. n : l[k] = v
      /\ \A j, k \in 1 .. n : j < k => K(d[l[j] + 1]) <= K(d[l[k] + 1])
  BY <1>2 DEF Indexes
<1>4. \A k \in 1 .. n : l[k] \in 0 .. n - 1 /\ d[l[k] + 1] \in Record
  <2>1. /\ Listed(d, l) \in Seq(Record) /\ Len(Listed(d, l)) = n
        /\ \A k \in 1 .. n : l[k] \in 0 .. n - 1 /\ Listed(d, l)[k] = d[l[k] + 1]
    BY <1>2, ListedSorted
  <2> DEFINE s == Listed(d, l)
  <2>2. s \in Seq(Record) /\ Len(s) = n
    BY <2>1
  <2> HIDE DEF s
  <2>3. \A k \in 1 .. n : s[k] \in Record
    BY <2>2
  <2> QED
    BY <2>1, <2>3 DEF s
<1>5. DOMAIN l = 1 .. n
  BY <1>3
<1> HIDE DEF n, l, o
<1>6. ToSet(l) = 0 .. n - 1
  BY <1>3, <1>4, <1>5 DEF ToSet
<1>7. \A j, k \in DOMAIN l : j < k => cf(o, d[l[j] + 1], d[l[k] + 1]) <= 0
  <2>1. \A k \in 1 .. n : K(d[l[k] + 1]) \in Int
    BY <1>2, <1>4, ListAssumption
  <2> SUFFICES ASSUME NEW j \in 1 .. n, NEW k \in 1 .. n, j < k
               PROVE  K(d[l[j] + 1]) - K(d[l[k] + 1]) <= 0
    BY <1>5 DEF cf
  <2> HIDE DEF K
  <2> QED
    BY <2>1, <1>3
<1> QED
  BY <1>2, <1>3, <1>6, <1>7 DEF n, l, o

LEMMA IndexesSound ==
  ASSUME NEW d \in Seq(Record), NEW o \in Order, NEW l, Indexes(d, o, l)
  PROVE  Sound(d, [order |-> o, list |-> l])
<1>1. l \in Seq(0 .. Len(d) - 1)
  BY DEF Indexes
<1>2. l \in Seq(Nat)
  <2> DEFINE n == Len(l)
             S == 0 .. Len(d) - 1
  <2>1. n \in Nat /\ l \in [1 .. n -> S]
    BY <1>1
  <2>2. \A x \in S : x \in Nat
    OBVIOUS
  <2> HIDE DEF S, n
  <2>3. l \in [1 .. n -> Nat]
    BY <2>1, <2>2
  <2> QED
    BY <2>1, <2>3
<1> QED
  BY <1>2 DEF Sound, Index

LEMMA FunctionSound ==
  ASSUME NEW d, NEW m \in Nat, NEW f, DOMAIN f = 1 .. m, f = [i \in 1 .. m |-> f[i]],
         \A i \in 1 .. m : Sound(d, f[i])
  PROVE  AllSound(d, f) /\ Len(f) = m
<1>1. \A i \in 1 .. m : f[i] \in Index
  BY DEF Sound
<1>2. f \in [1 .. m -> Index]
  BY <1>1
<1>3. f \in Seq(Index) /\ Len(f) = m
  BY <1>2, SeqFunction
<1> QED
  BY <1>3 DEF AllSound

LEMMA InvariantFollows ==
  ASSUME ListIInv
  PROVE  ListInvariant
<1>1. /\ data \in Seq(Record) /\ alloc_no \in Nat /\ Capacity
      /\ Len(index) <= MAX_INDEXES /\ Len(answer) <= 1
  BY DEF ListIInv
<1>2. \A i \in DOMAIN index : Sound(data, index[i])
  BY DEF ListIInv, AllSound
<1>3. \A i \in DOMAIN index :
        /\ index[i].order \in Order /\ index[i].list \in Seq(0 .. cur_no - 1)
        /\ Len(index[i].list) = cur_no /\ ToSet(index[i].list) = 0 .. cur_no - 1
        /\ \A j, k \in DOMAIN index[i].list : j < k =>
             cf(index[i].order, data[index[i].list[j] + 1], data[index[i].list[k] + 1]) <= 0
  BY <1>1, <1>2, SoundIs DEF cur_no
<1>4. ListTypeOK
  BY <1>1, <1>3 DEF ListTypeOK
<1>5. IndexesSorted
  BY <1>3 DEF IndexesSorted
<1> QED
  BY <1>1, <1>4, <1>5 DEF ListInvariant

LEMMA NewListKept ==
  ASSUME NEW d, d = << >>, NEW x, x = << >>
  PROVE  d \in Seq(Record) /\ Distinct(d) /\ AllSound(d, x) /\ Len(x) = 0
BY DEF Distinct, AllSound

LEMMA NewListInvariant ==
  ASSUME new_list
  PROVE  ListIInv
<1>1. data = << >> /\ alloc_no = 0 /\ index = << >> /\ answer = << >>
  BY DEF new_list
<1>2. cur_no = 0
  BY <1>1 DEF cur_no
<1>3. Capacity
  BY <1>1, <1>2 DEF Capacity
<1>4. Len(index) <= MAX_INDEXES
  BY <1>1, ListAssumption
<1>5. Len(answer) <= 1
  BY <1>1
<1> QED
  BY <1>1, <1>3, <1>4, <1>5, NewListKept DEF ListIInv

-----------------------------------------------------------------------------
(* The operations.                                                         *)

LEMMA AddKeeps ==
  ASSUME ListIInv, NEW r \in Record, add_list(r)
  PROVE  /\ ListIInv'
         /\ DOMAIN index' = DOMAIN index /\ \A i \in DOMAIN index : index'[i].order = index[i].order
<1> DEFINE n == cur_no
           x == index
           y == index'
<1>1. /\ data \in Seq(Record) /\ Distinct(data) /\ alloc_no \in Nat /\ Capacity
      /\ AllSound(data, x) /\ Len(x) <= MAX_INDEXES
  BY DEF ListIInv
<1>2. /\ r \notin ToSet(data)
      /\ data' = Append(data, r)
      /\ alloc_no' = IF n + 1 > alloc_no THEN Grown(alloc_no) ELSE alloc_no
      /\ y = [i \in DOMAIN x |->
           LET at == find_first_after(x[i].order, r, Records(x[i]))
           IN  [x[i] EXCEPT !.list = InsertAt(@, at + 1, n)]]
      /\ answer' = << >>
  BY DEF add_list, Returned, Answer
<1>3. n \in Nat /\ n = Len(data) /\ cur_no' = Len(data')
  BY <1>1 DEF cur_no
<1>4. /\ data' \in Seq(Record) /\ Len(data') = n + 1 /\ data'[n + 1] = r
      /\ \A k \in 1 .. n : data'[k] = data[k]
  BY <1>1, <1>2, <1>3
<1>5. Distinct(data')
  <2>1. \A k \in 1 .. n : data[k] # r
    BY <1>1, <1>2, <1>3 DEF ToSet
  <2>2. \A j, k \in 1 .. n : data[j] = data[k] => j = k
    BY <1>1, <1>3 DEF Distinct
  <2> HIDE DEF n
  <2>3. \A k \in 1 .. n + 1 : k \in 1 .. n \/ k = n + 1
    BY <1>3
  <2> QED
    BY <2>1, <2>2, <2>3, <1>4 DEF Distinct
<1>6. Capacity' /\ alloc_no' \in Nat
  <2>1. n <= alloc_no /\ alloc_no <= 4 * n + 3
    BY <1>1 DEF Capacity
  <2> HIDE DEF n
  <2>2. alloc_no' \in Nat /\ n + 1 <= alloc_no' /\ alloc_no' <= 4 * (n + 1) + 3
    BY <2>1, <1>1, <1>2, <1>3 DEF Grown
  <2> QED
    BY <2>2, <1>3, <1>4 DEF Capacity
<1>7. x \in Seq(Index) /\ Len(x) \in Nat /\ DOMAIN x = 1 .. Len(x)
  BY <1>1 DEF AllSound
<1>8. \A i \in DOMAIN x : Sound(data, x[i])
  BY <1>1 DEF AllSound
<1>9. ASSUME NEW i \in DOMAIN x PROVE y[i].order = x[i].order /\ Sound(data', y[i])
  <2>1. x[i] \in Index /\ Indexes(data, x[i].order, x[i].list) /\ x[i].order \in Order
    BY <1>8 DEF Sound, Index
  <2>2. Records(x[i]) = Listed(data, x[i].list)
    BY DEF Records, Listed
  <2> DEFINE at == find_first_after(x[i].order, r, Records(x[i]))
             l == InsertAt(x[i].list, at + 1, n)
  <2>3. y[i] = [x[i] EXCEPT !.list = l]
    BY <1>2
  <2> HIDE DEF l
  <2>4. y[i] = [order |-> x[i].order, list |-> l]
    BY <2>1, <2>3 DEF Index
  <2>6. Indexes(data', x[i].order, l)
    BY <1>1, <1>2, <1>3, <2>1, <2>2, AddIndexes DEF l
  <2>7. Sound(data', [order |-> x[i].order, list |-> l])
    BY <1>4, <2>1, <2>6, IndexesSound
  <2> QED
    BY <2>4, <2>7
<1>10. DOMAIN y = DOMAIN x /\ y = [i \in DOMAIN x |-> y[i]]
  BY <1>2
<1> HIDE DEF x, y, n
<1>11. AllSound(data', y) /\ Len(y) = Len(x)
  BY <1>7, <1>9, <1>10, FunctionSound
<1>12. \A i \in DOMAIN x : y[i].order = x[i].order
  BY <1>9
<1>14. Len(answer') <= 1
  BY <1>2
<1> QED
  BY <1>1, <1>4, <1>5, <1>6, <1>10, <1>11, <1>12, <1>14 DEF ListIInv, x, y

LEMMA DeleteKeeps ==
  ASSUME ListIInv, NEW indx \in 0 .. cur_no - 1, delete_list(indx)
  PROVE  /\ ListIInv' /\ data' = Without(data, indx)
         /\ DOMAIN index' = DOMAIN index /\ \A i \in DOMAIN index : index'[i].order = index[i].order
<1> DEFINE n == cur_no
           x == index
           y == index'
<1>1. /\ data \in Seq(Record) /\ Distinct(data) /\ alloc_no \in Nat /\ Capacity
      /\ AllSound(data, x) /\ Len(x) <= MAX_INDEXES
  BY DEF ListIInv
<1>2. /\ data' = Without(data, indx)
      /\ alloc_no' = Shrunk(alloc_no, n - 1)
      /\ y = [i \in DOMAIN x |-> Replaced(x[i], indx)]
      /\ answer' = << >>
  BY DEF delete_list, Returned, Answer, Without, cur_no
<1>3. n \in Nat /\ n = Len(data) /\ cur_no' = Len(data') /\ indx \in 0 .. n - 1 /\ n # 0
  BY <1>1 DEF cur_no
<1>4. data' \in Seq(Record) /\ Len(data') = n - 1 /\ Distinct(data')
  BY <1>1, <1>2, <1>3, WithoutIs, WithoutDistinct
<1>5. Capacity' /\ alloc_no' \in Nat
  <2>1. n <= alloc_no /\ alloc_no <= 4 * n + 3
    BY <1>1 DEF Capacity
  <2> HIDE DEF n
  <2>2. alloc_no' \in Nat /\ n - 1 <= alloc_no' /\ alloc_no' <= 4 * (n - 1) + 3
    BY <2>1, <1>1, <1>2, <1>3 DEF Shrunk
  <2> QED
    BY <2>2, <1>3, <1>4 DEF Capacity
<1>6. x \in Seq(Index) /\ Len(x) \in Nat /\ DOMAIN x = 1 .. Len(x)
  BY <1>1 DEF AllSound
<1>7. \A i \in DOMAIN x : Sound(data, x[i])
  BY <1>1 DEF AllSound
<1>8. ASSUME NEW i \in DOMAIN x PROVE y[i].order = x[i].order /\ Sound(data', y[i])
  <2>1. x[i] \in Index /\ Indexes(data, x[i].order, x[i].list) /\ x[i].order \in Order
    BY <1>7 DEF Sound, Index
  <2> DEFINE ind == x[i]
             o == ind.order
             s == Records(ind)
             del == find_exact_in_index(o, data[indx + 1], s)
             repl == find_exact_in_index(o, data[n], s)
             l == RemoveAt([ind.list EXCEPT ![repl + 1] = indx], del + 1)
  <2>2. s = Listed(data, ind.list)
    BY DEF Records, Listed
  <2>3. del \in 0 .. n - 1 /\ ind.list[del + 1] = indx
    <3>1. data \in Seq(Record) /\ Distinct(data) /\ indx \in 0 .. Len(data) - 1
      BY <1>1, <1>3
    <3>2. /\ find_exact_in_index(o, data[indx + 1], Listed(data, ind.list)) \in 0 .. Len(data) - 1
          /\ ind.list[find_exact_in_index(o, data[indx + 1], Listed(data, ind.list)) + 1] = indx
      BY <3>1, <2>1, PlaceFound
    <3> HIDE DEF s
    <3> QED
      BY <3>2, <2>2, <1>3
  <2>4. repl \in 0 .. n - 1 /\ ind.list[repl + 1] = n - 1
    <3> DEFINE v == n - 1
    <3>1. v \in 0 .. Len(data) - 1 /\ v + 1 = n
      BY <1>3
    <3> HIDE DEF v
    <3>2. /\ find_exact_in_index(o, data[v + 1], s) \in 0 .. Len(data) - 1
          /\ ind.list[find_exact_in_index(o, data[v + 1], s) + 1] = v
      BY <3>1, <1>1, <2>1, <2>2, PlaceFound
    <3> QED
      BY <3>1, <3>2, <1>3 DEF v
  <2>5. y[i] = IF del = -1 \/ repl = -1 THEN ind ELSE [ind EXCEPT !.list = l]
    BY <1>2 DEF Replaced
  <2>6. Indexes(data', o, l)
    <3> HIDE DEF n, s
    <3>1. del + 1 \in 1 .. n /\ repl + 1 \in 1 .. n
      <4> HIDE DEF del, repl
      <4> QED
        BY <1>3, <2>3, <2>4
    <3> DEFINE p == del + 1
               w == repl + 1
               L == ind.list
    <3>2. /\ p \in 1 .. Len(data) /\ L[p] = indx /\ w \in 1 .. Len(data) /\ L[w] = Len(data) - 1
          /\ indx \in 0 .. Len(data) - 1 /\ Indexes(data, o, L) /\ o \in Order
      BY <3>1, <1>3, <2>1, <2>3, <2>4
    <3> HIDE DEF p, w, L, o
    <3>3. Indexes(Without(data, indx), o, RemoveAt([L EXCEPT ![w] = indx], p))
      BY <3>2, <1>1, RemoveKeepsIndexed
    <3> QED
      BY <3>3, <1>2 DEF p, w, L
  <2>7. del # -1 /\ repl # -1
    <3> HIDE DEF del, repl, n
    <3> QED
      BY <1>3, <2>3, <2>4
  <2> HIDE DEF l, del, repl
  <2>8. y[i] = [order |-> o, list |-> l]
    BY <2>1, <2>5, <2>7 DEF Index
  <2>9. Sound(data', [order |-> o, list |-> l])
    BY <1>4, <2>1, <2>6, IndexesSound
  <2> QED
    BY <2>8, <2>9
<1>9. DOMAIN y = DOMAIN x /\ y = [i \in DOMAIN x |-> y[i]]
  BY <1>2
<1> HIDE DEF x, y, n
<1>10. AllSound(data', y) /\ Len(y) = Len(x)
  BY <1>6, <1>8, <1>9, FunctionSound
<1>12. Len(answer') <= 1
  BY <1>2
<1> QED
  BY <1>1, <1>2, <1>4, <1>5, <1>8, <1>9, <1>10, <1>12 DEF ListIInv, x, y

LEMMA WriteKeeps ==
  ASSUME ListIInv, NEW indx \in 0 .. cur_no - 1, NEW r \in Record, Write(indx, r)
  PROVE  ListIInv'
<1> DEFINE n == cur_no
<1>1. /\ data \in Seq(Record) /\ Distinct(data) /\ alloc_no \in Nat /\ Capacity
      /\ AllSound(data, index) /\ Len(index) <= MAX_INDEXES
  BY DEF ListIInv
<1>2. /\ r \notin ToSet(data)
      /\ \A i \in DOMAIN index : cf(index[i].order, r, data[indx + 1]) = 0
      /\ data' = [data EXCEPT ![indx + 1] = r]
      /\ answer' = << >> /\ alloc_no' = alloc_no /\ index' = index
  BY DEF Write, Returned, Answer
<1>3. n \in Nat /\ n = Len(data) /\ cur_no' = Len(data') /\ indx \in 0 .. n - 1
  BY <1>1 DEF cur_no
<1> HIDE DEF n
<1>4. indx + 1 \in 1 .. n
  BY <1>3
<1>5. data \in [1 .. n -> Record]
  BY <1>1, <1>3
<1>6. /\ data' \in [1 .. n -> Record]
      /\ \A k \in 1 .. n : data'[k] = IF k = indx + 1 THEN r ELSE data[k]
  BY <1>2, <1>4, <1>5
<1>7. data' \in Seq(Record) /\ Len(data') = n
  BY <1>3, <1>6
<1>8. Distinct(data')
  <2>1. \A k \in 1 .. n : data[k] # r
    BY <1>2, <1>5 DEF ToSet
  <2>2. \A j, k \in 1 .. n : data[j] = data[k] => j = k
    BY <1>1, <1>3 DEF Distinct
  <2>3. \A j, k \in 1 .. n : data'[j] = data'[k] => j = k
    BY <2>1, <2>2, <1>6
  <2> QED
    BY <2>3, <1>7 DEF Distinct
<1>9. Capacity'
  <2>1. cur_no' = cur_no
    BY <1>3, <1>7 DEF n
  <2> QED
    BY <2>1, <1>1, <1>2 DEF Capacity
<1>10. index \in Seq(Index) /\ \A i \in DOMAIN index : Sound(data, index[i])
  BY <1>1 DEF AllSound
<1>11. ASSUME NEW i \in DOMAIN index PROVE Sound(data', index[i])
  <2> DEFINE o == index[i].order
             l == index[i].list
  <2>1. index[i] \in Index /\ Indexes(data, o, l) /\ o \in Order
    BY <1>10 DEF Sound, Index
  <2>2. cf(o, r, data[indx + 1]) = 0
    BY <1>2
  <2> HIDE DEF o, l
  <2>3. Key[o][r] = Key[o][data[indx + 1]]
    <3>1. data[indx + 1] \in Record
      BY <1>4, <1>5
    <3>2. Key[o][r] \in Int /\ Key[o][data[indx + 1]] \in Int
      BY <3>1, <2>1, ListAssumption
    <3> QED
      BY <3>2, <2>2 DEF cf
  <2>4. Indexes(data', o, l)
    BY <1>1, <1>2, <1>3, <2>1, <2>3, WriteIndexes
  <2> QED
    BY <2>1, <2>4 DEF Sound, o, l
<1>12. AllSound(data', index)
  BY <1>10, <1>11 DEF AllSound
<1>13. Len(answer') <= 1
  BY <1>2
<1> QED
  BY <1>1, <1>2, <1>7, <1>8, <1>9, <1>12, <1>13 DEF ListIInv

LEMMA AddIndexKeeps ==
  ASSUME ListIInv, NEW o \in Order, add_index(o)
  PROVE  /\ ListIInv'
         /\ \E l : index' = Append(index, [order |-> o, list |-> l])
<1> DEFINE x == index
           l == sort_index(o, [k \in 1 .. cur_no |-> k - 1])
           ind == [order |-> o, list |-> l]
<1>1. /\ data \in Seq(Record) /\ Distinct(data) /\ alloc_no \in Nat /\ Capacity
      /\ AllSound(data, x) /\ Len(x) <= MAX_INDEXES
  BY DEF ListIInv
<1>2. /\ Len(x) < MAX_INDEXES
      /\ index' = Append(x, ind)
      /\ answer' = << >> /\ data' = data /\ alloc_no' = alloc_no
  BY DEF add_index, Returned, Answer
<1>3. Sound(data, ind)
  BY <1>1, SortIndexes, IndexesSound
<1>4. x \in Seq(Index) /\ \A i \in DOMAIN x : Sound(data, x[i])
  BY <1>1 DEF AllSound
<1>5. ind \in Index
  BY <1>3 DEF Sound
<1> HIDE DEF x, ind
<1> DEFINE m == Len(x)
           y == Append(x, ind)
<1>7. m \in Nat /\ DOMAIN x = 1 .. m
  BY <1>4
<1>8. /\ y \in Seq(Index) /\ Len(y) = m + 1 /\ DOMAIN y = 1 .. m + 1
      /\ y[m + 1] = ind /\ \A i \in 1 .. m : y[i] = x[i]
  BY <1>4, <1>5
<1> HIDE DEF y, m
<1>9. \A i \in 1 .. m + 1 : i \in 1 .. m \/ i = m + 1
  BY <1>7
<1>10. AllSound(data, y)
  <2>1. \A i \in 1 .. m + 1 : Sound(data, y[i])
    BY <1>3, <1>4, <1>7, <1>8, <1>9
  <2> QED
    BY <2>1, <1>8 DEF AllSound
<1>12. Len(y) <= MAX_INDEXES
  BY <1>2, <1>7, <1>8, ListAssumption DEF m
<1>13. Len(answer') <= 1
  BY <1>2
<1>14. Capacity'
  BY <1>1, <1>2 DEF Capacity, cur_no
<1> QED
  BY <1>1, <1>2, <1>10, <1>12, <1>13, <1>14 DEF ListIInv, y, x, ind

LEMMA DeleteIndexKeeps ==
  ASSUME ListIInv, NEW i \in DOMAIN index, delete_index(i)
  PROVE  /\ ListIInv'
         /\ {index[j].order : j \in DOMAIN index} \ {index[i].order}
              \subseteq {index'[j].order : j \in DOMAIN index'}
         /\ {index'[j].order : j \in DOMAIN index'}
              \subseteq {index[j].order : j \in DOMAIN index}
<1> DEFINE x == index
           m == Len(x)
           y == index'
           old(j) == IF j < i THEN j ELSE j + 1
<1>1. /\ data \in Seq(Record) /\ Distinct(data) /\ alloc_no \in Nat /\ Capacity
      /\ AllSound(data, x) /\ Len(x) <= MAX_INDEXES
  BY DEF ListIInv
<1>2. /\ y = RemoveAt(x, i)
      /\ answer' = << >> /\ data' = data /\ alloc_no' = alloc_no
  BY DEF delete_index, Returned, Answer
<1>3. x \in Seq(Index) /\ \A j \in DOMAIN x : Sound(data, x[j])
  BY <1>1 DEF AllSound
<1>4. m \in Nat /\ DOMAIN x = 1 .. m /\ i \in 1 .. m
  BY <1>3
<1> HIDE DEF x, y
<1>5. /\ y \in Seq(Index) /\ Len(y) = m - 1
      /\ \A j \in 1 .. m - 1 : y[j] = IF j < i THEN x[j] ELSE x[j + 1]
  BY <1>2, <1>3, <1>4, RemoveAtIs
<1>6. DOMAIN y = 1 .. m - 1
  BY <1>5
<1> HIDE DEF m
<1>7. \A j \in 1 .. m - 1 : y[j] = x[old(j)] /\ old(j) \in 1 .. m /\ old(j) # i
  BY <1>4, <1>5
<1>9. ASSUME NEW k \in 1 .. m, k # i PROVE \E j \in 1 .. m - 1 : old(j) = k
  <2>1. CASE k < i
    <3>1. k \in 1 .. m - 1
      BY <2>1, <1>4
    <3> QED
      BY <3>1, <2>1
  <2>2. CASE i < k
    <3>1. k - 1 \in 1 .. m - 1 /\ old(k - 1) = k
      BY <2>2, <1>4
    <3> HIDE DEF old
    <3> QED
      BY <3>1
  <2> QED
    BY <2>1, <2>2, <1>9, <1>4
<1> HIDE DEF old
<1>10. AllSound(data, y)
  BY <1>3, <1>4, <1>5, <1>6, <1>7 DEF AllSound
<1>13. Len(y) <= MAX_INDEXES
  BY <1>1, <1>4, <1>5, ListAssumption DEF m
<1>14. /\ {x[j].order : j \in DOMAIN x} \ {x[i].order} \subseteq {y[j].order : j \in DOMAIN y}
       /\ {y[j].order : j \in DOMAIN y} \subseteq {x[j].order : j \in DOMAIN x}
  <2>1. ASSUME NEW j \in 1 .. m - 1
        PROVE  \E k \in 1 .. m : y[j].order = x[k].order
    BY <1>4, <1>7
  <2>2. ASSUME NEW k \in 1 .. m, x[k].order # x[i].order
        PROVE  \E j \in 1 .. m - 1 : x[k].order = y[j].order
    <3>1. k # i
      BY <2>2
    <3> QED
      BY <3>1, <1>7, <1>9
  <2> DEFINE A == {y[j].order : j \in 1 .. m - 1}
             B == {x[j].order : j \in 1 .. m}
  <2>3. A \subseteq B
    BY <2>1
  <2>4. B \ {x[i].order} \subseteq A
    BY <2>2
  <2> QED
    BY <2>3, <2>4, <1>4, <1>6
<1>15. Len(answer') <= 1 /\ Capacity'
  BY <1>1, <1>2 DEF Capacity, cur_no
<1> QED
  BY <1>1, <1>2, <1>10, <1>13, <1>14, <1>15 DEF ListIInv, x, y

LEMMA AnswerKeeps ==
  ASSUME ListIInv, UNCHANGED <<data, alloc_no, index>>, Len(answer') <= 1
  PROVE  ListIInv'
BY DEF ListIInv, Capacity, cur_no

LEMMA ListStepKeeps ==
  ASSUME ListIInv, [ListNext]_list_vars
  PROVE  ListIInv'
<1>1. CASE free_list
  <2>2. data' = << >> /\ index' = << >> /\ alloc_no' = 0 /\ answer' = << >>
    BY <1>1 DEF free_list, Returned, Answer
  <2>3. cur_no' = 0
    BY <2>2 DEF cur_no
  <2>4. Capacity'
    BY <2>2, <2>3 DEF Capacity
  <2>5. Len(index') <= MAX_INDEXES /\ Len(answer') <= 1
    BY <2>2, ListAssumption
  <2> QED
    BY <2>2, <2>4, <2>5, NewListKept DEF ListIInv
<1>2. CASE NoMemory
  BY <1>2, AnswerKeeps DEF NoMemory, Returned, Answer
<1>3. ASSUME NEW r \in Record, add_list(r) PROVE ListIInv'
  BY <1>3, AddKeeps
<1>4. ASSUME NEW indx \in 0 .. cur_no - 1, delete_list(indx) PROVE ListIInv'
  BY <1>4, DeleteKeeps
<1>5. ASSUME NEW indx \in 0 .. cur_no - 1, NEW r \in Record, Write(indx, r) PROVE ListIInv'
  BY <1>5, WriteKeeps
<1>6. ASSUME NEW o \in Order, add_index(o) PROVE ListIInv'
  BY <1>6, AddIndexKeeps
<1>7. ASSUME NEW i \in DOMAIN index, delete_index(i) PROVE ListIInv'
  BY <1>7, DeleteIndexKeeps
<1>8. ASSUME NEW i \in DOMAIN index, NEW r \in Record, search_list(i, r) PROVE ListIInv'
  BY <1>8, AnswerKeeps DEF search_list, Answer
<1>9. ASSUME NEW i \in DOMAIN index, NEW r \in Record, FindFirst(i, r) PROVE ListIInv'
  BY <1>9, AnswerKeeps DEF FindFirst, Answer
<1>10. CASE UNCHANGED list_vars
  <2>1. Len(answer') <= 1
    BY <1>10 DEF list_vars, ListIInv
  <2> QED
    BY <1>10, <2>1, AnswerKeeps DEF list_vars
<1> QED
  BY <1>1, <1>2, <1>3, <1>4, <1>5, <1>6, <1>7, <1>8, <1>9, <1>10 DEF ListNext

\* A list and its indexes are as its functions expect: every index has every
\* record once, in its order, for any records, any comparison functions and any
\* operations on them (list.c).
THEOREM ListsStaySorted == ListSpec => []ListInvariant
<1>1. new_list => ListIInv
  BY NewListInvariant
<1>2. ListIInv /\ [ListNext]_list_vars => ListIInv'
  BY ListStepKeeps
<1>3. ListIInv => ListInvariant
  BY InvariantFollows
<1> QED
  BY <1>1, <1>2, <1>3, PTL DEF ListSpec

-----------------------------------------------------------------------------
(* The table a list implements.                                            *)

\* What is found has the key of r, and if nothing is found no record has it.
LEMMA KeyFound ==
  ASSUME NEW o \in Order, NEW r \in Record, NEW s \in Seq(Record), Sorted(o, s)
  PROVE  LET a == search_list_for(o, r, s) IN
         /\ a.exact \in BOOLEAN
         /\ a.exact => a.at \in Elements(s) /\ Srch(o, r, s, a.at) = 0
         /\ ~a.exact => \A k \in Elements(s) : Srch(o, r, s, k) # 0
<1> DEFINE n == Len(s)
           a == search_list_for(o, r, s)
<1>1. n \in Nat
  OBVIOUS
<1>2. CASE n = 0
  <2>1. s = << >> /\ Elements(s) = {}
    BY <1>2 DEF Elements
  <2>2. a = Inexact(0)
    BY <2>1 DEF search_list_for
  <2> QED
    <3>1. a.exact = FALSE
      BY <2>2 DEF Inexact
    <3> QED
      BY <2>1, <3>1
<1>3. CASE n # 0
  <2>1. Answers(o, r, s, a) /\ a.exact \in BOOLEAN
    <3>1. Len(s) > 0
      BY <1>1, <1>3
    <3> QED
      BY <3>1, SearchAnswers
  <2> HIDE DEF a, n
  <2>2. a.at \in Elements(s) /\ (a.exact => Srch(o, r, s, a.at) = 0)
    BY <2>1 DEF Answers
  <2>3. ASSUME ~a.exact, NEW k \in Elements(s) PROVE Srch(o, r, s, k) # 0
    <3>1. /\ Srch(o, r, s, a.at) # 0
          /\ (k < a.at => 0 < Srch(o, r, s, k)) /\ (a.at < k => Srch(o, r, s, k) < 0)
      BY <2>1, <2>3 DEF Answers
    <3>2. k < a.at \/ a.at < k \/ k = a.at
      BY <1>1, <2>2 DEF Elements
    <3>3. Srch(o, r, s, k) \in Int
      BY SrchFalls
    <3> QED
      BY <3>1, <3>2, <3>3
  <2> QED
    BY <2>1, <2>2, <2>3 DEF a
<1> QED
  BY <1>2, <1>3

\* Before the place find_first returns are the records that are less than r.
LEMMA FirstFound ==
  ASSUME NEW o \in Order, NEW r \in Record, NEW s \in Seq(Record), Sorted(o, s)
  PROVE  LET p == find_first(o, r, s) IN
         /\ p = -1 => \A k \in Elements(s) : Srch(o, r, s, k) # 0
         /\ p # -1 => /\ p \in Elements(s) /\ Srch(o, r, s, p) = 0
                      /\ \A k \in Elements(s) : k < p <=> 0 < Srch(o, r, s, k)
<1> DEFINE n == Len(s)
           a == search_list_for(o, r, s)
           Above == {k \in Elements(s) : Srch(o, r, s, k) > 0}
           Stops == {k \in Elements(s) : Srch(o, r, s, k) <= 0}
           low == ScanDown(a.at, 0, Above)
           p == ScanUp(low, n, Stops)
<1>1. n \in Nat
  OBVIOUS
<1>2. /\ a.exact \in BOOLEAN
      /\ a.exact => a.at \in Elements(s) /\ Srch(o, r, s, a.at) = 0
      /\ ~a.exact => \A k \in Elements(s) : Srch(o, r, s, k) # 0
  BY KeyFound
<1>3. find_first(o, r, s) = IF ~a.exact THEN -1 ELSE p
  BY DEF find_first
<1>4. /\ \A k \in Elements(s) : Srch(o, r, s, k) \in Int
      /\ \A j, k \in Elements(s) : j <= k => Srch(o, r, s, k) <= Srch(o, r, s, j)
  BY SrchFalls
<1>5. Elements(s) = 0 .. n - 1
  BY DEF Elements
<1>6. CASE ~a.exact
  BY <1>2, <1>3, <1>6
<1>7. CASE a.exact
  <2> DEFINE c == a.at
             S(k) == Srch(o, r, s, k)
  <2>1. c \in 0 .. n - 1 /\ S(c) = 0
    BY <1>2, <1>5, <1>7
  <2>2. \A k \in 0 .. n - 1 : S(k) \in Int
    BY <1>4, <1>5
  <2>3. \A j, k \in 0 .. n - 1 : j <= k => S(k) <= S(j)
    BY <1>4, <1>5
  <2>4. /\ \A k \in 0 .. n - 1 : k \in Above <=> 0 < S(k)
        /\ \A k \in 0 .. n - 1 : k \in Stops <=> S(k) <= 0
    BY <1>5, <2>2
  <2>5. low = ScanDown(c, 0, Above) /\ p = ScanUp(low, n, Stops)
    OBVIOUS
  <2> HIDE DEF c, S, n, a, Above, Stops, low, p
  <2>6. low \in 0 .. c /\ (low = 0 \/ low \in Above)
    <3>1. c \in Int /\ 0 \in Int /\ 0 <= c
      BY <2>1
    <3> QED
      BY <3>1, <2>5, ScanDownStops
  <2>7. low \in Int /\ n \in Int /\ low <= n
    BY <2>1, <2>6, <1>1
  <2>8. /\ p \in low .. n /\ (p = n \/ p \in Stops)
        /\ \A k \in low .. n : k < p => k \notin Stops
    BY <2>7, <2>5, ScanUpStops
  <2>9. c \in Stops /\ c \in low .. n
    BY <2>1, <2>4, <2>6, <1>1
  <2>10. p <= c
    BY <2>8, <2>9, <2>1, <2>6, <1>1
  <2>11. p \in 0 .. n - 1 /\ p # n
    BY <2>1, <2>6, <2>8, <2>10, <1>1
  <2>12. S(p) = 0
    <3>1. S(p) <= 0
      BY <2>4, <2>8, <2>11
    <3>2. S(c) <= S(p)
      BY <2>1, <2>3, <2>10, <2>11
    <3> QED
      BY <3>1, <3>2, <2>1, <2>2, <2>11
  <2>13. ASSUME NEW k \in 0 .. n - 1, k < p PROVE 0 < S(k)
    <3>1. CASE low <= k
      <4>1. k \in low .. n
        BY <3>1, <2>7, <1>1
      <4>2. k \notin Stops
        BY <4>1, <2>8, <2>13
      <4> QED
        BY <4>2, <2>2, <2>4
    <3>2. CASE k < low
      <4>1. low # 0 /\ low \in 0 .. n - 1 /\ k <= low
        BY <3>2, <2>1, <2>6, <1>1
      <4>2. 0 < S(low) /\ S(low) <= S(k)
        BY <4>1, <2>3, <2>4, <2>6
      <4> QED
        BY <4>1, <4>2, <2>2
    <3> QED
      BY <3>1, <3>2, <2>7
  <2>14. ASSUME NEW k \in 0 .. n - 1, ~(k < p) PROVE ~(0 < S(k))
    <3>1. p <= k
      BY <2>11, <2>14, <1>1
    <3>2. S(k) <= S(p)
      BY <3>1, <2>3, <2>11
    <3> QED
      BY <3>2, <2>2, <2>12
  <2>15. find_first(o, r, s) = p /\ p # -1
    BY <1>3, <1>7, <2>11
  <2> QED
    BY <2>11, <2>12, <2>13, <2>14, <2>15, <1>5 DEF S
<1> QED
  BY <1>2, <1>6, <1>7

\* The records of an index are those of the list, each once.
LEMMA ListedAll ==
  ASSUME NEW d \in Seq(Record), Distinct(d), NEW o \in Order, NEW l, Indexes(d, o, l)
  PROVE  LET s == Listed(d, l) IN
         /\ \A k \in Elements(s) : s[k + 1] \in ToSet(d) /\ s[k + 1] \in Record
         /\ \A x \in ToSet(d) : \E k \in Elements(s) : s[k + 1] = x
         /\ \A j, k \in Elements(s) : s[j + 1] = s[k + 1] => j = k
<1> DEFINE n == Len(d)
           s == Listed(d, l)
<1>1. n \in Nat /\ DOMAIN d = 1 .. n
  OBVIOUS
<1>2. /\ s \in Seq(Record) /\ Len(s) = n
      /\ \A k \in 1 .. n : l[k] \in 0 .. n - 1 /\ s[k] = d[l[k] + 1]
  BY ListedSorted
<1>3. \A i, j \in 1 .. n : l[i] = l[j] => i = j
  BY OncePlaced
<1>4. \A i, j \in 1 .. n : d[i] = d[j] => i = j
  BY DEF Distinct
<1>5. \A v \in 0 .. n - 1 : \E k \in 1 .. n : l[k] = v
  BY DEF Indexes
<1>6. ToSet(d) = {d[k] : k \in 1 .. n} /\ \A k \in 1 .. n : d[k] \in Record
  BY <1>1 DEF ToSet
<1> HIDE DEF n, s
<1>7. Elements(s) = 0 .. n - 1
  BY <1>2 DEF Elements
<1>8. \A k \in 0 .. n - 1 : k + 1 \in 1 .. n
  BY <1>1
<1>9. \A k \in 1 .. n : l[k] \in Int /\ l[k] + 1 \in 1 .. n
  BY <1>1, <1>2
<1>10. ASSUME NEW k \in 0 .. n - 1 PROVE s[k + 1] \in ToSet(d) /\ s[k + 1] \in Record
  <2>1. s[k + 1] = d[l[k + 1] + 1] /\ l[k + 1] + 1 \in 1 .. n
    BY <1>2, <1>8, <1>9
  <2> QED
    BY <2>1, <1>6
<1>11. ASSUME NEW x \in ToSet(d) PROVE \E k \in 0 .. n - 1 : s[k + 1] = x
  <2>1. PICK j \in 1 .. n : x = d[j]
    BY <1>6
  <2>2. j - 1 \in 0 .. n - 1 /\ j - 1 + 1 = j
    BY <1>1
  <2>3. PICK i \in 1 .. n : l[i] = j - 1
    BY <2>2, <1>5
  <2>4. i - 1 \in 0 .. n - 1 /\ i - 1 + 1 = i
    BY <1>1
  <2>5. s[i] = x
    BY <2>1, <2>2, <2>3, <1>2
  <2> QED
    BY <2>4, <2>5
<1>12. ASSUME NEW j \in 0 .. n - 1, NEW k \in 0 .. n - 1, s[j + 1] = s[k + 1] PROVE j = k
  <2>1. j + 1 \in 1 .. n /\ k + 1 \in 1 .. n
    BY <1>8
  <2>2. d[l[j + 1] + 1] = d[l[k + 1] + 1]
    BY <2>1, <1>2, <1>12
  <2>3. l[j + 1] + 1 = l[k + 1] + 1
    BY <2>1, <2>2, <1>4, <1>9
  <2>4. l[j + 1] = l[k + 1]
    BY <2>1, <2>3, <1>9
  <2>5. j + 1 = k + 1
    BY <2>1, <2>4, <1>3
  <2> QED
    BY <2>5
<1> QED
  BY <1>7, <1>10, <1>11, <1>12 DEF s

\* The place find_first returns is the number of records that come before.
LEMMA CountedBefore ==
  ASSUME NEW d \in Seq(Record), Distinct(d), NEW o \in Order, NEW l, Indexes(d, o, l),
         NEW r \in Record, find_first(o, r, Listed(d, l)) # -1
  PROVE  find_first(o, r, Listed(d, l)) = Cardinality({x \in ToSet(d) : Key[o][x] < Key[o][r]})
<1> DEFINE s == Listed(d, l)
           p == find_first(o, r, s)
           T == {x \in ToSet(d) : Key[o][x] < Key[o][r]}
           D == 0 .. p - 1
           f == [k \in D |-> s[k + 1]]
<1>1. s \in Seq(Record) /\ Sorted(o, s) /\ Len(s) \in Nat
  BY ListedSorted
<1>2. /\ \A k \in Elements(s) : s[k + 1] \in ToSet(d) /\ s[k + 1] \in Record
      /\ \A x \in ToSet(d) : \E k \in Elements(s) : s[k + 1] = x
      /\ \A j, k \in Elements(s) : s[j + 1] = s[k + 1] => j = k
  BY ListedAll
<1> HIDE DEF s
<1>3. /\ p \in Elements(s)
      /\ \A k \in Elements(s) : k < p <=> 0 < Srch(o, r, s, k)
  <2>1. p # -1
    BY DEF s
  <2> QED
    BY <2>1, <1>1, FirstFound
<1> HIDE DEF p
<1>4. p \in Nat /\ \A k \in Elements(s) : k < p <=> k \in D
  BY <1>1, <1>3 DEF Elements
<1>5. \A k \in D : k \in Elements(s)
  BY <1>1, <1>3 DEF Elements
<1>6. \A k \in Elements(s) : 0 < Srch(o, r, s, k) <=> Key[o][s[k + 1]] < Key[o][r]
  <2> TAKE k \in Elements(s)
  <2>1. Key[o][s[k + 1]] \in Int /\ Key[o][r] \in Int
    BY <1>2, ListAssumption
  <2>2. Srch(o, r, s, k) = Key[o][r] - Key[o][s[k + 1]]
    BY DEF Srch, cf
  <2> QED
    BY <2>1, <2>2
<1>7. \A k \in Elements(s) : k \in D <=> s[k + 1] \in T
  BY <1>2, <1>3, <1>4, <1>6
<1>8. \A x \in T : x \in ToSet(d)
  OBVIOUS
<1>9. IsFiniteSet(D) /\ Cardinality(D) = p
  <2>1. 0 \in Int /\ p - 1 \in Int /\ (0 > p - 1 <=> p = 0) /\ p - 1 - 0 + 1 = p
    BY <1>4
  <2> QED
    BY <2>1, FS_Interval
<1> HIDE DEF D, T
<1>10. f \in [D -> T]
  BY <1>5, <1>7
<1>11. \A x \in T : \E k \in D : f[k] = x
  <2> TAKE x \in T
  <2>1. PICK k \in Elements(s) : s[k + 1] = x
    BY <1>2, <1>8
  <2> QED
    BY <2>1, <1>7
<1>12. \A j, k \in D : f[j] = f[k] => j = k
  BY <1>2, <1>5
<1> HIDE DEF f
<1>13. f \in Surjection(D, T) /\ f \in Injection(D, T)
  BY <1>10, <1>11, <1>12 DEF Surjection, Injection, IsInjective
<1>14. Cardinality(T) = Cardinality(D)
  BY <1>9, <1>13, FS_Surjection
<1> QED
  BY <1>9, <1>14 DEF p, s, T

Content == ToSet(data)
Orders == {index[i].order : i \in DOMAIN index}

\* The records with the key of r, and how many come before them.
Keyed(o, r) == {x \in Content : Key[o][x] = Key[o][r]}
Before(o, r) == Cardinality({x \in Content : Key[o][x] < Key[o][r]})

\* What is not changed is not changed in the table.
LEMMA TableKept ==
  ASSUME data' = data, index' = index
  PROVE  Content' = Content /\ Orders' = Orders
BY DEF Content, Orders

LEMMA AppendContent ==
  ASSUME NEW S, NEW s \in Seq(S), NEW x \in S
  PROVE  ToSet(Append(s, x)) = ToSet(s) \union {x}
<1> DEFINE n == Len(s)
           t == Append(s, x)
<1>1. n \in Nat /\ DOMAIN s = 1 .. n
  OBVIOUS
<1>2. DOMAIN t = 1 .. n + 1 /\ t[n + 1] = x /\ \A i \in 1 .. n : t[i] = s[i]
  OBVIOUS
<1> HIDE DEF n, t
<1>3. \A i \in 1 .. n + 1 : i \in 1 .. n \/ i = n + 1
  BY <1>1
<1>4. 1 .. n \subseteq 1 .. n + 1 /\ n + 1 \in 1 .. n + 1
  BY <1>1
<1>5. ToSet(t) = {t[i] : i \in 1 .. n + 1} /\ ToSet(s) = {s[i] : i \in 1 .. n}
  BY <1>1, <1>2 DEF ToSet
<1>6. ToSet(t) \subseteq ToSet(s) \union {x}
  BY <1>2, <1>3, <1>5
<1>7. ToSet(s) \union {x} \subseteq ToSet(t)
  BY <1>2, <1>4, <1>5
<1> QED
  BY <1>6, <1>7 DEF t

LEMMA SameOrders ==
  ASSUME DOMAIN index' = DOMAIN index, \A i \in DOMAIN index : index'[i].order = index[i].order
  PROVE  Orders' = Orders
BY DEF Orders

LEMMA AddContent ==
  ASSUME ListIInv, NEW r \in Record, add_list(r)
  PROVE  /\ r \notin Content /\ Content' = Content \union {r} /\ Orders' = Orders
         /\ answer' = << >>
<1>1. data \in Seq(Record)
  BY DEF ListIInv
<1>2. r \notin ToSet(data) /\ data' = Append(data, r) /\ answer' = << >>
  BY DEF add_list, Returned, Answer
<1>3. ToSet(data') = ToSet(data) \union {r}
  BY <1>1, <1>2, AppendContent
<1>4. Orders' = Orders
  BY AddKeeps, SameOrders
<1> QED
  BY <1>2, <1>3, <1>4 DEF Content

LEMMA DeleteContent ==
  ASSUME ListIInv, NEW indx \in 0 .. cur_no - 1, delete_list(indx)
  PROVE  /\ data[indx + 1] \in Content /\ data[indx + 1] \in Record
         /\ Content' = Content \ {data[indx + 1]} /\ Orders' = Orders
         /\ answer' = << >>
<1>1. data \in Seq(Record) /\ Distinct(data) /\ indx \in 0 .. Len(data) - 1
  BY DEF ListIInv, cur_no
<1>2. data' = Without(data, indx) /\ Orders' = Orders /\ answer' = << >>
  BY DeleteKeeps, SameOrders DEF delete_list, Returned, Answer
<1>3. indx + 1 \in DOMAIN data
  BY <1>1
<1>4. data[indx + 1] \in Record
  BY <1>1, <1>3
<1>5. \A r : (\E k \in DOMAIN data' : data'[k] = r)
               <=> r # data[indx + 1] /\ \E k \in DOMAIN data : data[k] = r
  <2> DEFINE e == Without(data, indx)
  <2>1. \A r : (\E k \in DOMAIN e : e[k] = r)
                 <=> r # data[indx + 1] /\ \E k \in DOMAIN data : data[k] = r
    BY <1>1, WithoutDistinct
  <2> HIDE DEF e
  <2>2. data' = e
    BY <1>2 DEF e
  <2> QED
    BY <2>1, <2>2
<1>6. Content' \subseteq Content \ {data[indx + 1]}
  BY <1>5 DEF Content, ToSet
<1>7. Content \ {data[indx + 1]} \subseteq Content'
  BY <1>5 DEF Content, ToSet
<1> QED
  BY <1>2, <1>3, <1>4, <1>6, <1>7 DEF Content, ToSet

LEMMA WriteContent ==
  ASSUME ListIInv, NEW indx \in 0 .. cur_no - 1, NEW r \in Record, Write(indx, r)
  PROVE  /\ data[indx + 1] \in Content /\ data[indx + 1] \in Record /\ r \notin Content
         /\ \A o \in Orders : Key[o][data[indx + 1]] = Key[o][r]
         /\ Content' = (Content \ {data[indx + 1]}) \union {r} /\ Orders' = Orders
         /\ answer' = << >>
<1> DEFINE n == Len(data)
           x == indx + 1
<1>1. data \in Seq(Record) /\ Distinct(data) /\ indx \in 0 .. n - 1 /\ AllSound(data, index)
  BY DEF ListIInv, cur_no
<1>2. /\ r \notin ToSet(data)
      /\ \A i \in DOMAIN index : cf(index[i].order, r, data[x]) = 0
      /\ data' = [data EXCEPT ![x] = r]
      /\ answer' = << >> /\ index' = index
  BY DEF Write, Returned, Answer
<1>3. n \in Nat /\ DOMAIN data = 1 .. n /\ data \in [1 .. n -> Record] /\ x \in 1 .. n
  BY <1>1
<1>4. \A j, k \in 1 .. n : data[j] = data[k] => j = k
  BY <1>1 DEF Distinct
<1> HIDE DEF n, x
<1>5. data[x] \in Record
  BY <1>3
<1>6. ASSUME NEW i \in DOMAIN index PROVE Key[index[i].order][data[x]] = Key[index[i].order][r]
  <2> DEFINE o == index[i].order
  <2>1. o \in Order
    BY <1>1 DEF AllSound, Sound, Index
  <2>2. cf(o, r, data[x]) = 0
    BY <1>2
  <2> HIDE DEF o
  <2>3. Key[o][r] \in Int /\ Key[o][data[x]] \in Int
    BY <1>5, <2>1, ListAssumption
  <2>4. Key[o][data[x]] = Key[o][r]
    BY <2>2, <2>3 DEF cf
  <2> QED
    BY <2>4 DEF o
<1>7. DOMAIN data' = 1 .. n /\ \A k \in 1 .. n : data'[k] = IF k = x THEN r ELSE data[k]
  BY <1>2, <1>3
<1>8. Content = {data[k] : k \in 1 .. n} /\ Content' = {data'[k] : k \in 1 .. n}
  BY <1>3, <1>7 DEF Content, ToSet
<1>9. Content' \subseteq (Content \ {data[x]}) \union {r}
  BY <1>3, <1>4, <1>7, <1>8
<1>10. (Content \ {data[x]}) \union {r} \subseteq Content'
  BY <1>3, <1>7, <1>8
<1>11. Orders' = Orders
  BY <1>2 DEF Orders
<1>12. \A o \in Orders : Key[o][data[x]] = Key[o][r]
  BY <1>6 DEF Orders
<1>13. data[x] \in Content
  BY <1>3, <1>8
<1> QED
  BY <1>2, <1>5, <1>9, <1>10, <1>11, <1>12, <1>13 DEF x, Content

LEMMA AddIndexContent ==
  ASSUME ListIInv, NEW o \in Order, add_index(o)
  PROVE  Content' = Content /\ Orders' = Orders \union {o} /\ answer' = << >>
<1>1. index \in Seq(Index)
  BY DEF ListIInv, AllSound
<1>3. data' = data /\ answer' = << >>
  BY DEF add_index, Returned, Answer
<1>4. PICK l : index' = Append(index, [order |-> o, list |-> l])
  BY AddIndexKeeps
<1> DEFINE n == Len(index)
           ind == [order |-> o, list |-> l]
           t == Append(index, ind)
<1>5. n \in Nat /\ DOMAIN index = 1 .. n
  BY <1>1
<1>6. DOMAIN t = 1 .. n + 1 /\ t[n + 1] = ind /\ \A i \in 1 .. n : t[i] = index[i]
  BY <1>1
<1>7. ind.order = o /\ index' = t
  BY <1>4
<1> HIDE DEF n, t, ind
<1>8. \A i \in 1 .. n + 1 : i \in 1 .. n \/ i = n + 1
  BY <1>5
<1>9. 1 .. n \subseteq 1 .. n + 1 /\ n + 1 \in 1 .. n + 1
  BY <1>5
<1>10. Orders = {index[i].order : i \in 1 .. n} /\ Orders' = {t[i].order : i \in 1 .. n + 1}
  BY <1>5, <1>6, <1>7 DEF Orders
<1>11. Orders' \subseteq Orders \union {o}
  BY <1>6, <1>7, <1>8, <1>10
<1>12. Orders \union {o} \subseteq Orders'
  BY <1>6, <1>7, <1>9, <1>10
<1> QED
  BY <1>3, <1>11, <1>12 DEF Content

\* What an index answers is what the table answers.
LEMMA SearchedIndex ==
  ASSUME ListIInv, NEW i \in DOMAIN index, NEW r \in Record,
         NEW o \in Order, o = index[i].order
  PROVE  LET s == Records(index[i])
             a == search_list_for(o, r, s)
             p == find_first(o, r, s)
             M == Keyed(o, r)
         IN  /\ o \in Orders
             /\ IF a.exact THEN s[a.at + 1] \in M ELSE M = {}
             /\ p = -1 <=> M = {}
             /\ p # -1 => p = Before(o, r)
<1> DEFINE l == index[i].list
           s == Records(index[i])
           a == search_list_for(o, r, s)
           p == find_first(o, r, s)
           M == Keyed(o, r)
<1>1. data \in Seq(Record) /\ Distinct(data)
  BY DEF ListIInv
<1>2. o \in Order /\ Indexes(data, o, l) /\ o \in Orders
  BY DEF ListIInv, AllSound, Sound, Index, Orders
<1>3. s = Listed(data, l)
  BY DEF Records, Listed
<1> HIDE DEF l, s
<1>4. s \in Seq(Record) /\ Sorted(o, s)
  BY <1>1, <1>2, <1>3, ListedSorted
<1>5. /\ \A k \in Elements(s) : s[k + 1] \in Content /\ s[k + 1] \in Record
      /\ \A x \in Content : \E k \in Elements(s) : s[k + 1] = x
  BY <1>1, <1>2, <1>3, ListedAll DEF Content
<1>6. \A k \in Elements(s) : Srch(o, r, s, k) = 0 <=> s[k + 1] \in M
  <2> TAKE k \in Elements(s)
  <2>1. Key[o][s[k + 1]] \in Int /\ Key[o][r] \in Int
    BY <1>2, <1>5, ListAssumption
  <2>2. Srch(o, r, s, k) = Key[o][r] - Key[o][s[k + 1]]
    BY DEF Srch, cf
  <2>3. Srch(o, r, s, k) = 0 <=> Key[o][s[k + 1]] = Key[o][r]
    BY <2>1, <2>2
  <2> QED
    BY <2>3, <1>5 DEF Keyed
<1>7. (\A k \in Elements(s) : Srch(o, r, s, k) # 0) => M = {}
  BY <1>5, <1>6 DEF Keyed
<1>8. /\ a.exact \in BOOLEAN
      /\ a.exact => a.at \in Elements(s) /\ Srch(o, r, s, a.at) = 0
      /\ ~a.exact => \A k \in Elements(s) : Srch(o, r, s, k) # 0
  BY <1>2, <1>4, KeyFound
<1>9. /\ p = -1 => \A k \in Elements(s) : Srch(o, r, s, k) # 0
      /\ p # -1 => p \in Elements(s) /\ Srch(o, r, s, p) = 0
  BY <1>2, <1>4, FirstFound
<1>10. p # -1 => p = Before(o, r)
  BY <1>1, <1>2, <1>3, CountedBefore DEF Content, Before
<1> HIDE DEF a, p, M
<1>11. IF a.exact THEN s[a.at + 1] \in M ELSE M = {}
  BY <1>6, <1>7, <1>8
<1>12. p = -1 <=> M = {}
  BY <1>6, <1>7, <1>9
<1> QED
  BY <1>2, <1>10, <1>11, <1>12 DEF a, p, M, s

LEMMA OrderTyped ==
  ASSUME ListIInv, NEW i \in DOMAIN index
  PROVE  index[i].order \in Order
BY DEF ListIInv, AllSound, Sound, Index

\* FiniteSets is the same in the table.
LEMMA SameCardinality ==
  ASSUME NEW T
  PROVE  Abstract!Cardinality(T) = Cardinality(T)
BY DEF Abstract!Cardinality, Cardinality

LEMMA TableInit ==
  ASSUME new_list
  PROVE  Abstract!Init
<1>1. data = << >> /\ index = << >> /\ answer = << >>
  BY DEF new_list
<1>2. ToSet(data) = {} /\ {index[i].order : i \in DOMAIN index} = {}
  BY <1>1 DEF ToSet
<1> QED
  BY <1>1, <1>2 DEF Abstract!Init

LEMMA TableStep ==
  ASSUME ListIInv, [ListNext]_list_vars
  PROVE  [Abstract!Next]_<<ToSet(data), {index[i].order : i \in DOMAIN index}, answer>>
<1> DEFINE unchanged == UNCHANGED <<ToSet(data), {index[i].order : i \in DOMAIN index}, answer>>
<1>1. CASE free_list
  <2>1. data' = << >> /\ index' = << >> /\ answer' = << >>
    BY <1>1 DEF free_list, Returned, Answer
  <2>2. Content' = {} /\ Orders' = {}
    BY <2>1 DEF ToSet, Content, Orders
  <2>3. Abstract!Free
    BY <2>1, <2>2 DEF Abstract!Free, Abstract!Change, Content, Orders
  <2> QED
    BY <2>3 DEF Abstract!Next
<1>2. CASE NoMemory
  <2>1. data' = data /\ index' = index /\ answer' = << >>
    BY <1>2 DEF NoMemory, Returned, Answer
  <2>2. Abstract!Fail
    BY <2>1, TableKept DEF Abstract!Fail, Abstract!Change, Content, Orders
  <2> QED
    BY <2>2 DEF Abstract!Next
<1>3. ASSUME NEW r \in Record, add_list(r) PROVE Abstract!Next
  <2>1. Abstract!Add(r)
    BY <1>3, AddContent DEF Abstract!Add, Abstract!Change, Content, Orders
  <2> QED
    BY <2>1 DEF Abstract!Next
<1>4. ASSUME NEW indx \in 0 .. cur_no - 1, delete_list(indx) PROVE Abstract!Next
  <2>1. PICK r \in Record : r = data[indx + 1]
    BY <1>4, DeleteContent
  <2>2. Abstract!Delete(r)
    BY <1>4, <2>1, DeleteContent DEF Abstract!Delete, Abstract!Change, Content, Orders
  <2> QED
    BY <2>2 DEF Abstract!Next
<1>5. ASSUME NEW indx \in 0 .. cur_no - 1, NEW r \in Record, Write(indx, r) PROVE Abstract!Next
  <2>1. PICK q \in Record : q = data[indx + 1]
    BY <1>5, WriteContent
  <2>2. Abstract!Update(q, r)
    BY <1>5, <2>1, WriteContent DEF Abstract!Update, Abstract!Change, Content, Orders
  <2> QED
    BY <2>2 DEF Abstract!Next
<1>6. ASSUME NEW o \in Order, add_index(o) PROVE Abstract!Next
  <2>1. Abstract!AddOrder(o)
    BY <1>6, AddIndexContent DEF Abstract!AddOrder, Abstract!Change, Content, Orders
  <2> QED
    BY <2>1 DEF Abstract!Next
<1>7. ASSUME NEW i \in DOMAIN index, delete_index(i) PROVE Abstract!Next
  <2>1. PICK o \in Order : o = index[i].order
    BY OrderTyped
  <2>2. /\ Orders \ {o} \subseteq Orders' /\ Orders' \subseteq Orders
        /\ o \in Orders
    BY <1>7, <2>1, DeleteIndexKeeps DEF Orders
  <2>3. Content' = Content /\ answer' = << >>
    BY <1>7 DEF delete_index, Returned, Answer, Content
  <2>4. CASE o \in Orders'
    <3>1. Orders' = Orders
      BY <2>2, <2>4
    <3>2. Abstract!Fail
      BY <2>3, <3>1 DEF Abstract!Fail, Abstract!Change, Content, Orders
    <3> QED
      BY <3>2 DEF Abstract!Next
  <2>5. CASE o \notin Orders'
    <3>1. Orders' = Orders \ {o}
      BY <2>2, <2>5
    <3>2. Abstract!DeleteOrder(o)
      BY <2>2, <2>3, <3>1 DEF Abstract!DeleteOrder, Abstract!Change, Content, Orders
    <3> QED
      BY <3>2 DEF Abstract!Next
  <2> QED
    BY <2>4, <2>5
<1>8. ASSUME NEW i \in DOMAIN index, NEW r \in Record, search_list(i, r) PROVE Abstract!Next
  <2>1. PICK o \in Order : o = index[i].order
    BY OrderTyped
  <2> DEFINE s == Records(index[i])
             a == search_list_for(o, r, s)
             M == Keyed(o, r)
  <2>2. o \in Orders /\ IF a.exact THEN s[a.at + 1] \in M ELSE M = {}
    BY <2>1, SearchedIndex
  <2>3. answer' = IF a.exact THEN <<s[a.at + 1]>> ELSE << >>
    BY <2>1, <1>8 DEF search_list, Answer
  <2>4. data' = data /\ index' = index
    BY <1>8 DEF search_list
  <2> HIDE DEF a, s, M
  <2>5. answer' \in IF M = {} THEN {<< >>} ELSE {<<x>> : x \in M}
    BY <2>2, <2>3
  <2>6. M = Abstract!Matches(o, r)
    BY DEF Abstract!Matches, Keyed, Content, M
  <2>7. Abstract!Search(o, r)
    BY <2>2, <2>4, <2>5, <2>6, TableKept DEF Abstract!Search, Content, Orders
  <2> QED
    BY <2>7 DEF Abstract!Next
<1>9. ASSUME NEW i \in DOMAIN index, NEW r \in Record, FindFirst(i, r) PROVE Abstract!Next
  <2>1. PICK o \in Order : o = index[i].order
    BY OrderTyped
  <2> DEFINE s == Records(index[i])
             p == find_first(o, r, s)
             M == Keyed(o, r)
  <2>2. o \in Orders /\ (p = -1 <=> M = {}) /\ (p # -1 => p = Before(o, r))
    BY <2>1, SearchedIndex
  <2>3. answer' = IF p = -1 THEN << >> ELSE <<p>>
    BY <2>1, <1>9 DEF FindFirst, Answer
  <2>4. data' = data /\ index' = index
    BY <1>9 DEF FindFirst
  <2> HIDE DEF p, s, M
  <2>5. answer' = IF M = {} THEN << >> ELSE <<Before(o, r)>>
    BY <2>2, <2>3
  <2>6. M = Abstract!Matches(o, r)
    BY DEF Abstract!Matches, Keyed, Content, M
  <2>7. Before(o, r) = Abstract!Cardinality({x \in ToSet(data) : Key[o][x] < Key[o][r]})
    BY SameCardinality DEF Before, Content
  <2>8. answer' = IF Abstract!Matches(o, r) = {} THEN << >>
                  ELSE <<Abstract!Cardinality({x \in ToSet(data) : Key[o][x] < Key[o][r]})>>
    BY <2>5, <2>6, <2>7
  <2>9. /\ o \in {index[j].order : j \in DOMAIN index}
        /\ UNCHANGED <<ToSet(data), {index[j].order : j \in DOMAIN index}>>
    BY <2>2, <2>4 DEF Orders
  <2>10. Abstract!FindFirst(o, r)
    BY <2>8, <2>9 DEF Abstract!FindFirst
  <2> QED
    BY <2>10 DEF Abstract!Next
<1>10. CASE UNCHANGED list_vars
  <2>1. data' = data /\ index' = index /\ answer' = answer
    BY <1>10 DEF list_vars
  <2> QED
    BY <2>1, TableKept DEF Content, Orders
<1> QED
  BY <1>1, <1>2, <1>3, <1>4, <1>5, <1>6, <1>7, <1>8, <1>9, <1>10 DEF ListNext

\* A list with any indexes is a table that is searched by several keys: what is
\* there is found and what is not is not, and find_first answers how many come
\* before, whatever was added, deleted or sorted (list.c).
THEOREM ListIsTable == ListSpec => ImplementsTable
<1>1. new_list => Abstract!Init
  BY TableInit
<1>2. ListIInv /\ [ListNext]_list_vars
        => [Abstract!Next]_<<ToSet(data), {index[i].order : i \in DOMAIN index}, answer>>
  BY TableStep
<1>3. new_list => ListIInv
  BY NewListInvariant
<1>4. ListIInv /\ [ListNext]_list_vars => ListIInv'
  BY ListStepKeeps
<1> QED
  BY <1>1, <1>2, <1>3, <1>4, PTL DEF ListSpec, ImplementsTable, Abstract!Spec
=============================================================================
