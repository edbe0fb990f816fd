--------------------------- MODULE TimeoutsProofs ---------------------------
(***************************************************************************)
(* That the server, asleep in select(), has nobody to warn or to time out  *)
(* before it wakes up, for any number of nodes and all times: what it slept*)
(* for was the least of all, and what makes a time less after that comes   *)
(* with a packet, is still to come with one, or its writer has ended.      *)
(***************************************************************************)
EXTENDS Timeouts, WellFoundedInduction, TLAPS

-----------------------------------------------------------------------------
(* The least of the times.                                                 *)

LEMMA LeastExists ==
  ASSUME NEW S \in SUBSET Nat, S # {}
  PROVE  \E x \in S : \A y \in S : x <= y
<1>1. PICK x \in S : \A y \in S : ~(<<y, x>> \in OpToRel(<, Nat))
  BY NatLessThanWellFounded, WFMin, Zenon
<1>2. \A y \in S : ~(y < x)
  BY <1>1 DEF OpToRel
<1> QED
  BY <1>2

\* Integers with a lower bound have a least one.
LEMMA MinFound ==
  ASSUME NEW S \in SUBSET Int, S # {},
         NEW b \in Int, \A x \in S : b <= x
  PROVE  Min(S) \in S /\ \A y \in S : Min(S) <= y
<1> DEFINE T == {x - b : x \in S}
<1>1. T \in SUBSET Nat /\ T # {}
  <2>1. \A x \in S : x - b \in Nat
    OBVIOUS
  <2>2. PICK x \in S : TRUE
    OBVIOUS
  <2>3. x - b \in T
    BY <2>2
  <2> QED
    BY <2>1, <2>3
<1>2. PICK t \in T : \A u \in T : t <= u
  <2> HIDE DEF T
  <2> QED
    BY <1>1, LeastExists
<1>3. PICK x \in S : t = x - b
  OBVIOUS
<1>4. \A y \in S : x <= y
  <2> TAKE y \in S
  <2>1. y - b \in T
    OBVIOUS
  <2> QED
    BY <1>2, <1>3, <2>1
<1> QED
  BY <1>4 DEF Min

LEMMA NodesAreNumbers ==
  \A n \in Nodes : n \in Nat /\ n + 1 \in 0 .. c_nodes_used /\ 0 \in Nodes
BY TimeoutsAssumption DEF Nodes

\* The server sleeps no longer than MAX_SLEEP, and past nobody's time.
LEMMA NextEvent ==
  ASSUME TypeOK
  PROVE  /\ calc_next_event_sec \in 0 .. MAX_SLEEP
         /\ \A n \in Awaited : calc_next_event_sec <= 0 \/ calc_next_event_sec <= Due(n)
<1> DEFINE S == {Due(n) : n \in Awaited} \union {MAX_SLEEP}
           b == LongAgo - TIMEOUT_WARNING_TIME
<1>1. \A n \in Awaited : Due(n) \in Int /\ b <= Due(n)
  BY TimeoutsAssumption DEF Awaited, Due, TypeOK, LongAgo
<1>2. S \in SUBSET Int /\ S # {} /\ b \in Int /\ MAX_SLEEP \in S
  BY <1>1, TimeoutsAssumption DEF LongAgo
<1>3. \A x \in S : b <= x
  BY <1>1, TimeoutsAssumption DEF LongAgo
<1>4. Min(S) \in S /\ \A y \in S : Min(S) <= y
  <2> HIDE DEF S, b
  <2> QED
    BY <1>2, <1>3, MinFound
<1>5. \A n \in Awaited : Due(n) \in S
  OBVIOUS
<1>6. calc_next_event_sec = IF Min(S) < 0 THEN 0 ELSE Min(S)
  BY DEF calc_next_event_sec
<1> HIDE DEF S, b
<1> QED
  BY <1>1, <1>2, <1>4, <1>5, <1>6, TimeoutsAssumption

-----------------------------------------------------------------------------
(* Types.                                                                  *)

LEMMA InitTypes == Init => TypeOK
<1> SUFFICES ASSUME Init PROVE TypeOK
  OBVIOUS
<1>1. job \in [Nodes -> Job]
  BY NodesAreNumbers, TimeoutsAssumption DEF Init, NoJob, Job, Kinds
<1>2. left \in [Nodes -> LongAgo .. MaxLeft]
  BY TimeoutsAssumption DEF Init, LongAgo
<1>3. look \in [node : 0 .. c_nodes_used, what : {"new", "warning"}]
  BY TimeoutsAssumption DEF Init, Nothing
<1>4. sleep \in 0 .. MAX_SLEEP
  BY TimeoutsAssumption DEF Init
<1> QED
  BY <1>1, <1>2, <1>3, <1>4 DEF Init, TypeOK, Phases, Over

LEMMA NoJobIsJob == \A n \in Nodes : NoJob \in Job
BY NodesAreNumbers, TimeoutsAssumption DEF NoJob, Job, Kinds

LEMMA JobForIsJob ==
  \A kind \in Kinds, n \in Nodes, t \in 0 .. MaxLeft :
    /\ JobFor(kind, n, t) \in Job
    /\ ClassJob(n, t) \in Job
BY DEF JobFor, ClassJob, Job, Kinds

\* After the first and the second write there is a next one.
LEMMA NextWrite ==
  ASSUME NEW j \in Job, j.step \in {1, 2}
  PROVE  [j EXCEPT !.step = @ + 1, !.time = 0] \in Job
<1>1. j.step + 1 \in 1 .. 3 /\ 0 \in 0 .. MaxLeft
  BY TimeoutsAssumption
<1> QED
  BY <1>1 DEF Job

\* What a client makes of a user's time is a time.
LEMMA NewLeftIsTime ==
  ASSUME TypeOK, NEW c \in Nodes, job[c].kind \notin {"none", "signal"}
  PROVE  NewLeft(c) \in LongAgo .. MaxLeft
<1> DEFINE t == left[job[c].node]
<1>1. job[c] \in Job
  BY DEF TypeOK
<1>2. t \in LongAgo .. MaxLeft /\ job[c].time \in 0 .. MaxLeft
      /\ job[c].kind \in {"set", "unlimited", "give", "take"}
  BY <1>1 DEF TypeOK, Job, Kinds
<1> HIDE DEF t
<1>3. NewLeft(c) =
        CASE job[c].kind = "set"       -> job[c].time
          [] job[c].kind = "unlimited" -> LongAgo
          [] job[c].kind = "give" ->
               IF t = LongAgo THEN LongAgo
               ELSE IF t + job[c].time > MaxLeft THEN MaxLeft ELSE t + job[c].time
          [] job[c].kind = "take" ->
               IF t < job[c].time THEN 0 ELSE t - job[c].time
  BY DEF NewLeft, t
<1>4. CASE job[c].kind = "set"
  BY <1>2, <1>3, <1>4, TimeoutsAssumption DEF LongAgo
<1>5. CASE job[c].kind = "unlimited"
  BY <1>2, <1>3, <1>5, TimeoutsAssumption DEF LongAgo
<1>6. CASE job[c].kind = "give"
  BY <1>2, <1>3, <1>6, TimeoutsAssumption DEF LongAgo
<1>7. CASE job[c].kind = "take"
  BY <1>2, <1>3, <1>7, TimeoutsAssumption DEF LongAgo
<1> QED
  BY <1>2, <1>4, <1>5, <1>6, <1>7

LEMMA StepsKeepTypes == TypeOK /\ [Next]_vars => TypeOK'
<1> SUFFICES ASSUME TypeOK, [Next]_vars PROVE TypeOK'
  OBVIOUS
<1> USE DEF TypeOK
<1>1. CASE Tick
  <2>1. \A t \in LongAgo .. MaxLeft : Passed(t) \in LongAgo .. MaxLeft
    BY TimeoutsAssumption DEF Passed, LongAgo
  <2>2. left' \in [Nodes -> LongAgo .. MaxLeft]
    BY <1>1, <2>1 DEF Tick
  <2>3. sleep' \in 0 .. MAX_SLEEP
    BY <1>1, TimeoutsAssumption DEF Tick
  <2> QED
    BY <1>1, <2>2, <2>3 DEF Tick
<1>2. CASE Server
  <2>1. CASE PollStarts
    BY <2>1, NextEvent DEF PollStarts, node
  <2>2. CASE PollReads \/ PollTimesOut
    <3>1. 0 \in 0 .. MAX_SLEEP
      BY TimeoutsAssumption
    <3>2. CASE PollReads
      <4>1. "dead" \in Phases
        BY DEF Phases, Over
      <4>2. phase' \in [Nodes -> Phases]
        BY <3>2, <4>1 DEF PollReads
      <4> QED
        BY <3>1, <3>2, <4>2 DEF PollReads, node
    <3> QED
      BY <2>2, <3>2 DEF PollTimesOut, node
  <2>3. CASE SeenAll
    <3>1. Nothing \in [node : 0 .. c_nodes_used, what : {"new", "warning"}]
      BY TimeoutsAssumption DEF Nothing
    <3> QED
      BY <2>3, <3>1 DEF SeenAll, node
  <2>4. ASSUME NEW n \in Nodes,
               SeeWarning(n) \/ Warn(n) \/ TimeOut(n) \/ SeeNothing(n)
               \/ Register(n) \/ Reap(n)
        PROVE  TypeOK'
    <3>1. [node |-> n + 1, what |-> "new"] \in [node : 0 .. c_nodes_used, what : {"new", "warning"}]
      BY NodesAreNumbers
    <3>2. Nothing \in [node : 0 .. c_nodes_used, what : {"new", "warning"}]
      BY TimeoutsAssumption DEF Nothing
    <3>3. CASE SeeWarning(n)
      BY <3>3 DEF SeeWarning, Looking, node
    <3>4. CASE Warn(n)
      BY <3>1, <3>4 DEF Warn, NextNode
    <3>5. CASE TimeOut(n)
      BY <3>1, <3>5 DEF TimeOut, NextNode, Signalled
    <3>6. CASE SeeNothing(n)
      BY <3>1, <3>6 DEF SeeNothing, NextNode, node
    <3>7. CASE Register(n)
      BY <3>2, <3>7 DEF Register
    <3>8. CASE Reap(n)
      BY <3>8 DEF Reap, Phases
    <3> QED
      BY <2>4, <3>3, <3>4, <3>5, <3>6, <3>7, <3>8
  <2> QED
    BY <1>2, <2>1, <2>2, <2>3, <2>4 DEF Server
<1>3. ASSUME NEW n \in Nodes, Start(n) \/ LineOut(n)
      PROVE  TypeOK'
  <2>1. [node |-> n, what |-> "new"] \in [node : 0 .. c_nodes_used, what : {"new", "warning"}]
    BY NodesAreNumbers, TimeoutsAssumption DEF Nodes
  <2>2. CASE Start(n)
    BY <2>1, <2>2 DEF Start, node, Phases
  <2>3. CASE LineOut(n)
    BY <2>3 DEF LineOut, Signalled, server
  <2> QED
    BY <1>3, <2>2, <2>3
<1>4. ASSUME NEW c \in Nodes, Jobs(c)
      PROVE  TypeOK'
  <2>1. job[c] \in Job /\ NoJob \in Job
    BY NoJobIsJob
  <2>2. CASE WriteTime(c)
    <3>1. NewLeft(c) \in LongAgo .. MaxLeft
      BY <2>2, NewLeftIsTime DEF WriteTime, Doing
    <3>2. [job[c] EXCEPT !.step = @ + 1, !.time = 0] \in Job
      BY <2>1, <2>2, NextWrite DEF WriteTime, Doing
    <3> QED
      BY <2>2, <3>1, <3>2 DEF WriteTime, server
  <2>3. CASE WriteStatus(c)
    <3>1. [job[c] EXCEPT !.step = @ + 1, !.time = 0] \in Job
      BY <2>1, <2>3, NextWrite DEF WriteStatus, Doing
    <3> QED
      BY <2>3, <3>1 DEF WriteStatus, server
  <2>4. CASE ping_server(c)
    BY <2>1, <2>4 DEF ping_server, node, server
  <2> QED
    BY <1>4, <2>2, <2>3, <2>4 DEF Jobs
<1>5. ASSUME NEW n \in Nodes, Handler(n)
      PROVE  TypeOK'
  <2> USE DEF node, server
  <2>1. CASE Die(n)
    <3>1. PICK end \in Over : phase' = [phase EXCEPT ![n] = end]
      BY <2>1 DEF Die
    <3>2. phase' \in [Nodes -> Phases] /\ job' \in [Nodes -> Job]
      BY <2>1, <3>1, NoJobIsJob DEF Die, Phases
    <3> QED
      BY <2>1, <3>2 DEF Die
  <2>2. CASE Relog(n)
    BY <2>2, NoJobIsJob DEF Relog, Phases
  <2>3. CASE IgnoreSignal(n)
    BY <2>3 DEF IgnoreSignal
  <2> QED
    BY <1>5, <2>1, <2>2, <2>3 DEF Handler, DieOfSignal, DieByDefault
<1>6. ASSUME NEW n \in Nodes, User(n)
      PROVE  TypeOK'
  <2> USE DEF Enter, Phases, node, server
  <2>1. CASE Initialise(n)
    BY <2>1 DEF Initialise
  <2>2. CASE Prompt(n)
    <3>1. JobFor("set", n, LOGIN_PROMPT_TIMEOUT) \in Job
      BY JobForIsJob, TimeoutsAssumption DEF Kinds
    <3> QED
      BY <2>2, <3>1 DEF Prompt
  <2>3. ASSUME NEW t \in ClassTimes[n], LogIn(n, t)
        PROVE  TypeOK'
    <3>1. ClassJob(n, t) \in Job
      BY JobForIsJob, TimeoutsAssumption DEF Kinds
    <3> QED
      BY <2>3, <3>1 DEF LogIn
  <2>4. CASE Connect(n) \/ Activate(n) \/ Chat(n)
    BY <2>4 DEF Connect, Activate, Chat
  <2>5. CASE Leave(n)
    <3>1. PICK end \in Over : phase' = [phase EXCEPT ![n] = end]
      BY <2>5 DEF Leave
    <3>2. phase' \in [Nodes -> Phases] /\ job' \in [Nodes -> Job]
      BY <2>5, <3>1, NoJobIsJob DEF Leave
    <3> QED
      BY <2>5, <3>2 DEF Leave
  <2> QED
    BY <1>6, <2>1, <2>2, <2>3, <2>4, <2>5 DEF User
<1>7. ASSUME NEW c \in Nodes, Operator(c)
      PROVE  TypeOK'
  <2> USE DEF Command, NewJob, node, server
  <2>1. CASE Signal(c) \/ SignalAll(c)
    <3>1. job' \in [Nodes -> Job]
      BY <2>1, NoJobIsJob DEF Signal, SignalAll
    <3>2. usr1' \subseteq Nodes
      <4>1. CASE Signal(c)
        <5>1. job[c] \in Job
          OBVIOUS
        <5>2. job[c].node \in Nodes
          BY <5>1 DEF Job
        <5> QED
          BY <4>1, <5>2 DEF Signal, Signalled
      <4>2. CASE SignalAll(c)
        BY <4>2 DEF SignalAll
      <4> QED
        BY <2>1, <4>1, <4>2
    <3>3. pc' \in {pc, "killed"}
      BY <2>1 DEF Signal, SignalAll
    <3> QED
      BY <2>1, <3>1, <3>2, <3>3 DEF Signal, SignalAll
  <2>2. ASSUME NEW n \in Nodes, NEW kind \in {"give", "take"}, NEW t \in Gifts,
               cmd_give_time(c, n, kind, t)
        PROVE  TypeOK'
    <3>1. JobFor(kind, n, t) \in Job
      BY JobForIsJob, TimeoutsAssumption DEF Kinds
    <3> QED
      BY <2>2, <3>1 DEF cmd_give_time
  <2>3. ASSUME NEW n \in Nodes, NEW t \in ClassTimes[n], SetClass(c, n, t)
        PROVE  TypeOK'
    <3>1. ClassJob(n, t) \in Job
      BY JobForIsJob, TimeoutsAssumption DEF Kinds
    <3> QED
      BY <2>3, <3>1 DEF SetClass
  <2>4. ASSUME NEW n \in Nodes, NEW action \in Actions \ {"LINEOUT"}, Order(c, n, action)
        PROVE  TypeOK'
    <3>1. JobFor("signal", n, 0) \in Job
      BY JobForIsJob, TimeoutsAssumption DEF Kinds
    <3> QED
      BY <2>4, <3>1, TimeoutsAssumption DEF Order
  <2> QED
    BY <1>7, <2>1, <2>2, <2>3, <2>4 DEF Operator
<1>8. CASE Call \/ UNCHANGED vars
  BY <1>8 DEF Call, vars, node, server
<1> QED
  BY <1>1, <1>2, <1>3, <1>4, <1>5, <1>6, <1>7, <1>8 DEF Next

\* What the processes share keeps its types, whoever writes it in whatever
\* order: nobody has more time than there is, what a client has to write next is
\* one of its three writes, and select() is never told to wait less than nothing.
THEOREM TypesHold == Spec => []TypeOK
<1> QED
  BY InitTypes, StepsKeepTypes, PTL DEF Spec

-----------------------------------------------------------------------------
(* Punctual.  It is inductive as it stands, given the types.               *)

InTime(n) == sleep <= 0 \/ sleep <= Due(n) \/ Telling(n)

\* Whoever stops telling has told, or has ended and leaves n among the untold.
LEMMA TellingEnds ==
  ASSUME TypeOK, NEW n \in Nodes, Telling(n), ~Telling(n)',
         NEW c \in Nodes, job' = [job EXCEPT ![c] = NoJob]
  PROVE  job[c].node = n /\ job[c].kind \notin {"none", "signal"}
<1>1. PICK d \in Nodes : job[d].node = n /\ job[d].kind \notin {"none", "signal"}
  BY DEF Telling
<1>2. d = c
  BY <1>1 DEF Telling, TypeOK
<1> QED
  BY <1>1, <1>2

\* Who has nothing to tell of may take up anything.
LEMMA TellingStays ==
  ASSUME TypeOK, NEW n \in Nodes, Telling(n),
         NEW c \in Nodes, job[c].kind \in {"none", "signal"},
         NEW j, job' = [job EXCEPT ![c] = j]
  PROVE  Telling(n)'
BY DEF Telling, TypeOK

\* select() and what a client sees of a node are as they were.
LEMMA SameDue ==
  ASSUME TypeOK, NEW n \in Nodes, InTime(n), sleep' = sleep,
         timeout_status'[n] = timeout_status[n], left'[n] = left[n],
         Telling(n) => Telling(n)'
  PROVE  InTime(n)'
BY DEF InTime, Due

LEMMA InitPunctual == Init => Punctual
BY DEF Init, Punctual

LEMMA StepsKeepPunctual ==
  TypeOK /\ TypeOK' /\ Punctual /\ [Next]_vars => Punctual'
<1> SUFFICES ASSUME TypeOK, TypeOK', Punctual, [Next]_vars,
                    (pc = "poll")', ~Readable', NEW n \in Nodes, (n \in Awaited)', n \notin untold'
             PROVE  InTime(n)'
  BY DEF Punctual, InTime, Awaited, Readable
<1>0. ASSUME pc = "poll", ~Readable, n \in Awaited, n \notin untold PROVE InTime(n)
  BY <1>0 DEF Punctual, InTime
<1>1. CASE Tick
  <2>1. /\ pc = "poll" /\ sleep > 0 /\ sleep' = sleep - 1
        /\ left'[n] = Passed(left[n]) /\ UNCHANGED <<timeout_status, job>>
    BY <1>1 DEF Tick, TypeOK
  <2>2. InTime(n)
    BY <1>0, <1>1, <2>1 DEF Tick, Awaited, Timed, Readable
  <2>3. CASE Telling(n)
    BY <2>1, <2>3 DEF InTime, Telling
  <2>4. CASE sleep <= Due(n)
    <3>1. left[n] > 0 /\ left[n] \in Int /\ sleep \in Int
      BY <2>1, <2>4, TimeoutsAssumption DEF Due, TypeOK, LongAgo
    <3>2. left'[n] = left[n] - 1
      BY <2>1, <3>1, TimeoutsAssumption DEF Passed
    <3>3. Due(n)' = Due(n) - 1 /\ Due(n) \in Int
      BY <2>1, <3>1, <3>2, TimeoutsAssumption DEF Due
    <3> QED
      BY <2>1, <2>4, <3>1, <3>3 DEF InTime
  <2> QED
    BY <2>1, <2>2, <2>3, <2>4 DEF InTime, TypeOK
<1>2. CASE Server
  <2>1. CASE PollStarts
    <3>1. n \in Awaited /\ Due(n)' = Due(n) /\ sleep' = calc_next_event_sec
      BY <2>1 DEF PollStarts, node, Awaited, Timed, Due
    <3> QED
      BY <3>1, NextEvent DEF InTime
  <2> QED
    BY <1>2, <2>1
       DEF Server, PollReads, PollTimesOut, SeenAll, SeeWarning, Warn, TimeOut, SeeNothing,
           Register, Reap, Looking
<1>3. ASSUME NEW m \in Nodes, Start(m) \/ LineOut(m)
      PROVE  FALSE
  BY <1>3 DEF Start, LineOut, server
<1>4. ASSUME NEW c \in Nodes, WriteTime(c) \/ WriteStatus(c)
      PROVE  InTime(n)'
  <2>1. /\ pc = "poll" /\ ~Readable /\ n \notin untold /\ UNCHANGED <<sleep, status>>
        /\ job[c].kind \notin {"none", "signal"}
        /\ job' = [job EXCEPT ![c].step = @ + 1, ![c].time = 0]
    BY <1>4 DEF WriteTime, WriteStatus, Doing, server, Readable
  <2>2. \A d \in Nodes : job'[d].node = job[d].node /\ job'[d].kind = job[d].kind
    BY <2>1 DEF TypeOK, Job
  <2>3. CASE job[c].node = n
    BY <2>1, <2>2, <2>3 DEF InTime, Telling
  <2>4. CASE job[c].node # n
    <3>1. timeout_status'[n] = timeout_status[n] /\ left'[n] = left[n]
      BY <1>4, <2>4 DEF WriteTime, WriteStatus, TypeOK
    <3>2. n \in Awaited
      BY <2>1, <3>1 DEF Awaited, Timed
    <3>3. Telling(n) => Telling(n)'
      BY <2>2 DEF Telling
    <3> QED
      BY <1>0, <2>1, <3>1, <3>2, <3>3, SameDue
  <2> QED
    BY <2>3, <2>4
<1>5. ASSUME NEW c \in Nodes, ping_server(c) \/ Activate(c) \/ Chat(c) \/ Call
      PROVE  FALSE
  BY <1>5 DEF ping_server, Activate, Chat, Call, Readable
<1>6. ASSUME NEW c \in Nodes, Leave(c) \/ DieOfSignal(c) \/ DieByDefault(c) \/ Relog(c)
      PROVE  InTime(n)'
  <2>1. /\ pc = "poll" /\ ~packet' /\ packet' = packet
        /\ UNCHANGED <<sleep, status, timeout_status, left>>
        /\ job' = [job EXCEPT ![c] = NoJob] /\ untold' = Untold(c)
    BY <1>6 DEF Leave, DieOfSignal, DieByDefault, Relog, Die, node, server, Readable
  <2>4. \A m \in Nodes : phase[m] = "ended" => phase'[m] = "ended"
    BY <1>6 DEF Leave, DieOfSignal, DieByDefault, Relog, Die, Caught, Living, Over, TypeOK
  <2>5. ~Readable
    BY <2>1, <2>4 DEF Readable
  <2>2. n \in Awaited /\ n \notin untold
    BY <2>1 DEF Awaited, Timed, Untold
  <2>3. Telling(n) => Telling(n)'
    BY <2>1, TellingEnds DEF Untold
  <2> QED
    BY <1>0, <2>1, <2>2, <2>3, <2>5, SameDue
<1>13. ASSUME NEW c \in Nodes,
              Initialise(c) \/ Connect(c) \/ Prompt(c) \/ IgnoreSignal(c)
       PROVE  ~Readable
  <2>1. packet' = packet /\ \A m \in Nodes : phase[m] = "ended" => phase'[m] = "ended"
    BY <1>13 DEF Initialise, Connect, Prompt, IgnoreSignal, Enter, TypeOK
  <2> QED
    BY <2>1 DEF Readable
<1>7. ASSUME NEW c \in Nodes, Initialise(c) \/ IgnoreSignal(c)
      PROVE  InTime(n)'
  <2>1. /\ pc = "poll" /\ ~Readable
        /\ UNCHANGED <<sleep, status, timeout_status, left, job, untold>>
    BY <1>7, <1>13 DEF Initialise, IgnoreSignal, node, server
  <2> QED
    BY <1>0, <2>1, SameDue DEF Awaited, Timed, Telling
<1>14. ASSUME NEW c \in Nodes, Connect(c)
       PROVE  InTime(n)'
  <2>1. /\ pc = "poll" /\ ~Readable
        /\ UNCHANGED <<sleep, timeout_status, left, job, untold>>
        /\ status' = [status EXCEPT ![c] = "CONNECTED"]
    BY <1>14, <1>13 DEF Connect, server
  <2>2. n \in Awaited
    BY <2>1 DEF Awaited, Timed, TypeOK
  <2> QED
    BY <1>0, <2>1, <2>2, SameDue DEF Telling
<1>8. ASSUME NEW c \in Nodes, Prompt(c)
      PROVE  InTime(n)'
  <2>1. /\ pc = "poll" /\ ~Readable /\ UNCHANGED <<sleep, timeout_status, left, untold>>
        /\ status' = [status EXCEPT ![c] = "LOGGING_IN"] /\ job[c].kind = "none"
        /\ job' = [job EXCEPT ![c] = JobFor("set", c, LOGIN_PROMPT_TIMEOUT)]
    BY <1>8, <1>13 DEF Prompt, Enter, Busy, server
  <2>2. CASE n = c
    BY <2>1, <2>2 DEF InTime, Telling, JobFor, TypeOK
  <2>3. CASE n # c
    <3>1. n \in Awaited /\ n \notin untold
      BY <2>1, <2>3 DEF Awaited, Timed, TypeOK
    <3>2. Telling(n) => Telling(n)'
      BY <2>1, TellingStays
    <3> QED
      BY <1>0, <2>1, <3>1, <3>2, SameDue
  <2> QED
    BY <2>2, <2>3
<1>9. ASSUME NEW c \in Nodes, NEW j,
             job' = [job EXCEPT ![c] = j], job[c].kind \in {"none", "signal"},
             pc = "poll", packet' = packet,
             \A m \in Nodes : phase[m] = "ended" => phase'[m] = "ended",
             UNCHANGED <<sleep, status, timeout_status, left, untold>>
      PROVE  InTime(n)'
  <2>1. n \in Awaited /\ n \notin untold
    BY <1>9 DEF Awaited, Timed
  <2>2. Telling(n) => Telling(n)'
    BY <1>9, TellingStays
  <2>3. ~Readable
    BY <1>9 DEF Readable
  <2> QED
    BY <1>0, <1>9, <2>1, <2>2, <2>3, SameDue
<1>10. ASSUME NEW c \in Nodes, NEW t, LogIn(c, t)
       PROVE  InTime(n)'
  <2>1. \A m \in Nodes : phase[m] = "ended" => phase'[m] = "ended"
    BY <1>10 DEF LogIn, Enter, TypeOK
  <2> QED
    BY <1>9, <1>10, <2>1 DEF LogIn, Enter, Busy, node, server
<1>11. ASSUME NEW c \in Nodes, Operator(c)
       PROVE  InTime(n)'
  <2> USE DEF Command, Busy, NewJob, node, server
  <2>1. CASE Signal(c) \/ SignalAll(c)
    BY <1>9, <2>1 DEF Signal, SignalAll, Signalling
  <2>2. ASSUME NEW m, NEW kind, NEW t, cmd_give_time(c, m, kind, t)
        PROVE  InTime(n)'
    BY <1>9, <2>2 DEF cmd_give_time
  <2>3. ASSUME NEW m, NEW t, SetClass(c, m, t)
        PROVE  InTime(n)'
    BY <1>9, <2>3 DEF SetClass
  <2>4. ASSUME NEW m, NEW action, Order(c, m, action)
        PROVE  InTime(n)'
    BY <1>9, <2>4 DEF Order
  <2> QED
    BY <1>11, <2>1, <2>2, <2>3, <2>4 DEF Operator
<1>12. CASE UNCHANGED vars
  BY <1>0, <1>12, SameDue DEF vars, Awaited, Timed, Telling, Readable
<1> QED
  BY <1>1, <1>2, <1>3, <1>4, <1>5, <1>6, <1>7, <1>8, <1>10, <1>11, <1>12, <1>14
     DEF Next, Jobs, Handler, User

\* The server never sleeps past the moment it has to warn or to time out
\* somebody, unless whoever changed that user's time is just about to tell it, or
\* ended before that (schedule.c, calc_next_event_sec).
THEOREM NobodyIsSleptThrough == Spec => []Punctual
<1>1. TypeOK /\ Punctual /\ [Next]_vars => (TypeOK /\ Punctual)'
  BY StepsKeepTypes, StepsKeepPunctual
<1> QED
  BY <1>1, InitTypes, InitPunctual, PTL DEF Spec
=============================================================================
