------------------------------ MODULE Timeouts ------------------------------
(***************************************************************************)
(* How long a user may stay.  A client keeps the end of its time in its    *)
(* node, the server looks there before it sleeps and when it wakes up with *)
(* nothing to read, warns, and sends SIGUSR1; privileged users change the  *)
(* time of others, kill them or make them log in again while all that goes *)
(* on.  Nothing is locked: every assignment to a node is a step of its own.*)
(* Times are relative to the clock, in units of the bounds below.          *)
(***************************************************************************)
EXTENDS Integers, FiniteSets, FiniteSetsExt

CONSTANTS
  c_nodes_used,
  MayCommand,              \* <<a, b>>: a may use /GIVE, /KILL, /RELOG and /S on b
  ClassTimes,              \* class_info.time of the classes users of each node
                           \* may have, 0 is unlimited
  Gifts,                   \* what /GIVE adds or takes
  LOGIN_PROMPT_TIMEOUT, TIMEOUT_WARNING_TIME,
  MAX_SLEEP,               \* calc_next_event_sec: "no more than 60 seconds"
  MaxLeft,                 \* bound: nobody is given more time than this
  Actions,                 \* bound: what SIGUSR1 is used for besides timeouts
  Horizon                  \* bound: a time longer ago than this stays past

Nodes == 0 .. c_nodes_used - 1

ASSUME TimeoutsAssumption ==
  /\ c_nodes_used \in Nat /\ MayCommand \subseteq Nodes \X Nodes
  /\ ClassTimes \in [Nodes -> SUBSET (0 .. MaxLeft)] /\ Gifts \subseteq 1 .. MaxLeft
  /\ LOGIN_PROMPT_TIMEOUT \in Nat \ {0} /\ TIMEOUT_WARNING_TIME \in Nat \ {0}
  /\ MAX_SLEEP \in Nat \ {0} /\ MaxLeft \in Nat /\ Horizon \in Nat
  /\ LOGIN_PROMPT_TIMEOUT <= MaxLeft
  /\ Actions \subseteq {"KILL", "RELOG", "LINEOUT"}

VARIABLES
  status, timeout_status, sigusr1_action,  \* shared: of every node
  left,       \* shared: timeout_time - time(NULL)
  phase,      \* what the client of a node is doing
  usr1,       \* clients with a SIGUSR1 on its way
  blocked,    \* clients that have SIGUSR1 blocked
  job,        \* what a client is writing to a node, or the signal it will send
  packet,     \* something for the server to read, or a call to accept
  pc, sleep,  \* where the server is, and how long select() may still take
  look,       \* the node the server looks at, and what it saw there
  untold      \* history: nodes whose time a client changed that ended before
              \* it could tell the server

vars == <<status, timeout_status, sigusr1_action, left, phase, usr1, blocked,
          job, packet, pc, sleep, look, untold>>
node == <<status, timeout_status, sigusr1_action, left>>
server == <<pc, sleep, look>>

LongAgo == -Horizon - 1

\* Of a client that has ended the server has yet to read the end of its pipe
\* ("ended"), or has done so, or a program the client ran still holds it ("dead").
Over == {"ended", "dead"}

Phases == {"none", "start", "init", "connected", "login", "entering", "active"}
            \union Over
Kinds  == {"none", "set", "unlimited", "give", "take", "signal"}

Job   == [kind : Kinds, node : Nodes, time : 0 .. MaxLeft, step : 1 .. 3]
NoJob == [kind |-> "none", node |-> 0, time |-> 0, step |-> 1]

Nothing == [node |-> 0, what |-> "new"]

Init ==
  /\ status = [n \in Nodes |-> "EMPTY"]
  /\ timeout_status = [n \in Nodes |-> "NONE"]
  /\ sigusr1_action = [n \in Nodes |-> "NONE"]
  /\ left = [n \in Nodes |-> LongAgo]
  /\ phase = [n \in Nodes |-> "none"]
  /\ usr1 = {} /\ blocked = {}
  /\ job = [n \in Nodes |-> NoJob]
  /\ packet = FALSE
  /\ pc = "top" /\ sleep = 0 /\ look = Nothing
  /\ untold = {}

-----------------------------------------------------------------------------
(* Time.  The server need not be fast, but select() is punctual.           *)

Passed(t) == IF t <= -Horizon THEN LongAgo ELSE t - 1

Tick ==
  /\ ~(pc = "poll" /\ sleep = 0)
  /\ left' = [n \in Nodes |-> Passed(left[n])]
  /\ sleep' = IF pc = "poll" THEN sleep - 1 ELSE sleep
  /\ UNCHANGED <<status, timeout_status, sigusr1_action, phase, usr1, blocked,
                 job, packet, pc, look, untold>>

-----------------------------------------------------------------------------
(* calc_next_event_sec.  No task is ever added to the list of tasks.       *)

\* Mutant: only users who are in have a time.
TimedWhenActive(n) == status[n] = "ACTIVE"

Timed(n) == status[n] \in {"ACTIVE", "LOGGING_IN"}

Due(n) == IF timeout_status[n] = "WARNING" THEN left[n] - TIMEOUT_WARNING_TIME
          ELSE left[n]

Awaited == {n \in Nodes : Timed(n) /\ timeout_status[n] # "NONE"}

\* Mutant: the time may be over already.
NoLessThanZero == Min({Due(n) : n \in Awaited} \union {MAX_SLEEP})

calc_next_event_sec ==
  LET next == Min({Due(n) : n \in Awaited} \union {MAX_SLEEP})
  IN  IF next < 0 THEN 0 ELSE next

\* crib_death and spawn_off_unused_ports come first, but a client can end at any
\* time.  A SIGCHLD that interrupts select() makes poll_buffers wait on for what is
\* left of the time: the dead are reaped when it returns.
PollStarts ==
  /\ pc = "top"
  /\ sleep' = calc_next_event_sec
  /\ pc' = "poll"
  /\ untold' = {}
  /\ UNCHANGED <<node, phase, usr1, blocked, job, packet, look>>

Readable == packet \/ \E n \in Nodes : phase[n] = "ended"

\* Packets are processed; timeouts are not looked at.
PollReads ==
  /\ pc = "poll" /\ Readable
  /\ packet' = FALSE
  /\ phase' = [n \in Nodes |-> IF phase[n] = "ended" THEN "dead" ELSE phase[n]]
  /\ pc' = "top" /\ sleep' = 0
  /\ UNCHANGED <<node, usr1, blocked, job, look, untold>>

PollTimesOut ==
  /\ pc = "poll" /\ sleep = 0 /\ ~Readable
  /\ pc' = "see"
  /\ UNCHANGED <<node, phase, usr1, blocked, job, packet, sleep, look, untold>>

-----------------------------------------------------------------------------
(* see_if_event_occurs, node by node; between the look that finds a        *)
(* warning due and the note that it was given the warning is written.      *)

Living(n) == phase[n] \notin {"none"} \union Over

Signalled(n) == IF Living(n) THEN usr1 \union {n} ELSE usr1

Looking(n, what) == pc = "see" /\ look = [node |-> n, what |-> what]

NextNode(n) == look' = [node |-> n + 1, what |-> "new"]

WarningDue(n) ==
  Timed(n) /\ timeout_status[n] = "WARNING" /\ left[n] <= TIMEOUT_WARNING_TIME

TimeoutDue(n) == Timed(n) /\ timeout_status[n] = "KILL" /\ left[n] <= 0

\* The warning is written to the client.
SeeWarning(n) ==
  /\ Looking(n, "new") /\ WarningDue(n)
  /\ look' = [look EXCEPT !.what = "warning"]
  /\ UNCHANGED <<node, phase, usr1, blocked, job, packet, pc, sleep, untold>>

\* Mutant: the warning is all there is.
WarnOnly(n) ==
  /\ Looking(n, "warning")
  /\ timeout_status' = [timeout_status EXCEPT ![n] = "NONE"]
  /\ NextNode(n)
  /\ UNCHANGED <<status, sigusr1_action, left, phase, usr1, blocked, job,
                 packet, pc, sleep, untold>>

Warn(n) ==
  /\ Looking(n, "warning")
  /\ timeout_status' = [timeout_status EXCEPT ![n] = "KILL"]
  /\ NextNode(n)
  /\ UNCHANGED <<status, sigusr1_action, left, phase, usr1, blocked, job,
                 packet, pc, sleep, untold>>

\* One step: a client that gets here from one handler to the next takes seconds.
TimeOut(n) ==
  /\ Looking(n, "new") /\ TimeoutDue(n)
  /\ sigusr1_action' = [sigusr1_action EXCEPT ![n] = "TIMEOUT"]
  /\ usr1' = Signalled(n)
  /\ timeout_status' = [timeout_status EXCEPT ![n] = "NONE"]
  /\ NextNode(n)
  /\ UNCHANGED <<status, left, phase, blocked, job, packet, pc, sleep, untold>>

SeeNothing(n) ==
  /\ Looking(n, "new") /\ ~WarningDue(n) /\ ~TimeoutDue(n)
  /\ NextNode(n)
  /\ UNCHANGED <<node, phase, usr1, blocked, job, packet, pc, sleep, untold>>

SeenAll ==
  /\ pc = "see" /\ look.node = c_nodes_used
  /\ pc' = "top" /\ look' = Nothing
  /\ UNCHANGED <<node, phase, usr1, blocked, job, packet, sleep, untold>>

-----------------------------------------------------------------------------
(* What else the server does to a node.                                    *)

\* fork(): from here on the client runs.
Start(n) ==
  /\ pc = "top" /\ status[n] = "EMPTY" /\ phase[n] = "none"
  /\ phase' = [phase EXCEPT ![n] = "start"]
  /\ pc' = "register" /\ look' = [node |-> n, what |-> "new"]
  /\ UNCHANGED <<node, usr1, blocked, job, packet, sleep, untold>>

\* The parent's half, new_node_and_device.
Register(n) ==
  /\ pc = "register" /\ look.node = n
  /\ status' = [status EXCEPT ![n] = "IDLE"]
  /\ timeout_status' = [timeout_status EXCEPT ![n] = "NONE"]
  /\ pc' = "top" /\ look' = Nothing
  /\ UNCHANGED <<sigusr1_action, left, phase, usr1, blocked, job, packet,
                 sleep, untold>>

\* crib_death and clear_node_data.
Reap(n) ==
  /\ pc = "top" /\ phase[n] \in Over
  /\ phase' = [phase EXCEPT ![n] = "none"]
  /\ status' = [status EXCEPT ![n] = "EMPTY"]
  /\ usr1' = usr1 \ {n} /\ blocked' = blocked \ {n}
  /\ UNCHANGED <<timeout_status, sigusr1_action, left, job, packet, pc, sleep,
                 look, untold>>

\* distribute_message.
LineOut(n) ==
  /\ "LINEOUT" \in Actions
  /\ pc = "top" /\ status[n] = "ACTIVE"
  /\ sigusr1_action' = [sigusr1_action EXCEPT ![n] = "LINEOUT"]
  /\ usr1' = Signalled(n)
  /\ UNCHANGED <<status, timeout_status, left, phase, blocked, job, packet, server,
                 untold>>

-----------------------------------------------------------------------------
(* A client writes timeout_time, timeout_status and then to the server: it *)
(* sets a time, adds or takes some; for an unlimited time timeout_status   *)
(* comes first.                                                            *)

Busy(c) == job[c].kind # "none"

\* Its client ends in the middle.
Untold(c) ==
  IF job[c].kind \in {"none", "signal"} THEN untold ELSE untold \union {job[c].node}

Doing(c, step) ==
  Living(c) /\ job[c].step = step /\ job[c].kind \notin {"none", "signal"}

JobFor(kind, n, t) == [kind |-> kind, node |-> n, time |-> t, step |-> 1]

ClassJob(n, t) == JobFor(IF t = 0 THEN "unlimited" ELSE "set", n, t)

NewLeft(c) ==
  LET t == left[job[c].node]
  IN  CASE job[c].kind = "set"       -> job[c].time
        [] job[c].kind = "unlimited" -> LongAgo
        [] job[c].kind = "give" ->
             IF t = LongAgo THEN LongAgo
             ELSE IF t + job[c].time > MaxLeft THEN MaxLeft ELSE t + job[c].time
        [] job[c].kind = "take" ->
             IF t < job[c].time THEN 0 ELSE t - job[c].time

WriteTime(c) ==
  /\ Doing(c, IF job[c].kind = "unlimited" THEN 2 ELSE 1)
  /\ left' = [left EXCEPT ![job[c].node] = NewLeft(c)]
  /\ job' = [job EXCEPT ![c].step = @ + 1, ![c].time = 0]
  /\ UNCHANGED <<status, timeout_status, sigusr1_action, phase, usr1, blocked,
                 packet, server,
                 untold>>

WriteStatus(c) ==
  /\ Doing(c, IF job[c].kind = "unlimited" THEN 1 ELSE 2)
  /\ timeout_status' = [timeout_status EXCEPT
       ![job[c].node] = IF job[c].kind = "unlimited" THEN "NONE" ELSE "WARNING"]
  /\ job' = [job EXCEPT ![c].step = @ + 1, ![c].time = 0]
  /\ UNCHANGED <<status, sigusr1_action, left, phase, usr1, blocked, packet, server,
                 untold>>

\* Mutant: the server is not told.
NoPing(c) ==
  /\ Doing(c, 3)
  /\ job' = [job EXCEPT ![c] = NoJob]
  /\ UNCHANGED <<node, phase, usr1, blocked, packet, server, untold>>

ping_server(c) ==
  /\ Doing(c, 3)
  /\ packet' = TRUE
  /\ job' = [job EXCEPT ![c] = NoJob]
  /\ UNCHANGED <<node, phase, usr1, blocked, server, untold>>

-----------------------------------------------------------------------------
(* The client's own session.                                               *)

Enter(n, from, to) ==
  /\ phase[n] = from /\ ~Busy(n)
  /\ phase' = [phase EXCEPT ![n] = to]

\* The handler for SIGUSR1 is there.
Initialise(n) ==
  /\ Enter(n, "start", "init")
  /\ sigusr1_action' = [sigusr1_action EXCEPT ![n] = "NONE"]
  /\ UNCHANGED <<status, timeout_status, left, usr1, blocked, job, packet, server,
                 untold>>

\* The welcome is over.
Connect(n) ==
  /\ Enter(n, "init", "connected")
  /\ status' = [status EXCEPT ![n] = "CONNECTED"]
  /\ UNCHANGED <<timeout_status, sigusr1_action, left, usr1, blocked, job, packet,
                 server, untold>>

\* pass_prompt.
Prompt(n) ==
  /\ Enter(n, "connected", "login")
  /\ status' = [status EXCEPT ![n] = "LOGGING_IN"]
  /\ job' = [job EXCEPT ![n] = JobFor("set", n, LOGIN_PROMPT_TIMEOUT)]
  /\ UNCHANGED <<timeout_status, sigusr1_action, left, usr1, blocked, packet, server,
                 untold>>

\* The user, or guest, is let in and set_online_info starts his time.
LogIn(n, t) ==
  /\ Enter(n, "login", "entering")
  /\ job' = [job EXCEPT ![n] = ClassJob(n, t)]
  /\ UNCHANGED <<node, usr1, blocked, packet, server, untold>>

\* The JOIN he sends wakes the server.
Activate(n) ==
  /\ Enter(n, "entering", "active")
  /\ status' = [status EXCEPT ![n] = "ACTIVE"]
  /\ packet' = TRUE
  /\ UNCHANGED <<timeout_status, sigusr1_action, left, usr1, blocked, job, server,
                 untold>>

\* Logout, SIGHUP, whatever: also in the middle of a job.
Leave(n) ==
  /\ Living(n)
  /\ \E end \in Over : phase' = [phase EXCEPT ![n] = end]
  /\ job' = [job EXCEPT ![n] = NoJob] /\ untold' = Untold(n)
  /\ UNCHANGED <<node, usr1, blocked, packet, server>>

Chat(n) ==
  /\ phase[n] = "active" /\ ~Busy(n) /\ ~packet
  /\ packet' = TRUE
  /\ UNCHANGED <<node, phase, usr1, blocked, job, server, untold>>

\* Somebody calls one of the ports the server listens on.
Call ==
  /\ ~packet
  /\ packet' = TRUE
  /\ UNCHANGED <<node, phase, usr1, blocked, job, server, untold>>

-----------------------------------------------------------------------------
(* sigusr1_handler and respawn_self.  signal() is that of BSD and glibc: a *)
(* signal is blocked while its handler runs.  The handler of the program   *)
(* that is to be replaced never returns, and exec keeps what is blocked.   *)

Fatal == {"TIMEOUT", "KILL", "LINEOUT"}

Caught(n) == n \in usr1 \ blocked /\ Living(n) /\ phase[n] # "start"

Die(n) ==
  /\ \E end \in Over : phase' = [phase EXCEPT ![n] = end]
  /\ job' = [job EXCEPT ![n] = NoJob] /\ untold' = Untold(n)
  /\ usr1' = usr1 \ {n}
  /\ UNCHANGED <<node, blocked, packet, server>>

DieOfSignal(n) ==
  /\ Caught(n) /\ sigusr1_action[n] \in Fatal
  /\ Die(n)

\* There is no handler yet.
DieByDefault(n) ==
  /\ n \in usr1 \ blocked /\ phase[n] = "start"
  /\ Die(n)

Relog(n) ==
  /\ Caught(n) /\ sigusr1_action[n] = "RELOG"
  /\ phase' = [phase EXCEPT ![n] = "start"]
  /\ job' = [job EXCEPT ![n] = NoJob] /\ untold' = Untold(n)
  /\ usr1' = usr1 \ {n}
  /\ blocked' = blocked \union {n}
  /\ UNCHANGED <<node, packet, server>>

IgnoreSignal(n) ==
  /\ Caught(n) /\ sigusr1_action[n] = "NONE"
  /\ usr1' = usr1 \ {n}
  /\ UNCHANGED <<node, phase, blocked, job, packet, server, untold>>

-----------------------------------------------------------------------------
(* Commands about somebody else's node.                                    *)

Command(c, n) ==
  phase[c] = "active" /\ ~Busy(c) /\ <<c, n>> \in MayCommand

NewJob(c, j) == job' = [job EXCEPT ![c] = j]

cmd_give_time(c, n, kind, t) ==
  /\ Command(c, n) /\ status[n] = "ACTIVE"
  /\ NewJob(c, JobFor(kind, n, t))
  /\ UNCHANGED <<node, phase, usr1, blocked, packet, server, untold>>

\* /S = and the user and class editors.
SetClass(c, n, t) ==
  /\ Command(c, n)
  /\ status[n] = "ACTIVE" \/ phase[n] = "entering"
  /\ NewJob(c, ClassJob(n, t))
  /\ UNCHANGED <<node, phase, usr1, blocked, packet, server, untold>>

\* cmd_kill_node and cmd_relog_node.
Order(c, n, action) ==
  /\ Command(c, n) /\ status[n] = "ACTIVE"
  /\ sigusr1_action' = [sigusr1_action EXCEPT ![n] = action]
  /\ NewJob(c, JobFor("signal", n, 0))
  /\ UNCHANGED <<status, timeout_status, left, phase, usr1, blocked, packet, server,
                 untold>>

Signalling(c) == Living(c) /\ job[c].kind = "signal"

Signal(c) ==
  /\ Signalling(c) /\ phase[job[c].node] # "none"
  /\ usr1' = Signalled(job[c].node)
  /\ NewJob(c, NoJob)
  /\ UNCHANGED <<node, phase, blocked, packet, server, untold>>

\* owner_pid is -1 by now: kill() signals every process, and the server has
\* no handler for SIGUSR1.
SignalAll(c) ==
  /\ Signalling(c) /\ phase[job[c].node] = "none"
  /\ usr1' = {n \in Nodes : Living(n)}
  /\ NewJob(c, NoJob)
  /\ pc' = "killed"
  /\ UNCHANGED <<node, phase, blocked, packet, sleep, look, untold>>

-----------------------------------------------------------------------------
Server ==
  \/ PollStarts \/ PollReads \/ PollTimesOut \/ SeenAll
  \/ \E n \in Nodes :
       \/ SeeWarning(n) \/ Warn(n) \/ TimeOut(n)
       \/ SeeNothing(n) \/ Register(n) \/ Reap(n)

Jobs(c) == WriteTime(c) \/ WriteStatus(c) \/ ping_server(c)

Handler(n) == DieOfSignal(n) \/ DieByDefault(n) \/ Relog(n) \/ IgnoreSignal(n)

User(n) ==
  \/ Initialise(n) \/ Connect(n) \/ Prompt(n) \/ (\E t \in ClassTimes[n] : LogIn(n, t))
  \/ Activate(n) \/ Leave(n) \/ Chat(n)

Operator(c) ==
  \/ Signal(c) \/ SignalAll(c)
  \/ \E n \in Nodes :
       \/ \E kind \in {"give", "take"}, t \in Gifts : cmd_give_time(c, n, kind, t)
       \/ \E t \in ClassTimes[n] : SetClass(c, n, t)
       \/ \E action \in Actions \ {"LINEOUT"} : Order(c, n, action)

Next ==
  \/ Tick \/ Server \/ Call
  \/ \E n \in Nodes :
       \/ Start(n) \/ LineOut(n)
       \/ Jobs(n) \/ Handler(n) \/ User(n) \/ Operator(n)

Spec == Init /\ [][Next]_vars

\* The server and time go on, clients finish what they write and take their
\* signals.  Every turn of the server's main loop comes to its poll, however many
\* clients die and are started in it.  Nobody has to log in or out.
Fairness ==
  /\ WF_vars(Server) /\ SF_vars(PollStarts) /\ SF_vars(Tick)
  /\ \A n \in Nodes :
       WF_vars(Jobs(n)) /\ WF_vars(Handler(n))

FairSpec == Spec /\ Fairness

-----------------------------------------------------------------------------
\* Somebody is writing n's time, and is about to tell the server.
Telling(n) ==
  \E c \in Nodes : job[c].node = n /\ job[c].kind \notin {"none", "signal"}

\* The server never sleeps past the moment it has to warn or time out somebody,
\* unless whoever changed that user's time is just about to tell it, or ended
\* before that.
Punctual ==
  pc = "poll" /\ ~Readable =>
    \A n \in Awaited \ untold : sleep <= 0 \/ sleep <= Due(n) \/ Telling(n)

Gone(n) == phase[n] \in {"none", "start"} \union Over

TimeUp(n) ==
  /\ phase[n] \in {"login", "entering", "active"} /\ n \notin blocked
  /\ Timed(n) /\ timeout_status[n] # "NONE" /\ left[n] <= 0

Unlimiting(n) == \E c \in Nodes : job[c].kind = "unlimited" /\ job[c].node = n

\* Now and then the server finds nothing to read: only then it looks at the times.
OftenIdle == []<><<PollTimesOut>>_vars

\* From some moment on nobody writes n's time any more.  /GIVE makes the server
\* warn him anew, also when it takes time from him.
SettledFor(n) == <>[]~Telling(n)

\* A user whose time is up has to go, unless he is given more or a class without
\* limit, as long as the server is idle now and then, whatever it reads in between,
\* and nobody goes on writing his time for ever: no warning, gift, order or lineout
\* in between makes the server forget him.  The exceptions are a server whose
\* new_node_and_device comes after the client's own writes, and a client that has
\* SIGUSR1 blocked after a relog.
TimeIsUp ==
  OftenIdle =>
    \A n \in Nodes :
      SettledFor(n) =>
        (TimeUp(n) ~>
           Gone(n) \/ left[n] > 0 \/ Unlimiting(n) \/ (pc = "register" /\ look.node = n))

\* gtmain.c: LOGIN_PROMPT_TIMEOUT is the "number of minutes to wait at the login
\* prompt before timing out".  Nobody stays there for ever, as long as the server
\* is idle now and then, and with the exceptions of TimeIsUp: he came there by
\* /RELOG and his client has SIGUSR1 blocked, or the server's own writes came late.
LoginPromptEnds ==
  OftenIdle =>
    \A n \in Nodes :
      phase[n] = "login" /\ n \notin blocked
        ~> phase[n] # "login" \/ status[n] = "IDLE"

TypeOK ==
  /\ status \in [Nodes -> {"EMPTY", "IDLE", "CONNECTED", "LOGGING_IN", "ACTIVE"}]
  /\ timeout_status \in [Nodes -> {"NONE", "WARNING", "KILL"}]
  /\ sigusr1_action \in [Nodes -> {"NONE", "TIMEOUT", "KILL", "RELOG", "LINEOUT"}]
  /\ left \in [Nodes -> LongAgo .. MaxLeft]
  /\ phase \in [Nodes -> Phases]
  /\ usr1 \subseteq Nodes /\ blocked \subseteq Nodes
  /\ job \in [Nodes -> Job]
  /\ packet \in BOOLEAN
  /\ pc \in {"top", "poll", "see", "register", "killed"}
  /\ sleep \in 0 .. MAX_SLEEP
  /\ look \in [node : 0 .. c_nodes_used, what : {"new", "warning"}]
=============================================================================
