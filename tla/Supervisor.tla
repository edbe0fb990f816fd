----------------------------- MODULE Supervisor -----------------------------
(***************************************************************************)
(* The server as the parent of its clients.  It starts a client on every   *)
(* unused port and for every telnet call, with an assistant process that   *)
(* copies between the caller's socket and a pty, and for every external    *)
(* call a process that copies packets.  It reaps them, frees their node    *)
(* and device, and lends idle devices to users who asked for /TERM.        *)
(* Server and clients share the tables of nodes and devices and nothing    *)
(* locks them.  What an active client does is its own business here: it    *)
(* logs out, is hung up on, or is made to log in again.                    *)
(***************************************************************************)
EXTENDS Integers, FiniteSets

CONSTANTS
  c_nodes_used, c_devices_used,
  Configurations, \* what the administrator may have set up: for each device
                  \* its type, "SERIAL" if it is left to telnet calls,
                  \* whether its port can be opened, and whether processes
                  \* may run out when it needs one
  Pids,           \* process ids, used again when their process is reaped
  NoPid,          \* -1
  MAX_RETRIES

Nodes   == 0 .. c_nodes_used - 1
Devices == 0 .. c_devices_used - 1

ASSUME SupervisorAssumption ==
  /\ c_nodes_used \in Nat /\ c_devices_used \in Nat
  /\ Configurations \subseteq
       [Devices -> [type : {"DIRECT", "MODEM", "SERIAL"}, works : BOOLEAN,
                    fork_fails : BOOLEAN]]
  /\ NoPid \notin Pids
  /\ MAX_RETRIES \in Nat \ {0}

VARIABLES
  node,         \* shared: status, pid and dev_no of every node
  device,       \* shared: status, type, pids and retries of every device
  proc,         \* the kernel's processes
  child_dead,   \* set by SIGCHLD
  check_nodes,  \* a port may be waiting for a client
  pc,           \* where the server is
  job           \* what it is working on there

vars == <<node, device, proc, child_dead, check_nodes, pc, job>>

NodeStatus   == {"EMPTY", "IDLE", "LOGGING_IN", "ACTIVE"}
DeviceStatus == {"EMPTY", "UNUSED", "USED", "TERM", "OFF"}
Phases       == {"none", "start", "login", "active", "relog", "greet",
                 "copy", "exit0", "exit1"}
Places       == {"top", "crib", "kill", "wait", "spawn", "poll",
                 "accept", "assist", "extrn", "register", "serve"}

Process ==
  [kind : {"none", "client", "assistant", "extrn"},
   phase : Phases,
   node : Nodes \union {-1},      \* mynode
   dev : Devices \union {-1},     \* the device behind its terminal
   mate : Pids \union {NoPid},    \* the process at the other end of its pty
   hup : BOOLEAN,                 \* a SIGHUP is on its way to it
   line : BOOLEAN]                \* its terminal is still connected

NoProcess ==
  [kind |-> "none", phase |-> "none", node |-> -1, dev |-> -1,
   mate |-> NoPid, hup |-> FALSE, line |-> FALSE]

Job ==
  [dev : Devices \union {-1, c_devices_used}, node : Nodes \union {-1},
   pid : Pids \union {NoPid}, stat : {0, 1}, other : Pids \union {NoPid}]

NoJob == [dev |-> -1, node |-> -1, pid |-> NoPid, stat |-> 0, other |-> NoPid]

Exists(p)  == p # NoPid /\ proc[p].kind # "none"
Zombie(p)  == proc[p].phase \in {"exit0", "exit1"}
Running(p) == Exists(p) /\ ~Zombie(p)

Init ==
  /\ node = [n \in Nodes |-> [status |-> "EMPTY", pid |-> NoPid, dev |-> -1]]
  /\ \E config \in Configurations :
       device = [d \in Devices |->
         [status  |-> IF config[d].type = "SERIAL" THEN "EMPTY" ELSE "UNUSED",
          type    |-> config[d].type, works |-> config[d].works,
          fork_fails |-> config[d].fork_fails,
          owner   |-> NoPid, term |-> NoPid, assist |-> NoPid, retries |-> 0]]
  /\ proc = [p \in Pids |-> NoProcess]
  /\ child_dead = FALSE /\ check_nodes = TRUE
  /\ pc = "top" /\ job = NoJob

-----------------------------------------------------------------------------
(* The death of a process: it becomes a zombie and SIGCHLD interrupts the  *)
(* server.  signal() is that of BSD and glibc: poll_buffers calls select() *)
(* again for the rest of its time, a read() or waitpid() goes on.          *)

set_child_dead == child_dead' = TRUE

Dead(p, stat) ==
  [proc[p] EXCEPT !.phase = IF stat = 1 THEN "exit1" ELSE "exit0",
                  !.hup = FALSE, !.line = FALSE]

Exit(p, stat) ==
  /\ proc' = [proc EXCEPT ![p] = Dead(p, stat)]
  /\ set_child_dead

-----------------------------------------------------------------------------
(* Freeing what a process had.                                             *)

NodesWithPid(pid) ==
  {n \in Nodes : node[n].pid = pid /\ node[n].status # "EMPTY"}

\* disable_nodes_with_pid calls clear_node_data for each of the nodes.
disable_nodes_with_pid(pid) ==
  [n \in Nodes |-> IF n \in NodesWithPid(pid)
                     THEN [node[n] EXCEPT !.status = "EMPTY", !.pid = NoPid]
                     ELSE node[n]]

\* Mutant: only the device asks for the ports to be looked after.
check_left_alone(pid) == check_nodes

check_after_disable(pid) == check_nodes \/ NodesWithPid(pid) # {}

\* Mutant: the device goes off one failure late.
RetiredLate(d, stat) ==
  LET r == IF stat = 0 THEN 0 ELSE device[d].retries + 1
  IN  [device[d] EXCEPT
         !.owner = NoPid, !.term = NoPid, !.assist = NoPid, !.retries = r,
         !.status = IF stat = 1 /\ r > MAX_RETRIES THEN "OFF"
                    ELSE IF device[d].type = "TELNET" THEN "EMPTY" ELSE "UNUSED"]

\* How a used device is left by a session that ended with exit status stat.
Retired(d, stat) ==
  LET r == IF stat = 0 THEN 0 ELSE device[d].retries + 1
  IN  [device[d] EXCEPT
         !.owner = NoPid, !.term = NoPid, !.assist = NoPid, !.retries = r,
         !.status = IF stat = 1 /\ r = MAX_RETRIES THEN "OFF"
                    ELSE IF device[d].type = "TELNET" THEN "EMPTY" ELSE "UNUSED"]

\* Mutant: nobody is waited for.
HangUp(q) ==
  /\ proc' = IF Exists(q) THEN [proc EXCEPT ![q].hup = Running(q)] ELSE proc
  /\ UNCHANGED <<pc, job>>

\* kill(q, SIGHUP), and if there is such a process waitpid(q).
HangUpAndWait(q) ==
  IF Exists(q)
    THEN /\ proc' = [proc EXCEPT ![q].hup = Running(q)]
         /\ pc' = "wait" /\ job' = [job EXCEPT !.other = q]
    ELSE UNCHANGED <<proc, pc, job>>

-----------------------------------------------------------------------------
(* crib_death and kill_with_pid.                                           *)

Reap(p) ==
  /\ pc = "crib" /\ Zombie(p)
  /\ proc' = [proc EXCEPT ![p] = NoProcess]
  /\ node' = disable_nodes_with_pid(p)
  /\ check_nodes' = check_after_disable(p)
  /\ pc' = "kill"
  /\ job' = [NoJob EXCEPT !.pid = p,
                          !.stat = IF proc[p].phase = "exit1" THEN 1 ELSE 0]
  /\ UNCHANGED <<device, child_dead>>

\* if (check_nodes): a look at the ports before the poll.
GoOn ==
  /\ pc' = IF check_nodes THEN "spawn" ELSE "poll"
  /\ job' = IF check_nodes THEN [NoJob EXCEPT !.dev = 0] ELSE NoJob
  /\ check_nodes' = FALSE

NoneLeft ==
  /\ pc = "crib" /\ \A p \in Pids : ~Zombie(p)
  /\ GoOn
  /\ UNCHANGED <<node, device, proc, child_dead>>

Lowest(S) == IF S = {} THEN -1 ELSE CHOOSE i \in S : \A j \in S : i <= j

\* A device the process was on: nobody else writes to devices meanwhile, and it
\* is none any more when the loop is through with it.
Concerned(d) ==
  \/ device[d].status = "USED" /\ job.pid \in {device[d].owner, device[d].assist}
  \/ device[d].status = "TERM" /\ device[d].term = job.pid

NextConcerned == Lowest({d \in Devices : Concerned(d)})

InKillLoop(d) == pc = "kill" /\ d = NextConcerned

\* The user of device d is dead: its assistant has to go.
KillOwner(d) ==
  /\ InKillLoop(d) /\ device[d].owner = job.pid /\ device[d].status = "USED"
  /\ device' = [device EXCEPT ![d] = Retired(d, job.stat)]
  /\ check_nodes' = TRUE
  /\ HangUpAndWait(device[d].assist)
  /\ UNCHANGED <<node, child_dead>>

\* Mutant: the device stays in TERM.
TermForgotten(d) ==
  /\ InKillLoop(d) /\ device[d].term = job.pid /\ device[d].status = "TERM"
  /\ device' = [device EXCEPT ![d].term = NoPid]
  /\ check_nodes' = TRUE
  /\ UNCHANGED <<node, proc, child_dead, pc, job>>

\* The user who had device d for /TERM is dead.
KillTerm(d) ==
  /\ InKillLoop(d) /\ device[d].term = job.pid /\ device[d].status = "TERM"
  /\ device' = [device EXCEPT ![d].status = "UNUSED"]
  /\ check_nodes' = TRUE
  /\ UNCHANGED <<node, proc, child_dead, pc, job>>

\* Mutant: the user's node is left as it is.
KillAssistOnly(d) ==
  /\ InKillLoop(d) /\ device[d].assist = job.pid /\ device[d].status = "USED"
  /\ device[d].owner # job.pid
  /\ device' = [device EXCEPT ![d] = Retired(d, job.stat)]
  /\ check_nodes' = TRUE
  /\ HangUpAndWait(device[d].owner)
  /\ UNCHANGED <<node, child_dead>>

\* The assistant of device d is dead: its user has to go.
KillAssist(d) ==
  /\ InKillLoop(d) /\ device[d].assist = job.pid /\ device[d].status = "USED"
  /\ device[d].owner # job.pid
  /\ device' = [device EXCEPT ![d] = Retired(d, job.stat)]
  /\ check_nodes' = TRUE
  /\ node' = IF device[d].owner = NoPid THEN node
             ELSE disable_nodes_with_pid(device[d].owner)
  /\ HangUpAndWait(device[d].owner)
  /\ UNCHANGED child_dead

\* Mutant: one child for every SIGCHLD.
KilledOne ==
  /\ pc = "kill" /\ NextConcerned = -1
  /\ GoOn
  /\ UNCHANGED <<node, device, proc, child_dead>>

Killed ==
  /\ pc = "kill" /\ NextConcerned = -1
  /\ pc' = "crib" /\ job' = NoJob
  /\ UNCHANGED <<node, device, proc, child_dead, check_nodes>>

\* waitpid() returns.
Waited ==
  /\ pc = "wait" /\ Zombie(job.other)
  /\ proc' = [proc EXCEPT ![job.other] = NoProcess]
  /\ pc' = "kill" /\ job' = [job EXCEPT !.other = NoPid]
  /\ UNCHANGED <<node, device, child_dead, check_nodes>>

-----------------------------------------------------------------------------
(* A client on every unused port.                                          *)

EmptyNodes(first) == {n \in Nodes : n >= first /\ node[n].status = "EMPTY"}

next_empty_node         == Lowest(EmptyNodes(1))
next_empty_console_node == Lowest(EmptyNodes(0))

NodeFor(d) ==
  IF device[d].type = "DIRECT" THEN next_empty_console_node ELSE next_empty_node

Free(p) == proc[p].kind = "none"

NewClient(n, d) ==
  [NoProcess EXCEPT !.kind = "client", !.phase = "start",
                    !.node = n, !.dev = d, !.line = TRUE]

Waiting(d) == device[d].status = "UNUSED" /\ device[d].type # "TELNET"

NextWaiting == Lowest({d \in Devices : d >= job.dev /\ Waiting(d)})

InSpawnLoop(d) == pc = "spawn" /\ d = NextWaiting

SpawnFork(d, p) ==
  /\ InSpawnLoop(d) /\ NodeFor(d) # -1
  /\ Free(p)
  /\ proc' = [proc EXCEPT ![p] = NewClient(NodeFor(d), d)]
  /\ pc' = "register" /\ job' = [NoJob EXCEPT !.dev = d, !.node = NodeFor(d), !.pid = p]
  /\ UNCHANGED <<node, device, child_dead, check_nodes>>

\* fork() fails: the other ports have to wait, too.
SpawnFails(d) ==
  /\ device[d].fork_fails /\ InSpawnLoop(d) /\ NodeFor(d) # -1
  /\ pc' = "poll" /\ job' = NoJob
  /\ UNCHANGED <<node, device, proc, child_dead, check_nodes>>

SpawnNothing(d) ==
  /\ InSpawnLoop(d) /\ NodeFor(d) = -1
  /\ job' = [job EXCEPT !.dev = d + 1]
  /\ UNCHANGED <<node, device, proc, child_dead, check_nodes, pc>>

Spawned ==
  /\ pc = "spawn" /\ NextWaiting = -1
  /\ pc' = "poll" /\ job' = NoJob
  /\ UNCHANGED <<node, device, proc, child_dead, check_nodes>>

-----------------------------------------------------------------------------
(* The parent's half of a fork: the child runs already.                    *)

NewNode(pid, d) == [status |-> "IDLE", pid |-> pid, dev |-> d]

\* Mutant: every start is the first one.
NewDeviceAfresh(d, pid, assist) ==
  [device[d] EXCEPT !.status = "USED", !.owner = pid, !.term = NoPid,
                    !.assist = assist, !.retries = 0]

NewDevice(d, pid, assist) ==
  [device[d] EXCEPT !.status = "USED", !.owner = pid, !.term = NoPid,
                    !.assist = assist]

new_node(n, pid, d) == node' = [node EXCEPT ![n] = NewNode(pid, d)]

RegisterSpawned ==
  /\ pc = "register" /\ job.dev # -1 /\ job.other = NoPid
  /\ new_node(job.node, job.pid, job.dev)
  /\ device' = [device EXCEPT ![job.dev] = NewDevice(job.dev, job.pid, NoPid)]
  /\ pc' = "spawn" /\ job' = [NoJob EXCEPT !.dev = job.dev + 1]
  /\ UNCHANGED <<proc, child_dead, check_nodes>>

RegisterCall ==
  /\ pc = "register" /\ job.dev # -1 /\ job.other # NoPid
  /\ new_node(job.node, job.pid, job.dev)
  /\ device' = [device EXCEPT ![job.dev] =
       [NewDevice(job.dev, job.pid, job.other) EXCEPT !.type = "TELNET", !.retries = 0]]
  /\ pc' = "extrn" /\ job' = NoJob
  /\ UNCHANGED <<proc, child_dead, check_nodes>>

RegisterExtrn ==
  /\ pc = "register" /\ job.dev = -1
  /\ new_node(job.node, job.pid, -1)
  /\ pc' = "serve" /\ job' = NoJob
  /\ UNCHANGED <<device, proc, child_dead, check_nodes>>

-----------------------------------------------------------------------------
(* accept_connections_on and extrn_accept_connections_on.                  *)

EmptyDevice == Lowest({d \in Devices : device[d].status = "EMPTY"})

AcceptFork(p) ==
  /\ pc = "accept" /\ EmptyDevice # -1 /\ next_empty_node # -1
  /\ Free(p)
  /\ proc' = [proc EXCEPT ![p] = NewClient(next_empty_node, EmptyDevice)]
  /\ pc' = "assist"
  /\ job' = [NoJob EXCEPT !.dev = EmptyDevice, !.node = next_empty_node, !.pid = p]
  /\ UNCHANGED <<node, device, child_dead, check_nodes>>

\* No call, or no room for it.
AcceptNothing ==
  /\ pc = "accept"
  /\ pc' = "extrn"
  /\ UNCHANGED <<node, device, proc, child_dead, check_nodes, job>>

AssistFork(q) ==
  /\ pc = "assist" /\ Free(q)
  /\ proc' = [proc EXCEPT
       ![q] = [NoProcess EXCEPT !.kind = "assistant", !.phase = "greet",
                                !.mate = job.pid, !.line = TRUE],
       ![job.pid].mate = q]
  /\ pc' = "register" /\ job' = [job EXCEPT !.other = q]
  /\ UNCHANGED <<node, device, child_dead, check_nodes>>

\* The second fork() fails: kill(pid, SIGKILL).
AssistFails ==
  /\ pc = "assist" /\ device[job.dev].fork_fails
  /\ IF Running(job.pid)
       THEN proc' = [proc EXCEPT ![job.pid] = Dead(job.pid, 0)] /\ set_child_dead
       ELSE UNCHANGED <<proc, child_dead>>
  /\ pc' = "extrn" /\ job' = NoJob
  /\ UNCHANGED <<node, device, check_nodes>>

ExtrnFork(p) ==
  /\ pc = "extrn" /\ next_empty_node # -1
  /\ Free(p)
  /\ proc' = [proc EXCEPT ![p] =
       [NoProcess EXCEPT !.kind = "extrn", !.phase = "copy", !.node = next_empty_node]]
  /\ pc' = "register" /\ job' = [NoJob EXCEPT !.node = next_empty_node, !.pid = p]
  /\ UNCHANGED <<node, device, child_dead, check_nodes>>

ExtrnNothing ==
  /\ pc = "extrn"
  /\ pc' = "serve"
  /\ UNCHANGED <<node, device, proc, child_dead, check_nodes, job>>

-----------------------------------------------------------------------------
(* The main loop.                                                          *)

Top ==
  /\ pc = "top"
  /\ child_dead' = FALSE
  /\ IF child_dead THEN pc' = "crib" /\ UNCHANGED <<check_nodes, job>> ELSE GoOn
  /\ UNCHANGED <<node, device, proc>>

\* poll_buffers returns 0 after at most 60 seconds, and not before for SIGCHLD.
PollTimesOut ==
  /\ pc = "poll"
  /\ pc' = "top"
  /\ UNCHANGED <<node, device, proc, child_dead, check_nodes, job>>

PollReturns ==
  /\ pc = "poll"
  /\ pc' = "accept"
  /\ UNCHANGED <<node, device, proc, child_dead, check_nodes, job>>

(* Of the messages those about devices.  get_active_node wants an active   *)
(* sender; a packet may be read after the client that wrote it has died.   *)

Sender(n) == pc = "serve" /\ node[n].status = "ACTIVE"

force_message(n, d, on) ==
  /\ Sender(n) /\ device[d].type # "TELNET"
  /\ device' = [device EXCEPT
       ![d].status = CASE on /\ @ = "OFF"     -> "UNUSED"
                       [] ~on /\ @ = "UNUSED" -> "OFF"
                       [] OTHER               -> @,
       ![d].retries = 0]
  /\ check_nodes' = TRUE
  /\ UNCHANGED <<node, proc, child_dead, pc, job>>

Term(n, d) ==
  /\ Sender(n) /\ device[d].type # "TELNET"
  /\ device[d].status \in {"UNUSED", "OFF"}
  /\ device' = [device EXCEPT ![d].status = "TERM", ![d].term = node[n].pid,
                              ![d].retries = 0]
  /\ UNCHANGED <<node, proc, child_dead, check_nodes, pc, job>>

Endterm(n, d) ==
  /\ Sender(n) /\ device[d].status = "TERM" /\ device[d].term = node[n].pid
  /\ device' = [device EXCEPT ![d].status = "UNUSED", ![d].term = NoPid,
                              ![d].retries = 0]
  /\ check_nodes' = TRUE
  /\ UNCHANGED <<node, proc, child_dead, pc, job>>

Served ==
  /\ pc = "serve"
  /\ pc' = "top"
  /\ UNCHANGED <<node, device, proc, child_dead, check_nodes, job>>

-----------------------------------------------------------------------------
(* The clients.  They write their node whatever has become of it.          *)

Client(p, phase) == proc[p].kind = "client" /\ proc[p].phase = phase

Enter(p, phase) == proc' = [proc EXCEPT ![p].phase = phase]

ClientLogin(p) ==
  /\ Client(p, "start") /\ device[proc[p].dev].works
  /\ Enter(p, "login")
  /\ node' = [node EXCEPT ![proc[p].node].status = "LOGGING_IN"]
  /\ UNCHANGED <<device, child_dead, check_nodes, pc, job>>

ClientActive(p) ==
  /\ Client(p, "login") /\ proc[p].line
  /\ Enter(p, "active")
  /\ node' = [node EXCEPT ![proc[p].node].status = "ACTIVE"]
  /\ UNCHANGED <<device, child_dead, check_nodes, pc, job>>

\* SIGUSR1 with SIG1_ACTION_RELOG, and the exec at the end of respawn_self.
ClientRelog(p) ==
  /\ Client(p, "active")
  /\ Enter(p, "relog")
  /\ UNCHANGED <<node, device, child_dead, check_nodes, pc, job>>

ClientExec(p) ==
  /\ Client(p, "relog")
  /\ Enter(p, "start")
  /\ UNCHANGED <<node, device, child_dead, check_nodes, pc, job>>

\* The port cannot be opened or set up, the modem does not answer, the caller
\* is gone.
ClientFails(p) ==
  /\ Client(p, "start")
  /\ LET d == proc[p].dev
     IN  ~device[d].works \/ device[d].type = "MODEM" \/ ~proc[p].line
  /\ Exit(p, 1)
  /\ UNCHANGED <<node, device, check_nodes, pc, job>>

\* Logout, no valid login, or SIGUSR1.  Once the line is gone getc() returns
\* EOF for ever and only a signal helps; the server sends none while it waits.
ClientLeaves(p) ==
  /\ Client(p, "login") \/ Client(p, "active")
  /\ proc[p].line \/ pc # "wait"
  /\ Exit(p, 0)
  /\ UNCHANGED <<node, device, check_nodes, pc, job>>

\* SIGHUP ends a client, except in respawn_self.
ClientHup(p) ==
  /\ proc[p].kind = "client" /\ proc[p].hup
  /\ IF proc[p].phase # "relog" THEN Exit(p, 0)
     ELSE proc' = [proc EXCEPT ![p].hup = FALSE] /\ UNCHANGED child_dead
  /\ UNCHANGED <<node, device, check_nodes, pc, job>>

CarrierLost(p) ==
  /\ proc[p].kind = "client" /\ proc[p].phase \in {"login", "active", "relog"}
  /\ proc[p].line /\ device[proc[p].dev].type = "MODEM"
  /\ proc' = [proc EXCEPT ![p].line = FALSE, ![p].hup = TRUE]
  /\ UNCHANGED <<node, device, child_dead, check_nodes, pc, job>>

-----------------------------------------------------------------------------
(* copy_between_socket and copy_extrn_socket.                              *)

Assistant(q, phase) == proc[q].kind = "assistant" /\ proc[q].phase = phase

\* The first read() of the socket returns: the caller sends or hangs up.
FirstByte(q) ==
  /\ Assistant(q, "greet")
  /\ Enter(q, "copy")
  /\ UNCHANGED <<node, device, child_dead, check_nodes, pc, job>>

\* SIGHUP sets a flag that is not looked at; before its handler is installed it
\* kills.
AssistHup(q) ==
  /\ proc[q].kind = "assistant" /\ proc[q].hup
  /\ \/ proc' = [proc EXCEPT ![q].hup = FALSE] /\ UNCHANGED child_dead
     \/ Assistant(q, "greet") /\ Exit(q, 0)
  /\ UNCHANGED <<node, device, check_nodes, pc, job>>

\* kill(cli_pid, SIGHUP) reaches whoever has that number; closing the pty
\* hangs up on the client behind it.
HungUpBy(q) ==
  LET p == proc[q].mate
  IN  IF ~Running(p) THEN proc
      ELSE [proc EXCEPT ![p].hup = TRUE, ![p].line = @ /\ proc[p].mate # q]

AssistEnds(q) ==
  /\ Assistant(q, "copy")
  /\ proc' = [HungUpBy(q) EXCEPT ![q] = Dead(q, 1)]
  /\ set_child_dead
  /\ UNCHANGED <<node, device, check_nodes, pc, job>>

ClientGone(q) == ~(Running(proc[q].mate) /\ proc[proc[q].mate].mate = q)

ExtrnEnds(p) ==
  /\ proc[p].kind = "extrn" /\ proc[p].phase = "copy"
  /\ Exit(p, 1)
  /\ UNCHANGED <<node, device, check_nodes, pc, job>>

-----------------------------------------------------------------------------
MainLoop ==
  \/ Top \/ NoneLeft \/ Killed \/ Waited \/ Spawned
  \/ PollTimesOut \/ PollReturns
  \/ AcceptNothing \/ AssistFails \/ ExtrnNothing \/ Served
  \/ RegisterSpawned \/ RegisterCall \/ RegisterExtrn
  \/ \E p \in Pids : Reap(p) \/ AcceptFork(p) \/ AssistFork(p) \/ ExtrnFork(p)
  \/ \E d \in Devices :
       \/ KillOwner(d) \/ KillTerm(d) \/ KillAssist(d)
       \/ SpawnFails(d) \/ SpawnNothing(d)
       \/ \E p \in Pids : SpawnFork(d, p)

Message ==
  \E n \in Nodes, d \in Devices :
    \/ Term(n, d) \/ Endterm(n, d)
    \/ \E on \in BOOLEAN : force_message(n, d, on)

Child(p) ==
  \/ ClientLogin(p) \/ ClientActive(p) \/ ClientRelog(p) \/ ClientExec(p)
  \/ ClientFails(p) \/ ClientLeaves(p) \/ ClientHup(p) \/ CarrierLost(p)
  \/ FirstByte(p) \/ AssistHup(p) \/ AssistEnds(p) \/ ExtrnEnds(p)

Next == MainLoop \/ Message \/ \E p \in Pids : Child(p)

Spec == Init /\ [][Next]_vars

\* A process that waits for nobody: a client that execs, one whose port cannot
\* be opened, an assistant that was hung up on or whose client is gone.
Unaided(p) ==
  \/ ClientExec(p)
  \/ Client(p, "start") /\ ~device[proc[p].dev].works /\ ClientFails(p)
  \/ AssistHup(p)
  \/ ClientGone(p) /\ AssistEnds(p)

\* The server goes on, and so do such processes and clients that were hung up
\* on.  Users owe nobody anything.
Fairness ==
  /\ WF_vars(MainLoop)
  /\ \A p \in Pids : WF_vars(Unaided(p)) /\ WF_vars(ClientHup(p))

FairSpec == Spec /\ Fairness

-----------------------------------------------------------------------------
TypeOK ==
  /\ node \in [Nodes -> [status : NodeStatus, pid : Pids \union {NoPid},
                         dev : Devices \union {-1}]]
  /\ device \in [Devices ->
       [status : DeviceStatus, type : {"DIRECT", "MODEM", "SERIAL", "TELNET"},
        works : BOOLEAN, fork_fails : BOOLEAN,
        owner : Pids \union {NoPid}, term : Pids \union {NoPid},
        assist : Pids \union {NoPid}, retries : 0 .. MAX_RETRIES]]
  /\ proc \in [Pids -> Process]
  /\ child_dead \in BOOLEAN /\ check_nodes \in BOOLEAN
  /\ pc \in Places /\ job \in Job

BeingKilled(p) == pc \in {"kill", "wait"} /\ p = job.pid

\* The tables never name a process that is gone: a node's process, a device's
\* user and assistant are children that have not been waited for, and are on
\* that node and device.  So no signal of the server, of /KILL or of /RELOG
\* goes to a process that was given the number of a dead one.
NoStalePid ==
  /\ \A n \in Nodes : LET p == node[n].pid IN
       p # NoPid => Exists(p) /\ proc[p].node = n
  /\ \A d \in Devices : LET p == device[d].owner q == device[d].assist IN
       /\ p # NoPid /\ ~BeingKilled(p) => Exists(p) /\ proc[p].dev = d
       /\ q # NoPid /\ ~BeingKilled(q) => Exists(q) /\ proc[q].kind = "assistant"

BeingStarted(p) == pc \in {"assist", "register"} /\ p = job.pid

\* A node is written by one process at a time, and a port is used by one: its
\* client, or the user who has it for /TERM.
Exclusive ==
  \A p \in Pids : Running(p) =>
    /\ \A q \in Pids \ {p} :
         Running(q) /\ proc[q].node # -1 => proc[q].node # proc[p].node
    /\ proc[p].dev # -1 /\ ~BeingStarted(p) =>
         device[proc[p].dev].owner = p \/ (pc = "wait" /\ job.other = p)

\* Is every port configured, so that nobody can call with telnet?
NoCalls == \A d \in Devices : device[d].type \in {"DIRECT", "MODEM"}

\* common.h: term_pid is the "pid of suspended user for /term".  Whenever the
\* server is back at the top of its loop, the user of a device in TERM is on a
\* node, so that the device comes back when that user leaves.  Not so if he
\* called with telnet: when his assistant ends first KillAssist waits for him
\* on the side, and no KillTerm follows.
TermPidIsUser ==
  NoCalls /\ pc = "top" => \A d \in Devices : device[d].status = "TERM" =>
    \E n \in Nodes : node[n].pid = device[d].term /\ node[n].pid # NoPid

\* common.h: pid is the "pid of process on node".  At the top of the loop a
\* node that is not empty has a process, so that it becomes empty again.  Not
\* so with telnet: KillAssist clears the node while its client still runs and
\* may write its status.
NodeHasPid ==
  NoCalls /\ pc = "top" =>
    \A n \in Nodes : node[n].status # "EMPTY" => node[n].pid # NoPid

\* No node and no device is left behind: each has a holder whose end frees it.
NothingLeftBehind == TermPidIsUser /\ NodeHasPid

\* The server waits for ever only for an assistant whose caller has neither
\* sent a byte nor hung up, or for a client that lost its SIGHUPs in
\* respawn_self.
Stuck ==
  /\ pc = "wait"
  /\ \/ Assistant(job.other, "greet")
     \/ proc[job.other].kind = "client" /\ ~proc[job.other].hup

\* The server always gets back to the top of its loop, and never with a dead
\* child it has not been told of, whenever the SIGCHLD arrived: what it has been
\* told of it looks for until no dead child is left.
ServerKeepsUp ==
  /\ [](pc = "top" => \A p \in Pids : Zombie(p) => child_dead)
  /\ []<>(pc = "top" \/ Stuck)

\* A fork() that fails leaves its own port and the ones behind it dead until
\* something else asks for check_nodes.
ForkMayFail(d) ==
  \E e \in 0 .. d : device[e].type \in {"DIRECT", "MODEM"} /\ device[e].fork_fails

\* Every other port that waits for a client gets one, is switched off or taken
\* by /TERM, or there is no node for it, or the server is stuck.
PortsServed ==
  \A d \in Devices :
    \/ ForkMayFail(d)
    \/ []<>(device[d].status # "UNUSED" \/ NodeFor(d) = -1 \/ Stuck)

\* A port that cannot be opened is not tried for ever, unless users keep
\* asking for it or the server is stuck.
AskedFor(d) == \E n \in Nodes : Term(n, d) \/ \E on \in BOOLEAN : force_message(n, d, on)

BadPortsGivenUp ==
  \A d \in Devices :
    \/ device[d].works
    \/ <>[](device[d].status # "USED" \/ Stuck) \/ []<><<AskedFor(d)>>_vars
=============================================================================
