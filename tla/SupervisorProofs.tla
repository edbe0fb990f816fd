-------------------------- MODULE SupervisorProofs --------------------------
(***************************************************************************)
(* What the tables of nodes and devices say of the processes, for any      *)
(* number of nodes, devices and process ids, any configuration and any     *)
(* order of deaths: they name no process that is gone, no two processes    *)
(* share a node or a port, and where nobody can call with telnet every     *)
(* node and every device in TERM has a holder whose end frees it.          *)
(* The argument follows the server's place in its loop: what it has taken  *)
(* out of one table and not yet put into another it still has in hand      *)
(* (job), and it is the only one who forks or reaps.                       *)
(***************************************************************************)
EXTENDS Supervisor, WellFoundedInduction, TLAPS

\* What a process is, it is from its fork to its reaping.
ProcsSound ==
  \A p \in Pids :
    /\ proc[p].kind = "none" => proc[p] = NoProcess
    /\ proc[p].kind # "none" => proc[p].phase # "none"
    /\ proc[p].kind = "client" => proc[p].node \in Nodes /\ proc[p].dev \in Devices
    /\ proc[p].kind = "assistant" => proc[p].node = -1 /\ proc[p].dev = -1
    /\ proc[p].kind = "extrn" => proc[p].node \in Nodes /\ proc[p].dev = -1

\* A node's process is a child on that node, and the node is in use.
NodesSound ==
  \A n \in Nodes : node[n].pid # NoPid =>
    /\ node[n].status # "EMPTY"
    /\ Exists(node[n].pid) /\ proc[node[n].pid].node = n

\* A used device's processes are children, except the one being killed; no
\* assistant has two devices; what is not in use has neither.
DevicesSound ==
  \A d \in Devices :
    /\ device[d].status # "USED" => device[d].owner = NoPid /\ device[d].assist = NoPid
    /\ device[d].status # "OFF" => device[d].retries < MAX_RETRIES
    /\ device[d].type = "SERIAL" => device[d].status = "EMPTY"
    /\ device[d].status = "EMPTY" => device[d].type \in {"SERIAL", "TELNET"}
    /\ LET p == device[d].owner
       IN  p # NoPid /\ ~BeingKilled(p) => Exists(p) /\ proc[p].dev = d
    /\ LET q == device[d].assist
       IN  q # NoPid /\ ~BeingKilled(q) => Exists(q) /\ proc[q].kind = "assistant"
    /\ \A e \in Devices \ {d} :
         device[d].assist # NoPid => device[e].assist # device[d].assist

\* No table names the process.
Unnamed(p) ==
  /\ \A n \in Nodes : node[n].pid # p
  /\ \A d \in Devices : p \notin {device[d].owner, device[d].assist}

\* The process just reaped is none any more, and the one waited for is in no
\* table and leaves its node to nobody else.
KillSound ==
  /\ pc \in {"kill", "wait"} => job.pid \in Pids /\ ~Exists(job.pid)
  /\ pc = "wait" => /\ job.other \in Pids /\ Exists(job.other)
                    /\ Unnamed(job.other)
                    /\ Running(job.other) /\ proc[job.other].node # -1 =>
                         node[proc[job.other].node].pid = NoPid

\* A process just forked is not in the tables yet, and its place in them is
\* still free.
StartSound ==
  /\ pc \in {"assist", "register"} =>
       /\ job.pid \in Pids /\ Exists(job.pid) /\ Unnamed(job.pid)
       /\ job.node \in Nodes /\ node[job.node].pid = NoPid
       /\ proc[job.pid].node = job.node /\ proc[job.pid].dev = job.dev
       /\ job.dev # -1 =>
            /\ job.dev \in Devices
            /\ device[job.dev].status =
                 IF pc = "register" /\ job.other = NoPid THEN "UNUSED" ELSE "EMPTY"
  /\ pc = "assist" => job.dev # -1
  /\ pc = "register" /\ job.other # NoPid =>
       /\ job.other \in Pids /\ Exists(job.other) /\ Unnamed(job.other)
       /\ proc[job.other].kind = "assistant" /\ job.dev # -1

\* A process that runs has its node and its port in the tables, or the server
\* has it in hand.
Held ==
  \A p \in Pids : Running(p) =>
    /\ proc[p].node # -1 =>
         \/ node[proc[p].node].pid = p
         \/ BeingStarted(p)
         \/ pc = "wait" /\ job.other = p
    /\ proc[p].dev # -1 =>
         \/ device[proc[p].dev].owner = p
         \/ BeingStarted(p)
         \/ pc = "wait" /\ job.other = p

\* Without calls there are no assistants, so that nobody is waited for; each
\* node in use and each device in TERM has its process or is on the way to
\* get or to lose it.
HeldWithoutCalls ==
  NoCalls =>
    /\ \A d \in Devices : device[d].assist = NoPid
    /\ pc \notin {"assist", "wait"}
    /\ pc = "register" => job.other = NoPid
    /\ \A n \in Nodes : node[n].status # "EMPTY" =>
         node[n].pid # NoPid \/ (pc = "register" /\ job.node = n)
    /\ \A d \in Devices : device[d].status = "TERM" =>
         \/ \E n \in Nodes : node[n].pid = device[d].term /\ node[n].pid # NoPid
         \/ pc = "kill" /\ device[d].term = job.pid

IInv ==
  /\ TypeOK /\ ProcsSound /\ NodesSound /\ DevicesSound
  /\ KillSound /\ StartSound /\ Held /\ HeldWithoutCalls
-----------------------------------------------------------------------------
(* The loops look for the first of the devices or nodes they want.         *)

LEMMA LessIsOrder == \A x, y \in Nat : x < y => <<x, y>> \in OpToRel(<, Nat)
BY Zenon DEF OpToRel

LEMMA LeastExists ==
  ASSUME NEW S \in SUBSET Nat, S # {}
  PROVE  \E x \in S : \A y \in S : x <= y
<1>1. PICK x \in S : \A y \in S : ~(<<y, x>> \in OpToRel(<, Nat))
  BY NatLessThanWellFounded, WFMin, Zenon
<1>2. \A y \in S : ~(y < x)
  BY <1>1, LessIsOrder
<1> QED
  BY <1>2

\* Lowest is an element if there is one, and -1 if there is none.
LEMMA LowestFound ==
  ASSUME NEW S \in SUBSET Nat
  PROVE  /\ S = {} => Lowest(S) = -1
         /\ S # {} => Lowest(S) \in S
<1>1. ASSUME S # {} PROVE (CHOOSE i \in S : \A j \in S : i <= j) \in S
  BY <1>1, LeastExists
<1> QED
  BY <1>1 DEF Lowest

LEMMA Indices ==
  /\ Devices \subseteq Nat /\ Nodes \subseteq Nat
  /\ -1 \notin Devices /\ -1 \notin Nodes
BY SupervisorAssumption DEF Devices, Nodes

LEMMA ConcernedFound ==
  NextConcerned = -1 => \A d \in Devices : ~Concerned(d)
<1>1. {d \in Devices : Concerned(d)} \in SUBSET Nat
  BY Indices
<1> QED
  BY <1>1, LowestFound, Indices DEF NextConcerned

LEMMA WaitingFound ==
  ASSUME NEW d \in Devices, d = NextWaiting
  PROVE  Waiting(d)
<1>1. {e \in Devices : e >= job.dev /\ Waiting(e)} \in SUBSET Nat
  BY Indices
<1> QED
  BY <1>1, LowestFound, Indices DEF NextWaiting

LEMMA EmptyDeviceFound ==
  EmptyDevice # -1 => EmptyDevice \in Devices /\ device[EmptyDevice].status = "EMPTY"
<1>1. {d \in Devices : device[d].status = "EMPTY"} \in SUBSET Nat
  BY Indices
<1> QED
  BY <1>1, LowestFound DEF EmptyDevice

LEMMA EmptyNodeFound ==
  ASSUME NEW first
  PROVE  Lowest(EmptyNodes(first)) # -1 =>
           /\ Lowest(EmptyNodes(first)) \in Nodes
           /\ node[Lowest(EmptyNodes(first))].status = "EMPTY"
<1>1. EmptyNodes(first) \in SUBSET Nat
  BY Indices DEF EmptyNodes
<1> QED
  BY <1>1, LowestFound DEF EmptyNodes
-----------------------------------------------------------------------------
(* The children.                                                           *)

LEMMA InitTyped == Init => IInv
<1> SUFFICES ASSUME Init PROVE IInv
  OBVIOUS
<1> USE SupervisorAssumption
<1>1. PICK config \in Configurations :
        device = [d \in Devices |->
          [status  |-> IF config[d].type = "SERIAL" THEN "EMPTY" ELSE "UNUSED",
           type    |-> config[d].type, works |-> config[d].works,
           fork_fails |-> config[d].fork_fails,
           owner   |-> NoPid, term |-> NoPid, assist |-> NoPid, retries |-> 0]]
  BY DEF Init
<1>2. \A d \in Devices :
        config[d] \in [type : {"DIRECT", "MODEM", "SERIAL"}, works : BOOLEAN,
                       fork_fails : BOOLEAN]
  BY <1>1
<1>3. \A d \in Devices :
        /\ config[d].type \in {"DIRECT", "MODEM", "SERIAL"}
        /\ config[d].works \in BOOLEAN /\ config[d].fork_fails \in BOOLEAN
  BY <1>2
<1>4. TypeOK
  <2>1. device \in [Devices ->
          [status : DeviceStatus, type : {"DIRECT", "MODEM", "SERIAL", "TELNET"},
           works : BOOLEAN, fork_fails : BOOLEAN,
           owner : Pids \union {NoPid}, term : Pids \union {NoPid},
           assist : Pids \union {NoPid}, retries : 0 .. MAX_RETRIES]]
    BY <1>1, <1>3 DEF DeviceStatus
  <2>2. node \in [Nodes -> [status : NodeStatus, pid : Pids \union {NoPid},
                           dev : Devices \union {-1}]]
    BY DEF Init, NodeStatus
  <2>3. NoProcess \in Process
    BY DEF NoProcess, Process, Phases
  <2>4. NoJob \in Job
    BY DEF NoJob, Job
  <2> QED
    BY <2>1, <2>2, <2>3, <2>4 DEF Init, TypeOK, Places
<1>5. ProcsSound
  BY DEF Init, ProcsSound, NoProcess
<1>6. NodesSound
  BY DEF Init, NodesSound
<1>7. DevicesSound
  BY <1>1, <1>3 DEF DevicesSound
<1>8. KillSound /\ StartSound
  BY DEF Init, KillSound, StartSound
<1>9. Held
  BY DEF Init, Held, Running, Exists, NoProcess
<1>10. HeldWithoutCalls
  <2>1. \A d \in Devices : device[d].status # "TERM" /\ device[d].assist = NoPid
    BY <1>1
  <2>2. \A n \in Nodes : node[n].status = "EMPTY"
    BY DEF Init
  <2> QED
    BY <2>1, <2>2 DEF Init, HeldWithoutCalls
<1> QED
  BY <1>4, <1>5, <1>6, <1>7, <1>8, <1>9, <1>10 DEF IInv

\* Processes live on or die, and none of them becomes another.
LiveOrDie ==
  /\ proc' \in [Pids -> Process]
  /\ \A p \in Pids :
       /\ proc[p].kind = "none" => proc'[p] = proc[p]
       /\ proc'[p].kind = proc[p].kind
       /\ proc'[p].node = proc[p].node /\ proc'[p].dev = proc[p].dev
       /\ proc[p].kind # "none" => proc'[p].phase # "none"
       /\ Zombie(p) => Zombie(p)'

\* The status of nodes is written by processes that run on them, and by nobody
\* else; they never leave a node empty.
Written ==
  /\ node' \in [Nodes -> [status : NodeStatus, pid : Pids \union {NoPid},
                         dev : Devices \union {-1}]]
  /\ \A n \in Nodes :
       /\ node'[n].pid = node[n].pid
       /\ \/ node'[n].status = node[n].status
          \/ /\ node'[n].status # "EMPTY"
             /\ \E p \in Pids : Running(p) /\ proc[p].node = n

LEMMA LivingKeeps ==
  ASSUME IInv, LiveOrDie, Written, UNCHANGED <<device, check_nodes, pc, job>>,
         child_dead' \in BOOLEAN
  PROVE  IInv'
<1> USE SupervisorAssumption
<1>1. TypeOK'
  BY DEF IInv, TypeOK, LiveOrDie, Written
<1>2. ProcsSound'
  BY DEF IInv, ProcsSound, LiveOrDie
<1>3. \A p \in Pids : (Exists(p)' <=> Exists(p)) /\ (Running(p)' => Running(p))
  BY DEF LiveOrDie, Exists, Running
<1>4. NodesSound'
  <2> SUFFICES ASSUME NEW n \in Nodes, node'[n].pid # NoPid
               PROVE  /\ node'[n].status # "EMPTY"
                      /\ Exists(node[n].pid)' /\ proc'[node'[n].pid].node = n
    BY DEF NodesSound
  <2>1. node'[n].pid = node[n].pid /\ node[n].pid \in Pids
    BY DEF IInv, TypeOK, Written
  <2>2. node[n].status # "EMPTY" /\ Exists(node[n].pid) /\ proc[node[n].pid].node = n
    BY <2>1 DEF IInv, NodesSound
  <2> QED
    BY <1>3, <2>1, <2>2 DEF Written, LiveOrDie
<1>5. \A p : BeingKilled(p)' <=> BeingKilled(p)
  BY DEF BeingKilled
<1>6. \A d \in Devices : device[d].owner \in Pids \union {NoPid} /\ device[d].assist \in Pids \union {NoPid}
  BY DEF IInv, TypeOK
<1>7. DevicesSound'
  BY <1>3, <1>5, <1>6 DEF IInv, DevicesSound, LiveOrDie
<1>8. \A p : Unnamed(p) => Unnamed(p)'
  BY DEF Unnamed, Written
<1>9. KillSound'
  <2>1. pc = "wait" => proc[job.other].node \in Nodes \union {-1}
    BY DEF IInv, KillSound, TypeOK, Process
  <2> QED
    BY <1>3, <1>8, <2>1 DEF IInv, KillSound, LiveOrDie, Written
<1>10. StartSound'
  BY <1>3, <1>8 DEF IInv, StartSound, LiveOrDie, Written
<1>11. Held'
  <2> SUFFICES ASSUME NEW p \in Pids, Running(p)'
               PROVE  /\ proc[p].node # -1 =>
                           \/ node'[proc[p].node].pid = p
                           \/ BeingStarted(p)
                           \/ pc = "wait" /\ job.other = p
                      /\ proc[p].dev # -1 =>
                           \/ device[proc[p].dev].owner = p
                           \/ BeingStarted(p)
                           \/ pc = "wait" /\ job.other = p
    BY DEF Held, LiveOrDie, BeingStarted
  <2>1. Running(p)
    BY <1>3
  <2>2. proc[p].node \in Nodes \union {-1}
    BY DEF IInv, TypeOK, Process
  <2>3. proc[p].node # -1 => node'[proc[p].node].pid = node[proc[p].node].pid
    BY <2>2 DEF Written
  <2> QED
    BY <2>1, <2>3 DEF IInv, Held
<1>12. HeldWithoutCalls'
  <2>1. NoCalls' <=> NoCalls
    BY DEF NoCalls
  <2> SUFFICES ASSUME NoCalls
               PROVE  /\ \A n \in Nodes : node'[n].status # "EMPTY" =>
                           node'[n].pid # NoPid \/ (pc = "register" /\ job.node = n)
                      /\ \A d \in Devices : device[d].status = "TERM" =>
                           \/ \E n \in Nodes : node'[n].pid = device[d].term /\ node'[n].pid # NoPid
                           \/ pc = "kill" /\ device[d].term = job.pid
    BY <2>1 DEF IInv, HeldWithoutCalls
  <2>2. ASSUME NEW n \in Nodes, node'[n].status # "EMPTY"
        PROVE  node'[n].pid # NoPid \/ (pc = "register" /\ job.node = n)
    <3>1. CASE node'[n].status = node[n].status
      BY <2>2, <3>1 DEF IInv, HeldWithoutCalls, Written
    <3>2. CASE \E p \in Pids : Running(p) /\ proc[p].node = n
      <4>1. PICK p \in Pids : Running(p) /\ proc[p].node = n
        BY <3>2
      <4>2. node[n].pid = p \/ BeingStarted(p)
        BY <4>1, Indices DEF IInv, Held, HeldWithoutCalls
      <4>3. BeingStarted(p) => pc = "register" /\ job.node = n
        BY <4>1 DEF IInv, BeingStarted, StartSound, HeldWithoutCalls
      <4> QED
        BY <4>2, <4>3 DEF Written
    <3> QED
      BY <3>1, <3>2 DEF Written
  <2> QED
    BY <2>2 DEF IInv, HeldWithoutCalls, Written
<1> QED
  BY <1>1, <1>2, <1>4, <1>7, <1>9, <1>10, <1>11, <1>12 DEF IInv
\* One process goes into another phase, loses its terminal or is signalled.
LEMMA OneLives ==
  ASSUME IInv, NEW p \in Pids, Exists(p), NEW r \in Process,
         proc' = [proc EXCEPT ![p] = r],
         r.kind = proc[p].kind, r.node = proc[p].node, r.dev = proc[p].dev,
         r.phase # "none", Zombie(p) => r.phase \in {"exit0", "exit1"}
  PROVE  LiveOrDie
<1>1. proc \in [Pids -> Process]
  BY DEF IInv, TypeOK
<1>2. proc' \in [Pids -> Process] /\ proc'[p] = r /\ \A s \in Pids \ {p} : proc'[s] = proc[s]
  BY <1>1
<1>3. \A s \in Pids : proc[s].kind # "none" => proc[s].phase # "none"
  BY DEF IInv, ProcsSound
<1> QED
  BY <1>2, <1>3, SupervisorAssumption DEF LiveOrDie, Exists, Zombie

LEMMA OneEnters ==
  ASSUME IInv, NEW p \in Pids, Exists(p), ~Zombie(p), NEW phase \in Phases \ {"none"},
         Enter(p, phase)
  PROVE  LiveOrDie
<1> DEFINE r == [proc[p] EXCEPT !.phase = phase]
<1>1. proc[p] \in Process
  BY DEF IInv, TypeOK
<1>2. /\ r \in Process /\ r.phase = phase
      /\ r.kind = proc[p].kind /\ r.node = proc[p].node /\ r.dev = proc[p].dev
  BY <1>1 DEF Process
<1>3. proc' = [proc EXCEPT ![p] = r]
  BY DEF Enter
<1> HIDE DEF r
<1> QED
  BY <1>2, <1>3, OneLives

LEMMA OneIsSignalled ==
  ASSUME IInv, NEW p \in Pids, Exists(p), NEW hup \in BOOLEAN, NEW line \in BOOLEAN,
         proc' = [proc EXCEPT ![p] = [@ EXCEPT !.line = line, !.hup = hup]]
  PROVE  LiveOrDie
<1> DEFINE r == [proc[p] EXCEPT !.line = line, !.hup = hup]
<1>1. proc[p] \in Process /\ proc[p].phase # "none"
  BY DEF IInv, TypeOK, ProcsSound, Exists
<1>2. /\ r \in Process /\ r.phase = proc[p].phase
      /\ r.kind = proc[p].kind /\ r.node = proc[p].node /\ r.dev = proc[p].dev
  BY <1>1 DEF Process
<1>3. proc' = [proc EXCEPT ![p] = r]
  OBVIOUS
<1> HIDE DEF r
<1> QED
  BY <1>1, <1>2, <1>3, OneLives DEF Zombie

LEMMA DeadIs ==
  ASSUME IInv, NEW p \in Pids, NEW stat
  PROVE  \E phase \in {"exit0", "exit1"} :
           Dead(p, stat) = [proc[p] EXCEPT !.phase = phase, !.hup = FALSE, !.line = FALSE]
BY DEF Dead

LEMMA OneDies ==
  ASSUME IInv, NEW p \in Pids, NEW stat, Exists(p), Exit(p, stat)
  PROVE  LiveOrDie /\ child_dead' \in BOOLEAN
<1>1. PICK phase \in {"exit0", "exit1"} :
        Dead(p, stat) = [proc[p] EXCEPT !.phase = phase, !.hup = FALSE, !.line = FALSE]
  BY DeadIs
<1>2. proc[p] \in Process
  BY DEF IInv, TypeOK
<1>3. /\ Dead(p, stat) \in Process /\ Dead(p, stat).phase = phase
      /\ Dead(p, stat).kind = proc[p].kind
      /\ Dead(p, stat).node = proc[p].node /\ Dead(p, stat).dev = proc[p].dev
  BY <1>1, <1>2 DEF Process, Phases
<1>4. LiveOrDie
  BY <1>3, OneLives DEF Exit
<1> QED
  BY <1>4 DEF Exit, set_child_dead

\* Its status is written by the client on the node.
LEMMA OneWrites ==
  ASSUME IInv, NEW p \in Pids, NEW status \in NodeStatus \ {"EMPTY"},
         Running(p), proc[p].node \in Nodes,
         node' = [node EXCEPT ![proc[p].node].status = status]
  PROVE  Written
<1>1. node \in [Nodes -> [status : NodeStatus, pid : Pids \union {NoPid},
                        dev : Devices \union {-1}]]
  BY DEF IInv, TypeOK
<1> QED
  BY <1>1 DEF Written

LEMMA NobodyWrites == IInv /\ UNCHANGED node => Written
BY DEF IInv, TypeOK, Written

LEMMA ChildActs ==
  ASSUME IInv, NEW p \in Pids, Child(p)
  PROVE  /\ LiveOrDie /\ Written /\ UNCHANGED <<device, check_nodes, pc, job>>
         /\ child_dead' \in BOOLEAN
<1> USE SupervisorAssumption
<1>1. /\ child_dead \in BOOLEAN /\ proc \in [Pids -> Process] /\ proc[p] \in Process
      /\ proc[p].hup \in BOOLEAN /\ proc[p].line \in BOOLEAN /\ proc[p].phase \in Phases
  BY DEF IInv, TypeOK, Process
<1>2. /\ \A r \in Pids : r # NoPid
      /\ proc[p].kind = "none" => proc[p].phase = "none"
      /\ proc[p].kind = "client" => proc[p].node \in Nodes
  BY DEF IInv, ProcsSound, NoProcess
<1> "LOGGING_IN" \in NodeStatus \ {"EMPTY"} /\ "ACTIVE" \in NodeStatus \ {"EMPTY"}
  BY DEF NodeStatus
<1>3. CASE ClientLogin(p)
  <2>1. Running(p) /\ proc[p].node \in Nodes
    BY <1>2, <1>3 DEF ClientLogin, Client, Running, Exists, Zombie
  <2>2. LiveOrDie
    BY <1>3, <2>1, OneEnters DEF ClientLogin, Phases, Running
  <2>3. Written
    BY <1>3, <2>1, OneWrites DEF ClientLogin
  <2> QED
    BY <1>1, <1>3, <2>2, <2>3 DEF ClientLogin
<1>4. CASE ClientActive(p)
  <2>1. Running(p) /\ proc[p].node \in Nodes
    BY <1>2, <1>4 DEF ClientActive, Client, Running, Exists, Zombie
  <2>2. LiveOrDie
    BY <1>4, <2>1, OneEnters DEF ClientActive, Phases, Running
  <2>3. Written
    BY <1>4, <2>1, OneWrites DEF ClientActive
  <2> QED
    BY <1>1, <1>4, <2>2, <2>3 DEF ClientActive
<1>5. CASE ClientRelog(p) \/ ClientExec(p) \/ FirstByte(p)
  <2> USE <1>5 DEF ClientRelog, ClientExec, FirstByte, Client, Assistant
  <2>1. Exists(p) /\ ~Zombie(p)
    BY <1>2 DEF Exists, Zombie
  <2>2. LiveOrDie
    BY <2>1, OneEnters DEF Phases
  <2> QED
    BY <1>1, <2>2, NobodyWrites
<1>6. CASE ClientFails(p) \/ ClientLeaves(p) \/ ExtrnEnds(p)
  <2> USE <1>6 DEF ClientFails, ClientLeaves, ExtrnEnds, Client
  <2>1. Exists(p)
    BY <1>2 DEF Exists
  <2> QED
    BY <2>1, OneDies, NobodyWrites
<1>7. CASE ClientHup(p) \/ AssistHup(p)
  <2> USE <1>7 DEF ClientHup, AssistHup
  <2>1. Exists(p)
    BY <1>2 DEF Exists
  <2>2. CASE proc' = [proc EXCEPT ![p].hup = FALSE] /\ UNCHANGED child_dead
    <3>1. proc' = [proc EXCEPT ![p] = [@ EXCEPT !.line = proc[p].line, !.hup = FALSE]]
      BY <1>1, <2>2 DEF Process
    <3>2. LiveOrDie
      BY <1>1, <2>1, <3>1, OneIsSignalled
    <3> QED
      BY <1>1, <2>2, <3>2, NobodyWrites
  <2>3. CASE Exit(p, 0)
    BY <2>1, <2>3, OneDies, NobodyWrites
  <2> QED
    BY <2>2, <2>3
<1>8. CASE CarrierLost(p)
  <2> USE <1>8 DEF CarrierLost
  <2>1. Exists(p) /\ ~Zombie(p) /\ proc[p].phase # "none"
    BY <1>2 DEF Exists, Zombie
  <2>2. proc' = [proc EXCEPT ![p] = [@ EXCEPT !.line = FALSE, !.hup = TRUE]]
    BY <1>1
  <2>3. LiveOrDie
    BY <2>1, <2>2, OneIsSignalled
  <2> QED
    BY <1>1, <2>3, NobodyWrites
<1>9. CASE AssistEnds(p)
  <2> USE <1>9 DEF AssistEnds
  <2> DEFINE r == proc[p].mate
             hung == HungUpBy(p)
  <2>1. r \in Pids \union {NoPid}
    BY <1>1 DEF Process
  <2>2. /\ hung \in [Pids -> Process]
        /\ \A s \in Pids :
             /\ proc[s].kind = "none" => hung[s] = proc[s]
             /\ hung[s].kind = proc[s].kind /\ hung[s].phase = proc[s].phase
             /\ hung[s].node = proc[s].node /\ hung[s].dev = proc[s].dev
    <3>1. CASE ~Running(r)
      BY <1>1, <3>1 DEF HungUpBy
    <3>2. CASE Running(r)
      <4>1. r \in Pids /\ proc[r].kind # "none" /\ proc[r] \in Process
        BY <1>1, <2>1, <3>2 DEF Running, Exists
      <4>2. hung = [proc EXCEPT ![r].hup = TRUE, ![r].line = @ /\ proc[r].mate # p]
        BY <3>2 DEF HungUpBy
      <4>3. PICK b \in BOOLEAN : hung = [proc EXCEPT ![r].hup = TRUE, ![r].line = b]
        <5>1. proc[r].line \in BOOLEAN /\ (proc[r].line /\ proc[r].mate # p) \in BOOLEAN
          BY <4>1 DEF Process
        <5> QED
          BY <1>1, <4>1, <4>2, <5>1
      <4> HIDE DEF hung
      <4> QED
        BY <1>1, <4>1, <4>3 DEF Process
    <3> QED
      BY <3>1, <3>2
  <2>3. PICK phase \in {"exit0", "exit1"} :
          Dead(p, 1) = [proc[p] EXCEPT !.phase = phase, !.hup = FALSE, !.line = FALSE]
    BY DeadIs
  <2>4. /\ Dead(p, 1) \in Process
        /\ Dead(p, 1).kind = proc[p].kind /\ Dead(p, 1).phase = phase
        /\ Dead(p, 1).node = proc[p].node /\ Dead(p, 1).dev = proc[p].dev
    BY <1>1, <2>3 DEF Process, Phases
  <2>5. proc' = [hung EXCEPT ![p] = Dead(p, 1)] /\ proc[p].kind = "assistant"
    BY DEF Assistant
  <2>6. \A s \in Pids : proc[s].kind # "none" => proc[s].phase # "none"
    BY DEF IInv, ProcsSound
  <2> HIDE DEF hung
  <2>7. /\ proc' \in [Pids -> Process] /\ proc'[p] = Dead(p, 1)
        /\ \A s \in Pids \ {p} : proc'[s] = hung[s]
    BY <2>2, <2>4, <2>5
  <2>8. LiveOrDie
    BY <2>2, <2>3, <2>4, <2>5, <2>6, <2>7 DEF LiveOrDie, Zombie
  <2> QED
    BY <2>8, NobodyWrites DEF set_child_dead
<1> QED
  BY <1>3, <1>4, <1>5, <1>6, <1>7, <1>8, <1>9 DEF Child

LEMMA ChildKeeps ==
  ASSUME IInv, NEW p \in Pids, Child(p)
  PROVE  IInv'
BY ChildActs, LivingKeeps
-----------------------------------------------------------------------------
(* The server: steps between its places that leave the tables alone.       *)

Elsewhere == {"top", "crib", "spawn", "poll", "accept", "extrn", "serve"}

\* It may leave a kill loop that has found all there was to find, and a start
\* whose process does not run.
LEMMA GoingOnKeeps ==
  ASSUME IInv, LiveOrDie, UNCHANGED <<node, device>>,
         pc \in Elsewhere \cup {"kill", "assist"}, pc' \in Elsewhere,
         pc = "kill" => NextConcerned = -1,
         \A p \in Pids : pc = "assist" /\ p = job.pid => ~Running(p)',
         job' \in Job, child_dead' \in BOOLEAN, check_nodes' \in BOOLEAN
  PROVE  IInv'
<1> USE SupervisorAssumption DEF Elsewhere
<1>1. TypeOK'
  BY DEF IInv, TypeOK, LiveOrDie, Places
<1>2. ProcsSound'
  BY DEF IInv, ProcsSound, LiveOrDie
<1>3. \A p \in Pids : (Exists(p)' <=> Exists(p)) /\ (Running(p)' => Running(p))
  BY DEF LiveOrDie, Exists, Running
<1>4. NodesSound'
  <2> SUFFICES ASSUME NEW n \in Nodes, node[n].pid # NoPid
               PROVE  /\ node[n].status # "EMPTY"
                      /\ Exists(node[n].pid)' /\ proc'[node[n].pid].node = n
    BY DEF NodesSound
  <2>1. node[n].pid \in Pids
    BY DEF IInv, TypeOK
  <2>2. node[n].status # "EMPTY" /\ Exists(node[n].pid) /\ proc[node[n].pid].node = n
    BY DEF IInv, NodesSound
  <2> QED
    BY <1>3, <2>1, <2>2 DEF LiveOrDie
<1>5. ASSUME pc = "kill", NEW d \in Devices
      PROVE  /\ job.pid \notin {device[d].owner, device[d].assist}
             /\ device[d].status = "TERM" => device[d].term # job.pid
  <2>1. ~Concerned(d)
    BY <1>5, ConcernedFound
  <2>2. job.pid # NoPid
    BY <1>5 DEF IInv, KillSound
  <2>3. device[d].status # "USED" => device[d].owner = NoPid /\ device[d].assist = NoPid
    BY DEF IInv, DevicesSound
  <2> QED
    BY <2>1, <2>2, <2>3 DEF Concerned
<1>6. DevicesSound'
  <2> SUFFICES ASSUME NEW d \in Devices
               PROVE  /\ LET p == device[d].owner
                          IN  p # NoPid => Exists(p)' /\ proc'[p].dev = d
                      /\ LET q == device[d].assist
                          IN  q # NoPid => Exists(q)' /\ proc'[q].kind = "assistant"
    BY DEF IInv, DevicesSound
  <2>1. ~BeingKilled(device[d].owner) /\ ~BeingKilled(device[d].assist)
    BY <1>5 DEF BeingKilled
  <2>2. device[d].owner \in Pids \union {NoPid} /\ device[d].assist \in Pids \union {NoPid}
    BY DEF IInv, TypeOK
  <2> QED
    BY <1>3, <2>1, <2>2 DEF IInv, DevicesSound, LiveOrDie
<1>7. KillSound' /\ StartSound'
  BY DEF KillSound, StartSound
<1>8. Held'
  <2> SUFFICES ASSUME NEW p \in Pids, Running(p)'
               PROVE  /\ proc'[p].node # -1 => node[proc'[p].node].pid = p
                      /\ proc'[p].dev # -1 => device[proc'[p].dev].owner = p
    BY DEF Held
  <2>1. Running(p) /\ ~BeingStarted(p)
    BY <1>3 DEF BeingStarted
  <2> QED
    BY <2>1 DEF IInv, Held, LiveOrDie
<1>9. HeldWithoutCalls'
  BY <1>5 DEF IInv, HeldWithoutCalls, NoCalls
<1> QED
  BY <1>1, <1>2, <1>4, <1>6, <1>7, <1>8, <1>9 DEF IInv

LEMMA Still == IInv /\ UNCHANGED proc => LiveOrDie
BY DEF IInv, TypeOK, ProcsSound, LiveOrDie, Zombie

LEMMA Jobs ==
  ASSUME TypeOK
  PROVE  /\ NoJob \in Job
         /\ \A i \in Devices \union {-1, c_devices_used} : [NoJob EXCEPT !.dev = i] \in Job
         /\ \A i \in Devices \union {-1, c_devices_used} : [job EXCEPT !.dev = i] \in Job
         /\ \A q \in Pids \union {NoPid} : [job EXCEPT !.other = q] \in Job
         /\ \A d \in Devices : d + 1 \in Devices \union {-1, c_devices_used}
         /\ 0 \in Devices \union {-1, c_devices_used}
<1>1. job \in Job /\ NoJob \in Job
  BY DEF TypeOK, NoJob, Job
<1>2. /\ \A d \in Devices : d + 1 \in Devices \union {-1, c_devices_used}
      /\ 0 \in Devices \union {-1, c_devices_used}
  BY SupervisorAssumption DEF Devices
<1> QED
  BY <1>1, <1>2 DEF Job

LEMMA GoOnIs ==
  IInv /\ GoOn => pc' \in Elsewhere /\ job' \in Job /\ check_nodes' \in BOOLEAN
BY Jobs DEF IInv, GoOn, Elsewhere

LEMMA LoopKeeps ==
  ASSUME IInv,
         \/ Top \/ NoneLeft \/ Killed \/ Spawned \/ PollTimesOut \/ PollReturns
         \/ AcceptNothing \/ ExtrnNothing \/ Served
         \/ \E d \in Devices : SpawnFails(d) \/ SpawnNothing(d)
  PROVE  IInv'
<1>1. job \in Job /\ child_dead \in BOOLEAN /\ check_nodes \in BOOLEAN
  BY DEF IInv, TypeOK
<1>2. CASE Top
  <2>1. pc' \in Elsewhere /\ job' \in Job /\ check_nodes' \in BOOLEAN
    BY <1>1, <1>2, GoOnIs DEF Top, Elsewhere
  <2> QED
    BY <1>2, <2>1, Still, GoingOnKeeps DEF Top, Elsewhere
<1>3. CASE NoneLeft
  BY <1>1, <1>3, GoOnIs, Still, GoingOnKeeps DEF NoneLeft, Elsewhere
<1>4. CASE Killed
  BY <1>1, <1>4, Jobs, Still, GoingOnKeeps DEF Killed, Elsewhere, IInv
<1>5. CASE Spawned
  BY <1>1, <1>5, Jobs, Still, GoingOnKeeps DEF Spawned, Elsewhere, IInv
<1>6. CASE PollTimesOut \/ PollReturns
  BY <1>1, <1>6, Still, GoingOnKeeps DEF PollTimesOut, PollReturns, Elsewhere
<1>7. CASE AcceptNothing \/ ExtrnNothing \/ Served
  BY <1>1, <1>7, Still, GoingOnKeeps DEF AcceptNothing, ExtrnNothing, Served, Elsewhere
<1>8. ASSUME NEW d \in Devices, SpawnFails(d) PROVE IInv'
  BY <1>1, <1>8, Jobs, Still, GoingOnKeeps DEF SpawnFails, InSpawnLoop, Elsewhere, IInv
<1>9. ASSUME NEW d \in Devices, SpawnNothing(d) PROVE IInv'
  <2>1. job' \in Job
    BY <1>9, Jobs DEF SpawnNothing, IInv
  <2> QED
    BY <1>1, <1>9, <2>1, Still, GoingOnKeeps DEF SpawnNothing, InSpawnLoop, Elsewhere
<1> QED
  BY <1>2, <1>3, <1>4, <1>5, <1>6, <1>7, <1>8, <1>9

LEMMA AssistFailsKeeps == IInv /\ AssistFails => IInv'
<1> SUFFICES ASSUME IInv, AssistFails PROVE IInv'
  OBVIOUS
<1> USE DEF AssistFails
<1>1. child_dead \in BOOLEAN /\ check_nodes \in BOOLEAN /\ NoJob \in Job
  BY Jobs DEF IInv, TypeOK
<1>2. job.pid \in Pids /\ Exists(job.pid)
  BY DEF IInv, StartSound
<1>3. CASE Running(job.pid)
  <2>1. Exit(job.pid, 0)
    BY <1>3 DEF Exit
  <2>2. LiveOrDie /\ child_dead' \in BOOLEAN
    BY <1>2, <2>1, OneDies
  <2>3. \A p \in Pids : p = job.pid => Zombie(p)'
    <3>1. proc \in [Pids -> Process] /\ proc[job.pid] \in Process
      BY <1>2 DEF IInv, TypeOK
    <3>2. proc'[job.pid] = Dead(job.pid, 0)
      BY <1>2, <3>1, <2>1 DEF Exit
    <3>3. Dead(job.pid, 0).phase = "exit0"
      BY <3>1 DEF Dead, Process
    <3> QED
      BY <3>2, <3>3 DEF Zombie
  <2> QED
    BY <1>1, <2>2, <2>3, GoingOnKeeps DEF Running, Elsewhere
<1>4. CASE ~Running(job.pid)
  <2>1. \A p \in Pids : p = job.pid => ~Running(p)'
    BY <1>4 DEF Running, Exists, Zombie
  <2> QED
    BY <1>1, <1>4, <2>1, Still, GoingOnKeeps DEF Elsewhere
<1> QED
  BY <1>3, <1>4
-----------------------------------------------------------------------------
(* The server: forks.                                                      *)

\* A new process, where there was none.
Born(p) ==
  /\ Free(p) /\ proc' \in [Pids -> Process]
  /\ proc'[p].kind # "none" /\ proc'[p].phase \notin {"none", "exit0", "exit1"}
  /\ proc'[p].kind = "client" => proc'[p].node \in Nodes /\ proc'[p].dev \in Devices
  /\ proc'[p].kind = "assistant" => proc'[p].node = -1 /\ proc'[p].dev = -1
  /\ proc'[p].kind = "extrn" => proc'[p].node \in Nodes /\ proc'[p].dev = -1
  /\ \A s \in Pids \ {p} :
       /\ proc[s].kind = "none" => proc'[s] = proc[s]
       /\ proc'[s].kind = proc[s].kind /\ proc'[s].phase = proc[s].phase
       /\ proc'[s].node = proc[s].node /\ proc'[s].dev = proc[s].dev

\* The kernel gives a new process no number that a table names, so that what
\* the tables say of the others stays true.
LEMMA BornKeeps ==
  ASSUME IInv, NEW p \in Pids, Born(p), UNCHANGED <<node, device>>,
         pc \notin {"kill", "wait"}, pc' \notin {"kill", "wait"}
  PROVE  /\ ProcsSound' /\ NodesSound' /\ DevicesSound' /\ KillSound'
         /\ Unnamed(p)' /\ Running(p)' /\ ~Exists(p)
         /\ \A s \in Pids \ {p} : (Exists(s)' <=> Exists(s)) /\ (Running(s)' <=> Running(s))
<1> USE SupervisorAssumption
<1>1. /\ \A s \in Pids \ {p} : (Exists(s)' <=> Exists(s)) /\ (Running(s)' <=> Running(s))
      /\ ~Exists(p) /\ Running(p)'
  BY DEF Born, Free, Exists, Running, Zombie
<1>2. ProcsSound'
  BY DEF IInv, ProcsSound, Born
<1>3. \A n \in Nodes : node[n].pid # NoPid => node[n].pid \in Pids \ {p} /\ Exists(node[n].pid)
  BY <1>1 DEF IInv, TypeOK, NodesSound
<1>4. NodesSound'
  <2> SUFFICES ASSUME NEW n \in Nodes, node[n].pid # NoPid
               PROVE  /\ node[n].status # "EMPTY"
                      /\ Exists(node[n].pid)' /\ proc'[node[n].pid].node = n
    BY DEF NodesSound
  <2>1. node[n].status # "EMPTY" /\ Exists(node[n].pid) /\ proc[node[n].pid].node = n
    BY DEF IInv, NodesSound
  <2> QED
    BY <1>1, <1>3, <2>1 DEF Born
<1>5. ASSUME NEW d \in Devices, NEW q \in {device[d].owner, device[d].assist}, q # NoPid
      PROVE  q \in Pids \ {p} /\ Exists(q)
  <2>1. q \in Pids
    BY <1>5 DEF IInv, TypeOK
  <2>2. Exists(q)
    BY <1>5 DEF IInv, DevicesSound, BeingKilled
  <2> QED
    BY <1>1, <2>1, <2>2
<1>6. DevicesSound'
  <2> SUFFICES ASSUME NEW d \in Devices
               PROVE  /\ LET q == device[d].owner
                          IN  q # NoPid => Exists(q)' /\ proc'[q].dev = d
                      /\ LET q == device[d].assist
                          IN  q # NoPid => Exists(q)' /\ proc'[q].kind = "assistant"
    BY DEF IInv, DevicesSound
  <2>1. device[d].owner # NoPid => Exists(device[d].owner)' /\ proc'[device[d].owner].dev = d
    BY <1>1, <1>5 DEF IInv, DevicesSound, BeingKilled, Born
  <2>2. device[d].assist # NoPid =>
          Exists(device[d].assist)' /\ proc'[device[d].assist].kind = "assistant"
    BY <1>1, <1>5 DEF IInv, DevicesSound, BeingKilled, Born
  <2> QED
    BY <2>1, <2>2
<1>7. KillSound'
  BY DEF KillSound
<1>8. Unnamed(p)'
  BY <1>3, <1>5 DEF Unnamed
<1> QED
  BY <1>1, <1>2, <1>4, <1>6, <1>7, <1>8

\* A new client or extrn process on an empty node, with a device that is not
\* in use: where the server goes from there, its place in the tables is free.
StartOf(p, n, d) ==
  /\ pc \in Elsewhere /\ UNCHANGED <<node, device, child_dead, check_nodes>>
  /\ Free(p) /\ n \in Nodes /\ node[n].status = "EMPTY"
  /\ job' \in Job /\ job'.dev = d /\ job'.node = n /\ job'.pid = p /\ job'.other = NoPid
  /\ proc' = [proc EXCEPT ![p] = proc'[p]]
  /\ proc'[p] \in Process /\ proc'[p].node = n /\ proc'[p].dev = d

LEMMA StartKeeps ==
  ASSUME IInv, NEW p \in Pids, NEW n \in Nodes, NEW d \in Devices \union {-1},
         StartOf(p, n, d), Born(p), pc' \in {"assist", "register"},
         d # -1 => device[d].status = IF pc' = "assist" THEN "EMPTY" ELSE "UNUSED",
         pc' = "assist" => d # -1
  PROVE  IInv'
<1> USE SupervisorAssumption DEF StartOf, Elsewhere
<1>1. /\ job' \in Job /\ job'.dev = d /\ job'.node = n /\ job'.pid = p /\ job'.other = NoPid
  OBVIOUS
<1>2. TypeOK'
  BY <1>1 DEF IInv, TypeOK, Places, Born
<1>3. /\ ProcsSound' /\ NodesSound' /\ DevicesSound' /\ KillSound'
      /\ Unnamed(p)' /\ Running(p)' /\ ~Exists(p)
      /\ \A s \in Pids \ {p} : (Exists(s)' <=> Exists(s)) /\ (Running(s)' <=> Running(s))
  <2>1. pc \notin {"kill", "wait"} /\ pc' \notin {"kill", "wait"} /\ UNCHANGED <<node, device>>
    OBVIOUS
  <2> QED
    BY <2>1, BornKeeps
<1>4. node[n].pid = NoPid
  BY DEF IInv, NodesSound
<1>5. StartSound'
  BY <1>1, <1>3, <1>4 DEF StartSound, Running
<1>6. Held'
  <2> SUFFICES ASSUME NEW s \in Pids, Running(s)', s # p
               PROVE  /\ proc'[s].node # -1 => node[proc'[s].node].pid = s
                      /\ proc'[s].dev # -1 => device[proc'[s].dev].owner = s
    BY <1>1 DEF Held, BeingStarted
  <2>1. Running(s) /\ ~BeingStarted(s) /\ pc # "wait"
    BY <1>3 DEF BeingStarted
  <2> QED
    BY <2>1 DEF IInv, Held, Born
<1>7. HeldWithoutCalls'
  <2>1. NoCalls' <=> NoCalls
    BY DEF NoCalls
  <2>2. NoCalls => pc' # "assist"
    BY Indices DEF IInv, DevicesSound, NoCalls
  <2>3. NoCalls => \A e \in Devices : device[e].status = "TERM" =>
          \E m \in Nodes : node[m].pid = device[e].term /\ node[m].pid # NoPid
    BY DEF IInv, HeldWithoutCalls
  <2>4. NoCalls => \A m \in Nodes : node[m].status # "EMPTY" => node[m].pid # NoPid
    BY DEF IInv, HeldWithoutCalls
  <2> QED
    BY <1>1, <2>1, <2>2, <2>3, <2>4 DEF IInv, HeldWithoutCalls
<1> QED
  BY <1>2, <1>3, <1>5, <1>6, <1>7 DEF IInv

LEMMA NewClientIs ==
  ASSUME IInv, NEW p \in Pids, NEW n \in Nodes, NEW d \in Devices, Free(p),
         proc' = [proc EXCEPT ![p] = NewClient(n, d)]
  PROVE  /\ Born(p) /\ proc'[p] = NewClient(n, d)
         /\ NewClient(n, d) \in Process
         /\ NewClient(n, d).node = n /\ NewClient(n, d).dev = d
<1>1. /\ NewClient(n, d) \in Process /\ NewClient(n, d).kind = "client"
      /\ NewClient(n, d).phase = "start"
      /\ NewClient(n, d).node = n /\ NewClient(n, d).dev = d
  BY DEF NewClient, NoProcess, Process, Phases
<1>2. proc \in [Pids -> Process]
  BY DEF IInv, TypeOK
<1> QED
  BY <1>1, <1>2 DEF Born

LEMMA SpawnForkKeeps ==
  ASSUME IInv, NEW d \in Devices, NEW p \in Pids, SpawnFork(d, p)
  PROVE  IInv'
<1> DEFINE n == NodeFor(d)
<1>1. n \in Nodes /\ node[n].status = "EMPTY"
  BY EmptyNodeFound DEF SpawnFork, NodeFor, next_empty_node, next_empty_console_node
<1>2. device[d].status = "UNUSED"
  BY WaitingFound DEF SpawnFork, InSpawnLoop, Waiting
<1>3. /\ Free(p) /\ proc' = [proc EXCEPT ![p] = NewClient(n, d)]
      /\ pc = "spawn" /\ pc' = "register"
      /\ UNCHANGED <<node, device, child_dead, check_nodes>>
      /\ job' = [NoJob EXCEPT !.dev = d, !.node = n, !.pid = p]
  BY DEF SpawnFork, InSpawnLoop
<1> HIDE DEF n
<1>4. Born(p) /\ StartOf(p, n, d)
  BY <1>1, <1>3, NewClientIs, ZenonT(30) DEF StartOf, Elsewhere, NoJob, Job
<1> QED
  BY <1>1, <1>2, <1>3, <1>4, StartKeeps

LEMMA AcceptForkKeeps ==
  ASSUME IInv, NEW p \in Pids, AcceptFork(p)
  PROVE  IInv'
<1> DEFINE n == next_empty_node
           d == EmptyDevice
<1>1. n \in Nodes /\ node[n].status = "EMPTY"
  BY EmptyNodeFound DEF AcceptFork, next_empty_node
<1>2. d \in Devices /\ device[d].status = "EMPTY"
  BY EmptyDeviceFound DEF AcceptFork
<1>3. /\ Free(p) /\ proc' = [proc EXCEPT ![p] = NewClient(n, d)]
      /\ pc = "accept" /\ pc' = "assist" /\ d # -1
      /\ UNCHANGED <<node, device, child_dead, check_nodes>>
      /\ job' = [NoJob EXCEPT !.dev = d, !.node = n, !.pid = p]
  BY DEF AcceptFork
<1> HIDE DEF n, d
<1>4. Born(p) /\ StartOf(p, n, d)
  BY <1>1, <1>2, <1>3, NewClientIs, ZenonT(30) DEF StartOf, Elsewhere, NoJob, Job
<1> QED
  BY <1>1, <1>2, <1>3, <1>4, StartKeeps

LEMMA ExtrnForkKeeps ==
  ASSUME IInv, NEW p \in Pids, ExtrnFork(p)
  PROVE  IInv'
<1> DEFINE n == next_empty_node
           r == [NoProcess EXCEPT !.kind = "extrn", !.phase = "copy", !.node = n]
<1>1. n \in Nodes /\ node[n].status = "EMPTY"
  BY EmptyNodeFound DEF ExtrnFork, next_empty_node
<1>2. /\ r \in Process /\ r.kind = "extrn" /\ r.phase = "copy"
      /\ r.node = n /\ r.dev = -1
  BY <1>1 DEF NoProcess, Process, Phases
<1>3. /\ proc \in [Pids -> Process] /\ proc' = [proc EXCEPT ![p] = r] /\ Free(p)
      /\ pc = "extrn" /\ pc' = "register"
      /\ UNCHANGED <<node, device, child_dead, check_nodes>>
      /\ job' = [NoJob EXCEPT !.node = n, !.pid = p]
  BY DEF ExtrnFork, IInv, TypeOK
<1> HIDE DEF n, r
<1>4. job' \in Job /\ job'.dev = -1 /\ job'.node = n /\ job'.pid = p /\ job'.other = NoPid
  BY <1>1, <1>3 DEF NoJob, Job
<1>5. Born(p) /\ StartOf(p, n, -1)
  BY <1>1, <1>2, <1>3, <1>4 DEF Born, StartOf, Elsewhere
<1> QED
  BY <1>1, <1>3, <1>5, StartKeeps
\* The assistant joins the client in the server's hand.
LEMMA AssistForkKeeps ==
  ASSUME IInv, NEW q \in Pids, AssistFork(q)
  PROVE  IInv'
<1> USE SupervisorAssumption
<1> DEFINE r == [NoProcess EXCEPT !.kind = "assistant", !.phase = "greet",
                                  !.mate = job.pid, !.line = TRUE]
<1>1. /\ pc = "assist" /\ pc' = "register" /\ Free(q) /\ job' = [job EXCEPT !.other = q]
      /\ UNCHANGED <<node, device, child_dead, check_nodes>>
      /\ proc' = [proc EXCEPT ![q] = r, ![job.pid].mate = q]
  BY DEF AssistFork
<1>2. /\ job.pid \in Pids /\ Exists(job.pid) /\ job.pid # q /\ job \in Job
      /\ proc \in [Pids -> Process] /\ proc[job.pid] \in Process
  BY <1>1 DEF IInv, StartSound, TypeOK, Free, Exists
<1>3. /\ r \in Process /\ r.kind = "assistant" /\ r.phase = "greet"
      /\ r.node = -1 /\ r.dev = -1
  BY <1>2 DEF NoProcess, Process, Phases
<1> HIDE DEF r
<1>4. /\ proc' \in [Pids -> Process] /\ proc'[q] = r
      /\ proc'[job.pid] = [proc[job.pid] EXCEPT !.mate = q]
      /\ \A s \in Pids \ {q, job.pid} : proc'[s] = proc[s]
  <2>1. [proc[job.pid] EXCEPT !.mate = q] \in Process
    BY <1>2 DEF Process
  <2> QED
    BY <1>1, <1>2, <1>3, <2>1
<1>5. /\ proc'[job.pid].kind = proc[job.pid].kind /\ proc'[job.pid].phase = proc[job.pid].phase
      /\ proc'[job.pid].node = proc[job.pid].node /\ proc'[job.pid].dev = proc[job.pid].dev
  BY <1>2, <1>4 DEF Process
<1>6. Born(q)
  BY <1>1, <1>2, <1>3, <1>4, <1>5 DEF Born, Exists
<1>7. /\ ProcsSound' /\ NodesSound' /\ DevicesSound' /\ KillSound'
      /\ Unnamed(q)' /\ Running(q)' /\ ~Exists(q)
      /\ \A s \in Pids \ {q} : (Exists(s)' <=> Exists(s)) /\ (Running(s)' <=> Running(s))
  BY <1>1, <1>6, BornKeeps
<1>8. /\ job' \in Job /\ job'.pid = job.pid /\ job'.node = job.node /\ job'.dev = job.dev
      /\ job'.other = q
  BY <1>1, <1>2 DEF Job
<1>9. TypeOK'
  BY <1>1, <1>4, <1>8 DEF IInv, TypeOK, Places
<1>10. StartSound'
  <2>1. /\ Unnamed(job.pid) /\ job.node \in Nodes /\ node[job.node].pid = NoPid
        /\ proc[job.pid].node = job.node /\ proc[job.pid].dev = job.dev
        /\ job.dev \in Devices /\ device[job.dev].status = "EMPTY"
    BY <1>1 DEF IInv, StartSound
  <2>2. Unnamed(job.pid)'
    BY <1>1, <1>8, <2>1 DEF Unnamed
  <2>3. Exists(job.pid)' /\ Exists(q)'
    BY <1>2, <1>7, <1>8 DEF Running
  <2> QED
    BY <1>1, <1>2, <1>3, <1>4, <1>5, <1>7, <1>8, <2>1, <2>2, <2>3, Indices, SMTT(30)
       DEF StartSound, Unnamed
<1>11. Held'
  <2>1. SUFFICES ASSUME NEW s \in Pids, Running(s)'
                 PROVE  /\ proc'[s].node # -1 =>
                             node'[proc'[s].node].pid = s \/ BeingStarted(s)'
                        /\ proc'[s].dev # -1 =>
                             device'[proc'[s].dev].owner = s \/ BeingStarted(s)'
    BY DEF Held
  <2>2. CASE s = q
    BY <2>2, <1>3, <1>4
  <2>3. CASE s # q
    <3>1. Running(s)
      BY <2>1, <2>3, <1>7
    <3>2. proc'[s].node = proc[s].node /\ proc'[s].dev = proc[s].dev
      BY <2>3, <1>4, <1>5
    <3>3. /\ proc[s].node # -1 => node[proc[s].node].pid = s \/ s = job.pid
          /\ proc[s].dev # -1 => device[proc[s].dev].owner = s \/ s = job.pid
      BY <3>1, <1>1 DEF IInv, Held, BeingStarted
    <3>4. s = job.pid => BeingStarted(s)'
      BY <1>1, <1>8 DEF BeingStarted
    <3> QED
      BY <3>2, <3>3, <3>4, <1>1
  <2> QED
    BY <2>2, <2>3
<1>12. HeldWithoutCalls'
  BY <1>1 DEF IInv, HeldWithoutCalls, NoCalls
<1> QED
  BY <1>7, <1>9, <1>10, <1>11, <1>12 DEF IInv
-----------------------------------------------------------------------------
(* The server: the parent's half of a fork.                                *)

\* What it has in hand goes into the tables: the device, if there is one, is
\* used by the process and its assistant.
Registered ==
  /\ pc = "register" /\ pc' \in Elsewhere
  /\ new_node(job.node, job.pid, job.dev)
  /\ job' \in Job /\ UNCHANGED <<proc, child_dead, check_nodes>>
  /\ \/ job.dev = -1 /\ job.other = NoPid /\ UNCHANGED device
     \/ /\ job.dev # -1
        /\ device' \in [Devices ->
             [status : DeviceStatus, type : {"DIRECT", "MODEM", "SERIAL", "TELNET"},
              works : BOOLEAN, fork_fails : BOOLEAN,
              owner : Pids \union {NoPid}, term : Pids \union {NoPid},
              assist : Pids \union {NoPid}, retries : 0 .. MAX_RETRIES]]
        /\ \A d \in Devices \ {job.dev} : device'[d] = device[d]
        /\ device'[job.dev].status = "USED" /\ device'[job.dev].owner = job.pid
        /\ device'[job.dev].assist = job.other /\ device'[job.dev].retries < MAX_RETRIES
        /\ \/ /\ device'[job.dev].type = device[job.dev].type
              /\ device[job.dev].status = "UNUSED"
           \/ /\ device'[job.dev].type = "TELNET"
              /\ device[job.dev].type \in {"SERIAL", "TELNET"}

LEMMA RegisteredKeeps ==
  ASSUME IInv, Registered
  PROVE  IInv'
<1> USE SupervisorAssumption
<1>1. /\ job.pid \in Pids /\ Exists(job.pid) /\ Unnamed(job.pid)
      /\ job.node \in Nodes /\ node[job.node].pid = NoPid
      /\ proc[job.pid].node = job.node /\ proc[job.pid].dev = job.dev
      /\ job.dev # -1 => job.dev \in Devices /\ device[job.dev].status # "USED"
      /\ job.other # NoPid => /\ job.other \in Pids /\ Exists(job.other)
                              /\ Unnamed(job.other) /\ proc[job.other].kind = "assistant"
  BY DEF IInv, StartSound, Registered
<1>2. /\ pc = "register" /\ pc' \notin {"kill", "wait", "assist", "register"}
      /\ UNCHANGED <<proc, child_dead, check_nodes>>
  BY DEF Registered, Elsewhere
<1>3. job.dev \in Devices \union {-1} /\ NewNode(job.pid, job.dev) \in
        [status : NodeStatus, pid : Pids \union {NoPid}, dev : Devices \union {-1}]
  BY <1>1 DEF NewNode, NodeStatus
<1>4. /\ node' \in [Nodes -> [status : NodeStatus, pid : Pids \union {NoPid},
                            dev : Devices \union {-1}]]
      /\ node'[job.node].status = "IDLE" /\ node'[job.node].pid = job.pid
      /\ \A n \in Nodes \ {job.node} : node'[n] = node[n]
  BY <1>1, <1>3 DEF IInv, TypeOK, Registered, new_node, NewNode
<1>5. TypeOK'
  BY <1>2, <1>4 DEF IInv, TypeOK, Registered, Elsewhere, Places
<1>6. ProcsSound'
  BY <1>2 DEF IInv, ProcsSound
<1>7. \A p : (Exists(p)' <=> Exists(p)) /\ (Running(p)' <=> Running(p))
  BY <1>2 DEF Exists, Running, Zombie
<1>8. NodesSound'
  BY <1>1, <1>2, <1>4, <1>7 DEF IInv, NodesSound, Exists
<1>9. \A d \in Devices : d # job.dev => device'[d] = device[d]
  BY DEF Registered
<1>10. \A d \in Devices : d = job.dev =>
         /\ device[d].owner = NoPid /\ device[d].assist = NoPid
         /\ device[d].type \in {"DIRECT", "MODEM"} => device'[d].type = device[d].type
         /\ device[d].type \notin {"DIRECT", "MODEM"} => device'[d].type \notin {"DIRECT", "MODEM"}
         /\ device'[d].status = "USED" /\ device'[d].owner = job.pid
         /\ device'[d].assist = job.other /\ device'[d].retries < MAX_RETRIES
         /\ device'[d].type # "SERIAL"
  BY <1>1, Indices DEF IInv, DevicesSound, Registered
<1>11. DevicesSound'
  <2> SUFFICES ASSUME NEW d \in Devices
               PROVE  /\ device'[d].status # "USED" =>
                           device'[d].owner = NoPid /\ device'[d].assist = NoPid
                      /\ device'[d].status # "OFF" => device'[d].retries < MAX_RETRIES
                      /\ device'[d].type = "SERIAL" => device'[d].status = "EMPTY"
                      /\ device'[d].status = "EMPTY" => device'[d].type \in {"SERIAL", "TELNET"}
                      /\ device'[d].owner # NoPid =>
                           Exists(device[d].owner)' /\ proc[device'[d].owner].dev = d
                      /\ device'[d].assist # NoPid =>
                           Exists(device[d].assist)' /\ proc[device'[d].assist].kind = "assistant"
                      /\ \A e \in Devices \ {d} :
                           device'[d].assist # NoPid => device'[e].assist # device'[d].assist
    BY <1>2 DEF DevicesSound
  <2>1. CASE d = job.dev
    <3>1. \A e \in Devices \ {d} : job.other # NoPid => device'[e].assist # job.other
      BY <1>1, <1>9, <2>1 DEF Unnamed
    <3> QED
      BY <1>1, <1>2, <1>10, <2>1, <3>1 DEF Exists
  <2>2. CASE d # job.dev
    <3>1. device'[d] = device[d]
      BY <1>9, <2>2
    <3>2. ASSUME NEW e \in Devices \ {d}, device[d].assist # NoPid
          PROVE  device'[e].assist # device[d].assist
      <4>1. CASE e = job.dev
        BY <1>1, <1>10, <3>2, <4>1 DEF Unnamed
      <4>2. CASE e # job.dev
        BY <1>9, <3>2, <4>2 DEF IInv, DevicesSound
      <4> QED
        BY <4>1, <4>2
    <3> QED
      BY <1>2, <3>1, <3>2 DEF IInv, DevicesSound, BeingKilled, Exists
  <2> QED
    BY <2>1, <2>2
<1>12. KillSound' /\ StartSound'
  BY <1>2 DEF KillSound, StartSound
<1>13. Held'
  <2> SUFFICES ASSUME NEW p \in Pids, Running(p)
               PROVE  /\ proc[p].node # -1 => node'[proc[p].node].pid = p
                      /\ proc[p].dev # -1 => device'[proc[p].dev].owner = p
    BY <1>2, <1>7 DEF Held
  <2>1. CASE p = job.pid
    BY <1>1, <1>4, <1>10, <2>1
  <2>2. CASE p # job.pid
    <3>1. /\ proc[p].node # -1 => node[proc[p].node].pid = p
          /\ proc[p].dev # -1 => device[proc[p].dev].owner = p
      BY <1>2, <2>2 DEF IInv, Held, BeingStarted
    <3>2. proc[p].node \in Nodes \union {-1} /\ proc[p].dev \in Devices \union {-1} /\ p # NoPid
      BY DEF IInv, TypeOK, Process
    <3> QED
      BY <1>1, <1>4, <1>9, <1>10, <3>1, <3>2
  <2> QED
    BY <2>1, <2>2
<1>14. HeldWithoutCalls'
  <2>1. NoCalls' <=> NoCalls
    BY <1>9, <1>10 DEF NoCalls
  <2> SUFFICES ASSUME NoCalls
               PROVE  /\ \A d \in Devices : device'[d].assist = NoPid
                      /\ \A n \in Nodes : node'[n].status # "EMPTY" => node'[n].pid # NoPid
                      /\ \A d \in Devices : device'[d].status = "TERM" =>
                           \E n \in Nodes : /\ node'[n].pid = device'[d].term
                                           /\ node'[n].pid # NoPid
    BY <1>2, <2>1 DEF HeldWithoutCalls
  <2>2. job.other = NoPid
    BY <1>2 DEF IInv, HeldWithoutCalls
  <2>3. \A d \in Devices : device'[d].assist = NoPid
    BY <1>9, <1>10, <2>2 DEF IInv, HeldWithoutCalls
  <2>4. \A n \in Nodes : node'[n].status # "EMPTY" => node'[n].pid # NoPid
    BY <1>1, <1>2, <1>4 DEF IInv, HeldWithoutCalls
  <2>5. ASSUME NEW d \in Devices, device'[d].status = "TERM"
        PROVE  \E n \in Nodes : node'[n].pid = device'[d].term /\ node'[n].pid # NoPid
    <3>1. device'[d] = device[d]
      BY <1>9, <1>10, <2>5
    <3>2. PICK n \in Nodes : node[n].pid = device[d].term /\ node[n].pid # NoPid
      BY <1>2, <2>5, <3>1 DEF IInv, HeldWithoutCalls
    <3>3. n # job.node
      BY <1>1, <3>2
    <3> QED
      BY <1>4, <3>1, <3>2, <3>3
  <2> QED
    BY <2>3, <2>4, <2>5
<1> QED
  BY <1>5, <1>6, <1>8, <1>11, <1>12, <1>13, <1>14 DEF IInv
\* What NewDevice leaves of the device, and what it fills in.
LEMMA NewDeviceIs ==
  ASSUME IInv, NEW d \in Devices, NEW p \in Pids \union {NoPid},
         NEW q \in Pids \union {NoPid}
  PROVE  LET r == NewDevice(d, p, q)
         IN  /\ r \in [status : DeviceStatus, type : {"DIRECT", "MODEM", "SERIAL", "TELNET"},
                       works : BOOLEAN, fork_fails : BOOLEAN,
                       owner : Pids \union {NoPid}, term : Pids \union {NoPid},
                       assist : Pids \union {NoPid}, retries : 0 .. MAX_RETRIES]
             /\ r.status = "USED" /\ r.owner = p /\ r.assist = q
             /\ r.retries = device[d].retries /\ r.type = device[d].type
BY ZenonT(30) DEF IInv, TypeOK, NewDevice, DeviceStatus

LEMMA RegisterKeeps ==
  ASSUME IInv, RegisterSpawned \/ RegisterCall \/ RegisterExtrn
  PROVE  IInv'
<1> USE SupervisorAssumption
<1>1. /\ pc = "register" /\ NoJob \in Job /\ job.pid \in Pids
      /\ job.other \in Pids \union {NoPid}
      /\ job.dev # -1 => job.dev \in Devices
  BY Jobs DEF IInv, TypeOK, StartSound, Job, RegisterSpawned, RegisterCall, RegisterExtrn
<1>2. CASE RegisterSpawned
  <2>1. job.dev \in Devices /\ device[job.dev].status = "UNUSED"
    BY <1>1, <1>2 DEF IInv, StartSound, RegisterSpawned
  <2>2. device[job.dev].retries < MAX_RETRIES
    BY <2>1 DEF IInv, DevicesSound
  <2>3. job' \in Job
    BY <1>2, <2>1, Jobs DEF RegisterSpawned, IInv
  <2>4. device \in [Devices ->
             [status : DeviceStatus, type : {"DIRECT", "MODEM", "SERIAL", "TELNET"},
              works : BOOLEAN, fork_fails : BOOLEAN,
              owner : Pids \union {NoPid}, term : Pids \union {NoPid},
              assist : Pids \union {NoPid}, retries : 0 .. MAX_RETRIES]]
    BY DEF IInv, TypeOK
  <2>5. /\ device' = [device EXCEPT ![job.dev] = NewDevice(job.dev, job.pid, NoPid)]
        /\ job.other = NoPid /\ job.dev # -1
    BY <1>2 DEF RegisterSpawned
  <2>6. Registered
    BY <1>1, <1>2, <2>1, <2>2, <2>3, <2>4, <2>5, NewDeviceIs
    DEF RegisterSpawned, Registered, Elsewhere
  <2> QED
    BY <2>6, RegisteredKeeps
<1>3. CASE RegisterCall
  <2> DEFINE r == NewDevice(job.dev, job.pid, job.other)
             s == [r EXCEPT !.type = "TELNET", !.retries = 0]
  <2>1. job.dev \in Devices /\ device[job.dev].status = "EMPTY"
    BY <1>1, <1>3 DEF IInv, StartSound, RegisterCall
  <2>2. device[job.dev].type \in {"SERIAL", "TELNET"}
    BY <2>1 DEF IInv, DevicesSound
  <2>3. /\ r \in [status : DeviceStatus, type : {"DIRECT", "MODEM", "SERIAL", "TELNET"},
                  works : BOOLEAN, fork_fails : BOOLEAN,
                  owner : Pids \union {NoPid}, term : Pids \union {NoPid},
                  assist : Pids \union {NoPid}, retries : 0 .. MAX_RETRIES]
        /\ r.status = "USED" /\ r.owner = job.pid /\ r.assist = job.other
    BY <1>1, <2>1, NewDeviceIs
  <2>4. /\ device' = [device EXCEPT ![job.dev] = s]
        /\ job.dev # -1
    BY <1>3 DEF RegisterCall
  <2> HIDE DEF r
  <2>5. /\ s \in [status : DeviceStatus, type : {"DIRECT", "MODEM", "SERIAL", "TELNET"},
                  works : BOOLEAN, fork_fails : BOOLEAN,
                  owner : Pids \union {NoPid}, term : Pids \union {NoPid},
                  assist : Pids \union {NoPid}, retries : 0 .. MAX_RETRIES]
        /\ s.status = "USED" /\ s.owner = job.pid /\ s.assist = job.other
        /\ s.retries = 0 /\ s.type = "TELNET"
    <3>1. 0 \in 0 .. MAX_RETRIES
      OBVIOUS
    <3> QED
      BY ONLY <2>3, <3>1
  <2> HIDE DEF s
  <2>6. device \in [Devices ->
             [status : DeviceStatus, type : {"DIRECT", "MODEM", "SERIAL", "TELNET"},
              works : BOOLEAN, fork_fails : BOOLEAN,
              owner : Pids \union {NoPid}, term : Pids \union {NoPid},
              assist : Pids \union {NoPid}, retries : 0 .. MAX_RETRIES]]
    BY DEF IInv, TypeOK
  <2>7. /\ new_node(job.node, job.pid, job.dev)
        /\ pc' = "extrn" /\ job' = NoJob
        /\ UNCHANGED <<proc, child_dead, check_nodes>>
    BY <1>3 DEF RegisterCall
  <2>8. Registered
    BY <1>1, <2>1, <2>2, <2>4, <2>5, <2>6, <2>7 DEF Registered, Elsewhere
  <2> QED
    BY <2>8, RegisteredKeeps
<1>4. CASE RegisterExtrn
  <2>1. job.other = NoPid
    BY <1>1, <1>4, Indices DEF IInv, StartSound, RegisterExtrn
  <2>2. Registered
    BY <1>1, <1>4, <2>1 DEF RegisterExtrn, Registered, Elsewhere
  <2> QED
    BY <2>2, RegisteredKeeps
<1> QED
  BY <1>2, <1>3, <1>4
-----------------------------------------------------------------------------
(* The server: the devices nobody uses.                                    *)

DeviceRecord ==
  [status : DeviceStatus, type : {"DIRECT", "MODEM", "SERIAL", "TELNET"},
   works : BOOLEAN, fork_fails : BOOLEAN,
   owner : Pids \union {NoPid}, term : Pids \union {NoPid},
   assist : Pids \union {NoPid}, retries : 0 .. MAX_RETRIES]

\* One device is switched on or off or lent to a user or taken back, or its
\* retries are forgotten.
Adjusted(d) ==
  /\ pc \in {"kill", "serve"}
  /\ UNCHANGED <<node, proc, child_dead, pc, job>> /\ check_nodes' \in BOOLEAN
  /\ device' \in [Devices -> DeviceRecord]
  /\ \A e \in Devices \ {d} : device'[e] = device[e]
  /\ device'[d].owner = device[d].owner /\ device'[d].assist = device[d].assist
  /\ device'[d].type = device[d].type
  /\ device'[d].status # device[d].status =>
       /\ device[d].status \in {"UNUSED", "OFF", "TERM"}
       /\ device'[d].status \in {"UNUSED", "OFF", "TERM"}
  /\ device'[d].retries < MAX_RETRIES
  /\ device'[d].status = "TERM" =>
       \/ device[d].status = "TERM" /\ device'[d].term = device[d].term
       \/ \E n \in Nodes : node[n].status = "ACTIVE" /\ node[n].pid = device'[d].term
                         /\ pc = "serve"

LEMMA AdjustedKeeps ==
  ASSUME IInv, NEW d \in Devices, Adjusted(d)
  PROVE  IInv'
<1> USE SupervisorAssumption
<1>1. TypeOK'
  BY DEF IInv, TypeOK, Adjusted, DeviceRecord
<1>2. \A p : (Exists(p)' <=> Exists(p)) /\ (Running(p)' <=> Running(p))
  BY DEF Adjusted, Exists, Running, Zombie
<1>3. ProcsSound' /\ NodesSound'
  BY DEF IInv, ProcsSound, NodesSound, Adjusted, Exists
<1>4. \A e \in Devices :
        /\ device'[e].owner = device[e].owner /\ device'[e].assist = device[e].assist
        /\ device'[e].type = device[e].type
        /\ device'[e].status # device[e].status =>
             /\ device[e].status \in {"UNUSED", "OFF", "TERM"}
             /\ device'[e].status \in {"UNUSED", "OFF", "TERM"}
        /\ device'[e].status # "OFF" => device'[e].retries < MAX_RETRIES
  BY DEF IInv, DevicesSound, Adjusted
<1>5. DevicesSound'
  BY <1>2, <1>4 DEF IInv, DevicesSound, Adjusted, BeingKilled
<1>6. \A p : Unnamed(p)' <=> Unnamed(p)
  BY <1>4 DEF Unnamed, Adjusted
<1>7. KillSound' /\ StartSound'
  BY <1>2, <1>6 DEF IInv, KillSound, StartSound, Adjusted
<1>8. Held'
  <2> SUFFICES ASSUME NEW p \in Pids, Running(p)
               PROVE  /\ proc[p].node # -1 => node[proc[p].node].pid = p
                      /\ proc[p].dev # -1 => device'[proc[p].dev].owner = p
    BY <1>2 DEF Held, Adjusted
  <2>1. /\ proc[p].node # -1 => node[proc[p].node].pid = p
        /\ proc[p].dev # -1 => device[proc[p].dev].owner = p
    BY DEF IInv, Held, Adjusted, BeingStarted
  <2>2. proc[p].dev \in Devices \union {-1}
    BY DEF IInv, TypeOK, Process
  <2> QED
    BY <1>4, <2>1, <2>2
<1>9. HeldWithoutCalls'
  <2>1. NoCalls' <=> NoCalls
    BY <1>4 DEF NoCalls
  <2> SUFFICES ASSUME NoCalls, NEW e \in Devices, device'[e].status = "TERM"
               PROVE  \/ \E n \in Nodes : node[n].pid = device'[e].term /\ node[n].pid # NoPid
                      \/ pc = "kill" /\ device'[e].term = job.pid
    BY <1>4, <2>1 DEF IInv, HeldWithoutCalls, Adjusted
  <2>2. CASE device[e].status = "TERM" /\ device'[e].term = device[e].term
    BY <2>2 DEF IInv, HeldWithoutCalls
  <2>3. CASE \E n \in Nodes : node[n].status = "ACTIVE" /\ node[n].pid = device'[e].term
                              /\ pc = "serve"
    BY <2>3 DEF IInv, HeldWithoutCalls
  <2> QED
    BY <2>2, <2>3 DEF Adjusted
<1> QED
  BY <1>1, <1>3, <1>5, <1>7, <1>8, <1>9 DEF IInv

LEMMA MessageKeeps ==
  ASSUME IInv, NEW d \in Devices,
         \/ KillTerm(d)
         \/ \E n \in Nodes : Term(n, d) \/ Endterm(n, d)
         \/ \E n \in Nodes, on \in BOOLEAN : force_message(n, d, on)
  PROVE  IInv'
<1> USE SupervisorAssumption
<1>1. /\ device \in [Devices -> DeviceRecord] /\ device[d] \in DeviceRecord
      /\ check_nodes \in BOOLEAN /\ node \in [Nodes -> [status : NodeStatus,
           pid : Pids \union {NoPid}, dev : Devices \union {-1}]]
      /\ device[d].status # "OFF" => device[d].retries < MAX_RETRIES
      /\ \A n \in Nodes : node[n].pid \in Pids \union {NoPid}
  BY DEF IInv, TypeOK, DeviceRecord, DevicesSound
<1>6. 0 \in 0 .. MAX_RETRIES /\ 0 < MAX_RETRIES
  OBVIOUS
<1>2. CASE KillTerm(d)
  <2>1. [device[d] EXCEPT !.status = "UNUSED"] \in DeviceRecord
    BY <1>1, <1>6 DEF DeviceRecord, DeviceStatus
  <2>2. Adjusted(d)
    BY <1>1, <1>2, <2>1 DEF KillTerm, InKillLoop, Adjusted, DeviceRecord
  <2> QED
    BY <2>2, AdjustedKeeps
<1>3. ASSUME NEW n \in Nodes, Term(n, d) PROVE IInv'
  <2>1. device' = [device EXCEPT ![d] =
          [device[d] EXCEPT !.status = "TERM", !.term = node[n].pid, !.retries = 0]]
    BY <1>1, <1>3 DEF Term, DeviceRecord
  <2>2. [device[d] EXCEPT !.status = "TERM", !.term = node[n].pid, !.retries = 0]
          \in DeviceRecord
    BY <1>1, <1>6 DEF DeviceRecord, DeviceStatus
  <2>3. /\ pc = "serve" /\ node[n].status = "ACTIVE"
        /\ device[d].status \in {"UNUSED", "OFF"}
        /\ UNCHANGED <<node, proc, child_dead, check_nodes, pc, job>>
    BY <1>3 DEF Term, Sender
  <2>4. /\ device' \in [Devices -> DeviceRecord]
        /\ \A e \in Devices \ {d} : device'[e] = device[e]
    BY <1>1, <2>1, <2>2
  <2>5. /\ device'[d].status = "TERM" /\ device'[d].term = node[n].pid
        /\ device'[d].retries = 0 /\ device'[d].owner = device[d].owner
        /\ device'[d].assist = device[d].assist /\ device'[d].type = device[d].type
    BY <1>1, <2>1 DEF DeviceRecord
  <2>6. Adjusted(d)
    BY <1>1, <1>6, <2>3, <2>4, <2>5 DEF Adjusted
  <2> QED
    BY <2>6, AdjustedKeeps
<1>4. ASSUME NEW n \in Nodes, Endterm(n, d) PROVE IInv'
  <2>1. device' = [device EXCEPT ![d] =
          [device[d] EXCEPT !.status = "UNUSED", !.term = NoPid, !.retries = 0]]
    BY <1>1, <1>4 DEF Endterm, DeviceRecord
  <2>2. [device[d] EXCEPT !.status = "UNUSED", !.term = NoPid, !.retries = 0]
          \in DeviceRecord
    BY <1>1, <1>6 DEF DeviceRecord, DeviceStatus
  <2>3. Adjusted(d)
    BY <1>1, <1>4, <1>6, <2>1, <2>2 DEF Endterm, Sender, Adjusted, DeviceRecord
  <2> QED
    BY <2>3, AdjustedKeeps
<1>5. ASSUME NEW n \in Nodes, NEW on \in BOOLEAN, force_message(n, d, on) PROVE IInv'
  <2> DEFINE status == CASE on /\ device[d].status = "OFF"     -> "UNUSED"
                         [] ~on /\ device[d].status = "UNUSED" -> "OFF"
                         [] OTHER                              -> device[d].status
  <2>1. device' = [device EXCEPT ![d] = [device[d] EXCEPT !.status = status, !.retries = 0]]
    BY <1>1, <1>5 DEF force_message, DeviceRecord
  <2>2. /\ status \in DeviceStatus
        /\ status # device[d].status =>
             device[d].status \in {"UNUSED", "OFF"} /\ status \in {"UNUSED", "OFF"}
    BY <1>1, <1>6 DEF DeviceRecord, DeviceStatus
  <2> HIDE DEF status
  <2>3. [device[d] EXCEPT !.status = status, !.retries = 0] \in DeviceRecord
    BY <1>1, <1>6, <2>2 DEF DeviceRecord
  <2>4. /\ pc = "serve" /\ check_nodes' = TRUE
        /\ UNCHANGED <<node, proc, child_dead, pc, job>>
    BY <1>5 DEF force_message, Sender
  <2>5. /\ device' \in [Devices -> DeviceRecord]
        /\ \A e \in Devices \ {d} : device'[e] = device[e]
    BY <1>1, <2>1, <2>3
  <2>6. /\ device'[d].status = status /\ device'[d].term = device[d].term
        /\ device'[d].retries = 0 /\ device'[d].owner = device[d].owner
        /\ device'[d].assist = device[d].assist /\ device'[d].type = device[d].type
    BY <1>1, <2>1 DEF DeviceRecord
  <2>7. Adjusted(d)
    BY <1>6, <2>2, <2>4, <2>5, <2>6 DEF Adjusted
  <2> QED
    BY <2>7, AdjustedKeeps
<1> QED
  BY <1>2, <1>3, <1>4, <1>5
-----------------------------------------------------------------------------
(* The server: reaping, and what a death takes with it.                    *)

\* One process is waited for: what the tables said of others stays true.
LEMMA ReapedIs ==
  ASSUME IInv, NEW p \in Pids, Zombie(p),
         proc' = [proc EXCEPT ![p] = NoProcess]
  PROVE  /\ proc' \in [Pids -> Process] /\ Exists(p)
         /\ ~Exists(p)' /\ ~Running(p)' /\ ~Running(p)
         /\ \A s \in Pids \ {p} : proc'[s] = proc[s]
         /\ ProcsSound'
<1>1. NoProcess \in Process
  BY DEF NoProcess, Process, Phases
<1>2. /\ proc' \in [Pids -> Process] /\ proc'[p] = NoProcess
      /\ \A s \in Pids \ {p} : proc'[s] = proc[s]
  BY <1>1 DEF IInv, TypeOK
<1>3. Exists(p)
  <2>1. proc[p].kind = "none" => proc[p] = NoProcess
    BY DEF IInv, ProcsSound
  <2>2. NoProcess.phase = "none"
    BY DEF NoProcess
  <2> QED
    BY <2>1, <2>2, SupervisorAssumption DEF Zombie, Exists
<1>4. NoProcess.kind = "none"
  BY DEF NoProcess
<1>5. ~Exists(p)' /\ ~Running(p)' /\ ~Running(p)
  BY <1>2, <1>4 DEF Exists, Running, Zombie
<1>6. ProcsSound'
  BY <1>2, <1>4 DEF IInv, ProcsSound
<1> QED
  BY <1>2, <1>3, <1>5, <1>6

\* clear_node_data on the nodes of a process: afterwards none has it.
LEMMA Disabled ==
  ASSUME IInv, NEW p \in Pids
  PROVE  LET after == disable_nodes_with_pid(p)
         IN  /\ after \in [Nodes -> [status : NodeStatus, pid : Pids \union {NoPid},
                                    dev : Devices \union {-1}]]
             /\ \A n \in Nodes :
                  /\ node[n].pid = p => after[n].status = "EMPTY" /\ after[n].pid = NoPid
                  /\ node[n].pid # p => after[n] = node[n]
<1>1. \A n \in Nodes : n \in NodesWithPid(p) <=> node[n].pid = p
  BY SupervisorAssumption DEF IInv, NodesSound, NodesWithPid
<1>2. \A n \in Nodes :
        /\ node[n] \in [status : NodeStatus, pid : Pids \union {NoPid}, dev : Devices \union {-1}]
        /\ [node[n] EXCEPT !.status = "EMPTY", !.pid = NoPid] \in
             [status : NodeStatus, pid : Pids \union {NoPid}, dev : Devices \union {-1}]
        /\ [node[n] EXCEPT !.status = "EMPTY", !.pid = NoPid].status = "EMPTY"
        /\ [node[n] EXCEPT !.status = "EMPTY", !.pid = NoPid].pid = NoPid
  BY ZenonT(30) DEF IInv, TypeOK, NodeStatus
<1> QED
  BY <1>1, <1>2 DEF disable_nodes_with_pid

LEMMA ReapKeeps ==
  ASSUME IInv, NEW p \in Pids, Reap(p)
  PROVE  IInv'
<1> USE SupervisorAssumption
<1>1. /\ pc = "crib" /\ pc' = "kill" /\ Zombie(p) /\ UNCHANGED <<device, child_dead>>
      /\ proc' = [proc EXCEPT ![p] = NoProcess]
      /\ node' = disable_nodes_with_pid(p)
      /\ check_nodes' = (check_nodes \/ NodesWithPid(p) # {})
  BY DEF Reap, check_after_disable
<1>2. job' \in Job /\ job'.pid = p
  BY DEF Reap, NoJob, Job
<1>3. /\ proc' \in [Pids -> Process] /\ Exists(p)
      /\ ~Exists(p)' /\ ~Running(p)' /\ ~Running(p)
      /\ \A s \in Pids \ {p} : proc'[s] = proc[s]
      /\ ProcsSound'
  BY <1>1, ReapedIs
<1>4. /\ node' \in [Nodes -> [status : NodeStatus, pid : Pids \union {NoPid},
                            dev : Devices \union {-1}]]
      /\ \A n \in Nodes :
           /\ node[n].pid = p => node'[n].status = "EMPTY" /\ node'[n].pid = NoPid
           /\ node[n].pid # p => node'[n] = node[n]
  BY <1>1, Disabled
<1>5. check_nodes' \in BOOLEAN
  BY <1>1 DEF IInv, TypeOK
<1>6. TypeOK'
  BY <1>1, <1>2, <1>3, <1>4, <1>5 DEF IInv, TypeOK, Places
<1>7. \A s \in Pids \ {p} : (Exists(s)' <=> Exists(s)) /\ (Running(s)' <=> Running(s))
  BY <1>3 DEF Exists, Running, Zombie
<1>8. NodesSound'
  <2> SUFFICES ASSUME NEW n \in Nodes, node'[n].pid # NoPid
               PROVE  /\ node'[n].status # "EMPTY"
                      /\ Exists(node[n].pid)' /\ proc'[node'[n].pid].node = n
    BY DEF NodesSound
  <2>1. node[n].pid # p /\ node'[n] = node[n]
    BY <1>4
  <2>2. node[n].pid \in Pids \ {p}
    BY <2>1 DEF IInv, TypeOK
  <2> QED
    BY <1>3, <2>1, <2>2 DEF IInv, NodesSound, Exists
<1>9. DevicesSound'
  <2> SUFFICES ASSUME NEW d \in Devices
               PROVE  /\ LET q == device[d].owner
                          IN  q # NoPid /\ q # p => Exists(q)' /\ proc'[q].dev = d
                      /\ LET q == device[d].assist
                          IN  q # NoPid /\ q # p => Exists(q)' /\ proc'[q].kind = "assistant"
    BY <1>1, <1>2 DEF IInv, DevicesSound, BeingKilled
  <2>1. device[d].owner \in Pids \union {NoPid} /\ device[d].assist \in Pids \union {NoPid}
    BY DEF IInv, TypeOK
  <2> QED
    BY <1>1, <1>3, <2>1 DEF IInv, DevicesSound, BeingKilled, Exists
<1>10. KillSound'
  BY <1>1, <1>2, <1>3 DEF KillSound, Exists
<1>11. StartSound'
  BY <1>1 DEF StartSound
<1>12. Held'
  <2> SUFFICES ASSUME NEW s \in Pids, Running(s)'
               PROVE  /\ proc'[s].node # -1 => node'[proc'[s].node].pid = s
                      /\ proc'[s].dev # -1 => device[proc'[s].dev].owner = s
    BY <1>1 DEF Held
  <2>1. s # p /\ proc'[s] = proc[s] /\ Running(s)
    BY <1>3, <1>7
  <2>2. proc[s].node # -1 => proc[s].node \in Nodes
    BY DEF IInv, TypeOK, Process
  <2> QED
    BY <1>1, <1>4, <2>1, <2>2 DEF IInv, Held, BeingStarted
<1>13. HeldWithoutCalls'
  <2>1. NoCalls' <=> NoCalls
    BY <1>1 DEF NoCalls
  <2> SUFFICES ASSUME NoCalls
               PROVE  /\ \A n \in Nodes : node'[n].status # "EMPTY" => node'[n].pid # NoPid
                      /\ \A d \in Devices : device[d].status = "TERM" =>
                           \/ \E n \in Nodes : /\ node'[n].pid = device[d].term
                                              /\ node'[n].pid # NoPid
                           \/ device[d].term = p
    BY <1>1, <1>2, <2>1 DEF IInv, HeldWithoutCalls
  <2>2. \A n \in Nodes : node'[n].status # "EMPTY" => node'[n].pid # NoPid
    BY <1>1, <1>4 DEF IInv, HeldWithoutCalls
  <2>3. ASSUME NEW d \in Devices, device[d].status = "TERM", device[d].term # p
        PROVE  \E n \in Nodes : node'[n].pid = device[d].term /\ node'[n].pid # NoPid
    <3>1. PICK n \in Nodes : node[n].pid = device[d].term /\ node[n].pid # NoPid
      BY <1>1, <2>3 DEF IInv, HeldWithoutCalls
    <3> QED
      BY <1>4, <2>3, <3>1
  <2> QED
    BY <2>2, <2>3
<1> QED
  BY <1>3, <1>6, <1>8, <1>9, <1>10, <1>11, <1>12, <1>13 DEF IInv

LEMMA WaitedKeeps == IInv /\ Waited => IInv'
<1> SUFFICES ASSUME IInv, Waited PROVE IInv'
  OBVIOUS
<1> USE SupervisorAssumption
<1>1. PICK p \in Pids : p = job.other
  BY DEF Waited, IInv, KillSound
<1>2. /\ pc = "wait" /\ pc' = "kill" /\ Zombie(p)
      /\ proc' = [proc EXCEPT ![p] = NoProcess]
      /\ job' = [job EXCEPT !.other = NoPid]
      /\ UNCHANGED <<node, device, child_dead, check_nodes>>
  BY <1>1 DEF Waited
<1>3. Unnamed(p) /\ job.pid \in Pids /\ ~Exists(job.pid) /\ job \in Job
  BY <1>1, <1>2 DEF IInv, KillSound, TypeOK
<1>4. job' \in Job /\ job'.pid = job.pid
  BY <1>2, <1>3 DEF Job
<1>5. /\ proc' \in [Pids -> Process] /\ Exists(p)
      /\ ~Exists(p)' /\ ~Running(p)' /\ ~Running(p)
      /\ \A s \in Pids \ {p} : proc'[s] = proc[s]
      /\ ProcsSound'
  BY <1>2, ReapedIs
<1>6. TypeOK'
  BY <1>2, <1>4, <1>5 DEF IInv, TypeOK, Places
<1>7. \A s \in Pids \ {p} : (Exists(s)' <=> Exists(s)) /\ (Running(s)' <=> Running(s))
  BY <1>5 DEF Exists, Running, Zombie
<1>8. NodesSound'
  <2> SUFFICES ASSUME NEW n \in Nodes, node[n].pid # NoPid
               PROVE  /\ node[n].status # "EMPTY"
                      /\ Exists(node[n].pid)' /\ proc'[node[n].pid].node = n
    BY <1>2 DEF NodesSound
  <2>1. node[n].pid \in Pids \ {p}
    BY <1>3 DEF IInv, TypeOK, Unnamed
  <2> QED
    BY <1>2, <1>5, <2>1 DEF IInv, NodesSound, Exists
<1>9. DevicesSound'
  <2> SUFFICES ASSUME NEW d \in Devices
               PROVE  /\ LET q == device[d].owner
                          IN  q # NoPid /\ q # job.pid => Exists(q)' /\ proc'[q].dev = d
                      /\ LET q == device[d].assist
                          IN  q # NoPid /\ q # job.pid => Exists(q)' /\ proc'[q].kind = "assistant"
    BY <1>2, <1>4 DEF IInv, DevicesSound, BeingKilled
  <2>1. /\ device[d].owner \in Pids \union {NoPid} /\ device[d].assist \in Pids \union {NoPid}
        /\ p \notin {device[d].owner, device[d].assist}
    BY <1>3 DEF IInv, TypeOK, Unnamed
  <2> QED
    BY <1>2, <1>5, <2>1 DEF IInv, DevicesSound, BeingKilled, Exists
<1>10. KillSound'
  <2>1. job.pid # p
    BY <1>3, <1>5
  <2> QED
    BY <1>2, <1>3, <1>4, <1>5, <2>1 DEF KillSound, Exists
<1>11. StartSound'
  BY <1>2 DEF StartSound
<1>12. Held'
  <2> SUFFICES ASSUME NEW s \in Pids, Running(s)'
               PROVE  /\ proc'[s].node # -1 => node[proc'[s].node].pid = s
                      /\ proc'[s].dev # -1 => device[proc'[s].dev].owner = s
    BY <1>2 DEF Held
  <2>1. s # p /\ proc'[s] = proc[s] /\ Running(s)
    BY <1>5, <1>7
  <2> QED
    BY <1>1, <1>2, <2>1 DEF IInv, Held, BeingStarted
<1>13. HeldWithoutCalls'
  BY <1>2 DEF IInv, HeldWithoutCalls, NoCalls
<1> QED
  BY <1>5, <1>6, <1>8, <1>9, <1>10, <1>11, <1>12, <1>13 DEF IInv

\* A used device is left by the session of the process just reaped, and the
\* process q at the other end of its pty, if it is still there, has to go.
Left(d, q) ==
  /\ pc = "kill" /\ device[d].status = "USED"
  /\ \/ q = device[d].assist /\ device[d].owner = job.pid
     \/ q = device[d].owner /\ device[d].assist = job.pid
  /\ device' = [device EXCEPT ![d] = Retired(d, job.stat)]
  /\ check_nodes' = TRUE /\ UNCHANGED child_dead
  /\ HangUpAndWait(q)
  /\ node' \in [Nodes -> [status : NodeStatus, pid : Pids \union {NoPid},
                         dev : Devices \union {-1}]]
  /\ \A n \in Nodes : IF q # NoPid /\ node[n].pid = q
                      THEN node'[n].status = "EMPTY" /\ node'[n].pid = NoPid
                      ELSE node'[n] = node[n]

LEMMA RetiredIs ==
  ASSUME IInv, NEW d \in Devices, NEW stat \in {0, 1}, device[d].status = "USED"
  PROVE  LET r == Retired(d, stat)
         IN  /\ r \in DeviceRecord
             /\ r.owner = NoPid /\ r.assist = NoPid /\ r.type = device[d].type
             /\ r.type # "SERIAL" /\ r.status \in {"OFF", "EMPTY", "UNUSED"}
             /\ r.status = "EMPTY" => r.type = "TELNET"
             /\ r.status # "OFF" => r.retries < MAX_RETRIES
<1> USE SupervisorAssumption
<1>1. /\ device[d] \in DeviceRecord /\ device[d].type # "SERIAL"
      /\ device[d].retries \in 0 .. MAX_RETRIES /\ device[d].retries < MAX_RETRIES
  BY DEF IInv, TypeOK, DeviceRecord, DevicesSound
<1> DEFINE k == IF stat = 0 THEN 0 ELSE device[d].retries + 1
           status == IF stat = 1 /\ k = MAX_RETRIES THEN "OFF"
                     ELSE IF device[d].type = "TELNET" THEN "EMPTY" ELSE "UNUSED"
<1>2. /\ k \in 0 .. MAX_RETRIES /\ status \in {"OFF", "EMPTY", "UNUSED"}
      /\ status = "EMPTY" => device[d].type = "TELNET"
      /\ status # "OFF" => k < MAX_RETRIES
  BY <1>1
<1>3. Retired(d, stat) = [device[d] EXCEPT !.owner = NoPid, !.term = NoPid, !.assist = NoPid,
                                          !.retries = k, !.status = status]
  BY DEF Retired
<1> HIDE DEF k, status
<1> QED
  BY <1>1, <1>2, <1>3 DEF DeviceRecord, DeviceStatus

LEMMA HangUpLives ==
  ASSUME IInv, NEW q \in Pids \union {NoPid}, HangUpAndWait(q)
  PROVE  /\ LiveOrDie
         /\ Exists(q) => pc' = "wait" /\ job' = [job EXCEPT !.other = q]
         /\ ~Exists(q) => UNCHANGED <<pc, job>>
<1>1. CASE Exists(q)
  <2>1. q \in Pids /\ Running(q) \in BOOLEAN /\ proc[q] \in Process /\ proc \in [Pids -> Process]
    BY <1>1 DEF Exists, Running, IInv, TypeOK
  <2>2. proc' = [proc EXCEPT ![q] = [@ EXCEPT !.line = proc[q].line, !.hup = Running(q)]]
    BY <1>1, <2>1 DEF HangUpAndWait, Process
  <2>3. proc[q].line \in BOOLEAN
    BY <2>1 DEF Process
  <2>4. LiveOrDie
    BY <1>1, <2>1, <2>2, <2>3, OneIsSignalled
  <2> QED
    BY <1>1, <2>4 DEF HangUpAndWait
<1>2. CASE ~Exists(q)
  BY <1>2, Still DEF HangUpAndWait
<1> QED
  BY <1>1, <1>2
LEMMA LeftKeeps ==
  ASSUME IInv, NEW d \in Devices, NEW q \in Pids \union {NoPid}, Left(d, q)
  PROVE  IInv'
<1> USE SupervisorAssumption
<1>1. /\ pc = "kill" /\ job.pid \in Pids /\ ~Exists(job.pid) /\ job \in Job
      /\ job.stat \in {0, 1} /\ device[d].status = "USED"
      /\ check_nodes' = TRUE /\ UNCHANGED child_dead
  BY DEF Left, IInv, KillSound, TypeOK, Job
<1>2. /\ LiveOrDie
      /\ Exists(q) => pc' = "wait" /\ job' = [job EXCEPT !.other = q]
      /\ ~Exists(q) => UNCHANGED <<pc, job>>
  BY HangUpLives DEF Left
<1>3. /\ device' \in [Devices -> DeviceRecord]
      /\ \A e \in Devices \ {d} : device'[e] = device[e]
      /\ device'[d].owner = NoPid /\ device'[d].assist = NoPid
      /\ device'[d].type = device[d].type /\ device'[d].type # "SERIAL"
      /\ device'[d].status \in {"OFF", "EMPTY", "UNUSED"}
      /\ device'[d].status = "EMPTY" => device'[d].type = "TELNET"
      /\ device'[d].status # "OFF" => device'[d].retries < MAX_RETRIES
  <2>1. device \in [Devices -> DeviceRecord]
    BY DEF IInv, TypeOK, DeviceRecord
  <2>2. device' = [device EXCEPT ![d] = Retired(d, job.stat)]
    BY DEF Left
  <2> QED
    BY <1>1, <2>1, <2>2, RetiredIs
<1>4. /\ pc' \in {"kill", "wait"} /\ job' \in Job /\ job'.pid = job.pid
      /\ pc' = "wait" => Exists(q) /\ job'.other = q
      /\ pc' = "kill" => ~Exists(q)
  BY <1>1, <1>2 DEF Job
<1>5. TypeOK'
  BY <1>1, <1>2, <1>3, <1>4 DEF IInv, TypeOK, Left, LiveOrDie, DeviceRecord, Places
<1>6. ProcsSound'
  BY <1>2 DEF IInv, ProcsSound, LiveOrDie
<1>7. \A s \in Pids : (Exists(s)' <=> Exists(s)) /\ (Running(s)' => Running(s))
  BY <1>2 DEF LiveOrDie, Exists, Running
<1>8. \A n \in Nodes :
        /\ q # NoPid /\ node[n].pid = q => node'[n].status = "EMPTY" /\ node'[n].pid = NoPid
        /\ q = NoPid \/ node[n].pid # q => node'[n] = node[n]
  BY DEF Left
<1>9. NodesSound'
  <2> SUFFICES ASSUME NEW n \in Nodes, node'[n].pid # NoPid
               PROVE  /\ node'[n].status # "EMPTY"
                      /\ Exists(node[n].pid)' /\ proc'[node'[n].pid].node = n
    BY DEF NodesSound
  <2>1. node'[n] = node[n]
    BY <1>8
  <2>2. node[n].pid \in Pids /\ Exists(node[n].pid)
    BY <2>1 DEF IInv, TypeOK, NodesSound
  <2> QED
    BY <1>2, <2>1, <2>2 DEF IInv, NodesSound, LiveOrDie, Exists
<1>10. \A s \in Pids : BeingKilled(s)' <=> BeingKilled(s)
  BY <1>1, <1>4 DEF BeingKilled
<1>11. \A e \in Devices \ {d} : \A s \in Pids :
         s \in {device[e].owner, device[e].assist} /\ s # job.pid =>
           /\ Exists(s)
           /\ s = device[e].owner => proc[s].dev = e
           /\ s = device[e].assist => proc[s].kind = "assistant"
  BY DEF IInv, DevicesSound, BeingKilled
<1>12. DevicesSound'
  <2> SUFFICES ASSUME NEW e \in Devices
               PROVE  /\ device'[e].status # "USED" =>
                           device'[e].owner = NoPid /\ device'[e].assist = NoPid
                      /\ device'[e].status # "OFF" => device'[e].retries < MAX_RETRIES
                      /\ device'[e].type = "SERIAL" => device'[e].status = "EMPTY"
                      /\ device'[e].status = "EMPTY" => device'[e].type \in {"SERIAL", "TELNET"}
                      /\ device'[e].owner \notin {NoPid, job.pid} =>
                           Exists(device[e].owner)' /\ proc'[device'[e].owner].dev = e
                      /\ device'[e].assist \notin {NoPid, job.pid} =>
                           Exists(device[e].assist)' /\ proc'[device'[e].assist].kind = "assistant"
                      /\ \A f \in Devices \ {e} :
                           device'[e].assist # NoPid => device'[f].assist # device'[e].assist
    BY <1>4 DEF DevicesSound, BeingKilled
  <2>1. CASE e = d
    BY <1>3, <2>1
  <2>2. CASE e # d
    <3>1. device'[e] = device[e] /\ device[e].owner \in Pids \union {NoPid}
                                /\ device[e].assist \in Pids \union {NoPid}
      BY <1>3, <2>2 DEF IInv, TypeOK
    <3>2. ASSUME NEW f \in Devices \ {e}, device[e].assist # NoPid
          PROVE  device'[f].assist # device[e].assist
      BY <1>3, <3>2 DEF IInv, DevicesSound
    <3>3. /\ device[e].owner \notin {NoPid, job.pid} =>
               Exists(device[e].owner) /\ proc[device[e].owner].dev = e
          /\ device[e].assist \notin {NoPid, job.pid} =>
               Exists(device[e].assist) /\ proc[device[e].assist].kind = "assistant"
      BY <1>11, <2>2, <3>1
    <3> QED
      BY <1>2, <3>1, <3>2, <3>3 DEF IInv, DevicesSound, LiveOrDie, Exists
  <2> QED
    BY <2>1, <2>2
<1>13. Exists(q) => Unnamed(q)'
  <2> SUFFICES ASSUME Exists(q)
               PROVE  /\ \A n \in Nodes : node'[n].pid # q
                      /\ \A e \in Devices : q \notin {device'[e].owner, device'[e].assist}
    BY DEF Unnamed
  <2>1. q \in Pids /\ q # NoPid /\ q # job.pid
    BY <1>1 DEF Exists
  <2>2. \A n \in Nodes : node'[n].pid # q
    BY <1>8, <2>1
  <2>3. \/ q = device[d].assist /\ proc[q].kind = "assistant" /\ proc[q].dev = -1
        \/ q = device[d].owner /\ proc[q].dev = d
    BY <2>1 DEF IInv, DevicesSound, BeingKilled, Left, ProcsSound
  <2>4. ASSUME NEW e \in Devices, e # d PROVE q \notin {device[e].owner, device[e].assist}
    <3>1. q = device[e].owner => proc[q].dev = e
      BY <1>11, <2>1, <2>4
    <3>2. q = device[e].assist => proc[q].dev = -1
      BY <1>11, <2>1, <2>4 DEF IInv, ProcsSound
    <3>3. q = device[d].assist => q # device[e].assist
      BY <2>1, <2>4 DEF IInv, DevicesSound
    <3> QED
      BY <2>3, <2>4, <3>1, <3>2, <3>3, Indices
  <2> QED
    BY <1>3, <2>1, <2>2, <2>4
<1>14. KillSound'
  <2>1. ~Exists(job.pid)'
    BY <1>1, <1>4, <1>7 DEF Exists
  <2>2. pc' = "wait" => job'.other \in Pids /\ Exists(job.other)' /\ Unnamed(job.other)'
    BY <1>4, <1>7, <1>13 DEF Exists, Unnamed
  <2>3. pc' = "wait" /\ Running(q)' /\ proc'[q].node # -1 => node'[proc'[q].node].pid = NoPid
    <3> SUFFICES ASSUME pc' = "wait", Running(q)', proc'[q].node # -1
                 PROVE  node'[proc'[q].node].pid = NoPid
      OBVIOUS
    <3>1. q \in Pids /\ Running(q) /\ proc'[q].node = proc[q].node
      BY <1>2, <1>4, <1>7 DEF LiveOrDie, Exists
    <3>2. proc[q].node \in Nodes /\ node[proc[q].node].pid = q
      BY <1>1, <3>1 DEF IInv, TypeOK, Process, Held, BeingStarted
    <3> QED
      BY <1>8, <3>1, <3>2
  <2> QED
    BY <1>1, <1>4, <2>1, <2>2, <2>3 DEF KillSound, Running, Exists, Zombie
<1>15. StartSound'
  BY <1>4 DEF StartSound
<1>16. Held'
  <2> SUFFICES ASSUME NEW s \in Pids, Running(s)', ~Exists(q) \/ s # q
               PROVE  /\ proc'[s].node # -1 => node'[proc'[s].node].pid = s
                      /\ proc'[s].dev # -1 => device'[proc'[s].dev].owner = s
    BY <1>2, <1>4 DEF Held
  <2>1. /\ Running(s) /\ s # NoPid /\ proc'[s].node = proc[s].node /\ proc'[s].dev = proc[s].dev
        /\ s # job.pid /\ s # q
    BY <1>1, <1>2, <1>7 DEF LiveOrDie, Running
  <2>2. /\ proc[s].node # -1 => node[proc[s].node].pid = s
        /\ proc[s].dev # -1 => device[proc[s].dev].owner = s
    BY <1>1, <2>1 DEF IInv, Held, BeingStarted
  <2>3. proc[s].node \in Nodes \union {-1} /\ proc[s].dev \in Devices \union {-1}
    BY DEF IInv, TypeOK, Process
  <2>4. proc[s].dev # d
    BY <2>1, <2>2, Indices DEF Left
  <2> QED
    BY <1>3, <1>8, <2>1, <2>2, <2>3, <2>4
<1>17. HeldWithoutCalls'
  <2>1. NoCalls' <=> NoCalls
    BY <1>3 DEF NoCalls
  <2> SUFFICES ASSUME NoCalls PROVE HeldWithoutCalls'
    BY <2>1 DEF HeldWithoutCalls
  <2>2. q = NoPid
    BY <1>1 DEF IInv, HeldWithoutCalls, Left
  <2>3. /\ UNCHANGED <<pc, job>> /\ \A n \in Nodes : node'[n] = node[n]
        /\ \A e \in Devices : device'[e].assist = NoPid
        /\ \A e \in Devices : device'[e].status = "TERM" => device'[e] = device[e]
    BY <1>2, <1>3, <1>8, <2>2 DEF IInv, HeldWithoutCalls, Exists
  <2> QED
    BY <1>1, <2>3 DEF IInv, HeldWithoutCalls
<1> QED
  BY <1>5, <1>6, <1>9, <1>12, <1>14, <1>15, <1>16, <1>17 DEF IInv

LEMMA KillKeeps ==
  ASSUME IInv, NEW d \in Devices, KillOwner(d) \/ KillAssist(d)
  PROVE  IInv'
<1> USE SupervisorAssumption
<1>1. /\ pc = "kill" /\ job.pid \in Pids /\ ~Exists(job.pid)
      /\ device[d].owner \in Pids \union {NoPid} /\ device[d].assist \in Pids \union {NoPid}
      /\ node \in [Nodes -> [status : NodeStatus, pid : Pids \union {NoPid},
                            dev : Devices \union {-1}]]
  BY DEF KillOwner, KillAssist, InKillLoop, IInv, KillSound, TypeOK
<1>2. CASE KillOwner(d)
  <2>1. ASSUME NEW q \in Pids \union {NoPid}, q = device[d].assist, NEW n \in Nodes, q # NoPid
        PROVE  node[n].pid # q
    <3>1. CASE q = job.pid
      BY <1>1, <2>1, <3>1 DEF IInv, NodesSound
    <3>2. CASE q # job.pid
      <4>1. proc[q].node = -1
        BY <2>1, <3>2 DEF IInv, DevicesSound, BeingKilled, ProcsSound
      <4> QED
        BY <2>1, <4>1, Indices DEF IInv, NodesSound
    <3> QED
      BY <3>1, <3>2
  <2>2. PICK q \in Pids \union {NoPid} : q = device[d].assist
    BY <1>1
  <2>3. Left(d, q)
    BY <1>1, <1>2, <2>1, <2>2 DEF KillOwner, Left
  <2> QED
    BY <2>3, LeftKeeps
<1>3. CASE KillAssist(d)
  <2>1. PICK q \in Pids \union {NoPid} : q = device[d].owner
    BY <1>1
  <2>2. /\ node' \in [Nodes -> [status : NodeStatus, pid : Pids \union {NoPid},
                              dev : Devices \union {-1}]]
        /\ \A n \in Nodes : IF q # NoPid /\ node[n].pid = q
                            THEN node'[n].status = "EMPTY" /\ node'[n].pid = NoPid
                            ELSE node'[n] = node[n]
    <3>1. CASE q = NoPid
      BY <1>1, <1>3, <2>1, <3>1 DEF KillAssist
    <3>2. CASE q # NoPid
      <4>1. node' = disable_nodes_with_pid(q) /\ q \in Pids
        BY <1>3, <2>1, <3>2 DEF KillAssist
      <4> QED
        BY <3>2, <4>1, Disabled
    <3> QED
      BY <3>1, <3>2
  <2>3. Left(d, q)
    BY <1>1, <1>3, <2>1, <2>2 DEF KillAssist, Left
  <2> QED
    BY <2>3, LeftKeeps
<1> QED
  BY <1>2, <1>3
-----------------------------------------------------------------------------
LEMMA StepKeeps == IInv /\ [Next]_vars => IInv'
<1> SUFFICES ASSUME IInv, [Next]_vars PROVE IInv'
  OBVIOUS
<1>1. CASE MainLoop
  BY <1>1, LoopKeeps, WaitedKeeps, AssistFailsKeeps, RegisterKeeps, ReapKeeps,
     AcceptForkKeeps, AssistForkKeeps, ExtrnForkKeeps, SpawnForkKeeps, KillKeeps,
     MessageKeeps
  DEF MainLoop
<1>2. CASE Message
  BY <1>2, MessageKeeps DEF Message
<1>3. CASE \E p \in Pids : Child(p)
  BY <1>3, ChildKeeps
<1>4. CASE UNCHANGED vars
  <2>1. Written /\ LiveOrDie
    BY <1>4, NobodyWrites, Still DEF vars
  <2>2. child_dead' \in BOOLEAN
    BY <1>4 DEF vars, IInv, TypeOK
  <2> QED
    BY <1>4, <2>1, <2>2, LivingKeeps DEF vars
<1> QED
  BY <1>1, <1>2, <1>3, <1>4 DEF Next

LEMMA InductiveInvariant == Spec => []IInv
<1>1. Init => IInv
  BY InitTyped
<1>2. IInv /\ [Next]_vars => IInv'
  BY StepKeeps
<1> QED
  BY <1>1, <1>2, PTL DEF Spec

\* The types hold: no retry count runs over, and the job at hand names nodes
\* and devices there are.
THEOREM TypesHold == Spec => []TypeOK
<1>1. IInv => TypeOK
  BY DEF IInv
<1> QED
  BY <1>1, InductiveInvariant, PTL

\* The tables never name a process that is gone, whoever dies when and
\* whichever number the next process gets: no kill() of the server's goes
\* astray (kill_with_pid, disable_nodes_with_pid in gt.c).
THEOREM PidsAreLive == Spec => []NoStalePid
<1>1. IInv => NoStalePid
  BY DEF IInv, NodesSound, DevicesSound, NoStalePid
<1> QED
  BY <1>1, InductiveInvariant, PTL

\* No two running processes are on a node, and who runs on a port is its user
\* in the table, so that no second client is started there.
THEOREM NodesAndPortsExclusive == Spec => []Exclusive
<1>1. IInv => Exclusive
  <2> SUFFICES ASSUME IInv, NEW p \in Pids, Running(p)
               PROVE  /\ \A q \in Pids \ {p} :
                           Running(q) /\ proc[q].node # -1 => proc[q].node # proc[p].node
                      /\ proc[p].dev # -1 /\ ~BeingStarted(p) =>
                           \/ device[proc[p].dev].owner = p
                           \/ pc = "wait" /\ job.other = p
    BY DEF Exclusive
  <2>1. ASSUME NEW q \in Pids \ {p}, Running(q), proc[q].node # -1,
               proc[q].node = proc[p].node
        PROVE  FALSE
    <3> DEFINE n == proc[p].node
    <3>1. n \in Nodes /\ p # NoPid /\ q # NoPid
      BY <2>1, SupervisorAssumption DEF IInv, TypeOK, Process
    <3>2. \A s \in {p, q} :
            \/ node[n].pid = s
            \/ BeingStarted(s) /\ node[n].pid = NoPid
            \/ pc = "wait" /\ job.other = s /\ node[n].pid = NoPid
      BY <2>1, <3>1 DEF IInv, Held, BeingStarted, StartSound, KillSound
    <3> QED
      BY <2>1, <3>1, <3>2 DEF BeingStarted
  <2> QED
    BY <2>1 DEF IInv, Held
<1> QED
  BY <1>1, InductiveInvariant, PTL

\* Where nobody can call with telnet, a node in use and a device in TERM have
\* a process whenever the server is back at the top of its loop: its death
\* frees them, whatever dies in between.
THEOREM NothingStaysBehind == Spec => []NothingLeftBehind
<1>1. IInv => NothingLeftBehind
  BY DEF IInv, HeldWithoutCalls, NothingLeftBehind, TermPidIsUser, NodeHasPid
<1> QED
  BY <1>1, InductiveInvariant, PTL

=============================================================================
