# Verification of the unix GTalk server

GTalk is a multi-user chat system. This project models the unix version
(`src/gtalk-unix-v1.6.8`, the last of the five trees of the repository) in
TLA+: the models are checked with TLC on small instances and the main
invariants are proved with TLAPS for every size. Paths below are relative to
`src/gtalk-unix-v1.6.8`.

## The system

One *server* process (`Server/`) forks one *client* process per connected user
(`Client/`). They share a memory segment with a *node* per user and a *device*
per port (`include/common.h`), and a socket pair per client carries packets
(abuffers) both ways. The server handles one packet at a time, to completion.
Clients run concurrently and write their own node (and sometimes other nodes)
in the shared memory at any moment. Servers are built for Linux (`INSTALL`,
`Makefile`), and no handler for SIGSEGV is installed (`Server/gt.c:618`).

| component | state | operations | what makes it correct | hard |
|---|---|---|---|---|
| channel server: `srv_channel.c`, `chuser.c`, `ddial_serv.c` | the list of channels; per channel flags, line limit, users with access flags and a line counter | JOIN, LEAVE, BYE, SETPERM, SETCHAN, MESSAGE, BINARY, WALL, WALLA, lines of links; removal of a dead client | bans hold, nobody moderates who should not, the present hear each line and each change, dead nodes leave nothing behind | messages of clients that have gone or changed user, many flags set on many paths |
| packets and pipes: `bufio.c`, `abufcommon.c`, `srv_abuf.c`, `abufcli.c` | two circular buffers per connection, parser state | write, read, poll, resynchronise | bytes in order, whole packets or nothing | full buffers, short reads, partial frames |
| supervisor: `gt.c`, `fork.c`, `telnd.c`, `extrn.c`, `srv_term.c` | pid and status of nodes and devices | fork, accept, SIGCHLD, respawn, /TERM, shutdown | one client per device, every free port served again | parent and child race, blocking waits, failed forks |
| session: `gtmain.c`, `channelcli.c`, `command.c`, `gamecon.c` | status, current and next channel of the client | login, relog, channel change, commands with a location, quit, SIGUSR1 | the client's channel is one the server has him on | answers cross requests, refusals while the user types ahead |
| timeouts: `schedule.c`, `command.c`, `gtmain.c` | `timeout_time`, `timeout_status`, `sigusr1_action` of every node | warn, time out, /GIVE, /KILL, /RELOG, class change | nobody over his time stays, the server does not sleep past it | clients rewrite the times; they are looked at only when there is nothing to read |
| lists and tokens: `list.c`, `str.c` | arrays with sorted indexes | insert, delete, search | an index is a sorted permutation, a search finds what is there | equal keys, shifting, unsorted tables |
| squelch: `squelch.c`, `channelcli.c`, `srv_login.c` | list of squelched nodes per client | /X, /P, LOGOUT | a squelch ends with the user it was meant for | lost and late LOGOUTs, automatic answers to automatic answers |
| accounts: `accounting.c`, `user.c`, `useredit.c`, `gtmain.c` | user file, the copy in the node, copies in the hands of clients | login, wage, /BANK, /CREDIT, /U, logout | what bank.log says is in the account | the file is locked for one access, not from reading to writing |
| user interface, system tools | screen, files | formatting, editing, converting | - | not concurrent |

Which of these are modelled is listed below and in `PROJECT.json`, as are the
hazards, each at its line.

## Modules

`Channels` is the channel server next to its clients. `channels` is the list of
channels: for each name a record with `open` (it is in the list), `users` (the
list of users), `access` and `lineout` per node, `flags` and `max`. `status` is
the node status, cut down to EMPTY, not logged in (CONNECTED; RELOGGED when
another user was online before and may have left messages in the pipe) and
ACTIVE; `privs` are the three privileges of a user's class that matter.
`sent` holds the packets of the last step, `signalled` the nodes whose
`sigusr1_action` is LINEOUT, `crashed` that the server has died.

One action is one message handled, or one step of a client:

| action | code |
|---|---|
| `Join`, `Leave`, `SetPerm` | `join_channel_message`, `leave_channel_message`, `setperm_channel_message`, all through `channel_stat_change` (`StatChange`, `Outcome`) |
| `SetChanFlag`, `SetChanLimit` | `setchan_channel_message`, with its upcasing (`Capital`) |
| `Distribute` | `distribute_message` with counting, ban and signal |
| `DdialDistribute` | `ddial_distribute_message` |
| `Binary`, `Wall`, `WallA` | `binary_msg`, `wall_message`, `walla_message` |
| `Bye` | `bye_message`, `take_off_channels` (`OffAll`) |
| `ClearNode` | `clear_node_data` of a client found dead |
| `Connect`, `Login`, `Relog` | `gtalk_main`, `respawn_self` |
| `ChangeClass` | `set_online_info` from /U and /MAKE for a user online |

`channel_stat_change` reads the name of the user through a pointer that is NULL
unless the node is ACTIVE; every such call is a `Crash`. The crash is real
behaviour of the code (it happens when a client hangs up at the login prompt
while any channel exists) and nothing happens after it, so the properties speak
of the time before it.

Abstractions: names, reasons and texts are left out; nodes of other machines
are left out, since `server_abuf_write` drops everything for them; failures of
`malloc` are left out; the list of users, kept sorted by node in the code, is a
set. `wall_message` reads past the end of its list: whom it finds there is any
set of nodes. SETPERM has one letter per message, as the commands send it;
messages that a holder of the debugging command /RAW types by hand are left out
(with `R+B+` such a user can make a banned user a reader, which is why the
proof needs the assumption `SafeRequest`). `lurk_message` and
`loginlurk_message` are left out because `get_token` never finds them: its
binary search runs over a table that is not sorted (`srv_channel.c:53-54`).
The privileges of a node that is not online are forgotten (nothing reads them
before the next login overwrites them).

`Roster` says what the channel server promises, in terms of who is present,
barred and moderating on each channel and of who hears a line, with no flags,
no requests and no packets: a bar holds against everybody but gods, only a
founder or a god comes to moderate, only moderators change the rights of
others, a line is heard by exactly those present. `ImplementsRoster` is the
refinement: present are those with READ and without BANNED, barred those with
BANNED, moderators those with MODERATE.

`Moderation` adds to `Channels` what two commands of moderators say to whoever
types them: /CL + ("Channel Locked") and /CG + ("Giving user moderator"). Two runs
state that what is said is so, and find that it is not (`locks`, `moderators`).

`Monologue` adds a history variable to `Channels`: for each user the number of
lines in a row that others got. `MonologuesEnd` says of that count what
`distribute_message` should guarantee with its own counters.

### Packets and pipes

A packet goes through three layers, and the models have one module for each:

| module | code |
|---|---|
| `Fifo` | the circular buffer `iofifo` of `bufio.c` as a record; `write_to_iofifo`, `read_from_iofifo`, `requeue_iofifo` as operators on it |
| `Bufio` | one `iobuf`: `FdBuffer`, `KillFdBuffer`, `WriteBuffer`, `ReadBuffer`, one turn of `poll_buffers` (`Poll`: `ReadSome` or `ReadNothing`, then `WriteSome` or `WriteFails`) against a kernel that takes and gives any number of bytes |
| `Frames` | MSG_ID, header, payload; the constants and variables both directions have; what they are to implement |
| `Uplink` | client to server: `write_abuffer` and `socket_write`, `poll_buffers`, the parser `read_iobuf_abuffer` and the loop in `gt.c:665` that calls it, a signal in the middle of a frame |
| `Downlink` | server to client: `write_iobuf_abuffer` into a fifo that may be full, `poll_buffers` (`poll_output`), `read_abuffer` with its blocking and short reads, a relog in the middle of a frame |

`ByteQueue` says what a direction of `Bufio` promises: a queue of bytes of
bounded capacity that loses bytes only when the other end is gone.
`OutputIsAQueue` and `InputIsAQueue` are the refinements; `Uplink` and
`Downlink` then use a plain sequence for fifo and socket, which is what those
say. `PacketStream` says what the packet layer promises on top of it: packets
arrive whole, in order, at most once, and one damage to the stream (a frame cut
by a signal or truncated by a full fifo) costs at most `MostLost` packets.
`MostLost` is computed from the sizes: a frame cut behind MSG_ID is completed
with a header's length of the bytes that follow and then asks for up to a buffer
full of payload; lost are the frame that was cut and every one these bytes
touch, the first of which may give a single byte. It is tight: with one less the
run `uplink` fails (the run `downlink` needs a fourth packet to notice, and is
too large with it to check liveness). With the sizes of the code (4, 28 and 4095
bytes) up to 130 packets to the server can be lost to one signal.

A byte of a frame is modelled by its place in its frame. This takes the
checksum (a sum of bytes) to recognise the payload of its packet, and payloads
to contain no byte that looks like the next byte of MSG_ID; the sum is weaker
than that. The channel server model (`Channels`) does not use these modules:
there a packet is delivered whole or lost. `Bufio` assumes that a socket `select`
reports writable does not refuse the first byte (true of Linux socket pairs);
where `write` fails although the client is there, `poll_buffers` would lose the
chunk.

Not modelled: the list of descriptors `poll_buffers` goes through (connections
do not share anything in it), a client at the end of file of its pipe (it loops for ever),
and functions without a caller (`write_to_iofifo_backwards`, `clear_iofifo`,
`socket_read`). Routing between clients (`outward_bound`) is in `Squelch`.

### The supervisor

`Supervisor` has the main loop of `gt.c` step by step, with every place where it
can be interrupted by the death of a child or overtaken by what a client writes
(`pc` is the place, `job` the locals there), the tables of nodes and devices as
records, and the kernel's processes (`proc`): clients, the assistants of telnet
callers, and the copiers of external calls.

| action | code |
|---|---|
| `Top`, `PollTimesOut`, `PollReturns`, `Served` | the loop in `main` |
| `Reap`, `NoneLeft`, `Killed` | `crib_death`, with `disable_nodes_with_pid` |
| `KillOwner`, `KillTerm`, `KillAssist`, `Waited` | `kill_with_pid`: retries, devices that go off, the blocking `waitpid` |
| `SpawnFork`, `SpawnFails`, `SpawnNothing`, `Spawned` | `spawn_off_unused_ports` |
| `RegisterSpawned`, `RegisterCall`, `RegisterExtrn` | the parent's half of a fork, when the child already runs |
| `AcceptFork`, `AssistFork`, `AssistFails`, `ExtrnFork` ... | `accept_connections_on`, `extrn_accept_connections_on` |
| `Term`, `Endterm`, `force_message` | the handlers of `srv_term.c` |
| `ClientLogin` ... `CarrierLost` | `gtalk_main`, `respawn_self`, the handlers of SIGHUP |
| `FirstByte`, `AssistHup`, `AssistEnds`, `ExtrnEnds` | `copy_between_socket`, `copy_extrn_socket` |

Process ids are used again as soon as their process has been waited for, so that
a stale pid in a table would sooner or later name somebody else.

### Timeouts

`Timeouts` splits every assignment of the server and of the clients to
`timeout_time`, `timeout_status` and `sigusr1_action` into steps of their own,
since nothing is locked. `left` is the time until the end of a node's time, in
minutes of the model; `Tick` lets it pass. `packet` says that there is something
for the server to read.

| action | code |
|---|---|
| `PollStarts`, `PollReads`, `PollTimesOut` | `calc_next_event_sec` and `poll_buffers` in `main`: the scheduler is called only when nothing was read |
| `SeeWarning` ... `SeenAll` | `see_if_event_occurs` and the timeouts it looks for, node by node |
| `Start`, `Register`, `Reap` | fork, `new_node_and_device`, `clear_node_data` |
| `Initialise`, `Connect`, `Prompt`, `LogIn`, `Activate`, `Leave` | `gtalk_main`: `init_mynode_struct`, CONNECTED, `pass_prompt`, online, logout |
| `WriteTime`, `WriteStatus`, `ping_server` | what /GIVE, a class change and a login do one after the other |
| `cmd_give_time`, `SetClass`, `Order`, `Signal` | /GIVE + and -, /U, /KILL and /RELOG; `LineOut` is the ban that `distribute_message` signals |
| `DieOfSignal`, `DieByDefault`, `Relog`, `IgnoreSignal` | SIGUSR1 in the client, after and before its handler is installed |

A `poll_buffers` that SIGCHLD interrupts waits on for what is left of its time, so
that the dead are reaped when it returns (`Reap` only at the top of the loop).
`untold` is history: nodes whose time a client changed that ended before it
could tell the server. `SignalAll` is `kill(-1)`, when the node was cleared in the
middle of /KILL; nothing is modelled after it.

The scheduler runs only when the server has been idle for as long as it wanted
to sleep, so what these properties promise depends on that: `OftenIdle` is a
server whose poll times out again and again, with any amount read in between.
`SettledFor(n)` says that from some moment on nobody writes n's time any more;
without it /GIVE -, repeated for ever, keeps a user whose time is up, because it
asks for a new warning each time.

### Session

`Session` EXTENDS `Channels` and puts a client's main loop, its pipes `up` and
`down`, and `cur_chan`, `new_chan` and `old_channel_name` in front of it: the
server's handlers are those of `Channels`, called when the request arrives.
`ChangeChannel` is /T, `StartCommand` and `EndCommand` are `process_command`
around a command with a location, `StartGame` and `EndGame` the game
connection, `ReadPacket` the loop that reads packets at the prompt. The other
users act on the server directly (`OthersAct`), as moderators too.

The pipe to the client loses. `write_iobuf_abuffer` never waits: when the client
is in the middle of a line or in a program and its fifo is full, it drops the
frame, or cuts it, and then the client skips what it got (`srv_abuf.c:82-125`,
modelled byte by byte in `Downlink`). All that is said on the channel goes through
the same fifo, so in `Written` any packet of any step may be the one.
`lost` (his last JOINCHANNEL did not get through) and `missed` (since the last
one the server sent, a refusal did not) are history. `SeatsKnown` holds all the
same for a user who waits, with the channel he asked for as the one he may be on;
`NeverLostSilently` has `missed` as its exception: a refusal or BANNED that is
thrown away does leave a user on no channel without a word, and no other loss
does.

### Squelch

`Squelch` has each client's list of squelched nodes, the pipes with private
messages and LOGOUTs, and nodes whose users leave, come and relog. `aimed` and
`inherited` are history: whom a squelch was meant for, and which squelches
outlived their user because the LOGOUT never came: after a relog, when the client
threw it away (`Discard`), or when the server did. As in `Session`, what does
not fit into a client's fifo is dropped or skipped, messages (`Route`) as
well as LOGOUTs (`LogoutTold`, with `full` for the clients that miss it).

### Accounts

`Accounts` follows the records of users through the user file, the node of whoever
is online and the copies of everybody who logs in, saves, edits or gives
credits. Each access to the file is one action, as `flock` makes it, and what
happens between a read and a write is another. The records in shared memory are
locked by nobody: `+=` and `-=` there are two actions, one that reads the
balance (`Fetch`) and one that replaces it.

| action | code |
|---|---|
| `init_mynode_struct`, `clear_node_data` | the status of the node: CONNECTED in a new client; EMPTY when the client is dead, and also when a telnet assistant ends before its client does (`gt.c:296`) |
| `ReadRecord`, `CheckPassword`, `SetOnlineInfo`, `LogIn`, `Activate` | `pass_prompt`, `set_online_info`, `logged_in_flag`, ACTIVE |
| `GuestLogsIn`, `setup_guest_login` | a guest: first the flag, with the record of the user before still there, then his own |
| `PayWage`, `PurchaseAtLogin` | `login_accounting_check` |
| `SaveStarts`, `GetOnlineInfo`, `LogOut`, `SaveEnds`, `GuestLeaves`, `DieUnsaved` | `save_online_user`, at logout or from a signal handler: look whether he is a guest, copy the record, clear the flag, write the file |
| `Purchase`, `Fetch`, `Charge` | /BANK: the entry in bank.log, then the account |
| `LookForUser`, `LoadUser`, `Movement`, `Fetch`, `Charge`, `ApplyLent`, `ApplyPointed`, `ChangeAccount`, `TakeRecord`, `SaveUser`, `QuitCredit` | /CREDIT, on a copy of the record or on the one in shared memory |
| `EditUser`, `EditDone`, `EditAborted`, `SaveEdited`, `TellNode` | the editor of /U |

`is_user_online` is that of `useredit.c:1086`, with the status, the flag and the
number: it misses a user whose node the server has cleared. `Online`, which the
properties use, is without the status, for his record is still there and is
going to be saved.

`book` adds up what is entered in bank.log; `BooksBalance` compares it with the
account, in whichever of those copies is the latest. `RecordsAreOwn` says that
under the number of a user lies his own record. Two history variables name
the users of whom the code does not keep this: `disturbed` are those of whose
record two clients had copies of their own (a credit to one whose node was
cleared under him is such a case), two of whose movements were booked at the same
instant, or who were cut off half-way; `mixed` are those whose node was given to
somebody else while a /CREDIT pointed to it, or told another user's record by
/U. Everything else must balance, and every record lie in its place.

### Lists and tokens

`IndexedList` has the operations of `list.c` with their shifting, growing and
shrinking, and `SortedTable` what they promise: a set of records that is
searched by several keys (`ImplementsTable`). An operation on a list is one
action, for nothing interrupts it; the loops and the recursion of searching and
sorting (`search_list_for`, `Partition`, `list_qsort`) are functions defined from
themselves, in which the loops that only move an index are `ScanUp` and
`ScanDown`. `TokenSearch` is `get_token`, one comparison per step.

### Proof and model modules

The proofs about a module are in the module of its name and `Proofs`:
`ChannelsProofs` (with `Roster` and `Monologue`), `SessionProofs`, `BufioProofs`,
`SupervisorProofs`, `TimeoutsProofs`, `AccountsProofs`; those about `Uplink` and
`Downlink`, the two directions of a pipe, are in `PacketProofs`, and those about
`Squelch`, `IndexedList` and `TokenSearch`, which look something up that may have
changed meanwhile, in `LookupProofs`. The modules `MC...` give the constants their values, define views and
constraints, and nothing else. Definitions commented as mutants are changed
versions of a definition, each of which violates a property; they belong to no
specification.

## Runs

| run | instance | checked | states |
|---|---|---|---|
| `channels` | a founder and a god on 1 channel; 3 users on 1; 2 users on 2 (`Scenarios`) | `ServerInvariant`, `NoGhosts`, `ImplementsRoster`, `MonologuesEnd`, `ChangesAnnounced` | about 54,700 |
| `locks` | 2 users who may open channels, 1 channel | `LockedIsLocked` is violated | - |
| `moderators` | the same | `GivenModerates` is violated | - |
| `bufio` | fifos of 2 and 3, chunks of 2, a socket of 2, two byte values | `TypeOK`, both refinements of `ByteQueue`, `BytesMove` | 122,814 |
| `uplink` | 5 packets of 4 or 5 bytes, 2 cuts, fifo of 5 | `TypeOK`, `NeverStuffed`, `ArrivesInOrder`, `EveryPacketArrives` | 375,784 |
| `downlink` | 3 packets of 4 to 6 bytes, fifo of 6, chunk and socket of 4, client's buffer of 1, one interrupted read | `DownTypeOK`, `ArrivesInOrder`, `ClientReturns`, `EveryPacketGetsThrough` | 230,924 |
| `supervisor` | 2 nodes, 2 devices, 3 pids, 3 configurations | `TypeOK`, `NoStalePid`, `Exclusive`, `NothingLeftBehind`, `ServerKeepsUp`, `PortsServed`, `BadPortsGivenUp` | 168,632 |
| `timeouts` | 2 nodes, a god and a user | `TypeOK`, `Punctual` | 3,199,058 |
| `timeouts_fair` | 1 node, warnings of 2 minutes | `TimeIsUp`, `LoginPromptEnds` | 92,954 |
| `lookups` | 5 records, 2 keys with ties; every token table of the program and sorted ones of 1 to 14 entries; 2 nodes that squelch, 3 packets under way | `ListInvariant`, `ImplementsTable`, `TokenTypeOK`, `EntriesFound`, `TokensFound`, `SearchEnds`, `TypeOK`, `SquelchesMeant`, `AnswersEnd` | 122,216 |
| `session` | 2 nodes, 2 channels, 3 requests and 2 packets under way | `SeatsKnown`, `NeverLostSilently` | 631,617 |
| `accounts` | 2 nodes, a sysop and a user, 2 movements | `AccountsInOrder` | about 2,633,000 |

What the properties say, and what each run shows:

- `channels`. `ServerInvariant` is the inductive invariant of
  the proofs; `ImplementsRoster` the refinement of `Roster`; `MonologuesEnd` that
  nobody but a moderator gets through with the limit of the channel in lines in
  a row and stays; `NoGhosts` that a node without a client is on no channel;
  `ChangesAnnounced` that everybody present hears of every change.
- `locks`, `moderators`. What the tables of commands and the clients say of /CL
  and /CG is not what the server does: after "Channel Locked" (`command.c:1655`)
  everybody may still join, and whoever is given moderator (`command.c:1599`) does
  not moderate. That ALLJOIN is always set, and that only founders and gods
  come to moderate, is therefore part of `ServerInvariant` and of `Roster` as
  what the code does, not as what it means to do.
- `bufio`, `uplink`, `downlink`. No byte is lost, repeated or out of order; a
  full buffer gets room again (`BytesMove`); packets arrive whole and in order,
  a damage costs at most `MostLost` of them, and none is lost without one unless
  it is too long for the reader (`EveryPacketArrives`, `EveryPacketGetsThrough`);
  the parser never stops with a full fifo
  (`NeverStuffed`); the client gets back to its keyboard (`ClientReturns`).
- `supervisor`. Tables name no process that is gone; a node has one client and a
  device one user; a device in /TERM and a node in use have a holder whose end
  frees them; the server always gets back to the top of its loop and knows of
  every dead child; ports are served; bad ports are given up.
- `timeouts`, `timeouts_fair`. The sleep of the server never exceeds what the
  next warning or timeout asks for; who has no time left has to go, at the login
  prompt as well, if the server is idle often enough to look (`OftenIdle`) and
  nobody goes on writing his time for ever (`SettledFor`).
- `lookups`. Indexes are sorted permutations of the records, lists implement
  tables, and the halving search ends, stays in its table and finds every entry
  that is in its place. `TokensFound` says which tokens of the program's own,
  unsorted tables are found: all but LOGINLURK and MSGLURK in the tables where
  they are out of order. Without a LOGOUT under way, the squelched are those whom
  the user meant, with the exceptions the property names; automatic answers end
  unless two users squelch each other. The three have nothing in common and never
  move in the same behaviour; they share a run because each is small.
- `session`. Once the server has seen all his requests, a user who waits for
  answers is on the channel his client shows or has asked for; and nobody is on no
  channel without having been told, unless the server has thrown away what would
  have told him.
- `accounts`. For every undisturbed user, bank.log agrees with his account, and
  under the number of everybody not mixed up lies his own record.

Bounds. Two users suffice for every rule between a moderator and a user, or a
speaker and a hearer; the third is a bystander, and needs only one class
(`Scenarios`). The only rule across channels is `take_off_channels`, for which
two users of two channels are enough. `TwoUsers` keeps one god, one invited
and one relogged user at a time: their rules concern one of each.
`DefaultMaxLineout`, `MinMaxLineout` and `MaxMaxLineout` (9, 3 and 10000000 in the
code) are scaled down; `Limits` holds a number below the minimum, one above the
maximum, and one that lowers the limit.
`LineoutBound` stops counting at or above the limit, so that the line too many
happens; only gods and moderators could go on counting. The classes are chosen
so that each run has whoever its question is about: a founder who moderates, a
god who may not open channels, so that NOPERMCREATE occurs, talkers who
moderate nothing. Nodes of `channels` are interchangeable, hence the symmetry,
and no property of that run names one.

The sizes of the buffers keep the proportions that matter: the fifo is smaller
than two frames, so that it overflows in the middle of a MSG_ID, a header and a
payload; a chunk is smaller than a fifo and not a divisor of it, so that
`requeue_iofifo` crosses the end of the buffer; the client's buffer is shorter
than the longest payload (1023 against 2048). `Packets` bounds the packets sent,
enough for the loss of `MostLost` and a packet behind them.

The three configurations of `supervisor` are a bad console beside a device for
calls whose second fork may fail, a modem beside a console, and two bad consoles
with forks that fail; with three pids a client, its assistant and one more live
at the same time. `MAX_RETRIES` is 2, so that a retry and the end of retries
happen. In `timeouts` the god has no limit and the user a minute or
none, gifts are a minute, and a warning comes a minute before the end, so that
every pass over the nodes may meet a change; liveness is checked for one node
(`timeouts_fair`), with warnings, gifts and every action, because
nodes meet only in the sleep of the server, which `Punctual` checks with two.
The other user of `session` may open channels and is on one of them at a time,
one line at a time is under way, and a user who types ahead is alone: there
`SeatsKnown` asks nothing. In `accounts` an overdraft limit of 3 is never
reached with two movements of 1 (`AccountsAssumption`), so that what a payment
may take does not hide what becomes of it; two movements are a purchase and a
credit, two credits, or a wage and a purchase, with any logouts, edits and
signals around them. `Bounded` stops where nothing more is asked: when the records
of both users are mixed up, and, once there was a movement, when both are
disturbed. It also leaves out a node cleared while its user is still at the
password, whose status nothing reads before he is logged in.

Views leave out what no action reads: packets of the last step and signals
(`channels`, `session`), results of the last call (`bufio`), copies of a record
that are overwritten before they are read (`accounts`), and in `session` which
refusal it was. Properties of what is left out are properties of steps or are
not checked in that run. Deadlock is not checked where a system really stops: a
crashed channel server, the end of the bounded packets, pipes at their bound,
accounts after the last movement.

Fairness. `poll_buffers` is weakly fair: the main loop of the server comes back
to it after each batch of messages, and no handler blocks. Weakly fair, too, are
the server's parsing loop, a blocking `write` of the client that has room, and a
blocking `read` of the client that has bytes. `EveryPacketGetsThrough`
also needs the client to come back to its `select` (`WF_vars(Select)`): its user
finishes the lines he begins. `ClientReturns` does not need that. Clients need
not send, signals need not come, and a client may stop reading for good (`Clog`);
`BytesMove` says nothing of such a client. In `Supervisor` the server goes on
(`WF_vars(MainLoop)`), and so do processes that wait for nobody (`Unaided`) and
clients that have been hung up on; no user has to call, type or hang up. In
`Timeouts` the server (`WF_vars(Server)`), the steps a client has begun
(`Jobs`) and signal handlers (`Handler`) go on; polls and the clock are strongly
fair (`SF_vars(PollStarts)`, `SF_vars(Tick)`) because they are enabled again and
again between other steps, and neither can be put off for ever: each turn of the
main loop does poll, and time passes. In `Squelch` the server reads every pipe
and clients read theirs, since their loop looks there after every line. The
search of `lookups` takes its next step.

## Proofs

`ChannelsProofs` proves, for any finite set of nodes and any channels, classes
and limits (`ChannelsAssumption`), that every behaviour keeps

- `TypeOK` (`TypeCorrect`),
- `BannedNeverReads` (`BansHold`),
- `ListedIffEntitled` (`ListsAreExact`),
- `NoGhosts` (`GhostsNeverAppear`),

all from one inductive invariant, `ServerInvariant` (`ServerIsSound`). None of
the four is inductive alone. That a ban holds needs exact lists: a join of a
user not in the list is not checked for a ban, so a user with BANNED must be in
it. That no ghosts stay needs `take_off_channels` never to be refused, hence
that ALLJOIN is set on every channel (true only because of the bug in SETCHAN:
with `Capital` as the identity TLC finds `NoGhosts` violated), that a
channel not in the list has no users, and that its users are those with flags.
The heart is `RequestKeepsGood`: one request leaves a good channel good as long
as no request sets READ and touches BANNED together (`SafeRequest`), which no
caller does (`RequestsAreSafe`). The rest goes through the actions one by one.

`BufioProofs` proves for any sizes of the fifos, the chunk and the socket
(`SizesAssumption`, `CallsAssumption`)

- `TypeOK` (`BufioTypeCorrect`), whose core `Sound` is inductive: head is always
  `used` cells ahead of tail, round the end;
- `OutputIsAQueue` and `InputIsAQueue` (`OutputIsQueue`, `InputIsQueue`).

The lemmas there say what each operation of `Fifo` does to the content: writing
appends what fits, reading takes from the front, and `requeue_iofifo` after a
read of m bytes gives the fifo in which only the others have been read. The
refinements then follow action by action from properties of sequences.

`PacketProofs` proves `TypeOK` and `NeverStuffed` of `Uplink` (`UplinkTypeCorrect`,
`NeverGetsStuck`) for any sizes in which a header and the longest payload the
parser asks for fit into the fifo (`UplinkAssumption`; 32 and 4095 against 8192
in the code): the main loop stops calling the parser only when less is there.
`DownTypeOK` (`DownlinkTypeCorrect`) needs no such assumption.

The main results there are `UplinkInOrder` and `DownlinkInOrder`: both directions
implement `PacketStream`, for any sizes of MSG_ID, headers, payloads, fifos,
chunks and sockets and any number of packets and interruptions
(`FrameAssumption`, `UplinkAssumption`, `DownlinkAssumption`). What may
go wrong with bytes here is a question of which bytes, so the invariants speak of
every byte that was ever written. There are, for some functions `start` and
`granted` and some x:

- frame p has the bytes behind `start[p]`, up to `start[p + 1]`; it is whole
  unless `granted[p]` is larger than `granted[p - 1]` by `MostLost`, and a payload
  too long for the reader has raised it by one (`Laid`);
- the writer, the fifo and the socket hold adjoining segments of these bytes
  (`Holds`), and the first x have been read;
- in each of its states the reader is in step with one frame, of which it has
  read MSG_ID, the header and nothing else (`InStep`); or it is confused: it takes
  other bytes for a header because a frame was cut, and all that it is going to
  take is behind that cut (`Confused`); or it is somewhere in a frame that is lost
  and paid for (`Settled`). With a header that has been read goes that the
  payload of its packet may follow (`Promised`).

`UpInv` and `DownInv` put these together for each state of the reader. The steps
that matter end a packet: if it was confused, `Late` counts what was touched.
Frames that were not cut are longer than MSG_ID and a header, those that were
have paid for themselves, hence what lies between two frames bounds how many
there are (the fourth part of `Laid`), and `MostLostCovers` is the division. A
packet that is delivered is then ahead of the one delivered before by no more
than `losses` allows. `SamePlace` is what recognising a header or MSG_ID rests on:
equal bytes of two frames are equal in place. TLC has checked `UpInv` and
`DownInv`, with `start`, `granted` and x as history variables, on instances like
those of the runs, one with payloads longer than the reader's buffer. The proof
did not go through for the first version of `MostLost`: where the bytes swallowed
fill a number of frames exactly it forgot that they may lie across one more. With
such sizes, which those of the runs are not, TLC then found the counterexample.

`LookupProofs` proves of `get_token`, for any table of integers and any
words, that it never looks outside its table (`SearchStaysInTable`) and finds
every entry that is in its place, with smaller ones before and larger ones
behind it, whatever the rest of the table is like (`EntriesInPlaceFound`). The
invariant (`SearchInvariant`, `SearchIsSound`) says that such an entry stays
above `first` and not above `last` until it is found, that what was compared last
is one of the two, and that no entry is compared twice in a row while the one
looked for is still between them, which is when the search gives up.

It proves of the lists, for any records, comparison functions, numbers of indexes
and sequences of operations (`ListAssumption`: a comparison function is one that
compares numbers; those of the program compare numbers of nodes and states, and
names, which are of limited length, so that their order is one of numbers),

- `ListInvariant` (`ListsStaySorted`), and
- `ImplementsTable` (`ListIsTable`): each operation is one of `SortedTable`, or the
  step in which it ran out of memory.

The functions defined from themselves exist because each of their calls is of
less than the call it is made from (`RecursionEnds`, from the library's theorem
about functions on a well-founded relation): the distance between the bounds of a
bisection, between the two ends of a partition, the length of a range to sort.
What they return is shown by the same measure, in that a least one for which it
were otherwise would call one for which it is so. The bisection ends at a place
with the key, or where the key would have to be; the two scans of a partition
leave small records on one side and large ones on the other; and `list_qsort`
exchanges elements of its range only, and sorts it (`QsortSorts`).

The inductive invariant (`ListIInv`) adds to `ListInvariant` that no record is in
the list twice and no order in two indexes. Without the first it is not
inductive: `delete_list` finds the number of a record in an index by comparing
its bytes, so that of two equal records it may take out the wrong number. The
code leaves it to the callers to look for a key before they add it. For
`delete_list` the proof follows one index through writing the new number of the
last record over the old one and closing the gap: every other record keeps its
number and its place, so none is lost and none is there twice. `find_first` needs
a count: its answer is the number of smaller records because the index is sorted
and has each record once. TLC has checked `ListIInv` on the instance of the run
`lookups`.

`ChannelsProofs` goes on to what others see of a request. `AllowedEffect` says
what one that is not refused does to readers, barred and moderators, and from it
follow

- `ChangesAnnounced` (`EverybodyIsTold`): `OutcomeTold` for one request, then
  each action that makes requests;
- `ImplementsRoster` (`RosterIsKept`): every action is a step of `Roster` or
  leaves what `Roster` sees alone. What a request may do in `Roster` is what
  `Refusal` lets through of a good channel (`JoinAllowed`, `LeaveAllowed`,
  `OrderAllowed`), and an order has the authority `Roster` asks for because
  its sender was accepted as a moderator (`ModeratorHasAuthority`);
- `MonologuesEnd` (`MonologuesAreEnded`): a user's counter is never below the
  number of lines in a row that others got from him, and it is reset only with
  that number (`ServerInvariant` makes its readers the ones counted).

`SessionProofs` proves `SeatsKnown` and `NeverLostSilently` (`NoUnknownSeat`,
`NobodyLostSilently`) for any nodes, channels and bounds of the pipes. Neither
is inductive: both speak of empty pipes. `SessionInvariant` says where a channel
change can be. While its JOIN is in the pipe to the server, only lines follow it,
every seat is given up before it and no answer is on its way (`JoinUnderWay`);
while its JOINCHANNEL is in the pipe to the client, it is the only one, nothing
but lines is behind it in the other pipe and there is no other seat
(`JoinAnswered`); otherwise every seat is on the channel the client shows or about
to be given up (`SeatsInSight`). In all of these the seat whose JOINCHANNEL did not
get through is the one the client asked for last (`WordLost`). For the second property it says that each LEAVE
under way has a JOIN behind it or the user returns from a program (`LeavesToJoin`),
and that whoever has no seat has asked for one, has a refusal as the last word on
its way, has read one, or has one the server threw away and nothing of the sort
since (`HearsOfIt`). The server's half is in lemmas on what one
message does to the seats and tells the client (`JoinsAreAnswered`,
`LeavesAreServed`, `LinesAreTold`, `OthersAreHarmless`), which use
`ServerInvariant`.

`LookupProofs` also proves `TypeOK` and `SquelchesMeant` of `Squelch` (`TypesHold`, `SquelchesEnd`)
for any number of nodes. `SquelchesMeant` alone is not inductive. It needs that
nobody has aimed at the user of a node while the LOGOUT of the user before is on
its way (`LogoutClears`), or reading it would undo a squelch that was meant; that
what was inherited is still squelched (`InheritedKept`); and that those who are
not online have empty lists (`ListsOnline`), from which the next user starts.

`SupervisorProofs` proves `TypeOK`, `NoStalePid`, `Exclusive` and
`NothingLeftBehind` for any nodes, devices, pids and configuration
(`SupervisorAssumption`). The inductive invariant follows the server through its
loop: what a process is it stays (`ProcsSound`), a node's and a device's process
are its own (`NodesSound`, `DevicesSound`), and for the places where the server
holds something that is in no table, or no longer, it says what is in its hands
(`KillSound`, `StartSound`, `Held`, `HeldWithoutCalls`). Between
reaping a process and clearing its devices its pid is still in their table; nobody
can get it meanwhile, because only the server forks, and it is in the middle of
the clearing (`KillSound`).

`TimeoutsProofs` proves `TypeOK` and `Punctual` (`TypesHold`,
`NobodyIsSleptThrough`) for any nodes, times, limits and warnings, and gifts of
`1 .. MaxLeft` minutes (`TimeoutsAssumption`). `Punctual` is inductive with the
types: `calc_next_event_sec` is the least over all nodes (`NextEvent`), each look at a node
keeps it so for those looked at, and whatever makes a time less afterwards does
it with a packet on the way that wakes the server, or its writer has ended.

`AccountsProofs` proves `AccountsInOrder` (`AccountsAreInOrder`) for any finite
sets of nodes and users, any sizes of movements and any number of them
(`AccountsAssumption`; that nobody comes to his limit is not used). What a user
is due (`Due`) is what bank.log says less what is entered and not booked yet. The
inductive invariant `AccountsInvariant` says of each client where it stands
(`ClientsSound`) and of each user whose record nobody disturbed that it is in one
place (`AtHome`), that an editor (`Edited`) and a /CREDIT that loaded it (`Lent`)
have it for themselves, that every other /CREDIT points to the node where the user
is or was (`Pointed`), and that the account there is what he is due (`Balanced`).
Balanced books need all of this: a copy that is written back is right only if
nobody else had one to change in between. The status of nodes appears nowhere in
it: whatever the server clears under a client, the user who is then looked for
and not found is disturbed by whoever looks. `RecordsOwned` is the second half:
each copy that somebody is going to save under a number is of the user of that
number, or he is mixed up (`OwnAt`, `Own`). There is a lemma for each action; the
users it is not about are left to `Bystander`, the clients that do not take it to
`OthersOwn`. The sums over all nodes are the community modules' folds: that such a
sum is defined, and changes by what one summand changes by, is proved from the
smallest set for which it would not (`SumsExist`, `TotalChanges`), because
theorems of induction with an operator as a parameter are of no use to these
provers.

Only model-checked are

- everything about liveness (`BytesMove`, `ClientReturns`, `EveryPacketArrives`,
  `EveryPacketGetsThrough`, `ServerKeepsUp`, `PortsServed`, `BadPortsGivenUp`, `TimeIsUp`, `LoginPromptEnds`,
  `SearchEnds`, `AnswersEnd`): beyond the prover;
- `TokensFound`, a statement about the particular tables of the program.

## Where the code departs from what it says or seems to mean

The models follow the code; the properties name these cases as exceptions, or a
changed model without the exception fails.

Channels
- /CG (`INSTALL:88`, `comparse.c:104`, "Channel Give Moderator"; run `moderators`)
  never gives moderation to anyone but a holder of CHN_ALLMODERATE, and takes it from everyone else
  (`srv_channel.c:209-214`).
- /CL (`comparse.c:108`, "Channel Lock"; run `locks`) never locks: SETCHAN turns every small
  letter into its capital before the switch (`srv_channel.c:510`), and
  "Channel Locked" is sent as `A`, which opens the channel.
- LURK messages are never handled: `get_token` does not find their entries in
  the unsorted table (`srv_channel.c:53`).
- `wall_message` and `loginlurk_message` read past the end of the list of users
  (`srv_channel.c:821`).

Supervisor
- After a telnet assistant ends, its client may still write status into the
  cleared node, which then belongs to nobody (`gt.c:93`; `NodeHasPid` holds only
  without telnet), and a device that user had in /TERM stays there (`gt.c:295`;
  `TermPidIsUser`).
- The server waits without limit for an assistant still in its first `read()`
  and for a client that lost its SIGHUPs in `respawn_self` (`gt.c:261`; `Stuck`).
- A failed fork leaves the ports behind it unserved until something else asks
  for them (`gt.c:140`; `ForkMayFail`).

Timeouts
- A client executed by a relog has SIGUSR1 blocked: neither /KILL nor a timeout
  reaches it (`gtmain.c:911`; `blocked`), so it may stay at the login prompt
  longer than "number of minutes to wait at the login prompt".
- /GIVE + to a user without a time limit says "added %d minutes" and adds them to
  the time 0, long past: he is warned and timed out (`command.c:1385`).
- /KILL takes the pid of a node it has checked before: a node cleared in between
  has -1, and `kill(-1)` signals every process of the user, the server included
  (`command.c:1321`; `SignalAll`).
- Timeouts are looked at only when nothing was read (`gt.c:622`): as long as there
  is always something to read before the server's sleep is over, nobody is timed
  out (`OftenIdle`).
- /GIVE - asks for a new warning as /GIVE + does (`command.c:1391-1397`): repeated
  between the warning and the timeout, it keeps a user whose time is up
  (`SettledFor`).

Session
- Two /T typed ahead, or a /T before a command with a location, leave a user on
  two channels (`hasty`).
- A refused /T leaves `cur_chan` on a channel he has left, and going back to it
  is answered "Already in that channel" (`command.c:507`).
- A refusal or BANNED that the client's fifo has no room for is dropped
  (`srv_abuf.c:82-125`): he is on no channel and does not know (`missed`).
- The game connection throws JOINCHANNEL and BANNED away; the handler of one's
  own LEAVECHANNEL is never reached.

Squelch
- Two users who squelch each other, or one who squelches himself, answer each
  other's automatic answers for ever (`channelcli.c:163`; `Mutual`).
- After a relog, or when a LOGOUT arrives in a game or a link or finds the client's
  fifo full, the next user of the node inherits the squelch (`inherited`); /X while a LOGOUT is under way is
  undone by it.

Accounts (`disturbed`, `mixed`)
- A record that is read while somebody else holds a copy is written back over
  his changes: two logins of a user, /U or /CREDIT across a login or logout.
- When a telnet assistant ends, the server clears the status of the node while its
  user is still logged in and not saved (`gt.c:296`); /CREDIT does not find him
  online then (`useredit.c:1086`) and works on the file, and one of the two saves
  undoes the other.
- The accounts in shared memory are locked by nobody (`accounting.c:279`, `453`,
  `930`): of two movements booked at the same instant one is lost.
- /CREDIT and /U write into the node where the user was when they looked, also
  when it has another user by now, whose whole record /CREDIT then saves under
  the number of the first (`accounting.c:794`, `accounting.c:1116`,
  `useredit.c:1524`); a guest who logs in there zeroes it (`gtmain.c:232-266`).
- `logged_in_flag` is cleared before the record is saved (`gtmain.c:510`), and
  bank.log is written before the account changes (`accounting.c:453`): a signal
  in between loses the session's changes, or the movement. Wages and purchases
  at login are lost on a hang-up before the user is online. A guest's flag is set
  before his record is there: a signal in between saves that of the user before.
- Not in the model, which leaves out what is bought: time is added before the
  payment is confirmed, so that answering no keeps it (`accounting.c:193`); a
  year is 30 years (`accounting.c:73`); costs already chosen raise what may be
  taken from the account (`accounting.c:338`).

## Not modelled

- `gtalk_shutdown` (hang up on everybody and exit), allocation failures of
  buffers, and reading the configuration.
- The numbers of nodes given out to external calls (`extrn.c:104-123`), which only
  the loop that gives them out reads.
- Disabled users (nothing of theirs is saved), and a system without a guest account.
- The login dialogue: which name and password are asked for in which order. Its
  effects on nodes, times, channels and records are in the modules above.
- Creating and deleting users, class records, free credits and the credit card.
- Static lists and lists in files (no caller), `re_sort`, `read_defaults`, the
  string helpers of `str.c`.
- The terminal user interface, the editor, logs, and what commands print: no
  other part depends on their state.
- The stand-alone tools under `System/`: sequential converters and listings.
- The OS/2 and DOS trees, older versions of the same program, and `Backup/`,
  `.old/`: they hold most of the lines of the repository (six copies of some
  files), and what they do that the unix version does not is single-process
  dialogue. That is why the map covers a small share of all lines.

## Plan

Done: `Channels`, `Roster`, `Monologue`, `Moderation`; `Fifo`, `Bufio`, `Frames`, `Uplink`,
`Downlink`; `Supervisor`; `Timeouts`; `Session`; `IndexedList`, `TokenSearch`;
`Squelch`; `Accounts`.

Proved: every invariant, refinement and action property that a run checks, but
for `TokensFound`. What could come next is more of the code: creating and deleting
users, what is bought and credited, and the login dialogue.
