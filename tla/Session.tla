------------------------------ MODULE Session ------------------------------
(***************************************************************************)
(* One user's client (Client/gtmain.c, Client/command.c,                   *)
(* Client/channelcli.c, Client/gamecon.c) next to the channel server.      *)
(*                                                                         *)
(* The server alone decides which channels a user is on.  The client has   *)
(* its own idea, cur_chan, the channel it sends lines to: it writes LEAVE  *)
(* and JOIN into its pipe, goes on without waiting, and takes the new      *)
(* channel over when it reads its own JOINCHANNEL.  Meanwhile the user     *)
(* types ahead, moderators ban him, and programs he runs keep the client   *)
(* from reading, so that the server finds its fifo full and throws away    *)
(* what it had to say.  The module composes this client with Channels; the *)
(* other users act on the server directly.                                 *)
(***************************************************************************)
EXTENDS Channels, Sequences, SequencesExt

CONSTANTS
  me,          \* the node of the client
  MAIN,        \* the channel every login joins
  NoChannel,   \* the empty channel name
  UpBound,     \* bound of the model: requests in the pipe to the server
  DownBound    \* bound of the model: packets in the pipe to the client

ASSUME SessionAssumption ==
  /\ me \in Node /\ MAIN \in Channel /\ NoChannel \notin Channel
  /\ UpBound \in Nat /\ DownBound \in Nat

VARIABLES
  mode,             \* what the client is doing
  cur_chan,         \* the channel the client thinks it is on
  new_chan,         \* the channel it has asked for
  old_channel_name, \* while a command runs: the channel to return to
  up,               \* requests in the pipe to the server
  down,             \* packets in the pipe to the client
  hasty,            \* history: he gave a channel command before the answer to
                    \*   the last one was read
  told,             \* history: what he has seen since his last JOINCHANNEL
  lost,             \* history: his last JOINCHANNEL did not get through
  missed            \* history: since the last one the server sent, a refusal
                    \*   did not

pipeHistory == <<lost, missed>>
clientVars == <<mode, cur_chan, new_chan, old_channel_name, hasty, told>>
sessionVars == <<vars, clientVars, pipeHistory, up, down>>

\* Packets to the client that it does more with than print, and those that
\* tell the user he is not where he wanted to be.
Refusals == {"BANNED", "NOPERMCREATE", "NOTINVITED", "NOBELONG", "PRIVATE",
             "NOCHANNEL", "NOWRITE"}

Heeded(p) ==
  /\ p.to = me
  /\ \/ p.kind \in {"JOINCHANNEL", "LEAVECHANNEL"} /\ p.who = me
     \/ p.kind \in Refusals

\* server_abuf_write never waits: a frame for which the client's fifo has no
\* room is dropped, or cut and then skipped by the client.  All that others
\* say goes through the same fifo, so any packet may be the one.
Written(packets) ==
  LET heeded  == {p \in packets : Heeded(p)}
      answers == {p \in heeded : p.kind = "JOINCHANNEL"}
      refused == {p \in heeded : p.kind \in Refusals}
  IN  \E got \in SUBSET heeded :
        /\ down' = down \o SetToSeq(got)
        /\ Len(down') <= DownBound
        /\ lost' = (lost \/ ~ answers \subseteq got)
        /\ missed' = (answers = {} /\ (missed \/ ~ refused \subseteq got))

Ask(requests) ==
  /\ up' = up \o requests
  /\ Len(up') <= UpBound

Request1(kind, c) == <<[kind |-> kind, chan |-> c]>>

\* LEAVE is sent only for a channel that has a name.
LeaveCurrent ==
  IF cur_chan = NoChannel THEN <<>> ELSE Request1("LEAVE", cur_chan)

Unanswered ==
  \/ \E i \in DOMAIN up : up[i].kind = "JOIN"
  \/ \E i \in DOMAIN down : down[i].kind = "JOINCHANNEL"

\* The server and the user's own node are as they were.
ClientStep == ~crashed /\ UNCHANGED <<vars, pipeHistory, down>>

-----------------------------------------------------------------------------
(* What the user does.                                                      *)

\* Mutant of change_to_channel: the channel he is on is not left.
change_without_leaving(c) ==
  /\ cur_chan # c
  /\ Ask(Request1("JOIN", c))
  /\ new_chan' = c
  /\ UNCHANGED cur_chan

\* Only another channel than the one he thinks he is on is asked for.
change_to_channel(c) ==
  /\ cur_chan # c
  /\ Ask(LeaveCurrent \o Request1("JOIN", c))
  /\ new_chan' = c
  /\ UNCHANGED cur_chan

ChangeChannel(c) ==
  /\ ClientStep /\ mode = "prompt"
  /\ change_to_channel(c)
  /\ hasty' = (hasty \/ Unanswered \/ (lost /\ c # new_chan))
  /\ UNCHANGED <<mode, old_channel_name, told>>

\* A line goes to the channel he thinks he is on.
TypeLine ==
  /\ ClientStep /\ mode = "prompt" /\ cur_chan # NoChannel
  /\ Ask(Request1("MESSAGE", cur_chan))
  /\ UNCHANGED clientVars

\* A command with a location (mail, shell, bank, user editor...): others see
\* him leave, and the client reads nothing until it is over.
StartCommand ==
  /\ ClientStep /\ mode = "prompt"
  /\ Ask(LeaveCurrent)
  /\ old_channel_name' = cur_chan
  /\ cur_chan' = NoChannel
  /\ mode' = "command"
  /\ hasty' = (hasty \/ Unanswered \/ lost)
  /\ UNCHANGED <<new_chan, told>>

\* Mutant of Return: nobody asks for the channel he was on.
ReturnToNothing == Ask(<<>>) /\ UNCHANGED new_chan

Return ==
  \/ /\ old_channel_name = NoChannel
     /\ Ask(<<>>)
     /\ UNCHANGED new_chan
  \/ /\ old_channel_name # NoChannel
     /\ Ask(Request1("JOIN", old_channel_name))
     /\ new_chan' = old_channel_name

EndCommand ==
  /\ ClientStep /\ mode = "command"
  /\ Return
  /\ mode' = "prompt" /\ old_channel_name' = NoChannel
  /\ UNCHANGED <<cur_chan, hasty, told>>

\* /GAMECON: until it is over every packet but the game's is thrown away.
\* (BINARY packets change nothing anywhere and are left out.)
StartGame ==
  /\ ClientStep /\ mode = "prompt" /\ cur_chan # NoChannel
  /\ mode' = "game"
  /\ hasty' = (hasty \/ Unanswered)
  /\ UNCHANGED <<cur_chan, new_chan, old_channel_name, told, up>>

EndGame ==
  /\ ClientStep /\ mode = "game"
  /\ mode' = "prompt"
  /\ UNCHANGED <<cur_chan, new_chan, old_channel_name, hasty, told, up>>

\* /Q, a lost connection, a signal (a lineout sends one, which a client that
\* a relog has executed does not get): the client is gone, its node ACTIVE.
HangUp ==
  /\ ClientStep /\ mode # "off"
  /\ mode' = "off" /\ old_channel_name' = NoChannel
  /\ hasty' = FALSE /\ told' = "no"
  /\ UNCHANGED <<cur_chan, new_chan, up>>

-----------------------------------------------------------------------------
(* What the client reads.                                                   *)

\* The own JOINCHANNEL counts if it is for the channel asked for.
join_channel_msg(p) ==
  p.kind = "JOINCHANNEL" /\ p.chan = new_chan

\* The server sends LEAVECHANNEL to those who are still on the channel, never
\* to the one who left.
leave_channel_msg(p) == p.kind = "LEAVECHANNEL" /\ p.chan = cur_chan

ReadPacket ==
  /\ ~crashed /\ mode = "prompt" /\ down # <<>>
  /\ down' = Tail(down)
  /\ LET p == Head(down)
     IN  /\ cur_chan' = CASE join_channel_msg(p)  -> p.chan
                          [] leave_channel_msg(p) -> NoChannel
                          [] OTHER                -> cur_chan
         /\ new_chan' = IF join_channel_msg(p) THEN NoChannel ELSE new_chan
         /\ told' = IF p.kind = "JOINCHANNEL" THEN "no" ELSE "told"
         /\ lost' = (lost /\ ~join_channel_msg(p))
  /\ UNCHANGED <<vars, mode, old_channel_name, up, hasty, missed>>

DiscardPacket ==
  /\ ~crashed /\ mode = "game" /\ down # <<>>
  /\ down' = Tail(down)
  /\ told' = IF Head(down).kind \in Refusals THEN "missed" ELSE told
  /\ UNCHANGED <<vars, pipeHistory, mode, cur_chan, new_chan, old_channel_name, up, hasty>>

-----------------------------------------------------------------------------
(* The server and the others.                                               *)

ServeRequest ==
  /\ up # <<>>
  /\ up' = Tail(up)
  /\ LET q == Head(up)
     IN  \/ q.kind = "JOIN" /\ Join(me, q.chan)
         \/ q.kind = "LEAVE" /\ Leave(me, q.chan)
         \/ q.kind = "MESSAGE" /\ Distribute(me, q.chan)
  /\ Written(sent')
  /\ UNCHANGED clientVars

\* The other users join, leave, and those who moderate ban and pardon him.
OthersAct ==
  /\ \E n \in Node \ {me}, c \in Channel :
       \/ Join(n, c)
       \/ Leave(n, c)
       \/ \E change \in {0, 1} : SetPerm(n, c, me, "B", change)
       \/ Connect(n)
       \/ \E class \in Classes : Login(n, class)
  /\ Written(sent')
  /\ UNCHANGED <<clientVars, up>>

\* The server reaps the client and closes both pipes.
Reap ==
  /\ mode = "off"
  /\ Online(me)
  /\ ClearNode(me)
  /\ up' = <<>> /\ down' = <<>>
  /\ UNCHANGED <<clientVars, pipeHistory>>

\* The next caller at the node.
StartClient ==
  /\ Connect(me)
  /\ cur_chan' = NoChannel /\ new_chan' = NoChannel
  /\ UNCHANGED <<mode, old_channel_name, hasty, told, pipeHistory, up, down>>

LogIn ==
  /\ \E class \in Classes : Login(me, class)
  /\ mode' = "prompt"
  /\ cur_chan' = NoChannel /\ new_chan' = MAIN
  /\ Ask(Request1("JOIN", MAIN))
  /\ hasty' = FALSE /\ told' = "no" /\ lost' = FALSE /\ missed' = FALSE
  /\ UNCHANGED <<old_channel_name, down>>

SessionInit ==
  /\ Init
  /\ mode = "off"
  /\ cur_chan = NoChannel /\ new_chan = NoChannel
  /\ old_channel_name = NoChannel
  /\ up = <<>> /\ down = <<>>
  /\ hasty = FALSE /\ told = "no" /\ lost = FALSE /\ missed = FALSE

SessionNext ==
  \/ StartClient
  \/ LogIn
  \/ \E c \in Channel : ChangeChannel(c)
  \/ TypeLine
  \/ StartCommand \/ EndCommand
  \/ StartGame \/ EndGame
  \/ HangUp
  \/ ReadPacket \/ DiscardPacket
  \/ ServeRequest
  \/ OthersAct
  \/ Reap

SessionSpec == SessionInit /\ [][SessionNext]_sessionVars

-----------------------------------------------------------------------------
(* Properties.                                                              *)

Seats == {c \in Channel : me \in Readers(channels[c])}

\* The own JOINCHANNEL for c is still to be read.
Announced(c) ==
  \E i \in DOMAIN down : down[i].kind = "JOINCHANNEL" /\ down[i].chan = c

\* A user who waits for the answer to one channel command before he gives the
\* next is never left on a channel his client does not know of: once the
\* server has seen all his requests, he is on the channel his client thinks
\* he is on, on the one it is about to learn of, or on none; so he is on none
\* while he reads his mail.  Leaving, joining, bans and returning from
\* programs all change both sides, on different paths.  If the answer was
\* thrown away, he is still on no other than the one he asked for, as long as
\* he asks for no other and starts no program.
SeatsKnown ==
  up = <<>> /\ ~hasty /\ mode # "off" =>
    \A c \in Seats : c = cur_chan \/ (c = new_chan /\ (Announced(c) \/ lost))

\* Nobody falls off a channel without a word: who is at the prompt, with
\* nothing on its way in either pipe, and on no channel, has been told of a
\* refusal or a ban since he last joined one.  Only a full fifo and the game
\* connection can keep the word from him.
NeverLostSilently ==
  mode = "prompt" /\ up = <<>> /\ down = <<>> /\ Seats = {} => told # "no" \/ missed
=============================================================================
