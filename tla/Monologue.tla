------------------------------ MODULE Monologue ------------------------------
(***************************************************************************)
(* The lineout rule of distribute_message seen from outside: a history     *)
(* variable counts the lines a user got through to others in a row, and    *)
(* the rule has to hold of that count, whatever the server's own counters  *)
(* (kept per list entry, reset along several paths) say.                   *)
(***************************************************************************)
EXTENDS Channels

VARIABLE monologue  \* for each channel and user: lines in a row heard by others

Said(c, n, kinds) ==
  {p.to : p \in {q \in sent' : q.chan = c /\ q.who = n /\ q.kind \in kinds}}

\* A new login starts the count again (the server's counter lasts until the
\* BYE of the old session arrives), and so does being off the channel: the
\* code does not count a user who may write but not read (pardoned after a
\* ban and not yet back).
Interrupted(c, n) ==
  \/ status'[n] # "ACTIVE"
  \/ n \notin Readers(channels[c])
  \/ \E m \in Node \ {n} : Said(c, m, {"MESSAGE"}) # {}
  \/ \E m \in Node : Said(c, m, {"DDIAL"}) # {}
  \/ Said(c, n, {"MESSAGE"}) = {n}

GotThrough(c, n) == Said(c, n, {"MESSAGE"}) \ {n} # {}

MonologueInit == Init /\ monologue = [c \in Channel |-> [n \in Node |-> 0]]

MonologueNext ==
  /\ Next
  /\ monologue' = [c \in Channel |-> [n \in Node |->
       IF Interrupted(c, n) THEN 0
       ELSE IF GotThrough(c, n) THEN monologue[c][n] + 1
       ELSE monologue[c][n]]]

MonologueSpec == MonologueInit /\ [][MonologueNext]_<<vars, monologue>>

\* Nobody but a moderator gets through with as many lines in a row as the
\* channel's limit and stays: with that line he is banned (unless he is a
\* god) and his client is told to quit.  Leaving the channel, links' lines
\* and lines nobody else reads start the count again, as in the code.
MonologuesEnd ==
  [][\A c \in Channel, n \in Node :
       /\ monologue'[c][n] > monologue[c][n]
       /\ monologue'[c][n] >= channels[c].max
       /\ "MODERATE" \notin channels[c].access[n]
       /\ ~crashed'
       => /\ n \in signalled'
          /\ \/ "BANNED" \in channels'[c].access[n]
             \/ testFlag(n, "CHN_ALLMODERATE")]_<<vars, monologue>>
=============================================================================
