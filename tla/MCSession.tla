----------------------------- MODULE MCSession -----------------------------
(* One client, one other user, two channels. *)
EXTENDS Session

\* A user who may open channels, and one who may not.
MCClasses == {{}, {"CHN_ADDCHANNEL", "CHN_MODERATE"}}

\* No action reads sent or signalled; the client tells refusals from other
\* packets and nothing more; who has hung up has no channel.
WhatMatters ==
  <<status, privs, channels, crashed, mode, old_channel_name, up, hasty, told, lost, missed,
    IF mode = "off" THEN {} ELSE <<cur_chan, new_chan>>,
    [i \in DOMAIN down |->
       IF down[i].kind \in Refusals THEN "refusal"
       ELSE <<down[i].kind, down[i].chan>>]>>

OtherSeats == {<<n, c>> \in (Node \ {me}) \X Channel : n \in channels[c].users}

\* Bounds: the other user may open channels and is on one at a time, one line
\* is on its way at a time, and a user who is hasty is alone and types none.
Bounded ==
  /\ \A n \in Node \ {me} : Online(n) => privs[n] # {}
  /\ Cardinality(OtherSeats) <= 1
  /\ Cardinality({i \in DOMAIN up : up[i].kind = "MESSAGE"}) <= 1
  /\ hasty => /\ \A n \in Node \ {me} : status[n] = "EMPTY"
              /\ \A i \in DOMAIN up : up[i].kind # "MESSAGE"
=============================================================================
