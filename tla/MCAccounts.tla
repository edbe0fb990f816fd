----------------------------- MODULE MCAccounts -----------------------------
(* A sysop and a user, on two nodes. *)
EXTENDS Accounts

\* The balance of a disturbed user is not compared with anything any more.
Known(r) == IF r.user_no \in disturbed \union {GUEST_USER_NUMBER} THEN <<r.user_no>>
            ELSE <<r.user_no, r.account_balance>>

KnownBalance(n, u) == IF u \in disturbed \union {GUEST_USER_NUMBER} THEN 0 ELSE seen[n]

\* What a client is busy with.
Busy(n) ==
  CASE at[n] \in LoginPhases \union {"editing"} -> <<Known(rec[n])>>
    [] at[n] = "leaving" -> <<user[n]>>
    [] at[n] \in {"copied", "writing"} -> <<user[n], Known(rec[n])>>
    [] at[n] = "charged" -> <<KnownBalance(n, info[n].user_no)>>
    [] at[n] \in {"filing", "telling"} -> <<Known(rec[n]), ref[n]>>
    [] at[n] = "loading" -> <<user[n], ref[n]>>
    [] at[n] \in CreditPhases \ {"loading"} ->
         <<user[n], ref[n],
           IF ref[n] = NoNode \/ at[n] = "saving" THEN Known(rec[n]) ELSE <<>>,
           CASE at[n] = "deducting" -> KnownBalance(n, info[n].user_no)
             [] at[n] = "adding" -> KnownBalance(n, info[ref[n]].user_no)
             [] OTHER -> 0>>
    [] OTHER -> <<>>

Entered(n) ==
  <<IF info[n].user_no \in disturbed THEN 0 ELSE sum[n].out,
    IF user[n] \in disturbed THEN 0 ELSE sum[n].in>>

PointedTo(n) ==
  \E s \in Nodes : at[s] \in CreditPhases \union {"filing", "telling"} /\ ref[s] = n

\* Everything else is overwritten before it is read, or not seen before it can be
\* changed back (the status of a node whose user is being saved); of the record in
\* a node that nobody uses and nobody points to a guest shows the number only.
WhatMatters ==
  <<[u \in Users |-> Known(file[u])], logged, at, moves, disturbed, mixed,
    [u \in Users |-> IF u \in disturbed THEN 0 ELSE book[u]],
    [n \in Nodes |-> <<Busy(n), Entered(n), status[n] \/ at[n] = "writing">>],
    [n \in Nodes |->
       IF logged[n] \/ at[n] = "entering" \/ PointedTo(n) THEN Known(info[n])
       ELSE <<info[n].user_no>>]>>

\* Bounds: while there is somebody whose account must be right, or whose record
\* must be his own, and then without movements; and a node is not cleared before
\* its user is logged in, when nobody can tell, but after.
Bounded == /\ ~ (Users \subseteq mixed)
           /\ Users \subseteq disturbed => moves = 0
           /\ \A n \in Nodes : at[n] \in LoginPhases => status[n]
=============================================================================
