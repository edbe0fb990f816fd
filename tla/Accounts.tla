------------------------------ MODULE Accounts ------------------------------
(***************************************************************************)
(* The accounts of users: a record per user in user.dat, a copy of it in   *)
(* the node of whoever is online, and copies in the hands of those who log *)
(* in, log out, edit a record or give credits.  The file is locked while a *)
(* record is read or written and never between the two.  Every movement    *)
(* but the wage is entered in bank.log before the account is changed;      *)
(* "book" is what those entries come to.  A record in shared memory is     *)
(* locked by nobody: its balance is read and written in two steps.  Left   *)
(* out: disabled users, who have nothing to save, a system without a guest *)
(* account, ways to pay other than the account itself, what is bought.     *)
(***************************************************************************)
EXTENDS Integers, FiniteSets, FiniteSetsExt, Functions

CONSTANTS
  Nodes, Users,
  Sysops,                  \* users with /CREDIT and /U
  Amounts,                 \* sizes of movements
  account_overdraft_limit,
  MaxMoves                 \* bound: movements entered in bank.log

NoNode == -1
GUEST_USER_NUMBER == -1

\* Within MaxMoves nobody comes to his limit.
ASSUME AccountsAssumption ==
  /\ IsFiniteSet(Nodes) /\ Nodes \subseteq Nat /\ Sysops \subseteq Users
  /\ IsFiniteSet(Users) /\ Users \subseteq Nat
  /\ IsFiniteSet(Amounts) /\ Amounts \subseteq Nat \ {0} /\ MaxMoves \in Nat
  /\ account_overdraft_limit \in Nat
  /\ \A a \in Amounts : a * MaxMoves < account_overdraft_limit

VARIABLES
  file,       \* the user file: user_info of every user
  info,       \* shared: userdata.user_info of every node
  logged,     \* shared: logged_in_flag of every node
  status,     \* shared: whether the node is anything but EMPTY
  at,         \* what the client of a node is doing
  rec,        \* a client's own copy of a record
  user,       \* the number of the user a client is busy with
  ref,        \* t_user of /CREDIT and line of /U: a node or NoNode
  sum,        \* what a client has entered but not booked: out of its own
              \* account, and into that of "user"
  seen,       \* the balance a client has read and is about to replace
  book,       \* bank.log
  moves,      \* movements so far
  disturbed,  \* history: users whose account two clients had at once, or one
              \* who was cut off
  mixed       \* history: users whose node was given away under a /CREDIT or a
              \* logout

vars == <<file, info, logged, status, at, rec, user, ref, sum, seen, book, moves,
          disturbed, mixed>>
history == <<disturbed, mixed>>
shared == <<file, info, logged, status>>
hands  == <<rec, user, ref, sum, seen>>
ledger == <<book, moves>>

Record(u, b) == [user_no |-> u, account_balance |-> b]
NoSum == [out |-> 0, in |-> 0]

LoginPhases  == {"password", "checking", "entering"}
CreditPhases == {"loading", "credit", "paying", "deducting", "applying", "adding",
                 "storing", "saving"}
EditPhases   == {"editing", "filing", "telling"}

Init ==
  /\ file = [u \in Users |-> Record(u, 0)]
  /\ \E u \in Users :
       /\ info = [n \in Nodes |-> Record(u, 0)]
       /\ rec  = [n \in Nodes |-> Record(u, 0)]
       /\ user = [n \in Nodes |-> u]
  /\ logged = [n \in Nodes |-> FALSE]
  /\ status = [n \in Nodes |-> FALSE]
  /\ at = [n \in Nodes |-> "off"]
  /\ ref = [n \in Nodes |-> NoNode]
  /\ sum = [n \in Nodes |-> NoSum]
  /\ seen = [n \in Nodes |-> 0]
  /\ book = [u \in Users |-> 0]
  /\ moves = 0
  /\ disturbed = {}
  /\ mixed = {}

-----------------------------------------------------------------------------
(* Who holds a copy of the record of a user.                               *)

Online(u)  == {n \in Nodes : logged[n] /\ at[n] # "posing" /\ info[n].user_no = u}
Login(u)   == {n \in Nodes : at[n] \in LoginPhases /\ rec[n].user_no = u}
Writing(u) == {n \in Nodes : at[n] = "writing" /\ user[n] = u}
Editing(u) == {n \in Nodes : at[n] \in EditPhases /\ rec[n].user_no = u}
Crediting(u) == {n \in Nodes : at[n] \in CreditPhases /\ user[n] = u}

\* A guest is logged in there, with what the last user has left behind.
Posing(u) == {n \in Nodes : at[n] = "posing" /\ info[n].user_no = u}

\* A copy of one's own, not the one in shared memory.
Loaded(u) == {n \in Crediting(u) : ref[n] = NoNode}

Private(u) == Login(u) \union Writing(u) \union Editing(u) \union Loaded(u) \union Posing(u)
Held(u)    == Private(u) \union Online(u) \union Crediting(u)

First(nodes) == IF nodes = {} THEN NoNode ELSE Min(nodes)

\* Mutant: the flag is not looked at.
is_user_left(u) ==
  First({n \in Nodes : u # GUEST_USER_NUMBER /\ status[n] /\ info[n].user_no = u})

is_user_online(u) ==
  First({n \in Nodes : /\ u # GUEST_USER_NUMBER
                       /\ status[n] /\ logged[n] /\ info[n].user_no = u})

Disturbs(users) == disturbed' = disturbed \union users

\* The user, if there is anybody else.
Shared(u, others) == IF others = {} THEN {} ELSE {u}

\* Each holds a lock on the file.
read_user_record(n, u) == rec' = [rec EXCEPT ![n] = file[u]]

\* The guest has no place in the file.
save_user_record(u, r) == file' = [v \in Users |-> IF v = u THEN r ELSE file[v]]

\* The record read under a number may be that of another user by now.
Reads(n, u) ==
  /\ read_user_record(n, u)
  /\ Disturbs(Shared(u, Held(u)) \union ({file[u].user_no} \ {u}))

Becomes(n, from, to) == at[n] \in from /\ at' = [at EXCEPT ![n] = to]

Enters(p, out, u, in) ==
  /\ moves < MaxMoves /\ moves' = moves + 1
  /\ book' = [v \in Users |-> book[v] - (IF v = p THEN out ELSE 0)
                                     + (IF v = u THEN in ELSE 0)]

-----------------------------------------------------------------------------
(* The server and the beginning of a client.                               *)

\* At the client's death; and while it still runs, when a telnet assistant ends.
clear_node_data(n) ==
  /\ status[n] /\ status' = [status EXCEPT ![n] = FALSE]
  /\ UNCHANGED <<file, info, logged, at, hands, ledger, history>>

\* A new client: init_mynode_struct, then CONNECTED.
init_mynode_struct(n) ==
  /\ at[n] = "off" /\ (logged[n] \/ ~status[n])
  /\ logged' = [logged EXCEPT ![n] = FALSE]
  /\ status' = [status EXCEPT ![n] = TRUE]
  /\ UNCHANGED <<file, info, at, hands, ledger, history>>

-----------------------------------------------------------------------------
(* pass_prompt and login_accounting_check.                                 *)

\* Before the password is asked for.
ReadRecord(n, u) ==
  /\ ~logged[n] /\ Becomes(n, {"off"}, "password")
  /\ Reads(n, u)
  /\ UNCHANGED <<shared, user, ref, sum, seen, ledger, mixed>>

CheckPassword(n) ==
  /\ \E to \in {"checking", "off"} : Becomes(n, {"password"}, to)
  /\ UNCHANGED <<shared, hands, ledger, history>>

Book(n, a) == rec' = [rec EXCEPT ![n].account_balance = @ + a]

\* What payment_selection lets him pay from his account.
Payable(balance, cost) ==
  LET available == IF balance > 0 THEN balance ELSE account_overdraft_limit + balance
  IN  {a \in 1 .. cost : a <= available}

\* Wage and purchases at login, on the copy that was read.
PayWage(n, a) ==
  /\ at[n] = "checking"
  /\ Enters(rec[n].user_no, 0, rec[n].user_no, a) /\ Book(n, a)
  /\ UNCHANGED <<shared, at, user, ref, sum, seen, history>>

PurchaseAtLogin(n, a) ==
  /\ at[n] = "checking" /\ a \in Payable(rec[n].account_balance, a)
  /\ Enters(rec[n].user_no, a, rec[n].user_no, 0) /\ Book(n, -a)
  /\ UNCHANGED <<shared, at, user, ref, sum, seen, history>>

\* Some /CREDIT still points to the node: its user has lost his record there.
TakenOver(n, u) ==
  {user[s] : s \in {t \in Nodes : at[t] \in CreditPhases /\ ref[t] = n}} \ {u}

Replaces(n, r) ==
  /\ info' = [info EXCEPT ![n] = r]
  /\ Disturbs(TakenOver(n, r.user_no)) /\ mixed' = mixed \union TakenOver(n, r.user_no)

\* set_online_info, then logged_in_flag, then ACTIVE.
SetOnlineInfo(n) ==
  /\ Becomes(n, {"checking"}, "entering")
  /\ Replaces(n, rec[n])
  /\ UNCHANGED <<file, logged, status, hands, ledger>>

LogIn(n) ==
  /\ Becomes(n, {"entering"}, "entered")
  /\ logged' = [logged EXCEPT ![n] = TRUE]
  /\ UNCHANGED <<file, info, status, hands, ledger, history>>

\* setup_guest_login: first the flag, then the record.
GuestLogsIn(n) ==
  /\ ~logged[n] /\ Becomes(n, {"off"}, "posing")
  /\ logged' = [logged EXCEPT ![n] = TRUE]
  /\ LET u == info[n].user_no IN Disturbs(Shared(u, Held(u)))
  /\ UNCHANGED <<file, info, status, hands, ledger, mixed>>

setup_guest_login(n) ==
  /\ Becomes(n, {"posing"}, "entered")
  /\ Replaces(n, Record(GUEST_USER_NUMBER, 0))
  /\ UNCHANGED <<file, logged, status, hands, ledger>>

Activate(n) ==
  /\ Becomes(n, {"entered"}, "online")
  /\ status' = [status EXCEPT ![n] = TRUE]
  /\ UNCHANGED <<file, info, logged, hands, ledger, history>>

-----------------------------------------------------------------------------
(* save_online_user, called at logout and by the handlers of SIGHUP and    *)
(* SIGUSR1, wherever they interrupt the client.                            *)

\* What the client leaves undone, or takes for its own.
Cut(n) ==
  LET u == user[n]
  IN  CASE at[n] \in LoginPhases -> {v \in Users : v = rec[n].user_no /\ rec[n] # file[v]}
        [] at[n] = "posing" -> {info[n].user_no}
        [] at[n] = "writing" -> {v \in {u} : rec[n] # file[v]}
        [] at[n] \in {"charging", "charged", "paying", "deducting", "applying", "adding"} ->
             (IF sum[n].out > 0 THEN {info[n].user_no} ELSE {})
               \union (IF sum[n].in > 0 THEN {u} ELSE {})
        [] at[n] \in {"storing", "saving"} -> IF Online(u) = {} THEN {u} ELSE {}
        [] OTHER -> {}

SaveStarts(n) ==
  /\ logged[n] /\ at[n] # "off" /\ info[n].user_no # GUEST_USER_NUMBER
  /\ at' = [at EXCEPT ![n] = "leaving"]
  /\ user' = [user EXCEPT ![n] = info[n].user_no]
  /\ sum' = [sum EXCEPT ![n] = NoSum]
  /\ Disturbs(Cut(n))
  /\ UNCHANGED <<shared, rec, ref, seen, ledger, mixed>>

\* There is nothing to save; the flag stays.
GuestLeaves(n) ==
  /\ logged[n] /\ at[n] # "off" /\ info[n].user_no = GUEST_USER_NUMBER
  /\ at' = [at EXCEPT ![n] = "off"]
  /\ sum' = [sum EXCEPT ![n] = NoSum]
  /\ Disturbs(Cut(n))
  /\ UNCHANGED <<shared, rec, user, ref, seen, ledger, mixed>>

\* get_online_info replaces all of user_info that was read.
GetOnlineInfo(n) ==
  /\ Becomes(n, {"leaving"}, "copied")
  /\ rec' = [rec EXCEPT ![n] = info[n]]
  /\ UNCHANGED <<shared, user, ref, sum, seen, ledger, history>>

LogOut(n) ==
  /\ Becomes(n, {"copied"}, "writing")
  /\ logged' = [logged EXCEPT ![n] = FALSE]
  /\ UNCHANGED <<file, info, status, hands, ledger, history>>

SaveEnds(n) ==
  /\ Becomes(n, {"writing"}, "off")
  /\ save_user_record(user[n], rec[n])
  /\ UNCHANGED <<info, logged, status, hands, ledger, history>>

\* A signal when logged_in_flag is not set, or not any more: nothing is saved.
DieUnsaved(n) ==
  /\ ~logged[n] /\ Becomes(n, LoginPhases \union {"writing"}, "off")
  /\ Disturbs(Cut(n))
  /\ UNCHANGED <<shared, hands, ledger, mixed>>

-----------------------------------------------------------------------------
(* cmd_bank, on the record in shared memory.                               *)

Purchase(n, a) ==
  /\ Becomes(n, {"online"}, "charging")
  /\ a \in Payable(info[n].account_balance, a)
  /\ Enters(info[n].user_no, a, info[n].user_no, 0)
  /\ sum' = [sum EXCEPT ![n].out = a]
  /\ UNCHANGED <<shared, rec, user, ref, seen, history>>

\* += and -= in shared memory: the balance is read, then replaced.
Fetch(n, m) ==
  /\ \/ Becomes(n, {"charging"}, "charged") /\ m = n
     \/ Becomes(n, {"paying"}, "deducting") /\ m = n
     \/ Becomes(n, {"applying"}, "adding") /\ m = ref[n]
  /\ seen' = [seen EXCEPT ![n] = info[m].account_balance]
  /\ UNCHANGED <<shared, rec, user, ref, sum, ledger, history>>

SetBalance(m, b) == info' = [info EXCEPT ![m].account_balance = b]

\* Somebody else has changed the balance since it was read.
Raced(n, m) == IF seen[n] = info[m].account_balance THEN {} ELSE {info[m].user_no}

Charge(n) ==
  /\ at[n] \in {"charged", "deducting"}
  /\ at' = [at EXCEPT ![n] = IF @ = "charged" THEN "online" ELSE "applying"]
  /\ SetBalance(n, seen[n] - sum[n].out)
  /\ sum' = [sum EXCEPT ![n].out = 0]
  /\ Disturbs(Raced(n, n))
  /\ UNCHANGED <<file, logged, status, rec, user, ref, seen, ledger, mixed>>

-----------------------------------------------------------------------------
(* cmd_credit.                                                             *)

Sysop(n) == info[n].user_no \in Sysops

\* A user number was typed; another credit may hold the record in shared memory.
LookForUser(n, u) ==
  /\ Sysop(n) /\ Becomes(n, {"online", "credit"}, "loading")
  /\ user' = [user EXCEPT ![n] = u]
  /\ ref' = [ref EXCEPT ![n] = is_user_online(u)]
  /\ Disturbs(Shared(u, IF is_user_online(u) = NoNode
                        THEN (Held(u) \ {n}) \union Online(u) ELSE Private(u) \ {n}))
  /\ UNCHANGED <<shared, rec, sum, seen, ledger, mixed>>

LoadUser(n) ==
  /\ Becomes(n, {"loading"}, "credit")
  /\ read_user_record(n, user[n])
  /\ UNCHANGED <<shared, user, ref, sum, seen, ledger, history>>

QuitCredit(n) ==
  /\ Becomes(n, {"credit"}, "online")
  /\ UNCHANGED <<shared, hands, ledger, history>>

\* credit_movement_selection: "in" credits, "out" of them from the own account.
\* More than balance and overdraft limit if they are chosen in several parts.
Movement(n, out, in) ==
  /\ Becomes(n, {"credit"}, "paying")
  /\ out > 0 => info[n].account_balance + account_overdraft_limit > 0
  /\ Enters(info[n].user_no, out, user[n], in)
  /\ sum' = [sum EXCEPT ![n] = [out |-> out, in |-> in]]
  /\ UNCHANGED <<shared, rec, user, ref, seen, history>>

\* To the copy that was read.
ApplyLent(n) ==
  /\ ref[n] = NoNode /\ Becomes(n, {"applying"}, "storing")
  /\ Book(n, sum[n].in)
  /\ sum' = [sum EXCEPT ![n].in = 0]
  /\ UNCHANGED <<shared, user, ref, seen, ledger, history>>

\* Into an account that is being written to the disk, or that of another user.
Misapplied(n) ==
  IF info[ref[n]].user_no # user[n] THEN {user[n], info[ref[n]].user_no}
  ELSE IF at[ref[n]] \in {"copied", "writing"} THEN {user[n]} ELSE {}

\* To the record in shared memory.
ApplyPointed(n) ==
  /\ Becomes(n, {"adding"}, "storing")
  /\ SetBalance(ref[n], seen[n] + sum[n].in)
  /\ sum' = [sum EXCEPT ![n].in = 0]
  /\ Disturbs(Misapplied(n) \union Raced(n, ref[n]))
  /\ UNCHANGED <<file, logged, status, rec, user, ref, seen, ledger, mixed>>

\* A new class or expiration date is saved in the same way.
ChangeAccount(n) ==
  /\ Becomes(n, {"credit"}, "storing")
  /\ UNCHANGED <<shared, hands, ledger, history>>

TakeRecord(n) ==
  /\ Becomes(n, {"storing"}, "saving")
  /\ rec' = IF ref[n] = NoNode THEN rec ELSE [rec EXCEPT ![n] = info[ref[n]]]
  /\ UNCHANGED <<shared, user, ref, sum, seen, ledger, history>>

\* The record in shared memory has changed since, and was saved before this one.
Overtaken(n) ==
  /\ ref[n] # NoNode /\ rec[n] # info[ref[n]]
  /\ Online(user[n]) = {} /\ Writing(user[n]) = {}

SaveUser(n) ==
  /\ Becomes(n, {"saving"}, "credit")
  /\ save_user_record(user[n], rec[n])
  /\ Disturbs(IF Overtaken(n) THEN {user[n]} ELSE {})
  /\ UNCHANGED <<info, logged, status, hands, ledger, mixed>>

-----------------------------------------------------------------------------
(* ue_user_edit_prompt.  It does not show the balance, and saves it.       *)

EditUser(n, u) ==
  /\ Sysop(n) /\ Becomes(n, {"online"}, "editing")
  /\ Reads(n, u)
  /\ UNCHANGED <<shared, user, ref, sum, seen, ledger, mixed>>

EditAborted(n) ==
  /\ Becomes(n, {"editing"}, "online")
  /\ UNCHANGED <<shared, hands, ledger, history>>

EditDone(n) ==
  /\ Becomes(n, {"editing"}, "filing")
  /\ ref' = [ref EXCEPT ![n] = is_user_online(rec[n].user_no)]
  /\ UNCHANGED <<shared, rec, user, sum, seen, ledger, history>>

SaveEdited(n) ==
  /\ at[n] = "filing"
  /\ at' = [at EXCEPT ![n] = IF ref[n] = NoNode THEN "online" ELSE "telling"]
  /\ save_user_record(rec[n].user_no, rec[n])
  /\ UNCHANGED <<info, logged, status, hands, ledger, history>>

\* A client about to save the record of its node saves this one instead.
Misled(m, u) == IF at[m] = "leaving" THEN {user[m]} \ {u} ELSE {}

\* Whoever is there by now.
TellNode(n) ==
  /\ Becomes(n, {"telling"}, "online")
  /\ info' = [info EXCEPT ![ref[n]] = rec[n]]
  /\ LET u == rec[n].user_no
     IN  /\ mixed' = mixed \union TakenOver(ref[n], u) \union Misled(ref[n], u)
         /\ Disturbs({info[ref[n]].user_no} \union TakenOver(ref[n], u)
                                          \union Misled(ref[n], u))
  /\ UNCHANGED <<file, logged, status, hands, ledger>>

-----------------------------------------------------------------------------
Client(n) ==
  \/ \E u \in Users : ReadRecord(n, u) \/ LookForUser(n, u) \/ EditUser(n, u)
  \/ init_mynode_struct(n) \/ CheckPassword(n) \/ SetOnlineInfo(n) \/ LogIn(n)
  \/ GuestLogsIn(n) \/ setup_guest_login(n) \/ Activate(n)
  \/ \E a \in Amounts : PayWage(n, a) \/ PurchaseAtLogin(n, a) \/ Purchase(n, a)
  \/ SaveStarts(n) \/ GuestLeaves(n) \/ GetOnlineInfo(n) \/ LogOut(n) \/ SaveEnds(n)
  \/ DieUnsaved(n)
  \/ \E m \in Nodes : Fetch(n, m)
  \/ Charge(n) \/ LoadUser(n) \/ QuitCredit(n)
  \/ \E in \in Amounts : \E out \in 0 .. in : Movement(n, out, in)
  \/ ApplyLent(n) \/ ApplyPointed(n) \/ ChangeAccount(n) \/ TakeRecord(n) \/ SaveUser(n)
  \/ EditAborted(n) \/ EditDone(n) \/ SaveEdited(n) \/ TellNode(n)

Next == \E n \in Nodes : Client(n) \/ clear_node_data(n)

Spec == Init /\ [][Next]_vars

-----------------------------------------------------------------------------
(* Where the record of a user is up to date.                               *)

Unsaved(u) == {n \in Crediting(u) : at[n] \in {"storing", "saving"}}

Latest(u) ==
  IF Online(u) # {} THEN info[Min(Online(u))]
  ELSE IF Login(u) \union Writing(u) # {}
       THEN rec[Min(Login(u) \union Writing(u))]
  ELSE IF Unsaved(u) # {}
       THEN LET n == Min(Unsaved(u)) IN IF ref[n] = NoNode THEN rec[n] ELSE info[ref[n]]
  ELSE file[u]

\* What each client has entered for a user and not booked yet, in and out.
Coming(u) == [n \in Nodes |-> IF user[n] = u THEN sum[n].in ELSE 0]
Going(u)  == [n \in Nodes |-> IF info[n].user_no = u THEN sum[n].out ELSE 0]

Unbooked(u) == SumFunction(Coming(u)) - SumFunction(Going(u))

TypeOK ==
  LET Numbers == Users \union {GUEST_USER_NUMBER}
      Records == [user_no : Numbers, account_balance : Int]
  IN  /\ file \in [Users -> Records] /\ info \in [Nodes -> Records]
      /\ rec \in [Nodes -> Records]
      /\ logged \in [Nodes -> BOOLEAN] /\ status \in [Nodes -> BOOLEAN]
      /\ at \in [Nodes -> LoginPhases \union CreditPhases \union EditPhases
                   \union {"off", "posing", "entered", "online", "charging", "charged",
                           "leaving", "copied", "writing"}]
      /\ user \in [Nodes -> Users] /\ ref \in [Nodes -> Nodes \union {NoNode}]
      /\ sum \in [Nodes -> [out : Nat, in : Nat]] /\ seen \in [Nodes -> Int]
      /\ book \in [Users -> Int] /\ moves \in 0 .. MaxMoves
      /\ disturbed \subseteq Numbers /\ mixed \subseteq Users

\* user.c: under a number lies the record of the user of that number, whoever
\* saves it, two at once or cut off half-way.  Excepted are users whose node was
\* given to somebody else while a /CREDIT pointed to it, or was told another
\* user's record by /U: there the code does save one user's record as another's.
RecordsAreOwn == \A u \in Users \ mixed : file[u].user_no = u

\* accounting.c: whatever bank.log says a user got and paid is in his account,
\* wherever that is just now: no credit to somebody who is online, comes or goes,
\* no purchase and no hang-up loses or repeats one.  Excepted are users of whose
\* record two clients had copies of their own (two logins, an edit or a credit
\* across a login or a logout, a credit when the server has cleared the node of
\* one who is still on it), two of whose movements were booked at the same
\* instant, and those who are cut off, or whose benefactor is, between the entry
\* and the account or between the logout and the file.
BooksBalance ==
  \A u \in Users \ disturbed : Latest(u).account_balance + Unbooked(u) = book[u]

\* The two together, for every state, over records that are records.
AccountsInOrder == TypeOK /\ RecordsAreOwn /\ BooksBalance
=============================================================================
