---------------------------- MODULE SortedTable ----------------------------
(***************************************************************************)
(* What the list class promises: a set of records that can be looked up by *)
(* several keys at once.  Adding may fail for want of memory; deleting one *)
(* of two indexes with the same order leaves the order.                    *)
(***************************************************************************)
EXTENDS Integers, FiniteSets

CONSTANTS Record, Order, Key

VARIABLES
  content,  \* the records
  orders,   \* the orders it can be searched by
  answer    \* what the last search returned

Init == content = {} /\ orders = {} /\ answer = <<>>

Change(c, os) == content' = c /\ orders' = os /\ answer' = <<>>

Add(r) == r \notin content /\ Change(content \union {r}, orders)

Delete(r) == r \in content /\ Change(content \ {r}, orders)

\* A record is written over by one with the same keys.
Update(r, s) ==
  /\ r \in content /\ s \notin content
  /\ \A o \in orders : Key[o][r] = Key[o][s]
  /\ Change((content \ {r}) \union {s}, orders)

AddOrder(o) == Change(content, orders \union {o})

DeleteOrder(o) == o \in orders /\ Change(content, orders \ {o})

Free == Change({}, {})

\* Nothing comes of it.
Fail == Change(content, orders)

Matches(o, r) == {s \in content : Key[o][s] = Key[o][r]}

\* Some record with that key, if there is one.
Search(o, r) ==
  /\ o \in orders
  /\ answer' \in IF Matches(o, r) = {} THEN {<<>>} ELSE {<<s>> : s \in Matches(o, r)}
  /\ UNCHANGED <<content, orders>>

\* How many records come before those with that key, if there are any.
FindFirst(o, r) ==
  /\ o \in orders
  /\ answer' = IF Matches(o, r) = {} THEN <<>>
               ELSE <<Cardinality({s \in content : Key[o][s] < Key[o][r]})>>
  /\ UNCHANGED <<content, orders>>

Next ==
  \/ Free \/ Fail
  \/ \E r \in Record : Add(r) \/ Delete(r) \/ (\E s \in Record : Update(r, s))
  \/ \E o \in Order : AddOrder(o) \/ DeleteOrder(o)
  \/ \E o \in Order, r \in Record : Search(o, r) \/ FindFirst(o, r)

Spec == Init /\ [][Next]_<<content, orders, answer>>
=============================================================================
