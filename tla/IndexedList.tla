---------------------------- MODULE IndexedList ----------------------------
(***************************************************************************)
(* The list class: an array of records that grows and shrinks, and sorted  *)
(* indexes into it.  The users of channels, the channels, squelched nodes, *)
(* commands and state machines are kept in such lists.  A deleted record   *)
(* is replaced by the last one, in the array and in every index.  Elements *)
(* are numbered from 0 as in the code.                                     *)
(***************************************************************************)
EXTENDS Integers, Sequences, FiniteSets, SequencesExt, FiniteSetsExt

CONSTANTS
  Record,
  Order,        \* the comparison functions
  Key,          \* a comparison function compares these
  MAX_INDEXES,
  MaxRecords    \* bound: how many records a list has

ASSUME ListAssumption ==
  /\ Key \in [Order -> [Record -> Int]]
  /\ MAX_INDEXES \in Nat \ {0} /\ MaxRecords \in Nat

VARIABLES
  data,      \* the first cur_no records
  alloc_no,  \* how many there is room for
  index,     \* the comparison function and the index_list of every index
  answer     \* what the last search returned

list_vars == <<data, alloc_no, index, answer>>

cur_no == Len(data)

new_list == data = <<>> /\ alloc_no = 0 /\ index = <<>> /\ answer = <<>>

-----------------------------------------------------------------------------
(* Searching an index: its records in order are s.                         *)

Records(ind) == [k \in DOMAIN ind.list |-> data[ind.list[k] + 1]]

cf(o, r, s) == Key[o][r] - Key[o][s]

\* How r compares with element k.
Srch(o, r, s, k) == cf(o, r, s[k + 1])

Inexact(at) == [exact |-> FALSE, at |-> at]
Exact(at)   == [exact |-> TRUE, at |-> at]

\* The bounds are halved until the same middle comes again.
Bounds(n) == [first : 0 .. n, last : 0 .. n, last_mid : -1 .. n]

Bisect(o, r, s) ==
  LET halve[b \in Bounds(Len(s))] ==
        LET mid  == (b.first + b.last) \div 2
            srch == Srch(o, r, s, mid)
        IN  IF mid = b.last_mid THEN Inexact(mid)
            ELSE IF srch = 0 THEN Exact(mid)
            ELSE IF srch < 0 THEN halve[[first |-> b.first, last |-> mid, last_mid |-> mid]]
            ELSE halve[[first |-> mid, last |-> b.last, last_mid |-> mid]]
  IN  halve

search_list_for(o, r, s) ==
  IF s = <<>> THEN Inexact(0)
  ELSE Bisect(o, r, s)[[first |-> 0, last |-> Len(s), last_mid |-> -1]]

\* The first of Stops at or behind a place and the last at or before it, or the
\* end the scan runs into.
ScanUp(from, to, Stops)   == Min({k \in from .. to : k = to \/ k \in Stops})
ScanDown(from, to, Stops) == Max({k \in to .. from : k = to \/ k \in Stops})

Elements(s) == 0 .. Len(s) - 1

\* Where this very record is, among those with its key.
find_exact_in_index(o, r, s) ==
  LET found == search_list_for(o, r, s)
      Here  == {k \in Elements(s) : s[k + 1] = r}
      Other == {k \in Elements(s) : Srch(o, r, s, k) # 0}
      low   == ScanDown(found.at - 1, -1, Here \union Other)
      high  == ScanUp(found.at, Len(s), Here \union Other)
  IN  IF ~found.exact THEN -1
      ELSE IF low \in Here THEN low
      ELSE IF high \in Here THEN high
      ELSE -1

\* Mutant: one of the records with the key of r.
FirstMet(o, r, s) ==
  LET found == search_list_for(o, r, s) IN IF found.exact THEN found.at ELSE -1

\* The first record with the key of r.
find_first(o, r, s) ==
  LET found == search_list_for(o, r, s)
      low   == ScanDown(found.at, 0, {k \in Elements(s) : Srch(o, r, s, k) > 0})
  IN  IF ~found.exact THEN -1
      ELSE ScanUp(low, Len(s), {k \in Elements(s) : Srch(o, r, s, k) <= 0})

\* Behind the last record that is not greater.
find_first_after(o, r, s) ==
  LET found == search_list_for(o, r, s).at
      back  == found > 0 /\ found < Len(s) /\ Srch(o, r, s, found) < 0
  IN  ScanUp(IF back THEN found - 1 ELSE found, Len(s),
             {k \in Elements(s) : Srch(o, r, s, k) < 0})

-----------------------------------------------------------------------------
(* list_qsort: a sequence of numbers of records, between begin and end.    *)

Lists == [1 .. cur_no -> 0 .. cur_no - 1]

Swap(l, i, j) == [l EXCEPT ![i + 1] = l[j + 1], ![j + 1] = l[i + 1]]

\* How element k of l compares with the pivot.
AtPivot(o, pivot, l, k) == cf(o, data[l[k + 1] + 1], pivot)

\* The loop around a swap: what is left of the pivot and what is right of it.
Ends == [list : Lists, fi : 0 .. cur_no, li : -1 .. cur_no - 1]

Partition(o, pivot, begin, end) ==
  LET around[p \in Ends] ==
        LET fi == IF p.fi >= end THEN p.fi
                  ELSE ScanUp(p.fi, end, {k \in 0 .. cur_no - 1 : AtPivot(o, pivot, p.list, k) >= 0})
            li == IF p.li <= begin THEN p.li
                  ELSE ScanDown(p.li, begin, {k \in 0 .. cur_no - 1 : AtPivot(o, pivot, p.list, k) <= 0})
        IN  IF fi <= li
              THEN around[[list |-> Swap(p.list, fi, li), fi |-> fi + 1, li |-> li - 1]]
              ELSE [list |-> p.list, fi |-> fi, li |-> li]
  IN  around

\* What is left of the pivot is sorted, then what is right of it.
Ranges ==
  {q \in [list : Lists, begin : 0 .. cur_no - 1, end : 0 .. cur_no - 1] : q.begin <= q.end}

list_qsort(o) ==
  LET qsort[q \in Ranges] ==
        LET pivot == data[q.list[q.begin + (q.end - q.begin) \div 2 + 1] + 1]
            p     == Partition(o, pivot, q.begin, q.end)
                       [[list |-> q.list, fi |-> q.begin, li |-> q.end]]
            lower == IF p.li > q.begin
                       THEN qsort[[list |-> p.list, begin |-> q.begin, end |-> p.li]]
                       ELSE p.list
        IN  IF p.fi < q.end
              THEN qsort[[list |-> lower, begin |-> p.fi, end |-> q.end]]
              ELSE lower
  IN  qsort

sort_index(o, l) ==
  IF l = <<>> THEN l
  ELSE list_qsort(o)[[list |-> l, begin |-> 0, end |-> Len(l) - 1]]

-----------------------------------------------------------------------------
(* Growing and shrinking.                                                  *)

Grown(n) == IF n = 0 THEN 2 ELSE 2 * n

Shrunk(n, used) == IF used < n \div 4 THEN n \div 4 ELSE n

-----------------------------------------------------------------------------
Answer(a) == answer' = a

Returned == Answer(<<>>)

\* No record is added twice: every caller looks for its key first.
add_list(r) ==
  /\ r \notin ToSet(data) /\ cur_no < MaxRecords
  /\ data' = Append(data, r)
  /\ alloc_no' = IF cur_no + 1 > alloc_no THEN Grown(alloc_no) ELSE alloc_no
  /\ index' = [i \in DOMAIN index |->
       LET at == find_first_after(index[i].order, r, Records(index[i]))
       IN  [index[i] EXCEPT !.list = InsertAt(@, at + 1, cur_no)]]
  /\ Returned

\* realloc() fails, or malloc() of an index.
NoMemory ==
  /\ cur_no + 1 > alloc_no \/ Len(index) < MAX_INDEXES
  /\ Returned
  /\ UNCHANGED <<data, alloc_no, index>>

\* Mutant: the last record keeps its old number.
JustRemoved(ind, indx) ==
  LET del == find_exact_in_index(ind.order, data[indx + 1], Records(ind))
  IN  IF del = -1 THEN ind ELSE [ind EXCEPT !.list = RemoveAt(@, del + 1)]

\* An index without element indx, whose place the last one takes.
Replaced(ind, indx) ==
  LET s    == Records(ind)
      del  == find_exact_in_index(ind.order, data[indx + 1], s)
      repl == find_exact_in_index(ind.order, data[cur_no], s)
  IN  IF del = -1 \/ repl = -1 THEN ind
      ELSE [ind EXCEPT !.list = RemoveAt([@ EXCEPT ![repl + 1] = indx], del + 1)]

delete_list(indx) ==
  /\ index' = [i \in DOMAIN index |-> Replaced(index[i], indx)]
  /\ data' = SubSeq([data EXCEPT ![indx + 1] = data[cur_no]], 1, cur_no - 1)
  /\ alloc_no' = Shrunk(alloc_no, cur_no - 1)
  /\ Returned

\* Users of a list change what it is not sorted by.
Write(indx, r) ==
  /\ r \notin ToSet(data)
  /\ \A i \in DOMAIN index : cf(index[i].order, r, data[indx + 1]) = 0
  /\ data' = [data EXCEPT ![indx + 1] = r]
  /\ Returned
  /\ UNCHANGED <<alloc_no, index>>

add_index(o) ==
  /\ Len(index) < MAX_INDEXES
  /\ index' = Append(index,
       [order |-> o, list |-> sort_index(o, [k \in 1 .. cur_no |-> k - 1])])
  /\ Returned
  /\ UNCHANGED <<data, alloc_no>>

delete_index(i) ==
  /\ index' = RemoveAt(index, i)
  /\ Returned
  /\ UNCHANGED <<data, alloc_no>>

free_list ==
  /\ data' = <<>> /\ alloc_no' = 0 /\ index' = <<>>
  /\ Returned

search_list(i, r) ==
  LET s == Records(index[i])
      found == search_list_for(index[i].order, r, s)
  IN  /\ Answer(IF found.exact THEN <<s[found.at + 1]>> ELSE <<>>)
      /\ UNCHANGED <<data, alloc_no, index>>

FindFirst(i, r) ==
  LET found == find_first(index[i].order, r, Records(index[i]))
  IN  /\ Answer(IF found = -1 THEN <<>> ELSE <<found>>)
      /\ UNCHANGED <<data, alloc_no, index>>

ListNext ==
  \/ free_list \/ NoMemory
  \/ \E r \in Record : add_list(r)
  \/ \E indx \in 0 .. cur_no - 1 :
       delete_list(indx) \/ \E r \in Record : Write(indx, r)
  \/ \E o \in Order : add_index(o)
  \/ \E i \in DOMAIN index :
       delete_index(i) \/ \E r \in Record : search_list(i, r) \/ FindFirst(i, r)

ListSpec == new_list /\ [][ListNext]_list_vars

-----------------------------------------------------------------------------
ListTypeOK ==
  /\ data \in Seq(Record) /\ alloc_no \in Nat
  /\ Len(index) <= MAX_INDEXES
  /\ \A i \in DOMAIN index :
       index[i].order \in Order /\ index[i].list \in Seq(0 .. cur_no - 1)
  /\ Len(answer) <= 1

\* Every index has every record once, in its order: the numbers in it are never
\* those of a record that was deleted or moved.
IndexesSorted ==
  \A i \in DOMAIN index :
    LET l == index[i].list IN
    /\ Len(l) = cur_no /\ ToSet(l) = 0 .. cur_no - 1
    /\ \A j, k \in DOMAIN l : j < k =>
         cf(index[i].order, data[l[j] + 1], data[l[k] + 1]) <= 0

\* There is room for all records, and not for more than four times as many.
Capacity == cur_no <= alloc_no /\ alloc_no <= 4 * cur_no + 3

\* The list in memory is as its functions expect it, whatever was added,
\* deleted or found no memory.
ListInvariant == ListTypeOK /\ IndexesSorted /\ Capacity

\* A list with any indexes behaves as a set of records that is searched by keys:
\* what is there is found, what is not is not, and find_first finds the first.
Abstract == INSTANCE SortedTable WITH
  content <- ToSet(data),
  orders  <- {index[i].order : i \in DOMAIN index}

ImplementsTable == Abstract!Spec
=============================================================================
