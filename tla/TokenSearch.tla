---------------------------- MODULE TokenSearch ----------------------------
(***************************************************************************)
(* get_token: the first word of a packet is looked up in a table of tokens *)
(* by halving, one comparison per step.  Words are numbers: their places   *)
(* in the dictionary, so that strcmp is the order of the numbers.  Entries *)
(* are numbered from 0 as in the code.                                     *)
(***************************************************************************)
EXTENDS Integers, Sequences

CONSTANTS
  Table,  \* the tables of tokens
  Word    \* the words looked for

ASSUME TokenAssumption ==
  /\ Table \subseteq Seq(Int) \ {<<>>}
  /\ Word \subseteq Int

VARIABLES
  table, word,  \* what is looked for and where
  first, last,  \* between which entries
  mid, lmid,    \* the last entry compared, and the one before
  found,        \* the entry found, -1 if there is none
  searching

token_vars == <<table, word, first, last, mid, lmid, found, searching>>

Idle ==
  /\ table = <<>> /\ word = 0 /\ first = 0 /\ last = 0
  /\ mid = 0 /\ lmid = -1 /\ found = -1 /\ searching = FALSE

\* Mutant: one entry less is searched.
LastEntry(t) == Len(t) - 1

number(t) == Len(t)

get_token(t, w) ==
  /\ ~searching
  /\ table' = t /\ word' = w
  /\ lmid' = -1 /\ mid' = 0 /\ first' = 0 /\ last' = number(t)
  /\ found' = -1 /\ searching' = TRUE

\* Mutant: the search ends as soon as two entries are left.
NearlyHalved == last - first <= 2

\* Mutant: the search ends when nothing is left.
AllHalved == first >= last

\* The same entry twice.
Halved == lmid = mid

GiveUp ==
  /\ searching /\ Halved
  /\ searching' = FALSE
  /\ UNCHANGED <<table, word, first, last, mid, lmid, found>>

Middle(f, l) == (f + l) \div 2

\* Mutant: the upper half begins behind the entry compared.
BehindMiddle(m) == m + 1

UpperHalf(m) == m

Compare ==
  /\ searching /\ ~Halved
  /\ lmid' = mid /\ mid' = Middle(first, last)
  /\ LET token == table[mid' + 1]
     IN  \/ /\ word = token
            /\ found' = mid' /\ searching' = FALSE
            /\ UNCHANGED <<first, last>>
         \/ /\ word < token
            /\ last' = mid'
            /\ UNCHANGED <<first, found, searching>>
         \/ /\ word > token
            /\ first' = UpperHalf(mid')
            /\ UNCHANGED <<last, found, searching>>
  /\ UNCHANGED <<table, word>>

TokenStep == Compare \/ GiveUp

TokenNext == TokenStep \/ \E t \in Table, w \in Word : get_token(t, w)

TokenSpec == Idle /\ [][TokenNext]_token_vars /\ WF_token_vars(TokenStep)

-----------------------------------------------------------------------------
(* Entry k is in its place: the search is never sent the wrong way.        *)
InPlace(t, k) ==
  \A j \in DOMAIN t : (j < k => t[j] < t[k]) /\ (j > k => t[j] > t[k])

\* The search stays within the table: no entry past its end is compared.
TokenTypeOK ==
  /\ searching \in BOOLEAN /\ word \in Int /\ table \in Seq(Int)
  /\ first \in Nat /\ last \in Nat /\ first <= last /\ last <= Len(table)
  /\ mid \in Nat /\ lmid \in Int /\ found \in Int
  /\ searching => mid < Len(table) /\ (first < last \/ last = 0)

\* An entry in its place is always found, whatever disorder there is around
\* it, and an entry that is found is the right one.
EntriesFound ==
  ~searching =>
    IF found = -1
      THEN \A k \in DOMAIN table : InPlace(table, k) => table[k] # word
      ELSE found + 1 \in DOMAIN table /\ table[found + 1] = word

\* Every search comes to an end, also in a table that is out of order.
SearchEnds == searching ~> ~searching
=============================================================================
