--------------------------- MODULE AccountsProofs ---------------------------
(***************************************************************************)
(* Proofs about Accounts, for every number of nodes, users and movements:  *)
(* what bank.log says is what the accounts hold.  First, that the sum of a *)
(* function over a finite set changes by as much as its value in one place *)
(* does; then the inductive invariant, who holds which copy of a record;   *)
(* then what each action does to the client that takes it, to the user it  *)
(* is about, and to all the others.                                        *)
(***************************************************************************)
EXTENDS Accounts, FiniteSetTheorems, WellFoundedInduction, TLAPS

-----------------------------------------------------------------------------
(* Sums.  What holds for every finite set is shown by taking a smallest one *)
(* for which it does not hold.                                             *)

Pick(s) == CHOOSE x \in s : TRUE

\* g adds up f over the sets in D.
Adds(g, f, D) ==
  g = [s \in D |-> IF s = {} THEN 0 ELSE f[Pick(s)] + g[s \ {Pick(s)}]]

\* SumFunction is that, over all of the domain.
LEMMA TotalIs ==
  ASSUME NEW S, NEW f \in [S -> Int]
  PROVE  SumFunction(f) = (CHOOSE g : Adds(g, f, SUBSET S))[S]
<1>1. DOMAIN f = S
  OBVIOUS
<1>2. QED
  BY <1>1 DEF SumFunction, SumFunctionOnSet, FoldFunctionOnSet, MapThenFoldSet, Adds, Pick

LEMMA LessIsOrder == \A x, y \in Nat : x < y => <<x, y>> \in OpToRel(<, Nat)
BY Zenon DEF OpToRel

\* Every set of numbers has a least one.
LEMMA LeastExists ==
  ASSUME NEW T \in SUBSET Nat, T # {}
  PROVE  \E k \in T : \A j \in Nat : j < k => j \notin T
<1>1. PICK k \in T : \A j \in T : <<j, k>> \notin OpToRel(<, Nat)
  BY WFMin, NatLessThanWellFounded
<1>2. \A j \in Nat : j < k => j \notin T
  BY <1>1, LessIsOrder
<1> QED
  BY <1>2

LEMMA PickIsMember == \A s : s # {} => Pick(s) \in s
BY DEF Pick

\* One element less.
LEMMA SubsetsSmaller ==
  ASSUME NEW S, IsFiniteSet(S), NEW s \in SUBSET S
  PROVE  /\ IsFiniteSet(s) /\ Cardinality(s) \in Nat /\ Cardinality(s) <= Cardinality(S)
         /\ s # {} => /\ s \ {Pick(s)} \in SUBSET S
                      /\ Cardinality(s \ {Pick(s)}) \in Nat
                      /\ Cardinality(s \ {Pick(s)}) = Cardinality(s) - 1
<1>1. IsFiniteSet(s) /\ Cardinality(s) <= Cardinality(S)
  BY FS_Subset
<1>2. Cardinality(s) \in Nat
  BY <1>1, FS_CardinalityType
<1>3. ASSUME s # {}
      PROVE  /\ s \ {Pick(s)} \in SUBSET S
             /\ Cardinality(s \ {Pick(s)}) \in Nat
             /\ Cardinality(s \ {Pick(s)}) = Cardinality(s) - 1
  <2>1. Pick(s) \in s
    BY <1>3, PickIsMember
  <2>2. IsFiniteSet(s \ {Pick(s)}) /\ Cardinality(s \ {Pick(s)}) = Cardinality(s) - 1
    BY <1>1, <2>1, FS_RemoveElement
  <2> QED
    BY <2>2, FS_CardinalityType
<1> QED
  BY <1>1, <1>2, <1>3

\* What SubsetsSmaller says of the size of a set alone.
LEMMA SizesAreNumbers ==
  ASSUME NEW S, IsFiniteSet(S)
  PROVE  \A s \in SUBSET S : Cardinality(s) \in Nat
BY SubsetsSmaller

\* The sum is defined: no size of sets is the least for which it is not.
LEMMA SumsExist ==
  ASSUME NEW S, IsFiniteSet(S), NEW f \in [S -> Int]
  PROVE  \E g : Adds(g, f, SUBSET S)
<1> DEFINE Small(k) == {s \in SUBSET S : Cardinality(s) <= k}
           Step(g, s) == IF s = {} THEN 0 ELSE f[Pick(s)] + g[s \ {Pick(s)}]
           T == {k \in Nat : ~\E g : Adds(g, f, Small(k))}
<1>1. T = {}
  <2> SUFFICES ASSUME T # {} PROVE FALSE
    OBVIOUS
  <2>1. T \in SUBSET Nat
    OBVIOUS
  <2>2. PICK k \in T : \A j \in Nat : j < k => j \notin T
    BY <2>1, LeastExists
  <2>3. \E g : Adds(g, f, Small(k))
    <3>1. CASE k = 0
      <4> DEFINE h == [s \in Small(k) |-> 0]
      <4>1. \A s \in Small(k) : s = {}
        <5> SUFFICES ASSUME NEW s \in Small(k) PROVE s = {}
          OBVIOUS
        <5>1. IsFiniteSet(s) /\ Cardinality(s) \in Nat /\ Cardinality(s) <= 0
          BY <3>1, SubsetsSmaller
        <5>2. Cardinality(s) = 0
          BY <5>1
        <5> QED
          BY <5>1, <5>2, FS_EmptySet
      <4>2. h = [s \in Small(k) |-> IF s = {} THEN 0 ELSE f[Pick(s)] + h[s \ {Pick(s)}]]
        BY <4>1
      <4> QED
        BY <4>2 DEF Adds
    <3>2. CASE k # 0
      <4>1. k - 1 \in Nat /\ k - 1 < k /\ k \in Nat
        BY <3>2
      <4>2. PICK g : Adds(g, f, Small(k - 1))
        BY <2>2, <4>1
      <4> DEFINE h == [s \in Small(k) |-> Step(g, s)]
      <4>3. ASSUME NEW s \in Small(k)
            PROVE  Step(g, s) = Step(h, s)
        <5>1. CASE s = {}
          BY <5>1
        <5>2. CASE s # {}
          <6>1. s \ {Pick(s)} \in Small(k - 1) /\ s \ {Pick(s)} \in Small(k)
            BY <4>1, <5>2, SubsetsSmaller
          <6>2. g[s \ {Pick(s)}] = Step(g, s \ {Pick(s)})
            BY <4>2, <6>1 DEF Adds
          <6>3. h[s \ {Pick(s)}] = Step(g, s \ {Pick(s)})
            BY <6>1
          <6> QED
            BY <5>2, <6>2, <6>3
        <5> QED
          BY <5>1, <5>2
      <4>4. h = [s \in Small(k) |-> Step(h, s)]
        BY <4>3
      <4> QED
        BY <4>4 DEF Adds
    <3> QED
      BY <3>1, <3>2
  <2> QED
    BY <2>2, <2>3
<1>2. Cardinality(S) \in Nat
  BY FS_CardinalityType
<1>3. Small(Cardinality(S)) = SUBSET S
  BY SubsetsSmaller
<1>4. \E g : Adds(g, f, Small(Cardinality(S)))
  BY <1>1, <1>2
<1> QED
  BY <1>3, <1>4

SumOf(f, S) == CHOOSE g : Adds(g, f, SUBSET S)

LEMMA SumUnfolds ==
  ASSUME NEW S, IsFiniteSet(S), NEW f \in [S -> Int], NEW s \in SUBSET S
  PROVE  SumOf(f, S)[s] =
           IF s = {} THEN 0 ELSE f[Pick(s)] + SumOf(f, S)[s \ {Pick(s)}]
<1> DEFINE g == SumOf(f, S)
<1>1. Adds(g, f, SUBSET S)
  BY SumsExist DEF SumOf
<1> HIDE DEF g
<1>2. g[s] = IF s = {} THEN 0 ELSE f[Pick(s)] + g[s \ {Pick(s)}]
  BY <1>1 DEF Adds
<1> QED
  BY <1>2 DEF g

\* The total of a function that differs from another in one place.
LEMMA TotalChanges ==
  ASSUME NEW S, IsFiniteSet(S), NEW f \in [S -> Int], NEW g \in [S -> Int], NEW n \in S,
         \A m \in S : m # n => g[m] = f[m]
  PROVE  /\ SumFunction(f) \in Int
         /\ SumFunction(g) = SumFunction(f) + g[n] - f[n]
<1> DEFINE F == SumOf(f, S)
           G == SumOf(g, S)
           Right(s) == /\ F[s] \in Int
                       /\ G[s] = F[s] + (IF n \in s THEN g[n] - f[n] ELSE 0)
           T == {Cardinality(s) : s \in {r \in SUBSET S : ~Right(r)}}
<1>1. ASSUME NEW s \in SUBSET S, \A r \in SUBSET S : Cardinality(r) < Cardinality(s) => Right(r)
      PROVE  Right(s)
  <2>1. CASE s = {}
    <3>1. F[s] = 0 /\ G[s] = 0 /\ n \notin s
      BY <2>1, SumUnfolds
    <3> HIDE DEF F, G
    <3> QED
      BY <3>1
  <2>2. CASE s # {}
    <3> DEFINE p == Pick(s)
               r == s \ {Pick(s)}
    <3>1. r \in SUBSET S /\ Cardinality(r) < Cardinality(s)
      BY <2>2, SubsetsSmaller
    <3>2. Right(r)
      BY <1>1, <3>1
    <3>3. F[s] = f[p] + F[r] /\ G[s] = g[p] + G[r]
      BY <2>2, SumUnfolds
    <3>4. p \in s /\ p \in S /\ p \notin r /\ (n \in s => n = p \/ n \in r) /\ (n \in r => n \in s)
      BY <2>2, PickIsMember
    <3>5. f[p] \in Int /\ g[p] \in Int /\ f[n] \in Int /\ g[n] \in Int /\ (p # n => g[p] = f[p])
      BY <3>4
    <3> HIDE DEF p, r, F, G
    <3> QED
      BY <3>2, <3>3, <3>4, <3>5
  <2> QED
    BY <2>1, <2>2
<1> HIDE DEF Right
<1>2. T = {}
  <2> SUFFICES ASSUME T # {} PROVE FALSE
    OBVIOUS
  <2>1. T \in SUBSET Nat
    BY SizesAreNumbers
  <2>2. PICK k \in T : \A j \in Nat : j < k => j \notin T
    BY <2>1, LeastExists
  <2>3. PICK s \in SUBSET S : ~Right(s) /\ Cardinality(s) = k
    BY <2>2
  <2>4. \A r \in SUBSET S : Cardinality(r) < Cardinality(s) => Right(r)
    BY <2>2, <2>3, SizesAreNumbers
  <2> QED
    BY <1>1, <2>3, <2>4
<1>3. Right(S)
  BY <1>2
<1>4. SumFunction(f) = F[S] /\ SumFunction(g) = G[S]
  BY TotalIs DEF SumOf
<1> QED
  BY <1>3, <1>4 DEF Right

\* The total of zeros.
LEMMA TotalOfNothing ==
  ASSUME NEW S, IsFiniteSet(S), NEW f \in [S -> Int], \A m \in S : f[m] = 0
  PROVE  SumFunction(f) = 0
<1> DEFINE F == SumOf(f, S)
           T == {Cardinality(s) : s \in {r \in SUBSET S : F[r] # 0}}
<1>1. ASSUME NEW s \in SUBSET S, \A r \in SUBSET S : Cardinality(r) < Cardinality(s) => F[r] = 0
      PROVE  F[s] = 0
  <2>1. CASE s = {}
    BY <2>1, SumUnfolds
  <2>2. CASE s # {}
    <3>1. F[s \ {Pick(s)}] = 0
      BY <1>1, <2>2, SubsetsSmaller
    <3>2. f[Pick(s)] = 0
      BY <2>2, PickIsMember
    <3>3. F[s] = f[Pick(s)] + F[s \ {Pick(s)}]
      BY <2>2, SumUnfolds
    <3> QED
      BY <3>1, <3>2, <3>3
  <2> QED
    BY <2>1, <2>2
<1> HIDE DEF F
<1>2. T = {}
  <2> SUFFICES ASSUME T # {} PROVE FALSE
    OBVIOUS
  <2>1. T \in SUBSET Nat
    BY SizesAreNumbers
  <2>2. PICK k \in T : \A j \in Nat : j < k => j \notin T
    BY <2>1, LeastExists
  <2>3. PICK s \in SUBSET S : F[s] # 0 /\ Cardinality(s) = k
    BY <2>2
  <2>4. \A r \in SUBSET S : Cardinality(r) < Cardinality(s) => F[r] = 0
    BY <2>2, <2>3, SizesAreNumbers
  <2> QED
    BY <1>1, <2>3, <2>4
<1>3. F[S] = 0
  BY <1>2
<1> QED
  BY <1>3, TotalIs DEF F, SumOf

LEMMA TotalIsNumber ==
  ASSUME NEW S, IsFiniteSet(S), NEW f \in [S -> Int]
  PROVE  SumFunction(f) \in Int
<1>1. CASE S = {}
  <2>1. SumFunction(f) = 0
    BY <1>1, TotalOfNothing
  <2> QED
    BY <2>1
<1>2. CASE S # {}
  BY <1>2, TotalChanges
<1> QED
  BY <1>1, <1>2

-----------------------------------------------------------------------------
(* The inductive invariant.                                                *)

\* Where a client is while the flag of its node is set.
Inside == {"posing", "entered", "online", "charging", "charged", "leaving", "copied"}
            \union CreditPhases \union EditPhases

\* A client that has come in has its flag set, and only a guest leaves it behind;
\* what it has entered and not booked it has while it is about to book it; /U tells a
\* node only of a user who was held twice; and who comes or leaves is who he was,
\* unless /U changed him.
ClientsSound ==
  \A n \in Nodes :
    /\ at[n] \in Inside => logged[n]
    /\ logged[n] => at[n] \in Inside \union {"off"}
    /\ logged[n] /\ at[n] = "off" => info[n].user_no \in disturbed \union {GUEST_USER_NUMBER}
    /\ at[n] \notin {"charging", "charged", "paying", "deducting", "applying", "adding"} =>
         sum[n] = NoSum
    /\ at[n] \in {"charging", "charged"} => sum[n].in = 0
    /\ at[n] \in {"applying", "adding"} => sum[n].out = 0
    /\ at[n] \in {"adding", "telling"} => ref[n] # NoNode
    /\ at[n] \in {"filing", "telling"} /\ ref[n] # NoNode => rec[n].user_no \in disturbed
    /\ at[n] = "entering" => \/ rec[n].user_no = info[n].user_no
                             \/ {rec[n].user_no, info[n].user_no} \subseteq disturbed
    /\ at[n] \in {"leaving", "copied"} => \/ user[n] = info[n].user_no
                                          \/ {user[n], info[n].user_no} \subseteq disturbed

\* Where a user comes, is or goes.
Home(u) == Online(u) \union Login(u) \union Writing(u)

\* A user is in one place, and what is copied there is what was read or left.
AtHome(u) ==
  /\ \A m, n \in Home(u) : m = n
  /\ \A n \in Login(u) : /\ at[n] = "password" => rec[n] = file[u]
                         /\ at[n] = "entering" => info[n] = rec[n]
  /\ \A n \in Online(u) : at[n] = "copied" => rec[n] = info[n]
  /\ \A n \in Writing(u) : rec[n] = info[n] /\ info[n].user_no = u

\* Whoever edits the record has it for himself.
Edited(u) ==
  \A n \in Editing(u) : /\ Home(u) = {} /\ Crediting(u) = {} /\ Editing(u) = {n}
                        /\ Posing(u) = {} /\ rec[n] = file[u]

\* So has a /CREDIT that loaded the record.
Lent(u) ==
  \A n \in Loaded(u) :
    /\ Home(u) = {} /\ Crediting(u) = {n}
    /\ at[n] \in {"credit", "paying", "deducting", "applying"} => rec[n] = file[u]
    /\ rec[n].user_no = u \/ at[n] = "loading"

\* Every other /CREDIT points to the node where the user is or was, whose record
\* is still his, and when nobody changed it since it is the one in the file.
PointedBy(u, n) ==
  /\ info[ref[n]].user_no = u /\ Home(u) \subseteq {ref[n]} /\ Login(u) = {}
  /\ \A k \in Crediting(u) : ref[k] = ref[n]
  /\ at[n] = "saving" => rec[n].user_no = u
  /\ Home(u) = {} /\ Unsaved(u) = {} => info[ref[n]] = file[u]

Pointed(u) == \A n \in Crediting(u) \ Loaded(u) : PointedBy(u, n)

Due(u) == book[u] - Unbooked(u)

\* The account is right wherever the record is up to date.
Balanced(u) ==
  /\ \A n \in Online(u) : info[n].account_balance = Due(u)
  /\ \A n \in Login(u) \union Writing(u) : rec[n].account_balance = Due(u)
  /\ Home(u) = {} =>
       /\ \A n \in Unsaved(u) :
            Due(u) = IF ref[n] = NoNode THEN rec[n].account_balance
                                        ELSE info[ref[n]].account_balance
       /\ Unsaved(u) = {} => file[u].account_balance = Due(u)

UserSound(u) ==
  /\ file[u].user_no = u
  /\ AtHome(u) /\ Edited(u) /\ Lent(u) /\ Pointed(u) /\ Balanced(u)

UsersSound == \A u \in Users \ disturbed : UserSound(u)

AccountsInvariant == TypeOK /\ ClientsSound /\ UsersSound

-----------------------------------------------------------------------------
(* What a user is due, and whom a step does not concern.                   *)

\* What is due to a user changes by what is entered in bank.log, and by what one
\* client enters without booking it.
LEMMA DueMoves ==
  ASSUME TypeOK, TypeOK', NEW u \in Users, NEW n \in Nodes,
         \A m \in Nodes \ {n} : Coming(u)'[m] = Coming(u)[m] /\ Going(u)'[m] = Going(u)[m]
  PROVE  /\ Due(u) \in Int
         /\ Due(u)' = Due(u) + (book'[u] - book[u]) - (Coming(u)'[n] - Coming(u)[n])
                        + (Going(u)'[n] - Going(u)[n])
<1>1. IsFiniteSet(Nodes)
  BY AccountsAssumption
<1>2. Coming(u) \in [Nodes -> Int] /\ Going(u) \in [Nodes -> Int]
  BY DEF Coming, Going, TypeOK
<1>3. Coming(u)' \in [Nodes -> Int] /\ Going(u)' \in [Nodes -> Int]
  BY DEF Coming, Going, TypeOK
<1>4. /\ SumFunction(Coming(u)) \in Int
      /\ SumFunction(Coming(u)') = SumFunction(Coming(u)) + Coming(u)'[n] - Coming(u)[n]
  BY <1>1, <1>2, <1>3, TotalChanges
<1>5. /\ SumFunction(Going(u)) \in Int
      /\ SumFunction(Going(u)') = SumFunction(Going(u)) + Going(u)'[n] - Going(u)[n]
  BY <1>1, <1>2, <1>3, TotalChanges
<1>6. book[u] \in Int /\ book'[u] \in Int
  BY DEF TypeOK
<1>7. /\ Coming(u)[n] \in Int /\ Coming(u)'[n] \in Int
      /\ Going(u)[n] \in Int /\ Going(u)'[n] \in Int
  BY <1>2, <1>3
<1>8. /\ SumFunction(Coming(u))' = SumFunction(Coming(u)')
      /\ SumFunction(Going(u))' = SumFunction(Going(u)')
  OBVIOUS
<1> QED
  BY <1>4, <1>5, <1>6, <1>7, <1>8 DEF Due, Unbooked

\* Who holds a copy is a node, and a /CREDIT has lent it or points to a node.
LEMMA HoldersAreNodes ==
  ASSUME TypeOK
  PROVE  \A u \in Users :
           /\ Home(u) \subseteq Nodes /\ Editing(u) \subseteq Nodes
           /\ Crediting(u) \subseteq Nodes /\ Loaded(u) \subseteq Crediting(u)
           /\ Unsaved(u) \subseteq Crediting(u)
           /\ \A k \in Crediting(u) : user[k] = u
           /\ \A k \in Crediting(u) : ref[k] = NoNode <=> k \in Loaded(u)
           /\ \A k \in Crediting(u) \ Loaded(u) : ref[k] \in Nodes
BY DEF TypeOK, Home, Online, Login, Writing, Editing, Crediting, Loaded, Unsaved

\* Whoever has the record of a user keeps the others from having it.
LEMMA HeldByOne ==
  ASSUME TypeOK, NEW u \in Users, AtHome(u), Edited(u), Lent(u), Pointed(u)
  PROVE  /\ \A n \in Home(u) : Home(u) = {n} /\ Editing(u) = {} /\ Loaded(u) = {}
         /\ Login(u) # {} => Crediting(u) = {} /\ Unsaved(u) = {}
         /\ \A n \in Home(u) : \A k \in Crediting(u) : ref[k] = n
         /\ Editing(u) # {} => Crediting(u) = {}
         /\ \A n \in Loaded(u) : Crediting(u) = {n}
<1>1. \A n \in Home(u) : Home(u) = {n} /\ Editing(u) = {} /\ Loaded(u) = {}
  BY DEF AtHome, Edited, Lent
<1>2. ASSUME NEW n \in Login(u)
      PROVE  Crediting(u) = {} /\ Unsaved(u) = {}
  <2>1. Loaded(u) = {}
    BY <1>1, <1>2 DEF Home
  <2> QED
    BY <1>2, <2>1, HoldersAreNodes DEF Pointed, PointedBy
<1>3. ASSUME NEW n \in Home(u), NEW k \in Crediting(u)
      PROVE  ref[k] = n
  BY <1>1, <1>3 DEF Pointed, PointedBy
<1>4. (Editing(u) # {} => Crediting(u) = {}) /\ \A n \in Loaded(u) : Crediting(u) = {n}
  BY DEF Edited, Lent
<1> QED
  BY <1>1, <1>2, <1>3, <1>4

\* A step takes the record of a user from nobody but an editor or a /CREDIT, ...
FewerHolders(u) ==
  /\ Online(u)' = Online(u) /\ Login(u)' = Login(u) /\ Writing(u)' = Writing(u)
  /\ Editing(u)' \subseteq Editing(u) /\ Crediting(u)' \subseteq Crediting(u)
  /\ Loaded(u)' = Loaded(u) \intersect Crediting(u)' /\ Unsaved(u)' = Unsaved(u)
  /\ Editing(u)' # {} => Posing(u)' \subseteq Posing(u)

\* ... leaves all copies of it as they are, ...
SameCopies(u) ==
  /\ file'[u] = file[u]
  /\ \A m \in Login(u) \union Writing(u) \union Editing(u)' \union Crediting(u)' : rec'[m] = rec[m]
  /\ \A m \in Online(u) \union Writing(u) : info'[m] = info[m]
  /\ \A m \in Online(u) : at'[m] = "copied" => at[m] = "copied" /\ rec'[m] = rec[m]
  /\ \A m \in Login(u) : at'[m] = at[m] /\ (at[m] = "entering" => info'[m] = info[m])
  /\ \A m \in Crediting(u)' \ Loaded(u)' : info'[ref[m]] = info[ref[m]]

\* ... and brings no /CREDIT further than to the ledger.
SameCredits(u) ==
  LET Read == {"credit", "paying", "deducting", "applying"}
  IN  \A m \in Crediting(u)' :
        /\ ref'[m] = ref[m]
        /\ at'[m] # "loading" => at[m] # "loading"
        /\ at'[m] = "saving" => at[m] = "saving"
        /\ at'[m] \in Read => at[m] \in Read

\* Such a step does not concern the user.
LEMMA Bystander ==
  ASSUME TypeOK, NEW u \in Users, UserSound(u), Due(u)' = Due(u),
         FewerHolders(u), SameCopies(u), SameCredits(u)
  PROVE  UserSound(u)'
<1>1. Home(u)' = Home(u)
  BY DEF FewerHolders, Home
<1>2. AtHome(u)'
  BY <1>1 DEF UserSound, AtHome, Home, FewerHolders, SameCopies
<1>3. Edited(u)'
  BY <1>1 DEF UserSound, Edited, FewerHolders, SameCopies
<1>4. Lent(u)'
  BY <1>1, HoldersAreNodes DEF UserSound, Lent, FewerHolders, SameCopies, SameCredits
<1>5. Pointed(u)'
  <2>1. ASSUME NEW k \in Crediting(u)' \ Loaded(u)'
        PROVE  PointedBy(u, k)'
    <3>1. k \in Crediting(u) \ Loaded(u) /\ ref'[k] = ref[k] /\ info'[ref[k]] = info[ref[k]]
      BY <2>1 DEF FewerHolders, SameCopies, SameCredits
    <3> QED
      BY <1>1, <2>1, <3>1
      DEF UserSound, Pointed, PointedBy, FewerHolders, SameCopies, SameCredits
  <2> QED
    BY <2>1 DEF Pointed
<1>6. Balanced(u)'
  <2>1. /\ \A m \in Online(u)' : info'[m].account_balance = Due(u)'
        /\ \A m \in Login(u)' \union Writing(u)' : rec'[m].account_balance = Due(u)'
    BY DEF UserSound, Balanced, Home, FewerHolders, SameCopies
  <2>2. ASSUME Home(u)' = {}, NEW k \in Unsaved(u)'
        PROVE  Due(u)' = IF ref'[k] = NoNode THEN rec'[k].account_balance
                                             ELSE info'[ref'[k]].account_balance
    <3>1. k \in Unsaved(u) /\ k \in Crediting(u)' /\ ref'[k] = ref[k] /\ rec'[k] = rec[k]
      BY <2>2 DEF FewerHolders, SameCopies, SameCredits, Unsaved
    <3>2. ref[k] # NoNode => info'[ref[k]] = info[ref[k]]
      BY <3>1, HoldersAreNodes DEF FewerHolders, SameCopies
    <3> QED
      BY <1>1, <2>2, <3>1, <3>2 DEF UserSound, Balanced
  <2>3. ASSUME Home(u)' = {}, Unsaved(u)' = {}
        PROVE  file'[u].account_balance = Due(u)'
    BY <1>1, <2>3 DEF UserSound, Balanced, FewerHolders, SameCopies
  <2> QED
    BY <2>1, <2>2, <2>3 DEF Balanced
<1>7. file'[u].user_no = u
  BY DEF UserSound, SameCopies
<1> QED
  BY <1>2, <1>3, <1>4, <1>5, <1>6, <1>7 DEF UserSound

\* The least of a set is in it, as the code takes the first node it finds.
LEMMA MinOfOne ==
  ASSUME NEW m \in Int
  PROVE  Min({m}) = m
BY DEF Min

LEMMA LeastIsMember ==
  ASSUME NEW T \in SUBSET Nat, T # {}
  PROVE  Min(T) \in T
<1>1. PICK k \in T : \A j \in Nat : j < k => j \notin T
  BY LeastExists
<1>2. \A j \in T : k <= j
  BY <1>1
<1> QED
  BY <1>1, <1>2 DEF Min

\* Whom is_user_online finds has the flag set, be it by a guest.
LEMMA WhoIsFound ==
  ASSUME TypeOK, NEW u \in Users \union {GUEST_USER_NUMBER}, is_user_online(u) # NoNode
  PROVE  LET m == is_user_online(u)
         IN  /\ m \in Nodes /\ status[m] /\ logged[m] /\ info[m].user_no = u
             /\ u # GUEST_USER_NUMBER /\ m \in Online(u) \union Posing(u)
<1> DEFINE T == {m \in Nodes : /\ u # GUEST_USER_NUMBER
                              /\ status[m] /\ logged[m] /\ info[m].user_no = u}
<1>1. is_user_online(u) = First(T)
  BY DEF is_user_online
<1>2. T \in SUBSET Nat
  BY AccountsAssumption
<1>3. T # {} /\ First(T) = Min(T)
  BY <1>1 DEF First
<1>4. is_user_online(u) \in T
  BY <1>1, <1>2, <1>3, LeastIsMember
<1>5. LET m == is_user_online(u)
      IN  /\ m \in Nodes /\ status[m] /\ logged[m] /\ info[m].user_no = u
          /\ u # GUEST_USER_NUMBER
  BY <1>4
<1>6. is_user_online(u) \in Online(u) \union Posing(u)
  BY <1>5 DEF Online, Posing
<1> QED
  BY <1>5, <1>6

LEMMA UnbookedIsNumber ==
  ASSUME TypeOK, NEW u \in Users
  PROVE  Unbooked(u) \in Int
<1>1. Coming(u) \in [Nodes -> Int] /\ Going(u) \in [Nodes -> Int]
  BY DEF Coming, Going, TypeOK
<1>2. SumFunction(Coming(u)) \in Int /\ SumFunction(Going(u)) \in Int
  BY <1>1, TotalIsNumber, AccountsAssumption
<1> QED
  BY <1>2 DEF Unbooked

-----------------------------------------------------------------------------
(* What each action does to a client and to a user.                         *)

\* Whoever left the flag behind was a guest, or is disturbed.
LEMMA init_mynode_structKept ==
  ASSUME AccountsInvariant, TypeOK', NEW n \in Nodes, init_mynode_struct(n)
  PROVE  ClientsSound' /\ UsersSound'
<1>1. /\ at[n] = "off"
      /\ logged' = [logged EXCEPT ![n] = FALSE]
      /\ UNCHANGED <<file, info, at, rec, user, ref, sum, book>>
  BY Zenon
  DEF init_mynode_struct, Becomes, shared, hands, ledger, history, AccountsInvariant, TypeOK
<1>2. ClientsSound'
  BY <1>1
  DEF init_mynode_struct, Becomes, shared, hands, ledger, history, AccountsInvariant, TypeOK,
      ClientsSound, LoginPhases, CreditPhases, EditPhases, Inside
<1>3. ASSUME NEW u \in Users \ disturbed'
      PROVE  UserSound(u)'
  <2>1. u \in Users \ disturbed /\ UserSound(u)
    BY
    DEF init_mynode_struct, Becomes, shared, hands, ledger, history, AccountsInvariant, UsersSound
  <2>2. Due(u)' = Due(u)
    BY <1>1 DEF Due, Unbooked, Coming, Going
  <2>3. u # GUEST_USER_NUMBER
    BY AccountsAssumption DEF GUEST_USER_NUMBER
  <2>4. logged[n] => info[n].user_no # u
    BY <1>1, <2>1, <2>3 DEF AccountsInvariant, ClientsSound
  <2>5. FewerHolders(u)
    <3>1. Online(u)' = Online(u) /\ Login(u)' = Login(u) /\ Writing(u)' = Writing(u)
      BY <1>1, <2>4
      DEF AccountsInvariant, TypeOK, ClientsSound, Online, Login, Writing, LoginPhases,
          CreditPhases, EditPhases, Inside
    <3>2. /\ Editing(u)' = Editing(u) /\ Crediting(u)' = Crediting(u)
          /\ Loaded(u)' = Loaded(u) /\ Unsaved(u)' = Unsaved(u)
      BY <1>1, <2>4
      DEF AccountsInvariant, TypeOK, ClientsSound, Editing, Crediting, Loaded, Unsaved,
          LoginPhases, CreditPhases, EditPhases, Inside
    <3>3. Editing(u)' # {} => Posing(u)' \subseteq Posing(u)
      BY <1>1, <2>4, <3>2
      DEF AccountsInvariant, TypeOK, ClientsSound, Posing, LoginPhases, CreditPhases,
          EditPhases, Inside
    <3> QED
      BY <3>1, <3>2, <3>3, HoldersAreNodes DEF FewerHolders, AccountsInvariant
  <2>6. SameCopies(u) /\ SameCredits(u)
    <3>1. n \notin Login(u) \union Writing(u)
      BY <1>1, <2>1
      DEF AccountsInvariant, TypeOK, ClientsSound, Login, Writing, LoginPhases,
          CreditPhases, EditPhases, Inside
    <3> QED
      BY <1>1, <2>1, <2>4, <2>5, <3>1, HoldersAreNodes
      DEF AccountsInvariant, TypeOK, Home, FewerHolders, SameCopies, SameCredits, Editing,
          Crediting, Loaded, LoginPhases, CreditPhases, EditPhases, Inside
  <2> QED
    BY <2>1, <2>2, <2>5, <2>6, Bystander DEF AccountsInvariant
<1> QED
  BY <1>2, <1>3 DEF UsersSound

\* Nobody's account depends on the status of a node.
LEMMA clear_node_dataKept ==
  ASSUME AccountsInvariant, NEW n \in Nodes, clear_node_data(n)
  PROVE  ClientsSound' /\ UsersSound'
<1>1. UNCHANGED <<file, info, logged, at, rec, user, ref, sum, book, disturbed>>
  BY DEF clear_node_data, hands, ledger, history
<1>2. ClientsSound'
  BY <1>1 DEF AccountsInvariant, ClientsSound
<1>3. ASSUME NEW u \in Users \ disturbed'
      PROVE  UserSound(u)'
  <2>1. UserSound(u)
    BY <1>1 DEF AccountsInvariant, UsersSound
  <2>2. Due(u)' = Due(u)
    BY <1>1 DEF Due, Unbooked, Coming, Going
  <2>3. /\ Online(u)' = Online(u) /\ Login(u)' = Login(u) /\ Writing(u)' = Writing(u)
        /\ Editing(u)' = Editing(u) /\ Crediting(u)' = Crediting(u) /\ Posing(u)' = Posing(u)
    BY <1>1 DEF Online, Login, Writing, Editing, Crediting, Posing
  <2>4. Loaded(u)' = Loaded(u) /\ Unsaved(u)' = Unsaved(u) /\ Loaded(u) \subseteq Crediting(u)
    BY <1>1, <2>3 DEF Loaded, Unsaved
  <2>5. FewerHolders(u) /\ SameCopies(u) /\ SameCredits(u)
    BY <1>1, <2>3, <2>4 DEF FewerHolders, SameCopies, SameCredits
  <2> QED
    BY <2>1, <2>2, <2>5, Bystander DEF AccountsInvariant
<1> QED
  BY <1>2, <1>3 DEF UsersSound

\* A user nobody holds lends his record to /CREDIT; one who is online is pointed to in
\* his node; anybody else is held twice from now on.
LEMMA LookForUserKept ==
  ASSUME AccountsInvariant, TypeOK', NEW n \in Nodes, NEW u0 \in Users, LookForUser(n, u0)
  PROVE  ClientsSound' /\ UsersSound'
<1>1. /\ at[n] \in {"online", "credit"}
      /\ at' = [at EXCEPT ![n] = "loading"]
      /\ user' = [user EXCEPT ![n] = u0]
      /\ ref' = [ref EXCEPT ![n] = is_user_online(u0)]
      /\ UNCHANGED <<file, info, logged, rec, sum, book>>
  BY Zenon
  DEF LookForUser, Becomes, shared, hands, ledger, history, Disturbs, Shared, AccountsInvariant,
      TypeOK
<1>2. ClientsSound'
  <2>1. at'[n] = "loading" /\ logged[n] /\ sum[n] = NoSum
    BY <1>1 DEF AccountsInvariant, TypeOK, ClientsSound, CreditPhases, Inside
  <2>2. \A m \in Nodes \ {n} : at'[m] = at[m] /\ user'[m] = user[m] /\ ref'[m] = ref[m]
    BY <1>1 DEF AccountsInvariant, TypeOK
  <2>3. disturbed \subseteq disturbed' /\ UNCHANGED <<info, logged, rec, sum>>
    BY <1>1 DEF LookForUser, Disturbs, Shared
  <2> QED
    BY <2>1, <2>2, <2>3 DEF AccountsInvariant, ClientsSound, CreditPhases, Inside
<1>3. ASSUME NEW u \in Users \ disturbed', u0 # u
      PROVE  UserSound(u)'
  <2>1. u \in Users \ disturbed /\ UserSound(u)
    BY
    DEF LookForUser, Becomes, shared, hands, ledger, history, Disturbs, Shared, AccountsInvariant,
           UsersSound
  <2>2. /\ \A m \in Nodes \ {n} : at'[m] = at[m] /\ user'[m] = user[m] /\ ref'[m] = ref[m]
        /\ user'[n] = u0 /\ ref'[n] = is_user_online(u0) /\ sum[n] = NoSum
    <3>1. sum[n] = NoSum
      BY <1>1 DEF AccountsInvariant, ClientsSound
    <3> QED
      BY <1>1, <3>1 DEF AccountsInvariant, TypeOK
  <2>3. Due(u)' = Due(u)
    <3>1. \A m \in Nodes : Coming(u)'[m] = Coming(u)[m] /\ Going(u)'[m] = Going(u)[m]
      BY <1>1, <2>2 DEF AccountsInvariant, TypeOK, NoSum, Coming, Going
    <3>2. /\ Coming(u)[n] \in Int /\ Going(u)[n] \in Int /\ book[u] \in Int /\ book'[u] = book[u]
      BY <1>1, <2>1 DEF AccountsInvariant, TypeOK, Coming, Going
    <3> QED
      BY <2>1, <3>1, <3>2, DueMoves DEF AccountsInvariant
  <2>4. FewerHolders(u)
    <3>1. Online(u)' = Online(u) /\ Login(u)' = Login(u) /\ Writing(u)' = Writing(u)
      BY <1>1, <1>3, <2>2
      DEF AccountsInvariant, TypeOK, ClientsSound, Online, Login, Writing, LoginPhases,
          CreditPhases, EditPhases, Inside
    <3>2. /\ Editing(u)' = Editing(u) /\ Crediting(u)' = Crediting(u) \ {n}
          /\ Loaded(u)' = Loaded(u) \ {n} /\ Unsaved(u)' = Unsaved(u)
      BY <1>1, <1>3, <2>2
      DEF AccountsInvariant, TypeOK, ClientsSound, Editing, Crediting, Loaded, Unsaved,
          LoginPhases, CreditPhases, EditPhases, Inside
    <3>3. Posing(u)' \subseteq Posing(u)
      BY <1>1
      DEF AccountsInvariant, TypeOK, ClientsSound, Posing, LoginPhases, CreditPhases,
          EditPhases, Inside
    <3> QED
      BY <3>1, <3>2, <3>3, HoldersAreNodes DEF FewerHolders, AccountsInvariant
  <2>5. SameCopies(u) /\ SameCredits(u)
    <3>1. n \notin Login(u) \union Writing(u) \union Unsaved(u)
      BY <1>1, <1>3, <2>1, <2>2
      DEF AccountsInvariant, TypeOK, ClientsSound, Login, Writing, Unsaved, LoginPhases,
          CreditPhases, EditPhases, Inside
    <3> QED
      BY <1>1, <1>3, <2>1, <2>2, <2>4, <3>1, HoldersAreNodes
      DEF AccountsInvariant, TypeOK, Home, FewerHolders, SameCopies, SameCredits, Editing,
          Crediting, Loaded, LoginPhases, CreditPhases, EditPhases, Inside
  <2> QED
    BY <2>1, <2>3, <2>4, <2>5, Bystander DEF AccountsInvariant
<1>4. ASSUME NEW u \in Users \ disturbed', u0 = u, is_user_online(u) = NoNode
      PROVE  UserSound(u)'
  <2>1. u \in Users \ disturbed
    BY DEF LookForUser, Becomes, shared, hands, ledger, history, Disturbs, Shared
  <2>2. file[u].user_no = u /\ AtHome(u) /\ Edited(u) /\ Lent(u) /\ Pointed(u) /\ Balanced(u)
    BY <2>1 DEF AccountsInvariant, UsersSound, UserSound
  <2>3. /\ \A m \in Nodes \ {n} : at'[m] = at[m] /\ user'[m] = user[m] /\ ref'[m] = ref[m]
        /\ user'[n] = u0 /\ ref'[n] = is_user_online(u0) /\ sum[n] = NoSum
    <3>1. sum[n] = NoSum
      BY <1>1 DEF AccountsInvariant, ClientsSound
    <3> QED
      BY <1>1, <3>1 DEF AccountsInvariant, TypeOK
  <2>4. /\ Home(u) = {} /\ Login(u) = {} /\ Writing(u) = {} /\ Editing(u) = {} /\ Unsaved(u) = {}
        /\ Crediting(u) \subseteq {n} /\ ref'[n] = NoNode
    <3>1. (Held(u) \ {n}) \union Online(u) = {}
      BY <1>4, <2>1 DEF LookForUser, Disturbs, Shared
    <3>2. /\ n \notin Login(u) /\ n \notin Writing(u) /\ n \notin Editing(u)
          /\ n \notin Unsaved(u)
      BY <1>1 DEF Login, Writing, Editing, Unsaved, LoginPhases, EditPhases
    <3>3. Unsaved(u) \subseteq Crediting(u)
      BY DEF Unsaved
    <3> QED
      BY <1>4, <2>3, <3>1, <3>2, <3>3 DEF Held, Private, Home
  <2>5. Due(u)' = Due(u)
    <3>1. \A m \in Nodes : Coming(u)'[m] = Coming(u)[m] /\ Going(u)'[m] = Going(u)[m]
      BY <1>1, <2>3 DEF AccountsInvariant, TypeOK, NoSum, Coming, Going
    <3>2. /\ Coming(u)[n] \in Int /\ Going(u)[n] \in Int /\ book[u] \in Int /\ book'[u] = book[u]
      BY <1>1, <2>1 DEF AccountsInvariant, TypeOK, Coming, Going
    <3> QED
      BY <2>1, <3>1, <3>2, DueMoves DEF AccountsInvariant
  <2>6. /\ Online(u)' = Online(u) /\ Login(u)' = Login(u) /\ Writing(u)' = Writing(u)
        /\ Home(u)' = Home(u) /\ Editing(u)' = Editing(u) /\ Crediting(u)' = {n}
        /\ Loaded(u)' = {n} /\ Unsaved(u)' = Unsaved(u)
    <3>1. /\ Online(u)' = Online(u) /\ Login(u)' = Login(u) /\ Writing(u)' = Writing(u)
      BY <1>1, <1>4, <2>3, <2>4
      DEF AccountsInvariant, TypeOK, ClientsSound, Online, Login, Writing, LoginPhases,
          CreditPhases, EditPhases, Inside
    <3>2. Home(u)' = Home(u)
      BY <3>1 DEF Home
    <3>3. /\ Editing(u)' = Editing(u) /\ Crediting(u)' = {n} /\ Loaded(u)' = {n}
          /\ Unsaved(u)' = Unsaved(u)
      BY <1>1, <1>4, <2>3, <2>4
      DEF AccountsInvariant, TypeOK, ClientsSound, Editing, Crediting, Loaded, Unsaved,
          LoginPhases, CreditPhases, EditPhases, Inside
    <3> QED
      BY <3>1, <3>2, <3>3
  <2>7. file'[u].user_no = u /\ AtHome(u)' /\ Edited(u)' /\ Lent(u)'
    <3>1. file'[u].user_no = u /\ AtHome(u)'
      BY <1>1, <1>4, <2>1, <2>2, <2>3, <2>4, <2>6, HoldersAreNodes
      DEF AccountsInvariant, TypeOK, AtHome, Home, Online
    <3>2. Posing(u)' \subseteq Posing(u)
      BY <1>1
      DEF AccountsInvariant, TypeOK, ClientsSound, Posing, LoginPhases, CreditPhases,
          EditPhases, Inside
    <3>3. Edited(u)'
      BY <1>1, <1>4, <2>1, <2>2, <2>3, <2>4, <2>6, HoldersAreNodes, <3>2
      DEF AccountsInvariant, TypeOK, Edited
    <3>4. Lent(u)'
      BY <1>1, <1>4, <2>1, <2>2, <2>3, <2>4, <2>6, HoldersAreNodes
      DEF AccountsInvariant, TypeOK, Lent
    <3> QED
      BY <3>1, <3>3, <3>4
  <2>8. Pointed(u)'
    <3>1. ASSUME NEW k \in Crediting(u)' \ Loaded(u)'
          PROVE  PointedBy(u, k)'
      <4>1. /\ k \in Nodes /\ ref[k] \in Nodes /\ ref[k] # NoNode /\ user[k] = u
            /\ PointedBy(u, k)
        BY <2>1, <2>2, <2>6, HoldersAreNodes DEF AccountsInvariant, Pointed
      <4> QED
        BY <1>1, <1>4, <2>1, <2>3, <2>4, <2>6, <4>1 DEF AccountsInvariant, TypeOK, PointedBy
    <3> QED
      BY <3>1 DEF Pointed
  <2>9. Balanced(u)'
    <3>1. /\ \A m \in Online(u)' : info'[m].account_balance = Due(u)'
          /\ \A m \in Login(u)' \union Writing(u)' : rec'[m].account_balance = Due(u)'
      BY <1>1, <1>4, <2>1, <2>2, <2>3, <2>4, <2>5, <2>6, HoldersAreNodes
      DEF AccountsInvariant, TypeOK, Balanced, Home
    <3>2. ASSUME Home(u)' = {}, NEW k \in Unsaved(u)'
          PROVE  Due(u)' = IF ref'[k] = NoNode THEN rec'[k].account_balance
                                               ELSE info'[ref'[k]].account_balance
      BY <1>1, <1>4, <2>1, <2>2, <2>3, <2>4, <2>5, <2>6, <3>2, HoldersAreNodes
      DEF AccountsInvariant, TypeOK, Balanced
    <3>3. ASSUME Home(u)' = {}, Unsaved(u)' = {}
          PROVE  file'[u].account_balance = Due(u)'
      BY <1>1, <1>4, <2>1, <2>2, <2>3, <2>4, <2>5, <2>6, <3>3, HoldersAreNodes
      DEF AccountsInvariant, TypeOK, Balanced
    <3> QED
      BY <3>1, <3>2, <3>3 DEF Balanced
  <2> QED
    BY <2>7, <2>8, <2>9 DEF UserSound
<1>5. ASSUME NEW u \in Users \ disturbed', u0 = u, is_user_online(u) # NoNode
      PROVE  UserSound(u)'
  <2>1. u \in Users \ disturbed
    BY DEF LookForUser, Becomes, shared, hands, ledger, history, Disturbs, Shared
  <2>2. file[u].user_no = u /\ AtHome(u) /\ Edited(u) /\ Lent(u) /\ Pointed(u) /\ Balanced(u)
    BY <2>1 DEF AccountsInvariant, UsersSound, UserSound
  <2>3. /\ \A m \in Home(u) : Home(u) = {m} /\ Editing(u) = {} /\ Loaded(u) = {}
        /\ Login(u) # {} => Crediting(u) = {} /\ Unsaved(u) = {}
        /\ \A m \in Home(u) : \A k \in Crediting(u) : ref[k] = m
        /\ Editing(u) # {} => Crediting(u) = {}
        /\ \A m \in Loaded(u) : Crediting(u) = {m}
    BY <2>1, <2>2, HeldByOne DEF AccountsInvariant
  <2>4. /\ \A m \in Nodes \ {n} : at'[m] = at[m] /\ user'[m] = user[m] /\ ref'[m] = ref[m]
        /\ user'[n] = u0 /\ ref'[n] = is_user_online(u0) /\ sum[n] = NoSum
    <3>1. sum[n] = NoSum
      BY <1>1 DEF AccountsInvariant, ClientsSound
    <3> QED
      BY <1>1, <3>1 DEF AccountsInvariant, TypeOK
  <2>5. PICK m \in Nodes : /\ Online(u) = {m} /\ Home(u) = {m}
                           /\ Login(u) = {} /\ Writing(u) = {} /\ Editing(u) = {}
                           /\ Loaded(u) = {} /\ info[m].user_no = u
                           /\ m # NoNode /\ ref'[n] = m
                           /\ \A k \in Crediting(u) : ref[k] = m
    <3> DEFINE m == is_user_online(u)
    <3>1. m \in Nodes /\ m # NoNode /\ m \in Online(u) \union Posing(u) /\ info[m].user_no = u
      BY <1>5, <2>1, WhoIsFound DEF AccountsInvariant
    <3>2. Login(u) \ {n} = {} /\ Writing(u) \ {n} = {} /\ Posing(u) \ {n} = {}
      BY <1>5, <2>1 DEF LookForUser, Disturbs, Shared, Private
    <3>3. n \notin Login(u) /\ n \notin Writing(u) /\ n \notin Posing(u)
      BY <1>1 DEF Login, Writing, LoginPhases, Posing
    <3> HIDE DEF m
    <3>4. m \in Online(u) /\ m \in Home(u)
      BY <3>1, <3>2, <3>3 DEF Home
    <3>5. Home(u) = {m} /\ Online(u) = {m} /\ Loaded(u) = {} /\ Editing(u) = {}
      BY <2>3, <3>4 DEF Home
    <3>6. \A k \in Crediting(u) : ref[k] = m
      BY <2>3, <3>4
    <3>7. ref'[n] = m
      BY <1>5, <2>4 DEF m
    <3> QED
      BY <3>1, <3>2, <3>3, <3>5, <3>6, <3>7
  <2>6. Due(u)' = Due(u)
    <3>1. \A j \in Nodes : Coming(u)'[j] = Coming(u)[j] /\ Going(u)'[j] = Going(u)[j]
      BY <1>1, <2>4 DEF AccountsInvariant, TypeOK, NoSum, Coming, Going
    <3>2. /\ Coming(u)[n] \in Int /\ Going(u)[n] \in Int /\ book[u] \in Int /\ book'[u] = book[u]
      BY <1>1, <2>1 DEF AccountsInvariant, TypeOK, Coming, Going
    <3> QED
      BY <2>1, <3>1, <3>2, DueMoves DEF AccountsInvariant
  <2>7. /\ Online(u)' = Online(u) /\ Login(u)' = Login(u) /\ Writing(u)' = Writing(u)
        /\ Home(u)' = Home(u) /\ Editing(u)' = Editing(u)
        /\ Crediting(u)' = Crediting(u) \union {n} /\ Loaded(u)' = Loaded(u)
        /\ Unsaved(u)' = Unsaved(u) /\ n \notin Unsaved(u)
    <3>1. /\ Online(u)' = Online(u) /\ Login(u)' = Login(u) /\ Writing(u)' = Writing(u)
      BY <1>1, <1>5, <2>4, <2>5
      DEF AccountsInvariant, TypeOK, ClientsSound, Online, Login, Writing, LoginPhases,
          CreditPhases, EditPhases, Inside
    <3>2. Home(u)' = Home(u)
      BY <3>1 DEF Home
    <3>3. /\ Editing(u)' = Editing(u) /\ Crediting(u)' = Crediting(u) \union {n}
          /\ Loaded(u)' = Loaded(u) /\ Unsaved(u)' = Unsaved(u) /\ n \notin Unsaved(u)
      BY <1>1, <1>5, <2>4, <2>5
      DEF AccountsInvariant, TypeOK, ClientsSound, Editing, Crediting, Loaded, Unsaved,
          LoginPhases, CreditPhases, EditPhases, Inside
    <3> QED
      BY <3>1, <3>2, <3>3
  <2>8. file'[u].user_no = u /\ AtHome(u)' /\ Edited(u)' /\ Lent(u)'
    <3>1. file'[u].user_no = u /\ AtHome(u)'
      BY <1>1, <1>5, <2>1, <2>2, <2>4, <2>5, <2>7, HoldersAreNodes
      DEF AccountsInvariant, TypeOK, AtHome, Home, Online
    <3>2. Posing(u)' \subseteq Posing(u)
      BY <1>1
      DEF AccountsInvariant, TypeOK, ClientsSound, Posing, LoginPhases, CreditPhases,
          EditPhases, Inside
    <3>3. Edited(u)'
      BY <1>1, <1>5, <2>1, <2>2, <2>4, <2>5, <2>7, HoldersAreNodes, <3>2
      DEF AccountsInvariant, TypeOK, Edited
    <3>4. Lent(u)'
      BY <1>1, <1>5, <2>1, <2>2, <2>4, <2>5, <2>7, HoldersAreNodes
      DEF AccountsInvariant, TypeOK, Lent
    <3> QED
      BY <3>1, <3>3, <3>4
  <2>9. Pointed(u)'
    <3>1. ASSUME NEW k \in Crediting(u)' \ Loaded(u)'
          PROVE  PointedBy(u, k)'
      <4>1. \A j \in Crediting(u)' : j \in Nodes /\ ref'[j] = m
        BY <2>1, <2>4, <2>5, <2>7, HoldersAreNodes DEF AccountsInvariant
      <4>2. at'[k] = "saving" => rec'[k].user_no = u
        <5>1. CASE k = n
          BY <1>1, <5>1 DEF AccountsInvariant, TypeOK
        <5>2. CASE k # n
          BY <1>1, <2>2, <2>4, <2>5, <2>7, <4>1, <5>2 DEF Pointed, PointedBy
        <5> QED
          BY <5>1, <5>2
      <4> QED
        BY <1>1, <2>5, <2>7, <4>1, <4>2 DEF PointedBy
    <3> QED
      BY <3>1 DEF Pointed
  <2>10. Balanced(u)'
    <3>1. /\ \A j \in Online(u)' : info'[j].account_balance = Due(u)'
          /\ \A j \in Login(u)' \union Writing(u)' : rec'[j].account_balance = Due(u)'
      BY <1>1, <1>5, <2>1, <2>2, <2>4, <2>5, <2>6, <2>7, HoldersAreNodes
      DEF AccountsInvariant, TypeOK, Balanced, Home
    <3>2. ASSUME Home(u)' = {}, NEW k \in Unsaved(u)'
          PROVE  Due(u)' = IF ref'[k] = NoNode THEN rec'[k].account_balance
                                               ELSE info'[ref'[k]].account_balance
      BY <1>1, <1>5, <2>1, <2>2, <2>4, <2>5, <2>6, <2>7, <3>2, HoldersAreNodes
      DEF AccountsInvariant, TypeOK, Balanced
    <3>3. ASSUME Home(u)' = {}, Unsaved(u)' = {}
          PROVE  file'[u].account_balance = Due(u)'
      BY <1>1, <1>5, <2>1, <2>2, <2>4, <2>5, <2>6, <2>7, <3>3, HoldersAreNodes
      DEF AccountsInvariant, TypeOK, Balanced
    <3> QED
      BY <3>1, <3>2, <3>3 DEF Balanced
  <2> QED
    BY <2>8, <2>9, <2>10 DEF UserSound
<1> QED
  BY <1>2, <1>3, <1>4, <1>5 DEF UsersSound

\* The record is given back as it was read.
LEMMA QuitCreditKept ==
  ASSUME AccountsInvariant, TypeOK', NEW n \in Nodes, QuitCredit(n)
  PROVE  ClientsSound' /\ UsersSound'
<1>1. /\ at[n] = "credit"
      /\ at' = [at EXCEPT ![n] = "online"]
      /\ UNCHANGED <<file, info, logged, rec, user, ref, sum, book>>
  BY Zenon DEF QuitCredit, Becomes, shared, hands, ledger, history, AccountsInvariant, TypeOK
<1>2. ClientsSound'
  BY <1>1
  DEF QuitCredit, Becomes, shared, hands, ledger, history, AccountsInvariant, TypeOK, ClientsSound,
      LoginPhases, CreditPhases, EditPhases, Inside
<1>3. ASSUME NEW u \in Users \ disturbed'
      PROVE  UserSound(u)'
  <2>1. u \in Users \ disturbed /\ UserSound(u)
    BY DEF QuitCredit, Becomes, shared, hands, ledger, history, AccountsInvariant, UsersSound
  <2>2. Due(u)' = Due(u)
    BY <1>1 DEF Due, Unbooked, Coming, Going
  <2>3. FewerHolders(u)
    <3>1. Online(u)' = Online(u) /\ Login(u)' = Login(u) /\ Writing(u)' = Writing(u)
      BY <1>1
      DEF AccountsInvariant, TypeOK, ClientsSound, Online, Login, Writing, LoginPhases,
          CreditPhases, EditPhases, Inside
    <3>2. /\ Editing(u)' = Editing(u) /\ Crediting(u)' = Crediting(u) \ {n}
          /\ Loaded(u)' = Loaded(u) \ {n} /\ Unsaved(u)' = Unsaved(u)
      BY <1>1
      DEF AccountsInvariant, TypeOK, ClientsSound, Editing, Crediting, Loaded, Unsaved,
          LoginPhases, CreditPhases, EditPhases, Inside
    <3>3. Posing(u)' \subseteq Posing(u)
      BY <1>1
      DEF AccountsInvariant, TypeOK, ClientsSound, Posing, LoginPhases, CreditPhases,
          EditPhases, Inside
    <3> QED
      BY <3>1, <3>2, <3>3, HoldersAreNodes DEF FewerHolders, AccountsInvariant
  <2>4. SameCopies(u) /\ SameCredits(u)
    <3>1. n \notin Login(u) \union Writing(u) \union Unsaved(u)
      BY <1>1, <2>1
      DEF AccountsInvariant, TypeOK, ClientsSound, Login, Writing, Unsaved, LoginPhases,
          CreditPhases, EditPhases, Inside
    <3> QED
      BY <1>1, <2>1, <2>3, <3>1, HoldersAreNodes
      DEF AccountsInvariant, TypeOK, Home, FewerHolders, SameCopies, SameCredits, Editing,
          Crediting, Loaded, LoginPhases, CreditPhases, EditPhases, Inside
  <2> QED
    BY <2>1, <2>2, <2>3, <2>4, Bystander DEF AccountsInvariant
<1> QED
  BY <1>2, <1>3 DEF UsersSound

\* What is about to be saved is the record read, or the one pointed to.
LEMMA ChangeAccountKept ==
  ASSUME AccountsInvariant, TypeOK', NEW n \in Nodes, ChangeAccount(n)
  PROVE  ClientsSound' /\ UsersSound'
<1>1. /\ at[n] = "credit"
      /\ at' = [at EXCEPT ![n] = "storing"]
      /\ UNCHANGED <<file, info, logged, rec, user, ref, sum, book>>
  BY Zenon DEF ChangeAccount, Becomes, shared, hands, ledger, history, AccountsInvariant, TypeOK
<1>2. ClientsSound'
  BY <1>1
  DEF ChangeAccount, Becomes, shared, hands, ledger, history, AccountsInvariant, TypeOK,
      ClientsSound, LoginPhases, CreditPhases, EditPhases, Inside
<1>3. ASSUME NEW u \in Users \ disturbed'
      PROVE  UserSound(u)'
  <2>1. u \in Users \ disturbed
    BY DEF ChangeAccount, Becomes, shared, hands, ledger, history
  <2>2. file[u].user_no = u /\ AtHome(u) /\ Edited(u) /\ Lent(u) /\ Pointed(u) /\ Balanced(u)
    BY <2>1 DEF AccountsInvariant, UsersSound, UserSound
  <2>3. Due(u)' = Due(u)
    BY <1>1 DEF Due, Unbooked, Coming, Going
  <2>4. /\ Online(u)' = Online(u) /\ Login(u)' = Login(u) /\ Writing(u)' = Writing(u)
        /\ Home(u)' = Home(u) /\ Editing(u)' = Editing(u) /\ Crediting(u)' = Crediting(u)
        /\ Loaded(u)' = Loaded(u)
        /\ Unsaved(u)' = Unsaved(u) \union (IF user[n] = u THEN {n} ELSE {})
        /\ n \notin Unsaved(u)
    <3>1. /\ Online(u)' = Online(u) /\ Login(u)' = Login(u) /\ Writing(u)' = Writing(u)
      BY <1>1
      DEF AccountsInvariant, TypeOK, ClientsSound, Online, Login, Writing, LoginPhases,
          CreditPhases, EditPhases, Inside
    <3>2. Home(u)' = Home(u)
      BY <3>1 DEF Home
    <3>3. /\ Editing(u)' = Editing(u) /\ Crediting(u)' = Crediting(u)
          /\ Loaded(u)' = Loaded(u)
          /\ Unsaved(u)' = Unsaved(u) \union (IF user[n] = u THEN {n} ELSE {})
          /\ n \notin Unsaved(u)
      BY <1>1
      DEF AccountsInvariant, TypeOK, ClientsSound, Editing, Crediting, Loaded, Unsaved,
          LoginPhases, CreditPhases, EditPhases, Inside
    <3> QED
      BY <3>1, <3>2, <3>3
  <2>5. file'[u].user_no = u /\ AtHome(u)' /\ Edited(u)' /\ Lent(u)'
    <3>1. file'[u].user_no = u /\ AtHome(u)'
      BY <1>1, <2>1, <2>2, <2>4, HoldersAreNodes
      DEF AccountsInvariant, TypeOK, AtHome, Home, Online
    <3>2. Posing(u)' \subseteq Posing(u)
      BY <1>1
      DEF AccountsInvariant, TypeOK, ClientsSound, Posing, LoginPhases, CreditPhases,
          EditPhases, Inside
    <3>3. Edited(u)'
      BY <1>1, <2>1, <2>2, <2>4, HoldersAreNodes, <3>2
      DEF AccountsInvariant, TypeOK, Edited
    <3>4. Lent(u)'
      BY <1>1, <2>1, <2>2, <2>4, HoldersAreNodes
      DEF AccountsInvariant, TypeOK, Lent
    <3> QED
      BY <3>1, <3>3, <3>4
  <2>6. Pointed(u)'
    <3>1. ASSUME NEW k \in Crediting(u)' \ Loaded(u)'
          PROVE  PointedBy(u, k)'
      <4>1. /\ k \in Nodes /\ ref[k] \in Nodes /\ ref[k] # NoNode /\ user[k] = u
            /\ PointedBy(u, k)
        BY <2>1, <2>2, <2>4, HoldersAreNodes DEF AccountsInvariant, Pointed
      <4> QED
        BY <1>1, <2>1, <2>4, <4>1 DEF AccountsInvariant, TypeOK, PointedBy
    <3> QED
      BY <3>1 DEF Pointed
  <2>7. Balanced(u)'
    <3>1. CASE user[n] # u
      BY <1>1, <2>1, <2>2, <2>3, <2>4, <3>1, HoldersAreNodes DEF AccountsInvariant, Balanced
    <3>2. CASE user[n] = u /\ Home(u) # {}
      BY <1>1, <2>1, <2>2, <2>3, <2>4, <3>2, HoldersAreNodes
      DEF AccountsInvariant, Balanced, Home
    <3>3. CASE user[n] = u /\ Home(u) = {}
      <4>1. n \in Crediting(u) /\ (ref[n] = NoNode <=> n \in Loaded(u))
        BY <1>1, <3>3 DEF Crediting, Loaded, CreditPhases
      <4>2. ASSUME NEW k \in Unsaved(u)
            PROVE  Due(u) = IF ref[k] = NoNode THEN rec[k].account_balance
                                              ELSE info[ref[k]].account_balance
        BY <2>2, <3>3 DEF Balanced
      <4>3. CASE n \in Loaded(u)
        <5>1. Unsaved(u) = {} /\ rec[n] = file[u]
          BY <1>1, <2>1, <2>2, <2>4, <4>3, HoldersAreNodes DEF AccountsInvariant, Lent
        <5>2. Due(u) = rec[n].account_balance
          BY <2>2, <3>3, <5>1 DEF Balanced
        <5> QED
          BY <1>1, <2>3, <2>4, <3>3, <4>1, <4>3, <5>1, <5>2 DEF Balanced, Home
      <4>4. CASE n \notin Loaded(u)
        <5>1. Due(u) = info[ref[n]].account_balance
          <6>1. CASE Unsaved(u) = {}
            BY <2>2, <3>3, <4>1, <4>4, <6>1 DEF Balanced, Pointed, PointedBy
          <6>2. CASE Unsaved(u) # {}
            <7>1. PICK k \in Unsaved(u) : TRUE
              BY <6>2
            <7>2. ref[k] = ref[n]
              BY <2>1, <2>2, <4>1, <4>4, HoldersAreNodes
              DEF AccountsInvariant, Pointed, PointedBy
            <7> QED
              BY <4>1, <4>2, <4>4, <7>2
          <6> QED
            BY <6>1, <6>2
        <5> QED
          BY <1>1, <2>3, <2>4, <3>3, <4>1, <4>2, <4>4, <5>1 DEF Balanced, Home
      <4> QED
        BY <4>3, <4>4
    <3> QED
      BY <3>1, <3>2, <3>3
  <2> QED
    BY <2>5, <2>6, <2>7 DEF UserSound
<1> QED
  BY <1>2, <1>3 DEF UsersSound

\* Who comes in takes the record along from his copy to the node.
LEMMA LogInKept ==
  ASSUME AccountsInvariant, TypeOK', NEW n \in Nodes, LogIn(n)
  PROVE  ClientsSound' /\ UsersSound'
<1>1. /\ at[n] = "entering"
      /\ logged' = [logged EXCEPT ![n] = TRUE]
      /\ at' = [at EXCEPT ![n] = "entered"]
      /\ UNCHANGED <<file, info, rec, user, ref, sum, book>>
  BY Zenon DEF LogIn, Becomes, shared, hands, ledger, history, AccountsInvariant, TypeOK
<1>2. ClientsSound'
  BY <1>1
  DEF LogIn, Becomes, shared, hands, ledger, history, AccountsInvariant, TypeOK, ClientsSound,
      LoginPhases, CreditPhases, EditPhases, Inside
<1>3. ASSUME NEW u \in Users \ disturbed'
      PROVE  UserSound(u)'
  <2>1. u \in Users \ disturbed
    BY DEF LogIn, Becomes, shared, hands, ledger, history
  <2>2. file[u].user_no = u /\ AtHome(u) /\ Edited(u) /\ Lent(u) /\ Pointed(u) /\ Balanced(u)
    BY <2>1 DEF AccountsInvariant, UsersSound, UserSound
  <2>3. /\ n \in Login(u) <=> info[n].user_no = u
        /\ n \in Login(u) => info[n] = rec[n]
    BY <1>1, <2>1, <2>2 DEF AccountsInvariant, ClientsSound, AtHome, Login, LoginPhases
  <2>4. Due(u)' = Due(u)
    BY <1>1 DEF Due, Unbooked, Coming, Going
  <2>5. /\ Online(u)' = Online(u) \union (IF info[n].user_no = u THEN {n} ELSE {})
        /\ Login(u)' = Login(u) \ {n} /\ Writing(u)' = Writing(u) /\ Home(u)' = Home(u)
        /\ Editing(u)' = Editing(u) /\ Crediting(u)' = Crediting(u)
        /\ Loaded(u)' = Loaded(u) /\ Unsaved(u)' = Unsaved(u)
    <3>1. /\ Online(u)' = Online(u) \union (IF info[n].user_no = u THEN {n} ELSE {})
          /\ Login(u)' = Login(u) \ {n} /\ Writing(u)' = Writing(u)
      BY <1>1, <2>3
      DEF AccountsInvariant, TypeOK, ClientsSound, Online, Login, Writing, LoginPhases,
          CreditPhases, EditPhases, Inside
    <3>2. Home(u)' = Home(u)
      BY <2>3, <3>1 DEF Home
    <3>3. /\ Editing(u)' = Editing(u) /\ Crediting(u)' = Crediting(u)
          /\ Loaded(u)' = Loaded(u) /\ Unsaved(u)' = Unsaved(u)
      BY <1>1, <2>3
      DEF AccountsInvariant, TypeOK, ClientsSound, Editing, Crediting, Loaded, Unsaved,
          LoginPhases, CreditPhases, EditPhases, Inside
    <3> QED
      BY <3>1, <3>2, <3>3
  <2>6. file'[u].user_no = u /\ AtHome(u)' /\ Edited(u)' /\ Lent(u)'
    <3>1. file'[u].user_no = u /\ AtHome(u)'
      BY <1>1, <2>1, <2>2, <2>3, <2>5, HoldersAreNodes
      DEF AccountsInvariant, TypeOK, AtHome, Home, Online
    <3>2. Posing(u)' \subseteq Posing(u)
      BY <1>1
      DEF AccountsInvariant, TypeOK, ClientsSound, Posing, LoginPhases, CreditPhases,
          EditPhases, Inside
    <3>3. Edited(u)'
      BY <1>1, <2>1, <2>2, <2>3, <2>5, HoldersAreNodes, <3>2
      DEF AccountsInvariant, TypeOK, Edited
    <3>4. Lent(u)'
      BY <1>1, <2>1, <2>2, <2>3, <2>5, HoldersAreNodes
      DEF AccountsInvariant, TypeOK, Lent
    <3> QED
      BY <3>1, <3>3, <3>4
  <2>7. Pointed(u)'
    <3>1. ASSUME NEW k \in Crediting(u)' \ Loaded(u)'
          PROVE  PointedBy(u, k)'
      <4>1. /\ k \in Nodes /\ ref[k] \in Nodes /\ ref[k] # NoNode /\ user[k] = u
            /\ PointedBy(u, k)
        BY <2>1, <2>2, <2>5, HoldersAreNodes DEF AccountsInvariant, Pointed
      <4> QED
        BY <1>1, <2>1, <2>3, <2>5, <4>1 DEF AccountsInvariant, TypeOK, PointedBy
    <3> QED
      BY <3>1 DEF Pointed
  <2>8. Balanced(u)'
    <3>1. /\ \A m \in Online(u)' : info'[m].account_balance = Due(u)'
          /\ \A m \in Login(u)' \union Writing(u)' : rec'[m].account_balance = Due(u)'
      BY <1>1, <2>1, <2>2, <2>3, <2>4, <2>5, HoldersAreNodes
      DEF AccountsInvariant, TypeOK, Balanced, Home
    <3>2. ASSUME Home(u)' = {}, NEW k \in Unsaved(u)'
          PROVE  Due(u)' = IF ref'[k] = NoNode THEN rec'[k].account_balance
                                               ELSE info'[ref'[k]].account_balance
      BY <1>1, <2>1, <2>2, <2>3, <2>4, <2>5, <3>2, HoldersAreNodes
      DEF AccountsInvariant, TypeOK, Balanced
    <3>3. ASSUME Home(u)' = {}, Unsaved(u)' = {}
          PROVE  file'[u].account_balance = Due(u)'
      BY <1>1, <2>1, <2>2, <2>3, <2>4, <2>5, <3>3, HoldersAreNodes
      DEF AccountsInvariant, TypeOK, Balanced
    <3> QED
      BY <3>1, <3>2, <3>3 DEF Balanced
  <2> QED
    BY <2>6, <2>7, <2>8 DEF UserSound
<1> QED
  BY <1>2, <1>3 DEF UsersSound

\* The node gets its status.
LEMMA ActivateKept ==
  ASSUME AccountsInvariant, TypeOK', NEW n \in Nodes, Activate(n)
  PROVE  ClientsSound' /\ UsersSound'
<1>1. /\ at[n] = "entered"
      /\ at' = [at EXCEPT ![n] = "online"]
      /\ UNCHANGED <<file, info, logged, rec, user, ref, sum, book>>
  BY Zenon DEF Activate, Becomes, shared, hands, ledger, history, AccountsInvariant, TypeOK
<1>2. ClientsSound'
  BY <1>1
  DEF Activate, Becomes, shared, hands, ledger, history, AccountsInvariant, TypeOK,
      ClientsSound, LoginPhases, CreditPhases, EditPhases, Inside
<1>3. ASSUME NEW u \in Users \ disturbed'
      PROVE  UserSound(u)'
  <2>1. u \in Users \ disturbed /\ UserSound(u)
    BY DEF Activate, Becomes, shared, hands, ledger, history, AccountsInvariant, UsersSound
  <2>2. Due(u)' = Due(u)
    BY <1>1 DEF Due, Unbooked, Coming, Going
  <2>3. FewerHolders(u)
    <3>1. Online(u)' = Online(u) /\ Login(u)' = Login(u) /\ Writing(u)' = Writing(u)
      BY <1>1
      DEF AccountsInvariant, TypeOK, ClientsSound, Online, Login, Writing, LoginPhases,
          CreditPhases, EditPhases, Inside
    <3>2. /\ Editing(u)' = Editing(u) /\ Crediting(u)' = Crediting(u)
          /\ Loaded(u)' = Loaded(u) /\ Unsaved(u)' = Unsaved(u)
      BY <1>1
      DEF AccountsInvariant, TypeOK, ClientsSound, Editing, Crediting, Loaded, Unsaved,
          LoginPhases, CreditPhases, EditPhases, Inside
    <3>3. Editing(u)' # {} => Posing(u)' \subseteq Posing(u)
      BY <1>1, <3>2
      DEF AccountsInvariant, TypeOK, ClientsSound, Posing, LoginPhases, CreditPhases,
          EditPhases, Inside
    <3> QED
      BY <3>1, <3>2, <3>3, HoldersAreNodes DEF FewerHolders, AccountsInvariant
  <2>4. SameCopies(u) /\ SameCredits(u)
    <3>1. n \notin Login(u) \union Writing(u)
      BY <1>1, <2>1
      DEF AccountsInvariant, TypeOK, ClientsSound, Login, Writing, LoginPhases,
          CreditPhases, EditPhases, Inside
    <3> QED
      BY <1>1, <2>1, <2>3, <3>1, HoldersAreNodes
      DEF AccountsInvariant, TypeOK, Home, FewerHolders, SameCopies, SameCredits, Editing,
          Crediting, Loaded, LoginPhases, CreditPhases, EditPhases, Inside
  <2> QED
    BY <2>1, <2>2, <2>3, <2>4, Bystander DEF AccountsInvariant
<1> QED
  BY <1>2, <1>3 DEF UsersSound

\* A guest comes in beside the record left in the node: nobody edits it.
LEMMA GuestLogsInKept ==
  ASSUME AccountsInvariant, TypeOK', NEW n \in Nodes, GuestLogsIn(n)
  PROVE  ClientsSound' /\ UsersSound'
<1>1. /\ at[n] = "off" /\ ~logged[n]
      /\ logged' = [logged EXCEPT ![n] = TRUE]
      /\ at' = [at EXCEPT ![n] = "posing"]
      /\ UNCHANGED <<file, info, rec, user, ref, sum, book>>
  BY Zenon DEF GuestLogsIn, Becomes, hands, ledger, Disturbs, Shared, AccountsInvariant, TypeOK
<1>2. ClientsSound'
  BY <1>1
  DEF GuestLogsIn, Becomes, hands, ledger, Disturbs, Shared, AccountsInvariant, TypeOK,
      ClientsSound, LoginPhases, CreditPhases, EditPhases, Inside
<1>3. ASSUME NEW u \in Users \ disturbed'
      PROVE  UserSound(u)'
  <2>1. u \in Users \ disturbed /\ UserSound(u)
    BY DEF GuestLogsIn, Becomes, hands, ledger, Disturbs, Shared, AccountsInvariant, UsersSound
  <2>2. Due(u)' = Due(u)
    BY <1>1 DEF Due, Unbooked, Coming, Going
  <2>3. info[n].user_no = u => Held(u) = {}
    BY <2>1 DEF GuestLogsIn, Disturbs, Shared
  <2>4. info[n].user_no = u => Editing(u) = {}
    BY <2>3 DEF Held, Private
  <2>5. FewerHolders(u)
    <3>1. Online(u)' = Online(u) /\ Login(u)' = Login(u) /\ Writing(u)' = Writing(u)
      BY <1>1, <2>4
      DEF AccountsInvariant, TypeOK, ClientsSound, Online, Login, Writing, LoginPhases,
          CreditPhases, EditPhases, Inside
    <3>2. /\ Editing(u)' = Editing(u) /\ Crediting(u)' = Crediting(u)
          /\ Loaded(u)' = Loaded(u) /\ Unsaved(u)' = Unsaved(u)
      BY <1>1, <2>4
      DEF AccountsInvariant, TypeOK, ClientsSound, Editing, Crediting, Loaded, Unsaved,
          LoginPhases, CreditPhases, EditPhases, Inside
    <3>3. Editing(u)' # {} => Posing(u)' \subseteq Posing(u)
      BY <1>1, <2>4, <3>2
      DEF AccountsInvariant, TypeOK, ClientsSound, Posing, LoginPhases, CreditPhases,
          EditPhases, Inside
    <3> QED
      BY <3>1, <3>2, <3>3, HoldersAreNodes DEF FewerHolders, AccountsInvariant
  <2>6. SameCopies(u) /\ SameCredits(u)
    <3>1. n \notin Login(u) \union Writing(u)
      BY <1>1, <2>1
      DEF AccountsInvariant, TypeOK, ClientsSound, Login, Writing, LoginPhases,
          CreditPhases, EditPhases, Inside
    <3> QED
      BY <1>1, <2>1, <2>4, <2>5, <3>1, HoldersAreNodes
      DEF AccountsInvariant, TypeOK, Home, FewerHolders, SameCopies, SameCredits, Editing,
          Crediting, Loaded, LoginPhases, CreditPhases, EditPhases, Inside
  <2> QED
    BY <2>1, <2>2, <2>5, <2>6, Bystander DEF AccountsInvariant
<1> QED
  BY <1>2, <1>3 DEF UsersSound

\* He takes the node from those to whom some /CREDIT points there.
LEMMA setup_guest_loginKept ==
  ASSUME AccountsInvariant, TypeOK', NEW n \in Nodes, setup_guest_login(n)
  PROVE  ClientsSound' /\ UsersSound'
<1>1. /\ at[n] = "posing"
      /\ info' = [info EXCEPT ![n] = Record(GUEST_USER_NUMBER, 0)]
      /\ at' = [at EXCEPT ![n] = "entered"]
      /\ UNCHANGED <<file, logged, rec, user, ref, sum, book>>
  BY Zenon
  DEF setup_guest_login, Becomes, hands, ledger, Replaces, Disturbs, AccountsInvariant, TypeOK
<1>2. ClientsSound'
  BY <1>1
  DEF setup_guest_login, Becomes, hands, ledger, Replaces, Disturbs, AccountsInvariant, TypeOK,
      ClientsSound, LoginPhases, CreditPhases, EditPhases, Inside
<1>3. ASSUME NEW u \in Users \ disturbed'
      PROVE  UserSound(u)'
  <2>1. u \in Users \ disturbed /\ UserSound(u)
    BY
    DEF setup_guest_login, Becomes, hands, ledger, Replaces, Disturbs, AccountsInvariant, UsersSound
  <2>2. Due(u)' = Due(u)
    <3>1. \A m \in Nodes \ {n} : Coming(u)'[m] = Coming(u)[m] /\ Going(u)'[m] = Going(u)[m]
      BY <1>1 DEF AccountsInvariant, TypeOK, Coming, Going
    <3>2. sum[n] = NoSum
      BY <1>1 DEF AccountsInvariant, ClientsSound
    <3>3. /\ Coming(u)[n] = 0 /\ Coming(u)'[n] = 0 /\ Going(u)[n] = 0 /\ Going(u)'[n] = 0
          /\ book'[u] = book[u] /\ book[u] \in Int
      BY <1>1, <2>1, <3>2 DEF AccountsInvariant, TypeOK, NoSum, Coming, Going
    <3> QED
      BY <2>1, <3>1, <3>3, DueMoves DEF AccountsInvariant
  <2>3. u # GUEST_USER_NUMBER
    BY AccountsAssumption DEF GUEST_USER_NUMBER
  <2>4. (\A k \in Crediting(u) : ref[k] # n) /\ info'[n].user_no # u
    BY <1>1, <2>1, <2>3
    DEF setup_guest_login, Replaces, Disturbs, TakenOver, Crediting, Record, AccountsInvariant,
        TypeOK
  <2>5. FewerHolders(u)
    <3>1. Online(u)' = Online(u) /\ Login(u)' = Login(u) /\ Writing(u)' = Writing(u)
      BY <1>1, <2>4
      DEF AccountsInvariant, TypeOK, ClientsSound, Online, Login, Writing, LoginPhases,
          CreditPhases, EditPhases, Inside
    <3>2. /\ Editing(u)' = Editing(u) /\ Crediting(u)' = Crediting(u)
          /\ Loaded(u)' = Loaded(u) /\ Unsaved(u)' = Unsaved(u)
      BY <1>1, <2>4
      DEF AccountsInvariant, TypeOK, ClientsSound, Editing, Crediting, Loaded, Unsaved,
          LoginPhases, CreditPhases, EditPhases, Inside
    <3>3. Editing(u)' # {} => Posing(u)' \subseteq Posing(u)
      BY <1>1, <2>4, <3>2
      DEF AccountsInvariant, TypeOK, ClientsSound, Posing, LoginPhases, CreditPhases,
          EditPhases, Inside
    <3> QED
      BY <3>1, <3>2, <3>3, HoldersAreNodes DEF FewerHolders, AccountsInvariant
  <2>6. SameCopies(u) /\ SameCredits(u)
    <3>1. n \notin Login(u) \union Writing(u) \union Editing(u) \union Crediting(u) \union Online(u)
      BY <1>1, <2>1
      DEF AccountsInvariant, TypeOK, ClientsSound, Login, Writing, Editing, Crediting,
          Online, LoginPhases, CreditPhases, EditPhases, Inside
    <3>2. Editing(u)' \subseteq Editing(u) /\ Crediting(u)' \subseteq Crediting(u)
      BY <2>5 DEF FewerHolders
    <3> QED
      BY <1>1, <2>1, <2>4, <2>5, <3>1, <3>2, HoldersAreNodes
      DEF AccountsInvariant, TypeOK, Home, FewerHolders, SameCopies, SameCredits
  <2> QED
    BY <2>1, <2>2, <2>5, <2>6, Bystander DEF AccountsInvariant
<1> QED
  BY <1>2, <1>3 DEF UsersSound

\* The record lent is the one in the file.
LEMMA LoadUserKept ==
  ASSUME AccountsInvariant, TypeOK', NEW n \in Nodes, LoadUser(n)
  PROVE  ClientsSound' /\ UsersSound'
<1>1. /\ at[n] = "loading"
      /\ at' = [at EXCEPT ![n] = "credit"]
      /\ rec' = [rec EXCEPT ![n] = file[user[n]]]
      /\ UNCHANGED <<file, info, logged, user, ref, sum, book>>
  BY Zenon
  DEF LoadUser, Becomes, shared, hands, ledger, history, read_user_record, AccountsInvariant, TypeOK
<1>2. ClientsSound'
  BY <1>1
  DEF LoadUser, Becomes, shared, hands, ledger, history, read_user_record, AccountsInvariant,
      TypeOK,
      ClientsSound, LoginPhases, CreditPhases, EditPhases, Inside
<1>3. ASSUME NEW u \in Users \ disturbed'
      PROVE  UserSound(u)'
  <2>1. u \in Users \ disturbed
    BY DEF LoadUser, Becomes, shared, hands, ledger, history, read_user_record
  <2>2. file[u].user_no = u /\ AtHome(u) /\ Edited(u) /\ Lent(u) /\ Pointed(u) /\ Balanced(u)
    BY <2>1 DEF AccountsInvariant, UsersSound, UserSound
  <2>3. Due(u)' = Due(u)
    BY <1>1 DEF Due, Unbooked, Coming, Going
  <2>4. /\ Online(u)' = Online(u) /\ Login(u)' = Login(u) /\ Writing(u)' = Writing(u)
        /\ Home(u)' = Home(u) /\ Editing(u)' = Editing(u) /\ Crediting(u)' = Crediting(u)
        /\ Loaded(u)' = Loaded(u) /\ Unsaved(u)' = Unsaved(u) /\ n \notin Login(u)
        /\ n \notin Writing(u) /\ n \notin Editing(u) /\ n \notin Unsaved(u)
    <3>1. /\ Online(u)' = Online(u) /\ Login(u)' = Login(u) /\ Writing(u)' = Writing(u)
          /\ n \notin Login(u) /\ n \notin Writing(u)
      BY <1>1
      DEF AccountsInvariant, TypeOK, ClientsSound, Online, Login, Writing, LoginPhases,
          CreditPhases, EditPhases, Inside
    <3>2. Home(u)' = Home(u)
      BY <3>1 DEF Home
    <3>3. /\ Editing(u)' = Editing(u) /\ Crediting(u)' = Crediting(u)
          /\ Loaded(u)' = Loaded(u) /\ Unsaved(u)' = Unsaved(u) /\ n \notin Editing(u)
          /\ n \notin Unsaved(u)
      BY <1>1
      DEF AccountsInvariant, TypeOK, ClientsSound, Editing, Crediting, Loaded, Unsaved,
          LoginPhases, CreditPhases, EditPhases, Inside
    <3> QED
      BY <3>1, <3>2, <3>3
  <2>5. file'[u].user_no = u /\ AtHome(u)' /\ Edited(u)' /\ Lent(u)'
    <3>1. file'[u].user_no = u /\ AtHome(u)'
      BY <1>1, <2>1, <2>2, <2>4, HoldersAreNodes
      DEF AccountsInvariant, TypeOK, AtHome, Home, Online
    <3>2. Posing(u)' \subseteq Posing(u)
      BY <1>1
      DEF AccountsInvariant, TypeOK, ClientsSound, Posing, LoginPhases, CreditPhases,
          EditPhases, Inside
    <3>3. Edited(u)'
      BY <1>1, <2>1, <2>2, <2>4, HoldersAreNodes, <3>2
      DEF AccountsInvariant, TypeOK, Edited
    <3>4. Lent(u)'
      BY <1>1, <2>1, <2>2, <2>4, HoldersAreNodes
      DEF AccountsInvariant, TypeOK, Lent
    <3> QED
      BY <3>1, <3>3, <3>4
  <2>6. Pointed(u)'
    <3>1. ASSUME NEW k \in Crediting(u)' \ Loaded(u)'
          PROVE  PointedBy(u, k)'
      <4>1. /\ k \in Nodes /\ ref[k] \in Nodes /\ ref[k] # NoNode /\ user[k] = u
            /\ PointedBy(u, k)
        BY <2>1, <2>2, <2>4, HoldersAreNodes DEF AccountsInvariant, Pointed
      <4> QED
        BY <1>1, <2>1, <2>4, <4>1 DEF AccountsInvariant, TypeOK, PointedBy
    <3> QED
      BY <3>1 DEF Pointed
  <2>7. Balanced(u)'
    <3>1. /\ \A m \in Online(u)' : info'[m].account_balance = Due(u)'
          /\ \A m \in Login(u)' \union Writing(u)' : rec'[m].account_balance = Due(u)'
      BY <1>1, <2>1, <2>2, <2>3, <2>4, HoldersAreNodes
      DEF AccountsInvariant, TypeOK, Balanced, Home
    <3>2. ASSUME Home(u)' = {}, NEW k \in Unsaved(u)'
          PROVE  Due(u)' = IF ref'[k] = NoNode THEN rec'[k].account_balance
                                               ELSE info'[ref'[k]].account_balance
      BY <1>1, <2>1, <2>2, <2>3, <2>4, <3>2, HoldersAreNodes
      DEF AccountsInvariant, TypeOK, Balanced
    <3>3. ASSUME Home(u)' = {}, Unsaved(u)' = {}
          PROVE  file'[u].account_balance = Due(u)'
      BY <1>1, <2>1, <2>2, <2>3, <2>4, <3>3, HoldersAreNodes
      DEF AccountsInvariant, TypeOK, Balanced
    <3> QED
      BY <3>1, <3>2, <3>3 DEF Balanced
  <2> QED
    BY <2>5, <2>6, <2>7 DEF UserSound
<1> QED
  BY <1>2, <1>3 DEF UsersSound

\* Who does not know the password gives back what he read.
LEMMA CheckPasswordKept ==
  ASSUME AccountsInvariant, TypeOK', NEW n \in Nodes, NEW to \in {"checking", "off"},
         Becomes(n, {"password"}, to), UNCHANGED <<shared, hands, ledger, history>>
  PROVE  ClientsSound' /\ UsersSound'
<1>1. /\ at[n] = "password"
      /\ at' = [at EXCEPT ![n] = to]
      /\ UNCHANGED <<file, info, logged, rec, user, ref, sum, book>>
  BY Zenon DEF CheckPassword, Becomes, shared, hands, ledger, history, AccountsInvariant, TypeOK
<1>2. ClientsSound'
  BY <1>1
  DEF CheckPassword, Becomes, shared, hands, ledger, history, AccountsInvariant, TypeOK,
      ClientsSound, LoginPhases, CreditPhases, EditPhases, Inside
<1>3. ASSUME NEW u \in Users \ disturbed'
      PROVE  UserSound(u)'
  <2>1. u \in Users \ disturbed
    BY DEF CheckPassword, Becomes, shared, hands, ledger, history
  <2>2. file[u].user_no = u /\ AtHome(u) /\ Edited(u) /\ Lent(u) /\ Pointed(u) /\ Balanced(u)
    BY <2>1 DEF AccountsInvariant, UsersSound, UserSound
  <2>3. /\ \A m \in Home(u) : Home(u) = {m} /\ Editing(u) = {} /\ Loaded(u) = {}
        /\ Login(u) # {} => Crediting(u) = {} /\ Unsaved(u) = {}
        /\ \A m \in Home(u) : \A k \in Crediting(u) : ref[k] = m
        /\ Editing(u) # {} => Crediting(u) = {}
        /\ \A m \in Loaded(u) : Crediting(u) = {m}
    BY <2>1, <2>2, HeldByOne DEF AccountsInvariant
  <2>4. Due(u)' = Due(u)
    BY <1>1 DEF Due, Unbooked, Coming, Going
  <2>5. /\ Online(u)' = Online(u)
        /\ Login(u)' = (IF to = "off" THEN Login(u) \ {n} ELSE Login(u))
        /\ Writing(u)' = Writing(u)
        /\ Home(u)' = (IF to = "off" THEN Home(u) \ {n} ELSE Home(u))
        /\ Editing(u)' = Editing(u) /\ Crediting(u)' = Crediting(u)
        /\ Loaded(u)' = Loaded(u) /\ Unsaved(u)' = Unsaved(u) /\ n \notin Editing(u)
        /\ n \notin Writing(u) /\ n \notin Online(u) /\ n \notin Crediting(u)
    <3>1. Online(u)' = Online(u)
      BY <1>1
      DEF AccountsInvariant, TypeOK, ClientsSound, Online, LoginPhases, CreditPhases,
          EditPhases
    <3>2. Login(u)' = (IF to = "off" THEN Login(u) \ {n} ELSE Login(u))
      BY <1>1
      DEF AccountsInvariant, TypeOK, ClientsSound, Login, LoginPhases, CreditPhases,
          EditPhases
    <3>3. Writing(u)' = Writing(u)
      BY <1>1
      DEF AccountsInvariant, TypeOK, ClientsSound, Writing, LoginPhases, CreditPhases,
          EditPhases
    <3>4. Home(u)' = (IF to = "off" THEN Home(u) \ {n} ELSE Home(u))
      BY <1>1, <3>1, <3>2, <3>3
      DEF AccountsInvariant, TypeOK, ClientsSound, Home, Online, Login, Writing,
          LoginPhases, CreditPhases, EditPhases, Inside
    <3>5. Editing(u)' = Editing(u)
      BY <1>1
      DEF AccountsInvariant, TypeOK, ClientsSound, Editing, LoginPhases, CreditPhases,
          EditPhases
    <3>6. Crediting(u)' = Crediting(u)
      BY <1>1
      DEF AccountsInvariant, TypeOK, ClientsSound, Crediting, LoginPhases, CreditPhases,
          EditPhases
    <3>7. Loaded(u)' = Loaded(u)
      BY <1>1
      DEF AccountsInvariant, TypeOK, ClientsSound, Loaded, Crediting, LoginPhases,
          CreditPhases, EditPhases, Inside
    <3>8. Unsaved(u)' = Unsaved(u)
      BY <1>1
      DEF AccountsInvariant, TypeOK, ClientsSound, Unsaved, Crediting, LoginPhases,
          CreditPhases, EditPhases, Inside
    <3>9. n \notin Editing(u)
      BY <1>1
      DEF AccountsInvariant, TypeOK, ClientsSound, Editing, LoginPhases, CreditPhases,
          EditPhases
    <3>10. n \notin Writing(u)
      BY <1>1
      DEF AccountsInvariant, TypeOK, ClientsSound, Writing, LoginPhases, CreditPhases,
          EditPhases
    <3>11. n \notin Online(u)
      BY <1>1
      DEF AccountsInvariant, TypeOK, ClientsSound, Online, LoginPhases, CreditPhases,
          EditPhases, Inside
    <3>12. n \notin Crediting(u)
      BY <1>1
      DEF AccountsInvariant, TypeOK, ClientsSound, Crediting, LoginPhases, CreditPhases,
          EditPhases
    <3> QED
      BY <3>1, <3>2, <3>3, <3>4, <3>5, <3>6, <3>7, <3>8, <3>9, <3>10, <3>11, <3>12
  <2>6. file'[u].user_no = u /\ AtHome(u)' /\ Edited(u)' /\ Lent(u)'
    <3>1. file'[u].user_no = u /\ AtHome(u)'
      BY <1>1, <2>1, <2>2, <2>3, <2>5, HoldersAreNodes
      DEF AccountsInvariant, TypeOK, AtHome, Home, Online
    <3>2. Posing(u)' \subseteq Posing(u)
      BY <1>1
      DEF AccountsInvariant, TypeOK, ClientsSound, Posing, LoginPhases, CreditPhases,
          EditPhases, Inside
    <3>3. Edited(u)'
      BY <1>1, <2>1, <2>2, <2>3, <2>5, HoldersAreNodes, <3>2
      DEF AccountsInvariant, TypeOK, Edited
    <3>4. Lent(u)'
      BY <1>1, <2>1, <2>2, <2>3, <2>5, HoldersAreNodes
      DEF AccountsInvariant, TypeOK, Lent
    <3> QED
      BY <3>1, <3>3, <3>4
  <2>7. Pointed(u)'
    <3>1. ASSUME NEW k \in Crediting(u)' \ Loaded(u)'
          PROVE  PointedBy(u, k)'
      <4>1. /\ k \in Nodes /\ ref[k] \in Nodes /\ ref[k] # NoNode /\ user[k] = u
            /\ PointedBy(u, k)
        BY <2>1, <2>2, <2>5, HoldersAreNodes DEF AccountsInvariant, Pointed
      <4> QED
        BY <1>1, <2>1, <2>3, <2>5, <4>1 DEF AccountsInvariant, TypeOK, PointedBy, Home
    <3> QED
      BY <3>1 DEF Pointed
  <2>8. Balanced(u)'
    <3>1. /\ \A m \in Online(u)' : info'[m].account_balance = Due(u)'
          /\ \A m \in Login(u)' \union Writing(u)' : rec'[m].account_balance = Due(u)'
      BY <1>1, <2>1, <2>2, <2>3, <2>4, <2>5, HoldersAreNodes
      DEF AccountsInvariant, TypeOK, Balanced, Home
    <3>2. ASSUME Home(u)' = {}, NEW k \in Unsaved(u)'
          PROVE  Due(u)' = IF ref'[k] = NoNode THEN rec'[k].account_balance
                                               ELSE info'[ref'[k]].account_balance
      BY <1>1, <2>1, <2>2, <2>3, <2>4, <2>5, <3>2, HoldersAreNodes
      DEF AccountsInvariant, TypeOK, Balanced, Home
    <3>3. ASSUME Home(u)' = {}, Unsaved(u)' = {}
          PROVE  file'[u].account_balance = Due(u)'
      BY <1>1, <2>1, <2>2, <2>3, <2>4, <2>5, <3>3, HoldersAreNodes
      DEF AccountsInvariant, TypeOK, Balanced, Home, AtHome
    <3> QED
      BY <3>1, <3>2, <3>3 DEF Balanced
  <2> QED
    BY <2>6, <2>7, <2>8 DEF UserSound
<1> QED
  BY <1>2, <1>3 DEF UsersSound

\* /CREDIT copies the record it points to.
LEMMA TakeRecordKept ==
  ASSUME AccountsInvariant, TypeOK', NEW n \in Nodes, TakeRecord(n)
  PROVE  ClientsSound' /\ UsersSound'
<1>1. /\ at[n] = "storing"
      /\ at' = [at EXCEPT ![n] = "saving"]
      /\ rec' = [rec EXCEPT ![n] = IF ref[n] = NoNode THEN rec[n] ELSE info[ref[n]]]
      /\ UNCHANGED <<file, info, logged, user, ref, sum, book>>
  BY DEF TakeRecord, Becomes, shared, hands, ledger, history, AccountsInvariant, TypeOK
<1>2. ClientsSound'
  BY <1>1
  DEF TakeRecord, Becomes, shared, hands, ledger, history, AccountsInvariant, TypeOK, ClientsSound,
      LoginPhases, CreditPhases, EditPhases, Inside
<1>3. ASSUME NEW u \in Users \ disturbed'
      PROVE  UserSound(u)'
  <2>1. u \in Users \ disturbed
    BY DEF TakeRecord, Becomes, shared, hands, ledger, history
  <2>2. file[u].user_no = u /\ AtHome(u) /\ Edited(u) /\ Lent(u) /\ Pointed(u) /\ Balanced(u)
    BY <2>1 DEF AccountsInvariant, UsersSound, UserSound
  <2>3. Due(u)' = Due(u)
    BY <1>1 DEF Due, Unbooked, Coming, Going
  <2>4. /\ Online(u)' = Online(u) /\ Login(u)' = Login(u) /\ Writing(u)' = Writing(u)
        /\ Home(u)' = Home(u) /\ Editing(u)' = Editing(u) /\ Crediting(u)' = Crediting(u)
        /\ Loaded(u)' = Loaded(u) /\ Unsaved(u)' = Unsaved(u) /\ n \notin Login(u)
        /\ n \notin Writing(u) /\ n \notin Editing(u)
    <3>1. /\ Online(u)' = Online(u) /\ Login(u)' = Login(u) /\ Writing(u)' = Writing(u)
          /\ n \notin Login(u) /\ n \notin Writing(u)
      BY <1>1
      DEF AccountsInvariant, TypeOK, ClientsSound, Online, Login, Writing, LoginPhases,
          CreditPhases, EditPhases, Inside
    <3>2. Home(u)' = Home(u)
      BY <3>1 DEF Home
    <3>3. /\ Editing(u)' = Editing(u) /\ Crediting(u)' = Crediting(u)
          /\ Loaded(u)' = Loaded(u) /\ Unsaved(u)' = Unsaved(u) /\ n \notin Editing(u)
      BY <1>1
      DEF AccountsInvariant, TypeOK, ClientsSound, Editing, Crediting, Loaded, Unsaved,
          LoginPhases, CreditPhases, EditPhases, Inside
    <3> QED
      BY <3>1, <3>2, <3>3
  <2>5. file'[u].user_no = u /\ AtHome(u)' /\ Edited(u)' /\ Lent(u)'
    <3>1. file'[u].user_no = u /\ AtHome(u)'
      BY <1>1, <2>1, <2>2, <2>4, HoldersAreNodes
      DEF AccountsInvariant, TypeOK, AtHome, Home, Online
    <3>2. Posing(u)' \subseteq Posing(u)
      BY <1>1
      DEF AccountsInvariant, TypeOK, ClientsSound, Posing, LoginPhases, CreditPhases,
          EditPhases, Inside
    <3>3. Edited(u)'
      BY <1>1, <2>1, <2>2, <2>4, HoldersAreNodes, <3>2
      DEF AccountsInvariant, TypeOK, Edited
    <3>4. Lent(u)'
      BY <1>1, <2>1, <2>2, <2>4, HoldersAreNodes
      DEF AccountsInvariant, TypeOK, Lent
    <3> QED
      BY <3>1, <3>3, <3>4
  <2>6. Pointed(u)'
    <3>1. ASSUME NEW k \in Crediting(u)' \ Loaded(u)'
          PROVE  PointedBy(u, k)'
      <4>1. /\ k \in Nodes /\ ref[k] \in Nodes /\ ref[k] # NoNode /\ user[k] = u
            /\ PointedBy(u, k)
        BY <2>1, <2>2, <2>4, HoldersAreNodes DEF AccountsInvariant, Pointed
      <4> QED
        BY <1>1, <2>1, <2>4, <4>1 DEF AccountsInvariant, TypeOK, PointedBy
    <3> QED
      BY <3>1 DEF Pointed
  <2>7. Balanced(u)'
    <3>1. /\ \A m \in Online(u)' : info'[m].account_balance = Due(u)'
          /\ \A m \in Login(u)' \union Writing(u)' : rec'[m].account_balance = Due(u)'
      BY <1>1, <2>1, <2>2, <2>3, <2>4, HoldersAreNodes
      DEF AccountsInvariant, TypeOK, Balanced, Home
    <3>2. ASSUME Home(u)' = {}, NEW k \in Unsaved(u)'
          PROVE  Due(u)' = IF ref'[k] = NoNode THEN rec'[k].account_balance
                                               ELSE info'[ref'[k]].account_balance
      BY <1>1, <2>1, <2>2, <2>3, <2>4, <3>2, HoldersAreNodes
      DEF AccountsInvariant, TypeOK, Balanced
    <3>3. ASSUME Home(u)' = {}, Unsaved(u)' = {}
          PROVE  file'[u].account_balance = Due(u)'
      BY <1>1, <2>1, <2>2, <2>3, <2>4, <3>3, HoldersAreNodes
      DEF AccountsInvariant, TypeOK, Balanced
    <3> QED
      BY <3>1, <3>2, <3>3 DEF Balanced
  <2> QED
    BY <2>5, <2>6, <2>7 DEF UserSound
<1> QED
  BY <1>2, <1>3 DEF UsersSound

\* Who leaves copies the record from the node.
LEMMA GetOnlineInfoKept ==
  ASSUME AccountsInvariant, TypeOK', NEW n \in Nodes, GetOnlineInfo(n)
  PROVE  ClientsSound' /\ UsersSound'
<1>1. /\ at[n] = "leaving"
      /\ at' = [at EXCEPT ![n] = "copied"]
      /\ rec' = [rec EXCEPT ![n] = info[n]]
      /\ UNCHANGED <<file, info, logged, user, ref, sum, book>>
  BY Zenon DEF GetOnlineInfo, Becomes, shared, hands, ledger, history, AccountsInvariant, TypeOK
<1>2. ClientsSound'
  BY <1>1
  DEF GetOnlineInfo, Becomes, shared, hands, ledger, history, AccountsInvariant, TypeOK,
      ClientsSound, LoginPhases, CreditPhases, EditPhases, Inside
<1>3. ASSUME NEW u \in Users \ disturbed'
      PROVE  UserSound(u)'
  <2>1. u \in Users \ disturbed
    BY DEF GetOnlineInfo, Becomes, shared, hands, ledger, history
  <2>2. file[u].user_no = u /\ AtHome(u) /\ Edited(u) /\ Lent(u) /\ Pointed(u) /\ Balanced(u)
    BY <2>1 DEF AccountsInvariant, UsersSound, UserSound
  <2>3. /\ n \in Online(u) <=> user[n] = u
        /\ user[n] = u => info[n].user_no = u
    BY <1>1, <2>1 DEF AccountsInvariant, ClientsSound, Online, Inside
  <2>4. Due(u)' = Due(u)
    BY <1>1 DEF Due, Unbooked, Coming, Going
  <2>5. /\ Online(u)' = Online(u) /\ Login(u)' = Login(u)
        /\ Writing(u)' = Writing(u)
        /\ Home(u)' = Home(u) /\ Editing(u)' = Editing(u) /\ Crediting(u)' = Crediting(u)
        /\ Loaded(u)' = Loaded(u) /\ Unsaved(u)' = Unsaved(u) /\ n \notin Login(u)
        /\ n \notin Writing(u) /\ n \notin Editing(u) /\ n \notin Crediting(u)
    <3>1. /\ Online(u)' = Online(u) /\ Login(u)' = Login(u)
          /\ Writing(u)' = Writing(u)
          /\ n \notin Login(u) /\ n \notin Writing(u)
      BY <1>1, <2>3
      DEF AccountsInvariant, TypeOK, ClientsSound, Online, Login, Writing, LoginPhases,
          CreditPhases, EditPhases, Inside
    <3>2. Home(u)' = Home(u)
      BY <2>3, <3>1 DEF Home
    <3>3. /\ Editing(u)' = Editing(u) /\ Crediting(u)' = Crediting(u)
          /\ Loaded(u)' = Loaded(u) /\ Unsaved(u)' = Unsaved(u) /\ n \notin Editing(u)
          /\ n \notin Crediting(u)
      BY <1>1, <2>3
      DEF AccountsInvariant, TypeOK, ClientsSound, Editing, Crediting, Loaded, Unsaved,
          LoginPhases, CreditPhases, EditPhases, Inside
    <3> QED
      BY <3>1, <3>2, <3>3
  <2>6. file'[u].user_no = u /\ AtHome(u)' /\ Edited(u)' /\ Lent(u)'
    <3>1. file'[u].user_no = u /\ AtHome(u)'
      BY <1>1, <2>1, <2>2, <2>3, <2>5, HoldersAreNodes
      DEF AccountsInvariant, TypeOK, AtHome, Home, Online
    <3>2. Posing(u)' \subseteq Posing(u)
      BY <1>1
      DEF AccountsInvariant, TypeOK, ClientsSound, Posing, LoginPhases, CreditPhases,
          EditPhases, Inside
    <3>3. Edited(u)'
      BY <1>1, <2>1, <2>2, <2>3, <2>5, HoldersAreNodes, <3>2
      DEF AccountsInvariant, TypeOK, Edited
    <3>4. Lent(u)'
      BY <1>1, <2>1, <2>2, <2>3, <2>5, HoldersAreNodes
      DEF AccountsInvariant, TypeOK, Lent
    <3> QED
      BY <3>1, <3>3, <3>4
  <2>7. Pointed(u)'
    <3>1. ASSUME NEW k \in Crediting(u)' \ Loaded(u)'
          PROVE  PointedBy(u, k)'
      <4>1. /\ k \in Nodes /\ ref[k] \in Nodes /\ ref[k] # NoNode /\ user[k] = u
            /\ PointedBy(u, k)
        BY <2>1, <2>2, <2>5, HoldersAreNodes DEF AccountsInvariant, Pointed
      <4> QED
        BY <1>1, <2>1, <2>3, <2>5, <4>1 DEF AccountsInvariant, TypeOK, PointedBy
    <3> QED
      BY <3>1 DEF Pointed
  <2>8. Balanced(u)'
    <3>1. /\ \A m \in Online(u)' : info'[m].account_balance = Due(u)'
          /\ \A m \in Login(u)' \union Writing(u)' : rec'[m].account_balance = Due(u)'
      BY <1>1, <2>1, <2>2, <2>3, <2>4, <2>5, HoldersAreNodes
      DEF AccountsInvariant, TypeOK, Balanced, Home
    <3>2. ASSUME Home(u)' = {}, NEW k \in Unsaved(u)'
          PROVE  Due(u)' = IF ref'[k] = NoNode THEN rec'[k].account_balance
                                               ELSE info'[ref'[k]].account_balance
      BY <1>1, <2>1, <2>2, <2>3, <2>4, <2>5, <3>2, HoldersAreNodes
      DEF AccountsInvariant, TypeOK, Balanced
    <3>3. ASSUME Home(u)' = {}, Unsaved(u)' = {}
          PROVE  file'[u].account_balance = Due(u)'
      BY <1>1, <2>1, <2>2, <2>3, <2>4, <2>5, <3>3, HoldersAreNodes
      DEF AccountsInvariant, TypeOK, Balanced
    <3> QED
      BY <3>1, <3>2, <3>3 DEF Balanced
  <2> QED
    BY <2>6, <2>7, <2>8 DEF UserSound
<1> QED
  BY <1>2, <1>3 DEF UsersSound

\* Who leaves takes the record along from the node to his copy.
LEMMA LogOutKept ==
  ASSUME AccountsInvariant, TypeOK', NEW n \in Nodes, LogOut(n)
  PROVE  ClientsSound' /\ UsersSound'
<1>1. /\ at[n] = "copied"
      /\ logged' = [logged EXCEPT ![n] = FALSE]
      /\ at' = [at EXCEPT ![n] = "writing"]
      /\ UNCHANGED <<file, info, rec, user, ref, sum, book>>
  BY Zenon DEF LogOut, Becomes, shared, hands, ledger, history, AccountsInvariant, TypeOK
<1>2. ClientsSound'
  BY <1>1
  DEF LogOut, Becomes, shared, hands, ledger, history, AccountsInvariant, TypeOK,
      ClientsSound, LoginPhases, CreditPhases, EditPhases, Inside
<1>3. ASSUME NEW u \in Users \ disturbed'
      PROVE  UserSound(u)'
  <2>1. u \in Users \ disturbed
    BY DEF LogOut, Becomes, shared, hands, ledger, history
  <2>2. file[u].user_no = u /\ AtHome(u) /\ Edited(u) /\ Lent(u) /\ Pointed(u) /\ Balanced(u)
    BY <2>1 DEF AccountsInvariant, UsersSound, UserSound
  <2>3. /\ n \in Online(u) <=> user[n] = u
        /\ user[n] = u => info[n].user_no = u /\ rec[n] = info[n]
    <3>1. /\ n \in Online(u) <=> user[n] = u
          /\ user[n] = u => info[n].user_no = u
      BY <1>1, <2>1 DEF AccountsInvariant, ClientsSound, Online, Inside
    <3> QED
      BY <1>1, <2>2, <3>1 DEF AtHome
  <2>4. Due(u)' = Due(u)
    BY <1>1 DEF Due, Unbooked, Coming, Going
  <2>5. /\ Online(u)' = Online(u) \ {n} /\ Login(u)' = Login(u)
        /\ Writing(u)' = Writing(u) \union (IF user[n] = u THEN {n} ELSE {})
        /\ Home(u)' = Home(u) /\ Editing(u)' = Editing(u) /\ Crediting(u)' = Crediting(u)
        /\ Loaded(u)' = Loaded(u) /\ Unsaved(u)' = Unsaved(u) /\ n \notin Login(u)
        /\ n \notin Writing(u) /\ n \notin Editing(u) /\ n \notin Crediting(u)
    <3>1. /\ Online(u)' = Online(u) \ {n} /\ Login(u)' = Login(u)
          /\ Writing(u)' = Writing(u) \union (IF user[n] = u THEN {n} ELSE {})
          /\ n \notin Login(u) /\ n \notin Writing(u)
      BY <1>1, <2>3
      DEF AccountsInvariant, TypeOK, ClientsSound, Online, Login, Writing, LoginPhases,
          CreditPhases, EditPhases, Inside
    <3>2. Home(u)' = Home(u)
      BY <2>3, <3>1 DEF Home
    <3>3. /\ Editing(u)' = Editing(u) /\ Crediting(u)' = Crediting(u)
          /\ Loaded(u)' = Loaded(u) /\ Unsaved(u)' = Unsaved(u) /\ n \notin Editing(u)
          /\ n \notin Crediting(u)
      BY <1>1, <2>3
      DEF AccountsInvariant, TypeOK, ClientsSound, Editing, Crediting, Loaded, Unsaved,
          LoginPhases, CreditPhases, EditPhases, Inside
    <3> QED
      BY <3>1, <3>2, <3>3
  <2>6. file'[u].user_no = u /\ AtHome(u)' /\ Edited(u)' /\ Lent(u)'
    <3>1. file'[u].user_no = u /\ AtHome(u)'
      BY <1>1, <2>1, <2>2, <2>3, <2>5, HoldersAreNodes
      DEF AccountsInvariant, TypeOK, AtHome, Home, Online
    <3>2. Posing(u)' \subseteq Posing(u)
      BY <1>1
      DEF AccountsInvariant, TypeOK, ClientsSound, Posing, LoginPhases, CreditPhases,
          EditPhases, Inside
    <3>3. Edited(u)'
      BY <1>1, <2>1, <2>2, <2>3, <2>5, HoldersAreNodes, <3>2
      DEF AccountsInvariant, TypeOK, Edited
    <3>4. Lent(u)'
      BY <1>1, <2>1, <2>2, <2>3, <2>5, HoldersAreNodes
      DEF AccountsInvariant, TypeOK, Lent
    <3> QED
      BY <3>1, <3>3, <3>4
  <2>7. Pointed(u)'
    <3>1. ASSUME NEW k \in Crediting(u)' \ Loaded(u)'
          PROVE  PointedBy(u, k)'
      <4>1. /\ k \in Nodes /\ ref[k] \in Nodes /\ ref[k] # NoNode /\ user[k] = u
            /\ PointedBy(u, k)
        BY <2>1, <2>2, <2>5, HoldersAreNodes DEF AccountsInvariant, Pointed
      <4> QED
        BY <1>1, <2>1, <2>3, <2>5, <4>1 DEF AccountsInvariant, TypeOK, PointedBy
    <3> QED
      BY <3>1 DEF Pointed
  <2>8. Balanced(u)'
    <3>1. /\ \A m \in Online(u)' : info'[m].account_balance = Due(u)'
          /\ \A m \in Login(u)' \union Writing(u)' : rec'[m].account_balance = Due(u)'
      BY <1>1, <2>1, <2>2, <2>3, <2>4, <2>5, HoldersAreNodes
      DEF AccountsInvariant, TypeOK, Balanced, Home
    <3>2. ASSUME Home(u)' = {}, NEW k \in Unsaved(u)'
          PROVE  Due(u)' = IF ref'[k] = NoNode THEN rec'[k].account_balance
                                               ELSE info'[ref'[k]].account_balance
      BY <1>1, <2>1, <2>2, <2>3, <2>4, <2>5, <3>2, HoldersAreNodes
      DEF AccountsInvariant, TypeOK, Balanced
    <3>3. ASSUME Home(u)' = {}, Unsaved(u)' = {}
          PROVE  file'[u].account_balance = Due(u)'
      BY <1>1, <2>1, <2>2, <2>3, <2>4, <2>5, <3>3, HoldersAreNodes
      DEF AccountsInvariant, TypeOK, Balanced
    <3> QED
      BY <3>1, <3>2, <3>3 DEF Balanced
  <2> QED
    BY <2>6, <2>7, <2>8 DEF UserSound
<1> QED
  BY <1>2, <1>3 DEF UsersSound

\* He writes it to the file, and nobody is left with a copy.
LEMMA SaveEndsKept ==
  ASSUME AccountsInvariant, TypeOK', NEW n \in Nodes, SaveEnds(n)
  PROVE  ClientsSound' /\ UsersSound'
<1>1. /\ at[n] = "writing"
      /\ file' = [file EXCEPT ![user[n]] = rec[n]]
      /\ at' = [at EXCEPT ![n] = "off"]
      /\ UNCHANGED <<info, logged, rec, user, ref, sum, book>>
  BY Zenon
  DEF SaveEnds, Becomes, shared, hands, ledger, history, save_user_record, AccountsInvariant, TypeOK
<1>2. ClientsSound'
  BY <1>1
  DEF SaveEnds, Becomes, shared, hands, ledger, history, save_user_record, AccountsInvariant,
      TypeOK,
      ClientsSound, LoginPhases, CreditPhases, EditPhases, Inside
<1>3. ASSUME NEW u \in Users \ disturbed', ~(user[n] = u)
      PROVE  UserSound(u)'
  <2>1. u \in Users \ disturbed /\ UserSound(u)
    BY DEF SaveEnds, Becomes, shared, hands, ledger, history, save_user_record, AccountsInvariant,
           UsersSound
  <2>2. Due(u)' = Due(u)
    BY <1>1 DEF Due, Unbooked, Coming, Going
  <2>3. FewerHolders(u)
    <3>1. Online(u)' = Online(u) /\ Login(u)' = Login(u) /\ Writing(u)' = Writing(u)
      BY <1>1, <1>3
      DEF AccountsInvariant, TypeOK, ClientsSound, Online, Login, Writing, LoginPhases,
          CreditPhases, EditPhases, Inside
    <3>2. /\ Editing(u)' = Editing(u) /\ Crediting(u)' = Crediting(u)
          /\ Loaded(u)' = Loaded(u) /\ Unsaved(u)' = Unsaved(u)
      BY <1>1, <1>3
      DEF AccountsInvariant, TypeOK, ClientsSound, Editing, Crediting, Loaded, Unsaved,
          LoginPhases, CreditPhases, EditPhases, Inside
    <3>3. Posing(u)' \subseteq Posing(u)
      BY <1>1
      DEF AccountsInvariant, TypeOK, ClientsSound, Posing, LoginPhases, CreditPhases,
          EditPhases, Inside
    <3> QED
      BY <3>1, <3>2, <3>3, HoldersAreNodes DEF FewerHolders, AccountsInvariant
  <2>4. SameCopies(u) /\ SameCredits(u)
    <3>1. n \notin Login(u) \union Writing(u) \union Editing(u) \union Crediting(u)
      BY <1>1, <1>3, <2>1
      DEF AccountsInvariant, TypeOK, ClientsSound, Login, Writing, Editing, Crediting,
          LoginPhases, CreditPhases, EditPhases, Inside
    <3>2. Editing(u)' \subseteq Editing(u) /\ Crediting(u)' \subseteq Crediting(u)
      BY <2>3 DEF FewerHolders
    <3> QED
      BY <1>1, <1>3, <2>1, <2>3, <3>1, <3>2, HoldersAreNodes
      DEF AccountsInvariant, TypeOK, Home, FewerHolders, SameCopies, SameCredits
  <2> QED
    BY <2>1, <2>2, <2>3, <2>4, Bystander DEF AccountsInvariant
<1>4. ASSUME NEW u \in Users \ disturbed', user[n] = u
      PROVE  UserSound(u)'
  <2>1. u \in Users \ disturbed
    BY DEF SaveEnds, Becomes, shared, hands, ledger, history, save_user_record
  <2>2. file[u].user_no = u /\ AtHome(u) /\ Edited(u) /\ Lent(u) /\ Pointed(u) /\ Balanced(u)
    BY <2>1 DEF AccountsInvariant, UsersSound, UserSound
  <2>3. /\ \A m \in Home(u) : Home(u) = {m} /\ Editing(u) = {} /\ Loaded(u) = {}
        /\ Login(u) # {} => Crediting(u) = {} /\ Unsaved(u) = {}
        /\ \A m \in Home(u) : \A k \in Crediting(u) : ref[k] = m
        /\ Editing(u) # {} => Crediting(u) = {}
        /\ \A m \in Loaded(u) : Crediting(u) = {m}
    BY <2>1, <2>2, HeldByOne DEF AccountsInvariant
  <2>4. n \in Writing(u) /\ Home(u) = {n} /\ rec[n] = info[n] /\ info[n].user_no = u
    BY <1>1, <1>4, <2>2 DEF AtHome, Writing, Home
  <2>5. file'[u] = rec[n]
    BY <1>1, <1>4, <2>1 DEF AccountsInvariant, TypeOK
  <2>6. Due(u)' = Due(u)
    BY <1>1 DEF Due, Unbooked, Coming, Going
  <2>7. /\ Online(u)' = Online(u) /\ Login(u)' = Login(u) /\ Writing(u)' = Writing(u) \ {n}
        /\ Home(u)' = Home(u) \ {n} /\ Editing(u)' = Editing(u)
        /\ Crediting(u)' = Crediting(u) /\ Loaded(u)' = Loaded(u)
        /\ Unsaved(u)' = Unsaved(u) /\ n \notin Login(u) /\ n \notin Online(u)
        /\ n \notin Editing(u) /\ n \notin Crediting(u)
    <3>1. Online(u)' = Online(u)
      BY <1>1, <1>4
      DEF AccountsInvariant, TypeOK, ClientsSound, Online, LoginPhases, CreditPhases,
          EditPhases, Inside
    <3>2. Login(u)' = Login(u)
      BY <1>1, <1>4
      DEF AccountsInvariant, TypeOK, ClientsSound, Login, LoginPhases, CreditPhases,
          EditPhases
    <3>3. Writing(u)' = Writing(u) \ {n}
      BY <1>1, <1>4
      DEF AccountsInvariant, TypeOK, ClientsSound, Writing, LoginPhases, CreditPhases,
          EditPhases
    <3>4. Home(u)' = Home(u) \ {n}
      BY <1>1, <3>1, <3>2, <3>3
      DEF AccountsInvariant, TypeOK, ClientsSound, Home, Online, Login, Writing,
          LoginPhases, CreditPhases, EditPhases, Inside
    <3>5. Editing(u)' = Editing(u)
      BY <1>1, <1>4
      DEF AccountsInvariant, TypeOK, ClientsSound, Editing, LoginPhases, CreditPhases,
          EditPhases
    <3>6. Crediting(u)' = Crediting(u)
      BY <1>1, <1>4
      DEF AccountsInvariant, TypeOK, ClientsSound, Crediting, LoginPhases, CreditPhases,
          EditPhases
    <3>7. Loaded(u)' = Loaded(u)
      BY <1>1, <1>4
      DEF AccountsInvariant, TypeOK, ClientsSound, Loaded, Crediting, LoginPhases,
          CreditPhases, EditPhases, Inside
    <3>8. Unsaved(u)' = Unsaved(u)
      BY <1>1, <1>4
      DEF AccountsInvariant, TypeOK, ClientsSound, Unsaved, Crediting, LoginPhases,
          CreditPhases, EditPhases, Inside
    <3>9. n \notin Login(u)
      BY <1>1, <1>4
      DEF AccountsInvariant, TypeOK, ClientsSound, Login, LoginPhases, CreditPhases,
          EditPhases
    <3>10. n \notin Online(u)
      BY <1>1, <1>4
      DEF AccountsInvariant, TypeOK, ClientsSound, Online, LoginPhases, CreditPhases,
          EditPhases, Inside
    <3>11. n \notin Editing(u)
      BY <1>1, <1>4
      DEF AccountsInvariant, TypeOK, ClientsSound, Editing, LoginPhases, CreditPhases,
          EditPhases
    <3>12. n \notin Crediting(u)
      BY <1>1, <1>4
      DEF AccountsInvariant, TypeOK, ClientsSound, Crediting, LoginPhases, CreditPhases,
          EditPhases
    <3> QED
      BY <3>1, <3>2, <3>3, <3>4, <3>5, <3>6, <3>7, <3>8, <3>9, <3>10, <3>11, <3>12
  <2>8. file'[u].user_no = u /\ AtHome(u)' /\ Edited(u)' /\ Lent(u)'
    <3>1. file'[u].user_no = u /\ AtHome(u)'
      BY <1>1, <1>4, <2>1, <2>2, <2>3, <2>4, <2>5, <2>7, HoldersAreNodes
      DEF AccountsInvariant, TypeOK, AtHome, Home, Online
    <3>2. Posing(u)' \subseteq Posing(u)
      BY <1>1
      DEF AccountsInvariant, TypeOK, ClientsSound, Posing, LoginPhases, CreditPhases,
          EditPhases, Inside
    <3>3. Edited(u)'
      BY <1>1, <1>4, <2>1, <2>2, <2>3, <2>4, <2>5, <2>7, HoldersAreNodes, <3>2
      DEF AccountsInvariant, TypeOK, Edited
    <3>4. Lent(u)'
      BY <1>1, <1>4, <2>1, <2>2, <2>3, <2>4, <2>5, <2>7, HoldersAreNodes
      DEF AccountsInvariant, TypeOK, Lent
    <3> QED
      BY <3>1, <3>3, <3>4
  <2>9. Pointed(u)'
    <3>1. ASSUME NEW k \in Crediting(u)' \ Loaded(u)'
          PROVE  PointedBy(u, k)'
      <4>1. /\ k \in Nodes /\ ref[k] \in Nodes /\ ref[k] # NoNode /\ user[k] = u
            /\ PointedBy(u, k)
        BY <2>1, <2>2, <2>7, HoldersAreNodes DEF AccountsInvariant, Pointed
      <4> QED
        BY <1>1, <1>4, <2>1, <2>3, <2>4, <2>5, <2>7, <4>1
        DEF AccountsInvariant, TypeOK, PointedBy
    <3> QED
      BY <3>1 DEF Pointed
  <2>10. Balanced(u)'
    <3>1. /\ \A m \in Online(u)' : info'[m].account_balance = Due(u)'
          /\ \A m \in Login(u)' \union Writing(u)' : rec'[m].account_balance = Due(u)'
      BY <1>1, <1>4, <2>1, <2>2, <2>3, <2>4, <2>5, <2>6, <2>7, HoldersAreNodes
      DEF AccountsInvariant, TypeOK, Balanced, Home
    <3>2. ASSUME Home(u)' = {}, NEW k \in Unsaved(u)'
          PROVE  Due(u)' = IF ref'[k] = NoNode THEN rec'[k].account_balance
                                               ELSE info'[ref'[k]].account_balance
      BY <1>1, <1>4, <2>1, <2>2, <2>3, <2>4, <2>5, <2>6, <2>7, <3>2, HoldersAreNodes
      DEF AccountsInvariant, TypeOK, Balanced
    <3>3. ASSUME Home(u)' = {}, Unsaved(u)' = {}
          PROVE  file'[u].account_balance = Due(u)'
      BY <1>1, <1>4, <2>1, <2>2, <2>3, <2>4, <2>5, <2>6, <2>7, <3>3, HoldersAreNodes
      DEF AccountsInvariant, TypeOK, Balanced
    <3> QED
      BY <3>1, <3>2, <3>3 DEF Balanced
  <2> QED
    BY <2>8, <2>9, <2>10 DEF UserSound
<1> QED
  BY <1>2, <1>3, <1>4 DEF UsersSound

\* Nothing is lost if the copy was still the one in the file.
LEMMA DieUnsavedKept ==
  ASSUME AccountsInvariant, TypeOK', NEW n \in Nodes, DieUnsaved(n)
  PROVE  ClientsSound' /\ UsersSound'
<1>1. /\ at[n] \in {"password", "checking", "entering", "writing"}
      /\ at' = [at EXCEPT ![n] = "off"]
      /\ UNCHANGED <<file, info, logged, rec, user, ref, sum, book>>
  BY Zenon
  DEF DieUnsaved, Becomes, shared, hands, ledger, Disturbs, LoginPhases, AccountsInvariant, TypeOK
<1>2. ClientsSound'
  BY <1>1
  DEF DieUnsaved, Becomes, shared, hands, ledger, Disturbs, LoginPhases, AccountsInvariant, TypeOK,
      ClientsSound, LoginPhases, CreditPhases, EditPhases, Inside
<1>3. ASSUME NEW u \in Users \ disturbed'
      PROVE  UserSound(u)'
  <2>1. u \in Users \ disturbed
    BY DEF DieUnsaved, Becomes, shared, hands, ledger, Disturbs, LoginPhases
  <2>2. file[u].user_no = u /\ AtHome(u) /\ Edited(u) /\ Lent(u) /\ Pointed(u) /\ Balanced(u)
    BY <2>1 DEF AccountsInvariant, UsersSound, UserSound
  <2>3. /\ \A m \in Home(u) : Home(u) = {m} /\ Editing(u) = {} /\ Loaded(u) = {}
        /\ Login(u) # {} => Crediting(u) = {} /\ Unsaved(u) = {}
        /\ \A m \in Home(u) : \A k \in Crediting(u) : ref[k] = m
        /\ Editing(u) # {} => Crediting(u) = {}
        /\ \A m \in Loaded(u) : Crediting(u) = {m}
    BY <2>1, <2>2, HeldByOne DEF AccountsInvariant
  <2>4. n \in Login(u) \union Writing(u) => rec[n] = file[u]
    BY <1>1, <2>1 DEF DieUnsaved, Disturbs, Cut, Login, Writing, LoginPhases
  <2>5. n \in Writing(u) => info[n] = file[u]
    BY <2>2, <2>4 DEF AtHome
  <2>6. Due(u)' = Due(u)
    BY <1>1 DEF Due, Unbooked, Coming, Going
  <2>7. /\ Online(u)' = Online(u) /\ Login(u)' = Login(u) \ {n}
        /\ Writing(u)' = Writing(u) \ {n} /\ Home(u)' = Home(u) \ {n}
        /\ Editing(u)' = Editing(u) /\ Crediting(u)' = Crediting(u)
        /\ Loaded(u)' = Loaded(u) /\ Unsaved(u)' = Unsaved(u) /\ n \notin Online(u)
        /\ n \notin Editing(u) /\ n \notin Crediting(u)
    <3>1. /\ Online(u)' = Online(u) /\ Login(u)' = Login(u) \ {n}
          /\ Writing(u)' = Writing(u) \ {n} /\ n \notin Online(u)
      BY <1>1
      DEF AccountsInvariant, TypeOK, ClientsSound, Online, Login, Writing, LoginPhases,
          CreditPhases, EditPhases, Inside
    <3>2. Home(u)' = Home(u) \ {n}
      BY <1>1, <3>1
      DEF AccountsInvariant, TypeOK, ClientsSound, Home, Online, Login, Writing,
          LoginPhases, CreditPhases, EditPhases, Inside
    <3>3. /\ Editing(u)' = Editing(u) /\ Crediting(u)' = Crediting(u)
          /\ Loaded(u)' = Loaded(u) /\ Unsaved(u)' = Unsaved(u) /\ n \notin Editing(u)
          /\ n \notin Crediting(u)
      BY <1>1
      DEF AccountsInvariant, TypeOK, ClientsSound, Editing, Crediting, Loaded, Unsaved,
          LoginPhases, CreditPhases, EditPhases, Inside
    <3> QED
      BY <3>1, <3>2, <3>3
  <2>8. file'[u].user_no = u /\ AtHome(u)' /\ Edited(u)' /\ Lent(u)'
    <3>1. file'[u].user_no = u /\ AtHome(u)'
      BY <1>1, <2>1, <2>2, <2>3, <2>4, <2>5, <2>7, HoldersAreNodes
      DEF AccountsInvariant, TypeOK, AtHome, Home, Online
    <3>2. Posing(u)' \subseteq Posing(u)
      BY <1>1
      DEF AccountsInvariant, TypeOK, ClientsSound, Posing, LoginPhases, CreditPhases,
          EditPhases, Inside
    <3>3. Edited(u)'
      BY <1>1, <2>1, <2>2, <2>3, <2>4, <2>5, <2>7, HoldersAreNodes, <3>2
      DEF AccountsInvariant, TypeOK, Edited
    <3>4. Lent(u)'
      BY <1>1, <2>1, <2>2, <2>3, <2>4, <2>5, <2>7, HoldersAreNodes
      DEF AccountsInvariant, TypeOK, Lent
    <3> QED
      BY <3>1, <3>3, <3>4
  <2>9. Pointed(u)'
    <3>1. ASSUME NEW k \in Crediting(u)' \ Loaded(u)'
          PROVE  PointedBy(u, k)'
      <4>1. /\ k \in Nodes /\ ref[k] \in Nodes /\ ref[k] # NoNode /\ user[k] = u
            /\ PointedBy(u, k)
        BY <2>1, <2>2, <2>7, HoldersAreNodes DEF AccountsInvariant, Pointed
      <4> QED
        BY <1>1, <2>1, <2>3, <2>4, <2>5, <2>7, <4>1
        DEF AccountsInvariant, TypeOK, PointedBy, Home
    <3> QED
      BY <3>1 DEF Pointed
  <2>10. Balanced(u)'
    <3>1. /\ \A m \in Online(u)' : info'[m].account_balance = Due(u)'
          /\ \A m \in Login(u)' \union Writing(u)' : rec'[m].account_balance = Due(u)'
      BY <1>1, <2>1, <2>2, <2>3, <2>4, <2>5, <2>6, <2>7, HoldersAreNodes
      DEF AccountsInvariant, TypeOK, Balanced, Home
    <3>2. ASSUME Home(u)' = {}, NEW k \in Unsaved(u)'
          PROVE  Due(u)' = IF ref'[k] = NoNode THEN rec'[k].account_balance
                                               ELSE info'[ref'[k]].account_balance
      BY <1>1, <2>1, <2>2, <2>3, <2>4, <2>5, <2>6, <2>7, <3>2, HoldersAreNodes
      DEF AccountsInvariant, TypeOK, Balanced, Home, AtHome
    <3>3. ASSUME Home(u)' = {}, Unsaved(u)' = {}
          PROVE  file'[u].account_balance = Due(u)'
      BY <1>1, <2>1, <2>2, <2>3, <2>4, <2>5, <2>6, <2>7, <3>3, HoldersAreNodes
      DEF AccountsInvariant, TypeOK, Balanced, Home, AtHome
    <3> QED
      BY <3>1, <3>2, <3>3 DEF Balanced
  <2> QED
    BY <2>8, <2>9, <2>10 DEF UserSound
<1> QED
  BY <1>2, <1>3 DEF UsersSound

\* The editor had the record for himself.
LEMMA EditAbortedKept ==
  ASSUME AccountsInvariant, TypeOK', NEW n \in Nodes, EditAborted(n)
  PROVE  ClientsSound' /\ UsersSound'
<1>1. /\ at[n] = "editing"
      /\ at' = [at EXCEPT ![n] = "online"]
      /\ UNCHANGED <<file, info, logged, rec, user, ref, sum, book>>
  BY Zenon DEF EditAborted, Becomes, shared, hands, ledger, history, AccountsInvariant, TypeOK
<1>2. ClientsSound'
  BY <1>1
  DEF EditAborted, Becomes, shared, hands, ledger, history, AccountsInvariant, TypeOK, ClientsSound,
      LoginPhases, CreditPhases, EditPhases, Inside
<1>3. ASSUME NEW u \in Users \ disturbed'
      PROVE  UserSound(u)'
  <2>1. u \in Users \ disturbed /\ UserSound(u)
    BY DEF EditAborted, Becomes, shared, hands, ledger, history, AccountsInvariant, UsersSound
  <2>2. Due(u)' = Due(u)
    BY <1>1 DEF Due, Unbooked, Coming, Going
  <2>3. FewerHolders(u)
    <3>1. Online(u)' = Online(u) /\ Login(u)' = Login(u) /\ Writing(u)' = Writing(u)
      BY <1>1
      DEF AccountsInvariant, TypeOK, ClientsSound, Online, Login, Writing, LoginPhases,
          CreditPhases, EditPhases, Inside
    <3>2. /\ Editing(u)' = Editing(u) \ {n} /\ Crediting(u)' = Crediting(u)
          /\ Loaded(u)' = Loaded(u) /\ Unsaved(u)' = Unsaved(u)
      BY <1>1
      DEF AccountsInvariant, TypeOK, ClientsSound, Editing, Crediting, Loaded, Unsaved,
          LoginPhases, CreditPhases, EditPhases, Inside
    <3>3. Posing(u)' \subseteq Posing(u)
      BY <1>1
      DEF AccountsInvariant, TypeOK, ClientsSound, Posing, LoginPhases, CreditPhases,
          EditPhases, Inside
    <3> QED
      BY <3>1, <3>2, <3>3, HoldersAreNodes DEF FewerHolders, AccountsInvariant
  <2>4. SameCopies(u) /\ SameCredits(u)
    <3>1. n \notin Login(u) \union Writing(u)
      BY <1>1, <2>1
      DEF AccountsInvariant, TypeOK, ClientsSound, Login, Writing, LoginPhases,
          CreditPhases, EditPhases, Inside
    <3> QED
      BY <1>1, <2>1, <2>3, <3>1, HoldersAreNodes
      DEF AccountsInvariant, TypeOK, Home, FewerHolders, SameCopies, SameCredits, Editing,
          Crediting, Loaded, LoginPhases, CreditPhases, EditPhases, Inside
  <2> QED
    BY <2>1, <2>2, <2>3, <2>4, Bystander DEF AccountsInvariant
<1> QED
  BY <1>2, <1>3 DEF UsersSound

\* Nobody whose record was not disturbed is online while it is edited.
LEMMA EditDoneKept ==
  ASSUME AccountsInvariant, TypeOK', NEW n \in Nodes, EditDone(n)
  PROVE  ClientsSound' /\ UsersSound'
<1>1. /\ at[n] = "editing"
      /\ at' = [at EXCEPT ![n] = "filing"]
      /\ ref' = [ref EXCEPT ![n] = is_user_online(rec[n].user_no)]
      /\ UNCHANGED <<file, info, logged, rec, user, sum, book>>
  BY Zenon DEF EditDone, Becomes, shared, hands, ledger, history, AccountsInvariant, TypeOK
<1>2. ClientsSound'
  <2> DEFINE u == rec[n].user_no
  <2>1. /\ u \in Users \union {GUEST_USER_NUMBER} /\ n \in Editing(u)
        /\ is_user_online(u) \in Nodes \union {NoNode}
    BY <1>1, WhoIsFound DEF AccountsInvariant, TypeOK, Editing, EditPhases
  <2>2. u \notin disturbed => is_user_online(u) = NoNode
    <3>1. SUFFICES ASSUME u \notin disturbed, is_user_online(u) # NoNode PROVE FALSE
      OBVIOUS
    <3>2. u # GUEST_USER_NUMBER /\ is_user_online(u) \in Online(u) \union Posing(u)
      BY <2>1, <3>1, WhoIsFound DEF AccountsInvariant
    <3>3. Home(u) = {} /\ Posing(u) = {}
      BY <2>1, <3>1, <3>2 DEF AccountsInvariant, UsersSound, UserSound, Edited
    <3> QED
      BY <3>2, <3>3 DEF Home
  <2>3. disturbed' = disturbed
    BY DEF EditDone, history
  <2> QED
    BY <1>1, <2>1, <2>2, <2>3
    DEF AccountsInvariant, TypeOK, ClientsSound, LoginPhases, CreditPhases, EditPhases, Inside
<1>3. ASSUME NEW u \in Users \ disturbed'
      PROVE  UserSound(u)'
  <2>1. u \in Users \ disturbed /\ UserSound(u)
    BY DEF EditDone, Becomes, shared, hands, ledger, history, AccountsInvariant, UsersSound
  <2>2. Due(u)' = Due(u)
    BY <1>1 DEF Due, Unbooked, Coming, Going
  <2>3. FewerHolders(u)
    <3>1. Online(u)' = Online(u) /\ Login(u)' = Login(u) /\ Writing(u)' = Writing(u)
      BY <1>1
      DEF AccountsInvariant, TypeOK, ClientsSound, Online, Login, Writing, LoginPhases,
          CreditPhases, EditPhases, Inside
    <3>2. /\ Editing(u)' = Editing(u) /\ Crediting(u)' = Crediting(u)
          /\ Loaded(u)' = Loaded(u) /\ Unsaved(u)' = Unsaved(u)
      BY <1>1
      DEF AccountsInvariant, TypeOK, ClientsSound, Editing, Crediting, Loaded, Unsaved,
          LoginPhases, CreditPhases, EditPhases, Inside
    <3>3. Posing(u)' \subseteq Posing(u)
      BY <1>1
      DEF AccountsInvariant, TypeOK, ClientsSound, Posing, LoginPhases, CreditPhases,
          EditPhases, Inside
    <3> QED
      BY <3>1, <3>2, <3>3, HoldersAreNodes DEF FewerHolders, AccountsInvariant
  <2>4. SameCopies(u) /\ SameCredits(u)
    <3>1. n \notin Login(u) \union Writing(u)
      BY <1>1, <2>1
      DEF AccountsInvariant, TypeOK, ClientsSound, Login, Writing, LoginPhases,
          CreditPhases, EditPhases, Inside
    <3> QED
      BY <1>1, <2>1, <2>3, <3>1, HoldersAreNodes
      DEF AccountsInvariant, TypeOK, Home, FewerHolders, SameCopies, SameCredits, Editing,
          Crediting, Loaded, LoginPhases, CreditPhases, EditPhases, Inside
  <2> QED
    BY <2>1, <2>2, <2>3, <2>4, Bystander DEF AccountsInvariant
<1> QED
  BY <1>2, <1>3 DEF UsersSound

\* The record goes back as it was read.
LEMMA SaveEditedKept ==
  ASSUME AccountsInvariant, TypeOK', NEW n \in Nodes, SaveEdited(n)
  PROVE  ClientsSound' /\ UsersSound'
<1>1. /\ at[n] = "filing"
      /\ file' = [file EXCEPT ![rec[n].user_no] = rec[n]]
      /\ at' = [at EXCEPT ![n] = IF ref[n] = NoNode THEN "online" ELSE "telling"]
      /\ UNCHANGED <<info, logged, rec, user, ref, sum, book>>
  BY Zenon
  DEF SaveEdited, Becomes, shared, hands, ledger, history, save_user_record, AccountsInvariant,
      TypeOK
<1>2. ClientsSound'
  BY <1>1
  DEF SaveEdited, Becomes, shared, hands, ledger, history, save_user_record, AccountsInvariant,
      TypeOK, ClientsSound, LoginPhases, CreditPhases, EditPhases, Inside
<1>3. ASSUME NEW u \in Users \ disturbed', ~(rec[n].user_no = u)
      PROVE  UserSound(u)'
  <2>1. u \in Users \ disturbed /\ UserSound(u)
    BY DEF SaveEdited, Becomes, shared, hands, ledger, history, save_user_record, AccountsInvariant,
           UsersSound
  <2>2. Due(u)' = Due(u)
    BY <1>1 DEF Due, Unbooked, Coming, Going
  <2>3. FewerHolders(u)
    <3>1. Online(u)' = Online(u) /\ Login(u)' = Login(u) /\ Writing(u)' = Writing(u)
      BY <1>1, <1>3
      DEF AccountsInvariant, TypeOK, ClientsSound, Online, Login, Writing, LoginPhases,
          CreditPhases, EditPhases, Inside
    <3>2. /\ Editing(u)' = Editing(u) /\ Crediting(u)' = Crediting(u)
          /\ Loaded(u)' = Loaded(u) /\ Unsaved(u)' = Unsaved(u)
      BY <1>1, <1>3
      DEF AccountsInvariant, TypeOK, ClientsSound, Editing, Crediting, Loaded, Unsaved,
          LoginPhases, CreditPhases, EditPhases, Inside
    <3>3. Posing(u)' \subseteq Posing(u)
      BY <1>1
      DEF AccountsInvariant, TypeOK, ClientsSound, Posing, LoginPhases, CreditPhases,
          EditPhases, Inside
    <3> QED
      BY <3>1, <3>2, <3>3, HoldersAreNodes DEF FewerHolders, AccountsInvariant
  <2>4. SameCopies(u) /\ SameCredits(u)
    <3>1. n \notin Login(u) \union Writing(u) \union Editing(u) \union Crediting(u)
      BY <1>1, <1>3, <2>1
      DEF AccountsInvariant, TypeOK, ClientsSound, Login, Writing, Editing, Crediting,
          LoginPhases, CreditPhases, EditPhases, Inside
    <3>2. Editing(u)' \subseteq Editing(u) /\ Crediting(u)' \subseteq Crediting(u)
      BY <2>3 DEF FewerHolders
    <3> QED
      BY <1>1, <1>3, <2>1, <2>3, <3>1, <3>2, HoldersAreNodes
      DEF AccountsInvariant, TypeOK, Home, FewerHolders, SameCopies, SameCredits
  <2> QED
    BY <2>1, <2>2, <2>3, <2>4, Bystander DEF AccountsInvariant
<1>4. ASSUME NEW u \in Users \ disturbed', rec[n].user_no = u
      PROVE  UserSound(u)'
  <2>1. u \in Users \ disturbed
    BY DEF SaveEdited, Becomes, shared, hands, ledger, history, save_user_record
  <2>2. file[u].user_no = u /\ AtHome(u) /\ Edited(u) /\ Lent(u) /\ Pointed(u) /\ Balanced(u)
    BY <2>1 DEF AccountsInvariant, UsersSound, UserSound
  <2>3. /\ \A m \in Home(u) : Home(u) = {m} /\ Editing(u) = {} /\ Loaded(u) = {}
        /\ Login(u) # {} => Crediting(u) = {} /\ Unsaved(u) = {}
        /\ \A m \in Home(u) : \A k \in Crediting(u) : ref[k] = m
        /\ Editing(u) # {} => Crediting(u) = {}
        /\ \A m \in Loaded(u) : Crediting(u) = {m}
    BY <2>1, <2>2, HeldByOne DEF AccountsInvariant
  <2>4. n \in Editing(u) /\ ref[n] = NoNode /\ file[u] = rec[n]
    BY <1>1, <1>4, <2>1, <2>2
    DEF AccountsInvariant, ClientsSound, Edited, Editing, EditPhases
  <2>5. file'[u] = file[u]
    BY <1>1, <1>4, <2>1, <2>4 DEF AccountsInvariant, TypeOK
  <2>6. Due(u)' = Due(u)
    BY <1>1 DEF Due, Unbooked, Coming, Going
  <2>7. /\ Online(u)' = Online(u) /\ Login(u)' = Login(u) /\ Writing(u)' = Writing(u)
        /\ Home(u)' = Home(u) /\ Editing(u)' = Editing(u) \ {n}
        /\ Crediting(u)' = Crediting(u) /\ Loaded(u)' = Loaded(u)
        /\ Unsaved(u)' = Unsaved(u)
    <3>1. /\ Online(u)' = Online(u) /\ Login(u)' = Login(u) /\ Writing(u)' = Writing(u)
      BY <1>1, <1>4, <2>4
      DEF AccountsInvariant, TypeOK, ClientsSound, Online, Login, Writing, LoginPhases,
          CreditPhases, EditPhases, Inside
    <3>2. Home(u)' = Home(u)
      BY <3>1 DEF Home
    <3>3. /\ Editing(u)' = Editing(u) \ {n} /\ Crediting(u)' = Crediting(u)
          /\ Loaded(u)' = Loaded(u) /\ Unsaved(u)' = Unsaved(u)
      BY <1>1, <1>4, <2>4
      DEF AccountsInvariant, TypeOK, ClientsSound, Editing, Crediting, Loaded, Unsaved,
          LoginPhases, CreditPhases, EditPhases, Inside
    <3> QED
      BY <3>1, <3>2, <3>3
  <2>8. file'[u].user_no = u /\ AtHome(u)' /\ Edited(u)' /\ Lent(u)'
    <3>1. file'[u].user_no = u /\ AtHome(u)'
      BY <1>1, <1>4, <2>1, <2>2, <2>3, <2>4, <2>5, <2>7, HoldersAreNodes
      DEF AccountsInvariant, TypeOK, AtHome, Home, Online
    <3>2. Posing(u)' \subseteq Posing(u)
      BY <1>1
      DEF AccountsInvariant, TypeOK, ClientsSound, Posing, LoginPhases, CreditPhases,
          EditPhases, Inside
    <3>3. Edited(u)'
      BY <1>1, <1>4, <2>1, <2>2, <2>3, <2>4, <2>5, <2>7, HoldersAreNodes, <3>2
      DEF AccountsInvariant, TypeOK, Edited
    <3>4. Lent(u)'
      BY <1>1, <1>4, <2>1, <2>2, <2>3, <2>4, <2>5, <2>7, HoldersAreNodes
      DEF AccountsInvariant, TypeOK, Lent
    <3> QED
      BY <3>1, <3>3, <3>4
  <2>9. Pointed(u)'
    <3>1. ASSUME NEW k \in Crediting(u)' \ Loaded(u)'
          PROVE  PointedBy(u, k)'
      <4>1. /\ k \in Nodes /\ ref[k] \in Nodes /\ ref[k] # NoNode /\ user[k] = u
            /\ PointedBy(u, k)
        BY <2>1, <2>2, <2>7, HoldersAreNodes DEF AccountsInvariant, Pointed
      <4> QED
        BY <1>1, <1>4, <2>1, <2>3, <2>4, <2>5, <2>7, <4>1
        DEF AccountsInvariant, TypeOK, PointedBy
    <3> QED
      BY <3>1 DEF Pointed
  <2>10. Balanced(u)'
    <3>1. /\ \A m \in Online(u)' : info'[m].account_balance = Due(u)'
          /\ \A m \in Login(u)' \union Writing(u)' : rec'[m].account_balance = Due(u)'
      BY <1>1, <1>4, <2>1, <2>2, <2>3, <2>4, <2>5, <2>6, <2>7, HoldersAreNodes
      DEF AccountsInvariant, TypeOK, Balanced, Home
    <3>2. ASSUME Home(u)' = {}, NEW k \in Unsaved(u)'
          PROVE  Due(u)' = IF ref'[k] = NoNode THEN rec'[k].account_balance
                                               ELSE info'[ref'[k]].account_balance
      BY <1>1, <1>4, <2>1, <2>2, <2>3, <2>4, <2>5, <2>6, <2>7, <3>2, HoldersAreNodes
      DEF AccountsInvariant, TypeOK, Balanced
    <3>3. ASSUME Home(u)' = {}, Unsaved(u)' = {}
          PROVE  file'[u].account_balance = Due(u)'
      BY <1>1, <1>4, <2>1, <2>2, <2>3, <2>4, <2>5, <2>6, <2>7, <3>3, HoldersAreNodes
      DEF AccountsInvariant, TypeOK, Balanced
    <3> QED
      BY <3>1, <3>2, <3>3 DEF Balanced
  <2> QED
    BY <2>8, <2>9, <2>10 DEF UserSound
<1> QED
  BY <1>2, <1>3, <1>4 DEF UsersSound

\* Nobody else has the record, or it is disturbed.
LEMMA ReadRecordKept ==
  ASSUME AccountsInvariant, TypeOK', NEW n \in Nodes, NEW u0 \in Users, ReadRecord(n, u0)
  PROVE  ClientsSound' /\ UsersSound'
<1>1. /\ at[n] = "off"
      /\ at' = [at EXCEPT ![n] = "password"]
      /\ rec' = [rec EXCEPT ![n] = file[u0]]
      /\ UNCHANGED <<file, info, logged, user, ref, sum, book>>
  BY Zenon
  DEF ReadRecord, Becomes, shared, hands, ledger, Disturbs, Shared, Reads, read_user_record,
      AccountsInvariant, TypeOK
<1>2. ClientsSound'
  BY <1>1
  DEF ReadRecord, Becomes, shared, hands, ledger, Disturbs, Shared, Reads, read_user_record,
      AccountsInvariant, TypeOK, ClientsSound, LoginPhases, CreditPhases, EditPhases, Inside
<1>3. ASSUME NEW u \in Users \ disturbed', ~(u0 = u)
      PROVE  UserSound(u)'
  <2>1. u \in Users \ disturbed /\ UserSound(u)
    BY DEF ReadRecord, Becomes, shared, hands, ledger, Disturbs, Shared, Reads, read_user_record,
           AccountsInvariant, UsersSound
  <2>2. file[u0].user_no # u
    BY <1>3, <2>1 DEF ReadRecord, Reads, Disturbs
  <2>3. Due(u)' = Due(u)
    BY <1>1 DEF Due, Unbooked, Coming, Going
  <2>4. FewerHolders(u)
    <3>1. Online(u)' = Online(u) /\ Login(u)' = Login(u) /\ Writing(u)' = Writing(u)
      BY <1>1, <1>3, <2>2
      DEF AccountsInvariant, TypeOK, ClientsSound, Online, Login, Writing, LoginPhases,
          CreditPhases, EditPhases, Inside
    <3>2. /\ Editing(u)' = Editing(u) /\ Crediting(u)' = Crediting(u)
          /\ Loaded(u)' = Loaded(u) /\ Unsaved(u)' = Unsaved(u)
      BY <1>1, <1>3, <2>2
      DEF AccountsInvariant, TypeOK, ClientsSound, Editing, Crediting, Loaded, Unsaved,
          LoginPhases, CreditPhases, EditPhases, Inside
    <3>3. Posing(u)' \subseteq Posing(u)
      BY <1>1
      DEF AccountsInvariant, TypeOK, ClientsSound, Posing, LoginPhases, CreditPhases,
          EditPhases, Inside
    <3> QED
      BY <3>1, <3>2, <3>3, HoldersAreNodes DEF FewerHolders, AccountsInvariant
  <2>5. SameCopies(u) /\ SameCredits(u)
    <3>1. n \notin Login(u) \union Writing(u) \union Editing(u) \union Crediting(u)
      BY <1>1, <1>3, <2>1, <2>2
      DEF AccountsInvariant, TypeOK, ClientsSound, Login, Writing, Editing, Crediting,
          LoginPhases, CreditPhases, EditPhases, Inside
    <3>2. Editing(u)' \subseteq Editing(u) /\ Crediting(u)' \subseteq Crediting(u)
      BY <2>4 DEF FewerHolders
    <3> QED
      BY <1>1, <1>3, <2>1, <2>2, <2>4, <3>1, <3>2, HoldersAreNodes
      DEF AccountsInvariant, TypeOK, Home, FewerHolders, SameCopies, SameCredits
  <2> QED
    BY <2>1, <2>3, <2>4, <2>5, Bystander DEF AccountsInvariant
<1>4. ASSUME NEW u \in Users \ disturbed', u0 = u
      PROVE  UserSound(u)'
  <2>1. u \in Users \ disturbed
    BY DEF ReadRecord, Becomes, shared, hands, ledger, Disturbs, Shared, Reads, read_user_record
  <2>2. file[u].user_no = u /\ AtHome(u) /\ Edited(u) /\ Lent(u) /\ Pointed(u) /\ Balanced(u)
    BY <2>1 DEF AccountsInvariant, UsersSound, UserSound
  <2>3. /\ Home(u) = {} /\ Editing(u) = {} /\ Crediting(u) = {}
        /\ Login(u) = {} /\ Online(u) = {} /\ Writing(u) = {} /\ Loaded(u) = {} /\ Unsaved(u) = {}
    BY <1>4, <2>1 DEF ReadRecord, Reads, Disturbs, Shared, Held, Private, Home, Loaded, Unsaved
  <2>4. Due(u)' = Due(u)
    BY <1>1 DEF Due, Unbooked, Coming, Going
  <2>5. /\ Online(u)' = Online(u) /\ Login(u)' = {n} /\ Writing(u)' = Writing(u)
        /\ Home(u)' = {n} /\ Editing(u)' = Editing(u) /\ Crediting(u)' = Crediting(u)
        /\ Loaded(u)' = Loaded(u) /\ Unsaved(u)' = Unsaved(u)
    <3>1. /\ Online(u)' = Online(u) /\ Login(u)' = {n} /\ Writing(u)' = Writing(u)
      BY <1>1, <1>4, <2>2, <2>3
      DEF AccountsInvariant, TypeOK, ClientsSound, Online, Login, Writing, LoginPhases,
          CreditPhases, EditPhases, Inside
    <3>2. Home(u)' = {n}
      BY <2>3, <3>1 DEF Home
    <3>3. /\ Editing(u)' = Editing(u) /\ Crediting(u)' = Crediting(u)
          /\ Loaded(u)' = Loaded(u) /\ Unsaved(u)' = Unsaved(u)
      BY <1>1, <1>4, <2>2, <2>3
      DEF AccountsInvariant, TypeOK, ClientsSound, Editing, Crediting, Loaded, Unsaved,
          LoginPhases, CreditPhases, EditPhases, Inside
    <3> QED
      BY <3>1, <3>2, <3>3
  <2>6. file'[u].user_no = u /\ AtHome(u)' /\ Edited(u)' /\ Lent(u)'
    <3>1. file'[u].user_no = u /\ AtHome(u)'
      BY <1>1, <1>4, <2>1, <2>2, <2>3, <2>5, HoldersAreNodes
      DEF AccountsInvariant, TypeOK, AtHome, Home, Online
    <3>2. Posing(u)' \subseteq Posing(u)
      BY <1>1
      DEF AccountsInvariant, TypeOK, ClientsSound, Posing, LoginPhases, CreditPhases,
          EditPhases, Inside
    <3>3. Edited(u)'
      BY <1>1, <1>4, <2>1, <2>2, <2>3, <2>5, HoldersAreNodes, <3>2
      DEF AccountsInvariant, TypeOK, Edited
    <3>4. Lent(u)'
      BY <1>1, <1>4, <2>1, <2>2, <2>3, <2>5, HoldersAreNodes
      DEF AccountsInvariant, TypeOK, Lent
    <3> QED
      BY <3>1, <3>3, <3>4
  <2>7. Pointed(u)'
    <3>1. ASSUME NEW k \in Crediting(u)' \ Loaded(u)'
          PROVE  PointedBy(u, k)'
      <4>1. /\ k \in Nodes /\ ref[k] \in Nodes /\ ref[k] # NoNode /\ user[k] = u
            /\ PointedBy(u, k)
        BY <2>1, <2>2, <2>5, HoldersAreNodes DEF AccountsInvariant, Pointed
      <4> QED
        BY <1>1, <1>4, <2>1, <2>3, <2>5, <4>1 DEF AccountsInvariant, TypeOK, PointedBy
    <3> QED
      BY <3>1 DEF Pointed
  <2>8. Balanced(u)'
    <3>1. /\ \A m \in Online(u)' : info'[m].account_balance = Due(u)'
          /\ \A m \in Login(u)' \union Writing(u)' : rec'[m].account_balance = Due(u)'
      BY <1>1, <1>4, <2>1, <2>2, <2>3, <2>4, <2>5, HoldersAreNodes
      DEF AccountsInvariant, TypeOK, Balanced, Home
    <3>2. ASSUME Home(u)' = {}, NEW k \in Unsaved(u)'
          PROVE  Due(u)' = IF ref'[k] = NoNode THEN rec'[k].account_balance
                                               ELSE info'[ref'[k]].account_balance
      BY <1>1, <1>4, <2>1, <2>2, <2>3, <2>4, <2>5, <3>2, HoldersAreNodes
      DEF AccountsInvariant, TypeOK, Balanced
    <3>3. ASSUME Home(u)' = {}, Unsaved(u)' = {}
          PROVE  file'[u].account_balance = Due(u)'
      BY <1>1, <1>4, <2>1, <2>2, <2>3, <2>4, <2>5, <3>3, HoldersAreNodes
      DEF AccountsInvariant, TypeOK, Balanced
    <3> QED
      BY <3>1, <3>2, <3>3 DEF Balanced
  <2> QED
    BY <2>6, <2>7, <2>8 DEF UserSound
<1> QED
  BY <1>2, <1>3, <1>4 DEF UsersSound

\* Nobody else has the record, or it is disturbed.
LEMMA EditUserKept ==
  ASSUME AccountsInvariant, TypeOK', NEW n \in Nodes, NEW u0 \in Users, EditUser(n, u0)
  PROVE  ClientsSound' /\ UsersSound'
<1>1. /\ at[n] = "online"
      /\ at' = [at EXCEPT ![n] = "editing"]
      /\ rec' = [rec EXCEPT ![n] = file[u0]]
      /\ UNCHANGED <<file, info, logged, user, ref, sum, book>>
  BY Zenon
  DEF EditUser, Becomes, shared, hands, ledger, Disturbs, Shared, Reads, read_user_record,
      AccountsInvariant,
      TypeOK
<1>2. ClientsSound'
  BY <1>1
  DEF EditUser, Becomes, shared, hands, ledger, Disturbs, Shared, Reads, read_user_record,
      AccountsInvariant,
      TypeOK, ClientsSound, LoginPhases, CreditPhases, EditPhases, Inside
<1>3. ASSUME NEW u \in Users \ disturbed', ~(u0 = u)
      PROVE  UserSound(u)'
  <2>1. u \in Users \ disturbed /\ UserSound(u)
    BY DEF EditUser, Becomes, shared, hands, ledger, Disturbs, Shared, Reads, read_user_record,
           AccountsInvariant, UsersSound
  <2>2. file[u0].user_no # u
    BY <1>3, <2>1 DEF EditUser, Reads, Disturbs
  <2>3. Due(u)' = Due(u)
    BY <1>1 DEF Due, Unbooked, Coming, Going
  <2>4. FewerHolders(u)
    <3>1. Online(u)' = Online(u) /\ Login(u)' = Login(u) /\ Writing(u)' = Writing(u)
      BY <1>1, <1>3, <2>2
      DEF AccountsInvariant, TypeOK, ClientsSound, Online, Login, Writing, LoginPhases,
          CreditPhases, EditPhases, Inside
    <3>2. /\ Editing(u)' = Editing(u) /\ Crediting(u)' = Crediting(u)
          /\ Loaded(u)' = Loaded(u) /\ Unsaved(u)' = Unsaved(u)
      BY <1>1, <1>3, <2>2
      DEF AccountsInvariant, TypeOK, ClientsSound, Editing, Crediting, Loaded, Unsaved,
          LoginPhases, CreditPhases, EditPhases, Inside
    <3>3. Posing(u)' \subseteq Posing(u)
      BY <1>1
      DEF AccountsInvariant, TypeOK, ClientsSound, Posing, LoginPhases, CreditPhases,
          EditPhases, Inside
    <3> QED
      BY <3>1, <3>2, <3>3, HoldersAreNodes DEF FewerHolders, AccountsInvariant
  <2>5. SameCopies(u) /\ SameCredits(u)
    <3>1. n \notin Login(u) \union Writing(u) \union Editing(u) \union Crediting(u)
      BY <1>1, <1>3, <2>1, <2>2
      DEF AccountsInvariant, TypeOK, ClientsSound, Login, Writing, Editing, Crediting,
          LoginPhases, CreditPhases, EditPhases, Inside
    <3>2. Editing(u)' \subseteq Editing(u) /\ Crediting(u)' \subseteq Crediting(u)
      BY <2>4 DEF FewerHolders
    <3> QED
      BY <1>1, <1>3, <2>1, <2>2, <2>4, <3>1, <3>2, HoldersAreNodes
      DEF AccountsInvariant, TypeOK, Home, FewerHolders, SameCopies, SameCredits
  <2> QED
    BY <2>1, <2>3, <2>4, <2>5, Bystander DEF AccountsInvariant
<1>4. ASSUME NEW u \in Users \ disturbed', u0 = u
      PROVE  UserSound(u)'
  <2>1. u \in Users \ disturbed
    BY DEF EditUser, Becomes, shared, hands, ledger, Disturbs, Shared, Reads, read_user_record
  <2>2. file[u].user_no = u /\ AtHome(u) /\ Edited(u) /\ Lent(u) /\ Pointed(u) /\ Balanced(u)
    BY <2>1 DEF AccountsInvariant, UsersSound, UserSound
  <2>3. /\ Home(u) = {} /\ Editing(u) = {} /\ Crediting(u) = {}
        /\ Login(u) = {} /\ Online(u) = {} /\ Writing(u) = {} /\ Loaded(u) = {} /\ Unsaved(u) = {}
        /\ Posing(u) = {}
    BY <1>4, <2>1 DEF EditUser, Reads, Disturbs, Shared, Held, Private, Home, Loaded, Unsaved
  <2>4. Due(u)' = Due(u)
    BY <1>1 DEF Due, Unbooked, Coming, Going
  <2>5. /\ Online(u)' = Online(u) /\ Login(u)' = Login(u) /\ Writing(u)' = Writing(u)
        /\ Home(u)' = Home(u) /\ Editing(u)' = {n} /\ Crediting(u)' = Crediting(u)
        /\ Loaded(u)' = Loaded(u) /\ Unsaved(u)' = Unsaved(u)
    <3>1. /\ Online(u)' = Online(u) /\ Login(u)' = Login(u) /\ Writing(u)' = Writing(u)
      BY <1>1, <1>4, <2>2, <2>3
      DEF AccountsInvariant, TypeOK, ClientsSound, Online, Login, Writing, LoginPhases,
          CreditPhases, EditPhases, Inside
    <3>2. Home(u)' = Home(u)
      BY <3>1 DEF Home
    <3>3. /\ Editing(u)' = {n} /\ Crediting(u)' = Crediting(u) /\ Loaded(u)' = Loaded(u)
          /\ Unsaved(u)' = Unsaved(u)
      BY <1>1, <1>4, <2>2, <2>3
      DEF AccountsInvariant, TypeOK, ClientsSound, Editing, Crediting, Loaded, Unsaved,
          LoginPhases, CreditPhases, EditPhases, Inside
    <3> QED
      BY <3>1, <3>2, <3>3
  <2>6. file'[u].user_no = u /\ AtHome(u)' /\ Edited(u)' /\ Lent(u)'
    <3>1. file'[u].user_no = u /\ AtHome(u)'
      BY <1>1, <1>4, <2>1, <2>2, <2>3, <2>5, HoldersAreNodes
      DEF AccountsInvariant, TypeOK, AtHome, Home, Online
    <3>2. Posing(u)' \subseteq Posing(u)
      BY <1>1
      DEF AccountsInvariant, TypeOK, ClientsSound, Posing, LoginPhases, CreditPhases,
          EditPhases, Inside
    <3>3. Edited(u)'
      BY <1>1, <1>4, <2>1, <2>2, <2>3, <2>5, HoldersAreNodes, <3>2
      DEF AccountsInvariant, TypeOK, Edited
    <3>4. Lent(u)'
      BY <1>1, <1>4, <2>1, <2>2, <2>3, <2>5, HoldersAreNodes
      DEF AccountsInvariant, TypeOK, Lent
    <3> QED
      BY <3>1, <3>3, <3>4
  <2>7. Pointed(u)'
    <3>1. ASSUME NEW k \in Crediting(u)' \ Loaded(u)'
          PROVE  PointedBy(u, k)'
      <4>1. /\ k \in Nodes /\ ref[k] \in Nodes /\ ref[k] # NoNode /\ user[k] = u
            /\ PointedBy(u, k)
        BY <2>1, <2>2, <2>5, HoldersAreNodes DEF AccountsInvariant, Pointed
      <4> QED
        BY <1>1, <1>4, <2>1, <2>3, <2>5, <4>1 DEF AccountsInvariant, TypeOK, PointedBy
    <3> QED
      BY <3>1 DEF Pointed
  <2>8. Balanced(u)'
    <3>1. /\ \A m \in Online(u)' : info'[m].account_balance = Due(u)'
          /\ \A m \in Login(u)' \union Writing(u)' : rec'[m].account_balance = Due(u)'
      BY <1>1, <1>4, <2>1, <2>2, <2>3, <2>4, <2>5, HoldersAreNodes
      DEF AccountsInvariant, TypeOK, Balanced, Home
    <3>2. ASSUME Home(u)' = {}, NEW k \in Unsaved(u)'
          PROVE  Due(u)' = IF ref'[k] = NoNode THEN rec'[k].account_balance
                                               ELSE info'[ref'[k]].account_balance
      BY <1>1, <1>4, <2>1, <2>2, <2>3, <2>4, <2>5, <3>2, HoldersAreNodes
      DEF AccountsInvariant, TypeOK, Balanced
    <3>3. ASSUME Home(u)' = {}, Unsaved(u)' = {}
          PROVE  file'[u].account_balance = Due(u)'
      BY <1>1, <1>4, <2>1, <2>2, <2>3, <2>4, <2>5, <3>3, HoldersAreNodes
      DEF AccountsInvariant, TypeOK, Balanced
    <3> QED
      BY <3>1, <3>2, <3>3 DEF Balanced
  <2> QED
    BY <2>6, <2>7, <2>8 DEF UserSound
<1> QED
  BY <1>2, <1>3, <1>4 DEF UsersSound

\* Those to whom some /CREDIT still points in this node are disturbed.
LEMMA SetOnlineInfoKept ==
  ASSUME AccountsInvariant, TypeOK', NEW n \in Nodes, SetOnlineInfo(n)
  PROVE  ClientsSound' /\ UsersSound'
<1>1. /\ at[n] = "checking"
      /\ info' = [info EXCEPT ![n] = rec[n]]
      /\ at' = [at EXCEPT ![n] = "entering"]
      /\ UNCHANGED <<file, logged, rec, user, ref, sum, book>>
  BY Zenon
  DEF SetOnlineInfo, Becomes, shared, hands, ledger, Replaces, Disturbs, AccountsInvariant, TypeOK
<1>2. ClientsSound'
  BY <1>1
  DEF SetOnlineInfo, Becomes, shared, hands, ledger, Replaces, Disturbs, AccountsInvariant, TypeOK,
      ClientsSound, LoginPhases, CreditPhases, EditPhases, Inside
<1>3. ASSUME NEW u \in Users \ disturbed', ~(rec[n].user_no = u)
      PROVE  UserSound(u)'
  <2>1. u \in Users \ disturbed /\ UserSound(u)
    BY
    DEF SetOnlineInfo, Becomes, shared, hands, ledger, Replaces, Disturbs, AccountsInvariant,
        UsersSound
  <2>2. \A k \in Crediting(u) : ref[k] # n
    BY <1>3, <2>1 DEF SetOnlineInfo, Replaces, Disturbs, TakenOver, Crediting
  <2>3. n \notin Online(u)
    BY <1>1 DEF AccountsInvariant, ClientsSound, Online, CreditPhases, EditPhases, Inside
  <2>4. Due(u)' = Due(u)
    <3>1. \A m \in Nodes \ {n} : Coming(u)'[m] = Coming(u)[m] /\ Going(u)'[m] = Going(u)[m]
      BY <1>1, <1>3, <2>2, <2>3 DEF AccountsInvariant, TypeOK, Coming, Going
    <3>2. Going(u)'[n] = Going(u)[n]
      <4>1. sum[n] = NoSum
        BY <1>1 DEF AccountsInvariant, ClientsSound
      <4> QED
        BY <1>1, <4>1 DEF AccountsInvariant, TypeOK, NoSum, Going
    <3>3. /\ Coming(u)'[n] = Coming(u)[n] /\ book'[u] = book[u]
          /\ Coming(u)[n] \in Int /\ Going(u)[n] \in Int /\ book[u] \in Int
      BY <1>1, <1>3, <2>2, <2>3
      DEF AccountsInvariant, TypeOK, ClientsSound, NoSum, Coming, Going, LoginPhases,
          CreditPhases, EditPhases, Inside
    <3> QED
      BY <2>1, <3>1, <3>2, <3>3, DueMoves DEF AccountsInvariant
  <2>5. FewerHolders(u)
    <3>1. Online(u)' = Online(u) /\ Login(u)' = Login(u) /\ Writing(u)' = Writing(u)
      BY <1>1, <1>3, <2>2, <2>3
      DEF AccountsInvariant, TypeOK, ClientsSound, Online, Login, Writing, LoginPhases,
          CreditPhases, EditPhases, Inside
    <3>2. /\ Editing(u)' = Editing(u) /\ Crediting(u)' = Crediting(u)
          /\ Loaded(u)' = Loaded(u) /\ Unsaved(u)' = Unsaved(u)
      BY <1>1, <1>3, <2>2, <2>3
      DEF AccountsInvariant, TypeOK, ClientsSound, Editing, Crediting, Loaded, Unsaved,
          LoginPhases, CreditPhases, EditPhases, Inside
    <3>3. Posing(u)' \subseteq Posing(u)
      BY <1>1
      DEF AccountsInvariant, TypeOK, ClientsSound, Posing, LoginPhases, CreditPhases,
          EditPhases, Inside
    <3> QED
      BY <3>1, <3>2, <3>3, HoldersAreNodes DEF FewerHolders, AccountsInvariant
  <2>6. SameCopies(u) /\ SameCredits(u)
    <3>1. n \notin Login(u) \union Writing(u) \union Editing(u) \union Crediting(u)
      BY <1>1, <1>3, <2>1, <2>2, <2>3
      DEF AccountsInvariant, TypeOK, ClientsSound, Login, Writing, Editing, Crediting,
          LoginPhases, CreditPhases, EditPhases, Inside
    <3>2. Editing(u)' \subseteq Editing(u) /\ Crediting(u)' \subseteq Crediting(u)
      BY <2>5 DEF FewerHolders
    <3> QED
      BY <1>1, <1>3, <2>1, <2>2, <2>3, <2>5, <3>1, <3>2, HoldersAreNodes
      DEF AccountsInvariant, TypeOK, Home, FewerHolders, SameCopies, SameCredits
  <2> QED
    BY <2>1, <2>4, <2>5, <2>6, Bystander DEF AccountsInvariant
<1>4. ASSUME NEW u \in Users \ disturbed', rec[n].user_no = u
      PROVE  UserSound(u)'
  <2>1. u \in Users \ disturbed
    BY DEF SetOnlineInfo, Becomes, shared, hands, ledger, Replaces, Disturbs
  <2>2. file[u].user_no = u /\ AtHome(u) /\ Edited(u) /\ Lent(u) /\ Pointed(u) /\ Balanced(u)
    BY <2>1 DEF AccountsInvariant, UsersSound, UserSound
  <2>3. /\ \A m \in Home(u) : Home(u) = {m} /\ Editing(u) = {} /\ Loaded(u) = {}
        /\ Login(u) # {} => Crediting(u) = {} /\ Unsaved(u) = {}
        /\ \A m \in Home(u) : \A k \in Crediting(u) : ref[k] = m
        /\ Editing(u) # {} => Crediting(u) = {}
        /\ \A m \in Loaded(u) : Crediting(u) = {m}
    BY <2>1, <2>2, HeldByOne DEF AccountsInvariant
  <2>4. /\ n \in Login(u) /\ Home(u) = {n} /\ Crediting(u) = {} /\ Editing(u) = {}
        /\ Unsaved(u) = {} /\ Loaded(u) = {}
    BY <1>1, <1>4, <2>3 DEF Login, LoginPhases, Home
  <2>5. Due(u)' = Due(u)
    <3>1. \A m \in Nodes \ {n} : Coming(u)'[m] = Coming(u)[m] /\ Going(u)'[m] = Going(u)[m]
      BY <1>1 DEF AccountsInvariant, TypeOK, Coming, Going
    <3>2. Going(u)'[n] = Going(u)[n]
      <4>1. sum[n] = NoSum
        BY <1>1 DEF AccountsInvariant, ClientsSound
      <4> QED
        BY <1>1, <4>1 DEF AccountsInvariant, TypeOK, NoSum, Going
    <3>3. /\ Coming(u)'[n] = Coming(u)[n] /\ book'[u] = book[u]
          /\ Coming(u)[n] \in Int /\ Going(u)[n] \in Int /\ book[u] \in Int
      BY <1>1
      DEF AccountsInvariant, TypeOK, ClientsSound, NoSum, Coming, Going, LoginPhases,
          CreditPhases, EditPhases, Inside
    <3> QED
      BY <2>1, <3>1, <3>2, <3>3, DueMoves DEF AccountsInvariant
  <2>6. /\ Online(u)' = Online(u) /\ Login(u)' = Login(u) /\ Writing(u)' = Writing(u)
        /\ Home(u)' = Home(u) /\ Editing(u)' = Editing(u) /\ Crediting(u)' = Crediting(u)
        /\ Loaded(u)' = Loaded(u) /\ Unsaved(u)' = Unsaved(u) /\ n \notin Online(u)
        /\ n \notin Writing(u)
    <3>1. Online(u)' = Online(u)
      BY <1>1, <1>4, <2>4
      DEF AccountsInvariant, TypeOK, ClientsSound, Online, LoginPhases, CreditPhases,
          EditPhases, Inside
    <3>2. Login(u)' = Login(u)
      BY <1>1, <1>4, <2>4
      DEF AccountsInvariant, TypeOK, ClientsSound, Login, LoginPhases, CreditPhases,
          EditPhases
    <3>3. Writing(u)' = Writing(u)
      BY <1>1, <1>4, <2>4
      DEF AccountsInvariant, TypeOK, ClientsSound, Writing, LoginPhases, CreditPhases,
          EditPhases, Inside
    <3>4. Home(u)' = Home(u)
      BY <3>1, <3>2, <3>3 DEF Home
    <3>5. Editing(u)' = Editing(u)
      BY <1>1, <1>4, <2>4
      DEF AccountsInvariant, TypeOK, ClientsSound, Editing, LoginPhases, CreditPhases,
          EditPhases
    <3>6. Crediting(u)' = Crediting(u)
      BY <1>1, <1>4, <2>4
      DEF AccountsInvariant, TypeOK, ClientsSound, Crediting, LoginPhases, CreditPhases,
          EditPhases
    <3>7. Loaded(u)' = Loaded(u)
      BY <1>1, <1>4, <2>4
      DEF AccountsInvariant, TypeOK, ClientsSound, Loaded, Crediting, LoginPhases,
          CreditPhases, EditPhases, Inside
    <3>8. Unsaved(u)' = Unsaved(u)
      BY <1>1, <1>4, <2>4
      DEF AccountsInvariant, TypeOK, ClientsSound, Unsaved, Crediting, LoginPhases,
          CreditPhases, EditPhases, Inside
    <3>9. n \notin Online(u)
      BY <1>1, <1>4, <2>4
      DEF AccountsInvariant, TypeOK, ClientsSound, Online, LoginPhases, CreditPhases,
          EditPhases, Inside
    <3>10. n \notin Writing(u)
      BY <1>1, <1>4, <2>4
      DEF AccountsInvariant, TypeOK, ClientsSound, Writing, LoginPhases, CreditPhases,
          EditPhases, Inside
    <3> QED
      BY <3>1, <3>2, <3>3, <3>4, <3>5, <3>6, <3>7, <3>8, <3>9, <3>10
  <2>7. file'[u].user_no = u /\ AtHome(u)' /\ Edited(u)' /\ Lent(u)'
    <3>1. file'[u].user_no = u /\ AtHome(u)'
      BY <1>1, <1>4, <2>1, <2>2, <2>4, <2>6, HoldersAreNodes
      DEF AccountsInvariant, TypeOK, AtHome, Home, Online
    <3>2. Posing(u)' \subseteq Posing(u)
      BY <1>1
      DEF AccountsInvariant, TypeOK, ClientsSound, Posing, LoginPhases, CreditPhases,
          EditPhases, Inside
    <3>3. Edited(u)'
      BY <1>1, <1>4, <2>1, <2>2, <2>4, <2>6, HoldersAreNodes, <3>2
      DEF AccountsInvariant, TypeOK, Edited
    <3>4. Lent(u)'
      BY <1>1, <1>4, <2>1, <2>2, <2>4, <2>6, HoldersAreNodes
      DEF AccountsInvariant, TypeOK, Lent
    <3> QED
      BY <3>1, <3>3, <3>4
  <2>8. Pointed(u)'
    <3>1. ASSUME NEW k \in Crediting(u)' \ Loaded(u)'
          PROVE  PointedBy(u, k)'
      <4>1. /\ k \in Nodes /\ ref[k] \in Nodes /\ ref[k] # NoNode /\ user[k] = u
            /\ PointedBy(u, k)
        BY <2>1, <2>2, <2>6, HoldersAreNodes DEF AccountsInvariant, Pointed
      <4> QED
        BY <1>1, <1>4, <2>1, <2>4, <2>6, <4>1 DEF AccountsInvariant, TypeOK, PointedBy
    <3> QED
      BY <3>1 DEF Pointed
  <2>9. Balanced(u)'
    <3>1. /\ \A m \in Online(u)' : info'[m].account_balance = Due(u)'
          /\ \A m \in Login(u)' \union Writing(u)' : rec'[m].account_balance = Due(u)'
      BY <1>1, <1>4, <2>1, <2>2, <2>4, <2>5, <2>6, HoldersAreNodes
      DEF AccountsInvariant, TypeOK, Balanced, Home
    <3>2. ASSUME Home(u)' = {}, NEW k \in Unsaved(u)'
          PROVE  Due(u)' = IF ref'[k] = NoNode THEN rec'[k].account_balance
                                               ELSE info'[ref'[k]].account_balance
      BY <1>1, <1>4, <2>1, <2>2, <2>4, <2>5, <2>6, <3>2, HoldersAreNodes
      DEF AccountsInvariant, TypeOK, Balanced
    <3>3. ASSUME Home(u)' = {}, Unsaved(u)' = {}
          PROVE  file'[u].account_balance = Due(u)'
      BY <1>1, <1>4, <2>1, <2>2, <2>4, <2>5, <2>6, <3>3, HoldersAreNodes
      DEF AccountsInvariant, TypeOK, Balanced
    <3> QED
      BY <3>1, <3>2, <3>3 DEF Balanced
  <2> QED
    BY <2>7, <2>8, <2>9 DEF UserSound
<1> QED
  BY <1>2, <1>3, <1>4 DEF UsersSound

\* It changes the record of two disturbed users only.
LEMMA TellNodeKept ==
  ASSUME AccountsInvariant, TypeOK', NEW n \in Nodes, TellNode(n)
  PROVE  ClientsSound' /\ UsersSound'
<1>1. /\ at[n] = "telling"
      /\ info' = [info EXCEPT ![ref[n]] = rec[n]]
      /\ at' = [at EXCEPT ![n] = "online"]
      /\ UNCHANGED <<file, logged, rec, user, ref, sum, book>>
  BY Zenon DEF TellNode, Becomes, shared, hands, ledger, Disturbs, AccountsInvariant, TypeOK
<1>2. ClientsSound'
  <2>1. /\ ref[n] \in Nodes /\ rec[n].user_no \in disturbed
        /\ disturbed \subseteq disturbed' /\ info[ref[n]].user_no \in disturbed'
    BY <1>1 DEF TellNode, Disturbs, AccountsInvariant, TypeOK, ClientsSound
  <2>2. /\ info'[ref[n]] = rec[n] /\ at'[n] = "online"
        /\ \A m \in Nodes \ {ref[n]} : info'[m] = info[m]
        /\ \A m \in Nodes \ {n} : at'[m] = at[m]
    BY <1>1, <2>1 DEF AccountsInvariant, TypeOK
  <2> QED
    BY <1>1, <2>1, <2>2
    DEF AccountsInvariant, ClientsSound, LoginPhases, CreditPhases, EditPhases, Inside
<1>3. ASSUME NEW u \in Users \ disturbed'
      PROVE  UserSound(u)'
  <2>1. u \in Users \ disturbed /\ UserSound(u)
    BY DEF TellNode, Becomes, shared, hands, ledger, Disturbs, AccountsInvariant, UsersSound
  <2>2. /\ ref[n] \in Nodes /\ info[ref[n]].user_no # u /\ rec[n].user_no # u
    BY <1>1, <2>1 DEF TellNode, Disturbs, AccountsInvariant, TypeOK, ClientsSound
  <2>3. /\ ref[n] \notin Online(u) \union Writing(u)
        /\ ref[n] \in Login(u) => at[ref[n]] # "entering"
        /\ \A k \in Crediting(u) \ Loaded(u) : ref[k] # ref[n]
    <3>1. ref[n] \notin Online(u) /\ ref[n] \notin Writing(u)
      BY <2>1, <2>2 DEF UserSound, AtHome, Online
    <3>2. ref[n] \in Login(u) => at[ref[n]] # "entering"
      BY <2>1, <2>2 DEF UserSound, AtHome, Login
    <3>3. \A k \in Crediting(u) \ Loaded(u) : ref[k] # ref[n]
      BY <2>1, <2>2 DEF UserSound, Pointed, PointedBy
    <3> QED
      BY <3>1, <3>2, <3>3
  <2>4. Due(u)' = Due(u)
    <3>1. \A m \in Nodes \ {ref[n]} : Coming(u)'[m] = Coming(u)[m] /\ Going(u)'[m] = Going(u)[m]
      BY <1>1, <1>3, <2>2, <2>3 DEF AccountsInvariant, TypeOK, Coming, Going
    <3>2. Going(u)'[ref[n]] = Going(u)[ref[n]]
      BY <1>1, <1>3, <2>2, <2>3
      DEF AccountsInvariant, TypeOK, ClientsSound, NoSum, Going, LoginPhases, CreditPhases,
          EditPhases
    <3>3. /\ Coming(u)'[ref[n]] = Coming(u)[ref[n]] /\ book'[u] = book[u]
          /\ Coming(u)[ref[n]] \in Int /\ Going(u)[ref[n]] \in Int /\ book[u] \in Int
      BY <1>1, <2>2
      DEF AccountsInvariant, TypeOK, ClientsSound, NoSum, Coming, Going, LoginPhases,
          CreditPhases, EditPhases, Inside
    <3> QED
      BY <2>1, <2>2, <3>1, <3>2, <3>3, DueMoves DEF AccountsInvariant
  <2>5. FewerHolders(u)
    <3>1. Online(u)' = Online(u) /\ Login(u)' = Login(u) /\ Writing(u)' = Writing(u)
      BY <1>1, <1>3, <2>2, <2>3
      DEF AccountsInvariant, TypeOK, ClientsSound, Online, Login, Writing, LoginPhases,
          CreditPhases, EditPhases, Inside
    <3>2. /\ Editing(u)' = Editing(u) /\ Crediting(u)' = Crediting(u)
          /\ Loaded(u)' = Loaded(u) /\ Unsaved(u)' = Unsaved(u)
      BY <1>1, <1>3, <2>2, <2>3
      DEF AccountsInvariant, TypeOK, ClientsSound, Editing, Crediting, Loaded, Unsaved,
          LoginPhases, CreditPhases, EditPhases, Inside
    <3>3. Posing(u)' \subseteq Posing(u)
      BY <1>1, <2>2
      DEF AccountsInvariant, TypeOK, ClientsSound, Posing, LoginPhases, CreditPhases,
          EditPhases, Inside
    <3> QED
      BY <3>1, <3>2, <3>3, HoldersAreNodes DEF FewerHolders, AccountsInvariant
  <2>6. SameCopies(u) /\ SameCredits(u)
    <3>1. n \notin Login(u) \union Writing(u) \union Editing(u) \union Crediting(u)
      BY <1>1, <1>3, <2>1, <2>2, <2>3
      DEF AccountsInvariant, TypeOK, ClientsSound, Login, Writing, Editing, Crediting,
          LoginPhases, CreditPhases, EditPhases, Inside
    <3>2. Editing(u)' \subseteq Editing(u) /\ Crediting(u)' \subseteq Crediting(u)
      BY <2>5 DEF FewerHolders
    <3> QED
      BY <1>1, <1>3, <2>1, <2>2, <2>3, <2>5, <3>1, <3>2, HoldersAreNodes
      DEF AccountsInvariant, TypeOK, Home, FewerHolders, SameCopies, SameCredits
  <2> QED
    BY <2>1, <2>4, <2>5, <2>6, Bystander DEF AccountsInvariant
<1> QED
  BY <1>2, <1>3 DEF UsersSound

\* Account and bank.log go up together.
LEMMA PayWageKept ==
  ASSUME AccountsInvariant, TypeOK', NEW n \in Nodes, NEW a \in Amounts, PayWage(n, a)
  PROVE  ClientsSound' /\ UsersSound'
<1>1. /\ at[n] = "checking"
      /\ rec' = [rec EXCEPT ![n] =
                      [rec[n] EXCEPT !.account_balance = rec[n].account_balance + a]]
      /\ book' = [v \in Users |-> book[v] - (IF v = rec[n].user_no THEN 0 ELSE 0)
                              + (IF v = rec[n].user_no THEN a ELSE 0)]
      /\ UNCHANGED <<file, info, logged, at, user, ref, sum>>
  <2>1. /\ a \in Int /\ rec[n].account_balance \in Int
    BY AccountsAssumption DEF AccountsInvariant, TypeOK
  <2>2. book' = [v \in Users |-> book[v] - (IF v = rec[n].user_no THEN 0 ELSE 0)
                              + (IF v = rec[n].user_no THEN a ELSE 0)]
    BY Zenon DEF PayWage, Enters
  <2>3. rec[n].account_balance + a = rec[n].account_balance + a
    BY <2>1
  <2>4. rec' = [rec EXCEPT ![n] =
                     [rec[n] EXCEPT !.account_balance = rec[n].account_balance + a]]
    BY <2>3, Zenon DEF PayWage, Book
  <2> QED
    BY <2>2, <2>4 DEF PayWage, shared
<1>2. ClientsSound'
  BY <1>1
  DEF PayWage, Becomes, shared, hands, ledger, history, Enters, Book, AccountsInvariant, TypeOK,
      ClientsSound, LoginPhases, CreditPhases, EditPhases, Inside
<1>3. ASSUME NEW u \in Users \ disturbed', ~(rec[n].user_no = u)
      PROVE  UserSound(u)'
  <2>1. u \in Users \ disturbed /\ UserSound(u)
    BY DEF PayWage, Becomes, shared, hands, ledger, history, Enters, Book, AccountsInvariant,
           UsersSound
  <2>2. Due(u)' = Due(u)
    <3>1. \A m \in Nodes \ {n} : Coming(u)'[m] = Coming(u)[m] /\ Going(u)'[m] = Going(u)[m]
      BY <1>1, <1>3 DEF AccountsInvariant, TypeOK, Coming, Going
    <3>2. Going(u)'[n] = Going(u)[n]
      BY <1>1, <1>3
      DEF AccountsInvariant, TypeOK, ClientsSound, NoSum, Going, LoginPhases, CreditPhases,
          EditPhases
    <3>3. /\ Coming(u)'[n] = Coming(u)[n] /\ book'[u] = book[u]
          /\ Coming(u)[n] \in Int /\ Going(u)[n] \in Int /\ book[u] \in Int
      BY <1>1, <1>3
      DEF AccountsInvariant, TypeOK, ClientsSound, NoSum, Coming, Going, LoginPhases,
          CreditPhases, EditPhases, Inside
    <3> QED
      BY <2>1, <3>1, <3>2, <3>3, DueMoves DEF AccountsInvariant
  <2>3. FewerHolders(u)
    <3>1. Online(u)' = Online(u) /\ Login(u)' = Login(u) /\ Writing(u)' = Writing(u)
      BY <1>1, <1>3
      DEF AccountsInvariant, TypeOK, ClientsSound, Online, Login, Writing, LoginPhases,
          CreditPhases, EditPhases, Inside
    <3>2. /\ Editing(u)' = Editing(u) /\ Crediting(u)' = Crediting(u)
          /\ Loaded(u)' = Loaded(u) /\ Unsaved(u)' = Unsaved(u)
      BY <1>1, <1>3
      DEF AccountsInvariant, TypeOK, ClientsSound, Editing, Crediting, Loaded, Unsaved,
          LoginPhases, CreditPhases, EditPhases, Inside
    <3>3. Posing(u)' \subseteq Posing(u)
      BY <1>1
      DEF AccountsInvariant, TypeOK, ClientsSound, Posing, LoginPhases, CreditPhases,
          EditPhases, Inside
    <3> QED
      BY <3>1, <3>2, <3>3, HoldersAreNodes DEF FewerHolders, AccountsInvariant
  <2>4. SameCopies(u) /\ SameCredits(u)
    <3>1. n \notin Login(u) \union Writing(u) \union Editing(u) \union Crediting(u)
      BY <1>1, <1>3, <2>1
      DEF AccountsInvariant, TypeOK, ClientsSound, Login, Writing, Editing, Crediting,
          LoginPhases, CreditPhases, EditPhases, Inside
    <3>2. Editing(u)' \subseteq Editing(u) /\ Crediting(u)' \subseteq Crediting(u)
      BY <2>3 DEF FewerHolders
    <3> QED
      BY <1>1, <1>3, <2>1, <2>3, <3>1, <3>2, HoldersAreNodes
      DEF AccountsInvariant, TypeOK, Home, FewerHolders, SameCopies, SameCredits
  <2> QED
    BY <2>1, <2>2, <2>3, <2>4, Bystander DEF AccountsInvariant
<1>4. ASSUME NEW u \in Users \ disturbed', rec[n].user_no = u
      PROVE  UserSound(u)'
  <2>1. u \in Users \ disturbed
    BY DEF PayWage, Becomes, shared, hands, ledger, history, Enters, Book
  <2>2. file[u].user_no = u /\ AtHome(u) /\ Edited(u) /\ Lent(u) /\ Pointed(u) /\ Balanced(u)
    BY <2>1 DEF AccountsInvariant, UsersSound, UserSound
  <2>3. /\ \A m \in Home(u) : Home(u) = {m} /\ Editing(u) = {} /\ Loaded(u) = {}
        /\ Login(u) # {} => Crediting(u) = {} /\ Unsaved(u) = {}
        /\ \A m \in Home(u) : \A k \in Crediting(u) : ref[k] = m
        /\ Editing(u) # {} => Crediting(u) = {}
        /\ \A m \in Loaded(u) : Crediting(u) = {m}
    BY <2>1, <2>2, HeldByOne DEF AccountsInvariant
  <2>4. /\ n \in Login(u) /\ Home(u) = {n} /\ Crediting(u) = {} /\ Editing(u) = {}
        /\ Unsaved(u) = {} /\ Loaded(u) = {}
    BY <1>1, <1>4, <2>3 DEF Login, LoginPhases, Home
  <2>5. a \in Int
    BY AccountsAssumption
  <2>6. /\ rec'[n].user_no = u /\ rec'[n].account_balance = rec[n].account_balance + a
        /\ \A m \in Nodes \ {n} : rec'[m] = rec[m]
    BY <1>1, <1>4 DEF AccountsInvariant, TypeOK
  <2>7. Due(u)' = Due(u) + a
    <3>1. \A m \in Nodes \ {n} : Coming(u)'[m] = Coming(u)[m] /\ Going(u)'[m] = Going(u)[m]
      BY <1>1 DEF AccountsInvariant, TypeOK, Coming, Going
    <3>2. Coming(u)'[n] = Coming(u)[n] /\ Going(u)'[n] = Going(u)[n]
      BY <1>1, <1>4
      DEF AccountsInvariant, TypeOK, ClientsSound, NoSum, Coming, Going, LoginPhases,
          CreditPhases, EditPhases, Inside
    <3>3. /\ Coming(u)[n] \in Int /\ Going(u)[n] \in Int /\ book[u] \in Int
      BY DEF AccountsInvariant, TypeOK, Coming, Going
    <3>4. book'[u] = book[u] + a
      BY <1>1, <1>4, <2>1, <2>5, <3>3
    <3> QED
      BY <2>1, <2>5, <3>1, <3>2, <3>3, <3>4, DueMoves DEF AccountsInvariant
  <2>8. /\ Online(u)' = Online(u) /\ Login(u)' = Login(u) /\ Writing(u)' = Writing(u)
        /\ Home(u)' = Home(u) /\ Editing(u)' = Editing(u) /\ Crediting(u)' = Crediting(u)
        /\ Loaded(u)' = Loaded(u) /\ Unsaved(u)' = Unsaved(u) /\ n \notin Online(u)
        /\ n \notin Writing(u) /\ n \notin Editing(u) /\ n \notin Crediting(u)
    <3>1. /\ Online(u)' = Online(u) /\ Login(u)' = Login(u) /\ Writing(u)' = Writing(u)
          /\ n \notin Online(u) /\ n \notin Writing(u)
      BY <1>1, <1>4, <2>4, <2>6
      DEF AccountsInvariant, TypeOK, ClientsSound, Online, Login, Writing, LoginPhases,
          CreditPhases, EditPhases, Inside
    <3>2. Home(u)' = Home(u)
      BY <3>1 DEF Home
    <3>3. /\ Editing(u)' = Editing(u) /\ Crediting(u)' = Crediting(u)
          /\ Loaded(u)' = Loaded(u) /\ Unsaved(u)' = Unsaved(u) /\ n \notin Editing(u)
          /\ n \notin Crediting(u)
      BY <1>1, <1>4, <2>4, <2>6
      DEF AccountsInvariant, TypeOK, ClientsSound, Editing, Crediting, Loaded, Unsaved,
          LoginPhases, CreditPhases, EditPhases, Inside
    <3> QED
      BY <3>1, <3>2, <3>3
  <2>9. file'[u].user_no = u /\ AtHome(u)' /\ Edited(u)' /\ Lent(u)'
    <3>1. file'[u].user_no = u /\ AtHome(u)'
      BY <1>1, <1>4, <2>1, <2>2, <2>3, <2>4, <2>6, <2>8, HoldersAreNodes
      DEF AccountsInvariant, TypeOK, AtHome, Home, Online
    <3>2. Posing(u)' \subseteq Posing(u)
      BY <1>1
      DEF AccountsInvariant, TypeOK, ClientsSound, Posing, LoginPhases, CreditPhases,
          EditPhases, Inside
    <3>3. Edited(u)'
      BY <1>1, <1>4, <2>1, <2>2, <2>3, <2>4, <2>6, <2>8, HoldersAreNodes, <3>2
      DEF AccountsInvariant, TypeOK, Edited
    <3>4. Lent(u)'
      BY <1>1, <1>4, <2>1, <2>2, <2>3, <2>4, <2>6, <2>8, HoldersAreNodes
      DEF AccountsInvariant, TypeOK, Lent
    <3> QED
      BY <3>1, <3>3, <3>4
  <2>10. Pointed(u)'
    <3>1. ASSUME NEW k \in Crediting(u)' \ Loaded(u)'
          PROVE  PointedBy(u, k)'
      <4>1. /\ k \in Nodes /\ ref[k] \in Nodes /\ ref[k] # NoNode /\ user[k] = u
            /\ PointedBy(u, k)
        BY <2>1, <2>2, <2>8, HoldersAreNodes DEF AccountsInvariant, Pointed
      <4> QED
        BY <1>1, <1>4, <2>1, <2>3, <2>4, <2>6, <2>8, <4>1
        DEF AccountsInvariant, TypeOK, PointedBy
    <3> QED
      BY <3>1 DEF Pointed
  <2>11. Balanced(u)'
    <3>1. /\ \A m \in Online(u)' : info'[m].account_balance = Due(u)'
          /\ \A m \in Login(u)' \union Writing(u)' : rec'[m].account_balance = Due(u)'
      BY <1>1, <1>4, <2>1, <2>2, <2>3, <2>4, <2>6, <2>7, <2>8, HoldersAreNodes
      DEF AccountsInvariant, TypeOK, Balanced, Home
    <3>2. ASSUME Home(u)' = {}, NEW k \in Unsaved(u)'
          PROVE  Due(u)' = IF ref'[k] = NoNode THEN rec'[k].account_balance
                                               ELSE info'[ref'[k]].account_balance
      BY <2>4, <2>8, <3>2
    <3>3. ASSUME Home(u)' = {}, Unsaved(u)' = {}
          PROVE  file'[u].account_balance = Due(u)'
      BY <2>4, <2>8, <3>3
    <3> QED
      BY <3>1, <3>2, <3>3 DEF Balanced
  <2> QED
    BY <2>9, <2>10, <2>11 DEF UserSound
<1> QED
  BY <1>2, <1>3, <1>4 DEF UsersSound

\* Account and bank.log go down together.
LEMMA PurchaseAtLoginKept ==
  ASSUME AccountsInvariant, TypeOK', NEW n \in Nodes, NEW a \in Amounts, PurchaseAtLogin(n, a)
  PROVE  ClientsSound' /\ UsersSound'
<1>1. /\ at[n] = "checking"
      /\ rec' = [rec EXCEPT ![n] =
                      [rec[n] EXCEPT !.account_balance = rec[n].account_balance - a]]
      /\ book' = [v \in Users |-> book[v] - (IF v = rec[n].user_no THEN a ELSE 0)
                              + (IF v = rec[n].user_no THEN 0 ELSE 0)]
      /\ UNCHANGED <<file, info, logged, at, user, ref, sum>>
  <2>1. /\ a \in Int /\ rec[n].account_balance \in Int
    BY AccountsAssumption DEF AccountsInvariant, TypeOK
  <2>2. book' = [v \in Users |-> book[v] - (IF v = rec[n].user_no THEN a ELSE 0)
                              + (IF v = rec[n].user_no THEN 0 ELSE 0)]
    BY Zenon DEF PurchaseAtLogin, Enters
  <2>3. rec[n].account_balance + -a = rec[n].account_balance - a
    BY <2>1
  <2>4. rec' = [rec EXCEPT ![n] =
                     [rec[n] EXCEPT !.account_balance = rec[n].account_balance - a]]
    BY <2>3, Zenon DEF PurchaseAtLogin, Book
  <2> QED
    BY <2>2, <2>4 DEF PurchaseAtLogin, shared
<1>2. ClientsSound'
  BY <1>1
  DEF PurchaseAtLogin, Becomes, shared, hands, ledger, history, Enters, Book, AccountsInvariant,
      TypeOK, ClientsSound, LoginPhases, CreditPhases, EditPhases, Inside
<1>3. ASSUME NEW u \in Users \ disturbed', ~(rec[n].user_no = u)
      PROVE  UserSound(u)'
  <2>1. u \in Users \ disturbed /\ UserSound(u)
    BY
    DEF PurchaseAtLogin, Becomes, shared, hands, ledger, history, Enters, Book, AccountsInvariant,
           UsersSound
  <2>2. Due(u)' = Due(u)
    <3>1. \A m \in Nodes \ {n} : Coming(u)'[m] = Coming(u)[m] /\ Going(u)'[m] = Going(u)[m]
      BY <1>1, <1>3 DEF AccountsInvariant, TypeOK, Coming, Going
    <3>2. Going(u)'[n] = Going(u)[n]
      BY <1>1, <1>3
      DEF AccountsInvariant, TypeOK, ClientsSound, NoSum, Going, LoginPhases, CreditPhases,
          EditPhases
    <3>3. /\ Coming(u)'[n] = Coming(u)[n] /\ book'[u] = book[u]
          /\ Coming(u)[n] \in Int /\ Going(u)[n] \in Int /\ book[u] \in Int
      BY <1>1, <1>3
      DEF AccountsInvariant, TypeOK, ClientsSound, NoSum, Coming, Going, LoginPhases,
          CreditPhases, EditPhases, Inside
    <3> QED
      BY <2>1, <3>1, <3>2, <3>3, DueMoves DEF AccountsInvariant
  <2>3. FewerHolders(u)
    <3>1. Online(u)' = Online(u) /\ Login(u)' = Login(u) /\ Writing(u)' = Writing(u)
      BY <1>1, <1>3
      DEF AccountsInvariant, TypeOK, ClientsSound, Online, Login, Writing, LoginPhases,
          CreditPhases, EditPhases, Inside
    <3>2. /\ Editing(u)' = Editing(u) /\ Crediting(u)' = Crediting(u)
          /\ Loaded(u)' = Loaded(u) /\ Unsaved(u)' = Unsaved(u)
      BY <1>1, <1>3
      DEF AccountsInvariant, TypeOK, ClientsSound, Editing, Crediting, Loaded, Unsaved,
          LoginPhases, CreditPhases, EditPhases, Inside
    <3>3. Posing(u)' \subseteq Posing(u)
      BY <1>1
      DEF AccountsInvariant, TypeOK, ClientsSound, Posing, LoginPhases, CreditPhases,
          EditPhases, Inside
    <3> QED
      BY <3>1, <3>2, <3>3, HoldersAreNodes DEF FewerHolders, AccountsInvariant
  <2>4. SameCopies(u) /\ SameCredits(u)
    <3>1. n \notin Login(u) \union Writing(u) \union Editing(u) \union Crediting(u)
      BY <1>1, <1>3, <2>1
      DEF AccountsInvariant, TypeOK, ClientsSound, Login, Writing, Editing, Crediting,
          LoginPhases, CreditPhases, EditPhases, Inside
    <3>2. Editing(u)' \subseteq Editing(u) /\ Crediting(u)' \subseteq Crediting(u)
      BY <2>3 DEF FewerHolders
    <3> QED
      BY <1>1, <1>3, <2>1, <2>3, <3>1, <3>2, HoldersAreNodes
      DEF AccountsInvariant, TypeOK, Home, FewerHolders, SameCopies, SameCredits
  <2> QED
    BY <2>1, <2>2, <2>3, <2>4, Bystander DEF AccountsInvariant
<1>4. ASSUME NEW u \in Users \ disturbed', rec[n].user_no = u
      PROVE  UserSound(u)'
  <2>1. u \in Users \ disturbed
    BY DEF PurchaseAtLogin, Becomes, shared, hands, ledger, history, Enters, Book
  <2>2. file[u].user_no = u /\ AtHome(u) /\ Edited(u) /\ Lent(u) /\ Pointed(u) /\ Balanced(u)
    BY <2>1 DEF AccountsInvariant, UsersSound, UserSound
  <2>3. /\ \A m \in Home(u) : Home(u) = {m} /\ Editing(u) = {} /\ Loaded(u) = {}
        /\ Login(u) # {} => Crediting(u) = {} /\ Unsaved(u) = {}
        /\ \A m \in Home(u) : \A k \in Crediting(u) : ref[k] = m
        /\ Editing(u) # {} => Crediting(u) = {}
        /\ \A m \in Loaded(u) : Crediting(u) = {m}
    BY <2>1, <2>2, HeldByOne DEF AccountsInvariant
  <2>4. /\ n \in Login(u) /\ Home(u) = {n} /\ Crediting(u) = {} /\ Editing(u) = {}
        /\ Unsaved(u) = {} /\ Loaded(u) = {}
    BY <1>1, <1>4, <2>3 DEF Login, LoginPhases, Home
  <2>5. a \in Int
    BY AccountsAssumption
  <2>6. /\ rec'[n].user_no = u /\ rec'[n].account_balance = rec[n].account_balance - a
        /\ \A m \in Nodes \ {n} : rec'[m] = rec[m]
    BY <1>1, <1>4 DEF AccountsInvariant, TypeOK
  <2>7. Due(u)' = Due(u) - a
    <3>1. \A m \in Nodes \ {n} : Coming(u)'[m] = Coming(u)[m] /\ Going(u)'[m] = Going(u)[m]
      BY <1>1 DEF AccountsInvariant, TypeOK, Coming, Going
    <3>2. Coming(u)'[n] = Coming(u)[n] /\ Going(u)'[n] = Going(u)[n]
      BY <1>1, <1>4
      DEF AccountsInvariant, TypeOK, ClientsSound, NoSum, Coming, Going, LoginPhases,
          CreditPhases, EditPhases, Inside
    <3>3. /\ Coming(u)[n] \in Int /\ Going(u)[n] \in Int /\ book[u] \in Int
      BY DEF AccountsInvariant, TypeOK, Coming, Going
    <3>4. book'[u] = book[u] - a
      BY <1>1, <1>4, <2>1, <2>5, <3>3
    <3> QED
      BY <2>1, <2>5, <3>1, <3>2, <3>3, <3>4, DueMoves DEF AccountsInvariant
  <2>8. /\ Online(u)' = Online(u) /\ Login(u)' = Login(u) /\ Writing(u)' = Writing(u)
        /\ Home(u)' = Home(u) /\ Editing(u)' = Editing(u) /\ Crediting(u)' = Crediting(u)
        /\ Loaded(u)' = Loaded(u) /\ Unsaved(u)' = Unsaved(u) /\ n \notin Online(u)
        /\ n \notin Writing(u) /\ n \notin Editing(u) /\ n \notin Crediting(u)
    <3>1. /\ Online(u)' = Online(u) /\ Login(u)' = Login(u) /\ Writing(u)' = Writing(u)
          /\ n \notin Online(u) /\ n \notin Writing(u)
      BY <1>1, <1>4, <2>4, <2>6
      DEF AccountsInvariant, TypeOK, ClientsSound, Online, Login, Writing, LoginPhases,
          CreditPhases, EditPhases, Inside
    <3>2. Home(u)' = Home(u)
      BY <3>1 DEF Home
    <3>3. /\ Editing(u)' = Editing(u) /\ Crediting(u)' = Crediting(u)
          /\ Loaded(u)' = Loaded(u) /\ Unsaved(u)' = Unsaved(u) /\ n \notin Editing(u)
          /\ n \notin Crediting(u)
      BY <1>1, <1>4, <2>4, <2>6
      DEF AccountsInvariant, TypeOK, ClientsSound, Editing, Crediting, Loaded, Unsaved,
          LoginPhases, CreditPhases, EditPhases, Inside
    <3> QED
      BY <3>1, <3>2, <3>3
  <2>9. file'[u].user_no = u /\ AtHome(u)' /\ Edited(u)' /\ Lent(u)'
    <3>1. file'[u].user_no = u /\ AtHome(u)'
      BY <1>1, <1>4, <2>1, <2>2, <2>3, <2>4, <2>6, <2>8, HoldersAreNodes
      DEF AccountsInvariant, TypeOK, AtHome, Home, Online
    <3>2. Posing(u)' \subseteq Posing(u)
      BY <1>1
      DEF AccountsInvariant, TypeOK, ClientsSound, Posing, LoginPhases, CreditPhases,
          EditPhases, Inside
    <3>3. Edited(u)'
      BY <1>1, <1>4, <2>1, <2>2, <2>3, <2>4, <2>6, <2>8, HoldersAreNodes, <3>2
      DEF AccountsInvariant, TypeOK, Edited
    <3>4. Lent(u)'
      BY <1>1, <1>4, <2>1, <2>2, <2>3, <2>4, <2>6, <2>8, HoldersAreNodes
      DEF AccountsInvariant, TypeOK, Lent
    <3> QED
      BY <3>1, <3>3, <3>4
  <2>10. Pointed(u)'
    <3>1. ASSUME NEW k \in Crediting(u)' \ Loaded(u)'
          PROVE  PointedBy(u, k)'
      <4>1. /\ k \in Nodes /\ ref[k] \in Nodes /\ ref[k] # NoNode /\ user[k] = u
            /\ PointedBy(u, k)
        BY <2>1, <2>2, <2>8, HoldersAreNodes DEF AccountsInvariant, Pointed
      <4> QED
        BY <1>1, <1>4, <2>1, <2>3, <2>4, <2>6, <2>8, <4>1
        DEF AccountsInvariant, TypeOK, PointedBy
    <3> QED
      BY <3>1 DEF Pointed
  <2>11. Balanced(u)'
    <3>1. /\ \A m \in Online(u)' : info'[m].account_balance = Due(u)'
          /\ \A m \in Login(u)' \union Writing(u)' : rec'[m].account_balance = Due(u)'
      BY <1>1, <1>4, <2>1, <2>2, <2>3, <2>4, <2>6, <2>7, <2>8, HoldersAreNodes
      DEF AccountsInvariant, TypeOK, Balanced, Home
    <3>2. ASSUME Home(u)' = {}, NEW k \in Unsaved(u)'
          PROVE  Due(u)' = IF ref'[k] = NoNode THEN rec'[k].account_balance
                                               ELSE info'[ref'[k]].account_balance
      BY <2>4, <2>8, <3>2
    <3>3. ASSUME Home(u)' = {}, Unsaved(u)' = {}
          PROVE  file'[u].account_balance = Due(u)'
      BY <2>4, <2>8, <3>3
    <3> QED
      BY <3>1, <3>2, <3>3 DEF Balanced
  <2> QED
    BY <2>9, <2>10, <2>11 DEF UserSound
<1> QED
  BY <1>2, <1>3, <1>4 DEF UsersSound

\* What is entered first is owed until the account is charged.
LEMMA PurchaseKept ==
  ASSUME AccountsInvariant, TypeOK', NEW n \in Nodes, NEW a \in Amounts, Purchase(n, a)
  PROVE  ClientsSound' /\ UsersSound'
<1>1. /\ at[n] = "online"
      /\ at' = [at EXCEPT ![n] = "charging"]
      /\ sum' = [sum EXCEPT ![n] = [sum[n] EXCEPT !.out = a]]
      /\ book' = [v \in Users |-> book[v] - (IF v = info[n].user_no THEN a ELSE 0)
                              + (IF v = info[n].user_no THEN 0 ELSE 0)]
      /\ UNCHANGED <<file, info, logged, rec, user, ref>>
  <2>1. book' = [v \in Users |-> book[v] - (IF v = info[n].user_no THEN a ELSE 0)
                              + (IF v = info[n].user_no THEN 0 ELSE 0)]
    BY Zenon DEF Purchase, Enters
  <2>2. sum' = [sum EXCEPT ![n] = [sum[n] EXCEPT !.out = a]]
    BY Zenon DEF Purchase
  <2> QED
    BY <2>1, <2>2, Zenon DEF Purchase, Becomes, shared
<1>2. ClientsSound'
  <2>1. sum[n] = NoSum
    BY <1>1 DEF AccountsInvariant, ClientsSound
  <2>2. sum'[n].in = 0
    BY <1>1, <2>1 DEF AccountsInvariant, TypeOK, NoSum
  <2>3. disturbed' = disturbed
    BY DEF Purchase, history
  <2> QED
    BY <1>1, <2>1, <2>2, <2>3
    DEF AccountsInvariant, TypeOK, ClientsSound, LoginPhases, CreditPhases, EditPhases, Inside
<1>3. ASSUME NEW u \in Users \ disturbed'
      PROVE  UserSound(u)'
  <2>1. u \in Users \ disturbed /\ UserSound(u)
    BY DEF Purchase, Becomes, shared, hands, ledger, history, AccountsInvariant, UsersSound
  <2>2. /\ a \in Int /\ sum[n] = NoSum /\ sum'[n].in = 0 /\ sum'[n].out = a
    <3>1. sum[n] = NoSum
      BY <1>1 DEF AccountsInvariant, ClientsSound
    <3> QED
      BY <1>1, <3>1, AccountsAssumption DEF AccountsInvariant, TypeOK, NoSum
  <2>3. Due(u)' = Due(u)
    <3>1. \A m \in Nodes \ {n} : Coming(u)'[m] = Coming(u)[m] /\ Going(u)'[m] = Going(u)[m]
      BY <1>1 DEF AccountsInvariant, TypeOK, Coming, Going
    <3>2. /\ Coming(u)[n] = 0 /\ Coming(u)'[n] = 0 /\ Going(u)[n] = 0
          /\ Going(u)'[n] = IF info[n].user_no = u THEN a ELSE 0
      BY <1>1, <2>2
      DEF AccountsInvariant, TypeOK, ClientsSound, NoSum, Coming, Going, LoginPhases,
          CreditPhases, EditPhases, Inside
    <3>3. /\ Coming(u)[n] \in Int /\ Going(u)[n] \in Int /\ book[u] \in Int
      BY DEF AccountsInvariant, TypeOK, Coming, Going
    <3>4. book'[u] = book[u] - (IF info[n].user_no = u THEN a ELSE 0)
      BY <1>1, <2>1, <2>2, <3>3
    <3> QED
      BY <2>1, <2>2, <3>1, <3>2, <3>3, <3>4, DueMoves DEF AccountsInvariant
  <2>4. FewerHolders(u)
    <3>1. Online(u)' = Online(u) /\ Login(u)' = Login(u) /\ Writing(u)' = Writing(u)
      BY <1>1, <2>2
      DEF AccountsInvariant, TypeOK, ClientsSound, Online, Login, Writing, LoginPhases,
          CreditPhases, EditPhases, Inside
    <3>2. /\ Editing(u)' = Editing(u) /\ Crediting(u)' = Crediting(u)
          /\ Loaded(u)' = Loaded(u) /\ Unsaved(u)' = Unsaved(u)
      BY <1>1, <2>2
      DEF AccountsInvariant, TypeOK, ClientsSound, Editing, Crediting, Loaded, Unsaved,
          LoginPhases, CreditPhases, EditPhases, Inside
    <3>3. Posing(u)' \subseteq Posing(u)
      BY <1>1
      DEF AccountsInvariant, TypeOK, ClientsSound, Posing, LoginPhases, CreditPhases,
          EditPhases, Inside
    <3> QED
      BY <3>1, <3>2, <3>3, HoldersAreNodes DEF FewerHolders, AccountsInvariant
  <2>5. SameCopies(u) /\ SameCredits(u)
    <3>1. n \notin Login(u) \union Writing(u)
      BY <1>1, <2>1, <2>2
      DEF AccountsInvariant, TypeOK, ClientsSound, Login, Writing, LoginPhases,
          CreditPhases, EditPhases, Inside
    <3> QED
      BY <1>1, <2>1, <2>2, <2>4, <3>1, HoldersAreNodes
      DEF AccountsInvariant, TypeOK, Home, FewerHolders, SameCopies, SameCredits, Editing,
          Crediting, Loaded, LoginPhases, CreditPhases, EditPhases, Inside
  <2> QED
    BY <2>1, <2>3, <2>4, <2>5, Bystander DEF AccountsInvariant
<1> QED
  BY <1>2, <1>3 DEF UsersSound

\* So it is on both sides.
LEMMA MovementKept ==
  ASSUME AccountsInvariant, TypeOK', NEW n \in Nodes, NEW in \in Amounts, NEW out \in 0 .. in,
         Movement(n, out, in)
  PROVE  ClientsSound' /\ UsersSound'
<1>1. /\ at[n] = "credit"
      /\ at' = [at EXCEPT ![n] = "paying"]
      /\ sum' = [sum EXCEPT ![n] = [out |-> out, in |-> in]]
      /\ book' = [v \in Users |-> book[v] - (IF v = info[n].user_no THEN out ELSE 0)
                              + (IF v = user[n] THEN in ELSE 0)]
      /\ UNCHANGED <<file, info, logged, rec, user, ref>>
  <2>1. book' = [v \in Users |-> book[v] - (IF v = info[n].user_no THEN out ELSE 0)
                              + (IF v = user[n] THEN in ELSE 0)]
    BY Zenon DEF Movement, Enters
  <2>2. sum' = [sum EXCEPT ![n] = [out |-> out, in |-> in]]
    BY Zenon DEF Movement
  <2> QED
    BY <2>1, <2>2, Zenon DEF Movement, Becomes, shared
<1>2. ClientsSound'
  BY <1>1
  DEF Movement, Becomes, shared, hands, ledger, history, AccountsInvariant, TypeOK, ClientsSound,
      LoginPhases, CreditPhases, EditPhases, Inside
<1>3. ASSUME NEW u \in Users \ disturbed'
      PROVE  UserSound(u)'
  <2>1. u \in Users \ disturbed /\ UserSound(u)
    BY DEF Movement, Becomes, shared, hands, ledger, history, AccountsInvariant, UsersSound
  <2>2. out \in Int /\ in \in Int
    BY AccountsAssumption
  <2>3. /\ out \in Int /\ in \in Int /\ sum[n] = NoSum /\ sum'[n].in = in /\ sum'[n].out = out
    <3>1. sum[n] = NoSum
      BY <1>1 DEF AccountsInvariant, ClientsSound
    <3> QED
      BY <1>1, <2>2, <3>1 DEF AccountsInvariant, TypeOK, NoSum
  <2>4. Due(u)' = Due(u)
    <3>1. \A m \in Nodes \ {n} : Coming(u)'[m] = Coming(u)[m] /\ Going(u)'[m] = Going(u)[m]
      BY <1>1 DEF AccountsInvariant, TypeOK, Coming, Going
    <3>2. /\ Coming(u)[n] = 0 /\ Coming(u)'[n] = IF user[n] = u THEN in ELSE 0
          /\ Going(u)[n] = 0 /\ Going(u)'[n] = IF info[n].user_no = u THEN out ELSE 0
      BY <1>1, <2>3
      DEF AccountsInvariant, TypeOK, ClientsSound, NoSum, Coming, Going, LoginPhases,
          CreditPhases, EditPhases, Inside
    <3>3. /\ Coming(u)[n] \in Int /\ Going(u)[n] \in Int /\ book[u] \in Int
      BY DEF AccountsInvariant, TypeOK, Coming, Going
    <3>4. book'[u] = book[u] - (IF info[n].user_no = u THEN out ELSE 0)
                            + (IF user[n] = u THEN in ELSE 0)
      BY <1>1, <2>1, <2>3, <3>3
    <3> QED
      BY <2>1, <2>3, <3>1, <3>2, <3>3, <3>4, DueMoves DEF AccountsInvariant
  <2>5. FewerHolders(u)
    <3>1. Online(u)' = Online(u) /\ Login(u)' = Login(u) /\ Writing(u)' = Writing(u)
      BY <1>1, <2>3
      DEF AccountsInvariant, TypeOK, ClientsSound, Online, Login, Writing, LoginPhases,
          CreditPhases, EditPhases, Inside
    <3>2. /\ Editing(u)' = Editing(u) /\ Crediting(u)' = Crediting(u)
          /\ Loaded(u)' = Loaded(u) /\ Unsaved(u)' = Unsaved(u)
      BY <1>1, <2>3
      DEF AccountsInvariant, TypeOK, ClientsSound, Editing, Crediting, Loaded, Unsaved,
          LoginPhases, CreditPhases, EditPhases, Inside
    <3>3. Posing(u)' \subseteq Posing(u)
      BY <1>1
      DEF AccountsInvariant, TypeOK, ClientsSound, Posing, LoginPhases, CreditPhases,
          EditPhases, Inside
    <3> QED
      BY <3>1, <3>2, <3>3, HoldersAreNodes DEF FewerHolders, AccountsInvariant
  <2>6. SameCopies(u) /\ SameCredits(u)
    <3>1. n \notin Login(u) \union Writing(u) \union Unsaved(u)
      BY <1>1, <2>1, <2>3
      DEF AccountsInvariant, TypeOK, ClientsSound, Login, Writing, Unsaved, LoginPhases,
          CreditPhases, EditPhases, Inside
    <3> QED
      BY <1>1, <2>1, <2>3, <2>5, <3>1, HoldersAreNodes
      DEF AccountsInvariant, TypeOK, Home, FewerHolders, SameCopies, SameCredits, Editing,
          Crediting, Loaded, LoginPhases, CreditPhases, EditPhases, Inside
  <2> QED
    BY <2>1, <2>4, <2>5, <2>6, Bystander DEF AccountsInvariant
<1> QED
  BY <1>2, <1>3 DEF UsersSound

\* The balance that is read is still the one in the node.
LEMMA FetchKept ==
  ASSUME AccountsInvariant, TypeOK', NEW n \in Nodes, NEW m \in Nodes, Fetch(n, m)
  PROVE  ClientsSound' /\ UsersSound'
<1>1. /\ \/ at[n] = "charging" /\ at' = [at EXCEPT ![n] = "charged"]
         \/ at[n] = "paying" /\ at' = [at EXCEPT ![n] = "deducting"]
         \/ at[n] = "applying" /\ at' = [at EXCEPT ![n] = "adding"] /\ ref[n] # NoNode
      /\ UNCHANGED <<file, info, logged, rec, user, ref, sum, book>>
  <2>1. m # NoNode
    BY AccountsAssumption DEF NoNode
  <2> QED
    BY <2>1, Zenon DEF Fetch, Becomes, shared, ledger
<1>2. ClientsSound'
  BY <1>1
  DEF Fetch, Becomes, shared, hands, ledger, history, AccountsInvariant, TypeOK,
      ClientsSound, LoginPhases, CreditPhases, EditPhases, Inside
<1>3. ASSUME NEW u \in Users \ disturbed'
      PROVE  UserSound(u)'
  <2>1. u \in Users \ disturbed /\ UserSound(u)
    BY DEF Fetch, Becomes, shared, hands, ledger, history, AccountsInvariant, UsersSound
  <2>2. Due(u)' = Due(u)
    BY <1>1 DEF Due, Unbooked, Coming, Going
  <2>3. FewerHolders(u)
    <3>1. Online(u)' = Online(u) /\ Login(u)' = Login(u) /\ Writing(u)' = Writing(u)
      BY <1>1
      DEF AccountsInvariant, TypeOK, ClientsSound, Online, Login, Writing, LoginPhases,
          CreditPhases, EditPhases, Inside
    <3>2. /\ Editing(u)' = Editing(u) /\ Crediting(u)' = Crediting(u)
          /\ Loaded(u)' = Loaded(u) /\ Unsaved(u)' = Unsaved(u)
      BY <1>1
      DEF AccountsInvariant, TypeOK, ClientsSound, Editing, Crediting, Loaded, Unsaved,
          LoginPhases, CreditPhases, EditPhases, Inside
    <3>3. Editing(u)' # {} => Posing(u)' \subseteq Posing(u)
      BY <1>1, <3>2
      DEF AccountsInvariant, TypeOK, ClientsSound, Posing, LoginPhases, CreditPhases,
          EditPhases, Inside
    <3> QED
      BY <3>1, <3>2, <3>3, HoldersAreNodes DEF FewerHolders, AccountsInvariant
  <2>4. SameCopies(u) /\ SameCredits(u)
    <3>1. n \notin Login(u) \union Writing(u)
      BY <1>1, <2>1
      DEF AccountsInvariant, TypeOK, ClientsSound, Login, Writing, LoginPhases,
          CreditPhases, EditPhases, Inside
    <3> QED
      BY <1>1, <2>1, <2>3, <3>1, HoldersAreNodes
      DEF AccountsInvariant, TypeOK, Home, FewerHolders, SameCopies, SameCredits, Editing,
          Crediting, Loaded, LoginPhases, CreditPhases, EditPhases, Inside
  <2> QED
    BY <2>1, <2>2, <2>3, <2>4, Bystander DEF AccountsInvariant
<1> QED
  BY <1>2, <1>3 DEF UsersSound

\* The account goes down by what was owed.
LEMMA ChargeKept ==
  ASSUME AccountsInvariant, TypeOK', NEW n \in Nodes, Charge(n)
  PROVE  ClientsSound' /\ UsersSound'
<1>1. /\ at[n] \in {"charged", "deducting"}
      /\ info' = [info EXCEPT ![n] = [info[n] EXCEPT !.account_balance = seen[n] - sum[n].out]]
      /\ at' = [at EXCEPT ![n] = IF at[n] = "charged" THEN "online" ELSE "applying"]
      /\ sum' = [sum EXCEPT ![n] = [sum[n] EXCEPT !.out = 0]]
      /\ UNCHANGED <<file, logged, rec, user, ref, book>>
  <2>1. info' = [info EXCEPT ![n] = [info[n] EXCEPT !.account_balance = seen[n] - sum[n].out]]
    BY DEF Charge, SetBalance, AccountsInvariant, TypeOK
  <2>2. sum' = [sum EXCEPT ![n] = [sum[n] EXCEPT !.out = 0]]
    BY DEF Charge, AccountsInvariant, TypeOK
  <2> QED
    BY <2>1, <2>2, Zenon DEF Charge, ledger
<1>2. ClientsSound'
  <2>1. /\ sum[n].in \in Int /\ sum'[n].out = 0 /\ sum'[n].in = sum[n].in
        /\ info'[n].user_no = info[n].user_no
        /\ at[n] = "charged" => sum'[n] = NoSum
    BY <1>1 DEF AccountsInvariant, TypeOK, ClientsSound, NoSum
  <2>2. disturbed \subseteq disturbed'
    BY DEF Charge, Disturbs
  <2> QED
    BY <1>1, <2>1, <2>2
    DEF AccountsInvariant, TypeOK, ClientsSound, LoginPhases, CreditPhases, EditPhases, Inside
<1>3. ASSUME NEW u \in Users \ disturbed'
      PROVE  UserSound(u)'
  <2>1. u \in Users \ disturbed
    BY DEF Charge, Disturbs
  <2>2. file[u].user_no = u /\ AtHome(u) /\ Edited(u) /\ Lent(u) /\ Pointed(u) /\ Balanced(u)
    BY <2>1 DEF AccountsInvariant, UsersSound, UserSound
  <2>3. /\ \A m \in Home(u) : Home(u) = {m} /\ Editing(u) = {} /\ Loaded(u) = {}
        /\ Login(u) # {} => Crediting(u) = {} /\ Unsaved(u) = {}
        /\ \A m \in Home(u) : \A k \in Crediting(u) : ref[k] = m
        /\ Editing(u) # {} => Crediting(u) = {}
        /\ \A m \in Loaded(u) : Crediting(u) = {m}
    BY <2>1, <2>2, HeldByOne DEF AccountsInvariant
  <2>4. /\ sum[n].out \in Int /\ sum[n].in \in Int /\ sum'[n].in = sum[n].in /\ sum'[n].out = 0
        /\ info'[n].user_no = info[n].user_no
        /\ info[n].account_balance \in Int
        /\ info[n].user_no = u =>
             info'[n].account_balance = info[n].account_balance - sum[n].out
        /\ \A m \in Nodes \ {n} : info'[m] = info[m] /\ sum'[m] = sum[m]
    <3>1. info[n].user_no = u => seen[n] = info[n].account_balance
      BY <2>1 DEF Charge, Disturbs, Raced
    <3> QED
      BY <1>1, <3>1 DEF AccountsInvariant, TypeOK
  <2>5. /\ n \in Online(u) <=> info[n].user_no = u
        /\ n \in Home(u) <=> info[n].user_no = u
    BY <1>1, <2>1
    DEF AccountsInvariant, ClientsSound, Online, Home, Login, Writing, LoginPhases,
        CreditPhases, Inside
  <2>6. Due(u)' = Due(u) - (IF info[n].user_no = u THEN sum[n].out ELSE 0)
    <3>1. \A m \in Nodes \ {n} : Coming(u)'[m] = Coming(u)[m] /\ Going(u)'[m] = Going(u)[m]
      BY <1>1 DEF AccountsInvariant, TypeOK, Coming, Going
    <3>2. /\ Coming(u)'[n] = Coming(u)[n]
          /\ Going(u)[n] = (IF info[n].user_no = u THEN sum[n].out ELSE 0) /\ Going(u)'[n] = 0
      BY <1>1, <2>4
      DEF AccountsInvariant, TypeOK, ClientsSound, NoSum, Coming, Going, LoginPhases,
          CreditPhases, EditPhases, Inside
    <3>3. /\ Coming(u)[n] \in Int /\ Going(u)[n] \in Int /\ book[u] \in Int
      BY DEF AccountsInvariant, TypeOK, Coming, Going
    <3>4. book'[u] = book[u]
      BY <1>1, <2>1, <2>4, <3>3
    <3> QED
      BY <2>1, <2>4, <3>1, <3>2, <3>3, <3>4, DueMoves DEF AccountsInvariant
  <2>7. /\ Online(u)' = Online(u) /\ Login(u)' = Login(u) /\ Writing(u)' = Writing(u)
        /\ Home(u)' = Home(u) /\ Editing(u)' = Editing(u) /\ Crediting(u)' = Crediting(u)
        /\ Loaded(u)' = Loaded(u) /\ Unsaved(u)' = Unsaved(u) /\ n \notin Login(u)
        /\ n \notin Writing(u) /\ n \notin Editing(u) /\ n \notin Unsaved(u)
    <3>1. /\ Online(u)' = Online(u) /\ Login(u)' = Login(u) /\ Writing(u)' = Writing(u)
          /\ n \notin Login(u) /\ n \notin Writing(u)
      BY <1>1, <2>4
      DEF AccountsInvariant, TypeOK, ClientsSound, Online, Login, Writing, LoginPhases,
          CreditPhases, EditPhases, Inside
    <3>2. Home(u)' = Home(u)
      BY <3>1 DEF Home
    <3>3. /\ Editing(u)' = Editing(u) /\ Crediting(u)' = Crediting(u)
          /\ Loaded(u)' = Loaded(u) /\ Unsaved(u)' = Unsaved(u) /\ n \notin Editing(u)
          /\ n \notin Unsaved(u)
      BY <1>1, <2>4
      DEF AccountsInvariant, TypeOK, ClientsSound, Editing, Crediting, Loaded, Unsaved,
          LoginPhases, CreditPhases, EditPhases, Inside
    <3> QED
      BY <3>1, <3>2, <3>3
  <2>8. file'[u].user_no = u /\ AtHome(u)' /\ Edited(u)' /\ Lent(u)'
    <3>1. file'[u].user_no = u /\ AtHome(u)'
      BY <1>1, <2>1, <2>2, <2>3, <2>4, <2>5, <2>7, HoldersAreNodes
      DEF AccountsInvariant, TypeOK, AtHome, Home, Online
    <3>2. Posing(u)' \subseteq Posing(u)
      BY <1>1
      DEF AccountsInvariant, TypeOK, ClientsSound, Posing, LoginPhases, CreditPhases,
          EditPhases, Inside
    <3>3. Edited(u)'
      BY <1>1, <2>1, <2>2, <2>3, <2>4, <2>5, <2>7, HoldersAreNodes, <3>2
      DEF AccountsInvariant, TypeOK, Edited
    <3>4. Lent(u)'
      BY <1>1, <2>1, <2>2, <2>3, <2>4, <2>5, <2>7, HoldersAreNodes
      DEF AccountsInvariant, TypeOK, Lent
    <3> QED
      BY <3>1, <3>3, <3>4
  <2>9. Pointed(u)'
    <3>1. ASSUME NEW k \in Crediting(u)' \ Loaded(u)'
          PROVE  PointedBy(u, k)'
      <4>1. /\ k \in Nodes /\ ref[k] \in Nodes /\ ref[k] # NoNode /\ user[k] = u
            /\ PointedBy(u, k)
        BY <2>1, <2>2, <2>7, HoldersAreNodes DEF AccountsInvariant, Pointed
      <4> QED
        BY <1>1, <2>1, <2>3, <2>4, <2>5, <2>7, <4>1 DEF AccountsInvariant, TypeOK, PointedBy
    <3> QED
      BY <3>1 DEF Pointed
  <2>10. Balanced(u)'
    <3>1. /\ \A m \in Online(u)' : info'[m].account_balance = Due(u)'
          /\ \A m \in Login(u)' \union Writing(u)' : rec'[m].account_balance = Due(u)'
      BY <1>1, <2>1, <2>2, <2>3, <2>4, <2>5, <2>6, <2>7, HoldersAreNodes
      DEF AccountsInvariant, TypeOK, Balanced, Home
    <3>2. ASSUME Home(u)' = {}, NEW k \in Unsaved(u)'
          PROVE  Due(u)' = IF ref'[k] = NoNode THEN rec'[k].account_balance
                                               ELSE info'[ref'[k]].account_balance
      <4>1. ref[k] # NoNode => ref[k] # n
        BY <2>1, <2>2, <2>5, <2>7, <3>2, HoldersAreNodes
        DEF AccountsInvariant, Pointed, PointedBy
      <4> QED
        BY <1>1, <2>1, <2>2, <2>4, <2>5, <2>6, <2>7, <3>2, <4>1, HoldersAreNodes
        DEF AccountsInvariant, TypeOK, Balanced
    <3>3. ASSUME Home(u)' = {}, Unsaved(u)' = {}
          PROVE  file'[u].account_balance = Due(u)'
      BY <1>1, <2>1, <2>2, <2>3, <2>4, <2>5, <2>6, <2>7, <3>3, HoldersAreNodes
      DEF AccountsInvariant, TypeOK, Balanced
    <3> QED
      BY <3>1, <3>2, <3>3 DEF Balanced
  <2> QED
    BY <2>8, <2>9, <2>10 DEF UserSound
<1> QED
  BY <1>2, <1>3 DEF UsersSound

\* The credits go into the record lent.
LEMMA ApplyLentKept ==
  ASSUME AccountsInvariant, TypeOK', NEW n \in Nodes, ApplyLent(n)
  PROVE  ClientsSound' /\ UsersSound'
<1>1. /\ at[n] = "applying"
      /\ ref[n] = NoNode
      /\ at' = [at EXCEPT ![n] = "storing"]
      /\ rec' = [rec EXCEPT ![n] =
                      [rec[n] EXCEPT !.account_balance = rec[n].account_balance + sum[n].in]]
      /\ sum' = [sum EXCEPT ![n] = [sum[n] EXCEPT !.in = 0]]
      /\ UNCHANGED <<file, info, logged, user, ref, book>>
  <2>1. rec' = [rec EXCEPT ![n] =
                     [rec[n] EXCEPT !.account_balance = rec[n].account_balance + sum[n].in]]
    BY DEF ApplyLent, Book, AccountsInvariant, TypeOK
  <2>2. sum' = [sum EXCEPT ![n] = [sum[n] EXCEPT !.in = 0]]
    BY DEF ApplyLent, AccountsInvariant, TypeOK
  <2> QED
    BY <2>1, <2>2, Zenon DEF ApplyLent, Becomes, shared, ledger
<1>2. ClientsSound'
  <2>1. sum[n].out = 0 /\ sum'[n] = NoSum
    BY <1>1 DEF AccountsInvariant, TypeOK, ClientsSound, NoSum
  <2>2. \A m \in Nodes : rec'[m].user_no = rec[m].user_no /\ info'[m].user_no = info[m].user_no
    BY <1>1 DEF AccountsInvariant, TypeOK
  <2>3. disturbed' = disturbed
    BY DEF ApplyLent, history
  <2>4. /\ at[n] = "applying" /\ at'[n] = "storing" /\ user' = user /\ ref' = ref
        /\ logged' = logged
    BY <1>1 DEF AccountsInvariant, TypeOK
  <2>5. \A m \in Nodes \ {n} : at'[m] = at[m] /\ sum'[m] = sum[m]
    BY <1>1 DEF AccountsInvariant, TypeOK
  <2>6. ASSUME NEW m \in Nodes \ {n}
        PROVE  /\ at'[m] \in Inside => logged'[m]
               /\ logged'[m] => at'[m] \in Inside \union {"off"}
               /\ logged'[m] /\ at'[m] = "off" =>
                    info'[m].user_no \in disturbed' \union {GUEST_USER_NUMBER}
               /\ at'[m] \notin {"charging", "charged", "paying", "deducting", "applying",
                                "adding"} => sum'[m] = NoSum
               /\ at'[m] \in {"charging", "charged"} => sum'[m].in = 0
               /\ at'[m] \in {"applying", "adding"} => sum'[m].out = 0
               /\ at'[m] \in {"adding", "telling"} => ref'[m] # NoNode
    BY <2>2, <2>3, <2>4, <2>5 DEF AccountsInvariant, ClientsSound
  <2>7. ASSUME NEW m \in Nodes \ {n}
        PROVE  /\ at'[m] \in {"filing", "telling"} /\ ref'[m] # NoNode
                        => rec'[m].user_no \in disturbed'
               /\ at'[m] = "entering" => \/ rec'[m].user_no = info'[m].user_no
                                        \/ {rec'[m].user_no, info'[m].user_no} \subseteq disturbed'
               /\ at'[m] \in {"leaving", "copied"} =>
                    \/ user'[m] = info'[m].user_no
                    \/ {user'[m], info'[m].user_no} \subseteq disturbed'
    BY <2>2, <2>3, <2>4, <2>5 DEF AccountsInvariant, ClientsSound
  <2>8. logged[n]
    BY <2>4 DEF AccountsInvariant, ClientsSound, CreditPhases, Inside
  <2> QED
    BY <2>1, <2>4, <2>6, <2>7, <2>8 DEF ClientsSound, CreditPhases, EditPhases, Inside
<1>3. ASSUME NEW u \in Users \ disturbed', ~(user[n] = u)
      PROVE  UserSound(u)'
  <2>1. u \in Users \ disturbed /\ UserSound(u)
    BY DEF ApplyLent, history, AccountsInvariant, UsersSound
  <2>2. /\ sum[n].in \in Int /\ sum'[n].in = 0 /\ sum[n].out = 0 /\ sum'[n].out = 0
        /\ rec'[n].user_no = rec[n].user_no
        /\ rec[n].account_balance \in Int
        /\ rec'[n].account_balance = rec[n].account_balance + sum[n].in
        /\ \A m \in Nodes \ {n} : rec'[m] = rec[m]
        /\ \A m \in Nodes : rec'[m].user_no = rec[m].user_no
        /\ \A m \in Nodes \ {n} : sum'[m] = sum[m]
    BY <1>1 DEF AccountsInvariant, TypeOK, ClientsSound, NoSum
  <2>3. Due(u)' = Due(u)
    <3>1. \A m \in Nodes \ {n} : Coming(u)'[m] = Coming(u)[m] /\ Going(u)'[m] = Going(u)[m]
      BY <1>1, <1>3, <2>2 DEF AccountsInvariant, TypeOK, Coming, Going
    <3>2. Going(u)'[n] = Going(u)[n]
      BY <1>1, <1>3, <2>2
      DEF AccountsInvariant, TypeOK, ClientsSound, NoSum, Going, LoginPhases, CreditPhases,
          EditPhases
    <3>3. /\ Coming(u)'[n] = Coming(u)[n] /\ book'[u] = book[u]
          /\ Coming(u)[n] \in Int /\ Going(u)[n] \in Int /\ book[u] \in Int
      BY <1>1, <1>3, <2>2
      DEF AccountsInvariant, TypeOK, ClientsSound, NoSum, Coming, Going, LoginPhases,
          CreditPhases, EditPhases, Inside
    <3> QED
      BY <2>1, <3>1, <3>2, <3>3, DueMoves DEF AccountsInvariant
  <2>4. FewerHolders(u)
    <3>1. Online(u)' = Online(u) /\ Login(u)' = Login(u) /\ Writing(u)' = Writing(u)
      BY <1>1, <1>3, <2>2
      DEF AccountsInvariant, TypeOK, ClientsSound, Online, Login, Writing, LoginPhases,
          CreditPhases, EditPhases, Inside
    <3>2. /\ Editing(u)' = Editing(u) /\ Crediting(u)' = Crediting(u)
          /\ Loaded(u)' = Loaded(u) /\ Unsaved(u)' = Unsaved(u)
      BY <1>1, <1>3, <2>2
      DEF AccountsInvariant, TypeOK, ClientsSound, Editing, Crediting, Loaded, Unsaved,
          LoginPhases, CreditPhases, EditPhases, Inside
    <3>3. Posing(u)' \subseteq Posing(u)
      BY <1>1
      DEF AccountsInvariant, TypeOK, ClientsSound, Posing, LoginPhases, CreditPhases,
          EditPhases, Inside
    <3> QED
      BY <3>1, <3>2, <3>3, HoldersAreNodes DEF FewerHolders, AccountsInvariant
  <2>5. SameCopies(u) /\ SameCredits(u)
    <3>1. n \notin Login(u) \union Writing(u) \union Editing(u) \union Crediting(u)
      BY <1>1, <1>3, <2>1, <2>2
      DEF AccountsInvariant, TypeOK, ClientsSound, Login, Writing, Editing, Crediting,
          LoginPhases, CreditPhases, EditPhases, Inside
    <3>2. Editing(u)' \subseteq Editing(u) /\ Crediting(u)' \subseteq Crediting(u)
      BY <2>4 DEF FewerHolders
    <3> QED
      BY <1>1, <1>3, <2>1, <2>2, <2>4, <3>1, <3>2, HoldersAreNodes
      DEF AccountsInvariant, TypeOK, Home, FewerHolders, SameCopies, SameCredits
  <2> QED
    BY <2>1, <2>3, <2>4, <2>5, Bystander DEF AccountsInvariant
<1>4. ASSUME NEW u \in Users \ disturbed', user[n] = u
      PROVE  UserSound(u)'
  <2>1. u \in Users \ disturbed
    BY DEF ApplyLent, history
  <2>2. file[u].user_no = u /\ AtHome(u) /\ Edited(u) /\ Lent(u) /\ Pointed(u) /\ Balanced(u)
    BY <2>1 DEF AccountsInvariant, UsersSound, UserSound
  <2>3. /\ \A m \in Home(u) : Home(u) = {m} /\ Editing(u) = {} /\ Loaded(u) = {}
        /\ Login(u) # {} => Crediting(u) = {} /\ Unsaved(u) = {}
        /\ \A m \in Home(u) : \A k \in Crediting(u) : ref[k] = m
        /\ Editing(u) # {} => Crediting(u) = {}
        /\ \A m \in Loaded(u) : Crediting(u) = {m}
    BY <2>1, <2>2, HeldByOne DEF AccountsInvariant
  <2>4. /\ sum[n].in \in Int /\ sum'[n].in = 0 /\ sum[n].out = 0 /\ sum'[n].out = 0
        /\ rec'[n].user_no = rec[n].user_no
        /\ rec[n].account_balance \in Int
        /\ rec'[n].account_balance = rec[n].account_balance + sum[n].in
        /\ \A m \in Nodes \ {n} : rec'[m] = rec[m]
        /\ \A m \in Nodes : rec'[m].user_no = rec[m].user_no
        /\ \A m \in Nodes \ {n} : sum'[m] = sum[m]
    BY <1>1 DEF AccountsInvariant, TypeOK, ClientsSound, NoSum
  <2>5. /\ n \in Crediting(u) /\ n \in Loaded(u)
        /\ Home(u) = {} /\ Login(u) = {} /\ Online(u) = {} /\ Writing(u) = {}
        /\ Crediting(u) = {n} /\ Loaded(u) = {n} /\ Editing(u) = {} /\ Unsaved(u) = {}
        /\ rec[n] = file[u]
    <3>1. n \in Crediting(u) /\ n \in Loaded(u) /\ n \notin Unsaved(u)
      BY <1>1, <1>4 DEF Crediting, CreditPhases, Loaded, Unsaved
    <3>2. Loaded(u) \subseteq Crediting(u) /\ Unsaved(u) \subseteq Crediting(u)
      BY DEF Loaded, Unsaved
    <3> QED
      BY <1>1, <2>2, <2>3, <3>1, <3>2 DEF Lent, Home
  <2>6. rec'[n].user_no = u /\ file[u].account_balance = Due(u)
    BY <2>2, <2>4, <2>5 DEF Balanced
  <2>7. Due(u)' = Due(u) + sum[n].in
    <3>1. \A m \in Nodes \ {n} : Coming(u)'[m] = Coming(u)[m] /\ Going(u)'[m] = Going(u)[m]
      BY <1>1 DEF AccountsInvariant, TypeOK, Coming, Going
    <3>2. /\ Coming(u)[n] = sum[n].in /\ Coming(u)'[n] = 0
          /\ Going(u)'[n] = Going(u)[n]
      BY <1>1, <1>4, <2>4
      DEF AccountsInvariant, TypeOK, ClientsSound, NoSum, Coming, Going, LoginPhases,
          CreditPhases, EditPhases, Inside
    <3>3. /\ Coming(u)[n] \in Int /\ Going(u)[n] \in Int /\ book[u] \in Int
      BY DEF AccountsInvariant, TypeOK, Coming, Going
    <3>4. book'[u] = book[u]
      BY <1>1, <1>4, <2>1, <2>4, <3>3
    <3> QED
      BY <2>1, <2>4, <3>1, <3>2, <3>3, <3>4, DueMoves DEF AccountsInvariant
  <2>8. /\ Online(u)' = Online(u) /\ Login(u)' = Login(u) /\ Writing(u)' = Writing(u)
        /\ Home(u)' = Home(u) /\ Editing(u)' = Editing(u) /\ Crediting(u)' = Crediting(u)
        /\ Loaded(u)' = Loaded(u) /\ Unsaved(u)' = {n}
    <3>1. /\ Online(u)' = Online(u) /\ Login(u)' = Login(u) /\ Writing(u)' = Writing(u)
      BY <1>1, <1>4, <2>4, <2>5
      DEF AccountsInvariant, TypeOK, ClientsSound, Online, Login, Writing, LoginPhases,
          CreditPhases, EditPhases, Inside
    <3>2. Home(u)' = Home(u)
      BY <3>1 DEF Home
    <3>3. /\ Editing(u)' = Editing(u) /\ Crediting(u)' = Crediting(u)
          /\ Loaded(u)' = Loaded(u) /\ Unsaved(u)' = {n}
      BY <1>1, <1>4, <2>4, <2>5
      DEF AccountsInvariant, TypeOK, ClientsSound, Editing, Crediting, Loaded, Unsaved,
          LoginPhases, CreditPhases, EditPhases, Inside
    <3> QED
      BY <3>1, <3>2, <3>3
  <2>9. file'[u].user_no = u /\ AtHome(u)' /\ Edited(u)' /\ Lent(u)'
    <3>1. file'[u].user_no = u /\ AtHome(u)'
      BY <1>1, <1>4, <2>1, <2>2, <2>3, <2>4, <2>5, <2>6, <2>8, HoldersAreNodes
      DEF AccountsInvariant, TypeOK, AtHome, Home, Online
    <3>2. Posing(u)' \subseteq Posing(u)
      BY <1>1
      DEF AccountsInvariant, TypeOK, ClientsSound, Posing, LoginPhases, CreditPhases,
          EditPhases, Inside
    <3>3. Edited(u)'
      BY <1>1, <1>4, <2>1, <2>2, <2>3, <2>4, <2>5, <2>6, <2>8, HoldersAreNodes, <3>2
      DEF AccountsInvariant, TypeOK, Edited
    <3>4. Lent(u)'
      BY <1>1, <1>4, <2>1, <2>2, <2>3, <2>4, <2>5, <2>6, <2>8, HoldersAreNodes
      DEF AccountsInvariant, TypeOK, Lent
    <3> QED
      BY <3>1, <3>3, <3>4
  <2>10. Pointed(u)'
    <3>1. ASSUME NEW k \in Crediting(u)' \ Loaded(u)'
          PROVE  PointedBy(u, k)'
      <4>1. /\ k \in Nodes /\ ref[k] \in Nodes /\ ref[k] # NoNode /\ user[k] = u
            /\ PointedBy(u, k)
        BY <2>1, <2>2, <2>8, HoldersAreNodes DEF AccountsInvariant, Pointed
      <4> QED
        BY <1>1, <1>4, <2>1, <2>3, <2>4, <2>5, <2>6, <2>8, <4>1
        DEF AccountsInvariant, TypeOK, PointedBy
    <3> QED
      BY <3>1 DEF Pointed
  <2>11. Balanced(u)'
    <3>1. /\ \A m \in Online(u)' : info'[m].account_balance = Due(u)'
          /\ \A m \in Login(u)' \union Writing(u)' : rec'[m].account_balance = Due(u)'
      BY <1>1, <1>4, <2>1, <2>2, <2>3, <2>4, <2>5, <2>6, <2>7, <2>8, HoldersAreNodes
      DEF AccountsInvariant, TypeOK, Balanced, Home
    <3>2. ASSUME Home(u)' = {}, NEW k \in Unsaved(u)'
          PROVE  Due(u)' = IF ref'[k] = NoNode THEN rec'[k].account_balance
                                               ELSE info'[ref'[k]].account_balance
      BY <1>1, <1>4, <2>1, <2>2, <2>3, <2>4, <2>5, <2>6, <2>7, <2>8, <3>2, HoldersAreNodes
      DEF AccountsInvariant, TypeOK, Balanced
    <3>3. ASSUME Home(u)' = {}, Unsaved(u)' = {}
          PROVE  file'[u].account_balance = Due(u)'
      BY <2>8, <3>3
    <3> QED
      BY <3>1, <3>2, <3>3 DEF Balanced
  <2> QED
    BY <2>9, <2>10, <2>11 DEF UserSound
<1> QED
  BY <1>2, <1>3, <1>4 DEF UsersSound

\* They go into the node of a user who is or was there, unless he is writing his
\* record just now or the node is another's.
LEMMA ApplyPointedKept ==
  ASSUME AccountsInvariant, TypeOK', NEW n \in Nodes, ApplyPointed(n)
  PROVE  ClientsSound' /\ UsersSound'
<1>1. /\ at[n] = "adding"
      /\ ref[n] # NoNode
      /\ info' = [info EXCEPT ![ref[n]] =
                       [info[ref[n]] EXCEPT !.account_balance = seen[n] + sum[n].in]]
      /\ at' = [at EXCEPT ![n] = "storing"]
      /\ sum' = [sum EXCEPT ![n] = [sum[n] EXCEPT !.in = 0]]
      /\ UNCHANGED <<file, logged, rec, user, ref, book>>
  <2>1. info' = [info EXCEPT ![ref[n]] =
                      [info[ref[n]] EXCEPT !.account_balance = seen[n] + sum[n].in]]
    BY DEF ApplyPointed, SetBalance, AccountsInvariant, TypeOK
  <2>2. sum' = [sum EXCEPT ![n] = [sum[n] EXCEPT !.in = 0]]
    BY DEF ApplyPointed, AccountsInvariant, TypeOK
  <2>3. ref[n] # NoNode
    BY DEF ApplyPointed, Becomes, AccountsInvariant, ClientsSound
  <2> QED
    BY <2>1, <2>2, <2>3, Zenon DEF ApplyPointed, Becomes, ledger
<1>2. ClientsSound'
  <2>1. sum[n].out = 0 /\ sum'[n] = NoSum
    BY <1>1 DEF AccountsInvariant, TypeOK, ClientsSound, NoSum
  <2>2. \A m \in Nodes : rec'[m].user_no = rec[m].user_no /\ info'[m].user_no = info[m].user_no
    BY <1>1 DEF AccountsInvariant, TypeOK
  <2>3. disturbed \subseteq disturbed'
    BY DEF ApplyPointed, Disturbs
  <2>4. /\ at[n] = "adding" /\ at'[n] = "storing" /\ user' = user /\ ref' = ref
        /\ logged' = logged
    BY <1>1 DEF AccountsInvariant, TypeOK
  <2>5. \A m \in Nodes \ {n} : at'[m] = at[m] /\ sum'[m] = sum[m]
    BY <1>1 DEF AccountsInvariant, TypeOK
  <2>6. ASSUME NEW m \in Nodes \ {n}
        PROVE  /\ at'[m] \in Inside => logged'[m]
               /\ logged'[m] => at'[m] \in Inside \union {"off"}
               /\ logged'[m] /\ at'[m] = "off" =>
                    info'[m].user_no \in disturbed' \union {GUEST_USER_NUMBER}
               /\ at'[m] \notin {"charging", "charged", "paying", "deducting", "applying",
                                "adding"} => sum'[m] = NoSum
               /\ at'[m] \in {"charging", "charged"} => sum'[m].in = 0
               /\ at'[m] \in {"applying", "adding"} => sum'[m].out = 0
               /\ at'[m] \in {"adding", "telling"} => ref'[m] # NoNode
    BY <2>2, <2>3, <2>4, <2>5 DEF AccountsInvariant, ClientsSound
  <2>7. ASSUME NEW m \in Nodes \ {n}
        PROVE  /\ at'[m] \in {"filing", "telling"} /\ ref'[m] # NoNode
                        => rec'[m].user_no \in disturbed'
               /\ at'[m] = "entering" => \/ rec'[m].user_no = info'[m].user_no
                                        \/ {rec'[m].user_no, info'[m].user_no} \subseteq disturbed'
               /\ at'[m] \in {"leaving", "copied"} =>
                    \/ user'[m] = info'[m].user_no
                    \/ {user'[m], info'[m].user_no} \subseteq disturbed'
    BY <2>2, <2>3, <2>4, <2>5 DEF AccountsInvariant, ClientsSound
  <2>8. logged[n]
    BY <2>4 DEF AccountsInvariant, ClientsSound, CreditPhases, Inside
  <2> QED
    BY <2>1, <2>4, <2>6, <2>7, <2>8 DEF ClientsSound, CreditPhases, EditPhases, Inside
<1>3. ASSUME NEW u \in Users \ disturbed', ~(user[n] = u)
      PROVE  UserSound(u)'
  <2>1. u \in Users \ disturbed /\ UserSound(u)
    BY DEF ApplyPointed, Disturbs, AccountsInvariant, UsersSound
  <2>2. /\ sum[n].in \in Int /\ sum'[n].in = 0 /\ sum[n].out = 0 /\ sum'[n].out = 0
        /\ info'[ref[n]].user_no = info[ref[n]].user_no
        /\ info'[ref[n]].account_balance \in Int
        /\ \A m \in Nodes \ {ref[n]} : info'[m] = info[m]
        /\ \A m \in Nodes : info'[m].user_no = info[m].user_no
        /\ \A m \in Nodes \ {n} : sum'[m] = sum[m]
    BY <1>1 DEF AccountsInvariant, TypeOK, ClientsSound, NoSum
  <2>3. ref[n] \in Nodes /\ info[ref[n]].user_no # u
    BY <1>1, <1>3, <2>1 DEF ApplyPointed, Disturbs, Misapplied, AccountsInvariant, TypeOK
  <2>4. /\ ref[n] \notin Online(u) \union Writing(u)
        /\ ref[n] \in Login(u) => at[ref[n]] # "entering"
        /\ \A k \in Crediting(u) \ Loaded(u) : ref[k] # ref[n]
    <3>1. ref[n] \notin Online(u) /\ ref[n] \notin Writing(u)
      BY <2>1, <2>3 DEF UserSound, AtHome, Online
    <3>2. ref[n] \in Login(u) => at[ref[n]] # "entering"
      BY <2>1, <2>3 DEF UserSound, AtHome, Login
    <3>3. \A k \in Crediting(u) \ Loaded(u) : ref[k] # ref[n]
      BY <2>1, <2>3 DEF UserSound, Pointed, PointedBy
    <3> QED
      BY <3>1, <3>2, <3>3
  <2>5. Due(u)' = Due(u)
    <3>1. \A m \in Nodes \ {n} : Coming(u)'[m] = Coming(u)[m] /\ Going(u)'[m] = Going(u)[m]
      BY <1>1, <1>3, <2>2, <2>3, <2>4 DEF AccountsInvariant, TypeOK, Coming, Going
    <3>2. Going(u)'[n] = Going(u)[n]
      BY <1>1, <1>3, <2>2, <2>3, <2>4
      DEF AccountsInvariant, TypeOK, ClientsSound, NoSum, Going, LoginPhases, CreditPhases,
          EditPhases
    <3>3. /\ Coming(u)'[n] = Coming(u)[n] /\ book'[u] = book[u]
          /\ Coming(u)[n] \in Int /\ Going(u)[n] \in Int /\ book[u] \in Int
      BY <1>1, <1>3, <2>2, <2>3, <2>4
      DEF AccountsInvariant, TypeOK, ClientsSound, NoSum, Coming, Going, LoginPhases,
          CreditPhases, EditPhases, Inside
    <3> QED
      BY <2>1, <3>1, <3>2, <3>3, DueMoves DEF AccountsInvariant
  <2>6. FewerHolders(u)
    <3>1. Online(u)' = Online(u) /\ Login(u)' = Login(u) /\ Writing(u)' = Writing(u)
      BY <1>1, <1>3, <2>2, <2>3, <2>4
      DEF AccountsInvariant, TypeOK, ClientsSound, Online, Login, Writing, LoginPhases,
          CreditPhases, EditPhases, Inside
    <3>2. /\ Editing(u)' = Editing(u) /\ Crediting(u)' = Crediting(u)
          /\ Loaded(u)' = Loaded(u) /\ Unsaved(u)' = Unsaved(u)
      BY <1>1, <1>3, <2>2, <2>3, <2>4
      DEF AccountsInvariant, TypeOK, ClientsSound, Editing, Crediting, Loaded, Unsaved,
          LoginPhases, CreditPhases, EditPhases, Inside
    <3>3. Posing(u)' \subseteq Posing(u)
      BY <1>1
      DEF AccountsInvariant, TypeOK, ClientsSound, Posing, LoginPhases, CreditPhases,
          EditPhases, Inside
    <3> QED
      BY <3>1, <3>2, <3>3, HoldersAreNodes DEF FewerHolders, AccountsInvariant
  <2>7. SameCopies(u) /\ SameCredits(u)
    <3>1. n \notin Login(u) \union Writing(u) \union Editing(u) \union Crediting(u)
      BY <1>1, <1>3, <2>1, <2>2, <2>3, <2>4
      DEF AccountsInvariant, TypeOK, ClientsSound, Login, Writing, Editing, Crediting,
          LoginPhases, CreditPhases, EditPhases, Inside
    <3>2. Editing(u)' \subseteq Editing(u) /\ Crediting(u)' \subseteq Crediting(u)
      BY <2>6 DEF FewerHolders
    <3> QED
      BY <1>1, <1>3, <2>1, <2>2, <2>3, <2>4, <2>6, <3>1, <3>2, HoldersAreNodes
      DEF AccountsInvariant, TypeOK, Home, FewerHolders, SameCopies, SameCredits
  <2> QED
    BY <2>1, <2>5, <2>6, <2>7, Bystander DEF AccountsInvariant
<1>4. ASSUME NEW u \in Users \ disturbed', user[n] = u
      PROVE  UserSound(u)'
  <2>1. u \in Users \ disturbed
    BY DEF ApplyPointed, Disturbs
  <2>2. file[u].user_no = u /\ AtHome(u) /\ Edited(u) /\ Lent(u) /\ Pointed(u) /\ Balanced(u)
    BY <2>1 DEF AccountsInvariant, UsersSound, UserSound
  <2>3. /\ \A m \in Home(u) : Home(u) = {m} /\ Editing(u) = {} /\ Loaded(u) = {}
        /\ Login(u) # {} => Crediting(u) = {} /\ Unsaved(u) = {}
        /\ \A m \in Home(u) : \A k \in Crediting(u) : ref[k] = m
        /\ Editing(u) # {} => Crediting(u) = {}
        /\ \A m \in Loaded(u) : Crediting(u) = {m}
    BY <2>1, <2>2, HeldByOne DEF AccountsInvariant
  <2>4. /\ sum[n].in \in Int /\ sum'[n].in = 0 /\ sum[n].out = 0 /\ sum'[n].out = 0
        /\ info'[ref[n]].user_no = info[ref[n]].user_no
        /\ info[ref[n]].account_balance \in Int
        /\ info'[ref[n]].account_balance = seen[n] + sum[n].in
        /\ \A m \in Nodes \ {ref[n]} : info'[m] = info[m]
        /\ \A m \in Nodes : info'[m].user_no = info[m].user_no
        /\ \A m \in Nodes \ {n} : sum'[m] = sum[m]
    BY <1>1 DEF AccountsInvariant, TypeOK, ClientsSound, NoSum
  <2>5. /\ n \in Crediting(u) \ Loaded(u) /\ n \notin Unsaved(u) /\ ref[n] \in Nodes
        /\ info[ref[n]].user_no = u /\ Home(u) \subseteq {ref[n]}
        /\ Login(u) = {} /\ Writing(u) = {} /\ at[ref[n]] # "copied"
        /\ Editing(u) = {} /\ Loaded(u) = {}
        /\ \A k \in Crediting(u) : ref[k] = ref[n]
    <3>1. n \in Crediting(u) \ Loaded(u) /\ n \notin Unsaved(u) /\ ref[n] \in Nodes
      BY <1>1, <1>4 DEF AccountsInvariant, TypeOK, Crediting, CreditPhases, Loaded, Unsaved
    <3>2. PointedBy(u, n)
      BY <2>2, <3>1 DEF Pointed
    <3>3. Editing(u) = {} /\ Loaded(u) = {}
      <4>1. Loaded(u) \subseteq Crediting(u)
        BY DEF Loaded
      <4> QED
        BY <2>3, <3>1, <4>1
    <3>4. at[ref[n]] \notin {"copied", "writing"}
      BY <1>4, <2>1, <3>2 DEF ApplyPointed, Disturbs, Misapplied, PointedBy
    <3>5. Writing(u) = {}
      BY <3>2, <3>4 DEF PointedBy, Home, Writing
    <3> QED
      BY <3>1, <3>2, <3>3, <3>4, <3>5 DEF PointedBy
  <2>6. info'[ref[n]].account_balance = info[ref[n]].account_balance + sum[n].in
    <3>1. seen[n] = info[ref[n]].account_balance
      BY <2>1, <2>5 DEF ApplyPointed, Disturbs, Raced
    <3> QED
      BY <2>4, <3>1
  <2>7. Home(u) = {} => info[ref[n]].account_balance = Due(u)
    <3>1. CASE Unsaved(u) = {}
      BY <2>2, <2>5, <3>1 DEF Balanced, Pointed, PointedBy
    <3>2. CASE Unsaved(u) # {}
      <4>1. PICK k \in Unsaved(u) : TRUE
        BY <3>2
      <4>2. k \in Crediting(u) /\ ref[k] = ref[n] /\ ref[k] # NoNode
        BY <1>1, <2>5, <4>1 DEF Unsaved
      <4> QED
        BY <2>2, <4>1, <4>2 DEF Balanced
    <3> QED
      BY <3>1, <3>2
  <2>8. Due(u)' = Due(u) + sum[n].in
    <3>1. \A m \in Nodes \ {n} : Coming(u)'[m] = Coming(u)[m] /\ Going(u)'[m] = Going(u)[m]
      BY <1>1 DEF AccountsInvariant, TypeOK, Coming, Going
    <3>2. /\ Coming(u)[n] = sum[n].in /\ Coming(u)'[n] = 0
          /\ Going(u)'[n] = Going(u)[n]
      BY <1>1, <1>4, <2>4
      DEF AccountsInvariant, TypeOK, ClientsSound, NoSum, Coming, Going, LoginPhases,
          CreditPhases, EditPhases, Inside
    <3>3. /\ Coming(u)[n] \in Int /\ Going(u)[n] \in Int /\ book[u] \in Int
      BY DEF AccountsInvariant, TypeOK, Coming, Going
    <3>4. book'[u] = book[u]
      BY <1>1, <1>4, <2>1, <2>4, <3>3
    <3> QED
      BY <2>1, <2>4, <3>1, <3>2, <3>3, <3>4, DueMoves DEF AccountsInvariant
  <2>9. /\ Online(u)' = Online(u) /\ Login(u)' = Login(u) /\ Writing(u)' = Writing(u)
        /\ Home(u)' = Home(u) /\ Editing(u)' = Editing(u) /\ Crediting(u)' = Crediting(u)
        /\ Loaded(u)' = Loaded(u) /\ Unsaved(u)' = Unsaved(u) \union {n}
    <3>1. /\ Online(u)' = Online(u) /\ Login(u)' = Login(u) /\ Writing(u)' = Writing(u)
      BY <1>1, <1>4, <2>4, <2>5
      DEF AccountsInvariant, TypeOK, ClientsSound, Online, Login, Writing, LoginPhases,
          CreditPhases, EditPhases, Inside
    <3>2. Home(u)' = Home(u)
      BY <3>1 DEF Home
    <3>3. /\ Editing(u)' = Editing(u) /\ Crediting(u)' = Crediting(u)
          /\ Loaded(u)' = Loaded(u) /\ Unsaved(u)' = Unsaved(u) \union {n}
      BY <1>1, <1>4, <2>4, <2>5
      DEF AccountsInvariant, TypeOK, ClientsSound, Editing, Crediting, Loaded, Unsaved,
          LoginPhases, CreditPhases, EditPhases, Inside
    <3> QED
      BY <3>1, <3>2, <3>3
  <2>10. file'[u].user_no = u /\ AtHome(u)' /\ Edited(u)' /\ Lent(u)'
    <3>1. file'[u].user_no = u /\ AtHome(u)'
      BY <1>1, <1>4, <2>1, <2>2, <2>3, <2>4, <2>5, <2>7, <2>9, HoldersAreNodes
      DEF AccountsInvariant, TypeOK, AtHome, Home, Online
    <3>2. Posing(u)' \subseteq Posing(u)
      BY <1>1
      DEF AccountsInvariant, TypeOK, ClientsSound, Posing, LoginPhases, CreditPhases,
          EditPhases, Inside
    <3>3. Edited(u)'
      BY <1>1, <1>4, <2>1, <2>2, <2>3, <2>4, <2>5, <2>7, <2>9, HoldersAreNodes, <3>2
      DEF AccountsInvariant, TypeOK, Edited
    <3>4. Lent(u)'
      BY <1>1, <1>4, <2>1, <2>2, <2>3, <2>4, <2>5, <2>7, <2>9, HoldersAreNodes
      DEF AccountsInvariant, TypeOK, Lent
    <3> QED
      BY <3>1, <3>3, <3>4
  <2>11. Pointed(u)'
    <3>1. ASSUME NEW k \in Crediting(u)' \ Loaded(u)'
          PROVE  PointedBy(u, k)'
      <4>1. /\ k \in Nodes /\ ref[k] \in Nodes /\ ref[k] # NoNode /\ user[k] = u
            /\ PointedBy(u, k)
        BY <2>1, <2>2, <2>9, HoldersAreNodes DEF AccountsInvariant, Pointed
      <4> QED
        BY <1>1, <1>4, <2>1, <2>3, <2>4, <2>5, <2>7, <2>9, <4>1
        DEF AccountsInvariant, TypeOK, PointedBy
    <3> QED
      BY <3>1 DEF Pointed
  <2>12. Balanced(u)'
    <3>1. /\ \A m \in Online(u)' : info'[m].account_balance = Due(u)'
          /\ \A m \in Login(u)' \union Writing(u)' : rec'[m].account_balance = Due(u)'
      BY <1>1, <1>4, <2>1, <2>2, <2>3, <2>4, <2>5, <2>7, <2>8, <2>9, <2>6, HoldersAreNodes
      DEF AccountsInvariant, TypeOK, Balanced, Home
    <3>2. ASSUME Home(u)' = {}, NEW k \in Unsaved(u)'
          PROVE  Due(u)' = IF ref'[k] = NoNode THEN rec'[k].account_balance
                                               ELSE info'[ref'[k]].account_balance
      BY <1>1, <1>4, <2>1, <2>2, <2>3, <2>4, <2>5, <2>7, <2>8, <2>9, <2>6, <3>2, HoldersAreNodes
      DEF AccountsInvariant, TypeOK, Balanced
    <3>3. ASSUME Home(u)' = {}, Unsaved(u)' = {}
          PROVE  file'[u].account_balance = Due(u)'
      BY <2>9, <3>3
    <3> QED
      BY <3>1, <3>2, <3>3 DEF Balanced
  <2> QED
    BY <2>10, <2>11, <2>12 DEF UserSound
<1> QED
  BY <1>2, <1>3, <1>4 DEF UsersSound

\* Saved is what is in the account, unless it was overtaken.
LEMMA SaveUserKept ==
  ASSUME AccountsInvariant, TypeOK', NEW n \in Nodes, SaveUser(n)
  PROVE  ClientsSound' /\ UsersSound'
<1>1. /\ at[n] = "saving"
      /\ file' = [file EXCEPT ![user[n]] = rec[n]]
      /\ at' = [at EXCEPT ![n] = "credit"]
      /\ UNCHANGED <<info, logged, rec, user, ref, sum, book>>
  BY Zenon
  DEF SaveUser, Becomes, shared, hands, ledger, Disturbs, save_user_record, Overtaken,
      AccountsInvariant, TypeOK
<1>2. ClientsSound'
  BY <1>1
  DEF SaveUser, Becomes, shared, hands, ledger, Disturbs, save_user_record, Overtaken,
      AccountsInvariant, TypeOK, ClientsSound, LoginPhases, CreditPhases, EditPhases, Inside
<1>3. ASSUME NEW u \in Users \ disturbed', ~(user[n] = u)
      PROVE  UserSound(u)'
  <2>1. u \in Users \ disturbed /\ UserSound(u)
    BY DEF SaveUser, Becomes, shared, hands, ledger, Disturbs, save_user_record, Overtaken,
           AccountsInvariant, UsersSound
  <2>2. Due(u)' = Due(u)
    BY <1>1 DEF Due, Unbooked, Coming, Going
  <2>3. FewerHolders(u)
    <3>1. Online(u)' = Online(u) /\ Login(u)' = Login(u) /\ Writing(u)' = Writing(u)
      BY <1>1, <1>3
      DEF AccountsInvariant, TypeOK, ClientsSound, Online, Login, Writing, LoginPhases,
          CreditPhases, EditPhases, Inside
    <3>2. /\ Editing(u)' = Editing(u) /\ Crediting(u)' = Crediting(u)
          /\ Loaded(u)' = Loaded(u) /\ Unsaved(u)' = Unsaved(u)
      BY <1>1, <1>3
      DEF AccountsInvariant, TypeOK, ClientsSound, Editing, Crediting, Loaded, Unsaved,
          LoginPhases, CreditPhases, EditPhases, Inside
    <3>3. Posing(u)' \subseteq Posing(u)
      BY <1>1
      DEF AccountsInvariant, TypeOK, ClientsSound, Posing, LoginPhases, CreditPhases,
          EditPhases, Inside
    <3> QED
      BY <3>1, <3>2, <3>3, HoldersAreNodes DEF FewerHolders, AccountsInvariant
  <2>4. SameCopies(u) /\ SameCredits(u)
    <3>1. n \notin Login(u) \union Writing(u) \union Editing(u) \union Crediting(u)
      BY <1>1, <1>3, <2>1
      DEF AccountsInvariant, TypeOK, ClientsSound, Login, Writing, Editing, Crediting,
          LoginPhases, CreditPhases, EditPhases, Inside
    <3>2. Editing(u)' \subseteq Editing(u) /\ Crediting(u)' \subseteq Crediting(u)
      BY <2>3 DEF FewerHolders
    <3> QED
      BY <1>1, <1>3, <2>1, <2>3, <3>1, <3>2, HoldersAreNodes
      DEF AccountsInvariant, TypeOK, Home, FewerHolders, SameCopies, SameCredits
  <2> QED
    BY <2>1, <2>2, <2>3, <2>4, Bystander DEF AccountsInvariant
<1>4. ASSUME NEW u \in Users \ disturbed', user[n] = u
      PROVE  UserSound(u)'
  <2>1. u \in Users \ disturbed
    BY DEF SaveUser, Becomes, shared, hands, ledger, Disturbs, save_user_record, Overtaken
  <2>2. file[u].user_no = u /\ AtHome(u) /\ Edited(u) /\ Lent(u) /\ Pointed(u) /\ Balanced(u)
    BY <2>1 DEF AccountsInvariant, UsersSound, UserSound
  <2>3. /\ \A m \in Home(u) : Home(u) = {m} /\ Editing(u) = {} /\ Loaded(u) = {}
        /\ Login(u) # {} => Crediting(u) = {} /\ Unsaved(u) = {}
        /\ \A m \in Home(u) : \A k \in Crediting(u) : ref[k] = m
        /\ Editing(u) # {} => Crediting(u) = {}
        /\ \A m \in Loaded(u) : Crediting(u) = {m}
    BY <2>1, <2>2, HeldByOne DEF AccountsInvariant
  <2>4. /\ n \in Crediting(u) /\ n \in Unsaved(u) /\ Login(u) = {} /\ Editing(u) = {}
        /\ rec[n].user_no = u /\ (ref[n] = NoNode <=> n \in Loaded(u))
    <3>1. n \in Crediting(u) /\ n \in Unsaved(u) /\ (ref[n] = NoNode <=> n \in Loaded(u))
      BY <1>1, <1>4 DEF Crediting, CreditPhases, Loaded, Unsaved
    <3>2. rec[n].user_no = u
      BY <1>1, <2>2, <3>1 DEF Lent, Pointed, PointedBy
    <3> QED
      BY <2>3, <3>1, <3>2
  <2>5. Home(u) = {} => /\ ref[n] = NoNode \/ rec[n] = info[ref[n]]
                       /\ rec[n].account_balance = Due(u)
    <3>1. Home(u) = {} => ref[n] = NoNode \/ rec[n] = info[ref[n]]
      BY <1>4 DEF SaveUser, Disturbs, Overtaken, Home
    <3> QED
      BY <2>2, <2>4, <3>1 DEF Balanced
  <2>6. file'[u] = rec[n] /\ \A k \in Loaded(u) : k = n
    <3>1. Loaded(u) \subseteq Crediting(u)
      BY DEF Loaded
    <3> QED
      BY <1>1, <1>4, <2>1, <2>3, <2>4, <3>1 DEF AccountsInvariant, TypeOK
  <2>7. Due(u)' = Due(u)
    BY <1>1 DEF Due, Unbooked, Coming, Going
  <2>8. /\ Online(u)' = Online(u) /\ Login(u)' = Login(u) /\ Writing(u)' = Writing(u)
        /\ Home(u)' = Home(u) /\ Editing(u)' = Editing(u) /\ Crediting(u)' = Crediting(u)
        /\ Loaded(u)' = Loaded(u) /\ Unsaved(u)' = Unsaved(u) \ {n} /\ n \notin Login(u)
        /\ n \notin Writing(u) /\ n \notin Editing(u)
    <3>1. /\ Online(u)' = Online(u) /\ Login(u)' = Login(u) /\ Writing(u)' = Writing(u)
          /\ n \notin Login(u) /\ n \notin Writing(u)
      BY <1>1, <1>4, <2>4
      DEF AccountsInvariant, TypeOK, ClientsSound, Online, Login, Writing, LoginPhases,
          CreditPhases, EditPhases, Inside
    <3>2. Home(u)' = Home(u)
      BY <3>1 DEF Home
    <3>3. /\ Editing(u)' = Editing(u) /\ Crediting(u)' = Crediting(u)
          /\ Loaded(u)' = Loaded(u) /\ Unsaved(u)' = Unsaved(u) \ {n} /\ n \notin Editing(u)
      BY <1>1, <1>4, <2>4
      DEF AccountsInvariant, TypeOK, ClientsSound, Editing, Crediting, Loaded, Unsaved,
          LoginPhases, CreditPhases, EditPhases, Inside
    <3> QED
      BY <3>1, <3>2, <3>3
  <2>9. file'[u].user_no = u /\ AtHome(u)' /\ Edited(u)' /\ Lent(u)'
    <3>1. file'[u].user_no = u /\ AtHome(u)'
      BY <1>1, <1>4, <2>1, <2>2, <2>3, <2>4, <2>5, <2>6, <2>8, HoldersAreNodes
      DEF AccountsInvariant, TypeOK, AtHome, Home, Online
    <3>2. Posing(u)' \subseteq Posing(u)
      BY <1>1
      DEF AccountsInvariant, TypeOK, ClientsSound, Posing, LoginPhases, CreditPhases,
          EditPhases, Inside
    <3>3. Edited(u)'
      BY <1>1, <1>4, <2>1, <2>2, <2>3, <2>4, <2>5, <2>6, <2>8, HoldersAreNodes, <3>2
      DEF AccountsInvariant, TypeOK, Edited
    <3>4. Lent(u)'
      BY <1>1, <1>4, <2>1, <2>2, <2>3, <2>4, <2>5, <2>6, <2>8, HoldersAreNodes
      DEF AccountsInvariant, TypeOK, Lent
    <3> QED
      BY <3>1, <3>3, <3>4
  <2>10. Pointed(u)'
    <3>1. ASSUME NEW k \in Crediting(u)' \ Loaded(u)'
          PROVE  PointedBy(u, k)'
      <4>1. /\ k \in Nodes /\ ref[k] \in Nodes /\ ref[k] # NoNode /\ user[k] = u
            /\ PointedBy(u, k)
        BY <2>1, <2>2, <2>8, HoldersAreNodes DEF AccountsInvariant, Pointed
      <4> QED
        BY <1>1, <1>4, <2>1, <2>3, <2>4, <2>5, <2>6, <2>8, <4>1
        DEF AccountsInvariant, TypeOK, PointedBy
    <3> QED
      BY <3>1 DEF Pointed
  <2>11. Balanced(u)'
    <3>1. /\ \A m \in Online(u)' : info'[m].account_balance = Due(u)'
          /\ \A m \in Login(u)' \union Writing(u)' : rec'[m].account_balance = Due(u)'
      BY <1>1, <1>4, <2>1, <2>2, <2>3, <2>4, <2>5, <2>6, <2>7, <2>8, HoldersAreNodes
      DEF AccountsInvariant, TypeOK, Balanced, Home
    <3>2. ASSUME Home(u)' = {}, NEW k \in Unsaved(u)'
          PROVE  Due(u)' = IF ref'[k] = NoNode THEN rec'[k].account_balance
                                               ELSE info'[ref'[k]].account_balance
      BY <1>1, <1>4, <2>1, <2>2, <2>3, <2>4, <2>5, <2>6, <2>7, <2>8, <3>2, HoldersAreNodes
      DEF AccountsInvariant, TypeOK, Balanced
    <3>3. ASSUME Home(u)' = {}, Unsaved(u)' = {}
          PROVE  file'[u].account_balance = Due(u)'
      BY <1>1, <1>4, <2>1, <2>2, <2>3, <2>4, <2>5, <2>6, <2>7, <2>8, <3>3, HoldersAreNodes
      DEF AccountsInvariant, TypeOK, Balanced
    <3> QED
      BY <3>1, <3>2, <3>3 DEF Balanced
  <2> QED
    BY <2>9, <2>10, <2>11 DEF UserSound
<1> QED
  BY <1>2, <1>3, <1>4 DEF UsersSound

\* Whoever is cut off with something owed, or not saved, disturbs the users concerned.
LEMMA SaveStartsKept ==
  ASSUME AccountsInvariant, TypeOK', NEW n \in Nodes, SaveStarts(n)
  PROVE  ClientsSound' /\ UsersSound'
<1>1. /\ logged[n]
      /\ at' = [at EXCEPT ![n] = "leaving"]
      /\ user' = [user EXCEPT ![n] = info[n].user_no]
      /\ sum' = [sum EXCEPT ![n] = NoSum]
      /\ UNCHANGED <<file, info, logged, rec, ref, book>>
  BY Zenon DEF SaveStarts, Becomes, shared, hands, ledger, Disturbs, Cut, AccountsInvariant, TypeOK
<1>2. ClientsSound'
  <2>1. at'[n] = "leaving" /\ user'[n] = info[n].user_no /\ sum'[n] = NoSum /\ logged[n]
    BY <1>1 DEF AccountsInvariant, TypeOK
  <2>2. \A m \in Nodes \ {n} : at'[m] = at[m] /\ user'[m] = user[m] /\ sum'[m] = sum[m]
    BY <1>1 DEF AccountsInvariant, TypeOK
  <2>3. disturbed \subseteq disturbed' /\ UNCHANGED <<info, logged, rec, ref>>
    BY <1>1 DEF SaveStarts, Disturbs
  <2> QED
    BY <2>1, <2>2, <2>3 DEF AccountsInvariant, ClientsSound, CreditPhases, EditPhases, Inside
<1>3. ASSUME NEW u \in Users \ disturbed'
      PROVE  UserSound(u)'
  <2>1. u \in Users \ disturbed
    BY DEF SaveStarts, Becomes, shared, hands, ledger, Disturbs, Cut
  <2>2. file[u].user_no = u /\ AtHome(u) /\ Edited(u) /\ Lent(u) /\ Pointed(u) /\ Balanced(u)
    BY <2>1 DEF AccountsInvariant, UsersSound, UserSound
  <2>3. /\ \A m \in Home(u) : Home(u) = {m} /\ Editing(u) = {} /\ Loaded(u) = {}
        /\ Login(u) # {} => Crediting(u) = {} /\ Unsaved(u) = {}
        /\ \A m \in Home(u) : \A k \in Crediting(u) : ref[k] = m
        /\ Editing(u) # {} => Crediting(u) = {}
        /\ \A m \in Loaded(u) : Crediting(u) = {m}
    BY <2>1, <2>2, HeldByOne DEF AccountsInvariant
  <2>4. /\ u \notin Cut(n)
        /\ sum[n] \in [out : Nat, in : Nat] /\ sum'[n].out = 0 /\ sum'[n].in = 0
        /\ \A m \in Nodes \ {n} : at'[m] = at[m] /\ user'[m] = user[m] /\ sum'[m] = sum[m]
    BY <1>1 DEF SaveStarts, Disturbs, AccountsInvariant, TypeOK, NoSum
  <2>5. /\ user[n] = u => sum[n].in = 0
        /\ info[n].user_no = u => sum[n].out = 0 /\ at[n] # "posing"
    <3> DEFINE Owing == {"charging", "charged", "paying", "deducting", "applying", "adding"}
    <3>1. CASE at[n] \in Owing
      BY <2>4, <3>1 DEF Cut, LoginPhases
    <3>2. CASE at[n] \notin Owing
      <4>1. sum[n] = NoSum
        BY <3>2 DEF AccountsInvariant, ClientsSound
      <4>2. at[n] = "posing" => info[n].user_no # u
        BY <2>4 DEF Cut, LoginPhases
      <4> QED
        BY <4>1, <4>2 DEF NoSum
    <3> QED
      BY <3>1, <3>2
  <2>6. n \in Unsaved(u) => Online(u) # {}
    BY <2>4 DEF Cut, LoginPhases, Unsaved, Crediting
  <2>7. Home(u) = {} => Unsaved(u) \ {n} = Unsaved(u)
    BY <2>6 DEF Home
  <2>8. Due(u)' = Due(u)
    <3>1. \A m \in Nodes \ {n} : Coming(u)'[m] = Coming(u)[m] /\ Going(u)'[m] = Going(u)[m]
      BY <1>1, <2>4 DEF AccountsInvariant, TypeOK, Coming, Going
    <3>2. Coming(u)[n] = 0 /\ Coming(u)'[n] = 0 /\ Going(u)[n] = 0 /\ Going(u)'[n] = 0
      BY <1>1, <2>4, <2>5 DEF Coming, Going
    <3>3. book'[u] = book[u] /\ book[u] \in Int
      BY <1>1, <2>1 DEF AccountsInvariant, TypeOK
    <3> QED
      BY <2>1, <3>1, <3>2, <3>3, DueMoves DEF AccountsInvariant
  <2>9. /\ Online(u)' = Online(u) /\ Login(u)' = Login(u) /\ Writing(u)' = Writing(u)
        /\ Home(u)' = Home(u) /\ Editing(u)' = Editing(u) \ {n}
        /\ Crediting(u)' = Crediting(u) \ {n} /\ Loaded(u)' = Loaded(u) \ {n}
        /\ Unsaved(u)' = Unsaved(u) \ {n} /\ n \notin Login(u) /\ n \notin Writing(u)
    <3>1. Online(u)' = Online(u)
      BY <1>1, <2>4, <2>5
      DEF AccountsInvariant, TypeOK, ClientsSound, Online, LoginPhases, CreditPhases,
          EditPhases, Inside
    <3>2. Login(u)' = Login(u)
      BY <1>1, <2>4
      DEF AccountsInvariant, TypeOK, ClientsSound, Login, LoginPhases, CreditPhases,
          EditPhases, Inside
    <3>3. Writing(u)' = Writing(u)
      BY <1>1, <2>4
      DEF AccountsInvariant, TypeOK, ClientsSound, Writing, LoginPhases, CreditPhases,
          EditPhases, Inside
    <3>4. Home(u)' = Home(u)
      BY <3>1, <3>2, <3>3 DEF Home
    <3>5. Editing(u)' = Editing(u) \ {n}
      BY <1>1, <2>4
      DEF AccountsInvariant, TypeOK, ClientsSound, Editing, LoginPhases, CreditPhases,
          EditPhases
    <3>6. Crediting(u)' = Crediting(u) \ {n}
      BY <1>1, <2>4
      DEF AccountsInvariant, TypeOK, ClientsSound, Crediting, LoginPhases, CreditPhases,
          EditPhases
    <3>7. Loaded(u)' = Loaded(u) \ {n}
      BY <1>1, <2>4
      DEF AccountsInvariant, TypeOK, ClientsSound, Loaded, Crediting, LoginPhases,
          CreditPhases, EditPhases, Inside
    <3>8. Unsaved(u)' = Unsaved(u) \ {n}
      BY <1>1, <2>4
      DEF AccountsInvariant, TypeOK, ClientsSound, Unsaved, Crediting, LoginPhases,
          CreditPhases, EditPhases, Inside
    <3>9. n \notin Login(u)
      BY <1>1, <2>4
      DEF AccountsInvariant, TypeOK, ClientsSound, Login, LoginPhases, CreditPhases,
          EditPhases, Inside
    <3>10. n \notin Writing(u)
      BY <1>1, <2>4
      DEF AccountsInvariant, TypeOK, ClientsSound, Writing, LoginPhases, CreditPhases,
          EditPhases, Inside
    <3> QED
      BY <3>1, <3>2, <3>3, <3>4, <3>5, <3>6, <3>7, <3>8, <3>9, <3>10
  <2>10. file'[u].user_no = u /\ AtHome(u)' /\ Edited(u)' /\ Lent(u)'
    <3>1. file'[u].user_no = u /\ AtHome(u)'
      BY <1>1, <2>1, <2>2, <2>3, <2>4, <2>5, <2>7, <2>9, HoldersAreNodes
      DEF AccountsInvariant, TypeOK, AtHome, Home, Online
    <3>2. Posing(u)' \subseteq Posing(u)
      BY <1>1
      DEF AccountsInvariant, TypeOK, ClientsSound, Posing, LoginPhases, CreditPhases,
          EditPhases, Inside
    <3>3. Edited(u)'
      BY <1>1, <2>1, <2>2, <2>3, <2>4, <2>5, <2>7, <2>9, HoldersAreNodes, <3>2
      DEF AccountsInvariant, TypeOK, Edited
    <3>4. Lent(u)'
      BY <1>1, <2>1, <2>2, <2>3, <2>4, <2>5, <2>7, <2>9, HoldersAreNodes
      DEF AccountsInvariant, TypeOK, Lent
    <3> QED
      BY <3>1, <3>3, <3>4
  <2>11. Pointed(u)'
    <3>1. ASSUME NEW k \in Crediting(u)' \ Loaded(u)'
          PROVE  PointedBy(u, k)'
      <4>1. /\ k \in Nodes /\ ref[k] \in Nodes /\ ref[k] # NoNode /\ user[k] = u
            /\ PointedBy(u, k)
        BY <2>1, <2>2, <2>9, HoldersAreNodes DEF AccountsInvariant, Pointed
      <4> QED
        BY <1>1, <2>1, <2>3, <2>4, <2>5, <2>7, <2>9, <4>1
        DEF AccountsInvariant, TypeOK, PointedBy
    <3> QED
      BY <3>1 DEF Pointed
  <2>12. Balanced(u)'
    <3>1. /\ \A m \in Online(u)' : info'[m].account_balance = Due(u)'
          /\ \A m \in Login(u)' \union Writing(u)' : rec'[m].account_balance = Due(u)'
      BY <1>1, <2>1, <2>2, <2>3, <2>4, <2>5, <2>7, <2>8, <2>9, HoldersAreNodes
      DEF AccountsInvariant, TypeOK, Balanced, Home
    <3>2. ASSUME Home(u)' = {}, NEW k \in Unsaved(u)'
          PROVE  Due(u)' = IF ref'[k] = NoNode THEN rec'[k].account_balance
                                               ELSE info'[ref'[k]].account_balance
      BY <1>1, <2>1, <2>2, <2>3, <2>4, <2>5, <2>7, <2>8, <2>9, <3>2, HoldersAreNodes
      DEF AccountsInvariant, TypeOK, Balanced
    <3>3. ASSUME Home(u)' = {}, Unsaved(u)' = {}
          PROVE  file'[u].account_balance = Due(u)'
      BY <1>1, <2>1, <2>2, <2>3, <2>4, <2>5, <2>7, <2>8, <2>9, <3>3, HoldersAreNodes
      DEF AccountsInvariant, TypeOK, Balanced
    <3> QED
      BY <3>1, <3>2, <3>3 DEF Balanced
  <2> QED
    BY <2>10, <2>11, <2>12 DEF UserSound
<1> QED
  BY <1>2, <1>3 DEF UsersSound
\* A guest too.
LEMMA GuestLeavesKept ==
  ASSUME AccountsInvariant, TypeOK', NEW n \in Nodes, GuestLeaves(n)
  PROVE  ClientsSound' /\ UsersSound'
<1>1. /\ logged[n] /\ info[n].user_no = GUEST_USER_NUMBER
      /\ at' = [at EXCEPT ![n] = "off"]
      /\ sum' = [sum EXCEPT ![n] = NoSum]
      /\ UNCHANGED <<file, info, logged, rec, user, ref, book>>
  BY Zenon DEF GuestLeaves, Becomes, shared, hands, ledger, Disturbs, Cut, AccountsInvariant, TypeOK
<1>2. ClientsSound'
  <2>1. at'[n] = "off" /\ sum'[n] = NoSum /\ info[n].user_no = GUEST_USER_NUMBER
    BY <1>1 DEF AccountsInvariant, TypeOK
  <2>2. \A m \in Nodes \ {n} : at'[m] = at[m] /\ user'[m] = user[m] /\ sum'[m] = sum[m]
    BY <1>1 DEF AccountsInvariant, TypeOK
  <2>3. disturbed \subseteq disturbed' /\ UNCHANGED <<info, logged, rec, ref>>
    BY <1>1 DEF GuestLeaves, Disturbs
  <2> QED
    BY <2>1, <2>2, <2>3 DEF AccountsInvariant, ClientsSound, CreditPhases, EditPhases, Inside
<1>3. ASSUME NEW u \in Users \ disturbed'
      PROVE  UserSound(u)'
  <2>1. u \in Users \ disturbed
    BY DEF GuestLeaves, Becomes, shared, hands, ledger, Disturbs, Cut
  <2>2. file[u].user_no = u /\ AtHome(u) /\ Edited(u) /\ Lent(u) /\ Pointed(u) /\ Balanced(u)
    BY <2>1 DEF AccountsInvariant, UsersSound, UserSound
  <2>3. /\ \A m \in Home(u) : Home(u) = {m} /\ Editing(u) = {} /\ Loaded(u) = {}
        /\ Login(u) # {} => Crediting(u) = {} /\ Unsaved(u) = {}
        /\ \A m \in Home(u) : \A k \in Crediting(u) : ref[k] = m
        /\ Editing(u) # {} => Crediting(u) = {}
        /\ \A m \in Loaded(u) : Crediting(u) = {m}
    BY <2>1, <2>2, HeldByOne DEF AccountsInvariant
  <2>4. /\ u \notin Cut(n)
        /\ sum[n] \in [out : Nat, in : Nat] /\ sum'[n].out = 0 /\ sum'[n].in = 0
        /\ \A m \in Nodes \ {n} : at'[m] = at[m] /\ user'[m] = user[m] /\ sum'[m] = sum[m]
    BY <1>1 DEF GuestLeaves, Disturbs, AccountsInvariant, TypeOK, NoSum
  <2>5. /\ user[n] = u => sum[n].in = 0
        /\ info[n].user_no = u => sum[n].out = 0 /\ at[n] # "posing"
    <3> DEFINE Owing == {"charging", "charged", "paying", "deducting", "applying", "adding"}
    <3>1. CASE at[n] \in Owing
      BY <2>4, <3>1 DEF Cut, LoginPhases
    <3>2. CASE at[n] \notin Owing
      <4>1. sum[n] = NoSum
        BY <3>2 DEF AccountsInvariant, ClientsSound
      <4>2. at[n] = "posing" => info[n].user_no # u
        BY <2>4 DEF Cut, LoginPhases
      <4> QED
        BY <4>1, <4>2 DEF NoSum
    <3> QED
      BY <3>1, <3>2
  <2>6. n \in Unsaved(u) => Online(u) # {}
    BY <2>4 DEF Cut, LoginPhases, Unsaved, Crediting
  <2>7. Home(u) = {} => Unsaved(u) \ {n} = Unsaved(u)
    BY <2>6 DEF Home
  <2>8. Due(u)' = Due(u)
    <3>1. \A m \in Nodes \ {n} : Coming(u)'[m] = Coming(u)[m] /\ Going(u)'[m] = Going(u)[m]
      BY <1>1, <2>4 DEF AccountsInvariant, TypeOK, Coming, Going
    <3>2. Coming(u)[n] = 0 /\ Coming(u)'[n] = 0 /\ Going(u)[n] = 0 /\ Going(u)'[n] = 0
      BY <1>1, <2>4, <2>5 DEF Coming, Going
    <3>3. book'[u] = book[u] /\ book[u] \in Int
      BY <1>1, <2>1 DEF AccountsInvariant, TypeOK
    <3> QED
      BY <2>1, <3>1, <3>2, <3>3, DueMoves DEF AccountsInvariant
  <2>9. /\ Online(u)' = Online(u) /\ Login(u)' = Login(u) /\ Writing(u)' = Writing(u)
        /\ Home(u)' = Home(u) /\ Editing(u)' = Editing(u) \ {n}
        /\ Crediting(u)' = Crediting(u) \ {n} /\ Loaded(u)' = Loaded(u) \ {n}
        /\ Unsaved(u)' = Unsaved(u) \ {n} /\ n \notin Login(u) /\ n \notin Writing(u)
    <3>1. Online(u)' = Online(u)
      BY <1>1, <2>4, <2>5
      DEF AccountsInvariant, TypeOK, ClientsSound, Online, LoginPhases, CreditPhases,
          EditPhases, Inside
    <3>2. Login(u)' = Login(u)
      BY <1>1, <2>4
      DEF AccountsInvariant, TypeOK, ClientsSound, Login, LoginPhases, CreditPhases,
          EditPhases, Inside
    <3>3. Writing(u)' = Writing(u)
      BY <1>1, <2>4
      DEF AccountsInvariant, TypeOK, ClientsSound, Writing, LoginPhases, CreditPhases,
          EditPhases, Inside
    <3>4. Home(u)' = Home(u)
      BY <3>1, <3>2, <3>3 DEF Home
    <3>5. Editing(u)' = Editing(u) \ {n}
      BY <1>1, <2>4
      DEF AccountsInvariant, TypeOK, ClientsSound, Editing, LoginPhases, CreditPhases,
          EditPhases
    <3>6. Crediting(u)' = Crediting(u) \ {n}
      BY <1>1, <2>4
      DEF AccountsInvariant, TypeOK, ClientsSound, Crediting, LoginPhases, CreditPhases,
          EditPhases
    <3>7. Loaded(u)' = Loaded(u) \ {n}
      BY <1>1, <2>4
      DEF AccountsInvariant, TypeOK, ClientsSound, Loaded, Crediting, LoginPhases,
          CreditPhases, EditPhases, Inside
    <3>8. Unsaved(u)' = Unsaved(u) \ {n}
      BY <1>1, <2>4
      DEF AccountsInvariant, TypeOK, ClientsSound, Unsaved, Crediting, LoginPhases,
          CreditPhases, EditPhases, Inside
    <3>9. n \notin Login(u)
      BY <1>1, <2>4
      DEF AccountsInvariant, TypeOK, ClientsSound, Login, LoginPhases, CreditPhases,
          EditPhases, Inside
    <3>10. n \notin Writing(u)
      BY <1>1, <2>4
      DEF AccountsInvariant, TypeOK, ClientsSound, Writing, LoginPhases, CreditPhases,
          EditPhases, Inside
    <3> QED
      BY <3>1, <3>2, <3>3, <3>4, <3>5, <3>6, <3>7, <3>8, <3>9, <3>10
  <2>10. file'[u].user_no = u /\ AtHome(u)' /\ Edited(u)' /\ Lent(u)'
    <3>1. file'[u].user_no = u /\ AtHome(u)'
      BY <1>1, <2>1, <2>2, <2>3, <2>4, <2>5, <2>7, <2>9, HoldersAreNodes
      DEF AccountsInvariant, TypeOK, AtHome, Home, Online
    <3>2. Posing(u)' \subseteq Posing(u)
      BY <1>1
      DEF AccountsInvariant, TypeOK, ClientsSound, Posing, LoginPhases, CreditPhases,
          EditPhases, Inside
    <3>3. Edited(u)'
      BY <1>1, <2>1, <2>2, <2>3, <2>4, <2>5, <2>7, <2>9, HoldersAreNodes, <3>2
      DEF AccountsInvariant, TypeOK, Edited
    <3>4. Lent(u)'
      BY <1>1, <2>1, <2>2, <2>3, <2>4, <2>5, <2>7, <2>9, HoldersAreNodes
      DEF AccountsInvariant, TypeOK, Lent
    <3> QED
      BY <3>1, <3>3, <3>4
  <2>11. Pointed(u)'
    <3>1. ASSUME NEW k \in Crediting(u)' \ Loaded(u)'
          PROVE  PointedBy(u, k)'
      <4>1. /\ k \in Nodes /\ ref[k] \in Nodes /\ ref[k] # NoNode /\ user[k] = u
            /\ PointedBy(u, k)
        BY <2>1, <2>2, <2>9, HoldersAreNodes DEF AccountsInvariant, Pointed
      <4> QED
        BY <1>1, <2>1, <2>3, <2>4, <2>5, <2>7, <2>9, <4>1
        DEF AccountsInvariant, TypeOK, PointedBy
    <3> QED
      BY <3>1 DEF Pointed
  <2>12. Balanced(u)'
    <3>1. /\ \A m \in Online(u)' : info'[m].account_balance = Due(u)'
          /\ \A m \in Login(u)' \union Writing(u)' : rec'[m].account_balance = Due(u)'
      BY <1>1, <2>1, <2>2, <2>3, <2>4, <2>5, <2>7, <2>8, <2>9, HoldersAreNodes
      DEF AccountsInvariant, TypeOK, Balanced, Home
    <3>2. ASSUME Home(u)' = {}, NEW k \in Unsaved(u)'
          PROVE  Due(u)' = IF ref'[k] = NoNode THEN rec'[k].account_balance
                                               ELSE info'[ref'[k]].account_balance
      BY <1>1, <2>1, <2>2, <2>3, <2>4, <2>5, <2>7, <2>8, <2>9, <3>2, HoldersAreNodes
      DEF AccountsInvariant, TypeOK, Balanced
    <3>3. ASSUME Home(u)' = {}, Unsaved(u)' = {}
          PROVE  file'[u].account_balance = Due(u)'
      BY <1>1, <2>1, <2>2, <2>3, <2>4, <2>5, <2>7, <2>8, <2>9, <3>3, HoldersAreNodes
      DEF AccountsInvariant, TypeOK, Balanced
    <3> QED
      BY <3>1, <3>2, <3>3 DEF Balanced
  <2> QED
    BY <2>10, <2>11, <2>12 DEF UserSound
<1> QED
  BY <1>2, <1>3 DEF UsersSound

-----------------------------------------------------------------------------
(* Every state is of the right type.                                       *)

LEMMA OnlineIsNode ==
  TypeOK => \A u \in Users \union {GUEST_USER_NUMBER} :
              is_user_online(u) \in Nodes \union {NoNode}
BY WhoIsFound

\* What is entered in bank.log is a number.
LEMMA EntersTyped ==
  ASSUME TypeOK, NEW p, NEW u, NEW out \in Int, NEW in \in Int, Enters(p, out, u, in)
  PROVE  book' \in [Users -> Int] /\ moves' \in 0 .. MaxMoves
<1>1. \A v \in Users : book[v] - (IF v = p THEN out ELSE 0) + (IF v = u THEN in ELSE 0) \in Int
  BY DEF TypeOK
<1>2. book' \in [Users -> Int]
  BY <1>1 DEF Enters
<1>3. moves' \in 0 .. MaxMoves
  BY AccountsAssumption DEF Enters, TypeOK
<1> QED
  BY <1>2, <1>3

\* A record is one whatever the balance.
LEMMA Rebalanced ==
  ASSUME NEW S, NEW r \in [user_no : S, account_balance : Int], NEW b \in Int
  PROVE  [r EXCEPT !.account_balance = b] \in [user_no : S, account_balance : Int]
OBVIOUS

LEMMA TypeKept ==
  ASSUME AccountsInvariant, NEW n \in Nodes, Client(n)
  PROVE  TypeOK'
<1> DEFINE Records == [user_no : Users \union {GUEST_USER_NUMBER}, account_balance : Int]
<1> USE DEF Becomes, shared, hands, ledger, history, LoginPhases, CreditPhases, EditPhases,
            Inside, Disturbs
<1>1. TypeOK /\ Amounts \subseteq Nat
  BY AccountsAssumption DEF AccountsInvariant
<1>2. ASSUME NEW u \in Users, ReadRecord(n, u) PROVE TypeOK'
  BY <1>1, <1>2, OnlineIsNode DEF TypeOK, ReadRecord, Reads, read_user_record, Shared
<1>3. ASSUME NEW u \in Users, LookForUser(n, u) PROVE TypeOK'
  BY <1>1, <1>3, OnlineIsNode DEF TypeOK, LookForUser, Shared
<1>4. ASSUME NEW u \in Users, EditUser(n, u) PROVE TypeOK'
  BY <1>1, <1>4, OnlineIsNode DEF TypeOK, EditUser, Reads, read_user_record, Shared
<1>5. ASSUME NEW a \in Amounts, PayWage(n, a) PROVE TypeOK'
  <2>1. book' \in [Users -> Int] /\ moves' \in 0 .. MaxMoves
    BY <1>1, <1>5, EntersTyped DEF PayWage
  <2>2. a \in Int /\ rec[n].account_balance + a \in Int
    BY <1>1 DEF TypeOK
  <2>3. rec' \in [Nodes -> Records]
    <3>1. rec' = [rec EXCEPT ![n] =
                       [rec[n] EXCEPT !.account_balance = rec[n].account_balance + a]]
      BY <1>1, <1>5 DEF TypeOK, PayWage, Book
    <3>2. [rec[n] EXCEPT !.account_balance = rec[n].account_balance + a]
            \in Records
      <4>1. rec[n] \in Records
        BY <1>1 DEF TypeOK
      <4> QED
        BY <4>1, <2>2, Rebalanced
    <3> QED
      BY <1>1, <3>1, <3>2 DEF TypeOK
  <2> QED
    BY <1>1, <1>5, <2>1, <2>3 DEF TypeOK, PayWage
<1>6. ASSUME NEW a \in Amounts, PurchaseAtLogin(n, a) PROVE TypeOK'
  <2>1. book' \in [Users -> Int] /\ moves' \in 0 .. MaxMoves
    BY <1>1, <1>6, EntersTyped DEF PurchaseAtLogin
  <2>2. -a \in Int /\ rec[n].account_balance + -a \in Int
    BY <1>1 DEF TypeOK
  <2>3. rec' \in [Nodes -> Records]
    <3>1. rec' = [rec EXCEPT ![n] =
                       [rec[n] EXCEPT !.account_balance = rec[n].account_balance + -a]]
      BY <1>1, <1>6 DEF TypeOK, PurchaseAtLogin, Book
    <3>2. [rec[n] EXCEPT !.account_balance = rec[n].account_balance + -a]
            \in Records
      <4>1. rec[n] \in Records
        BY <1>1 DEF TypeOK
      <4> QED
        BY <4>1, <2>2, Rebalanced
    <3> QED
      BY <1>1, <3>1, <3>2 DEF TypeOK
  <2> QED
    BY <1>1, <1>6, <2>1, <2>3 DEF TypeOK, PurchaseAtLogin
<1>7. ASSUME NEW a \in Amounts, Purchase(n, a) PROVE TypeOK'
  <2>1. book' \in [Users -> Int] /\ moves' \in 0 .. MaxMoves
    BY <1>1, <1>7, EntersTyped DEF Purchase
  <2> QED
    BY <1>1, <1>7, <2>1 DEF TypeOK, Purchase, Book
<1>8. ASSUME NEW in \in Amounts, NEW out \in 0 .. in, Movement(n, out, in) PROVE TypeOK'
  <2>1. in \in Nat /\ out \in Nat
    BY <1>1
  <2>2. book' \in [Users -> Int] /\ moves' \in 0 .. MaxMoves
    BY <1>1, <1>8, <2>1, EntersTyped DEF Movement
  <2> QED
    BY <1>1, <1>8, <2>1, <2>2 DEF TypeOK, Movement
<1>9. CASE CheckPassword(n)
  BY <1>1, <1>9 DEF TypeOK, CheckPassword, hands
<1>10. CASE SetOnlineInfo(n)
  BY <1>1, <1>10 DEF TypeOK, SetOnlineInfo, Replaces, TakenOver
<1>11. CASE LogIn(n)
  BY <1>1, <1>11 DEF TypeOK, LogIn, hands
<1>12. CASE SaveStarts(n)
  BY <1>1, <1>12 DEF TypeOK, SaveStarts, Cut, NoSum
<1>13. CASE GetOnlineInfo(n)
  BY <1>1, <1>13 DEF TypeOK, GetOnlineInfo
<1>14. CASE SaveEnds(n)
  BY <1>1, <1>14 DEF TypeOK, SaveEnds, save_user_record
<1>15. CASE DieUnsaved(n)
  BY <1>1, <1>15 DEF TypeOK, DieUnsaved, Cut, LoginPhases
<1>16. CASE Charge(n)
  <2>1. seen[n] - sum[n].out \in Int /\ Raced(n, n) \subseteq Users \union {GUEST_USER_NUMBER}
    BY <1>1 DEF TypeOK, Raced
  <2>2. info' \in [Nodes -> Records]
    <3>1. info' = [info EXCEPT ![n] =
                        [info[n] EXCEPT !.account_balance = seen[n] - sum[n].out]]
      BY <1>1, <1>16 DEF TypeOK, Charge, SetBalance
    <3>2. [info[n] EXCEPT !.account_balance = seen[n] - sum[n].out] \in Records
      <4>1. info[n] \in Records
        BY <1>1 DEF TypeOK
      <4> QED
        BY <4>1, <2>1, Rebalanced
    <3> QED
      BY <1>1, <3>1, <3>2 DEF TypeOK
  <2>3. sum' \in [Nodes -> [out : Nat, in : Nat]]
    BY <1>1, <1>16 DEF TypeOK, Charge
  <2> QED
    BY <1>1, <1>16, <2>1, <2>2, <2>3 DEF TypeOK, Charge
<1>17. CASE LoadUser(n)
  BY <1>1, <1>17 DEF TypeOK, LoadUser, read_user_record
<1>18. CASE QuitCredit(n)
  BY <1>1, <1>18 DEF TypeOK, QuitCredit
<1>19. CASE ApplyLent(n)
  <2>1. sum' \in [Nodes -> [out : Nat, in : Nat]]
    BY <1>1, <1>19 DEF TypeOK, ApplyLent
  <2>2. rec[n].account_balance + sum[n].in \in Int
    BY <1>1 DEF TypeOK
  <2>3. rec' \in [Nodes -> Records]
    <3>1. rec' = [rec EXCEPT ![n] =
                       [rec[n] EXCEPT !.account_balance = rec[n].account_balance + sum[n].in]]
      BY <1>1, <1>19 DEF TypeOK, ApplyLent, Book
    <3>2. [rec[n] EXCEPT !.account_balance = rec[n].account_balance + sum[n].in] \in Records
      <4>1. rec[n] \in Records
        BY <1>1 DEF TypeOK
      <4> QED
        BY <4>1, <2>2, Rebalanced
    <3> QED
      BY <1>1, <3>1, <3>2 DEF TypeOK
  <2> QED
    BY <1>1, <1>19, <2>1, <2>3 DEF TypeOK, ApplyLent
<1>20. CASE ApplyPointed(n)
  <2>1. ref[n] \in Nodes
    BY <1>1, <1>20 DEF TypeOK, ApplyPointed, AccountsInvariant, ClientsSound
  <2>2. sum' \in [Nodes -> [out : Nat, in : Nat]]
    BY <1>1, <1>20 DEF TypeOK, ApplyPointed
  <2>3. seen[n] + sum[n].in \in Int
    BY <1>1 DEF TypeOK
  <2>4. Misapplied(n) \union Raced(n, ref[n]) \subseteq Users \union {GUEST_USER_NUMBER}
    BY <1>1, <2>1 DEF TypeOK, Misapplied, Raced
  <2>5. info' \in [Nodes -> Records]
    <3>1. info' = [info EXCEPT ![ref[n]] =
                        [info[ref[n]] EXCEPT !.account_balance = seen[n] + sum[n].in]]
      BY <1>1, <1>20, <2>1 DEF TypeOK, ApplyPointed, SetBalance
    <3>2. [info[ref[n]] EXCEPT !.account_balance = seen[n] + sum[n].in] \in Records
      <4>1. info[ref[n]] \in Records
        BY <1>1, <2>1 DEF TypeOK
      <4> QED
        BY <4>1, <2>3, Rebalanced
    <3> QED
      BY <1>1, <3>1, <3>2 DEF TypeOK
  <2> QED
    BY <1>1, <1>20, <2>2, <2>4, <2>5 DEF TypeOK, ApplyPointed
<1>21. CASE ChangeAccount(n)
  BY <1>1, <1>21 DEF TypeOK, ChangeAccount
<1>22. CASE TakeRecord(n)
  BY <1>1, <1>22 DEF TypeOK, TakeRecord
<1>23. CASE SaveUser(n)
  BY <1>1, <1>23 DEF TypeOK, SaveUser, save_user_record
<1>24. CASE EditAborted(n)
  BY <1>1, <1>24 DEF TypeOK, EditAborted
<1>25. CASE EditDone(n)
  BY <1>1, <1>25, OnlineIsNode DEF TypeOK, EditDone
<1>26. CASE SaveEdited(n)
  BY <1>1, <1>26 DEF TypeOK, SaveEdited, save_user_record
<1>27. CASE TellNode(n)
  <2>1. ref[n] \in Nodes
    BY <1>1, <1>27 DEF TypeOK, TellNode, AccountsInvariant, ClientsSound
  <2>2. TakenOver(ref[n], rec[n].user_no) \union Misled(ref[n], rec[n].user_no) \subseteq Users
    BY <1>1, <2>1 DEF TypeOK, TakenOver, Misled
  <2> QED
    BY <1>1, <1>27, <2>1, <2>2 DEF TypeOK, TellNode
<1>28. CASE init_mynode_struct(n)
  BY <1>1, <1>28 DEF TypeOK, init_mynode_struct
<1>29. CASE GuestLogsIn(n)
  BY <1>1, <1>29 DEF TypeOK, GuestLogsIn, Shared
<1>30. CASE setup_guest_login(n)
  BY <1>1, <1>30 DEF TypeOK, setup_guest_login, Replaces, TakenOver, Record
<1>31. CASE Activate(n)
  BY <1>1, <1>31 DEF TypeOK, Activate
<1>32. CASE GuestLeaves(n)
  BY <1>1, <1>32 DEF TypeOK, GuestLeaves, Cut, NoSum
<1>33. CASE LogOut(n)
  BY <1>1, <1>33 DEF TypeOK, LogOut
<1>34. ASSUME NEW m \in Nodes, Fetch(n, m) PROVE TypeOK'
  <2>1. info[m].account_balance \in Int
    BY <1>1 DEF TypeOK
  <2> QED
    BY <1>1, <1>34, <2>1 DEF TypeOK, Fetch
<1> QED
  BY <1>2, <1>3, <1>4, <1>5, <1>6, <1>7, <1>8, <1>9, <1>10, <1>11,
     <1>12, <1>13, <1>14, <1>15, <1>16, <1>17, <1>18, <1>19, <1>21,
     <1>22, <1>23, <1>24, <1>25, <1>26, <1>27, <1>20, <1>28, <1>29,
     <1>30, <1>31, <1>32, <1>33, <1>34 DEF Client

\* The server's clear_node_data touches nothing but a flag.
LEMMA ClearedTypeKept ==
  ASSUME TypeOK, NEW n \in Nodes, clear_node_data(n)
  PROVE  TypeOK'
BY DEF TypeOK, clear_node_data, shared, hands, ledger, history

-----------------------------------------------------------------------------
(* The invariant is one, and the books balance.                            *)

LEMMA ClientKeeps ==
  ASSUME AccountsInvariant, TypeOK', NEW n \in Nodes, Client(n)
  PROVE  ClientsSound' /\ UsersSound'
<1>1. ASSUME NEW u \in Users, ReadRecord(n, u) PROVE ClientsSound' /\ UsersSound'
  BY <1>1, ReadRecordKept
<1>2. ASSUME NEW u \in Users, LookForUser(n, u) PROVE ClientsSound' /\ UsersSound'
  BY <1>2, LookForUserKept
<1>3. ASSUME NEW u \in Users, EditUser(n, u) PROVE ClientsSound' /\ UsersSound'
  BY <1>3, EditUserKept
<1>4. ASSUME NEW a \in Amounts, PayWage(n, a) PROVE ClientsSound' /\ UsersSound'
  BY <1>4, PayWageKept
<1>5. ASSUME NEW a \in Amounts, PurchaseAtLogin(n, a) PROVE ClientsSound' /\ UsersSound'
  BY <1>5, PurchaseAtLoginKept
<1>6. ASSUME NEW a \in Amounts, Purchase(n, a) PROVE ClientsSound' /\ UsersSound'
  BY <1>6, PurchaseKept
<1>7. ASSUME NEW in \in Amounts, NEW out \in 0 .. in, Movement(n, out, in)
      PROVE ClientsSound' /\ UsersSound'
  BY <1>7, MovementKept
<1>8. CASE CheckPassword(n)
  <2>1. PICK to \in {"checking", "off"} : Becomes(n, {"password"}, to)
    BY <1>8 DEF CheckPassword
  <2>2. UNCHANGED <<shared, hands, ledger, history>>
    BY <1>8 DEF CheckPassword
  <2> QED
    BY <2>1, <2>2, CheckPasswordKept
<1>9. CASE SetOnlineInfo(n)
  BY <1>9, SetOnlineInfoKept
<1>10. CASE LogIn(n)
  BY <1>10, LogInKept
<1>11. CASE SaveStarts(n)
  BY <1>11, SaveStartsKept
<1>12. CASE GetOnlineInfo(n)
  BY <1>12, GetOnlineInfoKept
<1>13. CASE SaveEnds(n)
  BY <1>13, SaveEndsKept
<1>14. CASE DieUnsaved(n)
  BY <1>14, DieUnsavedKept
<1>15. CASE Charge(n)
  BY <1>15, ChargeKept
<1>16. CASE LoadUser(n)
  BY <1>16, LoadUserKept
<1>17. CASE QuitCredit(n)
  BY <1>17, QuitCreditKept
<1>18. CASE ApplyLent(n)
  BY <1>18, ApplyLentKept
<1>19. CASE ChangeAccount(n)
  BY <1>19, ChangeAccountKept
<1>20. CASE TakeRecord(n)
  BY <1>20, TakeRecordKept
<1>21. CASE SaveUser(n)
  BY <1>21, SaveUserKept
<1>22. CASE EditAborted(n)
  BY <1>22, EditAbortedKept
<1>23. CASE EditDone(n)
  BY <1>23, EditDoneKept
<1>24. CASE SaveEdited(n)
  BY <1>24, SaveEditedKept
<1>25. CASE TellNode(n)
  BY <1>25, TellNodeKept
<1>26. CASE ApplyPointed(n)
  BY <1>26, ApplyPointedKept
<1>27. CASE init_mynode_struct(n)
  BY <1>27, init_mynode_structKept
<1>28. CASE GuestLogsIn(n)
  BY <1>28, GuestLogsInKept
<1>29. CASE setup_guest_login(n)
  BY <1>29, setup_guest_loginKept
<1>30. CASE Activate(n)
  BY <1>30, ActivateKept
<1>31. CASE GuestLeaves(n)
  BY <1>31, GuestLeavesKept
<1>32. CASE LogOut(n)
  BY <1>32, LogOutKept
<1>33. ASSUME NEW m \in Nodes, Fetch(n, m) PROVE ClientsSound' /\ UsersSound'
  BY <1>33, FetchKept
<1> QED
  BY <1>1, <1>2, <1>3, <1>4, <1>5, <1>6, <1>7, <1>8, <1>9, <1>10, <1>11,
     <1>12, <1>13, <1>14, <1>15, <1>16, <1>17, <1>18, <1>19, <1>20, <1>21, <1>22,
     <1>23, <1>24, <1>25, <1>26, <1>27, <1>28, <1>29, <1>30, <1>31, <1>32, <1>33 DEF Client

LEMMA InvariantAtFirst == Init => AccountsInvariant
<1> SUFFICES ASSUME Init PROVE AccountsInvariant
  OBVIOUS
<1>1. TypeOK
  BY AccountsAssumption DEF Init, TypeOK, Record, NoSum
<1>2. ClientsSound
  BY DEF Init, ClientsSound, CreditPhases, EditPhases, Inside
<1>3. ASSUME NEW u \in Users
      PROVE  UserSound(u)
  <2>1. /\ Online(u) = {} /\ Login(u) = {} /\ Writing(u) = {} /\ Editing(u) = {}
        /\ Crediting(u) = {} /\ Loaded(u) = {} /\ Unsaved(u) = {} /\ Home(u) = {}
        /\ Posing(u) = {}
    BY DEF Init, Online, Login, Writing, Editing, Crediting, Loaded, Unsaved, Home, Posing,
           LoginPhases, EditPhases, CreditPhases
  <2>2. Due(u) = 0
    <3>1. /\ Coming(u) \in [Nodes -> Int] /\ \A n \in Nodes : Coming(u)[n] = 0
          /\ Going(u) \in [Nodes -> Int] /\ \A n \in Nodes : Going(u)[n] = 0
      BY DEF Init, Coming, Going, NoSum
    <3>2. SumFunction(Coming(u)) = 0 /\ SumFunction(Going(u)) = 0
      BY <3>1, TotalOfNothing, AccountsAssumption
    <3> QED
      BY <3>2 DEF Init, Due, Unbooked
  <2>3. file[u].user_no = u /\ file[u].account_balance = 0
    BY DEF Init, Record
  <2> QED
    BY <2>1, <2>2, <2>3 DEF UserSound, AtHome, Edited, Lent, Pointed, Balanced
<1> QED
  BY <1>1, <1>2, <1>3 DEF AccountsInvariant, UsersSound

LEMMA InvariantKept == AccountsInvariant /\ [Next]_vars => AccountsInvariant'
<1> SUFFICES ASSUME AccountsInvariant, [Next]_vars PROVE AccountsInvariant'
  OBVIOUS
<1>1. CASE Next
  <2>1. PICK n \in Nodes : Client(n) \/ clear_node_data(n)
    BY <1>1 DEF Next
  <2>2. CASE Client(n)
    BY <2>2, TypeKept, ClientKeeps DEF AccountsInvariant
  <2>3. CASE clear_node_data(n)
    BY <2>3, ClearedTypeKept, clear_node_dataKept DEF AccountsInvariant
  <2> QED
    BY <2>1, <2>2, <2>3
<1>2. CASE UNCHANGED vars
  <2>1. TypeOK' /\ ClientsSound'
    BY <1>2 DEF AccountsInvariant, TypeOK, ClientsSound, vars
  <2>2. ASSUME NEW u \in Users \ disturbed'
        PROVE  UserSound(u)'
    <3>1. u \in Users \ disturbed /\ UserSound(u)
      BY <1>2 DEF AccountsInvariant, UsersSound, vars
    <3>2. Due(u)' = Due(u)
      BY <1>2 DEF Due, Unbooked, Coming, Going, vars
    <3>3. FewerHolders(u)
      BY <1>2
      DEF FewerHolders, Online, Login, Writing, Editing, Crediting, Loaded, Unsaved, Posing,
          vars
    <3>4. SameCopies(u) /\ SameCredits(u)
      BY <1>2 DEF SameCopies, SameCredits, Editing, Crediting, Loaded, vars
    <3> QED
      BY <3>1, <3>2, <3>3, <3>4, Bystander DEF AccountsInvariant
  <2> QED
    BY <2>1, <2>2 DEF AccountsInvariant, UsersSound
<1> QED
  BY <1>1, <1>2

-----------------------------------------------------------------------------
(* Whatever is saved as the record of a user is his.                       *)

\* What a client would save as the record of a user is his.
OwnAt(u, n) ==
  user[n] = u =>
    /\ at[n] = "leaving" => info[n].user_no = u
    /\ at[n] \in {"copied", "writing", "saving"} => rec[n].user_no = u
    /\ at[n] \in CreditPhases \ {"loading"} /\ ref[n] = NoNode => rec[n].user_no = u
    /\ at[n] \in CreditPhases /\ ref[n] # NoNode => info[ref[n]].user_no = u

Own(u) == file[u].user_no = u /\ \A n \in Nodes : OwnAt(u, n)

RecordsOwned == \A u \in Users \ mixed : Own(u)

\* A step of one client that leaves the others what they would save.
OwnStep(u, n) ==
  /\ u \in Users \ mixed /\ file'[u].user_no = u /\ OwnAt(u, n)'
  /\ \A m \in Nodes \ {n} : /\ at'[m] = at[m] /\ user'[m] = user[m]
                            /\ ref'[m] = ref[m] /\ rec'[m] = rec[m]
  /\ \A m \in Nodes \ {n} : user[m] = u =>
       /\ at[m] = "leaving" => info'[m].user_no = info[m].user_no
       /\ at[m] \in CreditPhases /\ ref[m] # NoNode =>
            info'[ref[m]].user_no \in {u, info[ref[m]].user_no}

LEMMA OthersOwn ==
  ASSUME NEW u \in Users, NEW n \in Nodes, Own(u), OwnStep(u, n)
  PROVE  Own(u)'
BY DEF Own, OwnAt, OwnStep

LEMMA ClientOwns ==
  ASSUME AccountsInvariant, TypeOK', RecordsOwned, NEW n \in Nodes, Client(n),
         NEW u \in Users \ mixed'
  PROVE  OwnStep(u, n)
<1> USE DEF Becomes, shared, hands, ledger, history, OwnAt, OwnStep, LoginPhases, CreditPhases
<1>1. TypeOK /\ (u \notin mixed => file[u].user_no = u /\ \A m \in Nodes : OwnAt(u, m))
  BY DEF AccountsInvariant, RecordsOwned, Own
<1>2. ASSUME NEW v \in Users, ReadRecord(n, v) PROVE OwnStep(u, n)
  BY <1>1, <1>2 DEF TypeOK, ReadRecord, Reads, read_user_record
<1>3. ASSUME NEW v \in Users, LookForUser(n, v) PROVE OwnStep(u, n)
  <2>1. is_user_online(v) # NoNode => info[is_user_online(v)].user_no = v
    BY <1>1, WhoIsFound
  <2> QED
    BY <1>1, <1>3, <2>1 DEF TypeOK, LookForUser
<1>4. ASSUME NEW v \in Users, EditUser(n, v) PROVE OwnStep(u, n)
  BY <1>1, <1>4 DEF TypeOK, EditUser, Reads, read_user_record
<1>5. ASSUME NEW a \in Amounts, PayWage(n, a) PROVE OwnStep(u, n)
  BY <1>1, <1>5 DEF TypeOK, PayWage, Book
<1>6. ASSUME NEW a \in Amounts, PurchaseAtLogin(n, a) PROVE OwnStep(u, n)
  BY <1>1, <1>6 DEF TypeOK, PurchaseAtLogin, Book
<1>7. ASSUME NEW a \in Amounts, Purchase(n, a) PROVE OwnStep(u, n)
  BY <1>1, <1>7 DEF TypeOK, Purchase
<1>8. ASSUME NEW in \in Amounts, NEW out \in 0 .. in, Movement(n, out, in) PROVE OwnStep(u, n)
  BY <1>1, <1>8 DEF TypeOK, Movement
<1>9. ASSUME NEW m \in Nodes, Fetch(n, m) PROVE OwnStep(u, n)
  BY <1>1, <1>9 DEF TypeOK, Fetch
<1>10. CASE init_mynode_struct(n)
  BY <1>1, <1>10 DEF TypeOK, init_mynode_struct
<1>11. CASE CheckPassword(n)
  BY <1>1, <1>11 DEF TypeOK, CheckPassword
<1>12. CASE SetOnlineInfo(n)
  BY <1>1, <1>12 DEF TypeOK, SetOnlineInfo, Replaces, TakenOver
<1>13. CASE LogIn(n)
  BY <1>1, <1>13 DEF TypeOK, LogIn
<1>14. CASE GuestLogsIn(n)
  BY <1>1, <1>14 DEF TypeOK, GuestLogsIn
<1>15. CASE setup_guest_login(n)
  BY <1>1, <1>15 DEF TypeOK, setup_guest_login, Replaces, TakenOver, Record
<1>16. CASE Activate(n)
  BY <1>1, <1>16 DEF TypeOK, Activate
<1>17. CASE SaveStarts(n)
  BY <1>1, <1>17 DEF TypeOK, SaveStarts
<1>18. CASE GuestLeaves(n)
  BY <1>1, <1>18 DEF TypeOK, GuestLeaves
<1>19. CASE GetOnlineInfo(n)
  BY <1>1, <1>19 DEF TypeOK, GetOnlineInfo
<1>20. CASE LogOut(n)
  BY <1>1, <1>20 DEF TypeOK, LogOut
<1>21. CASE SaveEnds(n)
  BY <1>1, <1>21 DEF TypeOK, SaveEnds, save_user_record
<1>22. CASE DieUnsaved(n)
  BY <1>1, <1>22 DEF TypeOK, DieUnsaved
<1>23. CASE Charge(n)
  BY <1>1, <1>23 DEF TypeOK, Charge, SetBalance
<1>24. CASE LoadUser(n)
  BY <1>1, <1>24 DEF TypeOK, LoadUser, read_user_record
<1>25. CASE QuitCredit(n)
  BY <1>1, <1>25 DEF TypeOK, QuitCredit
<1>26. CASE ApplyLent(n)
  BY <1>1, <1>26 DEF TypeOK, ApplyLent, Book
<1>27. CASE ApplyPointed(n)
  BY <1>1, <1>27 DEF TypeOK, ApplyPointed, SetBalance
<1>28. CASE ChangeAccount(n)
  BY <1>1, <1>28 DEF TypeOK, ChangeAccount
<1>29. CASE TakeRecord(n)
  BY <1>1, <1>29 DEF TypeOK, TakeRecord
<1>30. CASE SaveUser(n)
  BY <1>1, <1>30 DEF TypeOK, SaveUser, save_user_record
<1>31. CASE EditAborted(n)
  BY <1>1, <1>31 DEF TypeOK, EditAborted
<1>32. CASE EditDone(n)
  BY <1>1, <1>32 DEF TypeOK, EditDone
<1>33. CASE SaveEdited(n)
  BY <1>1, <1>33 DEF TypeOK, SaveEdited, save_user_record
<1>34. CASE TellNode(n)
  BY <1>1, <1>34 DEF TypeOK, TellNode, TakenOver, Misled
<1> QED
  BY <1>2, <1>3, <1>4, <1>5, <1>6, <1>7, <1>8, <1>9, <1>10, <1>11, <1>12,
     <1>13, <1>14, <1>15, <1>16, <1>17, <1>18, <1>19, <1>20, <1>21, <1>22, <1>23,
     <1>24, <1>25, <1>26, <1>27, <1>28, <1>29, <1>30, <1>31, <1>32, <1>33, <1>34 DEF Client

LEMMA OwnedAtFirst == Init => RecordsOwned
BY DEF Init, RecordsOwned, Own, OwnAt, Record, CreditPhases

LEMMA OwnedKept ==
  ASSUME AccountsInvariant, AccountsInvariant', RecordsOwned, [Next]_vars
  PROVE  RecordsOwned'
<1> SUFFICES ASSUME NEW u \in Users \ mixed' PROVE Own(u)'
  BY DEF RecordsOwned
<1>1. ASSUME NEW n \in Nodes, Client(n) PROVE Own(u)'
  <2>1. OwnStep(u, n)
    BY <1>1, ClientOwns DEF AccountsInvariant
  <2> QED
    BY <2>1, OthersOwn DEF OwnStep, RecordsOwned
<1>2. ASSUME NEW n \in Nodes, clear_node_data(n) PROVE Own(u)'
  BY <1>2 DEF clear_node_data, shared, hands, ledger, history, RecordsOwned, Own, OwnAt
<1>3. CASE UNCHANGED vars
  BY <1>3 DEF vars, RecordsOwned, Own, OwnAt
<1> QED
  BY <1>1, <1>2, <1>3 DEF Next

LEMMA BooksFollow == AccountsInvariant /\ RecordsOwned => AccountsInOrder
<1> SUFFICES ASSUME AccountsInvariant, NEW u \in Users \ disturbed
             PROVE  Latest(u).account_balance + Unbooked(u) = book[u]
  BY DEF AccountsInOrder, BooksBalance, RecordsAreOwn, AccountsInvariant, RecordsOwned, Own
<1>1. UserSound(u) /\ Balanced(u) /\ file[u].user_no = u /\ TypeOK
  BY DEF AccountsInvariant, UsersSound, UserSound
<1>2. \A s \in {Online(u), Login(u) \union Writing(u), Unsaved(u)} :
        s \in SUBSET Nat /\ (s # {} => Min(s) \in s)
  <2>1. \A s \in {Online(u), Login(u) \union Writing(u), Unsaved(u)} : s \in SUBSET Nat
    BY AccountsAssumption DEF Online, Login, Writing, Unsaved, Crediting
  <2> QED
    BY <2>1, LeastIsMember
<1>3. Latest(u).account_balance = Due(u)
  <2>1. CASE Online(u) # {}
    BY <1>1, <1>2, <2>1 DEF Latest, Balanced
  <2>2. CASE Online(u) = {} /\ Login(u) \union Writing(u) # {}
    BY <1>1, <1>2, <2>2 DEF Latest, Balanced
  <2>3. CASE Home(u) = {} /\ Unsaved(u) # {}
    BY <1>1, <1>2, <2>3 DEF Latest, Balanced, Home
  <2>4. CASE Home(u) = {} /\ Unsaved(u) = {}
    BY <1>1, <2>4 DEF Latest, Balanced, Home
  <2> QED
    BY <2>1, <2>2, <2>3, <2>4 DEF Home
<1>4. Due(u) \in Int /\ Unbooked(u) \in Int /\ book[u] \in Int
  BY <1>1, UnbookedIsNumber DEF Due, TypeOK
<1> QED
  BY <1>1, <1>3, <1>4 DEF Due

\* accounting.c, user.c: what bank.log says a user got and paid is in his account,
\* wherever that is at the moment, unless two clients had his record at once, two
\* movements of his were booked at one instant or somebody was cut off between the
\* entry and the account; and the record under his number is his, unless his node was
\* given away under a /CREDIT or a logout: for any number of nodes, users, movements.
THEOREM AccountsAreInOrder == Spec => []AccountsInOrder
<1>1. Init => AccountsInvariant /\ RecordsOwned
  BY InvariantAtFirst, OwnedAtFirst
<1>2. AccountsInvariant /\ RecordsOwned /\ [Next]_vars => AccountsInvariant' /\ RecordsOwned'
  BY InvariantKept, OwnedKept
<1>3. AccountsInvariant /\ RecordsOwned => AccountsInOrder
  BY BooksFollow
<1> QED
  BY <1>1, <1>2, <1>3, PTL DEF Spec
=============================================================================
