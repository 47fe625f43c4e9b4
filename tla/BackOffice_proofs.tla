-------------------------- MODULE BackOffice_proofs --------------------------
(* Proofs about the parts of MCBackOffice: for each part an inductive       *)
(* invariant, one lemma per kind of step that keeps it, and what it shows   *)
(* of the part; at the end the theorems about the behaviours of the whole.  *)
EXTENDS MCBackOffice, NotificationDelivery_proofs, Sequences, FiniteSetTheorems,
        WellFoundedInduction, TLAPS

-----------------------------------------------------------------------------
(* Numbers and sets.                                                        *)

(* The greatest of a set of numbers with a bound. *)
LEMMA GreatestExists ==
  ASSUME NEW S \in SUBSET Nat, S # {}, NEW b \in Nat, \A y \in S : y <= b
  PROVE  \E x \in S : \A y \in S : y <= x
<1> DEFINE Bounds == {n \in Nat : \A y \in S : y <= n}
<1>1. b \in Bounds /\ Bounds \in SUBSET Nat
  OBVIOUS
<1>2. PICK least \in Bounds : \A n \in Bounds : least <= n
  <2> HIDE DEF Bounds
  <2>1. QED
    BY <1>1, LeastExists
<1>3. least \in S
  <2>1. SUFFICES ASSUME least \notin S
                 PROVE  FALSE
    OBVIOUS
  <2>2. \A y \in S : y \in Nat /\ y < least
    BY <1>2, <2>1
  <2>3. PICK y \in S : y < least
    BY <2>2
  <2>4. least - 1 \in Nat
    BY <1>2, <2>2, <2>3
  <2>5. least - 1 \in Bounds
    BY <1>2, <2>2, <2>4
  <2>6. least <= least - 1
    BY <1>2, <2>5
  <2>7. QED
    BY <1>2, <2>6
<1>4. QED
  BY <1>2, <1>3

(* Modules of one instance each count with a Cardinality of their own. *)
LEMMA SameCardinality ==
  ASSUME NEW S
  PROVE  /\ Policies!Cardinality(S) = Cardinality(S)
         /\ Calendar!Cardinality(S) = Cardinality(S)
         /\ Browsing!Cardinality(S) = Cardinality(S)
BY Zenon DEF Cardinality, Policies!Cardinality, Calendar!Cardinality, Browsing!Cardinality

-----------------------------------------------------------------------------
(* Sums over finite sets.                                                   *)

Chosen(T) == CHOOSE x \in T : TRUE

(* What the fold of a sum of v computes for T when it has iter[U] of the    *)
(* smaller sets.                                                            *)
Folded(v, iter, T) == IF T = {} THEN 0 ELSE v[Chosen(T)] + iter[T \ {Chosen(T)}]

FoldedUpTo(v, S, iter, n) ==
  \A T \in SUBSET S : Cardinality(T) <= n => iter[T] = Folded(v, iter, T)

Folds(v, S, iter) == iter = [T \in SUBSET S |-> Folded(v, iter, T)]

LEMMA ChosenFacts ==
  ASSUME NEW S, IsFiniteSet(S), NEW T \in SUBSET S, T # {}
  PROVE  /\ Chosen(T) \in T /\ Chosen(T) \in S /\ T \ {Chosen(T)} \in SUBSET S
         /\ Cardinality(T) \in Nat
         /\ Cardinality(T \ {Chosen(T)}) = Cardinality(T) - 1
<1>1. Chosen(T) \in T
  BY DEF Chosen
<1>2. IsFiniteSet(T)
  BY FS_Subset
<1>3. QED
  BY <1>1, <1>2, FS_RemoveElement, FS_CardinalityType

LEMMA FoldExtends ==
  ASSUME NEW S, IsFiniteSet(S), NEW v \in [S -> Int], NEW n \in Nat,
         NEW f \in [SUBSET S -> Int], FoldedUpTo(v, S, f, n)
  PROVE  \E g \in [SUBSET S -> Int] : FoldedUpTo(v, S, g, n + 1)
<1> DEFINE g == [T \in SUBSET S |-> Folded(v, f, T)]
<1>1. ASSUME NEW T \in SUBSET S
      PROVE  Folded(v, f, T) \in Int
  <2>1. CASE T = {}
    BY <2>1 DEF Folded
  <2>2. CASE T # {}
    <3>1. PICK c \in S, U \in SUBSET S : c = Chosen(T) /\ U = T \ {Chosen(T)}
      BY <2>2, ChosenFacts
    <3>2. v[c] \in Int /\ f[U] \in Int
      OBVIOUS
    <3>3. QED
      BY <2>2, <3>1, <3>2 DEF Folded
  <2>3. QED
    BY <2>1, <2>2
<1>2. g \in [SUBSET S -> Int]
  BY <1>1
<1>3. ASSUME NEW T \in SUBSET S, Cardinality(T) <= n + 1
      PROVE  g[T] = Folded(v, g, T)
  <2>1. CASE T = {}
    BY <2>1 DEF Folded
  <2>2. CASE T # {}
    <3>1. PICK U \in SUBSET S : U = T \ {Chosen(T)}
      BY <2>2, ChosenFacts
    <3>2. Cardinality(U) <= n
      BY <1>3, <2>2, <3>1, ChosenFacts
    <3>3. f[U] = Folded(v, f, U)
      BY <3>2 DEF FoldedUpTo
    <3>4. g[U] = f[U]
      BY <3>3
    <3>5. g[T] = v[Chosen(T)] + f[U]
      BY <2>2, <3>1 DEF Folded
    <3>6. QED
      BY <2>2, <3>1, <3>4, <3>5 DEF Folded
  <2>3. QED
    BY <2>1, <2>2
<1>4. QED
  BY <1>2, <1>3 DEF FoldedUpTo

LEMMA FoldExists ==
  ASSUME NEW S, IsFiniteSet(S), NEW v \in [S -> Int]
  PROVE  \E iter \in [SUBSET S -> Int] : Folds(v, S, iter)
<1> DEFINE Short == {n \in Nat : ~ \E f \in [SUBSET S -> Int] : FoldedUpTo(v, S, f, n)}
<1>1. 0 \notin Short
  <2>1. [T \in SUBSET S |-> 0] \in [SUBSET S -> Int]
    OBVIOUS
  <2>2. \A T \in SUBSET S : Cardinality(T) <= 0 => T = {}
    BY ChosenFacts, FS_CardinalityType, FS_Subset, FS_EmptySet
  <2>3. FoldedUpTo(v, S, [T \in SUBSET S |-> 0], 0)
    BY <2>2 DEF FoldedUpTo, Folded
  <2>4. QED
    BY <2>1, <2>3
<1>2. Short = {}
  <2>1. SUFFICES ASSUME Short # {}
                 PROVE  FALSE
    OBVIOUS
  <2>2. PICK n \in Short : \A k \in Short : n <= k
    BY <2>1, LeastExists
  <2>3. n # 0 /\ n \in Nat
    BY <1>1
  <2>4. n - 1 \in Nat /\ n = (n - 1) + 1 /\ ~(n <= n - 1)
    BY <2>3
  <2>5. PICK f \in [SUBSET S -> Int] : FoldedUpTo(v, S, f, n - 1)
    BY <2>2, <2>4
  <2>6. \E g \in [SUBSET S -> Int] : FoldedUpTo(v, S, g, n)
    <3>1. \E g \in [SUBSET S -> Int] : FoldedUpTo(v, S, g, (n - 1) + 1)
      BY <2>4, <2>5, FoldExtends
    <3>2. QED
      BY <2>4, <3>1
  <2>7. QED
    BY <2>3, <2>6
<1>3. Cardinality(S) \in Nat /\ \A T \in SUBSET S : Cardinality(T) <= Cardinality(S)
  BY FS_CardinalityType, FS_Subset
<1>4. PICK f \in [SUBSET S -> Int] : FoldedUpTo(v, S, f, Cardinality(S))
  BY <1>2, <1>3
<1>5. \A T \in SUBSET S : f[T] = Folded(v, f, T)
  BY <1>3, <1>4 DEF FoldedUpTo
<1>6. QED
  BY <1>5 DEF Folds

SumOf(v, S) == Prices!Sum(S, LAMBDA x : v[x])

LEMMA SumFolds ==
  ASSUME NEW S, NEW v, NEW f, Folds(v, S, f)
  PROVE  \E iter : Folds(v, S, iter) /\ SumOf(v, S) = iter[S]
<1> DEFINE iter == CHOOSE g : g = [T \in SUBSET S |-> Folded(v, g, T)]
<1>1. Folds(v, S, iter)
  BY DEF Folds
<1>2. SumOf(v, S) = iter[S]
  BY DEF SumOf, Prices!Sum, Prices!MapThenSumSet, Prices!MapThenFoldSet, Folded, Chosen
<1>3. QED
  BY <1>1, <1>2

LEMMA SumIsInt ==
  ASSUME NEW S, IsFiniteSet(S), NEW v \in [S -> Int]
  PROVE  SumOf(v, S) \in Int
<1>1. PICK iter : Folds(v, S, iter) /\ SumOf(v, S) = iter[S]
  <2>1. PICK f \in [SUBSET S -> Int] : Folds(v, S, f)
    BY FoldExists
  <2>2. QED
    BY <2>1, SumFolds
<1> DEFINE Bad == {n \in Nat : \E T \in SUBSET S : Cardinality(T) = n /\ iter[T] \notin Int}
<1>2. Bad = {}
  <2>1. SUFFICES ASSUME Bad # {}
                 PROVE  FALSE
    OBVIOUS
  <2>2. PICK n \in Bad : \A k \in Bad : n <= k
    BY <2>1, LeastExists
  <2>3. PICK T \in SUBSET S : Cardinality(T) = n /\ iter[T] \notin Int
    BY <2>2
  <2>4. iter[T] = Folded(v, iter, T)
    BY <1>1 DEF Folds
  <2>5. T # {}
    BY <2>3, <2>4 DEF Folded, Folds
  <2>6. PICK c \in S, U \in SUBSET S : c = Chosen(T) /\ U = T \ {Chosen(T)}
    BY <2>5, ChosenFacts
  <2>7. Cardinality(U) = n - 1 /\ n - 1 \in Nat /\ ~(n <= n - 1)
    <3>1. Cardinality(U) \in Nat
      BY FS_CardinalityType, FS_Subset
    <3>2. Cardinality(U) = Cardinality(T) - 1
      BY <2>5, <2>6, ChosenFacts
    <3>3. QED
      BY <2>3, <3>1, <3>2
  <2>8. iter[U] \in Int
    BY <2>2, <2>7
  <2>9. iter[T] = v[c] + iter[U] /\ v[c] \in Int
    BY <2>4, <2>5, <2>6 DEF Folded
  <2>10. QED
    BY <2>3, <2>8, <2>9
<1>3. Cardinality(S) \in Nat
  BY FS_CardinalityType
<1>4. iter[S] \in Int
  BY <1>2, <1>3
<1>5. QED
  BY <1>1, <1>4

LEMMA SumOfFew ==
  ASSUME NEW v
  PROVE  /\ SumOf(v, {}) = 0
         /\ \A x : v[x] \in Int => SumOf(v, {x}) = v[x]
<1>1. SumOf(v, {}) = 0
  <2>1. Folds(v, {}, [T \in SUBSET {} |-> 0])
    BY DEF Folded, Folds
  <2>2. PICK iter : Folds(v, {}, iter) /\ SumOf(v, {}) = iter[{}]
    BY <2>1, SumFolds
  <2>3. QED
    BY <2>2 DEF Folded, Folds
<1>2. ASSUME NEW x, v[x] \in Int
      PROVE  SumOf(v, {x}) = v[x]
  <2> DEFINE f == [T \in SUBSET {x} |-> IF T = {} THEN 0 ELSE v[x]]
  <2>1. \A T \in SUBSET {x} : T # {} => Chosen(T) = x /\ T \ {Chosen(T)} = {}
    BY DEF Chosen
  <2>2. f[{}] = 0
    OBVIOUS
  <2>3. Folds(v, {x}, f)
    BY <1>2, <2>1, <2>2 DEF Folded, Folds
  <2> HIDE DEF f
  <2>4. PICK iter : Folds(v, {x}, iter) /\ SumOf(v, {x}) = iter[{x}]
    BY <2>3, SumFolds, Zenon
  <2>5. iter[{}] = 0
    BY <2>4 DEF Folded, Folds
  <2>6. iter[{x}] = v[x] + iter[{}]
    BY <2>1, <2>4 DEF Folded, Folds
  <2>7. QED
    BY <1>2, <2>4, <2>5, <2>6
<1>3. QED
  BY <1>1, <1>2

-----------------------------------------------------------------------------
(* Guest profiles (apps/guests/services.py).                                *)

GuestCall ==
  {Guests!Idle}
    \cup [op : {"resolve"}, email : Email \cup {Nothing}, phone : Phone \cup {Nothing},
          at : {"insert", "look_again", "commit", "answered"}, answer : Guests!Id \cup {Nothing}]
    \cup [op : {"merge"}, at : {"save"}, id : Guests!Id, into : Guests!Id, row : Guests!Row]
    \cup [op : {"erase"}, at : {"save"}, id : Guests!Id, row : Guests!Row]

GuestsTyped ==
  /\ profile_ids \in 0..MaxProfile
  /\ profile \in [Guests!Id -> Guests!Row \cup {Nothing}]
  /\ inserting \subseteq Guests!Id
  /\ resolving \in [Caller -> GuestCall]
  /\ \A p \in Guests!Id : p > profile_ids => profile[p] = Nothing

RowsKept ==
  /\ \A p \in inserting : profile[p] # Nothing /\ ~profile[p].erased
  /\ \A p \in Guests!Id : profile[p] # Nothing /\ profile[p].erased =>
       profile[p].email = Nothing /\ profile[p].phone = Nothing /\ profile[p].status = "closed"

(* A contact is on one live row. *)
SharesContact(p, q) ==
  \/ profile[p].email # Nothing /\ profile[p].email = profile[q].email
  \/ profile[p].phone # Nothing /\ profile[p].phone = profile[q].phone

LiveDistinct == \A p, q \in Guests!Live : SharesContact(p, q) => p = q

Has(p, email, phone) ==
  \/ email # Nothing /\ profile[p].email = email
  \/ phone # Nothing /\ profile[p].phone = phone

ResolveKnows(c) ==
  LET a == resolving[c].answer
  IN  /\ resolving[c].op = "resolve" =>
           resolving[c].email # Nothing \/ resolving[c].phone # Nothing
      /\ Guests!Working(c, "resolve", "commit") =>
           /\ a \in inserting
           /\ \A d \in Caller \ {c} :
                Guests!Working(d, "resolve", "commit") => resolving[d].answer # a
      /\ Guests!Working(c, "resolve", "answered") => a \in Guests!Committed
      /\ \/ Guests!Working(c, "resolve", "commit")
         \/ Guests!Working(c, "resolve", "answered")
         => (a \in Guests!Live => Has(a, resolving[c].email, resolving[c].phone))

(* The row a call has read is the row there is while the version is. *)
SaverKnows(c) ==
  resolving[c].op \in {"merge", "erase"} =>
    LET p == resolving[c].id
        row == resolving[c].row
    IN  /\ p \in Guests!Committed
        /\ row.version =< profile[p].version
        /\ row.version = profile[p].version => row = profile[p]
        /\ resolving[c].op = "merge" => row.status = "active"

GuestsSound ==
  /\ GuestsTyped /\ RowsKept /\ LiveDistinct
  /\ \A c \in Caller : ResolveKnows(c) /\ SaverKnows(c)

LEMMA MinFound ==
  ASSUME NEW S \in SUBSET Guests!Id, S # {}
  PROVE  Guests!Min(S) \in S
<1>1. S \in SUBSET Nat
  BY DEF Guests!Id
<1>2. \E x \in S : \A y \in S : x =< y
  BY <1>1, LeastExists
<1>3. QED
  BY <1>2 DEF Guests!Min

LEMMA GuestCallFacts ==
  ASSUME GuestsTyped, NEW c \in Caller
  PROVE  /\ resolving[c].op = "resolve" =>
              /\ resolving[c] \in [op : {"resolve"}, email : Email \cup {Nothing},
                    phone : Phone \cup {Nothing}, at : {"insert", "look_again", "commit", "answered"},
                    answer : Guests!Id \cup {Nothing}]
         /\ resolving[c].op \in {"merge", "erase"} =>
              resolving[c].id \in Guests!Id /\ resolving[c].row \in Guests!Row
         /\ resolving[c].op = "merge" => resolving[c].into \in Guests!Id
BY DEF GuestsTyped, GuestCall, Guests!Idle

(* Calls that only look at the rows. *)
LEMMA LooksKeepGuests ==
  ASSUME GuestsSound, NEW c \in Caller, NEW new \in GuestCall,
         UNCHANGED <<profile_ids, profile, inserting>>,
         resolving' = [resolving EXCEPT ![c] = new],
         ResolveKnows(c)', SaverKnows(c)', new.at # "commit"
  PROVE  GuestsSound'
<1>1. GuestsTyped' /\ RowsKept' /\ LiveDistinct'
  BY DEF GuestsSound, GuestsTyped, RowsKept, LiveDistinct, SharesContact, Guests!Live
<1>2. resolving'[c] = new /\ \A d \in Caller \ {c} : resolving'[d] = resolving[d]
  BY DEF GuestsSound, GuestsTyped
<1>3. ASSUME NEW d \in Caller \ {c}
      PROVE  SaverKnows(d)'
  BY <1>2, <1>3 DEF GuestsSound, SaverKnows, Guests!Committed
<1>4. ASSUME NEW d \in Caller \ {c}
      PROVE  ResolveKnows(d)'
  BY <1>2, <1>4 DEF GuestsSound, ResolveKnows, Guests!Committed, Guests!Live, Guests!Working, Has
<1>5. QED
  BY <1>1, <1>3, <1>4 DEF GuestsSound

LEMMA ResolveKeepsGuests ==
  ASSUME GuestConstants, GuestsSound, NEW c \in Caller, Guests!Resolve(c)
  PROVE  GuestsSound'
<1>1. PICK email \in Email \cup {Nothing}, phone \in Phone \cup {Nothing} :
        LET found == Guests!find_by_identity(email, phone)
        IN  /\ {email, phone} # {Nothing}
            /\ resolving' = [resolving EXCEPT ![c] =
                 [op |-> "resolve", email |-> email, phone |-> phone,
                  at |-> IF found = {} THEN "insert" ELSE "answered",
                  answer |-> IF found = {} THEN Nothing ELSE Guests!Min(found)]]
  BY DEF Guests!Resolve
<1> DEFINE found == Guests!find_by_identity(email, phone)
           at == IF found = {} THEN "insert" ELSE "answered"
           answer == IF found = {} THEN Nothing ELSE Guests!Min(found)
           new == [op |-> "resolve", email |-> email, phone |-> phone, at |-> at, answer |-> answer]
<1>2. UNCHANGED <<profile_ids, profile, inserting>> /\ resolving' = [resolving EXCEPT ![c] = new]
  BY <1>1 DEF Guests!Resolve
<1>3. found \in SUBSET Guests!Id
  BY DEF Guests!find_by_identity, Guests!Committed
<1>4. found # {} => /\ answer \in found /\ answer \in Guests!Id
                    /\ answer \in Guests!Committed /\ answer \in Guests!Holding(email, phone)
  <2> HIDE DEF found
  <2>1. found # {} => answer \in found
    BY <1>3, MinFound
  <2>2. QED
    BY <1>3, <2>1 DEF found, Guests!find_by_identity
<1>5. at \in {"insert", "answered"} /\ (at = "answered" => found # {}) /\ answer \in Guests!Id \cup {Nothing}
  BY <1>4
<1> HIDE DEF found, at, answer
<1>6. /\ new \in GuestCall /\ new.op = "resolve" /\ new.at = at /\ new.answer = answer
      /\ new.email = email /\ new.phone = phone /\ new.at # "commit"
  BY <1>5 DEF GuestCall
<1> HIDE DEF new
<1>7. resolving'[c] = new
  BY <1>2 DEF GuestsSound, GuestsTyped
<1>8. SaverKnows(c)'
  BY <1>6, <1>7 DEF SaverKnows
<1>9. ResolveKnows(c)'
  BY <1>1, <1>2, <1>4, <1>5, <1>6, <1>7
  DEF ResolveKnows, Has, Guests!Working, Guests!Committed, Guests!Live, Guests!Holding
<1>10. QED
  BY <1>2, <1>6, <1>8, <1>9, LooksKeepGuests

LEMMA LookAgainKeepsGuests ==
  ASSUME GuestConstants, GuestsSound, NEW c \in Caller, Guests!LookAgain(c)
  PROVE  GuestsSound'
<1> DEFINE found == Guests!find_by_identity(resolving[c].email, resolving[c].phone)
           answer == Guests!Min(found)
           new == [resolving[c] EXCEPT !.at = "answered", !.answer = answer]
<1>1. /\ Guests!Working(c, "resolve", "look_again")
      /\ resolving' = [resolving EXCEPT ![c] =
           IF found = {} THEN Guests!Idle ELSE [@ EXCEPT !.at = "answered", !.answer = answer]]
      /\ UNCHANGED <<profile_ids, profile, inserting>>
  BY DEF Guests!LookAgain
<1>2. CASE found = {}
  <2>1. resolving' = [resolving EXCEPT ![c] = Guests!Idle]
    BY <1>1, <1>2
  <2>2. resolving'[c] = Guests!Idle /\ Guests!Idle \in GuestCall
    BY <2>1 DEF GuestsSound, GuestsTyped, GuestCall
  <2>3. ResolveKnows(c)' /\ SaverKnows(c)'
    BY <2>2 DEF ResolveKnows, SaverKnows, Guests!Working, Guests!Idle
  <2>4. QED
    BY <1>1, <2>1, <2>2, <2>3, LooksKeepGuests DEF Guests!Idle
<1>3. CASE found # {}
  <2>1. resolving' = [resolving EXCEPT ![c] = new]
    BY <1>1, <1>3
  <2>2. found \in SUBSET Guests!Id
    BY DEF Guests!find_by_identity, Guests!Committed
  <2>3. answer \in found
    <3> HIDE DEF found
    <3>1. QED
      BY <1>3, <2>2, MinFound
  <2>4. /\ answer \in Guests!Id /\ answer \in Guests!Committed
        /\ answer \in Guests!Holding(resolving[c].email, resolving[c].phone)
    BY <2>2, <2>3 DEF Guests!find_by_identity
  <2>5. resolving[c] \in [op : {"resolve"}, email : Email \cup {Nothing},
          phone : Phone \cup {Nothing}, at : {"insert", "look_again", "commit", "answered"},
          answer : Guests!Id \cup {Nothing}]
    BY <1>1, GuestCallFacts DEF Guests!Working, GuestsSound
  <2> HIDE DEF answer
  <2>6. new \in [op : {"resolve"}, email : Email \cup {Nothing},
          phone : Phone \cup {Nothing}, at : {"insert", "look_again", "commit", "answered"},
          answer : Guests!Id \cup {Nothing}]
    BY <2>4, <2>5
  <2>7. /\ new \in GuestCall /\ new.op = "resolve" /\ new.at = "answered" /\ new.answer = answer
        /\ new.email = resolving[c].email /\ new.phone = resolving[c].phone
    BY <2>5, <2>6 DEF GuestCall
  <2> HIDE DEF new
  <2>8. resolving'[c] = new
    BY <2>1 DEF GuestsSound, GuestsTyped
  <2>9. SaverKnows(c)'
    BY <2>7, <2>8 DEF SaverKnows
  <2>10. new.email # Nothing \/ new.phone # Nothing
    BY <2>5, <2>7 DEF GuestsSound, ResolveKnows
  <2>11. ResolveKnows(c)'
    BY <1>1, <2>4, <2>7, <2>8, <2>10
    DEF ResolveKnows, Has, Guests!Working, Guests!Committed, Guests!Live, Guests!Holding
  <2>12. QED
    BY <1>1, <2>1, <2>7, <2>9, <2>11, LooksKeepGuests
<1>4. QED
  BY <1>2, <1>3

LEMMA ReadsKeepGuests ==
  ASSUME GuestConstants, GuestsSound, NEW c \in Caller, Guests!MergeRead(c) \/ Guests!EraseRead(c)
  PROVE  GuestsSound'
<1>1. PICK new \in GuestCall :
        /\ resolving' = [resolving EXCEPT ![c] = new]
        /\ new.op \in {"merge", "erase"} /\ new.at = "save" /\ new.id \in Guests!Committed
        /\ new.row = profile[new.id] /\ new.row \in Guests!Row
        /\ new.op = "merge" => new.row.status = "active"
  <2>1. \A p \in Guests!Committed : p \in Guests!Id /\ profile[p] \in Guests!Row
    BY DEF Guests!Committed, GuestsSound, GuestsTyped
  <2>2. CASE Guests!MergeRead(c)
    <3>1. PICK from \in Guests!Committed, into \in Guests!Committed :
            /\ profile[from].status = "active"
            /\ resolving' = [resolving EXCEPT ![c] =
                 [op |-> "merge", at |-> "save", id |-> from, into |-> into, row |-> profile[from]]]
      BY <2>2 DEF Guests!MergeRead
    <3> DEFINE new == [op |-> "merge", at |-> "save", id |-> from, into |-> into, row |-> profile[from]]
    <3>2. /\ new \in GuestCall /\ new.op = "merge" /\ new.at = "save" /\ new.id = from
          /\ new.row = profile[from]
      BY <2>1 DEF GuestCall
    <3>3. resolving' = [resolving EXCEPT ![c] = new]
      BY <3>1
    <3> HIDE DEF new
    <3>4. QED
      BY <2>1, <3>1, <3>2, <3>3
  <2>3. CASE Guests!EraseRead(c)
    <3>1. PICK p \in Guests!Committed :
            resolving' = [resolving EXCEPT ![c] =
              [op |-> "erase", at |-> "save", id |-> p, row |-> profile[p]]]
      BY <2>3 DEF Guests!EraseRead
    <3> DEFINE new == [op |-> "erase", at |-> "save", id |-> p, row |-> profile[p]]
    <3>2. /\ new \in GuestCall /\ new.op = "erase" /\ new.at = "save" /\ new.id = p
          /\ new.row = profile[p]
      BY <2>1 DEF GuestCall
    <3>3. resolving' = [resolving EXCEPT ![c] = new]
      BY <3>1
    <3> HIDE DEF new
    <3>4. QED
      BY <2>1, <3>1, <3>2, <3>3
  <2>4. QED
    BY <2>2, <2>3
<1>2. UNCHANGED <<profile_ids, profile, inserting>>
  BY DEF Guests!MergeRead, Guests!EraseRead
<1>3. resolving'[c] = new
  BY <1>1 DEF GuestsSound, GuestsTyped
<1>4. ResolveKnows(c)'
  BY <1>1, <1>3 DEF ResolveKnows, Guests!Working
<1>5. new.row.version =< new.row.version
  BY <1>1 DEF Guests!Row, GuestConstants
<1>6. SaverKnows(c)'
  BY <1>1, <1>2, <1>3, <1>5 DEF SaverKnows, Guests!Committed
<1>7. QED
  BY <1>1, <1>2, <1>4, <1>6, LooksKeepGuests

-----------------------------------------------------------------------------
(* The three writes of rows. *)

LEMMA InsertKeepsGuests ==
  ASSUME GuestConstants, GuestsSound, NEW c \in Caller, Guests!Insert(c)
  PROVE  GuestsSound'
<1>1. /\ Guests!Working(c, "resolve", "insert")
      /\ Guests!Conflicting(resolving[c].email, resolving[c].phone) \cap inserting = {}
  BY DEF Guests!Insert
<1>2. resolving[c] \in [op : {"resolve"}, email : Email \cup {Nothing},
        phone : Phone \cup {Nothing}, at : {"insert", "look_again", "commit", "answered"},
        answer : Guests!Id \cup {Nothing}]
  BY <1>1, GuestCallFacts DEF Guests!Working, GuestsSound
<1>3. CASE Guests!Conflicting(resolving[c].email, resolving[c].phone) # {}
  <2> DEFINE new == [resolving[c] EXCEPT !.at = "look_again"]
  <2>1. resolving' = [resolving EXCEPT ![c] = new] /\ UNCHANGED <<profile_ids, profile, inserting>>
    BY <1>3 DEF Guests!Insert
  <2>2. /\ new \in GuestCall /\ new.op = "resolve" /\ new.at = "look_again"
        /\ new.email = resolving[c].email /\ new.phone = resolving[c].phone
    BY <1>2 DEF GuestCall
  <2> HIDE DEF new
  <2>3. resolving'[c] = new
    BY <2>1 DEF GuestsSound, GuestsTyped
  <2>4. ResolveKnows(c)' /\ SaverKnows(c)'
    BY <1>2, <2>2, <2>3 DEF GuestsSound, ResolveKnows, SaverKnows, Guests!Working
  <2>5. QED
    BY <2>1, <2>2, <2>4, LooksKeepGuests
<1>4. CASE Guests!Conflicting(resolving[c].email, resolving[c].phone) = {}
  <2>1. PICK p \in Guests!Id : p = profile_ids + 1 /\ profile_ids < MaxProfile
    BY <1>4 DEF Guests!Insert, GuestsSound, GuestsTyped, GuestConstants, Guests!Id
  <2> DEFINE row == [email |-> resolving[c].email, phone |-> resolving[c].phone, version |-> 0,
                     status |-> "active", merged_into |-> Nothing, erased |-> FALSE]
             new == [resolving[c] EXCEPT !.at = "commit", !.answer = p]
  <2>2. /\ profile_ids' = p /\ profile' = [profile EXCEPT ![p] = row]
        /\ inserting' = inserting \cup {p}
        /\ resolving' = [resolving EXCEPT ![c].at = "commit", ![c].answer = p]
    BY <1>4, <2>1 DEF Guests!Insert
  <2>3. resolving' = [resolving EXCEPT ![c] = new]
    BY <2>2 DEF GuestsSound, GuestsTyped
  <2>18. PICK email \in Email \cup {Nothing}, phone \in Phone \cup {Nothing} :
           resolving[c].email = email /\ resolving[c].phone = phone
    BY <1>2
  <2>4. /\ row \in Guests!Row /\ row.email = email /\ row.phone = phone
        /\ ~row.erased /\ row.merged_into = Nothing /\ row # Nothing
    <3>1. 0 \in 0..MaxSaves
      BY DEF GuestConstants
    <3>2. row \in Guests!Row
      BY <2>18, <3>1 DEF Guests!Row
    <3>3. QED
      BY <2>18, <3>2 DEF GuestConstants
  <2>5. new \in [op : {"resolve"}, email : Email \cup {Nothing},
          phone : Phone \cup {Nothing}, at : {"insert", "look_again", "commit", "answered"},
          answer : Guests!Id \cup {Nothing}]
    BY <1>2
  <2>6. /\ new \in GuestCall /\ new.op = "resolve" /\ new.at = "commit" /\ new.answer = p
        /\ new.email = email /\ new.phone = phone
    BY <1>2, <2>5, <2>18 DEF GuestCall
  <2> HIDE DEF row, new
  <2>7. /\ profile[p] = Nothing
        /\ profile'[p] = row /\ \A q \in Guests!Id : q # p => profile'[q] = profile[q]
    BY <2>1, <2>2 DEF GuestsSound, GuestsTyped, Guests!Id
  <2>8. resolving'[c] = new /\ \A d \in Caller \ {c} : resolving'[d] = resolving[d]
    BY <2>3 DEF GuestsSound, GuestsTyped
  <2>9. GuestsTyped'
    <3>1. p \in 0..MaxProfile
      BY <2>1 DEF GuestConstants, Guests!Id
    <3>2. profile' \in [Guests!Id -> Guests!Row \cup {Nothing}]
      BY <2>2, <2>4 DEF GuestsSound, GuestsTyped
    <3>3. resolving' \in [Caller -> GuestCall]
      BY <2>3, <2>6 DEF GuestsSound, GuestsTyped
    <3>4. \A q \in Guests!Id : q > p => profile'[q] = Nothing
      BY <2>1, <2>7 DEF GuestsSound, GuestsTyped, Guests!Id
    <3>5. QED
      BY <2>2, <3>1, <3>2, <3>3, <3>4 DEF GuestsSound, GuestsTyped
  <2>10. RowsKept'
    <3>1. inserting \subseteq Guests!Id /\ p \notin inserting
      BY <2>7 DEF GuestsSound, GuestsTyped, RowsKept
    <3>2. QED
      BY <2>2, <2>4, <2>7, <3>1 DEF GuestsSound, RowsKept
  <2>11. Guests!Live' = Guests!Live \cup {p} /\ p \notin Guests!Live /\ Guests!Live \subseteq Guests!Id
    BY <2>4, <2>7 DEF Guests!Live
  <2>12. LiveDistinct'
    <3>1. \A q \in Guests!Live : ~SharesContact(q, p)' /\ ~SharesContact(p, q)'
      BY <1>4, <2>4, <2>7, <2>11, <2>18 DEF SharesContact, Guests!Conflicting, Guests!Holding
    <3>2. \A q, r \in Guests!Live : SharesContact(q, r)' <=> SharesContact(q, r)
      BY <2>7, <2>11 DEF SharesContact
    <3>3. QED
      BY <2>11, <3>1, <3>2 DEF GuestsSound, LiveDistinct
  <2>13. Guests!Committed' = Guests!Committed /\ p \notin Guests!Committed
    BY <2>2, <2>4, <2>7 DEF Guests!Committed
  <2>14. ASSUME NEW d \in Caller
         PROVE  SaverKnows(d)'
    <3>1. CASE d = c
      BY <2>6, <2>8, <3>1 DEF SaverKnows
    <3>2. CASE d # c
      BY <2>7, <2>8, <2>13, <3>2 DEF GuestsSound, SaverKnows, Guests!Committed
    <3>3. QED
      BY <3>1, <3>2
  <2>15. ResolveKnows(c)'
    <3>1. email # Nothing \/ phone # Nothing
      BY <1>2, <2>18 DEF GuestsSound, ResolveKnows
    <3>2. Has(p, email, phone)'
      BY <2>4, <2>7, <3>1 DEF Has
    <3>3. \A d \in Caller \ {c} : Guests!Working(d, "resolve", "commit")' => resolving'[d].answer # p
      BY <2>7, <2>8 DEF GuestsSound, RowsKept, ResolveKnows, Guests!Working
    <3>4. QED
      <4>1. /\ resolving'[c].op = "resolve" /\ resolving'[c].at = "commit"
            /\ resolving'[c].answer = p /\ p \in inserting'
            /\ resolving'[c].email = email /\ resolving'[c].phone = phone
        BY <2>2, <2>6, <2>8
      <4>2. Has(p, email, phone)' <=> \/ email # Nothing /\ profile'[p].email = email
                                      \/ phone # Nothing /\ profile'[p].phone = phone
        BY DEF Has
      <4>3. QED
        BY <3>1, <3>2, <3>3, <4>1, <4>2 DEF ResolveKnows, Guests!Working, Has
  <2>16. ASSUME NEW d \in Caller \ {c}
         PROVE  ResolveKnows(d)'
    <3>1. resolving'[d] = resolving[d] /\ ResolveKnows(d)
      BY <2>8 DEF GuestsSound
    <3>2. Guests!Working(d, "resolve", "commit") => resolving[d].answer # p
      BY <2>7 DEF GuestsSound, RowsKept, ResolveKnows
    <3>3. Guests!Working(d, "resolve", "answered") => resolving[d].answer # p
      BY <2>13, <3>1 DEF ResolveKnows
    <3>4. \A q : q # p /\ q \in Guests!Live => q \in Guests!Live'
      BY <2>11
    <3>5. \A q \in Guests!Live : profile'[q] = profile[q]
      BY <2>7, <2>11
    <3>6. \A q : q # p /\ q \in Guests!Live' => q \in Guests!Live
      BY <2>11
    <3>7. \A e \in Caller \ {d} : Guests!Working(e, "resolve", "commit")' =>
            e = c \/ (Guests!Working(e, "resolve", "commit") /\ resolving'[e] = resolving[e])
      BY <2>8 DEF Guests!Working
    <3>8. resolving'[c].answer = p
      BY <2>6, <2>8
    <3>9. inserting \subseteq inserting'
      BY <2>2
    <3>10. ASSUME Guests!Working(d, "resolve", "commit")
           PROVE  \A e \in Caller \ {d} : Guests!Working(e, "resolve", "commit")' =>
                    resolving'[e].answer # resolving[d].answer
      BY <3>1, <3>2, <3>7, <3>8, <3>10 DEF ResolveKnows
    <3>11. ASSUME \/ Guests!Working(d, "resolve", "commit")
                  \/ Guests!Working(d, "resolve", "answered"),
                  resolving[d].answer \in Guests!Live'
           PROVE  \/ resolving[d].email # Nothing
                     /\ profile'[resolving[d].answer].email = resolving[d].email
                  \/ resolving[d].phone # Nothing
                     /\ profile'[resolving[d].answer].phone = resolving[d].phone
      BY <3>1, <3>2, <3>3, <3>5, <3>6, <3>11 DEF ResolveKnows, Has
    <3>12. QED
      BY <2>13, <3>1, <3>9, <3>10, <3>11 DEF ResolveKnows, Guests!Working, Has
  <2>17. QED
    BY <2>9, <2>10, <2>12, <2>14, <2>15, <2>16 DEF GuestsSound
<1>5. QED
  BY <1>3, <1>4

LEMMA RequestEndKeepsGuests ==
  ASSUME GuestConstants, GuestsSound, NEW c \in Caller, Guests!RequestEnds(c)
  PROVE  GuestsSound'
<1>1. /\ Guests!Working(c, "resolve", "commit")
      /\ inserting' = inserting \ {resolving[c].answer} /\ UNCHANGED profile_ids
  BY DEF Guests!RequestEnds
<1>2. resolving[c] \in [op : {"resolve"}, email : Email \cup {Nothing},
        phone : Phone \cup {Nothing}, at : {"insert", "look_again", "commit", "answered"},
        answer : Guests!Id \cup {Nothing}]
  BY <1>1, GuestCallFacts DEF Guests!Working, GuestsSound
<1>3. PICK p \in inserting : p = resolving[c].answer
  BY <1>1 DEF GuestsSound, ResolveKnows
<1>4. p \in Guests!Id /\ inserting' = inserting \ {p} /\ profile[p] # Nothing
  BY <1>1, <1>3 DEF GuestsSound, GuestsTyped, RowsKept
<1>5. ASSUME NEW d \in Caller \ {c}
      PROVE  Guests!Working(d, "resolve", "commit") => resolving[d].answer # p
  BY <1>1, <1>3 DEF GuestsSound, ResolveKnows
<1>6. CASE resolving' = [resolving EXCEPT ![c].at = "answered"] /\ UNCHANGED profile
  <2> DEFINE new == [resolving[c] EXCEPT !.at = "answered"]
  <2>1. resolving' = [resolving EXCEPT ![c] = new]
    BY <1>6
  <2>2. new \in [op : {"resolve"}, email : Email \cup {Nothing},
          phone : Phone \cup {Nothing}, at : {"insert", "look_again", "commit", "answered"},
          answer : Guests!Id \cup {Nothing}]
    BY <1>2
  <2>3. /\ new \in GuestCall /\ new.op = "resolve" /\ new.at = "answered" /\ new.answer = p
        /\ new.email = resolving[c].email /\ new.phone = resolving[c].phone
    BY <1>2, <1>3, <2>2 DEF GuestCall
  <2> HIDE DEF new
  <2>4. resolving'[c] = new /\ \A d \in Caller \ {c} : resolving'[d] = resolving[d]
    BY <2>1 DEF GuestsSound, GuestsTyped
  <2>5. Guests!Committed' = Guests!Committed \cup {p}
    BY <1>4, <1>6 DEF Guests!Committed
  <2>6. GuestsTyped' /\ RowsKept' /\ LiveDistinct'
    BY <1>1, <1>4, <1>6, <2>1, <2>3
    DEF GuestsSound, GuestsTyped, RowsKept, LiveDistinct, SharesContact, Guests!Live
  <2>7. SaverKnows(c)'
    BY <2>3, <2>4 DEF SaverKnows
  <2>8. ResolveKnows(c)'
    BY <1>1, <1>3, <1>6, <2>3, <2>4, <2>5
    DEF GuestsSound, ResolveKnows, Has, Guests!Working, Guests!Live
  <2>9. ASSUME NEW d \in Caller \ {c}
        PROVE  SaverKnows(d)'
    BY <1>6, <2>4, <2>5 DEF GuestsSound, SaverKnows
  <2>10. ASSUME NEW d \in Caller \ {c}
         PROVE  ResolveKnows(d)'
    <3>1. resolving'[d] = resolving[d] /\ ResolveKnows(d)
      BY <2>4 DEF GuestsSound
    <3>2. \A e \in Caller : Guests!Working(e, "resolve", "commit")' =>
            Guests!Working(e, "resolve", "commit") /\ resolving'[e] = resolving[e]
      BY <2>3, <2>4 DEF Guests!Working
    <3>3. QED
      BY <1>4, <1>5, <1>6, <2>5, <3>1, <3>2 DEF ResolveKnows, Has, Guests!Working, Guests!Live
  <2>11. QED
    BY <2>6, <2>7, <2>8, <2>9, <2>10 DEF GuestsSound
<1>7. CASE /\ resolving' = [resolving EXCEPT ![c] = Guests!Idle]
           /\ profile' = [profile EXCEPT ![resolving[c].answer] = Nothing]
  <2>1. Guests!Idle \in GuestCall /\ Guests!Idle.op = "none"
    BY DEF GuestCall, Guests!Idle
  <2>2. resolving'[c] = Guests!Idle /\ \A d \in Caller \ {c} : resolving'[d] = resolving[d]
    BY <1>7 DEF GuestsSound, GuestsTyped
  <2>3. profile'[p] = Nothing /\ \A q \in Guests!Id \ {p} : profile'[q] = profile[q]
    BY <1>3, <1>4, <1>7 DEF GuestsSound, GuestsTyped
  <2>4. GuestsTyped'
    <3>1. profile' \in [Guests!Id -> Guests!Row \cup {Nothing}]
      BY <1>7 DEF GuestsSound, GuestsTyped
    <3>2. resolving' \in [Caller -> GuestCall]
      BY <1>7, <2>1 DEF GuestsSound, GuestsTyped
    <3>3. \A q \in Guests!Id : q > profile_ids => profile'[q] = Nothing
      BY <2>3 DEF GuestsSound, GuestsTyped
    <3>4. QED
      BY <1>1, <3>1, <3>2, <3>3 DEF GuestsSound, GuestsTyped
  <2>5. RowsKept'
    BY <1>4, <2>3 DEF GuestsSound, GuestsTyped, RowsKept
  <2>6. Guests!Committed' = Guests!Committed /\ p \notin Guests!Committed
    BY <1>3, <1>4, <2>3 DEF Guests!Committed
  <2>7. Guests!Live' \subseteq Guests!Live /\ p \notin Guests!Live' /\ Guests!Live' \subseteq Guests!Id
    BY <2>3 DEF Guests!Live
  <2>8. LiveDistinct'
    BY <2>3, <2>7 DEF GuestsSound, LiveDistinct, SharesContact
  <2>9. ASSUME NEW d \in Caller
        PROVE  SaverKnows(d)'
    <3>1. CASE d = c
      BY <2>1, <2>2, <3>1 DEF SaverKnows
    <3>2. CASE d # c
      BY <2>2, <2>3, <2>6, <3>2 DEF GuestsSound, SaverKnows, Guests!Committed
    <3>3. QED
      BY <3>1, <3>2
  <2>10. ASSUME NEW d \in Caller
         PROVE  ResolveKnows(d)'
    <3>1. CASE d = c
      BY <2>1, <2>2, <3>1 DEF ResolveKnows, Guests!Working
    <3>2. CASE d # c
      <4>1. resolving'[d] = resolving[d] /\ ResolveKnows(d)
        BY <2>2, <3>2 DEF GuestsSound
      <4>2. \A e \in Caller : Guests!Working(e, "resolve", "commit")' =>
              Guests!Working(e, "resolve", "commit") /\ resolving'[e] = resolving[e]
        BY <2>1, <2>2 DEF Guests!Working
      <4>3. \A q \in Guests!Live' : q \in Guests!Live /\ profile'[q] = profile[q]
        BY <2>3, <2>7
      <4>4. QED
        BY <1>4, <1>5, <2>6, <3>2, <4>1, <4>2, <4>3 DEF ResolveKnows, Has, Guests!Working
    <3>3. QED
      BY <3>1, <3>2
  <2>11. QED
    BY <2>4, <2>5, <2>8, <2>9, <2>10 DEF GuestsSound
<1>8. QED
  BY <1>6, <1>7 DEF Guests!RequestEnds

(* What a save writes, over the row as it is there. *)
LEMMA SaveWrites ==
  ASSUME GuestConstants, GuestsSound, NEW c \in Caller, Guests!Save(c), Guests!Saveable(c)
  PROVE  \E p \in Guests!Committed, row \in Guests!Row :
           /\ profile' = [profile EXCEPT ![p] = row] /\ profile[p] \in Guests!Row
           /\ row.version > profile[p].version
           /\ profile[p].erased => row.erased
           /\ ~row.erased => ~profile[p].erased /\ row.email = profile[p].email /\ row.phone = profile[p].phone
           /\ ~row.erased /\ row.merged_into = Nothing => profile[p].merged_into = Nothing
           /\ row.erased => row.email = Nothing /\ row.phone = Nothing /\ row.status = "closed"
<1> DEFINE p == resolving[c].id
           read == resolving[c].row
<1>1. /\ p \in Guests!Committed /\ p \in Guests!Id /\ read = profile[p] /\ read \in Guests!Row
      /\ resolving[c].op = "merge" => read.status = "active" /\ resolving[c].into \in Guests!Id
      /\ resolving[c].op \in {"merge", "erase"}
  BY GuestCallFacts DEF Guests!Save, Guests!Saveable, GuestsSound, SaverKnows
<1>2. profile' = [profile EXCEPT ![p] = Guests!Written(c)]
  BY DEF Guests!Save
<1>3. read.version + 1 \in 0..MaxSaves /\ read.version + 1 > read.version
  BY <1>1 DEF Guests!Save, Guests!Bounded, Guests!Row, GuestConstants
<1>4. CASE resolving[c].op = "merge"
  <2> DEFINE row == [read EXCEPT !.merged_into = resolving[c].into, !.status = "merged", !.version = @ + 1]
  <2>1. Guests!Written(c) = row
    BY <1>1, <1>4 DEF Guests!Written, Guests!Row
  <2>2. row \in Guests!Row
    BY <1>1, <1>3, <1>4 DEF Guests!Row
  <2>3. /\ row.version = read.version + 1 /\ row.erased = read.erased
        /\ row.email = read.email /\ row.phone = read.phone /\ row.status = "merged"
        /\ row.merged_into = resolving[c].into
    BY <1>1 DEF Guests!Row
  <2>4. ~read.erased
    BY <1>1, <1>4 DEF GuestsSound, RowsKept, GuestConstants
  <2>5. row.merged_into # Nothing
    BY <1>1, <1>4, <2>3 DEF GuestConstants, Guests!Id
  <2> HIDE DEF row
  <2>6. QED
    BY <1>1, <1>2, <1>3, <2>1, <2>2, <2>3, <2>4, <2>5
<1>5. CASE resolving[c].op = "erase"
  <2> DEFINE row == [read EXCEPT !.email = Nothing, !.phone = Nothing, !.status = "closed",
                                 !.erased = TRUE, !.version = @ + 1]
  <2>1. Guests!Written(c) = row
    BY <1>1, <1>5 DEF Guests!Written, Guests!Row
  <2>2. row \in Guests!Row
    BY <1>1, <1>3 DEF Guests!Row
  <2>3. /\ row.version = read.version + 1 /\ row.erased
        /\ row.email = Nothing /\ row.phone = Nothing /\ row.status = "closed"
    BY <1>1 DEF Guests!Row
  <2> HIDE DEF row
  <2>4. QED
    BY <1>1, <1>2, <1>3, <2>1, <2>2, <2>3
<1>6. QED
  BY <1>1, <1>4, <1>5

LEMMA SaveKeepsGuests ==
  ASSUME GuestConstants, GuestsSound, NEW c \in Caller, Guests!Save(c)
  PROVE  GuestsSound'
<1>1. /\ resolving' = [resolving EXCEPT ![c] = Guests!Idle] /\ UNCHANGED <<profile_ids, inserting>>
      /\ resolving[c].op \in {"merge", "erase"}
  BY DEF Guests!Save
<1>2. CASE ~Guests!Saveable(c)
  <2>1. UNCHANGED profile
    BY <1>2 DEF Guests!Save
  <2>2. resolving'[c] = Guests!Idle /\ Guests!Idle \in GuestCall
    BY <1>1 DEF GuestsSound, GuestsTyped, GuestCall
  <2>3. ResolveKnows(c)' /\ SaverKnows(c)'
    BY <2>2 DEF ResolveKnows, SaverKnows, Guests!Working, Guests!Idle
  <2>4. QED
    BY <1>1, <2>1, <2>2, <2>3, LooksKeepGuests DEF Guests!Idle
<1>3. CASE Guests!Saveable(c)
  <2>1. PICK p \in Guests!Committed, row \in Guests!Row :
          /\ profile' = [profile EXCEPT ![p] = row] /\ profile[p] \in Guests!Row
          /\ row.version > profile[p].version
          /\ profile[p].erased => row.erased
          /\ ~row.erased => ~profile[p].erased /\ row.email = profile[p].email /\ row.phone = profile[p].phone
          /\ ~row.erased /\ row.merged_into = Nothing => profile[p].merged_into = Nothing
          /\ row.erased => row.email = Nothing /\ row.phone = Nothing /\ row.status = "closed"
    BY <1>3, SaveWrites
  <2>2. /\ p \in Guests!Id /\ p \notin inserting /\ profile[p] # Nothing /\ row # Nothing
        /\ profile'[p] = row /\ \A q \in Guests!Id \ {p} : profile'[q] = profile[q]
    BY <2>1 DEF Guests!Committed, GuestsSound, GuestsTyped, GuestConstants
  <2>3. Guests!Idle \in GuestCall /\ Guests!Idle.op = "none"
    BY DEF GuestCall, Guests!Idle
  <2>4. resolving'[c] = Guests!Idle /\ \A d \in Caller \ {c} : resolving'[d] = resolving[d]
    BY <1>1 DEF GuestsSound, GuestsTyped
  <2>5. GuestsTyped'
    <3>1. profile' \in [Guests!Id -> Guests!Row \cup {Nothing}]
      BY <2>1 DEF GuestsSound, GuestsTyped
    <3>2. resolving' \in [Caller -> GuestCall]
      BY <1>1, <2>3 DEF GuestsSound, GuestsTyped
    <3>3. \A q \in Guests!Id : q > profile_ids => profile'[q] = Nothing
      BY <2>2 DEF GuestsSound, GuestsTyped
    <3>4. QED
      BY <1>1, <3>1, <3>2, <3>3 DEF GuestsSound, GuestsTyped
  <2>6. RowsKept'
    <3>1. inserting \subseteq Guests!Id
      BY DEF GuestsSound, GuestsTyped
    <3>2. QED
      BY <1>1, <2>1, <2>2, <3>1 DEF GuestsSound, RowsKept
  <2>7. Guests!Committed' = Guests!Committed
    BY <1>1, <2>2 DEF Guests!Committed
  <2>8. ASSUME NEW q \in Guests!Live'
        PROVE  /\ q \in Guests!Live
               /\ profile'[q].email = profile[q].email /\ profile'[q].phone = profile[q].phone
    BY <2>1, <2>2 DEF Guests!Live
  <2>9. LiveDistinct'
    BY <2>8 DEF GuestsSound, LiveDistinct, SharesContact
  <2>10. ASSUME NEW d \in Caller
         PROVE  SaverKnows(d)'
    <3>1. CASE d = c
      BY <2>3, <2>4, <3>1 DEF SaverKnows
    <3>2. CASE d # c
      <4>1. SUFFICES ASSUME resolving[d].op \in {"merge", "erase"}
                     PROVE  LET q == resolving[d].id
                                read == resolving[d].row
                            IN  /\ q \in Guests!Committed
                                /\ read.version =< profile'[q].version
                                /\ read.version = profile'[q].version => read = profile'[q]
                                /\ resolving[d].op = "merge" => read.status = "active"
        BY <2>4, <2>7, <3>2 DEF SaverKnows
      <4>2. SaverKnows(d) /\ resolving[d].id \in Guests!Id /\ resolving[d].row \in Guests!Row
        BY <4>1, GuestCallFacts DEF GuestsSound
      <4>3. CASE resolving[d].id # p
        BY <2>2, <4>1, <4>2, <4>3 DEF SaverKnows
      <4>4. CASE resolving[d].id = p
        <5>1. /\ resolving[d].row.version =< profile[p].version
              /\ p \in Guests!Committed
              /\ resolving[d].op = "merge" => resolving[d].row.status = "active"
          BY <4>1, <4>2, <4>4 DEF SaverKnows
        <5>2. /\ resolving[d].row.version \in Int /\ row.version \in Int /\ profile[p].version \in Int
          BY <2>1, <4>2 DEF Guests!Row
        <5>3. resolving[d].row.version < row.version
          BY <2>1, <5>1, <5>2
        <5>4. QED
          BY <2>2, <4>4, <5>1, <5>2, <5>3
      <4>5. QED
        BY <4>3, <4>4
    <3>3. QED
      BY <3>1, <3>2
  <2>11. ASSUME NEW d \in Caller
         PROVE  ResolveKnows(d)'
    <3>1. CASE d = c
      BY <2>3, <2>4, <3>1 DEF ResolveKnows, Guests!Working
    <3>2. CASE d # c
      <4>1. resolving'[d] = resolving[d] /\ ResolveKnows(d)
        BY <2>4, <3>2 DEF GuestsSound
      <4>2. \A e \in Caller : Guests!Working(e, "resolve", "commit")' =>
              Guests!Working(e, "resolve", "commit") /\ resolving'[e] = resolving[e]
        BY <2>3, <2>4 DEF Guests!Working
      <4>3. QED
        BY <1>1, <2>7, <2>8, <4>1, <4>2 DEF ResolveKnows, Has, Guests!Working
    <3>3. QED
      BY <3>1, <3>2
  <2>12. QED
    BY <2>5, <2>6, <2>9, <2>10, <2>11 DEF GuestsSound
<1>4. QED
  BY <1>2, <1>3

LEMMA GuestsStep ==
  ASSUME GuestConstants, GuestsSound, [Guests!Next]_guestVars
  PROVE  GuestsSound'
<1>1. CASE UNCHANGED guestVars
  BY <1>1 DEF guestVars, GuestsSound, GuestsTyped, RowsKept, LiveDistinct, SharesContact,
     ResolveKnows, Has, SaverKnows, Guests!Committed, Guests!Live, Guests!Working
<1>2. QED
  BY <1>1, ResolveKeepsGuests, InsertKeepsGuests, LookAgainKeepsGuests, RequestEndKeepsGuests,
     ReadsKeepGuests, SaveKeepsGuests DEF Guests!Next

LEMMA GuestsInit ==
  ASSUME GuestConstants, Guests!Init
  PROVE  GuestsSound
<1>1. Guests!Idle \in GuestCall /\ Guests!Idle.op = "none"
  BY DEF GuestCall, Guests!Idle
<1>2. GuestsTyped
  BY <1>1 DEF Guests!Init, GuestsTyped, GuestConstants
<1>3. RowsKept /\ LiveDistinct
  BY DEF Guests!Init, RowsKept, LiveDistinct, Guests!Live
<1>4. \A c \in Caller : resolving[c].op = "none"
  BY <1>1 DEF Guests!Init
<1>5. QED
  BY <1>2, <1>3, <1>4 DEF GuestsSound, ResolveKnows, SaverKnows, Guests!Working

LEMMA GuestsShow ==
  ASSUME GuestConstants, GuestsSound
  PROVE  Guests!TypeOK /\ Guests!AnswersConverge
<1>1. Guests!TypeOK
  <2>1. \A c \in Caller : resolving[c].op \in {"none", "resolve", "merge", "erase"}
    BY DEF GuestsSound, GuestsTyped, GuestCall, Guests!Idle
  <2>2. QED
    BY <2>1 DEF GuestsSound, GuestsTyped, Guests!TypeOK
<1>2. Guests!AnswersConverge
  <2>1. SUFFICES ASSUME NEW c \in Caller, NEW d \in Caller,
                        Guests!Working(c, "resolve", "answered"),
                        Guests!Working(d, "resolve", "answered"),
                        resolving[c].email = resolving[d].email,
                        resolving[c].phone = resolving[d].phone,
                        resolving[c].answer \in Guests!Live, resolving[d].answer \in Guests!Live
                 PROVE  LET a == resolving[c].answer
                            b == resolving[d].answer
                            email == resolving[c].email
                            phone == resolving[c].phone
                        IN  a = b \/ Guests!StandApart(a, b, email, phone)
                                 \/ Guests!StandApart(b, a, email, phone)
    BY DEF Guests!AnswersConverge
  <2> DEFINE a == resolving[c].answer
             b == resolving[d].answer
             email == resolving[c].email
             phone == resolving[c].phone
  <2>2. Has(a, email, phone) /\ Has(b, email, phone)
    BY <2>1 DEF GuestsSound, ResolveKnows
  <2>3. \/ SharesContact(a, b)
        \/ Guests!StandApart(a, b, email, phone) \/ Guests!StandApart(b, a, email, phone)
    BY <2>2 DEF Has, SharesContact, Guests!StandApart
  <2>4. SharesContact(a, b) => a = b
    BY <2>1 DEF GuestsSound, LiveDistinct
  <2>5. QED
    BY <2>3, <2>4
<1>3. QED
  BY <1>1, <1>2

(* Whoever writes, an erased row is erased after it. *)
LEMMA ErasedStays ==
  ASSUME GuestConstants, GuestsSound, GuestsSound', [Guests!Next]_guestVars,
         NEW p \in Guests!Id, profile[p] # Nothing, profile[p].erased
  PROVE  /\ profile'[p] # Nothing /\ profile'[p].erased
         /\ profile'[p].email = Nothing /\ profile'[p].phone = Nothing
<1>1. profile'[p] # Nothing /\ profile'[p].erased
  <2>1. CASE UNCHANGED profile
    BY <2>1
  <2>2. ASSUME NEW c \in Caller, Guests!Insert(c)
        PROVE  profile'[p] # Nothing /\ profile'[p].erased
    <3>1. CASE UNCHANGED profile
      BY <3>1
    <3>2. CASE ~UNCHANGED profile
      <4>1. \A q \in Guests!Id \ {profile_ids + 1} : profile'[q] = profile[q]
        BY <2>2, <3>2 DEF Guests!Insert, GuestsSound, GuestsTyped
      <4>2. p # profile_ids + 1
        BY DEF GuestsSound, GuestsTyped, Guests!Id
      <4>3. QED
        BY <4>1, <4>2
    <3>3. QED
      BY <3>1, <3>2
  <2>3. ASSUME NEW c \in Caller, Guests!RequestEnds(c)
        PROVE  profile'[p] # Nothing /\ profile'[p].erased
    <3>1. resolving[c].answer \in inserting
      BY <2>3 DEF Guests!RequestEnds, GuestsSound, ResolveKnows
    <3>2. resolving[c].answer # p
      BY <3>1 DEF GuestsSound, RowsKept
    <3>3. QED
      BY <2>3, <3>2 DEF Guests!RequestEnds, GuestsSound, GuestsTyped
  <2>4. ASSUME NEW c \in Caller, Guests!Save(c)
        PROVE  profile'[p] # Nothing /\ profile'[p].erased
    <3>1. CASE ~Guests!Saveable(c)
      BY <2>4, <3>1 DEF Guests!Save
    <3>2. CASE Guests!Saveable(c)
      <4>1. PICK q \in Guests!Committed, row \in Guests!Row :
              profile' = [profile EXCEPT ![q] = row] /\ (profile[q].erased => row.erased)
        BY <2>4, <3>2, SaveWrites
      <4>2. row # Nothing
        BY DEF GuestConstants
      <4>3. QED
        BY <4>1, <4>2 DEF GuestsSound, GuestsTyped
    <3>3. QED
      BY <3>1, <3>2
  <2>5. QED
    BY <2>1, <2>2, <2>3, <2>4 DEF Guests!Next, guestVars, Guests!Resolve, Guests!LookAgain,
       Guests!MergeRead, Guests!EraseRead
<1>2. QED
  BY <1>1 DEF GuestsSound, RowsKept

-----------------------------------------------------------------------------
(* Consents (apps/guests/services.py).                                      *)

ConsentsTyped ==
  /\ consents \subseteq Consents!GuestConsent
  /\ giving \in [Giver -> ConsentCall \cup {Nothing}]
  /\ said \in [Purpose -> Consents!State \cup {Nothing}]
  /\ refused = FALSE
  /\ \E b \in Nat : \A r \in consents : r.granted_at <= b

(* A row that is not committed is the one its call has inserted. *)
RowsOwned ==
  /\ \A r \in consents : r.giver # Nothing =>
       /\ Consents!At(r.giver, "commit")
       /\ r.purpose = giving[r.giver].purpose /\ r.granted_at = giving[r.giver].granted_at
       /\ r.state = giving[r.giver].state
  /\ \A c \in Giver : Consents!At(c, "commit") => \E r \in consents : r.giver = c

(* While no other call for its purpose has run, a call is the latest. *)
AloneKnows(c) ==
  giving[c] # Nothing /\ giving[c].alone =>
    /\ \A d \in Giver \ {c} : ~Consents!For(d, giving[c].purpose)
    /\ \A r \in consents : r.purpose = giving[c].purpose /\ r.giver # c =>
         r.granted_at < giving[c].granted_at

ConsentsSound ==
  /\ ConsentsTyped /\ RowsOwned
  /\ \A c \in Giver : AloneKnows(c)
  /\ Consents!ConsentsStand

LEMMA CurrentIsLatest ==
  ASSUME ConsentConstants, ConsentsTyped, NEW p, Consents!Committed(p) # {}
  PROVE  /\ Consents!current_consent(p) \in Consents!Committed(p)
         /\ Consents!current_consent(p) # Nothing
         /\ \A q \in Consents!Committed(p) : q.granted_at =< Consents!current_consent(p).granted_at
<1> DEFINE Rows == Consents!Committed(p)
           Times == {r.granted_at : r \in Rows}
<1>1. Rows \subseteq consents /\ \A r \in Rows : r \in Consents!GuestConsent /\ r.granted_at \in Nat
  BY DEF Consents!Committed, ConsentsTyped, Consents!GuestConsent
<1>2. Times \in SUBSET Nat /\ Times # {}
  BY <1>1
<1>3. PICK b \in Nat : \A r \in consents : r.granted_at <= b
  BY DEF ConsentsTyped
<1>4. \A t \in Times : t <= b
  BY <1>1, <1>3
<1>5. PICK t \in Times : \A u \in Times : u <= t
  <2> HIDE DEF Times
  <2>1. QED
    BY <1>2, <1>4, GreatestExists
<1>6. PICK r \in Rows : \A q \in Rows : q.granted_at =< r.granted_at
  BY <1>5
<1>7. Consents!current_consent(p) =
        CHOOSE x \in Rows : \A q \in Rows : q.granted_at =< x.granted_at
  BY DEF Consents!current_consent
<1> HIDE DEF Rows, Times
<1>8. /\ Consents!current_consent(p) \in Rows
      /\ \A q \in Rows : q.granted_at =< Consents!current_consent(p).granted_at
  BY <1>6, <1>7
<1>9. QED
  BY <1>1, <1>8 DEF Rows, ConsentConstants

LEMMA LatestIsChosen ==
  ASSUME NEW Rows, \A q \in Rows : q.granted_at \in Nat, NEW r \in Rows,
         \A q \in Rows : q = r \/ q.granted_at < r.granted_at
  PROVE  (CHOOSE x \in Rows : \A q \in Rows : q.granted_at =< x.granted_at) = r
<1> DEFINE chosen == CHOOSE x \in Rows : \A q \in Rows : q.granted_at =< x.granted_at
<1>1. \A q \in Rows : q.granted_at =< r.granted_at
  OBVIOUS
<1>2. chosen \in Rows /\ \A q \in Rows : q.granted_at =< chosen.granted_at
  BY <1>1
<1> HIDE DEF chosen
<1>3. chosen = r
  <2>1. r.granted_at =< chosen.granted_at /\ chosen.granted_at \in Nat /\ r.granted_at \in Nat
    BY <1>2
  <2>2. QED
    BY <1>2, <2>1
<1>4. QED
  BY <1>3 DEF chosen

LEMMA GiveKeepsConsents ==
  ASSUME ConsentConstants, ConsentsSound, NEW c \in Giver, NEW p \in Purpose,
         NEW state \in Consents!State, NEW now \in Nat, Consents!Give(c, p, state, now)
  PROVE  ConsentsSound'
<1> DEFINE at == Consents!next_granted_at(p, now)
           alone == \A e \in Giver : ~Consents!For(e, p)
           new == [step |-> "insert", purpose |-> p, state |-> state, granted_at |-> at,
                   alone |-> alone]
<1>1. /\ giving[c] = Nothing /\ UNCHANGED <<consents, said, refused>>
      /\ giving' = [d \in Giver |->
           IF d = c THEN new
           ELSE IF Consents!For(d, p) THEN [giving[d] EXCEPT !.alone = FALSE] ELSE giving[d]]
  BY DEF Consents!Give
<1>2. ASSUME NEW r \in consents, r.purpose = p, r.giver = Nothing
      PROVE  r.granted_at < at
  <2>1. r \in Consents!Committed(p)
    BY <1>2 DEF Consents!Committed
  <2> DEFINE last == Consents!current_consent(p)
  <2>2. last \in Consents!Committed(p) /\ r.granted_at =< last.granted_at /\ last # Nothing
    BY <2>1, CurrentIsLatest DEF ConsentsSound
  <2>3. r.granted_at \in Nat /\ last.granted_at \in Nat
    BY <2>1, <2>2 DEF Consents!Committed, ConsentsSound, ConsentsTyped, Consents!GuestConsent
  <2>4. at = IF last # Nothing /\ now =< last.granted_at THEN last.granted_at + 1 ELSE now
    BY DEF Consents!next_granted_at
  <2> HIDE DEF last, at
  <2>5. QED
    BY <2>2, <2>3, <2>4
<1>3. at \in Nat
  <2>1. CASE Consents!current_consent(p) = Nothing
    BY <2>1 DEF Consents!next_granted_at
  <2>2. CASE Consents!current_consent(p) # Nothing
    <3>1. Consents!Committed(p) # {}
      BY <2>2 DEF Consents!current_consent
    <3>2. Consents!current_consent(p).granted_at \in Nat
      BY <3>1, CurrentIsLatest
      DEF Consents!Committed, ConsentsSound, ConsentsTyped, Consents!GuestConsent
    <3>3. QED
      BY <3>2 DEF Consents!next_granted_at
  <2>3. QED
    BY <2>1, <2>2
<1> HIDE DEF at
<1>4. alone \in BOOLEAN
  OBVIOUS
<1> HIDE DEF alone
<1>5. new \in ConsentCall
  BY <1>3, <1>4 DEF ConsentCall
<1>6. ASSUME NEW d \in Giver \ {c}
      PROVE  /\ giving'[d] \in ConsentCall \cup {Nothing}
             /\ giving'[d] = Nothing <=> giving[d] = Nothing
             /\ giving[d] # Nothing =>
                  /\ giving'[d].step = giving[d].step /\ giving'[d].purpose = giving[d].purpose
                  /\ giving'[d].state = giving[d].state
                  /\ giving'[d].granted_at = giving[d].granted_at
                  /\ giving'[d].alone => giving[d].alone /\ giving[d].purpose # p
  <2>1. giving[d] \in ConsentCall \cup {Nothing}
    BY DEF ConsentsSound, ConsentsTyped
  <2>2. CASE ~Consents!For(d, p)
    <3>1. giving'[d] = giving[d]
      BY <1>1, <2>2
    <3>2. QED
      BY <2>1, <2>2, <3>1 DEF Consents!For
  <2>3. CASE Consents!For(d, p)
    <3>1. giving'[d] = [giving[d] EXCEPT !.alone = FALSE]
      BY <1>1, <2>3
    <3>2. giving[d] \in ConsentCall
      BY <2>1, <2>3 DEF Consents!For
    <3>3. /\ giving'[d] \in ConsentCall
          /\ giving'[d].step = giving[d].step /\ giving'[d].purpose = giving[d].purpose
          /\ giving'[d].state = giving[d].state /\ giving'[d].granted_at = giving[d].granted_at
          /\ ~giving'[d].alone
      BY <3>1, <3>2 DEF ConsentCall
    <3>4. QED
      BY <2>3, <3>3 DEF Consents!For, ConsentConstants
  <2>4. QED
    BY <2>2, <2>3
<1>7. giving'[c] = new
  BY <1>1
<1>8. ConsentsTyped'
  <2>1. giving' \in [Giver -> ConsentCall \cup {Nothing}]
    <3> HIDE DEF new
    <3>1. DOMAIN giving' = Giver /\ giving' = [d \in Giver |-> giving'[d]]
      BY <1>1
    <3>2. \A d \in Giver : giving'[d] \in ConsentCall \cup {Nothing}
      BY <1>5, <1>6, <1>7
    <3>3. QED
      BY <3>1, <3>2
  <2>2. QED
    BY <1>1, <2>1 DEF ConsentsSound, ConsentsTyped
<1>9. RowsOwned'
  <2>1. ~Consents!At(c, "commit") /\ ~Consents!At(c, "commit")'
    BY <1>1, <1>7 DEF Consents!At
  <2>2. ASSUME NEW d \in Giver \ {c}
        PROVE  Consents!At(d, "commit")' <=> Consents!At(d, "commit")
    BY <1>6 DEF Consents!At
  <2>3. ASSUME NEW r \in consents, r.giver # Nothing
        PROVE  /\ Consents!At(r.giver, "commit")'
               /\ r.purpose = giving'[r.giver].purpose /\ r.granted_at = giving'[r.giver].granted_at
               /\ r.state = giving'[r.giver].state
    <3>1. /\ Consents!At(r.giver, "commit") /\ r.giver \in Giver
          /\ r.purpose = giving[r.giver].purpose /\ r.granted_at = giving[r.giver].granted_at
          /\ r.state = giving[r.giver].state
      BY <2>3 DEF ConsentsSound, ConsentsTyped, RowsOwned, Consents!GuestConsent
    <3>2. r.giver \in Giver \ {c} /\ giving[r.giver] # Nothing
      BY <2>1, <3>1 DEF Consents!At
    <3>3. QED
      BY <1>6, <2>2, <3>1, <3>2
  <2>4. ASSUME NEW d \in Giver, Consents!At(d, "commit")'
        PROVE  \E r \in consents : r.giver = d
    BY <2>1, <2>2, <2>4 DEF ConsentsSound, RowsOwned
  <2>5. QED
    BY <1>1, <2>3, <2>4 DEF RowsOwned
<1>10. \A d \in Giver : AloneKnows(d)'
  <2>1. ASSUME alone
        PROVE  AloneKnows(c)'
    <3>1. \A d \in Giver \ {c} : ~Consents!For(d, p)'
      BY <1>6, <2>1 DEF alone, Consents!For
    <3>2. ASSUME NEW r \in consents, r.purpose = p
          PROVE  r.granted_at < at
      <4>1. r.giver = Nothing
        BY <2>1, <3>2 DEF alone, Consents!For, ConsentsSound, ConsentsTyped, RowsOwned,
           Consents!GuestConsent, Consents!At
      <4>2. QED
        BY <1>2, <3>2, <4>1
    <3>3. new.purpose = p /\ new.granted_at = at
      OBVIOUS
    <3> HIDE DEF new
    <3>4. QED
      BY <1>1, <1>7, <3>1, <3>2, <3>3 DEF AloneKnows, Consents!For
  <2>2. ASSUME ~alone
        PROVE  AloneKnows(c)'
    <3>1. new.alone = alone
      OBVIOUS
    <3> HIDE DEF new
    <3>2. QED
      BY <1>7, <2>2, <3>1 DEF AloneKnows
  <2>3. ASSUME NEW d \in Giver \ {c}, giving'[d] # Nothing, giving'[d].alone
        PROVE  AloneKnows(d)'
    <3>1. /\ giving[d] # Nothing /\ giving[d].alone /\ giving[d].purpose # p
          /\ giving'[d].purpose = giving[d].purpose /\ giving'[d].granted_at = giving[d].granted_at
      BY <1>6, <2>3
    <3>2. ~Consents!For(c, giving[d].purpose)'
      <4>1. new.purpose = p
        OBVIOUS
      <4> HIDE DEF new
      <4>2. QED
        BY <1>7, <3>1, <4>1 DEF Consents!For
    <3>3. \A e \in Giver \ {c, d} : ~Consents!For(e, giving[d].purpose)'
      BY <1>6, <3>1 DEF Consents!For, ConsentsSound, AloneKnows
    <3>4. QED
      BY <1>1, <3>1, <3>2, <3>3 DEF ConsentsSound, AloneKnows, Consents!For
  <2>4. QED
    BY <2>1, <2>2, <2>3 DEF AloneKnows
<1>11. Consents!ConsentsStand'
  BY <1>1 DEF ConsentsSound, Consents!ConsentsStand, Consents!KeysDistinct, Consents!LastWordStands,
     Consents!has_active_consent, Consents!current_consent, Consents!Committed
<1>12. QED
  BY <1>8, <1>9, <1>10, <1>11 DEF ConsentsSound

(* A call that ends, or goes on to its commit: the others stay as they are. *)
LEMMA CallMovesConsents ==
  ASSUME ConsentConstants, ConsentsSound, NEW c \in Giver, NEW next_call \in ConsentCall \cup {Nothing},
         giving' = [giving EXCEPT ![c] = next_call]
  PROVE  /\ giving' \in [Giver -> ConsentCall \cup {Nothing}]
         /\ giving'[c] = next_call /\ \A d \in Giver \ {c} : giving'[d] = giving[d]
BY DEF ConsentsSound, ConsentsTyped

LEMMA InsertKeepsConsents ==
  ASSUME ConsentConstants, ConsentsSound, NEW c \in Giver, Consents!Insert(c)
  PROVE  ConsentsSound'
<1>1. /\ giving[c] \in ConsentCall /\ giving[c].step = "insert" /\ giving[c] # Nothing
      /\ \A r \in Consents!SameKey(c) : r.giver = Nothing
      /\ UNCHANGED said
  BY DEF Consents!Insert, Consents!At, ConsentsSound, ConsentsTyped
<1> DEFINE row == [purpose |-> giving[c].purpose, granted_at |-> giving[c].granted_at,
                   state |-> giving[c].state, giver |-> c]
           next_call == [giving[c] EXCEPT !.step = "commit"]
<1>2. \A r \in consents : r.giver # c
  BY <1>1 DEF ConsentsSound, RowsOwned, Consents!At, ConsentConstants
<1>3. CASE Consents!SameKey(c) = {}
  <2>1. /\ consents' = consents \cup {row} /\ giving' = [giving EXCEPT ![c].step = "commit"]
        /\ UNCHANGED refused
    BY <1>3 DEF Consents!Insert
  <2>2. /\ row \in Consents!GuestConsent /\ row.giver = c /\ row.purpose = giving[c].purpose
        /\ row.granted_at = giving[c].granted_at /\ row.state = giving[c].state
        /\ row.giver # Nothing
    BY <1>1 DEF Consents!GuestConsent, ConsentCall, ConsentConstants
  <2>3. /\ next_call \in ConsentCall /\ next_call.step = "commit" /\ next_call.purpose = giving[c].purpose
        /\ next_call.granted_at = giving[c].granted_at /\ next_call.state = giving[c].state
        /\ next_call.alone = giving[c].alone /\ next_call # Nothing
    BY <1>1 DEF ConsentCall, ConsentConstants
  <2>4. giving' = [giving EXCEPT ![c] = next_call]
    BY <2>1
  <2> HIDE DEF row, next_call
  <2>5. /\ giving' \in [Giver -> ConsentCall \cup {Nothing}]
        /\ giving'[c] = next_call /\ \A d \in Giver \ {c} : giving'[d] = giving[d]
    BY <2>3, <2>4, CallMovesConsents
  <2>6. ConsentsTyped'
    <3>1. PICK b \in Nat : \A r \in consents : r.granted_at <= b
      BY DEF ConsentsSound, ConsentsTyped
    <3>2. row.granted_at \in Nat
      BY <2>2 DEF Consents!GuestConsent
    <3> DEFINE m == IF row.granted_at <= b THEN b ELSE row.granted_at
    <3>3. m \in Nat /\ b <= m /\ row.granted_at <= m
      BY <3>1, <3>2
    <3>4. \A r \in consents : r.granted_at \in Nat
      BY DEF ConsentsSound, ConsentsTyped, Consents!GuestConsent
    <3> HIDE DEF m
    <3>5. \A r \in consents' : r.granted_at <= m
      BY <2>1, <3>1, <3>3, <3>4
    <3>6. QED
      BY <1>1, <2>1, <2>2, <2>5, <3>3, <3>5 DEF ConsentsSound, ConsentsTyped
  <2>7. RowsOwned'
    <3>1. ASSUME NEW r \in consents', r.giver # Nothing
          PROVE  /\ Consents!At(r.giver, "commit")'
                 /\ r.purpose = giving'[r.giver].purpose
                 /\ r.granted_at = giving'[r.giver].granted_at
                 /\ r.state = giving'[r.giver].state
      <4>1. CASE r = row
        BY <2>2, <2>3, <2>5, <4>1 DEF Consents!At
      <4>2. CASE r \in consents
        <5>1. r.giver \in Giver \ {c}
          BY <1>2, <3>1, <4>2 DEF ConsentsSound, ConsentsTyped, Consents!GuestConsent
        <5>2. QED
          BY <2>5, <3>1, <4>2, <5>1 DEF ConsentsSound, RowsOwned, Consents!At
      <4>3. QED
        BY <2>1, <4>1, <4>2
    <3>2. ASSUME NEW d \in Giver, Consents!At(d, "commit")'
          PROVE  \E r \in consents' : r.giver = d
      <4>1. CASE d = c
        BY <2>1, <2>2, <4>1
      <4>2. CASE d # c
        BY <2>1, <2>5, <3>2, <4>2 DEF ConsentsSound, RowsOwned, Consents!At
      <4>3. QED
        BY <4>1, <4>2
    <3>3. QED
      BY <3>1, <3>2 DEF RowsOwned
  <2>8. \A d \in Giver : AloneKnows(d)'
    <3>1. \A p \in Purpose, d \in Giver : Consents!For(d, p)' <=> Consents!For(d, p)
      BY <1>1, <2>3, <2>5 DEF Consents!For
    <3>2. AloneKnows(c)'
      <4>0. PICK p \in Purpose : p = giving[c].purpose
        BY <1>1 DEF ConsentCall
      <4>1. SUFFICES ASSUME giving[c].alone
                     PROVE  /\ \A d \in Giver \ {c} : ~Consents!For(d, p)'
                            /\ \A r \in consents' : r.purpose = p /\ r.giver # c =>
                                 r.granted_at < giving[c].granted_at
        BY <2>3, <2>5, <4>0 DEF AloneKnows, Consents!For
      <4>2. /\ \A d \in Giver \ {c} : ~Consents!For(d, p)
            /\ \A r \in consents : r.purpose = p /\ r.giver # c =>
                 r.granted_at < giving[c].granted_at
        BY <1>1, <4>0, <4>1 DEF ConsentsSound, AloneKnows
      <4>3. \A d \in Giver \ {c} : ~Consents!For(d, p)'
        BY <2>5, <4>2 DEF Consents!For
      <4>4. QED
        BY <2>1, <2>2, <4>2, <4>3
    <3>3. ASSUME NEW d \in Giver \ {c}
          PROVE  AloneKnows(d)'
      <4>1. giving[d] # Nothing /\ giving[d].alone => giving[d].purpose # row.purpose
        BY <1>1, <2>2 DEF ConsentsSound, AloneKnows, Consents!For
      <4>2. giving[d] # Nothing => giving[d].purpose \in Purpose
        BY DEF ConsentsSound, ConsentsTyped, ConsentCall
      <4>3. QED
        BY <2>1, <2>5, <3>1, <4>1, <4>2 DEF ConsentsSound, AloneKnows
    <3>4. QED
      BY <3>2, <3>3
  <2>9. \A p : Consents!Committed(p)' = Consents!Committed(p)
    BY <2>1, <2>2 DEF Consents!Committed
  <2>10. Consents!KeysDistinct'
    <3>1. \A r \in consents : ~(r.purpose = row.purpose /\ r.granted_at = row.granted_at)
      BY <1>3, <2>2 DEF Consents!SameKey
    <3>2. QED
      BY <2>1, <3>1 DEF ConsentsSound, Consents!ConsentsStand, Consents!KeysDistinct
  <2>11. Consents!LastWordStands'
    BY <1>1, <2>1, <2>9 DEF ConsentsSound, Consents!ConsentsStand, Consents!LastWordStands,
       Consents!has_active_consent, Consents!current_consent
  <2>12. QED
    BY <2>6, <2>7, <2>8, <2>10, <2>11 DEF ConsentsSound, Consents!ConsentsStand
<1>4. CASE Consents!SameKey(c) # {}
  <2>1. /\ giving' = [giving EXCEPT ![c] = Nothing]
        /\ refused' = (refused \/ giving[c].alone) /\ UNCHANGED consents
    BY <1>4 DEF Consents!Insert
  <2>2. ~giving[c].alone
    <3>1. PICK r \in consents : /\ r.purpose = giving[c].purpose
                                /\ r.granted_at = giving[c].granted_at
      BY <1>4 DEF Consents!SameKey
    <3>2. r.granted_at \in Nat /\ giving[c].granted_at \in Nat
      BY <1>1 DEF ConsentsSound, ConsentsTyped, Consents!GuestConsent, ConsentCall
    <3>3. QED
      BY <1>1, <1>2, <3>1, <3>2 DEF ConsentsSound, AloneKnows
  <2>3. /\ giving' \in [Giver -> ConsentCall \cup {Nothing}]
        /\ giving'[c] = Nothing /\ \A d \in Giver \ {c} : giving'[d] = giving[d]
    BY <2>1, CallMovesConsents
  <2>4. ConsentsTyped'
    <3>1. refused' = FALSE
      BY <2>1, <2>2, Zenon DEF ConsentsSound, ConsentsTyped
    <3>2. QED
      BY <1>1, <2>1, <2>3, <3>1 DEF ConsentsSound, ConsentsTyped
  <2>5. \A d \in Giver : Consents!At(d, "commit")' <=> Consents!At(d, "commit")
    BY <1>1, <2>3 DEF Consents!At
  <2>6. RowsOwned'
    <3>1. \A r \in consents : r.giver # Nothing => r.giver \in Giver \ {c}
      BY <1>2 DEF ConsentsSound, ConsentsTyped, Consents!GuestConsent
    <3>2. QED
      BY <2>1, <2>3, <2>5, <3>1 DEF ConsentsSound, RowsOwned
  <2>7. \A d \in Giver : AloneKnows(d)'
    BY <2>1, <2>3 DEF ConsentsSound, AloneKnows, Consents!For
  <2>8. ~refused'
    BY <2>1, <2>2, Zenon DEF ConsentsSound, Consents!ConsentsStand, Consents!LastWordStands
  <2>9. Consents!ConsentsStand'
    BY <1>1, <2>1, <2>8 DEF ConsentsSound, Consents!ConsentsStand, Consents!KeysDistinct,
       Consents!LastWordStands, Consents!has_active_consent, Consents!current_consent,
       Consents!Committed
  <2>10. QED
    BY <2>4, <2>6, <2>7, <2>9 DEF ConsentsSound
<1>5. QED
  BY <1>3, <1>4

LEMMA CommitKeepsConsents ==
  ASSUME ConsentConstants, ConsentsSound, NEW c \in Giver, Consents!Commit(c)
  PROVE  ConsentsSound'
<1>0. PICK p \in Purpose : p = giving[c].purpose
  BY DEF Consents!Commit, Consents!At, ConsentsSound, ConsentsTyped, ConsentCall
<1>1. /\ giving[c] \in ConsentCall /\ giving[c].step = "commit" /\ giving[c] # Nothing
      /\ consents' = (consents \ Consents!Own(c)) \cup {[r EXCEPT !.giver = Nothing] : r \in Consents!Own(c)}
      /\ giving' = [giving EXCEPT ![c] = Nothing]
      /\ said' = [said EXCEPT ![p] = IF giving[c].alone THEN giving[c].state ELSE Nothing]
      /\ UNCHANGED refused
  BY <1>0 DEF Consents!Commit, Consents!At, ConsentsSound, ConsentsTyped
(* The transaction has one row, and its commit is all that befalls it. *)
<1>2. PICK row \in consents : row.giver = c
  BY <1>1 DEF ConsentsSound, RowsOwned, Consents!At
<1> DEFINE kept == [row EXCEPT !.giver = Nothing]
<1>3. /\ row \in Consents!GuestConsent /\ row.purpose = p /\ row.granted_at = giving[c].granted_at
      /\ row.state = giving[c].state /\ row.giver # Nothing
  BY <1>0, <1>2 DEF ConsentsSound, ConsentsTyped, RowsOwned, ConsentConstants
<1>4. Consents!Own(c) = {row}
  <2>1. ASSUME NEW r \in consents, r.giver = c
        PROVE  r = row
    BY <1>2, <1>3, <2>1 DEF ConsentsSound, RowsOwned, ConsentConstants, Consents!ConsentsStand,
       Consents!KeysDistinct
  <2>2. QED
    BY <1>2, <2>1 DEF Consents!Own
<1>5. /\ kept \in Consents!GuestConsent /\ kept.giver = Nothing /\ kept.purpose = p
      /\ kept.granted_at = row.granted_at /\ kept.state = row.state
  BY <1>3 DEF Consents!GuestConsent
<1>6. consents' = (consents \ {row}) \cup {kept}
  BY <1>1, <1>4
<1> HIDE DEF kept
<1>7. /\ giving' \in [Giver -> ConsentCall \cup {Nothing}]
      /\ giving'[c] = Nothing /\ \A d \in Giver \ {c} : giving'[d] = giving[d]
  BY <1>1, CallMovesConsents
<1>8. ConsentsTyped'
  <2>1. giving[c].state \in Consents!State /\ p \in Purpose
    BY <1>1 DEF ConsentCall
  <2>2. said' \in [Purpose -> Consents!State \cup {Nothing}]
    BY <1>1, <2>1 DEF ConsentsSound, ConsentsTyped
  <2>3. QED
    BY <1>1, <1>5, <1>6, <1>7, <2>2 DEF ConsentsSound, ConsentsTyped
<1>9. RowsOwned'
  <2>1. \A d \in Giver : d # c => (Consents!At(d, "commit")' <=> Consents!At(d, "commit"))
    BY <1>7 DEF Consents!At
  <2>2. ASSUME NEW r \in consents', r.giver # Nothing
        PROVE  /\ Consents!At(r.giver, "commit")'
               /\ r.purpose = giving'[r.giver].purpose /\ r.granted_at = giving'[r.giver].granted_at
               /\ r.state = giving'[r.giver].state
    <3>1. r \in consents /\ r # row
      BY <1>5, <1>6, <2>2
    <3>2. r.giver \in Giver \ {c}
      BY <1>4, <2>2, <3>1 DEF Consents!Own, ConsentsSound, ConsentsTyped, Consents!GuestConsent
    <3>3. QED
      BY <1>7, <2>1, <2>2, <3>1, <3>2 DEF ConsentsSound, RowsOwned
  <2>3. ASSUME NEW d \in Giver, Consents!At(d, "commit")'
        PROVE  \E r \in consents' : r.giver = d
    <3>1. d # c
      BY <1>7, <2>3 DEF Consents!At
    <3>2. QED
      BY <1>2, <1>6, <2>1, <2>3, <3>1 DEF ConsentsSound, RowsOwned
  <2>4. QED
    BY <2>2, <2>3 DEF RowsOwned
<1>10. ASSUME NEW d \in Giver
       PROVE  AloneKnows(d)'
  <2>1. CASE d = c
    BY <1>7, <2>1 DEF AloneKnows
  <2>2. CASE d # c
    <3>1. giving[d] # Nothing /\ giving[d].alone => giving[d].purpose # p
      BY <1>0, <1>1, <2>2 DEF ConsentsSound, AloneKnows, Consents!For
    <3>2. QED
      BY <1>5, <1>6, <1>7, <2>2, <3>1 DEF ConsentsSound, AloneKnows, Consents!For
  <2>3. QED
    BY <2>1, <2>2
<1>11. Consents!KeysDistinct'
  BY <1>3, <1>5, <1>6 DEF ConsentsSound, Consents!ConsentsStand, Consents!KeysDistinct
<1>12. ASSUME NEW q \in Purpose, said'[q] # Nothing
       PROVE  Consents!has_active_consent(q)' = (said'[q] = "granted")
  <2>1. CASE q # p
    <3>1. Consents!Committed(q)' = Consents!Committed(q)
      BY <1>3, <1>5, <1>6, <2>1 DEF Consents!Committed
    <3>2. said'[q] = said[q]
      BY <1>1, <2>1 DEF ConsentsSound, ConsentsTyped
    <3>3. QED
      BY <1>12, <3>1, <3>2 DEF ConsentsSound, Consents!ConsentsStand, Consents!LastWordStands,
         Consents!has_active_consent, Consents!current_consent
  <2>2. CASE q = p
    <3>1. giving[c].alone /\ said'[p] = giving[c].state
      BY <1>1, <1>12, <2>2 DEF ConsentsSound, ConsentsTyped
    <3>2. kept \in Consents!Committed(p)'
      BY <1>5, <1>6 DEF Consents!Committed
    <3>3. \A r \in Consents!Committed(p)' : r = kept \/ r.granted_at < kept.granted_at
      <4>1. ASSUME NEW r \in consents, r # row, r.purpose = p
            PROVE  r.granted_at < kept.granted_at
        <5>1. r.giver # c
          BY <1>4, <4>1 DEF Consents!Own
        <5>2. QED
          BY <1>0, <1>1, <1>3, <1>5, <3>1, <4>1, <5>1 DEF ConsentsSound, AloneKnows
      <4>2. QED
        BY <1>6, <4>1 DEF Consents!Committed
    <3>4. \A r \in consents' : r.granted_at \in Nat
      BY <1>8 DEF ConsentsTyped, Consents!GuestConsent
    <3>5. \A r \in Consents!Committed(p)' : r.granted_at \in Nat
      BY <3>4 DEF Consents!Committed
    <3> DEFINE Rows == Consents!Committed(p)'
    <3>6. Consents!current_consent(p)' = kept
      <4>1. Consents!current_consent(p)' =
              CHOOSE x \in Rows : \A q1 \in Rows : q1.granted_at =< x.granted_at
        BY <3>2 DEF Consents!current_consent
      <4> HIDE DEF Rows
      <4>2. kept \in Rows /\ \A r \in Rows : r.granted_at \in Nat
        BY <3>2, <3>5 DEF Rows
      <4>3. \A r \in Rows : r = kept \/ r.granted_at < kept.granted_at
        BY <3>3 DEF Rows
      <4>4. QED
        BY <4>1, <4>2, <4>3, LatestIsChosen
    <3>7. kept # Nothing
      BY <1>5 DEF ConsentConstants
    <3>8. QED
      BY <1>5, <2>2, <3>1, <3>6, <3>7, <1>3, Zenon DEF Consents!has_active_consent
  <2>3. QED
    BY <2>1, <2>2
<1>13. QED
  BY <1>1, <1>8, <1>9, <1>10, <1>11, <1>12
  DEF ConsentsSound, Consents!ConsentsStand, Consents!LastWordStands

LEMMA RollbackKeepsConsents ==
  ASSUME ConsentConstants, ConsentsSound, NEW c \in Giver, Consents!Rollback(c)
  PROVE  ConsentsSound'
<1>1. /\ consents' = consents \ Consents!Own(c) /\ giving' = [giving EXCEPT ![c] = Nothing]
      /\ UNCHANGED <<said, refused>>
  BY DEF Consents!Rollback
<1>2. /\ giving' \in [Giver -> ConsentCall \cup {Nothing}]
      /\ giving'[c] = Nothing /\ \A d \in Giver \ {c} : giving'[d] = giving[d]
  BY <1>1, CallMovesConsents
<1>3. ConsentsTyped'
  BY <1>1, <1>2 DEF ConsentsSound, ConsentsTyped
<1>4. RowsOwned'
  <2>1. ASSUME NEW r \in consents', r.giver # Nothing
        PROVE  r \in consents /\ r.giver \in Giver \ {c}
    BY <1>1, <2>1 DEF Consents!Own, ConsentsSound, ConsentsTyped, Consents!GuestConsent
  <2>2. \A d \in Giver \ {c} : Consents!At(d, "commit")' <=> Consents!At(d, "commit")
    BY <1>2 DEF Consents!At
  <2>3. ~Consents!At(c, "commit")'
    BY <1>2 DEF Consents!At
  <2>4. ASSUME NEW d \in Giver \ {c}, Consents!At(d, "commit")'
        PROVE  \E r \in consents' : r.giver = d
    BY <1>1, <2>2, <2>4 DEF ConsentsSound, RowsOwned, Consents!Own
  <2>5. QED
    BY <1>2, <2>1, <2>2, <2>3, <2>4 DEF ConsentsSound, RowsOwned
<1>5. \A d \in Giver : AloneKnows(d)'
  BY <1>1, <1>2 DEF ConsentsSound, AloneKnows, Consents!For
<1>6. \A p : Consents!Committed(p)' = Consents!Committed(p)
  BY <1>1 DEF Consents!Committed, Consents!Own, ConsentConstants
<1>7. Consents!ConsentsStand'
  BY <1>1, <1>6 DEF ConsentsSound, Consents!ConsentsStand, Consents!KeysDistinct,
     Consents!LastWordStands, Consents!has_active_consent, Consents!current_consent
<1>8. QED
  BY <1>3, <1>4, <1>5, <1>7 DEF ConsentsSound

LEMMA ConsentsStep ==
  ASSUME ConsentConstants, ConsentsSound, [Consents!Next]_consentVars
  PROVE  ConsentsSound'
<1>1. CASE UNCHANGED consentVars
  BY <1>1 DEF consentVars, ConsentsSound, ConsentsTyped, RowsOwned, AloneKnows, Consents!At,
     Consents!For, Consents!ConsentsStand, Consents!KeysDistinct, Consents!LastWordStands,
     Consents!has_active_consent, Consents!current_consent, Consents!Committed
<1>2. ASSUME NEW c \in Giver, NEW p \in Purpose, NEW state \in Consents!State,
             NEW now \in 0..MaxClock, Consents!Give(c, p, state, now)
      PROVE  ConsentsSound'
  BY <1>2, GiveKeepsConsents
<1>3. QED
  BY <1>1, <1>2, InsertKeepsConsents, CommitKeepsConsents, RollbackKeepsConsents
  DEF Consents!Next

LEMMA ConsentsInit ==
  ASSUME Consents!Init
  PROVE  ConsentsSound
BY DEF Consents!Init, ConsentsSound, ConsentsTyped, RowsOwned, AloneKnows, Consents!At,
   Consents!ConsentsStand, Consents!KeysDistinct, Consents!LastWordStands

LEMMA ConsentsShow ==
  ASSUME ConsentsSound
  PROVE  Consents!TypeOK /\ Consents!ConsentsStand
<1>1. \A c \in Giver : giving[c] # Nothing =>
        giving[c].step \in {"insert", "commit"} /\ giving[c].purpose \in Purpose
  BY DEF ConsentsSound, ConsentsTyped, ConsentCall
<1>2. Consents!TypeOK
  BY <1>1 DEF ConsentsSound, ConsentsTyped, Consents!TypeOK
<1>3. QED
  BY <1>2 DEF ConsentsSound

-----------------------------------------------------------------------------
(* Policies (apps/policies).                                                *)

PolicyTyped ==
  /\ row_ids \in 0..MaxRow
  /\ policy \in [Policies!Id -> Policies!Row \cup {Nothing}]
  /\ locked \subseteq Policies!Id
  /\ evaluated \subseteq [id : Policies!Id, version : 1..MaxRow]
  /\ overlapped \in BOOLEAN
  /\ working \in [Caller -> PolicyCall \cup {Nothing}]

(* An id has one kind of row for ever: a draft, or a version.               *)
RowsIssued ==
  \A p \in Policies!Id : policy[p] # Nothing =>
    /\ p <= row_ids /\ policy[p].version <= row_ids
    /\ policy[p].status = "draft" <=> policy[p].version = 0

Spent(p) == p \in Policies!Id /\ p <= row_ids /\ p \notin Policies!Numbered

Calls(c, op) == working[c] # Nothing /\ working[c].op = op

(* A publication that has locked its draft. *)
PastLock(c) ==
  Calls(c, "publish") /\ working[c].step \in {"number", "commit"}

(* What a call has read and may still rely on. *)
CallKnows(c) ==
  /\ Calls(c, "create") => \A p \in working[c].ids : Spent(p)
  /\ Calls(c, "update") =>
       (/\ Spent(working[c].id)
        /\ working[c].row.status = "draft" /\ working[c].row.version = 0)
  /\ Calls(c, "publish") => Spent(working[c].id)
  /\ Calls(c, "retire") =>
       (/\ working[c].id \in Policies!Numbered
        /\ working[c].row.version = policy[working[c].id].version)
  /\ PastLock(c) => (working[c].id \in locked /\ policy[working[c].id] # Nothing)
  /\ (PastLock(c) /\ working[c].step = "commit") =>
       (/\ working[c].version \in 1..(row_ids + 1)
        /\ overlapped = FALSE =>
             working[c].version = Cardinality(Policies!Numbered) + 1)

OneDraft ==
  overlapped = FALSE => \A p, q \in Policies!With("draft") : p = q

LockedApart ==
  \A c, d \in Caller :
    (PastLock(c) /\ PastLock(d) /\ working[c].id = working[d].id) => c = d

PolicySound ==
  /\ PolicyTyped /\ RowsIssued /\ OneDraft /\ LockedApart
  /\ \A c \in Caller : CallKnows(c)
  /\ Policies!VersionsStand

LEMMA PolicyCallFacts ==
  ASSUME PolicyConstants, PolicyTyped, NEW c \in Caller
  PROVE  /\ Calls(c, "create") => working[c] \in
              [op : {"create"}, step : {"delete", "insert"}, ids : SUBSET Policies!Id]
         /\ Calls(c, "update") => working[c] \in
              [op : {"update"}, step : {"save"}, id : Policies!Id, row : Policies!Row]
         /\ Calls(c, "publish") /\ working[c].step # "commit" => working[c] \in
              [op : {"publish"}, step : {"lock", "number"}, id : Policies!Id]
         /\ Calls(c, "publish") /\ working[c].step = "commit" => working[c] \in
              [op : {"publish"}, step : {"commit"}, id : Policies!Id, version : Nat]
         /\ Calls(c, "retire") => working[c] \in
              [op : {"retire"}, step : {"save"}, id : Policies!Id, row : Policies!Row]
BY DEF PolicyTyped, PolicyCall, Calls

(* While drafts have never overlapped, one publication is past its lock.    *)
LEMMA OnePublisher ==
  ASSUME PolicyConstants, PolicySound, overlapped = FALSE,
         NEW c \in Caller, NEW d \in Caller, PastLock(c), PastLock(d)
  PROVE  c = d
<1>1. ASSUME NEW e \in Caller, PastLock(e)
      PROVE  working[e].id \in Policies!With("draft")
  <2>1. /\ working[e].id \in Policies!Id /\ policy[working[e].id] # Nothing
        /\ working[e].id \notin Policies!Numbered
    BY <1>1 DEF PolicySound, CallKnows, PastLock, Spent
  <2>2. policy[working[e].id] \in Policies!Row
    BY <2>1 DEF PolicySound, PolicyTyped
  <2>3. policy[working[e].id].version = 0
    BY <2>1, <2>2 DEF Policies!Numbered, Policies!Exists, Policies!Row
  <2>4. QED
    BY <2>1, <2>3 DEF PolicySound, RowsIssued, Policies!With, Policies!Exists
<1>2. working[c].id = working[d].id
  BY <1>1 DEF PolicySound, OneDraft
<1>3. QED
  BY <1>2 DEF PolicySound, LockedApart

(* What a step leaves of the versions issued: each stays under its id, and  *)
(* an id that was spent on no version gets none.                            *)
PoliciesMove ==
  /\ row_ids <= row_ids'
  /\ \A p \in Policies!Id : p <= row_ids =>
       /\ p \in Policies!Numbered' <=> p \in Policies!Numbered
       /\ p \in Policies!Numbered => policy'[p].version = policy[p].version

LEMMA IntervalGrows ==
  ASSUME NEW a \in Nat, NEW b \in Nat, a <= b
  PROVE  \A n \in 1..(a + 1) : n \in 1..(b + 1)
OBVIOUS

LEMMA IntervalExtended ==
  ASSUME NEW k \in Nat
  PROVE  1..k \cup {k + 1} = 1..(k + 1)
OBVIOUS

LEMMA OthersKeepPolicies ==
  ASSUME PolicyConstants, PolicySound, NEW d \in Caller, working'[d] = working[d],
         PoliciesMove, row_ids' \in Nat, overlapped' = FALSE => overlapped = FALSE,
         PastLock(d) => working[d].id \in locked' /\ policy'[working[d].id] # Nothing,
         Policies!Numbered' = Policies!Numbered \/ ~PastLock(d) \/ overlapped' # FALSE
  PROVE  CallKnows(d)'
<1>1. \A p : Spent(p) => Spent(p)'
  BY DEF Spent, PoliciesMove, PolicySound, PolicyTyped, Policies!Id
<1>2. /\ \A op : Calls(d, op)' <=> Calls(d, op)
      /\ PastLock(d)' <=> PastLock(d)
  BY DEF Calls, PastLock
<1>3. Calls(d, "retire") =>
        /\ working[d].id \in Policies!Numbered'
        /\ policy'[working[d].id].version = policy[working[d].id].version
  <2>1. Calls(d, "retire") => working[d].id \in Policies!Id /\ working[d].id <= row_ids
    BY DEF PolicySound, CallKnows, RowsIssued, Policies!Numbered, Policies!Exists
  <2>2. QED
    BY <2>1 DEF PolicySound, CallKnows, PoliciesMove
<1>4. (PastLock(d) /\ working[d].step = "commit") =>
        /\ working[d].version \in 1..(row_ids' + 1)
        /\ overlapped' = FALSE => working[d].version = Cardinality(Policies!Numbered') + 1
  <2>1. (PastLock(d) /\ working[d].step = "commit") =>
          /\ working[d].version \in 1..(row_ids + 1)
          /\ overlapped = FALSE => working[d].version = Cardinality(Policies!Numbered) + 1
    BY DEF PolicySound, CallKnows
  <2>2. row_ids \in Nat /\ row_ids <= row_ids'
    BY DEF PolicySound, PolicyTyped, PoliciesMove
  <2>3. PICK a \in Nat, b \in Nat : a = row_ids /\ b = row_ids' /\ a <= b
    BY <2>2
  <2>4. \A n \in 1..(row_ids + 1) : n \in 1..(b + 1)
    <3>1. \A n \in 1..(a + 1) : n \in 1..(b + 1)
      BY <2>3, IntervalGrows
    <3>2. QED
      BY Zenon, <2>3, <3>1
  <2>5. (PastLock(d) /\ overlapped' = FALSE) =>
          /\ overlapped = FALSE
          /\ Cardinality(Policies!Numbered') = Cardinality(Policies!Numbered)
    OBVIOUS
  <2>6. QED
    BY <2>1, <2>3, <2>4, <2>5
<1>5. Calls(d, "create") => \A p \in working[d].ids : Spent(p)'
  BY <1>1 DEF PolicySound, CallKnows
<1>6. Calls(d, "update") \/ Calls(d, "publish") => Spent(working[d].id)'
  BY <1>1 DEF PolicySound, CallKnows
<1>7. CallKnows(d)
  BY DEF PolicySound
<1>8. QED
  BY <1>2, <1>3, <1>4, <1>5, <1>6, <1>7 DEF CallKnows

LEMMA PairIsTwo ==
  ASSUME NEW S, IsFiniteSet(S), NEW x \in S, NEW y \in S, x # y
  PROVE  Cardinality(S) \in Nat /\ Cardinality(S) > 1
<1>1. IsFiniteSet({x}) /\ Cardinality({x}) = 1
  BY FS_Singleton
<1>2. IsFiniteSet({x} \cup {y}) /\ Cardinality({x} \cup {y}) = 2
  <2>1. y \notin {x}
    OBVIOUS
  <2>2. Cardinality({x} \cup {y}) = Cardinality({x}) + 1
    BY <1>1, <2>1, FS_AddElement
  <2>3. IsFiniteSet({x} \cup {y})
    BY <1>1, FS_AddElement
  <2>4. QED
    BY <1>1, <2>2, <2>3
<1>3. Cardinality({x} \cup {y}) <= Cardinality(S)
  BY FS_Subset
<1>4. Cardinality(S) \in Nat
  BY FS_CardinalityType
<1>5. QED
  BY <1>2, <1>3, <1>4

LEMMA NumberedFinite ==
  ASSUME PolicyConstants, PolicySound
  PROVE  /\ IsFiniteSet(Policies!Numbered) /\ Cardinality(Policies!Numbered) \in Nat
         /\ overlapped = FALSE =>
              {policy[p].version : p \in Policies!Numbered} = 1..Cardinality(Policies!Numbered)
<1>1. IsFiniteSet(Policies!Id)
  BY FS_Interval DEF Policies!Id, PolicyConstants
<1>2. Policies!Numbered \in SUBSET Policies!Id
  BY DEF Policies!Numbered
<1>3. IsFiniteSet(Policies!Numbered) /\ Cardinality(Policies!Numbered) \in Nat
  BY <1>1, <1>2, FS_Subset, FS_CardinalityType
<1>4. overlapped = FALSE => ~overlapped
  OBVIOUS
<1>5. Policies!Cardinality(Policies!Numbered) = Cardinality(Policies!Numbered)
  BY SameCardinality
<1>6. QED
  BY <1>3, <1>4, <1>5 DEF PolicySound, Policies!VersionsStand, Policies!VersionsSequential,
     Policies!Version

(* A draft that is written next to another is an overlap. *)
LEMMA WritesNoticeDrafts ==
  ASSUME PolicyConstants, PolicySound, NEW p \in Policies!Id, NEW row, Policies!Write(p, row)
  PROVE  /\ policy' = [policy EXCEPT ![p] = row] /\ overlapped' \in BOOLEAN
         /\ overlapped' = FALSE =>
              /\ overlapped = FALSE
              /\ row.status = "draft" => Policies!With("draft") \subseteq {p}
<1> DEFINE Drafts == Policies!With("draft") \cup IF row.status = "draft" THEN {p} ELSE {}
<1>1. /\ policy' = [policy EXCEPT ![p] = row]
      /\ overlapped' = (overlapped \/ Policies!Cardinality(Drafts) > 1)
  BY DEF Policies!Write
<1>2. Drafts \in SUBSET Policies!Id
  BY DEF Policies!With
<1>3. IsFiniteSet(Policies!Id)
  BY FS_Interval DEF Policies!Id, PolicyConstants
<1>4. IsFiniteSet(Drafts)
  BY <1>2, <1>3, FS_Subset
<1>5. Policies!Cardinality(Drafts) = Cardinality(Drafts)
  BY SameCardinality
<1>6. overlapped \in BOOLEAN
  BY DEF PolicySound, PolicyTyped
<1> HIDE DEF Drafts
<1>7. /\ overlapped' \in BOOLEAN
      /\ overlapped' = FALSE => overlapped = FALSE /\ ~(Policies!Cardinality(Drafts) > 1)
  BY Zenon, <1>1, <1>6
<1>8. ASSUME overlapped' = FALSE, row.status = "draft", NEW q \in Policies!With("draft"), q # p
      PROVE  FALSE
  <2>1. q \in Drafts /\ p \in Drafts
    BY <1>8 DEF Drafts
  <2>2. Cardinality(Drafts) > 1
    BY <1>4, <1>8, <2>1, PairIsTwo
  <2>3. QED
    BY <1>5, <1>7, <1>8, <2>2
<1>9. QED
  BY <1>1, <1>7, <1>8

(* A call goes on: what it and the others know stands with the rows.        *)
LEMMA CallMovesPolicies ==
  ASSUME PolicyConstants, PolicySound, NEW c \in Caller,
         NEW next_call \in PolicyCall \cup {Nothing},
         working' = [working EXCEPT ![c] = next_call]
  PROVE  /\ working' \in [Caller -> PolicyCall \cup {Nothing}]
         /\ working'[c] = next_call
         /\ \A d \in Caller \ {c} : working'[d] = working[d]
BY DEF PolicySound, PolicyTyped

LEMMA StepKeepsPolicies ==
  ASSUME PolicyConstants, PolicySound, NEW c \in Caller,
         \A d \in Caller \ {c} : working'[d] = working[d],
         PolicyTyped', RowsIssued', OneDraft', Policies!VersionsSequential', CallKnows(c)',
         PoliciesMove, UNCHANGED evaluated, overlapped' = FALSE => overlapped = FALSE,
         \A d \in Caller \ {c} : PastLock(d) =>
           /\ working[d].id \in locked' /\ policy'[working[d].id] # Nothing
           /\ Policies!Numbered' = Policies!Numbered \/ overlapped' # FALSE
           /\ PastLock(c)' => working[d].id # working'[c].id
  PROVE  PolicySound'
<1>1. row_ids' \in Nat
  BY DEF PolicyTyped, PolicyConstants
<1>2. \A d \in Caller \ {c} : CallKnows(d)'
  BY <1>1, OthersKeepPolicies
<1>3. \A d \in Caller \ {c} : PastLock(d)' <=> PastLock(d)
  BY DEF PastLock, Calls
<1>4. LockedApart'
  BY <1>3 DEF PolicySound, LockedApart
<1>5. Policies!AnswersStand'
  <2>1. ASSUME NEW e \in evaluated
        PROVE  policy'[e.id] # Nothing /\ policy'[e.id].version = e.version
    <3>1. /\ e.id \in Policies!Id /\ e.version \in 1..MaxRow
          /\ policy[e.id] # Nothing /\ policy[e.id].version = e.version
      BY DEF PolicySound, PolicyTyped, Policies!VersionsStand, Policies!AnswersStand,
         Policies!Exists, Policies!Version
    <3>2. e.id \in Policies!Numbered /\ e.id <= row_ids
      BY <3>1 DEF Policies!Numbered, Policies!Exists, PolicySound, RowsIssued, PolicyConstants
    <3>3. e.id \in Policies!Numbered' /\ policy'[e.id].version = policy[e.id].version
      BY <3>1, <3>2 DEF PoliciesMove
    <3>4. QED
      BY <3>1, <3>3 DEF Policies!Numbered, Policies!Exists
  <2>2. QED
    BY <2>1 DEF Policies!AnswersStand, Policies!Exists, Policies!Version
<1>6. QED
  BY <1>2, <1>4, <1>5 DEF PolicySound, Policies!VersionsStand

(* A step that writes no row. *)
LEMMA ReadsKeepPolicies ==
  ASSUME PolicyConstants, PolicySound, NEW c \in Caller,
         UNCHANGED <<row_ids, policy, evaluated, overlapped>>,
         NEW next_call \in PolicyCall \cup {Nothing},
         working' = [working EXCEPT ![c] = next_call],
         locked' \subseteq Policies!Id, locked \subseteq locked', CallKnows(c)',
         \A d \in Caller \ {c} :
           PastLock(d) /\ PastLock(c)' => working[d].id # working'[c].id
  PROVE  PolicySound'
<1>1. /\ working' \in [Caller -> PolicyCall \cup {Nothing}]
      /\ \A d \in Caller \ {c} : working'[d] = working[d]
  BY CallMovesPolicies
<1>2. PolicyTyped' /\ RowsIssued'
  BY <1>1 DEF PolicySound, PolicyTyped, RowsIssued
<1>3. /\ Policies!Numbered' = Policies!Numbered /\ Policies!With("draft")' = Policies!With("draft")
  BY DEF Policies!Numbered, Policies!With, Policies!Exists
<1>4. OneDraft'
  BY <1>3 DEF PolicySound, OneDraft
<1>5. Policies!VersionsSequential'
  BY <1>3 DEF PolicySound, Policies!VersionsStand, Policies!VersionsSequential, Policies!Version
<1>6. PoliciesMove
  BY <1>3 DEF PoliciesMove, PolicySound, PolicyTyped
<1>7. \A d \in Caller \ {c} : PastLock(d) =>
        working[d].id \in locked' /\ policy'[working[d].id] # Nothing
  BY DEF PolicySound, CallKnows
<1>8. QED
  BY <1>1, <1>2, <1>3, <1>4, <1>5, <1>6, <1>7, StepKeepsPolicies

LEMMA LooksKeepPolicies ==
  ASSUME PolicyConstants, PolicySound, NEW c \in Caller,
         \/ Policies!SeeDrafts(c) \/ Policies!GetDraft(c) \/ Policies!LookAtDraft(c)
         \/ Policies!GetPublished(c)
  PROVE  PolicySound'
<1>1. UNCHANGED <<row_ids, policy, locked, evaluated, overlapped>>
  BY DEF Policies!SeeDrafts, Policies!GetDraft, Policies!LookAtDraft, Policies!GetPublished
<1>2. Policies!Numbered' = Policies!Numbered
  BY <1>1 DEF Policies!Numbered, Policies!Exists
<1>3. \A p \in Policies!With("draft") :
        /\ Spent(p) /\ policy[p] \in Policies!Row
        /\ policy[p].status = "draft" /\ policy[p].version = 0
  BY DEF PolicySound, PolicyTyped, RowsIssued, Spent, Policies!With, Policies!Exists,
     Policies!Numbered
<1>4. \A p \in Policies!With("published") :
        p \in Policies!Numbered /\ policy[p] \in Policies!Row
  BY DEF PolicySound, PolicyTyped, RowsIssued, Policies!With, Policies!Exists,
     Policies!Numbered, Policies!Row
<1>5. \A p \in Policies!Id : Spent(p)' <=> Spent(p)
  BY <1>1, <1>2 DEF Spent
<1>6. PICK next_call \in PolicyCall :
        /\ working' = [working EXCEPT ![c] = next_call]
        /\ next_call.step \notin {"number", "commit"}
        /\ next_call.op = "create" => \A p \in next_call.ids : Spent(p) /\ p \in Policies!Id
        /\ next_call.op = "update" =>
             (/\ Spent(next_call.id) /\ next_call.id \in Policies!Id
              /\ next_call.row.status = "draft" /\ next_call.row.version = 0)
        /\ next_call.op = "publish" => Spent(next_call.id) /\ next_call.id \in Policies!Id
        /\ next_call.op = "retire" =>
             (/\ next_call.id \in Policies!Numbered
              /\ next_call.row.version = policy[next_call.id].version)
  <2>1. CASE Policies!SeeDrafts(c)
    <3> DEFINE new == [op |-> "create", step |-> "delete",
                       ids |-> {p \in Policies!Id : Policies!Exists(p)} \ Policies!Numbered]
    <3>1. working' = [working EXCEPT ![c] = new]
      BY <2>1 DEF Policies!SeeDrafts, Policies!Begin
    <3>2. new \in PolicyCall /\ new.op = "create" /\ new.step = "delete"
      BY DEF PolicyCall
    <3>3. \A p \in new.ids : Spent(p) /\ p \in Policies!Id
      BY DEF Spent, PolicySound, RowsIssued, Policies!Exists
    <3> HIDE DEF new
    <3>4. QED
      BY <3>1, <3>2, <3>3
  <2>2. CASE Policies!GetDraft(c)
    <3>1. PICK p \in Policies!With("draft") : working' = [working EXCEPT ![c] =
            [op |-> "update", step |-> "save", id |-> p, row |-> policy[p]]]
      BY <2>2 DEF Policies!GetDraft, Policies!Begin
    <3> DEFINE new == [op |-> "update", step |-> "save", id |-> p, row |-> policy[p]]
    <3>2. /\ new \in PolicyCall /\ new.op = "update" /\ new.step = "save" /\ new.id = p
          /\ new.row = policy[p] /\ p \in Policies!Id
      BY <1>3 DEF PolicyCall, Policies!With
    <3>3. working' = [working EXCEPT ![c] = new]
      BY <3>1
    <3> HIDE DEF new
    <3>4. QED
      BY <1>3, <3>2, <3>3
  <2>3. CASE Policies!LookAtDraft(c)
    <3>1. PICK p \in Policies!With("draft") : working' = [working EXCEPT ![c] =
            [op |-> "publish", step |-> "lock", id |-> p]]
      BY <2>3 DEF Policies!LookAtDraft, Policies!Begin
    <3> DEFINE new == [op |-> "publish", step |-> "lock", id |-> p]
    <3>2. /\ new \in PolicyCall /\ new.op = "publish" /\ new.step = "lock" /\ new.id = p
          /\ p \in Policies!Id
      BY DEF PolicyCall, Policies!With
    <3>3. working' = [working EXCEPT ![c] = new]
      BY <3>1
    <3> HIDE DEF new
    <3>4. QED
      BY <1>3, <3>2, <3>3
  <2>4. CASE Policies!GetPublished(c)
    <3>1. PICK p \in Policies!With("published") : working' = [working EXCEPT ![c] =
            [op |-> "retire", step |-> "save", id |-> p, row |-> policy[p]]]
      BY <2>4 DEF Policies!GetPublished, Policies!Begin
    <3> DEFINE new == [op |-> "retire", step |-> "save", id |-> p, row |-> policy[p]]
    <3>2. /\ new \in PolicyCall /\ new.op = "retire" /\ new.step = "save" /\ new.id = p
          /\ new.row = policy[p]
      BY <1>4 DEF PolicyCall, Policies!With
    <3>3. working' = [working EXCEPT ![c] = new]
      BY <3>1
    <3> HIDE DEF new
    <3>4. QED
      BY <1>4, <3>2, <3>3
  <2>5. QED
    BY <2>1, <2>2, <2>3, <2>4
<1>7. working'[c] = next_call
  BY <1>6, CallMovesPolicies
<1>8. CallKnows(c)'
  <2>1. /\ ~PastLock(c)'
        /\ Calls(c, "create")' => \A p \in next_call.ids : Spent(p)'
        /\ Calls(c, "update")' => Spent(next_call.id)'
        /\ Calls(c, "publish")' => Spent(next_call.id)'
    BY <1>5, <1>6, <1>7 DEF PastLock, Calls
  <2>2. QED
    BY <1>1, <1>2, <1>6, <1>7, <2>1 DEF CallKnows, Calls
<1>9. ~PastLock(c)'
  BY <1>6, <1>7 DEF PastLock
<1>10. QED
  BY <1>1, <1>6, <1>8, <1>9, ReadsKeepPolicies DEF PolicySound, PolicyTyped

LEMMA LockDraftKeepsPolicies ==
  ASSUME PolicyConstants, PolicySound, NEW c \in Caller, Policies!LockDraft(c)
  PROVE  PolicySound'
<1>1. /\ UNCHANGED <<row_ids, policy, evaluated, overlapped>>
      /\ Calls(c, "publish") /\ working[c].step = "lock"
  BY DEF Policies!LockDraft, Policies!At, Calls
<1>2. working[c] \in [op : {"publish"}, step : {"lock", "number"}, id : Policies!Id]
  BY <1>1, PolicyCallFacts DEF PolicySound
<1>3. PICK p \in Policies!Id : p = working[c].id
  BY <1>2
<1>4. p \notin locked /\ Spent(p)
  BY <1>1, <1>3 DEF Policies!LockDraft, PolicySound, CallKnows
<1>5. Policies!Numbered' = Policies!Numbered
  BY <1>1 DEF Policies!Numbered, Policies!Exists
<1>6. Spent(p)'
  BY <1>1, <1>4, <1>5 DEF Spent
<1>7. CASE policy[p] # Nothing
  <2> DEFINE new == [working[c] EXCEPT !.step = "number"]
  <2>1. locked' = locked \cup {p} /\ working' = [working EXCEPT ![c].step = "number"]
    BY <1>3, <1>7 DEF Policies!LockDraft, Policies!Exists, Policies!Step
  <2>2. /\ new \in PolicyCall /\ new # Nothing /\ new.op = "publish" /\ new.step = "number"
        /\ new.id = p
    BY <1>2, <1>3 DEF PolicyCall, PolicyConstants
  <2>3. working' = [working EXCEPT ![c] = new]
    BY <2>1
  <2> HIDE DEF new
  <2>4. working'[c] = new
    BY <2>2, <2>3, CallMovesPolicies
  <2>5. CallKnows(c)'
    <3>1. Spent(working[c].id)'
      BY <1>6, <2>2, <2>4 DEF Spent
    <3>2. QED
      BY <1>1, <1>3, <1>7, <2>1, <2>2, <2>4, <3>1 DEF CallKnows, Calls, PastLock
  <2>6. ASSUME NEW d \in Caller \ {c}, PastLock(d)
        PROVE  working[d].id # working'[c].id
    <3>1. working[d].id \in locked
      BY <2>6 DEF PolicySound, CallKnows
    <3>2. QED
      BY <1>4, <2>2, <2>4, <3>1
  <2>7. QED
    BY <1>1, <2>1, <2>2, <2>3, <2>5, <2>6, ReadsKeepPolicies DEF PolicySound, PolicyTyped
<1>8. CASE policy[p] = Nothing
  <2>1. UNCHANGED locked /\ working' = [working EXCEPT ![c] = Nothing]
    BY <1>3, <1>8 DEF Policies!LockDraft, Policies!Exists, Policies!Return
  <2>2. working'[c] = Nothing
    BY <2>1, CallMovesPolicies
  <2>3. CallKnows(c)' /\ ~PastLock(c)'
    BY <2>2 DEF CallKnows, Calls, PastLock
  <2>4. QED
    BY <1>1, <2>1, <2>3, ReadsKeepPolicies DEF PolicySound, PolicyTyped
<1>9. QED
  BY <1>7, <1>8

(* The versions of the rows that have one, and the highest of them.         *)
LEMMA MaxVersionFound ==
  ASSUME PolicyConstants, PolicySound
  PROVE  /\ Policies!MaxVersion \in 0..row_ids
         /\ overlapped = FALSE => Policies!MaxVersion = Cardinality(Policies!Numbered)
<1> DEFINE Versions == {0} \cup {policy[p].version : p \in Policies!Numbered}
<1>1. \A p \in Policies!Numbered : policy[p].version \in Nat /\ policy[p].version <= row_ids
  BY DEF PolicySound, PolicyTyped, RowsIssued, Policies!Numbered, Policies!Exists, Policies!Row
<1>2. row_ids \in Nat
  BY DEF PolicySound, PolicyTyped
<1>3. Versions \in SUBSET Nat /\ 0 \in Versions /\ \A v \in Versions : v <= row_ids
  BY <1>1, <1>2
<1>4. Policies!MaxVersion = Policies!Max(Versions)
  BY DEF Policies!MaxVersion, Policies!Version
<1> HIDE DEF Versions
<1>5. PICK m \in Versions : \A v \in Versions : v <= m
  BY <1>2, <1>3, GreatestExists
<1>6. \A v \in Versions : m >= v
  BY <1>3, <1>5
<1>7. /\ Policies!Max(Versions) \in Versions
      /\ \A v \in Versions : Policies!Max(Versions) >= v
  BY <1>5, <1>6 DEF Policies!Max
<1>8. Policies!MaxVersion \in 0..row_ids
  <2>1. PICK n \in Versions : n = Policies!MaxVersion
    BY <1>4, <1>7
  <2>2. n \in Nat /\ n <= row_ids
    BY <1>3, <2>1
  <2>3. QED
    BY <1>2, <2>1, <2>2
<1>9. ASSUME overlapped = FALSE
      PROVE  Policies!MaxVersion = Cardinality(Policies!Numbered)
  <2>1. PICK n \in Nat : n = Cardinality(Policies!Numbered)
    BY NumberedFinite
  <2>2. Versions = {0} \cup 1..n
    BY <1>9, <2>1, NumberedFinite DEF Versions
  <2>3. n \in Versions
    BY <2>1, <2>2
  <2>4. Policies!MaxVersion >= n
    BY <1>4, <1>7, <2>3
  <2>5. Policies!MaxVersion \in {0} \cup 1..n
    BY <1>4, <1>7, <2>2
  <2>6. QED
    BY <2>1, <2>4, <2>5
<1>10. QED
  BY <1>8, <1>9

LEMMA NumberKeepsPolicies ==
  ASSUME PolicyConstants, PolicySound, NEW c \in Caller, Policies!ReadMaxVersion(c)
  PROVE  PolicySound'
<1>1. /\ UNCHANGED <<row_ids, policy, locked, evaluated, overlapped>>
      /\ Calls(c, "publish") /\ working[c].step = "number"
  BY DEF Policies!ReadMaxVersion, Policies!At, Calls
<1>2. working[c] \in [op : {"publish"}, step : {"lock", "number"}, id : Policies!Id]
  BY <1>1, PolicyCallFacts DEF PolicySound
<1>3. PICK p \in Policies!Id : p = working[c].id
  BY <1>2
<1>4. /\ Spent(p) /\ PastLock(c) /\ p \in locked /\ policy[p] # Nothing
  BY <1>1, <1>3 DEF PolicySound, CallKnows, PastLock
<1>5. Policies!Numbered' = Policies!Numbered
  BY <1>1 DEF Policies!Numbered, Policies!Exists
<1>6. PICK v \in Nat : /\ v = Policies!MaxVersion + 1 /\ v \in 1..(row_ids + 1)
                       /\ overlapped = FALSE => v = Cardinality(Policies!Numbered) + 1
  <2>1. row_ids \in Nat
    BY DEF PolicySound, PolicyTyped
  <2>2. PICK m \in 0..row_ids : m = Policies!MaxVersion
    BY MaxVersionFound
  <2>3. m + 1 \in Nat /\ m + 1 \in 1..(row_ids + 1)
    BY <2>1
  <2>4. QED
    BY <2>2, <2>3, MaxVersionFound
<1> DEFINE new == [op |-> "publish", step |-> "commit", id |-> p, version |-> v]
<1>7. /\ new \in PolicyCall /\ new # Nothing /\ new.op = "publish" /\ new.step = "commit"
      /\ new.id = p /\ new.version = v
  BY DEF PolicyCall, PolicyConstants
<1>8. working' = [working EXCEPT ![c] = new]
  BY <1>3, <1>6 DEF Policies!ReadMaxVersion, PolicySound, PolicyTyped
<1> HIDE DEF new
<1>9. working'[c] = new
  BY <1>7, <1>8, CallMovesPolicies
<1>10. CallKnows(c)'
  <2>1. Spent(working[c].id)'
    BY <1>1, <1>4, <1>5, <1>7, <1>9 DEF Spent
  <2>2. Cardinality(Policies!Numbered') = Cardinality(Policies!Numbered)
    BY <1>5
  <2>3. QED
    BY <1>1, <1>4, <1>5, <1>6, <1>7, <1>9, <2>1, <2>2 DEF CallKnows, Calls, PastLock
<1>11. ASSUME NEW d \in Caller \ {c}, PastLock(d)
       PROVE  working[d].id # working'[c].id
  BY <1>3, <1>4, <1>7, <1>9, <1>11 DEF PolicySound, LockedApart
<1>12. QED
  BY <1>1, <1>7, <1>8, <1>10, <1>11, ReadsKeepPolicies DEF PolicySound, PolicyTyped

(* The drafts that were seen go, none of them locked and none a version.    *)
LEMMA DeleteKeepsPolicies ==
  ASSUME PolicyConstants, PolicySound, NEW c \in Caller, Policies!DeleteDrafts(c)
  PROVE  PolicySound'
<1>1. /\ Calls(c, "create") /\ working[c].step = "delete"
      /\ working[c].ids \cap locked = {}
      /\ policy' = [p \in Policies!Id |-> IF p \in working[c].ids THEN Nothing ELSE policy[p]]
      /\ UNCHANGED <<row_ids, locked, evaluated, overlapped>>
  BY DEF Policies!DeleteDrafts, Policies!At, Calls
<1>2. /\ working[c] \in [op : {"create"}, step : {"delete", "insert"}, ids : SUBSET Policies!Id]
      /\ \A p \in working[c].ids : Spent(p)
  BY <1>1, PolicyCallFacts DEF PolicySound, CallKnows
<1> DEFINE new == [working[c] EXCEPT !.step = "insert"]
<1>3. /\ new \in PolicyCall /\ new # Nothing /\ new.op = "create" /\ new.step = "insert"
      /\ new.ids = working[c].ids
  BY <1>2 DEF PolicyCall, PolicyConstants
<1>4. working' = [working EXCEPT ![c] = new]
  BY DEF Policies!DeleteDrafts, Policies!Step
<1> HIDE DEF new
<1>5. /\ working' \in [Caller -> PolicyCall \cup {Nothing}] /\ working'[c] = new
      /\ \A d \in Caller \ {c} : working'[d] = working[d]
  BY <1>3, <1>4, CallMovesPolicies
<1>6. /\ Policies!Numbered' = Policies!Numbered
      /\ \A p \in Policies!Numbered : policy'[p] = policy[p]
      /\ \A p \in Policies!Id : policy'[p] # Nothing => policy'[p] = policy[p]
  BY <1>1, <1>2 DEF Policies!Numbered, Policies!Exists, Spent
<1>7. PolicyTyped'
  BY <1>1, <1>5 DEF PolicySound, PolicyTyped
<1>8. RowsIssued'
  BY <1>1, <1>6 DEF PolicySound, RowsIssued
<1>9. OneDraft'
  <2>1. Policies!With("draft")' \subseteq Policies!With("draft")
    BY <1>6 DEF Policies!With, Policies!Exists
  <2>2. QED
    BY <1>1, <2>1 DEF PolicySound, OneDraft
<1>10. Policies!VersionsSequential'
  <2>1. {policy'[p].version : p \in Policies!Numbered'} = {policy[p].version : p \in Policies!Numbered}
    BY <1>6
  <2>2. QED
    BY <1>1, <1>6, <2>1 DEF PolicySound, Policies!VersionsStand, Policies!VersionsSequential,
       Policies!Version
<1>11. CallKnows(c)' /\ ~PastLock(c)'
  <2>1. \A p \in new.ids : Spent(p)'
    BY <1>1, <1>2, <1>3, <1>6 DEF Spent
  <2>2. QED
    BY <1>3, <1>5, <2>1 DEF CallKnows, Calls, PastLock
<1>12. PoliciesMove
  <2>1. row_ids <= row_ids'
    BY <1>1 DEF PolicySound, PolicyTyped
  <2>2. \A p \in Policies!Numbered : policy'[p].version = policy[p].version
    BY <1>6
  <2>3. QED
    BY <1>6, <2>1, <2>2 DEF PoliciesMove
<1>13. ASSUME NEW d \in Caller \ {c}, PastLock(d)
       PROVE  working[d].id \in locked' /\ policy'[working[d].id] # Nothing
  <2>1. /\ working[d].id \in locked /\ policy[working[d].id] # Nothing
        /\ working[d].id \in Policies!Id
    BY <1>13 DEF PolicySound, CallKnows, PolicyTyped
  <2>2. QED
    BY <1>1, <2>1
<1>14. QED
  BY <1>1, <1>5, <1>6, <1>7, <1>8, <1>9, <1>10, <1>11, <1>12, <1>13, StepKeepsPolicies

(* A row is written that is what its id stands for: a draft without a       *)
(* number, or a version with the number it has.                             *)
LEMMA RowIsWritten ==
  ASSUME PolicyConstants, PolicySound, NEW c \in Caller,
         NEW p \in Policies!Id, NEW row \in Policies!Row, Policies!Write(p, row),
         (row.status = "draft") <=> (row.version = 0),
         (row.status = "draft") <=> (p \notin Policies!Numbered),
         p \in Policies!Numbered => row.version = policy[p].version,
         row_ids' \in 0..MaxRow, row_ids <= row_ids', p <= row_ids',
         UNCHANGED <<locked, evaluated>>, working' = [working EXCEPT ![c] = Nothing]
  PROVE  PolicySound'
<1>1. /\ policy' = [policy EXCEPT ![p] = row] /\ overlapped' \in BOOLEAN
      /\ overlapped' = FALSE => overlapped = FALSE
      /\ (overlapped' = FALSE /\ row.status = "draft") => Policies!With("draft") \subseteq {p}
  BY WritesNoticeDrafts
<1>2. /\ working' \in [Caller -> PolicyCall \cup {Nothing}] /\ working'[c] = Nothing
      /\ \A d \in Caller \ {c} : working'[d] = working[d]
  BY CallMovesPolicies
<1>3. /\ policy' \in [Policies!Id -> Policies!Row \cup {Nothing}]
      /\ policy'[p] = row /\ row # Nothing
      /\ \A q \in Policies!Id \ {p} : policy'[q] = policy[q]
  BY <1>1 DEF PolicySound, PolicyTyped, PolicyConstants
<1>4. /\ Policies!Numbered' = Policies!Numbered
      /\ \A q \in Policies!Numbered : policy'[q].version = policy[q].version
  <2>1. row.version \in Nat
    BY DEF Policies!Row
  <2>2. p \in Policies!Numbered' <=> p \in Policies!Numbered
    BY <1>3, <2>1 DEF Policies!Numbered, Policies!Exists
  <2>3. QED
    BY <1>3, <2>2 DEF Policies!Numbered, Policies!Exists
<1>5. PolicyTyped'
  BY <1>1, <1>2, <1>3 DEF PolicySound, PolicyTyped
<1>6. RowsIssued'
  <2>1. row.version \in Nat /\ row.version <= row_ids'
    <3>1. row.version \in Nat /\ row_ids \in Nat /\ row_ids' \in Nat
      BY DEF Policies!Row, PolicyConstants, PolicySound, PolicyTyped
    <3>2. p \in Policies!Numbered => row.version <= row_ids
      BY DEF PolicySound, RowsIssued, Policies!Numbered, Policies!Exists
    <3>3. p \notin Policies!Numbered => row.version = 0
      OBVIOUS
    <3>4. QED
      BY <3>1, <3>2, <3>3
  <2>2. ASSUME NEW q \in Policies!Id \ {p}, policy'[q] # Nothing
        PROVE  q <= row_ids' /\ policy'[q].version <= row_ids'
    <3>1. q <= row_ids /\ policy[q].version <= row_ids /\ policy[q] \in Policies!Row
      BY <1>3, <2>2 DEF PolicySound, PolicyTyped, RowsIssued
    <3>2. q \in Nat /\ policy[q].version \in Nat /\ row_ids \in Nat /\ row_ids' \in Nat
      BY <3>1 DEF Policies!Row, Policies!Id, PolicyConstants, PolicySound, PolicyTyped
    <3>3. QED
      BY <1>3, <3>1, <3>2
  <2>3. QED
    BY <1>3, <2>1, <2>2 DEF PolicySound, RowsIssued
<1>7. OneDraft'
  <2>1. Policies!With("draft")' \subseteq
          Policies!With("draft") \cup (IF row.status = "draft" THEN {p} ELSE {})
    BY <1>3 DEF Policies!With, Policies!Exists
  <2>2. QED
    BY <1>1, <2>1 DEF PolicySound, OneDraft
<1>8. Policies!VersionsSequential'
  <2>1. {policy'[q].version : q \in Policies!Numbered'} = {policy[q].version : q \in Policies!Numbered}
    BY <1>4
  <2>2. ~overlapped' => ~overlapped
    BY Zenon, <1>1 DEF PolicySound, PolicyTyped
  <2>3. QED
    BY <1>4, <2>1, <2>2 DEF PolicySound, Policies!VersionsStand, Policies!VersionsSequential,
       Policies!Version
<1>9. CallKnows(c)' /\ ~PastLock(c)'
  BY <1>2 DEF CallKnows, Calls, PastLock
<1>10. PoliciesMove
  BY <1>4 DEF PoliciesMove
<1>11. ASSUME NEW d \in Caller \ {c}, PastLock(d)
       PROVE  working[d].id \in locked' /\ policy'[working[d].id] # Nothing
  <2>1. /\ working[d].id \in locked /\ policy[working[d].id] # Nothing
        /\ working[d].id \in Policies!Id
    BY <1>11 DEF PolicySound, CallKnows, PolicyTyped
  <2>2. QED
    BY <1>3, <2>1
<1>12. QED
  BY <1>1, <1>2, <1>4, <1>5, <1>6, <1>7, <1>8, <1>9, <1>10, <1>11, StepKeepsPolicies

LEMMA InsertDraftKeepsPolicies ==
  ASSUME PolicyConstants, PolicySound, NEW c \in Caller, Policies!InsertDraft(c)
  PROVE  PolicySound'
<1>1. /\ row_ids \in Nat /\ row_ids < MaxRow /\ row_ids' = row_ids + 1
      /\ working' = [working EXCEPT ![c] = Nothing] /\ UNCHANGED <<locked, evaluated>>
  BY DEF Policies!InsertDraft, Policies!Return, PolicySound, PolicyTyped
<1>2. PICK from \in Policies!Day, to \in Policies!Day \cup {Nothing} :
        Policies!Write(row_ids + 1, [status |-> "draft", version |-> 0,
                                     effective_from |-> from, effective_to |-> to])
  BY DEF Policies!InsertDraft
<1> DEFINE row == [status |-> "draft", version |-> 0,
                   effective_from |-> from, effective_to |-> to]
<1>3. row \in Policies!Row /\ row.status = "draft" /\ row.version = 0
  BY DEF Policies!Row, PolicyConstants
<1>4. Policies!Write(row_ids + 1, row)
  BY <1>2
<1> HIDE DEF row
<1>5. row_ids + 1 \in Policies!Id
  BY <1>1 DEF Policies!Id, PolicyConstants
<1>6. row_ids + 1 \notin Policies!Numbered
  BY <1>1 DEF PolicySound, RowsIssued, Policies!Numbered, Policies!Exists
<1>7. row_ids' \in 0..MaxRow /\ row_ids <= row_ids' /\ row_ids + 1 <= row_ids'
  BY <1>1 DEF PolicyConstants
<1>8. PICK p \in Policies!Id : p = row_ids + 1
  BY <1>5
<1>9. QED
  BY <1>1, <1>3, <1>4, <1>6, <1>7, <1>8, RowIsWritten

LEMMA SaveDraftKeepsPolicies ==
  ASSUME PolicyConstants, PolicySound, NEW c \in Caller, Policies!SaveDraft(c)
  PROVE  PolicySound'
<1>1. /\ Calls(c, "update") /\ working' = [working EXCEPT ![c] = Nothing]
      /\ UNCHANGED <<row_ids, locked, evaluated>>
  BY DEF Policies!SaveDraft, Policies!Return, Policies!At, Calls
<1>2. working[c] \in [op : {"update"}, step : {"save"}, id : Policies!Id, row : Policies!Row]
  BY <1>1, PolicyCallFacts DEF PolicySound
<1>3. /\ Spent(working[c].id) /\ working[c].row.status = "draft" /\ working[c].row.version = 0
  BY <1>1 DEF PolicySound, CallKnows
<1>4. PICK p \in Policies!Id : p = working[c].id
  BY <1>2
<1>5. PICK to \in Policies!Day \cup {Nothing} :
        Policies!Write(p, [working[c].row EXCEPT !.effective_to = to])
  BY <1>4 DEF Policies!SaveDraft
<1> DEFINE row == [working[c].row EXCEPT !.effective_to = to]
<1>6. row \in Policies!Row /\ row.status = "draft" /\ row.version = 0
  BY <1>2, <1>3 DEF Policies!Row
<1>7. Policies!Write(p, row)
  BY <1>5
<1> HIDE DEF row
<1>8. row_ids' \in 0..MaxRow /\ row_ids <= row_ids' /\ p <= row_ids' /\ p \notin Policies!Numbered
  BY <1>1, <1>3, <1>4 DEF Spent, PolicySound, PolicyTyped
<1>9. QED
  BY <1>1, <1>6, <1>7, <1>8, RowIsWritten

LEMMA SaveRetiredKeepsPolicies ==
  ASSUME PolicyConstants, PolicySound, NEW c \in Caller, Policies!SaveRetired(c)
  PROVE  PolicySound'
<1>1. /\ Calls(c, "retire") /\ working' = [working EXCEPT ![c] = Nothing]
      /\ UNCHANGED <<row_ids, locked, evaluated>>
  BY DEF Policies!SaveRetired, Policies!Return, Policies!At, Calls
<1>2. working[c] \in [op : {"retire"}, step : {"save"}, id : Policies!Id, row : Policies!Row]
  BY <1>1, PolicyCallFacts DEF PolicySound
<1>3. PICK p \in Policies!Id : p = working[c].id
  BY <1>2
<1>4. p \in Policies!Numbered /\ working[c].row.version = policy[p].version
  BY <1>1, <1>3 DEF PolicySound, CallKnows
<1>5. /\ policy[p] \in Policies!Row /\ policy[p].version > 0 /\ policy[p].version \in Nat
      /\ p <= row_ids
  BY <1>4 DEF Policies!Numbered, Policies!Exists, PolicySound, PolicyTyped, RowsIssued, Policies!Row
<1> DEFINE retired == [working[c].row EXCEPT !.status = "retired"]
<1>6. PICK day \in Policies!Day :
        LET closed == IF retired.effective_to = Nothing
                      THEN [retired EXCEPT !.effective_to = day] ELSE retired
        IN  Policies!Write(p, closed) \/ UNCHANGED <<policy, overlapped>>
  BY <1>3 DEF Policies!SaveRetired
<1> DEFINE closed == IF retired.effective_to = Nothing
                     THEN [retired EXCEPT !.effective_to = day] ELSE retired
<1>7. retired \in Policies!Row /\ retired.status = "retired" /\ retired.version = policy[p].version
  BY <1>2, <1>4 DEF Policies!Row
<1>8. closed \in Policies!Row /\ closed.status = "retired" /\ closed.version = policy[p].version
  <2> HIDE DEF retired
  <2>1. QED
    BY <1>7 DEF Policies!Row
<1>9. Policies!Write(p, closed) \/ UNCHANGED <<policy, overlapped>>
  BY <1>6
<1> HIDE DEF closed, retired
<1>10. CASE Policies!Write(p, closed)
  <2>1. row_ids' \in 0..MaxRow /\ row_ids <= row_ids' /\ p <= row_ids'
    BY <1>1, <1>5 DEF PolicySound, PolicyTyped
  <2>2. (closed.status = "draft" <=> closed.version = 0)
        /\ (closed.status = "draft" <=> p \notin Policies!Numbered)
    BY <1>4, <1>5, <1>8
  <2>3. QED
    BY <1>1, <1>8, <1>10, <2>1, <2>2, RowIsWritten
<1>11. CASE UNCHANGED <<policy, overlapped>>
  <2>1. working'[c] = Nothing
    BY <1>1, CallMovesPolicies
  <2>2. CallKnows(c)' /\ ~PastLock(c)'
    BY <2>1 DEF CallKnows, Calls, PastLock
  <2>3. QED
    BY <1>1, <1>11, <2>2, ReadsKeepPolicies DEF PolicySound, PolicyTyped
<1>12. QED
  BY <1>9, <1>10, <1>11

(* The draft goes, and its version comes under a new id.                    *)
LEMMA CommitKeepsPolicies ==
  ASSUME PolicyConstants, PolicySound, NEW c \in Caller, Policies!CommitVersion(c)
  PROVE  PolicySound'
<1>1. /\ Calls(c, "publish") /\ working[c].step = "commit" /\ PastLock(c)
      /\ row_ids \in Nat /\ row_ids < MaxRow /\ row_ids' = row_ids + 1
      /\ working' = [working EXCEPT ![c] = Nothing]
      /\ UNCHANGED <<evaluated, overlapped>>
  BY DEF Policies!CommitVersion, Policies!At, Policies!Return, Calls, PastLock, PolicySound,
     PolicyTyped
<1>2. working[c] \in [op : {"publish"}, step : {"commit"}, id : Policies!Id, version : Nat]
  BY <1>1, PolicyCallFacts DEF PolicySound
<1>3. PICK p \in Policies!Id, v \in Nat, n \in Nat :
        p = working[c].id /\ v = working[c].version /\ n = row_ids + 1
  BY <1>1, <1>2
<1>4. /\ Spent(p) /\ p \in locked /\ policy[p] # Nothing /\ policy[p] \in Policies!Row
      /\ v \in 1..n
      /\ overlapped = FALSE => v = Cardinality(Policies!Numbered) + 1
  BY <1>1, <1>3 DEF PolicySound, CallKnows, PolicyTyped
<1>5. n \in Policies!Id /\ n <= MaxRow /\ p < n /\ n # p
  BY <1>1, <1>3, <1>4 DEF Policies!Id, PolicyConstants, Spent
<1> DEFINE new == [policy[p] EXCEPT !.status = "published", !.version = v]
<1>6. new \in Policies!Row /\ new # Nothing /\ new.status = "published" /\ new.version = v
  <2>1. v \in 0..MaxRow
    BY <1>4, <1>5 DEF PolicyConstants
  <2>2. QED
    BY <1>4, <2>1 DEF Policies!Row, PolicyConstants
<1>7. policy' = [policy EXCEPT ![n] = new, ![p] = Nothing] /\ locked' = locked \ {p}
  BY <1>3 DEF Policies!CommitVersion
<1> HIDE DEF new
<1>8. /\ policy' \in [Policies!Id -> Policies!Row \cup {Nothing}]
      /\ policy'[n] = new /\ policy'[p] = Nothing
      /\ \A q \in Policies!Id \ {n, p} : policy'[q] = policy[q]
  BY <1>5, <1>6, <1>7 DEF PolicySound, PolicyTyped
<1>9. /\ working' \in [Caller -> PolicyCall \cup {Nothing}] /\ working'[c] = Nothing
      /\ \A d \in Caller \ {c} : working'[d] = working[d]
  BY <1>1, CallMovesPolicies
<1>10. n \notin Policies!Numbered /\ p \notin Policies!Numbered
  BY <1>1, <1>3, <1>4 DEF PolicySound, RowsIssued, Policies!Numbered, Policies!Exists, Spent
<1>11. /\ Policies!Numbered' = Policies!Numbered \cup {n}
       /\ \A q \in Policies!Numbered : policy'[q] = policy[q]
  <2>1. n \in Policies!Numbered'
    BY <1>4, <1>5, <1>6, <1>8 DEF Policies!Numbered, Policies!Exists
  <2>2. p \notin Policies!Numbered'
    BY <1>8 DEF Policies!Numbered, Policies!Exists
  <2>3. \A q \in Policies!Id \ {n, p} : q \in Policies!Numbered' <=> q \in Policies!Numbered
    BY <1>8 DEF Policies!Numbered, Policies!Exists
  <2>4. Policies!Numbered \subseteq Policies!Id /\ Policies!Numbered' \subseteq Policies!Id
    BY DEF Policies!Numbered
  <2>5. \A q \in Policies!Numbered : policy'[q] = policy[q]
    BY <1>8, <1>10, <2>4
  <2>6. QED
    BY <1>5, <1>10, <2>1, <2>2, <2>3, <2>4, <2>5
<1>12. PolicyTyped'
  BY <1>1, <1>7, <1>8, <1>9 DEF PolicySound, PolicyTyped, PolicyConstants
<1>13. RowsIssued'
  <2>1. ASSUME NEW q \in Policies!Id \ {n, p}, policy'[q] # Nothing
        PROVE  /\ q <= row_ids' /\ policy'[q].version <= row_ids'
               /\ policy'[q].status = "draft" <=> policy'[q].version = 0
    <3>1. /\ q <= row_ids /\ policy[q].version <= row_ids /\ policy[q] \in Policies!Row
          /\ policy[q].status = "draft" <=> policy[q].version = 0
      BY <1>8, <2>1 DEF PolicySound, PolicyTyped, RowsIssued
    <3>2. q \in Nat /\ policy[q].version \in Nat
      BY <3>1 DEF Policies!Row, Policies!Id, PolicyConstants
    <3>3. QED
      BY <1>1, <1>8, <3>1, <3>2
  <2>2. n <= row_ids' /\ v <= row_ids' /\ v # 0
    BY <1>1, <1>3, <1>4
  <2>3. QED
    BY <1>5, <1>6, <1>8, <2>1, <2>2 DEF RowsIssued
<1>14. OneDraft'
  <2>1. Policies!With("draft")' \subseteq Policies!With("draft")
    BY <1>6, <1>8 DEF Policies!With, Policies!Exists
  <2>2. QED
    BY <1>1, <2>1 DEF PolicySound, OneDraft
<1>15. Policies!VersionsSequential'
  <2>1. SUFFICES ASSUME overlapped = FALSE
                 PROVE  {Policies!Version(q)' : q \in Policies!Numbered'} =
                          1..Policies!Cardinality(Policies!Numbered')
    <3>1. ~overlapped' => overlapped = FALSE
      BY Zenon, <1>1 DEF PolicySound, PolicyTyped
    <3>2. QED
      BY <2>1, <3>1 DEF Policies!VersionsSequential, Policies!Version
  <2>2. PICK k \in Nat : k = Cardinality(Policies!Numbered)
    BY NumberedFinite
  <2>3. /\ {policy[q].version : q \in Policies!Numbered} = 1..k /\ v = k + 1
        /\ IsFiniteSet(Policies!Numbered)
    BY <1>4, <2>1, <2>2, NumberedFinite
  <2>4. Cardinality(Policies!Numbered \cup {n}) = k + 1
    BY <1>10, <2>2, <2>3, FS_AddElement
  <2>5. {policy'[q].version : q \in Policies!Numbered'} =
          {policy[q].version : q \in Policies!Numbered} \cup {v}
    BY <1>6, <1>8, <1>11
  <2>6. {policy'[q].version : q \in Policies!Numbered'} = 1..(k + 1)
    <3>1. 1..k \cup {k + 1} = 1..(k + 1)
      BY IntervalExtended
    <3>2. QED
      BY <2>3, <2>5, <3>1
  <2>7. Policies!Cardinality(Policies!Numbered') = k + 1
    BY <1>11, <2>4, SameCardinality
  <2>8. QED
    BY <2>6, <2>7 DEF Policies!Version
<1>16. CallKnows(c)' /\ ~PastLock(c)'
  BY <1>9 DEF CallKnows, Calls, PastLock
<1>17. PoliciesMove
  <2>1. row_ids <= row_ids'
    BY <1>1
  <2>2. \A q \in Policies!Id : q <= row_ids => q # n
    BY <1>1, <1>3 DEF Policies!Id, PolicyConstants
  <2>3. QED
    BY <1>11, <2>1, <2>2 DEF PoliciesMove
<1>18. ASSUME NEW d \in Caller \ {c}, PastLock(d)
       PROVE  /\ working[d].id \in locked' /\ policy'[working[d].id] # Nothing
              /\ overlapped' # FALSE
  <2>1. /\ working[d].id \in locked /\ policy[working[d].id] # Nothing
        /\ working[d].id \in Policies!Id /\ Spent(working[d].id) /\ working[d].id # p
    BY <1>1, <1>3, <1>18 DEF PolicySound, CallKnows, PolicyTyped, LockedApart, PastLock
  <2>2. working[d].id # n
    BY <1>1, <1>3, <2>1 DEF Spent, Policies!Id, PolicyConstants
  <2>3. overlapped # FALSE
    BY <1>1, <1>18, OnePublisher
  <2>4. QED
    BY <1>1, <1>7, <1>8, <2>1, <2>2, <2>3
<1>19. QED
  BY <1>1, <1>9, <1>12, <1>13, <1>14, <1>15, <1>16, <1>17, <1>18, StepKeepsPolicies

(* An answer is given from a version. *)
LEMMA ResolveKeepsPolicies ==
  ASSUME PolicyConstants, PolicySound, Policies!Resolve
  PROVE  PolicySound'
<1>1. UNCHANGED <<row_ids, policy, locked, working, overlapped>>
  BY DEF Policies!Resolve
<1>2. PICK p \in Policies!With("published") :
        evaluated' = evaluated \cup {[id |-> p, version |-> policy[p].version]}
  BY DEF Policies!Resolve, Policies!InForce, Policies!Version
<1>3. /\ p \in Policies!Id /\ policy[p] # Nothing /\ policy[p].version \in 1..MaxRow
  BY DEF PolicySound, PolicyTyped, RowsIssued, Policies!With, Policies!Exists, Policies!Row,
     PolicyConstants
<1>4. /\ Policies!Numbered' = Policies!Numbered
      /\ Policies!With("draft")' = Policies!With("draft")
  BY <1>1 DEF Policies!Numbered, Policies!With, Policies!Exists
<1>5. PolicyTyped'
  BY <1>1, <1>2, <1>3 DEF PolicySound, PolicyTyped
<1>6. RowsIssued' /\ OneDraft' /\ LockedApart'
  BY <1>1, <1>4 DEF PolicySound, RowsIssued, OneDraft, LockedApart, PastLock, Calls
<1>7. \A c \in Caller : CallKnows(c)'
  <2>1. \A q : Spent(q)' <=> Spent(q)
    BY <1>1, <1>4 DEF Spent
  <2>2. QED
    BY <1>1, <1>4, <2>1 DEF PolicySound, CallKnows, Calls, PastLock
<1>8. Policies!VersionsSequential'
  BY <1>1, <1>4 DEF PolicySound, Policies!VersionsStand, Policies!VersionsSequential,
     Policies!Version
<1>9. Policies!AnswersStand'
  BY <1>1, <1>2, <1>3 DEF PolicySound, Policies!VersionsStand, Policies!AnswersStand,
     Policies!Exists, Policies!Version
<1>10. QED
  BY <1>5, <1>6, <1>7, <1>8, <1>9 DEF PolicySound, Policies!VersionsStand

LEMMA PolicyStep ==
  ASSUME PolicyConstants, PolicySound, [Policies!Next]_policyVars
  PROVE  PolicySound'
<1>1. CASE UNCHANGED policyVars
  <2>1. UNCHANGED <<row_ids, policy, locked, working, evaluated, overlapped>>
    BY <1>1 DEF policyVars
  <2>2. /\ Policies!Numbered' = Policies!Numbered
        /\ Policies!With("draft")' = Policies!With("draft")
    BY <2>1 DEF Policies!Numbered, Policies!With, Policies!Exists
  <2>3. PolicyTyped' /\ RowsIssued' /\ OneDraft' /\ LockedApart'
    BY <2>1, <2>2 DEF PolicySound, PolicyTyped, RowsIssued, OneDraft, LockedApart, PastLock, Calls
  <2>4. \A c \in Caller : CallKnows(c)'
    <3>1. \A q : Spent(q)' <=> Spent(q)
      BY <2>1, <2>2 DEF Spent
    <3>2. QED
      BY <2>1, <2>2, <3>1 DEF PolicySound, CallKnows, Calls, PastLock
  <2>5. Policies!VersionsStand'
    BY <2>1, <2>2 DEF PolicySound, Policies!VersionsStand, Policies!VersionsSequential,
       Policies!AnswersStand, Policies!Exists, Policies!Version
  <2>6. QED
    BY <2>3, <2>4, <2>5 DEF PolicySound
<1>2. CASE Policies!Next
  BY <1>2, LooksKeepPolicies, LockDraftKeepsPolicies, NumberKeepsPolicies, DeleteKeepsPolicies,
     InsertDraftKeepsPolicies, SaveDraftKeepsPolicies, SaveRetiredKeepsPolicies,
     CommitKeepsPolicies, ResolveKeepsPolicies DEF Policies!Next
<1>3. QED
  BY <1>1, <1>2

LEMMA PolicyInit ==
  ASSUME PolicyConstants, Policies!Init
  PROVE  PolicySound
<1>1. Policies!Numbered = {} /\ Policies!With("draft") = {}
  BY DEF Policies!Init, Policies!Numbered, Policies!With, Policies!Exists
<1>2. Policies!Cardinality(Policies!Numbered) = 0
  BY <1>1, SameCardinality, FS_EmptySet
<1>3. Policies!VersionsSequential
  BY <1>1, <1>2 DEF Policies!VersionsSequential
<1>4. PolicyTyped /\ RowsIssued
  <2>1. overlapped \in BOOLEAN
    BY Zenon DEF Policies!Init
  <2>2. QED
    BY <2>1 DEF Policies!Init, PolicyConstants, PolicyTyped, RowsIssued
<1>5. OneDraft /\ LockedApart /\ \A c \in Caller : CallKnows(c)
  BY <1>1 DEF Policies!Init, OneDraft, LockedApart, CallKnows, PastLock, Calls
<1>6. QED
  BY <1>3, <1>4, <1>5 DEF Policies!Init, PolicySound, Policies!VersionsStand, Policies!AnswersStand

(* The invariant gives what the run checks of the policies.                 *)
LEMMA PoliciesShow ==
  ASSUME PolicyConstants, PolicySound
  PROVE  Policies!TypeOK /\ Policies!VersionsStand
<1>1. \A c \in Caller : working[c] # Nothing =>
        working[c].op \in {"create", "update", "publish", "retire"}
  BY DEF PolicySound, PolicyTyped, PolicyCall
<1>2. QED
  BY <1>1 DEF PolicySound, PolicyTyped, Policies!TypeOK

-----------------------------------------------------------------------------
(* The calendar of slots (apps/availability).                               *)

CalendarTyped ==
  /\ calendar_today \in 0..LastDay /\ maintained \in 0..calendar_today
  /\ partitions \subseteq FirstDay
  /\ night_slot \in [Calendar!Day -> 0..Units \cup {Nothing}]
  /\ nights \in [Stay -> SUBSET Calendar!Day]
  /\ opened \subseteq Calendar!Day
  /\ clerk_job \in [Clerk -> ClerkJob \cup {Nothing}]

(* Months behind the day of the last task that created its own are the only *)
(* ones to go: a task that creates has done so but for what has gone, and a *)
(* task that drops has only those on its list.                              *)
ClerkKnows(c) ==
  /\ Calendar!At(c, "create") =>
       (/\ clerk_job[c].today <= calendar_today
        /\ \A m \in Calendar!Horizon(clerk_job[c].today) \ clerk_job[c].months :
             m \in partitions \/ m < Calendar!month_start(maintained))
  /\ Calendar!At(c, "drop") =>
       \A m \in clerk_job[c].months : m < Calendar!month_start(maintained)

CalendarSound ==
  /\ CalendarTyped
  /\ Calendar!Horizon(maintained) \subseteq partitions
  /\ \A c \in Clerk : ClerkKnows(c)
  /\ \A night \in Calendar!Day : night_slot[night] # Nothing => night \in opened
  /\ \A s \in Stay : nights[s] \subseteq opened
  /\ Calendar!NightsAheadOpen /\ Calendar!NightsAheadCounted

LEMMA MonthStarts ==
  ASSUME CalendarConstants, NEW day \in Nat
  PROVE  /\ Calendar!month_start(day) \in FirstDay /\ Calendar!month_start(day) \in Nat
         /\ Calendar!month_start(day) <= day
         /\ \A m \in FirstDay : m <= day => m <= Calendar!month_start(day)
<1> DEFINE Starts == {m \in FirstDay : m <= day}
<1>1. Starts \in SUBSET Nat /\ 0 \in Starts /\ \A m \in Starts : m <= day
  <2>1. FirstDay \subseteq Nat /\ 0 \in FirstDay /\ 0 <= day
    BY DEF CalendarConstants
  <2>2. QED
    BY <2>1
<1>2. Calendar!month_start(day) = Calendar!Max(Starts)
  BY DEF Calendar!month_start
<1>3. Starts \subseteq FirstDay /\ \A m \in FirstDay : m <= day => m \in Starts
  OBVIOUS
<1> HIDE DEF Starts
<1>4. PICK x \in Starts : \A m \in Starts : m <= x
  BY <1>1, GreatestExists
<1>5. \A m \in Starts : x >= m
  BY <1>1, <1>4
<1>6. /\ Calendar!Max(Starts) \in Starts
      /\ \A m \in Starts : Calendar!Max(Starts) >= m
  BY <1>4, <1>5 DEF Calendar!Max
<1>7. PICK y \in Starts : y = Calendar!month_start(day) /\ \A m \in Starts : y >= m
  BY <1>2, <1>6
<1>8. y \in Nat /\ y \in FirstDay /\ y <= day
  BY <1>1, <1>3
<1>9. \A m \in FirstDay : m <= day => m <= y
  BY <1>1, <1>3, <1>7, <1>8
<1>10. QED
  BY <1>7, <1>8, <1>9

LEMMA MonthsInOrder ==
  ASSUME CalendarConstants, NEW day \in Nat, NEW later \in Nat, day <= later
  PROVE  Calendar!month_start(day) <= Calendar!month_start(later)
<1>1. /\ Calendar!month_start(day) \in FirstDay /\ Calendar!month_start(day) \in Nat
      /\ Calendar!month_start(day) <= day
  BY MonthStarts
<1>2. Calendar!month_start(day) <= later
  BY <1>1
<1>3. QED
  BY <1>1, <1>2, MonthStarts

(* A day of a month, or of a later one, is not in an earlier one.           *)
LEMMA AheadOfMonth ==
  ASSUME CalendarConstants, NEW day \in Nat, NEW night \in Nat,
         Calendar!month_start(day) <= night
  PROVE  Calendar!month_start(day) <= Calendar!month_start(night)
BY MonthStarts

LEMMA HorizonMonths ==
  ASSUME CalendarConstants, NEW day \in Nat
  PROVE  /\ Calendar!Horizon(day) \subseteq FirstDay
         /\ \A m \in Calendar!Horizon(day) : m \in Nat /\ Calendar!month_start(day) <= m
         /\ \A night \in day..(day + AVAILABILITY_HORIZON_DAYS) :
              Calendar!month_start(night) \in Calendar!Horizon(day)
<1>1. Calendar!Horizon(day) =
        {m \in FirstDay : /\ Calendar!month_start(day) <= m
                          /\ m <= Calendar!month_start(day + AVAILABILITY_HORIZON_DAYS)}
  BY DEF Calendar!Horizon, Calendar!iter_months
<1>2. \A m \in FirstDay : m \in Nat
  BY DEF CalendarConstants
<1>3. ASSUME NEW night \in day..(day + AVAILABILITY_HORIZON_DAYS)
      PROVE  Calendar!month_start(night) \in Calendar!Horizon(day)
  <2>1. /\ night \in Nat /\ day <= night /\ night <= day + AVAILABILITY_HORIZON_DAYS
        /\ day + AVAILABILITY_HORIZON_DAYS \in Nat
    BY DEF CalendarConstants
  <2>2. Calendar!month_start(night) \in FirstDay
    BY <2>1, MonthStarts
  <2>3. Calendar!month_start(day) <= Calendar!month_start(night)
    BY <2>1, MonthsInOrder
  <2>4. Calendar!month_start(night) <= Calendar!month_start(day + AVAILABILITY_HORIZON_DAYS)
    BY <2>1, MonthsInOrder
  <2>5. QED
    BY <1>1, <2>2, <2>3, <2>4
<1>4. QED
  BY <1>1, <1>2, <1>3

LEMMA ClerkJobFacts ==
  ASSUME CalendarConstants, CalendarTyped, NEW c \in Clerk
  PROVE  /\ Calendar!At(c, "create") => clerk_job[c] \in
              [step : {"create"}, today : 0..LastDay, months : SUBSET FirstDay]
         /\ Calendar!At(c, "drop") => clerk_job[c] \in
              [step : {"drop"}, months : SUBSET FirstDay]
         /\ Calendar!At(c, "insert") => clerk_job[c] \in
              [step : {"insert"}, missing : SUBSET Calendar!Day]
BY DEF CalendarTyped, ClerkJob, Calendar!At

LEMMA DaysNumbered ==
  ASSUME CalendarConstants, CalendarTyped
  PROVE  /\ calendar_today \in Nat /\ maintained \in Nat /\ maintained <= calendar_today
         /\ Calendar!Day \subseteq Nat
         /\ Calendar!month_start(maintained) \in Nat
         /\ Calendar!month_start(calendar_today) \in Nat
         /\ Calendar!month_start(maintained) <= Calendar!month_start(calendar_today)
<1>1. calendar_today \in Nat /\ maintained \in Nat /\ maintained <= calendar_today
  BY DEF CalendarTyped, CalendarConstants
<1>2. Calendar!Day \subseteq Nat
  BY DEF Calendar!Day, CalendarConstants
<1>3. QED
  BY <1>1, <1>2, MonthStarts, MonthsInOrder

(* The clerks' jobs, when months come and go as the tasks may make them.    *)
LEMMA OthersKeepCalendar ==
  ASSUME CalendarConstants, CalendarSound, NEW d \in Clerk, clerk_job'[d] = clerk_job[d],
         calendar_today' \in Nat, calendar_today <= calendar_today',
         maintained' \in Nat, maintained <= maintained',
         \A m \in partitions : m \in partitions' \/ m < Calendar!month_start(maintained)
  PROVE  ClerkKnows(d)'
<1>1. PICK a \in Nat, b \in Nat : a = Calendar!month_start(maintained)
                               /\ b = Calendar!month_start(maintained)' /\ a <= b
  <2>1. PICK x \in Nat, y \in Nat : x = maintained /\ y = maintained' /\ x <= y
    BY DaysNumbered DEF CalendarSound
  <2>2. /\ Calendar!month_start(x) \in Nat /\ Calendar!month_start(y) \in Nat
        /\ Calendar!month_start(x) <= Calendar!month_start(y)
    BY <2>1, MonthStarts, MonthsInOrder
  <2>3. Calendar!month_start(maintained)' = Calendar!month_start(y)
    BY <2>1 DEF Calendar!month_start
  <2>4. QED
    BY <2>1, <2>2, <2>3
<1>2. \A s : Calendar!At(d, s)' <=> Calendar!At(d, s)
  BY DEF Calendar!At
<1>3. ASSUME Calendar!At(d, "create")
      PROVE  /\ clerk_job[d].today <= calendar_today'
             /\ \A m \in Calendar!Horizon(clerk_job[d].today) \ clerk_job[d].months :
                  m \in partitions' \/ m < b
  <2>1. /\ clerk_job[d].today <= calendar_today /\ clerk_job[d].today \in Nat
        /\ \A m \in Calendar!Horizon(clerk_job[d].today) \ clerk_job[d].months :
             m \in partitions \/ m < a
    BY <1>1, <1>3, ClerkJobFacts DEF CalendarSound, ClerkKnows, CalendarConstants
  <2>2. \A m \in Calendar!Horizon(clerk_job[d].today) : m \in Nat
    BY <2>1, HorizonMonths
  <2>3. clerk_job[d].today <= calendar_today'
    BY <2>1, DaysNumbered DEF CalendarSound
  <2>4. ASSUME NEW m \in Calendar!Horizon(clerk_job[d].today) \ clerk_job[d].months
        PROVE  m \in partitions' \/ m < b
    <3>1. m \in Nat /\ (m \in partitions' \/ m < a)
      BY <1>1, <2>1, <2>2
    <3>2. m < a => m < b
      BY <1>1, <3>1
    <3>3. QED
      BY <3>1, <3>2
  <2>5. QED
    BY <2>3, <2>4
<1>4. ASSUME Calendar!At(d, "drop")
      PROVE  \A m \in clerk_job[d].months : m < b
  <2>1. \A m \in clerk_job[d].months : m < a /\ m \in Nat
    BY <1>1, <1>4, ClerkJobFacts DEF CalendarSound, ClerkKnows, CalendarConstants
  <2>2. QED
    BY <1>1, <2>1
<1>5. Calendar!Horizon(clerk_job[d].today)' = Calendar!Horizon(clerk_job[d].today)
  BY DEF Calendar!Horizon, Calendar!iter_months, Calendar!month_start
<1>6. QED
  BY <1>1, <1>2, <1>3, <1>4, <1>5 DEF ClerkKnows

LEMMA AheadShrinks ==
  ASSUME CalendarConstants, CalendarSound, calendar_today' \in Nat,
         calendar_today <= calendar_today'
  PROVE  Calendar!Ahead' \subseteq Calendar!Ahead
<1>1. PICK a \in Nat, b \in Nat : a = calendar_today /\ b = calendar_today' /\ a <= b
  BY DaysNumbered DEF CalendarSound
<1>2. /\ Calendar!month_start(a) \in Nat /\ Calendar!month_start(b) \in Nat
      /\ Calendar!month_start(a) <= Calendar!month_start(b)
  BY <1>1, MonthStarts, MonthsInOrder
<1>3. /\ Calendar!month_start(calendar_today) = Calendar!month_start(a)
      /\ Calendar!month_start(calendar_today)' = Calendar!month_start(b)
  BY <1>1 DEF Calendar!month_start
<1>4. \A night \in Calendar!Day : night \in Nat
  BY DaysNumbered DEF CalendarSound
<1>5. ASSUME NEW night \in Calendar!Ahead'
      PROVE  night \in Calendar!Ahead
  <2>1. night \in Calendar!Day /\ Calendar!month_start(b) <= night
    BY <1>3 DEF Calendar!Ahead
  <2>2. night \in Nat /\ Calendar!month_start(a) <= night
    BY <1>2, <1>4, <2>1
  <2>3. QED
    BY <1>3, <2>1, <2>2 DEF Calendar!Ahead
<1>6. QED
  BY <1>5

(* A step that leaves the slots and the stays alone. *)
LEMMA RestKeepsCalendar ==
  ASSUME CalendarConstants, CalendarSound, UNCHANGED <<night_slot, nights, opened>>,
         calendar_today' \in 0..LastDay, calendar_today <= calendar_today',
         maintained' \in 0..calendar_today', partitions' \subseteq FirstDay,
         Calendar!Horizon(maintained)' \subseteq partitions',
         clerk_job' \in [Clerk -> ClerkJob \cup {Nothing}],
         \A d \in Clerk : ClerkKnows(d)'
  PROVE  CalendarSound'
<1>1. CalendarTyped'
  BY DEF CalendarSound, CalendarTyped
<1>2. Calendar!Ahead' \subseteq Calendar!Ahead
  BY AheadShrinks DEF CalendarConstants
<1>3. Calendar!NightsAheadOpen'
  BY <1>2 DEF CalendarSound, Calendar!NightsAheadOpen
<1>4. Calendar!NightsAheadCounted'
  BY <1>2 DEF CalendarSound, Calendar!NightsAheadCounted
<1>5. QED
  BY <1>1, <1>3, <1>4 DEF CalendarSound

LEMMA TickKeepsCalendar ==
  ASSUME CalendarConstants, CalendarSound, Calendar!Tick
  PROVE  CalendarSound'
<1>1. /\ UNCHANGED <<night_slot, nights, opened, partitions, clerk_job, maintained>>
      /\ calendar_today' = calendar_today + 1 /\ calendar_today < LastDay
      /\ calendar_today \in Nat /\ maintained \in Nat /\ maintained <= calendar_today
  BY DaysNumbered DEF Calendar!Tick, CalendarSound
<1>2. /\ calendar_today' \in 0..LastDay /\ calendar_today' \in Nat
      /\ calendar_today <= calendar_today'
  BY <1>1 DEF CalendarConstants
<1>3. maintained' \in 0..calendar_today' /\ maintained' \in Nat /\ maintained <= maintained'
  BY <1>1
<1>4. Calendar!Horizon(maintained)' \subseteq partitions'
  BY <1>1 DEF CalendarSound, Calendar!Horizon, Calendar!iter_months, Calendar!month_start
<1>5. \A d \in Clerk : ClerkKnows(d)'
  BY <1>1, <1>2, <1>3, OthersKeepCalendar
<1>6. QED
  BY <1>1, <1>2, <1>3, <1>4, <1>5, RestKeepsCalendar DEF CalendarSound, CalendarTyped

(* A job of one clerk that goes on, the day and the months of the last task *)
(* as they were.                                                            *)
LEMMA JobKeepsCalendar ==
  ASSUME CalendarConstants, CalendarSound, NEW c \in Clerk,
         UNCHANGED <<night_slot, nights, opened, calendar_today, maintained>>,
         partitions \subseteq partitions', partitions' \subseteq FirstDay,
         NEW next_job \in ClerkJob \cup {Nothing}, clerk_job' = [clerk_job EXCEPT ![c] = next_job],
         ClerkKnows(c)'
  PROVE  CalendarSound'
<1>1. /\ clerk_job' \in [Clerk -> ClerkJob \cup {Nothing}]
      /\ \A d \in Clerk \ {c} : clerk_job'[d] = clerk_job[d]
  BY DEF CalendarSound, CalendarTyped
<1>2. /\ calendar_today' \in Nat /\ calendar_today <= calendar_today'
      /\ maintained' \in Nat /\ maintained <= maintained'
  BY DaysNumbered DEF CalendarSound
<1>3. \A d \in Clerk : ClerkKnows(d)'
  BY <1>1, <1>2, OthersKeepCalendar
<1>4. Calendar!Horizon(maintained)' \subseteq partitions'
  BY DEF CalendarSound, Calendar!Horizon, Calendar!iter_months, Calendar!month_start
<1>5. QED
  BY <1>1, <1>2, <1>3, <1>4, RestKeepsCalendar DEF CalendarSound, CalendarTyped

LEMMA StartsKeepCalendar ==
  ASSUME CalendarConstants, CalendarSound, NEW c \in Clerk,
         Calendar!StartTask(c) \/ Calendar!ReadExisting(c) \/ Calendar!TaskEnds(c)
  PROVE  CalendarSound'
<1>1. UNCHANGED <<night_slot, nights, opened, calendar_today, maintained, partitions>>
  BY DEF Calendar!StartTask, Calendar!ReadExisting, Calendar!TaskEnds
<1>2. CASE Calendar!StartTask(c)
  <2> DEFINE new == [step |-> "create", today |-> calendar_today,
                     months |-> Calendar!Horizon(calendar_today)]
  <2>1. clerk_job' = [clerk_job EXCEPT ![c] = new]
    BY <1>2 DEF Calendar!StartTask, Calendar!Begin
  <2>2. Calendar!Horizon(calendar_today) \subseteq FirstDay
    BY HorizonMonths, DaysNumbered DEF CalendarSound
  <2>3. /\ new \in ClerkJob /\ new.step = "create" /\ new.today = calendar_today
        /\ new.months = Calendar!Horizon(calendar_today) /\ new # Nothing
    BY <2>2 DEF ClerkJob, CalendarConstants, CalendarSound, CalendarTyped
  <2> HIDE DEF new
  <2>4. clerk_job'[c] = new
    BY <2>1, <2>3 DEF CalendarSound, CalendarTyped
  <2>5. ClerkKnows(c)'
    <3>1. Calendar!Horizon(clerk_job[c].today)' = Calendar!Horizon(calendar_today)
      BY <2>3, <2>4 DEF Calendar!Horizon, Calendar!iter_months, Calendar!month_start
    <3>2. calendar_today <= calendar_today
      BY DaysNumbered DEF CalendarSound
    <3>3. QED
      BY <1>1, <2>3, <2>4, <3>1, <3>2 DEF ClerkKnows, Calendar!At
  <2>6. QED
    BY <1>1, <2>1, <2>3, <2>5, JobKeepsCalendar DEF CalendarSound, CalendarTyped
<1>3. CASE Calendar!ReadExisting(c)
  <2>1. PICK missing \in SUBSET Calendar!Day :
          clerk_job' = [clerk_job EXCEPT ![c] = [step |-> "insert", missing |-> missing]]
    BY <1>3 DEF Calendar!ReadExisting, Calendar!Begin
  <2> DEFINE new == [step |-> "insert", missing |-> missing]
  <2>2. new \in ClerkJob /\ new.step = "insert"
    BY DEF ClerkJob
  <2>3. clerk_job' = [clerk_job EXCEPT ![c] = new]
    BY <2>1
  <2> HIDE DEF new
  <2>4. clerk_job'[c] = new
    BY <2>2, <2>3 DEF CalendarSound, CalendarTyped
  <2>5. ClerkKnows(c)'
    BY <2>2, <2>4 DEF ClerkKnows, Calendar!At
  <2>6. QED
    BY <1>1, <2>2, <2>3, <2>5, JobKeepsCalendar DEF CalendarSound, CalendarTyped
<1>4. CASE Calendar!TaskEnds(c)
  <2>1. clerk_job' = [clerk_job EXCEPT ![c] = Nothing]
    BY <1>4 DEF Calendar!TaskEnds, Calendar!Go
  <2>2. clerk_job'[c] = Nothing
    BY <2>1 DEF CalendarSound, CalendarTyped
  <2>3. ClerkKnows(c)'
    BY <2>2 DEF ClerkKnows, Calendar!At
  <2>4. QED
    BY <1>1, <2>1, <2>3, JobKeepsCalendar DEF CalendarSound, CalendarTyped
<1>5. QED
  BY <1>2, <1>3, <1>4

LEMMA CreatePartitionKeepsCalendar ==
  ASSUME CalendarConstants, CalendarSound, NEW c \in Clerk, Calendar!CreatePartition(c)
  PROVE  CalendarSound'
<1>1. /\ Calendar!At(c, "create") /\ clerk_job[c].months # {}
      /\ UNCHANGED <<night_slot, nights, opened, calendar_today, maintained>>
  BY DEF Calendar!CreatePartition
<1>2. clerk_job[c] \in [step : {"create"}, today : 0..LastDay, months : SUBSET FirstDay]
  BY <1>1, ClerkJobFacts DEF CalendarSound
<1>3. PICK months \in SUBSET FirstDay : months = clerk_job[c].months /\ months # {}
  BY <1>1, <1>2
<1>4. PICK month \in months : month = Calendar!Min(months)
  <2>1. months \in SUBSET Nat
    BY DEF CalendarConstants
  <2>2. \E x \in months : \A y \in months : x =< y
    BY <1>3, <2>1, LeastExists
  <2>3. QED
    BY <2>2 DEF Calendar!Min
<1> DEFINE new == [clerk_job[c] EXCEPT !.months = months \ {month}]
<1>5. /\ partitions' = partitions \cup {month}
      /\ clerk_job' = [clerk_job EXCEPT ![c] = new]
  BY <1>3, <1>4 DEF Calendar!CreatePartition
<1>6. /\ new \in ClerkJob /\ new # Nothing /\ new.step = "create"
      /\ new.today = clerk_job[c].today /\ new.months = months \ {month}
  BY <1>2 DEF ClerkJob, CalendarConstants
<1> HIDE DEF new
<1>7. clerk_job'[c] = new
  BY <1>5, <1>6 DEF CalendarSound, CalendarTyped
<1>8. ClerkKnows(c)'
  <2>1. /\ clerk_job[c].today <= calendar_today
        /\ \A m \in Calendar!Horizon(clerk_job[c].today) \ months :
             m \in partitions \/ m < Calendar!month_start(maintained)
    BY <1>1, <1>3 DEF CalendarSound, ClerkKnows
  <2>2. /\ Calendar!Horizon(clerk_job[c].today)' = Calendar!Horizon(clerk_job[c].today)
        /\ Calendar!month_start(maintained)' = Calendar!month_start(maintained)
    BY <1>1, <1>6, <1>7 DEF Calendar!Horizon, Calendar!iter_months, Calendar!month_start
  <2>3. QED
    BY <1>1, <1>5, <1>6, <1>7, <2>1, <2>2 DEF ClerkKnows, Calendar!At
<1>9. partitions' \subseteq FirstDay
  BY <1>5 DEF CalendarSound, CalendarTyped
<1>10. QED
  BY <1>1, <1>5, <1>6, <1>8, <1>9, JobKeepsCalendar

LEMMA ListKeepsCalendar ==
  ASSUME CalendarConstants, CalendarSound, NEW c \in Clerk, Calendar!ListPartitions(c)
  PROVE  CalendarSound'
<1>1. /\ Calendar!At(c, "create") /\ clerk_job[c].months = {}
      /\ UNCHANGED <<night_slot, nights, opened, calendar_today, partitions>>
  BY DEF Calendar!ListPartitions
<1>2. clerk_job[c] \in [step : {"create"}, today : 0..LastDay, months : SUBSET FirstDay]
  BY <1>1, ClerkJobFacts DEF CalendarSound
<1>3. PICK j \in Nat, a \in Nat :
        /\ j = clerk_job[c].today /\ a = maintained
        /\ j <= calendar_today /\ a <= calendar_today /\ calendar_today \in Nat
  BY <1>1, <1>2, DaysNumbered DEF CalendarSound, ClerkKnows, CalendarConstants
<1>4. PICK b \in Nat : /\ b = maintained' /\ a <= b /\ j <= b /\ b <= calendar_today
                       /\ b = a \/ b = j
  <2> DEFINE b == IF j <= a THEN a ELSE j
  <2>1. b \in {a, j} /\ \A y \in {a, j} : b >= y
    OBVIOUS
  <2>2. \A x, y \in {a, j} : x >= y /\ y >= x => x = y
    OBVIOUS
  <2>3. maintained' = Calendar!Max({a, j})
    BY <1>3 DEF Calendar!ListPartitions
  <2> HIDE DEF b
  <2>4. Calendar!Max({a, j}) = b
    BY <2>1, <2>2 DEF Calendar!Max
  <2>5. b \in Nat /\ a <= b /\ j <= b /\ b <= calendar_today /\ (b = a \/ b = j)
    BY <1>3, <2>1
  <2>6. QED
    BY <2>3, <2>4, <2>5
<1>5. /\ Calendar!month_start(a) \in Nat /\ Calendar!month_start(b) \in Nat
      /\ Calendar!month_start(j) \in Nat
      /\ Calendar!month_start(a) <= Calendar!month_start(b)
      /\ Calendar!month_start(j) <= Calendar!month_start(b)
  BY <1>4, MonthStarts, MonthsInOrder
<1> DEFINE new == [step |-> "drop", months |-> Calendar!Behind(j)]
<1>6. /\ new \in ClerkJob /\ new.step = "drop" /\ new # Nothing
      /\ \A m \in new.months : m \in partitions /\ m < Calendar!month_start(j)
  <2>1. /\ Calendar!Behind(j) \subseteq FirstDay
        /\ \A m \in Calendar!Behind(j) : m \in partitions /\ m < Calendar!month_start(j)
    BY DEF CalendarSound, CalendarTyped, Calendar!Behind
  <2>2. QED
    BY <2>1 DEF ClerkJob, CalendarConstants
<1>7. clerk_job' = [clerk_job EXCEPT ![c] = new]
  BY <1>3 DEF Calendar!ListPartitions, Calendar!Go
<1> HIDE DEF new
<1>8. /\ clerk_job' \in [Clerk -> ClerkJob \cup {Nothing}] /\ clerk_job'[c] = new
      /\ \A d \in Clerk \ {c} : clerk_job'[d] = clerk_job[d]
  BY <1>6, <1>7 DEF CalendarSound, CalendarTyped
<1>9. ClerkKnows(c)'
  <2>1. \A m \in new.months : m < Calendar!month_start(b)
    <3>1. \A m \in new.months : m \in Nat /\ m < Calendar!month_start(j)
      BY <1>6 DEF CalendarSound, CalendarTyped, CalendarConstants
    <3>2. QED
      BY <1>5, <3>1
  <2>2. Calendar!month_start(maintained)' = Calendar!month_start(b)
    BY <1>4 DEF Calendar!month_start
  <2>3. QED
    BY <1>6, <1>8, <2>1, <2>2 DEF ClerkKnows, Calendar!At
<1>10. \A d \in Clerk \ {c} : ClerkKnows(d)'
  <2>1. /\ calendar_today' \in Nat /\ calendar_today <= calendar_today'
        /\ maintained' \in Nat /\ maintained <= maintained'
    BY <1>1, <1>3, <1>4
  <2>2. QED
    BY <1>1, <1>8, <2>1, OthersKeepCalendar
<1>11. Calendar!Horizon(maintained)' \subseteq partitions'
  <2>1. Calendar!Horizon(maintained)' = Calendar!Horizon(b)
    BY <1>4 DEF Calendar!Horizon, Calendar!iter_months, Calendar!month_start
  <2>2. CASE b = a
    BY <1>1, <1>3, <2>1, <2>2 DEF CalendarSound
  <2>3. CASE b = j
    <3>1. ASSUME NEW m \in Calendar!Horizon(j)
          PROVE  m \in partitions
      <4>1. m \in Nat /\ Calendar!month_start(j) <= m
        BY HorizonMonths
      <4>2. m \in partitions \/ m < Calendar!month_start(a)
        BY <1>1, <1>3 DEF CalendarSound, ClerkKnows
      <4>3. QED
        BY <1>5, <2>3, <4>1, <4>2
    <3>2. QED
      BY <1>1, <2>1, <2>3, <3>1
  <2>4. QED
    BY <1>4, <2>2, <2>3
<1>12. maintained' \in 0..calendar_today'
  BY <1>1, <1>3, <1>4
<1>13. calendar_today <= calendar_today'
  BY <1>1, <1>3
<1>14. QED
  BY <1>1, <1>8, <1>9, <1>10, <1>11, <1>12, <1>13, RestKeepsCalendar DEF CalendarSound,
     CalendarTyped

(* The month that goes is behind today. *)
LEMMA DropKeepsCalendar ==
  ASSUME CalendarConstants, CalendarSound, NEW c \in Clerk, Calendar!DropPartition(c)
  PROVE  CalendarSound'
<1>1. /\ Calendar!At(c, "drop")
      /\ UNCHANGED <<nights, opened, calendar_today, maintained>>
  BY DEF Calendar!DropPartition
<1>2. clerk_job[c] \in [step : {"drop"}, months : SUBSET FirstDay]
  BY <1>1, ClerkJobFacts DEF CalendarSound
<1>3. PICK month \in clerk_job[c].months :
        /\ partitions' = partitions \ {month}
        /\ night_slot' = [night \in Calendar!Day |->
             IF Calendar!month_start(night) = month THEN Nothing ELSE night_slot[night]]
        /\ clerk_job' = [clerk_job EXCEPT ![c].months = clerk_job[c].months \ {month}]
  BY DEF Calendar!DropPartition, CalendarSound, CalendarTyped
<1>4. PICK a \in Nat : a = Calendar!month_start(maintained) /\ month < a /\ month \in Nat
                       /\ a <= Calendar!month_start(calendar_today)
  BY <1>1, <1>2, DaysNumbered DEF CalendarSound, ClerkKnows, CalendarConstants
<1> DEFINE new == [clerk_job[c] EXCEPT !.months = clerk_job[c].months \ {month}]
<1>5. /\ new \in ClerkJob /\ new # Nothing /\ new.step = "drop"
      /\ new.months \subseteq clerk_job[c].months
  BY <1>2 DEF ClerkJob, CalendarConstants
<1>6. clerk_job' = [clerk_job EXCEPT ![c] = new]
  BY <1>3
<1> HIDE DEF new
<1>7. /\ clerk_job' \in [Clerk -> ClerkJob \cup {Nothing}] /\ clerk_job'[c] = new
      /\ \A d \in Clerk \ {c} : clerk_job'[d] = clerk_job[d]
  BY <1>5, <1>6 DEF CalendarSound, CalendarTyped
<1>8. Calendar!month_start(maintained)' = Calendar!month_start(maintained)
  BY <1>1 DEF Calendar!month_start
<1>9. ClerkKnows(c)'
  BY <1>1, <1>5, <1>7, <1>8 DEF ClerkKnows, Calendar!At, CalendarSound
<1>10. \A d \in Clerk \ {c} : ClerkKnows(d)'
  <2>1. /\ calendar_today' \in Nat /\ calendar_today <= calendar_today'
        /\ maintained' \in Nat /\ maintained <= maintained'
    BY <1>1, DaysNumbered DEF CalendarSound
  <2>2. \A m \in partitions : m \in partitions' \/ m < Calendar!month_start(maintained)
    BY <1>3, <1>4
  <2>3. QED
    BY <1>7, <2>1, <2>2, OthersKeepCalendar
<1>11. Calendar!Horizon(maintained)' \subseteq partitions'
  <2>1. Calendar!Horizon(maintained)' = Calendar!Horizon(maintained)
    BY <1>1 DEF Calendar!Horizon, Calendar!iter_months, Calendar!month_start
  <2>2. month \notin Calendar!Horizon(maintained)
    BY <1>4, HorizonMonths, DaysNumbered DEF CalendarSound
  <2>3. QED
    BY <1>3, <2>1, <2>2 DEF CalendarSound
<1>12. CalendarTyped'
  BY <1>1, <1>3, <1>7 DEF CalendarSound, CalendarTyped
<1>13. Calendar!Ahead' = Calendar!Ahead
  BY <1>1 DEF Calendar!Ahead, Calendar!month_start
<1>14. \A night \in Calendar!Ahead : night_slot'[night] = night_slot[night]
  <2>1. ASSUME NEW night \in Calendar!Ahead
        PROVE  Calendar!month_start(night) # month
    <3>1. /\ night \in Calendar!Day /\ night \in Nat
          /\ Calendar!month_start(calendar_today) <= night /\ calendar_today \in Nat
      BY DaysNumbered DEF Calendar!Ahead, CalendarSound
    <3>2. /\ Calendar!month_start(calendar_today) <= Calendar!month_start(night)
          /\ Calendar!month_start(calendar_today) \in Nat /\ Calendar!month_start(night) \in Nat
      BY <3>1, AheadOfMonth, MonthStarts
    <3>3. QED
      BY <1>4, <3>2
  <2>2. QED
    BY <1>3, <2>1 DEF Calendar!Ahead
<1>15. Calendar!NightsAheadOpen' /\ Calendar!NightsAheadCounted'
  BY <1>1, <1>13, <1>14 DEF CalendarSound, Calendar!NightsAheadOpen, Calendar!NightsAheadCounted
<1>16. \A night \in Calendar!Day : night_slot'[night] # Nothing => night \in opened
  BY <1>3 DEF CalendarSound
<1>17. QED
  BY <1>1, <1>9, <1>10, <1>11, <1>12, <1>15, <1>16 DEF CalendarSound

(* The slots and the stays change, the day and the months do not. *)
LEMMA SalesKeepCalendar ==
  ASSUME CalendarConstants, CalendarSound,
         UNCHANGED <<calendar_today, partitions, maintained>>,
         clerk_job' \in [Clerk -> ClerkJob \cup {Nothing}],
         \A d \in Clerk : clerk_job'[d] = clerk_job[d] \/ clerk_job'[d] = Nothing,
         night_slot' \in [Calendar!Day -> 0..Units \cup {Nothing}],
         nights' \in [Stay -> SUBSET Calendar!Day], opened' \subseteq Calendar!Day,
         \A night \in Calendar!Day : night_slot'[night] # Nothing => night \in opened',
         \A s \in Stay : nights'[s] \subseteq opened',
         \A night \in Calendar!Ahead :
           /\ night \in opened' => night_slot'[night] # Nothing
           /\ night_slot'[night] # Nothing =>
                night_slot'[night] = Cardinality({s \in Stay : night \in nights'[s]})
  PROVE  CalendarSound'
<1>1. CalendarTyped'
  BY DEF CalendarSound, CalendarTyped
<1>2. /\ Calendar!Horizon(maintained)' \subseteq partitions'
      /\ Calendar!Ahead' = Calendar!Ahead
  BY DEF CalendarSound, Calendar!Horizon, Calendar!iter_months, Calendar!month_start, Calendar!Ahead
<1>3. ASSUME NEW d \in Clerk
      PROVE  ClerkKnows(d)'
  <2>1. CASE clerk_job'[d] = clerk_job[d]
    <3>1. /\ calendar_today' \in Nat /\ calendar_today <= calendar_today'
          /\ maintained' \in Nat /\ maintained <= maintained'
      BY DaysNumbered DEF CalendarSound
    <3>2. QED
      BY <2>1, <3>1, OthersKeepCalendar
  <2>2. CASE clerk_job'[d] = Nothing
    BY <2>2 DEF ClerkKnows, Calendar!At
  <2>3. QED
    BY <2>1, <2>2
<1>4. Calendar!NightsAheadOpen'
  BY <1>2 DEF Calendar!NightsAheadOpen
<1>5. Calendar!NightsAheadCounted'
  <2>1. ASSUME NEW night \in Calendar!Ahead, night_slot'[night] # Nothing
        PROVE  night_slot'[night] = Calendar!Cardinality({s \in Stay : night \in nights'[s]})
    BY <2>1, SameCardinality
  <2>2. QED
    BY <1>2, <2>1 DEF Calendar!NightsAheadCounted
<1>6. QED
  BY <1>1, <1>2, <1>3, <1>4, <1>5 DEF CalendarSound

(* A night that a stay may hold has a slot ahead of today, with its count.  *)
LEMMA SlotsCounted ==
  ASSUME CalendarConstants, CalendarSound, NEW night \in Calendar!Ahead
  PROVE  /\ night \in Calendar!Day
         /\ night \in opened => night_slot[night] # Nothing
         /\ night_slot[night] # Nothing =>
              /\ night_slot[night] \in Nat
              /\ night_slot[night] = Cardinality({s \in Stay : night \in nights[s]})
<1>1. night \in Calendar!Day
  BY DEF Calendar!Ahead
<1>2. night \in opened => night_slot[night] # Nothing
  BY DEF CalendarSound, Calendar!NightsAheadOpen
<1>3. night_slot[night] # Nothing =>
        night_slot[night] = Calendar!Cardinality({s \in Stay : night \in nights[s]})
  BY DEF CalendarSound, Calendar!NightsAheadCounted
<1>4. night_slot[night] # Nothing => night_slot[night] \in Nat
  BY <1>1 DEF CalendarSound, CalendarTyped, CalendarConstants
<1>5. QED
  BY <1>1, <1>2, <1>3, <1>4, SameCardinality

LEMMA InsertKeepsCalendar ==
  ASSUME CalendarConstants, CalendarSound, NEW c \in Clerk, Calendar!InsertSlots(c)
  PROVE  CalendarSound'
<1>1. /\ Calendar!At(c, "insert") /\ UNCHANGED <<calendar_today, partitions, nights, maintained>>
      /\ clerk_job' = [clerk_job EXCEPT ![c] = Nothing]
  BY DEF Calendar!InsertSlots, Calendar!Go
<1>2. /\ clerk_job' \in [Clerk -> ClerkJob \cup {Nothing}]
      /\ \A d \in Clerk : clerk_job'[d] = clerk_job[d] \/ clerk_job'[d] = Nothing
  BY <1>1 DEF CalendarSound, CalendarTyped
<1>3. PICK missing \in SUBSET Calendar!Day : missing = clerk_job[c].missing
  BY <1>1, ClerkJobFacts DEF CalendarSound
<1>4. CASE UNCHANGED <<night_slot, opened>>
  <2>1. \A night \in Calendar!Ahead :
          /\ night \in opened' => night_slot'[night] # Nothing
          /\ night_slot'[night] # Nothing =>
               night_slot'[night] = Cardinality({s \in Stay : night \in nights'[s]})
    BY <1>1, <1>4, SlotsCounted
  <2>2. QED
    BY <1>1, <1>2, <1>4, <2>1, SalesKeepCalendar DEF CalendarSound, CalendarTyped
<1>5. CASE /\ \A night \in missing : night_slot[night] = Nothing
           /\ night_slot' = [night \in Calendar!Day |->
                               IF night \in missing THEN 0 ELSE night_slot[night]]
           /\ opened' = opened \cup missing
  <2>1. 0 \in 0..Units /\ 0 # Nothing
    BY DEF CalendarConstants
  <2>2. /\ night_slot' \in [Calendar!Day -> 0..Units \cup {Nothing}]
        /\ \A night \in Calendar!Day : night_slot'[night] # Nothing => night \in opened'
        /\ opened' \subseteq Calendar!Day
        /\ nights' \in [Stay -> SUBSET Calendar!Day]
        /\ \A s \in Stay : nights'[s] \subseteq opened'
    BY <1>1, <1>5, <2>1 DEF CalendarSound, CalendarTyped
  <2>3. ASSUME NEW night \in Calendar!Ahead
        PROVE  /\ night \in opened' => night_slot'[night] # Nothing
               /\ night_slot'[night] # Nothing =>
                    night_slot'[night] = Cardinality({s \in Stay : night \in nights'[s]})
    <3>0. night \in Calendar!Day
      BY SlotsCounted
    <3>1. CASE night \in missing
      <4>1. night \notin opened
        BY <1>5, <3>1, SlotsCounted
      <4>2. \A s \in Stay : night \notin nights[s]
        BY <4>1 DEF CalendarSound
      <4>3. {s \in Stay : night \in nights'[s]} = {}
        BY <1>1, <4>2
      <4>4. Cardinality({s \in Stay : night \in nights'[s]}) = 0
        BY <4>3, FS_EmptySet
      <4>5. night_slot'[night] = 0
        BY <1>5, <3>0, <3>1
      <4>6. QED
        BY <2>1, <4>4, <4>5
    <3>2. CASE night \notin missing
      <4>1. night_slot'[night] = night_slot[night] /\ (night \in opened' => night \in opened)
        BY <1>5, <3>0, <3>2
      <4>2. {s \in Stay : night \in nights'[s]} = {s \in Stay : night \in nights[s]}
        BY <1>1
      <4>3. QED
        BY <4>1, <4>2, SlotsCounted
    <3>3. QED
      BY <3>1, <3>2
  <2>4. QED
    BY <1>1, <1>2, <2>2, <2>3, SalesKeepCalendar
<1>6. QED
  BY <1>3, <1>4, <1>5 DEF Calendar!InsertSlots, Calendar!Insertable

LEMMA HoldersFinite ==
  ASSUME CalendarConstants, NEW f, NEW night
  PROVE  IsFiniteSet({s \in Stay : night \in f[s]})
BY FS_Subset DEF CalendarConstants

LEMMA ConsumeKeepsCalendar ==
  ASSUME CalendarConstants, CalendarSound, NEW s \in Stay, Calendar!Consume(s)
  PROVE  CalendarSound'
<1>1. /\ nights[s] = {}
      /\ UNCHANGED <<calendar_today, partitions, clerk_job, opened, maintained>>
  BY DEF Calendar!Consume
<1>2. PICK arrival \in Calendar!Day, departure \in Calendar!Day :
        /\ arrival < departure
        /\ \A night \in arrival..(departure - 1) : night_slot[night] # Nothing /\ night_slot[night] < Units
        /\ night_slot' = [night \in Calendar!Day |->
             IF night \in arrival..(departure - 1) THEN night_slot[night] + 1 ELSE night_slot[night]]
        /\ nights' = [nights EXCEPT ![s] = arrival..(departure - 1)]
  BY DEF Calendar!Consume
<1>3. arrival..(departure - 1) \subseteq Calendar!Day
  BY <1>2 DEF Calendar!Day, CalendarConstants
<1>4. PICK window \in SUBSET Calendar!Day : window = arrival..(departure - 1)
  BY <1>3
<1>5. /\ \A night \in window : night_slot[night] # Nothing /\ night_slot[night] < Units
      /\ night_slot' = [night \in Calendar!Day |->
           IF night \in window THEN night_slot[night] + 1 ELSE night_slot[night]]
      /\ nights' = [nights EXCEPT ![s] = window]
  BY <1>2, <1>4
<1>6. \A night \in window : /\ night_slot[night] \in Nat /\ night_slot[night] + 1 \in 0..Units
                            /\ night_slot[night] + 1 # Nothing /\ night \in opened
  BY <1>5 DEF CalendarSound, CalendarTyped, CalendarConstants
<1>7. /\ nights' \in [Stay -> SUBSET Calendar!Day] /\ nights'[s] = window
      /\ \A r \in Stay \ {s} : nights'[r] = nights[r]
      /\ night_slot' \in [Calendar!Day -> 0..Units \cup {Nothing}]
  BY <1>5, <1>6 DEF CalendarSound, CalendarTyped
<1>8. /\ \A night \in Calendar!Day : night_slot'[night] # Nothing => night \in opened'
      /\ \A r \in Stay : nights'[r] \subseteq opened'
  BY <1>1, <1>5, <1>6, <1>7 DEF CalendarSound
<1>9. ASSUME NEW night \in Calendar!Ahead
      PROVE  /\ night \in opened' => night_slot'[night] # Nothing
             /\ night_slot'[night] # Nothing =>
                  night_slot'[night] = Cardinality({r \in Stay : night \in nights'[r]})
  <2>0. night \in Calendar!Day
    BY SlotsCounted
  <2>1. CASE night \in window
    <3>1. {r \in Stay : night \in nights'[r]} = {r \in Stay : night \in nights[r]} \cup {s}
      BY <1>7, <2>1
    <3>2. s \notin {r \in Stay : night \in nights[r]} /\ IsFiniteSet({r \in Stay : night \in nights[r]})
      BY <1>1, HoldersFinite
    <3>3. Cardinality({r \in Stay : night \in nights'[r]}) =
            Cardinality({r \in Stay : night \in nights[r]}) + 1
      BY <3>1, <3>2, FS_AddElement
    <3>4. night_slot'[night] = night_slot[night] + 1 /\ night_slot'[night] # Nothing
      BY <1>5, <1>6, <2>0, <2>1
    <3>5. QED
      BY <1>5, <2>1, <3>3, <3>4, SlotsCounted
  <2>2. CASE night \notin window
    <3>1. night_slot'[night] = night_slot[night]
      BY <1>5, <2>0, <2>2
    <3>2. {r \in Stay : night \in nights'[r]} = {r \in Stay : night \in nights[r]}
      BY <1>1, <1>7, <2>2
    <3>3. QED
      BY <1>1, <3>1, <3>2, SlotsCounted
  <2>3. QED
    BY <2>1, <2>2
<1>10. clerk_job' \in [Clerk -> ClerkJob \cup {Nothing}] /\ opened' \subseteq Calendar!Day
  BY <1>1 DEF CalendarSound, CalendarTyped
<1>11. QED
  BY <1>1, <1>7, <1>8, <1>9, <1>10, SalesKeepCalendar

LEMMA ReleaseKeepsCalendar ==
  ASSUME CalendarConstants, CalendarSound, NEW s \in Stay, Calendar!Release(s)
  PROVE  CalendarSound'
<1>1. UNCHANGED <<calendar_today, partitions, clerk_job, opened, maintained>>
  BY DEF Calendar!Release
<1>2. PICK window \in SUBSET Calendar!Day : window = nights[s]
  BY DEF CalendarSound, CalendarTyped
<1>3. /\ \A night \in window : night_slot[night] # Nothing /\ night_slot[night] > 0
      /\ night_slot' = [night \in Calendar!Day |->
           IF night \in window THEN night_slot[night] - 1 ELSE night_slot[night]]
      /\ nights' = [nights EXCEPT ![s] = {}]
  BY <1>2 DEF Calendar!Release
<1>4. \A night \in window : /\ night_slot[night] \in Nat /\ night_slot[night] - 1 \in 0..Units
                            /\ night_slot[night] - 1 # Nothing /\ night \in opened
  BY <1>3 DEF CalendarSound, CalendarTyped, CalendarConstants
<1>5. /\ nights' \in [Stay -> SUBSET Calendar!Day] /\ nights'[s] = {}
      /\ \A r \in Stay \ {s} : nights'[r] = nights[r]
      /\ night_slot' \in [Calendar!Day -> 0..Units \cup {Nothing}]
  BY <1>3, <1>4 DEF CalendarSound, CalendarTyped
<1>6. /\ \A night \in Calendar!Day : night_slot'[night] # Nothing => night \in opened'
      /\ \A r \in Stay : nights'[r] \subseteq opened'
  BY <1>1, <1>3, <1>4, <1>5 DEF CalendarSound
<1>7. ASSUME NEW night \in Calendar!Ahead
      PROVE  /\ night \in opened' => night_slot'[night] # Nothing
             /\ night_slot'[night] # Nothing =>
                  night_slot'[night] = Cardinality({r \in Stay : night \in nights'[r]})
  <2>0. night \in Calendar!Day
    BY SlotsCounted
  <2>1. CASE night \in window
    <3>1. PICK holders \in SUBSET Stay : holders = {r \in Stay : night \in nights[r]}
      OBVIOUS
    <3>2. {r \in Stay : night \in nights'[r]} = holders \ {s}
      BY <1>5, <3>1
    <3>3. s \in holders /\ IsFiniteSet(holders)
      BY <1>2, <2>1, <3>1, HoldersFinite
    <3>4. Cardinality(holders \ {s}) = Cardinality(holders) - 1
      BY <3>3, FS_RemoveElement
    <3>5. Cardinality({r \in Stay : night \in nights'[r]}) =
            Cardinality({r \in Stay : night \in nights[r]}) - 1
      BY <3>1, <3>2, <3>4
    <3>6. night_slot'[night] = night_slot[night] - 1 /\ night_slot'[night] # Nothing
      BY <1>3, <1>4, <2>0, <2>1
    <3>7. QED
      BY <1>3, <2>1, <3>5, <3>6, SlotsCounted
  <2>2. CASE night \notin window
    <3>1. night_slot'[night] = night_slot[night]
      BY <1>3, <2>0, <2>2
    <3>2. {r \in Stay : night \in nights'[r]} = {r \in Stay : night \in nights[r]}
      BY <1>2, <1>5, <2>2
    <3>3. QED
      BY <1>1, <3>1, <3>2, SlotsCounted
  <2>3. QED
    BY <2>1, <2>2
<1>8. clerk_job' \in [Clerk -> ClerkJob \cup {Nothing}] /\ opened' \subseteq Calendar!Day
  BY <1>1 DEF CalendarSound, CalendarTyped
<1>9. QED
  BY <1>1, <1>5, <1>6, <1>7, <1>8, SalesKeepCalendar

LEMMA CalendarStep ==
  ASSUME CalendarConstants, CalendarSound, [Calendar!Next]_calendarVars
  PROVE  CalendarSound'
<1>1. CASE UNCHANGED calendarVars
  <2>1. UNCHANGED <<calendar_today, partitions, night_slot, nights, clerk_job, opened, maintained>>
    BY <1>1 DEF calendarVars
  <2>2. /\ calendar_today' \in 0..LastDay /\ calendar_today <= calendar_today'
        /\ calendar_today' \in Nat /\ maintained' \in Nat /\ maintained <= maintained'
    BY <2>1, DaysNumbered DEF CalendarSound, CalendarTyped
  <2>3. \A d \in Clerk : ClerkKnows(d)'
    BY <2>1, <2>2, OthersKeepCalendar
  <2>4. Calendar!Horizon(maintained)' \subseteq partitions'
    BY <2>1 DEF CalendarSound, Calendar!Horizon, Calendar!iter_months, Calendar!month_start
  <2>5. QED
    BY <2>1, <2>2, <2>3, <2>4, RestKeepsCalendar DEF CalendarSound, CalendarTyped
<1>2. CASE Calendar!Next
  BY <1>2, TickKeepsCalendar, StartsKeepCalendar, CreatePartitionKeepsCalendar, ListKeepsCalendar,
     DropKeepsCalendar, InsertKeepsCalendar, ConsumeKeepsCalendar, ReleaseKeepsCalendar
     DEF Calendar!Next
<1>3. QED
  BY <1>1, <1>2

LEMMA CalendarInit ==
  ASSUME CalendarConstants, Calendar!Init
  PROVE  CalendarSound
<1>1. Calendar!Horizon(0) \subseteq FirstDay
  BY HorizonMonths
<1>2. CalendarTyped
  BY <1>1 DEF Calendar!Init, CalendarTyped, CalendarConstants
<1>3. Calendar!Horizon(maintained) \subseteq partitions
  BY DEF Calendar!Init
<1>4. Calendar!NightsAheadOpen /\ Calendar!NightsAheadCounted
  BY DEF Calendar!Init, Calendar!NightsAheadOpen, Calendar!NightsAheadCounted, Calendar!Ahead
<1>5. QED
  BY <1>2, <1>3, <1>4 DEF Calendar!Init, CalendarSound, ClerkKnows, Calendar!At

(* The invariant gives what the run checks of the calendar.                 *)
LEMMA CalendarShows ==
  ASSUME CalendarConstants, CalendarSound
  PROVE  Calendar!TypeOK /\ Calendar!NightsStand
<1>1. Calendar!TypeOK
  <2>1. \A c \in Clerk : clerk_job[c] # Nothing =>
          clerk_job[c].step \in {"create", "drop", "insert"}
    BY DEF CalendarSound, CalendarTyped, ClerkJob
  <2>2. maintained \in 0..LastDay
    BY DEF CalendarSound, CalendarTyped, CalendarConstants
  <2>3. QED
    BY <2>1, <2>2 DEF CalendarSound, CalendarTyped, Calendar!TypeOK
<1>2. Calendar!HorizonStored
  <2>1. \A night \in maintained..(maintained + AVAILABILITY_HORIZON_DAYS) :
          Calendar!month_start(night) \in Calendar!Horizon(maintained)
    BY HorizonMonths, DaysNumbered DEF CalendarSound
  <2>2. QED
    BY <2>1 DEF CalendarSound, Calendar!HorizonStored, Calendar!Stored
<1>3. QED
  BY <1>1, <1>2 DEF CalendarSound, Calendar!NightsStand

-----------------------------------------------------------------------------
(* Tenants and the requests that run in them (apps/tenancy).                *)

TenantTyped ==
  /\ tenant \in [Provisioning!Id -> TenantRow \cup {Nothing}]
  /\ user_account \in [User -> Thread \cup {"absent", Nothing}]
  /\ context \in [Thread -> Provisioning!Id \cup {Nothing}]
  /\ stamp \in [Thread -> Provisioning!Id \cup {Nothing}]
  /\ thread_job \in [Thread -> TenantJob \cup {Nothing}]

(* What provision() has written before its n-th part. *)
Written(n) == {Provisioning!Footprint[m] : m \in 1..(n - 1)} \ {"account"}

(* A transaction that no tenant was given to has no stamp.  A request that  *)
(* resolved one is in it, and the tenant is its user's; a provisioning has  *)
(* an uncommitted tenant of its own, with what it has written so far.       *)
Unassigned(k) ==
  \/ thread_job[k] = Nothing
  \/ Provisioning!At(k, "stamp")
  \/ Provisioning!At(k, "create")
  \/ Provisioning!At(k, "enter")
  \/ (Provisioning!At(k, "handle") /\ thread_job[k].tenant = Nothing)

Belongs(t, u) ==
  /\ tenant[t] # Nothing /\ tenant[t].by = Nothing
  /\ tenant[t].owner = u /\ "membership" \in tenant[t].rows

ThreadKnows(k) ==
  LET t == thread_job[k].tenant
      u == thread_job[k].user
  IN
  /\ Unassigned(k) => stamp[k] = Nothing
  /\ Provisioning!At(k, "stamp") => (t \in Provisioning!Id /\ Belongs(t, u) /\ context[k] = t)
  /\ (Provisioning!At(k, "handle") /\ t # Nothing) =>
       (Belongs(t, u) /\ context[k] = t /\ stamp[k] = t)
  /\ (Provisioning!At(k, "enter") \/ Provisioning!At(k, "write")) =>
       (tenant[t] # Nothing /\ tenant[t].by = k /\ tenant[t].owner = u)
  /\ Provisioning!At(k, "enter") => tenant[t].rows = {}
  /\ Provisioning!At(k, "write") =>
       (/\ context[k] = t /\ stamp[k] = t
        /\ tenant[t].rows = Written(thread_job[k].next)
        /\ thread_job[k].next > 4 => user_account[u] \in {Nothing, k})

(* A tenant that is not committed is being provisioned. *)
OpenIsOwned(t) ==
  tenant[t] # Nothing /\ tenant[t].by # Nothing =>
    /\ (Provisioning!At(tenant[t].by, "enter") \/ Provisioning!At(tenant[t].by, "write"))
    /\ thread_job[tenant[t].by].tenant = t

TenantSound ==
  /\ TenantTyped
  /\ \A k \in Thread : ThreadKnows(k)
  /\ \A t \in Provisioning!Id : OpenIsOwned(t)
  /\ Provisioning!TenantsWhole

LEMMA FootprintFacts ==
  /\ DOMAIN Provisioning!Footprint = 1..6
  /\ Provisioning!Footprint[4] = "account"
  /\ \A n \in 1..6 : (Provisioning!Footprint[n] = "account") => n = 4
  /\ \A n \in 1..6 : Provisioning!Footprint[n] # "account" =>
       Provisioning!Footprint[n] \in Provisioning!Scoped
  /\ Written(1) = {} /\ Written(7) = Provisioning!Scoped
  /\ \A n \in 1..6 :
       Written(n + 1) = IF Provisioning!Footprint[n] = "account" THEN Written(n)
                        ELSE Written(n) \cup {Provisioning!Footprint[n]}
<1>1. /\ DOMAIN Provisioning!Footprint = 1..6
      /\ Provisioning!Footprint[4] = "account"
      /\ \A n \in 1..6 : (Provisioning!Footprint[n] = "account") => n = 4
  BY DEF Provisioning!Footprint
<1>2. \A n \in 1..6 : Provisioning!Footprint[n] # "account" =>
        Provisioning!Footprint[n] \in Provisioning!Scoped
  BY <1>1 DEF Provisioning!Scoped
<1>3. Written(1) = {}
  BY DEF Written
<1>4. Written(7) = Provisioning!Scoped
  BY <1>1 DEF Written, Provisioning!Scoped
<1>5. ASSUME NEW n \in 1..6
      PROVE  Written(n + 1) = IF Provisioning!Footprint[n] = "account" THEN Written(n)
                              ELSE Written(n) \cup {Provisioning!Footprint[n]}
  <2>1. 1..((n + 1) - 1) = 1..(n - 1) \cup {n}
    OBVIOUS
  <2>2. QED
    BY <2>1 DEF Written
<1>6. QED
  BY <1>1, <1>2, <1>3, <1>4, <1>5

LEMMA TenantJobFacts ==
  ASSUME TenantConstants, TenantTyped, NEW k \in Thread
  PROVE  /\ (Provisioning!At(k, "stamp") \/ Provisioning!At(k, "handle")) => thread_job[k] \in
              [step : {"stamp", "handle"}, user : User, tenant : Provisioning!Id \cup {Nothing}]
         /\ Provisioning!At(k, "create") => thread_job[k] \in
              [step : {"create"}, user : User, tenant : {Nothing}, code : Code]
         /\ Provisioning!At(k, "enter") => thread_job[k] \in
              [step : {"enter"}, user : User, tenant : Provisioning!Id]
         /\ Provisioning!At(k, "write") => thread_job[k] \in
              [step : {"write"}, user : User, tenant : Provisioning!Id, next : 1..7,
               previous : Provisioning!Id \cup {Nothing}]
         /\ thread_job[k] # Nothing => \E s \in {"stamp", "handle", "create", "enter", "write"} :
              Provisioning!At(k, s)
BY DEF TenantTyped, TenantJob, Provisioning!At

(* A step of one thread: what the other threads rely on stands.             *)
LEMMA OthersKeepTenants ==
  ASSUME TenantConstants, TenantSound, NEW k \in Thread,
         \A j \in Thread \ {k} : /\ thread_job'[j] = thread_job[j]
                                 /\ context'[j] = context[j] /\ stamp'[j] = stamp[j],
         \A t \in Provisioning!Id : tenant[t] # Nothing /\ tenant[t].by # k => tenant'[t] = tenant[t],
         \A u \in User : user_account[u] \notin {k, "absent"} => user_account'[u] = user_account[u]
  PROVE  \A j \in Thread \ {k} : ThreadKnows(j)'
<1>1. SUFFICES ASSUME NEW j \in Thread, j # k
               PROVE  ThreadKnows(j)'
  OBVIOUS
<1>2. /\ thread_job'[j] = thread_job[j] /\ context'[j] = context[j] /\ stamp'[j] = stamp[j]
      /\ ThreadKnows(j)
  BY <1>1 DEF TenantSound
<1>3. \A s : Provisioning!At(j, s)' <=> Provisioning!At(j, s)
  BY <1>2 DEF Provisioning!At
<1>4. Unassigned(j)' <=> Unassigned(j)
  BY <1>2, <1>3 DEF Unassigned
<1>5. /\ (Provisioning!At(j, "stamp") \/ (Provisioning!At(j, "handle") /\ thread_job[j].tenant # Nothing)) =>
           (thread_job[j].tenant \in Provisioning!Id /\ tenant'[thread_job[j].tenant] = tenant[thread_job[j].tenant])
      /\ (Provisioning!At(j, "enter") \/ Provisioning!At(j, "write")) =>
           tenant'[thread_job[j].tenant] = tenant[thread_job[j].tenant]
  BY <1>1, <1>2, TenantJobFacts DEF ThreadKnows, TenantSound, Belongs, TenantConstants
<1>6. (Provisioning!At(j, "write") /\ thread_job[j].next > 4) =>
        user_account'[thread_job[j].user] \in {Nothing, j}
  BY <1>1, <1>2, TenantJobFacts DEF ThreadKnows, TenantSound, TenantConstants
<1>7. QED
  BY <1>2, <1>3, <1>4, <1>5, <1>6 DEF ThreadKnows, Belongs

(* A step that writes no row: the thread goes on with what it may rely on.  *)
LEMMA MovesKeepTenants ==
  ASSUME TenantConstants, TenantSound, NEW k \in Thread, UNCHANGED <<tenant, user_account>>,
         NEW next \in TenantJob \cup {Nothing}, thread_job' = [thread_job EXCEPT ![k] = next],
         NEW c \in Provisioning!Id \cup {Nothing}, context' = [context EXCEPT ![k] = c],
         NEW s \in Provisioning!Id \cup {Nothing}, stamp' = [stamp EXCEPT ![k] = s],
         ThreadKnows(k)',
         (Provisioning!At(k, "enter") \/ Provisioning!At(k, "write")) =>
           (/\ Provisioning!At(k, "enter")' \/ Provisioning!At(k, "write")'
            /\ next.tenant = thread_job[k].tenant)
  PROVE  TenantSound'
<1>1. TenantTyped'
  BY DEF TenantSound, TenantTyped
<1>2. /\ thread_job'[k] = next
      /\ \A j \in Thread \ {k} : /\ thread_job'[j] = thread_job[j]
                                 /\ context'[j] = context[j] /\ stamp'[j] = stamp[j]
  BY DEF TenantSound, TenantTyped
<1>3. \A j \in Thread \ {k} : ThreadKnows(j)'
  BY <1>2, OthersKeepTenants
<1>4. ASSUME NEW t \in Provisioning!Id
      PROVE  OpenIsOwned(t)'
  <2>1. tenant[t] # Nothing => tenant[t].by \in Thread \cup {Nothing}
    BY DEF TenantSound, TenantTyped, TenantRow
  <2>2. QED
    BY <1>2, <2>1 DEF TenantSound, OpenIsOwned, Provisioning!At
<1>5. Provisioning!TenantsWhole'
  BY DEF TenantSound, Provisioning!TenantsWhole, Provisioning!Committed
<1>6. QED
  BY <1>1, <1>3, <1>4, <1>5 DEF TenantSound

LEMMA EstablishKeepsTenants ==
  ASSUME TenantConstants, TenantSound, NEW k \in Thread, NEW u \in User,
         NEW header \in Provisioning!Id \cup {Nothing}, Provisioning!Establish(k, u, header)
  PROVE  TenantSound'
<1>1. /\ thread_job[k] = Nothing /\ stamp[k] = Nothing
      /\ UNCHANGED <<tenant, user_account, stamp>> /\ stamp' = [stamp EXCEPT ![k] = Nothing]
      /\ ~Provisioning!At(k, "enter") /\ ~Provisioning!At(k, "write")
  BY DEF Provisioning!Establish, TenantSound, TenantTyped, ThreadKnows, Unassigned, Provisioning!At
<1>2. CASE Provisioning!Resolved(u, header) = {} /\ UNCHANGED context
           /\ thread_job' = [thread_job EXCEPT ![k] =
                              [step |-> "handle", user |-> u, tenant |-> Nothing]]
  <2> DEFINE next == [step |-> "handle", user |-> u, tenant |-> Nothing]
  <2>1. /\ next \in TenantJob /\ next.step = "handle" /\ next.tenant = Nothing /\ next # Nothing
        /\ thread_job' = [thread_job EXCEPT ![k] = next]
        /\ context' = [context EXCEPT ![k] = context[k]]
        /\ context[k] \in Provisioning!Id \cup {Nothing}
    BY <1>2 DEF TenantJob, TenantConstants, TenantSound, TenantTyped
  <2> HIDE DEF next
  <2>2. thread_job'[k] = next /\ stamp'[k] = Nothing
    BY <1>1, <2>1 DEF TenantSound, TenantTyped
  <2>3. ThreadKnows(k)'
    BY <2>1, <2>2 DEF ThreadKnows, Provisioning!At
  <2>4. QED
    BY <1>1, <2>1, <2>3, MovesKeepTenants
<1>3. ASSUME NEW t \in Provisioning!Resolved(u, header),
             thread_job' = [thread_job EXCEPT ![k] = [step |-> "stamp", user |-> u, tenant |-> t]],
             context' = [context EXCEPT ![k] = t]
      PROVE  TenantSound'
  <2> DEFINE next == [step |-> "stamp", user |-> u, tenant |-> t]
  <2>1. t \in Provisioning!Id /\ Belongs(t, u)
    BY DEF Provisioning!Resolved, Provisioning!principal_tenants, Belongs, Provisioning!Committed
  <2>2. /\ next \in TenantJob /\ next.step = "stamp" /\ next.tenant = t /\ next.user = u
        /\ next # Nothing /\ thread_job' = [thread_job EXCEPT ![k] = next]
    BY <1>3, <2>1 DEF TenantJob, TenantConstants
  <2> HIDE DEF next
  <2>3. thread_job'[k] = next /\ stamp'[k] = Nothing /\ context'[k] = t
    BY <1>1, <1>3, <2>2 DEF TenantSound, TenantTyped
  <2>4. ThreadKnows(k)'
    BY <1>1, <2>1, <2>2, <2>3 DEF ThreadKnows, Provisioning!At, Belongs
  <2>5. QED
    BY <1>1, <1>3, <2>1, <2>2, <2>4, MovesKeepTenants
<1>4. QED
  BY <1>2, <1>3 DEF Provisioning!Establish

LEMMA StampKeepsTenants ==
  ASSUME TenantConstants, TenantSound, NEW k \in Thread, Provisioning!StampDb(k)
  PROVE  TenantSound'
<1>1. /\ Provisioning!At(k, "stamp") /\ thread_job[k].tenant \in Provisioning!Id
      /\ thread_job[k] \in [step : {"stamp", "handle"}, user : User,
                            tenant : Provisioning!Id \cup {Nothing}]
      /\ Belongs(thread_job[k].tenant, thread_job[k].user) /\ context[k] = thread_job[k].tenant
      /\ UNCHANGED <<tenant, user_account, context>>
  BY TenantJobFacts DEF Provisioning!StampDb, TenantSound, ThreadKnows
<1> DEFINE next == [thread_job[k] EXCEPT !.step = "handle"]
<1>2. /\ next \in TenantJob /\ next # Nothing /\ next.step = "handle"
      /\ next.tenant = thread_job[k].tenant /\ next.user = thread_job[k].user
  BY <1>1 DEF TenantJob, TenantConstants
<1>3. /\ thread_job' = [thread_job EXCEPT ![k] = next]
      /\ stamp' = [stamp EXCEPT ![k] = thread_job[k].tenant]
      /\ context' = [context EXCEPT ![k] = thread_job[k].tenant]
  BY <1>1 DEF Provisioning!StampDb, Provisioning!Go, TenantSound, TenantTyped
<1> HIDE DEF next
<1>4. /\ thread_job'[k] = next /\ stamp'[k] = thread_job[k].tenant
      /\ context'[k] = thread_job[k].tenant
  BY <1>2, <1>3 DEF TenantSound, TenantTyped
<1>5. ThreadKnows(k)'
  BY <1>1, <1>2, <1>4, TenantConstants DEF ThreadKnows, Provisioning!At, Belongs, Unassigned,
     TenantConstants
<1>6. QED
  BY <1>1, <1>2, <1>3, <1>5, MovesKeepTenants DEF Provisioning!At

(* A request that ends has written no row. *)
LEMMA EndsKeepTenants ==
  ASSUME TenantConstants, TenantSound, NEW k \in Thread,
         Provisioning!StampFails(k) \/ Provisioning!Respond(k)
  PROVE  TenantSound'
<1>1. /\ ~Provisioning!At(k, "enter") /\ ~Provisioning!At(k, "write")
      /\ UNCHANGED <<tenant, user_account>>
      /\ thread_job' = [thread_job EXCEPT ![k] = Nothing] /\ stamp' = [stamp EXCEPT ![k] = Nothing]
  BY DEF Provisioning!StampFails, Provisioning!Respond, Provisioning!Done, Provisioning!At
<1>2. PICK c \in Provisioning!Id \cup {Nothing} : context' = [context EXCEPT ![k] = c]
  BY DEF Provisioning!StampFails, Provisioning!Respond, Provisioning!Done, TenantSound, TenantTyped
<1>3. thread_job'[k] = Nothing /\ stamp'[k] = Nothing
  BY <1>1 DEF TenantSound, TenantTyped
<1>4. ThreadKnows(k)'
  BY <1>3 DEF ThreadKnows, Provisioning!At
<1>5. QED
  BY <1>1, <1>2, <1>4, MovesKeepTenants

LEMMA ProvisionKeepsTenants ==
  ASSUME TenantConstants, TenantSound, NEW k \in Thread, NEW code \in Code, NEW u \in User,
         Provisioning!Provision(k, code, u)
  PROVE  TenantSound'
<1>1. /\ thread_job[k] = Nothing /\ stamp[k] = Nothing
      /\ UNCHANGED <<tenant, user_account, context, stamp>>
      /\ stamp' = [stamp EXCEPT ![k] = Nothing] /\ context' = [context EXCEPT ![k] = context[k]]
      /\ context[k] \in Provisioning!Id \cup {Nothing}
      /\ ~Provisioning!At(k, "enter") /\ ~Provisioning!At(k, "write")
  BY DEF Provisioning!Provision, TenantSound, TenantTyped, ThreadKnows, Unassigned, Provisioning!At
<1> DEFINE next == [step |-> "create", user |-> u, tenant |-> Nothing, code |-> code]
<1>2. next \in TenantJob /\ next # Nothing /\ next.step = "create"
  BY DEF TenantJob, TenantConstants
<1>3. \/ thread_job' = [thread_job EXCEPT ![k] = next]
      \/ thread_job' = [thread_job EXCEPT ![k] = Nothing]
  BY <1>1 DEF Provisioning!Provision, TenantSound, TenantTyped
<1> HIDE DEF next
<1>4. PICK n \in TenantJob \cup {Nothing} :
        thread_job' = [thread_job EXCEPT ![k] = n] /\ (n = Nothing \/ n = next)
  BY <1>2, <1>3
<1>5. ThreadKnows(k)'
  <2>1. thread_job'[k] = n /\ stamp'[k] = Nothing
    BY <1>1, <1>4 DEF TenantSound, TenantTyped
  <2>2. QED
    BY <1>2, <1>4, <2>1 DEF ThreadKnows, Provisioning!At
<1>6. QED
  BY <1>1, <1>4, <1>5, MovesKeepTenants

LEMMA EnterKeepsTenants ==
  ASSUME TenantConstants, TenantSound, NEW k \in Thread, Provisioning!EnterTenant(k)
  PROVE  TenantSound'
<1>0. PICK t \in Provisioning!Id : t = thread_job[k].tenant
  BY TenantJobFacts DEF Provisioning!EnterTenant, TenantSound
<1>1. /\ Provisioning!At(k, "enter")
      /\ thread_job[k] \in [step : {"enter"}, user : User, tenant : Provisioning!Id]
      /\ tenant[t] # Nothing /\ tenant[t].by = k
      /\ tenant[t].owner = thread_job[k].user /\ tenant[t].rows = {}
      /\ UNCHANGED <<tenant, user_account>>
  BY <1>0, TenantJobFacts DEF Provisioning!EnterTenant, TenantSound, ThreadKnows
<1> DEFINE next == [step |-> "write", user |-> thread_job[k].user, tenant |-> t,
                    next |-> 1, previous |-> context[k]]
<1>2. /\ next \in TenantJob /\ next # Nothing /\ next.step = "write" /\ next.tenant = t
      /\ next.user = thread_job[k].user /\ next.next = 1
  BY <1>0, <1>1 DEF TenantJob, TenantConstants, TenantSound, TenantTyped
<1>3. /\ thread_job' = [thread_job EXCEPT ![k] = next]
      /\ stamp' = [stamp EXCEPT ![k] = t] /\ context' = [context EXCEPT ![k] = t]
  BY <1>0 DEF Provisioning!EnterTenant, TenantSound, TenantTyped
<1> HIDE DEF next
<1>4. thread_job'[k] = next /\ stamp'[k] = t /\ context'[k] = t
  BY <1>2, <1>3 DEF TenantSound, TenantTyped
<1>5. ThreadKnows(k)'
  <2>1. Written(thread_job[k].next)' = {}
    BY <1>2, <1>4, FootprintFacts
  <2>2. ~(thread_job'[k].next > 4)
    BY <1>2, <1>4
  <2>3. QED
    BY <1>0, <1>1, <1>2, <1>4, <2>1, <2>2 DEF ThreadKnows, Provisioning!At, Unassigned
<1>6. Provisioning!At(k, "write")' /\ next.tenant = thread_job[k].tenant
  BY <1>0, <1>2, <1>4 DEF Provisioning!At
<1>7. QED
  BY <1>1, <1>2, <1>3, <1>5, <1>6, MovesKeepTenants

LEMMA CreateKeepsTenants ==
  ASSUME TenantConstants, TenantSound, NEW k \in Thread, Provisioning!CreateTenant(k)
  PROVE  TenantSound'
<1>1. /\ Provisioning!At(k, "create") /\ thread_job[k] # Nothing
      /\ ~Provisioning!At(k, "enter") /\ ~Provisioning!At(k, "write")
      /\ thread_job[k] \in [step : {"create"}, user : User, tenant : {Nothing}, code : Code]
      /\ stamp[k] = Nothing /\ context[k] \in Provisioning!Id \cup {Nothing}
      /\ UNCHANGED <<user_account, context, stamp>>
      /\ stamp' = [stamp EXCEPT ![k] = Nothing] /\ context' = [context EXCEPT ![k] = context[k]]
  <2>1. Provisioning!At(k, "create") /\ UNCHANGED <<user_account, context, stamp>>
    BY DEF Provisioning!CreateTenant
  <2>2. thread_job[k] \in [step : {"create"}, user : User, tenant : {Nothing}, code : Code]
    BY <2>1, TenantJobFacts DEF TenantSound
  <2>3. stamp[k] = Nothing
    BY <2>1 DEF TenantSound, ThreadKnows, Unassigned
  <2>4. QED
    BY <2>1, <2>2, <2>3 DEF Provisioning!At, TenantSound, TenantTyped
<1>2. CASE Provisioning!WithCode(thread_job[k].code) # {}
  <2>1. thread_job' = [thread_job EXCEPT ![k] = Nothing] /\ UNCHANGED tenant
    BY <1>2 DEF Provisioning!CreateTenant
  <2>2. thread_job'[k] = Nothing /\ stamp'[k] = Nothing
    BY <1>1, <2>1 DEF TenantSound, TenantTyped
  <2>3. ThreadKnows(k)'
    BY <2>2 DEF ThreadKnows, Provisioning!At
  <2>4. QED
    BY <1>1, <2>1, <2>3, MovesKeepTenants
<1>3. CASE Provisioning!WithCode(thread_job[k].code) = {}
  <2>1. PICK t \in Provisioning!Id :
          /\ tenant[t] = Nothing
          /\ tenant' = [tenant EXCEPT ![t] = [code |-> thread_job[k].code,
                          owner |-> thread_job[k].user, rows |-> {}, by |-> k]]
          /\ thread_job' = [thread_job EXCEPT ![k] =
               [step |-> "enter", user |-> thread_job[k].user, tenant |-> t]]
    BY <1>1, <1>3 DEF Provisioning!CreateTenant, TenantSound, TenantTyped
  <2> DEFINE new == [code |-> thread_job[k].code, owner |-> thread_job[k].user,
                     rows |-> {}, by |-> k]
             next == [step |-> "enter", user |-> thread_job[k].user, tenant |-> t]
  <2>2. /\ new \in TenantRow /\ new # Nothing /\ new.code = thread_job[k].code
        /\ new.owner = thread_job[k].user /\ new.rows = {} /\ new.by = k
    BY <1>1 DEF TenantRow, TenantConstants
  <2>3. /\ next \in TenantJob /\ next # Nothing /\ next.step = "enter" /\ next.tenant = t
        /\ next.user = thread_job[k].user
    BY <1>1 DEF TenantJob, TenantConstants
  <2>4. tenant' = [tenant EXCEPT ![t] = new] /\ thread_job' = [thread_job EXCEPT ![k] = next]
    BY <2>1
  <2> HIDE DEF new, next
  <2>5. /\ tenant'[t] = new /\ \A s \in Provisioning!Id \ {t} : tenant'[s] = tenant[s]
        /\ thread_job'[k] = next /\ \A j \in Thread \ {k} : thread_job'[j] = thread_job[j]
        /\ stamp'[k] = Nothing
    BY <1>1, <2>2, <2>3, <2>4 DEF TenantSound, TenantTyped
  <2>6. TenantTyped'
    BY <1>1, <2>2, <2>3, <2>4 DEF TenantSound, TenantTyped
  <2>7. ThreadKnows(k)'
    BY <2>2, <2>3, <2>5 DEF ThreadKnows, Provisioning!At
  <2>8. \A j \in Thread \ {k} : ThreadKnows(j)'
    <3>1. \A s \in Provisioning!Id : tenant[s] # Nothing => tenant'[s] = tenant[s]
      BY <2>1, <2>5
    <3>2. QED
      BY <1>1, <2>5, <3>1, OthersKeepTenants
  <2>9. ASSUME NEW s \in Provisioning!Id
        PROVE  OpenIsOwned(s)'
    <3>1. CASE s = t
      BY <2>2, <2>3, <2>5, <3>1 DEF OpenIsOwned, Provisioning!At
    <3>2. CASE s # t
      <4>1. tenant'[s] = tenant[s]
        BY <2>5, <3>2
      <4>2. tenant[s] # Nothing /\ tenant[s].by # Nothing =>
              tenant[s].by \in Thread \ {k}
        BY <1>1 DEF TenantSound, OpenIsOwned, TenantTyped, TenantRow
      <4>3. QED
        BY <2>5, <4>1, <4>2 DEF TenantSound, OpenIsOwned, Provisioning!At
    <3>3. QED
      BY <3>1, <3>2
  <2>10. Provisioning!TenantsWhole'
    <3>1. \A s \in Provisioning!Id : tenant[s] # Nothing => tenant[s].code # new.code
      BY <1>3, <2>2 DEF Provisioning!WithCode
    <3>2. new.by # Nothing
      BY <2>2 DEF TenantConstants
    <3>3. \A s \in Provisioning!Id : Provisioning!Committed(s)' =>
            s # t /\ Provisioning!Committed(s) /\ tenant'[s] = tenant[s]
      BY <2>5, <3>2 DEF Provisioning!Committed
    <3>4. \A r, s \in Provisioning!Id :
            tenant'[r] # Nothing /\ tenant'[s] # Nothing /\ tenant'[r].code = tenant'[s].code => r = s
      BY <2>5, <3>1 DEF TenantSound, Provisioning!TenantsWhole
    <3>5. \A s \in Provisioning!Id : Provisioning!Committed(s)' =>
            /\ tenant'[s].rows = Provisioning!Scoped
            /\ user_account'[tenant'[s].owner] = Nothing
      BY <1>1, <3>3 DEF TenantSound, Provisioning!TenantsWhole
    <3>6. QED
      BY <3>4, <3>5 DEF Provisioning!TenantsWhole
  <2>11. QED
    BY <2>6, <2>7, <2>8, <2>9, <2>10 DEF TenantSound
<1>4. QED
  BY <1>2, <1>3

LEMMA WriteKeepsTenants ==
  ASSUME TenantConstants, TenantSound, NEW k \in Thread, Provisioning!WritePart(k)
  PROVE  TenantSound'
<1>1. /\ Provisioning!At(k, "write") /\ UNCHANGED <<context, stamp>>
      /\ thread_job[k].next \in 1..6
      /\ thread_job' = [thread_job EXCEPT ![k].next = thread_job[k].next + 1]
  BY FootprintFacts DEF Provisioning!WritePart, TenantSound, TenantTyped
<1>2. thread_job[k] \in [step : {"write"}, user : User, tenant : Provisioning!Id, next : 1..7,
                         previous : Provisioning!Id \cup {Nothing}]
  BY <1>1, TenantJobFacts DEF TenantSound
<1>3. PICK t \in Provisioning!Id, u \in User, n \in 1..6 :
        t = thread_job[k].tenant /\ u = thread_job[k].user /\ n = thread_job[k].next
  BY <1>1, <1>2
<1>4. /\ tenant[t] # Nothing /\ tenant[t].by = k /\ tenant[t].owner = u
      /\ context[k] = t /\ stamp[k] = t /\ tenant[t].rows = Written(n)
      /\ n > 4 => user_account[u] \in {Nothing, k}
  BY <1>1, <1>3 DEF TenantSound, ThreadKnows
<1> DEFINE next == [thread_job[k] EXCEPT !.next = n + 1]
<1>5. /\ next \in TenantJob /\ next # Nothing /\ next.step = "write" /\ next.tenant = t
      /\ next.user = u /\ next.next = n + 1
  BY <1>2, <1>3 DEF TenantJob, TenantConstants
<1>6. thread_job' = [thread_job EXCEPT ![k] = next]
  BY <1>1, <1>3
<1> HIDE DEF next
<1>7. /\ thread_job' \in [Thread -> TenantJob \cup {Nothing}]
      /\ thread_job'[k] = next /\ \A j \in Thread \ {k} : thread_job'[j] = thread_job[j]
  BY <1>5, <1>6 DEF TenantSound, TenantTyped
<1>8. /\ tenant' \in [Provisioning!Id -> TenantRow \cup {Nothing}]
      /\ tenant'[t] # Nothing /\ tenant'[t].by = k /\ tenant'[t].owner = u
      /\ tenant'[t].code = tenant[t].code
      /\ tenant'[t].rows = Written(n + 1)
      /\ \A s \in Provisioning!Id \ {t} : tenant'[s] = tenant[s]
  <2>0. tenant[t] \in TenantRow
    BY <1>4 DEF TenantSound, TenantTyped
  <2>1. CASE Provisioning!Footprint[n] = "account"
    <3>1. UNCHANGED tenant
      BY <1>3, <2>1 DEF Provisioning!WritePart
    <3>2. Written(n + 1) = Written(n)
      BY <2>1, FootprintFacts
    <3>3. QED
      BY <1>4, <3>1, <3>2 DEF TenantSound, TenantTyped
  <2>2. CASE Provisioning!Footprint[n] # "account"
    <3> DEFINE new == [tenant[t] EXCEPT !.rows = tenant[t].rows \cup {Provisioning!Footprint[n]}]
    <3>1. tenant' = [tenant EXCEPT ![t] = new]
      BY <1>3, <2>2 DEF Provisioning!WritePart, TenantSound, TenantTyped
    <3>2. Written(n + 1) = Written(n) \cup {Provisioning!Footprint[n]}
      BY <2>2, FootprintFacts
    <3>3. Provisioning!Footprint[n] \in Provisioning!Scoped
      BY <2>2, FootprintFacts
    <3>4. /\ new \in TenantRow /\ new # Nothing /\ new.by = k /\ new.owner = u
          /\ new.code = tenant[t].code /\ new.rows = Written(n + 1)
      BY <1>4, <2>0, <3>2, <3>3 DEF TenantRow, TenantConstants
    <3> HIDE DEF new
    <3>5. QED
      BY <3>1, <3>4 DEF TenantSound, TenantTyped
  <2>3. QED
    BY <2>1, <2>2
<1>9. /\ user_account' \in [User -> Thread \cup {"absent", Nothing}]
      /\ n + 1 > 4 => user_account'[u] \in {Nothing, k}
      /\ \A v \in User : user_account[v] # "absent" => user_account'[v] = user_account[v]
  <2>1. CASE Provisioning!Footprint[n] = "account"
    <3>1. /\ user_account[u] \in {"absent", Nothing}
          /\ user_account' = [user_account EXCEPT ![u] =
               IF user_account[u] = "absent" THEN k ELSE user_account[u]]
      BY <1>3, <2>1 DEF Provisioning!WritePart, TenantSound, TenantTyped
    <3>2. QED
      BY <3>1 DEF TenantSound, TenantTyped
  <2>2. CASE Provisioning!Footprint[n] # "account"
    <3>1. UNCHANGED user_account
      BY <1>3, <2>2 DEF Provisioning!WritePart
    <3>2. n + 1 > 4 => n > 4
      BY <2>2, FootprintFacts
    <3>3. QED
      BY <1>4, <3>1, <3>2 DEF TenantSound, TenantTyped
  <2>3. QED
    BY <2>1, <2>2
<1>10. ThreadKnows(k)'
  <2>1. Written(thread_job[k].next)' = Written(n + 1)
    BY <1>5, <1>7
  <2>2. QED
    BY <1>1, <1>4, <1>5, <1>7, <1>8, <1>9, <2>1 DEF ThreadKnows, Provisioning!At, Unassigned
<1>11. \A j \in Thread \ {k} : ThreadKnows(j)'
  BY <1>1, <1>4, <1>7, <1>8, <1>9, OthersKeepTenants
<1>12. ASSUME NEW s \in Provisioning!Id
       PROVE  OpenIsOwned(s)'
  <2>1. CASE s = t
    BY <1>5, <1>7, <1>8, <2>1 DEF OpenIsOwned, Provisioning!At
  <2>2. CASE s # t
    <3>1. tenant'[s] = tenant[s]
      BY <1>8, <2>2
    <3>2. (tenant[s] # Nothing /\ tenant[s].by # Nothing) => tenant[s].by \in Thread \ {k}
      BY <1>3, <2>2 DEF TenantSound, OpenIsOwned, TenantTyped, TenantRow
    <3>3. QED
      BY <1>7, <3>1, <3>2 DEF TenantSound, OpenIsOwned, Provisioning!At
  <2>3. QED
    BY <2>1, <2>2
<1>13. Provisioning!TenantsWhole'
  <2>1. \A s \in Provisioning!Id :
          /\ (tenant'[s] = Nothing) <=> (tenant[s] = Nothing)
          /\ tenant[s] # Nothing => tenant'[s].code = tenant[s].code
    BY <1>4, <1>8
  <2>2. \A s \in Provisioning!Id : Provisioning!Committed(s)' =>
          Provisioning!Committed(s) /\ tenant'[s] = tenant[s]
    BY <1>8 DEF Provisioning!Committed, TenantConstants
  <2>3. \A s \in Provisioning!Id : Provisioning!Committed(s)' =>
          /\ tenant'[s].rows = Provisioning!Scoped
          /\ user_account'[tenant'[s].owner] = Nothing
    <3>1. \A s \in Provisioning!Id : Provisioning!Committed(s) => tenant[s].owner \in User
      BY DEF Provisioning!Committed, TenantSound, TenantTyped, TenantRow
    <3>2. QED
      BY <1>9, <2>2, <3>1 DEF TenantSound, Provisioning!TenantsWhole, TenantConstants
  <2>4. QED
    BY <2>1, <2>3 DEF TenantSound, Provisioning!TenantsWhole
<1>14. QED
  BY <1>1, <1>7, <1>8, <1>9, <1>10, <1>11, <1>12, <1>13 DEF TenantSound, TenantTyped

(* The end of a transaction: its thread is free, and of its rows each is    *)
(* committed or gone.                                                       *)
LEMMA TransactionEnds ==
  ASSUME TenantConstants, TenantSound, NEW k \in Thread,
         NEW c \in Provisioning!Id \cup {Nothing}, Provisioning!Done(k, c),
         tenant' \in [Provisioning!Id -> TenantRow \cup {Nothing}],
         user_account' \in [User -> Thread \cup {"absent", Nothing}],
         \A t \in Provisioning!Id : tenant[t] # Nothing =>
           IF tenant[t].by = k THEN tenant'[t] = Nothing \/ tenant'[t].by = Nothing
                               ELSE tenant'[t] = tenant[t],
         \A t \in Provisioning!Id : tenant[t] = Nothing => tenant'[t] = Nothing,
         \A u \in User : user_account[u] # k => user_account'[u] = user_account[u],
         Provisioning!TenantsWhole'
  PROVE  TenantSound'
<1>1. /\ thread_job' = [thread_job EXCEPT ![k] = Nothing]
      /\ stamp' = [stamp EXCEPT ![k] = Nothing] /\ context' = [context EXCEPT ![k] = c]
  BY DEF Provisioning!Done
<1>2. /\ thread_job' \in [Thread -> TenantJob \cup {Nothing}]
      /\ stamp' \in [Thread -> Provisioning!Id \cup {Nothing}]
      /\ context' \in [Thread -> Provisioning!Id \cup {Nothing}]
      /\ thread_job'[k] = Nothing /\ stamp'[k] = Nothing
      /\ \A j \in Thread \ {k} : /\ thread_job'[j] = thread_job[j]
                                 /\ context'[j] = context[j] /\ stamp'[j] = stamp[j]
  BY <1>1 DEF TenantSound, TenantTyped
<1>3. ThreadKnows(k)'
  BY <1>2 DEF ThreadKnows, Provisioning!At
<1>4. \A j \in Thread \ {k} : ThreadKnows(j)'
  BY <1>2, OthersKeepTenants
<1>5. ASSUME NEW t \in Provisioning!Id
      PROVE  OpenIsOwned(t)'
  <2>1. (tenant'[t] # Nothing /\ tenant'[t].by # Nothing) =>
          (tenant[t] # Nothing /\ tenant'[t] = tenant[t] /\ tenant[t].by \in Thread \ {k})
    BY DEF TenantSound, TenantTyped, TenantRow
  <2>2. QED
    BY <1>2, <2>1 DEF TenantSound, OpenIsOwned, Provisioning!At
<1>6. QED
  BY <1>2, <1>3, <1>4, <1>5 DEF TenantSound, TenantTyped

LEMMA ProvisionedKeepsTenants ==
  ASSUME TenantConstants, TenantSound, NEW k \in Thread, Provisioning!Provisioned(k)
  PROVE  TenantSound'
<1>1. /\ Provisioning!At(k, "write") /\ thread_job[k].next \notin 1..6
      /\ Provisioning!Done(k, thread_job[k].previous)
  BY FootprintFacts DEF Provisioning!Provisioned
<1>2. thread_job[k] \in [step : {"write"}, user : User, tenant : Provisioning!Id, next : 1..7,
                         previous : Provisioning!Id \cup {Nothing}]
  BY <1>1, TenantJobFacts DEF TenantSound
<1>3. thread_job[k].next = 7
  BY <1>1, <1>2
<1>4. PICK t \in Provisioning!Id : t = thread_job[k].tenant
  BY <1>2
<1>5. /\ tenant[t].rows = Provisioning!Scoped /\ tenant[t].owner = thread_job[k].user
      /\ tenant[t].owner \in User /\ user_account[tenant[t].owner] \in {Nothing, k}
  BY <1>1, <1>2, <1>3, <1>4, FootprintFacts DEF TenantSound, ThreadKnows
<1>6. /\ tenant' = [s \in Provisioning!Id |->
                      IF tenant[s] # Nothing /\ tenant[s].by = k
                      THEN [tenant[s] EXCEPT !.by = Nothing] ELSE tenant[s]]
      /\ user_account' = [u \in User |-> IF user_account[u] = k THEN Nothing ELSE user_account[u]]
  BY DEF Provisioning!Provisioned, Provisioning!Kept
<1>7. \A s \in Provisioning!Id : tenant[s] # Nothing /\ tenant[s].by = k => s = t
  BY <1>4 DEF TenantSound, OpenIsOwned, TenantConstants
<1>8. \A s \in Provisioning!Id : tenant[s] # Nothing =>
        /\ tenant[s] \in TenantRow /\ tenant'[s] \in TenantRow /\ tenant'[s] # Nothing
        /\ tenant'[s].code = tenant[s].code /\ tenant'[s].owner = tenant[s].owner
        /\ tenant'[s].rows = tenant[s].rows
        /\ tenant'[s].by = IF tenant[s].by = k THEN Nothing ELSE tenant[s].by
  BY <1>6 DEF TenantSound, TenantTyped, TenantRow, TenantConstants
<1>9. \A s \in Provisioning!Id :
        /\ tenant[s] = Nothing => tenant'[s] = Nothing
        /\ tenant[s] # Nothing /\ tenant[s].by # k => tenant'[s] = tenant[s]
  BY <1>6
<1>10. tenant' \in [Provisioning!Id -> TenantRow \cup {Nothing}]
  <2>1. \A s \in Provisioning!Id : tenant'[s] \in TenantRow \cup {Nothing}
    BY <1>8, <1>9
  <2>2. QED
    BY <1>6, <2>1
<1>11. /\ user_account' \in [User -> Thread \cup {"absent", Nothing}]
       /\ \A u \in User : user_account[u] # k => user_account'[u] = user_account[u]
       /\ \A u \in User : user_account[u] \in {Nothing, k} => user_account'[u] = Nothing
  BY <1>6 DEF TenantSound, TenantTyped
<1>12. Provisioning!TenantsWhole'
  <2>1. ASSUME NEW s \in Provisioning!Id, Provisioning!Committed(s)'
        PROVE  tenant'[s].rows = Provisioning!Scoped /\ user_account'[tenant'[s].owner] = Nothing
    <3>1. tenant[s] # Nothing /\ (s = t \/ Provisioning!Committed(s))
      BY <1>7, <1>8, <1>9, <2>1 DEF Provisioning!Committed
    <3>2. tenant[s].owner \in User /\ tenant[s].rows = Provisioning!Scoped
          /\ user_account[tenant[s].owner] \in {Nothing, k}
      BY <1>5, <1>8, <3>1 DEF TenantSound, Provisioning!TenantsWhole, TenantRow
    <3>3. QED
      BY <1>8, <1>11, <3>1, <3>2
  <2>2. \A r, s \in Provisioning!Id :
          tenant'[r] # Nothing /\ tenant'[s] # Nothing /\ tenant'[r].code = tenant'[s].code => r = s
    BY <1>8, <1>9 DEF TenantSound, Provisioning!TenantsWhole
  <2>3. QED
    BY <2>1, <2>2 DEF Provisioning!TenantsWhole
<1>13. \A s \in Provisioning!Id : tenant[s] # Nothing =>
         IF tenant[s].by = k THEN tenant'[s] = Nothing \/ tenant'[s].by = Nothing
                             ELSE tenant'[s] = tenant[s]
  BY <1>8, <1>9
<1>14. QED
  BY <1>1, <1>2, <1>9, <1>10, <1>11, <1>12, <1>13, TransactionEnds

LEMMA FailureKeepsTenants ==
  ASSUME TenantConstants, TenantSound, NEW k \in Thread, Provisioning!ProvisionFails(k)
  PROVE  TenantSound'
<1>1. PICK c \in Provisioning!Id \cup {Nothing} : Provisioning!Done(k, c)
  <2>1. /\ Provisioning!At(k, "write") => thread_job[k].previous \in Provisioning!Id \cup {Nothing}
        /\ Provisioning!At(k, "enter") => thread_job[k].tenant \in Provisioning!Id \cup {Nothing}
    BY TenantJobFacts DEF TenantSound
  <2>2. context[k] \in Provisioning!Id \cup {Nothing}
    BY DEF TenantSound, TenantTyped
  <2>3. QED
    BY <2>1, <2>2 DEF Provisioning!ProvisionFails
<1>2. /\ tenant' = [s \in Provisioning!Id |->
                      IF tenant[s] # Nothing /\ tenant[s].by = k THEN Nothing ELSE tenant[s]]
      /\ user_account' = [u \in User |-> IF user_account[u] = k THEN "absent" ELSE user_account[u]]
  BY DEF Provisioning!ProvisionFails, Provisioning!Undone
<1>3. /\ tenant' \in [Provisioning!Id -> TenantRow \cup {Nothing}]
      /\ user_account' \in [User -> Thread \cup {"absent", Nothing}]
      /\ \A s \in Provisioning!Id : tenant'[s] # Nothing => tenant'[s] = tenant[s]
      /\ \A s \in Provisioning!Id : tenant[s] # Nothing =>
           IF tenant[s].by = k THEN tenant'[s] = Nothing \/ tenant'[s].by = Nothing
                               ELSE tenant'[s] = tenant[s]
      /\ \A s \in Provisioning!Id : tenant[s] = Nothing => tenant'[s] = Nothing
      /\ \A u \in User : user_account[u] # k => user_account'[u] = user_account[u]
  BY <1>2 DEF TenantSound, TenantTyped
<1>4. Provisioning!TenantsWhole'
  <2>1. ASSUME NEW s \in Provisioning!Id, Provisioning!Committed(s)'
        PROVE  tenant'[s].rows = Provisioning!Scoped /\ user_account'[tenant'[s].owner] = Nothing
    <3>1. tenant'[s] = tenant[s] /\ Provisioning!Committed(s)
      BY <1>3, <2>1 DEF Provisioning!Committed
    <3>2. tenant[s].owner \in User
      BY <3>1 DEF Provisioning!Committed, TenantSound, TenantTyped, TenantRow
    <3>3. QED
      BY <1>3, <3>1, <3>2 DEF TenantSound, Provisioning!TenantsWhole, TenantConstants
  <2>2. \A r, s \in Provisioning!Id :
          tenant'[r] # Nothing /\ tenant'[s] # Nothing /\ tenant'[r].code = tenant'[s].code => r = s
    BY <1>3 DEF TenantSound, Provisioning!TenantsWhole
  <2>3. QED
    BY <2>1, <2>2 DEF Provisioning!TenantsWhole
<1>5. QED
  BY <1>1, <1>3, <1>4, TransactionEnds

LEMMA TenantStep ==
  ASSUME TenantConstants, TenantSound, [Provisioning!Next]_tenantVars
  PROVE  TenantSound'
<1>1. CASE UNCHANGED tenantVars
  <2>1. UNCHANGED <<tenant, user_account, context, stamp, thread_job>>
    BY <1>1 DEF tenantVars
  <2>2. TenantTyped' /\ Provisioning!TenantsWhole'
    BY <2>1 DEF TenantSound, TenantTyped, Provisioning!TenantsWhole, Provisioning!Committed
  <2>3. \A t \in Provisioning!Id : OpenIsOwned(t)'
    BY <2>1 DEF TenantSound, OpenIsOwned, Provisioning!At
  <2>4. \A k \in Thread : ThreadKnows(k)'
    BY <2>1 DEF TenantSound, ThreadKnows, Unassigned, Belongs, Provisioning!At
  <2>5. QED
    BY <2>2, <2>3, <2>4 DEF TenantSound
<1>2. CASE Provisioning!Next
  BY <1>2, EstablishKeepsTenants, StampKeepsTenants, EndsKeepTenants, ProvisionKeepsTenants,
     CreateKeepsTenants, EnterKeepsTenants, WriteKeepsTenants, ProvisionedKeepsTenants,
     FailureKeepsTenants DEF Provisioning!Next
<1>3. QED
  BY <1>1, <1>2

LEMMA TenantInit ==
  ASSUME TenantConstants, Provisioning!Init
  PROVE  TenantSound
BY DEF Provisioning!Init, TenantSound, TenantTyped, ThreadKnows, Unassigned, Provisioning!At,
   OpenIsOwned, Provisioning!TenantsWhole, Provisioning!Committed

(* A request sees the rows of the tenant of its user's it was resolved to.  *)
LEMMA TenantsShow ==
  ASSUME TenantConstants, TenantSound
  PROVE  Provisioning!TypeOK /\ Provisioning!TenantsStand
<1>1. Provisioning!TypeOK
  BY TenantJobFacts DEF TenantSound, TenantTyped, TenantRow, TenantJob, Provisioning!TypeOK
<1>2. ASSUME NEW k \in Thread, Provisioning!At(k, "handle")
      PROVE  Provisioning!Visible(k) =
               {thread_job[k].tenant} \cap Provisioning!principal_tenants(thread_job[k].user)
  <2>1. thread_job[k].tenant \in Provisioning!Id \cup {Nothing}
    BY <1>2, TenantJobFacts DEF TenantSound
  <2>2. CASE thread_job[k].tenant = Nothing
    <3>1. stamp[k] = Nothing
      BY <1>2, <2>2 DEF TenantSound, ThreadKnows, Unassigned
    <3>2. QED
      BY <2>2, <3>1 DEF Provisioning!Visible, Provisioning!get_queryset, TenantConstants,
         Provisioning!tenant_isolation, Provisioning!principal_tenants
  <2>3. CASE thread_job[k].tenant # Nothing
    BY <1>2, <2>1, <2>3 DEF TenantSound, ThreadKnows, Belongs, Provisioning!Visible,
       Provisioning!get_queryset, Provisioning!tenant_isolation, Provisioning!principal_tenants,
       Provisioning!Committed
  <2>4. QED
    BY <2>2, <2>3
<1>3. ASSUME NEW k \in Thread, Provisioning!At(k, "write")
      PROVE  Provisioning!Visible(k) = {thread_job[k].tenant}
  BY <1>3, TenantJobFacts DEF TenantSound, ThreadKnows, Provisioning!Visible,
     Provisioning!get_queryset, Provisioning!tenant_isolation
<1>4. QED
  BY <1>1, <1>2, <1>3 DEF TenantSound, Provisioning!TenantsStand, Provisioning!ServedInTheirTenant

-----------------------------------------------------------------------------
(* The team of one tenant (apps/accounts).                                  *)

TeamTypes ==
  /\ today \in 0..MaxToday
  /\ invitation \in [Invitation -> Team!InvitationRow \cup {Nothing}]
  /\ membership \in [User -> Team!Membership]
  /\ request \in [Request -> TeamCall \cup {Nothing}]

StandsAccepted(i) == invitation[i] # Nothing /\ invitation[i].status = "accepted"

(* The version a call has read is not above the row's, and while it is the  *)
(* row's own nobody has accepted the invitation.                            *)
SaveKnows(c) ==
  LET i == request[c].id
  IN  Team!At(c, "save") =>
        /\ request[c].row.version = request[c].version
        /\ invitation[i] # Nothing /\ request[c].version =< invitation[i].version
        /\ request[c].version = invitation[i].version => ~StandsAccepted(i)

(* A redemption past the lock has a pending invitation to itself. *)
AcceptKnows(c) ==
  Team!At(c, "accept") =>
    /\ Team!Pending(request[c].id)
    /\ \A d \in Request \ {c} : Team!At(d, "accept") => request[d].id # request[c].id

TeamSound ==
  /\ TeamTypes
  /\ Team!RolesAreInvited
  /\ \A c \in Request : SaveKnows(c) /\ AcceptKnows(c)

-----------------------------------------------------------------------------
(* What the parts of the state do to each other.                            *)

(* Roles stand while memberships and accepted invitations do. *)
LEMMA RolesStand ==
  ASSUME Team!RolesAreInvited, UNCHANGED membership,
         \A i \in Invitation : StandsAccepted(i) => invitation'[i] = invitation[i]
  PROVE  Team!RolesAreInvited'
BY DEF Team!RolesAreInvited, StandsAccepted, Team!Active

(* What a write of invitations may do that others are reading. *)
InvitationMoved(i) ==
  \/ invitation'[i] = invitation[i]
  \/ invitation[i] = Nothing
  \/ /\ Team!Pending(i) /\ i \notin Team!Locked
     /\ invitation'[i] = [invitation[i] EXCEPT !.status = "expired"]
  \/ invitation'[i] # Nothing /\ i \notin Team!Locked /\ invitation'[i].version > invitation[i].version

LEMMA SavesKept ==
  ASSUME TeamConstants, TeamTypes, NEW d \in Request, SaveKnows(d), request'[d] = request[d],
         invitation' \in [Invitation -> Team!InvitationRow \cup {Nothing}],
         \A i \in Invitation : \/ InvitationMoved(i)
                               \/ /\ invitation'[i] # Nothing
                                  /\ invitation'[i].version > invitation[i].version
  PROVE  SaveKnows(d)'
<1> SUFFICES ASSUME Team!At(d, "save")
             PROVE  LET i == request[d].id
                    IN  /\ request[d].row.version = request[d].version
                        /\ invitation'[i] # Nothing
                        /\ request[d].version =< invitation'[i].version
                        /\ request[d].version = invitation'[i].version
                             => ~(invitation'[i].status = "accepted")
  BY DEF SaveKnows, Team!At, StandsAccepted
<1>0. request[d].row.version = request[d].version
  BY DEF SaveKnows
<1> DEFINE i == request[d].id
           v == request[d].version
<1>1. i \in Invitation /\ v \in Nat
  BY DEF Team!At, TeamTypes, TeamCall
<1>2. /\ invitation[i] # Nothing /\ v =< invitation[i].version
      /\ v = invitation[i].version => invitation[i].status # "accepted"
  BY DEF SaveKnows, StandsAccepted
<1>3. invitation[i] \in Team!InvitationRow /\ invitation[i].version \in Nat
  BY <1>1, <1>2 DEF TeamTypes, Team!InvitationRow
<1> HIDE DEF i, v
<1>4. CASE invitation'[i] = invitation[i]
  BY <1>0, <1>2, <1>4 DEF i, v
<1>5. CASE invitation'[i] = [invitation[i] EXCEPT !.status = "expired"]
  <2>1. invitation'[i] \in Team!InvitationRow
    BY <1>3, <1>5 DEF Team!InvitationRow
  <2>2. invitation'[i].status = "expired" /\ invitation'[i].version = invitation[i].version
    BY <1>3, <1>5 DEF Team!InvitationRow
  <2>3. invitation'[i] # Nothing
    BY <2>1 DEF TeamConstants
  <2>4. QED
    BY <1>0, <1>2, <2>2, <2>3 DEF i, v
<1>6. CASE invitation'[i] # Nothing /\ invitation'[i].version > invitation[i].version
  <2>1. invitation'[i].version \in Nat
    BY <1>1, <1>6 DEF Team!InvitationRow
  <2>2. v < invitation'[i].version
    BY <1>1, <1>2, <1>3, <1>6, <2>1
  <2>3. QED
    BY <1>0, <1>1, <1>6, <2>1, <2>2 DEF i, v
<1>7. QED
  BY <1>1, <1>2, <1>4, <1>5, <1>6 DEF InvitationMoved

LEMMA AcceptsKept ==
  ASSUME TeamTypes, NEW d \in Request, AcceptKnows(d), request'[d] = request[d],
         \A e \in Request \ {d} : Team!At(e, "accept")' =>
           Team!At(e, "accept") /\ request'[e].id = request[e].id,
         \A i \in Invitation : InvitationMoved(i)
  PROVE  AcceptKnows(d)'
<1> SUFFICES ASSUME Team!At(d, "accept")
             PROVE  /\ Team!Pending(request[d].id)'
                    /\ \A e \in Request \ {d} :
                         Team!At(e, "accept")' => request'[e].id # request[d].id
  BY DEF AcceptKnows, Team!At, Team!Pending
<1> DEFINE i == request[d].id
<1>1. i \in Invitation /\ i \in Team!Locked /\ Team!Pending(i)
  BY DEF Team!At, TeamTypes, TeamCall, Team!Locked, AcceptKnows
<1>2. invitation'[i] = invitation[i]
  BY <1>1 DEF InvitationMoved, Team!Pending
<1>3. Team!Pending(i)'
  BY <1>1, <1>2 DEF Team!Pending, Team!At
<1>4. QED
  BY <1>3 DEF AcceptKnows, Team!At

-----------------------------------------------------------------------------
(* One lemma per kind of step.                                              *)

(* Calls that only read, and calls that end. *)
LEMMA CallsKeepTeam ==
  ASSUME TeamConstants, TeamSound, NEW c \in Request, UNCHANGED <<today, invitation>>,
         NEW next_call \in TeamCall \cup {Nothing}, request' = [request EXCEPT ![c] = next_call],
         SaveKnows(c)', AcceptKnows(c)', Team!RolesAreInvited', membership' \in [User -> Team!Membership],
         \A d \in Request \ {c} : Team!At(c, "accept")' /\ Team!At(d, "accept") => request[d].id # request'[c].id
  PROVE  TeamSound'
<1>1. TeamTypes'
  BY DEF TeamSound, TeamTypes
<1>2. ASSUME NEW d \in Request \ {c}
      PROVE  SaveKnows(d)' /\ AcceptKnows(d)'
  <2>1. request'[d] = request[d]
    BY <1>2 DEF TeamSound, TeamTypes
  <2>2. SaveKnows(d)'
    BY <2>1 DEF TeamSound, SaveKnows, Team!At, StandsAccepted
  <2>3. \A e \in Request \ {c} : request'[e] = request[e]
    BY DEF TeamSound, TeamTypes
  <2>4. AcceptKnows(d)'
    BY <1>2, <2>1, <2>3 DEF TeamSound, AcceptKnows, Team!At, Team!Pending
  <2>5. QED
    BY <2>2, <2>4
<1>3. QED
  BY <1>1, <1>2 DEF TeamSound

LEMMA ReadsKeepTeam ==
  ASSUME TeamConstants, TeamSound, NEW c \in Request,
         \/ Team!ReadForResend(c) \/ Team!ReadForRevoke(c) \/ Team!LookUpToken(c) \/ Team!ReadMember(c)
  PROVE  TeamSound'
<1>1. Team!RolesAreInvited'
  BY RolesStand DEF TeamSound, Team!ReadForResend, Team!ReadForRevoke, Team!LookUpToken,
     Team!ReadMember
<1>2. UNCHANGED <<today, invitation, membership>> /\ membership \in [User -> Team!Membership]
  BY DEF TeamSound, TeamTypes, Team!ReadForResend, Team!ReadForRevoke, Team!LookUpToken,
     Team!ReadMember
<1>3. CASE Team!ReadForResend(c) \/ Team!ReadForRevoke(c)
  <2>1. PICK i \in Invitation, row \in Team!InvitationRow :
          /\ Team!Pending(i) /\ row.version = invitation[i].version
          /\ request' = [request EXCEPT ![c] =
               [step |-> "save", id |-> i, version |-> invitation[i].version, row |-> row]]
    <3>1. CASE Team!ReadForResend(c)
      <4>1. PICK i \in Invitation, expires_at \in (today + 1)..(MaxToday + 1) :
              /\ Team!Pending(i) /\ invitation[i].token < MaxToken
              /\ Team!Begin(c, [step |-> "save", id |-> i, version |-> invitation[i].version,
                    row |-> [invitation[i] EXCEPT !.token = @ + 1, !.expires_at = expires_at]])
        BY <3>1 DEF Team!ReadForResend
      <4>2. invitation[i] \in Team!InvitationRow
        BY <4>1 DEF TeamSound, TeamTypes, Team!Pending
      <4>3. today \in Nat /\ MaxToday \in Nat /\ MaxToken \in Nat
        BY DEF TeamSound, TeamTypes, TeamConstants
      <4>4. expires_at \in Team!Day /\ invitation[i].token + 1 \in 1..MaxToken
        BY <4>1, <4>2, <4>3 DEF Team!Day, Team!InvitationRow
      <4> DEFINE row == [invitation[i] EXCEPT !.token = @ + 1, !.expires_at = expires_at]
      <4>5. row \in Team!InvitationRow /\ row.version = invitation[i].version
        BY <4>2, <4>4 DEF Team!InvitationRow
      <4>6. /\ Team!Pending(i)
            /\ request' = [request EXCEPT ![c] =
                 [step |-> "save", id |-> i, version |-> invitation[i].version, row |-> row]]
        BY <4>1 DEF Team!Begin
      <4> HIDE DEF row
      <4>7. QED
        BY <4>5, <4>6
    <3>2. CASE Team!ReadForRevoke(c)
      <4>1. PICK i \in Invitation :
              /\ Team!Pending(i)
              /\ Team!Begin(c, [step |-> "save", id |-> i, version |-> invitation[i].version,
                    row |-> [invitation[i] EXCEPT !.status = "revoked"]])
        BY <3>2 DEF Team!ReadForRevoke
      <4>2. invitation[i] \in Team!InvitationRow
        BY <4>1 DEF TeamSound, TeamTypes, Team!Pending
      <4> DEFINE row == [invitation[i] EXCEPT !.status = "revoked"]
      <4>3. row \in Team!InvitationRow /\ row.version = invitation[i].version
        BY <4>2 DEF Team!InvitationRow
      <4>4. /\ Team!Pending(i)
            /\ request' = [request EXCEPT ![c] =
                 [step |-> "save", id |-> i, version |-> invitation[i].version, row |-> row]]
        BY <4>1 DEF Team!Begin
      <4> HIDE DEF row
      <4>5. QED
        BY <4>3, <4>4
    <3>3. QED
      BY <1>3, <3>1, <3>2
  <2> DEFINE next_call == [step |-> "save", id |-> i, version |-> invitation[i].version, row |-> row]
  <2>2. invitation[i] \in Team!InvitationRow
    BY <2>1 DEF TeamSound, TeamTypes, Team!Pending
  <2>3. next_call \in TeamCall
    BY <2>2 DEF TeamCall, Team!InvitationRow
  <2>4. request'[c] = next_call
    BY <2>1 DEF TeamSound, TeamTypes
  <2>5. invitation[i].version =< invitation[i].version
    BY <2>2 DEF Team!InvitationRow
  <2>6. SaveKnows(c)' /\ AcceptKnows(c)' /\ ~Team!At(c, "accept")'
    BY <1>2, <2>1, <2>4, <2>5 DEF SaveKnows, AcceptKnows, Team!At, StandsAccepted, Team!Pending
  <2>7. QED
    BY <1>1, <1>2, <2>1, <2>3, <2>6, CallsKeepTeam
<1>4. CASE Team!LookUpToken(c) \/ Team!ReadMember(c)
  <2>1. PICK next_call \in TeamCall : /\ request' = [request EXCEPT ![c] = next_call]
                             /\ next_call.step \in {"lock", "revoke"}
    <3>1. CASE Team!LookUpToken(c)
      <4>1. PICK i \in Invitation :
              /\ invitation[i] # Nothing
              /\ Team!Begin(c, [step |-> "lock", id |-> i, token |-> invitation[i].token])
        BY <3>1 DEF Team!LookUpToken
      <4> DEFINE next_call == [step |-> "lock", id |-> i, token |-> invitation[i].token]
      <4>2. invitation[i].token \in 1..MaxToken
        BY <4>1 DEF TeamSound, TeamTypes, Team!InvitationRow
      <4>3. next_call \in TeamCall /\ next_call.step = "lock"
        BY <4>2 DEF TeamCall
      <4>4. request' = [request EXCEPT ![c] = next_call]
        BY <4>1 DEF Team!Begin
      <4> HIDE DEF next_call
      <4>5. QED
        BY <4>3, <4>4
    <3>2. CASE Team!ReadMember(c)
      <4>1. PICK target \in User :
              Team!Begin(c, [step |-> "revoke", member |-> target,
                        version |-> membership[target].version])
        BY <3>2 DEF Team!ReadMember
      <4> DEFINE next_call == [step |-> "revoke", member |-> target,
                          version |-> membership[target].version]
      <4>2. membership[target].version \in Nat
        BY <4>1 DEF TeamSound, TeamTypes, Team!Membership
      <4>3. next_call \in TeamCall /\ next_call.step = "revoke"
        BY <4>2 DEF TeamCall
      <4>4. request' = [request EXCEPT ![c] = next_call]
        BY <4>1 DEF Team!Begin
      <4> HIDE DEF next_call
      <4>5. QED
        BY <4>3, <4>4
    <3>3. QED
      BY <1>4, <3>1, <3>2
  <2>2. request'[c] = next_call
    BY <2>1 DEF TeamSound, TeamTypes
  <2>3. SaveKnows(c)' /\ AcceptKnows(c)' /\ ~Team!At(c, "accept")'
    BY <2>1, <2>2 DEF SaveKnows, AcceptKnows, Team!At
  <2>4. QED
    BY <1>1, <1>2, <2>1, <2>3, CallsKeepTeam
<1>5. QED
  BY <1>3, <1>4

LEMMA LockKeepsTeam ==
  ASSUME TeamConstants, TeamSound, NEW c \in Request, Team!LockInvitation(c)
  PROVE  TeamSound'
<1> DEFINE i == request[c].id
<1>1. UNCHANGED <<today, invitation, membership>> /\ membership \in [User -> Team!Membership]
  BY DEF TeamSound, TeamTypes, Team!LockInvitation
<1>2. Team!RolesAreInvited'
  BY <1>1, RolesStand DEF TeamSound
<1>3. i \in Invitation /\ i \notin Team!Locked
  BY DEF Team!LockInvitation, Team!At, TeamSound, TeamTypes, TeamCall
<1>4. CASE Team!Return(c)
  <2>1. request'[c] = Nothing
    BY <1>4 DEF Team!Return, TeamSound, TeamTypes
  <2>2. SaveKnows(c)' /\ AcceptKnows(c)' /\ ~Team!At(c, "accept")'
    BY <2>1 DEF SaveKnows, AcceptKnows, Team!At
  <2>3. QED
    BY <1>1, <1>2, <1>4, <2>2, CallsKeepTeam DEF Team!Return
<1>5. CASE ~Team!Return(c)
  <2> DEFINE next_call == [step |-> "accept", id |-> i, member |-> Team!Active(invitation[i].email)]
  <2>1. Team!Pending(i) /\ request' = [request EXCEPT ![c] = next_call]
    BY <1>5 DEF Team!LockInvitation, Team!Redeemable
  <2>2. next_call \in TeamCall
    BY <1>3 DEF TeamCall, Team!Active
  <2>3. request'[c] = next_call /\ \A d \in Request \ {c} : request'[d] = request[d]
    BY <2>1 DEF TeamSound, TeamTypes
  <2>4. \A d \in Request \ {c} : Team!At(d, "accept") => request[d].id # i
    BY <1>3 DEF Team!Locked
  <2>5. SaveKnows(c)'
    BY <2>3 DEF SaveKnows, Team!At
  <2>6. AcceptKnows(c)'
    BY <1>1, <2>1, <2>3, <2>4 DEF AcceptKnows, Team!At, Team!Pending
  <2>7. \A d \in Request \ {c} :
          Team!At(c, "accept")' /\ Team!At(d, "accept") => request[d].id # request'[c].id
    BY <2>3, <2>4
  <2> HIDE DEF next_call
  <2>8. QED
    BY <1>1, <1>2, <2>1, <2>2, <2>5, <2>6, <2>7, CallsKeepTeam
<1>6. QED
  BY <1>4, <1>5, Zenon

(* The two writes of memberships. *)
LEMMA AcceptKeepsTeam ==
  ASSUME TeamConstants, TeamSound, NEW c \in Request, Team!Accept(c)
  PROVE  TeamSound'
<1> DEFINE i == request[c].id
           u == invitation[i].email
           row == [invitation[i] EXCEPT !.status = "accepted", !.version = @ + 1]
<1>1. /\ i \in Invitation /\ Team!Pending(i) /\ UNCHANGED today
      /\ invitation' = [invitation EXCEPT ![i].status = "accepted", ![i].version = @ + 1]
      /\ request' = [request EXCEPT ![c] = Nothing]
  BY DEF Team!Accept, Team!At, Team!Return, TeamSound, TeamTypes, TeamCall, AcceptKnows
<1>2. invitation[i] \in Team!InvitationRow /\ row \in Team!InvitationRow /\ row # Nothing
  <2>1. invitation[i] \in Team!InvitationRow
    BY <1>1 DEF TeamSound, TeamTypes, Team!Pending
  <2>2. invitation[i].version + 1 \in Nat
    BY <2>1 DEF Team!InvitationRow
  <2>3. row \in Team!InvitationRow
    BY <2>1, <2>2 DEF Team!InvitationRow
  <2>4. QED
    BY <2>1, <2>3 DEF TeamConstants
<1>3. /\ invitation'[i] = row /\ \A j \in Invitation \ {i} : invitation'[j] = invitation[j]
      /\ invitation' \in [Invitation -> Team!InvitationRow \cup {Nothing}]
  BY <1>1, <1>2 DEF TeamSound, TeamTypes
<1>4. /\ row.status = "accepted" /\ row.email = u /\ row.role = invitation[i].role
      /\ row.version > invitation[i].version /\ u \in User /\ row.role \in Role
  BY <1>2 DEF Team!InvitationRow
<1> HIDE DEF row
<1>5. request'[c] = Nothing /\ \A d \in Request \ {c} : request'[d] = request[d]
  BY <1>1 DEF TeamSound, TeamTypes
<1>6. membership' \in [User -> Team!Membership]
  <2>1. [status |-> "active", roles |-> membership[u].roles \cup {invitation[i].role},
         version |-> membership[u].version + 1] \in Team!Membership
    BY <1>4 DEF TeamSound, TeamTypes, Team!Membership
  <2>2. QED
    BY <2>1 DEF Team!Accept, TeamSound, TeamTypes
<1>7. TeamTypes'
  BY <1>1, <1>3, <1>6 DEF TeamSound, TeamTypes
<1>8. Team!RolesAreInvited'
  <2>1. SUFFICES ASSUME NEW v \in User, NEW role \in membership'[v].roles
                 PROVE  /\ membership'[v].status = "active"
                        /\ \/ v = Founder /\ role = Owner
                           \/ \E j \in Invitation :
                                /\ invitation'[j] # Nothing /\ invitation'[j].status = "accepted"
                                /\ invitation'[j].email = v /\ invitation'[j].role = role
    BY DEF Team!RolesAreInvited, Team!Active
  <2>2. \/ membership'[v] = membership[v]
        \/ /\ v = u /\ membership'[v].status = "active"
           /\ membership'[v].roles = membership[v].roles \cup {invitation[i].role}
    BY <1>4 DEF Team!Accept, TeamSound, TeamTypes
  <2>3. CASE role \in membership[v].roles
    <3>1. /\ membership[v].status = "active"
          /\ \/ v = Founder /\ role = Owner
             \/ \E j \in Invitation :
                  /\ invitation[j] # Nothing /\ invitation[j].status = "accepted"
                  /\ invitation[j].email = v /\ invitation[j].role = role
      BY <2>3 DEF TeamSound, Team!RolesAreInvited, Team!Active
    <3>2. \A j \in Invitation : invitation[j].status = "accepted" => invitation'[j] = invitation[j]
      BY <1>1, <1>3 DEF Team!Pending
    <3>3. QED
      BY <2>2, <3>1, <3>2
  <2>4. CASE role \notin membership[v].roles
    <3>1. v = u /\ role = invitation[i].role /\ membership'[v].status = "active"
      BY <2>2, <2>4
    <3>2. QED
      BY <1>1, <1>2, <1>3, <1>4, <3>1
  <2>5. QED
    BY <2>3, <2>4
<1>9. ASSUME NEW d \in Request
      PROVE  SaveKnows(d)' /\ AcceptKnows(d)'
  <2>1. CASE d = c
    BY <1>5, <2>1 DEF SaveKnows, AcceptKnows, Team!At
  <2>2. CASE d # c
    <3>1. SaveKnows(d)'
      BY <1>2, <1>3, <1>4, <1>5, <2>2, SavesKept DEF TeamSound, InvitationMoved
    <3>2. Team!At(d, "accept") => request[d].id \in Invitation /\ request[d].id # i
      BY <2>2 DEF Team!Accept, TeamSound, TeamTypes, TeamCall, Team!At, AcceptKnows
    <3>3. AcceptKnows(d)'
      BY <1>3, <1>5, <2>2, <3>2 DEF TeamSound, AcceptKnows, Team!At, Team!Pending
    <3>4. QED
      BY <3>1, <3>3
  <2>3. QED
    BY <2>1, <2>2
<1>10. QED
  BY <1>7, <1>8, <1>9 DEF TeamSound

LEMMA RevokeKeepsTeam ==
  ASSUME TeamConstants, TeamSound, NEW c \in Request, Team!Revoke(c)
  PROVE  TeamSound'
<1> DEFINE u == request[c].member
           row == [status |-> "revoked", roles |-> {}, version |-> membership[u].version + 1]
<1>1. /\ UNCHANGED <<today, invitation>> /\ request' = [request EXCEPT ![c] = Nothing]
      /\ u \in User
  BY DEF Team!Revoke, Team!At, Team!Return, TeamSound, TeamTypes, TeamCall
<1>2. row \in Team!Membership
  BY <1>1 DEF TeamSound, TeamTypes, Team!Membership
<1>3. \/ membership' = membership
      \/ membership' = [membership EXCEPT ![u] = row]
  BY DEF Team!Revoke
<1>4. membership' \in [User -> Team!Membership]
  BY <1>2, <1>3 DEF TeamSound, TeamTypes
<1>5. Team!RolesAreInvited'
  <2>1. \A v \in User : membership'[v] = membership[v] \/ membership'[v].roles = {}
    BY <1>3 DEF TeamSound, TeamTypes
  <2>2. QED
    BY <1>1, <2>1 DEF TeamSound, Team!RolesAreInvited, Team!Active
<1>6. request'[c] = Nothing
  BY <1>1 DEF TeamSound, TeamTypes
<1>7. SaveKnows(c)' /\ AcceptKnows(c)' /\ ~Team!At(c, "accept")'
  BY <1>6 DEF SaveKnows, AcceptKnows, Team!At
<1>8. QED
  BY <1>1, <1>4, <1>5, <1>7, CallsKeepTeam

-----------------------------------------------------------------------------
(* Writes of invitations alone: every call keeps what it knows.             *)
LEMMA WritesKeepTeam ==
  ASSUME TeamConstants, TeamSound, UNCHANGED membership, today' \in 0..MaxToday,
         invitation' \in [Invitation -> Team!InvitationRow \cup {Nothing}],
         request' \in [Request -> TeamCall \cup {Nothing}],
         \A c \in Request : request'[c] = request[c] \/ request'[c] = Nothing,
         \A i \in Invitation : InvitationMoved(i) /\ (StandsAccepted(i) => invitation'[i] = invitation[i])
  PROVE  TeamSound'
<1>1. TeamTypes'
  BY DEF TeamSound, TeamTypes
<1>2. Team!RolesAreInvited'
  BY RolesStand DEF TeamSound
<1>3. ASSUME NEW d \in Request
      PROVE  SaveKnows(d)' /\ AcceptKnows(d)'
  <2>1. CASE request'[d] = Nothing
    BY <2>1 DEF SaveKnows, AcceptKnows, Team!At
  <2>2. CASE request'[d] = request[d]
    <3>1. SaveKnows(d)'
      BY <2>2, SavesKept DEF TeamSound
    <3>2. \A e \in Request \ {d} : Team!At(e, "accept")' =>
            Team!At(e, "accept") /\ request'[e].id = request[e].id
      BY DEF Team!At
    <3>3. AcceptKnows(d)'
      BY <2>2, <3>2, AcceptsKept DEF TeamSound
    <3>4. QED
      BY <3>1, <3>3
  <2>3. QED
    BY <2>1, <2>2
<1>4. QED
  BY <1>1, <1>2, <1>3 DEF TeamSound

LEMMA CreateKeepsTeam ==
  ASSUME TeamConstants, TeamSound, NEW i \in Invitation, Team!Create(i)
  PROVE  TeamSound'
<1>1. PICK email \in User, role \in Role, expires_at \in (today + 1)..(MaxToday + 1) :
        invitation' = [invitation EXCEPT ![i] = Team!NewInvitation(email, role, expires_at)]
  BY DEF Team!Create
<1>2. expires_at \in Team!Day
  <2>1. today \in Nat /\ MaxToday \in Nat
    BY DEF TeamSound, TeamTypes, TeamConstants
  <2>2. QED
    BY <1>1, <2>1 DEF Team!Day
<1>3. Team!NewInvitation(email, role, expires_at) \in Team!InvitationRow
  BY <1>2 DEF Team!NewInvitation, Team!InvitationRow, TeamConstants
<1>4. invitation' \in [Invitation -> Team!InvitationRow \cup {Nothing}]
  BY <1>1, <1>3 DEF TeamSound, TeamTypes
<1>5. \A j \in Invitation : InvitationMoved(j) /\ (StandsAccepted(j) => invitation'[j] = invitation[j])
  BY <1>1 DEF Team!Create, InvitationMoved, StandsAccepted, TeamSound, TeamTypes
<1>6. QED
  BY <1>4, <1>5, WritesKeepTeam DEF Team!Create, TeamSound, TeamTypes

LEMMA SaveInvitationKeepsTeam ==
  ASSUME TeamConstants, TeamSound, NEW c \in Request, Team!SaveInvitation(c)
  PROVE  TeamSound'
<1> DEFINE i == request[c].id
           row == [request[c].row EXCEPT !.version = @ + 1]
<1>1. /\ i \in Invitation /\ i \notin Team!Locked
      /\ request[c].row \in Team!InvitationRow
      /\ request' = [request EXCEPT ![c] = Nothing] /\ UNCHANGED <<today, membership>>
      /\ Team!At(c, "save")
  BY DEF Team!SaveInvitation, Team!At, Team!Return, TeamSound, TeamTypes, TeamCall
<1>2. row \in Team!InvitationRow /\ row # Nothing
  BY <1>1 DEF Team!InvitationRow, TeamConstants
<1>3. /\ request' \in [Request -> TeamCall \cup {Nothing}]
      /\ \A d \in Request : request'[d] = request[d] \/ request'[d] = Nothing
  BY <1>1 DEF TeamSound, TeamTypes
<1>4. ASSUME NEW j \in Invitation
      PROVE  InvitationMoved(j) /\ (StandsAccepted(j) => invitation'[j] = invitation[j])
  <2>1. CASE invitation'[j] = invitation[j]
    BY <2>1 DEF InvitationMoved
  <2>2. CASE invitation'[j] # invitation[j]
    <3>1. Team!Current(c) /\ j = i /\ invitation'[j] = row
      BY <1>1, <2>2 DEF Team!SaveInvitation, TeamSound, TeamTypes
    <3>2. invitation[i] # Nothing /\ ~StandsAccepted(i)
      BY <1>1, <3>1 DEF TeamSound, SaveKnows, Team!Current
    <3>3. /\ row.version = request[c].version + 1 /\ request[c].version \in Nat
          /\ invitation[i].version = request[c].version
      BY <1>1, <3>1 DEF TeamSound, SaveKnows, Team!Current, Team!InvitationRow
    <3>4. row.version > invitation[i].version
      BY <3>3
    <3> HIDE DEF row
    <3>5. QED
      BY <1>1, <1>2, <3>1, <3>2, <3>4 DEF InvitationMoved
  <2>3. QED
    BY <2>1, <2>2
<1>5. invitation' \in [Invitation -> Team!InvitationRow \cup {Nothing}]
  BY <1>1, <1>2 DEF Team!SaveInvitation, TeamSound, TeamTypes
<1>6. QED
  BY <1>1, <1>3, <1>4, <1>5, WritesKeepTeam DEF TeamSound, TeamTypes

LEMMA ExpiryKeepsTeam ==
  ASSUME TeamConstants, TeamSound, Team!expire_past_due
  PROVE  TeamSound'
<1>1. invitation' = [i \in Invitation |->
         IF Team!Overdue(i) THEN [invitation[i] EXCEPT !.status = "expired"] ELSE invitation[i]]
  BY DEF Team!expire_past_due
<1>2. ASSUME NEW i \in Invitation, Team!Overdue(i)
      PROVE  /\ InvitationMoved(i) /\ ~StandsAccepted(i)
             /\ [invitation[i] EXCEPT !.status = "expired"] \in Team!InvitationRow
  <2>1. invitation[i] \in Team!InvitationRow
    BY <1>2 DEF Team!Overdue, Team!Pending, TeamSound, TeamTypes
  <2>2. [invitation[i] EXCEPT !.status = "expired"] \in Team!InvitationRow
    BY <2>1 DEF Team!InvitationRow
  <2>3. QED
    BY <1>1, <1>2, <2>2 DEF Team!expire_past_due, InvitationMoved, Team!Overdue, Team!Pending,
       StandsAccepted
<1>3. \A i \in Invitation : InvitationMoved(i) /\ (StandsAccepted(i) => invitation'[i] = invitation[i])
  BY <1>1, <1>2 DEF InvitationMoved
<1>4. invitation' \in [Invitation -> Team!InvitationRow \cup {Nothing}]
  BY <1>1, <1>2 DEF TeamSound, TeamTypes
<1>5. QED
  BY <1>3, <1>4, WritesKeepTeam DEF Team!expire_past_due, TeamSound, TeamTypes

LEMMA TeamStep ==
  ASSUME TeamConstants, TeamSound, [Team!Next]_teamVars
  PROVE  TeamSound'
<1>1. CASE Team!Tick
  <2>1. today' \in 0..MaxToday
    BY <1>1 DEF Team!Tick, TeamConstants, TeamSound, TeamTypes
  <2>2. QED
    BY <1>1, <2>1, WritesKeepTeam DEF Team!Tick, InvitationMoved, TeamSound, TeamTypes
<1>2. CASE UNCHANGED teamVars
  BY <1>2, WritesKeepTeam DEF teamVars, InvitationMoved, TeamSound, TeamTypes
<1>3. CASE Team!expire_past_due
  BY <1>3, ExpiryKeepsTeam
<1>4. CASE \E i \in Invitation : Team!Create(i)
  BY <1>4, CreateKeepsTeam
<1>5. ASSUME NEW c \in Request,
             \/ Team!ReadForResend(c) \/ Team!ReadForRevoke(c) \/ Team!SaveInvitation(c)
             \/ Team!LookUpToken(c) \/ Team!LockInvitation(c) \/ Team!Accept(c)
             \/ Team!ReadMember(c) \/ Team!Revoke(c)
      PROVE  TeamSound'
  BY <1>5, ReadsKeepTeam, SaveInvitationKeepsTeam, LockKeepsTeam, AcceptKeepsTeam,
     RevokeKeepsTeam
<1>6. QED
  BY <1>1, <1>2, <1>3, <1>4, <1>5 DEF Team!Next

LEMMA TeamInit ==
  ASSUME TeamConstants, Team!Init
  PROVE  TeamSound
<1>1. TeamTypes
  <2>1. /\ [status |-> "active", roles |-> {Owner}, version |-> 0] \in Team!Membership
        /\ [status |-> "none", roles |-> {}, version |-> 0] \in Team!Membership
    BY DEF TeamConstants, Team!Membership
  <2>2. QED
    BY <2>1 DEF Team!Init, TeamTypes, TeamConstants
<1>2. Team!RolesAreInvited
  BY DEF Team!Init, Team!RolesAreInvited, Team!Active
<1>3. QED
  BY <1>1, <1>2 DEF TeamSound, Team!Init, SaveKnows, AcceptKnows, Team!At

(* The invariant gives what the run checks of the team.                     *)
LEMMA TeamShow ==
  ASSUME TeamConstants, TeamSound
  PROVE  Team!TypeOK /\ Team!RolesAreInvited
BY DEF TeamSound, TeamTypes, TeamCall, Team!TypeOK

-----------------------------------------------------------------------------
(* Prices (apps/pricing).                                                   *)

(* The sums of the prices, as sums of functions.                            *)

OverrideSum(S, base) == Prices!Sum(S, LAMBDA o : Prices!override_adjustment(o, base))
ModifierSum(S, base) == Prices!Sum(S, LAMBDA m : Prices!percentage_of(base, m.pct))
NightSum(S, r) == Prices!Sum(S, LAMBDA night : Prices!night_total(r, night))

(* A night of the reference: every override that covers it, every modifier  *)
(* that matches it.                                                         *)
EveryNight(r, n) ==
  r.base + OverrideSum({o \in r.overrides : Prices!covers(o, n)}, r.base)
    + ModifierSum({m \in r.modifiers : Prices!calendar_matches(m, n)}, r.base)

EveryNightSum(S, r) == Prices!Sum(S, LAMBDA n : EveryNight(r, n))

LEMMA OverridesSummed ==
  ASSUME NEW S, NEW base, NEW v, \A x \in S : v[x] = Prices!override_adjustment(x, base)
  PROVE  OverrideSum(S, base) = SumOf(v, S)
<1>1. \A T \in SUBSET S : T # {} => (CHOOSE x \in T : TRUE) \in S
  OBVIOUS
<1>2. ASSUME NEW iter
      PROVE  (iter = [T \in SUBSET S |-> IF T = {} THEN 0
                        ELSE LET x == CHOOSE x \in T : TRUE
                             IN  Prices!override_adjustment(x, base) + iter[T \ {x}]])
             <=> (iter = [T \in SUBSET S |-> IF T = {} THEN 0
                            ELSE LET x == CHOOSE x \in T : TRUE IN v[x] + iter[T \ {x}]])
  BY <1>1
<1>3. (CHOOSE iter : iter = [T \in SUBSET S |-> IF T = {} THEN 0
                       ELSE LET x == CHOOSE x \in T : TRUE
                            IN  Prices!override_adjustment(x, base) + iter[T \ {x}]])
        = (CHOOSE iter : iter = [T \in SUBSET S |-> IF T = {} THEN 0
                           ELSE LET x == CHOOSE x \in T : TRUE IN v[x] + iter[T \ {x}]])
  BY <1>2, Zenon
<1>4. QED
  BY <1>3 DEF OverrideSum, SumOf, Prices!Sum, Prices!MapThenSumSet, Prices!MapThenFoldSet

LEMMA ModifiersSummed ==
  ASSUME NEW S, NEW base, NEW v, \A x \in S : v[x] = Prices!percentage_of(base, x.pct)
  PROVE  ModifierSum(S, base) = SumOf(v, S)
<1>1. \A T \in SUBSET S : T # {} => (CHOOSE x \in T : TRUE) \in S
  OBVIOUS
<1>2. ASSUME NEW iter
      PROVE  (iter = [T \in SUBSET S |-> IF T = {} THEN 0
                        ELSE LET x == CHOOSE x \in T : TRUE
                             IN  Prices!percentage_of(base, x.pct) + iter[T \ {x}]])
             <=> (iter = [T \in SUBSET S |-> IF T = {} THEN 0
                            ELSE LET x == CHOOSE x \in T : TRUE IN v[x] + iter[T \ {x}]])
  BY <1>1
<1>3. (CHOOSE iter : iter = [T \in SUBSET S |-> IF T = {} THEN 0
                       ELSE LET x == CHOOSE x \in T : TRUE
                            IN  Prices!percentage_of(base, x.pct) + iter[T \ {x}]])
        = (CHOOSE iter : iter = [T \in SUBSET S |-> IF T = {} THEN 0
                           ELSE LET x == CHOOSE x \in T : TRUE IN v[x] + iter[T \ {x}]])
  BY <1>2, Zenon
<1>4. QED
  BY <1>3 DEF ModifierSum, SumOf, Prices!Sum, Prices!MapThenSumSet, Prices!MapThenFoldSet

LEMMA NightsSummed ==
  ASSUME NEW S, NEW r, NEW v, \A x \in S : v[x] = Prices!night_total(r, x)
  PROVE  NightSum(S, r) = SumOf(v, S)
<1>1. \A T \in SUBSET S : T # {} => (CHOOSE x \in T : TRUE) \in S
  OBVIOUS
<1>2. ASSUME NEW iter
      PROVE  (iter = [T \in SUBSET S |-> IF T = {} THEN 0
                        ELSE LET x == CHOOSE x \in T : TRUE
                             IN  Prices!night_total(r, x) + iter[T \ {x}]])
             <=> (iter = [T \in SUBSET S |-> IF T = {} THEN 0
                            ELSE LET x == CHOOSE x \in T : TRUE IN v[x] + iter[T \ {x}]])
  BY <1>1
<1>3. (CHOOSE iter : iter = [T \in SUBSET S |-> IF T = {} THEN 0
                       ELSE LET x == CHOOSE x \in T : TRUE
                            IN  Prices!night_total(r, x) + iter[T \ {x}]])
        = (CHOOSE iter : iter = [T \in SUBSET S |-> IF T = {} THEN 0
                           ELSE LET x == CHOOSE x \in T : TRUE IN v[x] + iter[T \ {x}]])
  BY <1>2, Zenon
<1>4. QED
  BY <1>3 DEF NightSum, SumOf, Prices!Sum, Prices!MapThenSumSet, Prices!MapThenFoldSet

LEMMA EveryNightSummed ==
  ASSUME NEW S, NEW r, NEW v, \A x \in S : v[x] = EveryNight(r, x)
  PROVE  EveryNightSum(S, r) = SumOf(v, S)
<1>1. \A T \in SUBSET S : T # {} => (CHOOSE x \in T : TRUE) \in S
  OBVIOUS
<1>2. ASSUME NEW iter
      PROVE  (iter = [T \in SUBSET S |-> IF T = {} THEN 0
                        ELSE LET x == CHOOSE x \in T : TRUE
                             IN  EveryNight(r, x) + iter[T \ {x}]])
             <=> (iter = [T \in SUBSET S |-> IF T = {} THEN 0
                            ELSE LET x == CHOOSE x \in T : TRUE IN v[x] + iter[T \ {x}]])
  BY <1>1
<1>3. (CHOOSE iter : iter = [T \in SUBSET S |-> IF T = {} THEN 0
                       ELSE LET x == CHOOSE x \in T : TRUE
                            IN  EveryNight(r, x) + iter[T \ {x}]])
        = (CHOOSE iter : iter = [T \in SUBSET S |-> IF T = {} THEN 0
                           ELSE LET x == CHOOSE x \in T : TRUE IN v[x] + iter[T \ {x}]])
  BY <1>2, Zenon
<1>4. QED
  BY <1>3 DEF EveryNightSum, SumOf, Prices!Sum, Prices!MapThenSumSet, Prices!MapThenFoldSet

-----------------------------------------------------------------------------
(* Prices (apps/pricing).                                                   *)

PriceTyped ==
  /\ plan \in PlanRow
  /\ overrides \subseteq Prices!Override /\ modifiers \subseteq Prices!Modifier
  /\ editing \in [Staff -> PriceEdit \cup {Nothing}]
  /\ quote \in [Quoter -> PriceQuote \cup {Nothing}]

(* One override at most covers a night.                                     *)
Apart(chosen) == \A a, b \in chosen : Prices!overlap(a, b) => a = b

Adds(a) ==
  LET r == a.read
      every_night == EveryNightSum(Prices!Nights(r.stay), r)
  IN
  /\ a.subtotal = every_night
       + ModifierSum({m \in r.modifiers : Prices!segment_matches(m, r.stay)}, every_night)
  /\ a.total >= 0
  /\ a.floor # Nothing => a.total >= a.floor
  /\ (a.ceiling # Nothing /\ a.total > a.ceiling) => a.total = a.floor
  /\ a.total # a.subtotal => a.total \in {a.floor, a.ceiling}

QuoteKnows(q) ==
  /\ Prices!Reading(q, "modifiers") => Apart(quote[q].overrides)
  /\ Prices!Reading(q, "answered") => Adds(quote[q])

PriceSound ==
  /\ PriceTyped
  /\ Apart(overrides) /\ IsFiniteSet(modifiers)
  /\ \A q \in Quoter : QuoteKnows(q)

-----------------------------------------------------------------------------
(* What a price is made of.                                                 *)

LEMMA PercentageIsInt ==
  ASSUME NEW amount \in Int, NEW pct \in Int
  PROVE  Prices!percentage_of(amount, pct) \in Int
<1>1. PICK n \in Int : n = amount * pct
  OBVIOUS
<1>2. (Prices!Abs(n) + 50) \div 100 \in Int
  BY DEF Prices!Abs
<1>3. QED
  BY <1>1, <1>2 DEF Prices!percentage_of

LEMMA AdjustmentIsInt ==
  ASSUME PriceConstants, NEW o \in Prices!Override, NEW base \in Int
  PROVE  Prices!override_adjustment(o, base) \in Int
<1>1. o.adjustment \in Prices!Adjustment
  BY DEF Prices!Override
<1>2. o.adjustment.value \in Int
  BY <1>1 DEF PriceConstants, Prices!Adjustment
<1>3. QED
  BY <1>2, PercentageIsInt DEF Prices!override_adjustment

LEMMA ModifierHasPercent ==
  ASSUME PriceConstants, NEW m \in Prices!Modifier
  PROVE  m.pct \in Int
BY DEF PriceConstants, Prices!Modifier

LEMMA ModifiersAddUp ==
  ASSUME PriceConstants, NEW S \in SUBSET Prices!Modifier, IsFiniteSet(S), NEW base \in Int
  PROVE  ModifierSum(S, base) \in Int
<1> DEFINE v == [m \in S |-> Prices!percentage_of(base, m.pct)]
<1>1. v \in [S -> Int] /\ \A m \in S : v[m] = Prices!percentage_of(base, m.pct)
  BY ModifierHasPercent, PercentageIsInt
<1> HIDE DEF v
<1>2. QED
  BY <1>1, ModifiersSummed, SumIsInt

(* The override that the code takes is all there is to add.                 *)
LEMMA OverrideAddsUp ==
  ASSUME PriceConstants, NEW chosen \in SUBSET Prices!Override, Apart(chosen), NEW night \in Prices!Date,
         NEW base \in Int
  PROVE  /\ Prices!override_amount(chosen, night, base) =
              OverrideSum({o \in chosen : Prices!covers(o, night)}, base)
         /\ Prices!override_amount(chosen, night, base) \in Int
<1> DEFINE covering == {o \in chosen : Prices!covers(o, night)}
           v == [o \in covering |-> Prices!override_adjustment(o, base)]
<1>1. v \in [covering -> Int] /\ \A o \in covering : v[o] = Prices!override_adjustment(o, base)
  BY AdjustmentIsInt
<1>2. \A o, p \in covering : o = p
  BY DEF Apart, Prices!covers, Prices!overlap, Prices!Override, Prices!Date, PriceConstants
<1>3. OverrideSum(covering, base) = SumOf(v, covering)
  BY <1>1, OverridesSummed
<1>4. CASE covering = {}
  BY <1>3, <1>4, SumOfFew DEF Prices!override_amount
<1>5. CASE covering # {}
  <2>1. PICK o \in covering : covering = {o}
    BY <1>2, <1>5
  <2>2. v[o] = Prices!override_adjustment(o, base) /\ v[o] \in Int
    BY <1>1, <2>1
  <2>3. SumOf(v, covering) = Prices!override_adjustment(o, base)
    BY <2>1, <2>2, SumOfFew
  <2>4. (CHOOSE x \in covering : \A p \in covering : x.start_date <= p.start_date) = o
    <3>1. o.start_date <= o.start_date
      BY DEF Prices!Override, Prices!Date, PriceConstants
    <3>2. QED
      BY <2>1, <3>1
  <2>5. Prices!override_amount(chosen, night, base) = Prices!override_adjustment(o, base)
    BY <1>5, <2>4 DEF Prices!override_amount
  <2>6. QED
    BY <1>3, <2>2, <2>3, <2>5
<1>6. QED
  BY <1>4, <1>5

(* A night of the code and one of the reference.                            *)
LEMMA NightAddsUp ==
  ASSUME PriceConstants, NEW r \in QuoteRead, Apart(r.overrides), IsFiniteSet(r.modifiers),
         NEW night \in Prices!Date
  PROVE  /\ Prices!night_total(r, night) = EveryNight(r, night)
         /\ Prices!night_total(r, night) \in Int
<1>1. PICK base \in Int, chosen \in SUBSET Prices!Override, mods \in SUBSET Prices!Modifier :
        base = r.base /\ chosen = r.overrides /\ mods = r.modifiers
  BY DEF QuoteRead, PriceConstants
<1>2. PICK matching \in SUBSET Prices!Modifier :
        matching = {m \in r.modifiers : Prices!calendar_matches(m, night)}
  BY <1>1
<1>3. IsFiniteSet(matching)
  BY <1>2, FS_Subset
<1>4. ModifierSum(matching, base) \in Int
  BY <1>3, ModifiersAddUp
<1>5. /\ Prices!override_amount(r.overrides, night, r.base) =
           OverrideSum({o \in r.overrides : Prices!covers(o, night)}, r.base)
      /\ Prices!override_amount(r.overrides, night, r.base) \in Int
  BY <1>1, OverrideAddsUp
<1>6. Prices!night_total(r, night) =
        r.base + Prices!override_amount(r.overrides, night, r.base)
          + ModifierSum({m \in r.modifiers : Prices!calendar_matches(m, night)}, r.base)
  BY DEF Prices!night_total, ModifierSum
<1>7. QED
  BY <1>1, <1>2, <1>4, <1>5, <1>6 DEF EveryNight

LEMMA NightsAddUp ==
  ASSUME PriceConstants, NEW r \in QuoteRead, Apart(r.overrides), IsFiniteSet(r.modifiers),
         NEW S \in SUBSET Prices!Date, IsFiniteSet(S)
  PROVE  NightSum(S, r) = EveryNightSum(S, r) /\ NightSum(S, r) \in Int
<1> DEFINE v == [n \in S |-> Prices!night_total(r, n)]
<1>1. v \in [S -> Int]
  BY NightAddsUp
<1>2. \A n \in S : v[n] = Prices!night_total(r, n) /\ v[n] = EveryNight(r, n)
  BY NightAddsUp
<1> HIDE DEF v
<1>3. QED
  BY <1>1, <1>2, NightsSummed, EveryNightSummed, SumIsInt

LEMMA SubtotalAddsUp ==
  ASSUME PriceConstants, NEW r \in QuoteRead, Apart(r.overrides), IsFiniteSet(r.modifiers)
  PROVE  LET every_night == EveryNightSum(Prices!Nights(r.stay), r)
         IN  /\ Prices!subtotal(r) = every_night
                  + ModifierSum({m \in r.modifiers : Prices!segment_matches(m, r.stay)}, every_night)
             /\ Prices!subtotal(r) \in Int
<1>1. PICK nights_total \in Int : /\ nights_total = EveryNightSum(Prices!Nights(r.stay), r)
                                  /\ nights_total = NightSum(Prices!Nights(r.stay), r)
  <2>1. PICK arrival \in Prices!Date, count \in 1..(MaxDate + 1) :
          /\ Prices!Nights(r.stay) = arrival..(arrival + count - 1)
          /\ arrival + count - 1 <= MaxDate
    BY DEF Prices!Nights, QuoteRead, QuotedStay
  <2>2. /\ Prices!Nights(r.stay) \subseteq Prices!Date
        /\ arrival \in Int /\ arrival + count - 1 \in Int
    BY <2>1 DEF Prices!Date, PriceConstants
  <2>3. IsFiniteSet(Prices!Nights(r.stay))
    BY <2>1, <2>2, FS_Interval
  <2>4. QED
    BY <2>2, <2>3, NightsAddUp
<1>2. PICK matching \in SUBSET Prices!Modifier :
        matching = {m \in r.modifiers : Prices!segment_matches(m, r.stay)}
  BY DEF QuoteRead
<1>3. IsFiniteSet(matching)
  BY <1>2, FS_Subset
<1>4. ModifierSum(matching, nights_total) \in Int
  BY <1>3, ModifiersAddUp
<1>5. Prices!nightly_subtotal(r) = nights_total
  BY <1>1 DEF Prices!nightly_subtotal, NightSum
<1>6. Prices!subtotal(r) = Prices!nightly_subtotal(r) + ModifierSum(matching, Prices!nightly_subtotal(r))
  BY <1>2 DEF Prices!subtotal, ModifierSum
<1>7. QED
  BY <1>1, <1>2, <1>4, <1>5, <1>6

(* The bounds of a total.                                                   *)
LEMMA ClampBounds ==
  ASSUME PriceConstants, NEW amount \in Int, NEW floor \in Bound \cup {Nothing},
         NEW ceiling \in Bound \cup {Nothing}
  PROVE  LET total == Prices!clamp(amount, floor, ceiling)
         IN  /\ total \in Int
             /\ floor # Nothing => total >= floor
             /\ (ceiling # Nothing /\ total > ceiling) => total = floor
             /\ total # amount => total \in {floor, ceiling}
BY DEF Prices!clamp, PriceConstants

-----------------------------------------------------------------------------
(* What a step keeps.                                                       *)

(* The plan and its editors.                                                *)
LEMMA PlanKeepsPrices ==
  ASSUME PriceConstants, PriceSound, NEW s \in Staff, Prices!ReadPlan(s) \/ Prices!SavePlan(s)
  PROVE  PriceSound'
<1>1. UNCHANGED <<overrides, modifiers, quote>>
  BY DEF Prices!ReadPlan, Prices!SavePlan
<1>2. CASE Prices!ReadPlan(s)
  <2>1. plan \in PlanRow /\ plan.version < MaxPlanSaves /\ UNCHANGED plan
    BY <1>2 DEF Prices!ReadPlan, PriceSound, PriceTyped, PlanRow
  <2>2. PICK status \in {"active", "retired"} :
          editing' = [editing EXCEPT ![s] = [op |-> "status", row |-> [plan EXCEPT !.status = status]]]
    BY <1>2 DEF Prices!ReadPlan
  <2>3. PICK row \in PlanRow : row = [plan EXCEPT !.status = status] /\ row.version < MaxPlanSaves
    <3>1. \A read \in PlanRow : /\ [read EXCEPT !.status = status] \in PlanRow
                                /\ [read EXCEPT !.status = status].version = read.version
      BY DEF PlanRow
    <3>2. QED
      BY <2>1, <3>1
  <2>4. [op |-> "status", row |-> row] \in PriceEdit
    BY <2>3 DEF PriceEdit
  <2>5. editing' \in [Staff -> PriceEdit \cup {Nothing}]
    BY <2>2, <2>3, <2>4 DEF PriceSound, PriceTyped
  <2>6. QED
    BY <1>1, <2>1, <2>5 DEF PriceSound, PriceTyped, QuoteKnows, Prices!Reading
<1>3. CASE Prices!SavePlan(s)
  <2>1. editing' \in [Staff -> PriceEdit \cup {Nothing}]
    BY <1>3 DEF Prices!SavePlan, PriceSound, PriceTyped
  <2>2. PICK row \in PlanRow : row = editing[s].row /\ row.version < MaxPlanSaves
    BY <1>3 DEF Prices!SavePlan, PriceSound, PriceTyped, PriceEdit
  <2>3. row.version + 1 \in 0..MaxPlanSaves
    BY <2>2 DEF PlanRow, PriceConstants
  <2>4. [row EXCEPT !.version = row.version + 1] \in PlanRow
    BY <2>3 DEF PlanRow
  <2>5. plan' = [row EXCEPT !.version = row.version + 1] \/ plan' = plan
    BY <1>3, <2>2 DEF Prices!SavePlan
  <2>6. plan' \in PlanRow
    BY <2>4, <2>5 DEF PriceSound, PriceTyped
  <2>7. QED
    BY <1>1, <2>1, <2>6 DEF PriceSound, PriceTyped, QuoteKnows, Prices!Reading
<1>4. QED
  BY <1>2, <1>3

(* The overrides and the modifiers.                                         *)
LEMMA RowsKeepPrices ==
  ASSUME PriceConstants, PriceSound,
         \/ \E s \in Staff : Prices!CheckOverride(s) \/ Prices!InsertOverride(s)
         \/ Prices!AddModifier
  PROVE  PriceSound'
<1>1. UNCHANGED <<plan, quote>>
  BY DEF Prices!CheckOverride, Prices!InsertOverride, Prices!AddModifier
<1>2. \A q \in Quoter : QuoteKnows(q)'
  BY <1>1 DEF PriceSound, QuoteKnows, Prices!Reading
<1>3. ASSUME NEW s \in Staff, Prices!CheckOverride(s)
      PROVE  PriceSound'
  <2>1. PICK o \in Prices!Override :
          editing' = [editing EXCEPT ![s] = [op |-> "override", row |-> o]]
    BY <1>3 DEF Prices!CheckOverride
  <2>2. [op |-> "override", row |-> o] \in PriceEdit
    BY DEF PriceEdit
  <2>3. editing' \in [Staff -> PriceEdit \cup {Nothing}]
    BY <2>1, <2>2 DEF PriceSound, PriceTyped
  <2>4. UNCHANGED <<overrides, modifiers>>
    BY <1>3 DEF Prices!CheckOverride
  <2>5. QED
    BY <1>1, <1>2, <2>3, <2>4 DEF PriceSound, PriceTyped
<1>4. ASSUME NEW s \in Staff, Prices!InsertOverride(s)
      PROVE  PriceSound'
  <2>1. PICK o \in Prices!Override : o = editing[s].row
    BY <1>4 DEF Prices!InsertOverride, PriceSound, PriceTyped, PriceEdit
  <2>2. overrides' = overrides \/ (overrides' = overrides \cup {o} /\ ~Prices!Excluded(o))
    BY <1>4, <2>1 DEF Prices!InsertOverride
  <2>3. overrides' \subseteq Prices!Override
    BY <2>2 DEF PriceSound, PriceTyped
  <2>4. Apart(overrides)'
    BY <2>2 DEF PriceSound, Apart, Prices!Excluded, Prices!overlap
  <2>5. editing' \in [Staff -> PriceEdit \cup {Nothing}] /\ modifiers' = modifiers
    BY <1>4 DEF Prices!InsertOverride, PriceSound, PriceTyped
  <2>6. QED
    BY <1>1, <1>2, <2>3, <2>4, <2>5 DEF PriceSound, PriceTyped
<1>5. ASSUME Prices!AddModifier
      PROVE  PriceSound'
  <2>1. PICK m \in Prices!Modifier : modifiers' = modifiers \cup {m}
    BY <1>5 DEF Prices!AddModifier
  <2>2. IsFiniteSet(modifiers')
    BY <2>1, FS_AddElement DEF PriceSound
  <2>3. UNCHANGED <<overrides, editing>>
    BY <1>5 DEF Prices!AddModifier
  <2>4. QED
    BY <1>1, <1>2, <2>1, <2>2, <2>3 DEF PriceSound, PriceTyped
<1>6. QED
  BY <1>3, <1>4, <1>5

(* A quote that moves on leaves the others alone.                           *)
LEMMA QuoteMovesPrices ==
  ASSUME PriceConstants, PriceSound, NEW q \in Quoter, NEW next \in PriceQuote \cup {Nothing},
         UNCHANGED <<plan, overrides, modifiers, editing>>,
         quote' = [quote EXCEPT ![q] = next],
         next # Nothing /\ next.step = "modifiers" => Apart(next.overrides),
         next # Nothing /\ next.step = "answered" => Adds(next)
  PROVE  PriceSound'
<1>1. /\ quote' \in [Quoter -> PriceQuote \cup {Nothing}] /\ quote'[q] = next
      /\ \A p \in Quoter \ {q} : quote'[p] = quote[p]
  BY DEF PriceSound, PriceTyped
<1>2. ASSUME NEW p \in Quoter
      PROVE  QuoteKnows(p)'
  <2>1. CASE p = q
    BY <1>1, <2>1 DEF QuoteKnows, Prices!Reading
  <2>2. CASE p # q
    <3>1. QuoteKnows(p) /\ quote'[p] = quote[p]
      BY <1>1, <2>2 DEF PriceSound
    <3>2. QED
      BY <3>1 DEF QuoteKnows, Prices!Reading
  <2>3. QED
    BY <2>1, <2>2
<1>3. QED
  BY <1>1, <1>2 DEF PriceSound, PriceTyped

LEMMA ReadsKeepPrices ==
  ASSUME PriceConstants, PriceSound, NEW q \in Quoter,
         Prices!ReadActivePlan(q) \/ Prices!ReadOverrides(q) \/ Prices!Forget(q)
  PROVE  PriceSound'
<1>1. UNCHANGED <<plan, overrides, modifiers, editing>>
  BY DEF Prices!ReadActivePlan, Prices!ReadOverrides, Prices!Forget
<1>2. CASE Prices!ReadActivePlan(q)
  <2>1. PICK arrival \in Prices!Date, count \in 1..(MaxDate + 1), corporate \in BOOLEAN :
          /\ arrival + count - 1 <= MaxDate
          /\ quote' = [quote EXCEPT ![q] =
               [step |-> "overrides", base |-> plan.base_rate,
                stay |-> [arrival |-> arrival, nights |-> count, corporate |-> corporate]]]
    BY <1>2 DEF Prices!ReadActivePlan
  <2>2. PICK stay \in QuotedStay : stay = [arrival |-> arrival, nights |-> count, corporate |-> corporate]
    BY <2>1 DEF QuotedStay
  <2>3. plan.base_rate \in BaseRate
    BY DEF PriceSound, PriceTyped, PlanRow
  <2> DEFINE next == [step |-> "overrides", base |-> plan.base_rate, stay |-> stay]
  <2>4. next \in PriceQuote /\ next.step = "overrides"
    BY <2>3 DEF PriceQuote
  <2>5. quote' = [quote EXCEPT ![q] = next]
    BY <2>1, <2>2
  <2> HIDE DEF next
  <2>6. QED
    BY <1>1, <2>4, <2>5, QuoteMovesPrices
<1>3. CASE Prices!ReadOverrides(q)
  <2>1. quote[q] \in [step : {"overrides"}, base : BaseRate, stay : QuotedStay]
    BY <1>3 DEF Prices!ReadOverrides, Prices!Reading, PriceSound, PriceTyped, PriceQuote
  <2> DEFINE next == [step |-> "modifiers", base |-> quote[q].base, stay |-> quote[q].stay,
                      overrides |-> overrides]
  <2>2. next \in PriceQuote /\ next.step = "modifiers" /\ next.overrides = overrides
    BY <2>1 DEF PriceQuote, PriceSound, PriceTyped
  <2>3. quote' = [quote EXCEPT ![q] = next]
    BY <1>3 DEF Prices!ReadOverrides
  <2> HIDE DEF next
  <2>4. Apart(next.overrides)
    BY <2>2 DEF PriceSound
  <2>5. QED
    BY <1>1, <2>2, <2>3, <2>4, QuoteMovesPrices
<1>4. CASE Prices!Forget(q)
  BY <1>1, <1>4, QuoteMovesPrices DEF Prices!Forget
<1>5. QED
  BY <1>2, <1>3, <1>4

LEMMA ComputeKeepsPrices ==
  ASSUME PriceConstants, PriceSound, NEW q \in Quoter, Prices!Compute(q)
  PROVE  PriceSound'
<1>1. UNCHANGED <<plan, overrides, modifiers, editing>>
  BY DEF Prices!Compute
<1>2. /\ quote[q] \in [step : {"modifiers"}, base : BaseRate, stay : QuotedStay,
                       overrides : SUBSET Prices!Override]
      /\ Apart(quote[q].overrides)
  BY DEF Prices!Compute, Prices!Reading, PriceSound, PriceTyped, PriceQuote, QuoteKnows
<1>3. PICK r \in QuoteRead :
        /\ r = [base |-> quote[q].base, stay |-> quote[q].stay, overrides |-> quote[q].overrides,
                modifiers |-> modifiers]
        /\ Apart(r.overrides) /\ r.modifiers = modifiers
  <2> DEFINE read == [base |-> quote[q].base, stay |-> quote[q].stay, overrides |-> quote[q].overrides,
                      modifiers |-> modifiers]
  <2>1. read \in QuoteRead /\ read.overrides = quote[q].overrides /\ read.modifiers = modifiers
    BY <1>2 DEF QuoteRead, PriceSound, PriceTyped
  <2> HIDE DEF read
  <2>2. Apart(read.overrides)
    BY <1>2, <2>1
  <2>3. QED
    BY <2>1, <2>2 DEF read
<1>4. PICK subtotal \in Int :
        LET every_night == EveryNightSum(Prices!Nights(r.stay), r)
        IN  /\ subtotal = Prices!subtotal(r)
            /\ subtotal = every_night
                 + ModifierSum({m \in r.modifiers : Prices!segment_matches(m, r.stay)}, every_night)
  BY <1>3, SubtotalAddsUp DEF PriceSound
<1>5. PICK floor \in Bound \cup {Nothing}, ceiling \in Bound \cup {Nothing} :
        quote' = [quote EXCEPT ![q] =
          IF Prices!Invalid(r, Prices!clamp(subtotal, floor, ceiling))
          THEN Nothing
          ELSE [step |-> "answered", read |-> r, floor |-> floor, ceiling |-> ceiling,
                subtotal |-> subtotal, total |-> Prices!clamp(subtotal, floor, ceiling)]]
  BY <1>3, <1>4 DEF Prices!Compute
<1>6. PICK total \in Int :
        /\ total = Prices!clamp(subtotal, floor, ceiling)
        /\ floor # Nothing => total >= floor
        /\ (ceiling # Nothing /\ total > ceiling) => total = floor
        /\ total # subtotal => total \in {floor, ceiling}
  BY ClampBounds
<1>7. CASE Prices!Invalid(r, total)
  BY <1>1, <1>5, <1>6, <1>7, QuoteMovesPrices
<1>8. CASE ~Prices!Invalid(r, total)
  <2> DEFINE next == [step |-> "answered", read |-> r, floor |-> floor, ceiling |-> ceiling,
                      subtotal |-> subtotal, total |-> total]
  <2>1. next \in PriceQuote
    BY DEF PriceQuote
  <2>2. total >= 0
    BY <1>8 DEF Prices!Invalid
  <2>3. /\ next.step = "answered" /\ next.read = r /\ next.floor = floor /\ next.ceiling = ceiling
        /\ next.subtotal = subtotal /\ next.total = total
    OBVIOUS
  <2>4. quote' = [quote EXCEPT ![q] = next]
    BY <1>5, <1>6, <1>8
  <2> HIDE DEF next
  <2>5. Adds(next)
    BY <1>4, <1>6, <2>2, <2>3 DEF Adds
  <2>6. QED
    BY <1>1, <2>1, <2>3, <2>4, <2>5, QuoteMovesPrices
<1>9. QED
  BY <1>7, <1>8

LEMMA PriceStep ==
  ASSUME PriceConstants, PriceSound, [Prices!Next]_priceVars
  PROVE  PriceSound'
<1>1. CASE UNCHANGED priceVars
  BY <1>1 DEF priceVars, PriceSound, PriceTyped, QuoteKnows, Prices!Reading
<1>2. CASE Prices!Next
  BY <1>2, PlanKeepsPrices, RowsKeepPrices, ReadsKeepPrices, ComputeKeepsPrices DEF Prices!Next
<1>3. QED
  BY <1>1, <1>2

LEMMA PriceInit ==
  ASSUME PriceConstants, Prices!Init
  PROVE  PriceSound
<1>1. PriceTyped
  BY DEF Prices!Init, PriceTyped, PlanRow, PriceConstants
<1>2. Apart(overrides) /\ IsFiniteSet(modifiers)
  BY FS_EmptySet DEF Prices!Init, Apart
<1>3. \A q \in Quoter : QuoteKnows(q)
  BY DEF Prices!Init, QuoteKnows, Prices!Reading
<1>4. QED
  BY <1>1, <1>2, <1>3 DEF PriceSound

(* The invariant gives what the run checks of the prices.                   *)
LEMMA PricesShow ==
  ASSUME PriceConstants, PriceSound
  PROVE  Prices!TypeOK /\ Prices!QuotesAddUp
<1>1. Prices!TypeOK
  <2>1. \A s \in Staff : editing[s] # Nothing => editing[s].op \in {"status", "override"}
    BY DEF PriceSound, PriceTyped, PriceEdit
  <2>2. \A q \in Quoter : quote[q] # Nothing =>
          quote[q].step \in {"overrides", "modifiers", "answered"}
    BY DEF PriceSound, PriceTyped, PriceQuote
  <2>3. QED
    BY <2>1, <2>2 DEF PriceSound, PriceTyped, PlanRow, Prices!TypeOK
<1>2. Prices!QuotesAddUp
  <2>1. SUFFICES ASSUME NEW q \in Quoter, Prices!Reading(q, "answered")
                 PROVE  Adds(quote[q])
    BY DEF Prices!QuotesAddUp, Adds, EveryNightSum, EveryNight, OverrideSum, ModifierSum
  <2>2. QED
    BY <2>1 DEF PriceSound, QuoteKnows
<1>3. QED
  BY <1>1, <1>2

-----------------------------------------------------------------------------
(* The account of one of the staff (apps/accounts).                         *)

AccountTyped ==
  /\ account \in Account!UserAccount
  /\ device \in [Device -> {"absent", "pending", "verified", "removed"}]
  /\ owner \in BOOLEAN /\ secured \in BOOLEAN
  /\ login_session \in
       [Browser -> {"none", "challenged", "expired", "password", "password and code"}]
  /\ signing_in \in [Browser -> SignInCall \cup {Nothing}]

(* The account's row has one holder. *)
OneHolder == \A b, c \in Browser : b # c => ~(Account!Holds(b) /\ Account!Holds(c))

(* A removal past the lock leaves an owner who has been secured a device. *)
AnotherStays(b) ==
  secured /\ Account!At(b, "remove") =>
    \E d \in Account!Verified : d # signing_in[b].id

AccountSound ==
  /\ AccountTyped /\ OneHolder
  /\ \A b \in Browser : AnotherStays(b)
  /\ Account!SignInStands

LEMMA SignInCallFacts ==
  ASSUME AccountConstants, AccountTyped, NEW b \in Browser
  PROVE  /\ Account!At(b, "authenticate") => signing_in[b] \in
              [step : {"authenticate"}, elapsed : BOOLEAN, row : Account!UserAccount \cup {Nothing}]
         /\ Account!At(b, "succeed") \/ Account!At(b, "fail") => signing_in[b] \in
              [step : {"succeed", "fail"}, row : Account!UserAccount \cup {Nothing}]
         /\ Account!At(b, "verify") \/ Account!At(b, "lock") => signing_in[b] \in
              [step : {"verify", "lock"}, id : Device, row : {Nothing}]
         /\ Account!At(b, "remove") => signing_in[b] \in
              [step : {"remove"}, id : Device, row : Account!UserAccount]
         /\ Account!Row(b) \in Account!UserAccount
BY DEF AccountTyped, AccountConstants, SignInCall, Account!At, Account!Row, Account!Holds

(* A call of one browser that moves on, without the row or with the one it  *)
(* had or was free to take, and that is not a removal.                      *)
LEMMA CallMovesAccount ==
  ASSUME AccountConstants, AccountSound, NEW b \in Browser, NEW next \in SignInCall \cup {Nothing},
         signing_in' = [signing_in EXCEPT ![b] = next],
         next = Nothing \/ next.step # "remove",
         next = Nothing \/ next.row = Nothing \/ Account!Holds(b) \/ Account!RowFree(b),
         secured' \in BOOLEAN, secured' => secured \/ ~(\E c \in Browser : Account!At(c, "remove")'),
         UNCHANGED device
  PROVE  /\ signing_in' \in [Browser -> SignInCall \cup {Nothing}]
         /\ OneHolder' /\ \A c \in Browser : AnotherStays(c)'
<1>1. /\ signing_in' \in [Browser -> SignInCall \cup {Nothing}]
      /\ signing_in'[b] = next /\ \A c \in Browser \ {b} : signing_in'[c] = signing_in[c]
  BY DEF AccountSound, AccountTyped
<1>2. OneHolder'
  BY <1>1 DEF AccountSound, OneHolder, Account!Holds, Account!RowFree
<1>3. ASSUME NEW c \in Browser, secured', Account!At(c, "remove")'
      PROVE  \E d \in Account!Verified' : d # signing_in'[c].id
  <2>1. c # b
    BY <1>1, <1>3 DEF Account!At
  <2>2. signing_in'[c] = signing_in[c] /\ Account!At(c, "remove") /\ secured
    BY <1>1, <1>3, <2>1 DEF Account!At
  <2>3. Account!Verified' = Account!Verified
    BY DEF Account!Verified
  <2>4. QED
    BY <2>2, <2>3 DEF AccountSound, AnotherStays
<1>4. QED
  BY <1>1, <1>2, <1>3 DEF AnotherStays

(* Once secured stays so for as long as a device stays. *)
LEMMA SecuredStays ==
  ASSUME AccountConstants, AccountSound, Account!Next
  PROVE  /\ secured' \in BOOLEAN
         /\ secured' => owner' = TRUE
         /\ secured' => secured \/ ~(\E c \in Browser : Account!At(c, "remove")')
         /\ (secured => Account!Verified' # {}) => (secured' => Account!Verified' # {})
<1>1. secured' = (owner' /\ (secured \/ (Account!requires_challenge' /\ ~Account!Removing')))
  BY DEF Account!Next
<1>2. owner' \in BOOLEAN
  BY DEF Account!Next, Account!Step, AccountSound, AccountTyped, Account!LockElapses,
     Account!RoleChanges, Account!ChallengeExpires, Account!ReadCandidate,
     Account!reset_login_failures, Account!authenticate, Account!record_login_failure,
     Account!Login, Account!consume_challenge, Account!MfaLogin, Account!Logout,
     Account!Enroll, Account!ReadForVerify, Account!verify_initial, Account!MfaRemove,
     Account!LockForRemove, Account!remove
<1>3. secured \in BOOLEAN
  BY DEF AccountSound, AccountTyped
<1>4. secured' \in BOOLEAN
  BY Zenon, <1>1, <1>2, <1>3
<1>5. secured' => owner' /\ (secured \/ (Account!requires_challenge' /\ ~Account!Removing'))
  BY Zenon, <1>1
<1>6. QED
  BY <1>2, <1>4, <1>5 DEF Account!requires_challenge, Account!Removing

(* Steps of the sign-in: calls move, devices stay. *)
LEMMA SignInKeepsAccount ==
  ASSUME AccountConstants, AccountSound, Account!Next, NEW b \in Browser,
         \/ Account!ReadCandidate(b) \/ Account!reset_login_failures(b)
         \/ Account!authenticate(b) \/ Account!record_login_failure(b) \/ Account!Login(b)
  PROVE  AccountSound'
<1>1. UNCHANGED <<device, owner>>
  BY DEF Account!ReadCandidate, Account!reset_login_failures, Account!authenticate,
     Account!record_login_failure, Account!Login
<1>2. Account!Verified' = Account!Verified
  BY <1>1 DEF Account!Verified
<1>3. Account!OwnerKeepsDevice'
  <2>1. secured' => Account!Verified' # {}
    BY <1>2, SecuredStays DEF AccountSound, Account!SignInStands, Account!OwnerKeepsDevice,
       Account!requires_challenge
  <2>2. QED
    BY <2>1 DEF Account!OwnerKeepsDevice, Account!requires_challenge
<1>4. PICK next \in SignInCall \cup {Nothing} :
        /\ signing_in' = [signing_in EXCEPT ![b] = next]
        /\ next = Nothing \/ next.step # "remove"
        /\ next = Nothing \/ next.row = Nothing \/ Account!Holds(b) \/ Account!RowFree(b)
  <2>1. CASE Account!ReadCandidate(b)
    <3> DEFINE next == [step |-> "authenticate", elapsed |-> account.status = "elapsed",
                        row |-> Nothing]
    <3>1. next \in SignInCall /\ next.step = "authenticate" /\ next.row = Nothing
      BY DEF SignInCall
    <3>2. signing_in' = [signing_in EXCEPT ![b] = next]
      BY <2>1 DEF Account!ReadCandidate, Account!Begin
    <3> HIDE DEF next
    <3>3. QED
      BY <3>1, <3>2
  <2>2. CASE Account!reset_login_failures(b)
    <3> DEFINE next == [step |-> "authenticate", elapsed |-> FALSE,
                        row |-> [status |-> "active", failed_attempts |-> 0]]
    <3>1. next \in SignInCall /\ next.step = "authenticate"
      BY DEF SignInCall, Account!UserAccount, AccountConstants
    <3>2. signing_in' = [signing_in EXCEPT ![b] = next] /\ Account!RowFree(b)
      BY <2>2 DEF Account!reset_login_failures, Account!Go
    <3> HIDE DEF next
    <3>3. QED
      BY <3>1, <3>2
  <2>3. CASE Account!authenticate(b)
    <3>1. signing_in[b].row \in Account!UserAccount \cup {Nothing} /\ signing_in[b] # Nothing
      BY <2>3, SignInCallFacts DEF Account!authenticate, AccountSound, Account!At
    <3>2. PICK s \in {"succeed", "fail"} :
            signing_in' = [signing_in EXCEPT ![b] = [step |-> s, row |-> signing_in[b].row]]
      BY <2>3 DEF Account!authenticate, Account!Go
    <3> DEFINE next == [step |-> s, row |-> signing_in[b].row]
    <3>3. next \in SignInCall /\ next.step # "remove" /\ next.row = signing_in[b].row
      BY <3>1 DEF SignInCall
    <3>4. signing_in' = [signing_in EXCEPT ![b] = next]
      BY <3>2
    <3> HIDE DEF next
    <3>5. QED
      BY <3>1, <3>3, <3>4 DEF Account!Holds
  <2>4. CASE Account!record_login_failure(b) \/ Account!Login(b)
    BY <2>4 DEF Account!record_login_failure, Account!Login, Account!Return, Account!Go
  <2>5. QED
    BY <2>1, <2>2, <2>3, <2>4
<1>5. /\ signing_in' \in [Browser -> SignInCall \cup {Nothing}]
      /\ OneHolder' /\ \A c \in Browser : AnotherStays(c)'
  BY <1>1, <1>4, SecuredStays, CallMovesAccount
<1>6. account' \in Account!UserAccount /\ Account!ActiveBelowThreshold'
  <2>0. Account!Row(b) \in Account!UserAccount
    BY SignInCallFacts DEF AccountSound
  <2>1. CASE UNCHANGED account
    BY <2>1 DEF AccountSound, AccountTyped, Account!SignInStands, Account!ActiveBelowThreshold
  <2>2. CASE Account!record_login_failure(b)
    BY <2>0, <2>2 DEF Account!record_login_failure, Account!UserAccount, AccountConstants,
       Account!ActiveBelowThreshold
  <2>3. CASE Account!Login(b)
    BY <2>0, <2>3 DEF Account!Login, Account!UserAccount, AccountConstants,
       Account!ActiveBelowThreshold
  <2>4. QED
    BY <2>1, <2>2, <2>3 DEF Account!ReadCandidate, Account!reset_login_failures,
       Account!authenticate
<1>7. login_session' \in
       [Browser -> {"none", "challenged", "expired", "password", "password and code"}]
  BY DEF Account!ReadCandidate, Account!reset_login_failures, Account!authenticate,
     Account!record_login_failure, Account!Login, AccountSound, AccountTyped
<1>8. QED
  BY <1>1, <1>3, <1>5, <1>6, <1>7, SecuredStays DEF AccountSound, AccountTyped, Account!SignInStands

(* Steps that leave the calls as they are. *)
LEMMA RestKeepsAccount ==
  ASSUME AccountConstants, AccountSound, Account!Next, UNCHANGED signing_in,
         account' = account \/ account' = [account EXCEPT !.status = "elapsed"],
         device' \in [Device -> {"absent", "pending", "verified", "removed"}],
         Account!Verified' = Account!Verified, owner' \in BOOLEAN,
         login_session' \in
           [Browser -> {"none", "challenged", "expired", "password", "password and code"}]
  PROVE  AccountSound'
<1>1. account' \in Account!UserAccount /\ Account!ActiveBelowThreshold'
  BY DEF AccountSound, AccountTyped, Account!SignInStands, Account!ActiveBelowThreshold,
     Account!UserAccount
<1>2. Account!OwnerKeepsDevice'
  <2>1. secured' => Account!Verified' # {}
    BY SecuredStays DEF AccountSound, Account!SignInStands, Account!OwnerKeepsDevice,
       Account!requires_challenge
  <2>2. QED
    BY <2>1 DEF Account!OwnerKeepsDevice, Account!requires_challenge
<1>3. OneHolder'
  BY DEF AccountSound, OneHolder, Account!Holds
<1>4. ASSUME NEW c \in Browser, secured', Account!At(c, "remove")'
      PROVE  \E d \in Account!Verified' : d # signing_in'[c].id
  <2>1. secured /\ Account!At(c, "remove")
    BY <1>4, SecuredStays DEF Account!At
  <2>2. QED
    BY <2>1 DEF AccountSound, AnotherStays
<1>5. QED
  BY <1>1, <1>2, <1>3, <1>4, SecuredStays DEF AccountSound, AccountTyped, AnotherStays,
     Account!SignInStands

LEMMA DeviceCallsKeepAccount ==
  ASSUME AccountConstants, AccountSound, Account!Next, NEW b \in Browser,
         Account!ReadForVerify(b) \/ Account!MfaRemove(b)
  PROVE  AccountSound'
<1>1. UNCHANGED <<account, device, owner, login_session>>
  BY DEF Account!ReadForVerify, Account!MfaRemove
<1>2. PICK d \in Device, s \in {"verify", "lock"} :
        signing_in' = [signing_in EXCEPT ![b] = [step |-> s, id |-> d, row |-> Nothing]]
  BY DEF Account!ReadForVerify, Account!MfaRemove, Account!Begin
<1> DEFINE next == [step |-> s, id |-> d, row |-> Nothing]
<1>3. /\ next \in SignInCall /\ next.step # "remove" /\ next.row = Nothing
      /\ signing_in' = [signing_in EXCEPT ![b] = next]
  BY <1>2 DEF SignInCall
<1> HIDE DEF next
<1>4. /\ signing_in' \in [Browser -> SignInCall \cup {Nothing}]
      /\ OneHolder' /\ \A c \in Browser : AnotherStays(c)'
  BY <1>1, <1>3, SecuredStays, CallMovesAccount
<1>5. Account!OwnerKeepsDevice'
  <2>1. secured' => Account!Verified' # {}
    BY <1>1, SecuredStays DEF AccountSound, Account!SignInStands, Account!OwnerKeepsDevice,
       Account!requires_challenge, Account!Verified
  <2>2. QED
    BY <2>1 DEF Account!OwnerKeepsDevice, Account!requires_challenge
<1>6. QED
  BY <1>1, <1>4, <1>5, SecuredStays DEF AccountSound, AccountTyped, Account!SignInStands,
     Account!ActiveBelowThreshold

LEMMA VerifyKeepsAccount ==
  ASSUME AccountConstants, AccountSound, Account!Next, NEW b \in Browser,
         Account!verify_initial(b)
  PROVE  AccountSound'
<1>1. /\ UNCHANGED <<account, owner, login_session>> /\ signing_in[b].id \in Device
      /\ signing_in' = [signing_in EXCEPT ![b] = Nothing]
      /\ device' \in [Device -> {"absent", "pending", "verified", "removed"}]
      /\ \A d \in Device : device[d] = "verified" => device'[d] = "verified"
  <2>1. signing_in[b].id \in Device
    BY SignInCallFacts DEF Account!verify_initial, AccountSound
  <2>2. QED
    BY <2>1 DEF Account!verify_initial, Account!Return, Account!Go, AccountSound, AccountTyped
<1>2. Account!Verified \subseteq Account!Verified'
  BY <1>1 DEF Account!Verified
<1>3. /\ signing_in' \in [Browser -> SignInCall \cup {Nothing}]
      /\ signing_in'[b] = Nothing /\ \A c \in Browser \ {b} : signing_in'[c] = signing_in[c]
  BY <1>1 DEF AccountSound, AccountTyped
<1>4. OneHolder'
  BY <1>3 DEF AccountSound, OneHolder, Account!Holds
<1>5. ASSUME NEW c \in Browser, secured', Account!At(c, "remove")'
      PROVE  \E d \in Account!Verified' : d # signing_in'[c].id
  <2>1. c # b /\ secured /\ Account!At(c, "remove") /\ signing_in'[c] = signing_in[c]
    BY <1>3, <1>5, SecuredStays DEF Account!At
  <2>2. QED
    BY <1>2, <2>1 DEF AccountSound, AnotherStays
<1>6. Account!OwnerKeepsDevice'
  <2>1. secured' => Account!Verified' # {}
    BY <1>2, SecuredStays DEF AccountSound, Account!SignInStands, Account!OwnerKeepsDevice,
       Account!requires_challenge
  <2>2. QED
    BY <2>1 DEF Account!OwnerKeepsDevice, Account!requires_challenge
<1>7. QED
  BY <1>1, <1>3, <1>4, <1>5, <1>6, SecuredStays DEF AccountSound, AccountTyped, AnotherStays,
     Account!SignInStands, Account!ActiveBelowThreshold

(* The lock is taken from nobody, and for an owner another device is there. *)
LEMMA LockForRemoveKeepsAccount ==
  ASSUME AccountConstants, AccountSound, Account!Next, NEW b \in Browser,
         Account!LockForRemove(b)
  PROVE  AccountSound'
<1>1. /\ UNCHANGED <<account, device, owner, login_session>> /\ signing_in[b].id \in Device
      /\ Account!RowFree(b) /\ Account!At(b, "lock")
  BY SignInCallFacts DEF Account!LockForRemove, AccountSound
<1>2. Account!Verified' = Account!Verified
  BY <1>1 DEF Account!Verified
<1>3. Account!OwnerKeepsDevice'
  <2>1. secured' => Account!Verified' # {}
    BY <1>2, SecuredStays DEF AccountSound, Account!SignInStands, Account!OwnerKeepsDevice,
       Account!requires_challenge
  <2>2. QED
    BY <2>1 DEF Account!OwnerKeepsDevice, Account!requires_challenge
<1>4. /\ signing_in' \in [Browser -> SignInCall \cup {Nothing}]
      /\ OneHolder' /\ \A c \in Browser : AnotherStays(c)'
  <2>1. CASE ~Account!Removable(signing_in[b].id)
    <3>1. signing_in' = [signing_in EXCEPT ![b] = Nothing]
      BY <2>1 DEF Account!LockForRemove, Account!Return, Account!Go
    <3>2. QED
      BY <1>1, <3>1, SecuredStays, CallMovesAccount
  <2>2. CASE Account!Removable(signing_in[b].id)
    <3> DEFINE next == [step |-> "remove", id |-> signing_in[b].id, row |-> account]
    <3>1. next \in SignInCall /\ next.id = signing_in[b].id
      BY <1>1 DEF SignInCall, AccountSound, AccountTyped
    <3>2. signing_in' = [signing_in EXCEPT ![b] = next]
      BY <2>2 DEF Account!LockForRemove, Account!Go
    <3> HIDE DEF next
    <3>3. /\ signing_in' \in [Browser -> SignInCall \cup {Nothing}]
          /\ signing_in'[b] = next /\ \A c \in Browser \ {b} : signing_in'[c] = signing_in[c]
      BY <3>1, <3>2 DEF AccountSound, AccountTyped
    <3>4. OneHolder'
      BY <1>1, <3>3 DEF AccountSound, OneHolder, Account!Holds, Account!RowFree
    <3>5. ASSUME NEW c \in Browser, secured', Account!At(c, "remove")'
          PROVE  \E d \in Account!Verified' : d # signing_in'[c].id
      <4>1. secured /\ owner' = TRUE
        BY <3>5, SecuredStays
      <4>2. CASE c = b
        <5>1. Account!Verified # {signing_in[b].id} /\ signing_in[b].id \in Account!Verified
          BY <1>1, <2>2, <4>1 DEF Account!Removable, Account!Verified
        <5>2. QED
          BY <1>2, <3>1, <3>3, <4>2, <5>1
      <4>3. CASE c # b
        BY <1>2, <3>3, <3>5, <4>1, <4>3 DEF AccountSound, AnotherStays, Account!At
      <4>4. QED
        BY <4>2, <4>3
    <3>6. QED
      BY <3>3, <3>4, <3>5 DEF AnotherStays
  <2>3. QED
    BY <2>1, <2>2
<1>5. QED
  BY <1>1, <1>3, <1>4, SecuredStays DEF AccountSound, AccountTyped, Account!SignInStands,
     Account!ActiveBelowThreshold

LEMMA RemoveKeepsAccount ==
  ASSUME AccountConstants, AccountSound, Account!Next, NEW b \in Browser,
         Account!remove(b)
  PROVE  AccountSound'
<1>1. /\ UNCHANGED <<account, owner, login_session>> /\ signing_in[b].id \in Device
      /\ Account!At(b, "remove") /\ signing_in' = [signing_in EXCEPT ![b] = Nothing]
      /\ device' = [device EXCEPT ![signing_in[b].id] = "removed"]
  BY SignInCallFacts DEF Account!remove, Account!Return, Account!Go, AccountSound
<1>2. /\ device' \in [Device -> {"absent", "pending", "verified", "removed"}]
      /\ \A d \in Account!Verified : d # signing_in[b].id => d \in Account!Verified'
  BY <1>1 DEF AccountSound, AccountTyped, Account!Verified
<1>3. /\ signing_in' \in [Browser -> SignInCall \cup {Nothing}]
      /\ signing_in'[b] = Nothing /\ \A c \in Browser \ {b} : signing_in'[c] = signing_in[c]
  BY <1>1 DEF AccountSound, AccountTyped
<1>4. OneHolder'
  BY <1>3 DEF AccountSound, OneHolder, Account!Holds
<1>5. \A c \in Browser \ {b} : ~Account!At(c, "remove")
  BY <1>1, SignInCallFacts DEF AccountSound, OneHolder, Account!Holds, Account!At, AccountConstants
<1>6. \A c \in Browser : ~Account!At(c, "remove")'
  BY <1>3, <1>5 DEF Account!At
<1>7. Account!OwnerKeepsDevice'
  <2>1. secured => Account!Verified' # {}
    BY <1>1, <1>2 DEF AccountSound, AnotherStays
  <2>2. secured' => Account!Verified' # {}
    BY <2>1, SecuredStays
  <2>3. QED
    BY <2>2 DEF Account!OwnerKeepsDevice, Account!requires_challenge
<1>8. QED
  BY <1>1, <1>2, <1>3, <1>4, <1>6, <1>7, SecuredStays DEF AccountSound, AccountTyped, AnotherStays,
     Account!SignInStands, Account!ActiveBelowThreshold

LEMMA AccountStep ==
  ASSUME AccountConstants, AccountSound, [Account!Next]_accountVars
  PROVE  AccountSound'
<1>1. CASE UNCHANGED accountVars
  BY <1>1 DEF accountVars, AccountSound, AccountTyped, OneHolder, AnotherStays, Account!Holds,
     Account!At, Account!Verified, Account!SignInStands, Account!OwnerKeepsDevice,
     Account!ActiveBelowThreshold, Account!requires_challenge
<1>2. CASE Account!Next
  <2>1. CASE Account!LockElapses \/ Account!RoleChanges
    <3>1. Account!Verified' = Account!Verified /\ owner' \in BOOLEAN
      BY <2>1 DEF Account!LockElapses, Account!RoleChanges, Account!Verified, AccountSound,
         AccountTyped
    <3>2. QED
      BY <1>2, <2>1, <3>1, RestKeepsAccount DEF Account!LockElapses, Account!RoleChanges,
         AccountSound, AccountTyped
  <2>2. ASSUME NEW b \in Browser,
               \/ Account!ChallengeExpires(b) \/ Account!consume_challenge(b)
               \/ Account!MfaLogin(b) \/ Account!Logout(b)
        PROVE  AccountSound'
    <3>1. /\ UNCHANGED <<signing_in, account, device, owner>>
          /\ login_session' \in
               [Browser -> {"none", "challenged", "expired", "password", "password and code"}]
      BY <2>2 DEF Account!ChallengeExpires, Account!consume_challenge, Account!MfaLogin,
         Account!Logout, AccountSound, AccountTyped
    <3>2. Account!Verified' = Account!Verified
      BY <3>1 DEF Account!Verified
    <3>3. QED
      BY <1>2, <3>1, <3>2, RestKeepsAccount DEF AccountSound, AccountTyped
  <2>3. ASSUME NEW b \in Browser, Account!Enroll(b)
        PROVE  AccountSound'
    <3>1. PICK d \in Device : device[d] = "absent" /\ device' = [device EXCEPT ![d] = "pending"]
      BY <2>3 DEF Account!Enroll
    <3>2. /\ device' \in [Device -> {"absent", "pending", "verified", "removed"}]
          /\ \A e \in Device : (device'[e] = "verified") <=> (device[e] = "verified")
      BY <3>1 DEF AccountSound, AccountTyped
    <3>3. Account!Verified' = Account!Verified
      BY <3>2 DEF Account!Verified
    <3>4. QED
      BY <1>2, <2>3, <3>2, <3>3, RestKeepsAccount DEF Account!Enroll, AccountSound, AccountTyped
  <2>4. QED
    BY <1>2, <2>1, <2>2, <2>3, SignInKeepsAccount, DeviceCallsKeepAccount, VerifyKeepsAccount,
       LockForRemoveKeepsAccount, RemoveKeepsAccount DEF Account!Next, Account!Step
<1>3. QED
  BY <1>1, <1>2

LEMMA AccountInit ==
  ASSUME AccountConstants, Account!Init
  PROVE  AccountSound
<1>1. AccountTyped
  <2>1. [status |-> "active", failed_attempts |-> 0] \in Account!UserAccount
    BY DEF AccountConstants, Account!UserAccount
  <2>2. owner \in BOOLEAN /\ secured \in BOOLEAN
    BY Zenon DEF Account!Init
  <2>3. QED
    BY <2>1, <2>2 DEF Account!Init, AccountTyped
<1>2. OneHolder /\ \A b \in Browser : AnotherStays(b)
  BY DEF Account!Init, OneHolder, AnotherStays, Account!Holds, Account!At
<1>3. Account!SignInStands
  BY DEF AccountConstants, Account!Init, Account!SignInStands, Account!OwnerKeepsDevice,
     Account!ActiveBelowThreshold
<1>4. QED
  BY <1>1, <1>2, <1>3 DEF AccountSound

(* The invariant gives what the run checks of the account. *)
LEMMA AccountShows ==
  ASSUME AccountConstants, AccountSound
  PROVE  Account!TypeOK /\ Account!SignInStands
BY DEF AccountConstants, AccountSound, AccountTyped, Account!TypeOK, SignInCall

-----------------------------------------------------------------------------
(* Calls and signals of a store (frontend/src/app).                         *)

StoreCall ==
  [method : Stores!Method, token : [Stores!Guard -> Nat], state : {"waiting", "ok", "failed"}]

StoresTyped ==
  /\ store \in Store /\ loading \subseteq Stores!Ui
  /\ token \in [Stores!Guard -> Nat]
  /\ call \in Seq(StoreCall) /\ Len(call) =< MaxCalls
  /\ shown \in [Stores!Signal -> Stores!Call \cup {Nothing}]
  /\ error \in [Stores!Ui -> Stores!Call \cup {Nothing}]

(* The token of a call is that of its guard while the call is the latest    *)
(* one to have taken it.                                                    *)
TokenTells(c, g) ==
  /\ call[c].token[g] =< token[g]
  /\ g \in Stores!Guards(call[c].method) =>
       (call[c].token[g] = token[g] <=> Stores!IsLatest(c, g))

(* What the latest call of a guard shows. *)
Shows(c, g) ==
  LET m == call[c].method
  IN
  /\ call[c].state = "waiting" /\ Stores!Spinning(g, m.ui) => m.ui \in loading
  /\ \A s \in Stores!Signal : <<g, s>> \in m.writes /\ Stores!Guarding(g, s) =>
       /\ call[c].state = "ok" => shown[s] = c
       /\ call[c].state = "failed" /\ m.clears => shown[s] = Nothing
  /\ Stores!Spinning(g, m.ui) /\ error[m.ui] # Nothing => error[m.ui] = c
  /\ call[c].state # "waiting" /\ Stores!Spinning(g, m.ui) => m.ui \notin loading

StoresSound ==
  /\ StoresTyped
  /\ \A c \in 1..Len(call), g \in Stores!Guard : TokenTells(c, g)
  /\ \A c \in 1..Len(call), g \in Stores!Guard \ {"none"} : Stores!IsLatest(c, g) => Shows(c, g)

LEMMA StoreStands ==
  ASSUME UNCHANGED store
  PROVE  /\ UNCHANGED <<Stores!Method, Stores!Guard, Stores!Ui, Stores!Signal, Stores!Writes>>
         /\ StoreCall' = StoreCall
<1>1. Stores!Method' = Stores!Method
  BY DEF Stores!Method
<1>2. Stores!Guard' = Stores!Guard
  BY <1>1 DEF Stores!Guard
<1>3. Stores!Writes' = Stores!Writes
  BY <1>1 DEF Stores!Writes
<1>4. UNCHANGED <<Stores!Ui, Stores!Signal>>
  BY <1>1, <1>3 DEF Stores!Ui, Stores!Signal
<1>5. QED
  BY <1>1, <1>2, <1>3, <1>4 DEF StoreCall

LEMMA GuardingStands ==
  ASSUME UNCHANGED store
  PROVE  \A g, s : /\ Stores!Guarding(g, s)' <=> Stores!Guarding(g, s)
                   /\ Stores!Spinning(g, s)' <=> Stores!Spinning(g, s)
BY StoreStands DEF Stores!Guarding, Stores!Spinning

LEMMA MethodFacts ==
  ASSUME NEW m \in Stores!Method
  PROVE  /\ m.ui \in Stores!Ui
         /\ Stores!Guards(m) \subseteq Stores!Guard \ {"none"}
         /\ m.ui_guard \in Stores!Guards(m) \cup {"none"} /\ m.ui_guard \in Stores!Guard
         /\ \A g, s : <<g, s>> \in m.writes =>
              /\ g \in Stores!Guards(m) \cup {"none"} /\ g \in Stores!Guard /\ s \in Stores!Signal
              /\ \A h : Stores!Guarding(h, s) => g = h
         /\ \A h : Stores!Spinning(h, m.ui) => m.ui_guard = h
<1>1. m.ui \in Stores!Ui
  BY DEF Stores!Ui
<1>2. Stores!Guards(m) \subseteq Stores!Guard \ {"none"} /\ "none" \in Stores!Guard
  <2>1. Stores!Guards(m) \subseteq Stores!Guard /\ "none" \in Stores!Guard
    <3>1. \A g \in Stores!Guards(m) : g \in UNION {Stores!Guards(x) : x \in Stores!Method}
      BY Zenon
    <3>2. "none" \in Stores!Guard
      BY DEF Stores!Guard
    <3>3. \A g \in Stores!Guards(m) : g \in Stores!Guard
      BY <3>1 DEF Stores!Guard
    <3>4. QED
      BY <3>2, <3>3
  <2>2. "none" \notin Stores!Guards(m)
    BY DEF Stores!Guards
  <2>3. QED
    BY <2>1, <2>2
<1>3. m.ui_guard \in Stores!Guards(m) \cup {"none"}
  BY DEF Stores!Guards
<1>4. ASSUME NEW g, NEW s, <<g, s>> \in m.writes
      PROVE  /\ g \in Stores!Guards(m) \cup {"none"} /\ s \in Stores!Signal
             /\ \A h : Stores!Guarding(h, s) => g = h
  <2>1. <<g, s>> \in Stores!Writes
    BY <1>4 DEF Stores!Writes
  <2>2. g \in Stores!Guards(m) \cup {"none"}
    BY <1>4 DEF Stores!Guards
  <2>3. s \in Stores!Signal
    BY <2>1 DEF Stores!Signal
  <2>4. ASSUME NEW h, Stores!Guarding(h, s)
        PROVE  g = h
    <3>1. {w[1] : w \in {x \in Stores!Writes : x[2] = s}} = {h}
      BY <2>4 DEF Stores!Guarding
    <3>2. g \in {w[1] : w \in {x \in Stores!Writes : x[2] = s}}
      BY <2>1
    <3>3. QED
      BY <3>1, <3>2
  <2>5. QED
    BY <2>2, <2>3, <2>4
<1>5. ASSUME NEW h, Stores!Spinning(h, m.ui)
      PROVE  m.ui_guard = h
  <2>1. {n.ui_guard : n \in {x \in Stores!Method : x.ui = m.ui}} = {h}
    BY <1>5 DEF Stores!Spinning
  <2>2. m.ui_guard \in {n.ui_guard : n \in {x \in Stores!Method : x.ui = m.ui}}
    OBVIOUS
  <2>3. QED
    BY <2>1, <2>2
<1>6. QED
  BY <1>1, <1>2, <1>3, <1>4, <1>5


LEMMA IssueKeepsStores ==
  ASSUME StoresSound, Stores!Issue, MaxCalls \in Nat
  PROVE  StoresSound'
<1> DEFINE k == Len(call)
<1>0. PICK n \in Nat : n = k + 1
  BY DEF StoresSound, StoresTyped
<1>1. PICK m \in Stores!Method :
        /\ token' = Stores!next(m)
        /\ call' = Append(call, [method |-> m, token |-> Stores!next(m), state |-> "waiting"])
        /\ loading' = loading \cup {m.ui}
        /\ error' = [error EXCEPT ![m.ui] = Nothing]
  BY DEF Stores!Issue
<1>2. k \in Nat /\ k < MaxCalls /\ UNCHANGED <<store, shown>>
  BY DEF Stores!Issue, StoresSound, StoresTyped
<1>3. token' \in [Stores!Guard -> Nat]
  BY <1>1 DEF Stores!next, StoresSound, StoresTyped
<1>4. \A g \in Stores!Guard : token'[g] = IF g \in Stores!Guards(m) THEN token[g] + 1 ELSE token[g]
  BY <1>1 DEF Stores!next
<1> DEFINE new == [method |-> m, token |-> Stores!next(m), state |-> "waiting"]
<1>5. new \in StoreCall
  BY <1>1, <1>3 DEF StoreCall
<1>6. /\ new.method = m /\ new.token = token' /\ new.state = "waiting"
      /\ call' = Append(call, new)
  BY <1>1
<1> HIDE DEF new
<1>7. /\ call' \in Seq(StoreCall) /\ Len(call') = n
      /\ call'[n] = new /\ \A c \in 1..k : call'[c] = call[c] /\ call[c] \in StoreCall
  BY <1>0, <1>5, <1>6 DEF StoresSound, StoresTyped
<1>8. StoresTyped'
  <2>1. loading' \subseteq Stores!Ui /\ error' \in [Stores!Ui -> Stores!Call \cup {Nothing}]
    BY <1>1, MethodFacts DEF StoresSound, StoresTyped
  <2>2. n =< MaxCalls
    BY <1>0, <1>2
  <2>3. QED
    BY <1>0, <1>2, <1>3, <1>7, <2>1, <2>2, StoreStands DEF StoresSound, StoresTyped, Stores!Call
<1>9. ASSUME NEW c \in 1..k, NEW g \in Stores!Guard
      PROVE  /\ Stores!IsLatest(c, g)' <=> Stores!IsLatest(c, g) /\ g \notin Stores!Guards(m)
             /\ TokenTells(c, g)'
  <2>1. DOMAIN call = 1..k /\ DOMAIN call' = 1..n
    BY <1>7 DEF StoresSound, StoresTyped
  <2>10. c \in 1..n /\ n \in 1..n /\ 1..n = 1..k \cup {n}
    BY <1>0, <1>2
  <2>2. ASSUME NEW d \in 1..k
        PROVE  Stores!Guards(call'[d].method) = Stores!Guards(call[d].method)
    BY <1>7
  <2>3. Stores!IsLatest(c, g)' <=>
          /\ g \in Stores!Guards(call'[c].method)
          /\ \A d \in 1..n : g \in Stores!Guards(call'[d].method) => d <= c
    BY <2>1 DEF Stores!IsLatest, Stores!Issued, Stores!Guards
  <2>4. Stores!IsLatest(c, g) <=>
          /\ g \in Stores!Guards(call[c].method)
          /\ \A d \in 1..k : g \in Stores!Guards(call[d].method) => d <= c
    BY <2>1 DEF Stores!IsLatest, Stores!Issued
  <2>5. Stores!IsLatest(c, g)' <=> Stores!IsLatest(c, g) /\ g \notin Stores!Guards(m)
    BY <1>0, <1>2, <1>6, <1>7, <2>10, <2>2, <2>3, <2>4
  <2>6. /\ call'[c] = call[c] /\ call[c].token[g] \in Nat /\ token[g] \in Nat
        /\ call[c].token[g] =< token[g]
        /\ g \in Stores!Guards(call[c].method) =>
             (call[c].token[g] = token[g] <=> Stores!IsLatest(c, g))
    BY <1>7 DEF StoresSound, StoresTyped, TokenTells, StoreCall
  <2>7. /\ call[c].token[g] =< token'[g]
        /\ call[c].token[g] = token'[g] <=> call[c].token[g] = token[g] /\ g \notin Stores!Guards(m)
    BY <1>4, <2>6
  <2>8. TokenTells(c, g)' <=>
          /\ call'[c].token[g] =< token'[g]
          /\ g \in Stores!Guards(call'[c].method) =>
               (call'[c].token[g] = token'[g] <=> Stores!IsLatest(c, g)')
    BY DEF TokenTells, Stores!Guards
  <2>9. QED
    BY <2>5, <2>6, <2>7, <2>8
<1>10. ASSUME NEW g \in Stores!Guard
       PROVE  TokenTells(n, g)' /\ (Stores!IsLatest(n, g)' <=> g \in Stores!Guards(m))
  <2>1. DOMAIN call' = 1..n
    BY <1>7
  <2>2. call'[n].method = m /\ n \in Nat /\ \A d \in 1..n : d <= n
    BY <1>0, <1>2, <1>6, <1>7
  <2>3. Stores!IsLatest(n, g)' <=>
          /\ g \in Stores!Guards(call'[n].method)
          /\ \A d \in 1..n : g \in Stores!Guards(call'[d].method) => d <= n
    BY <2>1 DEF Stores!IsLatest, Stores!Issued, Stores!Guards
  <2>4. call'[n].token[g] = token'[g] /\ token'[g] \in Nat
    BY <1>3, <1>6, <1>7
  <2>5. TokenTells(n, g)' <=>
          /\ call'[n].token[g] =< token'[g]
          /\ g \in Stores!Guards(call'[n].method) =>
               (call'[n].token[g] = token'[g] <=> Stores!IsLatest(n, g)')
    BY DEF TokenTells, Stores!Guards
  <2>6. QED
    BY <2>2, <2>3, <2>4, <2>5
<1>11. \A c \in 1..Len(call'), g \in Stores!Guard' : TokenTells(c, g)'
  <2>1. Stores!Guard' = Stores!Guard
    BY <1>0, <1>2, StoreStands
  <2>2. 1..Len(call') = 1..k \cup {n}
    BY <1>0, <1>2, <1>7
  <2> HIDE DEF k
  <2>3. QED
    BY <1>9, <1>10, <2>1, <2>2
<1>12. ASSUME NEW c \in 1..n, NEW g \in Stores!Guard \ {"none"}, Stores!IsLatest(c, g)'
       PROVE  Shows(c, g)'
  <2>1. CASE c = n
    <3>1. call'[n].method = m /\ call'[n].state = "waiting"
      BY <1>6, <1>7
    <3>2. m.ui \in loading' /\ m.ui \in DOMAIN error
      BY <1>1, MethodFacts DEF StoresSound, StoresTyped
    <3>3. error'[m.ui] = Nothing
      BY <1>1, <3>2
    <3>4. QED
      BY <2>1, <3>1, <3>2, <3>3 DEF Shows
  <2>2. CASE c \in 1..k
    <3>1. Stores!IsLatest(c, g) /\ g \notin Stores!Guards(m)
      BY <1>9, <1>12, <2>2
    <3>2. Shows(c, g) /\ call'[c] = call[c] /\ call[c].method \in Stores!Method
      BY <1>7, <2>2, <3>1 DEF StoresSound, StoreCall
    <3>3. Stores!Spinning(g, m.ui) => m.ui_guard = g
      BY MethodFacts
    <3>4. g # "none" /\ m.ui_guard \in Stores!Guards(m) \cup {"none"}
      BY MethodFacts
    <3>5. ~Stores!Spinning(g, m.ui)
      BY <3>1, <3>3, <3>4
    <3> DEFINE u == call[c].method.ui
    <3>6. u \in Stores!Ui
      BY <3>2, MethodFacts
    <3>7. Stores!Spinning(g, u) => u # m.ui /\ error'[u] = error[u] /\ (u \in loading' <=> u \in loading)
      BY <1>1, <3>5, <3>6 DEF StoresSound, StoresTyped
    <3>8. QED
      BY <1>0, <1>2, <3>2, <3>7, StoreStands, GuardingStands DEF Shows
  <2>3. QED
    BY <1>0, <1>2, <2>1, <2>2
<1>13. QED
  <2>1. 1..Len(call') = 1..n
    BY <1>0, <1>2, <1>7
  <2>2. QED
    BY <1>0, <1>2, <1>8, <1>11, <1>12, <2>1, StoreStands DEF StoresSound

LEMMA AnswerKeepsStores ==
  ASSUME StoresSound, NEW d \in Stores!Issued, NEW state \in {"ok", "failed"},
         Stores!Answer(d, state), MaxCalls \in Nat
  PROVE  StoresSound'
<1> DEFINE m == call[d].method
           row == [call[d] EXCEPT !.state = state]
           SignalsWritten == {s \in Stores!Signal : \E g \in Stores!Guard :
                               <<g, s>> \in m.writes /\ Stores!isCurrent(d, g)}
<1>1. /\ d \in 1..Len(call) /\ call[d] \in StoreCall /\ m \in Stores!Method
      /\ call[d].state = "waiting"
      /\ call' = [call EXCEPT ![d].state = state]
      /\ UNCHANGED <<store, token>>
  <2>1. d \in 1..Len(call) /\ call[d] \in StoreCall
    BY DEF StoresSound, StoresTyped, Stores!Issued
  <2>2. m \in Stores!Method
    BY <2>1 DEF StoreCall
  <2>3. QED
    BY <2>1, <2>2 DEF Stores!Answer
<1>2. /\ row \in StoreCall /\ row.method = m /\ row.token = call[d].token /\ row.state = state
  BY <1>1 DEF StoreCall
<1>3. /\ shown' = [s \in Stores!Signal |->
            IF s \in SignalsWritten /\ state = "ok" THEN d
            ELSE IF s \in SignalsWritten /\ m.clears THEN Nothing ELSE shown[s]]
      /\ error' = IF state = "failed" /\ Stores!isCurrent(d, m.ui_guard)
                  THEN [error EXCEPT ![m.ui] = d] ELSE error
      /\ loading' = IF Stores!isCurrent(d, m.ui_guard) THEN loading \ {m.ui} ELSE loading
  BY DEF Stores!Answer
<1>4. /\ call' = [call EXCEPT ![d] = row] /\ call' \in Seq(StoreCall) /\ Len(call') = Len(call)
      /\ call'[d] = row /\ DOMAIN call' = DOMAIN call
      /\ \A c \in 1..Len(call) : c # d => call'[c] = call[c]
  <2>1. call' = [call EXCEPT ![d] = row]
    BY <1>1
  <2> HIDE DEF row
  <2>2. call \in Seq(StoreCall)
    BY DEF StoresSound, StoresTyped
  <2>3. call \in [1..Len(call) -> StoreCall] /\ Len(call) \in Nat
    BY <2>2
  <2>4. call' \in [1..Len(call) -> StoreCall]
    BY <1>1, <1>2, <2>1, <2>3
  <2>5. call' \in Seq(StoreCall) /\ Len(call') = Len(call) /\ DOMAIN call' = DOMAIN call
    BY <2>3, <2>4
  <2>6. call'[d] = row /\ \A c \in 1..Len(call) : c # d => call'[c] = call[c]
    BY <1>1, <2>1, <2>3
  <2>7. QED
    BY <2>1, <2>5, <2>6
<1> HIDE DEF row
<1>5. \A c \in 1..Len(call) :
        /\ call[c] \in StoreCall
        /\ call'[c].method = call[c].method /\ call'[c].token = call[c].token
        /\ c # d => call'[c].state = call[c].state
  BY <1>2, <1>4 DEF StoresSound, StoresTyped
<1>6. StoresTyped'
  <2>1. d \in Stores!Call
    BY <1>1 DEF Stores!Call, StoresSound, StoresTyped
  <2>2. shown' \in [Stores!Signal -> Stores!Call \cup {Nothing}]
    BY <1>3, <2>1 DEF StoresSound, StoresTyped
  <2>3. error' \in [Stores!Ui -> Stores!Call \cup {Nothing}] /\ loading' \subseteq Stores!Ui
    BY <1>1, <1>3, <2>1, MethodFacts DEF StoresSound, StoresTyped
  <2>4. Stores!Call' = Stores!Call
    BY DEF Stores!Call
  <2>5. QED
    BY <1>1, <1>4, <2>2, <2>3, <2>4, StoreStands DEF StoresSound, StoresTyped
<1>7. ASSUME NEW c \in 1..Len(call), NEW g \in Stores!Guard
      PROVE  TokenTells(c, g)' /\ (Stores!IsLatest(c, g)' <=> Stores!IsLatest(c, g))
  <2>1. DOMAIN call = 1..Len(call)
    BY DEF StoresSound, StoresTyped
  <2>2. \A e \in 1..Len(call) : Stores!Guards(call'[e].method) = Stores!Guards(call[e].method)
    BY <1>5
  <2>3. Stores!IsLatest(c, g)' <=>
          /\ g \in Stores!Guards(call'[c].method)
          /\ \A e \in 1..Len(call) : g \in Stores!Guards(call'[e].method) => e <= c
    BY <1>4, <2>1 DEF Stores!IsLatest, Stores!Issued, Stores!Guards
  <2>4. Stores!IsLatest(c, g) <=>
          /\ g \in Stores!Guards(call[c].method)
          /\ \A e \in 1..Len(call) : g \in Stores!Guards(call[e].method) => e <= c
    BY <2>1 DEF Stores!IsLatest, Stores!Issued
  <2>5. Stores!IsLatest(c, g)' <=> Stores!IsLatest(c, g)
    BY <2>2, <2>3, <2>4
  <2>6. TokenTells(c, g)' <=>
          /\ call'[c].token[g] =< token'[g]
          /\ g \in Stores!Guards(call'[c].method) =>
               (call'[c].token[g] = token'[g] <=> Stores!IsLatest(c, g)')
    BY DEF TokenTells, Stores!Guards
  <2>7. TokenTells(c, g)
    BY DEF StoresSound
  <2>8. QED
    BY <1>1, <1>5, <2>2, <2>5, <2>6, <2>7 DEF TokenTells
<1>20. /\ m.ui_guard \in Stores!Guards(m) \cup {"none"}
       /\ \A g, s : <<g, s>> \in m.writes =>
            g \in Stores!Guards(m) \cup {"none"} /\ \A h : Stores!Guarding(h, s) => g = h
       /\ \A h : Stores!Spinning(h, m.ui) => m.ui_guard = h
  BY <1>1, MethodFacts
(* What is current is the latest. *)
<1>8. ASSUME NEW g \in Stores!Guards(m)
      PROVE  g \in Stores!Guard /\ (Stores!isCurrent(d, g) <=> Stores!IsLatest(d, g))
  BY <1>1, <1>8, MethodFacts DEF StoresSound, TokenTells, Stores!isCurrent
<1>9. ASSUME NEW c \in 1..Len(call), NEW g \in Stores!Guard, Stores!IsLatest(c, g), c # d
      PROVE  ~Stores!IsLatest(d, g)
  BY <1>1, <1>9 DEF Stores!IsLatest, Stores!Issued, StoresSound, StoresTyped
<1>10. ASSUME NEW c \in 1..Len(call), NEW g \in Stores!Guard \ {"none"}, Stores!IsLatest(c, g)
       PROVE  Shows(c, g)'
  <2> DEFINE n == call[c].method
  <2>1. n \in Stores!Method /\ call'[c].method = n /\ Shows(c, g)
    BY <1>5, <1>10 DEF StoreCall, StoresSound
  <2>2. CASE c # d
    <3>1. ~Stores!IsLatest(d, g) /\ call'[c] = call[c]
      BY <1>4, <1>9, <1>10, <2>2
    <3>2. Stores!Spinning(g, n.ui) /\ m.ui = n.ui => ~Stores!isCurrent(d, m.ui_guard)
      <4>1. Stores!Spinning(g, n.ui) /\ m.ui = n.ui => m.ui_guard = g /\ g \in Stores!Guards(m)
        BY <1>20
      <4>2. QED
        BY <1>8, <3>1, <4>1
    <3>3. ASSUME NEW s \in Stores!Signal, Stores!Guarding(g, s)
          PROVE  s \notin SignalsWritten
      <4>1. \A h : <<h, s>> \in m.writes => h = g /\ g \in Stores!Guards(m)
        BY <1>20, <3>3
      <4>2. QED
        <5>1. SUFFICES ASSUME NEW h \in Stores!Guard, <<h, s>> \in m.writes, Stores!isCurrent(d, h)
                       PROVE  FALSE
          OBVIOUS
        <5>2. h = g /\ g \in Stores!Guards(m)
          BY <4>1, <5>1
        <5>3. QED
          BY <1>8, <3>1, <5>1, <5>2
    <3> HIDE DEF SignalsWritten
    <3>4. \A s \in Stores!Signal : Stores!Guarding(g, s) => shown'[s] = shown[s]
      BY <1>3, <3>3
    <3>5. n.ui \in DOMAIN error
      BY <2>1, MethodFacts DEF StoresSound, StoresTyped
    <3>6. Stores!Spinning(g, n.ui) =>
            error'[n.ui] = error[n.ui] /\ (n.ui \in loading' <=> n.ui \in loading)
      BY <1>3, <3>2, <3>5
    <3>7. QED
      BY <1>1, <2>1, <3>1, <3>4, <3>6, StoreStands, GuardingStands DEF Shows
  <2>3. CASE c = d
    <3>1. g \in Stores!Guards(m) /\ Stores!isCurrent(d, g)
      BY <1>8, <1>10, <2>3 DEF Stores!IsLatest
    <3>2. Stores!Spinning(g, m.ui) => Stores!isCurrent(d, m.ui_guard)
      BY <1>1, <3>1, MethodFacts
    <3>3. \A s \in Stores!Signal : <<g, s>> \in m.writes => s \in SignalsWritten
      BY <3>1
    <3> HIDE DEF SignalsWritten
    <3>4. \A s \in Stores!Signal : <<g, s>> \in m.writes =>
            /\ state = "ok" => shown'[s] = d
            /\ state = "failed" /\ m.clears => shown'[s] = Nothing
      BY <1>3, <3>3
    <3>5. m.ui \in DOMAIN error
      BY <1>1, MethodFacts DEF StoresSound, StoresTyped
    <3>6. Stores!Spinning(g, m.ui) =>
            /\ m.ui \notin loading'
            /\ error'[m.ui] # Nothing => error'[m.ui] = d
      <4>1. Stores!Spinning(g, m.ui) /\ error[m.ui] # Nothing => error[m.ui] = d
        BY <2>1, <2>3 DEF Shows
      <4>2. QED
        BY <1>3, <3>2, <3>5, <4>1
    <3>7. call'[d].state = state /\ call'[d].method = m /\ state # "waiting"
      BY <1>2, <1>4
    <3>8. QED
      BY <1>1, <2>3, <3>4, <3>6, <3>7, StoreStands, GuardingStands DEF Shows
  <2>4. QED
    BY <2>2, <2>3
<1>11. QED
  BY <1>1, <1>4, <1>6, <1>7, <1>10, StoreStands DEF StoresSound

LEMMA StoresStep ==
  ASSUME StoresSound, [Stores!Next]_storeVars, MaxCalls \in Nat
  PROVE  StoresSound'
<1>1. CASE UNCHANGED storeVars
  <2>1. /\ UNCHANGED <<store, token, call, shown, loading, error>>
    BY <1>1 DEF storeVars
  <2>2. StoresTyped'
    BY <2>1, StoreStands DEF StoresSound, StoresTyped, Stores!Call
  <2>3. \A c, g : (TokenTells(c, g)' <=> TokenTells(c, g)) /\ (Stores!IsLatest(c, g)' <=> Stores!IsLatest(c, g))
    BY <2>1 DEF TokenTells, Stores!IsLatest, Stores!Issued, Stores!Guards
  <2>4. \A c, g : Shows(c, g)' <=> Shows(c, g)
    BY <2>1, StoreStands, GuardingStands DEF Shows
  <2>5. QED
    BY <2>1, <2>2, <2>3, <2>4, StoreStands DEF StoresSound
<1>2. QED
  BY <1>1, IssueKeepsStores, AnswerKeepsStores DEF Stores!Next

LEMMA StoresInit ==
  ASSUME Stores!Init, MaxCalls \in Nat
  PROVE  StoresSound
<1>1. call = <<>> /\ call \in Seq(StoreCall) /\ Len(call) = 0
  BY DEF Stores!Init
<1>2. StoresTyped
  BY <1>1 DEF Stores!Init, StoresTyped
<1>3. QED
  BY <1>1, <1>2 DEF StoresSound

LEMMA StoresShow ==
  ASSUME StoresSound, MaxCalls \in Nat
  PROVE  Stores!TypeOK /\ Stores!ShownIsLatest
<1>1. Stores!Issued = 1..Len(call) /\ Len(call) \in Nat
  BY DEF StoresSound, StoresTyped, Stores!Issued
<1>2. Stores!TypeOK
  <2>1. Stores!Issued \subseteq Stores!Call
    BY <1>1 DEF StoresSound, StoresTyped, Stores!Call
  <2>2. \A c \in Stores!Issued : call[c] \in StoreCall
    BY <1>1 DEF StoresSound, StoresTyped
  <2>3. QED
    BY <2>1, <2>2 DEF StoresSound, StoresTyped, StoreCall, Stores!TypeOK
<1>3. Stores!ShownIsLatest
  BY <1>1 DEF StoresSound, Shows, Stores!ShownIsLatest
<1>4. QED
  BY <1>2, <1>3

-----------------------------------------------------------------------------
(* The session of a browser (frontend/src/app/core).                        *)

FlowCall ==
  [call : {"me", "login", "mfa", "tenants", "logout"}, user : Person \cup {Nothing},
   header : Tenant \cup {Nothing}, reply : Browsing!Reply, list : SUBSET Tenant]

(* A login that waits for its answer has been made for somebody.            *)
LoginNames(f) ==
  flow[f] # Nothing /\ flow[f].call = "login" /\ flow[f].reply = "none" => flow[f].user \in Person

BrowserTyped ==
  /\ member \in [Person -> SUBSET Tenant] /\ session \in Browsing!Session
  /\ route \in {"starting", "login", "shell"}
  /\ currentUser \in Person \cup {Nothing}
  /\ mfaPending \in BOOLEAN
  /\ tenants \subseteq Tenant /\ selectedTenantId \in Tenant \cup {Nothing}
  /\ flow \in [Flow -> FlowCall \cup {Nothing}]

BrowserSound ==
  /\ BrowserTyped
  /\ \A f \in Flow : LoginNames(f)
  /\ Browsing!SelectedIsListed

(* A call that moves on leaves the others alone.                            *)
LEMMA CallMovesBrowser ==
  ASSUME BrowserSound, NEW f \in Flow, NEW next \in FlowCall \cup {Nothing},
         flow' = [flow EXCEPT ![f] = next],
         next # Nothing /\ next.call = "login" /\ next.reply = "none" => next.user \in Person
  PROVE  /\ flow' \in [Flow -> FlowCall \cup {Nothing}]
         /\ \A g \in Flow : LoginNames(g)'
<1>1. /\ flow' \in [Flow -> FlowCall \cup {Nothing}] /\ flow'[f] = next
      /\ \A g \in Flow \ {f} : flow'[g] = flow[g]
  BY DEF BrowserSound, BrowserTyped
<1>2. ASSUME NEW g \in Flow
      PROVE  LoginNames(g)'
  <2>1. CASE g = f
    BY <1>1, <2>1 DEF LoginNames
  <2>2. CASE g # f
    BY <1>1, <2>2 DEF BrowserSound, LoginNames
  <2>3. QED
    BY <2>1, <2>2
<1>3. QED
  BY <1>1, <1>2

(* An answer fills in a call that waits.                                    *)
LEMMA AnswerMovesBrowser ==
  ASSUME BrowserSound, NEW f \in Flow, flow[f] # Nothing,
         NEW reply \in Browsing!Reply \ {"none"}, NEW user \in Person \cup {Nothing},
         NEW list \in SUBSET Tenant, Browsing!Replied(f, reply, user, list)
  PROVE  /\ flow' \in [Flow -> FlowCall \cup {Nothing}]
         /\ \A g \in Flow : LoginNames(g)'
<1>1. PICK c \in FlowCall : c = flow[f]
  BY DEF BrowserSound, BrowserTyped
<1> DEFINE next == [call |-> c.call, user |-> user, header |-> c.header, reply |-> reply, list |-> list]
<1>2. next \in FlowCall /\ next.reply # "none"
  BY DEF FlowCall
<1>3. flow' = [flow EXCEPT ![f] = next]
  <2>1. flow \in [Flow -> FlowCall \cup {Nothing}]
    BY DEF BrowserSound, BrowserTyped
  <2>2. [[[c EXCEPT !.reply = reply] EXCEPT !.user = user] EXCEPT !.list = list] = next
    <3>1. /\ [c EXCEPT !.reply = reply] =
               [call |-> c.call, user |-> c.user, header |-> c.header, reply |-> reply, list |-> c.list]
      BY DEF FlowCall
    <3>2. [[call |-> c.call, user |-> c.user, header |-> c.header, reply |-> reply, list |-> c.list]
             EXCEPT !.user = user] =
            [call |-> c.call, user |-> user, header |-> c.header, reply |-> reply, list |-> c.list]
      OBVIOUS
    <3>3. [[call |-> c.call, user |-> user, header |-> c.header, reply |-> reply, list |-> c.list]
             EXCEPT !.list = list] = next
      OBVIOUS
    <3> HIDE DEF next
    <3>4. QED
      BY <3>1, <3>2, <3>3
  <2>3. flow' = [flow EXCEPT ![f] =
                   [[[flow[f] EXCEPT !.reply = reply] EXCEPT !.user = user] EXCEPT !.list = list]]
    BY <2>1 DEF Browsing!Replied
  <2>4. QED
    BY <1>1, <2>2, <2>3
<1> HIDE DEF next
<1>4. QED
  BY <1>2, <1>3, CallMovesBrowser

(* What the server does with a call.                                        *)
LEMMA ServesKeepBrowser ==
  ASSUME BrowserSound, NEW f \in Flow,
         \/ Browsing!Refuse(f) \/ Browsing!Lose(f)
         \/ Browsing!LoginView(f) \/ Browsing!MfaLoginView(f) \/ Browsing!MeView(f)
         \/ Browsing!TenantMembershipView(f) \/ Browsing!EnforceMfa(f) \/ Browsing!LogoutView(f)
  PROVE  BrowserSound'
<1>1. UNCHANGED <<member, route, currentUser, mfaPending, tenants, selectedTenantId>>
  BY DEF Browsing!Refuse, Browsing!Lose, Browsing!LoginView, Browsing!MfaLoginView,
     Browsing!MeView, Browsing!TenantMembershipView, Browsing!EnforceMfa, Browsing!LogoutView,
     Browsing!Serving, Browsing!tenantVars, Browsing!authVars, Browsing!serverVars
<1>2. flow[f] # Nothing
  BY DEF Browsing!Refuse, Browsing!Lose, Browsing!LoginView, Browsing!MfaLoginView,
     Browsing!MeView, Browsing!TenantMembershipView, Browsing!EnforceMfa, Browsing!LogoutView,
     Browsing!Serving
<1>3. flow[f] \in FlowCall
  BY <1>2 DEF BrowserSound, BrowserTyped
<1>4. session # Nothing => session.user \in Person /\ member[session.user] \in SUBSET Tenant
  BY DEF BrowserSound, BrowserTyped, Browsing!Session
<1>5. /\ flow' \in [Flow -> FlowCall \cup {Nothing}]
      /\ \A g \in Flow : LoginNames(g)'
  <2>1. \E reply \in Browsing!Reply \ {"none"}, user \in Person \cup {Nothing}, list \in SUBSET Tenant :
          Browsing!Replied(f, reply, user, list)
    BY <1>3, <1>4 DEF Browsing!Refuse, Browsing!Lose, Browsing!LoginView, Browsing!MfaLoginView,
       Browsing!MeView, Browsing!TenantMembershipView, Browsing!EnforceMfa, Browsing!LogoutView,
       Browsing!SignedIn, Browsing!Reply, FlowCall
  <2>2. QED
    BY <1>2, <2>1, AnswerMovesBrowser
<1>6. session' \in Browsing!Session
  <2>1. CASE UNCHANGED session
    BY <2>1 DEF BrowserSound, BrowserTyped
  <2>2. CASE session' = Nothing
    BY <2>2 DEF Browsing!Session
  <2>3. CASE Browsing!LoginView(f)
    <3>1. flow[f].user \in Person
      BY <2>3 DEF BrowserSound, LoginNames, Browsing!LoginView, Browsing!Serving
    <3>2. PICK user \in Person : user = flow[f].user
      BY <3>1
    <3>3. \/ session' = [user |-> user, stage |-> "signed in"]
          \/ session' = [user |-> user, stage |-> "challenged"]
          \/ UNCHANGED session
      BY <2>3, <3>2 DEF Browsing!LoginView
    <3>4. /\ [user |-> user, stage |-> "signed in"] \in Browsing!Session
          /\ [user |-> user, stage |-> "challenged"] \in Browsing!Session
      BY DEF Browsing!Session
    <3>5. QED
      BY <2>1, <3>3, <3>4
  <2>4. CASE Browsing!MfaLoginView(f)
    <3>1. \A c \in [user : Person, stage : {"challenged", "signed in"}] :
            [c EXCEPT !.stage = "signed in"] \in [user : Person, stage : {"challenged", "signed in"}]
      OBVIOUS
    <3>2. session # Nothing => session \in [user : Person, stage : {"challenged", "signed in"}]
      BY DEF BrowserSound, BrowserTyped, Browsing!Session
    <3>3. CASE session # Nothing /\ session' = [session EXCEPT !.stage = "signed in"]
      BY <3>1, <3>2, <3>3 DEF Browsing!Session
    <3>4. QED
      BY <2>1, <2>4, <3>3 DEF Browsing!MfaLoginView
  <2>5. QED
    BY <2>1, <2>2, <2>3, <2>4
       DEF Browsing!Refuse, Browsing!Lose, Browsing!MeView, Browsing!TenantMembershipView,
       Browsing!EnforceMfa, Browsing!LogoutView, Browsing!serverVars
<1>7. QED
  BY <1>1, <1>5, <1>6 DEF BrowserSound, BrowserTyped, Browsing!SelectedIsListed

(* The browser makes a call, or clears what it shows.                       *)
LEMMA CallsKeepBrowser ==
  ASSUME BrowserSound, NEW f \in Flow,
         \/ Browsing!loadCurrentUser(f) \/ Browsing!submitCredentials(f)
         \/ Browsing!submitMfaCode(f) \/ Browsing!login(f) \/ Browsing!Logout(f)
         \/ Browsing!clearLocalState(f)
  PROVE  BrowserSound'
<1>1. UNCHANGED <<member, session>>
  BY DEF Browsing!loadCurrentUser, Browsing!submitCredentials, Browsing!submitMfaCode,
     Browsing!login, Browsing!Logout, Browsing!clearLocalState, Browsing!serverVars
<1>2. \/ UNCHANGED <<tenants, selectedTenantId>>
      \/ tenants' = {} /\ selectedTenantId' = Nothing
  BY DEF Browsing!loadCurrentUser, Browsing!submitCredentials, Browsing!submitMfaCode,
     Browsing!login, Browsing!Logout, Browsing!clearLocalState, Browsing!tenantVars
<1>3. flow[f] # Nothing => flow[f] \in FlowCall
  BY DEF BrowserSound, BrowserTyped
<1>4. /\ route' \in {"starting", "login", "shell"}
      /\ currentUser' \in Person \cup {Nothing}
  BY <1>3 DEF Browsing!loadCurrentUser, Browsing!submitCredentials, Browsing!submitMfaCode,
     Browsing!login, Browsing!Logout, Browsing!clearLocalState, Browsing!Guarded, Browsing!Answered,
     Browsing!Idle, Browsing!authVars, Browsing!tenantVars, FlowCall, BrowserSound, BrowserTyped
<1>5. mfaPending' \in BOOLEAN
  <2>1. \/ mfaPending' = mfaPending \/ mfaPending' = FALSE \/ mfaPending' = TRUE
    BY Zenon DEF Browsing!loadCurrentUser, Browsing!submitCredentials, Browsing!submitMfaCode,
       Browsing!login, Browsing!Logout, Browsing!clearLocalState, Browsing!authVars
  <2>2. QED
    BY <2>1, Zenon DEF BrowserSound, BrowserTyped
<1>6. \/ Browsing!Ends(f)
      \/ \E user \in Person : Browsing!Makes(f, "login", user)
      \/ \E name \in {"mfa", "tenants", "logout"} : Browsing!Makes(f, name, Nothing)
  BY DEF Browsing!loadCurrentUser, Browsing!submitCredentials, Browsing!submitMfaCode,
     Browsing!login, Browsing!Logout, Browsing!clearLocalState
<1>7. /\ flow' \in [Flow -> FlowCall \cup {Nothing}]
      /\ \A g \in Flow : LoginNames(g)'
  <2>1. \E next \in FlowCall \cup {Nothing} :
          /\ flow' = [flow EXCEPT ![f] = next]
          /\ next # Nothing /\ next.call = "login" /\ next.reply = "none" => next.user \in Person
    <3>1. CASE Browsing!Ends(f)
      BY <3>1 DEF Browsing!Ends
    <3>2. ASSUME NEW name \in {"mfa", "tenants", "logout", "login"}, NEW user \in Person \cup {Nothing},
                 Browsing!Makes(f, name, user), name = "login" => user \in Person
          PROVE  \E next \in FlowCall \cup {Nothing} :
                   /\ flow' = [flow EXCEPT ![f] = next]
                   /\ next # Nothing /\ next.call = "login" /\ next.reply = "none" => next.user \in Person
      <4>1. selectedTenantId \in Tenant \cup {Nothing}
        BY DEF BrowserSound, BrowserTyped
      <4> DEFINE made == [call |-> name, user |-> user, header |-> selectedTenantId, reply |-> "none",
                          list |-> {}]
      <4>2. made \in FlowCall /\ made.call = name /\ made.user = user
        BY <4>1 DEF FlowCall, Browsing!Reply
      <4>3. flow' = [flow EXCEPT ![f] = made]
        BY <3>2 DEF Browsing!Makes, Browsing!Call
      <4> HIDE DEF made
      <4>4. QED
        BY <3>2, <4>2, <4>3
    <3>3. QED
      BY <1>6, <3>1, <3>2
  <2>2. QED
    BY <2>1, CallMovesBrowser
<1>8. QED
  BY <1>1, <1>2, <1>4, <1>5, <1>7 DEF BrowserSound, BrowserTyped, Browsing!SelectedIsListed

(* The tenants of a reply, and the selection kept, replaced or dropped.     *)
LEMMA ReselectedListed ==
  ASSUME NEW list \in SUBSET Tenant, selectedTenantId \in Tenant \cup {Nothing}
  PROVE  /\ Browsing!Reselected(list) \in Tenant \cup {Nothing}
         /\ Browsing!Reselected(list) # Nothing => Browsing!Reselected(list) \in list
<1>1. CASE selectedTenantId \in list
  BY <1>1 DEF Browsing!Reselected
<1>2. CASE selectedTenantId \notin list /\ Browsing!Cardinality(list) = 1
  <2>1. list # {}
    BY <1>2, SameCardinality, FS_EmptySet
  <2>2. (CHOOSE t \in list : TRUE) \in list
    BY <2>1
  <2>3. QED
    BY <1>2, <2>2 DEF Browsing!Reselected
<1>3. CASE selectedTenantId \notin list /\ Browsing!Cardinality(list) # 1
  BY <1>3 DEF Browsing!Reselected
<1>4. QED
  BY <1>1, <1>2, <1>3

LEMMA LoadKeepsBrowser ==
  ASSUME BrowserSound, NEW f \in Flow, Browsing!loadTenants(f)
  PROVE  BrowserSound'
<1>1. UNCHANGED <<member, session, currentUser, mfaPending>>
  BY DEF Browsing!loadTenants, Browsing!serverVars, Browsing!authVars
<1>2. flow' = [flow EXCEPT ![f] = Nothing] /\ route' \in {"starting", "login", "shell"}
  BY DEF Browsing!loadTenants, Browsing!Ends, Browsing!Guarded
<1>3. /\ flow' \in [Flow -> FlowCall \cup {Nothing}]
      /\ \A g \in Flow : LoginNames(g)'
  BY <1>2, CallMovesBrowser
<1>4. flow[f] \in FlowCall
  BY DEF Browsing!loadTenants, Browsing!Answered, Browsing!Idle, BrowserSound, BrowserTyped
<1>5. /\ tenants' \subseteq Tenant /\ selectedTenantId' \in Tenant \cup {Nothing}
      /\ Browsing!SelectedIsListed'
  <2>1. CASE flow[f].reply = "ok"
    <3>1. flow[f].list \in SUBSET Tenant
      BY <1>4 DEF FlowCall
    <3>2. tenants' = flow[f].list /\ selectedTenantId' = Browsing!Reselected(flow[f].list)
      BY <2>1 DEF Browsing!loadTenants
    <3>3. selectedTenantId \in Tenant \cup {Nothing}
      BY DEF BrowserSound, BrowserTyped
    <3>4. QED
      BY <3>1, <3>2, <3>3, ReselectedListed DEF Browsing!SelectedIsListed
  <2>2. CASE flow[f].reply # "ok"
    BY <2>2 DEF Browsing!loadTenants, Browsing!tenantVars, BrowserSound, BrowserTyped,
       Browsing!SelectedIsListed
  <2>3. QED
    BY <2>1, <2>2
<1>6. QED
  BY <1>1, <1>2, <1>3, <1>5 DEF BrowserSound, BrowserTyped

(* A page that starts asks who is signed in, with the selection it kept.    *)
LEMMA PageStarts ==
  ASSUME NEW header \in Tenant \cup {Nothing},
         flow' = [f \in Flow |-> IF f = Startup
                    THEN [call |-> "me", user |-> Nothing, header |-> header, reply |-> "none",
                          list |-> {}] ELSE Nothing]
  PROVE  /\ flow' \in [Flow -> FlowCall \cup {Nothing}]
         /\ \A g \in Flow : LoginNames(g)'
<1> DEFINE asked == [call |-> "me", user |-> Nothing, header |-> header, reply |-> "none", list |-> {}]
<1>1. asked \in FlowCall /\ asked.call # "login"
  BY DEF FlowCall, Browsing!Reply
<1>2. flow' = [f \in Flow |-> IF f = Startup THEN asked ELSE Nothing]
  OBVIOUS
<1> HIDE DEF asked
<1>3. QED
  BY <1>1, <1>2 DEF LoginNames

LEMMA ReloadKeepsBrowser ==
  ASSUME BrowserSound, NEW kept \in Tenant \cup {Nothing}, Browsing!Reload(kept)
  PROVE  BrowserSound'
<1>1. /\ UNCHANGED <<member, session>> /\ route' = "starting" /\ currentUser' = Nothing
      /\ mfaPending' = FALSE /\ tenants' = {} /\ selectedTenantId' = kept
  BY DEF Browsing!Reload, Browsing!serverVars
<1>2. flow' = [f \in Flow |-> IF f = Startup
                 THEN [call |-> "me", user |-> Nothing, header |-> kept, reply |-> "none",
                       list |-> {}] ELSE Nothing]
  BY DEF Browsing!Reload, Browsing!Call
<1>3. /\ flow' \in [Flow -> FlowCall \cup {Nothing}]
      /\ \A g \in Flow : LoginNames(g)'
  BY <1>2, PageStarts
<1>4. mfaPending' \in BOOLEAN
  BY <1>1, Zenon
<1>5. QED
  BY <1>1, <1>3, <1>4 DEF BrowserSound, BrowserTyped, Browsing!SelectedIsListed

LEMMA BrowserStep ==
  ASSUME BrowserSound, [Browsing!Next]_browserVars
  PROVE  BrowserSound'
<1>1. CASE UNCHANGED browserVars
  BY <1>1 DEF browserVars, BrowserSound, BrowserTyped, LoginNames, Browsing!SelectedIsListed
<1>2. CASE Browsing!SessionExpires \/ Browsing!MembershipChanges
  <2>1. UNCHANGED <<route, currentUser, mfaPending, tenants, selectedTenantId, flow>>
    BY <1>2 DEF Browsing!SessionExpires, Browsing!MembershipChanges, Browsing!authVars,
       Browsing!tenantVars
  <2>2. session' \in Browsing!Session
    BY <1>2 DEF Browsing!SessionExpires, Browsing!MembershipChanges, Browsing!Session,
       BrowserSound, BrowserTyped
  <2>3. member' \in [Person -> SUBSET Tenant]
    BY <1>2 DEF Browsing!SessionExpires, Browsing!MembershipChanges, BrowserSound, BrowserTyped
  <2>4. QED
    BY <2>1, <2>2, <2>3 DEF BrowserSound, BrowserTyped, LoginNames, Browsing!SelectedIsListed
<1>3. CASE Browsing!ReloadPage \/ Browsing!onSelectTenant
  <2>1. \E kept \in Tenant \cup {Nothing} : Browsing!Reload(kept)
    BY <1>3 DEF Browsing!ReloadPage, Browsing!onSelectTenant, BrowserSound, BrowserTyped
  <2>2. QED
    BY <2>1, ReloadKeepsBrowser
<1>4. QED
  BY <1>1, <1>2, <1>3, ServesKeepBrowser, CallsKeepBrowser, LoadKeepsBrowser DEF Browsing!Next

LEMMA BrowserInit ==
  ASSUME Browsing!Init
  PROVE  BrowserSound
<1> DEFINE asked == [call |-> "me", user |-> Nothing, header |-> Nothing, reply |-> "none", list |-> {}]
<1>1. asked \in FlowCall /\ asked.call # "login"
  BY DEF FlowCall, Browsing!Reply
<1>2. flow = [f \in Flow |-> IF f = Startup THEN asked ELSE Nothing]
  BY DEF Browsing!Init
<1> HIDE DEF asked
<1>3. flow \in [Flow -> FlowCall \cup {Nothing}] /\ \A f \in Flow : LoginNames(f)
  BY <1>1, <1>2 DEF LoginNames
<1>4. mfaPending \in BOOLEAN
  BY Zenon DEF Browsing!Init
<1>5. session \in Browsing!Session
  BY DEF Browsing!Init, Browsing!Session
<1>6. QED
  BY <1>3, <1>4, <1>5 DEF Browsing!Init, BrowserSound, BrowserTyped, Browsing!SelectedIsListed

(* The invariant gives what the run checks of the browser's session.        *)
LEMMA BrowserShows ==
  ASSUME BrowserSound
  PROVE  Browsing!TypeOK /\ Browsing!SelectedIsListed
<1>1. \A f \in Flow : ~Browsing!Idle(f) =>
        /\ flow[f].call \in {"me", "login", "mfa", "tenants", "logout"}
        /\ flow[f].reply \in Browsing!Reply
  BY DEF BrowserSound, BrowserTyped, Browsing!Idle, FlowCall
<1>2. QED
  BY <1>1, Zenon DEF BrowserSound, BrowserTyped, Browsing!TypeOK

-----------------------------------------------------------------------------
(* The whole.                                                               *)

(* A step of the whole is a step of one part, or none, and the others rest. *)
LEMMA EachPartSteps ==
  ASSUME [AllNext]_allVars
  PROVE  /\ [Next]_vars
         /\ [Guests!Next]_guestVars /\ [Consents!Next]_consentVars
         /\ [Policies!Next]_policyVars /\ [Calendar!Next]_calendarVars
         /\ [Provisioning!Next]_tenantVars /\ [Team!Next]_teamVars
         /\ [Prices!Next]_priceVars /\ [Account!Next]_accountVars
         /\ [Stores!Next]_storeVars /\ [Browsing!Next]_browserVars
         /\ part' = part
<1>1. UNCHANGED notificationVars => UNCHANGED vars
  BY DEF vars, rows, provider, notificationVars
<1>2. CASE UNCHANGED allVars
  <2>1. /\ UNCHANGED notificationVars /\ UNCHANGED guestVars /\ UNCHANGED consentVars
        /\ UNCHANGED policyVars /\ UNCHANGED calendarVars /\ UNCHANGED tenantVars
        /\ UNCHANGED teamVars /\ UNCHANGED priceVars /\ UNCHANGED accountVars
        /\ UNCHANGED storeVars /\ UNCHANGED browserVars /\ part' = part
    BY <1>2 DEF allVars
  <2>2. QED
    BY <1>1, <2>1
<1>3. CASE AllNext
  <2>1. /\ FoldingNext \/ Next \/ UNCHANGED notificationVars
        /\ (part = "guests" /\ Guests!Next) \/ UNCHANGED guestVars
        /\ (part = "consents" /\ Consents!Next) \/ UNCHANGED consentVars
        /\ (part = "policies" /\ Policies!Next) \/ UNCHANGED policyVars
        /\ (part = "calendar" /\ Calendar!Next) \/ UNCHANGED calendarVars
        /\ (part = "tenants" /\ Provisioning!Next) \/ UNCHANGED tenantVars
        /\ (part = "team" /\ Team!Next) \/ UNCHANGED teamVars
        /\ (part = "prices" /\ Prices!Next) \/ UNCHANGED priceVars
        /\ (part = "account" /\ Account!Next) \/ UNCHANGED accountVars
        /\ (part = "stores" /\ Stores!Next) \/ UNCHANGED storeVars
        /\ (part = "browser" /\ Browsing!Next) \/ UNCHANGED browserVars
        /\ part' = part
    BY <1>3 DEF AllNext
  <2>2. FoldingNext => Next
    BY DEF FoldingNext, Next
  <2>3. QED
    BY <1>1, <2>1, <2>2
<1>4. QED
  BY <1>2, <1>3

(* Every part keeps its invariant.                                          *)
LEMMA GuestsAlwaysSound == AllSpec => []GuestsSound
<1>1. AllInit => GuestsSound
  BY BackOfficeAssumption, GuestsInit DEF AllInit
<1>2. GuestsSound /\ [AllNext]_allVars => GuestsSound'
  BY BackOfficeAssumption, EachPartSteps, GuestsStep
<1>3. QED
  BY <1>1, <1>2, PTL DEF AllSpec

LEMMA ConsentsAlwaysSound == AllSpec => []ConsentsSound
<1>1. AllInit => ConsentsSound
  BY BackOfficeAssumption, ConsentsInit DEF AllInit
<1>2. ConsentsSound /\ [AllNext]_allVars => ConsentsSound'
  BY BackOfficeAssumption, EachPartSteps, ConsentsStep
<1>3. QED
  BY <1>1, <1>2, PTL DEF AllSpec

LEMMA PoliciesAlwaysSound == AllSpec => []PolicySound
<1>1. AllInit => PolicySound
  BY BackOfficeAssumption, PolicyInit DEF AllInit
<1>2. PolicySound /\ [AllNext]_allVars => PolicySound'
  BY BackOfficeAssumption, EachPartSteps, PolicyStep
<1>3. QED
  BY <1>1, <1>2, PTL DEF AllSpec

LEMMA CalendarAlwaysSound == AllSpec => []CalendarSound
<1>1. AllInit => CalendarSound
  BY BackOfficeAssumption, CalendarInit DEF AllInit
<1>2. CalendarSound /\ [AllNext]_allVars => CalendarSound'
  BY BackOfficeAssumption, EachPartSteps, CalendarStep
<1>3. QED
  BY <1>1, <1>2, PTL DEF AllSpec

LEMMA TenantsAlwaysSound == AllSpec => []TenantSound
<1>1. AllInit => TenantSound
  BY BackOfficeAssumption, TenantInit DEF AllInit
<1>2. TenantSound /\ [AllNext]_allVars => TenantSound'
  BY BackOfficeAssumption, EachPartSteps, TenantStep
<1>3. QED
  BY <1>1, <1>2, PTL DEF AllSpec

LEMMA TeamAlwaysSound == AllSpec => []TeamSound
<1>1. AllInit => TeamSound
  BY BackOfficeAssumption, TeamInit DEF AllInit
<1>2. TeamSound /\ [AllNext]_allVars => TeamSound'
  BY BackOfficeAssumption, EachPartSteps, TeamStep
<1>3. QED
  BY <1>1, <1>2, PTL DEF AllSpec

LEMMA PricesAlwaysSound == AllSpec => []PriceSound
<1>1. AllInit => PriceSound
  BY BackOfficeAssumption, PriceInit DEF AllInit
<1>2. PriceSound /\ [AllNext]_allVars => PriceSound'
  BY BackOfficeAssumption, EachPartSteps, PriceStep
<1>3. QED
  BY <1>1, <1>2, PTL DEF AllSpec

LEMMA AccountAlwaysSound == AllSpec => []AccountSound
<1>1. AllInit => AccountSound
  BY BackOfficeAssumption, AccountInit DEF AllInit
<1>2. AccountSound /\ [AllNext]_allVars => AccountSound'
  BY BackOfficeAssumption, EachPartSteps, AccountStep
<1>3. QED
  BY <1>1, <1>2, PTL DEF AllSpec

LEMMA StoresAlwaysSound == AllSpec => []StoresSound
<1>1. AllInit => StoresSound
  BY BackOfficeAssumption, StoresInit DEF AllInit
<1>2. StoresSound /\ [AllNext]_allVars => StoresSound'
  BY BackOfficeAssumption, EachPartSteps, StoresStep
<1>3. QED
  BY <1>1, <1>2, PTL DEF AllSpec

LEMMA BrowserAlwaysSound == AllSpec => []BrowserSound
<1>1. AllInit => BrowserSound
  BY BackOfficeAssumption, BrowserInit DEF AllInit
<1>2. BrowserSound /\ [AllNext]_allVars => BrowserSound'
  BY BackOfficeAssumption, EachPartSteps, BrowserStep
<1>3. QED
  BY <1>1, <1>2, PTL DEF AllSpec

(* Of the notifications the whole is a behaviour of their module.           *)
LEMMA NotificationsKeepTypes == AllSpec => []TypeOK
<1>1. AllInit => Init
  BY DEF AllInit
<1>2. [AllNext]_allVars => [Next]_vars
  BY EachPartSteps
<1>3. AllSpec => Spec
  BY <1>1, <1>2, PTL DEF AllSpec, Spec
<1>4. QED
  BY <1>3, DeliveryTypeCorrect, PTL

LEMMA PartStands == AllSpec => [](part \in Part)
<1>1. AllInit => part \in Part
  BY DEF AllInit
<1>2. part \in Part /\ [AllNext]_allVars => (part \in Part)'
  BY EachPartSteps
<1>3. QED
  BY <1>1, <1>2, PTL DEF AllSpec

-----------------------------------------------------------------------------
(* The types of every part of the back office (apps/notifications, guests,  *)
(* policies, availability, tenancy, accounts, pricing and the browser), at  *)
(* every step of it.                                                        *)
THEOREM BackOfficeTypeCorrect == AllSpec => []AllTypesOK
<1>1. /\ part \in Part /\ TypeOK /\ GuestsSound /\ ConsentsSound /\ PolicySound /\ CalendarSound
      /\ TenantSound /\ TeamSound /\ PriceSound /\ AccountSound /\ StoresSound /\ BrowserSound
      => AllTypesOK
  <2>1. SUFFICES ASSUME part \in Part, TypeOK, GuestsSound, ConsentsSound, PolicySound,
                        CalendarSound, TenantSound, TeamSound, PriceSound, AccountSound,
                        StoresSound, BrowserSound
                 PROVE  AllTypesOK
    OBVIOUS
  <2>2. part \in {"folding", "notifications", "guests", "consents", "policies", "calendar",
                  "tenants", "team", "prices", "account", "stores", "browser"}
    BY <2>1, BackOfficeAssumption
  <2>3. /\ Guests!TypeOK /\ Consents!TypeOK /\ Policies!TypeOK /\ Calendar!TypeOK
        /\ Provisioning!TypeOK /\ Team!TypeOK /\ Prices!TypeOK /\ Account!TypeOK
        /\ Stores!TypeOK /\ Browsing!TypeOK
    BY <2>1, BackOfficeAssumption, GuestsShow, ConsentsShow, PoliciesShow, CalendarShows,
       TenantsShow, TeamShow, PricesShow, AccountShows, StoresShow, BrowserShows
  <2>4. QED
    BY <2>1, <2>2, <2>3 DEF AllTypesOK
<1>2. QED
  BY <1>1, PartStands, NotificationsKeepTypes, GuestsAlwaysSound, ConsentsAlwaysSound,
     PoliciesAlwaysSound, CalendarAlwaysSound, TenantsAlwaysSound, TeamAlwaysSound,
     PricesAlwaysSound, AccountAlwaysSound, StoresAlwaysSound, BrowserAlwaysSound, PTL

(* resolve(), merge(), erase() and the consents of guests/services.py:      *)
(* requests that resolve one contact are answered with one profile, and for *)
(* every purpose the consent on file is what the guest said last, whatever  *)
(* requests run at the same time.                                           *)
THEOREM GuestFilesStand == AllSpec => []GuestsStand
<1>1. GuestsSound /\ ConsentsSound => GuestsStand
  BY BackOfficeAssumption, GuestsShow, ConsentsShow DEF GuestsStand
<1>2. QED
  BY <1>1, GuestsAlwaysSound, ConsentsAlwaysSound, PTL

(* A guest's erasure is final: no call that read the profile before it, nor *)
(* any later one, gives the row a contact again.                            *)
THEOREM ErasureStands == AllSpec => ErasureIsFinal
<1>1. GuestsSound /\ GuestsSound' /\ [AllNext]_allVars =>
        [\A p \in Guests!Id :
           profile[p] # Nothing /\ profile[p].erased
           => /\ profile'[p] # Nothing /\ profile'[p].erased
              /\ profile'[p].email = Nothing /\ profile'[p].phone = Nothing]_Guests!vars
  BY BackOfficeAssumption, EachPartSteps, ErasedStays
<1>2. QED
  BY <1>1, GuestsAlwaysSound, PTL DEF AllSpec, ErasureIsFinal, Guests!ErasureIsFinal

(* What the hotel offers: of a policy one version at most is published for  *)
(* a day and no two of its versions share a number (policies/services.py),  *)
(* and the nights ahead are open, stored in a partition and counted by the  *)
(* stays that hold them (availability/partitioning.py, services.py).        *)
THEOREM OfferAlwaysStands == AllSpec => []OfferStands
<1>1. PolicySound /\ CalendarSound => OfferStands
  BY BackOfficeAssumption, PoliciesShow, CalendarShows DEF OfferStands
<1>2. QED
  BY <1>1, PoliciesAlwaysSound, CalendarAlwaysSound, PTL

(* What a member of staff holds: the roles of an accepted invitation, in a  *)
(* tenant that was provisioned whole and whose rows no other tenant's       *)
(* request writes, and an account that its lockout and its devices guard    *)
(* (accounts/services.py, tenants/services.py, accounts/middleware.py).     *)
THEOREM AccountsAlwaysStand == AllSpec => []AccountsStand
<1>1. TeamSound /\ TenantSound /\ AccountSound => AccountsStand
  BY BackOfficeAssumption, TeamShow, TenantsShow, AccountShows DEF AccountsStand
<1>2. QED
  BY <1>1, TeamAlwaysSound, TenantsAlwaysSound, AccountAlwaysSound, PTL

(* PricingService.price(): a quote that is answered adds up from what it    *)
(* has read, every night with every override and modifier that applies to   *)
(* it, and its total is that sum or the bound the sum has crossed.          *)
THEOREM QuotesAlwaysAddUp == AllSpec => []QuotesAddUp
<1>1. PriceSound => QuotesAddUp
  BY BackOfficeAssumption, PricesShow DEF QuotesAddUp
<1>2. QED
  BY <1>1, PricesAlwaysSound, PTL

(* The stores of the frontend: a signal shows the answer to the latest of   *)
(* the calls that write it, however the answers cross, and a tenant that is *)
(* selected is on the list beside it (tenant.service.ts).                   *)
THEOREM ScreenStaysCurrent == AllSpec => []ScreenIsCurrent
<1>1. StoresSound /\ BrowserSound => ScreenIsCurrent
  BY BackOfficeAssumption, StoresShow, BrowserShows DEF ScreenIsCurrent
<1>2. QED
  BY <1>1, StoresAlwaysSound, BrowserAlwaysSound, PTL
=============================================================================
