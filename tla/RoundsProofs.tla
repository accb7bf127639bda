----------------------------- MODULE RoundsProofs -----------------------------
(***************************************************************************)
(* What rounds do to delegates and coins, for every value of the           *)
(* constants and any number of blocks: the missed blocks of a delegate,    *)
(* that no coins appear or get lost, and that votes weigh what is locked.  *)
(*                                                                         *)
(* All are about the tables of a block, so each contract is shown to leave *)
(* people in order (Proceeds), to move coins as told (CoinsMoved) and to   *)
(* keep votes and stakes in line (Voted), then the transactions of a       *)
(* block, in any number (Advances, StakeSession), and what committing it   *)
(* does (BlockEffect, CoinsEffect, SameStakes).                            *)
(* That the forgers of a round are delegates, whom applyRound pays, needs  *)
(* an invariant of the steps (ListedInv): a block has the delegate it is   *)
(* proposed by, listed in the tables it is committed over.  The tables of  *)
(* all heights then follow by induction over the height.                   *)
(***************************************************************************)
EXTENDS ExecutionProofs

-----------------------------------------------------------------------------
(***************************************************************************)
(* What is true of accounts and delegates: finitely many of both, a name   *)
(* has one owner, and a delegate is named as the account behind it, which  *)
(* knows that it is a delegate.                                            *)
(***************************************************************************)
AccountRow(row) ==
  /\ row = [username |-> row.username, gny |-> row.gny, secondPublicKey |-> row.secondPublicKey,
            isDelegate |-> row.isDelegate, isLocked |-> row.isLocked,
            lockHeight |-> row.lockHeight, lockAmount |-> row.lockAmount]
  /\ row.isDelegate \in BOOLEAN /\ row.lockAmount \in Nat

DelegateRow(row) ==
  /\ row = [address |-> row.address, votes |-> row.votes, producedBlocks |-> row.producedBlocks,
            missedBlocks |-> row.missedBlocks, fees |-> row.fees, rewards |-> row.rewards]
  /\ row.votes \in Int /\ row.missedBlocks \in Int

AccountsOK(accounts) ==
  /\ IsFiniteSet(DOMAIN accounts)
  /\ \A a \in DOMAIN accounts : AccountRow(accounts[a])
  /\ \A a, b \in DOMAIN accounts :
       accounts[a].username # NoName /\ accounts[a].username = accounts[b].username => a = b

Owns(accounts, a, d) ==
  a \in DOMAIN accounts /\ accounts[a].username = d /\ accounts[a].isDelegate

DelegatesOK(accounts, delegates) ==
  /\ IsFiniteSet(DOMAIN delegates)
  /\ \A d \in DOMAIN delegates : /\ d # NoName /\ d \in DOMAIN PublicKeyRank
                                 /\ DelegateRow(delegates[d])
                                 /\ Owns(accounts, delegates[d].address, d)

NamesRanked(accounts) ==
  \A a \in DOMAIN accounts :
    accounts[a].username # NoName => accounts[a].username \in DOMAIN PublicKeyRank

PeopleOK(v) ==
  /\ AccountsOK(v.account) /\ NamesRanked(v.account)
  /\ DelegatesOK(v.account, v.delegate)

-----------------------------------------------------------------------------
(* The list of delegates, in the order of votes and keys *)

Comparable(delegate) ==
  /\ IsFiniteSet(DOMAIN delegate)
  /\ \A d \in DOMAIN delegate : d \in DOMAIN PublicKeyRank /\ delegate[d].votes \in Int

LEMMA DelegatesCompare ==
  ASSUME NEW v, PeopleOK(v)
  PROVE  Comparable(v.delegate)
BY DEF PeopleOK, DelegatesOK, DelegateRow, Comparable

LEMMA PrecedesOrder ==
  ASSUME NEW delegate, Comparable(delegate)
  PROVE  /\ \A d \in DOMAIN delegate : ~ Precedes(delegate, d, d)
         /\ \A d, e \in DOMAIN delegate : d # e => Precedes(delegate, d, e) \/ Precedes(delegate, e, d)
         /\ \A d, e, f \in DOMAIN delegate :
              Precedes(delegate, d, e) /\ Precedes(delegate, e, f) => Precedes(delegate, d, f)
<1>1. ASSUME NEW d \in DOMAIN delegate
      PROVE  delegate[d].votes \in Int /\ PublicKeyRank[d] \in Nat
  BY RoundsAssumption DEF Comparable
<1>2. ASSUME NEW d \in DOMAIN delegate, NEW e \in DOMAIN delegate, d # e
      PROVE  PublicKeyRank[d] # PublicKeyRank[e]
  BY <1>2, RoundsAssumption DEF Comparable
<1>3. \A d \in DOMAIN delegate : ~ Precedes(delegate, d, d)
  BY <1>1 DEF Precedes
<1>4. \A d, e \in DOMAIN delegate : d # e => Precedes(delegate, d, e) \/ Precedes(delegate, e, d)
  BY <1>1, <1>2 DEF Precedes
<1>5. \A d, e, f \in DOMAIN delegate :
        Precedes(delegate, d, e) /\ Precedes(delegate, e, f) => Precedes(delegate, d, f)
  BY <1>1 DEF Precedes
<1> QED BY <1>3, <1>4, <1>5

Before(delegate, d) == {e \in DOMAIN delegate : Precedes(delegate, e, d)}

LEMMA PlaceType ==
  ASSUME NEW delegate, Comparable(delegate), NEW d \in DOMAIN delegate
  PROVE  /\ IsFiniteSet(Before(delegate, d))
         /\ Place(delegate, d) = Cardinality(Before(delegate, d)) + 1
         /\ Place(delegate, d) \in 1 .. Cardinality(DOMAIN delegate)
<1>1. IsFiniteSet(DOMAIN delegate) /\ Before(delegate, d) \subseteq DOMAIN delegate
  BY DEF Comparable, Before
<1>2. IsFiniteSet(Before(delegate, d))
  BY <1>1, FS_Subset
<1>3. Place(delegate, d) = Cardinality(Before(delegate, d)) + 1
  BY DEF Place, Before
<1>4. d \in DOMAIN delegate \ Before(delegate, d)
  BY PrecedesOrder DEF Before
<1>5. /\ Cardinality(Before(delegate, d)) \in Nat /\ Cardinality(DOMAIN delegate) \in Nat
      /\ Cardinality(Before(delegate, d)) < Cardinality(DOMAIN delegate)
  <2>1. Cardinality(Before(delegate, d)) <= Cardinality(DOMAIN delegate)
        /\ (Cardinality(Before(delegate, d)) = Cardinality(DOMAIN delegate)
              => Before(delegate, d) = DOMAIN delegate)
    BY <1>1, FS_Subset
  <2> QED BY <1>1, <1>2, <1>4, <2>1, FS_CardinalityType
<1> QED BY <1>2, <1>3, <1>5

LEMMA PlaceGrows ==
  ASSUME NEW delegate, Comparable(delegate),
         NEW d \in DOMAIN delegate, NEW e \in DOMAIN delegate, Precedes(delegate, d, e)
  PROVE  Place(delegate, d) < Place(delegate, e)
<1>1. Before(delegate, d) \subseteq Before(delegate, e) /\ d \in Before(delegate, e)
      /\ d \notin Before(delegate, d)
  BY PrecedesOrder DEF Before
<1>2. /\ IsFiniteSet(Before(delegate, d)) /\ IsFiniteSet(Before(delegate, e))
      /\ Place(delegate, d) = Cardinality(Before(delegate, d)) + 1
      /\ Place(delegate, e) = Cardinality(Before(delegate, e)) + 1
  BY PlaceType
<1>3. Cardinality(Before(delegate, d)) <= Cardinality(Before(delegate, e))
      /\ (Cardinality(Before(delegate, d)) = Cardinality(Before(delegate, e))
            => Before(delegate, d) = Before(delegate, e))
  BY <1>1, <1>2, FS_Subset
<1>4. Cardinality(Before(delegate, d)) \in Nat /\ Cardinality(Before(delegate, e)) \in Nat
  BY <1>2, FS_CardinalityType
<1> QED BY <1>1, <1>2, <1>3, <1>4

(* Every place is somebody's *)
LEMMA PlacesFilled ==
  ASSUME NEW delegate, Comparable(delegate), NEW i \in 1 .. Cardinality(DOMAIN delegate)
  PROVE  \E d \in DOMAIN delegate : Place(delegate, d) = i
<1> DEFINE S == DOMAIN delegate
           n == Cardinality(S)
           place == [d \in S |-> Place(delegate, d)]
<1>1. IsFiniteSet(S) /\ n \in Nat
  BY FS_CardinalityType DEF Comparable
<1>2. \A d \in S : place[d] \in 1 .. n
  BY PlaceType
<1>3. \A d, e \in S : place[d] = place[e] => d = e
  <2>1. SUFFICES ASSUME NEW d \in S, NEW e \in S, d # e PROVE place[d] # place[e]
    OBVIOUS
  <2>2. Precedes(delegate, d, e) \/ Precedes(delegate, e, d)
    BY <2>1, PrecedesOrder
  <2>3. place[d] < place[e] \/ place[e] < place[d]
    BY <2>2, PlaceGrows
  <2> QED BY <1>1, <1>2, <2>3
<1>4. IsFiniteSet(1 .. n) /\ Cardinality(1 .. n) = n
  BY <1>1, FS_Interval
<1>5. place \in Injection(S, 1 .. n)
  BY <1>2, <1>3 DEF Injection, IsInjective
<1>6. place \in Surjection(S, 1 .. n)
  <2> HIDE DEF place
  <2> QED BY <1>4, <1>5, FS_Injection
<1>7. \E d \in S : place[d] = i
  BY <1>6 DEF Surjection
<1> QED BY <1>7

LEMMA SortedOK ==
  ASSUME NEW v, Comparable(v.delegate)
  PROVE  /\ SortedDelegates(v) \in Seq(DOMAIN v.delegate)
         /\ Len(SortedDelegates(v)) = Cardinality(DOMAIN v.delegate)
         /\ Cardinality(DOMAIN v.delegate) \in Nat
<1> DEFINE n == Cardinality(DOMAIN v.delegate)
           sorted == SortedDelegates(v)
<1>1. n \in Nat
  BY FS_CardinalityType DEF Comparable
<1>2. sorted = [i \in 1 .. n |-> CHOOSE d \in DOMAIN v.delegate : Place(v.delegate, d) = i]
  BY DEF SortedDelegates
<1>3. \A i \in 1 .. n : (CHOOSE d \in DOMAIN v.delegate : Place(v.delegate, d) = i) \in DOMAIN v.delegate
  BY PlacesFilled
<1> HIDE DEF n, sorted
<1>4. sorted \in [1 .. n -> DOMAIN v.delegate]
  BY <1>2, <1>3
<1>5. sorted \in Seq(DOMAIN v.delegate) /\ Len(sorted) = n
  BY <1>1, <1>4
<1> QED BY <1>1, <1>5 DEF n, sorted

LEMMA MinOfTwo ==
  ASSUME NEW m \in Nat, NEW n \in Nat
  PROVE  Min({m, n}) = IF m <= n THEN m ELSE n
BY DEF Min

LEMMA Prefix ==
  ASSUME NEW S, NEW s \in Seq(S), NEW m \in 0 .. Len(s)
  PROVE  SubSeq(s, 1, m) \in Seq(S) /\ Len(SubSeq(s, 1, m)) = m
OBVIOUS

LEMMA TopDelegatesOK ==
  ASSUME NEW v, Comparable(v.delegate)
  PROVE  /\ GetTopDelegates(v) \in Seq(DOMAIN v.delegate)
         /\ ToSet(GetTopDelegates(v)) \subseteq DOMAIN v.delegate
<1> DEFINE sorted == SortedDelegates(v)
           n == Cardinality(DOMAIN v.delegate)
           m == Min({RoundLength, Len(sorted)})
           top == SubSeq(sorted, 1, m)
<1>1. sorted \in Seq(DOMAIN v.delegate) /\ Len(sorted) = n /\ n \in Nat /\ RoundLength \in Nat
  BY SortedOK, RoundsAssumption
<1>2. GetTopDelegates(v) = top
  BY DEF GetTopDelegates
<1> HIDE DEF sorted, n
<1>3. m = IF RoundLength <= n THEN RoundLength ELSE n
  BY <1>1, MinOfTwo
<1> HIDE DEF m
<1>4. m \in 0 .. Len(sorted)
  BY <1>1, <1>3
<1>5. top \in Seq(DOMAIN v.delegate)
  BY <1>1, <1>4, Prefix
<1>6. ToSet(top) \subseteq DOMAIN v.delegate
  <2> HIDE DEF top
  <2> QED BY <1>5 DEF ToSet
<1> QED BY <1>2, <1>5, <1>6

(* The list of a round is one of delegates *)
ListsDelegates(v) ==
  v.bookkeeper \in Seq(DOMAIN v.delegate) /\ ToSet(v.bookkeeper) \subseteq DOMAIN v.delegate

LEMMA ListsRemain ==
  ASSUME NEW v, ListsDelegates(v), NEW w, w.bookkeeper = v.bookkeeper,
         DOMAIN v.delegate \subseteq DOMAIN w.delegate
  PROVE  ListsDelegates(w)
<1> DEFINE b == v.bookkeeper
           S == DOMAIN v.delegate
           T == DOMAIN w.delegate
<1>1. b \in Seq(S) /\ ToSet(b) \subseteq S /\ S \subseteq T /\ w.bookkeeper = b
  BY DEF ListsDelegates
<1> HIDE DEF b, S, T
<1>2. b \in Seq(T) /\ ToSet(b) \subseteq T
  BY <1>1
<1> QED BY <1>1, <1>2 DEF ListsDelegates, T

(* Who is on a list *)
LEMMA ListNotEmpty ==
  ASSUME NEW v, ListsDelegates(v), NEW d \in ToSet(v.bookkeeper)
  PROVE  Len(v.bookkeeper) \in Nat \ {0}
<1> DEFINE b == v.bookkeeper
           S == DOMAIN v.delegate
<1>1. b \in Seq(S) /\ d \in {b[i] : i \in DOMAIN b}
  BY DEF ListsDelegates, ToSet
<1> HIDE DEF b, S
<1>2. Len(b) \in Nat \ {0}
  BY <1>1
<1> QED BY <1>2 DEF b

-----------------------------------------------------------------------------
(* Changes that leave everybody who they are *)

AccountsKept(x, y) ==
  /\ IsFiniteSet(DOMAIN y) /\ DOMAIN x \subseteq DOMAIN y
  /\ \A a \in DOMAIN x : /\ AccountRow(y[a])
                         /\ y[a].username = x[a].username /\ y[a].isDelegate = x[a].isDelegate
  /\ \A a \in DOMAIN y \ DOMAIN x : AccountRow(y[a]) /\ y[a].username = NoName

DelegatesKept(x, y) ==
  /\ DOMAIN y = DOMAIN x
  /\ \A d \in DOMAIN x : DelegateRow(y[d]) /\ y[d].address = x[d].address

MissedKept(x, y) == \A d \in DOMAIN x : y[d].missedBlocks = x[d].missedBlocks

LEMMA PeopleKept ==
  ASSUME NEW v, PeopleOK(v), NEW w,
         AccountsKept(v.account, w.account), DelegatesKept(v.delegate, w.delegate)
  PROVE  PeopleOK(w)
<1>1. AccountsOK(w.account)
  BY DEF PeopleOK, AccountsOK, AccountsKept
<1>2. NamesRanked(w.account)
  BY DEF PeopleOK, NamesRanked, AccountsKept
<1>3. DelegatesOK(w.account, w.delegate)
  <2>1. IsFiniteSet(DOMAIN w.delegate)
    BY DEF PeopleOK, DelegatesOK, DelegatesKept
  <2>2. ASSUME NEW d \in DOMAIN w.delegate
        PROVE  /\ d # NoName /\ d \in DOMAIN PublicKeyRank
               /\ DelegateRow(w.delegate[d])
               /\ Owns(w.account, w.delegate[d].address, d)
    BY <2>2 DEF PeopleOK, DelegatesOK, Owns, AccountsKept, DelegatesKept
  <2> QED BY <2>1, <2>2 DEF DelegatesOK
<1> QED BY <1>1, <1>2, <1>3 DEF PeopleOK

LEMMA AccountsSelf ==
  ASSUME NEW x, AccountsOK(x)
  PROVE  AccountsKept(x, x)
BY DEF AccountsOK, AccountsKept

LEMMA DelegatesSelf ==
  ASSUME NEW x, \A d \in DOMAIN x : DelegateRow(x[d])
  PROVE  DelegatesKept(x, x) /\ MissedKept(x, x)
BY DEF DelegatesKept, MissedKept

LEMMA AccountsTwice ==
  ASSUME NEW x, NEW y, NEW z, AccountsKept(x, y), AccountsKept(y, z)
  PROVE  AccountsKept(x, z)
BY DEF AccountsKept

LEMMA DelegatesTwice ==
  ASSUME NEW x, NEW y, NEW z, DelegatesKept(x, y), DelegatesKept(y, z)
  PROVE  DelegatesKept(x, z) /\ (MissedKept(x, y) /\ MissedKept(y, z) => MissedKept(x, z))
BY DEF DelegatesKept, MissedKept

LEMMA PutAccount ==
  ASSUME NEW x, AccountsOK(x), NEW a, NEW row, AccountRow(row),
         a \in DOMAIN x => row.username = x[a].username /\ row.isDelegate = x[a].isDelegate,
         a \notin DOMAIN x => row.username = NoName
  PROVE  AccountsKept(x, With(x, a, row))
<1>1. IsFiniteSet(DOMAIN x \cup {a})
  BY FS_AddElement DEF AccountsOK
<1>2. /\ DOMAIN With(x, a, row) = DOMAIN x \cup {a}
      /\ \A k \in DOMAIN x \cup {a} : With(x, a, row)[k] = IF k = a THEN row ELSE x[k]
  BY DEF With
<1> DEFINE y == With(x, a, row)
<1> HIDE DEF y
<1>3. \A k \in DOMAIN x : /\ AccountRow(y[k])
                          /\ y[k].username = x[k].username /\ y[k].isDelegate = x[k].isDelegate
  BY <1>2 DEF y, AccountsOK
<1>4. \A k \in DOMAIN y \ DOMAIN x : AccountRow(y[k]) /\ y[k].username = NoName
  BY <1>2 DEF y
<1>5. IsFiniteSet(DOMAIN y) /\ DOMAIN x \subseteq DOMAIN y
  BY <1>1, <1>2 DEF y
<1> QED BY <1>3, <1>4, <1>5 DEF AccountsKept, y

LEMMA ExceptIsWith ==
  ASSUME NEW x, NEW a \in DOMAIN x, NEW row
  PROVE  [x EXCEPT ![a] = row] = With(x, a, row)
BY DEF With

LEMMA IncreaseIsWith ==
  ASSUME NEW x, NEW a \in DOMAIN x, NEW amount
  PROVE  Increase(x, {a}, "gny", amount) = With(x, a, [x[a] EXCEPT !.gny = @ + amount])
BY DEF With, Increase

LEMMA IncreaseDelegates ==
  ASSUME NEW x, \A d \in DOMAIN x : DelegateRow(x[d]), NEW names, NEW amount,
         NEW property \in {"votes", "producedBlocks", "fees", "rewards"},
         property = "votes" => amount \in Int
  PROVE  LET y == Increase(x, names, property, amount) IN DelegatesKept(x, y) /\ MissedKept(x, y)
<1> DEFINE y == Increase(x, names, property, amount)
<1>1. /\ DOMAIN y = DOMAIN x
      /\ \A d \in DOMAIN x : y[d] = IF d \in names THEN [x[d] EXCEPT ![property] = @ + amount] ELSE x[d]
  BY DEF Increase
<1> HIDE DEF y
<1>2. ASSUME NEW row, DelegateRow(row), NEW r, r = [row EXCEPT ![property] = @ + amount]
      PROVE  DelegateRow(r) /\ r.address = row.address /\ r.missedBlocks = row.missedBlocks
  <2>1. CASE property = "votes"
    <3>1. r = [row EXCEPT !.votes = row.votes + amount]
      BY <1>2, <2>1
    <3>2. row.votes + amount \in Int
      BY <1>2, <2>1 DEF DelegateRow
    <3> QED BY <1>2, <3>1, <3>2 DEF DelegateRow
  <2>2. CASE property = "producedBlocks"
    BY <1>2, <2>2 DEF DelegateRow
  <2>3. CASE property = "fees"
    BY <1>2, <2>3 DEF DelegateRow
  <2>4. CASE property = "rewards"
    BY <1>2, <2>4 DEF DelegateRow
  <2> QED BY <2>1, <2>2, <2>3, <2>4
<1>3. ASSUME NEW d \in DOMAIN x
      PROVE  DelegateRow(y[d]) /\ y[d].address = x[d].address /\ y[d].missedBlocks = x[d].missedBlocks
  BY <1>1, <1>2
<1> QED BY <1>1, <1>3 DEF y, DelegatesKept, MissedKept

LEMMA IncreaseMissed ==
  ASSUME NEW x, \A d \in DOMAIN x : DelegateRow(x[d]), NEW names
  PROVE  LET y == Increase(x, names, "missedBlocks", 1)
         IN  /\ DelegatesKept(x, y)
             /\ \A d \in DOMAIN x :
                  y[d].missedBlocks = x[d].missedBlocks + (IF d \in names THEN 1 ELSE 0)
<1> DEFINE y == Increase(x, names, "missedBlocks", 1)
<1>1. /\ DOMAIN y = DOMAIN x
      /\ \A d \in DOMAIN x : y[d] = IF d \in names THEN [x[d] EXCEPT !.missedBlocks = @ + 1] ELSE x[d]
  BY DEF Increase
<1> HIDE DEF y
<1>2. ASSUME NEW row, DelegateRow(row), NEW r, r = [row EXCEPT !.missedBlocks = @ + 1]
      PROVE  DelegateRow(r) /\ r.address = row.address /\ r.missedBlocks = row.missedBlocks + 1
  BY <1>2 DEF DelegateRow
<1>3. ASSUME NEW d \in DOMAIN x
      PROVE  /\ DelegateRow(y[d]) /\ y[d].address = x[d].address
             /\ y[d].missedBlocks = x[d].missedBlocks + (IF d \in names THEN 1 ELSE 0)
  <2>1. x[d].missedBlocks \in Int
    BY DEF DelegateRow
  <2> QED BY <1>1, <1>2, <2>1
<1> QED BY <1>1, <1>3 DEF y, DelegatesKept

-----------------------------------------------------------------------------
(* Coins *)

Purse(row) == row.gny + row.lockAmount

Purses(x) == IsFiniteSet(DOMAIN x) /\ \A a \in DOMAIN x : x[a].gny \in Int /\ x[a].lockAmount \in Nat

CoinsIn(x) == Sum([a \in DOMAIN x |-> Purse(x[a])], DOMAIN x)

CoinsMoved(x, y, amount) == Purses(x) => Purses(y) /\ CoinsIn(y) = CoinsIn(x) + amount

LEMMA CoinsInt == ASSUME NEW x, Purses(x) PROVE CoinsIn(x) \in Int
<1> DEFINE f == [a \in DOMAIN x |-> Purse(x[a])]
<1>1. \A a \in DOMAIN x : f[a] \in Int
  BY DEF Purses, Purse
<1> HIDE DEF f
<1>2. Sum(f, DOMAIN x) \in Int
  BY <1>1, SumType DEF Purses
<1> QED BY <1>2 DEF f, CoinsIn

LEMMA CoinsSelf == ASSUME NEW x PROVE CoinsMoved(x, x, 0)
BY CoinsInt DEF CoinsMoved

LEMMA CoinsTwice ==
  ASSUME NEW x, NEW y, NEW z, NEW a \in Int, NEW b \in Int, CoinsMoved(x, y, a), CoinsMoved(y, z, b)
  PROVE  CoinsMoved(x, z, a + b)
BY CoinsInt DEF CoinsMoved

(* The sum once the value of one key is set *)
LEMMA SumPut ==
  ASSUME NEW S, IsFiniteSet(S), NEW f, \A k \in S : f[k] \in Int, NEW a,
         NEW g, g[a] \in Int, \A k \in S \ {a} : g[k] = f[k]
  PROVE  Sum(g, S \cup {a}) = Sum(f, S) + (g[a] - (IF a \in S THEN f[a] ELSE 0))
<1>1. Sum(f, S) \in Int
  BY SumType
<1>2. CASE a \in S
  <2>1. Sum(g, S) = Sum(f, S) - f[a] + g[a]
    BY <1>2, SumChange
  <2>2. S \cup {a} = S
    BY <1>2
  <2>3. Sum(g, S) = Sum(f, S) + (g[a] - f[a])
    BY <1>1, <1>2, <2>1
  <2>4. Sum(g, S \cup {a}) = Sum(f, S) + (g[a] - f[a])
    BY ONLY <2>2, <2>3
  <2> QED BY <1>2, <2>4
<1>3. CASE a \notin S
  <2>1. \A k \in S : g[k] = f[k]
    BY <1>3
  <2>2. Sum(g, S \cup {a}) = Sum(f, S) + g[a]
    BY <1>3, <2>1, SumAdd
  <2> QED BY <1>1, <1>3, <2>2
<1> QED BY <1>2, <1>3

LEMMA PutCoins ==
  ASSUME NEW x, Purses(x), NEW a, NEW row, row.gny \in Int, row.lockAmount \in Nat
  PROVE  LET y == With(x, a, row)
         IN  /\ Purses(y)
             /\ CoinsIn(y) = CoinsIn(x) + (Purse(row) - (IF a \in DOMAIN x THEN Purse(x[a]) ELSE 0))
<1> DEFINE y == With(x, a, row)
           f == [k \in DOMAIN x |-> Purse(x[k])]
           g == [k \in DOMAIN y |-> Purse(y[k])]
           S == DOMAIN x
<1>1. IsFiniteSet(S) /\ \A k \in S : x[k].gny \in Int /\ x[k].lockAmount \in Nat
  BY DEF Purses
<1>2. DOMAIN y = S \cup {a} /\ \A k \in S \cup {a} : y[k] = IF k = a THEN row ELSE x[k]
  BY DEF With
<1> HIDE DEF y
<1>3. IsFiniteSet(S \cup {a})
  BY <1>1, FS_AddElement
<1>4. Purses(y)
  BY <1>1, <1>2, <1>3 DEF Purses
<1>5. /\ \A k \in S : f[k] \in Int
      /\ \A k \in S : f[k] = Purse(x[k])
      /\ g[a] = Purse(row) /\ g[a] \in Int
      /\ \A k \in S \ {a} : g[k] = f[k]
  BY <1>1, <1>2 DEF Purse
<1>6. CoinsIn(x) = Sum(f, S) /\ CoinsIn(y) = Sum(g, S \cup {a})
  BY <1>2 DEF CoinsIn
<1> HIDE DEF f, g, S
<1>7. Sum(g, S \cup {a}) = Sum(f, S) + (g[a] - (IF a \in S THEN f[a] ELSE 0))
  BY ONLY <1>1, <1>5, SumPut
<1>8. (IF a \in S THEN f[a] ELSE 0) = IF a \in DOMAIN x THEN Purse(x[a]) ELSE 0
  BY <1>5 DEF S
<1>9. CoinsIn(y) = CoinsIn(x) + (Purse(row) - (IF a \in DOMAIN x THEN Purse(x[a]) ELSE 0))
  BY <1>5, <1>6, <1>7, <1>8
<1> QED BY <1>4, <1>9 DEF y

LEMMA GnyIncreased ==
  ASSUME NEW x, AccountsOK(x), NEW a \in DOMAIN x, NEW amount
  PROVE  LET y == Increase(x, {a}, "gny", amount)
         IN AccountsKept(x, y) /\ (amount \in Int => CoinsMoved(x, y, amount))
<1> DEFINE row == [x[a] EXCEPT !.gny = @ + amount]
<1>1. Increase(x, {a}, "gny", amount) = With(x, a, row)
  BY IncreaseIsWith
<1>2. AccountRow(x[a])
  BY DEF AccountsOK
<1>3. /\ AccountRow(row) /\ row.username = x[a].username /\ row.isDelegate = x[a].isDelegate
      /\ row.gny = x[a].gny + amount /\ row.lockAmount = x[a].lockAmount /\ row.lockAmount \in Nat
  BY <1>2 DEF AccountRow
<1> HIDE DEF row
<1>4. AccountsKept(x, With(x, a, row))
  BY <1>3, PutAccount
<1>5. ASSUME amount \in Int, Purses(x)
      PROVE  Purses(With(x, a, row)) /\ CoinsIn(With(x, a, row)) = CoinsIn(x) + amount
  <2>1. x[a].gny \in Int /\ row.gny \in Int
    BY <1>3, <1>5 DEF Purses
  <2>2. Purse(row) - Purse(x[a]) = amount
    BY <1>3, <1>5, <2>1 DEF Purse
  <2> QED BY <1>3, <1>5, <2>1, <2>2, PutCoins
<1> QED BY <1>1, <1>4, <1>5 DEF CoinsMoved

LEMMA NewAccountRow ==
  ASSUME NEW gny
  PROVE  AccountRow(NewAccount(gny)) /\ NewAccount(gny).username = NoName
         /\ NewAccount(gny).gny = gny /\ NewAccount(gny).lockAmount = 0
BY DEF NewAccount, AccountRow

LEMMA AccountOpened ==
  ASSUME NEW x, AccountsOK(x), NEW a, a \notin DOMAIN x, NEW gny
  PROVE  LET y == With(x, a, NewAccount(gny))
         IN AccountsKept(x, y) /\ (gny \in Int => CoinsMoved(x, y, gny))
<1>1. AccountsKept(x, With(x, a, NewAccount(gny)))
  BY PutAccount, NewAccountRow
<1>2. ASSUME gny \in Int, Purses(x)
      PROVE  LET y == With(x, a, NewAccount(gny)) IN Purses(y) /\ CoinsIn(y) = CoinsIn(x) + gny
  <2>1. Purse(NewAccount(gny)) - 0 = gny
    BY <1>2, NewAccountRow DEF Purse
  <2> QED BY <1>2, <2>1, PutCoins, NewAccountRow
<1> QED BY <1>1, <1>2 DEF CoinsMoved

-----------------------------------------------------------------------------
(* What a transaction does to accounts and delegates *)

LEMMA KeptAccountsOK ==
  ASSUME NEW x, AccountsOK(x), NEW y, AccountsKept(x, y)
  PROVE  AccountsOK(y)
BY DEF AccountsOK, AccountsKept

Proceeds(v, w) ==
  /\ PeopleOK(w)
  /\ DOMAIN v.account \subseteq DOMAIN w.account
  /\ DOMAIN v.delegate \subseteq DOMAIN w.delegate
  /\ MissedKept(v.delegate, w.delegate)
  /\ \A d \in DOMAIN w.delegate \ DOMAIN v.delegate : w.delegate[d].missedBlocks = 0

LEMMA ProceedsTwice ==
  ASSUME NEW u, NEW v, NEW w, Proceeds(u, v), Proceeds(v, w)
  PROVE  Proceeds(u, w)
BY DEF Proceeds, MissedKept

LEMMA KeptProceeds ==
  ASSUME NEW v, PeopleOK(v), NEW w, AccountsKept(v.account, w.account),
         DelegatesKept(v.delegate, w.delegate), MissedKept(v.delegate, w.delegate)
  PROVE  Proceeds(v, w)
<1>1. PeopleOK(w)
  BY PeopleKept
<1> QED BY <1>1 DEF Proceeds, AccountsKept, DelegatesKept

LEMMA AccountsProceed ==
  ASSUME NEW v, PeopleOK(v), NEW w, AccountsKept(v.account, w.account), w.delegate = v.delegate
  PROVE  Proceeds(v, w)
BY DelegatesSelf, KeptProceeds DEF PeopleOK, DelegatesOK

LEMMA DelegatesProceed ==
  ASSUME NEW v, PeopleOK(v), NEW w, w.account = v.account,
         DelegatesKept(v.delegate, w.delegate), MissedKept(v.delegate, w.delegate)
  PROVE  Proceeds(v, w)
BY AccountsSelf, KeptProceeds DEF PeopleOK

LEMMA PayPeople ==
  ASSUME NEW v, IsTables(v), AccountsOK(v.account), NEW from \in DOMAIN v.account, NEW to, NEW amount \in Int,
         NEW w, w = Pay(v, from, to, amount)
  PROVE  /\ AccountsKept(v.account, w.account) /\ CoinsMoved(v.account, w.account, 0)
         /\ w.delegate = v.delegate
<1> DEFINE x == v.account
           paid == IF to \in DOMAIN x
                   THEN Increase(x, {to}, "gny", amount)
                   ELSE With(x, to, NewAccount(amount))
           y == Increase(paid, {from}, "gny", - amount)
<1>1. w = [v EXCEPT !.account = y]
  BY DEF Pay
<1>2. AccountsKept(x, paid) /\ CoinsMoved(x, paid, amount)
  <2>1. CASE to \in DOMAIN x
    BY <2>1, GnyIncreased
  <2>2. CASE to \notin DOMAIN x
    BY <2>2, AccountOpened
  <2> QED BY <2>1, <2>2
<1> HIDE DEF x, paid
<1>3. AccountsOK(paid) /\ from \in DOMAIN paid
  BY <1>2, KeptAccountsOK DEF AccountsKept, x
<1>4. AccountsKept(paid, y) /\ CoinsMoved(paid, y, - amount)
  BY <1>3, GnyIncreased
<1> HIDE DEF y
<1>5. AccountsKept(x, y)
  BY <1>2, <1>4, AccountsTwice
<1>6. CoinsMoved(x, y, 0)
  <2>1. CoinsMoved(x, y, amount + (- amount))
    BY <1>2, <1>4, CoinsTwice
  <2>2. amount + (- amount) = 0
    OBVIOUS
  <2> QED BY <2>1, <2>2
<1>7. w.account = y /\ w.delegate = v.delegate
  BY <1>1 DEF IsTables, Fields
<1> QED BY <1>5, <1>6, <1>7 DEF x

LEMMA NumberType ==
  ASSUME NEW amount \in Nat
  PROVE  NumberOf(amount) \in Nat
BY ContractsAssumption DEF NumberOf

LEMMA TransferProceeds ==
  ASSUME NEW s, IsTables(s.view), PeopleOK(s.view), NEW t, t.senderId \in DOMAIN s.view.account,
         NumberOf(t.amount) \in Int, NEW height, NEW w, w = Transfer(s, t, height), w # Refused
  PROVE  Proceeds(s.view, w) /\ CoinsMoved(s.view.account, w.account, 0)
<1> DEFINE to == CHOOSE a \in Recipients(s.view, t.recipient) : TRUE
           paid == Pay(s.view, t.senderId, to, NumberOf(t.amount))
<1>1. w = [paid EXCEPT !.transfers = @ \cup {t.id}]
  BY DEF Transfer
<1>2. IsTables(paid)
  BY KeepsPay, KeptTables
<1>3. /\ AccountsKept(s.view.account, paid.account) /\ CoinsMoved(s.view.account, paid.account, 0)
      /\ paid.delegate = s.view.delegate
  <2> HIDE DEF to
  <2> QED BY PayPeople DEF PeopleOK
<1> HIDE DEF paid
<1>4. w.account = paid.account /\ w.delegate = paid.delegate
  BY <1>1, <1>2 DEF IsTables, Fields
<1> QED BY <1>3, <1>4, AccountsProceed

LEMMA UpdateAccountParts ==
  ASSUME NEW v, IsTables(v), NEW a, NEW row, NEW w, w = UpdateAccount(v, a, row)
  PROVE  w.account = [v.account EXCEPT ![a] = row] /\ w.delegate = v.delegate
BY DEF UpdateAccount, IsTables, Fields

LEMMA IncreaseVotesParts ==
  ASSUME NEW v, IsTables(v), NEW names, NEW amount, NEW w, w = IncreaseVotes(v, names, amount)
  PROVE  w.account = v.account /\ w.delegate = Increase(v.delegate, names, "votes", amount)
BY DEF IncreaseVotes, IsTables, Fields

LEMMA VotesProceed ==
  ASSUME NEW v, IsTables(v), PeopleOK(v), NEW names, NEW amount \in Int,
         NEW w, w = IncreaseVotes(v, names, amount)
  PROVE  /\ w.account = v.account
         /\ DelegatesKept(v.delegate, w.delegate) /\ MissedKept(v.delegate, w.delegate)
<1>1. DelegatesKept(v.delegate, Increase(v.delegate, names, "votes", amount))
      /\ MissedKept(v.delegate, Increase(v.delegate, names, "votes", amount))
  BY IncreaseDelegates DEF PeopleOK, DelegatesOK
<1> QED BY <1>1, IncreaseVotesParts

(* A row of an account that is replaced, its coins moved within it or not *)
LEMMA RowReplaced ==
  ASSUME NEW x, AccountsOK(x), NEW a \in DOMAIN x, NEW row, AccountRow(row),
         row.username = x[a].username, row.isDelegate = x[a].isDelegate
  PROVE  LET y == [x EXCEPT ![a] = row]
         IN  /\ AccountsKept(x, y)
             /\ ((x[a].gny \in Int => row.gny \in Int /\ Purse(row) = Purse(x[a])) => CoinsMoved(x, y, 0))
<1> DEFINE y == [x EXCEPT ![a] = row]
<1>1. y = With(x, a, row)
  BY ExceptIsWith
<1> HIDE DEF y
<1>2. AccountsKept(x, y)
  BY <1>1, PutAccount
<1>3. ASSUME x[a].gny \in Int => row.gny \in Int /\ Purse(row) = Purse(x[a]), Purses(x)
      PROVE  Purses(y) /\ CoinsIn(y) = CoinsIn(x) + 0
  <2>1. x[a].gny \in Int /\ x[a].lockAmount \in Nat
    BY <1>3 DEF Purses
  <2>2. row.gny \in Int /\ row.lockAmount \in Nat /\ Purse(row) - Purse(x[a]) = 0
    BY <1>3, <2>1 DEF AccountRow, Purse
  <2> QED BY <1>1, <1>3, <2>2, PutCoins
<1> QED BY <1>2, <1>3 DEF y, CoinsMoved

LEMMA RowSecond ==
  ASSUME NEW account, AccountRow(account), NEW row, row = [account EXCEPT !.secondPublicKey = TRUE]
  PROVE  /\ AccountRow(row) /\ row.username = account.username /\ row.isDelegate = account.isDelegate
         /\ row.gny = account.gny /\ row.lockAmount = account.lockAmount
BY DEF AccountRow

LEMMA RowUnlocked ==
  ASSUME NEW account, AccountRow(account), NEW gny, NEW row,
         row = [account EXCEPT !.isLocked = FALSE, !.lockHeight = 0, !.lockAmount = 0, !.gny = gny]
  PROVE  /\ AccountRow(row) /\ row.username = account.username /\ row.isDelegate = account.isDelegate
BY DEF AccountRow

LEMMA RowNamed ==
  ASSUME NEW account, AccountRow(account), NEW name, NEW row, row = [account EXCEPT !.username = name]
  PROVE  /\ AccountRow(row) /\ row.username = name /\ row.isDelegate = account.isDelegate
         /\ row.gny = account.gny /\ row.lockAmount = account.lockAmount
BY DEF AccountRow

LEMMA RowOfDelegate ==
  ASSUME NEW account, AccountRow(account), NEW row, row = [account EXCEPT !.isDelegate = TRUE]
  PROVE  /\ AccountRow(row) /\ row.username = account.username /\ row.isDelegate
         /\ row.gny = account.gny /\ row.lockAmount = account.lockAmount
BY DEF AccountRow

LEMMA SecondPassphraseProceeds ==
  ASSUME NEW s, IsTables(s.view), PeopleOK(s.view), NEW t, t.senderId \in DOMAIN s.view.account,
         NEW height, NEW w, w = SetSecondPassphrase(s, t, height), w # Refused
  PROVE  Proceeds(s.view, w) /\ CoinsMoved(s.view.account, w.account, 0)
<1> DEFINE row == [Sender(s, t) EXCEPT !.secondPublicKey = TRUE]
<1>1. w = UpdateAccount(s.view, t.senderId, row)
  BY DEF SetSecondPassphrase
<1>2. AccountRow(Sender(s, t)) /\ Sender(s, t) = s.view.account[t.senderId]
  BY DEF Sender, PeopleOK, AccountsOK
<1>3. AccountRow(row) /\ row.username = Sender(s, t).username /\ row.isDelegate = Sender(s, t).isDelegate
      /\ row.gny = Sender(s, t).gny /\ row.lockAmount = Sender(s, t).lockAmount
  BY <1>2, RowSecond
<1> HIDE DEF row
<1>4. LET y == [s.view.account EXCEPT ![t.senderId] = row]
      IN  AccountsKept(s.view.account, y) /\ CoinsMoved(s.view.account, y, 0)
  <2>1. Purse(row) = Purse(Sender(s, t))
    BY <1>3 DEF Purse
  <2> QED BY <1>2, <1>3, <2>1, RowReplaced DEF PeopleOK
<1>5. AccountsKept(s.view.account, w.account) /\ CoinsMoved(s.view.account, w.account, 0)
      /\ w.delegate = s.view.delegate
  BY <1>1, <1>4, UpdateAccountParts
<1> QED BY <1>5, AccountsProceed

LEMMA LockProceeds ==
  ASSUME NEW s, IsTables(s.view), PeopleOK(s.view), NEW t, t.senderId \in DOMAIN s.view.account,
         t.amount \in Nat, NEW height, NEW w, w = Lock(s, t, height), w # Refused
  PROVE  Proceeds(s.view, w) /\ CoinsMoved(s.view.account, w.account, 0)
<1> DEFINE account == Sender(s, t)
           gny == account.gny - t.amount
           amount == account.lockAmount + t.amount
           row == [account EXCEPT !.isLocked = TRUE, !.lockHeight = t.height,
                                  !.gny = gny, !.lockAmount = amount]
           locked == UpdateAccount(s.view, t.senderId, row)
<1>2. AccountRow(account) /\ account = s.view.account[t.senderId]
  BY DEF Sender, PeopleOK, AccountsOK
<1>1. w = IncreaseVotes(locked, VotedBy(s.table, t.senderId), t.amount)
  BY <1>2 DEF Lock, AccountRow
<1>10. amount \in Nat
  BY <1>2 DEF AccountRow
<1> HIDE DEF account
<1>3. AccountRow(row) /\ row.username = account.username /\ row.isDelegate = account.isDelegate
      /\ row.gny = gny /\ row.lockAmount = amount
  <2> HIDE DEF gny, amount
  <2> DEFINE height2 == t.height
  <2>1. row = [account EXCEPT !.isLocked = TRUE, !.lockHeight = height2, !.gny = gny, !.lockAmount = amount]
    OBVIOUS
  <2> HIDE DEF row, height2
  <2>2. amount \in Nat
    BY <1>10
  <2> QED BY ONLY <1>2, <2>1, <2>2 DEF AccountRow
<1>4. IsTables(locked)
  BY KeepsUpdate, KeptTables
<1> HIDE DEF row
<1>5. LET y == [s.view.account EXCEPT ![t.senderId] = row]
      IN  AccountsKept(s.view.account, y) /\ CoinsMoved(s.view.account, y, 0)
  <2>1. ASSUME account.gny \in Int PROVE row.gny \in Int /\ Purse(row) = Purse(account)
    BY <1>2, <1>3, <2>1 DEF Purse, AccountRow
  <2> QED BY <1>2, <1>3, <2>1, RowReplaced DEF PeopleOK
<1>6. AccountsKept(s.view.account, locked.account) /\ CoinsMoved(s.view.account, locked.account, 0)
      /\ locked.delegate = s.view.delegate
  BY <1>5, UpdateAccountParts
<1> HIDE DEF locked
<1>7. Proceeds(s.view, locked)
  BY <1>6, AccountsProceed
<1>8. /\ w.account = locked.account
      /\ DelegatesKept(locked.delegate, w.delegate) /\ MissedKept(locked.delegate, w.delegate)
  BY <1>1, <1>4, <1>7, VotesProceed DEF Proceeds
<1>9. Proceeds(locked, w)
  BY <1>7, <1>8, DelegatesProceed DEF Proceeds
<1> QED BY <1>6, <1>7, <1>8, <1>9, ProceedsTwice

LEMMA UnlockProceeds ==
  ASSUME NEW s, IsTables(s.view), PeopleOK(s.view), NEW t, t.senderId \in DOMAIN s.view.account,
         NEW height, NEW w, w = Unlock(s, t, height), w # Refused
  PROVE  Proceeds(s.view, w)
<1> DEFINE account == Sender(s, t)
           left == IncreaseVotes(s.view, VotedBy(s.table, t.senderId), - NumberOf(account.lockAmount))
           view == IF account.isDelegate THEN DeleteCreatedVotes(s, t.senderId) ELSE s.view
           row == [account EXCEPT !.isLocked = FALSE, !.lockHeight = 0, !.lockAmount = 0,
                                  !.gny = Concatenate(@, account.lockAmount)]
<1>1. w = UpdateAccount(view, t.senderId, row)
  BY DEF Unlock
<1>2. AccountRow(account) /\ account = s.view.account[t.senderId]
  BY DEF Sender, PeopleOK, AccountsOK
<1>3. AccountRow(row) /\ row.username = account.username /\ row.isDelegate = account.isDelegate
  BY <1>2, RowUnlocked
<1>4. view \in {s.view, [left EXCEPT !.votes = @ \ VotesOf(s.table, t.senderId)]}
  BY <1>2 DEF DeleteCreatedVotes
<1>5. - NumberOf(account.lockAmount) \in Int
  BY <1>2, NumberType DEF AccountRow
<1>6. IsTables(left)
  BY KeepsVotes, KeptTables
<1> HIDE DEF account, row, view
<1>7. /\ left.account = s.view.account
      /\ DelegatesKept(s.view.delegate, left.delegate) /\ MissedKept(s.view.delegate, left.delegate)
  BY <1>5, VotesProceed
<1> HIDE DEF left
<1>8. /\ IsTables(view)
      /\ view.account = s.view.account
      /\ DelegatesKept(s.view.delegate, view.delegate) /\ MissedKept(s.view.delegate, view.delegate)
  <2>1. CASE view = s.view
    BY <2>1, DelegatesSelf DEF PeopleOK, DelegatesOK
  <2>2. CASE view = [left EXCEPT !.votes = @ \ VotesOf(s.table, t.senderId)]
    <3>1. IsTables(view) /\ view.account = left.account /\ view.delegate = left.delegate
      BY <1>6, <2>2 DEF IsTables, Fields
    <3> QED BY <1>7, <3>1
  <2> QED BY <1>4, <2>1, <2>2
<1>9. Proceeds(s.view, view)
  BY <1>8, DelegatesProceed
<1>10. AccountsKept(view.account, [view.account EXCEPT ![t.senderId] = row])
  BY <1>2, <1>3, <1>8, RowReplaced DEF PeopleOK
<1>11. Proceeds(view, w)
  <2>1. w.account = [view.account EXCEPT ![t.senderId] = row] /\ w.delegate = view.delegate
    BY <1>1, <1>8, UpdateAccountParts
  <2> QED BY <1>9, <1>10, <2>1, AccountsProceed DEF Proceeds
<1> QED BY <1>9, <1>11, ProceedsTwice

LEMMA VoteProceeds ==
  ASSUME NEW s, IsTables(s.view), PeopleOK(s.view), NEW t, t.senderId \in DOMAIN s.view.account,
         NEW height, NEW w, w \in {Vote(s, t, height), Unvote(s, t, height)}, w # Refused
  PROVE  Proceeds(s.view, w) /\ w.account = s.view.account
<1> DEFINE account == Sender(s, t)
           more == IncreaseVotes(s.view, ToSet(t.delegates), account.lockAmount)
           less == IncreaseVotes(s.view, ToSet(t.delegates), - account.lockAmount)
<1>1. w \in {[more EXCEPT !.votes = @ \cup VoteItems(t)], [less EXCEPT !.votes = @ \ VoteItems(t)]}
  BY DEF Vote, Unvote
<1>2. account.lockAmount \in Nat
  BY DEF Sender, PeopleOK, AccountsOK, AccountRow
<1>3. IsTables(more) /\ IsTables(less)
  BY KeepsVotes, KeptTables
<1> HIDE DEF account
<1>4. account.lockAmount \in Int /\ - account.lockAmount \in Int
  BY <1>2
<1>5. /\ more.account = s.view.account
      /\ DelegatesKept(s.view.delegate, more.delegate) /\ MissedKept(s.view.delegate, more.delegate)
  BY <1>4, VotesProceed
<1>6. /\ less.account = s.view.account
      /\ DelegatesKept(s.view.delegate, less.delegate) /\ MissedKept(s.view.delegate, less.delegate)
  BY <1>4, VotesProceed
<1> HIDE DEF more, less
<1>7. \E x \in {more, less} : w.account = x.account /\ w.delegate = x.delegate
  BY <1>1, <1>3 DEF IsTables, Fields
<1>8. /\ w.account = s.view.account
      /\ DelegatesKept(s.view.delegate, w.delegate) /\ MissedKept(s.view.delegate, w.delegate)
  BY <1>5, <1>6, <1>7
<1> QED BY <1>8, DelegatesProceed

LEMMA SetUserNameProceeds ==
  ASSUME NEW s, IsTables(s.view), PeopleOK(s.view), NEW t, t.senderId \in DOMAIN s.view.account,
         t.username \in DOMAIN PublicKeyRank,
         NEW height, NEW w, w = SetUserName(s, t, height), w # Refused
  PROVE  Proceeds(s.view, w) /\ CoinsMoved(s.view.account, w.account, 0)
<1> DEFINE account == Sender(s, t)
           name == t.username
           row == [account EXCEPT !.username = name]
           x == s.view.account
           a == t.senderId
           y == [x EXCEPT ![a] = row]
<1>1. w = UpdateAccount(s.view, a, row) /\ Named(s.view, name) = {} /\ account.username = NoName
  BY DEF SetUserName
<1>2. AccountsOK(x) /\ a \in DOMAIN x /\ AccountRow(account) /\ account = x[a]
  BY DEF Sender, PeopleOK, AccountsOK
<1> HIDE DEF account
<1>3. AccountRow(row) /\ row.username = name /\ row.isDelegate = account.isDelegate
      /\ row.gny = account.gny /\ row.lockAmount = account.lockAmount
  BY <1>2, RowNamed
<1>4. \A b \in DOMAIN x : x[b].username # name
  BY <1>1 DEF Named
<1>5. w.account = y /\ w.delegate = s.view.delegate
  BY <1>1, UpdateAccountParts
<1> HIDE DEF row
<1>6. y = With(x, a, row)
  BY <1>2, ExceptIsWith
<1>7. DOMAIN y = DOMAIN x /\ y[a] = row /\ \A b \in DOMAIN x \ {a} : y[b] = x[b]
  BY <1>2
<1> HIDE DEF x, y
<1>8. CoinsMoved(x, y, 0)
  <2>1. SUFFICES ASSUME Purses(x) PROVE Purses(y) /\ CoinsIn(y) = CoinsIn(x) + 0
    BY DEF CoinsMoved
  <2>2. x[a].gny \in Int /\ x[a].lockAmount \in Nat
    BY <1>2, <2>1 DEF Purses
  <2>3. row.gny \in Int /\ row.lockAmount \in Nat /\ Purse(row) - Purse(x[a]) = 0
    BY <1>2, <1>3, <2>2 DEF Purse
  <2> QED BY <1>2, <1>6, <2>1, <2>3, PutCoins
<1>9. AccountsOK(y)
  <2>1. IsFiniteSet(DOMAIN y) /\ \A b \in DOMAIN y : AccountRow(y[b])
    BY <1>2, <1>3, <1>7 DEF AccountsOK
  <2>2. ASSUME NEW b \in DOMAIN y, NEW c \in DOMAIN y, y[b].username # NoName, y[b].username = y[c].username
        PROVE  b = c
    <3>1. CASE b = a
      BY <1>3, <1>4, <1>7, <2>2, <3>1
    <3>2. CASE c = a
      BY <1>3, <1>4, <1>7, <2>2, <3>2
    <3>3. CASE b # a /\ c # a
      BY <1>2, <1>7, <2>2, <3>3 DEF AccountsOK
    <3> QED BY <3>1, <3>2, <3>3
  <2> QED BY <2>1, <2>2 DEF AccountsOK
<1>10. NamesRanked(y)
  <2>1. NamesRanked(x)
    BY DEF x, PeopleOK
  <2> QED BY <1>3, <1>7, <2>1 DEF NamesRanked
<1>11. DelegatesOK(y, w.delegate)
  <2>1. DelegatesOK(x, w.delegate)
    BY <1>5 DEF x, PeopleOK
  <2>2. ASSUME NEW d \in DOMAIN w.delegate
        PROVE  Owns(y, w.delegate[d].address, d)
    <3>1. Owns(x, w.delegate[d].address, d) /\ d # NoName
      BY <2>1 DEF DelegatesOK
    <3>2. w.delegate[d].address # a
      BY <1>1, <1>2, <3>1 DEF Owns
    <3> QED BY <1>7, <3>1, <3>2 DEF Owns
  <2> QED BY <2>1, <2>2 DEF DelegatesOK
<1>12. Proceeds(s.view, w)
  <2>1. PeopleOK(w)
    BY <1>5, <1>9, <1>10, <1>11 DEF PeopleOK
  <2>2. DOMAIN s.view.account = DOMAIN w.account
    BY <1>5, <1>7 DEF x
  <2> QED BY <1>5, <2>1, <2>2 DEF Proceeds, MissedKept
<1> QED BY <1>5, <1>8, <1>12 DEF x

LEMMA NewDelegateRow ==
  ASSUME NEW address
  PROVE  /\ DelegateRow(NewDelegate(address)) /\ NewDelegate(address).address = address
         /\ NewDelegate(address).missedBlocks = 0
BY DEF DelegateRow, NewDelegate

LEMMA RegisterDelegateProceeds ==
  ASSUME NEW s, IsTables(s.view), PeopleOK(s.view), NEW t, t.senderId \in DOMAIN s.view.account,
         NEW height, NEW w, w = RegisterDelegate(s, t, height), w # Refused
  PROVE  Proceeds(s.view, w) /\ CoinsMoved(s.view.account, w.account, 0)
<1> DEFINE account == Sender(s, t)
           name == account.username
           row == [account EXCEPT !.isDelegate = TRUE]
           x == s.view.account
           a == t.senderId
           y == [x EXCEPT ![a] = row]
           updated == UpdateAccount(s.view, a, row)
           D == s.view.delegate
           E == With(D, name, NewDelegate(a))
<1>1. /\ w = [updated EXCEPT !.delegate = With(@, name, NewDelegate(a))]
      /\ name # NoName /\ ~ account.isDelegate
  BY DEF RegisterDelegate
<1>2. AccountsOK(x) /\ a \in DOMAIN x /\ AccountRow(account) /\ account = x[a]
  BY DEF Sender, PeopleOK, AccountsOK
<1> HIDE DEF account
<1>3. AccountRow(row) /\ row.username = name /\ row.isDelegate
      /\ row.gny = account.gny /\ row.lockAmount = account.lockAmount
  BY <1>2, RowOfDelegate
<1>4. name \in DOMAIN PublicKeyRank
  BY <1>1, <1>2 DEF PeopleOK, NamesRanked
<1>5. w.account = y /\ w.delegate = E
  <2>1. IsTables(updated)
    BY KeepsUpdate, KeptTables
  <2> HIDE DEF name, row
  <2>2. updated.account = y /\ updated.delegate = D
    BY UpdateAccountParts
  <2> HIDE DEF updated
  <2> QED BY <1>1, <2>1, <2>2 DEF IsTables, Fields
<1> HIDE DEF row, updated
<1>6. y = With(x, a, row)
  BY <1>2, ExceptIsWith
<1>7. DOMAIN y = DOMAIN x /\ y[a] = row /\ \A b \in DOMAIN x \ {a} : y[b] = x[b]
  BY <1>2
<1>8. DOMAIN E = DOMAIN D \cup {name} /\ E[name] = NewDelegate(a) /\ \A d \in DOMAIN D \ {name} : E[d] = D[d]
  BY DEF With
<1>9. DelegatesOK(x, D) /\ NamesRanked(x)
  BY DEF PeopleOK
<1> HIDE DEF x, y, D, E
<1>10. name \notin DOMAIN D
  <2>1. SUFFICES ASSUME name \in DOMAIN D PROVE FALSE
    OBVIOUS
  <2> DEFINE b == D[name].address
  <2>2. b \in DOMAIN x /\ x[b].username = name /\ x[b].isDelegate
    BY <1>9, <2>1 DEF DelegatesOK, Owns
  <2> HIDE DEF b
  <2>3. b = a
    BY <1>1, <1>2, <2>2 DEF AccountsOK
  <2> QED BY <1>1, <1>2, <2>2, <2>3
<1>11. CoinsMoved(x, y, 0)
  <2>1. SUFFICES ASSUME Purses(x) PROVE Purses(y) /\ CoinsIn(y) = CoinsIn(x) + 0
    BY DEF CoinsMoved
  <2>2. x[a].gny \in Int /\ x[a].lockAmount \in Nat
    BY <1>2, <2>1 DEF Purses
  <2>3. row.gny \in Int /\ row.lockAmount \in Nat /\ Purse(row) - Purse(x[a]) = 0
    BY <1>2, <1>3, <2>2 DEF Purse
  <2> QED BY <1>2, <1>6, <2>1, <2>3, PutCoins
<1>12. \A b \in DOMAIN y : AccountRow(y[b]) /\ y[b].username = x[b].username
  BY <1>2, <1>3, <1>7 DEF AccountsOK
<1>13. AccountsOK(y) /\ NamesRanked(y)
  BY <1>2, <1>7, <1>9, <1>12 DEF AccountsOK, NamesRanked
<1>14. DelegatesOK(y, E)
  <2>1. IsFiniteSet(DOMAIN E)
    BY <1>8, <1>9, FS_AddElement DEF DelegatesOK
  <2>2. ASSUME NEW d \in DOMAIN D, d # name
        PROVE  /\ d # NoName /\ d \in DOMAIN PublicKeyRank
               /\ DelegateRow(E[d]) /\ Owns(y, E[d].address, d)
    <3>1. E[d] = D[d] /\ Owns(x, D[d].address, d) /\ d # NoName /\ d \in DOMAIN PublicKeyRank
          /\ DelegateRow(D[d])
      BY <1>8, <1>9, <2>2 DEF DelegatesOK
    <3>2. D[d].address # a
      BY <1>2, <2>2, <3>1 DEF Owns
    <3> QED BY <1>7, <3>1, <3>2 DEF Owns
  <2>3. /\ name # NoName /\ name \in DOMAIN PublicKeyRank
        /\ DelegateRow(E[name]) /\ Owns(y, E[name].address, name)
    BY <1>1, <1>2, <1>3, <1>4, <1>7, <1>8, NewDelegateRow DEF Owns
  <2> QED BY <1>8, <1>10, <2>1, <2>2, <2>3 DEF DelegatesOK
<1>15. /\ DOMAIN D \subseteq DOMAIN E /\ MissedKept(D, E)
       /\ \A d \in DOMAIN E \ DOMAIN D : E[d].missedBlocks = 0
  BY <1>8, <1>10, NewDelegateRow DEF MissedKept
<1>16. Proceeds(s.view, w)
  <2>1. PeopleOK(w)
    BY <1>5, <1>13, <1>14 DEF PeopleOK
  <2>2. DOMAIN s.view.account = DOMAIN w.account
    BY <1>5, <1>7 DEF x
  <2> QED BY <1>5, <1>15, <2>1, <2>2 DEF Proceeds, D
<1> QED BY <1>5, <1>11, <1>16 DEF x

-----------------------------------------------------------------------------
(* All contracts *)

LEMMA CallProceeds ==
  ASSUME NEW s, IsTables(s.view), PeopleOK(s.view), NEW id \in TrsIds, NEW t, t = Content[id],
         t.senderId \in DOMAIN s.view.account,
         NEW height, NEW w, w = Call(s, t, height), w # Refused
  PROVE  /\ Proceeds(s.view, w)
         /\ t.type # "unlock" => CoinsMoved(s.view.account, w.account, 0)
<1>1. /\ t.type \in {"transfer", "lock", "issue", "transferAsset"} => t.amount \in Nat
      /\ t.type = "setUserName" => t.username \in DOMAIN PublicKeyRank
  BY ContractsAssumption, RoundsAssumption
<1>2. ASSUME NEW F, Touches(s.view, w, F), "account" \notin F, "delegate" \notin F
      PROVE  Proceeds(s.view, w) /\ CoinsMoved(s.view.account, w.account, 0)
  <2>1. w.account = s.view.account /\ w.delegate = s.view.delegate
    BY <1>2 DEF Touches, Fields
  <2>2. Proceeds(s.view, w)
    BY <2>1, AccountsSelf, AccountsProceed DEF PeopleOK
  <2> QED BY <2>1, <2>2, CoinsSelf
<1>3. CASE t.type = "transfer"
  <2>1. w = Transfer(s, t, height)
    BY <1>3 DEF Call
  <2>2. NumberOf(t.amount) \in Int
    BY <1>1, <1>3, NumberType
  <2> QED BY <2>1, <2>2, TransferProceeds
<1>4. CASE t.type = "setUserName"
  <2>1. w = SetUserName(s, t, height)
    BY <1>4 DEF Call
  <2> QED BY <1>1, <1>4, <2>1, SetUserNameProceeds
<1>5. CASE t.type = "setSecondPassphrase"
  <2>1. w = SetSecondPassphrase(s, t, height)
    BY <1>5 DEF Call
  <2> QED BY <2>1, SecondPassphraseProceeds
<1>6. CASE t.type = "lock"
  <2>1. w = Lock(s, t, height)
    BY <1>6 DEF Call
  <2> QED BY <1>1, <1>6, <2>1, LockProceeds
<1>7. CASE t.type = "unlock"
  <2>1. w = Unlock(s, t, height)
    BY <1>7 DEF Call
  <2> QED BY <1>7, <2>1, UnlockProceeds
<1>8. CASE t.type = "registerDelegate"
  <2>1. w = RegisterDelegate(s, t, height)
    BY <1>8 DEF Call
  <2> QED BY <2>1, RegisterDelegateProceeds
<1>9. CASE t.type \in {"vote", "unvote"}
  <2>1. w \in {Vote(s, t, height), Unvote(s, t, height)}
    BY <1>9 DEF Call
  <2> QED BY <2>1, VoteProceeds, CoinsSelf
<1>10. CASE t.type \in {"registerIssuer", "registerAsset", "uploadData", "getPredictionCategory"}
  <2>1. w \in {RegisterIssuer(s, t, height), RegisterAsset(s, t, height),
               UploadData(s, t, height), GetPredictionCategory(s, t, height)}
    BY <1>10 DEF Call
  <2>2. \E f \in {"issuer", "asset", "mldata", "prediction"} : Touches(s.view, w, {f})
    BY <2>1, OtherTouches
  <2> QED BY <1>2, <2>2
<1>11. CASE t.type = "issue"
  <2>1. w = Issue(s, t, height)
    BY <1>11 DEF Call
  <2>2. Touches(s.view, w, {"asset", "balance"})
    BY <2>1, IssueTouches
  <2> QED BY <1>2, <2>2
<1>12. CASE t.type = "transferAsset"
  <2>1. w = TransferAsset(s, t, height)
    BY <1>12 DEF Call
  <2>2. Touches(s.view, w, {"balance", "transfers"})
    BY <2>1, TransferAssetTouches
  <2> QED BY <1>2, <2>2
<1>13. CASE t.type \notin {"transfer", "setUserName", "setSecondPassphrase", "lock", "unlock",
                           "registerDelegate", "vote", "unvote", "registerIssuer", "registerAsset",
                           "issue", "transferAsset", "uploadData", "getPredictionCategory"}
  BY <1>13 DEF Call
<1> QED BY <1>3, <1>4, <1>5, <1>6, <1>7, <1>8, <1>9, <1>10, <1>11, <1>12, <1>13

-----------------------------------------------------------------------------
(* Contracts leave rounds and their delegates alone *)

RoundsSame(v, w) == IsTables(w) /\ w.round = v.round /\ w.bookkeeper = v.bookkeeper

LEMMA TouchesNoRounds ==
  ASSUME NEW v, NEW w, NEW F, Touches(v, w, F), "round" \notin F, "bookkeeper" \notin F
  PROVE  RoundsSame(v, w)
BY DEF Touches, Fields, RoundsSame

LEMMA CallSameRounds ==
  ASSUME NEW s, IsTables(s.view), NEW t, NEW height, Call(s, t, height) # Refused
  PROVE  RoundsSame(s.view, Call(s, t, height))
<1> DEFINE w == Call(s, t, height)
<1>1. CASE t.type = "transfer"
  BY <1>1, TransferTouches, TouchesNoRounds DEF Call
<1>2. CASE t.type \in {"setUserName", "setSecondPassphrase"}
  <2>1. w \in {SetUserName(s, t, height), SetSecondPassphrase(s, t, height)}
    BY <1>2 DEF Call
  <2>2. Touches(s.view, w, {"account"})
    BY <2>1, AccountTouches
  <2> QED BY <2>2, TouchesNoRounds
<1>3. CASE t.type = "lock"
  BY <1>3, LockTouches, TouchesNoRounds DEF Call
<1>4. CASE t.type = "unlock"
  BY <1>4, UnlockTouches, TouchesNoRounds DEF Call
<1>5. CASE t.type = "registerDelegate"
  BY <1>5, DelegateTouches, TouchesNoRounds DEF Call
<1>6. CASE t.type \in {"vote", "unvote"}
  <2>1. w \in {Vote(s, t, height), Unvote(s, t, height)}
    BY <1>6 DEF Call
  <2>2. Touches(s.view, w, {"delegate", "votes"})
    BY <2>1, VoteTouches
  <2> QED BY <2>2, TouchesNoRounds
<1>7. CASE t.type \in {"registerIssuer", "registerAsset", "uploadData", "getPredictionCategory"}
  <2>1. w \in {RegisterIssuer(s, t, height), RegisterAsset(s, t, height),
               UploadData(s, t, height), GetPredictionCategory(s, t, height)}
    BY <1>7 DEF Call
  <2>2. \E f \in {"issuer", "asset", "mldata", "prediction"} : Touches(s.view, w, {f})
    BY <2>1, OtherTouches
  <2> QED BY <2>2, TouchesNoRounds
<1>8. CASE t.type = "issue"
  BY <1>8, IssueTouches, TouchesNoRounds DEF Call
<1>9. CASE t.type = "transferAsset"
  BY <1>9, TransferAssetTouches, TouchesNoRounds DEF Call
<1>10. CASE t.type \notin {"transfer", "setUserName", "setSecondPassphrase", "lock", "unlock",
                           "registerDelegate", "vote", "unvote", "registerIssuer", "registerAsset",
                           "issue", "transferAsset", "uploadData", "getPredictionCategory"}
  BY <1>10 DEF Call
<1> QED BY <1>1, <1>2, <1>3, <1>4, <1>5, <1>6, <1>7, <1>8, <1>9, <1>10

-----------------------------------------------------------------------------
(* A transaction that is applied *)

PeopleSession(s) == Formed(s) /\ IsTables(s.view) /\ PeopleOK(s.view)

(* What becomes of a session: people as told, and rounds left alone *)
Advances(s, r) == PeopleSession(r) /\ Proceeds(s.view, r.view) /\ RoundsSame(s.view, r.view)

LEMMA AdvancesSelf == ASSUME NEW s, PeopleSession(s) PROVE Advances(s, s)
BY DEF Advances, PeopleSession, Proceeds, MissedKept, RoundsSame

LEMMA AdvancesTwice ==
  ASSUME NEW s, NEW r, NEW u, Advances(s, r), Advances(r, u)
  PROVE  Advances(s, u)
<1>1. Proceeds(s.view, u.view)
  BY ProceedsTwice DEF Advances
<1> QED BY <1>1 DEF Advances, RoundsSame

(* Only the rows of accounts change *)
LEMMA AccountsAdvance ==
  ASSUME NEW s, PeopleSession(s), NEW rows, AccountsKept(s.view.account, rows),
         NEW r, r = [s EXCEPT !.view = [s.view EXCEPT !.account = rows]]
  PROVE  Advances(s, r) /\ r.view.account = rows
<1>1. r.view = [s.view EXCEPT !.account = rows] /\ Formed(r)
  BY DEF PeopleSession, Formed
<1>2. /\ IsTables(r.view) /\ r.view.account = rows /\ r.view.delegate = s.view.delegate
      /\ RoundsSame(s.view, r.view)
  BY <1>1 DEF PeopleSession, IsTables, Fields, RoundsSame
<1>3. Proceeds(s.view, r.view)
  BY <1>2, AccountsProceed DEF PeopleSession
<1> QED BY <1>1, <1>2, <1>3 DEF Advances, PeopleSession, Proceeds

Charge(t, height) == IF height = 0 THEN 0 ELSE - t.fee

LEMMA ChargedAdvances ==
  ASSUME NEW s, PeopleSession(s), NEW t, t.senderId \in DOMAIN s.view.account, t.fee \in Nat,
         NEW height, NEW r, r = Charged(s, t, height)
  PROVE  Advances(s, r) /\ CoinsMoved(s.view.account, r.view.account, Charge(t, height))
<1>1. CASE height = 0
  BY <1>1, AdvancesSelf, CoinsSelf DEF Charged, Charge
<1>2. CASE height # 0
  <2> DEFINE x == s.view.account
             a == t.senderId
             gny == x[a].gny - t.fee
             row == [x[a] EXCEPT !.gny = gny]
             rows == [x EXCEPT ![a] = row]
  <2>1. r = [s EXCEPT !.view = [s.view EXCEPT !.account = rows]]
    BY <1>2 DEF Charged
  <2>2. AccountsOK(x) /\ AccountRow(x[a])
    BY DEF PeopleSession, PeopleOK, AccountsOK
  <2> HIDE DEF x, gny
  <2>3. /\ AccountRow(row) /\ row.username = x[a].username /\ row.isDelegate = x[a].isDelegate
        /\ row.gny = gny /\ row.lockAmount = x[a].lockAmount
    BY <2>2 DEF AccountRow
  <2>4. a \in DOMAIN x
    BY DEF x
  <2> HIDE DEF row, a
  <2>5. rows = With(x, a, row)
    BY <2>4, ExceptIsWith
  <2> HIDE DEF rows
  <2>6. AccountsKept(x, rows)
    BY <2>2, <2>3, <2>4, <2>5, PutAccount
  <2>7. CoinsMoved(x, rows, - t.fee)
    <3>1. SUFFICES ASSUME Purses(x) PROVE Purses(rows) /\ CoinsIn(rows) = CoinsIn(x) + (- t.fee)
      BY DEF CoinsMoved
    <3>2. x[a].gny \in Int /\ x[a].lockAmount \in Nat /\ CoinsIn(x) \in Int
      BY <2>4, <3>1, CoinsInt DEF Purses
    <3>3. gny = x[a].gny - t.fee
      BY DEF gny, a
    <3>4. row.gny \in Int /\ row.lockAmount \in Nat /\ Purse(row) - Purse(x[a]) = - t.fee
      BY <2>3, <3>2, <3>3 DEF Purse
    <3>5. Purses(rows) /\ CoinsIn(rows) = CoinsIn(x) + (Purse(row) - Purse(x[a]))
      BY <2>4, <2>5, <3>1, <3>4, PutCoins
    <3> QED BY <3>4, <3>5
  <2>8. Advances(s, r) /\ r.view.account = rows
    BY <2>1, <2>6, AccountsAdvance DEF x
  <2> QED BY <1>2, <2>7, <2>8 DEF x, Charge
<1> QED BY <1>1, <1>2

LEMMA WithSenderAdvances ==
  ASSUME NEW s, PeopleSession(s), NEW t, NEW r, r = WithSender(s, t)
  PROVE  /\ Advances(s, r) /\ CoinsMoved(s.view.account, r.view.account, 0)
         /\ t.senderId \in DOMAIN r.view.account
<1>1. CASE t.senderId \in DOMAIN s.view.account
  BY <1>1, AdvancesSelf, CoinsSelf DEF WithSender
<1>2. CASE t.senderId \notin DOMAIN s.view.account
  <2> DEFINE x == s.view.account
             rows == With(x, t.senderId, NewAccount(0))
  <2>1. r = [s EXCEPT !.view = [s.view EXCEPT !.account = rows]]
    BY <1>2 DEF WithSender
  <2>2. t.senderId \in DOMAIN rows
    BY DEF With
  <2> HIDE DEF x
  <2>3. AccountsKept(x, rows) /\ CoinsMoved(x, rows, 0)
    BY <1>2, AccountOpened DEF x, PeopleSession, PeopleOK
  <2> HIDE DEF rows
  <2>4. Advances(s, r) /\ r.view.account = rows
    BY <2>1, <2>3, AccountsAdvance DEF x
  <2> QED BY <2>2, <2>3, <2>4 DEF x
<1> QED BY <1>1, <1>2

LEMMA ApplyAdvances ==
  ASSUME NEW s, PeopleSession(s), NEW id \in TrsIds, NEW t, t = Content[id],
         t.senderId \in DOMAIN s.view.account,
         NEW height, NEW r, r = Apply(s, t, height), r # Refused
  PROVE  /\ Advances(s, r)
         /\ t.type # "unlock" => CoinsMoved(s.view.account, r.view.account, Charge(t, height))
<1> DEFINE charged == Charged(s, t, height)
           names   == LockNames(charged, t, height)
           result  == Call(charged, t, height)
<1>1. t.fee \in Nat /\ Charge(t, height) \in Int
  BY ContractsAssumption DEF Charge
<1>2. Advances(s, charged) /\ CoinsMoved(s.view.account, charged.view.account, Charge(t, height))
  BY <1>1, ChargedAdvances
<1>3. result # Refused /\ r = [s EXCEPT !.view = result, !.locks = @ \cup names]
  BY DEF Apply
<1> HIDE DEF charged, names
<1>4. PeopleSession(charged) /\ t.senderId \in DOMAIN charged.view.account
  BY <1>2 DEF Advances, Proceeds
<1>5. /\ Proceeds(charged.view, result)
      /\ t.type # "unlock" => CoinsMoved(charged.view.account, result.account, 0)
  BY <1>3, <1>4, CallProceeds DEF PeopleSession
<1>6. RoundsSame(charged.view, result)
  BY <1>3, <1>4, CallSameRounds DEF PeopleSession
<1> HIDE DEF result
<1>7. r.view = result /\ Formed(r)
  BY <1>3 DEF PeopleSession, Formed
<1>8. Advances(charged, r)
  BY <1>5, <1>6, <1>7 DEF Advances, PeopleSession, RoundsSame, Proceeds
<1>9. t.type # "unlock" => CoinsMoved(s.view.account, r.view.account, Charge(t, height))
  <2>1. Charge(t, height) + 0 = Charge(t, height)
    BY <1>1
  <2> QED BY <1>1, <1>2, <1>5, <1>7, <2>1, CoinsTwice
<1> QED BY <1>2, <1>8, <1>9, AdvancesTwice

LEMMA ApplyUnconfirmedAdvances ==
  ASSUME NEW s, PeopleSession(s), NEW id \in TrsIds, NEW h, h \in Int, NEW r, r = ApplyUnconfirmed(s, id, h), r.ok
  PROVE  /\ Advances(s, r.session)
         /\ Content[id].type # "unlock"
              => CoinsMoved(s.view.account, r.session.view.account, Charge(Content[id], h + 1))
<1> DEFINE t == Content[id]
           ready == WithSender(s, t)
<1>1. r.session # Refused /\ r.session = Apply(ready, t, h + 1)
  BY DEF ApplyUnconfirmed
<1>2. /\ Advances(s, ready) /\ CoinsMoved(s.view.account, ready.view.account, 0)
      /\ t.senderId \in DOMAIN ready.view.account
  BY WithSenderAdvances
<1>3. Charge(t, h + 1) \in Int /\ 0 + Charge(t, h + 1) = Charge(t, h + 1)
  BY ContractsAssumption DEF Charge
<1> HIDE DEF ready, t
<1>4. /\ Advances(ready, r.session)
      /\ t.type # "unlock" => CoinsMoved(ready.view.account, r.session.view.account, Charge(t, h + 1))
  BY <1>1, <1>2, ApplyAdvances DEF Advances, t
<1>5. t.type # "unlock" => CoinsMoved(s.view.account, r.session.view.account, Charge(t, h + 1))
  BY <1>2, <1>3, <1>4, CoinsTwice
<1> QED BY <1>2, <1>4, <1>5, AdvancesTwice DEF t

-----------------------------------------------------------------------------
(* The fees of a block *)

FeeOf == [id \in TrsIds |-> Content[id].fee]

Fees(S) == Sum(FeeOf, S)

LEMMA FeesAdd ==
  ASSUME NEW S, IsFiniteSet(S), S \subseteq TrsIds, NEW id \in TrsIds, id \notin S
  PROVE  Fees(S \cup {id}) = Fees(S) + Content[id].fee
<1>1. \A x \in TrsIds : FeeOf[x] \in Int /\ FeeOf[x] = Content[x].fee
  BY ContractsAssumption DEF FeeOf
<1>2. /\ \A x \in S : FeeOf[x] \in Int /\ FeeOf[x] = FeeOf[x]
      /\ FeeOf[id] \in Int
  BY <1>1
<1>3. Fees(S \cup {id}) = Fees(S) + FeeOf[id]
  <2> DEFINE f == FeeOf
  <2>1. IsFiniteSet(S) /\ f[id] \in Int /\ (\A x \in S : f[x] \in Int) /\ id \notin S
    BY <1>2
  <2> HIDE DEF f
  <2>2. Sum(f, S \cup {id}) = Sum(f, S) + f[id]
    BY ONLY <2>1, SumAdd
  <2> QED BY <2>2 DEF f, Fees
<1> QED BY <1>1, <1>3

LEMMA NoFees == Fees({}) = 0
BY SumEmpty DEF Fees

(* The first transactions of a block *)
First(trs, n) == {trs[i] : i \in 1 .. n}

LEMMA FirstFinite ==
  ASSUME NEW trs, NEW n \in Nat
  PROVE  IsFiniteSet(First(trs, n)) /\ First(trs, 0) = {}
<1> DEFINE T == {i \in Nat : IsFiniteSet(First(trs, i))}
<1>1. First(trs, 0) = {}
  BY DEF First
<1>2. 0 \in T
  BY <1>1, FS_EmptySet
<1>3. ASSUME NEW i \in Nat, i \in T PROVE i + 1 \in T
  <2>1. 1 .. i + 1 = (1 .. i) \cup {i + 1}
    OBVIOUS
  <2>2. First(trs, i + 1) = First(trs, i) \cup {trs[i + 1]}
    BY <2>1 DEF First
  <2> QED BY <1>3, <2>2, FS_AddElement
<1> HIDE DEF T
<1>4. Nat \subseteq T
  BY <1>2, <1>3, SetInduction
<1> QED BY <1>1, <1>4 DEF T

LEMMA FirstFees ==
  ASSUME NEW trs
  PROVE  Fees(First(trs, 0)) = 0
<1>1. First(trs, 0) = {}
  BY FirstFinite
<1>2. Fees({}) = 0
  BY NoFees
<1> QED BY <1>1, <1>2, Zenon

LEMMA FeesOfAll ==
  ASSUME NEW trs \in Seq(TrsIds)
  PROVE  GetFeesOfAll(trs) = Fees(ToSet(trs)) /\ IsFiniteSet(ToSet(trs)) /\ ToSet(trs) \subseteq TrsIds
<1> DEFINE S == ToSet(trs)
           f == [id \in S |-> Content[id].fee]
           g == FeeOf
<1>1. S \subseteq TrsIds
  BY DEF ToSet
<1>2. IsFiniteSet(S)
  <2>1. S = First(trs, Len(trs)) /\ Len(trs) \in Nat
    BY DEF ToSet, First
  <2> QED BY <2>1, FirstFinite
<1>3. GetFeesOfAll(trs) = Sum(f, S)
  BY DEF GetFeesOfAll, SumFunction, Sum
<1>4. \A id \in S : g[id] \in Int /\ f[id] = g[id]
  BY <1>1, ContractsAssumption DEF FeeOf
<1> HIDE DEF f, g, S
<1>5. Sum(f, S) = Sum(g, S)
  BY ONLY <1>2, <1>4, SumEqual
<1> QED BY <1>1, <1>2, <1>3, <1>5 DEF S, g, Fees

LEMMA FirstGrows ==
  ASSUME NEW trs \in Seq(TrsIds), NEW n \in Nat, n + 1 <= Len(trs)
  PROVE  /\ First(trs, n + 1) = First(trs, n) \cup {trs[n + 1]}
         /\ First(trs, n) \subseteq TrsIds /\ IsFiniteSet(First(trs, n)) /\ trs[n + 1] \in TrsIds
         /\ IsInjective(trs) => trs[n + 1] \notin First(trs, n)
<1>1. /\ n + 1 \in DOMAIN trs /\ 1 .. n \subseteq DOMAIN trs
      /\ 1 .. n + 1 = (1 .. n) \cup {n + 1} /\ n + 1 \notin 1 .. n
  OBVIOUS
<1>2. First(trs, n + 1) = First(trs, n) \cup {trs[n + 1]}
  BY <1>1 DEF First
<1>3. First(trs, n) \subseteq TrsIds /\ trs[n + 1] \in TrsIds
  BY <1>1 DEF First
<1>4. IsFiniteSet(First(trs, n))
  BY FirstFinite
<1>5. IsInjective(trs) => trs[n + 1] \notin First(trs, n)
  BY <1>1 DEF First, IsInjective
<1> QED BY <1>2, <1>3, <1>4, <1>5

LEMMA FeesOfFirst ==
  ASSUME NEW trs \in Seq(TrsIds), IsInjective(trs), NEW n \in Nat, n <= Len(trs)
  PROVE  Fees(First(trs, n)) \in Nat
<1> DEFINE T == {i \in Nat : i <= Len(trs) => Fees(First(trs, i)) \in Nat}
<1>1. 0 \in T
  BY FirstFees
<1>2. ASSUME NEW i \in Nat, i \in T PROVE i + 1 \in T
  <2>1. SUFFICES ASSUME i + 1 <= Len(trs) PROVE Fees(First(trs, i + 1)) \in Nat
    OBVIOUS
  <2>2. i <= Len(trs) /\ Fees(First(trs, i)) \in Nat
    BY <1>2, <2>1
  <2>3. Fees(First(trs, i + 1)) = Fees(First(trs, i)) + Content[trs[i + 1]].fee
    BY <2>1, FirstGrows, FeesAdd
  <2>4. Content[trs[i + 1]].fee \in Nat
    BY <2>1, FirstGrows, ContractsAssumption
  <2> QED BY <2>2, <2>3, <2>4
<1> HIDE DEF T
<1>3. Nat \subseteq T
  BY <1>1, <1>2, SetInduction
<1> QED BY <1>3 DEF T

-----------------------------------------------------------------------------
(* The transactions of a block *)

ChargeOf(S, height) == IF height = 0 THEN 0 ELSE - Fees(S)

LEMMA ApplyBlockAdvances ==
  ASSUME NEW s, PeopleSession(s), NEW trs \in Seq(TrsIds), NEW h \in Int,
         NEW r, r = ApplyBlock(s, trs, h), r.ok
  PROVE  /\ Advances(s, r.session)
         /\ /\ IsInjective(trs)
            /\ \A id \in ToSet(trs) : Content[id].type # "unlock"
            => /\ CoinsMoved(s.view.account, r.session.view.account, ChargeOf(ToSet(trs), h + 1))
               /\ Fees(ToSet(trs)) \in Nat
<1> DEFINE Usual == IsInjective(trs) /\ \A id \in ToSet(trs) : Content[id].type # "unlock"
           Good(d, i) == d.ok => /\ Advances(s, d.session)
                                 /\ Usual => CoinsMoved(s.view.account, d.session.view.account,
                                                        ChargeOf(First(trs, i), h + 1))
           n == Len(trs)
<1>1. n \in Nat /\ DOMAIN trs = 1 .. n /\ \A i \in 1 .. n : trs[i] \in TrsIds
  OBVIOUS
<1>2. PICK done : AppliedUpTo(done, s, trs, h, n) /\ ApplyBlock(s, trs, h) = done[n]
  BY <1>1, ApplyBlockRun
<1> DEFINE T == {i \in Nat : i <= n => Good(done[i], i)}
<1>3. 0 \in T
  <2>0. done[0] = Fresh(s)
    BY <1>1, <1>2, AppliedStep
  <2>2. ChargeOf(First(trs, 0), h + 1) = 0
    BY FirstFees DEF ChargeOf
  <2> QED BY <2>0, <2>2, AdvancesSelf, CoinsSelf DEF Fresh
<1>4. ASSUME NEW i \in Nat, i \in T PROVE i + 1 \in T
  <2>1. SUFFICES ASSUME i + 1 <= n, done[i + 1].ok
                 PROVE  /\ Advances(s, done[i + 1].session)
                        /\ Usual => CoinsMoved(s.view.account, done[i + 1].session.view.account,
                                               ChargeOf(First(trs, i + 1), h + 1))
    OBVIOUS
  <2>2. done[i + 1] = ApplyNext(done[(i + 1) - 1], trs[i + 1], h) /\ (i + 1) - 1 = i
    BY <1>1, <1>2, <2>1, AppliedStep
  <2> DEFINE d == done[i]
             id == trs[i + 1]
             u == ApplyUnconfirmed(d.session, id, h)
  <2>3. Good(d, i) /\ id \in TrsIds /\ i <= n
    BY <1>1, <1>4, <2>1
  <2>4. d.ok /\ done[i + 1] = u /\ u.ok
    BY <2>1, <2>2 DEF ApplyNext
  <2>5. /\ Advances(s, d.session)
        /\ Usual => CoinsMoved(s.view.account, d.session.view.account, ChargeOf(First(trs, i), h + 1))
    BY <2>3, <2>4
  <2> HIDE DEF d
  <2>6. /\ Advances(d.session, u.session)
        /\ Content[id].type # "unlock"
             => CoinsMoved(d.session.view.account, u.session.view.account, Charge(Content[id], h + 1))
    BY <2>3, <2>4, <2>5, ApplyUnconfirmedAdvances DEF Advances
  <2> HIDE DEF u
  <2>7. ASSUME Usual
        PROVE  CoinsMoved(s.view.account, u.session.view.account, ChargeOf(First(trs, i + 1), h + 1))
    <3>1. Content[id].type # "unlock"
      BY <1>1, <2>1, <2>7 DEF ToSet
    <3> DEFINE a == ChargeOf(First(trs, i), h + 1)
               b == Charge(Content[id], h + 1)
               c == ChargeOf(First(trs, i + 1), h + 1)
    <3>2. a \in Int /\ b \in Int /\ a + b = c
      <4>1. Fees(First(trs, i + 1)) = Fees(First(trs, i)) + Content[id].fee
        BY <2>1, <2>7, FirstGrows, FeesAdd
      <4>2. Fees(First(trs, i)) \in Nat /\ Content[id].fee \in Nat
        BY <2>3, <2>7, FeesOfFirst, ContractsAssumption
      <4> QED BY <4>1, <4>2 DEF ChargeOf, Charge
    <3>3. CoinsMoved(s.view.account, d.session.view.account, a)
          /\ CoinsMoved(d.session.view.account, u.session.view.account, b)
      BY <2>5, <2>6, <2>7, <3>1
    <3> HIDE DEF a, b, c
    <3>4. CoinsMoved(s.view.account, u.session.view.account, a + b)
      BY <3>2, <3>3, CoinsTwice
    <3> QED BY <3>2, <3>4 DEF c
  <2>8. Advances(s, u.session)
    BY <2>5, <2>6, AdvancesTwice
  <2> QED BY <2>4, <2>7, <2>8
<1> HIDE DEF T
<1>5. Nat \subseteq T
  BY <1>3, <1>4, SetInduction
<1>6. Good(done[n], n)
  BY <1>1, <1>5 DEF T
<1>7. First(trs, n) = ToSet(trs)
  BY <1>1 DEF First, ToSet
<1>8. Usual => Fees(First(trs, n)) \in Nat
  BY <1>1, FeesOfFirst
<1>9. r = done[n]
  BY <1>2
<1> HIDE DEF n
<1> QED BY <1>6, <1>7, <1>8, <1>9

-----------------------------------------------------------------------------
(* What is paid to the delegates of a round *)

Pays(v, w) ==
  /\ IsTables(w) /\ PeopleOK(w)
  /\ AccountsKept(v.account, w.account)
  /\ DelegatesKept(v.delegate, w.delegate) /\ MissedKept(v.delegate, w.delegate)
  /\ RoundsSame(v, w)

LEMMA PaysNothing ==
  ASSUME NEW v, IsTables(v), PeopleOK(v)
  PROVE  Pays(v, v)
BY AccountsSelf, DelegatesSelf DEF Pays, PeopleOK, DelegatesOK, RoundsSame

LEMMA PaysTwice ==
  ASSUME NEW u, NEW v, NEW w, Pays(u, v), Pays(v, w)
  PROVE  Pays(u, w)
<1>1. AccountsKept(u.account, w.account)
  BY AccountsTwice DEF Pays
<1>2. DelegatesKept(u.delegate, w.delegate) /\ MissedKept(u.delegate, w.delegate)
  BY DelegatesTwice DEF Pays
<1> QED BY <1>1, <1>2 DEF Pays, RoundsSame

LEMMA UpdateDelegatePays ==
  ASSUME NEW v, IsTables(v), PeopleOK(v), NEW d \in DOMAIN v.delegate, NEW fee, NEW reward,
         NEW w, w = UpdateDelegate(v, d, fee, reward)
  PROVE  Pays(v, w) /\ (fee + reward \in Int => CoinsMoved(v.account, w.account, fee + reward))
<1> DEFINE D == v.delegate
           first == Increase(D, {d}, "fees", fee)
           earned == Increase(first, {d}, "rewards", reward)
           rows == Increase(v.account, {D[d].address}, "gny", fee + reward)
<1>1. \A e \in DOMAIN D : DelegateRow(D[e])
  BY DEF PeopleOK, DelegatesOK
<1>2. D[d].address \in DOMAIN v.account /\ AccountsOK(v.account)
  BY DEF PeopleOK, DelegatesOK, Owns
<1>3. DelegatesKept(D, first) /\ MissedKept(D, first)
  <2> HIDE DEF D
  <2> QED BY <1>1, IncreaseDelegates
<1>4. DelegatesKept(first, earned) /\ MissedKept(first, earned)
  <2> HIDE DEF first
  <2>1. \A e \in DOMAIN first : DelegateRow(first[e])
    BY <1>3 DEF DelegatesKept
  <2> QED BY <2>1, IncreaseDelegates
<1>5. AccountsKept(v.account, rows) /\ (fee + reward \in Int => CoinsMoved(v.account, rows, fee + reward))
  BY <1>2, GnyIncreased
<1>6. w = [v EXCEPT !.delegate = earned, !.account = rows]
  BY DEF UpdateDelegate, IsTables, Fields
<1> HIDE DEF D, first, earned, rows
<1>7. IsTables(w) /\ w.delegate = earned /\ w.account = rows /\ RoundsSame(v, w)
  BY <1>6 DEF IsTables, Fields, RoundsSame
<1>8. DelegatesKept(v.delegate, w.delegate) /\ MissedKept(v.delegate, w.delegate)
  BY <1>3, <1>4, <1>7, DelegatesTwice DEF D
<1>9. PeopleOK(w)
  BY <1>5, <1>7, <1>8, PeopleKept
<1> QED BY <1>5, <1>7, <1>8, <1>9 DEF Pays

LEMMA NextMultiple ==
  ASSUME NEW i \in Nat, NEW m \in Int
  PROVE  i * m \in Int /\ i * m + m = (i + 1) * m
OBVIOUS

LEMMA PayForgersPays ==
  ASSUME NEW v, IsTables(v), PeopleOK(v), NEW forged, DOMAIN forged = 1 .. RoundLength,
         \A i \in 1 .. RoundLength : forged[i] \in DOMAIN v.delegate, NEW fee, NEW reward,
         NEW w, w = PayForgers(v, forged, fee, reward)
  PROVE  /\ Pays(v, w)
         /\ fee + reward \in Int => CoinsMoved(v.account, w.account, RoundLength * (fee + reward))
<1>1. RoundLength \in Nat
  BY RoundsAssumption
<1>2. PICK paid : PaidUpTo(paid, v, forged, fee, reward, RoundLength) /\ w = paid[RoundLength]
  BY <1>1, PayForgersRun
<1> DEFINE m == fee + reward
           Good(i) == Pays(v, paid[i]) /\ (m \in Int => CoinsMoved(v.account, paid[i].account, i * m))
           T == {i \in Nat : i <= RoundLength => Good(i)}
<1>3. 0 \in T
  <2>1. m \in Int => 0 * m = 0
    OBVIOUS
  <2>2. paid[0] = v
    BY <1>1, <1>2, PaidStep
  <2> HIDE DEF m
  <2> QED BY <2>1, <2>2, PaysNothing, CoinsSelf
<1>4. ASSUME NEW i \in Nat, i \in T PROVE i + 1 \in T
  <2>1. SUFFICES ASSUME i + 1 <= RoundLength PROVE Good(i + 1)
    OBVIOUS
  <2>2. paid[i + 1] = UpdateDelegate(paid[(i + 1) - 1], forged[i + 1], fee, reward) /\ (i + 1) - 1 = i
    BY <1>1, <1>2, <2>1, PaidStep
  <2>3. Good(i)
    BY <1>1, <1>4, <2>1
  <2>4. i + 1 \in 1 .. RoundLength
    BY <1>1, <2>1
  <2>5. IsTables(paid[i]) /\ PeopleOK(paid[i]) /\ forged[i + 1] \in DOMAIN paid[i].delegate
    BY <2>3, <2>4 DEF Pays, DelegatesKept
  <2>6. Pays(paid[i], paid[i + 1]) /\ (m \in Int => CoinsMoved(paid[i].account, paid[i + 1].account, m))
    BY <2>2, <2>5, UpdateDelegatePays
  <2> HIDE DEF m
  <2>7. ASSUME m \in Int PROVE CoinsMoved(v.account, paid[i + 1].account, (i + 1) * m)
    <3>1. i * m \in Int /\ i * m + m = (i + 1) * m
      BY <2>7, NextMultiple
    <3>2. CoinsMoved(v.account, paid[i + 1].account, i * m + m)
      BY <2>3, <2>6, <2>7, <3>1, CoinsTwice
    <3> QED BY <3>1, <3>2
  <2> QED BY <2>3, <2>6, <2>7, PaysTwice
<1> HIDE DEF T
<1>5. Nat \subseteq T
  BY <1>3, <1>4, SetInduction
<1> QED BY <1>1, <1>2, <1>5 DEF T

(***************************************************************************)
(* What a round with n delegates keeps back of its fees and rewards, or    *)
(* pays in excess                                                          *)
(***************************************************************************)
Remainders(data, n) ==
  2 * (data.fee + data.reward) - (RoundLength + n) * (data.fee \div n + data.reward \div n)

LEMMA Distribute ==
  ASSUME NEW n \in Int, NEW a \in Int, NEW b \in Int
  PROVE  n * (a + b) = a * n + b * n /\ a * n \in Int /\ b * n \in Int
OBVIOUS

LEMMA Shares ==
  ASSUME NEW F \in Nat, NEW R \in Nat, NEW n \in Nat \ {0}, NEW L \in Nat
  PROVE  LET f == F \div n
             r == R \div n
         IN  /\ f + r \in Int /\ L * (f + r) \in Int /\ (L + n) * (f + r) \in Int
             /\ (f * n - F) + (r * n - R) \in Int
             /\ L * (f + r) + ((f * n - F) + (r * n - R)) = (F + R) - (2 * (F + R) - (L + n) * (f + r))
<1> DEFINE f == F \div n
           r == R \div n
           p == f * n
           q == r * n
           s == f + r
           x == L * s
           y == n * s
<1>1. f \in Nat /\ r \in Nat
  BY Division
<1> HIDE DEF f, r
<1>2. y = p + q /\ p \in Int /\ q \in Int
  BY <1>1, Distribute
<1>3. s \in Int /\ x \in Int /\ y \in Int
  BY <1>1, <1>2
<1>4. (L + n) * s = x + y
  <2> HIDE DEF s
  <2> QED BY <1>3
<1> HIDE DEF p, q, s, x, y
<1>5. /\ (p - F) + (q - R) \in Int /\ (L + n) * s \in Int
      /\ x + ((p - F) + (q - R)) = (F + R) - (2 * (F + R) - (L + n) * s)
  <2>1. /\ (p - F) + (q - R) \in Int /\ x + y \in Int
        /\ x + ((p - F) + (q - R)) = (F + R) - (2 * (F + R) - (x + y))
    BY <1>2, <1>3
  <2> QED BY <1>4, <2>1
<1> QED BY <1>3, <1>5 DEF f, r, p, q, s, x

LEMMA RemaindersType ==
  ASSUME NEW data, data.fee \in Nat, data.reward \in Nat, NEW n \in Nat \ {0}
  PROVE  Remainders(data, n) \in Int
<1> DEFINE F == data.fee
           R == data.reward
           x == (RoundLength + n) * (F \div n + R \div n)
<1>1. RoundLength \in Nat /\ F \in Nat /\ R \in Nat
  BY RoundsAssumption
<1>2. Remainders(data, n) = 2 * (F + R) - x
  BY DEF Remainders
<1> HIDE DEF F, R
<1>3. x \in Int
  BY <1>1, Shares
<1> HIDE DEF x
<1> QED BY <1>1, <1>2, <1>3

LEMMA PayRoundPays ==
  ASSUME NEW v, IsTables(v), PeopleOK(v), NEW forged, DOMAIN forged = 1 .. RoundLength,
         \A i \in 1 .. RoundLength : forged[i] \in DOMAIN v.delegate,
         NEW delegate \in DOMAIN v.delegate, NEW data,
         NEW w, w = PayRound(v, forged, delegate, data)
  PROVE  /\ Pays(v, w)
         /\ Len(v.bookkeeper) \in Nat \ {0} /\ data.fee \in Nat /\ data.reward \in Nat
              => CoinsMoved(v.account, w.account,
                            (data.fee + data.reward) - Remainders(data, Len(v.bookkeeper)))
<1> DEFINE n == Len(v.bookkeeper)
           f == data.fee \div n
           r == data.reward \div n
           paid == PayForgers(v, forged, f, r)
           a == f * n - data.fee
           b == r * n - data.reward
<1>1. w = UpdateDelegate(paid, delegate, a, b)
  BY DEF PayRound
<1>2. Pays(v, paid) /\ (f + r \in Int => CoinsMoved(v.account, paid.account, RoundLength * (f + r)))
  <2> HIDE DEF f, r
  <2> QED BY PayForgersPays
<1> HIDE DEF paid
<1>3. IsTables(paid) /\ PeopleOK(paid) /\ delegate \in DOMAIN paid.delegate
  BY <1>2 DEF Pays, DelegatesKept
<1>4. Pays(paid, w) /\ (a + b \in Int => CoinsMoved(paid.account, w.account, a + b))
  <2> HIDE DEF a, b
  <2> QED BY <1>1, <1>3, UpdateDelegatePays
<1>5. ASSUME n \in Nat \ {0}, data.fee \in Nat, data.reward \in Nat
      PROVE  CoinsMoved(v.account, w.account, (data.fee + data.reward) - Remainders(data, n))
  <2>1. /\ f + r \in Int /\ RoundLength * (f + r) \in Int /\ a + b \in Int
        /\ RoundLength * (f + r) + (a + b)
             = (data.fee + data.reward)
                 - (2 * (data.fee + data.reward) - (RoundLength + n) * (f + r))
    <3> DEFINE F == data.fee
               R == data.reward
               L == RoundLength
    <3>1. F \in Nat /\ R \in Nat /\ n \in Nat \ {0} /\ L \in Nat
      BY <1>5, RoundsAssumption
    <3> HIDE DEF n, F, R, L
    <3>2. /\ F \div n + R \div n \in Int /\ L * (F \div n + R \div n) \in Int
          /\ ((F \div n) * n - F) + ((R \div n) * n - R) \in Int
          /\ L * (F \div n + R \div n) + (((F \div n) * n - F) + ((R \div n) * n - R))
               = (F + R) - (2 * (F + R) - (L + n) * (F \div n + R \div n))
      BY ONLY <3>1, Shares
    <3> QED BY <3>2 DEF F, R, L
  <2>2. Remainders(data, n) = 2 * (data.fee + data.reward) - (RoundLength + n) * (f + r)
    <3> HIDE DEF n
    <3> QED BY DEF Remainders
  <2> HIDE DEF f, r, a, b
  <2> DEFINE m == RoundLength * (f + r)
             k == a + b
  <2>3. CoinsMoved(v.account, paid.account, m) /\ CoinsMoved(paid.account, w.account, k)
    BY <1>2, <1>4, <2>1
  <2>4. m \in Int /\ k \in Int
    BY <2>1
  <2>5. m + k = (data.fee + data.reward) - Remainders(data, n)
    BY <2>1, <2>2
  <2> HIDE DEF m, k
  <2>6. CoinsMoved(v.account, w.account, m + k)
    BY <2>3, <2>4, CoinsTwice
  <2> QED BY <2>5, <2>6
<1> QED BY <1>2, <1>4, <1>5, PaysTwice

-----------------------------------------------------------------------------
(* The tables a block leaves *)

NewData(v, height, trs) ==
  LET data == RoundData(v, RoundOf(height))
  IN  [fee |-> data.fee + GetFeesOfAll(trs), reward |-> data.reward + CalculateReward(height)]

(* The block is counted for its delegate and its round *)
Counts(v, w, height, trs) ==
  /\ IsTables(w) /\ PeopleOK(w)
  /\ w.account = v.account
  /\ DelegatesKept(v.delegate, w.delegate) /\ MissedKept(v.delegate, w.delegate)
  /\ w.round = With(v.round, RoundOf(height), NewData(v, height, trs))
  /\ w.bookkeeper = v.bookkeeper

LEMMA CountedCounts ==
  ASSUME NEW v, IsTables(v), PeopleOK(v), NEW d, NEW height, NEW trs,
         NEW produced, produced = [v EXCEPT !.delegate = Increase(@, {d}, "producedBlocks", 1)],
         NEW w, w = IncreaseRoundData(produced, RoundOf(height), GetFeesOfAll(trs), CalculateReward(height))
  PROVE  Counts(v, w, height, trs)
<1> DEFINE D == v.delegate
           E == Increase(D, {d}, "producedBlocks", 1)
           k == RoundOf(height)
           fee == GetFeesOfAll(trs)
           reward == CalculateReward(height)
           rows == With(v.round, k, NewData(v, height, trs))
<1>1. DelegatesKept(D, E) /\ MissedKept(D, E)
  <2>1. \A e \in DOMAIN D : DelegateRow(D[e])
    BY DEF PeopleOK, DelegatesOK
  <2> HIDE DEF D
  <2> QED BY <2>1, IncreaseDelegates
<1>2. produced = [v EXCEPT !.delegate = E]
  OBVIOUS
<1> HIDE DEF E
<1>3. IsTables(produced) /\ produced.delegate = E /\ produced.account = v.account
      /\ produced.round = v.round /\ produced.bookkeeper = v.bookkeeper
  BY <1>2 DEF IsTables, Fields
<1>4. RoundData(produced, k) = RoundData(v, k)
  BY <1>3 DEF RoundData
<1>5. w = [produced EXCEPT !.round = rows]
  <2> HIDE DEF k, fee, reward
  <2>1. w = IncreaseRoundData(produced, k, fee, reward)
    BY DEF k, fee, reward
  <2>2. w = [produced EXCEPT !.round = With(@, k, [fee |-> RoundData(produced, k).fee + fee,
                                                   reward |-> RoundData(produced, k).reward + reward])]
    BY <2>1 DEF IncreaseRoundData
  <2> QED BY <1>3, <1>4, <2>2 DEF NewData, k, fee, reward
<1> HIDE DEF rows
<1>6. IsTables(w) /\ w.delegate = E /\ w.account = v.account /\ w.round = rows /\ w.bookkeeper = v.bookkeeper
  BY <1>3, <1>5 DEF IsTables, Fields
<1>7. PeopleOK(w)
  BY <1>1, <1>6, AccountsSelf, PeopleKept DEF PeopleOK
<1> QED BY <1>1, <1>6, <1>7 DEF Counts, rows

LEMMA Recorded ==
  ASSUME NEW v, IsTables(v), PeopleOK(v), NEW trs, NEW w, w = SaveBlockTransactions(v, trs)
  PROVE  /\ IsTables(w) /\ PeopleOK(w) /\ w.account = v.account /\ w.delegate = v.delegate
         /\ RoundsSame(v, w)
<1>1. /\ IsTables(w) /\ w.account = v.account /\ w.delegate = v.delegate
      /\ RoundsSame(v, w)
  BY DEF SaveBlockTransactions, IsTables, Fields, RoundsSame
<1> QED BY <1>1 DEF PeopleOK

LEMMA Listed ==
  ASSUME NEW v, IsTables(v), PeopleOK(v), NEW w, w = UpdateBookkeeper(v)
  PROVE  /\ IsTables(w) /\ PeopleOK(w) /\ w.account = v.account /\ w.delegate = v.delegate
         /\ w.round = v.round
         /\ ListsDelegates(w)
<1>1. /\ IsTables(w) /\ w.account = v.account /\ w.delegate = v.delegate
      /\ w.round = v.round /\ w.bookkeeper = GetTopDelegates(v)
  BY DEF UpdateBookkeeper, IsTables, Fields
<1>2. PeopleOK(w)
  BY <1>1 DEF PeopleOK
<1> QED BY <1>1, <1>2, DelegatesCompare, TopDelegatesOK DEF ListsDelegates

(* The blocks of genesis, within a round, and at the end of one *)
LEMMA GenesisTablesAfter ==
  ASSUME NEW v, IsTables(v), PeopleOK(v), NEW blocks, NEW height, height = 0, NEW block,
         NEW w, w = TablesAfter(v, blocks, height, block)
  PROVE  /\ IsTables(w) /\ PeopleOK(w) /\ w.account = v.account /\ w.delegate = v.delegate
         /\ w.round = v.round
         /\ ListsDelegates(w)
<1> DEFINE recorded == SaveBlockTransactions(v, block.trs)
<1>0. EndsRound(height)
  <2>1. RoundLength \in Nat \ {0} /\ height \in Nat
    BY RoundsAssumption
  <2>2. height = (height \div RoundLength) * RoundLength + (height % RoundLength)
        /\ height \div RoundLength \in Nat /\ height % RoundLength \in Nat
    BY <2>1, Division
  <2> DEFINE q == height \div RoundLength
             p == q * RoundLength
  <2>3. p \in Nat
    BY <2>1, <2>2
  <2> HIDE DEF q, p
  <2> QED BY <2>2, <2>3 DEF EndsRound, p, q
<1>1. w = UpdateBookkeeper(recorded)
  BY <1>0 DEF TablesAfter, ApplyRound
<1>2. /\ IsTables(recorded) /\ PeopleOK(recorded)
      /\ recorded.account = v.account /\ recorded.delegate = v.delegate /\ RoundsSame(v, recorded)
  BY Recorded
<1> HIDE DEF recorded
<1> QED BY <1>1, <1>2, Listed DEF RoundsSame

LEMMA SameCounts ==
  ASSUME NEW v, NEW u, NEW w, NEW height, NEW trs, Counts(u, w, height, trs),
         u.account = v.account, u.delegate = v.delegate, RoundsSame(v, u)
  PROVE  Counts(v, w, height, trs)
BY DEF Counts, RoundsSame, NewData, RoundData

LEMMA OrdinaryTablesAfter ==
  ASSUME NEW v, IsTables(v), PeopleOK(v), NEW blocks, NEW height \in Nat \ {0}, ~ EndsRound(height), NEW block,
         NEW w, w = TablesAfter(v, blocks, height, block)
  PROVE  Counts(v, w, height, block.trs)
<1> DEFINE u == SaveBlockTransactions(v, block.trs)
           produced == [u EXCEPT !.delegate = Increase(@, {block.delegate}, "producedBlocks", 1)]
<1>1. w = IncreaseRoundData(produced, RoundOf(height), GetFeesOfAll(block.trs), CalculateReward(height))
  BY DEF TablesAfter, ApplyRound
<1>2. /\ IsTables(u) /\ PeopleOK(u)
      /\ u.account = v.account /\ u.delegate = v.delegate /\ RoundsSame(v, u)
  BY Recorded
<1> HIDE DEF u
<1>3. Counts(u, w, height, block.trs)
  <2> DEFINE p == produced
  <2>1. p = [u EXCEPT !.delegate = Increase(@, {block.delegate}, "producedBlocks", 1)]
    OBVIOUS
  <2>2. w = IncreaseRoundData(p, RoundOf(height), GetFeesOfAll(block.trs), CalculateReward(height))
    BY <1>1
  <2> HIDE DEF produced
  <2> QED BY <1>2, <2>1, <2>2, CountedCounts
<1> QED BY <1>2, <1>3, SameCounts

(* The round ends: its delegates are paid, or have missed a block, and the next ones are listed *)
Ends(v, w, height, trs, forged) ==
  LET data == NewData(v, height, trs)
  IN  /\ IsTables(w) /\ PeopleOK(w)
      /\ DOMAIN v.account \subseteq DOMAIN w.account /\ DOMAIN w.delegate = DOMAIN v.delegate
      /\ w.round = With(v.round, RoundOf(height), data)
      /\ ListsDelegates(w)
      /\ \A d \in DOMAIN v.delegate :
           w.delegate[d].missedBlocks
             = v.delegate[d].missedBlocks
                 + (IF d \in ToSet(v.bookkeeper) \ ToSet(forged) THEN 1 ELSE 0)
      /\ Len(v.bookkeeper) \in Nat \ {0} /\ data.fee \in Nat /\ data.reward \in Nat
           => CoinsMoved(v.account, w.account,
                         (data.fee + data.reward) - Remainders(data, Len(v.bookkeeper)))

LEMMA EndingTablesAfter ==
  ASSUME NEW v, IsTables(v), PeopleOK(v), NEW blocks, NEW height \in Nat \ {0}, EndsRound(height), NEW block,
         NEW forged, forged = ForgedDelegates(blocks, height, block.delegate),
         \A i \in 1 .. RoundLength : forged[i] \in DOMAIN v.delegate,
         block.delegate \in DOMAIN v.delegate,
         NEW w, w = TablesAfter(v, blocks, height, block)
  PROVE  Ends(v, w, height, block.trs, forged)
<1> DEFINE trs == block.trs
           u == SaveBlockTransactions(v, trs)
           produced == [u EXCEPT !.delegate = Increase(@, {block.delegate}, "producedBlocks", 1)]
           counted == IncreaseRoundData(produced, RoundOf(height), GetFeesOfAll(trs), CalculateReward(height))
           names == ToSet(counted.bookkeeper) \ ToSet(forged)
           missed == MissBlocks(counted, names)
           data == RoundData(missed, RoundOf(height))
           paid == PayRound(missed, forged, block.delegate, data)
<1>1. w = UpdateBookkeeper(paid)
  BY DEF TablesAfter, ApplyRound
<1>2. /\ IsTables(u) /\ PeopleOK(u)
      /\ u.account = v.account /\ u.delegate = v.delegate /\ RoundsSame(v, u)
  BY Recorded
<1> HIDE DEF u
<1>3. Counts(u, counted, height, trs)
  <2> DEFINE p == produced
             c == counted
  <2>1. p = [u EXCEPT !.delegate = Increase(@, {block.delegate}, "producedBlocks", 1)]
        /\ c = IncreaseRoundData(p, RoundOf(height), GetFeesOfAll(trs), CalculateReward(height))
    OBVIOUS
  <2> HIDE DEF produced, counted
  <2> QED BY <1>2, <2>1, CountedCounts
<1> HIDE DEF counted
<1>4. Counts(v, counted, height, trs)
  BY <1>2, <1>3, SameCounts
<1>5. /\ IsTables(counted) /\ PeopleOK(counted) /\ counted.account = v.account
      /\ counted.bookkeeper = v.bookkeeper
      /\ counted.round = With(v.round, RoundOf(height), NewData(v, height, trs))
      /\ DelegatesKept(v.delegate, counted.delegate) /\ MissedKept(v.delegate, counted.delegate)
  BY <1>4 DEF Counts
<1>6. /\ IsTables(missed) /\ PeopleOK(missed)
      /\ missed.account = counted.account /\ RoundsSame(counted, missed)
      /\ DelegatesKept(counted.delegate, missed.delegate)
      /\ \A d \in DOMAIN counted.delegate :
           missed.delegate[d].missedBlocks
             = counted.delegate[d].missedBlocks + (IF d \in names THEN 1 ELSE 0)
  <2> DEFINE D == counted.delegate
             E == Increase(D, names, "missedBlocks", 1)
  <2>1. \A d \in DOMAIN D : DelegateRow(D[d])
    BY <1>5 DEF PeopleOK, DelegatesOK
  <2>2. /\ DelegatesKept(D, E)
        /\ \A d \in DOMAIN D : E[d].missedBlocks = D[d].missedBlocks + (IF d \in names THEN 1 ELSE 0)
    <3> HIDE DEF D, names
    <3> QED BY <2>1, IncreaseMissed
  <2>3. missed = [counted EXCEPT !.delegate = E]
    BY DEF MissBlocks
  <2> HIDE DEF E, missed, names
  <2>4. /\ IsTables(missed) /\ missed.account = counted.account /\ missed.delegate = E
        /\ RoundsSame(counted, missed)
    BY <1>5, <2>3 DEF IsTables, Fields, RoundsSame
  <2>5. PeopleOK(missed)
    BY <1>5, <2>2, <2>4, AccountsSelf, PeopleKept DEF PeopleOK
  <2> QED BY <2>2, <2>4, <2>5
<1> HIDE DEF missed, names
<1>7. DOMAIN missed.delegate = DOMAIN v.delegate
  BY <1>5, <1>6 DEF DelegatesKept
<1>8. data = NewData(v, height, trs)
  <2>1. RoundOf(height) \in DOMAIN missed.round
        /\ missed.round[RoundOf(height)] = NewData(v, height, trs)
    BY <1>5, <1>6 DEF RoundsSame, With
  <2> QED BY <2>1 DEF RoundData
<1>9. DOMAIN forged = 1 .. RoundLength
  BY DEF ForgedDelegates
<1> HIDE DEF data
<1>10. /\ Pays(missed, paid)
       /\ Len(missed.bookkeeper) \in Nat \ {0} /\ data.fee \in Nat /\ data.reward \in Nat
            => CoinsMoved(missed.account, paid.account,
                          (data.fee + data.reward) - Remainders(data, Len(missed.bookkeeper)))
  BY <1>6, <1>7, <1>9, PayRoundPays
<1> HIDE DEF paid
<1>11. /\ IsTables(w) /\ PeopleOK(w) /\ w.account = paid.account /\ w.delegate = paid.delegate
       /\ w.round = paid.round
       /\ ListsDelegates(w)
  BY <1>1, <1>10, Listed DEF Pays
<1>12. /\ DOMAIN v.account \subseteq DOMAIN w.account /\ DOMAIN w.delegate = DOMAIN v.delegate
       /\ w.round = With(v.round, RoundOf(height), NewData(v, height, trs))
  BY <1>5, <1>6, <1>7, <1>10, <1>11 DEF Pays, AccountsKept, DelegatesKept, RoundsSame
<1>13. ASSUME NEW d \in DOMAIN v.delegate
       PROVE  w.delegate[d].missedBlocks
                = v.delegate[d].missedBlocks
                    + (IF d \in ToSet(v.bookkeeper) \ ToSet(forged) THEN 1 ELSE 0)
  <2>1. w.delegate[d].missedBlocks = missed.delegate[d].missedBlocks
    BY <1>7, <1>10, <1>11 DEF Pays, MissedKept
  <2>2. missed.delegate[d].missedBlocks = counted.delegate[d].missedBlocks + (IF d \in names THEN 1 ELSE 0)
    BY <1>5, <1>6 DEF DelegatesKept
  <2>3. counted.delegate[d].missedBlocks = v.delegate[d].missedBlocks
    BY <1>5 DEF MissedKept
  <2>4. names = ToSet(v.bookkeeper) \ ToSet(forged)
    BY <1>5 DEF names
  <2> QED BY <2>1, <2>2, <2>3, <2>4
<1>14. Len(v.bookkeeper) \in Nat \ {0} /\ data.fee \in Nat /\ data.reward \in Nat
         => CoinsMoved(v.account, w.account,
                       (data.fee + data.reward) - Remainders(data, Len(v.bookkeeper)))
  BY <1>5, <1>6, <1>10, <1>11 DEF RoundsSame
<1> QED BY <1>8, <1>11, <1>12, <1>13, <1>14 DEF Ends

-----------------------------------------------------------------------------
(* The tables of every block *)

Ordered(tables) ==
  IsTables(tables) /\ PeopleOK(tables) /\ ListsDelegates(tables)

LEMMA NobodyOrdered ==
  /\ PeopleSession(SessionOver(NoEntities)) /\ NoEntities.account = NoRows
  /\ NoEntities.delegate = NoRows /\ NoEntities.round = NoRows /\ DOMAIN NoRows = {}
<1>1. /\ IsTables(NoEntities) /\ NoEntities.account = NoRows
      /\ NoEntities.delegate = NoRows /\ NoEntities.round = NoRows
  BY DEF NoEntities, IsTables, Fields
<1>2. DOMAIN NoRows = {}
  BY DEF NoRows
<1>3. IsFiniteSet({})
  BY FS_EmptySet
<1>4. PeopleOK(NoEntities)
  BY <1>1, <1>2, <1>3 DEF PeopleOK, AccountsOK, NamesRanked, DelegatesOK
<1> QED BY <1>1, <1>2, <1>4, OverTables DEF PeopleSession

(* Delegates that have not missed anything, as those of genesis have not *)
NothingMissed(tables) == \A d \in DOMAIN tables.delegate : tables.delegate[d].missedBlocks = 0

NoUnlock(trs) == \A id \in ToSet(trs) : Content[id].type # "unlock"

LEMMA GenesisOrdered ==
  ASSUME GenesisValid
  PROVE  /\ Ordered(GenesisTables) /\ NothingMissed(GenesisTables)
         /\ GenesisTables.round = NoRows
         /\ NoUnlock(GenesisTrs)
              => Purses(GenesisTables.account) /\ CoinsIn(GenesisTables.account) = 0
<1> DEFINE s == SessionOver(NoEntities)
           r == ApplyBlock(s, GenesisTrs, -1)
           v == r.session.view
<1>1. GenesisBlock.trs = GenesisTrs /\ GenesisTrs \in Seq(TrsIds) /\ 0 - 1 = -1 /\ -1 \in Int /\ -1 + 1 = 0
  BY ExecutionAssumption DEF GenesisBlock, Block
<1>2. r.ok /\ IsInjective(GenesisTrs) /\ GenesisTables = TablesAfter(v, NoRows, 0, GenesisBlock)
  BY <1>1 DEF GenesisValid, GenesisTables, Executed, BlockPasses
<1>3. PeopleSession(s) /\ s.view = NoEntities /\ NoEntities.account = NoRows
      /\ NoEntities.delegate = NoRows /\ NoEntities.round = NoRows /\ DOMAIN NoRows = {}
  BY NobodyOrdered, OverTables
<1> HIDE DEF s
<1>4. /\ Advances(s, r.session)
      /\ NoUnlock(GenesisTrs) => CoinsMoved(s.view.account, v.account, ChargeOf(ToSet(GenesisTrs), 0))
  <2> HIDE DEF r
  <2> QED BY <1>1, <1>2, <1>3, ApplyBlockAdvances DEF NoUnlock, r
<1> HIDE DEF r
<1>5. IsTables(v) /\ PeopleOK(v) /\ Proceeds(NoEntities, v) /\ v.round = NoRows
  BY <1>3, <1>4 DEF Advances, PeopleSession, RoundsSame
<1>6. NothingMissed(v)
  BY <1>3, <1>5 DEF Proceeds, NothingMissed
<1>7. NoUnlock(GenesisTrs) => Purses(v.account) /\ CoinsIn(v.account) = 0
  <2>1. Purses(NoRows)
    BY <1>3, FS_EmptySet DEF Purses
  <2>2. CoinsIn(NoRows) = 0
    <3> DEFINE f == [a \in DOMAIN NoRows |-> Purse(NoRows[a])]
    <3>1. CoinsIn(NoRows) = Sum(f, DOMAIN NoRows)
      BY DEF CoinsIn
    <3> HIDE DEF f
    <3>2. Sum(f, {}) = 0
      BY SumEmpty
    <3>3. DOMAIN NoRows = {}
      BY <1>3
    <3> QED BY <3>1, <3>2, <3>3, Zenon
  <2>3. ChargeOf(ToSet(GenesisTrs), 0) = 0
    BY DEF ChargeOf
  <2> QED BY <1>3, <1>4, <2>1, <2>2, <2>3 DEF CoinsMoved
<1> HIDE DEF v
<1> DEFINE w == GenesisTables
           block == GenesisBlock
<1>8. w = TablesAfter(v, NoRows, 0, block)
  BY <1>2
<1> HIDE DEF w, block
<1>9. /\ IsTables(w) /\ PeopleOK(w) /\ w.account = v.account /\ w.delegate = v.delegate
      /\ w.round = v.round /\ ListsDelegates(w)
  BY <1>5, <1>8, GenesisTablesAfter
<1>10. NothingMissed(w)
  BY <1>6, <1>9 DEF NothingMissed
<1> QED BY <1>5, <1>7, <1>9, <1>10 DEF Ordered, w

(* The tables a block finds once its transactions are applied *)
AppliedView(h) == ApplyBlock(SessionOver(saved[h - 1]), chain[h].trs, h - 1).session.view

LEMMA BlockApplied ==
  ASSUME ChainTyped, ChainReplayed, NEW h \in 1 .. Height, Ordered(saved[h - 1])
  PROVE  LET u == saved[h - 1]
             v == AppliedView(h)
             trs == chain[h].trs
         IN  /\ saved[h] = TablesAfter(v, chain, h, chain[h])
             /\ IsTables(v) /\ PeopleOK(v) /\ Proceeds(u, v) /\ RoundsSame(u, v)
             /\ NoUnlock(trs) => /\ CoinsMoved(u.account, v.account, - Fees(ToSet(trs)))
                                 /\ Fees(ToSet(trs)) \in Nat
<1> DEFINE s == SessionOver(saved[h - 1])
           trs == chain[h].trs
           r == ApplyBlock(s, trs, h - 1)
<1>1. Height \in Nat /\ h \in Nat /\ h # 0 /\ h \in 0 .. Height /\ h - 1 \in Int /\ (h - 1) + 1 = h
  BY DEF ChainTyped
<1>2. trs \in Seq(TrsIds)
  BY <1>1 DEF ChainTyped
<1>3. /\ saved[h] = Executed(s, chain, h, chain[h])
      /\ BlockPasses(s, chain[h]) /\ r.ok
  BY DEF ChainReplayed, Applies
<1>4. saved[h] = TablesAfter(r.session.view, chain, h, chain[h]) /\ IsInjective(trs)
  BY <1>3 DEF Executed, BlockPasses
<1>5. s.view = saved[h - 1] /\ PeopleSession(s)
  BY OverTables DEF Ordered, PeopleSession
<1>6. AppliedView(h) = r.session.view
  BY DEF AppliedView
<1> HIDE DEF s, trs
<1>7. /\ Advances(s, r.session)
      /\ NoUnlock(trs) => /\ CoinsMoved(s.view.account, r.session.view.account, ChargeOf(ToSet(trs), h))
                          /\ Fees(ToSet(trs)) \in Nat
  <2> DEFINE k == h - 1
  <2>1. k \in Int /\ k + 1 = h /\ r = ApplyBlock(s, trs, k)
    BY <1>1
  <2> HIDE DEF r, k
  <2> QED BY <1>2, <1>3, <1>4, <1>5, <2>1, ApplyBlockAdvances DEF NoUnlock
<1> HIDE DEF r
<1>8. ChargeOf(ToSet(trs), h) = - Fees(ToSet(trs))
  BY <1>1 DEF ChargeOf
<1> QED BY <1>4, <1>5, <1>6, <1>7, <1>8 DEF Advances, PeopleSession, trs

(* The delegates of the blocks of the round that a block ends *)
Forged(h) == ForgedDelegates(chain, h, chain[h].delegate)

MissedAt(d, h) == EndsRound(h) /\ d \in ToSet(saved[h - 1].bookkeeper) \ ToSet(Forged(h))

MissedOf(tables, d) == IF d \in DOMAIN tables.delegate THEN tables.delegate[d].missedBlocks ELSE 0

(***************************************************************************)
(* What a block makes of the tables: the rounds count its fees and reward, *)
(* the list changes if it ends a round, and then whoever is listed and has *)
(* no block of the round missed one.                                       *)
(***************************************************************************)
BlockEffect(u, w, h) ==
  /\ Ordered(w)
  /\ DOMAIN u.delegate \subseteq DOMAIN w.delegate
  /\ w.round = With(u.round, RoundOf(h), NewData(u, h, chain[h].trs))
  /\ ~ EndsRound(h) => w.bookkeeper = u.bookkeeper
  /\ \A d \in DOMAIN w.delegate :
       w.delegate[d].missedBlocks = MissedOf(u, d) + (IF MissedAt(d, h) THEN 1 ELSE 0)

(* What it does to the coins of all accounts *)
BlockIncome(u, h) ==
  LET data == NewData(u, h, chain[h].trs)
  IN  IF EndsRound(h) THEN (data.fee + data.reward) - Remainders(data, Len(u.bookkeeper)) ELSE 0

CoinsEffect(u, w, h) ==
  LET data == NewData(u, h, chain[h].trs)
  IN  /\ NoUnlock(chain[h].trs) /\ Len(u.bookkeeper) \in Nat \ {0} /\ data.fee \in Nat /\ data.reward \in Nat
           => CoinsMoved(u.account, w.account, - Fees(ToSet(chain[h].trs)) + BlockIncome(u, h))
      /\ NoUnlock(chain[h].trs) => Fees(ToSet(chain[h].trs)) \in Nat

LEMMA MissedNumbers ==
  ASSUME NEW u, PeopleOK(u), NEW d
  PROVE  MissedOf(u, d) \in Int
<1>1. \A e \in DOMAIN u.delegate : DelegateRow(u.delegate[e])
  BY DEF PeopleOK, DelegatesOK
<1>2. \A e \in DOMAIN u.delegate : u.delegate[e].missedBlocks \in Int
  BY <1>1 DEF DelegateRow
<1> QED BY <1>2 DEF MissedOf

LEMMA ProceedsMissed ==
  ASSUME NEW u, PeopleOK(u), NEW v, Proceeds(u, v), NEW d \in DOMAIN v.delegate
  PROVE  v.delegate[d].missedBlocks = MissedOf(u, d)
BY DEF Proceeds, MissedKept, MissedOf

LEMMA OrdinaryEffect ==
  ASSUME ChainTyped, ChainReplayed, NEW h \in 1 .. Height, ~ EndsRound(h),
         NEW u, u = saved[h - 1], NEW w, w = saved[h], Ordered(u)
  PROVE  BlockEffect(u, w, h) /\ CoinsEffect(u, w, h)
<1> DEFINE v == AppliedView(h)
           trs == chain[h].trs
           block == chain[h]
<1>1. h \in Nat \ {0}
  BY DEF ChainTyped
<1>2. /\ w = TablesAfter(v, chain, h, block)
      /\ IsTables(v) /\ PeopleOK(v) /\ Proceeds(u, v) /\ RoundsSame(u, v)
      /\ NoUnlock(trs) => CoinsMoved(u.account, v.account, - Fees(ToSet(trs))) /\ Fees(ToSet(trs)) \in Nat
  BY BlockApplied
<1> HIDE DEF v, block
<1>3. Counts(v, w, h, block.trs)
  BY <1>1, <1>2, OrdinaryTablesAfter
<1>4. Counts(v, w, h, trs)
  BY <1>3 DEF block
<1> HIDE DEF trs
<1>5. w.round = With(u.round, RoundOf(h), NewData(u, h, trs)) /\ w.bookkeeper = u.bookkeeper
      /\ w.account = v.account /\ IsTables(w) /\ PeopleOK(w)
      /\ DOMAIN w.delegate = DOMAIN v.delegate /\ MissedKept(v.delegate, w.delegate)
  BY <1>2, <1>4 DEF Counts, RoundsSame, NewData, RoundData, DelegatesKept
<1>6. DOMAIN u.delegate \subseteq DOMAIN w.delegate
  BY <1>2, <1>5 DEF Proceeds
<1>7. Ordered(w)
  <2>1. ListsDelegates(w)
    BY <1>5, <1>6, ListsRemain DEF Ordered
  <2> QED BY <1>5, <2>1 DEF Ordered
<1>8. ASSUME NEW d \in DOMAIN w.delegate
      PROVE  w.delegate[d].missedBlocks = MissedOf(u, d) + (IF MissedAt(d, h) THEN 1 ELSE 0)
  <2>1. w.delegate[d].missedBlocks = v.delegate[d].missedBlocks
    BY <1>5 DEF MissedKept
  <2>2. v.delegate[d].missedBlocks = MissedOf(u, d)
    BY <1>2, <1>5, ProceedsMissed DEF Ordered
  <2>3. MissedOf(u, d) \in Int /\ ~ MissedAt(d, h)
    BY MissedNumbers DEF Ordered, MissedAt
  <2> QED BY <2>1, <2>2, <2>3
<1>9. BlockEffect(u, w, h)
  BY <1>5, <1>6, <1>7, <1>8 DEF BlockEffect, trs
<1>10. CoinsEffect(u, w, h)
  <2>1. BlockIncome(u, h) = 0
    BY DEF BlockIncome
  <2>2. ASSUME NoUnlock(trs)
        PROVE  CoinsMoved(u.account, w.account, - Fees(ToSet(trs)) + BlockIncome(u, h))
               /\ Fees(ToSet(trs)) \in Nat
    <3> DEFINE fees == Fees(ToSet(trs))
               income == BlockIncome(u, h)
    <3>1. CoinsMoved(u.account, w.account, - fees) /\ fees \in Nat
      BY <1>2, <1>5, <2>2
    <3>2. - fees = - fees + income
      BY <2>1, <3>1
    <3> HIDE DEF fees, income
    <3>3. CoinsMoved(u.account, w.account, - fees + income)
      BY <3>1, <3>2
    <3> QED BY <3>1, <3>3 DEF fees, income
  <2> QED BY <2>2 DEF CoinsEffect, trs
<1> QED BY <1>9, <1>10

LEMMA EndingEffect ==
  ASSUME ChainTyped, ChainReplayed, NEW h \in 1 .. Height, EndsRound(h),
         NEW u, u = saved[h - 1], NEW w, w = saved[h], Ordered(u),
         \A i \in 1 .. RoundLength : Forged(h)[i] \in DOMAIN u.delegate,
         chain[h].delegate \in DOMAIN u.delegate
  PROVE  BlockEffect(u, w, h) /\ CoinsEffect(u, w, h)
<1> DEFINE v == AppliedView(h)
           trs == chain[h].trs
           block == chain[h]
           forged == Forged(h)
           data == NewData(u, h, trs)
<1>1. h \in Nat \ {0}
  BY DEF ChainTyped
<1>2. /\ w = TablesAfter(v, chain, h, block)
      /\ IsTables(v) /\ PeopleOK(v) /\ Proceeds(u, v) /\ RoundsSame(u, v)
      /\ NoUnlock(trs) => CoinsMoved(u.account, v.account, - Fees(ToSet(trs))) /\ Fees(ToSet(trs)) \in Nat
  BY BlockApplied
<1> HIDE DEF v
<1>3. NewData(v, h, trs) = data /\ v.bookkeeper = u.bookkeeper /\ v.round = u.round
  BY <1>2 DEF RoundsSame, NewData, RoundData
<1>4. /\ forged = ForgedDelegates(chain, h, block.delegate)
      /\ \A i \in 1 .. RoundLength : forged[i] \in DOMAIN v.delegate
      /\ block.delegate \in DOMAIN v.delegate
  BY <1>2 DEF Forged, Proceeds
<1>5. block.trs = trs
  OBVIOUS
<1> HIDE DEF block, forged, data, trs
<1>6. /\ IsTables(w) /\ PeopleOK(w)
      /\ DOMAIN v.account \subseteq DOMAIN w.account /\ DOMAIN w.delegate = DOMAIN v.delegate
      /\ w.round = With(v.round, RoundOf(h), data)
      /\ ListsDelegates(w)
      /\ \A d \in DOMAIN v.delegate :
           w.delegate[d].missedBlocks
             = v.delegate[d].missedBlocks + (IF d \in ToSet(u.bookkeeper) \ ToSet(forged) THEN 1 ELSE 0)
      /\ Len(u.bookkeeper) \in Nat \ {0} /\ data.fee \in Nat /\ data.reward \in Nat
           => CoinsMoved(v.account, w.account,
                         (data.fee + data.reward) - Remainders(data, Len(u.bookkeeper)))
  <2>1. data = NewData(v, h, block.trs)
    BY <1>3, <1>5
  <2>2. IsTables(v) /\ PeopleOK(v) /\ h \in Nat \ {0} /\ EndsRound(h)
        /\ w = TablesAfter(v, chain, h, block)
    BY <1>1, <1>2
  <2>3. Ends(v, w, h, block.trs, forged)
    BY ONLY <1>4, <2>2, EndingTablesAfter
  <2> QED BY <1>3, <2>1, <2>3 DEF Ends
<1>7. DOMAIN u.delegate \subseteq DOMAIN w.delegate
  BY <1>2, <1>6 DEF Proceeds
<1>8. ASSUME NEW d \in DOMAIN w.delegate
      PROVE  w.delegate[d].missedBlocks = MissedOf(u, d) + (IF MissedAt(d, h) THEN 1 ELSE 0)
  <2>1. w.delegate[d].missedBlocks
          = v.delegate[d].missedBlocks + (IF d \in ToSet(u.bookkeeper) \ ToSet(forged) THEN 1 ELSE 0)
    BY <1>6
  <2>2. v.delegate[d].missedBlocks = MissedOf(u, d)
    BY <1>2, <1>6, ProceedsMissed DEF Ordered
  <2>3. MissedAt(d, h) <=> d \in ToSet(u.bookkeeper) \ ToSet(forged)
    BY DEF MissedAt, forged
  <2> QED BY <2>1, <2>2, <2>3
<1>9. BlockEffect(u, w, h)
  BY <1>3, <1>6, <1>7, <1>8 DEF BlockEffect, Ordered, data, trs
<1>10. ASSUME NoUnlock(trs), Len(u.bookkeeper) \in Nat \ {0}, data.fee \in Nat, data.reward \in Nat
       PROVE  CoinsMoved(u.account, w.account, - Fees(ToSet(trs)) + BlockIncome(u, h))
  <2> DEFINE fees == Fees(ToSet(trs))
             income == (data.fee + data.reward) - Remainders(data, Len(u.bookkeeper))
  <2>1. income = BlockIncome(u, h)
    BY DEF BlockIncome, data, trs
  <2>2. fees \in Nat /\ - fees \in Int
    BY <1>2, <1>10
  <2>3. income \in Int
    BY <1>10, RemaindersType
  <2>4. CoinsMoved(u.account, v.account, - fees) /\ CoinsMoved(v.account, w.account, income)
    BY <1>2, <1>6, <1>10
  <2> HIDE DEF fees, income
  <2>5. CoinsMoved(u.account, w.account, - fees + income)
    BY <2>2, <2>3, <2>4, CoinsTwice
  <2> QED BY <2>1, <2>5 DEF fees
<1>11. CoinsEffect(u, w, h)
  BY <1>2, <1>10 DEF CoinsEffect, data, trs
<1> QED BY <1>9, <1>11

-----------------------------------------------------------------------------
(* Whoever forges is listed *)

ChainListed == \A h \in 1 .. Height : chain[h].delegate \in ToSet(saved[h - 1].bookkeeper)

ListedInv ==
  /\ Height <= MaxHeight /\ ChainListed
  /\ IsCollectingVotes => /\ Height < MaxHeight
                          /\ pendingBlock.delegate \in ToSet(saved[Height].bookkeeper)

(* Delegates stay, from the tables of a block on *)
OrderedUpTo(h) ==
  \A k \in 0 .. h : Ordered(saved[k]) /\ DOMAIN saved[k].delegate \subseteq DOMAIN saved[h].delegate

(* The delegates of the blocks of a round are delegates in the tables before its end *)
LEMMA ForgersKnown ==
  ASSUME ChainTyped, ChainListed, NEW h \in 1 .. Height, OrderedUpTo(h - 1), EndsRound(h)
  PROVE  /\ chain[h].delegate \in DOMAIN saved[h - 1].delegate
         /\ \A i \in 1 .. RoundLength : Forged(h)[i] \in DOMAIN saved[h - 1].delegate
<1> DEFINE u == saved[h - 1]
<1>1. Height \in Nat /\ h \in Nat \ {0}
  BY DEF ChainTyped
<1>2. ASSUME NEW k \in 1 .. h PROVE chain[k].delegate \in DOMAIN u.delegate
  <2>1. k \in 1 .. Height /\ k - 1 \in 0 .. h - 1
    BY <1>1
  <2>2. chain[k].delegate \in ToSet(saved[k - 1].bookkeeper)
    BY <2>1 DEF ChainListed
  <2>3. Ordered(saved[k - 1]) /\ DOMAIN saved[k - 1].delegate \subseteq DOMAIN u.delegate
    BY <2>1 DEF OrderedUpTo
  <2> QED BY <2>2, <2>3 DEF Ordered, ListsDelegates
<1>3. ASSUME NEW i \in 1 .. RoundLength PROVE Forged(h)[i] \in DOMAIN u.delegate
  <2>0. RoundLength \in Nat \ {0}
    BY RoundsAssumption
  <2>1. Forged(h)[i] = IF i = RoundLength THEN chain[h].delegate ELSE chain[h - RoundLength + i].delegate
    BY DEF Forged, ForgedDelegates
  <2>2. CASE i = RoundLength
    BY <1>1, <1>2, <2>1, <2>2
  <2>3. CASE i # RoundLength
    <3>1. i \in 1 .. RoundLength - 1
      BY <2>0, <2>3
    <3>2. h - RoundLength + i \in 1 .. h - 1
      BY <1>1, <3>1, RoundIsBelow
    <3>3. h - RoundLength + i \in 1 .. h
      BY <1>1, <3>2
    <3> DEFINE k == h - RoundLength + i
    <3> HIDE DEF k
    <3>4. k \in 1 .. h /\ Forged(h)[i] = chain[k].delegate
      BY <2>1, <2>3, <3>3 DEF k
    <3> QED BY <1>2, <3>4
  <2> QED BY <2>2, <2>3
<1>4. chain[h].delegate \in DOMAIN u.delegate
  BY <1>1, <1>2
<1> QED BY <1>3, <1>4

LEMMA EffectStep ==
  ASSUME ChainTyped, ChainReplayed, ChainListed, NEW h \in 1 .. Height, OrderedUpTo(h - 1)
  PROVE  BlockEffect(saved[h - 1], saved[h], h) /\ CoinsEffect(saved[h - 1], saved[h], h)
<1> DEFINE u == saved[h - 1]
<1>1. Height \in Nat /\ h \in Nat \ {0} /\ h - 1 \in 0 .. h - 1
  BY DEF ChainTyped
<1>2. Ordered(u)
  BY <1>1 DEF OrderedUpTo
<1>3. CASE ~ EndsRound(h)
  BY <1>2, <1>3, OrdinaryEffect
<1>4. CASE EndsRound(h)
  BY <1>2, <1>4, ForgersKnown, EndingEffect
<1> QED BY <1>3, <1>4

LEMMA TablesOrdered ==
  ASSUME GenesisValid, ChainTyped, ChainReplayed, ChainListed
  PROVE  \A h \in 0 .. Height : OrderedUpTo(h)
<1> DEFINE T == {h \in Nat : h <= Height => OrderedUpTo(h)}
<1>0. Height \in Nat /\ saved[0] = GenesisTables
  BY DEF ChainTyped
<1>1. 0 \in T
  <2>1. 0 .. 0 = {0}
    OBVIOUS
  <2>2. Ordered(saved[0])
    BY <1>0, GenesisOrdered
  <2>3. OrderedUpTo(0)
    BY <2>1, <2>2 DEF OrderedUpTo
  <2> QED BY <2>3
<1>2. ASSUME NEW i \in Nat, i \in T PROVE i + 1 \in T
  <2>1. SUFFICES ASSUME i + 1 <= Height PROVE OrderedUpTo(i + 1)
    OBVIOUS
  <2> DEFINE h == i + 1
  <2>2. h \in 1 .. Height /\ h - 1 = i /\ OrderedUpTo(i) /\ i \in 0 .. i
    BY <1>0, <1>2, <2>1
  <2> HIDE DEF h
  <2>3. BlockEffect(saved[i], saved[h], h)
    <3>1. BlockEffect(saved[h - 1], saved[h], h)
      BY <2>2, EffectStep
    <3> QED BY <2>2, <3>1
  <2>4. Ordered(saved[h]) /\ DOMAIN saved[i].delegate \subseteq DOMAIN saved[h].delegate
    BY <2>3 DEF BlockEffect
  <2>5. ASSUME NEW k \in 0 .. h
        PROVE  Ordered(saved[k]) /\ DOMAIN saved[k].delegate \subseteq DOMAIN saved[h].delegate
    <3>1. CASE k = h
      BY <2>4, <3>1
    <3>2. CASE k # h
      <4>1. k \in 0 .. i
        BY <3>2 DEF h
      <4> QED BY <2>2, <2>4, <4>1 DEF OrderedUpTo
    <3> QED BY <3>1, <3>2
  <2>6. OrderedUpTo(h)
    BY <2>5 DEF OrderedUpTo
  <2> QED BY <2>6 DEF h
<1> HIDE DEF T
<1>3. Nat \subseteq T
  BY <1>1, <1>2, SetInduction
<1> QED BY <1>0, <1>3 DEF T

LEMMA BlocksTakeEffect ==
  ASSUME GenesisValid, ChainTyped, ChainReplayed, ChainListed, NEW h \in 1 .. Height
  PROVE  /\ Ordered(saved[h - 1]) /\ Ordered(saved[h])
         /\ BlockEffect(saved[h - 1], saved[h], h) /\ CoinsEffect(saved[h - 1], saved[h], h)
<1>1. h - 1 \in 0 .. Height /\ h - 1 \in 0 .. h - 1 /\ h \in 0 .. Height /\ h \in 0 .. h
  BY DEF ChainTyped
<1>2. OrderedUpTo(h - 1) /\ OrderedUpTo(h)
  BY <1>1, TablesOrdered
<1>3. Ordered(saved[h - 1]) /\ Ordered(saved[h])
  BY <1>1, <1>2 DEF OrderedUpTo
<1> QED BY <1>2, <1>3, EffectStep

(* The overlay lists the delegates that the tables list *)
LEMMA OverlayLists ==
  ASSUME GenesisValid, TypeInv, ReplayInv, ChainListed
  PROVE  Delegates = ToSet(saved[Height].bookkeeper)
<1> DEFINE s == SessionOver(saved[Height])
           r == ApplyBlock(s, pool, Height)
<1>1. ChainTyped /\ ChainReplayed /\ Height \in Nat /\ pool \in Seq(TrsIds)
  <2>1. pool \in Seq(Senders)
    BY PoolParts DEF TypeInv
  <2> QED BY <2>1, ExecutionAssumption DEF TypeInv, ReplayInv, ChainTyped
<1>2. r = Fresh(session)
  BY DEF ReplayInv, PoolApplied, PoolState
<1>3. r.ok /\ r.session = session
  <2> HIDE DEF r
  <2> QED BY <1>2 DEF Fresh
<1>4. Ordered(saved[Height])
  <2>1. Height \in 0 .. Height
    BY <1>1
  <2>2. OrderedUpTo(Height)
    BY <1>1, <2>1, TablesOrdered
  <2> QED BY <2>1, <2>2 DEF OrderedUpTo
<1>5. PeopleSession(s) /\ s.view = saved[Height]
  BY <1>4, OverTables DEF Ordered, PeopleSession
<1> HIDE DEF s
<1>6. Advances(s, r.session)
  <2> DEFINE q == r
             n == Height
  <2>1. q = ApplyBlock(s, pool, n) /\ q.ok /\ n \in Int
    BY <1>1, <1>3
  <2> HIDE DEF q, n, r
  <2>2. Advances(s, q.session)
    BY <1>1, <1>5, <2>1, ApplyBlockAdvances
  <2> QED BY <2>2 DEF q
<1> HIDE DEF r
<1>7. session.view.bookkeeper = saved[Height].bookkeeper
  BY <1>3, <1>5, <1>6 DEF Advances, RoundsSame
<1> QED BY <1>7 DEF Delegates

-----------------------------------------------------------------------------
(* Steps *)

LEMMA InitListed ==
  ASSUME Init
  PROVE  ListedInv
<1>1. Height = 0 /\ ~ IsCollectingVotes
  BY InitTyped DEF Init, IsCollectingVotes
<1>2. 0 <= MaxHeight
  BY ExecutionAssumption
<1> QED BY <1>1, <1>2 DEF ListedInv, ChainListed

LEMMA GrownListed ==
  ASSUME ChainTyped, ChainListed, NEW block, NEW tables, Grown(block, tables),
         block.delegate \in ToSet(saved[Height].bookkeeper), Height < MaxHeight
  PROVE  ChainListed' /\ Height' <= MaxHeight
<1>1. Height \in Nat /\ Height' = Height + 1 /\ MaxHeight \in Nat
  BY ExecutionAssumption DEF ChainTyped, Grown
<1>2. ASSUME NEW h \in 1 .. Height + 1
      PROVE  chain'[h].delegate \in ToSet(saved'[h - 1].bookkeeper)
  <2>1. h - 1 \in 0 .. Height /\ saved'[h - 1] = saved[h - 1]
    BY <1>1 DEF Grown
  <2>2. CASE h \in 1 .. Height
    BY <2>1, <2>2 DEF Grown, ChainListed
  <2>3. CASE h = Height + 1
    <3>1. h - 1 = Height /\ chain'[h] = block
      BY <1>1, <2>3 DEF Grown
    <3> QED BY <2>1, <3>1
  <2> QED BY <1>1, <2>2, <2>3
<1> QED BY <1>1, <1>2 DEF ChainListed

LEMMA CutListed ==
  ASSUME ChainTyped, ChainListed, NEW common \in Nat, Cut(common), Height <= MaxHeight
  PROVE  ChainListed' /\ Height' <= MaxHeight
<1>1. Height \in Nat /\ Height' = common /\ common \in 0 .. Height /\ MaxHeight \in Nat
  <2>1. common \in 0 .. common
    OBVIOUS
  <2> QED BY <2>1, ExecutionAssumption DEF ChainTyped, Cut
<1>2. ASSUME NEW h \in 1 .. common
      PROVE  chain'[h].delegate \in ToSet(saved'[h - 1].bookkeeper)
  <2>1. h \in 1 .. Height /\ chain'[h] = chain[h] /\ saved'[h - 1] = saved[h - 1]
    BY <1>1 DEF Cut
  <2> QED BY <2>1 DEF ChainListed
<1> QED BY <1>1, <1>2 DEF ChainListed

LEMMA ListedFrame ==
  ASSUME ListedInv, UNCHANGED <<chain, saved>>, pendingBlock' \in {pendingBlock, Null}
  PROVE  ListedInv'
BY DEF ListedInv, ChainListed, Height, IsCollectingVotes

LEMMA CommitListed ==
  ASSUME TypeInv, ListedInv, NEW block, NEW tables, Commit(block, tables), pendingBlock' = Null,
         block.delegate \in ToSet(saved[Height].bookkeeper), Height < MaxHeight
  PROVE  ListedInv'
<1>1. Grown(block, tables)
  BY CommitGrows DEF TypeInv
<1> QED BY <1>1, GrownListed DEF TypeInv, ListedInv, IsCollectingVotes

LEMMA StepListed ==
  ASSUME NeverBusy, TypeInv, OnceInv, ReplayInv, ListedInv, [Next]_vars
  PROVE  ListedInv'
<1>1. ChainTyped /\ ChainListed /\ Height <= MaxHeight
  BY DEF TypeInv, ListedInv
<1>2. Delegates = ToSet(saved[Height].bookkeeper)
  BY <1>1, OverlayLists DEF NeverBusy
<1>3. ASSUME NEW d \in Delegates, Forge(d) PROVE ListedInv'
  <2> DEFINE block == Block(Height + 1, d, pool)
             tables == TablesAfter(session.view, chain, Height + 1, block)
  <2>1. Commit(block, tables) /\ pendingBlock' = Null /\ Height < MaxHeight
    BY <1>3 DEF Forge, CommitLocal
  <2>2. block.delegate \in ToSet(saved[Height].bookkeeper)
    BY <1>2, <1>3 DEF Block
  <2> HIDE DEF block, tables
  <2> QED BY <2>1, <2>2, CommitListed
<1>4. ASSUME NEW d \in Delegates, Propose(d) PROVE ListedInv'
  <2>1. UNCHANGED <<chain, saved>> /\ Height < MaxHeight /\ pendingBlock'.delegate = d
    BY <1>4 DEF Propose, Block
  <2>2. Height' = Height /\ saved'[Height'] = saved[Height] /\ ChainListed'
    BY <1>1, <2>1 DEF ChainListed, Height
  <2> QED BY <1>1, <1>2, <1>4, <2>1, <2>2 DEF ListedInv
<1>5. CASE OnReceiveVotes
  <2>1. IsCollectingVotes
    BY <1>5 DEF OnReceiveVotes
  <2>2. pendingBlock.height = Height + 1
    BY <2>1 DEF OnceInv
  <2>3. CommitLocal(pendingBlock)
    BY <1>5, <2>2 DEF OnReceiveVotes
  <2> DEFINE tables == TablesAfter(session.view, chain, Height + 1, pendingBlock)
  <2>4. Commit(pendingBlock, tables) /\ pendingBlock' = Null
    BY <2>3 DEF CommitLocal
  <2>5. pendingBlock.delegate \in ToSet(saved[Height].bookkeeper) /\ Height < MaxHeight
    BY <2>1 DEF ListedInv
  <2> HIDE DEF tables
  <2> QED BY <2>4, <2>5, CommitListed
<1>6. ASSUME NEW block \in OtherBlocks, OnReceiveBlock(block) \/ LoadBlock(block) PROVE ListedInv'
  <2>1. block.delegate \in ToSet(saved[Height].bookkeeper)
    BY <1>2, <1>6 DEF OtherBlocks, Block
  <2>2. /\ pendingBlock' = Null /\ Height < MaxHeight
        /\ (\E tables : Commit(block, tables)) \/ UNCHANGED <<chain, saved>>
    <3>1. CASE OnReceiveBlock(block)
      <4> DEFINE tables == Executed(RolledBack, chain, Height + 1, block)
      <4>1. /\ pendingBlock' = Null /\ Height < MaxHeight
            /\ IF tables # Refused THEN Commit(block, tables) ELSE UNCHANGED <<chain, saved>>
        BY <3>1 DEF OnReceiveBlock
      <4> HIDE DEF tables
      <4> QED BY <4>1
    <3>2. CASE LoadBlock(block)
      <4> DEFINE tables == Executed(session, chain, Height + 1, block)
      <4>1. /\ pendingBlock' = Null /\ Height < MaxHeight
            /\ tables # Refused => Commit(block, tables)
            /\ tables = Refused => UNCHANGED <<chain, saved>>
        BY <3>2 DEF LoadBlock
      <4> HIDE DEF tables
      <4> QED BY <4>1
    <3> QED BY <1>6, <3>1, <3>2
  <2> QED BY <2>1, <2>2, CommitListed, ListedFrame
<1>7. ASSUME NEW common \in DOMAIN chain, StartSync(common) PROVE ListedInv'
  <2>1. common \in Nat /\ Cut(common)
    BY <1>1, <1>7, StartSyncCuts
  <2>2. ~ IsCollectingVotes /\ pendingBlock' = pendingBlock
    BY <1>7 DEF StartSync, NeverBusy
  <2> QED BY <1>1, <2>1, <2>2, CutListed DEF ListedInv, IsCollectingVotes
<1>8. ASSUME \/ \E id \in Senders : ReceiveTransaction(id)
             \/ StartSyncFromGenesis \/ EndSync \/ Restart \/ UNCHANGED vars
      PROVE  ListedInv'
  BY <1>8, ListedFrame DEF ReceiveTransaction, StartSyncFromGenesis, EndSync, Restart, vars
<1> QED BY <1>3, <1>4, <1>5, <1>6, <1>7, <1>8 DEF Next

LEMMA SpecLists ==
  ASSUME NeverBusy, SendersKnown
  PROVE  Spec => [](TypeInv /\ OnceInv /\ ReplayInv /\ ListedInv)
<1>1. Init => TypeInv /\ OnceInv /\ ReplayInv /\ ListedInv
  BY InitTyped, InitOnce, InitReplayed, InitListed DEF NeverBusy
<1>2. TypeInv /\ OnceInv /\ ReplayInv /\ ListedInv /\ [Next]_vars
        => TypeInv' /\ OnceInv' /\ ReplayInv' /\ ListedInv'
  BY StepTyped, StepOnce, StepReplayed, StepListed
<1> QED BY <1>1, <1>2, PTL DEF Spec

-----------------------------------------------------------------------------
(* Heights at which rounds end *)

LEMMA RemainderIs ==
  ASSUME NEW x \in Nat, NEW d \in Nat \ {0}, NEW a \in Nat, NEW r \in Nat, r < d, x = a * d + r
  PROVE  x % d = r
<1>1. x \div d = a
  BY DivisionIs
<1>2. x = (x \div d) * d + (x % d) /\ x % d \in Nat
  BY Division
<1> DEFINE p == a * d
<1>3. x = p + (x % d) /\ x = p + r /\ p \in Nat
  BY <1>1, <1>2
<1> HIDE DEF p
<1> QED BY <1>2, <1>3

LEMMA RoundNext ==
  ASSUME NEW r \in Nat \ {0}
  PROVE  /\ (r - 1) * RoundLength \in Nat /\ r * RoundLength \in Nat
         /\ r * RoundLength = (r - 1) * RoundLength + RoundLength
<1> DEFINE d == RoundLength
           q == r - 1
<1>1. d \in Nat /\ q \in Nat /\ r = q + 1
  BY RoundsAssumption
<1> HIDE DEF d, q
<1>2. q * d \in Nat /\ (q + 1) * d = q * d + d
  BY <1>1
<1> QED BY <1>1, <1>2 DEF d, q

LEMMA EndOfRound ==
  ASSUME NEW h \in Nat, NEW r \in Nat, r * RoundLength = h
  PROVE  EndsRound(h) /\ h \div RoundLength = r
<1>1. RoundLength \in Nat \ {0} /\ h = r * RoundLength + 0 /\ 0 < RoundLength
  BY RoundsAssumption
<1>2. h % RoundLength = 0 /\ h \div RoundLength = r
  BY <1>1, RemainderIs, DivisionIs
<1> QED BY <1>2 DEF EndsRound

LEMMA RoundThatEnds ==
  ASSUME NEW h \in Nat \ {0}, EndsRound(h)
  PROVE  \E k \in Nat \ {0} : k * RoundLength = h /\ k <= h
<1> DEFINE d == RoundLength
           k == h \div d
           p == k * d
<1>1. d \in Nat \ {0} /\ h % d = 0 /\ h \in Nat
  BY RoundsAssumption DEF EndsRound
<1> HIDE DEF d
<1>2. k \in Nat /\ h = p + 0
  <2>1. h \div d \in Nat /\ h = (h \div d) * d + (h % d)
    BY <1>1, Division
  <2> QED BY <1>1, <2>1
<1> HIDE DEF k
<1>3. p \in Nat /\ k * 1 = k
  BY <1>1, <1>2
<1>4. k # 0
  <2>1. k = 0 => p = 0
    BY <1>1
  <2> HIDE DEF p
  <2> QED BY <1>1, <1>2, <1>3, <2>1
<1>5. k <= p
  <2>1. 1 <= d
    BY <1>1
  <2>2. 1 * k <= d * k /\ 1 * k = k /\ d * k = p
    BY <1>1, <1>2, <2>1, Monotone
  <2> QED BY <2>2
<1>6. p = h
  <2> HIDE DEF p
  <2> QED BY <1>1, <1>2, <1>3
<1> QED BY <1>2, <1>4, <1>5, <1>6 DEF d

LEMMA WithinRound ==
  ASSUME NEW r \in Nat, NEW m \in Nat \ {0}, m < RoundLength
  PROVE  r * RoundLength + m \in Nat /\ ~ EndsRound(r * RoundLength + m)
<1> DEFINE d == RoundLength
           x == r * d + m
<1>1. d \in Nat \ {0} /\ x \in Nat
  BY RoundsAssumption
<1>2. x % d = m
  <2> HIDE DEF d
  <2> QED BY <1>1, RemainderIs DEF d
<1> QED BY <1>1, <1>2 DEF EndsRound

-----------------------------------------------------------------------------
(* The list of a round, and the delegates that forged in it *)

ChainTold == GenesisValid /\ ChainTyped /\ ChainReplayed /\ ChainListed /\ Height <= MaxHeight

LEMMA ListKept ==
  ASSUME ChainTold, NEW r \in Nat
  PROVE  \A m \in Nat : m < RoundLength /\ r * RoundLength + m <= Height
           => saved[r * RoundLength + m].bookkeeper = saved[r * RoundLength].bookkeeper
<1> DEFINE p == r * RoundLength
           Same(m) == m < RoundLength /\ p + m <= Height => saved[p + m].bookkeeper = saved[p].bookkeeper
           T == {m \in Nat : Same(m)}
<1>0. p \in Nat /\ Height \in Nat /\ RoundLength \in Nat
  BY RoundsAssumption DEF ChainTold, ChainTyped
<1>1. 0 \in T
  <2>1. p + 0 = p
    BY <1>0
  <2> QED BY <2>1
<1>2. ASSUME NEW m \in Nat, m \in T PROVE m + 1 \in T
  <2>1. SUFFICES ASSUME m + 1 < RoundLength, p + (m + 1) <= Height
                 PROVE  saved[p + (m + 1)].bookkeeper = saved[p].bookkeeper
    OBVIOUS
  <2>2. ~ EndsRound(p + (m + 1))
    <3>1. m + 1 \in Nat \ {0}
      OBVIOUS
    <3> QED BY <2>1, <3>1, WithinRound
  <2> HIDE DEF p
  <2> DEFINE h == p + (m + 1)
  <2>3. h \in 1 .. Height /\ h - 1 = p + m /\ m < RoundLength /\ p + m <= Height
    BY <1>0, <2>1
  <2> HIDE DEF h
  <2>4. saved[h].bookkeeper = saved[h - 1].bookkeeper
    <3>1. BlockEffect(saved[h - 1], saved[h], h)
      BY <2>3, BlocksTakeEffect DEF ChainTold
    <3> QED BY <2>2, <3>1 DEF BlockEffect, h
  <2>5. saved[p + m].bookkeeper = saved[p].bookkeeper
    BY <1>2, <2>3
  <2> QED BY <2>3, <2>4, <2>5 DEF h
<1> HIDE DEF T
<1>3. Nat \subseteq T
  BY <1>1, <1>2, SetInduction
<1> QED BY <1>3 DEF T

LEMMA ForgedInRound ==
  ASSUME ChainTold, NEW k \in Nat \ {0}, NEW h \in 1 .. Height, k * RoundLength = h, NEW d
  PROVE  d \in ToSet(Forged(h)) <=> \E j \in RoundHeights(k) : chain[j].delegate = d
<1> DEFINE n == RoundLength
<1>1. n \in Nat \ {0} /\ h \in Nat /\ (k - 1) * n + n = h /\ (k - 1) * n \in Nat
  BY RoundsAssumption, RoundNext DEF ChainTold, ChainTyped
<1> DEFINE p == (k - 1) * n
<1>2. RoundHeights(k) = p + 1 .. h
  BY DEF RoundHeights
<1>3. p \in Nat /\ p + n = h
  BY <1>1
<1>4. /\ DOMAIN Forged(h) = 1 .. n
      /\ \A i \in 1 .. n : Forged(h)[i] = IF i = n THEN chain[h].delegate ELSE chain[h - n + i].delegate
  BY DEF Forged, ForgedDelegates
<1> HIDE DEF n, p
<1>5. \A i \in 1 .. n : p + i \in p + 1 .. h /\ h - n + i = p + i /\ (i = n => p + i = h)
  BY <1>1, <1>3
<1>6. \A i \in 1 .. n : Forged(h)[i] = chain[p + i].delegate
  BY <1>4, <1>5
<1>7. \A j \in p + 1 .. h : j - p \in 1 .. n /\ p + (j - p) = j
  BY <1>1, <1>3
<1>8. ToSet(Forged(h)) = {Forged(h)[i] : i \in 1 .. n}
  BY <1>4 DEF ToSet
<1>9. ASSUME d \in ToSet(Forged(h)) PROVE \E j \in p + 1 .. h : chain[j].delegate = d
  <2>1. PICK i \in 1 .. n : d = Forged(h)[i]
    BY <1>8, <1>9
  <2> QED BY <1>5, <1>6, <2>1
<1>10. ASSUME NEW j \in p + 1 .. h, chain[j].delegate = d PROVE d \in ToSet(Forged(h))
  <2>1. Forged(h)[j - p] = d
    BY <1>6, <1>7, <1>10
  <2> QED BY <1>7, <1>8, <2>1
<1> QED BY <1>2, <1>9, <1>10

-----------------------------------------------------------------------------
(* The rounds a delegate has missed *)

MissedRound(d, r) == /\ d \in ToSet(saved[(r - 1) * RoundLength].bookkeeper)
                     /\ \A h \in RoundHeights(r) : chain[h].delegate # d

MissedIn(d, h) == {r \in 1 .. MaxHeight : r * RoundLength <= h /\ MissedRound(d, r)}

LEMMA MissedNext ==
  ASSUME ChainTold, NEW h \in 1 .. Height, NEW d
  PROVE  \E k : /\ k \notin MissedIn(d, h - 1)
                /\ MissedIn(d, h) = MissedIn(d, h - 1) \cup (IF MissedAt(d, h) THEN {k} ELSE {})
<1>1. h \in Nat \ {0} /\ Height \in Nat /\ MaxHeight \in Nat /\ Height <= MaxHeight
  BY ExecutionAssumption DEF ChainTold, ChainTyped
<1>2. \A r \in 1 .. MaxHeight : r * RoundLength \in Nat
  BY RoundNext
<1>3. CASE ~ EndsRound(h)
  <2>1. \A r \in 1 .. MaxHeight : r * RoundLength # h
    BY <1>1, <1>3, EndOfRound
  <2>2. \A r \in 1 .. MaxHeight : r * RoundLength <= h <=> r * RoundLength <= h - 1
    BY <1>1, <1>2, <2>1
  <2>3. MissedIn(d, h) = MissedIn(d, h - 1)
    BY <2>2 DEF MissedIn
  <2>4. 0 \notin MissedIn(d, h - 1) /\ ~ MissedAt(d, h)
    BY <1>3 DEF MissedIn, MissedAt
  <2> QED BY <2>3, <2>4
<1>4. CASE EndsRound(h)
  <2>1. PICK k \in Nat \ {0} : k * RoundLength = h /\ k <= h
    BY <1>1, <1>4, RoundThatEnds
  <2>2. k \in 1 .. MaxHeight
    BY <1>1, <2>1
  <2>3. \A r \in 1 .. MaxHeight : r * RoundLength = h => r = k
    BY <1>1, <2>1, EndOfRound
  <2>4. \A r \in 1 .. MaxHeight : r * RoundLength <= h <=> r * RoundLength <= h - 1 \/ r = k
    BY <1>1, <1>2, <2>1, <2>3
  <2>5. k \notin MissedIn(d, h - 1)
    BY <1>1, <2>1 DEF MissedIn
  <2>6. MissedAt(d, h) <=> MissedRound(d, k)
    <3> DEFINE p == (k - 1) * RoundLength
               m == RoundLength - 1
    <3>1. p \in Nat /\ k - 1 \in Nat /\ m \in Nat /\ m < RoundLength /\ p + m = h - 1 /\ p + m <= Height
      <4>1. p \in Nat /\ h = p + RoundLength /\ RoundLength \in Nat \ {0}
        BY <2>1, RoundNext, RoundsAssumption
      <4> HIDE DEF p
      <4> QED BY <1>1, <2>1, <4>1
    <3>2. saved[h - 1].bookkeeper = saved[p].bookkeeper
      BY <3>1, ListKept
    <3>3. d \in ToSet(Forged(h)) <=> \E j \in RoundHeights(k) : chain[j].delegate = d
      BY <2>1, ForgedInRound
    <3> QED BY <1>4, <3>2, <3>3 DEF MissedAt, MissedRound
  <2>7. MissedIn(d, h) = MissedIn(d, h - 1) \cup (IF MissedAt(d, h) THEN {k} ELSE {})
    <3>1. ASSUME NEW r
          PROVE  r \in MissedIn(d, h)
                   <=> r \in MissedIn(d, h - 1) \/ (r = k /\ MissedAt(d, h))
      BY <2>2, <2>4, <2>6 DEF MissedIn
    <3> QED BY <3>1
  <2> QED BY <2>5, <2>7
<1> QED BY <1>3, <1>4

LEMMA MissedFinite ==
  ASSUME NEW d, NEW h
  PROVE  IsFiniteSet(MissedIn(d, h)) /\ Cardinality(MissedIn(d, h)) \in Nat
<1>1. IsFiniteSet(1 .. MaxHeight)
  BY ExecutionAssumption, FS_Interval
<1>2. IsFiniteSet(MissedIn(d, h))
  BY <1>1, FS_Subset DEF MissedIn
<1> QED BY <1>2, FS_CardinalityType

(* Whoever is no delegate was never listed *)
LEMMA OthersMissNone ==
  ASSUME ChainTold, NEW h \in 0 .. Height, NEW d, d \notin DOMAIN saved[h].delegate
  PROVE  MissedIn(d, h) = {}
<1>1. SUFFICES ASSUME NEW r \in MissedIn(d, h) PROVE FALSE
  BY Zenon
<1> DEFINE p == (r - 1) * RoundLength
<1>2. /\ r \in 1 .. MaxHeight /\ r * RoundLength <= h
      /\ d \in ToSet(saved[p].bookkeeper)
  BY <1>1 DEF MissedIn, MissedRound
<1>3. p \in 0 .. h
  <2>1. r \in Nat \ {0}
    BY <1>2, ExecutionAssumption
  <2>2. p \in Nat /\ r * RoundLength = p + RoundLength /\ RoundLength \in Nat
    BY <2>1, RoundNext, RoundsAssumption
  <2> HIDE DEF p
  <2> DEFINE q == r * RoundLength
  <2> HIDE DEF q
  <2>3. q <= h /\ q = p + RoundLength /\ h \in Nat
    BY <1>2, <2>2 DEF q, ChainTold, ChainTyped
  <2> QED BY <2>2, <2>3
<1>4. OrderedUpTo(h)
  BY TablesOrdered DEF ChainTold
<1> HIDE DEF p
<1>5. ToSet(saved[p].bookkeeper) \subseteq DOMAIN saved[h].delegate
  BY <1>3, <1>4 DEF OrderedUpTo, Ordered, ListsDelegates
<1> QED BY <1>2, <1>5

LEMMA MissedTold ==
  ASSUME ChainTold
  PROVE  \A h \in 0 .. Height : \A d \in DOMAIN saved[h].delegate :
           saved[h].delegate[d].missedBlocks = Cardinality(MissedIn(d, h))
<1> DEFINE Told(h) == \A d \in DOMAIN saved[h].delegate :
                        saved[h].delegate[d].missedBlocks = Cardinality(MissedIn(d, h))
           T == {h \in Nat : h <= Height => Told(h)}
<1>0. Height \in Nat /\ saved[0] = GenesisTables
  BY DEF ChainTold, ChainTyped
<1>1. 0 \in T
  <2>1. ASSUME NEW d PROVE MissedIn(d, 0) = {}
    <3>1. \A r \in 1 .. MaxHeight : ~ (r * RoundLength <= 0)
      <4>1. RoundLength \in Nat \ {0}
        BY RoundsAssumption
      <4> QED BY <4>1, RoundNext
    <3> QED BY <3>1 DEF MissedIn
  <2>2. NothingMissed(saved[0])
    BY <1>0, GenesisOrdered DEF ChainTold
  <2>3. Told(0)
    BY <2>1, <2>2, FS_EmptySet DEF NothingMissed
  <2> QED BY <2>3
<1>2. ASSUME NEW i \in Nat, i \in T PROVE i + 1 \in T
  <2>1. SUFFICES ASSUME i + 1 <= Height PROVE Told(i + 1)
    OBVIOUS
  <2> DEFINE h == i + 1
  <2>2. h \in 1 .. Height /\ h - 1 = i /\ i \in 0 .. Height /\ Told(i)
    BY <1>0, <1>2, <2>1
  <2> HIDE DEF h
  <2>3. BlockEffect(saved[i], saved[h], h)
    <3>1. BlockEffect(saved[h - 1], saved[h], h)
      BY <2>2, BlocksTakeEffect DEF ChainTold
    <3> QED BY <2>2, <3>1
  <2>4. ASSUME NEW d \in DOMAIN saved[h].delegate
        PROVE  saved[h].delegate[d].missedBlocks = Cardinality(MissedIn(d, h))
    <3>1. saved[h].delegate[d].missedBlocks = MissedOf(saved[i], d) + (IF MissedAt(d, h) THEN 1 ELSE 0)
      BY <2>3 DEF BlockEffect
    <3>2. MissedOf(saved[i], d) = Cardinality(MissedIn(d, i))
      <4>1. CASE d \in DOMAIN saved[i].delegate
        BY <2>2, <4>1 DEF MissedOf
      <4>2. CASE d \notin DOMAIN saved[i].delegate
        <5>1. MissedIn(d, i) = {}
          BY <2>2, <4>2, OthersMissNone
        <5> QED BY <4>2, <5>1, FS_EmptySet DEF MissedOf
      <4> QED BY <4>1, <4>2
    <3>3. PICK k : /\ k \notin MissedIn(d, i)
                   /\ MissedIn(d, h) = MissedIn(d, i) \cup (IF MissedAt(d, h) THEN {k} ELSE {})
      BY <2>2, MissedNext
    <3>4. IsFiniteSet(MissedIn(d, i)) /\ Cardinality(MissedIn(d, i)) \in Nat
      BY MissedFinite
    <3>5. Cardinality(MissedIn(d, h)) = Cardinality(MissedIn(d, i)) + (IF MissedAt(d, h) THEN 1 ELSE 0)
      <4>1. CASE MissedAt(d, h)
        BY <3>3, <3>4, <4>1, FS_AddElement
      <4>2. CASE ~ MissedAt(d, h)
        BY <3>3, <3>4, <4>2
      <4> QED BY <4>1, <4>2
    <3> QED BY <3>1, <3>2, <3>5
  <2> QED BY <2>4 DEF h
<1> HIDE DEF T
<1>3. Nat \subseteq T
  BY <1>1, <1>2, SetInduction
<1> QED BY <1>0, <1>3 DEF T

(***************************************************************************)
(* A delegate has missed a block for every round that ended, had it in the *)
(* list made when the round before ended, and has no block of it; whatever *)
(* the node forged, received, loaded and took back in between.             *)
(***************************************************************************)
THEOREM MissedRoundsCounted ==
  ASSUME NeverBusy, SendersKnown
  PROVE  Spec => []MissedRounds
<1>1. ASSUME TypeInv, ReplayInv, ListedInv PROVE MissedRounds
  <2>1. ChainTold
    BY <1>1 DEF NeverBusy, TypeInv, ReplayInv, ListedInv, ChainTold
  <2>2. Height \in 0 .. Height
    BY <2>1 DEF ChainTold, ChainTyped
  <2>3. ASSUME NEW d \in DOMAIN Tables.delegate
        PROVE  Tables.delegate[d].missedBlocks =
                 Cardinality({r \in FinishedRounds :
                   /\ d \in ToSet(saved[(r - 1) * RoundLength].bookkeeper)
                   /\ \A h \in RoundHeights(r) : chain[h].delegate # d})
    <3>1. saved[Height].delegate[d].missedBlocks = Cardinality(MissedIn(d, Height))
      BY <2>1, <2>2, <2>3, MissedTold DEF Tables
    <3>2. MissedIn(d, Height) = {r \in FinishedRounds : MissedRound(d, r)}
      BY DEF MissedIn, FinishedRounds
    <3> QED BY <3>1, <3>2 DEF MissedRound, Tables
  <2> QED BY <2>3 DEF MissedRounds
<1>2. TypeInv /\ OnceInv /\ ReplayInv /\ ListedInv => MissedRounds
  BY <1>1
<1> QED BY <1>2, SpecLists, PTL

-----------------------------------------------------------------------------
(* The number of a round *)

LEMMA RoundOfIs ==
  ASSUME NEW h \in Nat \ {0}
  PROVE  /\ RoundOf(h) \in Nat /\ RoundOf(h) * RoundLength \in Nat
         /\ h <= RoundOf(h) * RoundLength
         /\ RoundOf(h) * RoundLength = h <=> EndsRound(h)
         /\ \A r \in Nat : r * RoundLength = h => r = RoundOf(h)
<1> DEFINE d == RoundLength
           x == h + d - 1
           k == x \div d
           m == x % d
<1>1. d \in Nat \ {0} /\ x \in Nat /\ RoundOf(h) = k
  BY RoundsAssumption DEF RoundOf
<1> HIDE DEF d
<1>2. k \in Nat /\ m \in Nat /\ m < d /\ x = k * d + m
  <2> HIDE DEF x
  <2> QED BY <1>1, Division
<1> HIDE DEF k, m
<1> DEFINE p == k * d
<1>3. p \in Nat
  BY <1>1, <1>2
<1>4. h <= p
  <2>1. h + d - 1 = p + m
    BY <1>2
  <2> HIDE DEF p, x
  <2> QED BY <1>1, <1>2, <1>3, <2>1
<1>5. ASSUME NEW r \in Nat, r * d = h PROVE r = k
  <2>1. x = r * d + (d - 1) /\ d - 1 \in Nat /\ d - 1 < d
    BY <1>1, <1>5
  <2> HIDE DEF x
  <2>2. x \div d = r
    BY <1>1, <2>1, DivisionIs
  <2> QED BY <2>2 DEF k
<1>6. ASSUME p = h PROVE EndsRound(h)
  BY <1>2, <1>6, EndOfRound DEF d
<1>7. ASSUME EndsRound(h) PROVE p = h
  <2>1. PICK r \in Nat \ {0} : r * RoundLength = h
    BY <1>7, RoundThatEnds
  <2> QED BY <1>5, <2>1 DEF d
<1> QED BY <1>1, <1>2, <1>3, <1>4, <1>5, <1>6, <1>7 DEF d

LEMMA RoundBefore ==
  ASSUME NEW h \in Nat \ {0}
  PROVE  LET p == (RoundOf(h) - 1) * RoundLength
         IN  /\ RoundOf(h) \in Nat \ {0} /\ p \in Nat
             /\ p <= h - 1 /\ (h - 1) - p < RoundLength
<1> DEFINE d == RoundLength
           x == h + d - 1
           k == x \div d
           m == x % d
           q == k * d
           p == (k - 1) * d
<1>1. d \in Nat \ {0} /\ x \in Nat /\ RoundOf(h) = k
  BY RoundsAssumption DEF RoundOf
<1>2. k \in Nat /\ m \in Nat /\ m < d /\ x = q + m
  <2> HIDE DEF x, d
  <2> QED BY <1>1, Division
<1>3. h <= q /\ q \in Nat
  <2>1. k * RoundLength \in Nat /\ h <= k * RoundLength
    BY <1>1, RoundOfIs
  <2> QED BY <2>1
<1> HIDE DEF k, m
<1>4. k # 0
  <2>1. k = 0 => q = 0
    BY <1>1
  <2> HIDE DEF q
  <2> QED BY <1>3, <2>1
<1>5. p \in Nat /\ q = p + d
  BY <1>2, <1>4, RoundNext DEF d
<1> HIDE DEF p, q, d
<1>6. p <= h - 1 /\ (h - 1) - p < d
  BY <1>1, <1>2, <1>3, <1>5
<1> QED BY <1>1, <1>2, <1>4, <1>5, <1>6 DEF p, d

-----------------------------------------------------------------------------
(* The list of a round, whose length its fees and rewards are divided by *)

ListLength(r) == Len(saved[(r - 1) * RoundLength].bookkeeper)

LEMMA ListOfRound ==
  ASSUME ChainTold, NEW h \in 1 .. Height
  PROVE  /\ Len(saved[h - 1].bookkeeper) = ListLength(RoundOf(h))
         /\ ListLength(RoundOf(h)) \in Nat \ {0}
<1> DEFINE r == RoundOf(h) - 1
           p == r * RoundLength
           m == (h - 1) - p
<1>1. Height \in Nat /\ h \in Nat \ {0} /\ h - 1 \in Nat /\ h - 1 \in 0 .. Height
  BY DEF ChainTold, ChainTyped
<1>2. r \in Nat /\ p \in Nat /\ p <= h - 1 /\ m < RoundLength
  BY <1>1, RoundBefore
<1> HIDE DEF r
<1>3. m \in Nat /\ p + m = h - 1 /\ p + m <= Height
  <2> HIDE DEF p
  <2> QED BY <1>1, <1>2
<1> HIDE DEF m
<1>4. saved[h - 1].bookkeeper = saved[p].bookkeeper
  <2>1. saved[p + m].bookkeeper = saved[p].bookkeeper
    BY <1>2, <1>3, ListKept
  <2> QED BY <1>3, <2>1
<1>5. Len(saved[h - 1].bookkeeper) \in Nat \ {0}
  <2>1. OrderedUpTo(h - 1)
    BY <1>1, TablesOrdered DEF ChainTold
  <2>2. h - 1 \in 0 .. h - 1
    BY <1>1
  <2>3. ListsDelegates(saved[h - 1])
    BY <2>1, <2>2 DEF OrderedUpTo, Ordered
  <2>4. chain[h].delegate \in ToSet(saved[h - 1].bookkeeper)
    BY DEF ChainTold, ChainListed
  <2> QED BY <2>3, <2>4, ListNotEmpty
<1> QED BY <1>4, <1>5 DEF ListLength, r

-----------------------------------------------------------------------------
(* What the rounds hold *)

RoundsOK(rounds) ==
  /\ IsFiniteSet(DOMAIN rounds)
  /\ \A r \in DOMAIN rounds : /\ r \in Nat /\ rounds[r].fee \in Nat /\ rounds[r].reward \in Nat
                              /\ ListLength(r) \in Nat \ {0}

WithheldAt(data, r, h) ==
  IF r * RoundLength <= h THEN Remainders(data, ListLength(r)) ELSE data.fee + data.reward

Holds(rounds, h) == Sum([r \in DOMAIN rounds |-> WithheldAt(rounds[r], r, h)], DOMAIN rounds)

LEMMA WithheldType ==
  ASSUME NEW data, data.fee \in Nat, data.reward \in Nat, NEW r, ListLength(r) \in Nat \ {0}, NEW h
  PROVE  WithheldAt(data, r, h) \in Int
BY RemaindersType DEF WithheldAt

LEMMA HoldsType ==
  ASSUME NEW rounds, RoundsOK(rounds), NEW h
  PROVE  Holds(rounds, h) \in Int
<1> DEFINE f == [r \in DOMAIN rounds |-> WithheldAt(rounds[r], r, h)]
<1>1. \A r \in DOMAIN rounds : f[r] \in Int
  BY WithheldType DEF RoundsOK
<1> HIDE DEF f
<1>2. Sum(f, DOMAIN rounds) \in Int
  BY <1>1, SumType DEF RoundsOK
<1> QED BY <1>2 DEF f, Holds

LEMMA NewDataType ==
  ASSUME NEW u, RoundsOK(u.round), NEW h \in Nat, NEW trs \in Seq(TrsIds), Fees(ToSet(trs)) \in Nat
  PROVE  LET old == RoundData(u, RoundOf(h))
             data == NewData(u, h, trs)
         IN  /\ old.fee \in Nat /\ old.reward \in Nat /\ data.fee \in Nat /\ data.reward \in Nat
             /\ data.fee = old.fee + Fees(ToSet(trs)) /\ data.reward = old.reward + CalculateReward(h)
<1> DEFINE old == RoundData(u, RoundOf(h))
           data == NewData(u, h, trs)
<1>1. old.fee \in Nat /\ old.reward \in Nat
  BY DEF RoundData, RoundsOK
<1>2. GetFeesOfAll(trs) = Fees(ToSet(trs)) /\ CalculateReward(h) \in Nat
  BY FeesOfAll, RewardType
<1> HIDE DEF old
<1>3. data.fee = old.fee + Fees(ToSet(trs)) /\ data.reward = old.reward + CalculateReward(h)
  BY <1>2 DEF NewData, old
<1> HIDE DEF data
<1> QED BY <1>1, <1>2, <1>3 DEF old, data

(* The rounds once a block is counted *)
LEMMA RoundsHold ==
  ASSUME NEW u, RoundsOK(u.round), NEW h \in Nat \ {0},
         NEW data, data.fee \in Nat, data.reward \in Nat,
         NEW n \in Nat \ {0}, n = ListLength(RoundOf(h)),
         NEW rows, rows = With(u.round, RoundOf(h), data)
  PROVE  LET old == RoundData(u, RoundOf(h))
             income == IF EndsRound(h) THEN (data.fee + data.reward) - Remainders(data, n) ELSE 0
         IN  /\ RoundsOK(rows) /\ income \in Int /\ old.fee \in Nat /\ old.reward \in Nat
             /\ Holds(rows, h) + income
                  = Holds(u.round, h - 1) + ((data.fee + data.reward) - (old.fee + old.reward))
<1> DEFINE k == RoundOf(h)
           old == RoundData(u, k)
           D == u.round
           S == DOMAIN D
           f == [r \in S |-> WithheldAt(D[r], r, h - 1)]
           g == [r \in DOMAIN rows |-> WithheldAt(rows[r], r, h)]
           income == IF EndsRound(h) THEN (data.fee + data.reward) - Remainders(data, n) ELSE 0
<1>1. /\ k \in Nat /\ k * RoundLength \in Nat /\ h <= k * RoundLength
      /\ k * RoundLength = h <=> EndsRound(h)
      /\ \A r \in Nat : r * RoundLength = h => r = k
  BY RoundOfIs
<1>2. old.fee \in Nat /\ old.reward \in Nat
  BY DEF RoundData, RoundsOK
<1>3. DOMAIN rows = S \cup {k} /\ \A r \in S \cup {k} : rows[r] = IF r = k THEN data ELSE D[r]
  BY DEF With
<1>4. /\ IsFiniteSet(S)
      /\ \A r \in S : /\ r \in Nat /\ D[r].fee \in Nat /\ D[r].reward \in Nat
                       /\ ListLength(r) \in Nat \ {0}
  BY DEF RoundsOK
<1>5. RoundsOK(rows)
  BY <1>1, <1>3, <1>4, FS_AddElement DEF RoundsOK
<1>6. income \in Int /\ Remainders(data, n) \in Int
  BY RemaindersType
<1>7. k \in S => old = D[k]
  BY DEF RoundData
<1>8. k \notin S => old.fee = 0 /\ old.reward = 0
  BY DEF RoundData
<1>9. ASSUME NEW r \in S, r # k PROVE WithheldAt(D[r], r, h) = WithheldAt(D[r], r, h - 1)
  <2> DEFINE e == r * RoundLength
  <2>1. e \in Nat /\ e # h
    <3>1. RoundLength \in Nat /\ r \in Nat
      BY <1>4, RoundsAssumption
    <3> QED BY <1>1, <1>9, <3>1
  <2> HIDE DEF e
  <2>2. e <= h <=> e <= h - 1
    BY <2>1
  <2> QED BY <2>2 DEF e, WithheldAt
<1>10. k \in S => WithheldAt(D[k], k, h - 1) = old.fee + old.reward
  <2>1. ~ (k * RoundLength <= h - 1)
    BY <1>1
  <2> QED BY <1>7, <2>1 DEF WithheldAt
<1>11. WithheldAt(data, k, h) + income = data.fee + data.reward /\ WithheldAt(data, k, h) \in Int
  <2>1. k * RoundLength <= h <=> EndsRound(h)
    BY <1>1
  <2> QED BY <1>6, <2>1 DEF WithheldAt
<1>12. (IF k \in S THEN f[k] ELSE 0) = old.fee + old.reward
  BY <1>2, <1>8, <1>10
<1>13. /\ \A r \in S : f[r] \in Int
       /\ g[k] = WithheldAt(data, k, h) /\ g[k] \in Int
       /\ \A r \in S \ {k} : g[r] = f[r]
  <2>1. \A r \in S : f[r] \in Int
    BY <1>4, WithheldType
  <2>2. \A r \in S \ {k} : g[r] = f[r]
    BY <1>3, <1>9
  <2> QED BY <1>3, <1>11, <2>1, <2>2
<1>14. Holds(rows, h) = Sum(g, S \cup {k}) /\ Holds(D, h - 1) = Sum(f, S)
  BY <1>3 DEF Holds
<1> HIDE DEF f, g, S, D, k, old, income
<1>15. Sum(g, S \cup {k}) = Sum(f, S) + (g[k] - (IF k \in S THEN f[k] ELSE 0))
  <2>1. /\ IsFiniteSet(S)
        /\ \A r \in S : f[r] \in Int
        /\ g[k] \in Int
        /\ \A r \in S \ {k} : g[r] = f[r]
    BY <1>4, <1>13
  <2> QED BY ONLY <2>1, SumPut
<1>16. Sum(f, S) \in Int
  BY <1>4, <1>13, SumType
<1>17. Holds(rows, h) + income = Holds(D, h - 1) + ((data.fee + data.reward) - (old.fee + old.reward))
  BY <1>2, <1>6, <1>11, <1>12, <1>13, <1>14, <1>15, <1>16
<1> QED BY <1>2, <1>5, <1>6, <1>17 DEF k, old, income, D

-----------------------------------------------------------------------------
(* No coins appear or get lost *)

LEMMA SupplyType ==
  CalculateSupply(0) = InitialAmount /\ \A h \in Nat : CalculateSupply(h) \in Nat
<1> DEFINE T == {h \in Nat : CalculateSupply(h) \in Nat}
<1>1. CalculateSupply(0) = InitialAmount /\ InitialAmount \in Nat
  BY RoundsAssumption DEF CalculateSupply
<1>2. 0 \in T
  BY <1>1
<1>3. ASSUME NEW h \in Nat, h \in T PROVE h + 1 \in T
  <2> DEFINE s == CalculateSupply(h)
             t == CalculateSupply(h + 1)
             reward == CalculateReward(h + 1)
  <2>1. t = s + reward /\ reward \in Nat /\ s \in Nat
    <3>1. h + 1 \in Nat
      OBVIOUS
    <3> QED BY <1>3, <3>1, SupplyGrows, RewardType
  <2> HIDE DEF s, t, reward
  <2>2. t \in Nat
    BY <2>1
  <2> QED BY <2>2 DEF t
<1> HIDE DEF T
<1>4. Nat \subseteq T
  BY <1>2, <1>3, SetInduction
<1> QED BY <1>1, <1>4 DEF T

UnlockFree == \A h \in 0 .. Height : NoUnlock(chain[h].trs)

Balanced(tables, h) ==
  /\ Purses(tables.account) /\ RoundsOK(tables.round)
  /\ CoinsIn(tables.account) + Holds(tables.round, h) = CalculateSupply(h) - InitialAmount

LEMMA GenesisBalanced ==
  ASSUME GenesisValid, NoUnlock(GenesisTrs)
  PROVE  Balanced(GenesisTables, 0)
<1> DEFINE w == GenesisTables
           f == [r \in DOMAIN w.round |-> WithheldAt(w.round[r], r, 0)]
<1>1. w.round = NoRows /\ Purses(w.account) /\ CoinsIn(w.account) = 0
  BY GenesisOrdered
<1>2. DOMAIN w.round = {}
  BY <1>1 DEF NoRows
<1>3. RoundsOK(w.round)
  BY <1>2, FS_EmptySet DEF RoundsOK
<1>4. Holds(w.round, 0) = Sum(f, DOMAIN w.round)
  BY DEF Holds
<1> HIDE DEF f
<1>5. Sum(f, {}) = 0
  BY SumEmpty
<1>6. Holds(w.round, 0) = 0
  BY <1>2, <1>4, <1>5, Zenon
<1>7. CalculateSupply(0) - InitialAmount = 0
  BY SupplyType, RoundsAssumption
<1> HIDE DEF w
<1>8. Balanced(w, 0)
  BY <1>1, <1>3, <1>6, <1>7 DEF Balanced
<1> QED BY <1>8 DEF w

(* The fees a block takes it counts for its round, the reward it adds *)
LEMMA BlockBalances ==
  ASSUME ChainTold, NEW h \in 1 .. Height, NoUnlock(chain[h].trs),
         Balanced(saved[h - 1], h - 1)
  PROVE  Balanced(saved[h], h)
<1> DEFINE u == saved[h - 1]
           w == saved[h]
           trs == chain[h].trs
           data == NewData(u, h, trs)
           old == RoundData(u, RoundOf(h))
           fees == Fees(ToSet(trs))
           reward == CalculateReward(h)
           n == Len(u.bookkeeper)
           income == IF EndsRound(h) THEN (data.fee + data.reward) - Remainders(data, n) ELSE 0
<1>1. h \in Nat \ {0} /\ h \in Nat /\ h - 1 \in Nat /\ (h - 1) + 1 = h /\ trs \in Seq(TrsIds)
  BY DEF ChainTold, ChainTyped
<1>2. BlockEffect(u, w, h) /\ CoinsEffect(u, w, h)
  BY BlocksTakeEffect DEF ChainTold
<1>3. /\ Purses(u.account) /\ RoundsOK(u.round)
      /\ CoinsIn(u.account) + Holds(u.round, h - 1) = CalculateSupply(h - 1) - InitialAmount
  BY DEF Balanced
<1>4. fees \in Nat
  BY <1>2 DEF CoinsEffect
<1>20. n \in Nat \ {0} /\ n = ListLength(RoundOf(h))
  BY ListOfRound
<1> HIDE DEF u, w
<1>5. /\ old.fee \in Nat /\ old.reward \in Nat /\ data.fee \in Nat /\ data.reward \in Nat
      /\ data.fee = old.fee + fees /\ data.reward = old.reward + reward
  <2> HIDE DEF trs
  <2> QED BY <1>1, <1>3, <1>4, NewDataType
<1>6. w.round = With(u.round, RoundOf(h), data)
  BY <1>2 DEF BlockEffect
<1>7. BlockIncome(u, h) = income
  BY DEF BlockIncome
<1>8. CoinsMoved(u.account, w.account, - fees + income)
  <2>1. NoUnlock(trs) /\ Len(u.bookkeeper) \in Nat \ {0}
    BY <1>20
  <2>2. CoinsMoved(u.account, w.account, - fees + BlockIncome(u, h))
    BY <1>2, <1>5, <2>1 DEF CoinsEffect
  <2> HIDE DEF income, fees, data
  <2> QED BY <1>7, <2>2
<1> HIDE DEF data, n
<1>9. /\ RoundsOK(w.round) /\ income \in Int
      /\ Holds(w.round, h) + income
           = Holds(u.round, h - 1) + ((data.fee + data.reward) - (old.fee + old.reward))
  BY <1>1, <1>3, <1>5, <1>6, <1>20, RoundsHold
<1> HIDE DEF income, fees, old
<1>10. Purses(w.account) /\ CoinsIn(w.account) = CoinsIn(u.account) + (- fees + income)
  BY <1>3, <1>8 DEF CoinsMoved
<1>11. CalculateSupply(h) = CalculateSupply(h - 1) + reward
  <2> DEFINE i == h - 1
  <2>1. i \in Nat /\ i + 1 = h
    BY <1>1
  <2> HIDE DEF i
  <2>2. CalculateSupply(i + 1) = CalculateSupply(i) + CalculateReward(i + 1)
    BY <2>1, SupplyGrows
  <2> QED BY <2>1, <2>2 DEF i
<1>12. /\ CoinsIn(u.account) \in Int /\ CoinsIn(w.account) \in Int
       /\ Holds(u.round, h - 1) \in Int /\ Holds(w.round, h) \in Int
  BY <1>3, <1>9, <1>10, CoinsInt, HoldsType
<1>13. CalculateSupply(h) \in Nat /\ CalculateSupply(h - 1) \in Nat /\ reward \in Nat /\ InitialAmount \in Nat
  BY <1>1, SupplyType, RewardType, RoundsAssumption
<1> DEFINE a == CoinsIn(u.account)
           b == CoinsIn(w.account)
           x == Holds(u.round, h - 1)
           y == Holds(w.round, h)
           s == CalculateSupply(h - 1)
           t == CalculateSupply(h)
<1>14. /\ a + x = s - InitialAmount
       /\ b = a + (- fees + income)
       /\ y + income = x + ((data.fee + data.reward) - (old.fee + old.reward))
       /\ t = s + reward
       /\ a \in Int /\ b \in Int /\ x \in Int /\ y \in Int /\ s \in Nat /\ t \in Nat
  BY <1>3, <1>9, <1>10, <1>11, <1>12, <1>13
<1> HIDE DEF a, b, x, y, s, t, reward
<1>15. b + y = t - InitialAmount
  <2>1. (data.fee + data.reward) - (old.fee + old.reward) = fees + reward
    <3>1. /\ old.fee \in Nat /\ old.reward \in Nat /\ fees \in Nat /\ reward \in Nat
          /\ data.fee = old.fee + fees /\ data.reward = old.reward + reward
      BY <1>4, <1>5, <1>13
    <3> QED BY ONLY <3>1
  <2>2. y + income = x + (fees + reward)
    BY <1>14, <2>1
  <2>3. income \in Int /\ fees \in Nat /\ reward \in Nat /\ InitialAmount \in Nat
    BY <1>4, <1>9, <1>13
  <2> QED BY ONLY <1>14, <2>2, <2>3
<1> QED BY <1>9, <1>10, <1>15 DEF Balanced, b, y, t, w

LEMMA AlwaysBalanced ==
  ASSUME ChainTold, UnlockFree
  PROVE  Balanced(saved[Height], Height)
<1> DEFINE T == {h \in Nat : h <= Height => Balanced(saved[h], h)}
<1>0. Height \in Nat /\ saved[0] = GenesisTables /\ chain[0] = GenesisBlock
  BY DEF ChainTold, ChainTyped
<1>1. 0 \in T
  <2>1. 0 \in 0 .. Height /\ chain[0].trs = GenesisTrs
    BY <1>0 DEF GenesisBlock, Block
  <2>2. NoUnlock(GenesisTrs)
    BY <2>1 DEF UnlockFree
  <2>3. Balanced(saved[0], 0)
    BY <1>0, <2>2, GenesisBalanced DEF ChainTold
  <2> QED BY <2>3
<1>2. ASSUME NEW i \in Nat, i \in T PROVE i + 1 \in T
  <2>1. SUFFICES ASSUME i + 1 <= Height PROVE Balanced(saved[i + 1], i + 1)
    OBVIOUS
  <2> DEFINE h == i + 1
  <2>2. h \in 1 .. Height /\ h - 1 = i /\ Balanced(saved[i], i) /\ h \in 0 .. Height /\ i \in 0 .. Height
    BY <1>0, <1>2, <2>1
  <2> HIDE DEF h
  <2>3. NoUnlock(chain[h].trs) /\ Balanced(saved[h - 1], h - 1)
    BY <2>2 DEF UnlockFree
  <2>4. Balanced(saved[h], h)
    BY <2>2, <2>3, BlockBalances
  <2> QED BY <2>4 DEF h
<1> HIDE DEF T
<1>3. Nat \subseteq T
  BY <1>1, <1>2, SetInduction
<1> QED BY <1>0, <1>3 DEF T

(***************************************************************************)
(* The coins of all accounts, with what the rounds hold back, are the      *)
(* rewards of the blocks so far, as long as nothing is unlocked: fees wait *)
(* in their round, a round that ends pays what its division by the length  *)
(* of its list says, and no contract makes or loses a coin.  No hypothesis *)
(* is made on the delegates genesis registers: with fewer than a round has *)
(* blocks what a round keeps is negative, and coins appear.                *)
(***************************************************************************)
THEOREM CoinsConserved ==
  ASSUME NeverBusy, SendersKnown
  PROVE  Spec => []Conservation
<1>1. ASSUME TypeInv, ReplayInv, ListedInv, ExecutedOf("unlock") = {}
      PROVE  Coins(Tables) + SumFunction([r \in DOMAIN Tables.round |-> Withheld(Tables.round[r], r)])
               = CalculateSupply(Height) - InitialAmount
  <2>1. ChainTold
    BY <1>1 DEF NeverBusy, TypeInv, ReplayInv, ListedInv, ChainTold
  <2>2. UnlockFree
    <3>1. DOMAIN chain = 0 .. Height /\ \A h \in 0 .. Height : chain[h].trs \in Seq(TrsIds)
      BY <2>1 DEF ChainTold, ChainTyped
    <3>2. ASSUME NEW h \in 0 .. Height, NEW id \in ToSet(chain[h].trs), Content[id].type = "unlock"
          PROVE  FALSE
      <4>1. id \in UNION {ToSet(chain[k].trs) : k \in DOMAIN chain}
        BY <3>1
      <4>2. id \in ExecutedOf("unlock")
        BY <3>2, <4>1 DEF ExecutedOf
      <4> QED BY <1>1, <4>2
    <3> QED BY <3>2 DEF UnlockFree, NoUnlock
  <2>3. Balanced(saved[Height], Height)
    BY <2>1, <2>2, AlwaysBalanced
  <2>5. Coins(Tables) = CoinsIn(Tables.account)
    BY DEF Coins, CoinsIn, Purse, SumFunction, Sum
  <2>6. ASSUME NEW r PROVE Withheld(Tables.round[r], r) = WithheldAt(Tables.round[r], r, Height)
    BY DEF Withheld, WithheldAt, Remainders, ListLength
  <2>7. SumFunction([r \in DOMAIN Tables.round |-> Withheld(Tables.round[r], r)]) = Holds(Tables.round, Height)
    <3> DEFINE f == [r \in DOMAIN Tables.round |-> Withheld(Tables.round[r], r)]
               g == [r \in DOMAIN Tables.round |-> WithheldAt(Tables.round[r], r, Height)]
    <3>1. f = g
      BY <2>6
    <3>2. SumFunction(g) = Sum(g, DOMAIN Tables.round)
      BY DEF SumFunction, Sum
    <3>3. Holds(Tables.round, Height) = Sum(g, DOMAIN Tables.round)
      BY DEF Holds
    <3> HIDE DEF f, g
    <3>4. SumFunction(f) = Holds(Tables.round, Height)
      BY <3>1, <3>2, <3>3
    <3> QED BY <3>4 DEF f
  <2> QED BY <2>3, <2>5, <2>7 DEF Balanced, Tables
<1>2. TypeInv /\ OnceInv /\ ReplayInv /\ ListedInv => Conservation
  BY <1>1 DEF Conservation
<1> QED BY <1>2, SpecLists, PTL

-----------------------------------------------------------------------------
(* The votes of a delegate and the coins behind them *)

VoteRow(r) == r = [voterAddress |-> r.voterAddress, delegate |-> r.delegate]

(* Votes are of accounts, for delegates *)
VotesOK(v) ==
  \A r \in v.votes : VoteRow(r) /\ r.voterAddress \in DOMAIN v.account /\ r.delegate \in DOMAIN v.delegate

Locked(v) == [a \in DOMAIN v.account |-> v.account[a].lockAmount]

(* What one account has behind a delegate *)
Stake(v, a, d) == IF a \in Voters(v, d) THEN Locked(v)[a] ELSE 0

LEMMA LockedIsSum ==
  ASSUME NEW v, NEW d
  PROVE  LockedBehind(v, d) = Sum(Locked(v), Voters(v, d))
BY DEF LockedBehind, Locked, Sum

LEMMA VotersFinite ==
  ASSUME NEW v, PeopleOK(v), VotesOK(v), NEW d
  PROVE  /\ IsFiniteSet(Voters(v, d)) /\ Voters(v, d) \subseteq DOMAIN v.account
         /\ \A a \in Voters(v, d) : Locked(v)[a] \in Int /\ Locked(v)[a] = v.account[a].lockAmount
         /\ LockedBehind(v, d) \in Int
         /\ d \notin DOMAIN v.delegate => Voters(v, d) = {}
<1>1. Voters(v, d) \subseteq DOMAIN v.account /\ (d \notin DOMAIN v.delegate => Voters(v, d) = {})
  BY DEF VotesOK, Voters
<1>2. IsFiniteSet(DOMAIN v.account) /\ \A a \in DOMAIN v.account : v.account[a].lockAmount \in Int
  <2>1. IsFiniteSet(DOMAIN v.account) /\ \A a \in DOMAIN v.account : AccountRow(v.account[a])
    BY DEF PeopleOK, AccountsOK
  <2>2. \A a \in DOMAIN v.account : v.account[a].lockAmount \in Nat
    BY <2>1 DEF AccountRow
  <2> QED BY <2>1, <2>2
<1>3. IsFiniteSet(Voters(v, d))
  BY <1>1, <1>2, FS_Subset
<1>4. \A a \in Voters(v, d) : Locked(v)[a] \in Int /\ Locked(v)[a] = v.account[a].lockAmount
  BY <1>1, <1>2 DEF Locked
<1>5. LockedBehind(v, d) \in Int
  BY <1>3, <1>4, LockedIsSum, SumType
<1> QED BY <1>1, <1>3, <1>4, <1>5

LEMMA WithoutOne ==
  ASSUME NEW S, IsFiniteSet(S), NEW f, \A x \in S : f[x] \in Int, NEW a
  PROVE  /\ Sum(f, S) = (IF a \in S THEN f[a] ELSE 0) + Sum(f, S \ {a})
         /\ Sum(f, S \ {a}) \in Int
<1>1. IsFiniteSet(S \ {a})
  BY FS_RemoveElement, FS_Subset
<1>2. Sum(f, S \ {a}) \in Int
  BY <1>1, SumType
<1>3. CASE a \in S
  BY <1>2, <1>3, SumRemove
<1>4. CASE a \notin S
  <2>1. S \ {a} = S
    BY <1>4
  <2>2. Sum(f, S) = Sum(f, S \ {a})
    BY <2>1, Zenon
  <2> DEFINE x == Sum(f, S)
             y == Sum(f, S \ {a})
  <2>3. x = y /\ y \in Int
    BY <1>2, <2>2
  <2> HIDE DEF x, y
  <2>4. x = 0 + y
    BY <2>3
  <2> QED BY <1>2, <1>4, <2>4 DEF x, y
<1> QED BY <1>2, <1>3, <1>4

(* Nobody but one account has other coins behind a delegate *)
OthersStay(v, w, a, d) ==
  /\ Voters(w, d) \ {a} = Voters(v, d) \ {a}
  /\ \A b \in Voters(v, d) \ {a} : w.account[b].lockAmount = v.account[b].lockAmount

LEMMA OneStake ==
  ASSUME NEW v, PeopleOK(v), VotesOK(v), NEW w, PeopleOK(w), VotesOK(w), NEW a, NEW d,
         OthersStay(v, w, a, d)
  PROVE  /\ Stake(v, a, d) \in Int /\ Stake(w, a, d) \in Int
         /\ LockedBehind(w, d) - LockedBehind(v, d) = Stake(w, a, d) - Stake(v, a, d)
<1> DEFINE S == Voters(v, d)
           U == Voters(w, d)
           f == Locked(v)
           g == Locked(w)
           R == S \ {a}
<1>1. /\ IsFiniteSet(S) /\ \A b \in S : f[b] \in Int /\ f[b] = v.account[b].lockAmount
      /\ IsFiniteSet(U) /\ \A b \in U : g[b] \in Int /\ g[b] = w.account[b].lockAmount
  BY VotersFinite
<1>2. U \ {a} = R /\ \A b \in R : w.account[b].lockAmount = v.account[b].lockAmount
  BY DEF OthersStay
<1>3. LockedBehind(v, d) = Sum(f, S) /\ LockedBehind(w, d) = Sum(g, U)
  BY LockedIsSum
<1>4. Stake(v, a, d) = (IF a \in S THEN f[a] ELSE 0) /\ Stake(w, a, d) = (IF a \in U THEN g[a] ELSE 0)
  BY DEF Stake
<1> HIDE DEF S, U, f, g
<1>5. Sum(f, S) = Stake(v, a, d) + Sum(f, R) /\ Sum(f, R) \in Int
  BY <1>1, <1>4, WithoutOne
<1>6. Sum(g, U) = Stake(w, a, d) + Sum(g, R)
  <2>1. Sum(g, U) = (IF a \in U THEN g[a] ELSE 0) + Sum(g, U \ {a})
    BY <1>1, WithoutOne
  <2> QED BY <1>2, <1>4, <2>1
<1>7. Sum(g, R) = Sum(f, R)
  <2>1. IsFiniteSet(R) /\ \A b \in R : f[b] \in Int
    BY <1>1, FS_RemoveElement, FS_Subset
  <2>2. \A b \in R : g[b] = f[b]
    BY <1>1, <1>2
  <2> HIDE DEF R
  <2> QED BY <2>1, <2>2, SumEqual
<1>8. Stake(v, a, d) \in Int /\ Stake(w, a, d) \in Int
  BY <1>1, <1>4
<1> QED BY <1>3, <1>5, <1>6, <1>7, <1>8

(***************************************************************************)
(* The property of the tables, which a block and its transactions keep:    *)
(* the votes of a delegate are not below the coins behind it, and are just *)
(* these if that is asked for (exact).                                     *)
(***************************************************************************)
Weighed(v, exact) ==
  /\ VotesOK(v)
  /\ \A d \in DOMAIN v.delegate :
       /\ v.delegate[d].votes >= LockedBehind(v, d)
       /\ exact => v.delegate[d].votes = LockedBehind(v, d)

LEMMA VotesType ==
  ASSUME NEW v, PeopleOK(v), NEW d \in DOMAIN v.delegate
  PROVE  v.delegate[d].votes \in Int
BY DEF PeopleOK, DelegatesOK, DelegateRow

(* The stake of one account changes, and the votes with it *)
LEMMA StakeMoved ==
  ASSUME NEW exact \in BOOLEAN, NEW v, PeopleOK(v), Weighed(v, exact),
         NEW w, PeopleOK(w), VotesOK(w), NEW a, DOMAIN w.delegate = DOMAIN v.delegate,
         \A d \in DOMAIN w.delegate :
           /\ OthersStay(v, w, a, d)
           /\ w.delegate[d].votes - v.delegate[d].votes >= Stake(w, a, d) - Stake(v, a, d)
           /\ exact => w.delegate[d].votes - v.delegate[d].votes = Stake(w, a, d) - Stake(v, a, d)
  PROVE  Weighed(w, exact)
<1>1. ASSUME NEW d \in DOMAIN w.delegate
      PROVE  /\ w.delegate[d].votes >= LockedBehind(w, d)
             /\ exact => w.delegate[d].votes = LockedBehind(w, d)
  <2> DEFINE p == v.delegate[d].votes
             q == w.delegate[d].votes
             x == LockedBehind(v, d)
             y == LockedBehind(w, d)
             m == Stake(v, a, d)
             n == Stake(w, a, d)
  <2>1. p \in Int /\ q \in Int
    BY VotesType
  <2>2. x \in Int /\ y \in Int
    BY VotersFinite DEF Weighed
  <2>3. m \in Int /\ n \in Int /\ y - x = n - m
    BY OneStake DEF Weighed
  <2>4. q - p >= n - m /\ (exact => q - p = n - m)
    OBVIOUS
  <2>5. p >= x /\ (exact => p = x)
    BY DEF Weighed
  <2> HIDE DEF p, q, x, y, m, n
  <2>6. q >= y /\ (exact => q = y)
    BY <2>1, <2>2, <2>3, <2>4, <2>5
  <2> QED BY <2>6 DEF q, y
<1> QED BY <1>1 DEF Weighed

-----------------------------------------------------------------------------
(* Changes that leave stakes and votes alone *)

(* Accounts keep what they lock, and stay delegates *)
LocksKept(x, y) ==
  /\ DOMAIN x \subseteq DOMAIN y
  /\ \A a \in DOMAIN x : y[a].lockAmount = x[a].lockAmount /\ (x[a].isDelegate => y[a].isDelegate)

VotesKept(x, y) == DOMAIN y = DOMAIN x /\ \A d \in DOMAIN x : y[d].votes = x[d].votes

SameStakes(v, w) ==
  w.votes = v.votes /\ LocksKept(v.account, w.account) /\ VotesKept(v.delegate, w.delegate)

LEMMA LocksSelf == ASSUME NEW x PROVE LocksKept(x, x)
BY DEF LocksKept

LEMMA LocksTwice ==
  ASSUME NEW x, NEW y, NEW z, LocksKept(x, y), LocksKept(y, z)
  PROVE  LocksKept(x, z)
BY DEF LocksKept

LEMMA VotesTwice ==
  ASSUME NEW x, NEW y, NEW z, VotesKept(x, y), VotesKept(y, z)
  PROVE  VotesKept(x, z)
BY DEF VotesKept

LEMMA StakesTwice ==
  ASSUME NEW u, NEW v, NEW w, SameStakes(u, v), SameStakes(v, w)
  PROVE  SameStakes(u, w)
BY LocksTwice, VotesTwice DEF SameStakes

LEMMA StakesSelf == ASSUME NEW v, NEW w, w.votes = v.votes, w.account = v.account, w.delegate = v.delegate
                    PROVE  SameStakes(v, w)
BY DEF SameStakes, LocksKept, VotesKept

LEMMA SameWeighed ==
  ASSUME NEW exact \in BOOLEAN, NEW v, PeopleOK(v), Weighed(v, exact), NEW w, PeopleOK(w), SameStakes(v, w)
  PROVE  Weighed(w, exact)
<1>1. VotesOK(w)
  BY DEF Weighed, VotesOK, SameStakes, LocksKept, VotesKept
<1>2. ASSUME NEW d \in DOMAIN w.delegate
      PROVE  /\ w.delegate[d].votes >= LockedBehind(w, d)
             /\ exact => w.delegate[d].votes = LockedBehind(w, d)
  <2>1. d \in DOMAIN v.delegate /\ w.delegate[d].votes = v.delegate[d].votes
    BY DEF SameStakes, VotesKept
  <2>2. LockedBehind(w, d) = LockedBehind(v, d)
    <3> DEFINE S == Voters(v, d)
               f == Locked(v)
               g == Locked(w)
    <3>1. Voters(w, d) = S
      BY DEF SameStakes, Voters
    <3>2. IsFiniteSet(S) /\ S \subseteq DOMAIN v.account /\ \A a \in S : f[a] \in Int
      BY VotersFinite DEF Weighed
    <3>3. \A a \in S : g[a] = f[a]
      BY <3>2 DEF SameStakes, LocksKept, Locked
    <3>4. LockedBehind(w, d) = Sum(g, S) /\ LockedBehind(v, d) = Sum(f, S)
      BY <3>1, LockedIsSum
    <3> HIDE DEF S, f, g
    <3> QED BY <3>2, <3>3, <3>4, SumEqual
  <2> QED BY <2>1, <2>2 DEF Weighed
<1> QED BY <1>1, <1>2 DEF Weighed

(* Fees, rewards and transfers *)
LEMMA GnyLocks ==
  ASSUME NEW x, AccountsOK(x), NEW a \in DOMAIN x, NEW amount
  PROVE  LocksKept(x, Increase(x, {a}, "gny", amount))
<1> DEFINE row == [x[a] EXCEPT !.gny = @ + amount]
           y == With(x, a, row)
<1>1. Increase(x, {a}, "gny", amount) = y
  BY IncreaseIsWith
<1>2. AccountRow(x[a])
  BY DEF AccountsOK
<1>3. row.isDelegate = x[a].isDelegate /\ row.lockAmount = x[a].lockAmount
  BY <1>2 DEF AccountRow
<1> HIDE DEF row
<1>4. DOMAIN y = DOMAIN x /\ y[a] = row /\ \A b \in DOMAIN x \ {a} : y[b] = x[b]
  BY DEF With
<1> HIDE DEF y
<1> QED BY <1>1, <1>3, <1>4 DEF LocksKept

LEMMA RowLocks ==
  ASSUME NEW x, NEW a, NEW row,
         a \in DOMAIN x => row.lockAmount = x[a].lockAmount /\ (x[a].isDelegate => row.isDelegate)
  PROVE  LocksKept(x, With(x, a, row))
BY DEF LocksKept, With

LEMMA RowsOfDelegates ==
  ASSUME NEW x, \A d \in DOMAIN x : DelegateRow(x[d]), NEW names, NEW amount,
         NEW property \in {"producedBlocks", "missedBlocks", "fees", "rewards"}
  PROVE  VotesKept(x, Increase(x, names, property, amount))
<1> DEFINE y == Increase(x, names, property, amount)
<1>1. /\ DOMAIN y = DOMAIN x
      /\ \A d \in DOMAIN x : y[d] = IF d \in names THEN [x[d] EXCEPT ![property] = @ + amount] ELSE x[d]
  BY DEF Increase
<1> HIDE DEF y
<1>2. ASSUME NEW row, DelegateRow(row), NEW r, r = [row EXCEPT ![property] = @ + amount]
      PROVE  r.votes = row.votes
  BY <1>2 DEF DelegateRow
<1>3. ASSUME NEW d \in DOMAIN x PROVE y[d].votes = x[d].votes
  BY <1>1, <1>2
<1> QED BY <1>1, <1>3 DEF y, VotesKept

-----------------------------------------------------------------------------
(* What a contract does to stakes and votes *)

(* Accounts, delegates and who is one: nothing of it goes away *)
Remain(v, w) ==
  /\ \A a \in DOMAIN v.account :
       a \in DOMAIN w.account /\ (v.account[a].isDelegate => w.account[a].isDelegate)
  /\ DOMAIN v.delegate \subseteq DOMAIN w.delegate

LEMMA RemainTwice ==
  ASSUME NEW u, NEW v, NEW w, Remain(u, v), Remain(v, w)
  PROVE  Remain(u, w)
BY DEF Remain

LEMMA StakesRemain ==
  ASSUME NEW v, NEW w, SameStakes(v, w)
  PROVE  /\ Remain(v, w) /\ \A b : VotesOf(w, b) = VotesOf(v, b)
         /\ \A b \in DOMAIN v.account : w.account[b].lockAmount = v.account[b].lockAmount
BY DEF SameStakes, LocksKept, VotesKept, Remain, VotesOf

(***************************************************************************)
(* A session: what the tables say of the votes of an account, and of what  *)
(* it locks, is what the session does, unless the session has its lock.    *)
(***************************************************************************)
InStakes(s) ==
  /\ Remain(s.table, s.view)
  /\ \A a : <<"basic.account", a>> \notin s.locks =>
       /\ VotesOf(s.view, a) = VotesOf(s.table, a)
       /\ a \in DOMAIN s.table.account =>
            s.view.account[a].lockAmount = s.table.account[a].lockAmount

StakeSession(s, exact) == PeopleSession(s) /\ Weighed(s.view, exact) /\ InStakes(s)

(* What becomes of it by a contract of a *)
Stakes(v, w, a, exact) ==
  /\ Weighed(w, exact) /\ Remain(v, w)
  /\ \A b : b # a => VotesOf(w, b) = VotesOf(v, b)
  /\ \A b \in DOMAIN v.account : b # a => w.account[b].lockAmount = v.account[b].lockAmount

LEMMA VoterVoted ==
  ASSUME NEW v, NEW a, NEW d
  PROVE  a \in Voters(v, d) <=> d \in VotedBy(v, a)
BY DEF Voters, VotedBy, VotesOf

LEMMA OthersVotes ==
  ASSUME NEW v, NEW w, NEW a, \A b : b # a => VotesOf(w, b) = VotesOf(v, b), NEW d
  PROVE  Voters(w, d) \ {a} = Voters(v, d) \ {a}
<1>1. ASSUME NEW b, b # a PROVE b \in Voters(w, d) <=> b \in Voters(v, d)
  <2>1. VotedBy(w, b) = VotedBy(v, b)
    BY <1>1 DEF VotedBy
  <2> QED BY <2>1, VoterVoted
<1> QED BY <1>1

(* The votes of delegates are increased, those of the names *)
LEMMA VotesIncreased ==
  ASSUME NEW x, \A d \in DOMAIN x : DelegateRow(x[d]), NEW names, NEW amount \in Int,
         NEW y, y = Increase(x, names, "votes", amount)
  PROVE  /\ DOMAIN y = DOMAIN x
         /\ \A d \in DOMAIN x : y[d].votes - x[d].votes = IF d \in names THEN amount ELSE 0
<1>1. /\ DOMAIN y = DOMAIN x
      /\ \A d \in DOMAIN x : y[d] = IF d \in names THEN [x[d] EXCEPT !.votes = @ + amount] ELSE x[d]
  BY DEF Increase
<1>2. ASSUME NEW d \in DOMAIN x
      PROVE  y[d].votes - x[d].votes = IF d \in names THEN amount ELSE 0
  <2>1. DelegateRow(x[d]) /\ x[d].votes \in Int
    BY DEF DelegateRow
  <2>2. d \in names => y[d].votes = x[d].votes + amount
    BY <1>1, <2>1 DEF DelegateRow
  <2>3. d \notin names => y[d].votes = x[d].votes
    BY <1>1
  <2> QED BY <2>1, <2>2, <2>3
<1> QED BY <1>1, <1>2

(* One row of the accounts is replaced *)
LEMMA RowPut ==
  ASSUME NEW x, NEW a \in DOMAIN x, NEW row, NEW y, y = [x EXCEPT ![a] = row]
  PROVE  DOMAIN y = DOMAIN x /\ y[a] = row /\ \A b \in DOMAIN x \ {a} : y[b] = x[b]
OBVIOUS

(***************************************************************************)
(* The common part of the contracts on locks and votes: the row of a, its  *)
(* votes, and the votes of the delegates are the only things that change.  *)
(***************************************************************************)
LEMMA StakeChanged ==
  ASSUME NEW exact \in BOOLEAN, NEW v, PeopleOK(v), Weighed(v, exact), NEW a \in DOMAIN v.account,
         NEW w, PeopleOK(w), VotesOK(w), DOMAIN w.account = DOMAIN v.account,
         v.account[a].isDelegate => w.account[a].isDelegate,
         \A b \in DOMAIN v.account \ {a} : w.account[b] = v.account[b],
         \A b : b # a => VotesOf(w, b) = VotesOf(v, b),
         DOMAIN w.delegate = DOMAIN v.delegate,
         \A d \in DOMAIN v.delegate :
           /\ w.delegate[d].votes - v.delegate[d].votes >= Stake(w, a, d) - Stake(v, a, d)
           /\ exact => w.delegate[d].votes - v.delegate[d].votes = Stake(w, a, d) - Stake(v, a, d)
  PROVE  Stakes(v, w, a, exact)
<1>1. ASSUME NEW d \in DOMAIN w.delegate PROVE OthersStay(v, w, a, d)
  <2>0. \A b : b # a => VotesOf(w, b) = VotesOf(v, b)
    OBVIOUS
  <2>1. Voters(w, d) \ {a} = Voters(v, d) \ {a}
    BY ONLY <2>0, OthersVotes
  <2>2. Voters(v, d) \subseteq DOMAIN v.account
    BY VotersFinite DEF Weighed
  <2> QED BY <2>1, <2>2 DEF OthersStay
<1>2. Weighed(w, exact)
  BY <1>1, StakeMoved
<1>3. Remain(v, w)
  BY DEF Remain
<1> QED BY <1>2, <1>3 DEF Stakes

(* The stake of an account, from what it locks and whom it votes for *)
LEMMA StakeIs ==
  ASSUME NEW v, NEW a \in DOMAIN v.account, NEW d
  PROVE  Stake(v, a, d) = IF d \in VotedBy(v, a) THEN v.account[a].lockAmount ELSE 0
BY VoterVoted DEF Stake, Locked

LEMMA LockAmount ==
  ASSUME NEW v, PeopleOK(v), NEW a \in DOMAIN v.account
  PROVE  AccountRow(v.account[a]) /\ v.account[a].lockAmount \in Nat
BY DEF PeopleOK, AccountsOK, AccountRow

LEMMA VotedInTable ==
  ASSUME NEW s, NEW exact, StakeSession(s, exact), NEW a, <<"basic.account", a>> \notin s.locks
  PROVE  VotesOf(s.table, a) = VotesOf(s.view, a) /\ VotedBy(s.table, a) = VotedBy(s.view, a)
BY DEF StakeSession, InStakes, VotedBy

LEMMA LockStakes ==
  ASSUME NEW exact \in BOOLEAN, NEW s, StakeSession(s, exact), NEW t, t.senderId \in DOMAIN s.view.account,
         t.amount \in Nat, <<"basic.account", t.senderId>> \notin s.locks,
         NEW height, NEW w, w = Lock(s, t, height), w # Refused
  PROVE  Stakes(s.view, w, t.senderId, exact)
<1> DEFINE v == s.view
           a == t.senderId
           account == Sender(s, t)
           m == t.amount
           row == [account EXCEPT !.isLocked = TRUE, !.lockHeight = t.height,
                                  !.gny = @ - t.amount, !.lockAmount = @ + t.amount]
           locked == UpdateAccount(v, a, row)
           names == VotedBy(s.table, a)
<1>0. IsTables(v) /\ PeopleOK(v) /\ Weighed(v, exact) /\ a \in DOMAIN v.account /\ m \in Nat
  BY DEF StakeSession, PeopleSession
<1>1. w = IncreaseVotes(locked, names, m)
  BY DEF Lock
<1>2. AccountRow(account) /\ account = v.account[a] /\ account.lockAmount \in Nat
  BY LockAmount DEF Sender, StakeSession, PeopleSession
<1>3. row.lockAmount = account.lockAmount + m /\ row.isDelegate = account.isDelegate
  BY <1>2 DEF AccountRow
<1>4. IsTables(locked)
  BY <1>0, KeepsUpdate, KeptTables
<1>5. w.votes = v.votes
  <2>1. Touches(v, w, {"account", "delegate"})
    BY <1>0, LockTouches
  <2> QED BY <2>1 DEF Touches, Fields
<1>6. PeopleOK(w)
  <2>1. Proceeds(v, w)
    BY <1>0, LockProceeds
  <2> QED BY <2>1 DEF Proceeds
<1> HIDE DEF row, account
<1>7. w.account = [v.account EXCEPT ![a] = row] /\ w.delegate = Increase(v.delegate, names, "votes", m)
  <2>1. locked.account = [v.account EXCEPT ![a] = row] /\ locked.delegate = v.delegate
    BY <1>0, UpdateAccountParts
  <2> HIDE DEF locked
  <2> QED BY <1>1, <1>4, <2>1, IncreaseVotesParts
<1>8. names = VotedBy(v, a)
  BY VotedInTable
<1>9. VotedBy(w, a) = VotedBy(v, a) /\ \A b : VotesOf(w, b) = VotesOf(v, b)
  BY <1>5 DEF VotedBy, VotesOf
<1> HIDE DEF v, a, m, names, locked
<1>10. /\ DOMAIN w.account = DOMAIN v.account /\ w.account[a] = row
       /\ \A b \in DOMAIN v.account \ {a} : w.account[b] = v.account[b]
  BY <1>0, <1>7, RowPut
<1>11. /\ DOMAIN w.delegate = DOMAIN v.delegate
       /\ \A d \in DOMAIN v.delegate :
            w.delegate[d].votes - v.delegate[d].votes = IF d \in names THEN m ELSE 0
  <2>1. \A d \in DOMAIN v.delegate : DelegateRow(v.delegate[d])
    BY <1>0 DEF PeopleOK, DelegatesOK
  <2>2. m \in Int
    BY <1>0
  <2> QED BY <1>7, <2>1, <2>2, VotesIncreased
<1>12. VotesOK(w)
  BY <1>0, <1>5, <1>10, <1>11 DEF Weighed, VotesOK
<1>13. ASSUME NEW d \in DOMAIN v.delegate
       PROVE  w.delegate[d].votes - v.delegate[d].votes = Stake(w, a, d) - Stake(v, a, d)
  <2>1. Stake(v, a, d) = IF d \in names THEN account.lockAmount ELSE 0
    BY <1>0, <1>2, <1>8, StakeIs
  <2>2. Stake(w, a, d) = IF d \in names THEN account.lockAmount + m ELSE 0
    BY <1>0, <1>3, <1>8, <1>9, <1>10, StakeIs
  <2> QED BY <1>0, <1>2, <1>11, <2>1, <2>2
<1>14. ASSUME NEW d \in DOMAIN v.delegate
       PROVE  w.delegate[d].votes - v.delegate[d].votes >= Stake(w, a, d) - Stake(v, a, d)
  <2> DEFINE p == w.delegate[d].votes - v.delegate[d].votes
             q == Stake(w, a, d) - Stake(v, a, d)
  <2>1. p \in Int /\ p = q
    BY <1>0, <1>11, <1>13
  <2> HIDE DEF p, q
  <2>2. p >= q
    BY <2>1
  <2> QED BY <2>2 DEF p, q
<1>15. v.account[a].isDelegate => w.account[a].isDelegate
  BY <1>2, <1>3, <1>10
<1>16. Stakes(v, w, a, exact)
  BY <1>0, <1>6, <1>9, <1>10, <1>11, <1>12, <1>13, <1>14, <1>15, StakeChanged
<1> QED BY <1>16 DEF v, a

LEMMA VoteStakes ==
  ASSUME NEW exact \in BOOLEAN, NEW s, StakeSession(s, exact), NEW t, t.senderId \in DOMAIN s.view.account,
         <<"basic.account", t.senderId>> \notin s.locks,
         NEW height, NEW w, w = Vote(s, t, height), w # Refused
  PROVE  Stakes(s.view, w, t.senderId, exact)
<1> DEFINE v == s.view
           a == t.senderId
           m == Sender(s, t).lockAmount
           names == ToSet(t.delegates)
           more == IncreaseVotes(v, names, m)
<1>0. IsTables(v) /\ PeopleOK(v) /\ Weighed(v, exact) /\ a \in DOMAIN v.account
      /\ m = v.account[a].lockAmount /\ m \in Nat
  BY LockAmount DEF StakeSession, PeopleSession, Sender
<1>1. /\ w = [more EXCEPT !.votes = @ \cup VoteItems(t)]
      /\ names \subseteq DOMAIN s.table.delegate
      /\ VotedBy(s.table, a) \cap names = {}
  BY DEF Vote, VotesAllowed
<1>2. names \subseteq DOMAIN v.delegate /\ VotedBy(v, a) \cap names = {}
  <2>1. VotedBy(s.table, a) = VotedBy(v, a)
    BY VotedInTable
  <2> QED BY <1>1, <2>1 DEF StakeSession, InStakes, Remain
<1>3. PeopleOK(w) /\ w.account = v.account
  <2>1. Proceeds(v, w) /\ w.account = v.account
    BY <1>0, VoteProceeds
  <2> QED BY <2>1 DEF Proceeds
<1>4. more = [v EXCEPT !.delegate = Increase(v.delegate, names, "votes", m)]
  BY DEF IncreaseVotes
<1>5. VoteItems(t) = {[voterAddress |-> a, delegate |-> d] : d \in names}
  BY DEF VoteItems
<1> HIDE DEF v, a, m, names
<1>6. w.votes = v.votes \cup VoteItems(t) /\ w.delegate = Increase(v.delegate, names, "votes", m)
  BY <1>0, <1>1, <1>4 DEF IsTables, Fields
<1> HIDE DEF more
<1>7. /\ DOMAIN w.delegate = DOMAIN v.delegate
      /\ \A d \in DOMAIN v.delegate :
           w.delegate[d].votes - v.delegate[d].votes = IF d \in names THEN m ELSE 0
  <2>1. \A d \in DOMAIN v.delegate : DelegateRow(v.delegate[d])
    BY <1>0 DEF PeopleOK, DelegatesOK
  <2>2. m \in Int
    BY <1>0
  <2> QED BY <1>6, <2>1, <2>2, VotesIncreased
<1>8. VotesOK(w)
  BY <1>0, <1>2, <1>3, <1>5, <1>6, <1>7 DEF Weighed, VotesOK, VoteRow
<1>9. VotedBy(w, a) = VotedBy(v, a) \cup names
  <2>1. VotesOf(w, a) = VotesOf(v, a) \cup VoteItems(t)
    BY <1>5, <1>6 DEF VotesOf
  <2>2. {r.delegate : r \in VoteItems(t)} = names
    <3>1. ASSUME NEW d \in names PROVE \E r \in VoteItems(t) : d = r.delegate
      <4>1. [voterAddress |-> a, delegate |-> d] \in VoteItems(t)
        BY <1>5
      <4> QED BY <4>1
    <3>2. ASSUME NEW r \in VoteItems(t) PROVE r.delegate \in names
      BY <1>5
    <3> QED BY <3>1, <3>2
  <2> QED BY <2>1, <2>2 DEF VotedBy
<1>10. \A b : b # a => VotesOf(w, b) = VotesOf(v, b)
  BY <1>5, <1>6 DEF VotesOf
<1>11. ASSUME NEW d \in DOMAIN v.delegate
       PROVE  /\ w.delegate[d].votes - v.delegate[d].votes = Stake(w, a, d) - Stake(v, a, d)
              /\ w.delegate[d].votes - v.delegate[d].votes >= Stake(w, a, d) - Stake(v, a, d)
  <2> DEFINE p == w.delegate[d].votes - v.delegate[d].votes
             q == Stake(w, a, d) - Stake(v, a, d)
  <2>1. Stake(v, a, d) = IF d \in VotedBy(v, a) THEN m ELSE 0
    BY <1>0, StakeIs
  <2>2. Stake(w, a, d) = IF d \in VotedBy(v, a) \/ d \in names THEN m ELSE 0
    BY <1>0, <1>3, <1>9, StakeIs
  <2>3. p = IF d \in names THEN m ELSE 0
    BY <1>7
  <2>4. p \in Int /\ q = p
    <3> HIDE DEF p
    <3> QED BY <1>0, <1>2, <2>1, <2>2, <2>3
  <2> HIDE DEF p, q
  <2>5. p = q /\ p >= q
    BY <2>4
  <2> QED BY <2>5 DEF p, q
<1>12. Stakes(v, w, a, exact)
  BY <1>0, <1>3, <1>7, <1>8, <1>10, <1>11, StakeChanged
<1> QED BY <1>12 DEF v, a

LEMMA UnvoteStakes ==
  ASSUME NEW exact \in BOOLEAN, NEW s, StakeSession(s, exact), NEW t, t.senderId \in DOMAIN s.view.account,
         <<"basic.account", t.senderId>> \notin s.locks,
         NEW height, NEW w, w = Unvote(s, t, height), w # Refused
  PROVE  Stakes(s.view, w, t.senderId, exact)
<1> DEFINE v == s.view
           a == t.senderId
           m == Sender(s, t).lockAmount
           names == ToSet(t.delegates)
           less == IncreaseVotes(v, names, - m)
<1>0. IsTables(v) /\ PeopleOK(v) /\ Weighed(v, exact) /\ a \in DOMAIN v.account
      /\ m = v.account[a].lockAmount /\ m \in Nat
  BY LockAmount DEF StakeSession, PeopleSession, Sender
<1>1. /\ w = [less EXCEPT !.votes = @ \ VoteItems(t)]
      /\ names \subseteq VotedBy(s.table, a)
  BY DEF Unvote
<1>2. names \subseteq VotedBy(v, a)
  <2>1. VotedBy(s.table, a) = VotedBy(v, a)
    BY VotedInTable
  <2> QED BY <1>1, <2>1
<1>3. PeopleOK(w) /\ w.account = v.account
  <2>1. Proceeds(v, w) /\ w.account = v.account
    BY <1>0, VoteProceeds
  <2> QED BY <2>1 DEF Proceeds
<1>4. less = [v EXCEPT !.delegate = Increase(v.delegate, names, "votes", - m)]
  BY DEF IncreaseVotes
<1>5. VoteItems(t) = {[voterAddress |-> a, delegate |-> d] : d \in names}
  BY DEF VoteItems
<1> HIDE DEF v, a, m, names
<1>6. w.votes = v.votes \ VoteItems(t) /\ w.delegate = Increase(v.delegate, names, "votes", - m)
  BY <1>0, <1>1, <1>4 DEF IsTables, Fields
<1> HIDE DEF less
<1>7. /\ DOMAIN w.delegate = DOMAIN v.delegate
      /\ \A d \in DOMAIN v.delegate :
           w.delegate[d].votes - v.delegate[d].votes = IF d \in names THEN - m ELSE 0
  <2>1. \A d \in DOMAIN v.delegate : DelegateRow(v.delegate[d])
    BY <1>0 DEF PeopleOK, DelegatesOK
  <2> DEFINE k == - m
  <2>2. k \in Int
    BY <1>0
  <2>3. w.delegate = Increase(v.delegate, names, "votes", k)
    BY <1>6
  <2> HIDE DEF k
  <2>4. /\ DOMAIN w.delegate = DOMAIN v.delegate
        /\ \A d \in DOMAIN v.delegate :
             w.delegate[d].votes - v.delegate[d].votes = IF d \in names THEN k ELSE 0
    BY <2>1, <2>2, <2>3, VotesIncreased
  <2> QED BY <2>4 DEF k
<1>8. VotesOK(w)
  BY <1>0, <1>3, <1>6, <1>7 DEF Weighed, VotesOK
<1>9. VotedBy(w, a) = VotedBy(v, a) \ names
  <2>1. ASSUME NEW r \in v.votes, r.voterAddress = a PROVE r \in VoteItems(t) <=> r.delegate \in names
    <3>1. r = [voterAddress |-> a, delegate |-> r.delegate]
      BY <1>0, <2>1 DEF Weighed, VotesOK, VoteRow
    <3> QED BY <1>5, <3>1
  <2>2. VotesOf(w, a) = {r \in VotesOf(v, a) : r.delegate \notin names}
    BY <1>6, <2>1 DEF VotesOf
  <2> QED BY <2>2 DEF VotedBy
<1>10. \A b : b # a => VotesOf(w, b) = VotesOf(v, b)
  BY <1>5, <1>6 DEF VotesOf
<1>11. ASSUME NEW d \in DOMAIN v.delegate
       PROVE  /\ w.delegate[d].votes - v.delegate[d].votes = Stake(w, a, d) - Stake(v, a, d)
              /\ w.delegate[d].votes - v.delegate[d].votes >= Stake(w, a, d) - Stake(v, a, d)
  <2> DEFINE p == w.delegate[d].votes - v.delegate[d].votes
             q == Stake(w, a, d) - Stake(v, a, d)
  <2>1. Stake(v, a, d) = IF d \in VotedBy(v, a) THEN m ELSE 0
    BY <1>0, StakeIs
  <2>2. Stake(w, a, d) = IF d \in VotedBy(v, a) /\ d \notin names THEN m ELSE 0
    BY <1>0, <1>3, <1>9, StakeIs
  <2>3. p = IF d \in names THEN - m ELSE 0
    BY <1>7
  <2>4. p \in Int /\ q = p
    <3> HIDE DEF p
    <3> QED BY <1>0, <1>2, <2>1, <2>2, <2>3
  <2> HIDE DEF p, q
  <2>5. p = q /\ p >= q
    BY <2>4
  <2> QED BY <2>5 DEF p, q
<1>12. Stakes(v, w, a, exact)
  BY <1>0, <1>3, <1>7, <1>8, <1>10, <1>11, StakeChanged
<1> QED BY <1>12 DEF v, a

(* What a delegate unlocks it takes back from its votes; others leave theirs *)
LEMMA UnlockStakes ==
  ASSUME NEW exact \in BOOLEAN, NEW s, StakeSession(s, exact), NEW t, t.senderId \in DOMAIN s.view.account,
         <<"basic.account", t.senderId>> \notin s.locks,
         exact => s.view.account[t.senderId].isDelegate,
         NumberOf(s.view.account[t.senderId].lockAmount) = s.view.account[t.senderId].lockAmount,
         NEW height, NEW w, w = Unlock(s, t, height), w # Refused
  PROVE  Stakes(s.view, w, t.senderId, exact)
<1> DEFINE v == s.view
           a == t.senderId
           account == Sender(s, t)
           m == account.lockAmount
           names == VotedBy(s.table, a)
           left == IncreaseVotes(v, names, - m)
           without == [left EXCEPT !.votes = @ \ VotesOf(s.table, a)]
           base == IF account.isDelegate THEN DeleteCreatedVotes(s, a) ELSE v
           row == [account EXCEPT !.isLocked = FALSE, !.lockHeight = 0, !.lockAmount = 0,
                                  !.gny = Concatenate(@, account.lockAmount)]
<1>0. IsTables(v) /\ PeopleOK(v) /\ Weighed(v, exact) /\ a \in DOMAIN v.account
  BY DEF StakeSession, PeopleSession
<1>1. w = UpdateAccount(base, a, row)
  BY DEF Unlock
<1>2. AccountRow(account) /\ account = v.account[a] /\ m \in Nat
  BY LockAmount DEF Sender, StakeSession, PeopleSession
<1>3. row.lockAmount = 0 /\ row.isDelegate = account.isDelegate
  BY <1>2 DEF AccountRow
<1>4. base = IF account.isDelegate /\ m > 0 THEN without ELSE v
  <2>1. NumberOf(m) = m
    BY <1>2
  <2> QED BY <1>2, <2>1 DEF DeleteCreatedVotes
<1>5. left = [v EXCEPT !.delegate = Increase(v.delegate, names, "votes", - m)]
  BY DEF IncreaseVotes
<1>6. PeopleOK(w)
  <2>1. Proceeds(v, w)
    BY <1>0, UnlockProceeds
  <2> QED BY <2>1 DEF Proceeds
<1>7. names = VotedBy(v, a) /\ VotesOf(s.table, a) = VotesOf(v, a)
  BY VotedInTable
<1>17. exact => account.isDelegate
  BY <1>2
<1> HIDE DEF v, a, row, account, base, names, m
<1>8. /\ IsTables(without) /\ without.account = v.account /\ without.votes = v.votes \ VotesOf(v, a)
      /\ without.delegate = Increase(v.delegate, names, "votes", - m)
  BY <1>0, <1>5, <1>7 DEF IsTables, Fields
<1> HIDE DEF left, without
<1>9. IsTables(base) /\ base.account = v.account
  BY <1>0, <1>4, <1>8
<1>10. /\ w.account = [v.account EXCEPT ![a] = row] /\ w.delegate = base.delegate /\ w.votes = base.votes
  <2>1. w.account = [base.account EXCEPT ![a] = row] /\ w.delegate = base.delegate
    BY ONLY <1>1, <1>9, UpdateAccountParts
  <2>2. w.votes = base.votes
    BY <1>1, <1>9 DEF UpdateAccount, IsTables, Fields
  <2> QED BY <1>9, <2>1, <2>2
<1>11. /\ DOMAIN w.account = DOMAIN v.account /\ w.account[a] = row
       /\ \A b \in DOMAIN v.account \ {a} : w.account[b] = v.account[b]
  BY <1>0, <1>10, RowPut
<1>12. \A b : b # a => VotesOf(w, b) = VotesOf(v, b)
  BY <1>4, <1>8, <1>10 DEF VotesOf
<1>13. /\ DOMAIN w.delegate = DOMAIN v.delegate
       /\ \A d \in DOMAIN v.delegate :
            w.delegate[d].votes - v.delegate[d].votes
              = IF account.isDelegate /\ m > 0 /\ d \in names THEN - m ELSE 0
  <2>1. \A d \in DOMAIN v.delegate : DelegateRow(v.delegate[d]) /\ v.delegate[d].votes \in Int
    BY <1>0, VotesType DEF PeopleOK, DelegatesOK
  <2>2. CASE account.isDelegate /\ m > 0
    <3> DEFINE k == - m
    <3>1. k \in Int
      BY <1>2
    <3>2. w.delegate = Increase(v.delegate, names, "votes", k)
      BY <1>4, <1>8, <1>10, <2>2
    <3> HIDE DEF k
    <3>3. /\ DOMAIN w.delegate = DOMAIN v.delegate
          /\ \A d \in DOMAIN v.delegate :
               w.delegate[d].votes - v.delegate[d].votes = IF d \in names THEN k ELSE 0
      BY <2>1, <3>1, <3>2, VotesIncreased
    <3> QED BY <2>2, <3>3 DEF k
  <2>3. CASE ~ (account.isDelegate /\ m > 0)
    <3>1. w.delegate = v.delegate
      BY <1>4, <1>10, <2>3
    <3> QED BY <2>1, <2>3, <3>1
  <2> QED BY <2>2, <2>3
<1>14. VotesOK(w)
  <2>1. w.votes \subseteq v.votes
    BY <1>4, <1>8, <1>10
  <2> QED BY <1>0, <1>11, <1>13, <2>1 DEF Weighed, VotesOK
<1>15. ASSUME NEW d \in DOMAIN v.delegate
       PROVE  /\ w.delegate[d].votes - v.delegate[d].votes >= Stake(w, a, d) - Stake(v, a, d)
              /\ exact => w.delegate[d].votes - v.delegate[d].votes = Stake(w, a, d) - Stake(v, a, d)
  <2> DEFINE p == w.delegate[d].votes - v.delegate[d].votes
             x == Stake(v, a, d)
             y == Stake(w, a, d)
  <2>1. x = IF d \in names THEN m ELSE 0
    BY <1>0, <1>2, <1>7, StakeIs DEF m
  <2>2. y = 0
    <3>1. a \in DOMAIN w.account /\ w.account[a].lockAmount = 0
      BY <1>0, <1>3, <1>11
    <3>2. y = IF d \in VotedBy(w, a) THEN 0 ELSE 0
      BY <3>1, StakeIs
    <3> QED BY <3>2
  <2>3. p = IF account.isDelegate /\ m > 0 /\ d \in names THEN - m ELSE 0
    BY <1>13
  <2> HIDE DEF p, x, y
  <2>4. p >= y - x /\ (account.isDelegate => p = y - x)
    <3>1. m \in Nat
      BY <1>2
    <3>2. CASE account.isDelegate /\ m > 0 /\ d \in names
      BY <2>1, <2>2, <2>3, <3>1, <3>2
    <3>3. CASE ~ (account.isDelegate /\ m > 0 /\ d \in names)
      <4>1. p = 0 /\ x \in Nat /\ y = 0
        BY <2>1, <2>2, <2>3, <3>1, <3>3
      <4>2. account.isDelegate => x = 0
        BY <2>1, <3>1, <3>3
      <4> QED BY <4>1, <4>2
    <3> QED BY <3>2, <3>3
  <2>5. p >= y - x /\ (exact => p = y - x)
    BY <1>17, <2>4
  <2> QED BY <2>5 DEF p, x, y
<1>16. Stakes(v, w, a, exact)
  <2>1. v.account[a].isDelegate => w.account[a].isDelegate
    BY <1>2, <1>3, <1>11
  <2> QED BY <1>0, <1>6, <1>11, <1>12, <1>13, <1>14, <1>15, <2>1, StakeChanged
<1> QED BY <1>16 DEF v, a

(* A delegate that is new has no votes, and nobody voted for its name before *)
LEMMA RegisterStakes ==
  ASSUME NEW exact \in BOOLEAN, NEW s, StakeSession(s, exact), NEW t, t.senderId \in DOMAIN s.view.account,
         NEW height, NEW w, w = RegisterDelegate(s, t, height), w # Refused
  PROVE  /\ Weighed(w, exact) /\ Remain(s.view, w) /\ w.votes = s.view.votes
         /\ \A b \in DOMAIN s.view.account : w.account[b].lockAmount = s.view.account[b].lockAmount
<1> DEFINE v == s.view
           a == t.senderId
           account == Sender(s, t)
           name == account.username
           row == [account EXCEPT !.isDelegate = TRUE]
           marked == UpdateAccount(v, a, row)
<1>0. IsTables(v) /\ PeopleOK(v) /\ Weighed(v, exact) /\ a \in DOMAIN v.account
  BY DEF StakeSession, PeopleSession
<1>1. /\ w = [marked EXCEPT !.delegate = With(@, name, NewDelegate(a))]
      /\ name # NoName /\ ~ account.isDelegate
  BY DEF RegisterDelegate
<1>2. AccountRow(account) /\ account = v.account[a]
  BY LockAmount DEF Sender, StakeSession, PeopleSession
<1>3. row.lockAmount = account.lockAmount /\ row.isDelegate
  BY <1>2, RowOfDelegate
<1>4. PeopleOK(w)
  <2>1. Proceeds(v, w)
    BY <1>0, RegisterDelegateProceeds
  <2> QED BY <2>1 DEF Proceeds
<1>5. w.votes = v.votes
  <2>1. Touches(v, w, {"account", "delegate"})
    BY <1>0, DelegateTouches
  <2> QED BY <2>1 DEF Touches, Fields
<1>6. IsTables(marked)
  BY <1>0, KeepsUpdate, KeptTables
<1>7. name \notin DOMAIN v.delegate
  <2>1. SUFFICES ASSUME name \in DOMAIN v.delegate PROVE FALSE
    OBVIOUS
  <2> DEFINE b == v.delegate[name].address
  <2>2. b \in DOMAIN v.account /\ v.account[b].username = name /\ v.account[b].isDelegate
    BY <1>0, <2>1 DEF PeopleOK, DelegatesOK, Owns
  <2>3. v.account[a].username = name
    BY <1>2
  <2> HIDE DEF b, name
  <2>4. b = a
    BY <1>0, <1>1, <2>2, <2>3 DEF PeopleOK, AccountsOK
  <2> QED BY <1>1, <1>2, <2>2, <2>4
<1> HIDE DEF v, a, account, name, row
<1>8. w.account = [v.account EXCEPT ![a] = row] /\ w.delegate = With(v.delegate, name, NewDelegate(a))
  <2>1. marked.account = [v.account EXCEPT ![a] = row] /\ marked.delegate = v.delegate
    BY <1>0, UpdateAccountParts
  <2> HIDE DEF marked
  <2> QED BY <1>1, <1>6, <2>1 DEF IsTables, Fields
<1> HIDE DEF marked
<1>9. /\ DOMAIN w.account = DOMAIN v.account /\ w.account[a] = row
      /\ \A b \in DOMAIN v.account \ {a} : w.account[b] = v.account[b]
  BY <1>0, <1>8, RowPut
<1>10. LocksKept(v.account, w.account)
  BY <1>2, <1>3, <1>9 DEF LocksKept
<1>11. /\ DOMAIN w.delegate = DOMAIN v.delegate \cup {name} /\ w.delegate[name].votes = 0
       /\ \A d \in DOMAIN v.delegate : w.delegate[d] = v.delegate[d]
  BY <1>7, <1>8 DEF With, NewDelegate
<1>12. VotesOK(w)
  BY <1>0, <1>5, <1>9, <1>11 DEF Weighed, VotesOK
<1>13. ASSUME NEW d PROVE Voters(w, d) = Voters(v, d)
  BY <1>5 DEF Voters
<1>14. ASSUME NEW d PROVE LockedBehind(w, d) = LockedBehind(v, d)
  <2> DEFINE S == Voters(v, d)
             f == Locked(v)
             g == Locked(w)
  <2>1. IsFiniteSet(S) /\ S \subseteq DOMAIN v.account /\ \A b \in S : f[b] \in Int
    BY <1>0, VotersFinite DEF Weighed
  <2>2. \A b \in S : g[b] = f[b]
    BY <1>10, <2>1 DEF LocksKept, Locked
  <2>3. LockedBehind(w, d) = Sum(g, S) /\ LockedBehind(v, d) = Sum(f, S)
    BY <1>13, LockedIsSum
  <2> HIDE DEF S, f, g
  <2> QED BY <2>1, <2>2, <2>3, SumEqual
<1>15. LockedBehind(v, name) = 0
  <2>1. Voters(v, name) = {}
    BY <1>0, <1>7, VotersFinite DEF Weighed
  <2>2. Sum(Locked(v), {}) = 0
    BY SumEmpty
  <2> QED BY <2>1, <2>2, LockedIsSum
<1>16. Weighed(w, exact)
  <2>1. ASSUME NEW d \in DOMAIN w.delegate
        PROVE  /\ w.delegate[d].votes >= LockedBehind(w, d)
               /\ exact => w.delegate[d].votes = LockedBehind(w, d)
    <3>1. CASE d = name
      BY <1>11, <1>14, <1>15, <3>1
    <3>2. CASE d \in DOMAIN v.delegate
      BY <1>0, <1>11, <1>14, <3>2 DEF Weighed
    <3> QED BY <1>11, <3>1, <3>2
  <2> QED BY <1>12, <2>1 DEF Weighed
<1>17. Remain(v, w)
  BY <1>10, <1>11 DEF Remain, LocksKept
<1>18. \A b \in DOMAIN v.account : w.account[b].lockAmount = v.account[b].lockAmount
  BY <1>10 DEF LocksKept
<1> QED BY <1>5, <1>16, <1>17, <1>18 DEF v

(* Transfers, names and second keys *)
LEMMA PayLocks ==
  ASSUME NEW v, AccountsOK(v.account), IsTables(v), NEW from \in DOMAIN v.account, NEW to, NEW amount,
         NEW w, w = Pay(v, from, to, amount)
  PROVE  LocksKept(v.account, w.account)
<1> DEFINE x == v.account
           paid == IF to \in DOMAIN x
                   THEN Increase(x, {to}, "gny", amount)
                   ELSE With(x, to, NewAccount(amount))
           y == Increase(paid, {from}, "gny", - amount)
<1>1. w.account = y
  BY DEF Pay, IsTables, Fields
<1>2. AccountsKept(x, paid) /\ LocksKept(x, paid)
  <2>1. CASE to \in DOMAIN x
    <3>1. paid = Increase(x, {to}, "gny", amount)
      BY <2>1
    <3> HIDE DEF paid, x
    <3> QED BY <2>1, <3>1, GnyIncreased, GnyLocks DEF x
  <2>2. CASE to \notin DOMAIN x
    <3>1. paid = With(x, to, NewAccount(amount))
      BY <2>2
    <3> HIDE DEF paid, x
    <3> QED BY <2>2, <3>1, AccountOpened, RowLocks DEF x
  <2> QED BY <2>1, <2>2
<1> HIDE DEF x, paid
<1>3. AccountsOK(paid) /\ from \in DOMAIN paid
  BY <1>2, KeptAccountsOK DEF AccountsKept, x
<1>4. LocksKept(paid, y)
  BY <1>3, GnyLocks
<1> HIDE DEF y
<1> QED BY <1>1, <1>2, <1>4, LocksTwice DEF x

LEMMA TransferStakes ==
  ASSUME NEW s, IsTables(s.view), PeopleOK(s.view), NEW t, t.senderId \in DOMAIN s.view.account,
         NEW height, NEW w, w = Transfer(s, t, height), w # Refused
  PROVE  SameStakes(s.view, w)
<1> DEFINE to == CHOOSE a \in Recipients(s.view, t.recipient) : TRUE
           paid == Pay(s.view, t.senderId, to, NumberOf(t.amount))
<1>1. w = [paid EXCEPT !.transfers = @ \cup {t.id}]
  BY DEF Transfer
<1>2. IsTables(paid)
  BY KeepsPay, KeptTables
<1>3. LocksKept(s.view.account, paid.account)
  <2> HIDE DEF to
  <2> QED BY PayLocks DEF PeopleOK
<1> HIDE DEF paid
<1>4. w.account = paid.account
  BY <1>1, <1>2 DEF IsTables, Fields
<1>5. w.votes = s.view.votes /\ w.delegate = s.view.delegate
  <2>1. Touches(s.view, w, {"account", "transfers"})
    BY TransferTouches
  <2> QED BY <2>1 DEF Touches, Fields
<1> QED BY <1>3, <1>4, <1>5 DEF SameStakes, VotesKept

LEMMA NameStakes ==
  ASSUME NEW s, IsTables(s.view), PeopleOK(s.view), NEW t, t.senderId \in DOMAIN s.view.account,
         NEW height, NEW w, w \in {SetUserName(s, t, height), SetSecondPassphrase(s, t, height)}, w # Refused
  PROVE  SameStakes(s.view, w)
<1> DEFINE x == s.view.account
           a == t.senderId
           account == Sender(s, t)
           named == [account EXCEPT !.username = t.username]
           second == [account EXCEPT !.secondPublicKey = TRUE]
<1>1. PICK row \in {named, second} : w = UpdateAccount(s.view, a, row)
  BY DEF SetUserName, SetSecondPassphrase
<1>2. AccountRow(account) /\ account = x[a]
  BY LockAmount DEF Sender
<1>3. row.lockAmount = x[a].lockAmount /\ row.isDelegate = x[a].isDelegate
  <2>1. named.lockAmount = account.lockAmount /\ named.isDelegate = account.isDelegate
    <3> DEFINE name == t.username
    <3> HIDE DEF account, name
    <3> QED BY <1>2, RowNamed
  <2>2. second.lockAmount = account.lockAmount /\ second.isDelegate = account.isDelegate
    <3> HIDE DEF account
    <3> QED BY <1>2, RowSecond
  <2> HIDE DEF named, second
  <2> QED BY <1>2, <2>1, <2>2
<1>4. w.account = [x EXCEPT ![a] = row]
  BY <1>1, UpdateAccountParts
<1>5. LocksKept(x, w.account)
  <2>1. DOMAIN w.account = DOMAIN x /\ w.account[a] = row
        /\ \A b \in DOMAIN x \ {a} : w.account[b] = x[b]
    BY <1>4, RowPut
  <2> HIDE DEF x, a
  <2> QED BY <1>3, <2>1 DEF LocksKept
<1>6. w.votes = s.view.votes /\ w.delegate = s.view.delegate
  <2>1. Touches(s.view, w, {"account"})
    BY AccountTouches
  <2> QED BY <2>1 DEF Touches, Fields
<1> QED BY <1>5, <1>6 DEF SameStakes, VotesKept

-----------------------------------------------------------------------------
(* All contracts: what becomes of the votes of the accounts that are not locked *)
Voted(v, w, exact, locks) ==
  /\ Weighed(w, exact) /\ Remain(v, w)
  /\ \A b : <<"basic.account", b>> \notin locks =>
       /\ VotesOf(w, b) = VotesOf(v, b)
       /\ b \in DOMAIN v.account => w.account[b].lockAmount = v.account[b].lockAmount

LEMMA StakesVoted ==
  ASSUME NEW v, NEW w, NEW a, NEW exact, Stakes(v, w, a, exact)
  PROVE  Voted(v, w, exact, {<<"basic.account", a>>})
BY DEF Stakes, Voted

LEMMA SameVoted ==
  ASSUME NEW exact \in BOOLEAN, NEW v, PeopleOK(v), Weighed(v, exact),
         NEW w, PeopleOK(w), SameStakes(v, w), NEW locks
  PROVE  Voted(v, w, exact, locks)
BY SameWeighed, StakesRemain DEF Voted

LEMMA CallStakes ==
  ASSUME NEW exact \in BOOLEAN, NEW s, StakeSession(s, exact), NEW id \in TrsIds, NEW t, t = Content[id],
         t.senderId \in DOMAIN s.view.account,
         t.type = "unlock" =>
           LET account == s.view.account[t.senderId]
           IN  /\ NumberOf(account.lockAmount) = account.lockAmount
               /\ exact => account.isDelegate,
         NEW height, LockNames(s, t, height) \cap s.locks = {},
         NEW w, w = Call(s, t, height), w # Refused
  PROVE  Voted(s.view, w, exact, LockNames(s, t, height))
<1> DEFINE v == s.view
           locks == LockNames(s, t, height)
           lock == <<"basic.account", t.senderId>>
<1>0. IsTables(v) /\ PeopleOK(v) /\ Weighed(v, exact)
  BY DEF StakeSession, PeopleSession
<1>1. PeopleOK(w)
  <2>1. Proceeds(v, w)
    BY <1>0, CallProceeds
  <2> QED BY <2>1 DEF Proceeds
<1>2. ASSUME SameStakes(v, w) PROVE Voted(v, w, exact, locks)
  <2> HIDE DEF locks
  <2> QED BY <1>0, <1>1, <1>2, SameVoted
<1>3. ASSUME NEW F, Touches(v, w, F), "account" \notin F, "delegate" \notin F, "votes" \notin F
      PROVE  Voted(v, w, exact, locks)
  <2>1. w.account = v.account /\ w.delegate = v.delegate /\ w.votes = v.votes
    BY <1>3 DEF Touches, Fields
  <2>2. SameStakes(v, w)
    BY <2>1, StakesSelf
  <2> QED BY <1>2, <2>2
<1>4. ASSUME t.type \in {"lock", "unlock", "vote", "unvote"}
      PROVE  locks = {lock} /\ lock \notin s.locks
  BY <1>4 DEF LockNames
<1>5. ASSUME t.type \in {"lock", "unlock", "vote", "unvote"}, Stakes(v, w, t.senderId, exact)
      PROVE  Voted(v, w, exact, locks)
  <2>1. locks = {lock}
    BY <1>4, <1>5
  <2>2. Voted(v, w, exact, {lock})
    BY <1>5, StakesVoted
  <2> QED BY <2>1, <2>2
<1>6. CASE t.type = "transfer"
  <2>1. w = Transfer(s, t, height)
    BY <1>6 DEF Call
  <2> QED BY <1>0, <1>2, <2>1, TransferStakes
<1>7. CASE t.type \in {"setUserName", "setSecondPassphrase"}
  <2>1. w \in {SetUserName(s, t, height), SetSecondPassphrase(s, t, height)}
    BY <1>7 DEF Call
  <2> QED BY <1>0, <1>2, <2>1, NameStakes
<1>8. CASE t.type = "lock"
  <2>1. w = Lock(s, t, height) /\ lock \notin s.locks
    BY <1>4, <1>8 DEF Call
  <2>2. t.amount \in Nat
    BY <1>8, ContractsAssumption
  <2>3. Stakes(v, w, t.senderId, exact)
    BY <2>1, <2>2, LockStakes
  <2> QED BY <1>5, <1>8, <2>3
<1>9. CASE t.type = "unlock"
  <2>1. w = Unlock(s, t, height) /\ lock \notin s.locks
    BY <1>4, <1>9 DEF Call
  <2>2. Stakes(v, w, t.senderId, exact)
    BY <1>9, <2>1, UnlockStakes
  <2> QED BY <1>5, <1>9, <2>2
<1>10. CASE t.type = "vote"
  <2>1. w = Vote(s, t, height) /\ lock \notin s.locks
    BY <1>4, <1>10 DEF Call
  <2>2. Stakes(v, w, t.senderId, exact)
    BY <2>1, VoteStakes
  <2> QED BY <1>5, <1>10, <2>2
<1>11. CASE t.type = "unvote"
  <2>1. w = Unvote(s, t, height) /\ lock \notin s.locks
    BY <1>4, <1>11 DEF Call
  <2>2. Stakes(v, w, t.senderId, exact)
    BY <2>1, UnvoteStakes
  <2> QED BY <1>5, <1>11, <2>2
<1>12. CASE t.type = "registerDelegate"
  <2>1. w = RegisterDelegate(s, t, height)
    BY <1>12 DEF Call
  <2>2. /\ Weighed(w, exact) /\ Remain(v, w) /\ w.votes = v.votes
        /\ \A b \in DOMAIN v.account : w.account[b].lockAmount = v.account[b].lockAmount
    BY <2>1, RegisterStakes
  <2> QED BY <2>2 DEF Voted, VotesOf
<1>13. CASE t.type \in {"registerIssuer", "registerAsset", "uploadData", "getPredictionCategory"}
  <2>1. w \in {RegisterIssuer(s, t, height), RegisterAsset(s, t, height),
               UploadData(s, t, height), GetPredictionCategory(s, t, height)}
    BY <1>13 DEF Call
  <2>2. \E f \in {"issuer", "asset", "mldata", "prediction"} : Touches(v, w, {f})
    BY <1>0, <2>1, OtherTouches
  <2> QED BY <1>3, <2>2
<1>14. CASE t.type = "issue"
  <2>1. w = Issue(s, t, height)
    BY <1>14 DEF Call
  <2>2. Touches(v, w, {"asset", "balance"})
    BY <1>0, <2>1, IssueTouches
  <2> QED BY <1>3, <2>2
<1>15. CASE t.type = "transferAsset"
  <2>1. w = TransferAsset(s, t, height)
    BY <1>15 DEF Call
  <2>2. Touches(v, w, {"balance", "transfers"})
    BY <1>0, <2>1, TransferAssetTouches
  <2> QED BY <1>3, <2>2
<1>16. CASE t.type \notin {"transfer", "setUserName", "setSecondPassphrase", "lock", "unlock",
                           "registerDelegate", "vote", "unvote", "registerIssuer", "registerAsset",
                           "issue", "transferAsset", "uploadData", "getPredictionCategory"}
  BY <1>16 DEF Call
<1> QED BY ONLY <1>6, <1>7, <1>8, <1>9, <1>10, <1>11, <1>12, <1>13, <1>14, <1>15, <1>16

-----------------------------------------------------------------------------
(* A transaction that is applied *)

(* Only the rows of accounts change, and nothing that votes are about *)
LEMMA AccountsStake ==
  ASSUME NEW exact \in BOOLEAN, NEW s, StakeSession(s, exact), NEW rows, LocksKept(s.view.account, rows),
         NEW r, Advances(s, r), r = [s EXCEPT !.view = [s.view EXCEPT !.account = rows]]
  PROVE  StakeSession(r, exact) /\ r.table = s.table /\ r.locks = s.locks
<1>1. /\ r.view = [s.view EXCEPT !.account = rows] /\ r.table = s.table /\ r.locks = s.locks
      /\ PeopleSession(r) /\ PeopleOK(r.view)
  BY DEF StakeSession, PeopleSession, Formed, Advances
<1>2. r.view.account = rows /\ r.view.delegate = s.view.delegate /\ r.view.votes = s.view.votes
  BY <1>1 DEF StakeSession, PeopleSession, IsTables, Fields
<1>3. SameStakes(s.view, r.view)
  BY <1>2 DEF SameStakes, VotesKept
<1>4. Weighed(r.view, exact)
  BY <1>1, <1>3, SameWeighed DEF StakeSession, PeopleSession
<1>5. /\ Remain(s.view, r.view) /\ \A b : VotesOf(r.view, b) = VotesOf(s.view, b)
      /\ \A b \in DOMAIN s.view.account : r.view.account[b].lockAmount = s.view.account[b].lockAmount
  BY <1>3, StakesRemain
<1>6. InStakes(r)
  <2>1. Remain(r.table, r.view)
    BY <1>1, <1>5, RemainTwice DEF StakeSession, InStakes
  <2>2. InStakes(s) /\ DOMAIN s.table.account \subseteq DOMAIN s.view.account
    BY DEF StakeSession, InStakes, Remain
  <2>3. ASSUME NEW b, <<"basic.account", b>> \notin r.locks
        PROVE  /\ VotesOf(r.view, b) = VotesOf(r.table, b)
               /\ b \in DOMAIN r.table.account =>
                    r.view.account[b].lockAmount = r.table.account[b].lockAmount
    BY <1>1, <1>5, <2>2, <2>3 DEF InStakes
  <2> QED BY <2>1, <2>3 DEF InStakes
<1> QED BY <1>1, <1>4, <1>6 DEF StakeSession

LEMMA ChargedStakes ==
  ASSUME NEW exact \in BOOLEAN, NEW s, StakeSession(s, exact), NEW t, t.senderId \in DOMAIN s.view.account,
         t.fee \in Nat, NEW height, NEW r, r = Charged(s, t, height)
  PROVE  StakeSession(r, exact) /\ r.table = s.table /\ r.locks = s.locks
<1>1. CASE height = 0
  BY <1>1 DEF Charged
<1>2. CASE height # 0
  <2> DEFINE x == s.view.account
             a == t.senderId
             gny == x[a].gny - t.fee
             row == [x[a] EXCEPT !.gny = gny]
             rows == [x EXCEPT ![a] = row]
  <2>1. r = [s EXCEPT !.view = [s.view EXCEPT !.account = rows]]
    BY <1>2 DEF Charged
  <2>2. a \in DOMAIN x /\ AccountRow(x[a])
    BY DEF StakeSession, PeopleSession, PeopleOK, AccountsOK
  <2> HIDE DEF x, gny, a
  <2>3. row.isDelegate = x[a].isDelegate /\ row.lockAmount = x[a].lockAmount
    BY <2>2 DEF AccountRow
  <2> HIDE DEF row
  <2>4. rows = With(x, a, row)
    BY <2>2, ExceptIsWith
  <2> HIDE DEF rows
  <2>5. LocksKept(x, rows)
    BY <2>3, <2>4, RowLocks
  <2>6. Advances(s, r)
    BY ChargedAdvances DEF StakeSession
  <2> QED BY <2>1, <2>5, <2>6, AccountsStake DEF x
<1> QED BY <1>1, <1>2

LEMMA WithSenderStakes ==
  ASSUME NEW exact \in BOOLEAN, NEW s, StakeSession(s, exact), NEW t, NEW r, r = WithSender(s, t)
  PROVE  StakeSession(r, exact) /\ r.table = s.table /\ r.locks = s.locks
<1>1. CASE t.senderId \in DOMAIN s.view.account
  BY <1>1 DEF WithSender
<1>2. CASE t.senderId \notin DOMAIN s.view.account
  <2> DEFINE x == s.view.account
             rows == With(x, t.senderId, NewAccount(0))
  <2>1. r = [s EXCEPT !.view = [s.view EXCEPT !.account = rows]]
    BY <1>2 DEF WithSender
  <2> HIDE DEF x
  <2>2. LocksKept(x, rows)
    BY <1>2, RowLocks DEF x
  <2> HIDE DEF rows
  <2>3. Advances(s, r)
    BY WithSenderAdvances DEF StakeSession
  <2> QED BY <2>1, <2>2, <2>3, AccountsStake DEF x
<1> QED BY <1>1, <1>2

(* What unlocks is an amount that Number keeps; for votes to be exact, of a delegate *)
UnlockFits(table, t, exact) ==
  t.type = "unlock" =>
    /\ t.senderId \in DOMAIN table.account
    /\ LET account == table.account[t.senderId]
       IN  /\ NumberOf(account.lockAmount) = account.lockAmount
           /\ exact => account.isDelegate

LEMMA ApplyStakes ==
  ASSUME NEW exact \in BOOLEAN, NEW s, StakeSession(s, exact), NEW id \in TrsIds, NEW t, t = Content[id],
         t.senderId \in DOMAIN s.view.account, UnlockFits(s.table, t, exact),
         NEW height, NEW r, r = Apply(s, t, height), r # Refused
  PROVE  StakeSession(r, exact) /\ r.table = s.table
<1> DEFINE charged == Charged(s, t, height)
           names   == LockNames(charged, t, height)
           result  == Call(charged, t, height)
<1>1. result # Refused /\ r = [s EXCEPT !.view = result, !.locks = @ \cup names] /\ names \cap s.locks = {}
  BY DEF Apply
<1>2. StakeSession(charged, exact) /\ charged.table = s.table /\ charged.locks = s.locks
  BY ContractsAssumption, ChargedStakes
<1>3. PeopleSession(r)
  BY ApplyAdvances DEF StakeSession, Advances
<1>4. t.senderId \in DOMAIN charged.view.account
  BY ContractsAssumption, ChargedAdvances DEF StakeSession, Advances, Proceeds
<1> HIDE DEF charged
<1>5. t.type = "unlock" =>
        LET account == charged.view.account[t.senderId]
        IN  /\ NumberOf(account.lockAmount) = account.lockAmount
            /\ exact => account.isDelegate
  <2> DEFINE a == t.senderId
             x == s.table.account
             y == charged.view.account
  <2>1. SUFFICES ASSUME t.type = "unlock"
                 PROVE  NumberOf(y[a].lockAmount) = y[a].lockAmount /\ (exact => y[a].isDelegate)
    OBVIOUS
  <2>2. a \in DOMAIN x /\ NumberOf(x[a].lockAmount) = x[a].lockAmount /\ (exact => x[a].isDelegate)
    BY <2>1 DEF UnlockFits
  <2>3. <<"basic.account", a>> \notin charged.locks
    BY <1>1, <1>2, <2>1 DEF LockNames
  <2>4. y[a].lockAmount = x[a].lockAmount /\ (x[a].isDelegate => y[a].isDelegate)
    BY <1>2, <2>2, <2>3 DEF StakeSession, InStakes, Remain
  <2> HIDE DEF x, y, a
  <2> QED BY <2>2, <2>4
<1>6. Voted(charged.view, result, exact, names)
  BY <1>1, <1>2, <1>4, <1>5, CallStakes
<1> HIDE DEF names, result
<1>7. r.view = result /\ r.table = s.table /\ r.locks = s.locks \cup names
  BY <1>1 DEF StakeSession, PeopleSession, Formed
<1>8. InStakes(r)
  <2>1. Remain(r.table, r.view)
    BY <1>2, <1>6, <1>7, RemainTwice DEF Voted, StakeSession, InStakes
  <2>2. ASSUME NEW b, <<"basic.account", b>> \notin r.locks
        PROVE  /\ VotesOf(r.view, b) = VotesOf(r.table, b)
               /\ b \in DOMAIN r.table.account =>
                    r.view.account[b].lockAmount = r.table.account[b].lockAmount
    <3>1. InStakes(charged) /\ DOMAIN r.table.account \subseteq DOMAIN charged.view.account
      BY <1>2, <1>7 DEF StakeSession, InStakes, Remain
    <3> QED BY <1>2, <1>6, <1>7, <2>2, <3>1 DEF Voted, InStakes
  <2> QED BY <2>1, <2>2 DEF InStakes
<1> QED BY <1>3, <1>6, <1>7, <1>8 DEF StakeSession, Voted

LEMMA ApplyUnconfirmedStakes ==
  ASSUME NEW exact \in BOOLEAN, NEW s, StakeSession(s, exact), NEW id \in TrsIds,
         UnlockFits(s.table, Content[id], exact), NEW h, NEW r, r = ApplyUnconfirmed(s, id, h), r.ok
  PROVE  StakeSession(r.session, exact) /\ r.session.table = s.table
<1> DEFINE t == Content[id]
           ready == WithSender(s, t)
<1>1. r.session # Refused /\ r.session = Apply(ready, t, h + 1)
  BY DEF ApplyUnconfirmed
<1>2. StakeSession(ready, exact) /\ ready.table = s.table
  BY WithSenderStakes
<1>3. t.senderId \in DOMAIN ready.view.account
  BY WithSenderAdvances DEF StakeSession
<1> HIDE DEF ready, t
<1> QED BY <1>1, <1>2, <1>3, ApplyStakes DEF t

LEMMA ApplyBlockStakes ==
  ASSUME NEW exact \in BOOLEAN, NEW s, StakeSession(s, exact), NEW trs \in Seq(TrsIds),
         \A id \in ToSet(trs) : UnlockFits(s.table, Content[id], exact),
         NEW h, NEW r, r = ApplyBlock(s, trs, h), r.ok
  PROVE  StakeSession(r.session, exact)
<1> DEFINE n == Len(trs)
           Good(d) == d.ok => StakeSession(d.session, exact) /\ d.session.table = s.table
<1>1. n \in Nat /\ DOMAIN trs = 1 .. n /\ \A i \in 1 .. n : trs[i] \in TrsIds
  OBVIOUS
<1>2. PICK done : AppliedUpTo(done, s, trs, h, n) /\ ApplyBlock(s, trs, h) = done[n]
  BY <1>1, ApplyBlockRun
<1> DEFINE T == {i \in Nat : i <= n => Good(done[i])}
<1>3. 0 \in T
  <2>1. done[0] = Fresh(s)
    BY <1>1, <1>2, AppliedStep
  <2> QED BY <2>1 DEF Fresh
<1>4. ASSUME NEW i \in Nat, i \in T PROVE i + 1 \in T
  <2>1. SUFFICES ASSUME i + 1 <= n, done[i + 1].ok
                 PROVE  StakeSession(done[i + 1].session, exact) /\ done[i + 1].session.table = s.table
    OBVIOUS
  <2>2. done[i + 1] = ApplyNext(done[(i + 1) - 1], trs[i + 1], h) /\ (i + 1) - 1 = i
    BY <1>1, <1>2, <2>1, AppliedStep
  <2> DEFINE d == done[i]
             id == trs[i + 1]
             u == ApplyUnconfirmed(d.session, id, h)
  <2>3. Good(d) /\ id \in TrsIds /\ id \in ToSet(trs)
    BY <1>1, <1>4, <2>1 DEF ToSet
  <2>4. d.ok /\ done[i + 1] = u /\ u.ok
    BY <2>1, <2>2 DEF ApplyNext
  <2>5. StakeSession(d.session, exact) /\ d.session.table = s.table
    BY <2>3, <2>4
  <2> HIDE DEF d, id
  <2>6. UnlockFits(d.session.table, Content[id], exact)
    BY <2>3, <2>5
  <2>7. StakeSession(u.session, exact) /\ u.session.table = d.session.table
    BY <2>3, <2>4, <2>5, <2>6, ApplyUnconfirmedStakes
  <2> QED BY <2>4, <2>5, <2>7
<1> HIDE DEF T
<1>5. Nat \subseteq T
  BY <1>3, <1>4, SetInduction
<1>6. Good(done[n])
  BY <1>1, <1>5 DEF T
<1>7. r = done[n]
  BY <1>2
<1> QED BY <1>6, <1>7

-----------------------------------------------------------------------------
(* Committing a block *)

LEMMA UpdateDelegateStakes ==
  ASSUME NEW v, IsTables(v), PeopleOK(v), NEW d \in DOMAIN v.delegate, NEW fee, NEW reward,
         NEW w, w = UpdateDelegate(v, d, fee, reward)
  PROVE  SameStakes(v, w)
<1> DEFINE D == v.delegate
           first == Increase(D, {d}, "fees", fee)
           earned == Increase(first, {d}, "rewards", reward)
           a == D[d].address
           rows == Increase(v.account, {a}, "gny", fee + reward)
<1>1. \A e \in DOMAIN D : DelegateRow(D[e])
  BY DEF PeopleOK, DelegatesOK
<1>2. a \in DOMAIN v.account /\ AccountsOK(v.account)
  BY DEF PeopleOK, DelegatesOK, Owns
<1>3. VotesKept(D, first) /\ DelegatesKept(D, first)
  <2> HIDE DEF D
  <2> QED BY <1>1, RowsOfDelegates, IncreaseDelegates
<1>4. VotesKept(first, earned)
  <2> HIDE DEF first
  <2>1. \A e \in DOMAIN first : DelegateRow(first[e])
    BY <1>3 DEF DelegatesKept
  <2> QED BY <2>1, RowsOfDelegates
<1>5. LocksKept(v.account, rows)
  <2> HIDE DEF a
  <2> QED BY <1>2, GnyLocks
<1>6. w = [v EXCEPT !.delegate = earned, !.account = rows]
  BY DEF UpdateDelegate, IsTables, Fields
<1> HIDE DEF D, first, earned, rows
<1>7. w.delegate = earned /\ w.account = rows /\ w.votes = v.votes
  BY <1>6 DEF IsTables, Fields
<1> QED BY <1>3, <1>4, <1>5, <1>7, VotesTwice DEF SameStakes, D

LEMMA PayForgersStakes ==
  ASSUME NEW v, IsTables(v), PeopleOK(v), NEW forged, DOMAIN forged = 1 .. RoundLength,
         \A i \in 1 .. RoundLength : forged[i] \in DOMAIN v.delegate, NEW fee, NEW reward,
         NEW w, w = PayForgers(v, forged, fee, reward)
  PROVE  SameStakes(v, w)
<1>1. RoundLength \in Nat
  BY RoundsAssumption
<1>2. PICK paid : PaidUpTo(paid, v, forged, fee, reward, RoundLength) /\ w = paid[RoundLength]
  BY <1>1, PayForgersRun
<1> DEFINE Good(u) == Pays(v, u) /\ SameStakes(v, u)
           T == {i \in Nat : i <= RoundLength => Good(paid[i])}
<1>3. 0 \in T
  <2>1. paid[0] = v
    BY <1>1, <1>2, PaidStep
  <2> QED BY <2>1, PaysNothing, StakesSelf
<1>4. ASSUME NEW i \in Nat, i \in T PROVE i + 1 \in T
  <2>1. SUFFICES ASSUME i + 1 <= RoundLength PROVE Good(paid[i + 1])
    OBVIOUS
  <2> DEFINE u == paid[i]
             x == paid[i + 1]
             d == forged[i + 1]
  <2>2. x = UpdateDelegate(u, d, fee, reward)
    <3>1. paid[i + 1] = UpdateDelegate(paid[(i + 1) - 1], forged[i + 1], fee, reward) /\ (i + 1) - 1 = i
      BY <1>1, <1>2, <2>1, PaidStep
    <3> QED BY <3>1
  <2>3. Good(u) /\ d \in DOMAIN v.delegate
    BY <1>1, <1>4, <2>1
  <2> HIDE DEF u, x, d
  <2>4. IsTables(u) /\ PeopleOK(u) /\ d \in DOMAIN u.delegate
    BY <2>3 DEF Pays, DelegatesKept
  <2>5. Pays(u, x) /\ SameStakes(u, x)
    BY <2>2, <2>4, UpdateDelegatePays, UpdateDelegateStakes
  <2>6. Good(x)
    BY <2>3, <2>5, PaysTwice, StakesTwice
  <2> QED BY <2>6 DEF x
<1> HIDE DEF T
<1>5. Nat \subseteq T
  BY <1>3, <1>4, SetInduction
<1> QED BY <1>1, <1>2, <1>5 DEF T

LEMMA PayRoundStakes ==
  ASSUME NEW v, IsTables(v), PeopleOK(v), NEW forged, DOMAIN forged = 1 .. RoundLength,
         \A i \in 1 .. RoundLength : forged[i] \in DOMAIN v.delegate,
         NEW delegate \in DOMAIN v.delegate, NEW data,
         NEW w, w = PayRound(v, forged, delegate, data)
  PROVE  SameStakes(v, w)
<1> DEFINE n == Len(v.bookkeeper)
           f == data.fee \div n
           r == data.reward \div n
           paid == PayForgers(v, forged, f, r)
           a == f * n - data.fee
           b == r * n - data.reward
<1>1. w = UpdateDelegate(paid, delegate, a, b)
  BY DEF PayRound
<1>2. Pays(v, paid) /\ SameStakes(v, paid)
  <2> HIDE DEF f, r
  <2> QED BY PayForgersPays, PayForgersStakes
<1> HIDE DEF paid, a, b
<1>3. SameStakes(paid, w)
  BY <1>1, <1>2, UpdateDelegateStakes DEF Pays, DelegatesKept
<1> QED BY <1>2, <1>3, StakesTwice

(* Counting a block, and the blocks that are missed *)
LEMMA DelegatesStakes ==
  ASSUME NEW v, IsTables(v), PeopleOK(v), NEW names, NEW amount,
         NEW property \in {"producedBlocks", "missedBlocks"},
         NEW w, w = [v EXCEPT !.delegate = Increase(@, names, property, amount)]
  PROVE  SameStakes(v, w) /\ IsTables(w)
<1> DEFINE D == v.delegate
           E == Increase(D, names, property, amount)
<1>1. VotesKept(D, E)
  <2>1. \A d \in DOMAIN D : DelegateRow(D[d])
    BY DEF PeopleOK, DelegatesOK
  <2> HIDE DEF D
  <2> QED BY <2>1, RowsOfDelegates
<1>2. w = [v EXCEPT !.delegate = E]
  OBVIOUS
<1> HIDE DEF E
<1>3. IsTables(w) /\ w.delegate = E /\ w.account = v.account /\ w.votes = v.votes
  BY <1>2 DEF IsTables, Fields
<1> QED BY <1>1, <1>3, LocksSelf DEF SameStakes

LEMMA OthersStakes ==
  ASSUME NEW v, IsTables(v), NEW w,
         \/ \E trs : w = SaveBlockTransactions(v, trs)
         \/ \E number, fee, reward : w = IncreaseRoundData(v, number, fee, reward)
         \/ w = UpdateBookkeeper(v)
  PROVE  SameStakes(v, w)
<1>1. \/ \E rows : w = [v EXCEPT !.transactions = rows]
      \/ \E rows : w = [v EXCEPT !.round = rows]
      \/ \E rows : w = [v EXCEPT !.bookkeeper = rows]
  BY DEF SaveBlockTransactions, IncreaseRoundData, UpdateBookkeeper
<1>2. w.account = v.account /\ w.delegate = v.delegate /\ w.votes = v.votes
  BY <1>1 DEF IsTables, Fields
<1> QED BY <1>2, StakesSelf

LEMMA CountedStakes ==
  ASSUME NEW v, IsTables(v), PeopleOK(v), NEW d, NEW height, NEW trs,
         NEW produced, produced = [v EXCEPT !.delegate = Increase(@, {d}, "producedBlocks", 1)],
         NEW w, w = IncreaseRoundData(produced, RoundOf(height), GetFeesOfAll(trs), CalculateReward(height))
  PROVE  SameStakes(v, w)
<1>1. SameStakes(v, produced) /\ IsTables(produced)
  BY DelegatesStakes
<1>2. SameStakes(produced, w)
  BY <1>1, OthersStakes
<1> QED BY <1>1, <1>2, StakesTwice

(* A block, once its transactions are applied, leaves stakes and votes as they are *)
LEMMA TablesAfterStakes ==
  ASSUME NEW v, IsTables(v), PeopleOK(v), NEW blocks, NEW height \in Nat, NEW block,
         NEW forged, forged = ForgedDelegates(blocks, height, block.delegate),
         height > 0 /\ EndsRound(height)
           => block.delegate \in DOMAIN v.delegate /\ \A i \in 1 .. RoundLength : forged[i] \in DOMAIN v.delegate,
         NEW w, w = TablesAfter(v, blocks, height, block)
  PROVE  SameStakes(v, w)
<1> DEFINE trs == block.trs
           u == SaveBlockTransactions(v, trs)
           produced == [u EXCEPT !.delegate = Increase(@, {block.delegate}, "producedBlocks", 1)]
           counted == IncreaseRoundData(produced, RoundOf(height), GetFeesOfAll(trs), CalculateReward(height))
           names == ToSet(counted.bookkeeper) \ ToSet(forged)
           missed == MissBlocks(counted, names)
           data == RoundData(missed, RoundOf(height))
           paid == PayRound(missed, forged, block.delegate, data)
<1>1. w \in {counted, UpdateBookkeeper(u)} \/ (height > 0 /\ EndsRound(height) /\ w = UpdateBookkeeper(paid))
  <2>1. CASE height = 0
    BY <2>1 DEF TablesAfter, ApplyRound
  <2>2. CASE height # 0 /\ ~ EndsRound(height)
    BY <2>2 DEF TablesAfter, ApplyRound
  <2>3. CASE height # 0 /\ EndsRound(height)
    BY <2>3 DEF TablesAfter, ApplyRound
  <2> QED BY <2>1, <2>2, <2>3
<1>2. /\ SameStakes(v, u) /\ IsTables(u) /\ PeopleOK(u)
      /\ u.account = v.account /\ u.delegate = v.delegate /\ RoundsSame(v, u)
  <2> HIDE DEF trs
  <2> QED BY Recorded, OthersStakes
<1> HIDE DEF u, trs
<1>3. SameStakes(u, counted) /\ Counts(u, counted, height, trs)
  <2> DEFINE p == produced
             c == counted
  <2>1. p = [u EXCEPT !.delegate = Increase(@, {block.delegate}, "producedBlocks", 1)]
        /\ c = IncreaseRoundData(p, RoundOf(height), GetFeesOfAll(trs), CalculateReward(height))
    OBVIOUS
  <2> HIDE DEF produced, counted
  <2> QED BY <1>2, <2>1, CountedCounts, CountedStakes
<1> HIDE DEF counted
<1>4. SameStakes(v, counted)
  BY <1>2, <1>3, StakesTwice
<1>5. ASSUME height > 0, EndsRound(height), w = UpdateBookkeeper(paid)
      PROVE  SameStakes(v, w)
  <2>1. SameStakes(counted, missed) /\ IsTables(missed)
    <3>1. IsTables(counted) /\ PeopleOK(counted)
      BY <1>3 DEF Counts
    <3>2. missed = [counted EXCEPT !.delegate = Increase(@, names, "missedBlocks", 1)]
      BY DEF MissBlocks
    <3> HIDE DEF missed, names
    <3> QED BY <3>1, <3>2, DelegatesStakes
  <2>2. PeopleOK(missed) /\ DOMAIN missed.delegate = DOMAIN v.delegate
    <3> DEFINE D == counted.delegate
               E == Increase(D, names, "missedBlocks", 1)
    <3>1. /\ IsTables(counted) /\ PeopleOK(counted) /\ DelegatesKept(u.delegate, D)
      BY <1>3 DEF Counts
    <3>2. \A d \in DOMAIN D : DelegateRow(D[d])
      BY <3>1 DEF PeopleOK, DelegatesOK
    <3>3. DelegatesKept(D, E)
      <4> HIDE DEF D, names
      <4> QED BY <3>2, IncreaseMissed
    <3>4. missed = [counted EXCEPT !.delegate = E]
      BY DEF MissBlocks
    <3> HIDE DEF E, missed, names
    <3>5. missed.account = counted.account /\ missed.delegate = E
      BY <3>1, <3>4 DEF IsTables, Fields
    <3>6. PeopleOK(missed)
      BY <3>1, <3>3, <3>5, AccountsSelf, PeopleKept DEF PeopleOK
    <3> QED BY <1>2, <3>1, <3>3, <3>5, <3>6 DEF DelegatesKept
  <2> HIDE DEF missed
  <2>3. DOMAIN forged = 1 .. RoundLength
    BY DEF ForgedDelegates
  <2>4. block.delegate \in DOMAIN missed.delegate
        /\ \A i \in 1 .. RoundLength : forged[i] \in DOMAIN missed.delegate
    BY <1>5, <2>2
  <2> HIDE DEF data
  <2>5. SameStakes(missed, paid) /\ Pays(missed, paid)
    BY ONLY <2>1, <2>2, <2>3, <2>4, PayRoundPays, PayRoundStakes
  <2> HIDE DEF paid
  <2>6. SameStakes(paid, w)
    BY <1>5, <2>5, OthersStakes DEF Pays
  <2> QED BY <1>4, <2>1, <2>5, <2>6, StakesTwice
<1> HIDE DEF paid
<1>6. SameStakes(v, UpdateBookkeeper(u))
  BY <1>2, OthersStakes, StakesTwice
<1> QED BY <1>1, <1>4, <1>5, <1>6

-----------------------------------------------------------------------------
(* Votes are weighed in the tables of every block *)

UnlocksFit(h, exact) ==
  \A id \in ToSet(chain[h].trs) :
    Content[id].type = "unlock" => h > 0 /\ UnlockFits(saved[h - 1], Content[id], exact)

LEMMA OverStakes ==
  ASSUME NEW exact, NEW v, PeopleSession(SessionOver(v)), Weighed(v, exact)
  PROVE  StakeSession(SessionOver(v), exact)
BY OverTables DEF StakeSession, InStakes, Remain

LEMMA NothingWeighed == ASSUME NEW exact PROVE Weighed(NoEntities, exact)
BY NobodyOrdered DEF Weighed, VotesOK, NoEntities

LEMMA GenesisWeighed ==
  ASSUME GenesisValid, NEW exact \in BOOLEAN, NoUnlock(GenesisTrs)
  PROVE  Weighed(GenesisTables, exact)
<1> DEFINE s == SessionOver(NoEntities)
           r == ApplyBlock(s, GenesisTrs, -1)
           v == r.session.view
           w == GenesisTables
           block == GenesisBlock
           forged == ForgedDelegates(NoRows, 0, block.delegate)
<1>1. block.trs = GenesisTrs /\ GenesisTrs \in Seq(TrsIds) /\ 0 - 1 = -1
  BY ExecutionAssumption DEF GenesisBlock, Block
<1>2. r.ok /\ w = TablesAfter(v, NoRows, 0, block)
  BY <1>1 DEF GenesisValid, GenesisTables, Executed
<1>3. StakeSession(s, exact)
  BY NobodyOrdered, NothingWeighed, OverStakes
<1>4. \A id \in ToSet(GenesisTrs) : UnlockFits(s.table, Content[id], exact)
  BY DEF NoUnlock, UnlockFits
<1> HIDE DEF s
<1>5. StakeSession(r.session, exact)
  <2> HIDE DEF r
  <2> QED BY <1>1, <1>2, <1>3, <1>4, ApplyBlockStakes DEF r
<1>6. IsTables(v) /\ PeopleOK(v) /\ Weighed(v, exact)
  BY <1>5 DEF StakeSession, PeopleSession
<1>7. PeopleOK(w)
  BY GenesisOrdered DEF Ordered
<1> HIDE DEF v, w, block
<1>8. SameStakes(v, w)
  <2>1. forged = ForgedDelegates(NoRows, 0, block.delegate) /\ 0 \in Nat /\ ~ (0 > 0)
    OBVIOUS
  <2> HIDE DEF forged
  <2> QED BY <1>2, <1>6, <2>1, TablesAfterStakes
<1> QED BY <1>6, <1>7, <1>8, SameWeighed DEF w

LEMMA BlockWeighed ==
  ASSUME ChainTold, NEW exact \in BOOLEAN, NEW h \in 1 .. Height, UnlocksFit(h, exact),
         Weighed(saved[h - 1], exact)
  PROVE  Weighed(saved[h], exact)
<1> DEFINE u == saved[h - 1]
           s == SessionOver(u)
           trs == chain[h].trs
           r == ApplyBlock(s, trs, h - 1)
           v == AppliedView(h)
           w == saved[h]
           forged == ForgedDelegates(chain, h, chain[h].delegate)
<1>1. h \in Nat /\ h \in 0 .. Height /\ trs \in Seq(TrsIds) /\ h - 1 \in 0 .. Height
  BY DEF ChainTold, ChainTyped
<1>2. Ordered(u) /\ Ordered(w)
  BY BlocksTakeEffect DEF ChainTold
<1>3. r.ok /\ v = r.session.view
  BY DEF ChainTold, ChainReplayed, Applies, AppliedView
<1>4. w = TablesAfter(v, chain, h, chain[h]) /\ IsTables(v) /\ PeopleOK(v) /\ Proceeds(u, v)
  BY <1>2, BlockApplied DEF ChainTold
<1>5. StakeSession(s, exact) /\ s.table = u
  <2>1. PeopleSession(s) /\ s.table = u
    BY <1>2, OverTables DEF Ordered, PeopleSession
  <2> QED BY <2>1, OverStakes
<1>6. \A id \in ToSet(trs) : UnlockFits(s.table, Content[id], exact)
  BY <1>5 DEF UnlocksFit, UnlockFits
<1> HIDE DEF s, trs
<1>7. StakeSession(r.session, exact)
  <2> HIDE DEF r
  <2> QED BY <1>1, <1>3, <1>5, <1>6, ApplyBlockStakes DEF r
<1>8. Weighed(v, exact)
  BY <1>3, <1>7 DEF StakeSession
<1> HIDE DEF r, v
<1>9. EndsRound(h) => chain[h].delegate \in DOMAIN v.delegate
                       /\ \A i \in 1 .. RoundLength : forged[i] \in DOMAIN v.delegate
  <2>1. OrderedUpTo(h - 1)
    BY <1>1, TablesOrdered DEF ChainTold
  <2>2. EndsRound(h) => chain[h].delegate \in DOMAIN u.delegate
                        /\ \A i \in 1 .. RoundLength : forged[i] \in DOMAIN u.delegate
    BY <2>1, ForgersKnown DEF ChainTold, Forged
  <2> QED BY <1>4, <2>2 DEF Proceeds
<1>10. SameStakes(v, w)
  <2> DEFINE block == chain[h]
  <2>1. w = TablesAfter(v, chain, h, block) /\ forged = ForgedDelegates(chain, h, block.delegate)
        /\ (EndsRound(h) => block.delegate \in DOMAIN v.delegate
                            /\ \A i \in 1 .. RoundLength : forged[i] \in DOMAIN v.delegate)
    BY <1>4, <1>9
  <2> HIDE DEF w, block, forged
  <2> QED BY <1>1, <1>4, <2>1, TablesAfterStakes
<1> QED BY <1>2, <1>8, <1>4, <1>10, SameWeighed DEF Ordered

LEMMA AlwaysWeighed ==
  ASSUME ChainTold, NEW exact \in BOOLEAN, \A h \in 0 .. Height : UnlocksFit(h, exact)
  PROVE  Weighed(saved[Height], exact)
<1> DEFINE T == {h \in Nat : h <= Height => Weighed(saved[h], exact)}
<1>0. Height \in Nat /\ saved[0] = GenesisTables /\ chain[0] = GenesisBlock
  BY DEF ChainTold, ChainTyped
<1>1. 0 \in T
  <2>1. 0 \in 0 .. Height /\ chain[0].trs = GenesisTrs
    BY <1>0 DEF GenesisBlock, Block
  <2>2. NoUnlock(GenesisTrs)
    BY <2>1 DEF UnlocksFit, NoUnlock
  <2>3. Weighed(saved[0], exact)
    BY <1>0, <2>2, GenesisWeighed DEF ChainTold
  <2> QED BY <2>3
<1>2. ASSUME NEW i \in Nat, i \in T PROVE i + 1 \in T
  <2>1. SUFFICES ASSUME i + 1 <= Height PROVE Weighed(saved[i + 1], exact)
    OBVIOUS
  <2> DEFINE h == i + 1
  <2>2. h \in 1 .. Height /\ h \in 0 .. Height /\ Weighed(saved[h - 1], exact)
    BY <1>0, <1>2, <2>1
  <2> HIDE DEF h
  <2>3. Weighed(saved[h], exact)
    BY <2>2, BlockWeighed
  <2> QED BY <2>3 DEF h
<1> HIDE DEF T
<1>3. Nat \subseteq T
  BY <1>1, <1>2, SetInduction
<1> QED BY <1>0, <1>3 DEF T

(***************************************************************************)
(* The votes of a delegate never fall short of the coins its voters have   *)
(* locked, and are just these as long as nobody unlocked who was not a     *)
(* delegate: whatever is voted for, locked and registered in one block,    *)
(* where contracts read the votes of the tables and the locks of the       *)
(* session keep an account from doing more than one of it.  It is claimed  *)
(* as long as what was unlocked are amounts that Number keeps, which is    *)
(* what deleteCreatedVotes takes back (ExactUnlocks, in VoteWeights).      *)
(***************************************************************************)
THEOREM VotesAreWeighed ==
  ASSUME NeverBusy, SendersKnown
  PROVE  Spec => []VoteWeights
<1>1. ASSUME TypeInv, ReplayInv, ListedInv PROVE VoteWeights
  <2>1. SUFFICES ASSUME ExactUnlocks
                 PROVE  Weighed(Tables, FALSE) /\ (OnlyDelegatesUnlock => Weighed(Tables, TRUE))
    BY DEF VoteWeights, Weighed
  <2>2. ChainTold /\ DOMAIN chain = 0 .. Height
    BY <1>1 DEF NeverBusy, TypeInv, ReplayInv, ListedInv, ChainTold, ChainTyped
  <2>3. \A h \in 0 .. Height : UnlocksFit(h, FALSE)
    BY <2>1, <2>2 DEF ExactUnlocks, UnlocksFit, UnlockFits
  <2>4. OnlyDelegatesUnlock => \A h \in 0 .. Height : UnlocksFit(h, TRUE)
    BY <2>1, <2>2 DEF ExactUnlocks, OnlyDelegatesUnlock, UnlocksFit, UnlockFits
  <2> QED BY <2>2, <2>3, <2>4, AlwaysWeighed DEF Tables
<1>2. TypeInv /\ OnceInv /\ ReplayInv /\ ListedInv => VoteWeights
  BY <1>1
<1> QED BY <1>2, SpecLists, PTL

===============================================================================
