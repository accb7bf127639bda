---------------------------- MODULE SmartDBProofs -----------------------------
(***************************************************************************)
(* What SmartDB keeps, for any accounts, votes, values and heights.        *)
(*                                                                         *)
(* Everything is said about changes: the pending ones lead from the tables *)
(* to what the contracts see, the rows of BlockHistory lead from empty     *)
(* tables to the present ones (Leads), and a cache that goes with a table  *)
(* (GoesWith) still does after changes that lead there were undone.  So an *)
(* operation is described by the tables it passes through (Held), and by   *)
(* what it does to what is seen of them (StoreStep).                       *)
(*                                                                         *)
(* The theorems have two hypotheses.  HeightsKept is what the heights      *)
(* need, StorageKept what the entities need besides.  Each part of them    *)
(* leaves out something that SmartDB does not survive.                     *)
(***************************************************************************)
EXTENDS SmartDB, SequenceTheorems, FiniteSetTheorems, TLAPS

(* Induction.  The principle is stated for a set of numbers, so that it    *)
(* can be cited for any property; it holds because shifting the numbers of *)
(* the set up to k by one would otherwise map a finite set one to one into *)
(* a smaller one.                                                          *)

LEMMA SetInduction ==
  ASSUME NEW T, 0 \in T, \A n \in Nat : n \in T => n + 1 \in T
  PROVE  Nat \subseteq T
<1>1. SUFFICES ASSUME NEW k \in Nat, k \notin T PROVE FALSE
  OBVIOUS
<1> DEFINE S == (0 .. k) \cap T
           f == [i \in S |-> i + 1]
<1>2. IsFiniteSet(S) /\ 0 \in S
  <2>1. IsFiniteSet(0 .. k)
    BY FS_Interval
  <2>2. S \in SUBSET (0 .. k)
    OBVIOUS
  <2>3. IsFiniteSet(S)
    BY <2>1, <2>2, FS_Subset
  <2> QED BY <2>3
<1>3. IsFiniteSet(S \ {0}) /\ Cardinality(S \ {0}) = Cardinality(S) - 1
  BY <1>2, FS_RemoveElement
<1>4. f \in [S -> S \ {0}]
  BY <1>1
<1>5. Cardinality(S) \in Nat
  BY <1>2, FS_CardinalityType
<1>6. Cardinality(S \ {0}) < Cardinality(S)
  BY <1>3, <1>5
<1>7. \E x, y \in S : x # y /\ f[x] = f[y]
  <2> HIDE DEF S, f
  <2> QED BY <1>2, <1>3, <1>4, <1>6, FS_PigeonHole
<1> QED BY <1>7

(* A fold goes through the sets 1 .. i, taking away the last number *)

LEMMA LastOfInterval ==
  ASSUME NEW n \in Nat, NEW S \in SUBSET (1 .. n + 1), n + 1 \in S
  PROVE  Max(S) = n + 1 /\ S \ {n + 1} \in SUBSET (1 .. n) /\ S # {}
<1>1. \A i \in S : i \in Nat /\ i <= n + 1
  OBVIOUS
<1>2. ASSUME NEW x \in S, \A i \in S : x >= i
      PROVE  x = n + 1
  BY <1>1, <1>2
<1>3. \E x \in S : \A i \in S : x >= i
  BY <1>1
<1>4. Max(S) \in S /\ \A i \in S : Max(S) >= i
  BY <1>3, Zenon DEF Max
<1>5. Max(S) = n + 1
  BY <1>2, <1>4
<1>6. S \ {n + 1} \in SUBSET (1 .. n)
  BY <1>1
<1> QED BY <1>5, <1>6

LEMMA IntervalGrows ==
  ASSUME NEW n \in Nat
  PROVE  1 .. n + 1 # {} /\ Max(1 .. n + 1) = n + 1 /\ (1 .. n + 1) \ {n + 1} = 1 .. n
BY DEF Max

-----------------------------------------------------------------------------
(* What ApplyChanges does, change by change *)

AppliedFold(iter, base, changes, n) ==
  iter = [S \in SUBSET (1 .. n) |->
            IF S = {} THEN base ELSE ApplyChange(iter[S \ {Max(S)}], changes[Max(S)])]

LEMMA AppliedFoldExists ==
  ASSUME NEW base, NEW changes, NEW n \in Nat
  PROVE  \E iter : AppliedFold(iter, base, changes, n)
<1> DEFINE T == {m \in Nat : \E iter : AppliedFold(iter, base, changes, m)}
<1>1. 0 \in T
  <2> DEFINE iter == [S \in SUBSET (1 .. 0) |-> base]
  <2>1. \A S \in SUBSET (1 .. 0) : S = {}
    OBVIOUS
  <2>2. AppliedFold(iter, base, changes, 0)
    BY <2>1 DEF AppliedFold
  <2> QED BY <2>2
<1>2. ASSUME NEW m \in Nat, m \in T PROVE m + 1 \in T
  <2>1. PICK iter : AppliedFold(iter, base, changes, m)
    BY <1>2
  <2> DEFINE more == [S \in SUBSET (1 .. m + 1) |->
                        IF m + 1 \in S THEN ApplyChange(iter[S \ {m + 1}], changes[m + 1]) ELSE iter[S]]
  <2>2. ASSUME NEW S \in SUBSET (1 .. m + 1)
        PROVE  more[S] = IF S = {} THEN base ELSE ApplyChange(more[S \ {Max(S)}], changes[Max(S)])
    <3>1. CASE m + 1 \in S
      <4>1. Max(S) = m + 1 /\ S \ {m + 1} \in SUBSET (1 .. m) /\ S # {}
        BY <3>1, LastOfInterval
      <4>2. m + 1 \notin S \ {m + 1} /\ S \ {m + 1} \in SUBSET (1 .. m + 1)
        OBVIOUS
      <4> QED BY <3>1, <4>1, <4>2
    <3>2. CASE m + 1 \notin S
      <4>1. S \in SUBSET (1 .. m)
        BY <3>2
      <4>2. /\ S \ {Max(S)} \in SUBSET (1 .. m + 1)
            /\ S \ {Max(S)} \in SUBSET (1 .. m)
            /\ m + 1 \notin S \ {Max(S)}
        BY <3>2, <4>1
      <4> QED BY <2>1, <3>2, <4>1, <4>2 DEF AppliedFold
    <3> QED BY <3>1, <3>2
  <2>3. AppliedFold(more, base, changes, m + 1)
    BY <2>2 DEF AppliedFold
  <2> QED BY <2>3
<1> HIDE DEF T
<1>3. Nat \subseteq T
  BY <1>1, <1>2, SetInduction
<1> QED BY <1>3 DEF T

LEMMA ApplyChangesRun ==
  ASSUME NEW tab, NEW changes, NEW n \in Nat, DOMAIN changes = 1 .. n
  PROVE  \E done : /\ done[0] = [table |-> tab, failed |-> FALSE]
                   /\ \A i \in 1 .. n : done[i] = ApplyChange(done[i - 1], changes[i])
                   /\ ApplyChanges(tab, changes) = done[n]
<1> DEFINE base == [table |-> tab, failed |-> FALSE]
<1>1. \E iter : AppliedFold(iter, base, changes, n)
  BY AppliedFoldExists
<1>2. PICK iter : AppliedFold(iter, base, changes, n) /\ ApplyChanges(tab, changes) = iter[1 .. n]
  BY <1>1 DEF ApplyChanges, FoldLeft, MapThenFoldSet, AppliedFold
<1> HIDE DEF base
<1> DEFINE done == [i \in 0 .. n |-> iter[1 .. i]]
<1>3. done[0] = base
  <2>1. 1 .. 0 = {} /\ {} \in SUBSET (1 .. n) /\ 0 \in 0 .. n
    OBVIOUS
  <2> QED BY <1>2, <2>1 DEF AppliedFold
<1>4. ASSUME NEW i \in 1 .. n PROVE done[i] = ApplyChange(done[i - 1], changes[i])
  <2>1. i - 1 \in Nat /\ i - 1 \in 0 .. n /\ i \in 0 .. n /\ (i - 1) + 1 = i /\ 1 .. i \in SUBSET (1 .. n)
    OBVIOUS
  <2>2. 1 .. i # {} /\ Max(1 .. i) = i /\ (1 .. i) \ {i} = 1 .. i - 1
    BY <2>1, IntervalGrows
  <2> QED BY <1>2, <2>1, <2>2 DEF AppliedFold
<1>5. ApplyChanges(tab, changes) = done[n]
  BY <1>2
<1> HIDE DEF done
<1> QED BY <1>3, <1>4, <1>5 DEF base

-----------------------------------------------------------------------------
(* Folds from the right take away the first number of sets n - m + 1 .. n *)

LEMMA FirstOfInterval ==
  ASSUME NEW k \in Int, NEW n \in Int, NEW S \in SUBSET (k .. n), k \in S
  PROVE  Min(S) = k /\ S \ {k} \in SUBSET (k + 1 .. n) /\ S # {}
<1>1. \A i \in S : i \in Int /\ i >= k
  OBVIOUS
<1>2. ASSUME NEW x \in S, \A i \in S : x <= i
      PROVE  x = k
  BY <1>1, <1>2
<1>3. \E x \in S : \A i \in S : x <= i
  BY <1>1
<1>4. Min(S) \in S /\ \A i \in S : Min(S) <= i
  BY <1>3, Zenon DEF Min
<1>5. Min(S) = k
  BY <1>2, <1>4
<1>6. S \ {k} \in SUBSET (k + 1 .. n)
  BY <1>1
<1> QED BY <1>5, <1>6

LEMMA IntervalShrinks ==
  ASSUME NEW k \in Int, NEW n \in Int, k <= n
  PROVE  k .. n # {} /\ Min(k .. n) = k /\ (k .. n) \ {k} = k + 1 .. n
<1>1. k \in k .. n /\ (k .. n) \ {k} = k + 1 .. n
  OBVIOUS
<1> QED BY <1>1, FirstOfInterval

-----------------------------------------------------------------------------
(* What RevertChanges does, change by change, from the last one *)

RevertedFold(iter, base, changes, k, n) ==
  iter = [S \in SUBSET (k .. n) |->
            IF S = {} THEN base ELSE RevertChange(changes[Min(S)], iter[S \ {Min(S)}])]

LEMMA RevertedFoldExists ==
  ASSUME NEW base, NEW changes, NEW n \in Nat
  PROVE  \E iter : RevertedFold(iter, base, changes, 1, n)
<1> DEFINE T == {m \in Nat : \E iter : RevertedFold(iter, base, changes, n - m + 1, n)}
<1>1. 0 \in T
  <2> DEFINE iter == [S \in SUBSET (n - 0 + 1 .. n) |-> base]
  <2>1. \A S \in SUBSET (n - 0 + 1 .. n) : S = {}
    OBVIOUS
  <2>2. RevertedFold(iter, base, changes, n - 0 + 1, n)
    BY <2>1 DEF RevertedFold
  <2> QED BY <2>2
<1>2. ASSUME NEW m \in Nat, m \in T PROVE m + 1 \in T
  <2> DEFINE k == n - m
  <2>0. k \in Int /\ n - m + 1 = k + 1 /\ n - (m + 1) + 1 = k
    OBVIOUS
  <2> HIDE DEF k
  <2>1. PICK iter : RevertedFold(iter, base, changes, k + 1, n)
    BY <1>2, <2>0
  <2> DEFINE more == [S \in SUBSET (k .. n) |->
                        IF k \in S THEN RevertChange(changes[k], iter[S \ {k}]) ELSE iter[S]]
  <2>2. ASSUME NEW S \in SUBSET (k .. n)
        PROVE  more[S] = IF S = {} THEN base ELSE RevertChange(changes[Min(S)], more[S \ {Min(S)}])
    <3>1. CASE k \in S
      <4>0. k \in Int /\ n \in Int
        BY <2>0
      <4>1. Min(S) = k /\ S \ {k} \in SUBSET (k + 1 .. n) /\ S # {}
        BY <3>1, <4>0, FirstOfInterval
      <4>2. k \notin S \ {k} /\ S \ {k} \in SUBSET (k .. n)
        OBVIOUS
      <4> QED BY <3>1, <4>1, <4>2
    <3>2. CASE k \notin S
      <4>1. S \in SUBSET (k + 1 .. n)
        BY <2>0, <3>2
      <4>2. /\ S \ {Min(S)} \in SUBSET (k .. n)
            /\ S \ {Min(S)} \in SUBSET (k + 1 .. n)
            /\ k \notin S \ {Min(S)}
        BY <3>2, <4>1
      <4> QED BY <2>1, <3>2, <4>1, <4>2 DEF RevertedFold
    <3> QED BY <3>1, <3>2
  <2>3. RevertedFold(more, base, changes, k, n)
    BY <2>2 DEF RevertedFold
  <2> QED BY <2>0, <2>3
<1> HIDE DEF T
<1>3. Nat \subseteq T
  BY <1>1, <1>2, SetInduction
<1>4. \E iter : RevertedFold(iter, base, changes, n - n + 1, n)
  BY <1>3 DEF T
<1> QED BY <1>4

LEMMA RevertChangesRun ==
  ASSUME NEW tab, NEW changes, NEW n \in Nat, DOMAIN changes = 1 .. n
  PROVE  \E rest : /\ rest[n] = [table |-> tab, failed |-> FALSE]
                   /\ \A i \in 1 .. n : rest[i - 1] = RevertChange(changes[i], rest[i])
                   /\ RevertChanges(tab, changes) = rest[0]
<1> DEFINE base == [table |-> tab, failed |-> FALSE]
<1>1. \E iter : RevertedFold(iter, base, changes, 1, n)
  BY RevertedFoldExists
<1>2. PICK iter : RevertedFold(iter, base, changes, 1, n) /\ RevertChanges(tab, changes) = iter[1 .. n]
  BY <1>1 DEF RevertChanges, FoldRight, MapThenFoldSet, RevertedFold
<1> HIDE DEF base
<1> DEFINE rest == [i \in 0 .. n |-> iter[i + 1 .. n]]
<1>3. rest[n] = base
  <2>1. n + 1 .. n = {} /\ {} \in SUBSET (1 .. n) /\ n \in 0 .. n
    OBVIOUS
  <2> QED BY <1>2, <2>1 DEF RevertedFold
<1>4. ASSUME NEW i \in 1 .. n PROVE rest[i - 1] = RevertChange(changes[i], rest[i])
  <2>1. i \in Int /\ i - 1 \in 0 .. n /\ i \in 0 .. n /\ (i - 1) + 1 = i /\ i .. n \in SUBSET (1 .. n)
    OBVIOUS
  <2>2. i <= n /\ n \in Int
    OBVIOUS
  <2>3. i .. n # {} /\ Min(i .. n) = i /\ (i .. n) \ {i} = i + 1 .. n
    BY <2>1, <2>2, IntervalShrinks
  <2>4. rest[i - 1] = iter[i .. n] /\ rest[i] = iter[i + 1 .. n]
    <3>1. (i - 1) + 1 .. n = i .. n
      BY <2>1
    <3> QED BY <2>1, <3>1
  <2>5. iter[i .. n] = RevertChange(changes[i], iter[i + 1 .. n])
    BY <1>2, <2>1, <2>3 DEF RevertedFold
  <2> QED BY <2>4, <2>5
<1>5. RevertChanges(tab, changes) = rest[0]
  BY <1>2
<1> HIDE DEF rest
<1> QED BY <1>3, <1>4, <1>5 DEF base

UndoStart(cache, changes) == [cache |-> cache, left |-> Len(changes), throws |-> FALSE]

-----------------------------------------------------------------------------
(* What UndoChanges does, change by change, from the last one *)

UndoneFold(iter, base, changes, k, n) ==
  iter = [S \in SUBSET (k .. n) |->
            IF S = {} THEN base ELSE UndoEntityChange(changes[Min(S)], iter[S \ {Min(S)}])]

LEMMA UndoneFoldExists ==
  ASSUME NEW base, NEW changes, NEW n \in Nat
  PROVE  \E iter : UndoneFold(iter, base, changes, 1, n)
<1> DEFINE T == {m \in Nat : \E iter : UndoneFold(iter, base, changes, n - m + 1, n)}
<1>1. 0 \in T
  <2> DEFINE iter == [S \in SUBSET (n - 0 + 1 .. n) |-> base]
  <2>1. \A S \in SUBSET (n - 0 + 1 .. n) : S = {}
    OBVIOUS
  <2>2. UndoneFold(iter, base, changes, n - 0 + 1, n)
    BY <2>1 DEF UndoneFold
  <2> QED BY <2>2
<1>2. ASSUME NEW m \in Nat, m \in T PROVE m + 1 \in T
  <2> DEFINE k == n - m
  <2>0. k \in Int /\ n - m + 1 = k + 1 /\ n - (m + 1) + 1 = k
    OBVIOUS
  <2> HIDE DEF k
  <2>1. PICK iter : UndoneFold(iter, base, changes, k + 1, n)
    BY <1>2, <2>0
  <2> DEFINE more == [S \in SUBSET (k .. n) |->
                        IF k \in S THEN UndoEntityChange(changes[k], iter[S \ {k}]) ELSE iter[S]]
  <2>2. ASSUME NEW S \in SUBSET (k .. n)
        PROVE  more[S] = IF S = {} THEN base ELSE UndoEntityChange(changes[Min(S)], more[S \ {Min(S)}])
    <3>1. CASE k \in S
      <4>0. k \in Int /\ n \in Int
        BY <2>0
      <4>1. Min(S) = k /\ S \ {k} \in SUBSET (k + 1 .. n) /\ S # {}
        BY <3>1, <4>0, FirstOfInterval
      <4>2. k \notin S \ {k} /\ S \ {k} \in SUBSET (k .. n)
        OBVIOUS
      <4> QED BY <3>1, <4>1, <4>2
    <3>2. CASE k \notin S
      <4>1. S \in SUBSET (k + 1 .. n)
        BY <2>0, <3>2
      <4>2. /\ S \ {Min(S)} \in SUBSET (k .. n)
            /\ S \ {Min(S)} \in SUBSET (k + 1 .. n)
            /\ k \notin S \ {Min(S)}
        BY <3>2, <4>1
      <4> QED BY <2>1, <3>2, <4>1, <4>2 DEF UndoneFold
    <3> QED BY <3>1, <3>2
  <2>3. UndoneFold(more, base, changes, k, n)
    BY <2>2 DEF UndoneFold
  <2> QED BY <2>0, <2>3
<1> HIDE DEF T
<1>3. Nat \subseteq T
  BY <1>1, <1>2, SetInduction
<1>4. \E iter : UndoneFold(iter, base, changes, n - n + 1, n)
  BY <1>3 DEF T
<1> QED BY <1>4

LEMMA UndoChangesRun ==
  ASSUME NEW tab, NEW changes, NEW n \in Nat, DOMAIN changes = 1 .. n
  PROVE  \E rest : /\ rest[n] = UndoStart(tab, changes)
                   /\ \A i \in 1 .. n : rest[i - 1] = UndoEntityChange(changes[i], rest[i])
                   /\ UndoChanges(tab, changes) = rest[0]
<1> DEFINE base == UndoStart(tab, changes)
<1>1. \E iter : UndoneFold(iter, base, changes, 1, n)
  BY UndoneFoldExists
<1>2. PICK iter : UndoneFold(iter, base, changes, 1, n) /\ UndoChanges(tab, changes) = iter[1 .. n]
  BY <1>1 DEF UndoChanges, UndoStart, FoldRight, MapThenFoldSet, UndoneFold
<1> HIDE DEF base
<1> DEFINE rest == [i \in 0 .. n |-> iter[i + 1 .. n]]
<1>3. rest[n] = base
  <2>1. n + 1 .. n = {} /\ {} \in SUBSET (1 .. n) /\ n \in 0 .. n
    OBVIOUS
  <2> QED BY <1>2, <2>1 DEF UndoneFold
<1>4. ASSUME NEW i \in 1 .. n PROVE rest[i - 1] = UndoEntityChange(changes[i], rest[i])
  <2>1. i \in Int /\ i - 1 \in 0 .. n /\ i \in 0 .. n /\ (i - 1) + 1 = i /\ i .. n \in SUBSET (1 .. n)
    OBVIOUS
  <2>2. i <= n /\ n \in Int
    OBVIOUS
  <2>3. i .. n # {} /\ Min(i .. n) = i /\ (i .. n) \ {i} = i + 1 .. n
    BY <2>1, <2>2, IntervalShrinks
  <2>4. rest[i - 1] = iter[i .. n] /\ rest[i] = iter[i + 1 .. n]
    <3>1. (i - 1) + 1 .. n = i .. n
      BY <2>1
    <3> QED BY <2>1, <3>1
  <2>5. iter[i .. n] = UndoEntityChange(changes[i], iter[i + 1 .. n])
    BY <1>2, <2>1, <2>3 DEF UndoneFold
  <2> QED BY <2>4, <2>5
<1>5. UndoChanges(tab, changes) = rest[0]
  BY <1>2
<1> HIDE DEF rest
<1> QED BY <1>3, <1>4, <1>5 DEF base

-----------------------------------------------------------------------------
(***************************************************************************)
(* Changes that lead from a table to another: each one starts from the row *)
(* that the ones before it have left.                                      *)
(***************************************************************************)
Stored == Entities \cup {Absent}

Tables == [Key -> Stored]

Changes ==
  {c \in [key : Key, original : Stored, current : Stored] :
     ChangeOK(c) /\ (c.key \in Accounts => ~ IsDelete(c))}

Made(tab, c) == [tab EXCEPT ![c.key] = c.current]

Trail(S, a, changes, b) ==
  /\ S \in [0 .. Len(changes) -> Tables]
  /\ S[0] = a /\ S[Len(changes)] = b
  /\ \A i \in 1 .. Len(changes) :
       /\ S[i - 1][changes[i].key] = changes[i].original
       /\ S[i] = Made(S[i - 1], changes[i])

Leads(a, changes, b) == changes \in Seq(Changes) /\ \E S : Trail(S, a, changes, b)

LEMMA AbsentStored == Absent \notin Entities /\ Absent \in Stored
BY SmartDBAssumption DEF Stored, Entities

LEMMA ChangeParts ==
  ASSUME NEW c \in Changes
  PROVE  /\ c.key \in Key /\ c.original \in Stored /\ c.current \in Stored
         /\ c.original # c.current
         /\ c.original # Absent => c.original._version_ \in Nat
         /\ c.current # Absent => c.current._version_ \in Nat
         /\ c.key \in Accounts => c.current # Absent
<1>1. c \in [key : Key, original : Stored, current : Stored] /\ ChangeOK(c)
      /\ (c.key \in Accounts => c.current # Absent)
  BY DEF Changes, IsDelete
<1>2. c.key \in Key /\ c.original \in Stored /\ c.current \in Stored
  BY <1>1
<1>3. \A e \in Entities : e._version_ \in Nat
  BY DEF Entities
<1>4. c.original # c.current
  <2>1. CASE c.original = Absent
    BY <1>1, <2>1 DEF ChangeOK, IsNew
  <2>2. CASE c.original # Absent /\ c.current # Absent
    BY <1>1, <2>2 DEF ChangeOK, IsNew, IsDelete
  <2> QED BY <2>1, <2>2
<1> QED BY <1>1, <1>2, <1>3, <1>4 DEF Stored

LEMMA MadeTable ==
  ASSUME NEW tab \in Tables, NEW c \in Changes
  PROVE  /\ Made(tab, c) \in Tables
         /\ \A k \in Key : Made(tab, c)[k] = IF k = c.key THEN c.current ELSE tab[k]
BY ChangeParts DEF Made, Tables

LEMMA LeadsTables ==
  ASSUME NEW a, NEW changes, NEW b, Leads(a, changes, b)
  PROVE  /\ a \in Tables /\ b \in Tables /\ changes \in Seq(Changes)
         /\ Len(changes) \in Nat /\ DOMAIN changes = 1 .. Len(changes)
         /\ \A i \in 1 .. Len(changes) : changes[i] \in Changes
<1>1. PICK S : Trail(S, a, changes, b)
  BY DEF Leads
<1>2. changes \in Seq(Changes) /\ Len(changes) \in Nat
  BY DEF Leads
<1>3. 0 \in 0 .. Len(changes) /\ Len(changes) \in 0 .. Len(changes)
  BY <1>2
<1>4. DOMAIN changes = 1 .. Len(changes) /\ \A i \in 1 .. Len(changes) : changes[i] \in Changes
  BY <1>2
<1> QED BY <1>1, <1>2, <1>3, <1>4 DEF Trail

LEMMA LeadsNowhere ==
  ASSUME NEW a \in Tables
  PROVE  Leads(a, <<>>, a)
<1> DEFINE S == [i \in 0 .. 0 |-> a]
<1>1. S \in [0 .. Len(<<>>) -> Tables] /\ S[0] = a /\ S[Len(<<>>)] = a /\ 1 .. Len(<<>>) = {}
  OBVIOUS
<1>2. Trail(S, a, <<>>, a)
  BY <1>1 DEF Trail
<1> QED BY <1>2 DEF Leads

LEMMA LeadsFurther ==
  ASSUME NEW a, NEW changes, NEW b, Leads(a, changes, b),
         NEW c \in Changes, b[c.key] = c.original
  PROVE  Leads(a, Append(changes, c), Made(b, c))
<1> DEFINE n == Len(changes)
           more == Append(changes, c)
<1>1. changes \in Seq(Changes) /\ n \in Nat /\ b \in Tables
  BY LeadsTables
<1>2. /\ more \in Seq(Changes) /\ Len(more) = n + 1 /\ more[n + 1] = c
      /\ \A i \in 1 .. n : more[i] = changes[i]
  BY <1>1
<1>3. Made(b, c) \in Tables
  BY <1>1, MadeTable
<1>4. PICK S : Trail(S, a, changes, b)
  BY DEF Leads
<1> DEFINE R == [i \in 0 .. n + 1 |-> IF i = n + 1 THEN Made(b, c) ELSE S[i]]
<1>5. S \in [0 .. n -> Tables] /\ S[0] = a /\ S[n] = b
  BY <1>4 DEF Trail
<1>6. R \in [0 .. n + 1 -> Tables] /\ R[0] = a /\ R[n + 1] = Made(b, c) /\ R[n] = b
  BY <1>1, <1>3, <1>5
<1>7. ASSUME NEW i \in 1 .. n + 1
      PROVE  R[i - 1][more[i].key] = more[i].original /\ R[i] = Made(R[i - 1], more[i])
  <2>1. CASE i = n + 1
    <3>1. i - 1 = n
      BY <1>1, <2>1
    <3> QED BY <1>2, <1>6, <2>1, <3>1
  <2>2. CASE i # n + 1
    <3>1. i \in 1 .. n /\ i - 1 \in 0 .. n + 1 /\ i - 1 # n + 1 /\ i \in 0 .. n + 1
      BY <1>1, <2>2
    <3>2. R[i] = S[i] /\ R[i - 1] = S[i - 1]
      BY <2>2, <3>1
    <3> QED BY <1>2, <1>4, <3>1, <3>2 DEF Trail
  <2> QED BY <2>1, <2>2
<1> HIDE DEF n, more, R
<1>8. Trail(R, a, more, Made(b, c))
  BY <1>2, <1>6, <1>7 DEF Trail
<1> QED BY <1>2, <1>8 DEF Leads, more

LEMMA LeadsOn ==
  ASSUME NEW a, NEW ds, NEW b, NEW es, NEW c, Leads(a, ds, b), Leads(b, es, c)
  PROVE  Leads(a, ds \o es, c)
<1> DEFINE n == Len(ds)
           m == Len(es)
           both == ds \o es
<1>1. ds \in Seq(Changes) /\ es \in Seq(Changes) /\ n \in Nat /\ m \in Nat
  BY LeadsTables
<1>2. both \in Seq(Changes) /\ Len(both) = n + m
      /\ \A i \in 1 .. n + m : both[i] = IF i <= n THEN ds[i] ELSE es[i - n]
  BY <1>1, ConcatProperties
<1>3. PICK R : Trail(R, a, ds, b)
  BY DEF Leads
<1>4. PICK S : Trail(S, b, es, c)
  BY DEF Leads
<1> DEFINE U == [i \in 0 .. n + m |-> IF i <= n THEN R[i] ELSE S[i - n]]
<1>5. R \in [0 .. n -> Tables] /\ R[0] = a /\ R[n] = b
  BY <1>3 DEF Trail
<1>6. S \in [0 .. m -> Tables] /\ S[0] = b /\ S[m] = c
  BY <1>4 DEF Trail
<1>7. U \in [0 .. n + m -> Tables]
  <2>1. ASSUME NEW i \in 0 .. n + m PROVE (IF i <= n THEN R[i] ELSE S[i - n]) \in Tables
    <3>1. CASE i <= n
      BY <1>1, <1>5, <3>1
    <3>2. CASE ~ (i <= n)
      <4>1. i - n \in 0 .. m
        BY <1>1, <3>2
      <4> QED BY <1>6, <3>2, <4>1
    <3> QED BY <3>1, <3>2
  <2> QED BY <2>1
<1>8. U[0] = a /\ U[n + m] = c
  <2>1. 0 \in 0 .. n + m /\ n + m \in 0 .. n + m /\ 0 <= n /\ (n + m) - n = m
    BY <1>1
  <2>2. U[n + m] = c
    <3>1. CASE m = 0
      <4>1. n + m = n
        BY <1>1, <3>1
      <4> QED BY <1>1, <1>5, <1>6, <2>1, <3>1, <4>1
    <3>2. CASE m # 0
      <4>1. ~ (n + m <= n)
        BY <1>1, <3>2
      <4> QED BY <1>6, <2>1, <4>1
    <3> QED BY <3>1, <3>2
  <2> QED BY <1>5, <2>1, <2>2
<1>9. ASSUME NEW i \in 1 .. n + m
      PROVE  U[i - 1][both[i].key] = both[i].original /\ U[i] = Made(U[i - 1], both[i])
  <2>0. i \in 0 .. n + m /\ i - 1 \in 0 .. n + m
    BY <1>1
  <2>1. CASE i <= n
    <3>1. i \in 1 .. n /\ i - 1 <= n
      BY <1>1, <2>1
    <3>2. U[i] = R[i] /\ U[i - 1] = R[i - 1] /\ both[i] = ds[i]
      BY <1>2, <2>0, <2>1, <3>1
    <3> QED BY <1>3, <3>1, <3>2 DEF Trail
  <2>2. CASE ~ (i <= n)
    <3>1. i - n \in 1 .. m /\ (i - 1) - n = (i - n) - 1
      BY <1>1, <2>2
    <3>2. U[i] = S[i - n] /\ both[i] = es[i - n]
      BY <1>2, <2>0, <2>2
    <3>3. U[i - 1] = S[(i - n) - 1]
      <4>1. CASE i - 1 <= n
        <5>1. i - 1 = n /\ (i - n) - 1 = 0
          BY <1>1, <2>2, <4>1
        <5> QED BY <1>5, <1>6, <2>0, <4>1, <5>1
      <4>2. CASE ~ (i - 1 <= n)
        BY <2>0, <3>1, <4>2
      <4> QED BY <4>1, <4>2
    <3> HIDE DEF U
    <3> QED BY <1>4, <3>1, <3>2, <3>3 DEF Trail
  <2> QED BY <2>1, <2>2
<1> HIDE DEF n, m, both, U
<1>10. Trail(U, a, both, c)
  BY <1>2, <1>7, <1>8, <1>9 DEF Trail
<1> QED BY <1>2, <1>10 DEF Leads, both

(* A row is that of the last change of its key, if there is one *)

Changed(changes) == {changes[i].key : i \in DOMAIN changes}

LEMMA LeadsRow ==
  ASSUME NEW a, NEW changes, NEW b, Leads(a, changes, b), NEW k \in Key
  PROVE  \/ k \notin Changed(changes) /\ b[k] = a[k]
         \/ \E i \in 1 .. Len(changes) :
              /\ changes[i].key = k /\ b[k] = changes[i].current
              /\ \A j \in i + 1 .. Len(changes) : changes[j].key # k
<1> DEFINE n == Len(changes)
<1>0. /\ changes \in Seq(Changes) /\ n \in Nat /\ DOMAIN changes = 1 .. n
      /\ \A i \in 1 .. n : changes[i] \in Changes
  BY LeadsTables
<1>1. PICK S : Trail(S, a, changes, b)
  BY DEF Leads
<1>2. S \in [0 .. n -> Tables] /\ S[0] = a /\ S[n] = b
  BY <1>1 DEF Trail
<1> DEFINE Told(m) == \/ (\A i \in 1 .. m : changes[i].key # k) /\ S[m][k] = a[k]
                      \/ \E i \in 1 .. m : /\ changes[i].key = k /\ S[m][k] = changes[i].current
                                           /\ \A j \in i + 1 .. m : changes[j].key # k
           T == {m \in Nat : m <= n => Told(m)}
<1>3. 0 \in T
  BY <1>2
<1>4. ASSUME NEW m \in Nat, m \in T PROVE m + 1 \in T
  <2>1. SUFFICES ASSUME m + 1 <= n PROVE Told(m + 1)
    OBVIOUS
  <2>2. Told(m) /\ m + 1 \in 1 .. n /\ m \in 0 .. n /\ (m + 1) - 1 = m
    BY <1>0, <1>4, <2>1
  <2>3. S[m + 1] = Made(S[m], changes[m + 1])
    BY <1>1, <2>2 DEF Trail
  <2>4. S[m + 1][k] = IF k = changes[m + 1].key THEN changes[m + 1].current ELSE S[m][k]
    <3>1. S[m] \in Tables /\ changes[m + 1] \in Changes
      BY <1>0, <1>2, <2>2
    <3> QED BY <2>3, <3>1, MadeTable
  <2>5. CASE changes[m + 1].key = k
    <3>1. m + 1 \in 1 .. m + 1 /\ (m + 1) + 1 .. m + 1 = {}
      OBVIOUS
    <3> QED BY <2>4, <2>5, <3>1
  <2>6. CASE changes[m + 1].key # k
    <3>1. S[m + 1][k] = S[m][k]
      BY <2>4, <2>6
    <3>2. \A i \in 1 .. m + 1 : i \in 1 .. m \/ i = m + 1
      OBVIOUS
    <3>3. CASE (\A i \in 1 .. m : changes[i].key # k) /\ S[m][k] = a[k]
      BY <2>6, <3>1, <3>2, <3>3
    <3>4. CASE \E i \in 1 .. m : /\ changes[i].key = k /\ S[m][k] = changes[i].current
                                 /\ \A j \in i + 1 .. m : changes[j].key # k
      <4>1. PICK i \in 1 .. m : /\ changes[i].key = k /\ S[m][k] = changes[i].current
                                /\ \A j \in i + 1 .. m : changes[j].key # k
        BY <3>4
      <4>2. i \in 1 .. m + 1 /\ \A j \in i + 1 .. m + 1 : j \in i + 1 .. m \/ j = m + 1
        OBVIOUS
      <4> QED BY <2>6, <3>1, <4>1, <4>2
    <3> QED BY <2>2, <3>3, <3>4
  <2> QED BY <2>5, <2>6
<1>5. Nat \subseteq T
  <2> HIDE DEF T
  <2> QED BY <1>3, <1>4, SetInduction
<1>6. Told(n)
  BY <1>0, <1>5
<1> QED BY <1>0, <1>2, <1>6 DEF Changed

-----------------------------------------------------------------------------
(* Changes that fit are applied, and reverted *)

LEMMA WriteFits ==
  ASSUME NEW tab \in Tables, NEW c \in Changes
  PROVE  /\ tab[c.key] = c.original =>
              ApplyChange([table |-> tab, failed |-> FALSE], c) = [table |-> Made(tab, c), failed |-> FALSE]
         /\ tab[c.key] = c.original =>
              RevertChange(c, [table |-> Made(tab, c), failed |-> FALSE]) = [table |-> tab, failed |-> FALSE]
<1>1. c.key \in Key /\ c.original \in Stored /\ c.current \in Stored /\ c.original # c.current
  BY ChangeParts
<1>2. Made(tab, c)[c.key] = c.current /\ Made(tab, c) = [tab EXCEPT ![c.key] = c.current]
  <2>1. Made(tab, c)[c.key] = c.current
    BY <1>1, MadeTable
  <2> QED BY <2>1 DEF Made
<1>3. ASSUME tab[c.key] = c.original
      PROVE  [Made(tab, c) EXCEPT ![c.key] = c.original] = tab
  BY <1>1, <1>2, <1>3 DEF Tables
<1>4. ASSUME tab[c.key] = c.original
      PROVE  ApplyChange([table |-> tab, failed |-> FALSE], c) = [table |-> Made(tab, c), failed |-> FALSE]
  BY <1>1, <1>2, <1>4 DEF ApplyChange, Write
<1>5. ASSUME tab[c.key] = c.original
      PROVE  RevertChange(c, [table |-> Made(tab, c), failed |-> FALSE]) = [table |-> tab, failed |-> FALSE]
  BY <1>1, <1>2, <1>3, <1>5 DEF RevertChange, Write
<1> QED BY <1>4, <1>5

LEMMA AppliedTable ==
  ASSUME NEW a, NEW changes, NEW b, Leads(a, changes, b)
  PROVE  ApplyChanges(a, changes) = [table |-> b, failed |-> FALSE]
<1> DEFINE n == Len(changes)
<1>0. /\ n \in Nat /\ DOMAIN changes = 1 .. n
      /\ \A i \in 1 .. n : changes[i] \in Changes
  BY LeadsTables
<1>1. PICK S : Trail(S, a, changes, b)
  BY DEF Leads
<1>2. S \in [0 .. n -> Tables] /\ S[0] = a /\ S[n] = b
  BY <1>1 DEF Trail
<1>3. PICK done : /\ done[0] = [table |-> a, failed |-> FALSE]
                  /\ \A i \in 1 .. n : done[i] = ApplyChange(done[i - 1], changes[i])
                  /\ ApplyChanges(a, changes) = done[n]
  BY <1>0, ApplyChangesRun
<1> DEFINE T == {m \in Nat : m <= n => done[m] = [table |-> S[m], failed |-> FALSE]}
<1>4. 0 \in T
  BY <1>2, <1>3
<1>5. ASSUME NEW m \in Nat, m \in T PROVE m + 1 \in T
  <2>1. SUFFICES ASSUME m + 1 <= n PROVE done[m + 1] = [table |-> S[m + 1], failed |-> FALSE]
    OBVIOUS
  <2>2. m + 1 \in 1 .. n /\ m \in 0 .. n /\ (m + 1) - 1 = m /\ done[m] = [table |-> S[m], failed |-> FALSE]
    BY <1>0, <1>5, <2>1
  <2>3. S[m] \in Tables /\ changes[m + 1] \in Changes
    BY <1>0, <1>2, <2>2
  <2>4. S[m][changes[m + 1].key] = changes[m + 1].original /\ S[m + 1] = Made(S[m], changes[m + 1])
    BY <1>1, <2>2 DEF Trail
  <2>5. done[m + 1] = ApplyChange(done[m], changes[m + 1])
    BY <1>3, <2>2
  <2> QED BY <2>2, <2>3, <2>4, <2>5, WriteFits
<1>6. Nat \subseteq T
  <2> HIDE DEF T
  <2> QED BY <1>4, <1>5, SetInduction
<1>7. done[n] = [table |-> S[n], failed |-> FALSE]
  BY <1>0, <1>6
<1> QED BY <1>2, <1>3, <1>7

LEMMA RevertedTable ==
  ASSUME NEW a, NEW changes, NEW b, Leads(a, changes, b)
  PROVE  RevertChanges(b, changes) = [table |-> a, failed |-> FALSE]
<1> DEFINE n == Len(changes)
<1>0. /\ n \in Nat /\ DOMAIN changes = 1 .. n
      /\ \A i \in 1 .. n : changes[i] \in Changes
  BY LeadsTables
<1>1. PICK S : Trail(S, a, changes, b)
  BY DEF Leads
<1>2. S \in [0 .. n -> Tables] /\ S[0] = a /\ S[n] = b
  BY <1>1 DEF Trail
<1>3. PICK rest : /\ rest[n] = [table |-> b, failed |-> FALSE]
                  /\ \A i \in 1 .. n : rest[i - 1] = RevertChange(changes[i], rest[i])
                  /\ RevertChanges(b, changes) = rest[0]
  BY <1>0, RevertChangesRun
<1> DEFINE T == {m \in Nat : m <= n => rest[n - m] = [table |-> S[n - m], failed |-> FALSE]}
<1>4. 0 \in T
  <2>1. n - 0 = n
    BY <1>0
  <2> QED BY <1>2, <1>3, <2>1
<1>5. ASSUME NEW m \in Nat, m \in T PROVE m + 1 \in T
  <2> DEFINE i == n - m
  <2>1. SUFFICES ASSUME m + 1 <= n PROVE rest[n - (m + 1)] = [table |-> S[n - (m + 1)], failed |-> FALSE]
    OBVIOUS
  <2>2. i \in 1 .. n /\ i - 1 \in 0 .. n /\ n - (m + 1) = i - 1 /\ rest[i] = [table |-> S[i], failed |-> FALSE]
    BY <1>0, <1>5, <2>1
  <2> HIDE DEF i
  <2>3. S[i - 1] \in Tables /\ changes[i] \in Changes
    BY <1>0, <1>2, <2>2
  <2>4. S[i - 1][changes[i].key] = changes[i].original /\ S[i] = Made(S[i - 1], changes[i])
    BY <1>1, <2>2 DEF Trail
  <2>5. rest[i - 1] = RevertChange(changes[i], rest[i])
    BY <1>3, <2>2
  <2>6. rest[i - 1] = [table |-> S[i - 1], failed |-> FALSE]
    BY <2>2, <2>3, <2>4, <2>5, WriteFits
  <2> QED BY <2>2, <2>6
<1>6. Nat \subseteq T
  <2> HIDE DEF T
  <2> QED BY <1>4, <1>5, SetInduction
<1>7. rest[n - n] = [table |-> S[n - n], failed |-> FALSE]
  BY <1>0, <1>6
<1>8. n - n = 0
  BY <1>0
<1> QED BY <1>2, <1>3, <1>7, <1>8

-----------------------------------------------------------------------------
(***************************************************************************)
(* A cache goes with a table if it has the rows of the table or nothing,   *)
(* and every row of some keys.  What undoes the changes that lead to a     *)
(* table takes a cache that goes with it to one that goes with the table   *)
(* they lead from, and never throws.                                       *)
(***************************************************************************)
GoesWith(cache, tab, keys) ==
  \A k \in Key : /\ cache[k] # Absent => cache[k] = tab[k]
                 /\ k \in keys => cache[k] = tab[k]

LEMMA UndoFits ==
  ASSUME NEW tab \in Tables, NEW c \in Changes, tab[c.key] = c.original,
         NEW cache \in Tables, NEW keys, GoesWith(cache, Made(tab, c), keys), NEW l \in Int
  PROVE  \E less \in Tables :
           /\ UndoEntityChange(c, [cache |-> cache, left |-> l, throws |-> FALSE])
                = [cache |-> less, left |-> l - 1, throws |-> FALSE]
           /\ GoesWith(less, tab, keys)
<1> DEFINE stays == ~ IsDelete(c) /\ cache[c.key] = Absent
           less == IF stays THEN cache ELSE [cache EXCEPT ![c.key] = c.original]
<1>1. c.key \in Key /\ c.original \in Stored /\ c.current \in Stored
  BY ChangeParts
<1>2. \A k \in Key : Made(tab, c)[k] = IF k = c.key THEN c.current ELSE tab[k]
  BY MadeTable
<1>3. IsDelete(c) => cache[c.key] = Absent
  BY <1>1, <1>2 DEF GoesWith, IsDelete
<1>4. UndoEntityChange(c, [cache |-> cache, left |-> l, throws |-> FALSE])
        = [cache |-> less, left |-> l - 1, throws |-> FALSE]
  BY <1>3 DEF UndoEntityChange
<1>5. less \in Tables
  BY <1>1 DEF Tables
<1>6. ASSUME NEW k \in Key
      PROVE  (less[k] # Absent => less[k] = tab[k]) /\ (k \in keys => less[k] = tab[k])
  <2>1. CASE k # c.key
    <3>1. less[k] = cache[k]
      BY <2>1 DEF Tables
    <3> QED BY <1>2, <2>1, <3>1 DEF GoesWith
  <2>2. CASE k = c.key /\ stays
    <3>1. less[k] = Absent
      BY <2>2
    <3>2. Made(tab, c)[k] # Absent
      BY <1>2, <2>2 DEF IsDelete
    <3>3. k \notin keys
      BY <2>2, <3>2 DEF GoesWith
    <3> QED BY <3>1, <3>3
  <2>3. CASE k = c.key /\ ~ stays
    <3>1. less[k] = c.original
      BY <2>3, <1>1 DEF Tables
    <3> QED BY <2>3, <3>1
  <2> QED BY <2>1, <2>2, <2>3
<1> HIDE DEF less
<1>7. GoesWith(less, tab, keys)
  BY <1>6 DEF GoesWith
<1> QED BY <1>4, <1>5, <1>7

LEMMA UndoneCache ==
  ASSUME NEW a, NEW changes, NEW b, Leads(a, changes, b),
         NEW cache \in Tables, NEW keys, GoesWith(cache, b, keys)
  PROVE  \E less \in Tables :
           /\ UndoChanges(cache, changes) = [cache |-> less, left |-> 0, throws |-> FALSE]
           /\ GoesWith(less, a, keys)
<1>n. PICK n \in Nat : n = Len(changes)
  BY LeadsTables
<1>0. /\ n \in Nat /\ DOMAIN changes = 1 .. n
      /\ \A i \in 1 .. n : changes[i] \in Changes
  BY <1>n, LeadsTables
<1>1. PICK S : Trail(S, a, changes, b)
  BY DEF Leads
<1>2. S \in [0 .. n -> Tables] /\ S[0] = a /\ S[n] = b
  BY <1>n, <1>1 DEF Trail
<1>3. PICK rest : /\ rest[n] = UndoStart(cache, changes)
                  /\ \A i \in 1 .. n : rest[i - 1] = UndoEntityChange(changes[i], rest[i])
                  /\ UndoChanges(cache, changes) = rest[0]
  BY <1>0, UndoChangesRun
<1> DEFINE Told(i) == \E less \in Tables : /\ rest[i] = [cache |-> less, left |-> i, throws |-> FALSE]
                                           /\ GoesWith(less, S[i], keys)
           T == {m \in Nat : m <= n => Told(n - m)}
<1> HIDE DEF Told
<1>4. 0 \in T
  <2>1. n - 0 = n
    BY <1>0
  <2>2. Told(n)
    BY <1>n, <1>2, <1>3 DEF Told, UndoStart
  <2> QED BY <2>1, <2>2
<1>5. ASSUME NEW m \in Nat, m \in T PROVE m + 1 \in T
  <2> DEFINE i == n - m
  <2>1. SUFFICES ASSUME m + 1 <= n PROVE Told(n - (m + 1))
    OBVIOUS
  <2>2. i \in 1 .. n /\ i \in Int /\ i - 1 \in 0 .. n /\ n - (m + 1) = i - 1 /\ Told(i)
    BY <1>0, <1>5, <2>1
  <2> HIDE DEF i
  <2>3. S[i - 1] \in Tables /\ changes[i] \in Changes
    BY <1>0, <1>2, <2>2
  <2>4. S[i - 1][changes[i].key] = changes[i].original /\ S[i] = Made(S[i - 1], changes[i])
    BY <1>n, <1>1, <2>2 DEF Trail
  <2>5. rest[i - 1] = UndoEntityChange(changes[i], rest[i])
    BY <1>3, <2>2
  <2>6. PICK more \in Tables : /\ rest[i] = [cache |-> more, left |-> i, throws |-> FALSE]
                               /\ GoesWith(more, Made(S[i - 1], changes[i]), keys)
    BY <2>2, <2>4 DEF Told
  <2>7. PICK less \in Tables :
           /\ UndoEntityChange(changes[i], [cache |-> more, left |-> i, throws |-> FALSE])
                = [cache |-> less, left |-> i - 1, throws |-> FALSE]
           /\ GoesWith(less, S[i - 1], keys)
    <3>1. S[i - 1] \in Tables /\ changes[i] \in Changes /\ i \in Int
      BY <2>2, <2>3
    <3>2. S[i - 1][changes[i].key] = changes[i].original
      BY <2>4
    <3>3. GoesWith(more, Made(S[i - 1], changes[i]), keys)
      BY <2>6
    <3> QED BY ONLY <2>6, <3>1, <3>2, <3>3, UndoFits
  <2>8. Told(i - 1)
    BY <2>5, <2>6, <2>7 DEF Told
  <2> QED BY <2>2, <2>8
<1>6. Nat \subseteq T
  <2> HIDE DEF T
  <2> QED BY <1>4, <1>5, SetInduction
<1>7. Told(n - n) /\ n - n = 0
  <2>1. n \in T /\ n <= n /\ n - n = 0
    BY <1>0, <1>6
  <2> QED BY <2>1
<1> QED BY <1>2, <1>3, <1>7 DEF Told

-----------------------------------------------------------------------------
(* Several lists of changes, one after the other *)

Flat(f, lists, n) == f = [i \in 1 .. n |-> IF i = 1 THEN lists[i] ELSE f[i - 1] \o lists[i]]

LEMMA FlatExists ==
  ASSUME NEW lists, NEW n \in Nat
  PROVE  \E f : Flat(f, lists, n)
<1> DEFINE T == {m \in Nat : \E f : Flat(f, lists, m)}
<1>1. 0 \in T
  <2> DEFINE f == [i \in 1 .. 0 |-> lists]
  <2>1. Flat(f, lists, 0)
    BY DEF Flat
  <2> QED BY <2>1
<1>2. ASSUME NEW m \in Nat, m \in T PROVE m + 1 \in T
  <2>1. PICK f : Flat(f, lists, m)
    BY <1>2
  <2> DEFINE g == [i \in 1 .. m + 1 |-> IF i = m + 1
                                        THEN IF i = 1 THEN lists[i] ELSE f[m] \o lists[i]
                                        ELSE f[i]]
  <2>2. ASSUME NEW i \in 1 .. m + 1
        PROVE  g[i] = IF i = 1 THEN lists[i] ELSE g[i - 1] \o lists[i]
    <3>1. CASE i = m + 1
      <4>1. CASE i = 1
        BY <3>1, <4>1
      <4>2. CASE i # 1
        <5>1. i - 1 = m /\ m \in 1 .. m + 1 /\ m # m + 1
          BY <3>1, <4>2
        <5>2. g[m] = f[m]
          BY <5>1
        <5> QED BY <3>1, <4>2, <5>1, <5>2
      <4> QED BY <4>1, <4>2
    <3>2. CASE i # m + 1
      <4>1. i \in 1 .. m /\ (i # 1 => i - 1 \in 1 .. m + 1 /\ i - 1 # m + 1)
        BY <3>2
      <4>2. g[i] = f[i] /\ (i # 1 => g[i - 1] = f[i - 1])
        BY <3>2, <4>1
      <4>3. f[i] = IF i = 1 THEN lists[i] ELSE f[i - 1] \o lists[i]
        BY <2>1, <4>1 DEF Flat
      <4> HIDE DEF g
      <4> QED BY <4>2, <4>3
    <3> QED BY <3>1, <3>2
  <2>3. g = [i \in 1 .. m + 1 |-> IF i = 1 THEN lists[i] ELSE g[i - 1] \o lists[i]]
    BY <2>2
  <2> HIDE DEF g
  <2>4. Flat(g, lists, m + 1)
    BY <2>3 DEF Flat
  <2> QED BY <2>4
<1> HIDE DEF T
<1>3. Nat \subseteq T
  BY <1>1, <1>2, SetInduction
<1> QED BY <1>3 DEF T

LEMMA FlatLeads ==
  ASSUME NEW lists, NEW n \in Nat, lists \in [1 .. n -> Seq(Changes)], NEW S, S[0] \in Tables,
         \A i \in 1 .. n : Leads(S[i - 1], lists[i], S[i])
  PROVE  Leads(S[0], FlattenSeq(lists), S[n])
<1>0. Len(lists) = n /\ lists \in Seq(Seq(Changes))
  OBVIOUS
<1>1. CASE n = 0
  <2>1. lists = <<>>
    BY <1>0, <1>1
  <2>2. FlattenSeq(lists) = <<>>
    BY <1>0, <1>1, <2>1 DEF FlattenSeq
  <2> QED BY <1>1, <2>2, LeadsNowhere
<1>2. CASE n # 0
  <2>1. \E f : Flat(f, lists, n)
    BY FlatExists
  <2>2. PICK f : Flat(f, lists, n) /\ FlattenSeq(lists) = f[n]
    BY <1>0, <1>2, <2>1 DEF FlattenSeq, Flat
  <2> DEFINE T == {m \in Nat : m + 1 <= n => Leads(S[0], f[m + 1], S[m + 1])}
  <2>3. 0 \in T
    <3>1. 1 \in 1 .. n /\ 1 - 1 = 0
      BY <1>2
    <3>2. f[1] = lists[1]
      BY <2>2, <3>1 DEF Flat
    <3>3. Leads(S[0], f[1], S[1])
      BY <3>1, <3>2
    <3> QED BY <3>3
  <2>4. ASSUME NEW m \in Nat, m \in T PROVE m + 1 \in T
    <3>1. SUFFICES ASSUME m + 1 + 1 <= n PROVE Leads(S[0], f[m + 1 + 1], S[m + 1 + 1])
      OBVIOUS
    <3> DEFINE k == m + 1
    <3>2. k \in 1 .. n /\ k + 1 \in 1 .. n /\ k + 1 # 1 /\ (k + 1) - 1 = k /\ Leads(S[0], f[k], S[k])
      BY <2>4, <3>1
    <3> HIDE DEF k
    <3>3. f[k + 1] = f[k] \o lists[k + 1]
      BY <2>2, <3>2 DEF Flat
    <3>4. Leads(S[k], lists[k + 1], S[k + 1])
      BY <3>2
    <3>5. Leads(S[0], f[k] \o lists[k + 1], S[k + 1])
      BY <3>2, <3>4, LeadsOn
    <3> QED BY <3>3, <3>5 DEF k
  <2>5. Nat \subseteq T
    <3> HIDE DEF T
    <3> QED BY <2>3, <2>4, SetInduction
  <2>6. n - 1 \in Nat /\ (n - 1) + 1 = n /\ n <= n
    BY <1>2
  <2>7. Leads(S[0], f[(n - 1) + 1], S[(n - 1) + 1])
    <3>1. n - 1 \in T
      <4> HIDE DEF T
      <4> QED BY <2>5, <2>6
    <3> QED BY <2>6, <3>1
  <2> QED BY <2>2, <2>6, <2>7
<1> QED BY <1>1, <1>2

-----------------------------------------------------------------------------
(***************************************************************************)
(* Heights.  What is assumed of them: that comparing them as strings is    *)
(* comparing them as numbers, as it is up to a height of nine at least;    *)
(* that deleting rows does not fail, and neither does the statement after  *)
(* the one that inserts a block; that the process is not stopped between   *)
(* the two statements that delete a block.  The code survives none of it.  *)
(***************************************************************************)
ComparedAsNumbers ==
  \A height \in 1 .. MaxHeight : \A other \in 0 .. height - 1 : GreaterAsText(height, other)

CommitFaultsOnly == FailSteps \subseteq {"insertBlock", "saveChanges", "rollback"}

NotStoppedInDelete == "deleteHistory" \notin CrashSteps

HeightsKept == ComparedAsNumbers /\ CommitFaultsOnly /\ NotStoppedInDelete

Deleting == op.step \in {"deleteBlock", "deleteHistory"}

(* The last block of the cache, while a block is half saved or deleted *)
CachedHeight ==
  IF InStep("saveChanges") \/ (Deleting /\ op.target = Null)
  THEN lastBlockHeight - 1 ELSE lastBlockHeight

(* What is left of a cache whose last block is of some height, or none *)
CacheRange(c, last) ==
  /\ c.min \in Int
  /\ c.max \in {-1, last}
  /\ c.max = -1 <=> c.min = -1
  /\ c.max # -1 => c.max >= 0 /\ c.min >= 0 /\ c.min .. c.max \subseteq DOMAIN c.blocks

OpOK ==
  \/ op \in [step : {"idle", "insertHistory", "saveChanges", "rollback"}]
  \/ op \in [step : {"deleteBlock", "deleteHistory"}, target : {Null} \cup (0 .. lastBlockHeight - 1)]

BlockRowsOK ==
  DOMAIN blockRows = IF InStep("insertHistory") THEN 0 .. lastBlockHeight + 1
                     ELSE IF InStep("deleteHistory") THEN 0 .. lastBlockHeight - 1
                     ELSE 0 .. lastBlockHeight

CurrentBlockOK ==
  /\ currentBlock = Null \/ currentBlock \in [height : 0 .. MaxHeight, id : BlockIds]
  /\ op.step \in {"insertHistory", "saveChanges"} => currentBlock # Null
  /\ op.step \in {"idle", "rollback", "insertHistory"} /\ currentBlock # Null =>
       currentBlock.height = lastBlockHeight + 1
  /\ InStep("saveChanges") \/ (Deleting /\ op.target = Null) =>
       lastBlockHeight >= 0 /\ (currentBlock # Null => currentBlock.height = lastBlockHeight)

HeightsInv ==
  /\ lastBlockHeight \in Int /\ -1 <= lastBlockHeight /\ lastBlockHeight <= MaxHeight
  /\ OpOK
  /\ BlockRowsOK
  /\ DOMAIN historyRows \subseteq 0 .. lastBlockHeight
  /\ CurrentBlockOK
  /\ sessionSerial = KeptHeight
  /\ CacheRange(cachedBlocks, CachedHeight)

heightVars ==
  <<blockRows, historyRows, lastBlockHeight, currentBlock, cachedBlocks, sessionSerial, op>>

(* Rows *)

LEMMA RowAdded ==
  ASSUME NEW f, NEW h, NEW x
  PROVE  /\ DOMAIN WithRow(f, h, x) = {h} \cup DOMAIN f
         /\ WithRow(f, h, x)[h] = x
         /\ \A i \in DOMAIN f \ {h} : WithRow(f, h, x)[i] = f[i]
BY DEF WithRow, WithRows

LEMMA LastOfRows ==
  ASSUME NEW n \in Int, n >= -1
  PROVE  Max({-1} \cup (0 .. n)) = n
<1> DEFINE S == {-1} \cup (0 .. n)
<1>1. n \in S /\ \A i \in S : i \in Int /\ n >= i
  OBVIOUS
<1> HIDE DEF S
<1>2. \E x \in S : \A i \in S : x >= i
  BY <1>1
<1>3. Max(S) \in S /\ \A i \in S : Max(S) >= i
  BY <1>2, Zenon DEF Max
<1> DEFINE m == Max(S)
<1>4. m \in Int /\ m >= n /\ n >= m
  BY <1>1, <1>3
<1> HIDE DEF m
<1>5. m = n
  BY <1>4
<1> QED BY <1>5 DEF m, S

LEMMA HigherOf ==
  ASSUME NEW m \in Int, NEW n \in Int
  PROVE  Max({m, n}) = IF m >= n THEN m ELSE n
<1> DEFINE S == {m, n}
<1>1. \A i \in S : i \in Int
  OBVIOUS
<1>2. \E x \in S : \A i \in S : x >= i
  OBVIOUS
<1> HIDE DEF S
<1>3. Max(S) \in S /\ \A i \in S : Max(S) >= i
  BY <1>2, Zenon DEF Max
<1>4. Max(S) = IF m >= n THEN m ELSE n
  BY <1>3 DEF S
<1> QED BY <1>4 DEF S

(* The cache of blocks *)

LEMMA EmptyRange ==
  ASSUME NEW last
  PROVE  CacheRange(EmptyBlockCache, last)
BY DEF CacheRange, EmptyBlockCache

LEMMA PushedRange ==
  ASSUME NEW c, NEW h \in Int, h >= 0, CacheRange(c, h - 1), NEW b, NEW n
  PROVE  CanPush(c, h) /\ CacheRange(PushBlock(c, h, b, n), h)
<1> DEFINE blocks == WithRow(c.blocks, h, b)
           min == IF c.min = -1 THEN h ELSE c.min
           full == Cardinality(DOMAIN blocks) > n
           less == RestrictDomain(blocks, LAMBDA x : x # min)
           d == [blocks |-> IF full THEN less ELSE blocks,
                 min |-> IF full THEN min + 1 ELSE min,
                 max |-> h]
<1>1. CanPush(c, h)
  BY DEF CanPush, CacheRange
<1>2. DOMAIN blocks = {h} \cup DOMAIN c.blocks
  BY RowAdded
<1>3. DOMAIN less = DOMAIN blocks \ {min}
  BY DEF RestrictDomain, Restrict
<1>4. min \in Int /\ min >= 0 /\ min .. h \subseteq DOMAIN blocks
  BY <1>2 DEF CacheRange
<1>5. PushBlock(c, h, b, n) = d
  BY DEF PushBlock, Pushed
<1> HIDE DEF blocks, min, less, full
<1>6. d.max = h /\ d.min \in Int /\ d.min >= 0 /\ d.min .. h \subseteq DOMAIN d.blocks
  BY <1>3, <1>4
<1> HIDE DEF d
<1>7. CacheRange(d, h)
  BY <1>6 DEF CacheRange
<1> QED BY <1>1, <1>5, <1>7

(* After a block is evicted, the one before it is there or none is known *)
LEMMA EvitedRange ==
  ASSUME NEW c, NEW l \in Int, l >= 0, CacheRange(c, l)
  PROVE  /\ CacheRange(EvitUntil(c, l - 1), l - 1)
         /\ \/ EvitUntil(c, l - 1).max = -1
            \/ l - 1 \in DOMAIN EvitUntil(c, l - 1).blocks
<1> DEFINE height == IF l - 1 >= c.min THEN l - 1 ELSE c.min
           reset == height = c.min
           blocks == RestrictDomain(c.blocks, LAMBDA h : h \notin height + 1 .. c.max)
           d == [blocks |-> blocks,
                 min |-> IF reset THEN -1 ELSE c.min,
                 max |-> IF reset \/ c.min = -1 THEN -1 ELSE height]
<1>1. CASE l - 1 > c.max
  <2>1. EvitUntil(c, l - 1) = c
    BY <1>1 DEF EvitUntil
  <2>2. c.max = -1
    BY <1>1 DEF CacheRange
  <2> QED BY <2>1, <2>2 DEF CacheRange
<1>2. CASE ~ (l - 1 > c.max)
  <2>1. c.min \in Int /\ Max({l - 1, c.min}) = height
    BY HigherOf DEF CacheRange
  <2>2. EvitUntil(c, l - 1) = d
    <3> DEFINE e == Max({l - 1, c.min})
    <3>1. e = height
      BY <2>1
    <3>2. EvitUntil(c, l - 1) =
            [blocks |-> RestrictDomain(c.blocks, LAMBDA h : h \notin e + 1 .. c.max),
             min |-> IF e = c.min THEN -1 ELSE c.min,
             max |-> IF e = c.min \/ c.min = -1 THEN -1 ELSE e]
      BY <1>2 DEF EvitUntil
    <3> HIDE DEF e, height
    <3> QED BY <3>1, <3>2
  <2>3. CASE c.max = -1
    <3>1. l - 1 = -1 /\ c.min = -1 /\ height = -1 /\ reset
      BY <1>2, <2>3 DEF CacheRange
    <3>2. d.max = -1 /\ d.min = -1
      BY <3>1
    <3> HIDE DEF d
    <3> QED BY <2>2, <3>2 DEF CacheRange
  <2>4. CASE c.max # -1
    <3>1. c.max = l /\ c.min >= 0 /\ c.min .. l \subseteq DOMAIN c.blocks
      BY <2>4 DEF CacheRange
    <3>2. CASE reset
      <4>1. d.max = -1 /\ d.min = -1
        BY <3>2
      <4> HIDE DEF d
      <4> QED BY <2>2, <4>1 DEF CacheRange
    <3>3. CASE ~ reset
      <4>1. height = l - 1 /\ c.min < l - 1 /\ c.min # -1
        BY <2>1, <3>1, <3>3
      <4>2. d.max = l - 1 /\ d.min = c.min /\ d.blocks = blocks
        BY <3>3, <4>1
      <4>3. DOMAIN blocks = {h \in DOMAIN c.blocks : h \notin height + 1 .. c.max}
        BY DEF RestrictDomain, Restrict
      <4>4. ASSUME NEW h \in c.min .. l - 1 PROVE h \in DOMAIN blocks
        <5>1. h \in c.min .. l /\ h \notin l - 1 + 1 .. c.max
          BY <2>1, <3>1
        <5> HIDE DEF blocks, height
        <5> QED BY <3>1, <4>1, <4>3, <5>1
      <4>5. l - 1 \in c.min .. l - 1
        BY <2>1, <4>1
      <4> HIDE DEF d, blocks
      <4> QED BY <2>1, <2>2, <3>1, <4>1, <4>2, <4>4, <4>5 DEF CacheRange
    <3> QED BY <3>2, <3>3
  <2> QED BY <2>3, <2>4
<1> QED BY <1>1, <1>2

(* Each step keeps the heights *)

LEMMA HeightsUnchanged ==
  ASSUME HeightsInv, UNCHANGED heightVars
  PROVE  HeightsInv'
BY DEF HeightsInv, heightVars, OpOK, BlockRowsOK, CurrentBlockOK, CachedHeight, KeptHeight,
       Deleting, InStep

LEMMA HeightsInit ==
  ASSUME Init
  PROVE  HeightsInv
<1>1. lastBlockHeight = -1 /\ op = [step |-> "idle"] /\ sessionSerial = -1 /\ currentBlock = Null
  BY DEF Init, Idle
<1>2. DOMAIN blockRows = {} /\ DOMAIN historyRows = {} /\ 0 .. -1 = {}
  BY DEF Init, NoHistory
<1>3. CacheRange(cachedBlocks, -1)
  BY EmptyRange DEF Init
<1>4. MaxHeight \in Nat
  BY SmartDBAssumption
<1>5. OpOK
  BY <1>1 DEF OpOK
<1>6. BlockRowsOK
  BY <1>1, <1>2 DEF BlockRowsOK, InStep
<1>7. CurrentBlockOK
  BY <1>1 DEF CurrentBlockOK, InStep, Deleting
<1>8. KeptHeight = -1 /\ CachedHeight = -1
  BY <1>1 DEF KeptHeight, CachedHeight, InStep, Deleting
<1> QED BY <1>1, <1>2, <1>3, <1>4, <1>5, <1>6, <1>7, <1>8 DEF HeightsInv

(* The forms a state of the operation takes *)

LEMMA HeightsOfStep ==
  ASSUME HeightsInv
  PROVE  /\ op.step \in {"idle", "insertHistory", "saveChanges", "rollback", "deleteBlock", "deleteHistory"}
         /\ InStep("idle") \/ InStep("rollback") =>
              /\ KeptHeight = lastBlockHeight /\ CachedHeight = lastBlockHeight
              /\ DOMAIN blockRows = 0 .. lastBlockHeight
         /\ InStep("insertHistory") =>
              /\ KeptHeight = lastBlockHeight /\ CachedHeight = lastBlockHeight
              /\ DOMAIN blockRows = 0 .. lastBlockHeight + 1
         /\ InStep("saveChanges") =>
              /\ KeptHeight = lastBlockHeight - 1 /\ CachedHeight = lastBlockHeight - 1
              /\ DOMAIN blockRows = 0 .. lastBlockHeight
         /\ Deleting =>
              /\ op.target = Null \/ op.target \in 0 .. lastBlockHeight - 1
              /\ lastBlockHeight >= 0
              /\ op.target = Null => KeptHeight = lastBlockHeight - 1 /\ CachedHeight = lastBlockHeight - 1
              /\ op.target # Null => KeptHeight = op.target /\ CachedHeight = lastBlockHeight
              /\ op = [step |-> op.step, target |-> op.target]
         /\ InStep("deleteBlock") => DOMAIN blockRows = 0 .. lastBlockHeight
         /\ InStep("deleteHistory") => DOMAIN blockRows = 0 .. lastBlockHeight - 1
<1>1. op.step \in {"idle", "insertHistory", "saveChanges", "rollback", "deleteBlock", "deleteHistory"}
  BY DEF HeightsInv, OpOK
<1>2. Deleting => /\ op.target = Null \/ op.target \in 0 .. lastBlockHeight - 1
                  /\ op = [step |-> op.step, target |-> op.target]
  BY DEF HeightsInv, OpOK, Deleting
<1>3. Deleting => lastBlockHeight >= 0
  BY <1>2 DEF HeightsInv, CurrentBlockOK
<1>4. InStep("idle") \/ InStep("rollback") \/ InStep("insertHistory") =>
        KeptHeight = lastBlockHeight /\ CachedHeight = lastBlockHeight
  BY DEF KeptHeight, CachedHeight, Deleting, InStep
<1>5. InStep("saveChanges") => KeptHeight = lastBlockHeight - 1 /\ CachedHeight = lastBlockHeight - 1
  BY DEF KeptHeight, CachedHeight, Deleting, InStep
<1>6. Deleting => IF op.target = Null
                  THEN KeptHeight = lastBlockHeight - 1 /\ CachedHeight = lastBlockHeight - 1
                  ELSE KeptHeight = op.target /\ CachedHeight = lastBlockHeight
  BY DEF KeptHeight, CachedHeight, Deleting, InStep
<1>7. BlockRowsOK
  BY DEF HeightsInv
<1> QED BY <1>1, <1>2, <1>3, <1>4, <1>5, <1>6, <1>7 DEF BlockRowsOK, InStep

LEMMA BeginBlockHeights ==
  ASSUME HeightsInv, NEW id \in BlockIds, BeginBlock(id)
  PROVE  HeightsInv'
<1>1. /\ InStep("idle") /\ lastBlockHeight < MaxHeight
      /\ currentBlock' = [height |-> lastBlockHeight + 1, id |-> id]
      /\ UNCHANGED <<blockRows, historyRows, lastBlockHeight, cachedBlocks, sessionSerial, op>>
  BY DEF BeginBlock, NoContract, NoBlockOperation, database, rows, session
<1>2. lastBlockHeight \in Int /\ -1 <= lastBlockHeight /\ MaxHeight \in Nat
  BY SmartDBAssumption DEF HeightsInv
<1>3. lastBlockHeight + 1 \in 0 .. MaxHeight
  BY <1>1, <1>2
<1>4. CurrentBlockOK'
  BY <1>1, <1>3 DEF CurrentBlockOK, InStep, Deleting
<1>5. OpOK' /\ BlockRowsOK' /\ KeptHeight' = KeptHeight /\ CachedHeight' = CachedHeight
  BY <1>1 DEF HeightsInv, OpOK, BlockRowsOK, KeptHeight, CachedHeight, InStep, Deleting
<1> QED BY <1>1, <1>4, <1>5 DEF HeightsInv

LEMMA InsertBlockHeights ==
  ASSUME HeightsInv, InsertBlock
  PROVE  HeightsInv'
<1>1. /\ InStep("idle") /\ currentBlock # Null
      /\ UNCHANGED <<historyRows, lastBlockHeight, currentBlock, cachedBlocks, sessionSerial>>
  BY DEF InsertBlock, NoContract, NoBlockOperation, session, blockVars
<1>2. lastBlockHeight \in Int /\ -1 <= lastBlockHeight /\ currentBlock.height = lastBlockHeight + 1
      /\ DOMAIN blockRows = 0 .. lastBlockHeight
      /\ KeptHeight = lastBlockHeight /\ CachedHeight = lastBlockHeight
  BY <1>1, HeightsOfStep DEF HeightsInv, CurrentBlockOK, InStep
<1>3. CASE blockRows' = WithRow(blockRows, currentBlock.height, currentBlock.id)
           /\ op' = [step |-> "insertHistory"]
  <2>1. DOMAIN blockRows' = 0 .. lastBlockHeight + 1
    <3>1. DOMAIN blockRows' = {currentBlock.height} \cup DOMAIN blockRows
      BY <1>3, RowAdded
    <3> QED BY <1>2, <3>1
  <2>2. OpOK' /\ BlockRowsOK'
    BY <1>1, <1>3, <2>1 DEF OpOK, BlockRowsOK, InStep
  <2>3. KeptHeight' = lastBlockHeight /\ CachedHeight' = lastBlockHeight
    BY <1>1, <1>3 DEF KeptHeight, CachedHeight, InStep, Deleting
  <2>4. CurrentBlockOK'
    BY <1>1, <1>2, <1>3 DEF HeightsInv, CurrentBlockOK, InStep, Deleting
  <2> QED BY <1>1, <1>2, <2>2, <2>3, <2>4 DEF HeightsInv
<1>4. CASE blockRows' = blockRows /\ op' = [step |-> "rollback"]
  <2>1. OpOK' /\ BlockRowsOK'
    BY <1>1, <1>2, <1>4 DEF OpOK, BlockRowsOK, InStep
  <2>2. KeptHeight' = lastBlockHeight /\ CachedHeight' = lastBlockHeight
    BY <1>1, <1>4 DEF KeptHeight, CachedHeight, InStep, Deleting
  <2>3. CurrentBlockOK'
    BY <1>1, <1>2, <1>4 DEF HeightsInv, CurrentBlockOK, InStep, Deleting
  <2> QED BY <1>1, <1>2, <2>1, <2>2, <2>3 DEF HeightsInv
<1> QED BY <1>3, <1>4 DEF InsertBlock, ThrowToProcessBlock

LEMMA InsertHistoryHeights ==
  ASSUME HeightsKept, HeightsInv, InsertHistory
  PROVE  HeightsInv'
<1>1. /\ InStep("insertHistory")
      /\ UNCHANGED <<blockRows, currentBlock, cachedBlocks, sessionSerial>>
  BY DEF InsertHistory, session
<1>2. /\ lastBlockHeight \in Int /\ -1 <= lastBlockHeight /\ MaxHeight \in Nat
      /\ currentBlock # Null /\ currentBlock.height = lastBlockHeight + 1
      /\ currentBlock \in [height : 0 .. MaxHeight, id : BlockIds]
      /\ DOMAIN blockRows = 0 .. lastBlockHeight + 1
      /\ KeptHeight = lastBlockHeight /\ CachedHeight = lastBlockHeight
      /\ DOMAIN historyRows \subseteq 0 .. lastBlockHeight
      /\ sessionSerial = lastBlockHeight /\ CacheRange(cachedBlocks, lastBlockHeight)
  BY <1>1, HeightsOfStep, SmartDBAssumption DEF HeightsInv, CurrentBlockOK, InStep
<1>3. currentBlock.height \notin DOMAIN historyRows /\ lastBlockHeight + 1 \in 0 .. MaxHeight
  <2>1. currentBlock.height \in 0 .. MaxHeight
    BY <1>2
  <2> QED BY <1>2, <2>1
<1>4. ~ MayFail("insertHistory")
  BY DEF HeightsKept, CommitFaultsOnly, MayFail
<1>5. /\ historyRows' = WithRow(historyRows, currentBlock.height, tracker.confirmed)
      /\ lastBlockHeight' = lastBlockHeight + 1
      /\ op' = [step |-> "saveChanges"]
  BY <1>3, <1>4 DEF InsertHistory
<1>6. DOMAIN historyRows' \subseteq 0 .. lastBlockHeight + 1
  <2>1. DOMAIN historyRows' = {lastBlockHeight + 1} \cup DOMAIN historyRows
    BY <1>2, <1>5, RowAdded
  <2> QED BY <1>2, <2>1
<1>7. OpOK' /\ BlockRowsOK'
  BY <1>1, <1>2, <1>5 DEF OpOK, BlockRowsOK, InStep
<1>8. (lastBlockHeight + 1) - 1 = lastBlockHeight
  BY <1>2
<1>9. KeptHeight' = lastBlockHeight /\ CachedHeight' = lastBlockHeight
  <2>1. KeptHeight' = lastBlockHeight' - 1 /\ CachedHeight' = lastBlockHeight' - 1
    BY <1>5 DEF KeptHeight, CachedHeight, Deleting, InStep
  <2> QED BY <1>5, <1>8, <2>1
<1>10. CurrentBlockOK'
  BY <1>1, <1>2, <1>5 DEF CurrentBlockOK, InStep, Deleting
<1> QED BY <1>1, <1>2, <1>3, <1>5, <1>6, <1>7, <1>9, <1>10 DEF HeightsInv

LEMMA SaveChangesFailHeights ==
  ASSUME HeightsInv, SaveChangesFail
  PROVE  HeightsInv'
<1>1. /\ InStep("saveChanges") /\ op' = [step |-> "deleteBlock", target |-> Null]
      /\ UNCHANGED <<blockRows, historyRows, lastBlockHeight, currentBlock, cachedBlocks, sessionSerial>>
  BY DEF SaveChangesFail, UndoCommit, database, rows, blockVars
<1>2. KeptHeight = lastBlockHeight - 1 /\ CachedHeight = lastBlockHeight - 1
      /\ DOMAIN blockRows = 0 .. lastBlockHeight
  BY <1>1, HeightsOfStep DEF InStep
<1>3. OpOK' /\ BlockRowsOK'
  BY <1>1, <1>2 DEF OpOK, BlockRowsOK, InStep
<1>4. KeptHeight' = lastBlockHeight - 1 /\ CachedHeight' = lastBlockHeight - 1
  BY <1>1 DEF KeptHeight, CachedHeight, InStep, Deleting
<1>5. CurrentBlockOK'
  <2>1. /\ currentBlock = Null \/ currentBlock \in [height : 0 .. MaxHeight, id : BlockIds]
        /\ lastBlockHeight >= 0 /\ (currentBlock # Null => currentBlock.height = lastBlockHeight)
    BY <1>1 DEF HeightsInv, CurrentBlockOK, Deleting
  <2>2. op'.step = "deleteBlock"
    BY <1>1
  <2> QED BY <1>1, <2>1, <2>2 DEF CurrentBlockOK, InStep
<1> QED BY <1>1, <1>2, <1>3, <1>4, <1>5 DEF HeightsInv

LEMMA SaveChangesHeights ==
  ASSUME HeightsInv, SaveChanges
  PROVE  HeightsInv'
<1>1. InStep("saveChanges") /\ UNCHANGED <<blockRows, historyRows, lastBlockHeight>>
      /\ sessionSerial' = currentBlock.height
  BY DEF SaveChanges, rows
<1>2. /\ lastBlockHeight \in Int /\ lastBlockHeight >= 0 /\ lastBlockHeight <= MaxHeight
      /\ currentBlock.height = lastBlockHeight
      /\ DOMAIN blockRows = 0 .. lastBlockHeight
      /\ CacheRange(cachedBlocks, lastBlockHeight - 1)
  <2>1. DOMAIN blockRows = 0 .. lastBlockHeight /\ CachedHeight = lastBlockHeight - 1
    BY <1>1, HeightsOfStep
  <2>2. CurrentBlockOK /\ op.step = "saveChanges"
    BY <1>1 DEF HeightsInv, InStep
  <2>3. lastBlockHeight >= 0 /\ currentBlock.height = lastBlockHeight
    BY <1>1, <2>2 DEF CurrentBlockOK, Deleting
  <2> QED BY <2>1, <2>3 DEF HeightsInv
<1>3. /\ CanPush(cachedBlocks, lastBlockHeight)
      /\ CacheRange(PushBlock(cachedBlocks, lastBlockHeight, currentBlock.id, MaxCached), lastBlockHeight)
  BY <1>2, PushedRange
<1>4. /\ cachedBlocks' = PushBlock(cachedBlocks, lastBlockHeight, currentBlock.id, MaxCached)
      /\ currentBlock' = Null /\ op' = [step |-> "idle"]
  BY <1>2, <1>3 DEF SaveChanges, Idle
<1>5. OpOK' /\ BlockRowsOK'
  BY <1>1, <1>2, <1>4 DEF OpOK, BlockRowsOK, InStep
<1>6. KeptHeight' = lastBlockHeight /\ CachedHeight' = lastBlockHeight
  BY <1>1, <1>4 DEF KeptHeight, CachedHeight, InStep, Deleting
<1>7. CurrentBlockOK'
  BY <1>4 DEF CurrentBlockOK, InStep, Deleting
<1>8. DOMAIN historyRows \subseteq 0 .. lastBlockHeight
  BY DEF HeightsInv
<1> QED BY <1>1, <1>2, <1>3, <1>4, <1>5, <1>6, <1>7, <1>8 DEF HeightsInv

(* Rolling back *)

LEMMA FinishedRollback ==
  ASSUME NEW l \in Int, l >= -1, NEW cache, CacheRange(cache, l), FinishRollback(l, cache)
  PROVE  /\ op' = [step |-> "idle"]
         /\ CacheRange(cachedBlocks', l)
         /\ currentBlock' \in {Null, currentBlock}
         /\ (cache.max = -1 \/ l \in DOMAIN cache.blocks) /\ DOMAIN blockRows = 0 .. l => currentBlock' = Null
<1> DEFINE known == l < 0 \/ l \in DOMAIN cache.blocks
           loads == ~ known /\ l \in DOMAIN blockRows /\ CanPush(cache, l)
<1>1. /\ op' = [step |-> "idle"]
      /\ cachedBlocks' = IF loads THEN PushBlock(cache, l, blockRows[l], MaxCached) ELSE cache
      /\ currentBlock' = IF known \/ loads THEN Null ELSE currentBlock
  BY DEF FinishRollback, Idle
<1>2. CASE loads
  <2>1. l >= 0 /\ (cache.max >= 0 => l = cache.max + 1)
    BY <1>2 DEF CanPush
  <2>2. CacheRange(cache, l - 1)
    BY <2>1 DEF CacheRange
  <2>3. CacheRange(PushBlock(cache, l, blockRows[l], MaxCached), l)
    BY <2>1, <2>2, PushedRange
  <2> QED BY <1>1, <1>2, <2>3
<1>3. CASE ~ loads
  <2>1. ASSUME cache.max = -1 \/ l \in DOMAIN cache.blocks, DOMAIN blockRows = 0 .. l
        PROVE  known
    <3>1. CASE l < 0 \/ l \in DOMAIN cache.blocks
      BY <3>1
    <3>2. CASE ~ (l < 0) /\ cache.max = -1
      BY <1>3, <2>1, <3>2 DEF CanPush
    <3> QED BY <2>1, <3>1, <3>2
  <2> HIDE DEF known, loads
  <2> QED BY <1>1, <1>3, <2>1
<1> QED BY <1>2, <1>3

LEMMA RollbackHeights ==
  ASSUME HeightsKept, HeightsInv, InStep("idle") \/ InStep("rollback"),
         NEW target \in Int, -1 <= target, target <= lastBlockHeight,
         InStep("rollback") => target = lastBlockHeight, target = -1 => lastBlockHeight = -1,
         RollbackBlock(target)
  PROVE  HeightsInv'
<1>1. /\ lastBlockHeight \in Int /\ -1 <= lastBlockHeight /\ lastBlockHeight <= MaxHeight
      /\ DOMAIN blockRows = 0 .. lastBlockHeight /\ DOMAIN historyRows \subseteq 0 .. lastBlockHeight
      /\ sessionSerial = lastBlockHeight /\ CacheRange(cachedBlocks, lastBlockHeight)
  BY HeightsOfStep DEF HeightsInv
<1>2. /\ currentBlock = Null \/ currentBlock \in [height : 0 .. MaxHeight, id : BlockIds]
      /\ currentBlock # Null => currentBlock.height = lastBlockHeight + 1
  BY DEF HeightsInv, CurrentBlockOK, InStep
<1>3. UNCHANGED <<blockRows, historyRows, lastBlockHeight>>
  BY DEF RollbackBlock, rows
<1>4. ASSUME op' = [step |-> "idle"], sessionSerial' = lastBlockHeight,
             CacheRange(cachedBlocks', lastBlockHeight), currentBlock' \in {Null, currentBlock}
      PROVE  HeightsInv'
  <2>1. OpOK' /\ BlockRowsOK'
    BY <1>1, <1>3, <1>4 DEF OpOK, BlockRowsOK, InStep
  <2>2. KeptHeight' = lastBlockHeight /\ CachedHeight' = lastBlockHeight
    BY <1>3, <1>4 DEF KeptHeight, CachedHeight, InStep, Deleting
  <2>3. CurrentBlockOK'
    BY <1>2, <1>3, <1>4 DEF CurrentBlockOK, InStep, Deleting
  <2> QED BY <1>1, <1>3, <1>4, <2>1, <2>2, <2>3 DEF HeightsInv
<1>5. CASE RollbackSucceeds(target)
  <2>1. sessionSerial' = target /\ RemoveBlocks(target)
    BY <1>5 DEF RollbackSucceeds
  <2>2. CASE target = lastBlockHeight
    <3>1. ~ HasBlocksAbove(target, lastBlockHeight)
      BY <1>1, <2>2 DEF HasBlocksAbove
    <3>2. FinishRollback(lastBlockHeight, cachedBlocks)
      BY <2>1, <3>1 DEF RemoveBlocks
    <3>3. /\ op' = [step |-> "idle"] /\ CacheRange(cachedBlocks', lastBlockHeight)
          /\ currentBlock' \in {Null, currentBlock}
      BY <1>1, <3>2, FinishedRollback
    <3> QED BY <1>4, <2>1, <2>2, <3>3
  <2>3. CASE target # lastBlockHeight
    <3>1. target \in 0 .. lastBlockHeight - 1 /\ lastBlockHeight \in 1 .. MaxHeight
      BY <1>1, <2>3
    <3>2. HasBlocksAbove(target, lastBlockHeight)
      BY <1>1, <3>1 DEF HasBlocksAbove, HeightsKept, ComparedAsNumbers
    <3>3. op' = [step |-> "deleteBlock", target |-> target] /\ UNCHANGED <<cachedBlocks, currentBlock>>
      BY <2>1, <3>2 DEF RemoveBlocks
    <3>4. Null \notin Int /\ target # Null
      BY SmartDBAssumption
    <3>5. OpOK' /\ BlockRowsOK'
      BY <1>1, <1>3, <3>1, <3>3 DEF OpOK, BlockRowsOK, InStep
    <3>6. KeptHeight' = target /\ CachedHeight' = lastBlockHeight
      BY <1>3, <3>3, <3>4 DEF KeptHeight, CachedHeight, InStep, Deleting
    <3>7. CurrentBlockOK'
      BY <1>2, <1>3, <3>3, <3>4 DEF CurrentBlockOK, InStep, Deleting
    <3> QED BY <1>1, <1>3, <2>1, <3>3, <3>5, <3>6, <3>7 DEF HeightsInv
  <2> QED BY <2>2, <2>3
<1>6. CASE UndoThrows(target)
  BY <1>1, <1>4, <1>6 DEF UndoThrows, Idle
<1>7. CASE RevertFails(target)
  BY <1>1, <1>4, <1>7 DEF RevertFails, Idle
<1>8. ~ (sessionSerial < target)
  BY <1>1
<1> QED BY <1>5, <1>6, <1>7, <1>8 DEF RollbackBlock

LEMMA DeleteBlockHeights ==
  ASSUME HeightsKept, HeightsInv, DeleteBlock
  PROVE  HeightsInv'
<1>1. ~ MayFail("deleteBlock")
  BY DEF HeightsKept, CommitFaultsOnly, MayFail
<1>2. /\ InStep("deleteBlock")
      /\ blockRows' = RestrictDomain(blockRows, LAMBDA h : h # lastBlockHeight)
      /\ op' = [op EXCEPT !.step = "deleteHistory"]
      /\ UNCHANGED <<historyRows, lastBlockHeight, currentBlock, cachedBlocks, sessionSerial>>
  BY <1>1 DEF DeleteBlock, blockVars, session
<1>3. Deleting /\ op = [step |-> op.step, target |-> op.target] /\ op.step = "deleteBlock"
  BY <1>2, HeightsOfStep DEF Deleting, InStep
<1>4. op' = [step |-> "deleteHistory", target |-> op.target]
  BY <1>2, <1>3
<1>5. /\ lastBlockHeight \in Int /\ lastBlockHeight >= 0
      /\ DOMAIN blockRows = 0 .. lastBlockHeight
      /\ op.target = Null \/ op.target \in 0 .. lastBlockHeight - 1
  BY <1>2, <1>3, HeightsOfStep DEF HeightsInv
<1>6. DOMAIN blockRows' = 0 .. lastBlockHeight - 1
  <2>1. DOMAIN blockRows' = DOMAIN blockRows \ {lastBlockHeight}
    BY <1>2 DEF RestrictDomain, Restrict
  <2> QED BY <1>5, <2>1
<1>7. OpOK' /\ BlockRowsOK'
  BY <1>2, <1>4, <1>5, <1>6 DEF OpOK, BlockRowsOK, InStep
<1>8. KeptHeight' = KeptHeight /\ CachedHeight' = CachedHeight
  BY <1>2, <1>3, <1>4 DEF KeptHeight, CachedHeight, InStep, Deleting
<1>9. CurrentBlockOK'
  <2>1. CurrentBlockOK
    BY DEF HeightsInv
  <2> QED BY <1>2, <1>3, <1>4, <1>5, <2>1 DEF CurrentBlockOK, InStep, Deleting
<1> QED BY <1>2, <1>7, <1>8, <1>9 DEF HeightsInv

LEMMA DeleteHistoryHeights ==
  ASSUME HeightsKept, HeightsInv, DeleteHistory
  PROVE  HeightsInv'
<1>1. ~ MayFail("deleteHistory")
  BY DEF HeightsKept, CommitFaultsOnly, MayFail
<1> DEFINE last == lastBlockHeight - 1
           cache == EvitUntil(cachedBlocks, last)
<1>2. /\ InStep("deleteHistory")
      /\ historyRows' = RestrictDomain(historyRows, LAMBDA h : h # lastBlockHeight)
      /\ lastBlockHeight' = last
      /\ \/ /\ op.target = Null
            /\ op' = [step |-> "rollback"]
            /\ UNCHANGED <<cachedBlocks, currentBlock>>
         \/ /\ op.target # Null
            /\ HasBlocksAbove(op.target, last)
            /\ op' = [op EXCEPT !.step = "deleteBlock"]
            /\ cachedBlocks' = cache
            /\ UNCHANGED currentBlock
         \/ /\ op.target # Null
            /\ ~ HasBlocksAbove(op.target, last)
            /\ FinishRollback(last, cache)
      /\ UNCHANGED <<blockRows, sessionSerial>>
  BY <1>1 DEF DeleteHistory, session, ThrowToProcessBlock
<1>3. Deleting /\ op = [step |-> op.step, target |-> op.target] /\ op.step = "deleteHistory"
  BY <1>2, HeightsOfStep DEF Deleting, InStep
<1>4. /\ lastBlockHeight \in Int /\ lastBlockHeight >= 0 /\ lastBlockHeight <= MaxHeight
      /\ DOMAIN blockRows = 0 .. last /\ DOMAIN historyRows \subseteq 0 .. lastBlockHeight
      /\ op.target = Null \/ op.target \in 0 .. last
      /\ sessionSerial = KeptHeight
  BY <1>2, <1>3, HeightsOfStep DEF HeightsInv
<1>5. CacheRange(cachedBlocks, CachedHeight) /\ CurrentBlockOK
  BY DEF HeightsInv
<1>6. DOMAIN historyRows' \subseteq 0 .. last
  <2>1. DOMAIN historyRows' = DOMAIN historyRows \ {lastBlockHeight}
    BY <1>2 DEF RestrictDomain, Restrict
  <2> QED BY <1>4, <2>1
<1>7. last \in Int /\ -1 <= last /\ last <= MaxHeight
  <2>1. MaxHeight \in Nat
    BY SmartDBAssumption
  <2> QED BY <1>4, <2>1
<1>8. CASE op.target = Null
  <2>1. op' = [step |-> "rollback"] /\ UNCHANGED <<cachedBlocks, currentBlock>>
    BY <1>2, <1>8
  <2>2. KeptHeight = last /\ CachedHeight = last
    BY <1>3, <1>8, HeightsOfStep
  <2>3. OpOK' /\ BlockRowsOK'
    BY <1>2, <1>4, <2>1 DEF OpOK, BlockRowsOK, InStep
  <2>4. KeptHeight' = last /\ CachedHeight' = last
    BY <1>2, <2>1 DEF KeptHeight, CachedHeight, InStep, Deleting
  <2>5. /\ currentBlock = Null \/ currentBlock \in [height : 0 .. MaxHeight, id : BlockIds]
        /\ currentBlock # Null => currentBlock.height = last + 1
    BY <1>3, <1>4, <1>5, <1>8 DEF CurrentBlockOK
  <2>6. CurrentBlockOK'
    BY <1>2, <2>1, <2>5 DEF CurrentBlockOK, InStep, Deleting
  <2> QED BY <1>2, <1>4, <1>5, <1>6, <1>7, <2>1, <2>2, <2>3, <2>4, <2>6 DEF HeightsInv
<1>9. CASE op.target # Null
  <2>1. KeptHeight = op.target /\ CachedHeight = lastBlockHeight /\ op.target \in 0 .. last
    BY <1>3, <1>4, <1>9, HeightsOfStep
  <2>2. CacheRange(cache, last) /\ (cache.max = -1 \/ last \in DOMAIN cache.blocks)
    BY <1>4, <1>5, <2>1, EvitedRange
  <2> HIDE DEF cache
  <2>3. CASE HasBlocksAbove(op.target, last)
    <3>1. op' = [step |-> "deleteBlock", target |-> op.target]
          /\ cachedBlocks' = cache /\ UNCHANGED currentBlock
      BY <1>2, <1>3, <1>9, <2>3
    <3>2. op.target \in 0 .. last - 1
      BY <1>7, <2>1, <2>3 DEF HasBlocksAbove
    <3>3. OpOK' /\ BlockRowsOK'
      BY <1>2, <1>4, <3>1, <3>2 DEF OpOK, BlockRowsOK, InStep
    <3>4. KeptHeight' = op.target /\ CachedHeight' = last
      BY <1>2, <1>9, <3>1 DEF KeptHeight, CachedHeight, InStep, Deleting
    <3>5. CurrentBlockOK'
      BY <1>5, <1>9, <3>1 DEF CurrentBlockOK, InStep, Deleting
    <3> QED BY <1>2, <1>4, <1>6, <1>7, <2>1, <2>2, <3>1, <3>3, <3>4, <3>5 DEF HeightsInv
  <2>4. CASE ~ HasBlocksAbove(op.target, last)
    <3>1. op.target = last
      <4>1. SUFFICES ASSUME op.target # last PROVE HasBlocksAbove(op.target, last)
        BY <2>4
      <4>2. op.target \in 0 .. last - 1 /\ last \in 1 .. MaxHeight /\ last > op.target
        BY <1>7, <2>1, <4>1
      <4> QED BY <4>2 DEF HasBlocksAbove, HeightsKept, ComparedAsNumbers
    <3>2. FinishRollback(last, cache)
      BY <1>2, <1>9, <2>4
    <3>3. /\ op' = [step |-> "idle"] /\ CacheRange(cachedBlocks', last)
          /\ currentBlock' = Null
      BY <1>4, <1>7, <2>2, <3>2, FinishedRollback
    <3>4. OpOK' /\ BlockRowsOK'
      BY <1>2, <1>4, <3>3 DEF OpOK, BlockRowsOK, InStep
    <3>5. KeptHeight' = last /\ CachedHeight' = last
      BY <1>2, <3>3 DEF KeptHeight, CachedHeight, InStep, Deleting
    <3>6. CurrentBlockOK'
      BY <3>3 DEF CurrentBlockOK, InStep, Deleting
    <3> QED BY <1>2, <1>4, <1>6, <1>7, <2>1, <3>1, <3>3, <3>4, <3>5, <3>6 DEF HeightsInv
  <2> QED BY <2>3, <2>4
<1> QED BY <1>8, <1>9

LEMMA RestartHeights ==
  ASSUME HeightsKept, HeightsInv, Restart
  PROVE  HeightsInv'
<1>1. InitFrom(blockRows, historyRows, table) /\ UNCHANGED <<blockRows, historyRows>>
      /\ ~ InStep("deleteHistory")
  BY DEF Restart, database, rows, HeightsKept, NotStoppedInDelete, InStep
<1>2. PICK m \in Int : /\ lastBlockHeight <= m /\ -1 <= m /\ m <= MaxHeight
                       /\ DOMAIN blockRows = 0 .. m
  <2>1. lastBlockHeight \in Int /\ -1 <= lastBlockHeight /\ lastBlockHeight <= MaxHeight
    BY DEF HeightsInv
  <2>2. CASE InStep("insertHistory")
    <3>1. currentBlock \in [height : 0 .. MaxHeight, id : BlockIds] /\ currentBlock.height = lastBlockHeight + 1
      BY <2>2 DEF HeightsInv, CurrentBlockOK, InStep
    <3>2. currentBlock.height \in 0 .. MaxHeight
      BY <3>1
    <3>3. DOMAIN blockRows = 0 .. lastBlockHeight + 1
      BY <2>2, HeightsOfStep
    <3> QED BY <2>1, <3>1, <3>2, <3>3
  <2>3. CASE ~ InStep("insertHistory")
    BY <1>1, <2>1, <2>3 DEF HeightsInv, BlockRowsOK
  <2> QED BY <2>2, <2>3
<1>3. LastHeightOf(blockRows) = m
  BY <1>2, LastOfRows DEF LastHeightOf
<1>4. /\ lastBlockHeight' = m /\ currentBlock' = Null /\ sessionSerial' = m /\ op' = [step |-> "idle"]
      /\ cachedBlocks' = IF m >= 0 THEN PushBlock(EmptyBlockCache, m, blockRows[m], MaxCached)
                         ELSE EmptyBlockCache
  BY <1>1, <1>3 DEF InitFrom, Idle
<1>5. CacheRange(cachedBlocks', m)
  <2>1. CASE m >= 0
    BY <1>4, <2>1, EmptyRange, PushedRange
  <2>2. CASE ~ (m >= 0)
    BY <1>4, <2>2, EmptyRange
  <2> QED BY <2>1, <2>2
<1>6. OpOK' /\ BlockRowsOK'
  BY <1>1, <1>2, <1>4 DEF OpOK, BlockRowsOK, InStep
<1>7. KeptHeight' = m /\ CachedHeight' = m
  BY <1>4 DEF KeptHeight, CachedHeight, InStep, Deleting
<1>8. CurrentBlockOK'
  BY <1>4 DEF CurrentBlockOK, InStep, Deleting
<1>9. DOMAIN historyRows' \subseteq 0 .. m
  BY <1>1, <1>2 DEF HeightsInv
<1> QED BY <1>1, <1>2, <1>4, <1>5, <1>6, <1>7, <1>8, <1>9 DEF HeightsInv

(***************************************************************************)
(* The heights under every step of SmartDB.                                *)
(***************************************************************************)
LEMMA HeightsStep ==
  ASSUME HeightsKept, HeightsInv, [Next]_vars
  PROVE  HeightsInv'
<1>1. ASSUME TrackerOnly PROVE HeightsInv'
  BY <1>1, HeightsUnchanged DEF TrackerOnly, heightVars, database, rows, blockVars
<1>2. CASE Contract
  BY <1>1, <1>2 DEF Contract, BeginContract, CommitContract, RollbackContract, CastVote, Unvote
<1>3. CASE AccountChange
  BY <1>1, <1>3 DEF AccountChange, LoadAccount, CreateAccount, UpdateAccount
<1>4. CASE CommitBlock
  BY <1>4, BeginBlockHeights, InsertBlockHeights, InsertHistoryHeights, SaveChangesHeights,
     SaveChangesFailHeights DEF CommitBlock
<1>5. CASE Rollback
  <2>1. CASE DeleteBlock \/ DeleteHistory
    BY <2>1, DeleteBlockHeights, DeleteHistoryHeights
  <2>2. ASSUME NEW target \in 0 .. lastBlockHeight, RollbackTo(target) PROVE HeightsInv'
    <3>1. lastBlockHeight \in Int /\ target \in Int /\ 0 <= target /\ target <= lastBlockHeight
      BY DEF HeightsInv
    <3>2. InStep("idle") /\ ~ InStep("rollback") /\ RollbackBlock(target)
      BY <2>2 DEF RollbackTo, NoContract, NoBlockOperation, InStep
    <3> QED BY <3>1, <3>2, RollbackHeights
  <2>3. CASE RollbackAfterError
    <3>1. lastBlockHeight \in Int /\ -1 <= lastBlockHeight /\ lastBlockHeight <= lastBlockHeight
      BY DEF HeightsInv
    <3>2. InStep("rollback") /\ RollbackBlock(lastBlockHeight)
      BY <2>3 DEF RollbackAfterError
    <3> QED BY <3>1, <3>2, RollbackHeights
  <2> QED BY <1>5, <2>1, <2>2, <2>3 DEF Rollback
<1>6. CASE Restart
  BY <1>6, RestartHeights
<1>7. CASE TrackRead
  BY <1>7, HeightsUnchanged DEF TrackRead, heightVars, database, rows, blockVars
<1>8. ASSUME NEW k \in Readers, ReadAccount(k) PROVE HeightsInv'
  BY <1>8, HeightsUnchanged DEF ReadAccount, heightVars, database, rows, blockVars, session
<1>9. ASSUME NEW k \in Evictable, EvictEntity(k) PROVE HeightsInv'
  BY <1>1, <1>9 DEF EvictEntity
<1>10. CASE UNCHANGED vars
  BY <1>10, HeightsUnchanged DEF vars, heightVars, database, rows, blockVars, session
<1> QED BY <1>2, <1>3, <1>4, <1>5, <1>6, <1>7, <1>8, <1>9, <1>10 DEF Next

(***************************************************************************)
(* The inductive invariant of the heights: the Block table has the rows of *)
(* the heights 0 to lastBlockHeight, but for a block that is being saved   *)
(* or deleted, and BlockHistory none above; the entities are of the height *)
(* of the last block that is neither; the block cache goes up to it; and a *)
(* current block is of the next height, in every step of commitBlock,      *)
(* rollbackBlock and init.                                                 *)
(***************************************************************************)
THEOREM HeightsCorrect == HeightsKept => (Spec => []HeightsInv)
<1>1. SUFFICES ASSUME HeightsKept PROVE Spec => []HeightsInv
  OBVIOUS
<1>2. Init => HeightsInv
  BY HeightsInit
<1>3. HeightsInv /\ [Next]_vars => HeightsInv'
  BY <1>1, HeightsStep
<1> QED BY <1>2, <1>3, PTL DEF Spec

(***************************************************************************)
(* The blocks and the entities have one height, though the insertion of a  *)
(* block, the saving and the reverting of its entities may fail, wherever  *)
(* the process stops but between the two deletes of a block                *)
(* (deleteLastBlock), if heights compare as numbers.                       *)
(***************************************************************************)
THEOREM SameHeightCorrect == HeightsKept => (Spec => []SameHeight)
<1>1. SUFFICES ASSUME HeightsKept PROVE Spec => []SameHeight
  OBVIOUS
<1>2. HeightsInv => SameHeight
  BY HeightsOfStep DEF HeightsInv, SameHeight, NoBlockOperation
<1> QED BY <1>1, <1>2, HeightsCorrect, PTL

-----------------------------------------------------------------------------
(***************************************************************************)
(* The data of the storage: tables, tracker, locks, the height they are    *)
(* of, and the history rows.  Pending changes lead from the tables to what *)
(* they are before and in the running contract, the history rows lead from *)
(* empty tables to the present ones.                                       *)
(***************************************************************************)
IsTracker(t) ==
  /\ DOMAIN t = {"cache", "confirming", "unconfirmed", "confirmed", "history",
                 "minVersion", "currentVersion", "threw"}
  /\ t.cache \in Tables
  /\ t.confirming \in BOOLEAN /\ t.threw \in BOOLEAN
  /\ t.unconfirmed \in Seq(Changes) /\ t.confirmed \in Seq(Changes)
  /\ ~ t.confirming => t.unconfirmed = <<>>

PendingKeys(t) == Changed(t.confirmed) \cup Changed(t.unconfirmed)

PendingFits(tab, t, kept, now) ==
  /\ Leads(tab, t.confirmed, kept)
  /\ Leads(kept, t.unconfirmed, now)
  /\ GoesWith(t.cache, now, PendingKeys(t))

LocksFit(t, held) ==
  /\ held \in [confirmed : SUBSET Votes, unconfirmed : SUBSET Votes]
  /\ Changed(t.confirmed) \cap Votes \subseteq held.confirmed
  /\ Changed(t.unconfirmed) \cap Votes \subseteq held.confirmed \cup held.unconfirmed

HistoryFits(t, height, history) ==
  /\ height \in Int /\ height >= -1
  /\ t.currentVersion = height
  /\ t.minVersion \in Int /\ t.minVersion <= height
  /\ DOMAIN t.history \subseteq 0 .. MaxHeight
  /\ \A h \in DOMAIN t.history : h <= height => t.history[h] = history[h]

Chained(T, n, history, tab) ==
  /\ T[0] = EmptyTable /\ T[n] = tab
  /\ \A i \in 1 .. n : i - 1 \in DOMAIN history /\ Leads(T[i - 1], history[i - 1], T[i])

Held(tab, t, held, height, history, kept, now, T) ==
  /\ IsTracker(t)
  /\ PendingFits(tab, t, kept, now)
  /\ LocksFit(t, held)
  /\ HistoryFits(t, height, history)
  /\ Chained(T, height + 1, history, tab)

LEMMA LeadsNothing ==
  ASSUME NEW a, NEW b, Leads(a, <<>>, b)
  PROVE  a = b
<1>1. PICK S : Trail(S, a, <<>>, b)
  BY DEF Leads
<1>2. Len(<<>>) = 0
  OBVIOUS
<1> QED BY <1>1, <1>2 DEF Trail

LEMMA ChangedAppend ==
  ASSUME NEW changes \in Seq(Changes), NEW c \in Changes
  PROVE  Append(changes, c) \in Seq(Changes) /\ Changed(Append(changes, c)) = Changed(changes) \cup {c.key}
<1> DEFINE more == Append(changes, c)
           n == Len(changes)
<1>1. /\ more \in Seq(Changes) /\ n \in Nat /\ DOMAIN changes = 1 .. n /\ DOMAIN more = 1 .. n + 1
      /\ more[n + 1] = c /\ \A i \in 1 .. n : more[i] = changes[i]
  OBVIOUS
<1> HIDE DEF more, n
<1>2. \A i \in 1 .. n + 1 : i \in 1 .. n \/ i = n + 1
  BY <1>1
<1>3. 1 .. n \subseteq 1 .. n + 1 /\ n + 1 \in 1 .. n + 1
  BY <1>1
<1> QED BY <1>1, <1>2, <1>3 DEF Changed, more

LEMMA ChangedConcat ==
  ASSUME NEW ds \in Seq(Changes), NEW es \in Seq(Changes)
  PROVE  ds \o es \in Seq(Changes) /\ Changed(ds \o es) = Changed(ds) \cup Changed(es)
<1> DEFINE both == ds \o es
           n == Len(ds)
           m == Len(es)
<1>1. /\ both \in Seq(Changes) /\ n \in Nat /\ m \in Nat
      /\ DOMAIN ds = 1 .. n /\ DOMAIN es = 1 .. m /\ DOMAIN both = 1 .. n + m
      /\ \A i \in 1 .. n + m : both[i] = IF i <= n THEN ds[i] ELSE es[i - n]
  BY ConcatProperties
<1> HIDE DEF both, n, m
<1>2. ASSUME NEW i \in 1 .. n + m
      PROVE  both[i].key \in Changed(ds) \cup Changed(es)
  <2>1. CASE i <= n
    <3>1. i \in 1 .. n /\ both[i] = ds[i]
      BY <1>1, <2>1
    <3> QED BY <1>1, <3>1 DEF Changed
  <2>2. CASE ~ (i <= n)
    <3>1. i - n \in 1 .. m /\ both[i] = es[i - n]
      BY <1>1, <2>2
    <3> QED BY <1>1, <3>1 DEF Changed
  <2> QED BY <2>1, <2>2
<1>3. \A i \in 1 .. n : i \in 1 .. n + m /\ both[i] = ds[i]
  BY <1>1
<1>4. \A i \in 1 .. m : n + i \in 1 .. n + m /\ both[n + i] = es[i]
  BY <1>1
<1>5. Changed(both) \subseteq Changed(ds) \cup Changed(es)
  BY <1>1, <1>2 DEF Changed
<1>6. ASSUME NEW k \in Changed(ds) \cup Changed(es) PROVE k \in Changed(both)
  <2>1. CASE k \in Changed(ds)
    <3>1. PICK i \in 1 .. n : k = ds[i].key
      BY <1>1, <2>1 DEF Changed
    <3> QED BY <1>1, <1>3, <3>1 DEF Changed
  <2>2. CASE k \in Changed(es)
    <3>1. PICK i \in 1 .. m : k = es[i].key
      BY <1>1, <2>2 DEF Changed
    <3>2. n + i \in DOMAIN both /\ both[n + i].key = k
      BY <1>1, <1>4, <3>1
    <3> QED BY <3>2 DEF Changed
  <2> QED BY <1>6, <2>1, <2>2
<1> QED BY <1>1, <1>5, <1>6 DEF both

LEMMA NoneChanged == <<>> \in Seq(Changes) /\ Changed(<<>>) = {}
BY DEF Changed

(* What is known of the keys of pending changes *)
LEMMA PendingRow ==
  ASSUME NEW tab, NEW t, NEW kept, NEW now, IsTracker(t), PendingFits(tab, t, kept, now), NEW k \in Key
  PROVE  /\ k \notin PendingKeys(t) => now[k] = tab[k]
         /\ k \in PendingKeys(t) => t.cache[k] = now[k]
         /\ k \in PendingKeys(t) /\ k \in Accounts => now[k] # Absent
<1>1. /\ Leads(tab, t.confirmed, kept) /\ Leads(kept, t.unconfirmed, now)
      /\ k \in PendingKeys(t) => t.cache[k] = now[k]
  BY DEF PendingFits, GoesWith
<1>2. \/ k \notin Changed(t.unconfirmed) /\ now[k] = kept[k]
      \/ k \in Changed(t.unconfirmed) /\ (k \in Accounts => now[k] # Absent)
  <2>1. /\ DOMAIN t.unconfirmed = 1 .. Len(t.unconfirmed)
        /\ \A i \in 1 .. Len(t.unconfirmed) : t.unconfirmed[i] \in Changes
    BY <1>1, LeadsTables
  <2>2. \/ k \notin Changed(t.unconfirmed) /\ now[k] = kept[k]
        \/ \E i \in 1 .. Len(t.unconfirmed) :
              t.unconfirmed[i].key = k /\ now[k] = t.unconfirmed[i].current
    BY <1>1, LeadsRow
  <2> QED BY <2>1, <2>2, ChangeParts DEF Changed
<1>3. \/ k \notin Changed(t.confirmed) /\ kept[k] = tab[k]
      \/ k \in Changed(t.confirmed) /\ (k \in Accounts => kept[k] # Absent)
  <2>1. /\ DOMAIN t.confirmed = 1 .. Len(t.confirmed)
        /\ \A i \in 1 .. Len(t.confirmed) : t.confirmed[i] \in Changes
    BY <1>1, LeadsTables
  <2>2. \/ k \notin Changed(t.confirmed) /\ kept[k] = tab[k]
        \/ \E i \in 1 .. Len(t.confirmed) :
              t.confirmed[i].key = k /\ kept[k] = t.confirmed[i].current
    BY <1>1, LeadsRow
  <2> QED BY <2>1, <2>2, ChangeParts DEF Changed
<1> QED BY <1>1, <1>2, <1>3 DEF PendingKeys

(* What the operations of the tracker do with the data *)

LEMMA TrackerDomain ==
  ASSUME NEW t, IsTracker(t)
  PROVE  DOMAIN t = {"cache", "confirming", "unconfirmed", "confirmed", "history",
                     "minVersion", "currentVersion", "threw"}
BY DEF IsTracker

LEMMA HeldCached ==
  ASSUME NEW tab, NEW t, NEW held, NEW height, NEW history, NEW kept, NEW now, NEW T,
         Held(tab, t, held, height, history, kept, now, T),
         NEW k \in Key, k \notin PendingKeys(t), NEW e \in Stored, e \in {Absent, tab[k]}
  PROVE  LET t1 == [t EXCEPT !.cache[k] = e]
         IN  /\ Held(tab, t1, held, height, history, kept, now, T)
             /\ t1.cache[k] = e /\ t1.confirming = t.confirming /\ PendingKeys(t1) = PendingKeys(t)
             /\ t1.confirmed = t.confirmed /\ t1.unconfirmed = t.unconfirmed
<1> DEFINE t1 == [t EXCEPT !.cache[k] = e]
<1>1. IsTracker(t) /\ PendingFits(tab, t, kept, now)
  BY DEF Held
<1>2. DOMAIN t = {"cache", "confirming", "unconfirmed", "confirmed", "history",
                  "minVersion", "currentVersion", "threw"}
  BY <1>1, TrackerDomain
<1>3. /\ DOMAIN t1 = DOMAIN t
      /\ t1.cache = [t.cache EXCEPT ![k] = e] /\ t1.confirming = t.confirming
      /\ t1.unconfirmed = t.unconfirmed /\ t1.confirmed = t.confirmed /\ t1.history = t.history
      /\ t1.minVersion = t.minVersion /\ t1.currentVersion = t.currentVersion /\ t1.threw = t.threw
  BY ONLY <1>2
<1> HIDE DEF t1
<1>4. t1.cache \in Tables /\ t1.cache[k] = e /\ \A x \in Key : x # k => t1.cache[x] = t.cache[x]
  BY <1>1, <1>3 DEF IsTracker, Tables
<1>5. IsTracker(t1)
  BY <1>1, <1>3, <1>4 DEF IsTracker
<1>6. PendingKeys(t1) = PendingKeys(t)
  BY <1>3 DEF PendingKeys
<1>7. now[k] = tab[k]
  BY <1>1, PendingRow
<1>8. GoesWith(t1.cache, now, PendingKeys(t))
  <2>1. GoesWith(t.cache, now, PendingKeys(t))
    BY <1>1 DEF PendingFits
  <2>2. ASSUME NEW x \in Key
        PROVE  (t1.cache[x] # Absent => t1.cache[x] = now[x]) /\ (x \in PendingKeys(t) => t1.cache[x] = now[x])
    BY <1>4, <1>7, <2>1 DEF GoesWith
  <2> QED BY <2>2 DEF GoesWith
<1>9. PendingFits(tab, t1, kept, now)
  BY <1>1, <1>3, <1>6, <1>8 DEF PendingFits
<1>10. LocksFit(t1, held) /\ HistoryFits(t1, height, history)
  BY <1>3 DEF Held, LocksFit, HistoryFits
<1>11. Held(tab, t1, held, height, history, kept, now, T)
  BY <1>5, <1>9, <1>10 DEF Held
<1> QED BY <1>3, <1>4, <1>6, <1>11 DEF t1

LEMMA HeldChanged ==
  ASSUME NEW tab, NEW t, NEW held, NEW height, NEW history, NEW kept, NEW now, NEW T,
         Held(tab, t, held, height, history, kept, now, T),
         NEW c \in Changes, now[c.key] = c.original,
         c.key \in Votes => c.key \in held.confirmed \cup (IF t.confirming THEN held.unconfirmed ELSE {})
  PROVE  LET t1 == PushChange([t EXCEPT !.cache[c.key] = c.current], c)
         IN  /\ Held(tab, t1, held, height, history,
                     IF t.confirming THEN kept ELSE Made(now, c), Made(now, c), T)
             /\ t1.confirming = t.confirming
<1> DEFINE cache == [t.cache EXCEPT ![c.key] = c.current]
           t1 == PushChange([t EXCEPT !.cache[c.key] = c.current], c)
           unconfirmed == IF t.confirming THEN Append(t.unconfirmed, c) ELSE t.unconfirmed
           confirmed == IF t.confirming THEN t.confirmed ELSE Append(t.confirmed, c)
           kept1 == IF t.confirming THEN kept ELSE Made(now, c)
<1>1. IsTracker(t) /\ PendingFits(tab, t, kept, now) /\ LocksFit(t, held)
  BY DEF Held
<1>2. c.key \in Key /\ c.current \in Stored
  BY ChangeParts
<1>3. DOMAIN t = {"cache", "confirming", "unconfirmed", "confirmed", "history",
                  "minVersion", "currentVersion", "threw"}
  BY <1>1, TrackerDomain
<1>8. /\ DOMAIN t1 = DOMAIN t
      /\ t1.cache = cache /\ t1.confirming = t.confirming
      /\ t1.unconfirmed = unconfirmed /\ t1.confirmed = confirmed /\ t1.history = t.history
      /\ t1.minVersion = t.minVersion /\ t1.currentVersion = t.currentVersion /\ t1.threw = t.threw
  <2>1. CASE t.confirming
    BY ONLY <1>3, <2>1 DEF PushChange
  <2>2. CASE ~ t.confirming
    BY ONLY <1>3, <2>2 DEF PushChange
  <2> QED BY <2>1, <2>2
<1>4. cache \in Tables /\ cache[c.key] = c.current /\ \A x \in Key : x # c.key => cache[x] = t.cache[x]
  BY <1>1, <1>2 DEF IsTracker, Tables
<1>5. /\ t.confirming \in BOOLEAN
      /\ t.unconfirmed \in Seq(Changes) /\ t.confirmed \in Seq(Changes)
      /\ ~ t.confirming => t.unconfirmed = <<>>
  BY <1>1 DEF IsTracker
<1>6. /\ unconfirmed \in Seq(Changes) /\ confirmed \in Seq(Changes)
      /\ Changed(unconfirmed) = IF t.confirming THEN Changed(t.unconfirmed) \cup {c.key} ELSE {}
      /\ Changed(confirmed) = IF t.confirming THEN Changed(t.confirmed) ELSE Changed(t.confirmed) \cup {c.key}
      /\ ~ t.confirming => unconfirmed = <<>> /\ Changed(t.unconfirmed) = {}
  BY <1>5, ChangedAppend, NoneChanged
<1>7. Leads(tab, confirmed, kept1) /\ Leads(kept1, unconfirmed, Made(now, c))
  <2>0. Leads(tab, t.confirmed, kept) /\ Leads(kept, t.unconfirmed, now)
    BY <1>1 DEF PendingFits
  <2>1. CASE t.confirming
    BY <2>0, <2>1, LeadsFurther
  <2>2. CASE ~ t.confirming
    <3>1. kept = now
      BY <1>5, <2>0, <2>2, LeadsNothing
    <3>2. Leads(tab, confirmed, Made(now, c))
      BY <2>0, <2>2, <3>1, LeadsFurther
    <3>3. Made(now, c) \in Tables
      BY <3>2, LeadsTables
    <3> QED BY <1>5, <2>2, <3>2, <3>3, LeadsNowhere
  <2> QED BY <2>1, <2>2
<1> HIDE DEF t1, cache, unconfirmed, confirmed, kept1
<1>9. IsTracker(t1)
  BY <1>1, <1>4, <1>6, <1>8 DEF IsTracker
<1>10. PendingKeys(t1) = PendingKeys(t) \cup {c.key}
  BY <1>5, <1>6, <1>8 DEF PendingKeys
<1>11. GoesWith(cache, Made(now, c), PendingKeys(t1))
  <2>1. GoesWith(t.cache, now, PendingKeys(t))
    BY <1>1 DEF PendingFits
  <2>2. now \in Tables
    BY <1>1, LeadsTables DEF PendingFits
  <2>3. \A x \in Key : Made(now, c)[x] = IF x = c.key THEN c.current ELSE now[x]
    BY <2>2, MadeTable
  <2>4. ASSUME NEW x \in Key
        PROVE  /\ cache[x] # Absent => cache[x] = Made(now, c)[x]
               /\ x \in PendingKeys(t1) => cache[x] = Made(now, c)[x]
    BY <1>4, <1>10, <2>1, <2>3 DEF GoesWith
  <2> QED BY <2>4 DEF GoesWith
<1>12. PendingFits(tab, t1, kept1, Made(now, c))
  BY <1>7, <1>8, <1>11 DEF PendingFits
<1>13. LocksFit(t1, held)
  BY <1>1, <1>5, <1>6, <1>8 DEF LocksFit
<1>14. HistoryFits(t1, height, history)
  BY <1>8 DEF Held, HistoryFits
<1>15. Held(tab, t1, held, height, history, kept1, Made(now, c), T)
  BY <1>9, <1>12, <1>13, <1>14 DEF Held
<1> QED BY <1>8, <1>15 DEF t1, kept1

LEMMA HeldLocked ==
  ASSUME NEW tab, NEW t, NEW held, NEW height, NEW history, NEW kept, NEW now, NEW T,
         Held(tab, t, held, height, history, kept, now, T),
         NEW more \in [confirmed : SUBSET Votes, unconfirmed : SUBSET Votes],
         held.confirmed \subseteq more.confirmed, held.unconfirmed \subseteq more.confirmed \cup more.unconfirmed
  PROVE  Held(tab, t, more, height, history, kept, now, T)
<1>1. LocksFit(t, held)
  BY DEF Held
<1>2. LocksFit(t, more)
  BY <1>1 DEF LocksFit
<1> QED BY <1>2 DEF Held

LEMMA HeldRows ==
  ASSUME NEW tab, NEW t, NEW held, NEW height, NEW history, NEW kept, NEW now, NEW T,
         Held(tab, t, held, height, history, kept, now, T),
         NEW rows1, \A h \in 0 .. height : rows1[h] = history[h] /\ (h \in DOMAIN history => h \in DOMAIN rows1)
  PROVE  Held(tab, t, held, height, rows1, kept, now, T)
<1>1. HistoryFits(t, height, history) /\ Chained(T, height + 1, history, tab)
  BY DEF Held
<1>2. height \in Int /\ height >= -1 /\ \A h \in DOMAIN t.history : h \in Nat
  BY <1>1 DEF HistoryFits
<1>3. HistoryFits(t, height, rows1)
  BY <1>1, <1>2 DEF HistoryFits
<1>4. \A i \in 1 .. height + 1 : i - 1 \in 0 .. height
  BY <1>2
<1>5. Chained(T, height + 1, rows1, tab)
  BY <1>1, <1>4 DEF Chained
<1> QED BY <1>3, <1>5 DEF Held

LEMMA HeldBegun ==
  ASSUME NEW tab, NEW t, NEW held, NEW height, NEW history, NEW kept, NEW now, NEW T,
         Held(tab, t, held, height, history, kept, now, T), ~ t.confirming
  PROVE  /\ kept = now
         /\ Held(tab, BeginConfirm(t), held, height, history, kept, now, T)
         /\ BeginConfirm(t).confirming
<1> DEFINE t1 == BeginConfirm(t)
<1>1. IsTracker(t) /\ PendingFits(tab, t, kept, now)
  BY DEF Held
<1>2. t.unconfirmed = <<>> /\ kept = now
  BY <1>1, LeadsNothing DEF IsTracker, PendingFits
<1>3. DOMAIN t = {"cache", "confirming", "unconfirmed", "confirmed", "history",
                  "minVersion", "currentVersion", "threw"}
  BY <1>1, TrackerDomain
<1>4. /\ DOMAIN t1 = DOMAIN t
      /\ t1.cache = t.cache /\ t1.confirming = TRUE
      /\ t1.unconfirmed = t.unconfirmed /\ t1.confirmed = t.confirmed /\ t1.history = t.history
      /\ t1.minVersion = t.minVersion /\ t1.currentVersion = t.currentVersion /\ t1.threw = t.threw
  BY ONLY <1>2, <1>3 DEF BeginConfirm
<1> HIDE DEF t1
<1>5. IsTracker(t1)
  BY <1>1, <1>4 DEF IsTracker
<1>6. PendingFits(tab, t1, kept, now) /\ LocksFit(t1, held) /\ HistoryFits(t1, height, history)
  BY <1>4 DEF Held, PendingFits, PendingKeys, LocksFit, HistoryFits
<1> QED BY <1>2, <1>4, <1>5, <1>6 DEF Held, t1

LEMMA HeldConfirmed ==
  ASSUME NEW tab, NEW t, NEW held, NEW height, NEW history, NEW kept, NEW now, NEW T,
         Held(tab, t, held, height, history, kept, now, T)
  PROVE  /\ Held(tab, Confirm(t), [held EXCEPT !.confirmed = @ \cup held.unconfirmed],
                 height, history, now, now, T)
         /\ ~ Confirm(t).confirming
         /\ t.unconfirmed = <<>> => Confirm(t).confirmed = t.confirmed
<1> DEFINE t1 == Confirm(t)
           more == [held EXCEPT !.confirmed = @ \cup held.unconfirmed]
<1>1. IsTracker(t) /\ PendingFits(tab, t, kept, now) /\ LocksFit(t, held)
  BY DEF Held
<1>2. DOMAIN t = {"cache", "confirming", "unconfirmed", "confirmed", "history",
                  "minVersion", "currentVersion", "threw"}
  BY <1>1, TrackerDomain
<1>3. t.confirmed \in Seq(Changes) /\ t.unconfirmed \in Seq(Changes)
  BY <1>1 DEF IsTracker
<1> DEFINE both == t.confirmed \o t.unconfirmed
<1>4. both \in Seq(Changes) /\ Changed(both) \subseteq PendingKeys(t)
  BY <1>3, ChangedConcat DEF PendingKeys
<1>5. t.unconfirmed = <<>> => both = t.confirmed
  BY <1>3
<1>6. /\ DOMAIN t1 = DOMAIN t
      /\ t1.cache = t.cache /\ t1.confirming = FALSE
      /\ t1.unconfirmed = <<>> /\ t1.confirmed = both /\ t1.history = t.history
      /\ t1.minVersion = t.minVersion /\ t1.currentVersion = t.currentVersion /\ t1.threw = t.threw
  BY ONLY <1>2 DEF Confirm
<1> HIDE DEF t1, both
<1>8. IsTracker(t1)
  BY <1>1, <1>4, <1>6, NoneChanged DEF IsTracker
<1>9. PendingFits(tab, t1, now, now)
  <2>1. Leads(tab, both, now) /\ now \in Tables
    BY <1>1, LeadsOn, LeadsTables DEF PendingFits, both
  <2>2. Leads(now, <<>>, now)
    BY <2>1, LeadsNowhere
  <2>3. PendingKeys(t1) \subseteq PendingKeys(t)
    BY <1>4, <1>6, NoneChanged DEF PendingKeys
  <2>4. GoesWith(t.cache, now, PendingKeys(t))
    BY <1>1 DEF PendingFits
  <2>5. GoesWith(t1.cache, now, PendingKeys(t1))
    BY <1>6, <2>3, <2>4 DEF GoesWith
  <2> QED BY <1>6, <2>1, <2>2, <2>5 DEF PendingFits
<1>10. LocksFit(t1, more)
  <2>1. held \in [confirmed : SUBSET Votes, unconfirmed : SUBSET Votes]
    BY <1>1 DEF LocksFit
  <2>2. /\ more \in [confirmed : SUBSET Votes, unconfirmed : SUBSET Votes]
        /\ more.confirmed = held.confirmed \cup held.unconfirmed /\ more.unconfirmed = held.unconfirmed
    BY <2>1
  <2> HIDE DEF more
  <2>3. Changed(both) \cap Votes \subseteq held.confirmed \cup held.unconfirmed
    BY <1>1, <1>4 DEF LocksFit, PendingKeys
  <2> QED BY <1>6, <2>2, <2>3, NoneChanged DEF LocksFit
<1>11. HistoryFits(t1, height, history)
  BY <1>6 DEF Held, HistoryFits
<1>12. Held(tab, t1, more, height, history, now, now, T)
  BY <1>8, <1>9, <1>10, <1>11 DEF Held
<1> QED BY <1>5, <1>6, <1>12 DEF t1, more

LEMMA NothingKept ==
  ASSUME NEW changes \in Seq(Changes)
  PROVE  Keep(changes, 0) = <<>>
BY DEF Keep

(* Undoing the changes of a contract never throws *)
LEMMA HeldCancelled ==
  ASSUME NEW tab, NEW t, NEW held, NEW height, NEW history, NEW kept, NEW now, NEW T,
         Held(tab, t, held, height, history, kept, now, T)
  PROVE  LET t1 == CancelConfirm(t)
         IN  /\ Held(tab, t1, [held EXCEPT !.unconfirmed = {}], height, history, kept, kept, T)
             /\ ~ t1.threw /\ ~ t1.confirming /\ t1.unconfirmed = <<>> /\ t1.confirmed = t.confirmed
             /\ t1.history = t.history /\ t1.minVersion = t.minVersion
             /\ t1.currentVersion = t.currentVersion
<1> DEFINE t1 == CancelConfirm(t)
           less == [held EXCEPT !.unconfirmed = {}]
<1>1. IsTracker(t) /\ PendingFits(tab, t, kept, now) /\ LocksFit(t, held)
  BY DEF Held
<1>2. DOMAIN t = {"cache", "confirming", "unconfirmed", "confirmed", "history",
                  "minVersion", "currentVersion", "threw"}
  BY <1>1, TrackerDomain
<1>3. t.cache \in Tables /\ t.unconfirmed \in Seq(Changes)
  BY <1>1 DEF IsTracker
<1>4. PICK cache \in Tables :
         /\ UndoChanges(t.cache, t.unconfirmed) = [cache |-> cache, left |-> 0, throws |-> FALSE]
         /\ GoesWith(cache, kept, PendingKeys(t))
  BY <1>1, <1>3, UndoneCache DEF PendingFits
<1>5. Keep(t.unconfirmed, 0) = <<>>
  BY <1>3, NothingKept
<1> DEFINE u == UndoChanges(t.cache, t.unconfirmed)
<1>6. u.cache = cache /\ u.left = 0 /\ u.throws = FALSE
  BY <1>4
<1> HIDE DEF u
<1>7. /\ DOMAIN t1 = DOMAIN t
      /\ t1.cache = u.cache /\ t1.confirming = (t.confirming /\ u.throws)
      /\ t1.unconfirmed = Keep(t.unconfirmed, u.left) /\ t1.confirmed = t.confirmed
      /\ t1.history = t.history /\ t1.minVersion = t.minVersion
      /\ t1.currentVersion = t.currentVersion /\ t1.threw = u.throws
  BY ONLY <1>2 DEF CancelConfirm, u
<1> HIDE DEF t1
<1>8. t1.cache = cache /\ t1.confirming = FALSE /\ t1.unconfirmed = <<>> /\ t1.threw = FALSE
  BY <1>5, <1>6, <1>7
<1>9. IsTracker(t1)
  BY <1>1, <1>4, <1>7, <1>8, NoneChanged DEF IsTracker
<1>10. PendingFits(tab, t1, kept, kept)
  <2>1. Leads(tab, t.confirmed, kept)
    BY <1>1 DEF PendingFits
  <2>2. Leads(kept, <<>>, kept)
    BY <2>1, LeadsTables, LeadsNowhere
  <2>3. PendingKeys(t1) \subseteq PendingKeys(t)
    BY <1>7, <1>8, NoneChanged DEF PendingKeys
  <2>4. GoesWith(t1.cache, kept, PendingKeys(t1))
    BY <1>4, <1>8, <2>3 DEF GoesWith
  <2> QED BY <1>7, <1>8, <2>1, <2>2, <2>4 DEF PendingFits
<1>11. LocksFit(t1, less)
  <2>1. held \in [confirmed : SUBSET Votes, unconfirmed : SUBSET Votes]
    BY <1>1 DEF LocksFit
  <2>2. /\ less \in [confirmed : SUBSET Votes, unconfirmed : SUBSET Votes]
        /\ less.confirmed = held.confirmed /\ less.unconfirmed = {}
    BY <2>1
  <2> HIDE DEF less
  <2> QED BY <1>1, <1>7, <1>8, <2>2, NoneChanged DEF LocksFit
<1>12. HistoryFits(t1, height, history)
  BY <1>7 DEF Held, HistoryFits
<1>13. Held(tab, t1, less, height, history, kept, kept, T)
  BY <1>9, <1>10, <1>11, <1>12 DEF Held
<1> QED BY <1>7, <1>8, <1>13 DEF t1, less

LEMMA HeldRejected ==
  ASSUME NEW tab, NEW t, NEW held, NEW height, NEW history, NEW kept, NEW now, NEW T,
         Held(tab, t, held, height, history, kept, now, T)
  PROVE  LET t1 == RejectChanges(t)
         IN  /\ Held(tab, t1, NoLocks, height, history, tab, tab, T)
             /\ ~ t1.threw /\ ~ t1.confirming /\ t1.unconfirmed = <<>> /\ t1.confirmed = <<>>
             /\ t1.history = t.history /\ t1.minVersion = t.minVersion
             /\ t1.currentVersion = t.currentVersion
<1> DEFINE c == CancelConfirm(t)
           t1 == RejectChanges(t)
           free == [held EXCEPT !.unconfirmed = {}]
<1>1. /\ Held(tab, c, free, height, history, kept, kept, T)
      /\ ~ c.threw /\ ~ c.confirming /\ c.unconfirmed = <<>> /\ c.confirmed = t.confirmed
      /\ c.history = t.history /\ c.minVersion = t.minVersion /\ c.currentVersion = t.currentVersion
  BY HeldCancelled
<1> DEFINE u == UndoChanges(c.cache, c.confirmed)
<1>0. t1 = IF c.threw THEN c
           ELSE [c EXCEPT !.cache = u.cache, !.confirmed = Keep(@, u.left), !.threw = u.throws]
  BY DEF RejectChanges
<1> HIDE DEF c, t1, free
<1>2. IsTracker(c) /\ PendingFits(tab, c, kept, kept)
  BY <1>1 DEF Held
<1>3. DOMAIN c = {"cache", "confirming", "unconfirmed", "confirmed", "history",
                  "minVersion", "currentVersion", "threw"}
  BY <1>2, TrackerDomain
<1>4. c.cache \in Tables /\ c.confirmed \in Seq(Changes)
  BY <1>2 DEF IsTracker
<1>5. PICK cache \in Tables :
         /\ UndoChanges(c.cache, c.confirmed) = [cache |-> cache, left |-> 0, throws |-> FALSE]
         /\ GoesWith(cache, tab, PendingKeys(c))
  BY <1>2, <1>4, UndoneCache DEF PendingFits
<1>6. u.cache = cache /\ u.left = 0 /\ u.throws = FALSE
  BY <1>5
<1>7. Keep(c.confirmed, 0) = <<>>
  BY <1>4, NothingKept
<1> HIDE DEF u
<1>8. /\ DOMAIN t1 = DOMAIN c
      /\ t1.cache = u.cache /\ t1.confirming = c.confirming
      /\ t1.unconfirmed = c.unconfirmed /\ t1.confirmed = Keep(c.confirmed, u.left)
      /\ t1.history = c.history /\ t1.minVersion = c.minVersion
      /\ t1.currentVersion = c.currentVersion /\ t1.threw = u.throws
  <2>1. t1 = [c EXCEPT !.cache = u.cache, !.confirmed = Keep(@, u.left), !.threw = u.throws]
    BY <1>0, <1>1
  <2> QED BY ONLY <1>3, <2>1
<1>9. t1.cache = cache /\ t1.confirmed = <<>> /\ t1.threw = FALSE /\ t1.unconfirmed = <<>> /\ ~ t1.confirming
  BY <1>1, <1>6, <1>7, <1>8
<1>10. IsTracker(t1)
  BY <1>2, <1>5, <1>8, <1>9, NoneChanged DEF IsTracker
<1>11. PendingFits(tab, t1, tab, tab)
  <2>1. tab \in Tables
    BY <1>2, LeadsTables DEF PendingFits
  <2>2. Leads(tab, <<>>, tab)
    BY <2>1, LeadsNowhere
  <2>3. PendingKeys(t1) = {}
    BY <1>9, NoneChanged DEF PendingKeys
  <2>4. GoesWith(t1.cache, tab, PendingKeys(t1))
    BY <1>5, <1>9, <2>3 DEF GoesWith
  <2> QED BY <1>9, <2>2, <2>4 DEF PendingFits
<1>12. LocksFit(t1, NoLocks)
  BY <1>9, NoneChanged DEF LocksFit, NoLocks
<1>13. HistoryFits(t1, height, history)
  BY <1>1, <1>8 DEF Held, HistoryFits
<1>14. Held(tab, t1, NoLocks, height, history, tab, tab, T)
  BY <1>1, <1>10, <1>11, <1>12, <1>13 DEF Held
<1> QED BY <1>1, <1>8, <1>9, <1>14 DEF t1

(* A process that starts *)
LEMMA HeldFresh ==
  ASSUME NEW tab \in Tables, NEW cache \in Tables, GoesWith(cache, tab, {}),
         NEW height \in Int, height >= -1, height <= MaxHeight, NEW history, DOMAIN history \subseteq Int, NEW T,
         Chained(T, height + 1, history, tab)
  PROVE  Held(tab, IF height >= 0 THEN InitVersion(NewTracker(cache), height, history) ELSE NewTracker(cache),
              NoLocks, height, history, tab, tab, T)
<1> DEFINE new == NewTracker(cache)
           t1 == IF height >= 0 THEN InitVersion(new, height, history) ELSE new
<1>1. /\ DOMAIN new = {"cache", "confirming", "unconfirmed", "confirmed", "history",
                       "minVersion", "currentVersion", "threw"}
      /\ new.cache = cache /\ new.confirming = FALSE /\ new.unconfirmed = <<>> /\ new.confirmed = <<>>
      /\ new.history = NoHistory /\ new.minVersion = -1 /\ new.currentVersion = -1 /\ new.threw = FALSE
  BY DEF NewTracker
<1> DEFINE one == RowsBetween(history, height, height)
           attached == AttachHistory(new, one)
<1>4. /\ HistoryFits(t1, height, history)
      /\ DOMAIN t1 = {"cache", "confirming", "unconfirmed", "confirmed", "history",
                      "minVersion", "currentVersion", "threw"}
      /\ t1.cache = cache /\ t1.confirming = FALSE /\ t1.unconfirmed = <<>>
      /\ t1.confirmed = <<>> /\ t1.threw = FALSE
  <2>2. CASE height >= 0
    <3>1. height \in DOMAIN history
      <4>1. height + 1 \in 1 .. height + 1 /\ (height + 1) - 1 = height
        BY <2>2
      <4> QED BY <4>1 DEF Chained
    <3>2. DOMAIN one = {height} /\ one[height] = history[height]
      <4>1. one = [h \in {x \in DOMAIN history : height <= x /\ x <= height} |-> history[h]]
        BY DEF RowsBetween, RestrictDomain, Restrict
      <4>2. {x \in DOMAIN history : height <= x /\ x <= height} = {height}
        BY <3>1
      <4> QED BY <4>1, <4>2
    <3>3. t1 = attached
      BY <1>1, <2>2 DEF InitVersion
    <3> HIDE DEF t1, new, one
    <3>4. Min({height}) = height /\ Max({height} \cup {-1}) = height
      <4>1. {height} \in SUBSET (height .. height) /\ height \in {height}
        OBVIOUS
      <4>2. Min({height}) = height
        BY <4>1, FirstOfInterval
      <4>3. {height} \cup {-1} = {height, -1}
        OBVIOUS
      <4>4. Max({height, -1}) = height
        BY <2>2, HigherOf
      <4> QED BY <4>2, <4>3, <4>4
    <3>5. /\ DOMAIN attached = DOMAIN new
          /\ attached.cache = new.cache /\ attached.confirming = new.confirming
          /\ attached.unconfirmed = new.unconfirmed /\ attached.confirmed = new.confirmed
          /\ attached.history = WithRows(new.history, one) /\ attached.minVersion = Min(DOMAIN one)
          /\ attached.currentVersion = Max(DOMAIN one \cup {new.currentVersion}) /\ attached.threw = new.threw
      <4>1. DOMAIN one # {} /\ new.minVersion < 0
        BY <1>1, <3>2
      <4>2. attached = [new EXCEPT !.history = WithRows(@, one), !.minVersion = Min(DOMAIN one),
                                   !.currentVersion = Max(DOMAIN one \cup {@})]
        BY <4>1 DEF AttachHistory
      <4> HIDE DEF attached
      <4> QED BY ONLY <1>1, <4>2
    <3> HIDE DEF attached
    <3>6. attached.minVersion = height /\ attached.currentVersion = height
      BY <1>1, <3>2, <3>4, <3>5
    <3>7. DOMAIN attached.history = {height} /\ attached.history[height] = history[height]
      <4>1. DOMAIN WithRows(new.history, one) = {height} /\ WithRows(new.history, one)[height] = one[height]
        BY <1>1, <3>2 DEF WithRows, NoHistory
      <4> QED BY <3>2, <3>5, <4>1
    <3>8. HistoryFits(attached, height, history)
      <4>1. MaxHeight \in Nat /\ height \in 0 .. MaxHeight
        BY <2>2, SmartDBAssumption
      <4> QED BY <2>2, <3>6, <3>7, <4>1 DEF HistoryFits
    <3>9. /\ DOMAIN attached = {"cache", "confirming", "unconfirmed", "confirmed", "history",
                                "minVersion", "currentVersion", "threw"}
          /\ attached.cache = cache /\ attached.confirming = FALSE /\ attached.unconfirmed = <<>>
          /\ attached.confirmed = <<>> /\ attached.threw = FALSE
      BY <1>1, <3>5
    <3> QED BY <3>3, <3>8, <3>9
  <2>3. CASE ~ (height >= 0)
    <3>1. t1 = new /\ height = -1
      BY <2>3
    <3> HIDE DEF t1, new
    <3>2. DOMAIN new.history = {}
      BY <1>1 DEF NoHistory
    <3>3. HistoryFits(new, height, history)
      BY <1>1, <3>1, <3>2 DEF HistoryFits
    <3> QED BY <1>1, <3>1, <3>3
  <2> QED BY <2>2, <2>3
<1> HIDE DEF t1
<1>5. IsTracker(t1)
  BY <1>4, NoneChanged DEF IsTracker
<1>6. PendingFits(tab, t1, tab, tab)
  <2>1. Leads(tab, <<>>, tab)
    BY LeadsNowhere
  <2>2. PendingKeys(t1) = {}
    BY <1>4, NoneChanged DEF PendingKeys
  <2> QED BY <1>4, <2>1, <2>2 DEF PendingFits
<1>7. LocksFit(t1, NoLocks)
  BY <1>4, NoneChanged DEF LocksFit, NoLocks
<1>8. Held(tab, t1, NoLocks, height, history, tab, tab, T)
  BY <1>4, <1>5, <1>6, <1>7 DEF Held
<1> QED BY <1>8 DEF t1, new

(* A block that is saved *)
LEMMA HeldAccepted ==
  ASSUME NEW tab, NEW t, NEW held, NEW height, NEW history, NEW kept, NEW now, NEW T,
         Held(tab, t, held, height, history, kept, now, T), ~ t.confirming,
         height + 1 \in 0 .. MaxHeight, height + 1 \in DOMAIN history, history[height + 1] = t.confirmed
  PROVE  /\ kept = now
         /\ ~ AcceptChanges(Confirm(t), height + 1).confirming
         /\ Held(now, AcceptChanges(Confirm(t), height + 1), NoLocks, height + 1, history, now, now,
                 [i \in 0 .. height + 2 |-> IF i = height + 2 THEN now ELSE T[i]])
<1> DEFINE c == Confirm(t)
           more == [held EXCEPT !.confirmed = @ \cup held.unconfirmed]
           h == height + 1
           first == [c EXCEPT !.history = WithRow(@, h, c.confirmed), !.confirmed = <<>>]
           saved == RemoveExpiredHistory(first)
           t1 == AcceptChanges(c, h)
           T1 == [i \in 0 .. height + 2 |-> IF i = height + 2 THEN now ELSE T[i]]
<1>1. t.unconfirmed = <<>> /\ kept = now
  <2>1. IsTracker(t) /\ Leads(kept, t.unconfirmed, now)
    BY DEF Held, PendingFits
  <2> QED BY <2>1, LeadsNothing DEF IsTracker
<1>2. /\ Held(tab, c, more, height, history, now, now, T) /\ ~ c.confirming
      /\ c.confirmed = t.confirmed
  BY <1>1, HeldConfirmed
<1> HIDE DEF c, more
<1>3. /\ IsTracker(c) /\ PendingFits(tab, c, now, now) /\ HistoryFits(c, height, history)
      /\ Chained(T, height + 1, history, tab)
  BY <1>2 DEF Held
<1>4. DOMAIN c = {"cache", "confirming", "unconfirmed", "confirmed", "history",
                  "minVersion", "currentVersion", "threw"}
  BY <1>3, TrackerDomain
<1>5. height \in Int /\ height >= -1 /\ h \in 0 .. MaxHeight /\ h \in DOMAIN history /\ history[h] = c.confirmed
  BY <1>2, <1>3 DEF HistoryFits
<1>6. /\ DOMAIN first = DOMAIN c
      /\ first.cache = c.cache /\ first.confirming = c.confirming
      /\ first.unconfirmed = c.unconfirmed /\ first.confirmed = <<>>
      /\ first.history = WithRow(c.history, h, c.confirmed) /\ first.minVersion = c.minVersion
      /\ first.currentVersion = c.currentVersion /\ first.threw = c.threw
  BY ONLY <1>4
<1> HIDE DEF first
<1>7. /\ c.currentVersion = height /\ c.minVersion \in Int /\ c.minVersion <= height
      /\ DOMAIN c.history \subseteq 0 .. MaxHeight
      /\ \A x \in DOMAIN c.history : x <= height => c.history[x] = history[x]
  BY <1>3 DEF HistoryFits
<1>8. /\ DOMAIN first.history \subseteq 0 .. MaxHeight
      /\ \A x \in DOMAIN first.history : x <= h => first.history[x] = history[x]
  <2>1. /\ DOMAIN first.history = {h} \cup DOMAIN c.history /\ first.history[h] = c.confirmed
        /\ \A x \in DOMAIN c.history \ {h} : first.history[x] = c.history[x]
    <3> DEFINE old == c.history
               row == c.confirmed
    <3>1. first.history = WithRow(old, h, row)
      BY <1>6
    <3> HIDE DEF old, row, h
    <3>2. /\ DOMAIN WithRow(old, h, row) = {h} \cup DOMAIN old /\ WithRow(old, h, row)[h] = row
          /\ \A x \in DOMAIN old \ {h} : WithRow(old, h, row)[x] = old[x]
      BY DEF WithRow, WithRows
    <3> QED BY <3>1, <3>2 DEF old, row
  <2>2. ASSUME NEW x \in DOMAIN first.history, x <= h PROVE first.history[x] = history[x]
    <3>1. CASE x = h
      BY <1>5, <2>1, <3>1
    <3>2. CASE x # h
      <4>1. x \in DOMAIN c.history /\ x \in 0 .. MaxHeight /\ x <= height
        BY <1>5, <1>7, <2>1, <2>2, <3>2
      <4> QED BY <1>7, <2>1, <3>2, <4>1
    <3> QED BY <3>1, <3>2
  <2> QED BY <1>5, <1>7, <2>1, <2>2
<1> DEFINE oldest == height - HistoryHold
<1>9. /\ DOMAIN saved = DOMAIN c
      /\ saved.cache = c.cache /\ saved.confirming = c.confirming
      /\ saved.unconfirmed = c.unconfirmed /\ saved.confirmed = <<>> /\ saved.threw = c.threw
      /\ saved.minVersion \in Int /\ saved.minVersion <= height
      /\ DOMAIN saved.history \subseteq 0 .. MaxHeight
      /\ \A x \in DOMAIN saved.history : x <= h => saved.history[x] = history[x]
  <2>1. HistoryHold \in Nat /\ oldest \in Int /\ oldest <= height
    BY <1>5, SmartDBAssumption
  <2>2. CASE oldest > first.minVersion
    <3> DEFINE short == RestrictDomain(first.history, LAMBDA x : x \notin first.minVersion .. oldest - 1)
    <3>1. saved = [first EXCEPT !.history = short, !.minVersion = oldest]
      BY <1>6, <1>7, <2>2 DEF RemoveExpiredHistory
    <3>2. DOMAIN short \subseteq DOMAIN first.history /\ \A x \in DOMAIN short : short[x] = first.history[x]
      BY DEF RestrictDomain, Restrict
    <3> HIDE DEF short, saved, oldest
    <3>3. /\ DOMAIN saved = DOMAIN c
          /\ saved.cache = c.cache /\ saved.confirming = c.confirming
          /\ saved.unconfirmed = c.unconfirmed /\ saved.confirmed = <<>> /\ saved.threw = c.threw
          /\ saved.minVersion = oldest /\ saved.history = short
      BY ONLY <1>4, <1>6, <3>1
    <3> QED BY <1>8, <2>1, <3>2, <3>3
  <2>3. CASE ~ (oldest > first.minVersion)
    <3>1. saved = first
      BY <1>6, <1>7, <2>3 DEF RemoveExpiredHistory
    <3> HIDE DEF saved
    <3> QED BY <1>6, <1>7, <1>8, <3>1
  <2> QED BY <2>2, <2>3
<1>10. t1 = [saved EXCEPT !.minVersion = IF @ = -1 THEN h ELSE @, !.currentVersion = h]
  BY DEF AcceptChanges, first
<1> HIDE DEF saved, t1
<1>11. /\ DOMAIN t1 = DOMAIN saved
       /\ t1.cache = saved.cache /\ t1.confirming = saved.confirming
       /\ t1.unconfirmed = saved.unconfirmed /\ t1.confirmed = saved.confirmed /\ t1.threw = saved.threw
       /\ t1.history = saved.history /\ t1.currentVersion = h
       /\ t1.minVersion = IF saved.minVersion = -1 THEN h ELSE saved.minVersion
  BY ONLY <1>4, <1>9, <1>10
<1>12. HistoryFits(t1, h, history)
  <2>1. t1.minVersion \in Int /\ t1.minVersion <= h
    BY <1>5, <1>9, <1>11
  <2> QED BY <1>5, <1>9, <1>11, <2>1 DEF HistoryFits
<1>13. IsTracker(t1)
  BY <1>2, <1>3, <1>4, <1>9, <1>11, NoneChanged DEF IsTracker
<1>14. t1.confirmed = <<>> /\ t1.unconfirmed = <<>> /\ PendingKeys(t1) = {}
  <2>1. t1.confirmed = <<>> /\ t1.unconfirmed = <<>>
    BY <1>2, <1>3, <1>9, <1>11 DEF IsTracker
  <2> QED BY <2>1, NoneChanged DEF PendingKeys
<1>15. PendingFits(now, t1, now, now)
  <2>1. GoesWith(c.cache, now, PendingKeys(c)) /\ now \in Tables
    BY <1>3, LeadsTables DEF PendingFits
  <2>2. GoesWith(t1.cache, now, {})
    BY <1>9, <1>11, <2>1 DEF GoesWith
  <2>3. Leads(now, <<>>, now)
    BY <2>1, LeadsNowhere
  <2> QED BY <1>14, <2>2, <2>3 DEF PendingFits
<1>16. LocksFit(t1, NoLocks)
  BY <1>14, NoneChanged DEF LocksFit, NoLocks
<1>17. Chained(T1, h + 1, history, now)
  <2>1. T1[0] = EmptyTable /\ T1[h + 1] = now
    BY <1>3, <1>5 DEF Chained
  <2>2. ASSUME NEW i \in 1 .. h + 1
        PROVE  i - 1 \in DOMAIN history /\ Leads(T1[i - 1], history[i - 1], T1[i])
    <3>1. CASE i = h + 1
      <4>1. i - 1 = h /\ T1[i] = now /\ T1[i - 1] = T[height + 1]
        BY <1>5, <3>1
      <4>2. T[height + 1] = tab
        BY <1>3 DEF Chained
      <4>3. Leads(tab, c.confirmed, now)
        BY <1>3 DEF PendingFits
      <4> QED BY <1>5, <4>1, <4>2, <4>3
    <3>2. CASE i # h + 1
      <4>1. i \in 1 .. height + 1 /\ T1[i] = T[i] /\ T1[i - 1] = T[i - 1]
        BY <1>5, <3>2
      <4> HIDE DEF T1
      <4> QED BY <1>3, <4>1 DEF Chained
    <3> QED BY <3>1, <3>2
  <2> HIDE DEF T1
  <2> QED BY <2>1, <2>2 DEF Chained
<1>18. Held(now, t1, NoLocks, h, history, now, now, T1)
  BY <1>12, <1>13, <1>15, <1>16, <1>17 DEF Held
<1>19. ~ t1.confirming
  BY <1>2, <1>9, <1>11
<1> QED BY <1>1, <1>18, <1>19 DEF t1, c

LEMMA LowerOf ==
  ASSUME NEW m \in Int, NEW n \in Int, m <= n
  PROVE  Min({m, n}) = m
<1>1. {m, n} \in SUBSET (m .. n) /\ m \in {m, n}
  OBVIOUS
<1> QED BY <1>1, FirstOfInterval

(* The changes of the last block are undone in the cache *)
LEMMA HeldUndone ==
  ASSUME NEW tab, NEW t, NEW height, NEW history, NEW T,
         Held(tab, t, NoLocks, height, history, tab, tab, T), height >= 0,
         ~ t.confirming, t.unconfirmed = <<>>, t.confirmed = <<>>, ~ t.threw
  PROVE  LET t1 == RollbackChanges(t, height, history)
         IN  /\ height \notin DOMAIN t.history => t1 = [t EXCEPT !.threw = TRUE]
             /\ height \in DOMAIN t.history =>
                  /\ ~ t1.threw /\ ~ t1.confirming
                  /\ Held(T[height], t1, NoLocks, height - 1, history, T[height], T[height], T)
<1>1. /\ IsTracker(t) /\ PendingFits(tab, t, tab, tab) /\ HistoryFits(t, height, history)
      /\ Chained(T, height + 1, history, tab)
  BY DEF Held
<1>2. DOMAIN t = {"cache", "confirming", "unconfirmed", "confirmed", "history",
                  "minVersion", "currentVersion", "threw"}
  BY <1>1, TrackerDomain
<1>3. /\ height \in Int /\ t.currentVersion = height /\ t.minVersion \in Int /\ t.minVersion <= height
      /\ DOMAIN t.history \subseteq 0 .. MaxHeight
      /\ \A x \in DOMAIN t.history : x <= height => t.history[x] = history[x]
  BY <1>1 DEF HistoryFits
<1>4. LoadHistoryUntil(t, height, history) = t
  BY <1>3 DEF LoadHistoryUntil
<1> DEFINE u == UndoChanges(t.cache, t.history[height])
           undone == [t EXCEPT !.cache            = u.cache,
                               !.history[height]  = Keep(@, u.left),
                               !.currentVersion   = IF u.throws THEN @ ELSE @ - 1,
                               !.threw            = u.throws]
           lower == [undone EXCEPT !.minVersion = Min({@, undone.currentVersion})]
           t1 == RollbackChanges(t, height, history)
<1>5. height \notin DOMAIN t.history => t1 = [t EXCEPT !.threw = TRUE]
  BY <1>3, <1>4 DEF RollbackChanges
<1>6. height \in DOMAIN t.history => t1 = IF undone.threw THEN undone ELSE lower
  <2>1. height \in DOMAIN t.history => RollbackChanges(t, height, history) = IF undone.threw THEN undone ELSE lower
    <3> DEFINE l == LoadHistoryUntil(t, height, history)
               version == l.currentVersion
               u2 == UndoChanges(l.cache, l.history[version])
               undone2 == [l EXCEPT !.cache           = u2.cache,
                                 !.history[version]   = Keep(@, u2.left),
                                 !.currentVersion     = IF u2.throws THEN @ ELSE @ - 1,
                                 !.threw              = u2.throws]
               lower2 == [undone2 EXCEPT !.minVersion = Min({@, undone2.currentVersion})]
    <3>1. l = t /\ version = height
      BY <1>3, <1>4
    <3>2. ~ (height < t.currentVersion) /\ ~ (height > version)
      BY <1>3, <3>1
    <3>3. undone2 = undone
      <4>1. u2 = u
        BY <3>1
      <4> HIDE DEF u, u2, l, version
      <4> QED BY <3>1, <4>1
    <3>4. lower2 = lower
      <4> HIDE DEF undone, undone2
      <4> QED BY <3>3
    <3>5. RollbackChanges(t, height, history) =
            CASE height < t.currentVersion -> t
              [] height > version -> [l EXCEPT !.minVersion = Min({@, l.currentVersion})]
              [] height = version /\ version \notin DOMAIN l.history -> [l EXCEPT !.threw = TRUE]
              [] OTHER -> IF undone2.threw THEN undone2 ELSE lower2
      BY Zenon DEF RollbackChanges
    <3> HIDE DEF undone, undone2, lower, lower2, u, u2, l, version
    <3> QED BY <3>1, <3>2, <3>3, <3>4, <3>5
  <2> QED BY <2>1 DEF t1
<1>7. ASSUME height \in DOMAIN t.history
      PROVE  /\ ~ t1.threw /\ ~ t1.confirming
             /\ Held(T[height], t1, NoLocks, height - 1, history, T[height], T[height], T)
  <2>1. t.history[height] = history[height] /\ t.cache \in Tables /\ GoesWith(t.cache, tab, {})
    BY <1>1, <1>3, <1>7 DEF PendingFits, IsTracker, GoesWith
  <2>2. Leads(T[height], history[height], tab)
    <3>1. height + 1 \in 1 .. height + 1 /\ (height + 1) - 1 = height
      BY <1>3
    <3> QED BY <1>1, <3>1 DEF Chained
  <2>3. PICK cache \in Tables :
           /\ UndoChanges(t.cache, history[height]) = [cache |-> cache, left |-> 0, throws |-> FALSE]
           /\ GoesWith(cache, T[height], {})
    BY <2>1, <2>2, UndoneCache
  <2>4. u.cache = cache /\ u.left = 0 /\ u.throws = FALSE
    BY <2>1, <2>3
  <2> HIDE DEF u
  <2>5. /\ DOMAIN undone = DOMAIN t
        /\ undone.cache = u.cache /\ undone.confirming = t.confirming
        /\ undone.unconfirmed = t.unconfirmed /\ undone.confirmed = t.confirmed /\ undone.threw = u.throws
        /\ undone.history = [t.history EXCEPT ![height] = Keep(@, u.left)]
        /\ undone.minVersion = t.minVersion
        /\ undone.currentVersion = IF u.throws THEN t.currentVersion ELSE t.currentVersion - 1
    BY ONLY <1>2
  <2> HIDE DEF undone
  <2>6. undone.currentVersion = height - 1 /\ undone.threw = FALSE /\ undone.cache = cache
    BY <1>3, <2>4, <2>5
  <2>7. /\ DOMAIN lower = DOMAIN t
        /\ lower.cache = undone.cache /\ lower.confirming = undone.confirming
        /\ lower.unconfirmed = undone.unconfirmed /\ lower.confirmed = undone.confirmed
        /\ lower.threw = undone.threw /\ lower.history = undone.history
        /\ lower.minVersion = Min({undone.minVersion, undone.currentVersion})
        /\ lower.currentVersion = undone.currentVersion
    BY ONLY <1>2, <2>5
  <2>8. t1 = lower
    BY <1>6, <1>7, <2>6
  <2> HIDE DEF lower, t1
  <2>9. lower.minVersion \in Int /\ lower.minVersion <= height - 1
    <3> DEFINE m == t.minVersion
               n == height - 1
    <3>1. m \in Int /\ n \in Int
      BY <1>3
    <3>2. lower.minVersion = Min({m, n}) /\ Min({m, n}) = Min({n, m})
      <4>1. {m, n} = {n, m}
        OBVIOUS
      <4> QED BY <2>5, <2>6, <2>7, <4>1
    <3> HIDE DEF m, n
    <3>3. CASE m <= n
      <4>1. Min({m, n}) = m
        BY <3>1, <3>3, LowerOf
      <4> QED BY <3>1, <3>2, <3>3, <4>1 DEF n
    <3>4. CASE ~ (m <= n)
      <4>1. n <= m
        BY <3>1, <3>4
      <4>2. Min({n, m}) = n
        BY <3>1, <4>1, LowerOf
      <4> QED BY <3>1, <3>2, <4>2 DEF n
    <3> QED BY <3>3, <3>4
  <2>10. HistoryFits(lower, height - 1, history)
    <3>1. DOMAIN lower.history = DOMAIN t.history
          /\ \A x \in DOMAIN t.history : x # height => lower.history[x] = t.history[x]
      BY <2>5, <2>7
    <3>2. \A x \in DOMAIN t.history : x <= height - 1 => x # height /\ x <= height
      BY <1>3
    <3>3. height - 1 \in Int /\ height - 1 >= -1
      BY <1>3
    <3> QED BY <1>3, <2>6, <2>7, <2>9, <3>1, <3>2, <3>3 DEF HistoryFits
  <2>11. lower.confirmed = <<>> /\ lower.unconfirmed = <<>> /\ ~ lower.confirming /\ ~ lower.threw
         /\ lower.cache = cache
    BY <2>5, <2>6, <2>7
  <2>12. IsTracker(lower)
    BY <1>1, <1>2, <2>4, <2>5, <2>6, <2>7, <2>11, NoneChanged DEF IsTracker
  <2>13. PendingFits(T[height], lower, T[height], T[height])
    <3>1. T[height] \in Tables
      BY <2>2, LeadsTables
    <3>2. Leads(T[height], <<>>, T[height])
      BY <3>1, LeadsNowhere
    <3>3. PendingKeys(lower) = {}
      BY <2>11, NoneChanged DEF PendingKeys
    <3> QED BY <2>3, <2>11, <3>2, <3>3 DEF PendingFits
  <2>14. LocksFit(lower, NoLocks)
    BY <2>11, NoneChanged DEF LocksFit, NoLocks
  <2>15. Chained(T, (height - 1) + 1, history, T[height])
    <3>1. (height - 1) + 1 = height /\ \A i \in 1 .. height : i \in 1 .. height + 1
      BY <1>3
    <3> QED BY <1>1, <3>1 DEF Chained
  <2>16. Held(T[height], lower, NoLocks, height - 1, history, T[height], T[height], T)
    BY <2>10, <2>12, <2>13, <2>14, <2>15 DEF Held
  <2> QED BY <2>8, <2>11, <2>16
<1> QED BY <1>5, <1>7

(* Nothing is undone when the tables are to stay of their height *)
LEMMA HeldStays ==
  ASSUME NEW tab, NEW t, NEW height, NEW history, NEW T,
         Held(tab, t, NoLocks, height, history, tab, tab, T), ~ t.confirming, ~ t.threw
  PROVE  LET t1 == RollbackChanges(t, height + 1, history)
         IN  /\ ~ t1.threw /\ ~ t1.confirming
             /\ Held(tab, t1, NoLocks, height, history, tab, tab, T)
<1> DEFINE t1 == RollbackChanges(t, height + 1, history)
<1>1. /\ IsTracker(t) /\ PendingFits(tab, t, tab, tab) /\ HistoryFits(t, height, history) /\ LocksFit(t, NoLocks)
      /\ Chained(T, height + 1, history, tab)
  BY DEF Held
<1>2. DOMAIN t = {"cache", "confirming", "unconfirmed", "confirmed", "history",
                  "minVersion", "currentVersion", "threw"}
  BY <1>1, TrackerDomain
<1>3. height \in Int /\ t.currentVersion = height /\ t.minVersion \in Int /\ t.minVersion <= height
  BY <1>1 DEF HistoryFits
<1>4. LoadHistoryUntil(t, height + 1, history) = t
  BY <1>3 DEF LoadHistoryUntil
<1>5. t1 = [t EXCEPT !.minVersion = Min({@, t.currentVersion})]
  BY <1>3, <1>4 DEF RollbackChanges
<1>6. Min({t.minVersion, t.currentVersion}) = t.minVersion
  BY <1>3, LowerOf
<1> HIDE DEF t1
<1>7. /\ DOMAIN t1 = DOMAIN t
      /\ t1.cache = t.cache /\ t1.confirming = t.confirming
      /\ t1.unconfirmed = t.unconfirmed /\ t1.confirmed = t.confirmed /\ t1.threw = t.threw
      /\ t1.history = t.history /\ t1.minVersion = Min({t.minVersion, t.currentVersion})
      /\ t1.currentVersion = t.currentVersion
  BY ONLY <1>2, <1>5
<1>8. IsTracker(t1)
  BY <1>1, <1>7 DEF IsTracker
<1>9. PendingFits(tab, t1, tab, tab)
  BY <1>1, <1>7 DEF PendingFits, PendingKeys
<1>10. LocksFit(t1, NoLocks)
  BY <1>1, <1>7 DEF LocksFit
<1>11. HistoryFits(t1, height, history)
  BY <1>1, <1>6, <1>7 DEF HistoryFits
<1>12. Held(tab, t1, NoLocks, height, history, tab, tab, T)
  BY <1>1, <1>8, <1>9, <1>10, <1>11 DEF Held
<1> QED BY <1>7, <1>12 DEF t1

-----------------------------------------------------------------------------
(***************************************************************************)
(* The store that contracts and blocks see, read off the tables: what the  *)
(* blocks have kept, what the pending changes lead to, and what they led   *)
(* to before the running contract.                                         *)
(***************************************************************************)
ValuesOf(tab) == [k \in Key |-> ValueOf(tab[k])]

PresentIn(tab, t) ==
  LET saved == ApplyChanges(tab, t.confirmed \o t.unconfirmed).table
  IN  [k \in Key |-> ValueOf(IF IsTracking(t, k) THEN t.cache[k] ELSE saved[k])]

BeforeIn(tab, t) == IF t.confirming THEN PresentIn(tab, CancelConfirm(t)) ELSE Absent

ValuesIn(tab, history, n, h) ==
  ValuesOf(RevertChanges(tab, FlattenSeq([i \in 1 .. n - h |-> history[h + i]])).table)

VersionsIn(tab, history, n) == [i \in 1 .. n + 1 |-> ValuesIn(tab, history, n, i - 1)]

(* The pending changes are saved, all of them *)
LEMMA PendingSaved ==
  ASSUME NEW tab, NEW t, NEW kept, NEW now, IsTracker(t), PendingFits(tab, t, kept, now)
  PROVE  /\ Leads(tab, t.confirmed \o t.unconfirmed, now)
         /\ ApplyChanges(tab, t.confirmed \o t.unconfirmed) = [table |-> now, failed |-> FALSE]
<1>1. Leads(tab, t.confirmed \o t.unconfirmed, now)
  BY LeadsOn DEF PendingFits
<1> QED BY <1>1, AppliedTable

LEMMA PresentSeen ==
  ASSUME NEW tab, NEW t, NEW kept, NEW now, IsTracker(t), PendingFits(tab, t, kept, now)
  PROVE  PresentIn(tab, t) = ValuesOf(now)
<1> DEFINE saved == ApplyChanges(tab, t.confirmed \o t.unconfirmed).table
<1>1. saved = now
  <2>1. ApplyChanges(tab, t.confirmed \o t.unconfirmed) = [table |-> now, failed |-> FALSE]
    BY PendingSaved
  <2> QED BY <2>1
<1>2. GoesWith(t.cache, now, PendingKeys(t))
  BY DEF PendingFits
<1>3. PresentIn(tab, t) = [k \in Key |-> ValueOf(IF IsTracking(t, k) THEN t.cache[k] ELSE saved[k])]
  BY DEF PresentIn
<1> HIDE DEF saved
<1>4. ASSUME NEW k \in Key
      PROVE  (IF IsTracking(t, k) THEN t.cache[k] ELSE saved[k]) = now[k]
  BY <1>1, <1>2 DEF GoesWith, IsTracking
<1>5. ASSUME NEW k \in Key
      PROVE  ValueOf(IF IsTracking(t, k) THEN t.cache[k] ELSE saved[k]) = ValueOf(now[k])
  BY <1>4
<1> QED BY <1>3, <1>5 DEF ValuesOf

LEMMA BeforeSeen ==
  ASSUME NEW tab, NEW t, NEW held, NEW height, NEW history, NEW kept, NEW now, NEW T,
         Held(tab, t, held, height, history, kept, now, T)
  PROVE  BeforeIn(tab, t) = IF t.confirming THEN ValuesOf(kept) ELSE Absent
<1> DEFINE c == CancelConfirm(t)
<1>1. Held(tab, c, [held EXCEPT !.unconfirmed = {}], height, history, kept, kept, T)
  BY HeldCancelled
<1> HIDE DEF c
<1>2. IsTracker(c) /\ PendingFits(tab, c, kept, kept)
  BY <1>1 DEF Held
<1>3. PresentIn(tab, c) = ValuesOf(kept)
  BY <1>2, PresentSeen
<1> QED BY <1>3 DEF BeforeIn, c

LEMMA VersionSeen ==
  ASSUME NEW T, NEW n \in Int, NEW history, NEW tab, Chained(T, n + 1, history, tab), NEW h \in 0 .. n,
         DOMAIN history \subseteq Int
  PROVE  ValuesIn(tab, history, n, h) = ValuesOf(T[h + 1])
<1> DEFINE m == n - h
           lists == [i \in 1 .. m |-> history[h + i]]
           S == [j \in 0 .. m |-> T[h + 1 + j]]
<1>1. m \in Nat /\ h \in Nat
  OBVIOUS
<1>2. ASSUME NEW i \in 1 .. m
      PROVE  /\ lists[i] \in Seq(Changes)
             /\ Leads(S[i - 1], lists[i], S[i])
  <2>1. h + i + 1 \in 1 .. n + 1 /\ (h + i + 1) - 1 = h + i
    BY <1>1
  <2>2. Leads(T[h + i], history[h + i], T[h + i + 1])
    BY <2>1 DEF Chained
  <2>3. /\ i - 1 \in 0 .. m /\ i \in 0 .. m /\ h + 1 + (i - 1) = h + i /\ h + 1 + i = h + i + 1
    BY <1>1
  <2>4. S[i - 1] = T[h + i] /\ S[i] = T[h + i + 1] /\ lists[i] = history[h + i]
    BY <2>3
  <2> HIDE DEF S, lists
  <2> QED BY <2>2, <2>4, LeadsTables
<1>3. S[0] = T[h + 1] /\ S[m] = tab
  <2>1. 0 \in 0 .. m /\ m \in 0 .. m /\ h + 1 + 0 = h + 1 /\ h + 1 + m = n + 1
    BY <1>1
  <2>2. T[n + 1] = tab
    BY DEF Chained
  <2>3. S[0] = T[h + 1 + 0] /\ S[m] = T[h + 1 + m]
    <3> HIDE DEF m
    <3> QED BY <2>1
  <2> QED BY <2>1, <2>2, <2>3
<1>4. S[0] \in Tables
  <2>1. h + 1 \in 1 .. n + 1
    BY <1>1
  <2>2. Leads(T[(h + 1) - 1], history[(h + 1) - 1], T[h + 1])
    BY <2>1 DEF Chained
  <2> HIDE DEF S
  <2> QED BY <1>3, <2>2, LeadsTables
<1>5. lists \in [1 .. m -> Seq(Changes)]
  <2> HIDE DEF m
  <2>1. \A i \in 1 .. m : history[h + i] \in Seq(Changes)
    BY <1>2
  <2> QED BY <2>1
<1>6. ValuesIn(tab, history, n, h) = ValuesOf(RevertChanges(tab, FlattenSeq(lists)).table)
  BY DEF ValuesIn
<1> HIDE DEF S, lists, m
<1>7. Leads(S[0], FlattenSeq(lists), S[m])
  BY <1>1, <1>2, <1>4, <1>5, FlatLeads
<1>8. RevertChanges(tab, FlattenSeq(lists)) = [table |-> T[h + 1], failed |-> FALSE]
  BY <1>3, <1>7, RevertedTable
<1> QED BY <1>6, <1>8

LEMMA VersionsSeen ==
  ASSUME NEW T, NEW n \in Int, NEW history, NEW tab, Chained(T, n + 1, history, tab),
         DOMAIN history \subseteq Int
  PROVE  VersionsIn(tab, history, n) = [i \in 1 .. n + 1 |-> ValuesOf(T[i])]
<1>1. ASSUME NEW i \in 1 .. n + 1 PROVE ValuesIn(tab, history, n, i - 1) = ValuesOf(T[i])
  <2>1. i - 1 \in 0 .. n /\ (i - 1) + 1 = i
    OBVIOUS
  <2> QED BY <2>1, VersionSeen
<1> QED BY <1>1 DEF VersionsIn

(***************************************************************************)
(* What is seen, and how a step may change it: the steps of VersionedStore *)
(***************************************************************************)
View(confirming, height, kept, now, T) ==
  [versions |-> [i \in 1 .. height + 1 |-> ValuesOf(T[i])],
   store    |-> ValuesOf(now),
   before   |-> IF confirming THEN ValuesOf(kept) ELSE Absent]

SetStep(a, b) ==
  /\ \E k \in Key : b.store = [a.store EXCEPT ![k] = b.store[k]]
  /\ b.versions = a.versions /\ b.before = a.before

BeginStep(a, b) ==
  /\ a.before = Absent /\ b.before = a.store
  /\ b.versions = a.versions /\ b.store = a.store

KeepContractStep(a, b) ==
  /\ a.before # Absent /\ b.before = Absent
  /\ b.versions = a.versions /\ b.store = a.store

UndoContractStep(a, b) ==
  /\ a.before # Absent /\ b.store = a.before /\ b.before = Absent
  /\ b.versions = a.versions

KeepBlockStep(a, b) ==
  /\ a.before = Absent
  /\ b.versions = Append(a.versions, a.store)
  /\ b.store = a.store /\ b.before = a.before

RollbackStep(a, b) ==
  \E n \in 0 .. Len(a.versions) :
    /\ b.versions = SubSeq(a.versions, 1, n)
    /\ b.store = IF n = 0 THEN [k \in Key |-> Absent] ELSE a.versions[n]
    /\ b.before = Absent

StoreStep(a, b) ==
  \/ b = a
  \/ SetStep(a, b)
  \/ BeginStep(a, b)
  \/ KeepContractStep(a, b)
  \/ UndoContractStep(a, b)
  \/ KeepBlockStep(a, b)
  \/ RollbackStep(a, b)

LEMMA ValuesNotAbsent ==
  ASSUME NEW tab \in Tables
  PROVE  ValuesOf(tab) # Absent
<1>1. ASSUME NEW k \in Key PROVE ValueOf(tab[k]) \in Values \cup Votes \cup {Absent}
  <2>1. tab[k] \in Stored
    BY DEF Tables
  <2> QED BY <2>1 DEF Stored, Entities, ValueOf
<1>2. ValuesOf(tab) \in [Key -> Values \cup Votes \cup {Absent}]
  <2> HIDE DEF Key
  <2> QED BY <1>1 DEF ValuesOf
<1>3. Absent \notin [Accounts \cup Votes -> Values \cup Votes \cup {Absent}]
  BY SmartDBAssumption
<1> QED BY <1>2, <1>3 DEF Key

LEMMA EmptyValues == ValuesOf(EmptyTable) = [k \in Key |-> Absent]
BY DEF ValuesOf, EmptyTable, ValueOf

LEMMA SetSeen ==
  ASSUME NEW confirming, NEW height, NEW kept, NEW now \in Tables, NEW T, NEW c \in Changes
  PROVE  SetStep(View(confirming, height, kept, now, T),
                 View(confirming, height, IF confirming THEN kept ELSE Made(now, c), Made(now, c), T))
<1> DEFINE more == Made(now, c)
           a == View(confirming, height, kept, now, T)
           b == View(confirming, height, IF confirming THEN kept ELSE more, more, T)
<1>1. c.key \in Key /\ more \in Tables /\ \A k \in Key : more[k] = IF k = c.key THEN c.current ELSE now[k]
  BY ChangeParts, MadeTable
<1> HIDE DEF more
<1>2. /\ a.store = ValuesOf(now) /\ b.store = ValuesOf(more)
      /\ b.versions = a.versions
      /\ b.before = a.before
  BY DEF View
<1>3. ValuesOf(more) = [ValuesOf(now) EXCEPT ![c.key] = ValuesOf(more)[c.key]]
  <2>1. \A k \in Key : k # c.key => ValueOf(more[k]) = ValueOf(now[k])
    BY <1>1
  <2> QED BY <1>1, <2>1 DEF ValuesOf
<1> HIDE DEF a, b
<1>4. SetStep(a, b)
  BY <1>1, <1>2, <1>3 DEF SetStep
<1> QED BY <1>4 DEF a, b, more

LEMMA BegunSeen ==
  ASSUME NEW height, NEW now, NEW T
  PROVE  BeginStep(View(FALSE, height, now, now, T), View(TRUE, height, now, now, T))
BY DEF BeginStep, View

LEMMA ContractSeen ==
  ASSUME NEW height, NEW kept \in Tables, NEW now, NEW T
  PROVE  /\ KeepContractStep(View(TRUE, height, kept, now, T), View(FALSE, height, now, now, T))
         /\ UndoContractStep(View(TRUE, height, kept, now, T), View(FALSE, height, kept, kept, T))
BY ValuesNotAbsent DEF KeepContractStep, UndoContractStep, View

LEMMA RolledBackSeen ==
  ASSUME NEW confirming, NEW height \in Int, height >= -1, NEW kept, NEW now, NEW T, T[0] = EmptyTable,
         NEW n \in 0 .. height + 1
  PROVE  RollbackStep(View(confirming, height, kept, now, T), View(FALSE, n - 1, T[n], T[n], T))
<1> DEFINE a == View(confirming, height, kept, now, T)
           b == View(FALSE, n - 1, T[n], T[n], T)
           v == [i \in 1 .. height + 1 |-> ValuesOf(T[i])]
           w == [i \in 1 .. n |-> ValuesOf(T[i])]
<1>1. a.versions = v /\ b.store = ValuesOf(T[n]) /\ b.before = Absent
  BY DEF View
<1>2. b.versions = w
  <2>1. (n - 1) + 1 = n
    OBVIOUS
  <2> QED BY <2>1 DEF View
<1> HIDE DEF a, b
<1>3. Len(v) = height + 1 /\ SubSeq(v, 1, n) = w /\ (n # 0 => v[n] = ValuesOf(T[n]))
  OBVIOUS
<1>4. n = 0 => ValuesOf(T[n]) = [k \in Key |-> Absent]
  BY EmptyValues
<1> HIDE DEF v, w
<1>5. RollbackStep(a, b)
  BY <1>1, <1>2, <1>3, <1>4 DEF RollbackStep
<1> QED BY <1>5 DEF a, b

LEMMA SavedSeen ==
  ASSUME NEW height \in Int, height >= -1, NEW now, NEW T
  PROVE  KeepBlockStep(View(FALSE, height, now, now, T),
                       View(FALSE, height + 1, now, now,
                            [i \in 0 .. height + 2 |-> IF i = height + 2 THEN now ELSE T[i]]))
<1> DEFINE T1 == [i \in 0 .. height + 2 |-> IF i = height + 2 THEN now ELSE T[i]]
           a == View(FALSE, height, now, now, T)
           b == View(FALSE, height + 1, now, now, T1)
           v == [i \in 1 .. height + 1 |-> ValuesOf(T[i])]
           w == [i \in 1 .. height + 2 |-> ValuesOf(T1[i])]
<1>1. a.versions = v /\ a.store = ValuesOf(now) /\ b.store = ValuesOf(now) /\ a.before = Absent /\ b.before = Absent
  BY DEF View
<1>2. b.versions = w
  <2>1. (height + 1) + 1 = height + 2
    OBVIOUS
  <2> HIDE DEF T1
  <2> QED BY <2>1 DEF View
<1> HIDE DEF a, b
<1>3. w = Append(v, ValuesOf(now))
  <2>1. \A i \in 1 .. height + 1 : T1[i] = T[i]
    OBVIOUS
  <2>2. T1[height + 2] = now
    OBVIOUS
  <2> HIDE DEF T1
  <2>3. /\ DOMAIN w = 1 .. height + 2 /\ w[height + 2] = ValuesOf(now)
        /\ \A i \in 1 .. height + 1 : w[i] = v[i]
    BY <2>1, <2>2
  <2>4. Len(v) = height + 1
    OBVIOUS
  <2> QED BY <2>1, <2>2, <2>4
<1> HIDE DEF v, w
<1>4. KeepBlockStep(a, b)
  BY <1>1, <1>2, <1>3 DEF KeepBlockStep
<1> QED BY <1>4 DEF a, b, T1

-----------------------------------------------------------------------------
(* What contracts do with an entity *)

(* A change of an entity that is not tracked is not pending *)
LEMMA NotPending ==
  ASSUME NEW tab, NEW t, NEW kept, NEW now, IsTracker(t), PendingFits(tab, t, kept, now),
         NEW k \in Accounts, ~ IsTracking(t, k)
  PROVE  k \notin PendingKeys(t) /\ now[k] = tab[k]
<1>1. k \in Key
  BY DEF Key
<1> QED BY <1>1, PendingRow DEF IsTracking

LEMMA NotLocked ==
  ASSUME NEW t, NEW held, LocksFit(t, held), NEW k \in Votes, k \notin held.confirmed \cup held.unconfirmed
  PROVE  k \notin PendingKeys(t)
BY DEF LocksFit, PendingKeys

Ensured(tab, t, k) == IF IsTracking(t, k) THEN t ELSE TrackPersistent(t, k, tab[k])

LEMMA HeldEnsured ==
  ASSUME NEW tab, NEW t, NEW held, NEW height, NEW history, NEW kept, NEW now, NEW T,
         Held(tab, t, held, height, history, kept, now, T),
         NEW k \in Key, k \notin PendingKeys(t) \/ IsTracking(t, k), IsTracking(t, k) \/ tab[k] # Absent
  PROVE  LET t1 == Ensured(tab, t, k)
         IN  /\ Held(tab, t1, held, height, history, kept, now, T)
             /\ t1.confirming = t.confirming
             /\ t1.cache[k] = now[k] /\ now[k] \in Entities
<1> DEFINE t1 == Ensured(tab, t, k)
<1>1. IsTracker(t) /\ PendingFits(tab, t, kept, now) /\ tab \in Tables /\ now \in Tables
  <2>1. IsTracker(t) /\ PendingFits(tab, t, kept, now)
    BY DEF Held
  <2> QED BY <2>1, LeadsTables DEF PendingFits
<1>2. Held(tab, t1, held, height, history, kept, now, T) /\ t1.confirming = t.confirming /\ t1.cache[k] # Absent
  <2>1. CASE IsTracking(t, k)
    BY <2>1 DEF Ensured, IsTracking
  <2>2. CASE ~ IsTracking(t, k)
    <3> DEFINE e == tab[k]
    <3>1. e \in Stored /\ e # Absent
      BY <1>1, <2>2 DEF Tables
    <3>2. e \in {Absent, tab[k]}
      OBVIOUS
    <3>3. t1 = [t EXCEPT !.cache[k] = e]
      BY <2>2 DEF Ensured, TrackPersistent
    <3> HIDE DEF e, t1
    <3>4. /\ Held(tab, [t EXCEPT !.cache[k] = e], held, height, history, kept, now, T)
          /\ [t EXCEPT !.cache[k] = e].confirming = t.confirming
          /\ [t EXCEPT !.cache[k] = e].cache[k] = e
      BY <2>2, <3>1, <3>2, HeldCached
    <3> QED BY <3>1, <3>3, <3>4
  <2> QED BY <2>1, <2>2
<1> HIDE DEF t1
<1>3. GoesWith(t1.cache, now, PendingKeys(t1))
  BY <1>2 DEF Held, PendingFits
<1>4. t1.cache[k] = now[k] /\ now[k] \in Entities
  BY <1>1, <1>2, <1>3 DEF GoesWith, Tables, Stored
<1> QED BY <1>2, <1>4 DEF t1

LEMMA NewChange ==
  ASSUME NEW k \in Key, NEW val \in Values \cup Votes
  PROVE  Change(k, Absent, Entity(val, 1)) \in Changes
<1> DEFINE e == Entity(val, 1)
           c == Change(k, Absent, e)
<1>1. e \in Entities /\ e._version_ = 1 /\ e # Absent
  BY AbsentStored DEF Entities, Entity
<1> HIDE DEF e
<1>2. c.key = k /\ c.original = Absent /\ c.current = e /\ c \in [key : Key, original : Stored, current : Stored]
  BY <1>1 DEF Change, Stored
<1> HIDE DEF c
<1>3. c \in Changes
  BY <1>1, <1>2 DEF Changes, ChangeOK, IsNew, IsDelete
<1> QED BY <1>3 DEF c, e

LEMMA ModifyChange ==
  ASSUME NEW k \in Key, NEW old \in Entities, NEW val \in Values, val # old.val
  PROVE  /\ Entity(val, old._version_ + 1) \in Entities
         /\ Change(k, old, Entity(val, old._version_ + 1)) \in Changes
<1> DEFINE e == Entity(val, old._version_ + 1)
           c == Change(k, old, e)
<1>1. e \in Entities /\ e._version_ = old._version_ + 1 /\ e.val = val /\ e # Absent /\ old # Absent
  BY AbsentStored DEF Entities, Entity
<1> HIDE DEF e
<1>2. c.key = k /\ c.original = old /\ c.current = e /\ c \in [key : Key, original : Stored, current : Stored]
  BY <1>1 DEF Change, Stored
<1> HIDE DEF c
<1>3. c \in Changes
  BY <1>1, <1>2 DEF Changes, ChangeOK, IsNew, IsDelete
<1> QED BY <1>1, <1>3 DEF c, e

LEMMA DeleteChange ==
  ASSUME NEW k \in Votes, NEW old \in Entities
  PROVE  Change(k, old, Absent) \in Changes
<1> DEFINE c == Change(k, old, Absent)
<1>1. k \in Key /\ k \notin Accounts /\ old # Absent
  BY AbsentStored, SmartDBAssumption DEF Key
<1>2. c.key = k /\ c.original = old /\ c.current = Absent /\ c \in [key : Key, original : Stored, current : Stored]
  BY <1>1 DEF Change, Stored
<1> HIDE DEF c
<1>3. c \in Changes
  BY <1>1, <1>2 DEF Changes, ChangeOK, IsNew, IsDelete
<1> QED BY <1>3 DEF c

(* A change that starts from what the pending changes lead to *)
Recorded(tab, t, t1, held, height, history, kept, now, T) ==
  \E kept1, now1 :
    /\ Held(tab, t1, held, height, history, kept1, now1, T)
    /\ t1.confirming = t.confirming
    /\ StoreStep(View(t.confirming, height, kept, now, T), View(t1.confirming, height, kept1, now1, T))

LEMMA HeldRecorded ==
  ASSUME NEW tab, NEW t, NEW held, NEW height, NEW history, NEW kept, NEW now, NEW T,
         Held(tab, t, held, height, history, kept, now, T),
         NEW k \in Key, NEW original, NEW current,
         Change(k, original, current) \in Changes, now[k] = original,
         k \in Votes => k \in held.confirmed \cup (IF t.confirming THEN held.unconfirmed ELSE {})
  PROVE  Recorded(tab, t, PushChange([t EXCEPT !.cache[k] = current], Change(k, original, current)),
                  held, height, history, kept, now, T)
<1> DEFINE c == Change(k, original, current)
           kept1 == IF t.confirming THEN kept ELSE Made(now, c)
           now1 == Made(now, c)
           t1 == PushChange([t EXCEPT !.cache[c.key] = c.current], c)
<1>1. c.key = k /\ c.original = original /\ c.current = current /\ c \in Changes
  BY DEF Change
<1>2. t1 = PushChange([t EXCEPT !.cache[k] = current], c)
  BY <1>1
<1> HIDE DEF c
<1>3. Held(tab, t1, held, height, history, kept1, now1, T) /\ t1.confirming = t.confirming
  BY <1>1, HeldChanged
<1>4. now \in Tables
  <2>1. Leads(kept, t.unconfirmed, now)
    BY DEF Held, PendingFits
  <2> QED BY <2>1, LeadsTables
<1>5. SetStep(View(t.confirming, height, kept, now, T), View(t.confirming, height, kept1, now1, T))
  BY <1>1, <1>4, SetSeen
<1> HIDE DEF t1, kept1, now1
<1>6. Recorded(tab, t, t1, held, height, history, kept, now, T)
  BY <1>3, <1>5 DEF Recorded, StoreStep
<1> QED BY <1>2, <1>6 DEF c

LEMMA NotRecorded ==
  ASSUME NEW tab, NEW t, NEW t1, NEW held, NEW height, NEW history, NEW kept, NEW now, NEW T,
         Held(tab, t1, held, height, history, kept, now, T), t1.confirming = t.confirming
  PROVE  Recorded(tab, t, t1, held, height, history, kept, now, T)
BY DEF Recorded, StoreStep

(* What is recorded after an entity is ensured to be tracked *)
LEMMA RecordedOf ==
  ASSUME NEW tab, NEW t, NEW t0, NEW t1, NEW held, NEW height, NEW history, NEW kept, NEW now, NEW T,
         Recorded(tab, t0, t1, held, height, history, kept, now, T), t0.confirming = t.confirming
  PROVE  Recorded(tab, t, t1, held, height, history, kept, now, T)
BY DEF Recorded

LEMMA CreateRecorded ==
  ASSUME NEW tab, NEW t, NEW held, NEW height, NEW history, NEW kept, NEW now, NEW T,
         Held(tab, t, held, height, history, kept, now, T),
         NEW k \in Key, NEW val \in Values \cup Votes, now[k] = Absent,
         k \in Votes => k \in held.confirmed \cup (IF t.confirming THEN held.unconfirmed ELSE {})
  PROVE  Recorded(tab, t, TrackNew(t, k, val), held, height, history, kept, now, T)
<1> DEFINE e == Entity(val, 1)
<1>1. TrackNew(t, k, val) = PushChange([t EXCEPT !.cache[k] = e], Change(k, Absent, e))
  BY DEF TrackNew
<1>2. Change(k, Absent, e) \in Changes
  BY NewChange
<1> HIDE DEF e
<1>3. Recorded(tab, t, PushChange([t EXCEPT !.cache[k] = e], Change(k, Absent, e)),
               held, height, history, kept, now, T)
  BY <1>2, HeldRecorded
<1> QED BY <1>1, <1>3

LEMMA ModifyRecorded ==
  ASSUME NEW tab, NEW t, NEW held, NEW height, NEW history, NEW kept, NEW now, NEW T,
         Held(tab, t, held, height, history, kept, now, T),
         NEW k \in Accounts, NEW val \in Values, t.cache[k] = now[k], now[k] \in Entities
  PROVE  Recorded(tab, t, TrackModify(t, k, val), held, height, history, kept, now, T)
<1> DEFINE old == t.cache[k]
           e == Entity(val, old._version_ + 1)
<1>1. k \in Key /\ k \notin Votes
  BY SmartDBAssumption DEF Key
<1>2. CASE old.val = val
  <2>1. TrackModify(t, k, val) = t
    BY <1>2 DEF TrackModify
  <2> QED BY <2>1, NotRecorded
<1>3. CASE old.val # val
  <2>1. TrackModify(t, k, val) = PushChange([t EXCEPT !.cache[k] = e], Change(k, old, e))
    BY <1>3 DEF TrackModify
  <2>2. old \in Entities /\ now[k] = old
    OBVIOUS
  <2>3. Change(k, old, e) \in Changes
    <3> HIDE DEF old
    <3> QED BY <1>1, <1>3, <2>2, ModifyChange
  <2> HIDE DEF old, e
  <2>4. Recorded(tab, t, PushChange([t EXCEPT !.cache[k] = e], Change(k, old, e)),
                 held, height, history, kept, now, T)
    BY <1>1, <2>2, <2>3, HeldRecorded
  <2> QED BY <2>1, <2>4
<1> QED BY <1>2, <1>3

LEMMA DeleteRecorded ==
  ASSUME NEW tab, NEW t, NEW held, NEW height, NEW history, NEW kept, NEW now, NEW T,
         Held(tab, t, held, height, history, kept, now, T),
         NEW k \in Votes, t.cache[k] = now[k], now[k] \in Entities,
         k \in held.confirmed \cup (IF t.confirming THEN held.unconfirmed ELSE {})
  PROVE  Recorded(tab, t, TrackDelete(t, k), held, height, history, kept, now, T)
<1> DEFINE old == t.cache[k]
<1>1. TrackDelete(t, k) = PushChange([t EXCEPT !.cache[k] = Absent], Change(k, old, Absent))
  BY DEF TrackDelete
<1>2. k \in Key /\ old \in Entities /\ now[k] = old
  BY DEF Key
<1> HIDE DEF old
<1>3. Change(k, old, Absent) \in Changes
  BY <1>2, DeleteChange
<1>4. Recorded(tab, t, PushChange([t EXCEPT !.cache[k] = Absent], Change(k, old, Absent)),
               held, height, history, kept, now, T)
  BY <1>2, <1>3, HeldRecorded
<1> QED BY <1>1, <1>4

-----------------------------------------------------------------------------
(***************************************************************************)
(* The steps of SmartDB.  What is assumed besides: that the HTTP API is    *)
(* not asked for accounts, because what it has read may be stale when it   *)
(* is tracked; that a rollback undoes one block at most, as RollbackChanges *)
(* does in the cache; that the process is stopped between the operations   *)
(* on blocks or before a rollback, because what a commit has inserted when *)
(* it is stopped stays, and its changes are lost.                          *)
(***************************************************************************)
StorageKept ==
  /\ HeightsKept
  /\ Readers = {}
  /\ MaxRollback <= 1
  /\ CrashSteps \subseteq {"idle", "rollback"}

RowsOK ==
  /\ \A h \in DOMAIN blockRows : blockRows[h] \in BlockIds
  /\ blockRows = [h \in DOMAIN blockRows |-> blockRows[h]]
  /\ \A h \in DOMAIN historyRows : historyRows[h] \in Seq(Changes)

CommitOK ==
  /\ ~ InStep("idle") => ~ tracker.confirming
  /\ InStep("saveChanges") =>
       lastBlockHeight \in DOMAIN historyRows /\ historyRows[lastBlockHeight] = tracker.confirmed

HeldNow(kept, now, T) ==
  Held(table, tracker, locks, sessionSerial, historyRows, kept, now, T)

StorageInv ==
  /\ HeightsInv /\ RowsOK /\ CommitOK /\ reader = Null
  /\ \E kept, now, T : HeldNow(kept, now, T)

(* What a step does to what is held, and to what is seen of it *)
Moved(kept, now, T) ==
  \E kept1, now1, T1 :
    /\ Held(table', tracker', locks', sessionSerial', historyRows', kept1, now1, T1)
    /\ StoreStep(View(tracker.confirming, sessionSerial, kept, now, T),
                 View(tracker'.confirming, sessionSerial', kept1, now1, T1))

Kept(kept, now, T) == RowsOK' /\ CommitOK' /\ reader' = Null /\ Moved(kept, now, T)

LEMMA KeptRecorded ==
  ASSUME RowsOK, InStep("idle"), reader = Null, NEW kept, NEW now, NEW T, TrackerOnly,
         Recorded(table, tracker, tracker', locks', sessionSerial, historyRows, kept, now, T)
  PROVE  Kept(kept, now, T)
<1>1. UNCHANGED <<blockRows, historyRows, table, sessionSerial, op, reader>>
  BY DEF TrackerOnly, database, rows
<1>2. RowsOK' /\ CommitOK' /\ reader' = Null
  BY <1>1 DEF RowsOK, CommitOK, InStep
<1>3. Moved(kept, now, T)
  BY <1>1 DEF Recorded, Moved
<1> QED BY <1>2, <1>3 DEF Kept

LEMMA LoadKept ==
  ASSUME RowsOK, reader = Null, NEW kept, NEW now, NEW T, HeldNow(kept, now, T),
         NEW k \in Accounts, LoadAccount(k)
  PROVE  Kept(kept, now, T)
<1>1. InStep("idle") /\ Exists(k) /\ tracker' = Ensured(table, tracker, k) /\ locks' = locks /\ TrackerOnly
  BY DEF LoadAccount, NoBlockOperation, EnsureEntityTracking, Ensured
<1>2. k \in Key /\ (IsTracking(tracker, k) \/ table[k] # Absent)
  BY <1>1 DEF Key, Exists
<1>3. k \notin PendingKeys(tracker) \/ IsTracking(tracker, k)
  BY NotPending DEF HeldNow, Held
<1>4. /\ Held(table, tracker', locks', sessionSerial, historyRows, kept, now, T)
      /\ tracker'.confirming = tracker.confirming
  BY <1>1, <1>2, <1>3, HeldEnsured DEF HeldNow
<1>5. Recorded(table, tracker, tracker', locks', sessionSerial, historyRows, kept, now, T)
  BY <1>4, NotRecorded
<1> QED BY <1>1, <1>5, KeptRecorded

LEMMA UpdateKept ==
  ASSUME RowsOK, reader = Null, NEW kept, NEW now, NEW T, HeldNow(kept, now, T),
         NEW k \in Accounts, NEW val \in Values, UpdateAccount(k, val)
  PROVE  Kept(kept, now, T)
<1> DEFINE t0 == Ensured(table, tracker, k)
<1>1. InStep("idle") /\ Exists(k) /\ tracker' = TrackModify(t0, k, val) /\ locks' = locks /\ TrackerOnly
  BY DEF UpdateAccount, InTask, NoBlockOperation, EnsureEntityTracking, Ensured
<1>2. k \in Key /\ (IsTracking(tracker, k) \/ table[k] # Absent)
  BY <1>1 DEF Key, Exists
<1>3. k \notin PendingKeys(tracker) \/ IsTracking(tracker, k)
  BY NotPending DEF HeldNow, Held
<1>4. /\ Held(table, t0, locks, sessionSerial, historyRows, kept, now, T)
      /\ t0.confirming = tracker.confirming /\ t0.cache[k] = now[k] /\ now[k] \in Entities
  BY <1>2, <1>3, HeldEnsured DEF HeldNow
<1> HIDE DEF t0
<1>5. Recorded(table, t0, TrackModify(t0, k, val), locks, sessionSerial, historyRows, kept, now, T)
  BY <1>4, ModifyRecorded
<1>6. Recorded(table, tracker, tracker', locks', sessionSerial, historyRows, kept, now, T)
  BY <1>1, <1>4, <1>5, RecordedOf
<1> QED BY <1>1, <1>6, KeptRecorded

LEMMA CreateKept ==
  ASSUME RowsOK, reader = Null, NEW kept, NEW now, NEW T, HeldNow(kept, now, T),
         NEW k \in Accounts, NEW val \in Values, CreateAccount(k, val)
  PROVE  Kept(kept, now, T)
<1>1. InStep("idle") /\ ~ Exists(k) /\ tracker' = TrackNew(tracker, k, val) /\ locks' = locks /\ TrackerOnly
  BY DEF CreateAccount, InTask, NoBlockOperation
<1>2. k \in Key /\ k \notin Votes /\ ~ IsTracking(tracker, k) /\ table[k] = Absent
  BY <1>1, SmartDBAssumption DEF Key, Exists
<1>3. now[k] = Absent
  BY <1>2, NotPending DEF HeldNow, Held
<1>4. Recorded(table, tracker, TrackNew(tracker, k, val), locks, sessionSerial, historyRows, kept, now, T)
  BY <1>2, <1>3, CreateRecorded DEF HeldNow
<1> QED BY <1>1, <1>4, KeptRecorded

(* A lock that is taken by the running contract *)
LEMMA LockedHeld ==
  ASSUME NEW kept, NEW now, NEW T, HeldNow(kept, now, T), tracker.confirming,
         NEW k \in Votes, LockInThisSession(k)
  PROVE  /\ k \notin PendingKeys(tracker)
         /\ Held(table, tracker, locks', sessionSerial, historyRows, kept, now, T)
         /\ k \in locks'.confirmed \cup locks'.unconfirmed
<1>1. LocksFit(tracker, locks) /\ IsTracker(tracker)
  BY DEF HeldNow, Held
<1>2. locks \in [confirmed : SUBSET Votes, unconfirmed : SUBSET Votes]
  BY <1>1 DEF LocksFit
<1>3. k \notin locks.confirmed \cup locks.unconfirmed
      /\ locks' = [locks EXCEPT !.unconfirmed = @ \cup {k}]
  BY DEF LockInThisSession, LockIsFree
<1>4. /\ locks' \in [confirmed : SUBSET Votes, unconfirmed : SUBSET Votes]
      /\ locks'.confirmed = locks.confirmed /\ locks'.unconfirmed = locks.unconfirmed \cup {k}
  BY <1>2, <1>3
<1>5. k \notin PendingKeys(tracker)
  BY <1>1, <1>3, NotLocked
<1>6. Held(table, tracker, locks', sessionSerial, historyRows, kept, now, T)
  BY <1>4, HeldLocked DEF HeldNow
<1> QED BY <1>4, <1>5, <1>6

LEMMA VoteKept ==
  ASSUME RowsOK, reader = Null, NEW kept, NEW now, NEW T, HeldNow(kept, now, T),
         NEW k \in Votes, CastVote(k)
  PROVE  Kept(kept, now, T)
<1>1. /\ InStep("idle") /\ tracker.confirming /\ LockInThisSession(k) /\ table[k] = Absent
      /\ tracker' = TrackNew(tracker, k, k) /\ TrackerOnly
  BY DEF CastVote, InContract, NoBlockOperation
<1>2. /\ k \notin PendingKeys(tracker)
      /\ Held(table, tracker, locks', sessionSerial, historyRows, kept, now, T)
      /\ k \in locks'.confirmed \cup locks'.unconfirmed
  BY <1>1, LockedHeld
<1>3. k \in Key /\ IsTracker(tracker) /\ PendingFits(table, tracker, kept, now)
  BY DEF HeldNow, Held, Key
<1>4. now[k] = Absent
  BY <1>1, <1>2, <1>3, PendingRow
<1>5. Recorded(table, tracker, TrackNew(tracker, k, k), locks', sessionSerial, historyRows, kept, now, T)
  BY <1>1, <1>2, <1>3, <1>4, CreateRecorded
<1> QED BY <1>1, <1>5, KeptRecorded

LEMMA UnvoteKept ==
  ASSUME RowsOK, reader = Null, NEW kept, NEW now, NEW T, HeldNow(kept, now, T),
         NEW k \in Votes, Unvote(k)
  PROVE  Kept(kept, now, T)
<1> DEFINE t0 == Ensured(table, tracker, k)
<1>1. /\ InStep("idle") /\ tracker.confirming /\ LockInThisSession(k) /\ table[k] # Absent
      /\ tracker' = TrackDelete(t0, k) /\ TrackerOnly
  BY DEF Unvote, InContract, NoBlockOperation, EnsureEntityTracking, Ensured
<1>2. /\ k \notin PendingKeys(tracker)
      /\ Held(table, tracker, locks', sessionSerial, historyRows, kept, now, T)
      /\ k \in locks'.confirmed \cup locks'.unconfirmed
  BY <1>1, LockedHeld
<1>3. k \in Key
  BY DEF Key
<1>4. /\ Held(table, t0, locks', sessionSerial, historyRows, kept, now, T)
      /\ t0.confirming = tracker.confirming /\ t0.cache[k] = now[k] /\ now[k] \in Entities
  <2> DEFINE held == locks'
  <2>1. /\ Held(table, tracker, held, sessionSerial, historyRows, kept, now, T)
        /\ k \notin PendingKeys(tracker) \/ IsTracking(tracker, k)
        /\ IsTracking(tracker, k) \/ table[k] # Absent
    BY <1>1, <1>2
  <2> HIDE DEF held
  <2>2. /\ Held(table, t0, held, sessionSerial, historyRows, kept, now, T)
        /\ t0.confirming = tracker.confirming /\ t0.cache[k] = now[k] /\ now[k] \in Entities
    BY <1>3, <2>1, HeldEnsured
  <2> QED BY <2>2 DEF held
<1> HIDE DEF t0
<1>5. Recorded(table, t0, TrackDelete(t0, k), locks', sessionSerial, historyRows, kept, now, T)
  BY <1>1, <1>2, <1>4, DeleteRecorded
<1>6. Recorded(table, tracker, tracker', locks', sessionSerial, historyRows, kept, now, T)
  BY <1>1, <1>4, <1>5, RecordedOf
<1> QED BY <1>1, <1>6, KeptRecorded

(* The contracts *)

LEMMA NowParts ==
  ASSUME NEW kept, NEW now, NEW T, HeldNow(kept, now, T)
  PROVE  /\ IsTracker(tracker) /\ tracker.confirming \in BOOLEAN
         /\ PendingFits(table, tracker, kept, now) /\ LocksFit(tracker, locks)
         /\ HistoryFits(tracker, sessionSerial, historyRows)
         /\ Chained(T, sessionSerial + 1, historyRows, table)
         /\ table \in Tables /\ kept \in Tables /\ now \in Tables
         /\ sessionSerial \in Int /\ sessionSerial >= -1
<1>1. /\ IsTracker(tracker) /\ PendingFits(table, tracker, kept, now) /\ LocksFit(tracker, locks)
      /\ HistoryFits(tracker, sessionSerial, historyRows)
      /\ Chained(T, sessionSerial + 1, historyRows, table)
  BY DEF HeldNow, Held
<1>2. tracker.confirming \in BOOLEAN
  BY <1>1 DEF IsTracker
<1>3. table \in Tables /\ kept \in Tables /\ now \in Tables
  BY <1>1, LeadsTables DEF PendingFits
<1>4. sessionSerial \in Int /\ sessionSerial >= -1
  BY <1>1 DEF HistoryFits
<1> QED BY <1>1, <1>2, <1>3, <1>4

LEMMA KeptIdle ==
  ASSUME RowsOK, InStep("idle"), reader = Null, NEW kept, NEW now, NEW T, TrackerOnly, Moved(kept, now, T)
  PROVE  Kept(kept, now, T)
<1>1. UNCHANGED <<blockRows, historyRows, op, reader>>
  BY DEF TrackerOnly, database, rows
<1>2. RowsOK' /\ CommitOK' /\ reader' = Null
  BY <1>1 DEF RowsOK, CommitOK, InStep
<1> QED BY <1>2 DEF Kept

LEMMA BeginContractKept ==
  ASSUME RowsOK, reader = Null, NEW kept, NEW now, NEW T, HeldNow(kept, now, T), BeginContract
  PROVE  Kept(kept, now, T)
<1>1. /\ InStep("idle") /\ ~ tracker.confirming /\ tracker' = BeginConfirm(tracker)
      /\ TrackerOnly /\ locks' = locks
  BY DEF BeginContract, NoContract, NoBlockOperation
<1>2. UNCHANGED <<table, historyRows, sessionSerial>>
  BY <1>1 DEF TrackerOnly, database, rows
<1>3. tracker.confirming = FALSE
  BY <1>1, NowParts
<1>4. /\ kept = now
      /\ Held(table, tracker', locks, sessionSerial, historyRows, kept, now, T)
      /\ tracker'.confirming
  BY <1>1, HeldBegun DEF HeldNow
<1>5. tracker'.confirming = TRUE
  BY <1>1 DEF BeginConfirm
<1>6. BeginStep(View(FALSE, sessionSerial, now, now, T), View(TRUE, sessionSerial, now, now, T))
  BY BegunSeen
<1>7. StoreStep(View(tracker.confirming, sessionSerial, kept, now, T),
                View(tracker'.confirming, sessionSerial', now, now, T))
  BY <1>2, <1>3, <1>4, <1>5, <1>6 DEF StoreStep
<1>8. Held(table', tracker', locks', sessionSerial', historyRows', now, now, T)
  BY <1>1, <1>2, <1>4
<1>9. Moved(kept, now, T)
  BY <1>7, <1>8 DEF Moved
<1> QED BY <1>1, <1>9, KeptIdle

LEMMA CommitContractKept ==
  ASSUME RowsOK, reader = Null, NEW kept, NEW now, NEW T, HeldNow(kept, now, T), CommitContract
  PROVE  Kept(kept, now, T)
<1>1. /\ InStep("idle") /\ tracker.confirming /\ tracker' = Confirm(tracker)
      /\ TrackerOnly /\ locks' = CommitLocks
  BY DEF CommitContract, InContract, NoBlockOperation
<1>2. UNCHANGED <<table, historyRows, sessionSerial>>
  BY <1>1 DEF TrackerOnly, database, rows
<1>3. /\ tracker.confirming = TRUE /\ kept \in Tables
  BY <1>1, NowParts
<1>4. /\ Held(table, tracker', locks', sessionSerial, historyRows, now, now, T)
      /\ ~ tracker'.confirming
  BY <1>1, HeldConfirmed DEF HeldNow, CommitLocks
<1>5. tracker'.confirming = FALSE
  BY <1>4 DEF Held, IsTracker
<1>6. KeepContractStep(View(TRUE, sessionSerial, kept, now, T), View(FALSE, sessionSerial, now, now, T))
  BY <1>3, ContractSeen
<1>7. StoreStep(View(tracker.confirming, sessionSerial, kept, now, T),
                View(tracker'.confirming, sessionSerial', now, now, T))
  BY <1>2, <1>3, <1>5, <1>6 DEF StoreStep
<1>8. Held(table', tracker', locks', sessionSerial', historyRows', now, now, T)
  BY <1>2, <1>4
<1>9. Moved(kept, now, T)
  BY <1>7, <1>8 DEF Moved
<1> QED BY <1>1, <1>9, KeptIdle

LEMMA RollbackContractKept ==
  ASSUME RowsOK, reader = Null, NEW kept, NEW now, NEW T, HeldNow(kept, now, T), RollbackContract
  PROVE  Kept(kept, now, T)
<1>1. /\ InStep("idle") /\ tracker.confirming /\ tracker' = CancelConfirm(tracker) /\ TrackerOnly
      /\ locks' = IF tracker'.threw THEN locks ELSE [locks EXCEPT !.unconfirmed = {}]
  BY DEF RollbackContract, InContract, NoBlockOperation
<1>2. UNCHANGED <<table, historyRows, sessionSerial>>
  BY <1>1 DEF TrackerOnly, database, rows
<1>3. tracker.confirming = TRUE /\ kept \in Tables
  BY <1>1, NowParts
<1>4. /\ Held(table, tracker', [locks EXCEPT !.unconfirmed = {}], sessionSerial, historyRows, kept, kept, T)
      /\ ~ tracker'.threw /\ ~ tracker'.confirming
  BY <1>1, HeldCancelled DEF HeldNow
<1>5. tracker'.confirming = FALSE
  BY <1>4 DEF Held, IsTracker
<1>6. UndoContractStep(View(TRUE, sessionSerial, kept, now, T), View(FALSE, sessionSerial, kept, kept, T))
  BY <1>3, ContractSeen
<1>7. StoreStep(View(tracker.confirming, sessionSerial, kept, now, T),
                View(tracker'.confirming, sessionSerial', kept, kept, T))
  BY <1>2, <1>3, <1>5, <1>6 DEF StoreStep
<1>8. Held(table', tracker', locks', sessionSerial', historyRows', kept, kept, T)
  BY <1>1, <1>2, <1>4
<1>9. Moved(kept, now, T)
  BY <1>7, <1>8 DEF Moved
<1> QED BY <1>1, <1>9, KeptIdle

(* An entity that leaves the cache *)
LEMMA EvictKept ==
  ASSUME RowsOK, CommitOK, reader = Null, NEW kept, NEW now, NEW T, HeldNow(kept, now, T),
         NEW k \in Evictable, EvictEntity(k)
  PROVE  Kept(kept, now, T)
<1>1. /\ \A i \in DOMAIN Pending : Pending[i].key # k
      /\ tracker' = [tracker EXCEPT !.cache[k] = Absent] /\ locks' = locks /\ TrackerOnly
  BY DEF EvictEntity
<1>2. UNCHANGED <<blockRows, historyRows, table, lastBlockHeight, sessionSerial, op, reader>>
  BY <1>1 DEF TrackerOnly, database, rows, blockVars
<1>3. k \in Key /\ Absent \in Stored
  BY SmartDBAssumption, AbsentStored DEF Key
<1>4. tracker.confirmed \in Seq(Changes) /\ tracker.unconfirmed \in Seq(Changes)
  BY NowParts DEF IsTracker
<1>5. k \notin Changed(Pending)
  BY <1>1 DEF Changed
<1>6. k \notin PendingKeys(tracker)
  BY <1>4, <1>5, ChangedConcat DEF Pending, PendingKeys
<1>7. /\ Held(table, tracker', locks, sessionSerial, historyRows, kept, now, T)
      /\ tracker'.confirming = tracker.confirming /\ tracker'.confirmed = tracker.confirmed
  BY <1>1, <1>3, <1>6, HeldCached DEF HeldNow
<1>8. RowsOK' /\ CommitOK' /\ reader' = Null
  BY <1>2, <1>7 DEF RowsOK, CommitOK, InStep
<1>9. Moved(kept, now, T)
  BY <1>1, <1>2, <1>7 DEF Moved, StoreStep
<1> QED BY <1>8, <1>9 DEF Kept

(* The commit of a block *)

(* What is held is not touched *)
LEMMA MovedNot ==
  ASSUME NEW kept, NEW now, NEW T, HeldNow(kept, now, T),
         UNCHANGED <<table, tracker, locks, sessionSerial, historyRows>>
  PROVE  Moved(kept, now, T)
BY DEF Moved, HeldNow, StoreStep

LEMMA BeginBlockKept ==
  ASSUME RowsOK, CommitOK, reader = Null, NEW kept, NEW now, NEW T, HeldNow(kept, now, T),
         NEW id \in BlockIds, BeginBlock(id)
  PROVE  Kept(kept, now, T)
<1>1. UNCHANGED <<blockRows, historyRows, table, tracker, locks, sessionSerial, lastBlockHeight, op, reader>>
  BY DEF BeginBlock, database, rows, session
<1>2. RowsOK' /\ CommitOK' /\ reader' = Null
  BY <1>1 DEF RowsOK, CommitOK, InStep
<1>3. Moved(kept, now, T)
  BY <1>1, MovedNot
<1> QED BY <1>2, <1>3 DEF Kept

LEMMA InsertBlockKept ==
  ASSUME HeightsInv, RowsOK, reader = Null, NEW kept, NEW now, NEW T, HeldNow(kept, now, T), InsertBlock
  PROVE  Kept(kept, now, T)
<1> DEFINE height == currentBlock.height
           id == currentBlock.id
<1>1. /\ ~ tracker.confirming /\ currentBlock # Null
      /\ \/ blockRows' = WithRow(blockRows, height, id) /\ op'.step = "insertHistory"
         \/ blockRows' = blockRows /\ op'.step = "rollback"
      /\ UNCHANGED <<historyRows, table, tracker, locks, sessionSerial, reader>>
  BY DEF InsertBlock, NoContract, session, ThrowToProcessBlock
<1>2. id \in BlockIds
  BY <1>1 DEF HeightsInv, CurrentBlockOK
<1> HIDE DEF height, id
<1>3. ASSUME blockRows' = WithRow(blockRows, height, id)
      PROVE  /\ \A h \in DOMAIN blockRows' : blockRows'[h] \in BlockIds
             /\ blockRows' = [h \in DOMAIN blockRows' |-> blockRows'[h]]
  <2>1. /\ DOMAIN WithRow(blockRows, height, id) = {height} \cup DOMAIN blockRows
        /\ WithRow(blockRows, height, id)[height] = id
        /\ \A i \in DOMAIN blockRows \ {height} : WithRow(blockRows, height, id)[i] = blockRows[i]
    BY DEF WithRow, WithRows
  <2>2. \A h \in DOMAIN blockRows' : blockRows'[h] \in BlockIds
    BY <1>2, <1>3, <2>1 DEF RowsOK
  <2>3. blockRows' = [h \in DOMAIN blockRows' |-> blockRows'[h]]
    BY <1>3 DEF WithRow, WithRows
  <2> QED BY <2>2, <2>3
<1>4. /\ \A h \in DOMAIN blockRows' : blockRows'[h] \in BlockIds
      /\ blockRows' = [h \in DOMAIN blockRows' |-> blockRows'[h]]
  <2>1. CASE blockRows' = blockRows
    BY <2>1 DEF RowsOK
  <2> QED BY <1>1, <1>3, <2>1
<1>5. RowsOK' /\ CommitOK' /\ reader' = Null
  BY <1>1, <1>4 DEF RowsOK, CommitOK, InStep
<1>6. Moved(kept, now, T)
  BY <1>1, MovedNot
<1> QED BY <1>5, <1>6 DEF Kept

LEMMA InsertHistoryKept ==
  ASSUME HeightsKept, HeightsInv, RowsOK, CommitOK, reader = Null,
         NEW kept, NEW now, NEW T, HeldNow(kept, now, T), InsertHistory
  PROVE  Kept(kept, now, T)
<1> DEFINE height == currentBlock.height
           row == tracker.confirmed
<1>1. /\ InStep("insertHistory") /\ ~ tracker.confirming
      /\ lastBlockHeight \in Int /\ height = lastBlockHeight + 1 /\ sessionSerial = lastBlockHeight
      /\ DOMAIN historyRows \subseteq 0 .. lastBlockHeight
  BY HeightsOfStep DEF InsertHistory, CommitOK, InStep, HeightsInv, CurrentBlockOK
<1>2. ~ MayFail("insertHistory") /\ height \notin DOMAIN historyRows
  BY <1>1 DEF HeightsKept, CommitFaultsOnly, MayFail
<1>3. /\ historyRows' = WithRow(historyRows, height, row)
      /\ lastBlockHeight' = lastBlockHeight + 1 /\ op' = [step |-> "saveChanges"]
      /\ UNCHANGED <<blockRows, table, tracker, locks, sessionSerial, reader>>
  BY <1>2 DEF InsertHistory, session
<1>4. row \in Seq(Changes)
  BY NowParts DEF IsTracker
<1> HIDE DEF height, row
<1>5. /\ DOMAIN historyRows' = {height} \cup DOMAIN historyRows
      /\ historyRows'[height] = row
      /\ \A i \in DOMAIN historyRows \ {height} : historyRows'[i] = historyRows[i]
  <2>1. /\ DOMAIN WithRow(historyRows, height, row) = {height} \cup DOMAIN historyRows
        /\ WithRow(historyRows, height, row)[height] = row
        /\ \A i \in DOMAIN historyRows \ {height} :
              WithRow(historyRows, height, row)[i] = historyRows[i]
    BY DEF WithRow, WithRows
  <2> QED BY <1>3, <2>1
<1>6. RowsOK' /\ reader' = Null
  BY <1>3, <1>4, <1>5 DEF RowsOK
<1>7. CommitOK'
  BY <1>1, <1>3, <1>5 DEF CommitOK, InStep, row
<1>8. Held(table, tracker, locks, sessionSerial, historyRows', kept, now, T)
  <2> DEFINE rows1 == historyRows'
  <2>1. \A h \in DOMAIN historyRows : h \in DOMAIN rows1 /\ rows1[h] = historyRows[h]
    BY <1>2, <1>5
  <2> HIDE DEF rows1
  <2>2. Held(table, tracker, locks, sessionSerial, historyRows, kept, now, T)
    BY DEF HeldNow
  <2>3. \A h \in 0 .. sessionSerial : h \in DOMAIN historyRows
    <3>1. Chained(T, sessionSerial + 1, historyRows, table) /\ sessionSerial \in Int
      BY NowParts
    <3>2. ASSUME NEW h \in 0 .. sessionSerial PROVE h \in DOMAIN historyRows
      <4>1. h + 1 \in 1 .. sessionSerial + 1 /\ (h + 1) - 1 = h
        BY <3>1
      <4> QED BY <3>1, <4>1 DEF Chained
    <3> QED BY <3>2
  <2>4. Held(table, tracker, locks, sessionSerial, rows1, kept, now, T)
    BY <2>1, <2>2, <2>3, HeldRows
  <2> QED BY <2>4 DEF rows1
<1>9. Moved(kept, now, T)
  BY <1>3, <1>8 DEF Moved, StoreStep
<1> QED BY <1>6, <1>7, <1>9 DEF Kept

LEMMA SaveChangesKept ==
  ASSUME HeightsInv, RowsOK, CommitOK, reader = Null,
         NEW kept, NEW now, NEW T, HeldNow(kept, now, T), SaveChanges
  PROVE  Kept(kept, now, T)
<1> DEFINE height == sessionSerial
           T1 == [i \in 0 .. height + 2 |-> IF i = height + 2 THEN now ELSE T[i]]
<1>1. /\ InStep("saveChanges") /\ table' = ApplyChanges(table, Pending).table
      /\ tracker' = AcceptChanges(Confirm(tracker), currentBlock.height)
      /\ locks' = NoLocks /\ sessionSerial' = currentBlock.height
      /\ op'.step \in {"idle", "deleteBlock"}
      /\ UNCHANGED <<blockRows, historyRows, reader>>
  BY DEF SaveChanges, rows, Idle, UndoCommit
<1>2. /\ lastBlockHeight \in 0 .. MaxHeight /\ height = lastBlockHeight - 1
      /\ currentBlock.height = lastBlockHeight
  BY <1>1, HeightsOfStep DEF HeightsInv, CurrentBlockOK, InStep
<1>3. height \in Int /\ height >= -1 /\ height + 1 = lastBlockHeight /\ height + 1 \in 0 .. MaxHeight
  BY <1>2
<1>4. /\ ~ tracker.confirming /\ height + 1 \in DOMAIN historyRows
      /\ historyRows[height + 1] = tracker.confirmed
  BY <1>1, <1>3 DEF CommitOK, InStep
<1>5. tracker.confirming = FALSE
  BY <1>4, NowParts
<1>6. table' = now
  <2>1. ApplyChanges(table, tracker.confirmed \o tracker.unconfirmed) = [table |-> now, failed |-> FALSE]
    BY NowParts, PendingSaved
  <2> QED BY <1>1, <2>1 DEF Pending
<1>7. tracker' = AcceptChanges(Confirm(tracker), height + 1) /\ sessionSerial' = height + 1
  BY <1>1, <1>2, <1>3
<1> HIDE DEF height
<1>8. /\ kept = now /\ ~ AcceptChanges(Confirm(tracker), height + 1).confirming
      /\ Held(now, AcceptChanges(Confirm(tracker), height + 1), NoLocks, height + 1, historyRows, now, now, T1)
  <2>1. Held(table, tracker, locks, height, historyRows, kept, now, T)
    BY DEF HeldNow, height
  <2> HIDE DEF T1
  <2> QED BY <1>3, <1>4, <2>1, HeldAccepted DEF T1
<1>9. KeepBlockStep(View(FALSE, height, now, now, T), View(FALSE, height + 1, now, now, T1))
  BY <1>3, SavedSeen
<1> HIDE DEF T1
<1>10. tracker'.confirming = FALSE /\ ~ tracker'.confirming
  BY <1>7, <1>8 DEF Held, IsTracker
<1>11. Held(table', tracker', locks', sessionSerial', historyRows', now, now, T1)
  BY <1>1, <1>6, <1>7, <1>8
<1>12. StoreStep(View(tracker.confirming, sessionSerial, kept, now, T),
                 View(tracker'.confirming, sessionSerial', now, now, T1))
  BY <1>5, <1>7, <1>8, <1>9, <1>10 DEF StoreStep, height
<1>13. Moved(kept, now, T)
  BY <1>11, <1>12 DEF Moved
<1>14. RowsOK' /\ CommitOK' /\ reader' = Null
  BY <1>1, <1>10 DEF RowsOK, CommitOK, InStep
<1> QED BY <1>13, <1>14 DEF Kept

(* The store goes back to what the last block has left *)
LEMMA RolledBack ==
  ASSUME NEW kept, NEW now, NEW T, HeldNow(kept, now, T),
         NEW tab, tab = table, table' = tab, sessionSerial' = sessionSerial, historyRows' = historyRows,
         Held(tab, tracker', locks', sessionSerial, historyRows, tab, tab, T), ~ tracker'.confirming
  PROVE  Moved(kept, now, T)
<1>1. tracker'.confirming = FALSE
  BY DEF Held, IsTracker
<1> DEFINE height == sessionSerial
           n == height + 1
<1>2. height \in Int /\ height >= -1 /\ n \in 0 .. height + 1 /\ n - 1 = height
  BY NowParts
<1>3. T[0] = EmptyTable /\ T[n] = table
  BY NowParts DEF Chained
<1> HIDE DEF height, n
<1>4. RollbackStep(View(tracker.confirming, height, kept, now, T), View(FALSE, n - 1, T[n], T[n], T))
  BY <1>2, <1>3, RolledBackSeen
<1>5. StoreStep(View(tracker.confirming, sessionSerial, kept, now, T),
                View(tracker'.confirming, sessionSerial', tab, tab, T))
  BY <1>1, <1>2, <1>3, <1>4 DEF StoreStep, height
<1> QED BY <1>5 DEF Moved

LEMMA SaveChangesFailKept ==
  ASSUME HeightsInv, RowsOK, CommitOK, reader = Null,
         NEW kept, NEW now, NEW T, HeldNow(kept, now, T), SaveChangesFail
  PROVE  Kept(kept, now, T)
<1> DEFINE c == Confirm(tracker)
<1>1. /\ tracker' = RejectChanges(c) /\ locks' = CommitLocks /\ op'.step = "deleteBlock"
      /\ UNCHANGED <<blockRows, historyRows, table, sessionSerial, reader>>
  BY DEF SaveChangesFail, database, rows, UndoCommit
<1>2. Held(table, c, CommitLocks, sessionSerial, historyRows, now, now, T)
  BY HeldConfirmed DEF HeldNow, CommitLocks
<1> HIDE DEF c
<1>3. Held(table, tracker', NoLocks, sessionSerial, historyRows, table, table, T) /\ ~ tracker'.confirming
  BY <1>1, <1>2, HeldRejected
<1>4. /\ CommitLocks \in [confirmed : SUBSET Votes, unconfirmed : SUBSET Votes]
      /\ NoLocks.confirmed \subseteq CommitLocks.confirmed
      /\ NoLocks.unconfirmed \subseteq CommitLocks.confirmed \cup CommitLocks.unconfirmed
  <2>1. LocksFit(c, CommitLocks)
    BY <1>2 DEF Held
  <2> QED BY <2>1 DEF LocksFit, NoLocks
<1>5. Held(table, tracker', CommitLocks, sessionSerial, historyRows, table, table, T)
  <2> DEFINE t1 == tracker'
  <2>1. Held(table, t1, NoLocks, sessionSerial, historyRows, table, table, T)
    BY <1>3
  <2> HIDE DEF t1
  <2>2. Held(table, t1, CommitLocks, sessionSerial, historyRows, table, table, T)
    BY <1>4, <2>1, HeldLocked
  <2> QED BY <2>2 DEF t1
<1>6. Moved(kept, now, T)
  BY <1>1, <1>3, <1>5, RolledBack
<1>7. RowsOK' /\ CommitOK' /\ reader' = Null
  BY <1>1, <1>3 DEF RowsOK, CommitOK, InStep
<1> QED BY <1>6, <1>7 DEF Kept

(* The rows of a block that is deleted are not those of the entities *)
LEMMA DeleteBlockKept ==
  ASSUME HeightsKept, HeightsInv, RowsOK, CommitOK, reader = Null,
         NEW kept, NEW now, NEW T, HeldNow(kept, now, T), DeleteBlock
  PROVE  Kept(kept, now, T)
<1>1. ~ MayFail("deleteBlock")
  BY DEF HeightsKept, CommitFaultsOnly, MayFail
<1>2. /\ InStep("deleteBlock")
      /\ blockRows' = RestrictDomain(blockRows, LAMBDA h : h # lastBlockHeight)
      /\ op' = [op EXCEPT !.step = "deleteHistory"]
      /\ UNCHANGED <<historyRows, table, tracker, locks, sessionSerial, reader>>
  BY <1>1 DEF DeleteBlock, session
<1>3. op'.step # "saveChanges" /\ ~ tracker.confirming
  <2>1. op = [step |-> op.step, target |-> op.target]
    BY <1>2, HeightsOfStep DEF Deleting, InStep
  <2>2. op'.step = "deleteHistory"
    BY <1>2, <2>1
  <2> QED BY <1>2, <2>2 DEF CommitOK, InStep
<1>4. blockRows' = [h \in {x \in DOMAIN blockRows : x # lastBlockHeight} |-> blockRows[h]]
  BY <1>2 DEF RestrictDomain, Restrict
<1>5. /\ \A h \in DOMAIN blockRows' : blockRows'[h] \in BlockIds
      /\ blockRows' = [h \in DOMAIN blockRows' |-> blockRows'[h]]
  BY <1>4 DEF RowsOK
<1>6. RowsOK' /\ CommitOK' /\ reader' = Null
  BY <1>2, <1>3, <1>5 DEF RowsOK, CommitOK, InStep
<1>7. Moved(kept, now, T)
  BY <1>2, MovedNot
<1> QED BY <1>6, <1>7 DEF Kept

LEMMA DeleteHistoryKept ==
  ASSUME HeightsKept, HeightsInv, RowsOK, CommitOK, reader = Null,
         NEW kept, NEW now, NEW T, HeldNow(kept, now, T), DeleteHistory
  PROVE  Kept(kept, now, T)
<1>1. ~ MayFail("deleteHistory")
  BY DEF HeightsKept, CommitFaultsOnly, MayFail
<1>2. /\ InStep("deleteHistory")
      /\ historyRows' = RestrictDomain(historyRows, LAMBDA h : h # lastBlockHeight)
      /\ op' = [step |-> "rollback"] \/ op' = [op EXCEPT !.step = "deleteBlock"] \/ op' = [step |-> "idle"]
      /\ UNCHANGED <<blockRows, table, tracker, locks, sessionSerial, reader>>
  BY <1>1 DEF DeleteHistory, session, ThrowToProcessBlock, FinishRollback, Idle
<1>3. op'.step # "saveChanges" /\ ~ tracker.confirming
  <2>1. op = [step |-> op.step, target |-> op.target]
    BY <1>2, HeightsOfStep DEF Deleting, InStep
  <2>2. op'.step \in {"rollback", "deleteBlock", "idle"}
    BY <1>2, <2>1
  <2> QED BY <1>2, <2>2 DEF CommitOK, InStep
<1>4. /\ lastBlockHeight \in Int /\ sessionSerial <= lastBlockHeight - 1 /\ sessionSerial \in Int
  <2>1. /\ lastBlockHeight \in Int /\ sessionSerial = KeptHeight
        /\ op.target = Null \/ op.target \in 0 .. lastBlockHeight - 1
        /\ op.target = Null => KeptHeight = lastBlockHeight - 1
        /\ op.target # Null => KeptHeight = op.target
    BY <1>2, HeightsOfStep DEF HeightsInv, Deleting, InStep
  <2> QED BY <2>1
<1>5. historyRows' = [h \in {x \in DOMAIN historyRows : x # lastBlockHeight} |-> historyRows[h]]
  BY <1>2 DEF RestrictDomain, Restrict
<1>6. \A h \in DOMAIN historyRows' : historyRows'[h] \in Seq(Changes)
  BY <1>5 DEF RowsOK
<1>7. RowsOK' /\ CommitOK' /\ reader' = Null
  BY <1>2, <1>3, <1>6 DEF RowsOK, CommitOK, InStep
<1>8. Held(table, tracker, locks, sessionSerial, historyRows', kept, now, T)
  <2> DEFINE rows1 == historyRows'
  <2>1. \A h \in DOMAIN historyRows : h # lastBlockHeight => h \in DOMAIN rows1 /\ rows1[h] = historyRows[h]
    BY <1>5
  <2>2. Held(table, tracker, locks, sessionSerial, historyRows, kept, now, T)
    BY DEF HeldNow
  <2> HIDE DEF rows1
  <2>3. ASSUME NEW h \in 0 .. sessionSerial
        PROVE  h \in DOMAIN rows1 /\ rows1[h] = historyRows[h]
    <3>1. h + 1 \in 1 .. sessionSerial + 1 /\ (h + 1) - 1 = h /\ h # lastBlockHeight
      BY <1>4
    <3>2. h \in DOMAIN historyRows
      BY <3>1, NowParts DEF Chained
    <3> QED BY <2>1, <3>1, <3>2
  <2>4. Held(table, tracker, locks, sessionSerial, rows1, kept, now, T)
    BY <2>2, <2>3, HeldRows
  <2> QED BY <2>4 DEF rows1
<1>9. Moved(kept, now, T)
  BY <1>2, <1>8 DEF Moved, StoreStep
<1> QED BY <1>7, <1>9 DEF Kept

(* A rollback: what the history tells to revert *)

LEMMA HistoryKept ==
  ASSUME NEW t, NEW height, NEW history, HistoryFits(t, height, history), NEW x \in {height, height + 1}
  PROVE  LoadHistoryUntil(t, x, history) = t
BY DEF HistoryFits, LoadHistoryUntil

LEMMA NothingUntil ==
  ASSUME NEW t, NEW height, NEW history, HistoryFits(t, height, history), NEW tab \in Tables
  PROVE  Leads(tab, GetChangesUntil(t, height + 1), tab)
<1> DEFINE from == height + 1
           n == Max({0, t.currentVersion + 1 - from})
           lists == [i \in 1 .. n |-> LET h == from + i - 1
                                      IN  IF h \in DOMAIN t.history THEN t.history[h] ELSE <<>>]
           S == [j \in 0 .. 0 |-> tab]
<1>1. n = 0
  <2>1. height \in Int /\ t.currentVersion + 1 - from = 0
    BY DEF HistoryFits
  <2>2. Max({0, 0}) = 0
    BY HigherOf
  <2> QED BY <2>1, <2>2
<1>2. GetChangesUntil(t, from) = FlattenSeq(lists)
  BY DEF GetChangesUntil
<1> HIDE DEF n
<1>3. lists \in [1 .. 0 -> Seq(Changes)]
  BY <1>1
<1>4. S[0] \in Tables /\ S[0] = tab
  OBVIOUS
<1> HIDE DEF lists, S
<1>5. Leads(S[0], FlattenSeq(lists), S[0])
  <2>1. 0 \in Nat /\ \A i \in 1 .. 0 : Leads(S[i - 1], lists[i], S[i])
    OBVIOUS
  <2> QED BY <1>3, <1>4, <2>1, FlatLeads
<1> QED BY <1>2, <1>4, <1>5

LEMMA LastUntil ==
  ASSUME NEW t, NEW height, NEW history, NEW T, NEW tab \in Tables,
         HistoryFits(t, height, history), height >= 0, Chained(T, height + 1, history, tab)
  PROVE  Leads(IF height \in DOMAIN t.history THEN T[height] ELSE tab, GetChangesUntil(t, height), tab)
<1> DEFINE n == Max({0, t.currentVersion + 1 - height})
           lists == [i \in 1 .. n |-> LET h == height + i - 1
                                      IN  IF h \in DOMAIN t.history THEN t.history[h] ELSE <<>>]
           first == IF height \in DOMAIN t.history THEN T[height] ELSE tab
           row == IF height \in DOMAIN t.history THEN t.history[height] ELSE <<>>
           S == [j \in 0 .. 1 |-> IF j = 0 THEN first ELSE tab]
<1>0. height \in Int
  BY DEF HistoryFits
<1>1. n = 1
  <2>1. t.currentVersion + 1 - height = 1
    BY <1>0 DEF HistoryFits
  <2>2. Max({0, 1}) = 1
    BY HigherOf
  <2> QED BY <2>1, <2>2
<1>2. GetChangesUntil(t, height) = FlattenSeq(lists)
  BY DEF GetChangesUntil
<1>3. Leads(first, row, tab)
  <2>1. CASE height \in DOMAIN t.history
    <3>1. t.history[height] = history[height]
      BY <1>0, <2>1 DEF HistoryFits
    <3>2. height + 1 \in 1 .. height + 1 /\ (height + 1) - 1 = height
      BY <1>0
    <3>3. Leads(T[height], history[height], T[height + 1]) /\ T[height + 1] = tab
      BY <3>2 DEF Chained
    <3> QED BY <2>1, <3>1, <3>3
  <2>2. CASE height \notin DOMAIN t.history
    BY <2>2, LeadsNowhere
  <2> QED BY <2>1, <2>2
<1> HIDE DEF n
<1>4. lists[1] = row /\ lists = [i \in 1 .. 1 |-> lists[i]]
  <2>1. 1 \in 1 .. n /\ height + 1 - 1 = height
    BY <1>0, <1>1
  <2>2. lists[1] = row
    BY <2>1
  <2> QED BY <1>1, <2>2
<1> HIDE DEF first, row, lists
<1>5. row \in Seq(Changes) /\ first \in Tables
  BY <1>3, LeadsTables
<1>6. lists \in [1 .. 1 -> Seq(Changes)]
  <2>1. \A i \in 1 .. 1 : lists[i] \in Seq(Changes)
    BY <1>4, <1>5
  <2> QED BY <1>4, <2>1
<1>7. S[0] = first /\ S[1] = tab
  OBVIOUS
<1> HIDE DEF S
<1>8. \A i \in 1 .. 1 : Leads(S[i - 1], lists[i], S[i])
  BY <1>3, <1>4, <1>7
<1>9. Leads(S[0], FlattenSeq(lists), S[1])
  BY <1>5, <1>6, <1>7, <1>8, FlatLeads
<1> QED BY <1>2, <1>7, <1>9 DEF first

LEMMA HeldThrown ==
  ASSUME NEW tab, NEW t, NEW held, NEW height, NEW history, NEW kept, NEW now, NEW T,
         Held(tab, t, held, height, history, kept, now, T)
  PROVE  /\ Held(tab, [t EXCEPT !.threw = TRUE], held, height, history, kept, now, T)
         /\ [t EXCEPT !.threw = TRUE].threw
         /\ [t EXCEPT !.threw = TRUE].confirming = t.confirming
<1> DEFINE t1 == [t EXCEPT !.threw = TRUE]
<1>1. /\ IsTracker(t) /\ PendingFits(tab, t, kept, now) /\ LocksFit(t, held)
      /\ HistoryFits(t, height, history) /\ Chained(T, height + 1, history, tab)
  BY DEF Held
<1>2. DOMAIN t = {"cache", "confirming", "unconfirmed", "confirmed", "history",
                  "minVersion", "currentVersion", "threw"}
  BY <1>1, TrackerDomain
<1>3. /\ DOMAIN t1 = DOMAIN t
      /\ t1.cache = t.cache /\ t1.confirming = t.confirming
      /\ t1.unconfirmed = t.unconfirmed /\ t1.confirmed = t.confirmed /\ t1.threw = TRUE
      /\ t1.history = t.history /\ t1.minVersion = t.minVersion /\ t1.currentVersion = t.currentVersion
  BY ONLY <1>2
<1> HIDE DEF t1
<1>4. IsTracker(t1)
  BY <1>1, <1>3 DEF IsTracker
<1>5. PendingFits(tab, t1, kept, now) /\ LocksFit(t1, held) /\ HistoryFits(t1, height, history)
  BY <1>1, <1>3 DEF PendingFits, PendingKeys, LocksFit, HistoryFits
<1>6. Held(tab, t1, held, height, history, kept, now, T)
  BY <1>1, <1>4, <1>5 DEF Held
<1> QED BY <1>3, <1>6 DEF t1

(* A rollback that leaves the blocks, and one that takes the last one back *)
LEMMA StayUndone ==
  ASSUME NEW kept, NEW now, NEW T, HeldNow(kept, now, T), NEW target, target = sessionSerial
  PROVE  /\ Reverted(target) = [table |-> table, failed |-> FALSE]
         /\ ~ Undone(target).threw /\ ~ Undone(target).confirming
         /\ Held(table, Undone(target), NoLocks, sessionSerial, historyRows, table, table, T)
<1> DEFINE h == sessionSerial
           r == RejectChanges(tracker)
<1>1. HistoryFits(tracker, h, historyRows) /\ h \in Int /\ table \in Tables
  BY NowParts
<1>2. HistoryLoaded(target) = tracker
  BY <1>1, HistoryKept DEF HistoryLoaded
<1>3. Leads(table, GetChangesUntil(tracker, h + 1), table)
  BY <1>1, NothingUntil
<1>4. RevertChanges(table, GetChangesUntil(tracker, h + 1)) = [table |-> table, failed |-> FALSE]
  BY <1>3, RevertedTable
<1>5. Reverted(target) = [table |-> table, failed |-> FALSE]
  BY <1>2, <1>4 DEF Reverted
<1>6. /\ Held(table, r, NoLocks, h, historyRows, table, table, T)
      /\ ~ r.threw /\ ~ r.confirming
  BY HeldRejected DEF HeldNow
<1>7. Undone(target) = RollbackChanges(r, h + 1, historyRows)
  BY <1>2, <1>6 DEF Undone
<1> HIDE DEF r
<1>8. /\ ~ RollbackChanges(r, h + 1, historyRows).threw
      /\ ~ RollbackChanges(r, h + 1, historyRows).confirming
      /\ Held(table, RollbackChanges(r, h + 1, historyRows), NoLocks, h, historyRows, table, table, T)
  BY <1>6, HeldStays
<1> QED BY <1>5, <1>7, <1>8

LEMMA LastUndone ==
  ASSUME NEW kept, NEW now, NEW T, HeldNow(kept, now, T), NEW target, target = sessionSerial - 1, target >= -1
  PROVE  /\ sessionSerial \in DOMAIN tracker.history =>
              /\ Reverted(target) = [table |-> T[sessionSerial], failed |-> FALSE]
              /\ ~ Undone(target).threw /\ ~ Undone(target).confirming
              /\ Held(T[sessionSerial], Undone(target), NoLocks, target, historyRows,
                      T[sessionSerial], T[sessionSerial], T)
         /\ sessionSerial \notin DOMAIN tracker.history =>
              /\ Reverted(target) = [table |-> table, failed |-> FALSE]
              /\ Undone(target).threw /\ ~ Undone(target).confirming
              /\ Held(table, Undone(target), NoLocks, sessionSerial, historyRows, table, table, T)
<1> DEFINE h == sessionSerial
           r == RejectChanges(tracker)
           first == IF h \in DOMAIN tracker.history THEN T[h] ELSE table
<1>1. /\ HistoryFits(tracker, h, historyRows) /\ h \in Int /\ table \in Tables
      /\ Chained(T, h + 1, historyRows, table)
  BY NowParts
<1>2. h >= 0 /\ target + 1 = h
  BY <1>1
<1>3. HistoryLoaded(target) = tracker
  BY <1>1, <1>2, HistoryKept DEF HistoryLoaded
<1>4. Leads(first, GetChangesUntil(tracker, h), table)
  BY <1>1, <1>2, LastUntil
<1>5. RevertChanges(table, GetChangesUntil(tracker, h)) = [table |-> first, failed |-> FALSE]
  <2> HIDE DEF first
  <2> QED BY <1>4, RevertedTable
<1>6. Reverted(target) = [table |-> first, failed |-> FALSE]
  BY <1>2, <1>3, <1>5 DEF Reverted
<1>7. /\ Held(table, r, NoLocks, h, historyRows, table, table, T)
      /\ ~ r.threw /\ ~ r.confirming /\ r.unconfirmed = <<>> /\ r.confirmed = <<>>
      /\ r.history = tracker.history
  BY HeldRejected DEF HeldNow
<1>8. Undone(target) = RollbackChanges(r, h, historyRows)
  BY <1>2, <1>3, <1>7 DEF Undone
<1> HIDE DEF r, h
<1>9. /\ h \notin DOMAIN r.history => RollbackChanges(r, h, historyRows) = [r EXCEPT !.threw = TRUE]
      /\ h \in DOMAIN r.history =>
           /\ ~ RollbackChanges(r, h, historyRows).threw /\ ~ RollbackChanges(r, h, historyRows).confirming
           /\ Held(T[h], RollbackChanges(r, h, historyRows), NoLocks, h - 1, historyRows, T[h], T[h], T)
  BY <1>2, <1>7, HeldUndone
<1>10. ASSUME h \in DOMAIN tracker.history
       PROVE  /\ Reverted(target) = [table |-> T[h], failed |-> FALSE]
              /\ ~ Undone(target).threw /\ ~ Undone(target).confirming
              /\ Held(T[h], Undone(target), NoLocks, target, historyRows, T[h], T[h], T)
  <2>1. h - 1 = target
    BY <1>1, <1>2
  <2> QED BY <1>6, <1>7, <1>8, <1>9, <1>10, <2>1
<1>11. ASSUME h \notin DOMAIN tracker.history
       PROVE  /\ Reverted(target) = [table |-> table, failed |-> FALSE]
              /\ Undone(target).threw /\ ~ Undone(target).confirming
              /\ Held(table, Undone(target), NoLocks, h, historyRows, table, table, T)
  <2>1. Undone(target) = [r EXCEPT !.threw = TRUE]
    BY <1>7, <1>8, <1>9, <1>11
  <2>2. /\ Held(table, [r EXCEPT !.threw = TRUE], NoLocks, h, historyRows, table, table, T)
        /\ [r EXCEPT !.threw = TRUE].threw /\ [r EXCEPT !.threw = TRUE].confirming = r.confirming
    BY <1>7, HeldThrown
  <2> QED BY <1>6, <1>7, <1>11, <2>1, <2>2
<1> QED BY <1>10, <1>11 DEF h

LEMMA RollbackKept ==
  ASSUME StorageKept, HeightsInv, RowsOK, CommitOK, reader = Null,
         NEW kept, NEW now, NEW T, HeldNow(kept, now, T),
         InStep("idle") => ~ tracker.confirming, InStep("idle") \/ InStep("rollback"),
         NEW target \in {lastBlockHeight, lastBlockHeight - 1}, target >= -1, RollbackBlock(target)
  PROVE  Kept(kept, now, T)
<1> DEFINE h == sessionSerial
           undone == Undone(target)
<1>1. /\ lastBlockHeight \in Int /\ h = lastBlockHeight /\ ~ tracker.confirming
  BY HeightsOfStep DEF HeightsInv, CommitOK, InStep
<1>2. UNCHANGED <<blockRows, historyRows, lastBlockHeight, reader>>
  BY DEF RollbackBlock, rows
<1>3. /\ h \in Int /\ table \in Tables /\ T[0] = EmptyTable /\ Chained(T, h + 1, historyRows, table)
      /\ T[h + 1] = table /\ LocksFit(tracker, locks)
  BY NowParts DEF Chained
<1>4. ASSUME ~ tracker'.confirming, Moved(kept, now, T), op'.step \in {"idle", "deleteBlock"}
      PROVE  Kept(kept, now, T)
  <2>1. RowsOK' /\ CommitOK' /\ reader' = Null
    BY <1>2, <1>4 DEF RowsOK, CommitOK, InStep
  <2> QED BY <1>4, <2>1 DEF Kept
<1>5. ~ (sessionSerial < target)
  BY <1>1
<1>6. CASE RevertFails(target)
  <2>1. HistoryLoaded(target) = tracker
    <3>1. target + 1 \in {h, h + 1} /\ HistoryFits(tracker, h, historyRows)
      BY <1>1, NowParts
    <3> QED BY <3>1, HistoryKept DEF HistoryLoaded
  <2>2. UNCHANGED <<table, tracker, locks, sessionSerial, historyRows>> /\ op'.step = "idle"
    BY <1>2, <1>6, <2>1 DEF RevertFails, Idle
  <2>3. Moved(kept, now, T)
    BY <2>2, MovedNot
  <2> QED BY <1>1, <1>4, <2>2, <2>3
<1>7. CASE RollbackSucceeds(target)
  <2>1. /\ ~ undone.threw /\ table' = Reverted(target).table /\ tracker' = undone
        /\ sessionSerial' = target /\ locks' = NoLocks /\ op'.step \in {"idle", "deleteBlock"}
    BY <1>7 DEF RollbackSucceeds, RemoveBlocks, FinishRollback, Idle
  <2>2. CASE target = h
    <3>1. /\ Reverted(target) = [table |-> table, failed |-> FALSE] /\ ~ undone.confirming
          /\ Held(table, undone, NoLocks, h, historyRows, table, table, T)
      BY <2>2, StayUndone
    <3> HIDE DEF undone
    <3>2. table' = table /\ ~ tracker'.confirming
      BY <2>1, <3>1
    <3>3. Moved(kept, now, T)
      BY <1>2, <2>1, <2>2, <3>1, <3>2, RolledBack
    <3> QED BY <1>4, <2>1, <3>2, <3>3
  <2>3. CASE target # h
    <3>1. target = h - 1 /\ target >= -1 /\ h >= 0
      BY <1>1, <2>3
    <3>2. /\ Reverted(target) = [table |-> T[h], failed |-> FALSE] /\ ~ undone.confirming
          /\ Held(T[h], undone, NoLocks, target, historyRows, T[h], T[h], T)
      BY <2>1, <3>1, LastUndone
    <3> HIDE DEF undone
    <3>3. table' = T[h] /\ tracker'.confirming = FALSE /\ ~ tracker'.confirming
      BY <2>1, <3>2 DEF Held, IsTracker
    <3>4. RollbackStep(View(tracker.confirming, h, kept, now, T), View(FALSE, h - 1, T[h], T[h], T))
      <4>1. h \in 0 .. h + 1 /\ h >= -1
        BY <1>3, <3>1
      <4> QED BY <1>3, <4>1, RolledBackSeen
    <3>5. StoreStep(View(tracker.confirming, sessionSerial, kept, now, T),
                    View(tracker'.confirming, sessionSerial', T[h], T[h], T))
      BY <2>1, <3>1, <3>3, <3>4 DEF StoreStep
    <3>6. Held(table', tracker', locks', sessionSerial', historyRows', T[h], T[h], T)
      BY <1>2, <2>1, <3>2, <3>3
    <3>7. Moved(kept, now, T)
      BY <3>5, <3>6 DEF Moved
    <3> QED BY <1>4, <2>1, <3>3, <3>7
  <2> QED BY <2>2, <2>3
<1>8. CASE UndoThrows(target)
  <2>1. /\ undone.threw /\ table' = Reverted(target).table /\ tracker' = undone
        /\ sessionSerial' = sessionSerial /\ locks' = locks /\ op'.step = "idle"
    BY <1>8 DEF UndoThrows, Idle
  <2>2. target = h - 1 /\ target >= -1
    BY <1>1, <2>1, StayUndone
  <2>3. /\ Reverted(target) = [table |-> table, failed |-> FALSE] /\ ~ undone.confirming
        /\ Held(table, undone, NoLocks, h, historyRows, table, table, T)
    BY <2>1, <2>2, LastUndone
  <2> HIDE DEF undone
  <2>4. /\ locks \in [confirmed : SUBSET Votes, unconfirmed : SUBSET Votes]
        /\ NoLocks.confirmed \subseteq locks.confirmed
        /\ NoLocks.unconfirmed \subseteq locks.confirmed \cup locks.unconfirmed
    BY <1>3 DEF LocksFit, NoLocks
  <2>5. Held(table, undone, locks, h, historyRows, table, table, T)
    BY <2>3, <2>4, HeldLocked
  <2>6. table' = table /\ ~ tracker'.confirming
    BY <2>1, <2>3
  <2>7. Moved(kept, now, T)
    BY <1>2, <2>1, <2>5, <2>6, RolledBack
  <2> QED BY <1>4, <2>1, <2>6, <2>7
<1> QED BY <1>5, <1>6, <1>7, <1>8 DEF RollbackBlock

LEMMA RollbackToKept ==
  ASSUME StorageKept, HeightsInv, RowsOK, CommitOK, reader = Null,
         NEW kept, NEW now, NEW T, HeldNow(kept, now, T),
         NEW target \in 0 .. lastBlockHeight, RollbackTo(target)
  PROVE  Kept(kept, now, T)
<1>1. /\ InStep("idle") /\ ~ tracker.confirming /\ target >= lastBlockHeight - MaxRollback
      /\ RollbackBlock(target)
  BY DEF RollbackTo, NoContract, NoBlockOperation
<1>2. lastBlockHeight \in Int /\ MaxRollback \in Nat /\ MaxRollback <= 1
  BY SmartDBAssumption DEF StorageKept, HeightsInv
<1>3. target \in {lastBlockHeight, lastBlockHeight - 1} /\ target >= -1
  BY <1>1, <1>2
<1> QED BY <1>1, <1>3, RollbackKept

LEMMA RollbackAfterErrorKept ==
  ASSUME StorageKept, HeightsInv, RowsOK, CommitOK, reader = Null,
         NEW kept, NEW now, NEW T, HeldNow(kept, now, T), RollbackAfterError
  PROVE  Kept(kept, now, T)
<1>1. InStep("rollback") /\ ~ InStep("idle") /\ RollbackBlock(lastBlockHeight)
  BY DEF RollbackAfterError, InStep
<1>2. lastBlockHeight \in Int /\ lastBlockHeight >= -1
  BY DEF HeightsInv
<1>3. lastBlockHeight \in {lastBlockHeight, lastBlockHeight - 1}
  OBVIOUS
<1> QED BY <1>1, <1>2, <1>3, RollbackKept

(* A process that starts has what the blocks have kept *)
LEMMA RestartKept ==
  ASSUME StorageKept, HeightsInv, RowsOK, NEW kept, NEW now, NEW T, HeldNow(kept, now, T), Restart
  PROVE  Kept(kept, now, T)
<1> DEFINE h == sessionSerial
           cache == MemoryModels(table)
<1>1. /\ op.step \in {"idle", "rollback"} /\ InitFrom(blockRows, historyRows, table)
      /\ UNCHANGED <<blockRows, historyRows, table>>
  BY DEF Restart, StorageKept, database, rows
<1>2. /\ lastBlockHeight \in Int /\ lastBlockHeight >= -1 /\ lastBlockHeight <= MaxHeight
      /\ h = lastBlockHeight /\ DOMAIN blockRows = 0 .. lastBlockHeight
      /\ DOMAIN historyRows \subseteq 0 .. lastBlockHeight
  BY <1>1, HeightsOfStep DEF HeightsInv, InStep
<1>3. LastHeightOf(blockRows) = h
  BY <1>2, LastOfRows DEF LastHeightOf
<1>4. /\ tracker' = IF h >= 0 THEN InitVersion(NewTracker(cache), h, historyRows) ELSE NewTracker(cache)
      /\ sessionSerial' = h /\ locks' = NoLocks /\ op'.step = "idle" /\ reader' = Null
  BY <1>1, <1>3 DEF InitFrom, Idle
<1>5. table \in Tables /\ Chained(T, h + 1, historyRows, table)
  BY NowParts
<1>6. cache \in Tables /\ GoesWith(cache, table, {})
  BY <1>5, AbsentStored DEF MemoryModels, GoesWith, Tables
<1>7. h \in Int /\ h >= -1 /\ h <= MaxHeight /\ DOMAIN historyRows \subseteq Int
  BY <1>2
<1> HIDE DEF cache
<1>8. Held(table, IF h >= 0 THEN InitVersion(NewTracker(cache), h, historyRows) ELSE NewTracker(cache),
           NoLocks, h, historyRows, table, table, T)
  <2> HIDE DEF h
  <2> QED BY <1>5, <1>6, <1>7, HeldFresh
<1>9. Held(table, tracker', locks', h, historyRows, table, table, T)
  BY <1>4, <1>8
<1>10. ~ tracker'.confirming
  <2>1. NewTracker(cache).confirming = FALSE
    BY DEF NewTracker
  <2>2. InitVersion(NewTracker(cache), h, historyRows).confirming = FALSE
    <3>1. \A rows1 : AttachHistory(NewTracker(cache), rows1).confirming = FALSE
      BY DEF AttachHistory, NewTracker
    <3> QED BY <2>1, <3>1 DEF InitVersion
  <2> QED BY <1>4, <2>1, <2>2
<1>11. Moved(kept, now, T)
  BY <1>1, <1>4, <1>9, <1>10, RolledBack
<1>12. RowsOK' /\ CommitOK' /\ reader' = Null
  BY <1>1, <1>4 DEF RowsOK, CommitOK, InStep
<1> QED BY <1>11, <1>12 DEF Kept

(***************************************************************************)
(* What every step of SmartDB does.                                        *)
(***************************************************************************)
LEMMA StorageMoves ==
  ASSUME StorageKept, HeightsInv, RowsOK, CommitOK, reader = Null,
         NEW kept, NEW now, NEW T, HeldNow(kept, now, T), [Next]_vars
  PROVE  Kept(kept, now, T)
<1>1. HeightsKept
  BY DEF StorageKept
<1>2. CASE Contract
  BY <1>2, BeginContractKept, CommitContractKept, RollbackContractKept, VoteKept, UnvoteKept DEF Contract
<1>3. CASE AccountChange
  BY <1>3, LoadKept, CreateKept, UpdateKept DEF AccountChange
<1>4. CASE CommitBlock
  BY <1>1, <1>4, BeginBlockKept, InsertBlockKept, InsertHistoryKept, SaveChangesKept, SaveChangesFailKept
     DEF CommitBlock
<1>5. CASE Rollback
  BY <1>1, <1>5, DeleteBlockKept, DeleteHistoryKept, RollbackToKept, RollbackAfterErrorKept DEF Rollback
<1>6. CASE Restart
  BY <1>6, RestartKept
<1>7. CASE TrackRead
  BY <1>7 DEF TrackRead
<1>8. ASSUME NEW k \in Readers PROVE FALSE
  BY <1>8 DEF StorageKept
<1>9. ASSUME NEW k \in Evictable, EvictEntity(k) PROVE Kept(kept, now, T)
  BY <1>9, EvictKept
<1>10. CASE UNCHANGED vars
  <2>1. UNCHANGED <<blockRows, historyRows, table, tracker, locks, sessionSerial, lastBlockHeight, op, reader>>
    BY <1>10 DEF vars, database, rows, blockVars, session
  <2>2. RowsOK' /\ CommitOK' /\ reader' = Null
    BY <2>1 DEF RowsOK, CommitOK, InStep
  <2>3. Moved(kept, now, T)
    BY <2>1, MovedNot
  <2> QED BY <2>2, <2>3 DEF Kept
<1> QED BY <1>2, <1>3, <1>4, <1>5, <1>6, <1>7, <1>8, <1>9, <1>10 DEF Next

-----------------------------------------------------------------------------
(* The invariant *)

LEMMA StorageInit ==
  ASSUME Init
  PROVE  /\ StorageInv
         /\ \E T : HeldNow(EmptyTable, EmptyTable, T)
         /\ tracker.confirming = FALSE /\ sessionSerial = -1
<1>1. HeightsInv
  BY HeightsInit
<1>2. /\ blockRows = [h \in {} |-> Null] /\ historyRows = NoHistory /\ table = EmptyTable
      /\ tracker = NewTracker(EmptyTable) /\ sessionSerial = -1 /\ locks = NoLocks
      /\ op = [step |-> "idle"] /\ reader = Null
  BY DEF Init, Idle
<1>3. RowsOK
  BY <1>2 DEF RowsOK, NoHistory
<1>4. CommitOK
  BY <1>2 DEF CommitOK, InStep, NewTracker
<1> DEFINE T == [i \in 0 .. 0 |-> EmptyTable]
           h == -1
<1>5. EmptyTable \in Tables /\ GoesWith(EmptyTable, EmptyTable, {})
  BY AbsentStored DEF EmptyTable, Tables, GoesWith
<1>6. Chained(T, h + 1, NoHistory, EmptyTable)
  <2>1. h + 1 = 0 /\ T[0] = EmptyTable
    OBVIOUS
  <2>2. \A i \in 1 .. 0 : FALSE
    OBVIOUS
  <2> HIDE DEF T, h
  <2> QED BY <2>1, <2>2 DEF Chained
<1>7. h \in Int /\ h >= -1 /\ h <= MaxHeight /\ DOMAIN NoHistory \subseteq Int /\ ~ (h >= 0)
  BY SmartDBAssumption DEF NoHistory
<1> HIDE DEF T
<1>8. Held(EmptyTable, NewTracker(EmptyTable), NoLocks, h, NoHistory, EmptyTable, EmptyTable, T)
  <2> HIDE DEF h
  <2>1. Held(EmptyTable,
             IF h >= 0 THEN InitVersion(NewTracker(EmptyTable), h, NoHistory) ELSE NewTracker(EmptyTable),
             NoLocks, h, NoHistory, EmptyTable, EmptyTable, T)
    BY <1>5, <1>6, <1>7, HeldFresh
  <2> QED BY <1>7, <2>1
<1>9. HeldNow(EmptyTable, EmptyTable, T)
  BY <1>2, <1>8 DEF HeldNow
<1>10. tracker.confirming = FALSE
  BY <1>2 DEF NewTracker
<1> QED BY <1>1, <1>2, <1>3, <1>4, <1>9, <1>10 DEF StorageInv

LEMMA StorageStep ==
  ASSUME StorageKept, StorageInv, [Next]_vars
  PROVE  StorageInv'
<1>1. PICK kept, now, T : HeldNow(kept, now, T)
  BY DEF StorageInv
<1>2. HeightsInv'
  BY HeightsStep DEF StorageKept, StorageInv
<1>3. Kept(kept, now, T)
  BY <1>1, StorageMoves DEF StorageInv
<1>4. \E kept1, now1, T1 : HeldNow(kept1, now1, T1)'
  BY <1>3 DEF Kept, Moved, HeldNow
<1> QED BY <1>2, <1>3, <1>4 DEF Kept, StorageInv

(***************************************************************************)
(* The inductive invariant of the storage: besides the heights, there are  *)
(* tables for every committed height such that the history rows lead from  *)
(* each to the next, and the pending changes from the last one to what     *)
(* contracts see; the cache, the locks and the history in memory go with   *)
(* them.  No contract, commit, failure, rollback or restart breaks it.     *)
(***************************************************************************)
THEOREM StorageCorrect == StorageKept => (Spec => []StorageInv)
<1>1. SUFFICES ASSUME StorageKept PROVE Spec => []StorageInv
  OBVIOUS
<1>2. Init => StorageInv
  BY StorageInit
<1>3. StorageInv /\ [Next]_vars => StorageInv'
  BY <1>1, StorageStep
<1> QED BY <1>2, <1>3, PTL DEF Spec

(***************************************************************************)
(* The state is well formed: whatever is in the rows of BlockHistory and   *)
(* in the tracker creates, modifies by one version or deletes, and the     *)
(* history in memory is one of committed heights.                          *)
(***************************************************************************)
THEOREM TypeCorrect == StorageKept => (Spec => []TypeOK)
<1>1. SUFFICES ASSUME StorageKept PROVE Spec => []TypeOK
  OBVIOUS
<1>2. ASSUME StorageInv PROVE TypeOK
  <2>1. PICK kept, now, T : HeldNow(kept, now, T)
    BY <1>2 DEF StorageInv
  <2>2. /\ HeightsInv /\ RowsOK
    BY <1>2 DEF StorageInv
  <2>3. /\ IsTracker(tracker) /\ PendingFits(table, tracker, kept, now) /\ LocksFit(tracker, locks)
        /\ HistoryFits(tracker, sessionSerial, historyRows) /\ table \in Tables
    BY <2>1, NowParts
  <2>4. /\ lastBlockHeight \in Int /\ -1 <= lastBlockHeight /\ lastBlockHeight <= MaxHeight
        /\ MaxHeight \in Nat
    BY <2>2, SmartDBAssumption DEF HeightsInv
  <2>5. ASSUME NEW changes \in Seq(Changes) PROVE ChangesOK(changes)
    <3>1. \A i \in DOMAIN changes : changes[i] \in Changes
      BY <2>5
    <3> QED BY <3>1 DEF ChangesOK, Changes
  <2>6. blockRows \in Partial(BlockIds)
    <3>1. DOMAIN blockRows \in SUBSET (0 .. MaxHeight)
      <4>1. CASE InStep("insertHistory")
        <5>1. currentBlock \in [height : 0 .. MaxHeight, id : BlockIds] /\ currentBlock.height = lastBlockHeight + 1
          BY <2>2, <4>1 DEF HeightsInv, CurrentBlockOK, InStep
        <5>2. currentBlock.height \in 0 .. MaxHeight /\ DOMAIN blockRows = 0 .. lastBlockHeight + 1
          BY <2>2, <4>1, <5>1, HeightsOfStep
        <5> QED BY <2>4, <5>1, <5>2
      <4>2. CASE ~ InStep("insertHistory")
        <5>1. DOMAIN blockRows \in {0 .. lastBlockHeight, 0 .. lastBlockHeight - 1}
          BY <2>2, <4>2 DEF HeightsInv, BlockRowsOK
        <5> QED BY <2>4, <5>1
      <4> QED BY <4>1, <4>2
    <3>2. blockRows \in [DOMAIN blockRows -> BlockIds]
      BY <2>2 DEF RowsOK
    <3> QED BY <3>1, <3>2 DEF Partial
  <2>7. DOMAIN historyRows \subseteq 0 .. MaxHeight /\ \A h \in DOMAIN historyRows : ChangesOK(historyRows[h])
    BY <2>2, <2>4, <2>5 DEF HeightsInv, RowsOK
  <2>8. /\ table \in [Key -> Entities \cup {Absent}] /\ tracker.cache \in [Key -> Entities \cup {Absent}]
    BY <2>3 DEF IsTracker, Tables, Stored
  <2>9. ChangesOK(Pending)
    <3>1. tracker.confirmed \in Seq(Changes) /\ tracker.unconfirmed \in Seq(Changes)
      BY <2>3 DEF IsTracker
    <3>2. Pending \in Seq(Changes)
      BY <3>1, ChangedConcat DEF Pending
    <3> QED BY <2>5, <3>2
  <2>10. /\ lastBlockHeight \in -1 .. MaxHeight /\ sessionSerial \in -1 .. MaxHeight
    <3>1. sessionSerial = KeptHeight /\ sessionSerial \in Int /\ sessionSerial >= -1
      BY <2>2, <2>3 DEF HeightsInv, HistoryFits
    <3>2. KeptHeight <= lastBlockHeight
      <4>1. CASE Deleting
        <5>1. /\ op.target = Null \/ op.target \in 0 .. lastBlockHeight - 1
              /\ op.target = Null => KeptHeight = lastBlockHeight - 1
              /\ op.target # Null => KeptHeight = op.target
          BY <2>2, <4>1, HeightsOfStep
        <5> QED BY <2>4, <5>1
      <4>2. CASE ~ Deleting
        <5>1. KeptHeight \in {lastBlockHeight, lastBlockHeight - 1}
          BY <4>2 DEF KeptHeight, Deleting, InStep
        <5> QED BY <2>4, <5>1
      <4> QED BY <4>1, <4>2
    <3> QED BY <2>4, <3>1, <3>2
  <2>11. /\ currentBlock = Null \/ currentBlock \in [height : 0 .. MaxHeight, id : BlockIds]
         /\ op.step \in {"insertHistory", "saveChanges"} => currentBlock # Null
    BY <2>2 DEF HeightsInv, CurrentBlockOK
  <2>12. /\ ~ tracker.confirming => tracker.unconfirmed = <<>>
         /\ tracker.minVersion <= tracker.currentVersion
         /\ DOMAIN tracker.history \subseteq 0 .. MaxHeight
         /\ locks \in [confirmed : SUBSET Votes, unconfirmed : SUBSET Votes]
    BY <2>3 DEF IsTracker, HistoryFits, LocksFit
  <2> QED BY <2>6, <2>7, <2>8, <2>9, <2>10, <2>11, <2>12 DEF TypeOK
<1> QED BY <1>1, <1>2, StorageCorrect, PTL

(***************************************************************************)
(* Whatever was done can be undone: the pending changes in the cache, and  *)
(* the last block in the tables.                                           *)
(***************************************************************************)
THEOREM RevertibleCorrect == StorageKept => (Spec => []Revertible)
<1>1. SUFFICES ASSUME StorageKept PROVE Spec => []Revertible
  OBVIOUS
<1>2. ASSUME StorageInv PROVE Revertible
  <2>1. PICK kept, now, T : HeldNow(kept, now, T)
    BY <1>2 DEF StorageInv
  <2>2. /\ IsTracker(tracker) /\ PendingFits(table, tracker, kept, now)
        /\ HistoryFits(tracker, sessionSerial, historyRows) /\ sessionSerial \in Int
        /\ Chained(T, sessionSerial + 1, historyRows, table)
    BY <2>1, NowParts
  <2>3. ~ UndoChanges(tracker.cache, Pending).throws
    <3>1. Leads(table, Pending, now)
      BY <2>2, PendingSaved DEF Pending
    <3>2. tracker.cache \in Tables /\ GoesWith(tracker.cache, now, PendingKeys(tracker))
      BY <2>2 DEF IsTracker, PendingFits
    <3> DEFINE cache == tracker.cache
               keys == PendingKeys(tracker)
               changes == Pending
    <3>3. Leads(table, changes, now) /\ cache \in Tables /\ GoesWith(cache, now, keys)
      BY <3>1, <3>2
    <3> HIDE DEF cache, keys, changes
    <3>4. PICK less \in Tables :
             UndoChanges(cache, changes) = [cache |-> less, left |-> 0, throws |-> FALSE]
      BY <3>3, UndoneCache
    <3> QED BY <3>4 DEF cache, changes
  <2>4. ASSUME sessionSerial \in DOMAIN tracker.history
        PROVE  ~ RevertChanges(table, tracker.history[sessionSerial]).failed
    <3>1. /\ sessionSerial \in 0 .. MaxHeight
          /\ tracker.history[sessionSerial] = historyRows[sessionSerial]
      BY <2>2, <2>4 DEF HistoryFits
    <3>2. sessionSerial + 1 \in 1 .. sessionSerial + 1 /\ (sessionSerial + 1) - 1 = sessionSerial
      BY <3>1
    <3>3. Leads(T[sessionSerial], historyRows[sessionSerial], T[sessionSerial + 1])
          /\ T[sessionSerial + 1] = table
      BY <2>2, <3>2 DEF Chained
    <3>4. RevertChanges(table, historyRows[sessionSerial]) = [table |-> T[sessionSerial], failed |-> FALSE]
      BY <3>3, RevertedTable
    <3> QED BY <3>1, <3>4
  <2> QED BY <2>3, <2>4 DEF Revertible
<1> QED BY <1>1, <1>2, StorageCorrect, PTL

(***************************************************************************)
(* A statement of a commit that fails does not leave a last block without  *)
(* its changes.  This says nothing of a process that stops between them,   *)
(* which StorageKept excludes.                                             *)
(***************************************************************************)
THEOREM LastBlockSavedCorrect == StorageKept => (Spec => []LastBlockSaved)
<1>1. SUFFICES ASSUME StorageKept PROVE Spec => []LastBlockSaved
  OBVIOUS
<1>2. ASSUME StorageInv PROVE LastBlockSaved
  <2>1. PICK kept, now, T : HeldNow(kept, now, T)
    BY <1>2 DEF StorageInv
  <2>2. Chained(T, sessionSerial + 1, historyRows, table)
    BY <2>1, NowParts
  <2>3. SUFFICES ASSUME NoBlockOperation, lastBlockHeight >= 0
                 PROVE  /\ lastBlockHeight \in DOMAIN historyRows
                        /\ \A i \in DOMAIN historyRows[lastBlockHeight] :
                              \/ table[historyRows[lastBlockHeight][i].key] = historyRows[lastBlockHeight][i].current
                              \/ \E j \in DOMAIN historyRows[lastBlockHeight] :
                                    /\ j > i
                                    /\ historyRows[lastBlockHeight][j].key = historyRows[lastBlockHeight][i].key
    BY DEF LastBlockSaved
  <2>4. lastBlockHeight \in Int /\ sessionSerial = lastBlockHeight
    BY <1>2, <2>3, HeightsOfStep DEF StorageInv, HeightsInv, NoBlockOperation
  <2> DEFINE changes == historyRows[lastBlockHeight]
  <2>5. /\ lastBlockHeight \in DOMAIN historyRows
        /\ Leads(T[lastBlockHeight], changes, table)
    <3>1. lastBlockHeight + 1 \in 1 .. sessionSerial + 1 /\ (lastBlockHeight + 1) - 1 = lastBlockHeight
      BY <2>3, <2>4
    <3> QED BY <2>2, <2>4, <3>1 DEF Chained
  <2> HIDE DEF changes
  <2>6. ASSUME NEW i \in DOMAIN changes
        PROVE  \/ table[changes[i].key] = changes[i].current
               \/ \E j \in DOMAIN changes : j > i /\ changes[j].key = changes[i].key
    <3>1. /\ Len(changes) \in Nat /\ DOMAIN changes = 1 .. Len(changes)
          /\ changes[i].key \in Key
      BY <2>5, <2>6, LeadsTables, ChangeParts
    <3>2. PICK l \in 1 .. Len(changes) :
             /\ changes[l].key = changes[i].key /\ table[changes[i].key] = changes[l].current
             /\ \A j \in l + 1 .. Len(changes) : changes[j].key # changes[i].key
      <4>1. changes[i].key \in Changed(changes)
        BY DEF Changed
      <4> QED BY <2>5, <3>1, <4>1, LeadsRow
    <3>3. ~ (i > l)
      BY <2>6, <3>1, <3>2
    <3>4. i = l \/ l > i
      BY <2>6, <3>1, <3>3
    <3> QED BY <3>1, <3>2, <3>4
  <2> QED BY <2>5, <2>6 DEF changes
<1> QED BY <1>1, <1>2, StorageCorrect, PTL

-----------------------------------------------------------------------------
(* SmartDB implements the store of versions *)

LEMMA SeenNow ==
  ASSUME HeightsInv, NEW kept, NEW now, NEW T, HeldNow(kept, now, T)
  PROVE  /\ Versions = View(tracker.confirming, sessionSerial, kept, now, T).versions
         /\ Present = View(tracker.confirming, sessionSerial, kept, now, T).store
         /\ Before = View(tracker.confirming, sessionSerial, kept, now, T).before
<1>1. /\ sessionSerial = KeptHeight /\ DOMAIN historyRows \subseteq Int /\ sessionSerial \in Int
      /\ Chained(T, sessionSerial + 1, historyRows, table)
      /\ IsTracker(tracker) /\ PendingFits(table, tracker, kept, now)
  BY NowParts DEF HeightsInv
<1>2. /\ Versions = VersionsIn(table, historyRows, KeptHeight)
      /\ Present = PresentIn(table, tracker)
      /\ Before = BeforeIn(table, tracker)
  BY DEF Versions, VersionsIn, ValuesAt, ValuesIn, ValuesOf, Present, PresentIn, Before, BeforeIn, StoreOf
<1>3. VersionsIn(table, historyRows, sessionSerial) = [i \in 1 .. sessionSerial + 1 |-> ValuesOf(T[i])]
  BY <1>1, VersionsSeen
<1>4. PresentIn(table, tracker) = ValuesOf(now)
  BY <1>1, PresentSeen
<1>5. BeforeIn(table, tracker) = IF tracker.confirming THEN ValuesOf(kept) ELSE Absent
  BY BeforeSeen DEF HeldNow
<1> QED BY <1>1, <1>2, <1>3, <1>4, <1>5 DEF View

LEMMA SeenNext ==
  ASSUME HeightsInv', NEW kept, NEW now, NEW T,
         Held(table', tracker', locks', sessionSerial', historyRows', kept, now, T)
  PROVE  /\ Versions' = View(tracker'.confirming, sessionSerial', kept, now, T).versions
         /\ Present' = View(tracker'.confirming, sessionSerial', kept, now, T).store
         /\ Before' = View(tracker'.confirming, sessionSerial', kept, now, T).before
<1> DEFINE tab == table'
           t == tracker'
           held == locks'
           height == sessionSerial'
           history == historyRows'
<1>1. height = KeptHeight'
  BY DEF HeightsInv
<1>9. DOMAIN history \subseteq Int
  BY DEF HeightsInv
<1>2. /\ Versions' = VersionsIn(tab, history, KeptHeight')
      /\ Present' = PresentIn(tab, t)
      /\ Before' = BeforeIn(tab, t)
  BY DEF Versions, VersionsIn, ValuesAt, ValuesIn, ValuesOf, Present, PresentIn, Before, BeforeIn, StoreOf
<1>3. Held(tab, t, held, height, history, kept, now, T)
  OBVIOUS
<1> HIDE DEF tab, t, held, height, history
<1>4. /\ height \in Int /\ Chained(T, height + 1, history, tab)
      /\ IsTracker(t) /\ PendingFits(tab, t, kept, now)
  BY <1>3 DEF Held, HistoryFits
<1>5. VersionsIn(tab, history, height) = [i \in 1 .. height + 1 |-> ValuesOf(T[i])]
  BY <1>4, <1>9, VersionsSeen
<1>6. PresentIn(tab, t) = ValuesOf(now)
  BY <1>4, PresentSeen
<1>7. BeforeIn(tab, t) = IF t.confirming THEN ValuesOf(kept) ELSE Absent
  BY <1>3, BeforeSeen
<1>8. /\ Versions' = View(t.confirming, height, kept, now, T).versions
      /\ Present' = View(t.confirming, height, kept, now, T).store
      /\ Before' = View(t.confirming, height, kept, now, T).before
  BY <1>1, <1>2, <1>5, <1>6, <1>7 DEF View
<1> QED BY <1>8 DEF t, height

LEMMA StoreStarts ==
  ASSUME Init
  PROVE  Store!Init
<1>1. /\ HeightsInv /\ tracker.confirming = FALSE /\ sessionSerial = -1
      /\ \E T : HeldNow(EmptyTable, EmptyTable, T)
  BY StorageInit DEF StorageInv
<1>2. PICK T : HeldNow(EmptyTable, EmptyTable, T)
  BY <1>1
<1>3. /\ Versions = View(FALSE, -1, EmptyTable, EmptyTable, T).versions
      /\ Present = View(FALSE, -1, EmptyTable, EmptyTable, T).store
      /\ Before = View(FALSE, -1, EmptyTable, EmptyTable, T).before
  BY <1>1, <1>2, SeenNow
<1>4. /\ Versions = <<>> /\ Present = [k \in Key |-> Absent] /\ Before = Absent
  BY <1>3, EmptyValues DEF View
<1> QED BY <1>4 DEF Store!Init, Store!Empty

LEMMA StoreMoves ==
  ASSUME NEW a, NEW b, StoreStep(a, b),
         Versions = a.versions, Present = a.store, Before = a.before,
         Versions' = b.versions, Present' = b.store, Before' = b.before
  PROVE  [Store!Next]_(Store!vars)
<1>1. CASE b = a
  BY <1>1 DEF Store!vars
<1>2. CASE SetStep(a, b)
  BY <1>2 DEF SetStep, Store!Next, Store!Set
<1>3. CASE BeginStep(a, b)
  BY <1>3 DEF BeginStep, Store!Next, Store!BeginContract
<1>4. CASE KeepContractStep(a, b)
  BY <1>4 DEF KeepContractStep, Store!Next, Store!KeepContract
<1>5. CASE UndoContractStep(a, b)
  BY <1>5 DEF UndoContractStep, Store!Next, Store!UndoContract
<1>6. CASE KeepBlockStep(a, b)
  BY <1>6 DEF KeepBlockStep, Store!Next, Store!KeepBlock
<1>7. CASE RollbackStep(a, b)
  <2>1. PICK n \in 0 .. Len(a.versions) :
           /\ b.versions = SubSeq(a.versions, 1, n)
           /\ b.store = IF n = 0 THEN [k \in Key |-> Absent] ELSE a.versions[n]
           /\ b.before = Absent
    BY <1>7 DEF RollbackStep
  <2>2. Store!Rollback(n)
    BY <2>1 DEF Store!Rollback, Store!VersionOf, Store!Empty
  <2>3. n \in 0 .. Len(Versions)
    BY <2>1
  <2> QED BY <2>2, <2>3 DEF Store!Next
<1> QED BY <1>1, <1>2, <1>3, <1>4, <1>5, <1>6, <1>7 DEF StoreStep

(***************************************************************************)
(* SmartDB keeps the promises of VersionedStore: contracts are atomic, and *)
(* a rollback, a failed commit or a restart brings back exactly what an    *)
(* earlier block had left.                                                 *)
(***************************************************************************)
THEOREM StoreImplemented == StorageKept => (Spec => ImplementsStore)
<1>1. SUFFICES ASSUME StorageKept PROVE Spec => Store!Spec
  BY DEF ImplementsStore
<1>2. Init => Store!Init
  BY StoreStarts
<1>3. ASSUME StorageInv, [Next]_vars PROVE [Store!Next]_(Store!vars)
  <2>1. HeightsInv /\ HeightsInv'
    BY <1>1, <1>3, HeightsStep DEF StorageKept, StorageInv
  <2>2. PICK kept, now, T : HeldNow(kept, now, T)
    BY <1>3 DEF StorageInv
  <2>3. Moved(kept, now, T)
    BY <1>1, <1>3, <2>2, StorageMoves DEF StorageInv, Kept
  <2>4. PICK kept1, now1, T1 :
           /\ Held(table', tracker', locks', sessionSerial', historyRows', kept1, now1, T1)
           /\ StoreStep(View(tracker.confirming, sessionSerial, kept, now, T),
                        View(tracker'.confirming, sessionSerial', kept1, now1, T1))
    BY <2>3 DEF Moved
  <2> DEFINE a == View(tracker.confirming, sessionSerial, kept, now, T)
             b == View(tracker'.confirming, sessionSerial', kept1, now1, T1)
  <2>5. Versions = a.versions /\ Present = a.store /\ Before = a.before
    BY <2>1, <2>2, SeenNow
  <2>6. Versions' = b.versions /\ Present' = b.store /\ Before' = b.before
    BY <2>1, <2>4, SeenNext
  <2>7. StoreStep(a, b)
    BY <2>4
  <2> HIDE DEF a, b
  <2> QED BY <2>5, <2>6, <2>7, StoreMoves
<1> QED BY <1>1, <1>2, <1>3, StorageCorrect, PTL DEF Spec, Store!Spec

=============================================================================
