--------------------------- MODULE ExecutionProofs ---------------------------
(***************************************************************************)
(* That the tables of a node are what its blocks say, and its overlay what *)
(* its pool says, for any transactions, contracts' contents, bounds of     *)
(* pool, blocks and forks, and any number of blocks.                       *)
(*                                                                         *)
(* A run over a sequence of transactions is a fold, and what it computes   *)
(* is shown by SetInduction.  Two hypotheses appear, and TLC shows that    *)
(* the properties are false without them: no synchronisation begins while  *)
(* the pool is in use (NeverBusy), and whoever sends has an account since  *)
(* genesis (SendersKnown).                                                 *)
(*                                                                         *)
(* Then what adds up: the supply of coins, and the quantities of assets.   *)
(* A sum over a set takes the elements in an order nobody chose.  It is    *)
(* first shown to be a sum in any order (SumIs); then what a contract does *)
(* is a term that changes (SumChange) or is added (SumAdd), and whatever   *)
(* leaves a table alone leaves its sums alone (Touches).                   *)
(***************************************************************************)
EXTENDS Execution, FiniteSetTheorems, TLAPS

-----------------------------------------------------------------------------
(* Induction.  The principle is stated for a set of numbers, so that it    *)
(* can be cited for any property; it holds because shifting the numbers of *)
(* the set up to k by one would otherwise map a finite set one to one into *)
(* a smaller one.                                                          *)

LEMMA SetInduction ==
  ASSUME NEW T, 0 \in T, \A n \in Nat : n \in T => n + 1 \in T
  PROVE  Nat \subseteq T
<1>1. SUFFICES ASSUME NEW k \in Nat, k \notin T PROVE FALSE
  OBVIOUS
<1> DEFINE S == (0 .. k) \cap T
           f == [i \in S |-> i + 1]
<1>2. IsFiniteSet(S) /\ 0 \in S
  <2>1. IsFiniteSet(0 .. k)
    BY FS_Interval
  <2>2. S \in SUBSET (0 .. k)
    OBVIOUS
  <2>3. IsFiniteSet(S)
    BY <2>1, <2>2, FS_Subset
  <2> QED BY <2>3
<1>3. IsFiniteSet(S \ {0}) /\ Cardinality(S \ {0}) = Cardinality(S) - 1
  BY <1>2, FS_RemoveElement
<1>4. f \in [S -> S \ {0}]
  BY <1>1
<1>5. Cardinality(S) \in Nat
  BY <1>2, FS_CardinalityType
<1>6. Cardinality(S \ {0}) < Cardinality(S)
  BY <1>3, <1>5
<1>7. \E x, y \in S : x # y /\ f[x] = f[y]
  <2> HIDE DEF S, f
  <2> QED BY <1>2, <1>3, <1>4, <1>6, FS_PigeonHole
<1> QED BY <1>7

(* A fold goes through the sets 1 .. i, taking away the last number *)

LEMMA LastOfInterval ==
  ASSUME NEW n \in Nat, NEW S \in SUBSET (1 .. n + 1), n + 1 \in S
  PROVE  Max(S) = n + 1 /\ S \ {n + 1} \in SUBSET (1 .. n) /\ S # {}
<1>1. \A i \in S : i \in Nat /\ i <= n + 1
  OBVIOUS
<1>2. ASSUME NEW x \in S, \A i \in S : x >= i
      PROVE  x = n + 1
  BY <1>1, <1>2
<1>3. \E x \in S : \A i \in S : x >= i
  BY <1>1
<1>4. Max(S) \in S /\ \A i \in S : Max(S) >= i
  BY <1>3, Zenon DEF Max
<1>5. Max(S) = n + 1
  BY <1>2, <1>4
<1>6. S \ {n + 1} \in SUBSET (1 .. n)
  BY <1>1
<1> QED BY <1>5, <1>6

LEMMA IntervalGrows ==
  ASSUME NEW n \in Nat
  PROVE  1 .. n + 1 # {} /\ Max(1 .. n + 1) = n + 1 /\ (1 .. n + 1) \ {n + 1} = 1 .. n
BY DEF Max

-----------------------------------------------------------------------------
(* What ApplyBlock does, transaction by transaction *)

Fresh(s) == [ok |-> TRUE, session |-> s]

AppliedUpTo(done, s, trs, lastHeight, n) ==
  done = [i \in 0 .. n |->
            IF i = 0 THEN Fresh(s) ELSE ApplyNext(done[i - 1], trs[i], lastHeight)]

LEMMA AppliedStep ==
  ASSUME NEW done, NEW s, NEW trs, NEW lastHeight, NEW n \in Nat,
         AppliedUpTo(done, s, trs, lastHeight, n)
  PROVE  /\ done[0] = Fresh(s)
         /\ \A i \in 1 .. n : done[i] = ApplyNext(done[i - 1], trs[i], lastHeight)
BY DEF AppliedUpTo

AppliedFold(iter, s, trs, lastHeight, n) ==
  iter = [S \in SUBSET (1 .. n) |->
            IF S = {} THEN Fresh(s) ELSE ApplyNext(iter[S \ {Max(S)}], trs[Max(S)], lastHeight)]

LEMMA AppliedFoldExists ==
  ASSUME NEW s, NEW trs, NEW lastHeight, NEW n \in Nat
  PROVE  \E iter : AppliedFold(iter, s, trs, lastHeight, n)
<1> DEFINE T == {m \in Nat : \E iter : AppliedFold(iter, s, trs, lastHeight, m)}
<1>1. 0 \in T
  <2> DEFINE iter == [S \in SUBSET (1 .. 0) |-> Fresh(s)]
  <2>1. \A S \in SUBSET (1 .. 0) : S = {}
    OBVIOUS
  <2>2. AppliedFold(iter, s, trs, lastHeight, 0)
    BY <2>1 DEF AppliedFold
  <2> QED BY <2>2
<1>2. ASSUME NEW m \in Nat, m \in T PROVE m + 1 \in T
  <2>1. PICK iter : AppliedFold(iter, s, trs, lastHeight, m)
    BY <1>2
  <2> DEFINE more == [S \in SUBSET (1 .. m + 1) |->
                        IF m + 1 \in S THEN ApplyNext(iter[S \ {m + 1}], trs[m + 1], lastHeight) ELSE iter[S]]
  <2>2. ASSUME NEW S \in SUBSET (1 .. m + 1)
        PROVE  more[S] = IF S = {} THEN Fresh(s) ELSE ApplyNext(more[S \ {Max(S)}], trs[Max(S)], lastHeight)
    <3>1. CASE m + 1 \in S
      <4>1. Max(S) = m + 1 /\ S \ {m + 1} \in SUBSET (1 .. m) /\ S # {}
        BY <3>1, LastOfInterval
      <4>2. m + 1 \notin S \ {m + 1} /\ S \ {m + 1} \in SUBSET (1 .. m + 1)
        OBVIOUS
      <4> QED BY <3>1, <4>1, <4>2
    <3>2. CASE m + 1 \notin S
      <4>1. S \in SUBSET (1 .. m)
        BY <3>2
      <4>2. /\ S \ {Max(S)} \in SUBSET (1 .. m + 1)
            /\ S \ {Max(S)} \in SUBSET (1 .. m)
            /\ m + 1 \notin S \ {Max(S)}
        BY <3>2, <4>1
      <4> QED BY <2>1, <3>2, <4>1, <4>2 DEF AppliedFold
    <3> QED BY <3>1, <3>2
  <2>3. AppliedFold(more, s, trs, lastHeight, m + 1)
    BY <2>2 DEF AppliedFold
  <2> QED BY <2>3
<1> HIDE DEF T
<1>3. Nat \subseteq T
  BY <1>1, <1>2, SetInduction
<1> QED BY <1>3 DEF T

LEMMA ApplyBlockRun ==
  ASSUME NEW s, NEW trs, NEW lastHeight, NEW n \in Nat, DOMAIN trs = 1 .. n
  PROVE  \E done : AppliedUpTo(done, s, trs, lastHeight, n) /\ ApplyBlock(s, trs, lastHeight) = done[n]
<1>1. \E iter : AppliedFold(iter, s, trs, lastHeight, n)
  BY AppliedFoldExists
<1>2. PICK iter : AppliedFold(iter, s, trs, lastHeight, n) /\ ApplyBlock(s, trs, lastHeight) = iter[1 .. n]
  BY <1>1 DEF ApplyBlock, Fresh, FoldLeft, MapThenFoldSet, AppliedFold
<1> DEFINE done == [i \in 0 .. n |-> iter[1 .. i]]
<1>3. ASSUME NEW i \in 0 .. n
      PROVE  done[i] = IF i = 0 THEN Fresh(s) ELSE ApplyNext(done[i - 1], trs[i], lastHeight)
  <2>1. CASE i = 0
    <3>1. 1 .. i = {} /\ {} \in SUBSET (1 .. n)
      BY <2>1
    <3> QED BY <1>2, <2>1, <3>1 DEF AppliedFold
  <2>2. CASE i # 0
    <3>1. i - 1 \in Nat /\ i - 1 \in 0 .. n /\ (i - 1) + 1 = i /\ 1 .. i \in SUBSET (1 .. n)
      BY <2>2
    <3>2. 1 .. i # {} /\ Max(1 .. i) = i /\ (1 .. i) \ {i} = 1 .. i - 1
      BY <3>1, IntervalGrows
    <3> QED BY <1>2, <2>2, <3>1, <3>2 DEF AppliedFold
  <2> QED BY <2>1, <2>2
<1>4. AppliedUpTo(done, s, trs, lastHeight, n)
  BY <1>3 DEF AppliedUpTo
<1> QED BY <1>2, <1>4

(* Two runs over sequences that agree, agree *)
LEMMA AppliedUnique ==
  ASSUME NEW s, NEW trs, NEW others, NEW lastHeight, NEW n \in Nat, NEW m \in Nat,
         n <= m, \A i \in 1 .. n : trs[i] = others[i],
         NEW f, AppliedUpTo(f, s, trs, lastHeight, n),
         NEW g, AppliedUpTo(g, s, others, lastHeight, m)
  PROVE  f[n] = g[n]
<1> DEFINE T == {i \in Nat : i <= n => f[i] = g[i]}
<1>1. 0 \in T
  BY AppliedStep
<1>2. ASSUME NEW i \in Nat, i \in T PROVE i + 1 \in T
  <2>1. SUFFICES ASSUME i + 1 <= n PROVE f[i + 1] = g[i + 1]
    OBVIOUS
  <2>2. f[i + 1] = ApplyNext(f[(i + 1) - 1], trs[i + 1], lastHeight)
    BY <2>1, AppliedStep
  <2>3. g[i + 1] = ApplyNext(g[(i + 1) - 1], others[i + 1], lastHeight)
    BY <2>1, AppliedStep
  <2>4. f[i] = g[i] /\ (i + 1) - 1 = i /\ trs[i + 1] = others[i + 1]
    BY <1>2, <2>1
  <2> QED BY <2>2, <2>3, <2>4
<1> HIDE DEF T
<1>3. Nat \subseteq T
  BY <1>1, <1>2, SetInduction
<1> QED BY <1>3 DEF T

LEMMA ApplyBlockEmpty ==
  ASSUME NEW s, NEW lastHeight
  PROVE  ApplyBlock(s, <<>>, lastHeight) = Fresh(s)
<1>1. DOMAIN <<>> = 1 .. 0
  OBVIOUS
<1>2. PICK done : AppliedUpTo(done, s, <<>>, lastHeight, 0) /\ ApplyBlock(s, <<>>, lastHeight) = done[0]
  BY <1>1, ApplyBlockRun
<1> QED BY <1>2, AppliedStep

LEMMA ApplyBlockAppend ==
  ASSUME NEW s, NEW S, NEW trs \in Seq(S), NEW id \in S, NEW lastHeight
  PROVE  ApplyBlock(s, Append(trs, id), lastHeight)
           = ApplyNext(ApplyBlock(s, trs, lastHeight), id, lastHeight)
<1> DEFINE n == Len(trs)
           more == Append(trs, id)
<1>1. /\ n \in Nat /\ DOMAIN trs = 1 .. n /\ DOMAIN more = 1 .. n + 1
      /\ \A i \in 1 .. n : trs[i] = more[i]
      /\ more[n + 1] = id
  OBVIOUS
<1> HIDE DEF n, more
<1>2. PICK f : AppliedUpTo(f, s, trs, lastHeight, n) /\ ApplyBlock(s, trs, lastHeight) = f[n]
  <2>1. n \in Nat /\ DOMAIN trs = 1 .. n
    BY <1>1
  <2> QED BY ONLY <2>1, ApplyBlockRun
<1>3. PICK g : /\ AppliedUpTo(g, s, more, lastHeight, n + 1)
               /\ ApplyBlock(s, more, lastHeight) = g[n + 1]
  BY <1>1, ApplyBlockRun
<1>4. f[n] = g[n]
  BY <1>1, <1>2, <1>3, AppliedUnique
<1>5. g[n + 1] = ApplyNext(g[(n + 1) - 1], more[n + 1], lastHeight)
  BY <1>1, <1>3, AppliedStep
<1>6. (n + 1) - 1 = n
  BY <1>1
<1> QED BY <1>1, <1>2, <1>3, <1>4, <1>5, <1>6 DEF more

-----------------------------------------------------------------------------
(* Contracts *)

Fields ==
  {"account", "delegate", "votes", "issuer", "asset", "balance", "mldata", "prediction",
   "transfers", "transactions", "round", "bookkeeper"}

IsTables(v) == v = [f \in Fields |-> v[f]]

Formed(s) == s = [view |-> s.view, table |-> s.table, locks |-> s.locks]

(* What no contract touches: the transactions; and no account goes away *)
Keeps(v, w) ==
  /\ IsTables(w)
  /\ w.transactions = v.transactions
  /\ DOMAIN v.account \subseteq DOMAIN w.account

LEMMA KeepsSelf == ASSUME NEW v, IsTables(v) PROVE Keeps(v, v)
BY DEF Keeps

LEMMA KeptTables == ASSUME NEW v, NEW w, Keeps(v, w) PROVE IsTables(w)
BY DEF Keeps

LEMMA KeepsKeeps ==
  ASSUME NEW u, NEW v, NEW w, Keeps(u, v), Keeps(v, w)
  PROVE  Keeps(u, w)
BY DEF Keeps

LEMMA KeepsOther ==
  ASSUME NEW v, IsTables(v), NEW x
  PROVE  /\ Keeps(v, [v EXCEPT !.delegate = x])
         /\ Keeps(v, [v EXCEPT !.votes = x])
         /\ Keeps(v, [v EXCEPT !.issuer = x])
         /\ Keeps(v, [v EXCEPT !.asset = x])
         /\ Keeps(v, [v EXCEPT !.balance = x])
         /\ Keeps(v, [v EXCEPT !.mldata = x])
         /\ Keeps(v, [v EXCEPT !.prediction = x])
         /\ Keeps(v, [v EXCEPT !.transfers = x])
         /\ Keeps(v, [v EXCEPT !.round = x])
         /\ Keeps(v, [v EXCEPT !.bookkeeper = x])
BY DEF Keeps, IsTables, Fields

LEMMA KeepsAccount ==
  ASSUME NEW v, IsTables(v), NEW x, DOMAIN v.account \subseteq DOMAIN x
  PROVE  Keeps(v, [v EXCEPT !.account = x])
BY DEF Keeps, IsTables, Fields

LEMMA KeepsUpdate ==
  ASSUME NEW v, IsTables(v), NEW a, NEW x
  PROVE  Keeps(v, UpdateAccount(v, a, x))
BY DEF Keeps, IsTables, Fields, UpdateAccount

LEMMA KeepsVotes ==
  ASSUME NEW v, IsTables(v), NEW names, NEW x
  PROVE  Keeps(v, IncreaseVotes(v, names, x))
BY KeepsOther DEF IncreaseVotes

LEMMA KeepsBalance ==
  ASSUME NEW v, IsTables(v), NEW key, NEW x
  PROVE  Keeps(v, IncreaseBalance(v, key, x))
BY KeepsOther, KeepsSelf DEF IncreaseBalance

LEMMA KeepsPay ==
  ASSUME NEW v, IsTables(v), NEW from, NEW to, NEW x
  PROVE  Keeps(v, Pay(v, from, to, x))
BY KeepsAccount DEF Pay, Increase, With

-----------------------------------------------------------------------------
LEMMA TransferKeeps ==
  ASSUME NEW s, IsTables(s.view), NEW t, NEW height, Transfer(s, t, height) # Refused
  PROVE  Keeps(s.view, Transfer(s, t, height))
<1> DEFINE to == CHOOSE a \in Recipients(s.view, t.recipient) : TRUE
           paid == Pay(s.view, t.senderId, to, NumberOf(t.amount))
<1>1. Transfer(s, t, height) = [paid EXCEPT !.transfers = @ \cup {t.id}]
  BY DEF Transfer
<1>2. Keeps(s.view, paid)
  BY KeepsPay
<1> HIDE DEF paid
<1>3. Keeps(paid, [paid EXCEPT !.transfers = @ \cup {t.id}])
  BY <1>2, KeepsOther, KeptTables
<1> QED BY <1>1, <1>2, <1>3, KeepsKeeps

LEMMA AccountKeeps ==
  ASSUME NEW s, IsTables(s.view), NEW t, NEW height
  PROVE  /\ SetUserName(s, t, height) # Refused => Keeps(s.view, SetUserName(s, t, height))
         /\ SetSecondPassphrase(s, t, height) # Refused => Keeps(s.view, SetSecondPassphrase(s, t, height))
BY KeepsUpdate DEF SetUserName, SetSecondPassphrase

LEMMA LockKeeps ==
  ASSUME NEW s, IsTables(s.view), NEW t, NEW height, Lock(s, t, height) # Refused
  PROVE  Keeps(s.view, Lock(s, t, height))
<1> DEFINE row == [Sender(s, t) EXCEPT !.isLocked = TRUE, !.lockHeight = t.height,
                                       !.gny = @ - t.amount, !.lockAmount = @ + t.amount]
           locked == UpdateAccount(s.view, t.senderId, row)
<1>1. Lock(s, t, height) = IncreaseVotes(locked, VotedBy(s.table, t.senderId), t.amount)
  BY DEF Lock
<1> HIDE DEF row
<1>2. Keeps(s.view, locked)
  BY KeepsUpdate
<1> HIDE DEF locked
<1>3. Keeps(locked, Lock(s, t, height))
  BY <1>1, <1>2, KeepsVotes, KeptTables
<1> QED BY <1>2, <1>3, KeepsKeeps

LEMMA UnlockKeeps ==
  ASSUME NEW s, IsTables(s.view), NEW t, NEW height, Unlock(s, t, height) # Refused
  PROVE  Keeps(s.view, Unlock(s, t, height))
<1> DEFINE left == IncreaseVotes(s.view, VotedBy(s.table, t.senderId), - NumberOf(s.view.account[t.senderId].lockAmount))
           view == IF Sender(s, t).isDelegate THEN DeleteCreatedVotes(s, t.senderId) ELSE s.view
           row  == [Sender(s, t) EXCEPT !.isLocked = FALSE, !.lockHeight = 0, !.lockAmount = 0,
                             !.gny = Concatenate(@, Sender(s, t).lockAmount)]
<1>1. Unlock(s, t, height) = UpdateAccount(view, t.senderId, row)
  BY DEF Unlock
<1>2. Keeps(s.view, left)
  BY KeepsVotes
<1>3. Keeps(left, [left EXCEPT !.votes = @ \ VotesOf(s.table, t.senderId)])
  <2> HIDE DEF left
  <2> QED BY <1>2, KeepsOther, KeptTables
<1>4. Keeps(s.view, view)
  <2>1. DeleteCreatedVotes(s, t.senderId) \in {[left EXCEPT !.votes = @ \ VotesOf(s.table, t.senderId)], s.view}
    BY DEF DeleteCreatedVotes
  <2> HIDE DEF left
  <2> QED BY <2>1, <1>2, <1>3, KeepsKeeps, KeepsSelf
<1> HIDE DEF view, row, left
<1>5. Keeps(view, UpdateAccount(view, t.senderId, row))
  BY <1>4, KeepsUpdate, KeptTables
<1> QED BY <1>1, <1>4, <1>5, KeepsKeeps

LEMMA DelegateKeeps ==
  ASSUME NEW s, IsTables(s.view), NEW t, NEW height, RegisterDelegate(s, t, height) # Refused
  PROVE  Keeps(s.view, RegisterDelegate(s, t, height))
<1> DEFINE account == Sender(s, t)
           marked == UpdateAccount(s.view, t.senderId, [account EXCEPT !.isDelegate = TRUE])
<1>1. RegisterDelegate(s, t, height)
        = [marked EXCEPT !.delegate = With(@, account.username, NewDelegate(t.senderId))]
  BY DEF RegisterDelegate
<1>2. Keeps(s.view, marked)
  BY KeepsUpdate
<1> HIDE DEF marked
<1>3. Keeps(marked, [marked EXCEPT !.delegate = With(@, account.username, NewDelegate(t.senderId))])
  BY <1>2, KeepsOther, KeptTables
<1> QED BY <1>1, <1>2, <1>3, KeepsKeeps

LEMMA VoteKeeps ==
  ASSUME NEW s, IsTables(s.view), NEW t, NEW height
  PROVE  /\ Vote(s, t, height) # Refused => Keeps(s.view, Vote(s, t, height))
         /\ Unvote(s, t, height) # Refused => Keeps(s.view, Unvote(s, t, height))
<1> DEFINE more == IncreaseVotes(s.view, ToSet(t.delegates), Sender(s, t).lockAmount)
           less == IncreaseVotes(s.view, ToSet(t.delegates), - Sender(s, t).lockAmount)
<1>1. /\ Vote(s, t, height) \in {Refused, [more EXCEPT !.votes = @ \cup VoteItems(t)]}
      /\ Unvote(s, t, height) \in {Refused, [less EXCEPT !.votes = @ \ VoteItems(t)]}
  BY DEF Vote, Unvote
<1>2. Keeps(s.view, more) /\ Keeps(s.view, less)
  BY KeepsVotes
<1> HIDE DEF more, less
<1>3. /\ Keeps(more, [more EXCEPT !.votes = @ \cup VoteItems(t)])
      /\ Keeps(less, [less EXCEPT !.votes = @ \ VoteItems(t)])
  BY <1>2, KeepsOther, KeptTables
<1> QED BY <1>1, <1>2, <1>3, KeepsKeeps

LEMMA UiaKeeps ==
  ASSUME NEW s, IsTables(s.view), NEW t, NEW height
  PROVE  /\ RegisterIssuer(s, t, height) # Refused => Keeps(s.view, RegisterIssuer(s, t, height))
         /\ RegisterAsset(s, t, height) # Refused => Keeps(s.view, RegisterAsset(s, t, height))
BY KeepsOther DEF RegisterIssuer, RegisterAsset

LEMMA IssueKeeps ==
  ASSUME NEW s, IsTables(s.view), NEW t, NEW height, Issue(s, t, height) # Refused
  PROVE  Keeps(s.view, Issue(s, t, height))
<1> DEFINE more == [s.view EXCEPT !.asset[t.currency].quantity = s.table.asset[t.currency].quantity + t.amount]
<1>1. Issue(s, t, height) = IncreaseBalance(more, <<t.senderId, t.currency>>, t.amount)
  BY DEF Issue
<1>2. Keeps(s.view, more)
  BY KeepsOther
<1> HIDE DEF more
<1>3. Keeps(more, Issue(s, t, height))
  BY <1>1, <1>2, KeepsBalance, KeptTables
<1> QED BY <1>2, <1>3, KeepsKeeps

LEMMA TransferAssetKeeps ==
  ASSUME NEW s, IsTables(s.view), NEW t, NEW height, TransferAsset(s, t, height) # Refused
  PROVE  Keeps(s.view, TransferAsset(s, t, height))
<1> DEFINE to == CHOOSE a \in Recipients(s.table, t.recipient) : TRUE
           given == IncreaseBalance(s.view, <<t.senderId, t.currency>>, - t.amount)
           taken == IncreaseBalance(given, <<to, t.currency>>, t.amount)
<1>1. TransferAsset(s, t, height) = [taken EXCEPT !.transfers = @ \cup {t.id}]
  BY DEF TransferAsset, TransferBalance
<1>2. Keeps(s.view, given)
  BY KeepsBalance
<1> HIDE DEF given
<1>3. Keeps(given, taken)
  BY <1>2, KeepsBalance, KeptTables
<1> HIDE DEF taken
<1>4. Keeps(taken, [taken EXCEPT !.transfers = @ \cup {t.id}])
  BY <1>3, KeepsOther, KeptTables
<1> QED BY <1>1, <1>2, <1>3, <1>4, KeepsKeeps

LEMMA MlKeeps ==
  ASSUME NEW s, IsTables(s.view), NEW t, NEW height
  PROVE  /\ UploadData(s, t, height) # Refused => Keeps(s.view, UploadData(s, t, height))
         /\ GetPredictionCategory(s, t, height) # Refused => Keeps(s.view, GetPredictionCategory(s, t, height))
BY KeepsOther DEF UploadData, GetPredictionCategory

LEMMA CallKeeps ==
  ASSUME NEW s, IsTables(s.view), NEW t, NEW height, Call(s, t, height) # Refused
  PROVE  Keeps(s.view, Call(s, t, height))
BY TransferKeeps, AccountKeeps, LockKeeps, UnlockKeeps, DelegateKeeps, VoteKeeps, UiaKeeps,
   IssueKeeps, TransferAssetKeeps, MlKeeps DEF Call

-----------------------------------------------------------------------------
(* What applying a transaction does to a session *)

(* s becomes r: the tables stay, and a lock that is added is one of a contract *)
Follows(s, r) ==
  /\ r = [view |-> r.view, table |-> s.table, locks |-> r.locks]
  /\ \A name \in r.locks : name \in s.locks \/ LockIsName(name)

LEMMA FollowsFollows ==
  ASSUME NEW r, NEW s, NEW u, Follows(r, s), Follows(s, u)
  PROVE  Follows(r, u)
BY DEF Follows

LEMMA LockNamesAreNames ==
  ASSUME NEW s, NEW t, NEW height, NEW name \in LockNames(s, t, height)
  PROVE  LockIsName(name)
BY DEF LockNames, LockIsName

LEMMA ApplyFollows ==
  ASSUME NEW s, NEW t, NEW height, Formed(s), Apply(s, t, height) # Refused
  PROVE  Follows(s, Apply(s, t, height))
BY LockNamesAreNames DEF Apply, Follows, Formed

LEMMA ApplyKeeps ==
  ASSUME NEW s, NEW t, NEW height, Formed(s), IsTables(s.view), Apply(s, t, height) # Refused
  PROVE  Keeps(s.view, Apply(s, t, height).view)
<1> DEFINE charged == Charged(s, t, height)
           result  == Call(charged, t, height)
<1>1. Keeps(s.view, charged.view)
  <2>1. CASE height = 0
    BY <2>1, KeepsSelf DEF Charged
  <2>2. CASE height # 0
    <3> DEFINE rows == [s.view.account EXCEPT ![t.senderId].gny = @ - t.fee]
    <3>1. charged.view = [s.view EXCEPT !.account = rows]
      BY <2>2 DEF Charged, Formed
    <3>2. DOMAIN s.view.account \subseteq DOMAIN rows
      OBVIOUS
    <3> HIDE DEF rows, charged
    <3> QED BY <3>1, <3>2, KeepsAccount
  <2> QED BY <2>1, <2>2
<1>2. result # Refused /\ Apply(s, t, height).view = result
  BY DEF Apply, Formed
<1>3. Keeps(charged.view, result)
  <2> HIDE DEF charged
  <2> QED BY <1>1, <1>2, KeptTables, CallKeeps
<1> QED BY <1>1, <1>2, <1>3, KeepsKeeps

(***************************************************************************)
(* Of a transaction that is refused nothing is left, unless its sender has *)
(* no account, which is only possible on top of genesis.                   *)
(***************************************************************************)
LEMMA RefusedLeavesNothing ==
  ASSUME NEW s, NEW id, NEW h, h \in Nat,
         h = 0 => Content[id].senderId \in DOMAIN s.view.account,
         ~ ApplyUnconfirmed(s, id, h).ok
  PROVE  ApplyUnconfirmed(s, id, h) = [ok |-> FALSE, session |-> s]
<1> DEFINE t == Content[id]
           known == t.senderId \in DOMAIN s.view.account
           rejects == h > 0 /\ ~ (known /\ Verified(s.view.account[t.senderId], t))
           ready == WithSender(s, t)
<1>1. ApplyUnconfirmed(s, id, h) = [ok |-> FALSE, session |-> IF rejects THEN s ELSE ready]
  BY DEF ApplyUnconfirmed
<1>2. h = 0 \/ h > 0
  OBVIOUS
<1>3. rejects \/ known
  BY <1>2
<1>4. known => ready = s
  BY DEF WithSender
<1> HIDE DEF known, rejects, ready
<1> QED BY <1>1, <1>3, <1>4

LEMMA AppliedForm ==
  ASSUME NEW s, NEW id, NEW h
  PROVE  LET r == ApplyUnconfirmed(s, id, h)
         IN  r.ok \in BOOLEAN /\ r = [ok |-> r.ok, session |-> r.session]
BY DEF ApplyUnconfirmed

LEMMA WithSenderFollows ==
  ASSUME NEW s, NEW t, Formed(s)
  PROVE  /\ Follows(s, WithSender(s, t))
         /\ Formed(WithSender(s, t))
         /\ IsTables(s.view) => Keeps(s.view, WithSender(s, t).view)
<1> DEFINE rows == With(s.view.account, t.senderId, NewAccount(0))
<1>1. CASE t.senderId \in DOMAIN s.view.account
  BY <1>1, KeepsSelf DEF WithSender, Follows, Formed
<1>2. CASE t.senderId \notin DOMAIN s.view.account
  <2>1. WithSender(s, t) = [s EXCEPT !.view = [s.view EXCEPT !.account = rows]]
    BY <1>2 DEF WithSender
  <2>2. DOMAIN s.view.account \subseteq DOMAIN rows
    BY DEF With
  <2> HIDE DEF rows
  <2>3. WithSender(s, t).view = [s.view EXCEPT !.account = rows]
    BY <2>1 DEF Formed
  <2>4. IsTables(s.view) => Keeps(s.view, WithSender(s, t).view)
    BY <2>2, <2>3, KeepsAccount
  <2> QED BY <2>1, <2>4 DEF Follows, Formed
<1> QED BY <1>1, <1>2

LEMMA ApplyUnconfirmedFollows ==
  ASSUME NEW s, NEW id, NEW h, Formed(s)
  PROVE  /\ Follows(s, ApplyUnconfirmed(s, id, h).session)
         /\ IsTables(s.view) => Keeps(s.view, ApplyUnconfirmed(s, id, h).session.view)
<1> DEFINE t == Content[id]
           ready == WithSender(s, t)
           r == ApplyUnconfirmed(s, id, h).session
<1>1. \/ r \in {s, ready}
      \/ Apply(ready, t, h + 1) # Refused /\ r = Apply(ready, t, h + 1)
  BY DEF ApplyUnconfirmed
<1>2. Follows(s, ready) /\ Formed(ready) /\ (IsTables(s.view) => Keeps(s.view, ready.view))
  BY WithSenderFollows
<1>3. Follows(s, s) /\ (IsTables(s.view) => Keeps(s.view, s.view))
  BY KeepsSelf DEF Follows, Formed
<1> HIDE DEF r, ready, t
<1>4. CASE r \in {s, ready}
  BY <1>2, <1>3, <1>4 DEF r
<1>5. CASE Apply(ready, t, h + 1) # Refused /\ r = Apply(ready, t, h + 1)
  <2>1. Follows(ready, r)
    BY <1>2, <1>5, ApplyFollows
  <2>2. IsTables(s.view) => Keeps(ready.view, r.view)
    BY <1>2, <1>5, ApplyKeeps, KeptTables
  <2>3. Follows(s, r)
    BY <1>2, <2>1, FollowsFollows
  <2>4. IsTables(s.view) => Keeps(s.view, r.view)
    BY <1>2, <2>2, KeepsKeeps
  <2> QED BY <2>3, <2>4 DEF r
<1> QED BY <1>1, <1>4, <1>5

LEMMA ApplyBlockFollows ==
  ASSUME NEW s, NEW S, NEW trs \in Seq(S), NEW h, Formed(s)
  PROVE  /\ ApplyBlock(s, trs, h).ok \in BOOLEAN
         /\ Follows(s, ApplyBlock(s, trs, h).session)
         /\ IsTables(s.view) => Keeps(s.view, ApplyBlock(s, trs, h).session.view)
<1> DEFINE Good(r) == /\ r.ok \in BOOLEAN
                      /\ Follows(s, r.session)
                      /\ IsTables(s.view) => Keeps(s.view, r.session.view)
           n == Len(trs)
<1>2. n \in Nat /\ DOMAIN trs = 1 .. n
  OBVIOUS
<1>1. PICK done : AppliedUpTo(done, s, trs, h, n) /\ ApplyBlock(s, trs, h) = done[n]
  BY <1>2, ApplyBlockRun
<1> HIDE DEF n
<1> DEFINE T == {i \in Nat : i <= n => Good(done[i])}
<1>3. 0 \in T
  <2>0. done[0] = Fresh(s)
    BY <1>1, <1>2, AppliedStep
  <2>1. done[0].ok = TRUE /\ done[0].session = s
    BY <2>0 DEF Fresh
  <2>2. Follows(s, s) /\ (IsTables(s.view) => Keeps(s.view, s.view))
    BY KeepsSelf DEF Follows, Formed
  <2> QED BY <2>1, <2>2
<1>4. ASSUME NEW i \in Nat, i \in T PROVE i + 1 \in T
  <2>1. SUFFICES ASSUME i + 1 <= n PROVE Good(done[i + 1])
    OBVIOUS
  <2>2. done[i + 1] = ApplyNext(done[(i + 1) - 1], trs[i + 1], h) /\ (i + 1) - 1 = i
    BY <1>1, <1>2, <2>1, AppliedStep
  <2>3. Good(done[i])
    BY <1>2, <1>4, <2>1
  <2> DEFINE r == done[i]
             u == ApplyUnconfirmed(r.session, trs[i + 1], h)
  <2>4. CASE ~ r.ok
    BY <2>2, <2>3, <2>4 DEF ApplyNext
  <2>5. CASE r.ok
    <3>1. done[i + 1] = u
      BY <2>2, <2>5 DEF ApplyNext
    <3>2. Formed(r.session)
      BY <2>3 DEF Follows, Formed
    <3>3. u.ok \in BOOLEAN
      BY AppliedForm
    <3> HIDE DEF r
    <3>4. Follows(r.session, u.session)
      BY <3>2, ApplyUnconfirmedFollows
    <3>5. IsTables(r.session.view) => Keeps(r.session.view, u.session.view)
      BY <3>2, ApplyUnconfirmedFollows
    <3> HIDE DEF u
    <3>6. Follows(s, u.session)
      BY <2>3, <3>4, FollowsFollows DEF r
    <3>7. IsTables(s.view) => Keeps(s.view, u.session.view)
      BY <2>3, <3>5, KeepsKeeps, KeptTables DEF r
    <3> QED BY <3>1, <3>3, <3>6, <3>7
  <2> QED BY <2>3, <2>4, <2>5
<1> HIDE DEF T
<1>5. Nat \subseteq T
  BY <1>3, <1>4, SetInduction
<1>6. Good(done[n])
  BY <1>2, <1>5 DEF T
<1> QED BY <1>1, <1>6

-----------------------------------------------------------------------------
(* What a block does to the tables *)

PaidUpTo(paid, view, forged, fee, reward, n) ==
  paid = [i \in 0 .. n |->
            IF i = 0 THEN view ELSE UpdateDelegate(paid[i - 1], forged[i], fee, reward)]

LEMMA PaidStep ==
  ASSUME NEW paid, NEW view, NEW forged, NEW fee, NEW reward, NEW n \in Nat,
         PaidUpTo(paid, view, forged, fee, reward, n)
  PROVE  /\ paid[0] = view
         /\ \A i \in 1 .. n : paid[i] = UpdateDelegate(paid[i - 1], forged[i], fee, reward)
BY DEF PaidUpTo

PaidFold(iter, view, forged, fee, reward, n) ==
  iter = [S \in SUBSET (1 .. n) |->
            IF S = {} THEN view ELSE UpdateDelegate(iter[S \ {Max(S)}], forged[Max(S)], fee, reward)]

LEMMA PaidFoldExists ==
  ASSUME NEW view, NEW forged, NEW fee, NEW reward, NEW n \in Nat
  PROVE  \E iter : PaidFold(iter, view, forged, fee, reward, n)
<1> DEFINE T == {m \in Nat : \E iter : PaidFold(iter, view, forged, fee, reward, m)}
<1>1. 0 \in T
  <2> DEFINE iter == [S \in SUBSET (1 .. 0) |-> view]
  <2>1. \A S \in SUBSET (1 .. 0) : S = {}
    OBVIOUS
  <2>2. PaidFold(iter, view, forged, fee, reward, 0)
    BY <2>1 DEF PaidFold
  <2> QED BY <2>2
<1>2. ASSUME NEW m \in Nat, m \in T PROVE m + 1 \in T
  <2>1. PICK iter : PaidFold(iter, view, forged, fee, reward, m)
    BY <1>2
  <2> DEFINE more == [S \in SUBSET (1 .. m + 1) |->
                        IF m + 1 \in S THEN UpdateDelegate(iter[S \ {m + 1}], forged[m + 1], fee, reward)
                        ELSE iter[S]]
  <2>2. ASSUME NEW S \in SUBSET (1 .. m + 1)
        PROVE  more[S] = IF S = {} THEN view ELSE UpdateDelegate(more[S \ {Max(S)}], forged[Max(S)], fee, reward)
    <3>1. CASE m + 1 \in S
      <4>1. Max(S) = m + 1 /\ S \ {m + 1} \in SUBSET (1 .. m) /\ S # {}
        BY <3>1, LastOfInterval
      <4>2. m + 1 \notin S \ {m + 1} /\ S \ {m + 1} \in SUBSET (1 .. m + 1)
        OBVIOUS
      <4> QED BY <3>1, <4>1, <4>2
    <3>2. CASE m + 1 \notin S
      <4>1. S \in SUBSET (1 .. m)
        BY <3>2
      <4>2. /\ S \ {Max(S)} \in SUBSET (1 .. m + 1)
            /\ S \ {Max(S)} \in SUBSET (1 .. m)
            /\ m + 1 \notin S \ {Max(S)}
        BY <3>2, <4>1
      <4> QED BY <2>1, <3>2, <4>1, <4>2 DEF PaidFold
    <3> QED BY <3>1, <3>2
  <2>3. PaidFold(more, view, forged, fee, reward, m + 1)
    BY <2>2 DEF PaidFold
  <2> QED BY <2>3
<1> HIDE DEF T
<1>3. Nat \subseteq T
  BY <1>1, <1>2, SetInduction
<1> QED BY <1>3 DEF T

LEMMA PayForgersRun ==
  ASSUME NEW view, NEW forged, NEW fee, NEW reward, NEW n \in Nat, DOMAIN forged = 1 .. n
  PROVE  \E paid : PaidUpTo(paid, view, forged, fee, reward, n) /\ PayForgers(view, forged, fee, reward) = paid[n]
<1>1. \E iter : PaidFold(iter, view, forged, fee, reward, n)
  BY PaidFoldExists
<1>2. PICK iter : PaidFold(iter, view, forged, fee, reward, n) /\ PayForgers(view, forged, fee, reward) = iter[1 .. n]
  BY <1>1 DEF PayForgers, FoldLeft, MapThenFoldSet, PaidFold
<1> DEFINE paid == [i \in 0 .. n |-> iter[1 .. i]]
<1>3. ASSUME NEW i \in 0 .. n
      PROVE  paid[i] = IF i = 0 THEN view ELSE UpdateDelegate(paid[i - 1], forged[i], fee, reward)
  <2>1. CASE i = 0
    <3>1. 1 .. i = {} /\ {} \in SUBSET (1 .. n)
      BY <2>1
    <3> QED BY <1>2, <2>1, <3>1 DEF PaidFold
  <2>2. CASE i # 0
    <3>1. i - 1 \in Nat /\ i - 1 \in 0 .. n /\ (i - 1) + 1 = i /\ 1 .. i \in SUBSET (1 .. n)
      BY <2>2
    <3>2. 1 .. i # {} /\ Max(1 .. i) = i /\ (1 .. i) \ {i} = 1 .. i - 1
      BY <3>1, IntervalGrows
    <3> QED BY <1>2, <2>2, <3>1, <3>2 DEF PaidFold
  <2> QED BY <2>1, <2>2
<1>4. PaidUpTo(paid, view, forged, fee, reward, n)
  BY <1>3 DEF PaidUpTo
<1> QED BY <1>2, <1>4

LEMMA UpdateDelegateKeeps ==
  ASSUME NEW view, IsTables(view), NEW d, NEW fee, NEW reward
  PROVE  Keeps(view, UpdateDelegate(view, d, fee, reward))
<1> DEFINE earned == Increase(Increase(view.delegate, {d}, "fees", fee), {d}, "rewards", reward)
           rows == Increase(view.account, {view.delegate[d].address}, "gny", fee + reward)
           first == [view EXCEPT !.delegate = earned]
<1>1. UpdateDelegate(view, d, fee, reward) = [first EXCEPT !.account = rows]
  BY DEF UpdateDelegate, IsTables, Fields
<1>2. DOMAIN view.account \subseteq DOMAIN rows
  BY DEF Increase
<1>3. first.account = view.account
  BY DEF IsTables, Fields
<1> HIDE DEF earned, rows
<1>4. Keeps(view, first)
  BY KeepsOther
<1> HIDE DEF first
<1>5. Keeps(first, [first EXCEPT !.account = rows])
  BY <1>2, <1>3, <1>4, KeptTables, KeepsAccount
<1> QED BY <1>1, <1>4, <1>5, KeepsKeeps

LEMMA PayForgersKeeps ==
  ASSUME NEW view, IsTables(view), NEW forged, DOMAIN forged = 1 .. RoundLength, NEW fee, NEW reward
  PROVE  Keeps(view, PayForgers(view, forged, fee, reward))
<1>1. RoundLength \in Nat
  BY RoundsAssumption
<1>3. PICK paid : /\ PaidUpTo(paid, view, forged, fee, reward, RoundLength)
                  /\ PayForgers(view, forged, fee, reward) = paid[RoundLength]
  BY <1>1, PayForgersRun
<1> DEFINE T == {i \in Nat : i <= RoundLength => Keeps(view, paid[i])}
<1>4. 0 \in T
  BY <1>1, <1>3, PaidStep, KeepsSelf
<1>5. ASSUME NEW i \in Nat, i \in T PROVE i + 1 \in T
  <2>1. SUFFICES ASSUME i + 1 <= RoundLength PROVE Keeps(view, paid[i + 1])
    OBVIOUS
  <2>2. paid[i + 1] = UpdateDelegate(paid[(i + 1) - 1], forged[i + 1], fee, reward) /\ (i + 1) - 1 = i
    BY <1>1, <1>3, <2>1, PaidStep
  <2>3. Keeps(view, paid[i])
    BY <1>1, <1>5, <2>1
  <2>4. Keeps(paid[i], UpdateDelegate(paid[i], forged[i + 1], fee, reward))
    BY <2>3, KeptTables, UpdateDelegateKeeps
  <2> QED BY <2>2, <2>3, <2>4, KeepsKeeps
<1> HIDE DEF T
<1>6. Nat \subseteq T
  BY <1>4, <1>5, SetInduction
<1> QED BY <1>1, <1>3, <1>6 DEF T

LEMMA PayRoundKeeps ==
  ASSUME NEW view, IsTables(view), NEW forged, DOMAIN forged = 1 .. RoundLength, NEW delegate, NEW data
  PROVE  Keeps(view, PayRound(view, forged, delegate, data))
<1> DEFINE n == Len(view.bookkeeper)
           paid == PayForgers(view, forged, data.fee \div n, data.reward \div n)
<1>1. PayRound(view, forged, delegate, data)
        = UpdateDelegate(paid, delegate, (data.fee \div n) * n - data.fee, (data.reward \div n) * n - data.reward)
  BY DEF PayRound
<1>2. Keeps(view, paid)
  BY PayForgersKeeps
<1> HIDE DEF paid, n
<1> QED BY <1>1, <1>2, KeptTables, UpdateDelegateKeeps, KeepsKeeps

LEMMA ApplyRoundKeeps ==
  ASSUME NEW view, IsTables(view), NEW blocks, NEW height, NEW delegate, NEW trs
  PROVE  Keeps(view, ApplyRound(view, blocks, height, delegate, trs))
<1> DEFINE produced == [view EXCEPT !.delegate = Increase(@, {delegate}, "producedBlocks", 1)]
           counted  == IncreaseRoundData(produced, RoundOf(height), GetFeesOfAll(trs), CalculateReward(height))
           forged   == ForgedDelegates(blocks, height, delegate)
           missed   == MissBlocks(counted, ToSet(counted.bookkeeper) \ ToSet(forged))
           paid     == PayRound(missed, forged, delegate, RoundData(missed, RoundOf(height)))
<1>1. ApplyRound(view, blocks, height, delegate, trs)
        \in {UpdateBookkeeper(view), counted, UpdateBookkeeper(paid)}
  BY DEF ApplyRound
<1>2. Keeps(view, produced)
  BY KeepsOther
<1> HIDE DEF produced
<1>3. Keeps(produced, counted)
  BY <1>2, KeptTables, KeepsOther DEF IncreaseRoundData
<1> HIDE DEF counted
<1>4. Keeps(counted, missed)
  BY <1>3, KeptTables, KeepsOther DEF MissBlocks
<1> HIDE DEF missed
<1>5. Keeps(missed, paid)
  <2>1. DOMAIN forged = 1 .. RoundLength
    BY DEF ForgedDelegates
  <2> HIDE DEF forged
  <2> QED BY <1>4, <2>1, KeptTables, PayRoundKeeps
<1> HIDE DEF paid
<1>6. Keeps(view, UpdateBookkeeper(view)) /\ Keeps(paid, UpdateBookkeeper(paid))
  BY <1>5, KeptTables, KeepsOther DEF UpdateBookkeeper
<1>7. Keeps(view, counted)
  BY <1>2, <1>3, KeepsKeeps
<1>8. Keeps(view, missed)
  BY <1>4, <1>7, KeepsKeeps
<1>9. Keeps(view, paid)
  BY <1>5, <1>8, KeepsKeeps
<1> QED BY <1>1, <1>6, <1>7, <1>9, KeepsKeeps

(***************************************************************************)
(* The tables a block leaves hold the transactions there were, and those   *)
(* of the block.                                                           *)
(***************************************************************************)
LEMMA TablesAfterRecords ==
  ASSUME NEW view, IsTables(view), NEW blocks, NEW height, NEW block
  PROVE  LET tables == TablesAfter(view, blocks, height, block)
         IN  /\ IsTables(tables)
             /\ tables.transactions = view.transactions \cup ToSet(block.trs)
             /\ DOMAIN view.account \subseteq DOMAIN tables.account
<1> DEFINE recorded == SaveBlockTransactions(view, block.trs)
<1>1. /\ IsTables(recorded)
      /\ recorded.transactions = view.transactions \cup ToSet(block.trs)
      /\ recorded.account = view.account
  BY DEF SaveBlockTransactions, IsTables, Fields
<1> HIDE DEF recorded
<1>2. Keeps(recorded, ApplyRound(recorded, blocks, height, block.delegate, block.trs))
  BY <1>1, ApplyRoundKeeps
<1> QED BY <1>1, <1>2 DEF Keeps, TablesAfter, recorded

LEMMA ExecutedRecords ==
  ASSUME NEW s, NEW blocks, NEW height, NEW block, Formed(s), IsTables(s.view),
         NEW S, block.trs \in Seq(S),
         Executed(s, blocks, height, block) # Refused
  PROVE  LET tables == Executed(s, blocks, height, block)
         IN  /\ BlockPasses(s, block)
             /\ IsTables(tables)
             /\ tables.transactions = s.view.transactions \cup ToSet(block.trs)
             /\ DOMAIN s.view.account \subseteq DOMAIN tables.account
<1> DEFINE applied == ApplyBlock(s, block.trs, height - 1)
<1>1. Keeps(s.view, applied.session.view)
  BY ApplyBlockFollows
<1>2. /\ BlockPasses(s, block)
      /\ Executed(s, blocks, height, block) = TablesAfter(applied.session.view, blocks, height, block)
  BY DEF Executed
<1> HIDE DEF applied
<1>3. IsTables(applied.session.view)
  BY <1>1, KeptTables
<1>4. /\ applied.session.view.transactions = s.view.transactions
      /\ DOMAIN s.view.account \subseteq DOMAIN applied.session.view.account
  BY <1>1 DEF Keeps
<1> QED BY <1>2, <1>3, <1>4, TablesAfterRecords

LEMMA Division ==
  ASSUME NEW x \in Nat, NEW d \in Nat \ {0}
  PROVE  /\ x \div d \in Nat /\ x % d \in Nat /\ x % d < d
         /\ x = (x \div d) * d + (x % d)
OBVIOUS

LEMMA Monotone ==
  ASSUME NEW a \in Nat, NEW b \in Nat, a <= b, NEW d \in Nat
  PROVE  a * d <= b * d
OBVIOUS

(***************************************************************************)
(* A block that ends a round looks at the blocks of that round, which are  *)
(* below it; other blocks do not look at any.                              *)
(***************************************************************************)
LEMMA RoundIsBelow ==
  ASSUME NEW height \in Nat \ {0}, EndsRound(height), NEW i \in 1 .. RoundLength - 1
  PROVE  height - RoundLength + i \in 1 .. height - 1
<1> DEFINE d == RoundLength
           q == height \div d
<1>1. d \in Nat \ {0} /\ height % d = 0
  BY RoundsAssumption DEF EndsRound
<1> HIDE DEF d
<1>2. q \in Nat /\ height = q * d + (height % d)
  BY <1>1, Division
<1> HIDE DEF q
<1>3. q # 0
  <2>1. q = 0 => q * d = 0
    BY <1>1
  <2> QED BY <1>1, <1>2, <2>1
<1>4. 1 * d <= q * d /\ 1 * d = d /\ q * d \in Nat
  BY <1>1, <1>2, <1>3, Monotone
<1> DEFINE e == q * d
<1>5. d <= e /\ e \in Nat /\ height = e + 0
  BY <1>1, <1>2, <1>4
<1> HIDE DEF e
<1>6. i \in 1 .. d - 1
  BY DEF d
<1>7. height - d + i \in 1 .. height - 1
  BY <1>1, <1>5, <1>6
<1> QED BY <1>7 DEF d

LEMMA TablesAfterFrame ==
  ASSUME NEW height \in Nat \ {0}, NEW blocks, NEW others, NEW view, NEW block,
         \A h \in 1 .. height - 1 : blocks[h] = others[h]
  PROVE  TablesAfter(view, blocks, height, block) = TablesAfter(view, others, height, block)
<1>1. CASE ~ EndsRound(height)
  BY <1>1 DEF TablesAfter, ApplyRound
<1>2. CASE EndsRound(height)
  <2>1. RoundLength \in Nat \ {0}
    BY RoundsAssumption
  <2>2. ForgedDelegates(blocks, height, block.delegate) = ForgedDelegates(others, height, block.delegate)
    BY <1>2, <2>1, RoundIsBelow DEF ForgedDelegates
  <2> QED BY <2>2 DEF TablesAfter, ApplyRound
<1> QED BY <1>1, <1>2

LEMMA ExecutedFrame ==
  ASSUME NEW height \in Nat \ {0}, NEW blocks, NEW others, NEW s, NEW block,
         \A h \in 1 .. height - 1 : blocks[h] = others[h]
  PROVE  Executed(s, blocks, height, block) = Executed(s, others, height, block)
BY TablesAfterFrame DEF Executed

-----------------------------------------------------------------------------
(* Sequences of transactions *)

LEMMA BoundedSeqIsSeq ==
  ASSUME NEW S, NEW n \in Nat, NEW x
  PROVE  x \in BoundedSeq(S, n) <=> x \in Seq(S) /\ Len(x) <= n
<1>1. ASSUME x \in BoundedSeq(S, n) PROVE x \in Seq(S) /\ Len(x) <= n
  <2>1. PICK m \in 0 .. n : x \in [1 .. m -> S]
    BY <1>1 DEF BoundedSeq, SeqOf
  <2> QED BY <2>1
<1>2. ASSUME x \in Seq(S), Len(x) <= n PROVE x \in BoundedSeq(S, n)
  <2>1. Len(x) \in 0 .. n /\ x \in [1 .. Len(x) -> S]
    BY <1>2
  <2> QED BY <2>1 DEF BoundedSeq, SeqOf
<1> QED BY <1>1, <1>2

LEMMA AppendNew ==
  ASSUME NEW S, NEW ids \in Seq(S), IsInjective(ids), NEW id \in S, id \notin ToSet(ids)
  PROVE  /\ Append(ids, id) \in Seq(S)
         /\ IsInjective(Append(ids, id))
         /\ ToSet(Append(ids, id)) = ToSet(ids) \cup {id}
<1> DEFINE n == Len(ids)
           more == Append(ids, id)
<1>1. /\ n \in Nat /\ DOMAIN ids = 1 .. n
      /\ more \in Seq(S) /\ DOMAIN more = 1 .. n + 1
      /\ \A i \in 1 .. n : more[i] = ids[i] /\ ids[i] # id
      /\ more[n + 1] = id
  BY DEF ToSet
<1> HIDE DEF n, more
<1>2. ASSUME NEW i \in 1 .. n + 1 PROVE i \in 1 .. n \/ i = n + 1
  BY <1>1
<1>3. IsInjective(more)
  <2> SUFFICES ASSUME NEW i \in 1 .. n + 1, NEW j \in 1 .. n + 1, more[i] = more[j] PROVE i = j
    BY <1>1 DEF IsInjective
  <2>1. \A k, l \in 1 .. n : ids[k] = ids[l] => k = l
    BY <1>1 DEF IsInjective
  <2> QED BY <1>1, <1>2, <2>1
<1>4. ToSet(more) = ToSet(ids) \cup {id}
  <2>1. 1 .. n + 1 = (1 .. n) \cup {n + 1}
    BY <1>1
  <2> QED BY <1>1, <2>1 DEF ToSet
<1> QED BY <1>1, <1>3, <1>4 DEF more

LEMMA TailNew ==
  ASSUME NEW S, NEW ids \in Seq(S), IsInjective(ids), ids # <<>>
  PROVE  /\ Tail(ids) \in Seq(S)
         /\ Len(Tail(ids)) = Len(ids) - 1
         /\ IsInjective(Tail(ids))
         /\ ToSet(Tail(ids)) \subseteq ToSet(ids)
<1> DEFINE n == Len(ids)
           less == Tail(ids)
<1>1. /\ n \in Nat \ {0} /\ DOMAIN ids = 1 .. n
      /\ less \in Seq(S) /\ Len(less) = n - 1 /\ DOMAIN less = 1 .. n - 1
      /\ \A i \in 1 .. n - 1 : less[i] = ids[i + 1]
  OBVIOUS
<1> HIDE DEF n, less
<1>2. \A k, l \in 1 .. n : ids[k] = ids[l] => k = l
  BY <1>1 DEF IsInjective
<1>3. \A i \in 1 .. n - 1 : i + 1 \in 1 .. n
  BY <1>1
<1>4. IsInjective(less)
  <2> SUFFICES ASSUME NEW i \in 1 .. n - 1, NEW j \in 1 .. n - 1, less[i] = less[j] PROVE i = j
    BY <1>1 DEF IsInjective
  <2>1. i + 1 = j + 1
    BY <1>1, <1>2, <1>3
  <2> QED BY <2>1, <1>1
<1>5. ToSet(less) \subseteq ToSet(ids)
  BY <1>1, <1>3 DEF ToSet
<1> QED BY <1>1, <1>4, <1>5 DEF less, n

FailedOK(ids) == ids \in Seq(TrsIds) /\ Len(ids) <= FailedLimit /\ IsInjective(ids)

LEMMA NothingFailed == FailedOK(<<>>)
<1>1. <<>> \in Seq(TrsIds) /\ Len(<<>>) = 0 /\ IsInjective(<<>>)
  BY DEF IsInjective
<1> QED BY <1>1, ExecutionAssumption DEF FailedOK

LEMMA AddFailedTrsOK ==
  ASSUME NEW ids, FailedOK(ids), NEW id \in TrsIds
  PROVE  FailedOK(AddFailedTrs(ids, id))
<1>1. FailedLimit \in Nat \ {0}
  BY ExecutionAssumption
<1>2. CASE id \in ToSet(ids)
  BY <1>2 DEF AddFailedTrs
<1>3. CASE id \notin ToSet(ids) /\ Len(ids) >= FailedLimit
  <2>1. ids # <<>>
    BY <1>1, <1>3
  <2>2. /\ Tail(ids) \in Seq(TrsIds) /\ Len(Tail(ids)) = Len(ids) - 1
        /\ IsInjective(Tail(ids)) /\ id \notin ToSet(Tail(ids))
    BY <1>3, <2>1, TailNew DEF FailedOK
  <2>3. /\ Append(Tail(ids), id) \in Seq(TrsIds) /\ IsInjective(Append(Tail(ids), id))
    BY <2>2, AppendNew
  <2>4. Len(Append(Tail(ids), id)) = Len(ids)
    BY <2>2 DEF FailedOK
  <2>5. AddFailedTrs(ids, id) = Append(Tail(ids), id)
    BY <1>3 DEF AddFailedTrs
  <2> QED BY <2>3, <2>4, <2>5 DEF FailedOK
<1>4. CASE id \notin ToSet(ids) /\ ~ (Len(ids) >= FailedLimit)
  <2>1. Append(ids, id) \in Seq(TrsIds) /\ IsInjective(Append(ids, id))
    BY <1>4, AppendNew DEF FailedOK
  <2>2. Len(Append(ids, id)) <= FailedLimit
    BY <1>1, <1>4 DEF FailedOK
  <2>3. AddFailedTrs(ids, id) = Append(ids, id)
    BY <1>4 DEF AddFailedTrs
  <2> QED BY <2>1, <2>2, <2>3 DEF FailedOK
<1> QED BY <1>2, <1>3, <1>4

LeftNext(left, id, trs) == IF id \in ToSet(trs) THEN left ELSE Append(left, id)

LeftUpTo(left, ids, trs, n) ==
  left = [i \in 0 .. n |-> IF i = 0 THEN <<>> ELSE LeftNext(left[i - 1], ids[i], trs)]

LEMMA LeftStep ==
  ASSUME NEW left, NEW ids, NEW trs, NEW n \in Nat, LeftUpTo(left, ids, trs, n)
  PROVE  /\ left[0] = <<>>
         /\ \A i \in 1 .. n : left[i] = LeftNext(left[i - 1], ids[i], trs)
BY DEF LeftUpTo

LeftFold(iter, ids, trs, n) ==
  iter = [S \in SUBSET (1 .. n) |->
            IF S = {} THEN <<>> ELSE LeftNext(iter[S \ {Max(S)}], ids[Max(S)], trs)]

LEMMA LeftFoldExists ==
  ASSUME NEW ids, NEW trs, NEW n \in Nat
  PROVE  \E iter : LeftFold(iter, ids, trs, n)
<1> DEFINE T == {m \in Nat : \E iter : LeftFold(iter, ids, trs, m)}
<1>1. 0 \in T
  <2> DEFINE iter == [S \in SUBSET (1 .. 0) |-> <<>>]
  <2>1. \A S \in SUBSET (1 .. 0) : S = {}
    OBVIOUS
  <2>2. LeftFold(iter, ids, trs, 0)
    BY <2>1 DEF LeftFold
  <2> QED BY <2>2
<1>2. ASSUME NEW m \in Nat, m \in T PROVE m + 1 \in T
  <2>1. PICK iter : LeftFold(iter, ids, trs, m)
    BY <1>2
  <2> DEFINE more == [S \in SUBSET (1 .. m + 1) |->
                        IF m + 1 \in S THEN LeftNext(iter[S \ {m + 1}], ids[m + 1], trs) ELSE iter[S]]
  <2>2. ASSUME NEW S \in SUBSET (1 .. m + 1)
        PROVE  more[S] = IF S = {} THEN <<>> ELSE LeftNext(more[S \ {Max(S)}], ids[Max(S)], trs)
    <3>1. CASE m + 1 \in S
      <4>1. Max(S) = m + 1 /\ S \ {m + 1} \in SUBSET (1 .. m) /\ S # {}
        BY <3>1, LastOfInterval
      <4>2. m + 1 \notin S \ {m + 1} /\ S \ {m + 1} \in SUBSET (1 .. m + 1)
        OBVIOUS
      <4> QED BY <3>1, <4>1, <4>2
    <3>2. CASE m + 1 \notin S
      <4>1. S \in SUBSET (1 .. m)
        BY <3>2
      <4>2. /\ S \ {Max(S)} \in SUBSET (1 .. m + 1)
            /\ S \ {Max(S)} \in SUBSET (1 .. m)
            /\ m + 1 \notin S \ {Max(S)}
        BY <3>2, <4>1
      <4> QED BY <2>1, <3>2, <4>1, <4>2 DEF LeftFold
    <3> QED BY <3>1, <3>2
  <2>3. LeftFold(more, ids, trs, m + 1)
    BY <2>2 DEF LeftFold
  <2> QED BY <2>3
<1> HIDE DEF T
<1>3. Nat \subseteq T
  BY <1>1, <1>2, SetInduction
<1> QED BY <1>3 DEF T

LEMMA LeftRun ==
  ASSUME NEW ids, NEW trs, NEW n \in Nat, DOMAIN ids = 1 .. n
  PROVE  \E left : LeftUpTo(left, ids, trs, n) /\ Left(ids, trs) = left[n]
<1>1. \E iter : LeftFold(iter, ids, trs, n)
  BY LeftFoldExists
<1>2. PICK iter : LeftFold(iter, ids, trs, n) /\ Left(ids, trs) = iter[1 .. n]
  BY <1>1 DEF Left, LeftNext, FoldLeft, MapThenFoldSet, LeftFold
<1> DEFINE left == [i \in 0 .. n |-> iter[1 .. i]]
<1>3. ASSUME NEW i \in 0 .. n
      PROVE  left[i] = IF i = 0 THEN <<>> ELSE LeftNext(left[i - 1], ids[i], trs)
  <2>1. CASE i = 0
    <3>1. 1 .. i = {} /\ {} \in SUBSET (1 .. n)
      BY <2>1
    <3> QED BY <1>2, <2>1, <3>1 DEF LeftFold
  <2>2. CASE i # 0
    <3>1. i - 1 \in Nat /\ i - 1 \in 0 .. n /\ (i - 1) + 1 = i /\ 1 .. i \in SUBSET (1 .. n)
      BY <2>2
    <3>2. 1 .. i # {} /\ Max(1 .. i) = i /\ (1 .. i) \ {i} = 1 .. i - 1
      BY <3>1, IntervalGrows
    <3> QED BY <1>2, <2>2, <3>1, <3>2 DEF LeftFold
  <2> QED BY <2>1, <2>2
<1>4. LeftUpTo(left, ids, trs, n)
  BY <1>3 DEF LeftUpTo
<1> QED BY <1>2, <1>4

LEMMA LeftIsSeq ==
  ASSUME NEW S, NEW ids \in Seq(S), NEW trs
  PROVE  Left(ids, trs) \in Seq(S)
<1> DEFINE n == Len(ids)
<1>1. n \in Nat /\ DOMAIN ids = 1 .. n /\ \A i \in 1 .. n : ids[i] \in S
  OBVIOUS
<1>3. PICK left : LeftUpTo(left, ids, trs, n) /\ Left(ids, trs) = left[n]
  BY <1>1, LeftRun
<1> HIDE DEF n
<1> DEFINE T == {i \in Nat : i <= n => left[i] \in Seq(S)}
<1>4. 0 \in T
  <2>1. left[0] = <<>>
    BY <1>1, <1>3, LeftStep
  <2>2. <<>> \in Seq(S)
    OBVIOUS
  <2> QED BY <2>1, <2>2
<1>5. ASSUME NEW i \in Nat, i \in T PROVE i + 1 \in T
  <2>1. SUFFICES ASSUME i + 1 <= n PROVE left[i + 1] \in Seq(S)
    OBVIOUS
  <2>2. left[i] \in Seq(S) /\ ids[i + 1] \in S
    BY <1>1, <1>5, <2>1
  <2>3. left[i + 1] = LeftNext(left[(i + 1) - 1], ids[i + 1], trs) /\ (i + 1) - 1 = i
    BY <1>1, <1>3, <2>1, LeftStep
  <2>4. ASSUME NEW r \in Seq(S), NEW id \in S PROVE LeftNext(r, id, trs) \in Seq(S)
    BY DEF LeftNext
  <2> QED BY <2>2, <2>3, <2>4
<1> HIDE DEF T
<1>6. Nat \subseteq T
  BY <1>4, <1>5, SetInduction
<1> QED BY <1>1, <1>3, <1>6 DEF T

-----------------------------------------------------------------------------
(* What a transaction on its way to the pool does to the pool *)

LocksOK(locks) == \A name \in locks : LockIsName(name)

PoolTyped(ps, tables) ==
  /\ ps = [session |-> ps.session, pool |-> ps.pool, failed |-> ps.failed, ok |-> ps.ok]
  /\ ps.ok \in BOOLEAN
  /\ Formed(ps.session) /\ ps.session.table = tables /\ LocksOK(ps.session.locks)
  /\ ps.pool \in Seq(Senders) /\ IsInjective(ps.pool)
  /\ FailedOK(ps.failed)

(* No transaction of the pool, or of what is pending, is executed already *)
PoolClean(ps, tables) ==
  /\ IsTables(ps.session.view)
  /\ ps.session.view.transactions = tables.transactions
  /\ ToSet(ps.pool) \cap tables.transactions = {}

HaveAccounts(view) == \A id \in Senders : Content[id].senderId \in DOMAIN view.account

(* The overlay is the pool, and on top of genesis every sender has an account *)
PoolApplied(ps, tables, h) ==
  /\ IsTables(ps.session.view)
  /\ ApplyBlock(SessionOver(tables), ps.pool, h) = Fresh(ps.session)
  /\ h = 0 => HaveAccounts(ps.session.view)

(* Taken up, refused by its contract, or not looked at *)
LEMMA ProcessCases ==
  ASSUME NEW ps, NEW tables, PoolTyped(ps, tables), NEW collecting, NEW id, NEW h, NEW next,
         next = ProcessUnconfirmed(ps, collecting, id, h)
  PROVE  LET applied == ApplyUnconfirmed(ps.session, id, h)
         IN  \/ /\ Accepted(ps, collecting, id) /\ applied.ok
                /\ next = [session |-> applied.session, pool |-> Append(ps.pool, id),
                           failed |-> ps.failed, ok |-> TRUE]
             \/ /\ Accepted(ps, collecting, id) /\ ~ applied.ok
                /\ next = [session |-> applied.session, pool |-> ps.pool,
                           failed |-> AddFailedTrs(ps.failed, id), ok |-> FALSE]
             \/ /\ ~ Accepted(ps, collecting, id)
                /\ next = [session |-> ps.session, pool |-> ps.pool,
                           failed |-> AddFailedTrs(ps.failed, id), ok |-> FALSE]
<1> DEFINE applied == ApplyUnconfirmed(ps.session, id, h)
<1>1. applied.ok \in BOOLEAN
  BY AppliedForm
<1>2. CASE ~ Accepted(ps, collecting, id)
  <2>1. next = [[ps EXCEPT !.failed = AddFailedTrs(@, id)] EXCEPT !.ok = FALSE]
    BY <1>2 DEF ProcessUnconfirmed
  <2>2. ps = [session |-> ps.session, pool |-> ps.pool, failed |-> ps.failed, ok |-> ps.ok]
    BY DEF PoolTyped
  <2>3. next = [session |-> ps.session, pool |-> ps.pool,
                failed |-> AddFailedTrs(ps.failed, id), ok |-> FALSE]
    BY <2>1, <2>2
  <2> QED BY <1>2, <2>3
<1>3. CASE Accepted(ps, collecting, id)
  <2>1. next
          = [session |-> applied.session,
             pool    |-> IF applied.ok THEN Append(ps.pool, id) ELSE ps.pool,
             failed  |-> IF applied.ok THEN ps.failed ELSE AddFailedTrs(ps.failed, id),
             ok      |-> applied.ok]
    BY <1>3 DEF ProcessUnconfirmed
  <2> HIDE DEF applied
  <2>2. CASE applied.ok
    <3>1. applied.ok = TRUE
      BY <1>1, <2>2
    <3> QED BY <1>3, <2>1, <2>2, <3>1 DEF applied
  <2>3. CASE ~ applied.ok
    <3>1. applied.ok = FALSE
      BY <1>1, <2>3
    <3> QED BY <1>3, <2>1, <2>3, <3>1 DEF applied
  <2> QED BY <2>2, <2>3
<1> QED BY <1>2, <1>3

LEMMA ProcessTyped ==
  ASSUME NEW ps, NEW tables, PoolTyped(ps, tables), NEW collecting, NEW id \in Senders, NEW h, NEW next,
         next = ProcessUnconfirmed(ps, collecting, id, h)
  PROVE  PoolTyped(next, tables)
<1> DEFINE applied == ApplyUnconfirmed(ps.session, id, h)
<1>1. Formed(ps.session) /\ ps.session.table = tables /\ LocksOK(ps.session.locks)
  BY DEF PoolTyped
<1>2. Formed(applied.session) /\ applied.session.table = tables /\ LocksOK(applied.session.locks)
  <2>1. Follows(ps.session, applied.session)
    BY <1>1, ApplyUnconfirmedFollows
  <2> HIDE DEF applied
  <2> QED BY <1>1, <2>1 DEF Follows, Formed, LocksOK
<1>3. FailedOK(ps.failed) /\ FailedOK(AddFailedTrs(ps.failed, id))
  <2>1. id \in TrsIds
    BY ExecutionAssumption
  <2> QED BY <2>1, AddFailedTrsOK DEF PoolTyped
<1>4. ps.pool \in Seq(Senders) /\ IsInjective(ps.pool)
  BY DEF PoolTyped
<1>5. Accepted(ps, collecting, id) =>
        Append(ps.pool, id) \in Seq(Senders) /\ IsInjective(Append(ps.pool, id))
  BY <1>4, AppendNew DEF Accepted
<1>6. \/ /\ Accepted(ps, collecting, id)
         /\ next = [session |-> applied.session, pool |-> Append(ps.pool, id),
                    failed |-> ps.failed, ok |-> TRUE]
      \/ next = [session |-> applied.session, pool |-> ps.pool,
                 failed |-> AddFailedTrs(ps.failed, id), ok |-> FALSE]
      \/ next = [session |-> ps.session, pool |-> ps.pool,
                 failed |-> AddFailedTrs(ps.failed, id), ok |-> FALSE]
  BY ProcessCases
<1> HIDE DEF applied
<1>7. ASSUME NEW s \in {ps.session, applied.session},
             NEW ids, ids \in Seq(Senders), IsInjective(ids),
             NEW failed, FailedOK(failed), NEW ok \in BOOLEAN,
             next = [session |-> s, pool |-> ids, failed |-> failed, ok |-> ok]
      PROVE  PoolTyped(next, tables)
  <2>1. /\ next.session = s /\ next.pool = ids /\ next.failed = failed /\ next.ok = ok
        /\ next = [session |-> next.session, pool |-> next.pool, failed |-> next.failed, ok |-> next.ok]
    BY <1>7
  <2> QED BY <1>1, <1>2, <1>7, <2>1 DEF PoolTyped
<1> QED BY <1>3, <1>4, <1>5, <1>6, <1>7

LEMMA ProcessClean ==
  ASSUME NEW ps, NEW tables, PoolTyped(ps, tables), PoolClean(ps, tables),
         NEW collecting, NEW id \in Senders, NEW h, NEW next,
         next = ProcessUnconfirmed(ps, collecting, id, h)
  PROVE  PoolClean(next, tables)
<1> DEFINE applied == ApplyUnconfirmed(ps.session, id, h)
<1>1. /\ Formed(ps.session) /\ ps.session.table = tables
      /\ ps.pool \in Seq(Senders) /\ IsInjective(ps.pool)
  BY DEF PoolTyped
<1>2. IsTables(ps.session.view) /\ ps.session.view.transactions = tables.transactions
  BY DEF PoolClean
<1>3. IsTables(applied.session.view) /\ applied.session.view.transactions = tables.transactions
  <2>1. Keeps(ps.session.view, applied.session.view)
    BY <1>1, <1>2, ApplyUnconfirmedFollows
  <2> HIDE DEF applied
  <2> QED BY <1>2, <2>1 DEF Keeps
<1>4. Accepted(ps, collecting, id) =>
        ToSet(Append(ps.pool, id)) = ToSet(ps.pool) \cup {id} /\ id \notin tables.transactions
  BY <1>1, AppendNew DEF Accepted
<1>5. \/ /\ Accepted(ps, collecting, id)
         /\ next = [session |-> applied.session, pool |-> Append(ps.pool, id),
                    failed |-> ps.failed, ok |-> TRUE]
      \/ next = [session |-> applied.session, pool |-> ps.pool,
                 failed |-> AddFailedTrs(ps.failed, id), ok |-> FALSE]
      \/ next = [session |-> ps.session, pool |-> ps.pool,
                 failed |-> AddFailedTrs(ps.failed, id), ok |-> FALSE]
  BY ProcessCases
<1> HIDE DEF applied
<1>6. \/ Accepted(ps, collecting, id) /\ next.session = applied.session /\ next.pool = Append(ps.pool, id)
      \/ next.session = applied.session /\ next.pool = ps.pool
      \/ next.session = ps.session /\ next.pool = ps.pool
  BY <1>5
<1> QED BY <1>2, <1>3, <1>4, <1>6 DEF PoolClean

LEMMA ProcessApplied ==
  ASSUME NEW ps, NEW tables, NEW h \in Nat, PoolTyped(ps, tables), PoolApplied(ps, tables, h),
         NEW collecting, NEW id \in Senders, NEW next,
         next = ProcessUnconfirmed(ps, collecting, id, h)
  PROVE  PoolApplied(next, tables, h)
<1> DEFINE applied == ApplyUnconfirmed(ps.session, id, h)
<1>1. Formed(ps.session) /\ ps.pool \in Seq(Senders)
  BY DEF PoolTyped
<1>2. /\ IsTables(ps.session.view)
      /\ ApplyBlock(SessionOver(tables), ps.pool, h) = Fresh(ps.session)
      /\ h = 0 => HaveAccounts(ps.session.view)
  BY DEF PoolApplied
<1>3. IsTables(applied.session.view) /\ (h = 0 => HaveAccounts(applied.session.view))
  <2>1. Keeps(ps.session.view, applied.session.view)
    BY <1>1, <1>2, ApplyUnconfirmedFollows
  <2> HIDE DEF applied
  <2> QED BY <1>2, <2>1 DEF Keeps, HaveAccounts
<1>4. ApplyBlock(SessionOver(tables), Append(ps.pool, id), h) = applied
  <2>1. ApplyBlock(SessionOver(tables), Append(ps.pool, id), h) = ApplyNext(Fresh(ps.session), id, h)
    BY <1>1, <1>2, ApplyBlockAppend
  <2> QED BY <2>1 DEF ApplyNext, Fresh
<1>5. applied.ok => applied = Fresh(applied.session)
  BY AppliedForm DEF Fresh
<1>6. ~ applied.ok => applied.session = ps.session
  <2>1. h = 0 => Content[id].senderId \in DOMAIN ps.session.view.account
    BY <1>2 DEF HaveAccounts
  <2>2. ~ applied.ok => applied = [ok |-> FALSE, session |-> ps.session]
    BY <2>1, RefusedLeavesNothing
  <2> HIDE DEF applied
  <2> QED BY <2>2
<1>7. \/ /\ applied.ok
         /\ next = [session |-> applied.session, pool |-> Append(ps.pool, id),
                    failed |-> ps.failed, ok |-> TRUE]
      \/ /\ ~ applied.ok
         /\ next = [session |-> applied.session, pool |-> ps.pool,
                    failed |-> AddFailedTrs(ps.failed, id), ok |-> FALSE]
      \/ next = [session |-> ps.session, pool |-> ps.pool,
                 failed |-> AddFailedTrs(ps.failed, id), ok |-> FALSE]
  BY ProcessCases
<1> HIDE DEF applied
<1>8. \/ applied.ok /\ next.session = applied.session /\ next.pool = Append(ps.pool, id)
      \/ ~ applied.ok /\ next.session = applied.session /\ next.pool = ps.pool
      \/ next.session = ps.session /\ next.pool = ps.pool
  BY <1>7
<1> QED BY <1>2, <1>3, <1>4, <1>5, <1>6, <1>8 DEF PoolApplied

-----------------------------------------------------------------------------
(* What several transactions do, up to the first that fails *)

DoneUpTo(done, ps, collecting, ids, h, n) ==
  done = [i \in 0 .. n |-> IF i = 0 THEN ps ELSE ProcessNext(done[i - 1], collecting, ids[i], h)]

LEMMA DoneStep ==
  ASSUME NEW done, NEW ps, NEW collecting, NEW ids, NEW h, NEW n \in Nat,
         DoneUpTo(done, ps, collecting, ids, h, n)
  PROVE  /\ done[0] = ps
         /\ \A i \in 1 .. n : done[i] = ProcessNext(done[i - 1], collecting, ids[i], h)
BY DEF DoneUpTo

DoneFold(iter, ps, collecting, ids, h, n) ==
  iter = [S \in SUBSET (1 .. n) |->
            IF S = {} THEN ps ELSE ProcessNext(iter[S \ {Max(S)}], collecting, ids[Max(S)], h)]

LEMMA DoneFoldExists ==
  ASSUME NEW ps, NEW collecting, NEW ids, NEW h, NEW n \in Nat
  PROVE  \E iter : DoneFold(iter, ps, collecting, ids, h, n)
<1> DEFINE T == {m \in Nat : \E iter : DoneFold(iter, ps, collecting, ids, h, m)}
<1>1. 0 \in T
  <2> DEFINE iter == [S \in SUBSET (1 .. 0) |-> ps]
  <2>1. \A S \in SUBSET (1 .. 0) : S = {}
    OBVIOUS
  <2>2. DoneFold(iter, ps, collecting, ids, h, 0)
    BY <2>1 DEF DoneFold
  <2> QED BY <2>2
<1>2. ASSUME NEW m \in Nat, m \in T PROVE m + 1 \in T
  <2>1. PICK iter : DoneFold(iter, ps, collecting, ids, h, m)
    BY <1>2
  <2> DEFINE more == [S \in SUBSET (1 .. m + 1) |->
                        IF m + 1 \in S THEN ProcessNext(iter[S \ {m + 1}], collecting, ids[m + 1], h) ELSE iter[S]]
  <2>2. ASSUME NEW S \in SUBSET (1 .. m + 1)
        PROVE  more[S] = IF S = {} THEN ps ELSE ProcessNext(more[S \ {Max(S)}], collecting, ids[Max(S)], h)
    <3>1. CASE m + 1 \in S
      <4>1. Max(S) = m + 1 /\ S \ {m + 1} \in SUBSET (1 .. m) /\ S # {}
        BY <3>1, LastOfInterval
      <4>2. m + 1 \notin S \ {m + 1} /\ S \ {m + 1} \in SUBSET (1 .. m + 1)
        OBVIOUS
      <4> QED BY <3>1, <4>1, <4>2
    <3>2. CASE m + 1 \notin S
      <4>1. S \in SUBSET (1 .. m)
        BY <3>2
      <4>2. /\ S \ {Max(S)} \in SUBSET (1 .. m + 1)
            /\ S \ {Max(S)} \in SUBSET (1 .. m)
            /\ m + 1 \notin S \ {Max(S)}
        BY <3>2, <4>1
      <4> QED BY <2>1, <3>2, <4>1, <4>2 DEF DoneFold
    <3> QED BY <3>1, <3>2
  <2>3. DoneFold(more, ps, collecting, ids, h, m + 1)
    BY <2>2 DEF DoneFold
  <2> QED BY <2>3
<1> HIDE DEF T
<1>3. Nat \subseteq T
  BY <1>1, <1>2, SetInduction
<1> QED BY <1>3 DEF T

LEMMA ProcessAllRun ==
  ASSUME NEW ps, NEW collecting, NEW ids, NEW h, NEW n \in Nat, DOMAIN ids = 1 .. n
  PROVE  \E done : DoneUpTo(done, ps, collecting, ids, h, n) /\ ProcessAll(ps, collecting, ids, h) = done[n]
<1>1. \E iter : DoneFold(iter, ps, collecting, ids, h, n)
  BY DoneFoldExists
<1>2. PICK iter : DoneFold(iter, ps, collecting, ids, h, n) /\ ProcessAll(ps, collecting, ids, h) = iter[1 .. n]
  BY <1>1 DEF ProcessAll, FoldLeft, MapThenFoldSet, DoneFold
<1> DEFINE done == [i \in 0 .. n |-> iter[1 .. i]]
<1>3. ASSUME NEW i \in 0 .. n
      PROVE  done[i] = IF i = 0 THEN ps ELSE ProcessNext(done[i - 1], collecting, ids[i], h)
  <2>1. CASE i = 0
    <3>1. 1 .. i = {} /\ {} \in SUBSET (1 .. n)
      BY <2>1
    <3> QED BY <1>2, <2>1, <3>1 DEF DoneFold
  <2>2. CASE i # 0
    <3>1. i - 1 \in Nat /\ i - 1 \in 0 .. n /\ (i - 1) + 1 = i /\ 1 .. i \in SUBSET (1 .. n)
      BY <2>2
    <3>2. 1 .. i # {} /\ Max(1 .. i) = i /\ (1 .. i) \ {i} = 1 .. i - 1
      BY <3>1, IntervalGrows
    <3> QED BY <1>2, <2>2, <3>1, <3>2 DEF DoneFold
  <2> QED BY <2>1, <2>2
<1>4. DoneUpTo(done, ps, collecting, ids, h, n)
  BY <1>3 DEF DoneUpTo
<1> QED BY <1>2, <1>4

LEMMA ProcessAllOK ==
  ASSUME NEW ps, NEW tables, NEW h \in Nat, NEW ids \in Seq(Senders), NEW collecting,
         PoolTyped(ps, tables)
  PROVE  LET last == ProcessAll(ps, collecting, ids, h)
         IN  /\ PoolTyped(last, tables)
             /\ PoolClean(ps, tables) => PoolClean(last, tables)
             /\ PoolApplied(ps, tables, h) => PoolApplied(last, tables, h)
<1> DEFINE n == Len(ids)
           Good(r) == /\ PoolTyped(r, tables)
                      /\ PoolClean(ps, tables) => PoolClean(r, tables)
                      /\ PoolApplied(ps, tables, h) => PoolApplied(r, tables, h)
<1>1. n \in Nat /\ DOMAIN ids = 1 .. n /\ \A i \in 1 .. n : ids[i] \in Senders
  OBVIOUS
<1>3. PICK done : DoneUpTo(done, ps, collecting, ids, h, n) /\ ProcessAll(ps, collecting, ids, h) = done[n]
  BY <1>1, ProcessAllRun
<1> HIDE DEF n
<1> DEFINE T == {i \in Nat : i <= n => Good(done[i])}
<1>4. 0 \in T
  BY <1>1, <1>3, DoneStep
<1>5. ASSUME NEW i \in Nat, i \in T PROVE i + 1 \in T
  <2>1. SUFFICES ASSUME i + 1 <= n PROVE Good(done[i + 1])
    OBVIOUS
  <2>2. Good(done[i]) /\ ids[i + 1] \in Senders
    BY <1>1, <1>5, <2>1
  <2>3. done[i + 1] = ProcessNext(done[(i + 1) - 1], collecting, ids[i + 1], h) /\ (i + 1) - 1 = i
    BY <1>1, <1>3, <2>1, DoneStep
  <2> DEFINE r == done[i]
             next == ProcessUnconfirmed(r, collecting, ids[i + 1], h)
  <2>4. Good(r)
    BY <2>2
  <2>5. done[i + 1] \in {r, next}
    BY <2>3 DEF ProcessNext
  <2> HIDE DEF r
  <2>6. Good(next)
    BY <2>2, <2>4, ProcessTyped, ProcessClean, ProcessApplied
  <2> HIDE DEF next, Good
  <2> QED BY <2>4, <2>5, <2>6
<1> HIDE DEF T, Good
<1>6. Nat \subseteq T
  BY <1>4, <1>5, SetInduction
<1>7. Good(done[n])
  BY <1>1, <1>6 DEF T
<1> QED BY <1>3, <1>7 DEF Good

-----------------------------------------------------------------------------
(* The invariants.  The first is that of the types.  The second, of a node *)
(* whose genesis block is valid and that does not begin to synchronise     *)
(* while its pool is in use, says that every transaction is recorded in    *)
(* the tables of its block and those after it, and new when it is pending. *)
(* The third, if moreover the senders have accounts since genesis, says    *)
(* that tables and overlay are what executing blocks and pool gives.       *)

GenesisValid == GenesisTables # Refused

SendersKnown == HaveAccounts(GenesisTables)

NeverBusy == GenesisValid /\ ~ SyncWhenBusy

ChainTyped ==
  /\ Height \in Nat
  /\ DOMAIN chain = 0 .. Height /\ DOMAIN saved = 0 .. Height
  /\ chain[0] = GenesisBlock /\ saved[0] = GenesisTables
  /\ \A h \in 0 .. Height : chain[h].height = h /\ chain[h].trs \in Seq(TrsIds)

TypeInv ==
  /\ ChainTyped
  /\ PoolTyped(PoolState, saved[Height])
  /\ IsCollectingVotes => pendingBlock.trs \in Seq(Senders)
  /\ syncing \in BOOLEAN

ChainRecorded ==
  /\ \A h \in 0 .. Height : IsTables(saved[h])
  /\ \A h \in 0 .. Height : \A k \in 0 .. h : ToSet(chain[k].trs) \subseteq saved[h].transactions
  /\ \A h, k \in 0 .. Height : h < k => ToSet(chain[h].trs) \cap ToSet(chain[k].trs) = {}

OnceInv ==
  /\ ChainRecorded
  /\ PoolClean(PoolState, saved[Height])
  /\ syncing => pool = <<>>
  /\ IsCollectingVotes => ~ syncing /\ pendingBlock.height = Height + 1 /\ pendingBlock.trs = pool

Applies(s, height, block) == BlockPasses(s, block) /\ ApplyBlock(s, block.trs, height - 1).ok

ChainReplayed ==
  \A h \in 1 .. Height : /\ saved[h] = Executed(SessionOver(saved[h - 1]), chain, h, chain[h])
                         /\ Applies(SessionOver(saved[h - 1]), h, chain[h])

ReplayInv ==
  /\ ChainReplayed
  /\ PoolApplied(PoolState, saved[Height], Height)

-----------------------------------------------------------------------------
(* The chain that a commit or a synchronisation leaves *)

LEMMA MaxUpTo ==
  ASSUME NEW n \in Nat
  PROVE  Max(0 .. n) = n
BY DEF Max

Grown(block, tables) ==
  /\ Height' = Height + 1
  /\ DOMAIN chain' = 0 .. Height + 1 /\ DOMAIN saved' = 0 .. Height + 1
  /\ chain'[Height + 1] = block /\ saved'[Height + 1] = tables
  /\ \A h \in 0 .. Height : chain'[h] = chain[h] /\ saved'[h] = saved[h]

LEMMA CommitGrows ==
  ASSUME ChainTyped, NEW block, NEW tables, Commit(block, tables)
  PROVE  Grown(block, tables)
<1>1. /\ Height \in Nat
      /\ DOMAIN chain = 0 .. Height /\ DOMAIN saved = 0 .. Height
  BY DEF ChainTyped
<1> DEFINE n == Height + 1
<1>2. /\ n \in Nat /\ (0 .. Height) \cup {n} = 0 .. n
      /\ \A h \in 0 .. Height : h # n /\ h \in 0 .. n
      /\ n \in 0 .. n
  BY <1>1
<1>3. /\ DOMAIN chain' = 0 .. n /\ DOMAIN saved' = 0 .. n
      /\ chain'[n] = block /\ saved'[n] = tables
      /\ \A h \in 0 .. Height : chain'[h] = chain[h] /\ saved'[h] = saved[h]
  <2>1. chain' = With(chain, n, block) /\ saved' = With(saved, n, tables)
    BY DEF Commit
  <2> HIDE DEF n
  <2> QED BY <1>1, <1>2, <2>1 DEF With
<1>4. Height' = n
  BY <1>2, <1>3, MaxUpTo DEF Height
<1> QED BY <1>3, <1>4 DEF Grown

LEMMA GrownTyped ==
  ASSUME ChainTyped, NEW block, NEW tables, Grown(block, tables),
         block.height = Height + 1, block.trs \in Seq(TrsIds)
  PROVE  ChainTyped'
<1>1. Height \in Nat /\ 0 \in 0 .. Height
  BY DEF ChainTyped
<1>2. \A h \in 0 .. Height + 1 : h \in 0 .. Height \/ h = Height + 1
  BY <1>1
<1>3. Height' = Height + 1
  BY DEF Grown
<1>4. \A h \in 0 .. Height' : chain'[h].height = h /\ chain'[h].trs \in Seq(TrsIds)
  BY <1>1, <1>2, <1>3 DEF Grown, ChainTyped
<1> QED BY <1>1, <1>3, <1>4 DEF Grown, ChainTyped

Cut(common) ==
  /\ Height' = common
  /\ DOMAIN chain' = 0 .. common /\ DOMAIN saved' = 0 .. common
  /\ \A h \in 0 .. common : h \in 0 .. Height /\ chain'[h] = chain[h] /\ saved'[h] = saved[h]

LEMMA StartSyncCuts ==
  ASSUME ChainTyped, NEW common \in DOMAIN chain, StartSync(common)
  PROVE  common \in Nat /\ Cut(common)
<1>1. Height \in Nat /\ common \in 0 .. Height
  BY DEF ChainTyped
<1>2. chain' = Restrict(chain, 0 .. common) /\ saved' = Restrict(saved, 0 .. common)
  BY DEF StartSync
<1>3. common \in Nat /\ \A h \in 0 .. common : h \in 0 .. Height
  BY <1>1
<1>4. /\ DOMAIN chain' = 0 .. common /\ DOMAIN saved' = 0 .. common
      /\ \A h \in 0 .. common : chain'[h] = chain[h] /\ saved'[h] = saved[h]
  BY <1>2 DEF Restrict
<1>5. Height' = common
  BY <1>3, <1>4, MaxUpTo DEF Height
<1> QED BY <1>3, <1>4, <1>5 DEF Cut

LEMMA CutTyped ==
  ASSUME ChainTyped, NEW common \in Nat, Cut(common)
  PROVE  ChainTyped'
BY DEF Cut, ChainTyped

LEMMA GrownRecorded ==
  ASSUME ChainTyped, ChainRecorded, NEW block, NEW tables, Grown(block, tables), IsTables(tables),
         ToSet(block.trs) \cap saved[Height].transactions = {},
         tables.transactions = saved[Height].transactions \cup ToSet(block.trs)
  PROVE  ChainRecorded'
<1> DEFINE n == Height + 1
<1>1. Height \in Nat /\ Height \in 0 .. Height
  BY DEF ChainTyped
<1>2. \A h \in 0 .. n : h \in 0 .. Height \/ h = n
  BY <1>1
<1>3. Height' = n /\ saved'[n] = tables /\ chain'[n] = block
  BY DEF Grown
<1>4. \A h \in 0 .. Height : chain'[h] = chain[h] /\ saved'[h] = saved[h]
  BY DEF Grown
<1>5. \A h \in 0 .. n : IsTables(saved'[h])
  BY <1>2, <1>3, <1>4 DEF ChainRecorded
<1>6. \A k \in 0 .. Height : ToSet(chain[k].trs) \subseteq saved[Height].transactions
  BY <1>1 DEF ChainRecorded
<1>7. ASSUME NEW h \in 0 .. n, NEW k \in 0 .. h
      PROVE  ToSet(chain'[k].trs) \subseteq saved'[h].transactions
  <2>1. CASE h \in 0 .. Height
    <3>1. k \in 0 .. Height
      BY <1>1, <2>1
    <3> QED BY <1>4, <2>1, <3>1 DEF ChainRecorded
  <2>2. CASE h = n /\ k \in 0 .. Height
    BY <1>3, <1>4, <1>6, <2>2
  <2>3. CASE h = n /\ k = n
    BY <1>3, <2>3
  <2> QED BY <1>1, <1>2, <2>1, <2>2, <2>3
<1>8. ASSUME NEW h \in 0 .. n, NEW k \in 0 .. n, h < k
      PROVE  ToSet(chain'[h].trs) \cap ToSet(chain'[k].trs) = {}
  <2>1. h \in 0 .. Height
    BY <1>1, <1>8
  <2>2. CASE k \in 0 .. Height
    BY <1>4, <1>8, <2>1, <2>2 DEF ChainRecorded
  <2>3. CASE k = n
    BY <1>3, <1>4, <1>6, <2>1, <2>3
  <2> QED BY <1>2, <2>2, <2>3
<1> QED BY <1>3, <1>5, <1>7, <1>8 DEF ChainRecorded

LEMMA CutRecorded ==
  ASSUME ChainTyped, ChainRecorded, NEW common \in Nat, Cut(common)
  PROVE  ChainRecorded'
<1>1. /\ Height' = common
      /\ \A h \in 0 .. common : h \in 0 .. Height /\ chain'[h] = chain[h] /\ saved'[h] = saved[h]
  BY DEF Cut
<1>2. \A h \in 0 .. common : \A k \in 0 .. h : k \in 0 .. common
  OBVIOUS
<1>3. /\ \A h \in 0 .. common : IsTables(saved'[h])
      /\ \A h \in 0 .. common : \A k \in 0 .. h : ToSet(chain'[k].trs) \subseteq saved'[h].transactions
      /\ \A h, k \in 0 .. common : h < k => ToSet(chain'[h].trs) \cap ToSet(chain'[k].trs) = {}
  BY <1>1, <1>2 DEF ChainRecorded
<1> QED BY <1>1, <1>3 DEF ChainRecorded

LEMMA ExecutedApplies ==
  ASSUME NEW s, NEW blocks, NEW height, NEW block, Executed(s, blocks, height, block) # Refused
  PROVE  Applies(s, height, block)
BY DEF Executed, Applies

LEMMA GrownReplayed ==
  ASSUME ChainTyped, ChainReplayed, NEW block, NEW tables, Grown(block, tables),
         tables = Executed(SessionOver(saved[Height]), chain, Height + 1, block),
         Applies(SessionOver(saved[Height]), Height + 1, block)
  PROVE  ChainReplayed'
<1>1. Height \in Nat /\ Height' = Height + 1
  BY DEF ChainTyped, Grown
<1>2. ASSUME NEW h \in 1 .. Height + 1
      PROVE  /\ saved'[h] = Executed(SessionOver(saved'[h - 1]), chain', h, chain'[h])
             /\ Applies(SessionOver(saved'[h - 1]), h, chain'[h])
  <2>1. h \in Nat \ {0} /\ \A k \in 1 .. h - 1 : chain[k] = chain'[k]
    BY <1>1 DEF Grown
  <2>2. h - 1 \in 0 .. Height /\ saved'[h - 1] = saved[h - 1]
    BY <1>1 DEF Grown
  <2>3. Executed(SessionOver(saved[h - 1]), chain, h, chain'[h])
          = Executed(SessionOver(saved[h - 1]), chain', h, chain'[h])
    BY <2>1, ExecutedFrame
  <2>4. /\ saved'[h] = Executed(SessionOver(saved[h - 1]), chain, h, chain'[h])
        /\ Applies(SessionOver(saved[h - 1]), h, chain'[h])
    <3>1. CASE h \in 1 .. Height
      BY <3>1 DEF Grown, ChainReplayed
    <3>2. CASE h = Height + 1
      <4>1. h - 1 = Height /\ saved'[h] = tables /\ chain'[h] = block
        BY <1>1, <3>2 DEF Grown
      <4> QED BY <3>2, <4>1
    <3> QED BY <1>1, <3>1, <3>2
  <2> QED BY <2>2, <2>3, <2>4
<1> QED BY <1>1, <1>2 DEF ChainReplayed

LEMMA CutReplayed ==
  ASSUME ChainTyped, ChainReplayed, NEW common \in Nat, Cut(common)
  PROVE  ChainReplayed'
<1>1. Height \in Nat /\ Height' = common
  BY DEF ChainTyped, Cut
<1>2. ASSUME NEW h \in 1 .. common
      PROVE  /\ saved'[h] = Executed(SessionOver(saved'[h - 1]), chain', h, chain'[h])
             /\ Applies(SessionOver(saved'[h - 1]), h, chain'[h])
  <2>1. h \in Nat \ {0} /\ \A k \in 1 .. h - 1 : chain[k] = chain'[k]
    BY <1>1 DEF Cut
  <2>2. h \in 1 .. Height /\ chain'[h] = chain[h] /\ saved'[h] = saved[h] /\ saved'[h - 1] = saved[h - 1]
    BY <1>1 DEF Cut
  <2>3. Executed(SessionOver(saved[h - 1]), chain, h, chain[h])
          = Executed(SessionOver(saved[h - 1]), chain', h, chain[h])
    BY <2>1, ExecutedFrame
  <2> QED BY <2>2, <2>3 DEF ChainReplayed
<1> QED BY <1>1, <1>2 DEF ChainReplayed

-----------------------------------------------------------------------------
(* The pool that a step leaves *)

LEMMA OverTables ==
  ASSUME NEW tables
  PROVE  /\ Formed(SessionOver(tables)) /\ LocksOK(SessionOver(tables).locks)
         /\ SessionOver(tables).table = tables /\ SessionOver(tables).view = tables
BY DEF SessionOver, Formed, LocksOK

LEMMA PoolParts ==
  ASSUME NEW tables, PoolTyped(PoolState, tables)
  PROVE  /\ Formed(session) /\ session.table = tables /\ LocksOK(session.locks)
         /\ pool \in Seq(Senders) /\ IsInjective(pool)
         /\ FailedOK(failedTrs)
BY DEF PoolTyped, PoolState

LEMMA PoolOfParts ==
  ASSUME NEW s, NEW ids, NEW failed, NEW tables,
         Formed(s), s.table = tables, LocksOK(s.locks),
         ids \in Seq(Senders), IsInjective(ids), FailedOK(failed)
  PROVE  PoolTyped([session |-> s, pool |-> ids, failed |-> failed, ok |-> TRUE], tables)
BY DEF PoolTyped

LEMMA SetPool ==
  ASSUME NEW ps, NEW tables, NEW h, SetPoolState(ps), PoolTyped(ps, tables)
  PROVE  /\ PoolTyped(PoolState', tables)
         /\ PoolClean(ps, tables) => PoolClean(PoolState', tables)
         /\ PoolApplied(ps, tables, h) => PoolApplied(PoolState', tables, h)
<1>1. PoolState' = [session |-> ps.session, pool |-> ps.pool, failed |-> ps.failed, ok |-> TRUE]
  BY DEF PoolState, SetPoolState
<1>2. PoolTyped(PoolState', tables)
  BY <1>1 DEF PoolTyped
<1>3. PoolState'.session = ps.session /\ PoolState'.pool = ps.pool
  BY <1>1
<1> QED BY <1>2, <1>3 DEF PoolClean, PoolApplied

LEMMA EmptyPool ==
  ASSUME NEW tables, NEW failed, FailedOK(failed), NEW ps,
         ps = [session |-> SessionOver(tables), pool |-> <<>>, failed |-> failed, ok |-> TRUE]
  PROVE  /\ PoolTyped(ps, tables)
         /\ IsTables(tables) => PoolClean(ps, tables)
         /\ \A h : IsTables(tables) /\ (h = 0 => HaveAccounts(tables)) => PoolApplied(ps, tables, h)
<1>1. <<>> \in Seq(Senders) /\ IsInjective(<<>>) /\ ToSet(<<>>) = {}
  BY DEF IsInjective, ToSet
<1>2. PoolTyped(ps, tables)
  BY <1>1, OverTables, PoolOfParts
<1>3. IsTables(tables) => PoolClean(ps, tables)
  BY <1>1, OverTables DEF PoolClean
<1>4. ASSUME NEW h, IsTables(tables), h = 0 => HaveAccounts(tables)
      PROVE  PoolApplied(ps, tables, h)
  BY <1>4, OverTables, ApplyBlockEmpty DEF PoolApplied
<1> QED BY <1>2, <1>3, <1>4

LEMMA DroppedPool ==
  ASSUME NEW tables, session' = SessionOver(tables), pool' = <<>>, FailedOK(failedTrs')
  PROVE  /\ PoolTyped(PoolState', tables)
         /\ IsTables(tables) => PoolClean(PoolState', tables)
         /\ \A h : IsTables(tables) /\ (h = 0 => HaveAccounts(tables))
                     => PoolApplied(PoolState', tables, h)
<1>1. PoolState' = [session |-> SessionOver(tables), pool |-> <<>>, failed |-> failedTrs', ok |-> TRUE]
  BY DEF PoolState
<1> QED BY <1>1, EmptyPool

LEMMA OthersBlock ==
  ASSUME NEW block \in OtherBlocks
  PROVE  block.height = Height + 1 /\ block.trs \in Seq(Senders) /\ block.trs \in Seq(TrsIds)
<1>1. PICK trs \in BoundedSeq(Senders, MaxBlockTrs) : block.height = Height + 1 /\ block.trs = trs
  BY DEF OtherBlocks, Block
<1>2. trs \in Seq(Senders)
  BY <1>1, ExecutionAssumption, BoundedSeqIsSeq
<1> QED BY <1>1, <1>2, ExecutionAssumption

(* A block of another node: the pool is filled again over what it left *)
LEMMA ReceivedBlock ==
  ASSUME ChainTyped, NEW block, OnReceiveBlock(block)
  PROVE  /\ LET tables == Executed(RolledBack, chain, Height + 1, block)
            IN  \/ tables # Refused /\ Grown(block, tables)
                \/ tables = Refused /\ UNCHANGED <<chain, saved>>
         /\ Height' \in Nat
         /\ SetPoolState(ProcessAll([session |-> SessionOver(saved'[Height']), pool |-> <<>>,
                                     failed |-> failedTrs, ok |-> TRUE],
                                    FALSE, Left(pool, block.trs), Height'))
<1> DEFINE tables == Executed(RolledBack, chain, Height + 1, block)
           Filled(base, last) ==
             SetPoolState(ProcessAll([session |-> base, pool |-> <<>>, failed |-> failedTrs, ok |-> TRUE],
                                     FALSE, Left(pool, block.trs), last))
<1>1. /\ IF tables # Refused THEN Commit(block, tables) ELSE UNCHANGED <<chain, saved>>
      /\ Filled(IF tables # Refused THEN SessionOver(tables) ELSE RolledBack,
                IF tables # Refused THEN Height + 1 ELSE Height)
  BY DEF OnReceiveBlock
<1>2. Height \in Nat
  BY DEF ChainTyped
<1> HIDE DEF tables, Filled
<1>3. CASE tables # Refused
  <2>1. Grown(block, tables) /\ Filled(SessionOver(tables), Height + 1)
    BY <1>1, <1>3, CommitGrows
  <2>2. Height' = Height + 1 /\ saved'[Height'] = tables
    BY <2>1 DEF Grown
  <2>3. Filled(SessionOver(saved'[Height']), Height')
    BY <2>1, <2>2
  <2>4. Height' \in Nat
    BY <1>2, <2>2
  <2> QED BY <1>3, <2>1, <2>3, <2>4 DEF tables, Filled
<1>4. CASE tables = Refused
  <2>1. UNCHANGED <<chain, saved>> /\ Filled(RolledBack, Height)
    BY <1>1, <1>4
  <2>2. Height' = Height /\ saved'[Height'] = saved[Height]
    BY <2>1 DEF Height
  <2> QED BY <1>2, <1>4, <2>1, <2>2 DEF tables, Filled, RolledBack
<1> QED BY <1>3, <1>4

LEMMA ReceivedPool ==
  ASSUME TypeInv, NEW block, OnReceiveBlock(block), NEW tables, tables = saved'[Height']
  PROVE  /\ PoolTyped(PoolState', tables)
         /\ IsTables(tables) => PoolClean(PoolState', tables)
         /\ IsTables(tables) /\ (Height' = 0 => HaveAccounts(tables))
              => PoolApplied(PoolState', tables, Height')
<1> DEFINE empty == [session |-> SessionOver(tables), pool |-> <<>>, failed |-> failedTrs, ok |-> TRUE]
           filled == ProcessAll(empty, FALSE, Left(pool, block.trs), Height')
<1>1. pool \in Seq(Senders) /\ FailedOK(failedTrs) /\ ChainTyped
  BY PoolParts DEF TypeInv
<1>2. Height' \in Nat /\ SetPoolState(filled)
  BY <1>1, ReceivedBlock
<1>3. Left(pool, block.trs) \in Seq(Senders)
  BY <1>1, LeftIsSeq
<1>4. /\ PoolTyped(empty, tables)
      /\ IsTables(tables) => PoolClean(empty, tables)
      /\ IsTables(tables) /\ (Height' = 0 => HaveAccounts(tables)) => PoolApplied(empty, tables, Height')
  BY <1>1, EmptyPool
<1> HIDE DEF empty
<1>5. /\ PoolTyped(filled, tables)
      /\ PoolClean(empty, tables) => PoolClean(filled, tables)
      /\ PoolApplied(empty, tables, Height') => PoolApplied(filled, tables, Height')
  BY <1>2, <1>3, <1>4, ProcessAllOK
<1> HIDE DEF filled
<1> QED BY <1>2, <1>4, <1>5, SetPool

-----------------------------------------------------------------------------
(* The types *)

LEMMA InitTyped ==
  ASSUME Init
  PROVE  TypeInv /\ Height = 0
<1>1. {0} = 0 .. 0
  OBVIOUS
<1>2. DOMAIN chain = 0 .. 0 /\ DOMAIN saved = 0 .. 0
  BY <1>1 DEF Init
<1>3. Height = 0
  BY <1>2, MaxUpTo DEF Height
<1>4. chain[0] = GenesisBlock /\ saved[0] = GenesisTables
  BY DEF Init
<1>5. GenesisBlock.height = 0 /\ GenesisBlock.trs \in Seq(TrsIds)
  BY ExecutionAssumption DEF GenesisBlock, Block
<1>6. ChainTyped
  BY <1>2, <1>3, <1>4, <1>5 DEF ChainTyped
<1>7. FailedOK(<<>>)
  BY NothingFailed
<1>8. PoolState = [session |-> SessionOver(GenesisTables), pool |-> <<>>, failed |-> <<>>, ok |-> TRUE]
  BY DEF PoolState, Init
<1>9. PoolTyped(PoolState, GenesisTables)
  BY <1>7, <1>8, EmptyPool
<1> QED BY <1>3, <1>4, <1>6, <1>9 DEF TypeInv, Init, IsCollectingVotes

LEMMA CommitLocalTyped ==
  ASSUME TypeInv, NEW block, CommitLocal(block), UNCHANGED failedTrs,
         block.height = Height + 1, block.trs \in Seq(Senders), UNCHANGED syncing
  PROVE  TypeInv'
<1> DEFINE tables == TablesAfter(session.view, chain, Height + 1, block)
<1>1. /\ Commit(block, tables)
      /\ session' = SessionOver(tables) /\ pool' = <<>> /\ pendingBlock' = Null
  BY DEF CommitLocal
<1> HIDE DEF tables
<1>2. ChainTyped /\ FailedOK(failedTrs') /\ block.trs \in Seq(TrsIds)
  BY PoolParts, ExecutionAssumption DEF TypeInv
<1>3. Grown(block, tables)
  BY <1>1, <1>2, CommitGrows
<1>4. ChainTyped' /\ saved'[Height'] = tables
  BY <1>2, <1>3, GrownTyped DEF Grown
<1>5. PoolTyped(PoolState', tables)
  BY <1>1, <1>2, DroppedPool
<1> QED BY <1>1, <1>4, <1>5 DEF TypeInv, IsCollectingVotes

LEMMA ReceiveTransactionTyped ==
  ASSUME TypeInv, NEW id \in Senders, ReceiveTransaction(id)
  PROVE  TypeInv'
<1> DEFINE next == ProcessUnconfirmed(PoolState, IsCollectingVotes, id, Height)
<1>1. SetPoolState(next) /\ UNCHANGED <<chain, saved, pendingBlock, syncing>>
  BY DEF ReceiveTransaction
<1>2. PoolTyped(next, saved[Height])
  BY ProcessTyped DEF TypeInv
<1> HIDE DEF next
<1>3. PoolTyped(PoolState', saved[Height])
  BY <1>1, <1>2, SetPool
<1> QED BY <1>1, <1>3 DEF TypeInv, ChainTyped, Height, IsCollectingVotes

LEMMA OnReceiveBlockTyped ==
  ASSUME TypeInv, NEW block \in OtherBlocks, OnReceiveBlock(block)
  PROVE  TypeInv'
<1> DEFINE tables == Executed(RolledBack, chain, Height + 1, block)
<1>1. ChainTyped
  BY DEF TypeInv
<1>2. Grown(block, tables) \/ UNCHANGED <<chain, saved>>
  BY <1>1, ReceivedBlock
<1> HIDE DEF tables
<1>3. ChainTyped'
  BY <1>1, <1>2, OthersBlock, GrownTyped DEF ChainTyped, Height
<1>4. PoolTyped(PoolState', saved'[Height'])
  BY ReceivedPool
<1>5. pendingBlock' = Null /\ syncing' = syncing
  BY DEF OnReceiveBlock
<1> QED BY <1>3, <1>4, <1>5 DEF TypeInv, IsCollectingVotes

LEMMA LoadBlockTyped ==
  ASSUME TypeInv, NEW block \in OtherBlocks, LoadBlock(block)
  PROVE  TypeInv'
<1> DEFINE tables == Executed(session, chain, Height + 1, block)
<1>1. /\ IF tables # Refused
         THEN Commit(block, tables) /\ session' = SessionOver(tables)
         ELSE /\ session' = IF BlockPasses(session, block) THEN RolledBack ELSE session
              /\ UNCHANGED <<chain, saved>>
      /\ pendingBlock' = Null /\ UNCHANGED <<pool, failedTrs, syncing>>
  BY DEF LoadBlock
<1> HIDE DEF tables
<1>2. /\ ChainTyped
      /\ Formed(session) /\ session.table = saved[Height] /\ LocksOK(session.locks)
      /\ pool \in Seq(Senders) /\ IsInjective(pool) /\ FailedOK(failedTrs)
  BY PoolParts DEF TypeInv
<1>3. ChainTyped' /\ Formed(session') /\ session'.table = saved'[Height'] /\ LocksOK(session'.locks)
  <2>1. CASE tables # Refused
    <3>1. Grown(block, tables) /\ session' = SessionOver(tables)
      BY <1>1, <1>2, <2>1, CommitGrows
    <3>2. ChainTyped' /\ saved'[Height'] = tables
      BY <1>2, <3>1, OthersBlock, GrownTyped DEF Grown
    <3> QED BY <3>1, <3>2, OverTables
  <2>2. CASE tables = Refused
    <3>1. UNCHANGED <<chain, saved>> /\ session' \in {SessionOver(saved[Height]), session}
      BY <1>1, <2>2 DEF RolledBack
    <3>2. ChainTyped' /\ saved'[Height'] = saved[Height]
      BY <1>2, <3>1 DEF ChainTyped, Height
    <3> QED BY <1>2, <3>1, <3>2, OverTables
  <2> QED BY <2>1, <2>2
<1>4. PoolTyped([session |-> session', pool |-> pool', failed |-> failedTrs', ok |-> TRUE], saved'[Height'])
  BY <1>1, <1>2, <1>3, PoolOfParts
<1> QED BY <1>1, <1>3, <1>4 DEF TypeInv, IsCollectingVotes, PoolState

LEMMA StartSyncTyped ==
  ASSUME TypeInv, NEW common \in DOMAIN chain, StartSync(common)
  PROVE  TypeInv'
<1>1. ChainTyped /\ FailedOK(failedTrs)
  BY PoolParts DEF TypeInv
<1>2. common \in Nat /\ Cut(common)
  BY <1>1, StartSyncCuts
<1>3. /\ session' = SessionOver(saved[common]) /\ pool' = <<>> /\ syncing' = TRUE
      /\ UNCHANGED <<failedTrs, pendingBlock>>
  BY DEF StartSync
<1>4. ChainTyped' /\ saved'[Height'] = saved[common]
  BY <1>1, <1>2, CutTyped DEF Cut
<1>5. PoolTyped(PoolState', saved[common])
  BY <1>1, <1>3, DroppedPool
<1> QED BY <1>3, <1>4, <1>5 DEF TypeInv, IsCollectingVotes

LEMMA StepTyped ==
  ASSUME TypeInv, [Next]_vars
  PROVE  TypeInv'
<1>1. ChainTyped /\ PoolTyped(PoolState, saved[Height]) /\ syncing \in BOOLEAN
  BY DEF TypeInv
<1>2. /\ Formed(session) /\ session.table = saved[Height] /\ LocksOK(session.locks)
      /\ pool \in Seq(Senders) /\ IsInjective(pool) /\ FailedOK(failedTrs)
  BY <1>1, PoolParts
<1>3. ASSUME NEW id \in Senders, ReceiveTransaction(id) PROVE TypeInv'
  BY <1>3, ReceiveTransactionTyped
<1>4. ASSUME NEW d \in Delegates, Forge(d) PROVE TypeInv'
  <2> DEFINE block == Block(Height + 1, d, pool)
  <2>1. CommitLocal(block) /\ UNCHANGED <<failedTrs, syncing>>
    BY <1>4 DEF Forge
  <2>2. block.height = Height + 1 /\ block.trs \in Seq(Senders)
    BY <1>2 DEF Block
  <2> HIDE DEF block
  <2> QED BY <2>1, <2>2, CommitLocalTyped
<1>5. ASSUME NEW d \in Delegates, Propose(d) PROVE TypeInv'
  <2>1. UNCHANGED <<chain, saved, session, pool, failedTrs, syncing>> /\ pendingBlock'.trs \in Seq(Senders)
    BY <1>2, <1>5 DEF Propose, Block
  <2>2. ChainTyped' /\ PoolTyped(PoolState', saved'[Height'])
    BY <1>1, <2>1 DEF ChainTyped, Height, PoolState
  <2> QED BY <1>1, <2>1, <2>2 DEF TypeInv
<1>6. CASE OnReceiveVotes
  <2>1. IsCollectingVotes /\ UNCHANGED <<failedTrs, syncing>> /\ pendingBlock.trs \in Seq(Senders)
    BY <1>6 DEF OnReceiveVotes, TypeInv
  <2>2. CASE pendingBlock.height = Height + 1
    BY <1>6, <2>1, <2>2, CommitLocalTyped DEF OnReceiveVotes
  <2>3. CASE pendingBlock.height # Height + 1
    <3>1. pool' = <<>> /\ pendingBlock' = Null /\ UNCHANGED <<chain, saved, session>>
      BY <1>6, <2>3 DEF OnReceiveVotes
    <3>2. <<>> \in Seq(Senders) /\ IsInjective(<<>>)
      BY DEF IsInjective
    <3>3. PoolTyped([session |-> session, pool |-> <<>>, failed |-> failedTrs, ok |-> TRUE], saved[Height])
      BY <1>2, <3>2, PoolOfParts
    <3>4. PoolTyped(PoolState', saved'[Height'])
      BY <2>1, <3>1, <3>3 DEF PoolState, Height
    <3> QED BY <1>1, <2>1, <3>1, <3>4 DEF TypeInv, ChainTyped, Height, IsCollectingVotes
  <2> QED BY <2>2, <2>3
<1>7. ASSUME NEW block \in OtherBlocks, OnReceiveBlock(block) PROVE TypeInv'
  BY <1>7, OnReceiveBlockTyped
<1>8. ASSUME NEW block \in OtherBlocks, LoadBlock(block) PROVE TypeInv'
  BY <1>8, LoadBlockTyped
<1>9. ASSUME NEW common \in DOMAIN chain, StartSync(common) PROVE TypeInv'
  BY <1>9, StartSyncTyped
<1>10. ASSUME StartSyncFromGenesis \/ EndSync \/ UNCHANGED vars PROVE TypeInv'
  <2>1. UNCHANGED <<chain, saved, session, pool, failedTrs, pendingBlock>> /\ syncing' \in BOOLEAN
    BY <1>1, <1>10 DEF StartSyncFromGenesis, EndSync, vars
  <2> QED BY <2>1 DEF TypeInv, ChainTyped, Height, PoolState, IsCollectingVotes
<1>11. CASE Restart
  <2>1. /\ session' = SessionOver(saved[Height]) /\ pool' = <<>> /\ failedTrs' = <<>>
        /\ pendingBlock' = Null /\ syncing' = FALSE /\ UNCHANGED <<chain, saved>>
    BY <1>11 DEF Restart, RolledBack
  <2>2. PoolTyped(PoolState', saved[Height])
    BY <2>1, NothingFailed, DroppedPool
  <2> QED BY <1>1, <2>1, <2>2 DEF TypeInv, ChainTyped, Height, IsCollectingVotes
<1> QED BY <1>3, <1>4, <1>5, <1>6, <1>7, <1>8, <1>9, <1>10, <1>11 DEF Next

LEMMA TypesAsTold ==
  ASSUME TypeInv
  PROVE  TypeOK
<1>1. /\ ChainTyped /\ syncing \in BOOLEAN
      /\ session.table = saved[Height] /\ LocksOK(session.locks)
      /\ pool \in Seq(Senders) /\ IsInjective(pool) /\ FailedOK(failedTrs)
  BY PoolParts DEF TypeInv
<1>2. failedTrs \in BoundedSeq(TrsIds, FailedLimit) /\ IsInjective(failedTrs)
  BY <1>1, ExecutionAssumption, BoundedSeqIsSeq DEF FailedOK
<1>3. \A trs \in Seq(TrsIds) : ToSet(trs) \subseteq TrsIds
  BY DEF ToSet
<1>4. pendingBlock # Null => ToSet(pendingBlock.trs) \subseteq TrsIds
  BY <1>3, ExecutionAssumption DEF TypeInv, IsCollectingVotes
<1>5. \A h \in DOMAIN chain : chain[h].height = h /\ ToSet(chain[h].trs) \subseteq TrsIds
  BY <1>1, <1>3 DEF ChainTyped
<1>6. pool \in Seq(TrsIds)
  BY <1>1, ExecutionAssumption
<1> QED BY <1>1, <1>2, <1>4, <1>5, <1>6 DEF TypeOK, ChainTyped, LocksOK

(***************************************************************************)
(* Whatever the node forges, receives, loads or takes back, its tables and *)
(* blocks go up to the same height, its session lies over the last ones,   *)
(* and no transaction is twice in its pool or in its bounded cache.        *)
(***************************************************************************)
THEOREM ExecutionTypeCorrect == Spec => []TypeOK
<1>1. Init => TypeInv
  BY InitTyped
<1>2. TypeInv /\ [Next]_vars => TypeInv'
  BY StepTyped
<1>3. TypeInv => TypeOK
  BY TypesAsTold
<1> QED BY <1>1, <1>2, <1>3, PTL DEF Spec

-----------------------------------------------------------------------------
(* Transactions are executed once *)

LEMMA GenesisRecorded ==
  ASSUME GenesisValid
  PROVE  IsTables(GenesisTables) /\ ToSet(GenesisTrs) \subseteq GenesisTables.transactions
<1>1. Formed(SessionOver(NoEntities)) /\ SessionOver(NoEntities).view = NoEntities
  BY OverTables
<1>2. IsTables(NoEntities)
  BY DEF NoEntities, IsTables, Fields
<1>3. GenesisBlock.trs = GenesisTrs /\ GenesisTrs \in Seq(TrsIds)
  BY ExecutionAssumption DEF GenesisBlock, Block
<1> QED BY <1>1, <1>2, <1>3, ExecutedRecords DEF GenesisValid, GenesisTables

LEMMA InitOnce ==
  ASSUME GenesisValid, Init
  PROVE  OnceInv
<1>1. Height = 0 /\ saved[0] = GenesisTables /\ chain[0].trs = GenesisTrs
  BY InitTyped DEF Init, GenesisBlock, Block
<1>2. \A h \in 0 .. 0 : h = 0
  OBVIOUS
<1>3. ChainRecorded
  BY <1>1, <1>2, GenesisRecorded DEF ChainRecorded
<1>4. <<>> \in Seq(Senders) /\ ToSet(<<>>) = {}
  BY DEF ToSet
<1>5. PoolState.session = SessionOver(GenesisTables) /\ PoolState.pool = <<>>
  BY DEF PoolState, Init
<1>6. PoolClean(PoolState, GenesisTables)
  BY <1>4, <1>5, GenesisRecorded, OverTables DEF PoolClean
<1> QED BY <1>1, <1>3, <1>6 DEF OnceInv, Init, IsCollectingVotes

(* The tables of a block of this node, which contains its pool *)
LEMMA CommitLocalOnce ==
  ASSUME TypeInv, OnceInv, NEW block, CommitLocal(block), block.trs = pool, UNCHANGED failedTrs
  PROVE  OnceInv'
<1> DEFINE tables == TablesAfter(session.view, chain, Height + 1, block)
<1>1. /\ Commit(block, tables)
      /\ session' = SessionOver(tables) /\ pool' = <<>> /\ pendingBlock' = Null
  BY DEF CommitLocal
<1>2. ChainTyped /\ FailedOK(failedTrs')
  BY PoolParts DEF TypeInv
<1>3. /\ IsTables(session.view) /\ session.view.transactions = saved[Height].transactions
      /\ ToSet(pool) \cap saved[Height].transactions = {}
  BY DEF OnceInv, PoolClean, PoolState
<1>4. IsTables(tables) /\ tables.transactions = saved[Height].transactions \cup ToSet(block.trs)
  BY <1>3, TablesAfterRecords
<1> HIDE DEF tables
<1>5. Grown(block, tables)
  BY <1>1, <1>2, CommitGrows
<1>6. ChainRecorded'
  BY <1>2, <1>3, <1>4, <1>5, GrownRecorded DEF OnceInv
<1>7. PoolClean(PoolState', tables) /\ saved'[Height'] = tables
  BY <1>1, <1>2, <1>4, <1>5, DroppedPool DEF Grown
<1> QED BY <1>1, <1>6, <1>7 DEF OnceInv, IsCollectingVotes

LEMMA RecordedFrame ==
  ASSUME ChainRecorded, UNCHANGED <<chain, saved>>
  PROVE  ChainRecorded' /\ saved'[Height'] = saved[Height]
BY DEF ChainRecorded, Height

LEMMA LastRecorded ==
  ASSUME ChainTyped, ChainRecorded
  PROVE  IsTables(saved[Height])
<1>1. Height \in 0 .. Height
  BY DEF ChainTyped
<1> QED BY <1>1 DEF ChainRecorded

LEMMA ReceiveTransactionOnce ==
  ASSUME TypeInv, OnceInv, NEW id \in Senders, ReceiveTransaction(id)
  PROVE  OnceInv'
<1> DEFINE next == ProcessUnconfirmed(PoolState, IsCollectingVotes, id, Height)
<1>1. SetPoolState(next) /\ UNCHANGED <<chain, saved, pendingBlock, syncing>> /\ ~ syncing
  BY DEF ReceiveTransaction
<1>2. PoolTyped(next, saved[Height])
  BY ProcessTyped DEF TypeInv
<1>3. PoolClean(next, saved[Height])
  BY ProcessClean DEF TypeInv, OnceInv
<1>4. IsCollectingVotes => next.pool = pool
  BY DEF ProcessUnconfirmed, Accepted, PoolState
<1> HIDE DEF next
<1>5. PoolClean(PoolState', saved[Height])
  BY <1>1, <1>2, <1>3, SetPool
<1>6. ChainRecorded' /\ saved'[Height'] = saved[Height] /\ Height' = Height
  BY <1>1, RecordedFrame DEF OnceInv, Height
<1>7. IsCollectingVotes' =>
        ~ syncing' /\ pendingBlock'.height = Height' + 1 /\ pendingBlock'.trs = pool'
  BY <1>1, <1>4, <1>6 DEF OnceInv, IsCollectingVotes, SetPoolState
<1> QED BY <1>1, <1>5, <1>6, <1>7 DEF OnceInv

LEMMA OnReceiveBlockOnce ==
  ASSUME TypeInv, OnceInv, NEW block \in OtherBlocks, OnReceiveBlock(block)
  PROVE  OnceInv'
<1> DEFINE tables == Executed(RolledBack, chain, Height + 1, block)
<1>1. ChainTyped /\ ChainRecorded
  BY DEF TypeInv, OnceInv
<1>2. \/ tables # Refused /\ Grown(block, tables)
      \/ tables = Refused /\ UNCHANGED <<chain, saved>>
  BY <1>1, ReceivedBlock
<1>3. ChainRecorded' /\ IsTables(saved'[Height'])
  <2>1. CASE tables = Refused /\ UNCHANGED <<chain, saved>>
    BY <1>1, <2>1, RecordedFrame, LastRecorded
  <2>2. CASE tables # Refused /\ Grown(block, tables)
    <3>1. /\ Formed(RolledBack) /\ RolledBack.view = saved[Height] /\ RolledBack.table = saved[Height]
          /\ IsTables(saved[Height])
      BY <1>1, OverTables, LastRecorded DEF RolledBack
    <3>2. block.trs \in Seq(Senders)
      BY OthersBlock
    <3>3. /\ BlockPasses(RolledBack, block)
          /\ IsTables(tables)
          /\ tables.transactions = saved[Height].transactions \cup ToSet(block.trs)
      BY <2>2, <3>1, <3>2, ExecutedRecords
    <3> HIDE DEF tables
    <3>4. ToSet(block.trs) \cap saved[Height].transactions = {}
      BY <3>1, <3>3 DEF BlockPasses
    <3>5. ChainRecorded'
      BY <1>1, <2>2, <3>3, <3>4, GrownRecorded
    <3> QED BY <2>2, <3>3, <3>5 DEF Grown
  <2> QED BY <1>2, <2>1, <2>2
<1>4. PoolClean(PoolState', saved'[Height'])
  BY <1>3, ReceivedPool
<1>5. pendingBlock' = Null /\ syncing' = FALSE
  BY DEF OnReceiveBlock, TypeInv
<1> QED BY <1>3, <1>4, <1>5 DEF OnceInv, IsCollectingVotes

(* While a synchronisation loads blocks, nothing but them is pending *)
LEMMA LoadBlockOnce ==
  ASSUME TypeInv, OnceInv, NEW block \in OtherBlocks, LoadBlock(block)
  PROVE  OnceInv'
<1> DEFINE tables == Executed(session, chain, Height + 1, block)
<1>1. /\ IF tables # Refused
         THEN Commit(block, tables) /\ session' = SessionOver(tables)
         ELSE /\ session' = IF BlockPasses(session, block) THEN RolledBack ELSE session
              /\ UNCHANGED <<chain, saved>>
      /\ syncing /\ pendingBlock' = Null /\ UNCHANGED <<pool, failedTrs, syncing>>
  BY DEF LoadBlock
<1>2. /\ ChainTyped /\ Formed(session) /\ session.table = saved[Height] /\ FailedOK(failedTrs)
      /\ PoolTyped(PoolState, saved[Height])
  BY PoolParts DEF TypeInv
<1>3. /\ ChainRecorded /\ pool' = <<>> /\ PoolClean(PoolState, saved[Height])
      /\ IsTables(session.view) /\ session.view.transactions = saved[Height].transactions
  BY <1>1 DEF OnceInv, PoolClean, PoolState
<1>4. ChainRecorded' /\ PoolClean(PoolState', saved'[Height'])
  <2>1. CASE tables # Refused
    <3>1. block.trs \in Seq(Senders)
      BY OthersBlock
    <3>2. /\ BlockPasses(session, block)
          /\ IsTables(tables)
          /\ tables.transactions = saved[Height].transactions \cup ToSet(block.trs)
      BY <1>2, <1>3, <2>1, <3>1, ExecutedRecords
    <3> HIDE DEF tables
    <3>3. ToSet(block.trs) \cap saved[Height].transactions = {}
      BY <1>2, <3>2 DEF BlockPasses
    <3>4. Grown(block, tables) /\ session' = SessionOver(tables)
      BY <1>1, <1>2, <2>1, CommitGrows
    <3>5. ChainRecorded'
      BY <1>2, <1>3, <3>2, <3>3, <3>4, GrownRecorded
    <3>6. PoolClean(PoolState', tables)
      BY <1>1, <1>2, <1>3, <3>2, <3>4, DroppedPool
    <3> QED BY <3>4, <3>5, <3>6 DEF Grown
  <2>2. CASE tables = Refused
    <3>1. UNCHANGED <<chain, saved>> /\ session' \in {SessionOver(saved[Height]), session}
      BY <1>1, <2>2 DEF RolledBack
    <3> HIDE DEF tables
    <3>2. ChainRecorded' /\ saved'[Height'] = saved[Height] /\ IsTables(saved[Height])
      BY <1>2, <1>3, <3>1, RecordedFrame, LastRecorded
    <3>3. CASE session' = session
      BY <1>1, <1>3, <3>2, <3>3 DEF PoolState
    <3>4. CASE session' = SessionOver(saved[Height])
      <4>1. PoolClean(PoolState', saved[Height])
        BY <1>1, <1>2, <1>3, <3>2, <3>4, DroppedPool
      <4> QED BY <3>2, <4>1
    <3> QED BY <3>1, <3>3, <3>4
  <2> QED BY <2>1, <2>2
<1> QED BY <1>1, <1>3, <1>4 DEF OnceInv, IsCollectingVotes

LEMMA StepOnce ==
  ASSUME NeverBusy, TypeInv, OnceInv, [Next]_vars
  PROVE  OnceInv'
<1>1. /\ ChainTyped /\ ChainRecorded /\ PoolClean(PoolState, saved[Height]) /\ IsTables(saved[Height])
      /\ FailedOK(failedTrs)
  BY PoolParts, LastRecorded DEF TypeInv, OnceInv
<1>2. ASSUME NEW id \in Senders, ReceiveTransaction(id) PROVE OnceInv'
  BY <1>2, ReceiveTransactionOnce
<1>3. ASSUME NEW d \in Delegates, Forge(d) PROVE OnceInv'
  <2>1. /\ CommitLocal(Block(Height + 1, d, pool)) /\ UNCHANGED failedTrs
        /\ Block(Height + 1, d, pool).trs = pool
    BY <1>3 DEF Forge, Block
  <2> QED BY <2>1, CommitLocalOnce
<1>4. ASSUME NEW d \in Delegates, Propose(d) PROVE OnceInv'
  <2>1. /\ ~ syncing /\ UNCHANGED <<chain, saved, session, pool, failedTrs, syncing>>
        /\ pendingBlock'.height = Height + 1 /\ pendingBlock'.trs = pool
    BY <1>4 DEF Propose, Block
  <2>2. Height' = Height /\ ChainRecorded' /\ PoolClean(PoolState', saved'[Height'])
    BY <1>1, <2>1, RecordedFrame DEF Height, PoolState
  <2> QED BY <2>1, <2>2 DEF OnceInv
<1>5. CASE OnReceiveVotes
  <2>1. CommitLocal(pendingBlock) /\ UNCHANGED failedTrs /\ pendingBlock.trs = pool
    BY <1>5 DEF OnReceiveVotes, OnceInv
  <2> QED BY <2>1, CommitLocalOnce
<1>6. ASSUME NEW block \in OtherBlocks, OnReceiveBlock(block) PROVE OnceInv'
  BY <1>6, OnReceiveBlockOnce
<1>7. ASSUME NEW block \in OtherBlocks, LoadBlock(block) PROVE OnceInv'
  BY <1>7, LoadBlockOnce
<1>8. ASSUME NEW common \in DOMAIN chain, StartSync(common) PROVE OnceInv'
  <2>1. /\ session' = SessionOver(saved[common]) /\ pool' = <<>>
        /\ ~ IsCollectingVotes /\ UNCHANGED <<failedTrs, pendingBlock>>
    BY <1>8 DEF StartSync, NeverBusy
  <2>2. common \in Nat /\ Cut(common)
    BY <1>1, <1>8, StartSyncCuts
  <2>3. ChainRecorded' /\ saved'[Height'] = saved[common] /\ IsTables(saved[common])
    <3>1. common \in 0 .. common
      BY <2>2
    <3>2. common \in 0 .. Height /\ saved'[Height'] = saved[common]
      BY <2>2, <3>1 DEF Cut
    <3> QED BY <1>1, <2>2, <3>2, CutRecorded DEF ChainRecorded
  <2>4. PoolClean(PoolState', saved[common])
    BY <1>1, <2>1, <2>3, DroppedPool
  <2> QED BY <2>1, <2>3, <2>4 DEF OnceInv, IsCollectingVotes
<1>9. CASE StartSyncFromGenesis
  <2>1. /\ UNCHANGED <<chain, saved, session, pool, failedTrs, pendingBlock>>
        /\ pool = <<>> /\ ~ IsCollectingVotes
    BY <1>9 DEF StartSyncFromGenesis, NeverBusy
  <2>2. ChainRecorded' /\ PoolClean(PoolState', saved'[Height'])
    BY <1>1, <2>1, RecordedFrame DEF PoolState
  <2> QED BY <2>1, <2>2 DEF OnceInv, IsCollectingVotes
<1>10. CASE EndSync
  <2>1. /\ UNCHANGED <<chain, saved, session, pool, failedTrs, pendingBlock>>
        /\ syncing /\ syncing' = FALSE
    BY <1>10 DEF EndSync
  <2>2. ChainRecorded' /\ PoolClean(PoolState', saved'[Height'])
    BY <1>1, <2>1, RecordedFrame DEF PoolState
  <2> QED BY <2>1, <2>2 DEF OnceInv, IsCollectingVotes
<1>11. CASE Restart
  <2>1. /\ session' = SessionOver(saved[Height]) /\ pool' = <<>> /\ failedTrs' = <<>>
        /\ pendingBlock' = Null /\ syncing' = FALSE /\ UNCHANGED <<chain, saved>>
    BY <1>11 DEF Restart, RolledBack
  <2>2. FailedOK(failedTrs')
    BY <2>1, NothingFailed
  <2>3. ChainRecorded' /\ saved'[Height'] = saved[Height] /\ PoolClean(PoolState', saved[Height])
    BY <1>1, <2>1, <2>2, RecordedFrame, DroppedPool
  <2> QED BY <2>1, <2>3 DEF OnceInv, IsCollectingVotes
<1>12. CASE UNCHANGED vars
  BY <1>12 DEF vars, OnceInv, ChainRecorded, Height, PoolState, IsCollectingVotes
<1> QED BY <1>2, <1>3, <1>4, <1>5, <1>6, <1>7, <1>8, <1>9, <1>10, <1>11, <1>12 DEF Next

(* What the second invariant says of a chain, told as the property *)
LEMMA OnceAsTold ==
  ASSUME TypeInv, OnceInv
  PROVE  ExecutedOnce
<1>1. Height \in Nat /\ DOMAIN chain = 0 .. Height
  BY DEF TypeInv, ChainTyped
<1>2. ASSUME NEW h \in 0 .. Height, NEW k \in 0 .. Height, h # k
      PROVE  ToSet(chain[h].trs) \cap ToSet(chain[k].trs) = {}
  <2>1. CASE h < k
    BY <2>1 DEF OnceInv, ChainRecorded
  <2>2. CASE k < h
    BY <2>2 DEF OnceInv, ChainRecorded
  <2> QED BY <1>1, <1>2, <2>1, <2>2
<1>3. \A h \in 0 .. Height : ToSet(chain[h].trs) \cap ToSet(pool) = {}
  BY <1>1 DEF OnceInv, ChainRecorded, PoolClean, PoolState
<1> QED BY <1>1, <1>2, <1>3 DEF ExecutedOnce

(***************************************************************************)
(* No transaction is in two blocks, or in a block and in the pool: what    *)
(* is offered again is found in the table of transactions or in the pool,  *)
(* and the block of a node that forges contains what its pool does.        *)
(***************************************************************************)
THEOREM TransactionsExecutedOnce ==
  ASSUME NeverBusy
  PROVE  Spec => []ExecutedOnce
<1>1. Init => TypeInv /\ OnceInv
  BY InitTyped, InitOnce DEF NeverBusy
<1>2. TypeInv /\ OnceInv /\ [Next]_vars => TypeInv' /\ OnceInv'
  BY StepTyped, StepOnce
<1>3. TypeInv /\ OnceInv => ExecutedOnce
  BY OnceAsTold
<1> QED BY <1>1, <1>2, <1>3, PTL DEF Spec

-----------------------------------------------------------------------------
(* Tables and overlay are what executing blocks and pool gives *)

LEMMA InitReplayed ==
  ASSUME NeverBusy, SendersKnown, Init
  PROVE  ReplayInv
<1>1. Height = 0 /\ saved[0] = GenesisTables
  BY InitTyped DEF Init
<1>2. ChainReplayed
  BY <1>1 DEF ChainReplayed
<1>3. PoolState = [session |-> SessionOver(GenesisTables), pool |-> <<>>, failed |-> <<>>, ok |-> TRUE]
  BY DEF PoolState, Init
<1>4. PoolApplied(PoolState, GenesisTables, 0)
  BY <1>3, EmptyPool, NothingFailed, GenesisRecorded DEF NeverBusy, SendersKnown
<1> QED BY <1>1, <1>2, <1>4 DEF ReplayInv

(* The tables a step leaves; with genesis as last block, they know the senders *)
LEMMA LastTables ==
  ASSUME SendersKnown, ChainTyped', ChainRecorded'
  PROVE  IsTables(saved'[Height']) /\ (Height' = 0 => HaveAccounts(saved'[Height']))
<1>1. Height' \in 0 .. Height' /\ saved'[0] = GenesisTables
  BY DEF ChainTyped
<1> QED BY <1>1 DEF ChainRecorded, SendersKnown

LEMMA ReplayedFrame ==
  ASSUME ChainReplayed, UNCHANGED <<chain, saved>>
  PROVE  ChainReplayed' /\ saved'[Height'] = saved[Height] /\ Height' = Height
BY DEF ChainReplayed, Height

(***************************************************************************)
(* A block of this node is committed without executing it: its overlay is  *)
(* what executing its pool, and thus the block, gives.                     *)
(***************************************************************************)
LEMMA CommitLocalReplayed ==
  ASSUME TypeInv, OnceInv, ReplayInv, NEW block, CommitLocal(block), block.trs = pool,
         UNCHANGED failedTrs
  PROVE  ReplayInv'
<1> DEFINE tables == TablesAfter(session.view, chain, Height + 1, block)
           base   == SessionOver(saved[Height])
<1>1. /\ Commit(block, tables)
      /\ session' = SessionOver(tables) /\ pool' = <<>>
  BY DEF CommitLocal
<1>2. ChainTyped /\ FailedOK(failedTrs') /\ IsInjective(pool)
  BY PoolParts DEF TypeInv
<1>3. IsTables(session.view) /\ ToSet(pool) \cap saved[Height].transactions = {}
  BY DEF OnceInv, PoolClean, PoolState
<1>4. ChainReplayed /\ ApplyBlock(base, pool, Height) = Fresh(session)
  BY DEF ReplayInv, PoolApplied, PoolState
<1>5. tables = Executed(base, chain, Height + 1, block) /\ Applies(base, Height + 1, block)
  <2>1. BlockPasses(base, block)
    BY <1>2, <1>3, OverTables DEF BlockPasses
  <2>2. (Height + 1) - 1 = Height
    BY <1>2 DEF ChainTyped
  <2>3. ApplyBlock(base, block.trs, (Height + 1) - 1) = [ok |-> TRUE, session |-> session]
    BY <1>4, <2>2 DEF Fresh
  <2> HIDE DEF base
  <2> QED BY <2>1, <2>3 DEF Executed, Applies
<1>6. IsTables(tables)
  BY <1>3, TablesAfterRecords
<1> HIDE DEF tables
<1>7. Grown(block, tables)
  BY <1>1, <1>2, CommitGrows
<1>8. ChainReplayed'
  BY <1>2, <1>4, <1>5, <1>7, GrownReplayed
<1>9. saved'[Height'] = tables /\ Height' # 0
  BY <1>2, <1>7 DEF Grown, ChainTyped
<1>10. PoolApplied(PoolState', tables, Height')
  BY <1>1, <1>2, <1>6, <1>9, DroppedPool
<1> QED BY <1>8, <1>9, <1>10 DEF ReplayInv

LEMMA OnReceiveBlockReplayed ==
  ASSUME SendersKnown, TypeInv, OnceInv, ReplayInv, NEW block \in OtherBlocks, OnReceiveBlock(block)
  PROVE  ReplayInv'
<1> DEFINE tables == Executed(RolledBack, chain, Height + 1, block)
<1>1. ChainTyped /\ ChainReplayed
  BY DEF TypeInv, ReplayInv
<1>2. (Grown(block, tables) /\ Applies(RolledBack, Height + 1, block)) \/ UNCHANGED <<chain, saved>>
  BY <1>1, ReceivedBlock, ExecutedApplies
<1>3. ChainReplayed'
  BY <1>1, <1>2, GrownReplayed, ReplayedFrame DEF RolledBack
<1>4. TypeInv' /\ OnceInv'
  BY OnReceiveBlockTyped, OnReceiveBlockOnce
<1>5. IsTables(saved'[Height']) /\ (Height' = 0 => HaveAccounts(saved'[Height']))
  BY <1>4, LastTables DEF TypeInv, OnceInv
<1>6. PoolApplied(PoolState', saved'[Height'], Height')
  BY <1>5, ReceivedPool
<1> QED BY <1>3, <1>6 DEF ReplayInv

LEMMA LoadBlockReplayed ==
  ASSUME SendersKnown, TypeInv, OnceInv, ReplayInv, NEW block \in OtherBlocks, LoadBlock(block)
  PROVE  ReplayInv'
<1> DEFINE tables == Executed(session, chain, Height + 1, block)
<1>1. /\ IF tables # Refused
         THEN Commit(block, tables) /\ session' = SessionOver(tables)
         ELSE /\ session' = IF BlockPasses(session, block) THEN RolledBack ELSE session
              /\ UNCHANGED <<chain, saved>>
      /\ syncing /\ UNCHANGED <<pool, failedTrs, syncing>>
  BY DEF LoadBlock
<1>2. /\ ChainTyped /\ ChainReplayed /\ pool = <<>> /\ FailedOK(failedTrs)
      /\ PoolApplied(PoolState, saved[Height], Height)
  BY <1>1, PoolParts DEF TypeInv, OnceInv, ReplayInv
<1>3. session = SessionOver(saved[Height])
  BY <1>2, ApplyBlockEmpty DEF PoolApplied, PoolState, Fresh
<1>4. TypeInv' /\ OnceInv'
  BY LoadBlockTyped, LoadBlockOnce
<1>5. IsTables(saved'[Height']) /\ (Height' = 0 => HaveAccounts(saved'[Height']))
  BY <1>4, LastTables DEF TypeInv, OnceInv
<1>6. ChainReplayed' /\ session' = SessionOver(saved'[Height'])
  <2>1. CASE tables # Refused
    <3>1. Grown(block, tables)
      BY <1>1, <1>2, <2>1, CommitGrows
    <3>2. ChainReplayed'
      BY <1>2, <1>3, <2>1, <3>1, ExecutedApplies, GrownReplayed
    <3>3. saved'[Height'] = tables
      BY <3>1 DEF Grown
    <3> HIDE DEF tables
    <3> QED BY <1>1, <2>1, <3>2, <3>3
  <2>2. CASE tables = Refused
    <3>1. UNCHANGED <<chain, saved>> /\ session' \in {SessionOver(saved[Height]), session}
      BY <1>1, <2>2 DEF RolledBack
    <3> HIDE DEF tables
    <3> QED BY <1>2, <1>3, <3>1, ReplayedFrame
  <2> QED BY <2>1, <2>2
<1> HIDE DEF tables
<1>7. PoolApplied(PoolState', saved'[Height'], Height')
  BY <1>1, <1>2, <1>5, <1>6, DroppedPool
<1> QED BY <1>6, <1>7 DEF ReplayInv

LEMMA StepReplayed ==
  ASSUME NeverBusy, SendersKnown, TypeInv, OnceInv, ReplayInv, [Next]_vars
  PROVE  ReplayInv'
<1>1. /\ ChainTyped /\ ChainReplayed /\ PoolApplied(PoolState, saved[Height], Height)
      /\ FailedOK(failedTrs)
  BY PoolParts DEF TypeInv, ReplayInv
<1>2. TypeInv' /\ OnceInv'
  BY StepTyped, StepOnce
<1>3. /\ IsTables(saved'[Height']) /\ (Height' = 0 => HaveAccounts(saved'[Height']))
      /\ FailedOK(failedTrs')
  <2>1. FailedOK(failedTrs')
    BY <1>2 DEF TypeInv, PoolTyped, PoolState
  <2> QED BY <1>2, <2>1, LastTables DEF TypeInv, OnceInv
<1>4. ASSUME NEW id \in Senders, ReceiveTransaction(id) PROVE ReplayInv'
  <2> DEFINE next == ProcessUnconfirmed(PoolState, IsCollectingVotes, id, Height)
  <2>1. SetPoolState(next) /\ UNCHANGED <<chain, saved>>
    BY <1>4 DEF ReceiveTransaction
  <2>2. PoolTyped(next, saved[Height]) /\ PoolApplied(next, saved[Height], Height)
    BY <1>1, <1>4, ProcessTyped, ProcessApplied DEF TypeInv, ChainTyped
  <2> HIDE DEF next
  <2>3. PoolApplied(PoolState', saved[Height], Height)
    BY <2>1, <2>2, SetPool
  <2> QED BY <1>1, <2>1, <2>3, ReplayedFrame DEF ReplayInv
<1>5. ASSUME NEW d \in Delegates, Forge(d) PROVE ReplayInv'
  <2>1. /\ CommitLocal(Block(Height + 1, d, pool)) /\ UNCHANGED failedTrs
        /\ Block(Height + 1, d, pool).trs = pool
    BY <1>5 DEF Forge, Block
  <2> QED BY <2>1, CommitLocalReplayed
<1>6. CASE OnReceiveVotes
  <2>1. CommitLocal(pendingBlock) /\ UNCHANGED failedTrs /\ pendingBlock.trs = pool
    BY <1>6 DEF OnReceiveVotes, OnceInv
  <2> QED BY <2>1, CommitLocalReplayed
<1>7. ASSUME NEW block \in OtherBlocks, OnReceiveBlock(block) PROVE ReplayInv'
  BY <1>7, OnReceiveBlockReplayed
<1>8. ASSUME NEW block \in OtherBlocks, LoadBlock(block) PROVE ReplayInv'
  BY <1>8, LoadBlockReplayed
<1>9. ASSUME NEW common \in DOMAIN chain, StartSync(common) PROVE ReplayInv'
  <2>1. session' = SessionOver(saved[common]) /\ pool' = <<>>
    BY <1>9 DEF StartSync
  <2>2. common \in Nat /\ Cut(common)
    BY <1>1, <1>9, StartSyncCuts
  <2>3. ChainReplayed' /\ saved'[Height'] = saved[common]
    <3>1. common \in 0 .. common
      BY <2>2
    <3> QED BY <1>1, <2>2, <3>1, CutReplayed DEF Cut
  <2>4. PoolApplied(PoolState', saved'[Height'], Height')
    BY <1>3, <2>1, <2>3, DroppedPool
  <2> QED BY <2>3, <2>4 DEF ReplayInv
<1>10. CASE Restart
  <2>1. session' = SessionOver(saved[Height]) /\ pool' = <<>> /\ UNCHANGED <<chain, saved>>
    BY <1>10 DEF Restart, RolledBack
  <2>2. ChainReplayed' /\ saved'[Height'] = saved[Height]
    BY <1>1, <2>1, ReplayedFrame
  <2>3. PoolApplied(PoolState', saved'[Height'], Height')
    BY <1>3, <2>1, <2>2, DroppedPool
  <2> QED BY <2>2, <2>3 DEF ReplayInv
<1>11. ASSUME UNCHANGED <<chain, saved, session, pool, failedTrs>> PROVE ReplayInv'
  BY <1>1, <1>11, ReplayedFrame DEF ReplayInv, PoolState
<1>12. ASSUME \/ \E d \in Delegates : Propose(d)
              \/ StartSyncFromGenesis \/ EndSync \/ UNCHANGED vars
       PROVE  ReplayInv'
  BY <1>11, <1>12 DEF Propose, StartSyncFromGenesis, EndSync, vars
<1> QED BY <1>4, <1>5, <1>6, <1>7, <1>8, <1>9, <1>10, <1>12 DEF Next

LEMMA SpecReplays ==
  ASSUME NeverBusy, SendersKnown
  PROVE  Spec => [](TypeInv /\ OnceInv /\ ReplayInv)
<1>1. Init => TypeInv /\ OnceInv /\ ReplayInv
  BY InitTyped, InitOnce, InitReplayed DEF NeverBusy
<1>2. TypeInv /\ OnceInv /\ ReplayInv /\ [Next]_vars => TypeInv' /\ OnceInv' /\ ReplayInv'
  BY StepTyped, StepOnce, StepReplayed
<1> QED BY <1>1, <1>2, PTL DEF Spec

(***************************************************************************)
(* The tables of each block are what executing it over the tables of the   *)
(* block before it gives: it makes no difference that onReceiveVotes and   *)
(* forging commit a block of the pool without executing it.                *)
(***************************************************************************)
THEOREM TablesAreReplay ==
  ASSUME NeverBusy, SendersKnown
  PROVE  Spec => []StateIsReplay
<1>1. ASSUME TypeInv, ReplayInv PROVE StateIsReplay
  <2>1. DOMAIN chain \ {0} = 1 .. Height
    BY <1>1 DEF TypeInv, ChainTyped
  <2> QED BY <1>1, <2>1 DEF ReplayInv, ChainReplayed, StateIsReplay
<1>2. TypeInv /\ OnceInv /\ ReplayInv => StateIsReplay
  BY <1>1
<1> QED BY <1>2, SpecReplays, PTL

(***************************************************************************)
(* The overlay of the session is the pool, executed over the tables: what  *)
(* a failed transaction began, and what a block took over, is not in it.   *)
(***************************************************************************)
THEOREM OverlayFollowsPool ==
  ASSUME NeverBusy, SendersKnown
  PROVE  Spec => []OverlayIsPool
<1>1. TypeInv /\ OnceInv /\ ReplayInv => OverlayIsPool
  BY DEF ReplayInv, PoolApplied, PoolState, Fresh, OverlayIsPool
<1> QED BY <1>1, SpecReplays, PTL

-----------------------------------------------------------------------------
(* Sums over finite sets                                                   *)

(* A sum over all parts of a set, which does not depend on an order *)
IsSum(g, f, S) ==
  /\ \A T \in SUBSET S : g[T] \in Int
  /\ g[{}] = 0
  /\ \A T \in SUBSET S : \A x \in T : g[T] = f[x] + g[T \ {x}]

LEMMA SumExists ==
  ASSUME NEW S, IsFiniteSet(S), NEW f, \A x \in S : f[x] \in Int
  PROVE  \E g : IsSum(g, f, S)
<1> DEFINE N == {n \in Nat : \A T \in SUBSET S : Cardinality(T) = n => \E g : IsSum(g, f, T)}
<1>1. 0 \in N
  <2>1. SUFFICES ASSUME NEW T \in SUBSET S, Cardinality(T) = 0 PROVE \E g : IsSum(g, f, T)
    OBVIOUS
  <2>2. T = {}
    BY <2>1, FS_Subset, FS_EmptySet
  <2> DEFINE g == [U \in {{}} |-> 0]
  <2>3. IsSum(g, f, T)
    BY <2>2 DEF IsSum
  <2> QED BY <2>3
<1>2. ASSUME NEW n \in Nat, n \in N PROVE n + 1 \in N
  <2>1. SUFFICES ASSUME NEW T \in SUBSET S, Cardinality(T) = n + 1 PROVE \E g : IsSum(g, f, T)
    OBVIOUS
  <2>2. IsFiniteSet(T) /\ T # {}
    BY <1>2, <2>1, FS_Subset, FS_EmptySet
  <2>3. PICK a : a \in T
    BY <2>2
  <2>4. Cardinality(T \ {a}) = n
    <3>1. Cardinality(T \ {a}) = Cardinality(T) - 1
      BY <2>2, <2>3, FS_RemoveElement
    <3> QED BY <1>2, <2>1, <3>1
  <2>5. PICK g : IsSum(g, f, T \ {a})
    BY <1>2, <2>4
  <2> DEFINE h == [U \in SUBSET T |-> IF a \in U THEN f[a] + g[U \ {a}] ELSE g[U]]
  <2>6. f[a] \in Int
    BY <2>3
  <2>7. ASSUME NEW U \in SUBSET T PROVE h[U] \in Int
    BY <2>5, <2>6 DEF IsSum
  <2>8. h[{}] = 0
    BY <2>5 DEF IsSum
  <2>9. ASSUME NEW U \in SUBSET T, NEW x \in U PROVE h[U] = f[x] + h[U \ {x}]
    <3>1. CASE a \notin U
      <4>1. U \in SUBSET (T \ {a}) /\ U \ {x} \in SUBSET T /\ a \notin U \ {x}
        BY <3>1
      <4> QED BY <2>5, <3>1, <4>1 DEF IsSum
    <3>2. CASE x = a
      <4>1. U \ {a} \in SUBSET T /\ a \notin U \ {a}
        OBVIOUS
      <4> QED BY <3>2, <4>1
    <3>3. CASE a \in U /\ x # a
      <4>1. /\ U \ {a} \in SUBSET (T \ {a}) /\ x \in U \ {a}
            /\ U \ {x} \in SUBSET T /\ a \in U \ {x}
            /\ (U \ {a}) \ {x} = (U \ {x}) \ {a}
            /\ (U \ {a}) \ {x} \in SUBSET (T \ {a})
        BY <3>3
      <4>2. g[U \ {a}] = f[x] + g[(U \ {a}) \ {x}] /\ g[(U \ {a}) \ {x}] \in Int
        BY <2>5, <4>1 DEF IsSum
      <4>3. h[U] = f[a] + g[U \ {a}] /\ h[U \ {x}] = f[a] + g[(U \ {a}) \ {x}]
        BY <3>3, <4>1
      <4>4. f[x] \in Int
        BY <2>9
      <4> HIDE DEF h
      <4> QED BY <2>6, <4>2, <4>3, <4>4
    <3> QED BY <3>1, <3>2, <3>3
  <2> HIDE DEF h
  <2>10. IsSum(h, f, T)
    BY <2>7, <2>8, <2>9 DEF IsSum
  <2> QED BY <2>10
<1> HIDE DEF N
<1>3. Nat \subseteq N
  BY <1>1, <1>2, SetInduction
<1>4. Cardinality(S) \in Nat
  BY FS_CardinalityType
<1> QED BY <1>3, <1>4 DEF N

(* What SumFunctionOnSet recurses with *)
Summed(iter, f, S) ==
  \A T \in SUBSET S : iter[T] = IF T = {} THEN 0
                                ELSE f[CHOOSE x \in T : TRUE] + iter[T \ {CHOOSE x \in T : TRUE}]

LEMMA SumsSummed ==
  ASSUME NEW S, NEW f, NEW g, IsSum(g, f, S)
  PROVE  Summed(g, f, S)
<1> SUFFICES ASSUME NEW T \in SUBSET S, T # {}
             PROVE  g[T] = f[CHOOSE x \in T : TRUE] + g[T \ {CHOOSE x \in T : TRUE}]
  BY DEF Summed, IsSum
<1>1. (CHOOSE x \in T : TRUE) \in T
  OBVIOUS
<1> QED BY <1>1 DEF IsSum

LEMMA SummedIsSum ==
  ASSUME NEW S, IsFiniteSet(S), NEW f, NEW g, IsSum(g, f, S), NEW iter, Summed(iter, f, S)
  PROVE  iter[S] = g[S]
<1> DEFINE N == {n \in Nat : \A T \in SUBSET S : Cardinality(T) = n => iter[T] = g[T]}
<1>1. 0 \in N
  <2>1. SUFFICES ASSUME NEW T \in SUBSET S, Cardinality(T) = 0 PROVE iter[T] = g[T]
    OBVIOUS
  <2>2. T = {}
    BY <2>1, FS_Subset, FS_EmptySet
  <2> QED BY <2>2 DEF IsSum, Summed
<1>2. ASSUME NEW n \in Nat, n \in N PROVE n + 1 \in N
  <2>1. SUFFICES ASSUME NEW T \in SUBSET S, Cardinality(T) = n + 1 PROVE iter[T] = g[T]
    OBVIOUS
  <2>2. IsFiniteSet(T) /\ T # {}
    BY <1>2, <2>1, FS_Subset, FS_EmptySet
  <2> DEFINE a == CHOOSE x \in T : TRUE
  <2>3. a \in T
    BY <2>2
  <2>4. iter[T] = f[a] + iter[T \ {a}]
    BY <2>2 DEF Summed
  <2> HIDE DEF a
  <2>5. Cardinality(T \ {a}) = n
    <3>1. Cardinality(T \ {a}) = Cardinality(T) - 1
      BY <2>2, <2>3, FS_RemoveElement
    <3> QED BY <1>2, <2>1, <3>1
  <2>6. iter[T \ {a}] = g[T \ {a}]
    BY <1>2, <2>5
  <2>7. g[T] = f[a] + g[T \ {a}]
    BY <2>3 DEF IsSum
  <2> QED BY <2>4, <2>6, <2>7
<1> HIDE DEF N
<1>3. Nat \subseteq N
  BY <1>1, <1>2, SetInduction
<1>4. Cardinality(S) \in Nat
  BY FS_CardinalityType
<1> QED BY <1>3, <1>4 DEF N

(* The sum of a function over a set *)
Sum(f, S) == SumFunctionOnSet(f, S)

LEMMA SumIs ==
  ASSUME NEW S, IsFiniteSet(S), NEW f, NEW g, IsSum(g, f, S)
  PROVE  Sum(f, S) = g[S]
<1>0. Summed(g, f, S)
  BY SumsSummed
<1> DEFINE h == [T \in SUBSET S |-> g[T]]
<1>1. h = [T \in SUBSET S |-> IF T = {} THEN 0
                             ELSE f[CHOOSE x \in T : TRUE] + h[T \ {CHOOSE x \in T : TRUE}]]
  <2>1. ASSUME NEW T \in SUBSET S
        PROVE  h[T] = IF T = {} THEN 0
                             ELSE f[CHOOSE x \in T : TRUE] + h[T \ {CHOOSE x \in T : TRUE}]
    <3>1. T \ {CHOOSE x \in T : TRUE} \in SUBSET S
      OBVIOUS
    <3>2. g[T] = IF T = {} THEN 0 ELSE f[CHOOSE x \in T : TRUE] + g[T \ {CHOOSE x \in T : TRUE}]
      BY <1>0 DEF Summed
    <3>3. h[T] = g[T] /\ h[T \ {CHOOSE x \in T : TRUE}] = g[T \ {CHOOSE x \in T : TRUE}]
      BY <3>1
    <3> HIDE DEF h
    <3> QED BY <3>2, <3>3
  <2> HIDE DEF h
  <2> QED BY <2>1 DEF h
<1>2. PICK iter : /\ iter = [T \in SUBSET S |-> IF T = {} THEN 0
                             ELSE f[CHOOSE x \in T : TRUE] + iter[T \ {CHOOSE x \in T : TRUE}]]
                  /\ Sum(f, S) = iter[S]
  <2> HIDE DEF h
  <2> QED BY <1>1 DEF Sum, SumFunctionOnSet, FoldFunctionOnSet, MapThenFoldSet
<1>3. Summed(iter, f, S)
  BY <1>2 DEF Summed
<1> QED BY <1>2, <1>3, SummedIsSum

LEMMA SumEmpty == ASSUME NEW f PROVE Sum(f, {}) = 0
<1>1. PICK g : IsSum(g, f, {})
  BY SumExists, FS_EmptySet
<1> QED BY <1>1, SumIs, FS_EmptySet DEF IsSum

LEMMA SumType ==
  ASSUME NEW S, IsFiniteSet(S), NEW f, \A x \in S : f[x] \in Int
  PROVE  Sum(f, S) \in Int
<1>1. PICK g : IsSum(g, f, S)
  BY SumExists
<1> QED BY <1>1, SumIs DEF IsSum

LEMMA SumRemove ==
  ASSUME NEW S, IsFiniteSet(S), NEW f, \A x \in S : f[x] \in Int, NEW a \in S
  PROVE  Sum(f, S) = f[a] + Sum(f, S \ {a})
<1>1. PICK g : IsSum(g, f, S)
  BY SumExists
<1>2. IsSum(g, f, S \ {a}) /\ IsFiniteSet(S \ {a})
  BY <1>1, FS_RemoveElement DEF IsSum
<1>3. Sum(f, S) = g[S] /\ Sum(f, S \ {a}) = g[S \ {a}]
  BY <1>1, <1>2, SumIs
<1>4. g[S] = f[a] + g[S \ {a}]
  BY <1>1 DEF IsSum
<1> QED BY <1>3, <1>4

LEMMA SumEqual ==
  ASSUME NEW S, IsFiniteSet(S), NEW f, \A x \in S : f[x] \in Int,
         NEW h, \A x \in S : h[x] = f[x]
  PROVE  Sum(h, S) = Sum(f, S)
<1>1. PICK g : IsSum(g, f, S)
  BY SumExists
<1>2. IsSum(g, h, S)
  BY <1>1 DEF IsSum
<1> QED BY <1>1, <1>2, SumIs

(* One term changes *)
LEMMA SumChange ==
  ASSUME NEW S, IsFiniteSet(S), NEW f, \A x \in S : f[x] \in Int, NEW a \in S,
         NEW h, h[a] \in Int, \A x \in S \ {a} : h[x] = f[x]
  PROVE  Sum(h, S) = Sum(f, S) - f[a] + h[a]
<1>1. IsFiniteSet(S \ {a})
  BY FS_RemoveElement
<1>2. Sum(h, S) = h[a] + Sum(h, S \ {a})
  BY SumRemove
<1>3. Sum(f, S) = f[a] + Sum(f, S \ {a})
  BY SumRemove
<1>4. Sum(h, S \ {a}) = Sum(f, S \ {a})
  BY <1>1, SumEqual
<1>5. Sum(f, S \ {a}) \in Int /\ f[a] \in Int
  BY <1>1, SumType
<1> QED BY <1>2, <1>3, <1>4, <1>5

(* A term is added *)
LEMMA SumAdd ==
  ASSUME NEW S, IsFiniteSet(S), NEW f, \A x \in S : f[x] \in Int, NEW a, a \notin S,
         NEW h, h[a] \in Int, \A x \in S : h[x] = f[x]
  PROVE  Sum(h, S \cup {a}) = Sum(f, S) + h[a]
<1>1. IsFiniteSet(S \cup {a}) /\ (S \cup {a}) \ {a} = S
  BY FS_AddElement
<1>2. Sum(h, S \cup {a}) = h[a] + Sum(h, S)
  BY <1>1, SumRemove
<1>3. Sum(h, S) = Sum(f, S) /\ Sum(f, S) \in Int
  BY SumEqual, SumType
<1> QED BY <1>2, <1>3

-----------------------------------------------------------------------------
(* Divisions                                                               *)

LEMMA DivisionIs ==
  ASSUME NEW x \in Nat, NEW d \in Nat \ {0}, NEW a \in Nat, NEW r \in Nat, r < d, x = a * d + r
  PROVE  x \div d = a
<1>1. x \div d \in Nat /\ x % d \in Nat /\ x % d < d /\ x = (x \div d) * d + (x % d)
  BY Division
<1> DEFINE b == x \div d
<1>2. CASE b < a
  <2>1. (b + 1) * d <= a * d
    BY <1>1, <1>2, Monotone
  <2>2. (b + 1) * d = b * d + d
    BY <1>1
  <2> QED BY <1>1, <2>1, <2>2
<1>3. CASE a < b
  <2>1. (a + 1) * d <= b * d
    BY <1>1, <1>3, Monotone
  <2>2. (a + 1) * d = a * d + d
    OBVIOUS
  <2> QED BY <1>1, <2>1, <2>2
<1> QED BY <1>1, <1>2, <1>3

-----------------------------------------------------------------------------
(* The supply of coins.  The loop of calculateSupply runs once for each    *)
(* milestone; SupplyClosed says what it computes, and SupplyGrows that it  *)
(* grows by the reward of a block.                                         *)

(* What a milestone is worth, if all its blocks are there *)
Worth == [i \in 1 .. Len(Milestones) |-> RewardDistance * Milestones[i]]

SupplyUpTo(done, base, seq, n) ==
  done = [i \in 0 .. n |-> IF i = 0 THEN base ELSE SupplyStep(done[i - 1], seq[i])]

LEMMA SupplyDone ==
  ASSUME NEW done, NEW base, NEW seq, NEW n \in Nat, SupplyUpTo(done, base, seq, n)
  PROVE  /\ done[0] = base
         /\ \A i \in 1 .. n : done[i] = SupplyStep(done[i - 1], seq[i])
BY DEF SupplyUpTo

SupplyFold(iter, base, seq, n) ==
  iter = [S \in SUBSET (1 .. n) |->
            IF S = {} THEN base ELSE SupplyStep(iter[S \ {Max(S)}], seq[Max(S)])]

LEMMA SupplyFoldExists ==
  ASSUME NEW base, NEW seq, NEW n \in Nat
  PROVE  \E iter : SupplyFold(iter, base, seq, n)
<1> DEFINE T == {m \in Nat : \E iter : SupplyFold(iter, base, seq, m)}
<1>1. 0 \in T
  <2> DEFINE iter == [S \in SUBSET (1 .. 0) |-> base]
  <2>1. \A S \in SUBSET (1 .. 0) : S = {}
    OBVIOUS
  <2>2. SupplyFold(iter, base, seq, 0)
    BY <2>1 DEF SupplyFold
  <2> QED BY <2>2
<1>2. ASSUME NEW m \in Nat, m \in T PROVE m + 1 \in T
  <2>1. PICK iter : SupplyFold(iter, base, seq, m)
    BY <1>2
  <2> DEFINE more == [S \in SUBSET (1 .. m + 1) |->
                        IF m + 1 \in S THEN SupplyStep(iter[S \ {m + 1}], seq[m + 1]) ELSE iter[S]]
  <2>2. ASSUME NEW S \in SUBSET (1 .. m + 1)
        PROVE  more[S] = IF S = {} THEN base ELSE SupplyStep(more[S \ {Max(S)}], seq[Max(S)])
    <3>1. CASE m + 1 \in S
      <4>1. Max(S) = m + 1 /\ S \ {m + 1} \in SUBSET (1 .. m) /\ S # {}
        BY <3>1, LastOfInterval
      <4>2. m + 1 \notin S \ {m + 1} /\ S \ {m + 1} \in SUBSET (1 .. m + 1)
        OBVIOUS
      <4> QED BY <3>1, <4>1, <4>2
    <3>2. CASE m + 1 \notin S
      <4>1. S \in SUBSET (1 .. m)
        BY <3>2
      <4>2. /\ S \ {Max(S)} \in SUBSET (1 .. m + 1)
            /\ S \ {Max(S)} \in SUBSET (1 .. m)
            /\ m + 1 \notin S \ {Max(S)}
        BY <3>2, <4>1
      <4> QED BY <2>1, <3>2, <4>1, <4>2 DEF SupplyFold
    <3> QED BY <3>1, <3>2
  <2>3. SupplyFold(more, base, seq, m + 1)
    BY <2>2 DEF SupplyFold
  <2> QED BY <2>3
<1> HIDE DEF T
<1>3. Nat \subseteq T
  BY <1>1, <1>2, SetInduction
<1> QED BY <1>3 DEF T

SupplyLoop(base, seq) == FoldLeft(SupplyStep, base, seq)

LEMMA SupplyRun ==
  ASSUME NEW base, NEW seq, NEW n \in Nat, DOMAIN seq = 1 .. n
  PROVE  \E done : SupplyUpTo(done, base, seq, n) /\ SupplyLoop(base, seq) = done[n]
<1>1. \E iter : SupplyFold(iter, base, seq, n)
  BY SupplyFoldExists
<1>2. PICK iter : SupplyFold(iter, base, seq, n) /\ SupplyLoop(base, seq) = iter[1 .. n]
  BY <1>1 DEF SupplyLoop, FoldLeft, MapThenFoldSet, SupplyFold
<1> DEFINE done == [i \in 0 .. n |-> iter[1 .. i]]
<1>3. ASSUME NEW i \in 0 .. n
      PROVE  done[i] = IF i = 0 THEN base ELSE SupplyStep(done[i - 1], seq[i])
  <2>1. CASE i = 0
    <3>1. 1 .. i = {} /\ {} \in SUBSET (1 .. n)
      BY <2>1
    <3> QED BY <1>2, <2>1, <3>1 DEF SupplyFold
  <2>2. CASE i # 0
    <3>1. i - 1 \in Nat /\ i - 1 \in 0 .. n /\ (i - 1) + 1 = i /\ 1 .. i \in SUBSET (1 .. n)
      BY <2>2
    <3>2. 1 .. i # {} /\ Max(1 .. i) = i /\ (1 .. i) \ {i} = 1 .. i - 1
      BY <3>1, IntervalGrows
    <3> QED BY <1>2, <2>2, <3>1, <3>2 DEF SupplyFold
  <2> QED BY <2>1, <2>2
<1>4. SupplyUpTo(done, base, seq, n)
  BY <1>3 DEF SupplyUpTo
<1> QED BY <1>2, <1>4

LEMMA IntervalFinite ==
  ASSUME NEW n \in Nat
  PROVE  IsFiniteSet(1 .. n) /\ (1 .. n) \cup {n + 1} = 1 .. n + 1 /\ n + 1 \notin 1 .. n
BY FS_Interval

(* A sum over numbers from 1 on grows by the last of them *)
LEMMA SumGrows ==
  ASSUME NEW f, NEW n \in Nat, \A i \in 1 .. n + 1 : f[i] \in Int
  PROVE  Sum(f, 1 .. n + 1) = Sum(f, 1 .. n) + f[n + 1] /\ Sum(f, 1 .. n) \in Int
<1>1. IsFiniteSet(1 .. n) /\ (1 .. n) \cup {n + 1} = 1 .. n + 1 /\ n + 1 \notin 1 .. n
  BY IntervalFinite
<1>2. (\A i \in 1 .. n : f[i] \in Int) /\ f[n + 1] \in Int
  OBVIOUS
<1> DEFINE S == 1 .. n
           a == n + 1
<1>3. /\ IsFiniteSet(S) /\ a \notin S /\ f[a] \in Int
      /\ \A x \in S : f[x] \in Int
      /\ \A x \in S : f[x] = f[x]
      /\ S \cup {a} = 1 .. n + 1
  BY <1>1, <1>2
<1> HIDE DEF S, a
<1>4. Sum(f, S \cup {a}) = Sum(f, S) + f[a] /\ Sum(f, S) \in Int
  BY ONLY <1>3, SumAdd, SumType
<1> QED BY <1>3, <1>4 DEF S, a

(* The milestone of a height, and what is left of it there *)
LEMMA Location ==
  ASSUME NEW h \in Nat, h >= RewardOffset
  PROVE  LET q == (h - RewardOffset) \div RewardDistance
             m == CalculateMilestone(h)
         IN  /\ q \in Nat /\ m \in Nat /\ m <= q
             /\ m + 1 \in 1 .. Len(Milestones)
             /\ m = q \/ m + 1 = Len(Milestones)
             /\ (h - RewardOffset) % RewardDistance \in 0 .. RewardDistance - 1
             /\ h - RewardOffset = q * RewardDistance + ((h - RewardOffset) % RewardDistance)
<1> DEFINE x == h - RewardOffset
           d == RewardDistance
           l == Len(Milestones)
           q == x \div d
           m == CalculateMilestone(h)
<1>1. x \in Nat /\ d \in Nat \ {0} /\ l \in Nat \ {0}
  BY RoundsAssumption
<1>2. m = IF q > l - 1 THEN l - 1 ELSE q
  <2>1. ~ (h < RewardOffset)
    BY RoundsAssumption
  <2>2. m = IF h >= RewardOffset /\ q > l - 1 THEN l - 1 ELSE q
    BY <2>1 DEF CalculateMilestone
  <2> QED BY <2>2
<1> HIDE DEF x, d, l, m
<1>3. q \in Nat /\ x % d \in Nat /\ x % d < d /\ x = q * d + (x % d)
  BY <1>1, Division
<1> HIDE DEF q
<1>4. m \in Nat /\ m <= q /\ m + 1 \in 1 .. l /\ (m = q \/ m + 1 = l)
  BY <1>1, <1>2, <1>3
<1>5. x % d \in 0 .. d - 1
  BY <1>1, <1>3
<1> QED BY <1>3, <1>4, <1>5 DEF x, d, l, m, q

(***************************************************************************)
(* The supply: milestones that are through, and the blocks of the last.    *)
(***************************************************************************)
(* The blocks with the reward of the last of the milestones so far *)
InMilestone(h) == (h - RewardOffset + 1) - CalculateMilestone(h) * RewardDistance

LEMMA SupplyClosed ==
  ASSUME NEW h \in Nat, h >= RewardOffset
  PROVE  LET m == CalculateMilestone(h)
         IN  CalculateSupply(h) = InitialAmount + Sum(Worth, 1 .. m) + InMilestone(h) * Milestones[m + 1]
<1> DEFINE d == RewardDistance
           l == Len(Milestones)
           q == (h - RewardOffset) \div d
           r == (h - RewardOffset) % d
           m == CalculateMilestone(h)
           size == h - RewardOffset + 1
           seq == [i \in 1 .. m + 1 |-> i]
           base == [height |-> size, supply |-> InitialAmount]
<1>1. /\ d \in Nat \ {0} /\ l \in Nat /\ InitialAmount \in Nat /\ size \in Nat \ {0}
      /\ \A i \in 1 .. l : Milestones[i] \in Nat
  BY RoundsAssumption
<1>2. /\ q \in Nat /\ m \in Nat /\ m <= q /\ m + 1 \in 1 .. l /\ (m = q \/ m + 1 = l)
      /\ r \in 0 .. d - 1 /\ size = q * d + r + 1
  <2>1. h - RewardOffset = q * d + r
    BY Location
  <2>2. size = (h - RewardOffset) + 1
    OBVIOUS
  <2> QED BY <2>1, <2>2, Location
<1>3. CalculateSupply(h) = SupplyLoop(base, seq).supply
  <2>1. RewardOffset \in Nat
    BY RoundsAssumption
  <2>2. ~ (h < RewardOffset)
    BY <2>1
  <2> QED BY <2>2 DEF CalculateSupply, SupplyLoop
<1>4. \A i \in 1 .. l : Worth[i] = d * Milestones[i] /\ Worth[i] \in Int
  BY <1>1 DEF Worth
<1>5. DOMAIN seq = 1 .. m + 1 /\ \A i \in 1 .. m + 1 : seq[i] = i
  OBVIOUS
<1> HIDE DEF q, r, m, size, seq
<1>6. PICK done : SupplyUpTo(done, base, seq, m + 1) /\ SupplyLoop(base, seq) = done[m + 1]
  BY <1>2, <1>5, SupplyRun
<1> DEFINE T == {i \in Nat : i <= m => done[i] = [height |-> size - i * d,
                                                  supply |-> InitialAmount + Sum(Worth, 1 .. i)]}
<1>7. 0 \in T
  <2>1. done[0] = base
    BY <1>2, <1>6, SupplyDone
  <2>2. 1 .. 0 = {} /\ size - 0 * d = size
    BY <1>1
  <2>3. Sum(Worth, 1 .. 0) = 0
    BY <2>2, SumEmpty
  <2> QED BY <1>1, <2>1, <2>2, <2>3
<1>8. ASSUME NEW i \in Nat, i \in T PROVE i + 1 \in T
  <2> DEFINE left == done[i]
  <2>1. SUFFICES ASSUME i + 1 <= m
                 PROVE  done[i + 1] = [height |-> size - (i + 1) * d,
                                       supply |-> InitialAmount + Sum(Worth, 1 .. i + 1)]
    OBVIOUS
  <2>2. left = [height |-> size - i * d, supply |-> InitialAmount + Sum(Worth, 1 .. i)]
    BY <1>2, <1>8, <2>1
  <2>3. done[i + 1] = SupplyStep(left, i + 1)
    <3>1. i + 1 \in 1 .. m + 1 /\ (i + 1) - 1 = i
      BY <1>2, <2>1
    <3>2. done[i + 1] = SupplyStep(done[(i + 1) - 1], seq[i + 1])
      BY <1>2, <1>6, <3>1, SupplyDone
    <3> QED BY <1>5, <3>1, <3>2
  <2> HIDE DEF left
  <2>4. (i + 1) * d = i * d + d /\ (i + 1) * d \in Nat /\ i * d \in Nat
    BY <1>1
  <2>5. (i + 1) * d <= q * d
    BY <1>1, <1>2, <2>1, Monotone
  <2>6. q * d \in Nat
    BY <1>1, <1>2
  <2>7. left.height - d = size - (i + 1) * d /\ left.height - d >= 0 /\ left.height \in Int
    <3>1. left.height = size - i * d
      BY <2>2
    <3> DEFINE a == i * d
               b == q * d
               c == (i + 1) * d
    <3>2. c = a + d /\ c \in Nat /\ a \in Nat /\ b \in Nat /\ c <= b /\ size = b + r + 1
          /\ left.height = size - a
      BY <1>2, <2>4, <2>5, <2>6, <3>1
    <3> HIDE DEF a, b, c
    <3>3. left.height - d = size - c /\ left.height - d >= 0 /\ left.height \in Int
      BY <1>1, <1>2, <3>2
    <3> QED BY <3>3 DEF c
  <2>8. i + 1 # l /\ i + 1 \in 1 .. l /\ \A j \in 1 .. i + 1 : j \in 1 .. l
    BY <1>2, <2>1
  <2>9. SupplyStep(left, i + 1) = [height |-> left.height - d, supply |-> left.supply + d * Milestones[i + 1]]
    BY <1>1, <2>7, <2>8 DEF SupplyStep
  <2>10. Sum(Worth, 1 .. i + 1) = Sum(Worth, 1 .. i) + Worth[i + 1] /\ Sum(Worth, 1 .. i) \in Int
    BY <1>4, <2>8, SumGrows
  <2>11. left.supply + d * Milestones[i + 1] = InitialAmount + Sum(Worth, 1 .. i + 1)
    BY <1>1, <1>4, <2>2, <2>8, <2>10
  <2> QED BY <2>3, <2>7, <2>9, <2>11
<1> HIDE DEF T
<1>9. Nat \subseteq T
  BY <1>7, <1>8, SetInduction
<1> DEFINE left == done[m]
<1>10. left = [height |-> size - m * d, supply |-> InitialAmount + Sum(Worth, 1 .. m)]
  BY <1>2, <1>9 DEF T
<1>11. done[m + 1] = SupplyStep(left, m + 1)
  <2>1. m + 1 \in 1 .. m + 1 /\ (m + 1) - 1 = m
    BY <1>2
  <2>2. done[m + 1] = SupplyStep(done[(m + 1) - 1], seq[m + 1])
    BY <1>2, <1>6, <2>1, SupplyDone
  <2> QED BY <1>5, <2>1, <2>2
<1> HIDE DEF left
<1>12. left.height \in Nat /\ (m + 1 # l => left.height <= d)
  <2>1. m * d <= q * d /\ m * d \in Nat /\ q * d \in Nat
    BY <1>1, <1>2, Monotone
  <2>2. left.height = size - m * d
    BY <1>10
  <2>3. m + 1 # l => m * d = q * d
    BY <1>2
  <2> DEFINE a == m * d
             b == q * d
  <2>4. a <= b /\ a \in Nat /\ b \in Nat /\ left.height = size - a /\ (m + 1 # l => a = b)
        /\ size = b + r + 1
    BY <1>2, <2>1, <2>2, <2>3
  <2> HIDE DEF a, b
  <2> QED BY <1>1, <1>2, <2>4
<1>13. SupplyStep(left, m + 1).supply = left.supply + left.height * Milestones[m + 1]
  <2> DEFINE rest == left.height - d
             amount == IF rest < 0 THEN left.height % d ELSE IF m + 1 = l THEN d + rest ELSE d
  <2>1. SupplyStep(left, m + 1).supply = left.supply + amount * Milestones[m + 1]
    BY DEF SupplyStep
  <2>2. rest < 0 => left.height % d = left.height
    <3> DEFINE y == left.height
    <3>1. y \in Nat
      BY <1>12
    <3> HIDE DEF y
    <3>2. SUFFICES ASSUME y < d PROVE y % d = y
      BY <1>1, <3>1 DEF y
    <3>3. y \div d = 0
      <4>1. y = 0 * d + y
        BY <1>1, <3>1
      <4> QED BY <1>1, <3>1, <3>2, <4>1, DivisionIs
    <3>4. y = (y \div d) * d + (y % d) /\ y % d \in Nat
      BY <1>1, <3>1, Division
    <3>5. (y \div d) * d = 0
      BY <1>1, <3>3
    <3> QED BY <3>1, <3>4, <3>5
  <2>3. amount = left.height
    BY <1>1, <1>12, <2>2
  <2> QED BY <2>1, <2>3
<1>14. CalculateSupply(h) = InitialAmount + Sum(Worth, 1 .. m) + (size - m * d) * Milestones[m + 1]
  BY <1>3, <1>6, <1>10, <1>11, <1>13
<1>15. size - m * d = InMilestone(h)
  BY DEF InMilestone, size, m
<1>16. CalculateSupply(h) = InitialAmount + Sum(Worth, 1 .. m) + InMilestone(h) * Milestones[m + 1]
  BY <1>14, <1>15
<1> QED BY <1>16 DEF m

LEMMA DivisionNext ==
  ASSUME NEW x \in Nat, NEW d \in Nat \ {0}
  PROVE  \/ (x + 1) \div d = x \div d
         \/ (x + 1) \div d = (x \div d) + 1 /\ x + 1 = ((x \div d) + 1) * d
<1> DEFINE q == x \div d
           r == x % d
<1>1. q \in Nat /\ r \in Nat /\ r < d /\ x = q * d + r
  BY Division
<1> HIDE DEF q, r
<1>2. CASE r + 1 < d
  <2>1. x + 1 = q * d + (r + 1) /\ r + 1 \in Nat /\ x + 1 \in Nat
    BY <1>1
  <2>2. (x + 1) \div d = q
    BY <1>1, <1>2, <2>1, DivisionIs
  <2> QED BY <2>2 DEF q
<1>3. CASE r + 1 = d
  <2>1. (q + 1) * d = q * d + d
    BY <1>1
  <2>2. x + 1 = (q + 1) * d /\ x + 1 = (q + 1) * d + 0 /\ q + 1 \in Nat /\ x + 1 \in Nat
    BY <1>1, <1>3, <2>1
  <2>3. (x + 1) \div d = q + 1
    BY <1>1, <2>2, DivisionIs
  <2> QED BY <2>2, <2>3 DEF q
<1> QED BY <1>1, <1>2, <1>3

(* The next block has the same milestone, or is the first of the next one *)
LEMMA MilestoneNext ==
  ASSUME NEW h \in Nat, h >= RewardOffset
  PROVE  \/ /\ CalculateMilestone(h + 1) = CalculateMilestone(h)
            /\ InMilestone(h + 1) = InMilestone(h) + 1
         \/ /\ CalculateMilestone(h + 1) = CalculateMilestone(h) + 1
            /\ InMilestone(h) = RewardDistance
            /\ InMilestone(h + 1) = 1
<1> DEFINE x == h - RewardOffset
           d == RewardDistance
           l == Len(Milestones)
           q == x \div d
           p == ((h + 1) - RewardOffset) \div d
           m == CalculateMilestone(h)
           n == CalculateMilestone(h + 1)
<1>1. /\ RewardOffset \in Nat /\ d \in Nat \ {0} /\ l \in Nat \ {0}
      /\ x \in Nat /\ (h + 1) - RewardOffset = x + 1 /\ ~ (h < RewardOffset) /\ ~ (h + 1 < RewardOffset)
      /\ h + 1 >= RewardOffset
  BY RoundsAssumption
<1>2. m = IF q > l - 1 THEN l - 1 ELSE q
  BY <1>1 DEF CalculateMilestone
<1>3. n = IF p > l - 1 THEN l - 1 ELSE p
  BY <1>1 DEF CalculateMilestone
<1>4. p = (x + 1) \div d
  BY <1>1
<1>5. q \in Nat
  BY <1>1, Division
<1> DEFINE a == m * d
           b == n * d
           c == (q + 1) * d
<1>6. InMilestone(h) = (x + 1) - a
  BY DEF InMilestone
<1>7. InMilestone(h + 1) = (x + 2) - b
  <2>1. InMilestone(h + 1) = (((h + 1) - RewardOffset) + 1) - b
    BY DEF InMilestone
  <2>2. ((h + 1) - RewardOffset) + 1 = x + 2
    BY <1>1
  <2> QED BY <2>1, <2>2
<1>8. p = q \/ (p = q + 1 /\ x + 1 = c)
  <2> HIDE DEF x, d
  <2>1. (x + 1) \div d = q \/ ((x + 1) \div d = q + 1 /\ x + 1 = (q + 1) * d)
    BY <1>1, DivisionNext
  <2> QED BY <1>4, <2>1
<1> HIDE DEF x, l, p, q, m, n
<1>9. CASE n = m
  <2>1. a = b /\ a \in Int
    BY <1>1, <1>2, <1>5, <1>9
  <2> HIDE DEF a, b
  <2>2. InMilestone(h + 1) = InMilestone(h) + 1
    BY <1>1, <1>6, <1>7, <2>1
  <2> QED BY <1>9, <2>2 DEF m, n
<1>10. CASE n # m
  <2>0. p = q + 1 /\ x + 1 = c
    BY <1>2, <1>3, <1>8, <1>10
  <2>1. m = q /\ n = q + 1 /\ p = q + 1 /\ x + 1 = c
    <3> HIDE DEF c
    <3> QED BY <1>1, <1>2, <1>3, <1>5, <1>10, <2>0
  <2>2. c = q * d + d /\ q * d \in Nat
    BY <1>1, <1>5
  <2>3. a = q * d /\ b = c
    BY <2>1
  <2> DEFINE e == q * d
  <2>4. c = e + d /\ e \in Nat /\ a = e /\ b = c
    BY <2>2, <2>3
  <2> HIDE DEF a, b, c, e
  <2>5. InMilestone(h) = d /\ InMilestone(h + 1) = 1
    BY <1>1, <1>6, <1>7, <2>1, <2>4
  <2> QED BY <2>1, <2>5 DEF m, n
<1> QED BY <1>9, <1>10

LEMMA WorthType ==
  \A i \in 1 .. Len(Milestones) : /\ Worth[i] = RewardDistance * Milestones[i]
                                  /\ Worth[i] \in Int
                                  /\ Milestones[i] \in Nat
BY RoundsAssumption DEF Worth

(* The supply grows by the reward of the block *)
LEMMA SupplyGrows ==
  ASSUME NEW h \in Nat
  PROVE  CalculateSupply(h + 1) = CalculateSupply(h) + CalculateReward(h + 1)
<1>1. RewardOffset \in Nat \ {0} /\ RewardDistance \in Nat \ {0} /\ InitialAmount \in Nat
  BY RoundsAssumption
<1>2. CASE h + 1 < RewardOffset
  <2>1. h < RewardOffset
    BY <1>1, <1>2
  <2> QED BY <1>1, <1>2, <2>1 DEF CalculateSupply, CalculateReward
<1>3. CASE h + 1 = RewardOffset
  <2> DEFINE k == h + 1
  <2>1. /\ h < RewardOffset /\ ~ (k < RewardOffset) /\ k \in Nat /\ k >= RewardOffset
        /\ k - RewardOffset = 0
    BY <1>1, <1>3
  <2> DEFINE m == CalculateMilestone(k)
  <2>2. m = 0
    <3>1. (k - RewardOffset) \div RewardDistance = 0
      <4> DEFINE z == 0
                 d == RewardDistance
      <4>1. z \in Nat /\ d \in Nat \ {0} /\ z = z * d + z /\ z < d
        BY <1>1
      <4> HIDE DEF z, d
      <4>2. z \div d = z
        BY <4>1, DivisionIs
      <4> QED BY <2>1, <4>2 DEF z, d
    <3>2. m \in Nat /\ m <= (k - RewardOffset) \div RewardDistance
      BY <2>1, Location
    <3> QED BY <3>1, <3>2
  <2>3. CalculateSupply(k) = InitialAmount + Sum(Worth, 1 .. m) + InMilestone(k) * Milestones[m + 1]
    BY <2>1, SupplyClosed
  <2>4. InMilestone(k) = 1
    BY <1>1, <1>3, <2>2 DEF InMilestone
  <2>5. 1 .. m = {} /\ m + 1 = 1
    BY <2>2
  <2>6. Sum(Worth, 1 .. m) = 0
    BY <2>5, SumEmpty
  <2>7. Milestones[1] \in Nat
    BY WorthType, RoundsAssumption
  <2>8. CalculateReward(k) = Milestones[1]
    BY <2>1, <2>5 DEF CalculateReward
  <2>9. CalculateSupply(h) = InitialAmount
    BY <2>1 DEF CalculateSupply
  <2> HIDE DEF m
  <2>10. CalculateSupply(k) = InitialAmount + Milestones[1]
    BY <1>1, <2>3, <2>4, <2>5, <2>6, <2>7
  <2> QED BY <2>8, <2>9, <2>10
<1>4. CASE h + 1 > RewardOffset
  <2> DEFINE k == h + 1
             m == CalculateMilestone(h)
             n == CalculateMilestone(k)
             total == Sum(Worth, 1 .. m)
  <2>1. h >= RewardOffset /\ k >= RewardOffset /\ k \in Nat /\ ~ (k < RewardOffset)
    BY <1>1, <1>4
  <2>2. CalculateSupply(h) = InitialAmount + total + InMilestone(h) * Milestones[m + 1]
    BY <2>1, SupplyClosed
  <2>3. CalculateSupply(k) = InitialAmount + Sum(Worth, 1 .. n) + InMilestone(k) * Milestones[n + 1]
    BY <2>1, SupplyClosed
  <2>4. CalculateReward(k) = Milestones[n + 1]
    BY <2>1 DEF CalculateReward
  <2>5. /\ m \in Nat /\ m + 1 \in 1 .. Len(Milestones)
        /\ n \in Nat /\ n + 1 \in 1 .. Len(Milestones)
    BY <2>1, Location
  <2>6. Milestones[m + 1] \in Nat /\ Milestones[n + 1] \in Nat /\ InMilestone(h) \in Int
    BY <1>1, <2>5, WorthType DEF InMilestone
  <2>7. \A i \in 1 .. m + 1 : i \in 1 .. Len(Milestones)
    BY <2>5
  <2>8. Sum(Worth, 1 .. m + 1) = total + Worth[m + 1] /\ total \in Int
    BY <2>5, <2>7, WorthType, SumGrows
  <2>9. \/ n = m /\ InMilestone(k) = InMilestone(h) + 1
        \/ n = m + 1 /\ InMilestone(h) = RewardDistance /\ InMilestone(k) = 1
    BY <2>1, MilestoneNext
  <2> DEFINE s == CalculateSupply(h)
             t == CalculateSupply(k)
             reward == CalculateReward(k)
  <2> HIDE DEF m, n, k, s, t, reward
  <2>10. CASE n = m /\ InMilestone(k) = InMilestone(h) + 1
    <3>1. InMilestone(k) * Milestones[n + 1] = InMilestone(h) * Milestones[m + 1] + Milestones[n + 1]
      <4> DEFINE a == InMilestone(h)
                 b == Milestones[m + 1]
      <4>1. a \in Int /\ b \in Nat /\ InMilestone(k) = a + 1 /\ Milestones[n + 1] = b
        BY <2>6, <2>10
      <4> HIDE DEF a, b
      <4>2. (a + 1) * b = a * b + b
        BY <4>1
      <4> QED BY <4>1, <4>2 DEF a, b
    <3> DEFINE a == InMilestone(h) * Milestones[m + 1]
               b == InMilestone(k) * Milestones[n + 1]
    <3>2. a \in Int
      BY <2>6
    <3>3. /\ s = InitialAmount + total + a /\ t = InitialAmount + total + b
          /\ reward = Milestones[n + 1] /\ b = a + Milestones[n + 1]
      BY <2>2, <2>3, <2>4, <2>10, <3>1 DEF s, t, reward
    <3> HIDE DEF a, b, total
    <3>4. t = s + reward
      BY <1>1, <2>6, <2>8, <3>2, <3>3 DEF total
    <3> QED BY <3>4 DEF s, t, reward, k
  <2>11. CASE n = m + 1 /\ InMilestone(h) = RewardDistance /\ InMilestone(k) = 1
    <3>1. Worth[m + 1] = InMilestone(h) * Milestones[m + 1] /\ Worth[m + 1] \in Int
      BY <2>5, <2>11, WorthType
    <3>2. InMilestone(k) * Milestones[n + 1] = Milestones[n + 1]
      BY <2>6, <2>11
    <3> DEFINE a == InMilestone(h) * Milestones[m + 1]
               b == InMilestone(k) * Milestones[n + 1]
    <3>3. /\ s = InitialAmount + total + a
          /\ t = InitialAmount + (total + a) + b
          /\ reward = Milestones[n + 1] /\ b = Milestones[n + 1] /\ a \in Int
      BY <2>2, <2>3, <2>4, <2>8, <2>11, <3>1, <3>2 DEF s, t, reward
    <3> HIDE DEF a, b, total
    <3>4. t = s + reward
      BY <1>1, <2>6, <2>8, <3>3 DEF total
    <3> QED BY <3>4 DEF s, t, reward, k
  <2> QED BY <2>9, <2>10, <2>11
<1> QED BY <1>1, <1>2, <1>3, <1>4

LEMMA RewardType ==
  ASSUME NEW h \in Nat
  PROVE  CalculateReward(h) \in Nat
<1>1. CASE h < RewardOffset
  BY <1>1 DEF CalculateReward
<1>2. CASE ~ (h < RewardOffset)
  <2>1. h >= RewardOffset
    BY <1>2, RoundsAssumption
  <2>2. CalculateMilestone(h) + 1 \in 1 .. Len(Milestones)
    BY <2>1, Location
  <2> QED BY <1>2, <2>2, WorthType DEF CalculateReward
<1> QED BY <1>1, <1>2

Rewards(h) == [k \in 1 .. h |-> CalculateReward(k)]

RewardsUpTo(h) == SumFunction(Rewards(h))

LEMMA RewardsSum ==
  ASSUME NEW h \in Nat
  PROVE  RewardsUpTo(h) = Sum(Rewards(h), 1 .. h)
BY DEF RewardsUpTo, Rewards, SumFunction, Sum

(* The rewards of the blocks so far are the supply they were promised to be *)
LEMMA SupplyTold == \A h \in Nat : CalculateSupply(h) = InitialAmount + RewardsUpTo(h)
<1> DEFINE T == {h \in Nat : CalculateSupply(h) = InitialAmount + RewardsUpTo(h)}
<1>1. 0 \in T
  <2>1. RewardsUpTo(0) = 0
    <3>1. RewardsUpTo(0) = Sum(Rewards(0), 1 .. 0) /\ 1 .. 0 = {}
      BY RewardsSum
    <3> QED BY <3>1, SumEmpty
  <2>2. CalculateSupply(0) = InitialAmount /\ InitialAmount \in Nat
    BY RoundsAssumption DEF CalculateSupply
  <2> QED BY <2>1, <2>2
<1>2. ASSUME NEW h \in Nat, h \in T PROVE h + 1 \in T
  <2> DEFINE f == Rewards(h)
             e == Rewards(h + 1)
  <2>1. RewardsUpTo(h) = Sum(f, 1 .. h) /\ RewardsUpTo(h + 1) = Sum(e, 1 .. h + 1)
    BY RewardsSum
  <2>2. /\ \A k \in 1 .. h + 1 : e[k] \in Int
        /\ \A k \in 1 .. h : k \in 1 .. h + 1 /\ e[k] \in Int /\ f[k] = e[k]
        /\ e[h + 1] = CalculateReward(h + 1)
    BY RewardType DEF Rewards
  <2> HIDE DEF e, f
  <2>3. Sum(e, 1 .. h + 1) = Sum(e, 1 .. h) + e[h + 1] /\ Sum(e, 1 .. h) \in Int
    BY <2>2, SumGrows
  <2>4. Sum(f, 1 .. h) = Sum(e, 1 .. h)
    <3>1. IsFiniteSet(1 .. h)
      BY IntervalFinite
    <3> QED BY <2>2, <3>1, SumEqual
  <2>5. CalculateSupply(h + 1) = CalculateSupply(h) + CalculateReward(h + 1)
    BY SupplyGrows
  <2>6. CalculateReward(h + 1) \in Nat /\ InitialAmount \in Nat
    <3>1. h + 1 \in Nat
      OBVIOUS
    <3>2. CalculateReward(h + 1) \in Nat
      BY <3>1, RewardType
    <3> QED BY <3>2, RoundsAssumption
  <2> DEFINE s == CalculateSupply(h)
             t == CalculateSupply(h + 1)
             u == RewardsUpTo(h)
             v == RewardsUpTo(h + 1)
             reward == CalculateReward(h + 1)
  <2>7. v = u + reward /\ t = s + reward /\ u \in Int /\ reward \in Nat
    BY <2>1, <2>2, <2>3, <2>4, <2>5, <2>6
  <2>8. s = InitialAmount + u
    BY <1>2
  <2> HIDE DEF s, t, u, v, reward
  <2>9. t = InitialAmount + v
    BY <2>6, <2>7, <2>8
  <2> QED BY <2>9 DEF t, v
<1> HIDE DEF T
<1>3. Nat \subseteq T
  BY <1>1, <1>2, SetInduction
<1> QED BY <1>3 DEF T

(***************************************************************************)
(* The supply computed from the height, a milestone at a time, is the      *)
(* initial amount and the reward of every block.                           *)
(***************************************************************************)
THEOREM SupplyIsRewardsHeld == Spec => []SupplyIsRewards
<1>1. Init => TypeInv
  BY InitTyped
<1>2. TypeInv /\ [Next]_vars => TypeInv'
  BY StepTyped
<1>3. TypeInv => SupplyIsRewards
  <2>1. TypeInv => Height \in Nat
    BY DEF TypeInv, ChainTyped
  <2>2. Height \in Nat => CalculateSupply(Height) = InitialAmount + RewardsUpTo(Height)
    BY SupplyTold
  <2> QED BY <2>1, <2>2 DEF SupplyIsRewards, RewardsUpTo, Rewards
<1> QED BY <1>1, <1>2, <1>3, PTL DEF Spec

-----------------------------------------------------------------------------
(* What the contracts touch                                                *)

(* w differs from v in fields of F at most *)
Touches(v, w, F) == IsTables(w) /\ \A f \in Fields \ F : w[f] = v[f]

LEMMA TouchesSelf == ASSUME NEW v, IsTables(v), NEW F PROVE Touches(v, v, F)
BY DEF Touches

LEMMA TouchedTables == ASSUME NEW v, NEW w, NEW F, Touches(v, w, F) PROVE IsTables(w)
BY DEF Touches

LEMMA TouchesTouches ==
  ASSUME NEW u, NEW v, NEW w, NEW F, Touches(u, v, F), Touches(v, w, F)
  PROVE  Touches(u, w, F)
BY DEF Touches

LEMMA TouchesMore ==
  ASSUME NEW v, NEW w, NEW F, NEW G, F \subseteq G, Touches(v, w, F)
  PROVE  Touches(v, w, G)
BY DEF Touches

LEMMA TouchesField ==
  ASSUME NEW v, IsTables(v), NEW x, NEW F
  PROVE  /\ "account" \in F => Touches(v, [v EXCEPT !.account = x], F)
         /\ "delegate" \in F => Touches(v, [v EXCEPT !.delegate = x], F)
         /\ "votes" \in F => Touches(v, [v EXCEPT !.votes = x], F)
         /\ "issuer" \in F => Touches(v, [v EXCEPT !.issuer = x], F)
         /\ "asset" \in F => Touches(v, [v EXCEPT !.asset = x], F)
         /\ "balance" \in F => Touches(v, [v EXCEPT !.balance = x], F)
         /\ "mldata" \in F => Touches(v, [v EXCEPT !.mldata = x], F)
         /\ "prediction" \in F => Touches(v, [v EXCEPT !.prediction = x], F)
         /\ "transfers" \in F => Touches(v, [v EXCEPT !.transfers = x], F)
         /\ "transactions" \in F => Touches(v, [v EXCEPT !.transactions = x], F)
         /\ "round" \in F => Touches(v, [v EXCEPT !.round = x], F)
         /\ "bookkeeper" \in F => Touches(v, [v EXCEPT !.bookkeeper = x], F)
BY DEF Touches, IsTables, Fields

LEMMA TransferTouches ==
  ASSUME NEW s, IsTables(s.view), NEW t, NEW height, Transfer(s, t, height) # Refused
  PROVE  Touches(s.view, Transfer(s, t, height), {"account", "transfers"})
<1> DEFINE F == {"account", "transfers"}
           to == CHOOSE a \in Recipients(s.view, t.recipient) : TRUE
           rows == Pay(s.view, t.senderId, to, NumberOf(t.amount)).account
           paid == [s.view EXCEPT !.account = rows]
<1>1. Pay(s.view, t.senderId, to, NumberOf(t.amount)) = paid
  BY DEF Pay, IsTables, Fields
<1>2. Transfer(s, t, height) = [paid EXCEPT !.transfers = @ \cup {t.id}]
  BY <1>1 DEF Transfer
<1> HIDE DEF rows
<1>3. Touches(s.view, paid, F)
  BY TouchesField
<1> HIDE DEF paid
<1>4. Touches(paid, [paid EXCEPT !.transfers = @ \cup {t.id}], F)
  BY <1>3, TouchedTables, TouchesField
<1> QED BY <1>2, <1>3, <1>4, TouchesTouches

LEMMA TouchesUpdate ==
  ASSUME NEW v, IsTables(v), NEW a, NEW row, NEW F, "account" \in F
  PROVE  Touches(v, UpdateAccount(v, a, row), F)
BY DEF Touches, IsTables, Fields, UpdateAccount

LEMMA AccountTouches ==
  ASSUME NEW s, IsTables(s.view), NEW t, NEW height
  PROVE  /\ SetUserName(s, t, height) # Refused
              => Touches(s.view, SetUserName(s, t, height), {"account"})
         /\ SetSecondPassphrase(s, t, height) # Refused
              => Touches(s.view, SetSecondPassphrase(s, t, height), {"account"})
BY TouchesUpdate DEF SetUserName, SetSecondPassphrase

LEMMA TouchesVotes ==
  ASSUME NEW v, IsTables(v), NEW names, NEW x, NEW F, "delegate" \in F
  PROVE  Touches(v, IncreaseVotes(v, names, x), F)
BY TouchesField DEF IncreaseVotes

LEMMA LockTouches ==
  ASSUME NEW s, IsTables(s.view), NEW t, NEW height, Lock(s, t, height) # Refused
  PROVE  Touches(s.view, Lock(s, t, height), {"account", "delegate"})
<1> DEFINE F == {"account", "delegate"}
           row == [Sender(s, t) EXCEPT !.isLocked = TRUE, !.lockHeight = t.height,
                                       !.gny = @ - t.amount, !.lockAmount = @ + t.amount]
           locked == UpdateAccount(s.view, t.senderId, row)
<1>1. Lock(s, t, height) = IncreaseVotes(locked, VotedBy(s.table, t.senderId), t.amount)
  BY DEF Lock
<1> HIDE DEF row
<1>2. Touches(s.view, locked, F)
  BY TouchesUpdate
<1> HIDE DEF locked
<1>3. Touches(locked, Lock(s, t, height), F)
  BY <1>1, <1>2, TouchesVotes, TouchedTables
<1> QED BY <1>2, <1>3, TouchesTouches

LEMMA UnlockTouches ==
  ASSUME NEW s, IsTables(s.view), NEW t, NEW height, Unlock(s, t, height) # Refused
  PROVE  Touches(s.view, Unlock(s, t, height), {"account", "delegate", "votes"})
<1> DEFINE F == {"account", "delegate", "votes"}
           left == IncreaseVotes(s.view, VotedBy(s.table, t.senderId), - NumberOf(s.view.account[t.senderId].lockAmount))
           view == IF Sender(s, t).isDelegate THEN DeleteCreatedVotes(s, t.senderId) ELSE s.view
           row  == [Sender(s, t) EXCEPT !.isLocked = FALSE, !.lockHeight = 0, !.lockAmount = 0,
                             !.gny = Concatenate(@, Sender(s, t).lockAmount)]
<1>1. Unlock(s, t, height) = UpdateAccount(view, t.senderId, row)
  BY DEF Unlock
<1>2. Touches(s.view, left, F)
  BY TouchesVotes
<1>3. Touches(left, [left EXCEPT !.votes = @ \ VotesOf(s.table, t.senderId)], F)
  <2> HIDE DEF left
  <2> QED BY <1>2, TouchesField, TouchedTables
<1>4. Touches(s.view, view, F)
  <2>1. DeleteCreatedVotes(s, t.senderId) \in {[left EXCEPT !.votes = @ \ VotesOf(s.table, t.senderId)], s.view}
    BY DEF DeleteCreatedVotes
  <2> HIDE DEF left
  <2> QED BY <2>1, <1>2, <1>3, TouchesTouches, TouchesSelf
<1> HIDE DEF view, row, left
<1>5. Touches(view, UpdateAccount(view, t.senderId, row), F)
  BY <1>4, TouchesUpdate, TouchedTables
<1> QED BY <1>1, <1>4, <1>5, TouchesTouches

LEMMA DelegateTouches ==
  ASSUME NEW s, IsTables(s.view), NEW t, NEW height, RegisterDelegate(s, t, height) # Refused
  PROVE  Touches(s.view, RegisterDelegate(s, t, height), {"account", "delegate"})
<1> DEFINE F == {"account", "delegate"}
           account == Sender(s, t)
           marked == UpdateAccount(s.view, t.senderId, [account EXCEPT !.isDelegate = TRUE])
<1>1. RegisterDelegate(s, t, height)
        = [marked EXCEPT !.delegate = With(@, account.username, NewDelegate(t.senderId))]
  BY DEF RegisterDelegate
<1>2. Touches(s.view, marked, F)
  BY TouchesUpdate
<1> HIDE DEF marked
<1>3. Touches(marked, [marked EXCEPT !.delegate = With(@, account.username, NewDelegate(t.senderId))], F)
  BY <1>2, TouchesField, TouchedTables
<1> QED BY <1>1, <1>2, <1>3, TouchesTouches

LEMMA VoteTouches ==
  ASSUME NEW s, IsTables(s.view), NEW t, NEW height
  PROVE  /\ Vote(s, t, height) # Refused => Touches(s.view, Vote(s, t, height), {"delegate", "votes"})
         /\ Unvote(s, t, height) # Refused => Touches(s.view, Unvote(s, t, height), {"delegate", "votes"})
<1> DEFINE F == {"delegate", "votes"}
           more == IncreaseVotes(s.view, ToSet(t.delegates), Sender(s, t).lockAmount)
           less == IncreaseVotes(s.view, ToSet(t.delegates), - Sender(s, t).lockAmount)
<1>1. /\ Vote(s, t, height) \in {Refused, [more EXCEPT !.votes = @ \cup VoteItems(t)]}
      /\ Unvote(s, t, height) \in {Refused, [less EXCEPT !.votes = @ \ VoteItems(t)]}
  BY DEF Vote, Unvote
<1>2. Touches(s.view, more, F) /\ Touches(s.view, less, F)
  BY TouchesVotes
<1> HIDE DEF more, less
<1>3. /\ Touches(more, [more EXCEPT !.votes = @ \cup VoteItems(t)], F)
      /\ Touches(less, [less EXCEPT !.votes = @ \ VoteItems(t)], F)
  BY <1>2, TouchesField, TouchedTables
<1> QED BY <1>1, <1>2, <1>3, TouchesTouches

LEMMA OtherTouches ==
  ASSUME NEW s, IsTables(s.view), NEW t, NEW height
  PROVE  /\ RegisterIssuer(s, t, height) # Refused => Touches(s.view, RegisterIssuer(s, t, height), {"issuer"})
         /\ RegisterAsset(s, t, height) # Refused => Touches(s.view, RegisterAsset(s, t, height), {"asset"})
         /\ UploadData(s, t, height) # Refused => Touches(s.view, UploadData(s, t, height), {"mldata"})
         /\ GetPredictionCategory(s, t, height) # Refused
              => Touches(s.view, GetPredictionCategory(s, t, height), {"prediction"})
BY TouchesField DEF RegisterIssuer, RegisterAsset, UploadData, GetPredictionCategory

LEMMA TouchesBalance ==
  ASSUME NEW v, IsTables(v), NEW key, NEW x, NEW F, "balance" \in F
  PROVE  Touches(v, IncreaseBalance(v, key, x), F)
BY TouchesField, TouchesSelf DEF IncreaseBalance

LEMMA IssueTouches ==
  ASSUME NEW s, IsTables(s.view), NEW t, NEW height, Issue(s, t, height) # Refused
  PROVE  Touches(s.view, Issue(s, t, height), {"asset", "balance"})
<1> DEFINE F == {"asset", "balance"}
           rows == [s.view.asset EXCEPT ![t.currency].quantity
                                          = s.table.asset[t.currency].quantity + t.amount]
           more == [s.view EXCEPT !.asset = rows]
<1>1. Issue(s, t, height) = IncreaseBalance(more, <<t.senderId, t.currency>>, t.amount)
  BY DEF Issue
<1> HIDE DEF rows
<1>2. Touches(s.view, more, F)
  BY TouchesField
<1> HIDE DEF more
<1>3. Touches(more, Issue(s, t, height), F)
  BY <1>1, <1>2, TouchesBalance, TouchedTables
<1> QED BY <1>2, <1>3, TouchesTouches

LEMMA TransferAssetTouches ==
  ASSUME NEW s, IsTables(s.view), NEW t, NEW height, TransferAsset(s, t, height) # Refused
  PROVE  Touches(s.view, TransferAsset(s, t, height), {"balance", "transfers"})
<1> DEFINE F == {"balance", "transfers"}
           to == CHOOSE a \in Recipients(s.table, t.recipient) : TRUE
           given == IncreaseBalance(s.view, <<t.senderId, t.currency>>, - t.amount)
           taken == IncreaseBalance(given, <<to, t.currency>>, t.amount)
<1>1. TransferAsset(s, t, height) = [taken EXCEPT !.transfers = @ \cup {t.id}]
  BY DEF TransferAsset, TransferBalance
<1>2. Touches(s.view, given, F)
  BY TouchesBalance
<1> HIDE DEF given
<1>3. Touches(given, taken, F)
  BY <1>2, TouchesBalance, TouchedTables
<1> HIDE DEF taken
<1>4. Touches(taken, [taken EXCEPT !.transfers = @ \cup {t.id}], F)
  BY <1>3, TouchesField, TouchedTables
<1> QED BY <1>1, <1>2, <1>3, <1>4, TouchesTouches

-----------------------------------------------------------------------------
(* Assets and what is held of them                                         *)

(* Keys of the balances in a currency, and their sum *)
Holdings(v, c) == {key \in DOMAIN v.balance : key[2] = c}
Held(v, c) == Sum(v.balance, Holdings(v, c))

(* Balances are numbers, a finite number of them, of assets there are *)
BalancesOK(v) ==
  /\ IsFiniteSet(DOMAIN v.balance)
  /\ \A key \in DOMAIN v.balance : v.balance[key] \in Int /\ key[2] \in DOMAIN v.asset

AssetRow(row) ==
  /\ row = [maximum |-> row.maximum, quantity |-> row.quantity, issuerId |-> row.issuerId]
  /\ row.maximum \in Int /\ row.quantity \in Int
  /\ row.quantity <= row.maximum

LEMMA HoldingsFinite ==
  ASSUME NEW v, BalancesOK(v), NEW c
  PROVE  /\ IsFiniteSet(Holdings(v, c))
         /\ \A key \in Holdings(v, c) : v.balance[key] \in Int
BY FS_Subset DEF BalancesOK, Holdings

LEMMA HeldInt ==
  ASSUME NEW v, BalancesOK(v), NEW c
  PROVE  Held(v, c) \in Int
BY HoldingsFinite, SumType DEF Held

LEMMA BalanceTables ==
  ASSUME NEW v, IsTables(v), NEW key, NEW amount
  PROVE  IsTables(IncreaseBalance(v, key, amount))
BY DEF IncreaseBalance, IsTables, Fields

(* One balance is increased *)
LEMMA HeldIncrease ==
  ASSUME NEW v, IsTables(v), BalancesOK(v), NEW key, NEW amount \in Int, key[2] \in DOMAIN v.asset,
         NEW w, w = IncreaseBalance(v, key, amount), NEW c
  PROVE  /\ BalancesOK(w) /\ w.asset = v.asset
         /\ Held(w, c) = IF c = key[2] THEN Held(v, c) + amount ELSE Held(v, c)
<1>0. Held(v, c) \in Int
  BY HeldInt
<1>1. CASE amount = 0
  <2>1. w = v
    BY <1>1 DEF IncreaseBalance
  <2> QED BY <1>0, <1>1, <2>1
<1>2. CASE amount # 0
  <2> DEFINE rows == With(v.balance, key, BalanceOf(v, key) + amount)
  <2>1. w.balance = rows /\ w.asset = v.asset
    BY <1>2 DEF IncreaseBalance, IsTables, Fields
  <2>2. /\ DOMAIN rows = DOMAIN v.balance \cup {key}
        /\ rows[key] = BalanceOf(v, key) + amount
        /\ \A k \in DOMAIN v.balance \ {key} : rows[k] = v.balance[k]
    BY DEF With
  <2>3. BalanceOf(v, key) \in Int
    BY DEF BalanceOf, BalancesOK
  <2> HIDE DEF rows
  <2>4. BalancesOK(w)
    <3>1. IsFiniteSet(DOMAIN w.balance)
      BY <2>1, <2>2, FS_AddElement DEF BalancesOK
    <3>2. ASSUME NEW k \in DOMAIN w.balance
          PROVE  w.balance[k] \in Int /\ k[2] \in DOMAIN w.asset
      BY <2>1, <2>2, <2>3 DEF BalancesOK
    <3> QED BY <3>1, <3>2 DEF BalancesOK
  <2>5. /\ IsFiniteSet(Holdings(v, c))
        /\ \A k \in Holdings(v, c) : v.balance[k] \in Int
    BY HoldingsFinite
  <2>6. CASE c # key[2]
    <3>1. Holdings(w, c) = Holdings(v, c)
      BY <2>1, <2>2, <2>6 DEF Holdings
    <3>2. \A k \in Holdings(v, c) : w.balance[k] = v.balance[k]
      BY <2>1, <2>2, <2>6 DEF Holdings
    <3>3. Held(w, c) = Held(v, c)
      BY <2>5, <3>1, <3>2, SumEqual DEF Held
    <3> QED BY <2>1, <2>4, <2>6, <3>3
  <2>7. CASE c = key[2] /\ key \in DOMAIN v.balance
    <3>1. Holdings(w, c) = Holdings(v, c) /\ key \in Holdings(v, c)
      BY <2>1, <2>2, <2>7 DEF Holdings
    <3>2. \A k \in Holdings(v, c) \ {key} : w.balance[k] = v.balance[k]
      BY <2>1, <2>2, <2>7 DEF Holdings
    <3>3. w.balance[key] = v.balance[key] + amount /\ v.balance[key] \in Int
      BY <2>1, <2>2, <2>7 DEF BalanceOf, BalancesOK
    <3>4. Held(w, c) = Held(v, c) - v.balance[key] + w.balance[key]
      <4>1. w.balance[key] \in Int
        BY <3>3
      <4> QED BY <2>5, <3>1, <3>2, <4>1, SumChange DEF Held
    <3> QED BY <1>0, <2>1, <2>4, <2>7, <3>3, <3>4
  <2>8. CASE c = key[2] /\ key \notin DOMAIN v.balance
    <3>1. Holdings(w, c) = Holdings(v, c) \cup {key} /\ key \notin Holdings(v, c)
      BY <2>1, <2>2, <2>8 DEF Holdings
    <3>2. \A k \in Holdings(v, c) : w.balance[k] = v.balance[k]
      BY <2>1, <2>2, <2>8 DEF Holdings
    <3>3. w.balance[key] = amount
      BY <2>1, <2>2, <2>8 DEF BalanceOf
    <3>4. Held(w, c) = Held(v, c) + w.balance[key]
      <4>1. w.balance[key] \in Int
        BY <3>3
      <4>2. Sum(w.balance, Holdings(v, c) \cup {key}) = Sum(v.balance, Holdings(v, c)) + w.balance[key]
        <5> DEFINE S == Holdings(v, c)
                   f == v.balance
                   h == w.balance
        <5>1. IsFiniteSet(S) /\ (\A k \in S : f[k] \in Int) /\ key \notin S
          BY <2>5, <3>1
        <5>2. h[key] \in Int /\ \A k \in S : h[k] = f[k]
          BY <3>2, <4>1
        <5> HIDE DEF S, f, h
        <5>3. Sum(h, S \cup {key}) = Sum(f, S) + h[key]
          BY ONLY <5>1, <5>2, SumAdd
        <5> QED BY <5>3 DEF S, f, h
      <4> QED BY <3>1, <4>2 DEF Held
    <3> QED BY <2>1, <2>4, <2>8, <3>3, <3>4
  <2> QED BY <2>6, <2>7, <2>8
<1> QED BY <1>1, <1>2

(***************************************************************************)
(* What is issued is what is held; and what the tables say of an asset is  *)
(* what the session does, but for those it has the lock of.                *)
(***************************************************************************)
Backed(v) ==
  /\ BalancesOK(v)
  /\ \A c \in DOMAIN v.asset : AssetRow(v.asset[c]) /\ v.asset[c].quantity = Held(v, c)

InStep(s) ==
  /\ \A c \in DOMAIN s.table.asset :
       /\ c \in DOMAIN s.view.asset
       /\ s.view.asset[c].maximum = s.table.asset[c].maximum
       /\ <<"uia.issue", c>> \notin s.locks => s.view.asset[c].quantity = s.table.asset[c].quantity
  /\ \A c \in DOMAIN s.view.asset \ DOMAIN s.table.asset : <<"uia.registerAsset", c>> \in s.locks

AssetsOK(s) == IsTables(s.view) /\ Backed(s.view) /\ InStep(s)

SameAssets(v, w) == IsTables(w) /\ w.asset = v.asset /\ w.balance = v.balance

LEMMA BackedSame ==
  ASSUME NEW v, NEW w, Backed(v), SameAssets(v, w)
  PROVE  Backed(w)
BY DEF Backed, SameAssets, BalancesOK, Held, Holdings

(* Other locks, and nothing of the assets *)
LEMMA AssetsSame ==
  ASSUME NEW s, NEW r, AssetsOK(s), r.table = s.table, s.locks \subseteq r.locks,
         SameAssets(s.view, r.view)
  PROVE  AssetsOK(r)
BY BackedSame DEF AssetsOK, InStep, SameAssets

LEMMA OverBacked ==
  ASSUME NEW tables, IsTables(tables), Backed(tables)
  PROVE  AssetsOK(SessionOver(tables))
BY DEF AssetsOK, InStep, SessionOver

LEMMA RegisterAssetBacked ==
  ASSUME NEW s, AssetsOK(s), NEW t, t.maximum \in Nat, NEW height, RegisterAsset(s, t, height) # Refused,
         LockNames(s, t, height) \cap s.locks = {}, t.type = "registerAsset",
         NEW r, r.view = RegisterAsset(s, t, height), r.table = s.table,
         r.locks = s.locks \cup LockNames(s, t, height)
  PROVE  AssetsOK(r)
<1> DEFINE name == CHOOSE n \in FullNames(s, t) : TRUE
           row == [maximum |-> t.maximum, quantity |-> 0, issuerId |-> t.senderId]
           rows == With(s.view.asset, name, row)
<1>1. /\ FullNames(s, t) # {} /\ FullNames(s, t) \cap DOMAIN s.table.asset = {}
      /\ r.view = [s.view EXCEPT !.asset = rows]
  BY DEF RegisterAsset
<1>2. name \in FullNames(s, t)
  BY <1>1
<1>3. LockNames(s, t, height) = {<<"uia.registerAsset", n>> : n \in FullNames(s, t)}
  BY DEF LockNames
<1>4. IsTables(s.view) /\ Backed(s.view) /\ InStep(s)
  BY DEF AssetsOK
<1> HIDE DEF name
<1>5. name \notin DOMAIN s.table.asset /\ name \notin DOMAIN s.view.asset
  BY <1>1, <1>2, <1>3, <1>4 DEF InStep
<1>6. /\ DOMAIN rows = DOMAIN s.view.asset \cup {name} /\ rows[name] = row
      /\ \A c \in DOMAIN s.view.asset : rows[c] = s.view.asset[c]
  BY <1>5 DEF With
<1> HIDE DEF rows
<1>7. IsTables(r.view) /\ r.view.asset = rows /\ r.view.balance = s.view.balance
  BY <1>1, <1>4 DEF IsTables, Fields
<1>8. \A c : Holdings(r.view, c) = Holdings(s.view, c) /\ Held(r.view, c) = Held(s.view, c)
  BY <1>7 DEF Holdings, Held
<1>9. Held(r.view, name) = 0
  <2>1. Holdings(r.view, name) = {}
    BY <1>4, <1>5, <1>7 DEF Backed, BalancesOK, Holdings
  <2> QED BY <2>1, SumEmpty DEF Held
<1>10. Backed(r.view)
  <2>1. BalancesOK(r.view)
    BY <1>4, <1>6, <1>7 DEF Backed, BalancesOK
  <2>2. AssetRow(row)
    BY DEF AssetRow
  <2>3. ASSUME NEW c \in DOMAIN r.view.asset
        PROVE  AssetRow(r.view.asset[c]) /\ r.view.asset[c].quantity = Held(r.view, c)
    <3>1. CASE c = name
      BY <1>6, <1>7, <1>9, <2>2, <3>1
    <3>2. CASE c # name
      BY <1>4, <1>6, <1>7, <1>8, <3>2 DEF Backed
    <3> QED BY <3>1, <3>2
  <2> QED BY <2>1, <2>3 DEF Backed
<1>11. InStep(r)
  BY <1>2, <1>3, <1>4, <1>5, <1>6, <1>7 DEF InStep
<1> QED BY <1>7, <1>10, <1>11 DEF AssetsOK

LEMMA IssueBacked ==
  ASSUME NEW s, AssetsOK(s), NEW t, t.amount \in Int, NEW height, Issue(s, t, height) # Refused,
         LockNames(s, t, height) \cap s.locks = {}, t.type = "issue",
         NEW r, r.view = Issue(s, t, height), r.table = s.table,
         r.locks = s.locks \cup LockNames(s, t, height)
  PROVE  AssetsOK(r)
<1> DEFINE c == t.currency
           quantity == s.table.asset[c].quantity + t.amount
           rows == [s.view.asset EXCEPT ![c].quantity = quantity]
           more == [s.view EXCEPT !.asset = rows]
           key == <<t.senderId, c>>
<1>1. /\ c \in DOMAIN s.table.asset /\ quantity <= s.table.asset[c].maximum
      /\ r.view = IncreaseBalance(more, key, t.amount)
  BY DEF Issue
<1>2. LockNames(s, t, height) = {<<"uia.issue", c>>}
  BY DEF LockNames
<1>3. IsTables(s.view) /\ Backed(s.view) /\ InStep(s)
  BY DEF AssetsOK
<1>4. /\ c \in DOMAIN s.view.asset /\ AssetRow(s.view.asset[c])
      /\ s.view.asset[c].maximum = s.table.asset[c].maximum
      /\ s.view.asset[c].quantity = s.table.asset[c].quantity
      /\ s.view.asset[c].quantity = Held(s.view, c)
  BY <1>1, <1>2, <1>3 DEF InStep, Backed
<1>5. /\ DOMAIN rows = DOMAIN s.view.asset
      /\ rows[c] = [maximum |-> s.view.asset[c].maximum, quantity |-> quantity,
                    issuerId |-> s.view.asset[c].issuerId]
      /\ \A d \in DOMAIN s.view.asset \ {c} : rows[d] = s.view.asset[d]
  BY <1>4 DEF AssetRow
<1>6. quantity = Held(s.view, c) + t.amount /\ quantity \in Int /\ quantity <= s.view.asset[c].maximum
  BY <1>1, <1>4 DEF AssetRow
<1>14. key[2] = c
  OBVIOUS
<1> HIDE DEF rows, quantity
<1>7. IsTables(more) /\ more.asset = rows /\ more.balance = s.view.balance
  BY <1>3 DEF IsTables, Fields
<1> HIDE DEF more, key
<1>8. BalancesOK(more) /\ \A d : Held(more, d) = Held(s.view, d)
  BY <1>3, <1>5, <1>7 DEF Backed, BalancesOK, Held, Holdings
<1>9. key[2] \in DOMAIN more.asset
  BY <1>4, <1>5, <1>7, <1>14
<1> HIDE DEF c
<1>10. /\ BalancesOK(r.view) /\ r.view.asset = rows
       /\ \A d : Held(r.view, d) = IF d = c THEN Held(s.view, d) + t.amount ELSE Held(s.view, d)
  BY <1>1, <1>7, <1>8, <1>9, <1>14, HeldIncrease
<1>11. AssetRow(rows[c]) /\ rows[c].quantity = quantity /\ rows[c].maximum = s.view.asset[c].maximum
  BY <1>4, <1>5, <1>6 DEF AssetRow
<1>12. Backed(r.view)
  <2>1. ASSUME NEW d \in DOMAIN r.view.asset
        PROVE  AssetRow(r.view.asset[d]) /\ r.view.asset[d].quantity = Held(r.view, d)
    <3>1. CASE d = c
      BY <1>6, <1>10, <1>11, <3>1
    <3>2. CASE d # c
      BY <1>3, <1>5, <1>10, <3>2 DEF Backed
    <3> QED BY <3>1, <3>2
  <2> QED BY <1>10, <2>1 DEF Backed
<1>13. InStep(r)
  BY <1>2, <1>3, <1>4, <1>5, <1>10, <1>11 DEF InStep
<1>15. IsTables(r.view)
  BY <1>1, <1>7, BalanceTables
<1> QED BY <1>12, <1>13, <1>15 DEF AssetsOK

LEMMA TransferAssetBacked ==
  ASSUME NEW s, AssetsOK(s), NEW t, t.amount \in Nat \ {0}, NEW height, TransferAsset(s, t, height) # Refused,
         NEW r, r.view = TransferAsset(s, t, height), r.table = s.table, s.locks \subseteq r.locks
  PROVE  AssetsOK(r)
<1> DEFINE to == CHOOSE a \in Recipients(s.table, t.recipient) : TRUE
           c == t.currency
           from == <<t.senderId, c>>
           dest == <<to, c>>
           given == IncreaseBalance(s.view, from, - t.amount)
           taken == IncreaseBalance(given, dest, t.amount)
<1>1. /\ BalanceOf(s.view, <<t.senderId, t.currency>>) >= t.amount
      /\ r.view = [taken EXCEPT !.transfers = @ \cup {t.id}]
  BY DEF TransferAsset, TransferBalance
<1>2. IsTables(s.view) /\ Backed(s.view) /\ InStep(s)
  BY DEF AssetsOK
<1>3. from \in DOMAIN s.view.balance
  BY <1>1 DEF BalanceOf
<1>4. from[2] = c /\ dest[2] = c
  OBVIOUS
<1>5. c \in DOMAIN s.view.asset
  BY <1>2, <1>3, <1>4 DEF Backed, BalancesOK
<1> HIDE DEF c, from, dest
<1>6. IsTables(given) /\ BalancesOK(given) /\ given.asset = s.view.asset
      /\ \A d : Held(given, d) = IF d = c THEN Held(s.view, d) + (- t.amount) ELSE Held(s.view, d)
  <2>1. - t.amount \in Int
    OBVIOUS
  <2>2. BalancesOK(s.view) /\ from[2] \in DOMAIN s.view.asset
    BY <1>2, <1>4, <1>5 DEF Backed
  <2>3. IsTables(given)
    BY <1>2, BalanceTables
  <2>4. ASSUME NEW d
        PROVE  /\ BalancesOK(given) /\ given.asset = s.view.asset
               /\ Held(given, d) = IF d = from[2] THEN Held(s.view, d) + (- t.amount) ELSE Held(s.view, d)
    BY <1>2, <2>1, <2>2, HeldIncrease
  <2> QED BY <1>4, <2>3, <2>4
<1> HIDE DEF given
<1>7. IsTables(taken) /\ BalancesOK(taken) /\ taken.asset = s.view.asset
      /\ \A d : Held(taken, d) = IF d = c THEN Held(given, d) + t.amount ELSE Held(given, d)
  <2>1. t.amount \in Int
    OBVIOUS
  <2>2. dest[2] \in DOMAIN given.asset
    BY <1>4, <1>5, <1>6
  <2>3. IsTables(taken)
    BY <1>6, BalanceTables
  <2>4. ASSUME NEW d
        PROVE  /\ BalancesOK(taken) /\ taken.asset = given.asset
               /\ Held(taken, d) = IF d = dest[2] THEN Held(given, d) + t.amount ELSE Held(given, d)
    BY <1>6, <2>1, <2>2, HeldIncrease
  <2> QED BY <1>4, <1>6, <2>3, <2>4
<1> HIDE DEF taken
<1>8. IsTables(r.view) /\ r.view.asset = s.view.asset /\ r.view.balance = taken.balance
  BY <1>1, <1>7 DEF IsTables, Fields
<1>9. BalancesOK(r.view) /\ \A d : Held(r.view, d) = Held(taken, d)
  BY <1>7, <1>8 DEF BalancesOK, Held, Holdings
<1>10. ASSUME NEW d PROVE Held(r.view, d) = Held(s.view, d)
  <2>1. Held(s.view, d) \in Int
    BY <1>2, HeldInt DEF Backed
  <2> QED BY <1>6, <1>7, <1>9, <2>1
<1>11. Backed(r.view)
  BY <1>2, <1>8, <1>9, <1>10 DEF Backed
<1> QED BY <1>2, <1>8, <1>11 DEF AssetsOK, InStep

-----------------------------------------------------------------------------
(* Every step leaves the sums of the balances what the assets say          *)

LEMMA TouchesNoAssets ==
  ASSUME NEW v, NEW w, NEW F, Touches(v, w, F), "asset" \notin F, "balance" \notin F
  PROVE  SameAssets(v, w)
BY DEF Touches, SameAssets, Fields

LEMMA CallSameAssets ==
  ASSUME NEW s, IsTables(s.view), NEW t, NEW height, Call(s, t, height) # Refused,
         t.type \notin {"registerAsset", "issue", "transferAsset"}
  PROVE  SameAssets(s.view, Call(s, t, height))
<1> DEFINE w == Call(s, t, height)
<1>1. \/ Touches(s.view, w, {"account", "transfers"})
      \/ Touches(s.view, w, {"account"})
      \/ Touches(s.view, w, {"account", "delegate"})
      \/ Touches(s.view, w, {"account", "delegate", "votes"})
      \/ Touches(s.view, w, {"delegate", "votes"})
      \/ Touches(s.view, w, {"issuer"})
      \/ Touches(s.view, w, {"mldata"})
      \/ Touches(s.view, w, {"prediction"})
  BY TransferTouches, AccountTouches, LockTouches, UnlockTouches, DelegateTouches, VoteTouches,
     OtherTouches DEF Call
<1> HIDE DEF w
<1>2. SameAssets(s.view, w)
  BY <1>1, TouchesNoAssets
<1> QED BY <1>2 DEF w

LEMMA ChargedAssets ==
  ASSUME NEW s, Formed(s), AssetsOK(s), NEW t, NEW height
  PROVE  LET r == Charged(s, t, height)
         IN  AssetsOK(r) /\ Formed(r) /\ r.table = s.table /\ r.locks = s.locks
<1>1. CASE height = 0
  BY <1>1 DEF Charged
<1>2. CASE height # 0
  <2> DEFINE rows == [s.view.account EXCEPT ![t.senderId].gny = @ - t.fee]
             charged == Charged(s, t, height)
  <2>1. charged = [s EXCEPT !.view = [s.view EXCEPT !.account = rows]]
    BY <1>2 DEF Charged
  <2> HIDE DEF rows, charged
  <2>2. /\ charged.view = [s.view EXCEPT !.account = rows]
        /\ charged.table = s.table /\ charged.locks = s.locks /\ Formed(charged)
    BY <2>1 DEF Formed
  <2>3. SameAssets(s.view, charged.view)
    BY <2>2 DEF AssetsOK, SameAssets, IsTables, Fields
  <2>4. AssetsOK(charged)
    BY <2>2, <2>3, AssetsSame
  <2> QED BY <2>2, <2>4 DEF charged
<1> QED BY <1>1, <1>2

LEMMA ApplyAssets ==
  ASSUME NEW s, Formed(s), AssetsOK(s), NEW id \in TrsIds, NEW height,
         NEW r, r = Apply(s, Content[id], height), r # Refused
  PROVE  AssetsOK(r)
<1> DEFINE t == Content[id]
           charged == Charged(s, t, height)
           names   == LockNames(charged, t, height)
           result  == Call(charged, t, height)
<1>1. AssetsOK(charged) /\ charged.table = s.table /\ charged.locks = s.locks
  BY ChargedAssets
<1>2. result # Refused /\ names \cap s.locks = {} /\ r = [s EXCEPT !.view = result, !.locks = @ \cup names]
  BY DEF Apply
<1>0. /\ t.type \in {"issue", "transferAsset"} => t.amount \in Nat \ {0}
      /\ t.type = "registerAsset" => t.maximum \in Nat \ {0}
  BY ContractsAssumption
<1>3. /\ r.view = result /\ r.table = charged.table /\ r.locks = charged.locks \cup names
      /\ names \cap charged.locks = {}
  BY <1>1, <1>2 DEF Formed
<1>4. charged.locks \subseteq r.locks
  BY <1>3
<1> HIDE DEF charged, t
<1>5. CASE t.type = "registerAsset"
  <2>1. result = RegisterAsset(charged, t, height)
    BY <1>5 DEF Call
  <2> QED BY <1>0, <1>1, <1>2, <1>3, <1>5, <2>1, RegisterAssetBacked
<1>6. CASE t.type = "issue"
  <2>1. result = Issue(charged, t, height)
    BY <1>6 DEF Call
  <2>2. t.amount \in Int
    BY <1>0, <1>6
  <2> QED BY <2>2, <1>1, <1>2, <1>3, <1>6, <2>1, IssueBacked
<1>7. CASE t.type = "transferAsset"
  <2>1. result = TransferAsset(charged, t, height)
    BY <1>7 DEF Call
  <2> QED BY <1>0, <1>1, <1>2, <1>3, <1>4, <1>7, <2>1, TransferAssetBacked
<1>8. CASE t.type \notin {"registerAsset", "issue", "transferAsset"}
  <2>1. SameAssets(charged.view, result)
    BY <1>1, <1>2, <1>8, CallSameAssets DEF AssetsOK
  <2> HIDE DEF result, names
  <2> QED BY <1>1, <1>3, <1>4, <2>1, AssetsSame
<1> QED BY <1>5, <1>6, <1>7, <1>8

LEMMA ApplyUnconfirmedAssets ==
  ASSUME NEW s, Formed(s), AssetsOK(s), NEW id \in TrsIds, NEW h
  PROVE  AssetsOK(ApplyUnconfirmed(s, id, h).session)
<1> DEFINE t == Content[id]
           ready == WithSender(s, t)
           r == ApplyUnconfirmed(s, id, h).session
<1>1. \/ r \in {s, ready}
      \/ Apply(ready, t, h + 1) # Refused /\ r = Apply(ready, t, h + 1)
  BY DEF ApplyUnconfirmed
<1>2. AssetsOK(ready) /\ Formed(ready)
  <2>1. CASE t.senderId \in DOMAIN s.view.account
    BY <2>1 DEF WithSender
  <2>2. CASE t.senderId \notin DOMAIN s.view.account
    <3> DEFINE rows == With(s.view.account, t.senderId, NewAccount(0))
    <3>1. ready = [s EXCEPT !.view = [s.view EXCEPT !.account = rows]]
      BY <2>2 DEF WithSender
    <3> HIDE DEF rows, ready
    <3>2. /\ ready.view = [s.view EXCEPT !.account = rows]
          /\ ready.table = s.table /\ ready.locks = s.locks /\ Formed(ready)
      BY <3>1 DEF Formed
    <3>3. SameAssets(s.view, ready.view)
      BY <3>2 DEF AssetsOK, SameAssets, IsTables, Fields
    <3> QED BY <3>2, <3>3, AssetsSame
  <2> QED BY <2>1, <2>2
<1> HIDE DEF r, ready
<1>3. CASE r \in {s, ready}
  BY <1>2, <1>3 DEF r
<1>4. CASE Apply(ready, t, h + 1) # Refused /\ r = Apply(ready, t, h + 1)
  BY <1>2, <1>4, ApplyAssets DEF r
<1> QED BY <1>1, <1>3, <1>4

LEMMA ApplyBlockAssets ==
  ASSUME NEW s, Formed(s), AssetsOK(s), NEW trs \in Seq(TrsIds), NEW h
  PROVE  AssetsOK(ApplyBlock(s, trs, h).session)
<1> DEFINE Good(r) == Formed(r.session) /\ AssetsOK(r.session)
           n == Len(trs)
<1>1. n \in Nat /\ DOMAIN trs = 1 .. n /\ \A i \in 1 .. n : trs[i] \in TrsIds
  OBVIOUS
<1>2. PICK done : AppliedUpTo(done, s, trs, h, n) /\ ApplyBlock(s, trs, h) = done[n]
  BY <1>1, ApplyBlockRun
<1> HIDE DEF n
<1> DEFINE T == {i \in Nat : i <= n => Good(done[i])}
<1>3. 0 \in T
  <2>0. done[0] = Fresh(s)
    BY <1>1, <1>2, AppliedStep
  <2> QED BY <2>0 DEF Fresh
<1>4. ASSUME NEW i \in Nat, i \in T PROVE i + 1 \in T
  <2>1. SUFFICES ASSUME i + 1 <= n PROVE Good(done[i + 1])
    OBVIOUS
  <2>2. done[i + 1] = ApplyNext(done[(i + 1) - 1], trs[i + 1], h) /\ (i + 1) - 1 = i
    BY <1>1, <1>2, <2>1, AppliedStep
  <2>3. Good(done[i]) /\ trs[i + 1] \in TrsIds
    BY <1>1, <1>4, <2>1
  <2> DEFINE r == done[i].session
             u == ApplyUnconfirmed(r, trs[i + 1], h)
  <2>4. done[i + 1] \in {done[i], u}
    BY <2>2 DEF ApplyNext
  <2>5. Formed(r) /\ AssetsOK(r)
    BY <2>3
  <2> HIDE DEF r
  <2>6. AssetsOK(u.session) /\ Follows(r, u.session)
    BY <2>3, <2>5, ApplyUnconfirmedAssets, ApplyUnconfirmedFollows
  <2> HIDE DEF u
  <2>7. Formed(u.session)
    BY <2>6 DEF Follows, Formed
  <2> QED BY <2>3, <2>4, <2>6, <2>7
<1> HIDE DEF T
<1>5. Nat \subseteq T
  BY <1>3, <1>4, SetInduction
<1>6. Good(done[n])
  BY <1>1, <1>5 DEF T
<1> QED BY <1>2, <1>6

LEMMA ProcessAssets ==
  ASSUME NEW ps, NEW tables, PoolTyped(ps, tables), AssetsOK(ps.session),
         NEW collecting, NEW id \in TrsIds, NEW h
  PROVE  AssetsOK(ProcessUnconfirmed(ps, collecting, id, h).session)
<1> DEFINE next == ProcessUnconfirmed(ps, collecting, id, h)
           applied == ApplyUnconfirmed(ps.session, id, h)
<1>1. next.session \in {ps.session, applied.session}
  BY ProcessCases
<1>2. AssetsOK(applied.session)
  BY ApplyUnconfirmedAssets DEF PoolTyped
<1> HIDE DEF next, applied
<1> QED BY <1>1, <1>2 DEF next

LEMMA ProcessAllAssets ==
  ASSUME NEW ps, NEW tables, PoolTyped(ps, tables), AssetsOK(ps.session),
         NEW h \in Nat, NEW ids \in Seq(Senders), NEW collecting
  PROVE  AssetsOK(ProcessAll(ps, collecting, ids, h).session)
<1> DEFINE n == Len(ids)
           Good(r) == PoolTyped(r, tables) /\ AssetsOK(r.session)
<1>1. n \in Nat /\ DOMAIN ids = 1 .. n /\ \A i \in 1 .. n : ids[i] \in Senders
  OBVIOUS
<1>3. PICK done : DoneUpTo(done, ps, collecting, ids, h, n) /\ ProcessAll(ps, collecting, ids, h) = done[n]
  BY <1>1, ProcessAllRun
<1> HIDE DEF n
<1> DEFINE T == {i \in Nat : i <= n => Good(done[i])}
<1>4. 0 \in T
  BY <1>1, <1>3, DoneStep
<1>5. ASSUME NEW i \in Nat, i \in T PROVE i + 1 \in T
  <2>1. SUFFICES ASSUME i + 1 <= n PROVE Good(done[i + 1])
    OBVIOUS
  <2>2. Good(done[i]) /\ ids[i + 1] \in Senders /\ ids[i + 1] \in TrsIds
    BY <1>1, <1>5, <2>1, ExecutionAssumption
  <2>3. done[i + 1] = ProcessNext(done[(i + 1) - 1], collecting, ids[i + 1], h) /\ (i + 1) - 1 = i
    BY <1>1, <1>3, <2>1, DoneStep
  <2> DEFINE r == done[i]
             next == ProcessUnconfirmed(r, collecting, ids[i + 1], h)
  <2>4. Good(r)
    BY <2>2
  <2>5. done[i + 1] \in {r, next}
    BY <2>3 DEF ProcessNext
  <2> HIDE DEF r
  <2>6. PoolTyped(next, tables) /\ AssetsOK(next.session)
    BY <2>2, <2>4, ProcessTyped, ProcessAssets
  <2> HIDE DEF next, Good
  <2> QED BY <2>4, <2>5, <2>6 DEF Good
<1> HIDE DEF T, Good
<1>6. Nat \subseteq T
  BY <1>4, <1>5, SetInduction
<1>7. Good(done[n])
  BY <1>1, <1>6 DEF T
<1> QED BY <1>3, <1>7 DEF Good

-----------------------------------------------------------------------------
(* What a block changes in the tables, beyond its transactions *)

BlockFields == {"account", "delegate", "round", "bookkeeper", "transactions"}

LEMMA UpdateDelegateTouches ==
  ASSUME NEW view, IsTables(view), NEW d, NEW fee, NEW reward
  PROVE  Touches(view, UpdateDelegate(view, d, fee, reward), BlockFields)
<1> DEFINE earned == Increase(Increase(view.delegate, {d}, "fees", fee), {d}, "rewards", reward)
           rows == Increase(view.account, {view.delegate[d].address}, "gny", fee + reward)
           first == [view EXCEPT !.delegate = earned]
<1>1. UpdateDelegate(view, d, fee, reward) = [first EXCEPT !.account = rows]
  BY DEF UpdateDelegate, IsTables, Fields
<1> HIDE DEF earned, rows
<1>2. Touches(view, first, BlockFields)
  BY TouchesField DEF BlockFields
<1> HIDE DEF first
<1>3. Touches(first, [first EXCEPT !.account = rows], BlockFields)
  BY <1>2, TouchedTables, TouchesField DEF BlockFields
<1> QED BY <1>1, <1>2, <1>3, TouchesTouches

LEMMA PayForgersTouches ==
  ASSUME NEW view, IsTables(view), NEW forged, DOMAIN forged = 1 .. RoundLength, NEW fee, NEW reward
  PROVE  Touches(view, PayForgers(view, forged, fee, reward), BlockFields)
<1>1. RoundLength \in Nat
  BY RoundsAssumption
<1>3. PICK paid : /\ PaidUpTo(paid, view, forged, fee, reward, RoundLength)
                  /\ PayForgers(view, forged, fee, reward) = paid[RoundLength]
  BY <1>1, PayForgersRun
<1> DEFINE T == {i \in Nat : i <= RoundLength => Touches(view, paid[i], BlockFields)}
<1>4. 0 \in T
  BY <1>1, <1>3, PaidStep, TouchesSelf
<1>5. ASSUME NEW i \in Nat, i \in T PROVE i + 1 \in T
  <2>1. SUFFICES ASSUME i + 1 <= RoundLength PROVE Touches(view, paid[i + 1], BlockFields)
    OBVIOUS
  <2>2. paid[i + 1] = UpdateDelegate(paid[(i + 1) - 1], forged[i + 1], fee, reward) /\ (i + 1) - 1 = i
    BY <1>1, <1>3, <2>1, PaidStep
  <2>3. Touches(view, paid[i], BlockFields)
    BY <1>1, <1>5, <2>1
  <2>4. Touches(paid[i], UpdateDelegate(paid[i], forged[i + 1], fee, reward), BlockFields)
    BY <2>3, TouchedTables, UpdateDelegateTouches
  <2> QED BY <2>2, <2>3, <2>4, TouchesTouches
<1> HIDE DEF T
<1>6. Nat \subseteq T
  BY <1>4, <1>5, SetInduction
<1> QED BY <1>1, <1>3, <1>6 DEF T

LEMMA PayRoundTouches ==
  ASSUME NEW view, IsTables(view), NEW forged, DOMAIN forged = 1 .. RoundLength, NEW delegate, NEW data
  PROVE  Touches(view, PayRound(view, forged, delegate, data), BlockFields)
<1> DEFINE n == Len(view.bookkeeper)
           paid == PayForgers(view, forged, data.fee \div n, data.reward \div n)
<1>1. PayRound(view, forged, delegate, data)
        = UpdateDelegate(paid, delegate, (data.fee \div n) * n - data.fee, (data.reward \div n) * n - data.reward)
  BY DEF PayRound
<1>2. Touches(view, paid, BlockFields)
  BY PayForgersTouches
<1> HIDE DEF paid, n
<1>3. Touches(paid, PayRound(view, forged, delegate, data), BlockFields)
  BY <1>1, <1>2, TouchedTables, UpdateDelegateTouches
<1> QED BY <1>2, <1>3, TouchesTouches

LEMMA TablesAfterTouches ==
  ASSUME NEW view, IsTables(view), NEW blocks, NEW height, NEW block
  PROVE  Touches(view, TablesAfter(view, blocks, height, block), BlockFields)
<1> DEFINE recorded == SaveBlockTransactions(view, block.trs)
           produced == [recorded EXCEPT !.delegate = Increase(@, {block.delegate}, "producedBlocks", 1)]
           counted  == IncreaseRoundData(produced, RoundOf(height), GetFeesOfAll(block.trs), CalculateReward(height))
           forged   == ForgedDelegates(blocks, height, block.delegate)
           missed   == MissBlocks(counted, ToSet(counted.bookkeeper) \ ToSet(forged))
           paid     == PayRound(missed, forged, block.delegate, RoundData(missed, RoundOf(height)))
<1>1. TablesAfter(view, blocks, height, block)
        \in {UpdateBookkeeper(recorded), counted, UpdateBookkeeper(paid)}
  BY DEF TablesAfter, ApplyRound
<1>2. Touches(view, recorded, BlockFields)
  BY TouchesField DEF SaveBlockTransactions, BlockFields
<1> HIDE DEF recorded
<1>3. Touches(recorded, produced, BlockFields)
  BY <1>2, TouchedTables, TouchesField DEF BlockFields
<1> HIDE DEF produced
<1>4. Touches(produced, counted, BlockFields)
  BY <1>3, TouchedTables, TouchesField DEF IncreaseRoundData, BlockFields
<1> HIDE DEF counted
<1>5. Touches(counted, missed, BlockFields)
  BY <1>4, TouchedTables, TouchesField DEF MissBlocks, BlockFields
<1> HIDE DEF missed
<1>6. Touches(missed, paid, BlockFields)
  <2>1. DOMAIN forged = 1 .. RoundLength
    BY DEF ForgedDelegates
  <2> HIDE DEF forged
  <2> QED BY <1>5, <2>1, TouchedTables, PayRoundTouches
<1> HIDE DEF paid
<1>7. /\ Touches(recorded, UpdateBookkeeper(recorded), BlockFields)
      /\ Touches(paid, UpdateBookkeeper(paid), BlockFields)
  BY <1>2, <1>6, TouchedTables, TouchesField DEF UpdateBookkeeper, BlockFields
<1>8. Touches(view, counted, BlockFields)
  BY <1>2, <1>3, <1>4, TouchesTouches
<1>9. Touches(view, paid, BlockFields)
  BY <1>5, <1>6, <1>8, TouchesTouches
<1>10. Touches(view, UpdateBookkeeper(recorded), BlockFields) /\ Touches(view, UpdateBookkeeper(paid), BlockFields)
  BY <1>2, <1>7, <1>9, TouchesTouches
<1> QED BY <1>1, <1>8, <1>10

LEMMA TablesAfterBacked ==
  ASSUME NEW view, IsTables(view), Backed(view), NEW blocks, NEW height, NEW block
  PROVE  LET tables == TablesAfter(view, blocks, height, block) IN IsTables(tables) /\ Backed(tables)
<1> DEFINE tables == TablesAfter(view, blocks, height, block)
<1>1. Touches(view, tables, BlockFields)
  BY TablesAfterTouches
<1> HIDE DEF tables
<1>2. SameAssets(view, tables)
  BY <1>1, TouchesNoAssets DEF BlockFields
<1> QED BY <1>1, <1>2, TouchedTables, BackedSame DEF tables

LEMMA ExecutedBacked ==
  ASSUME NEW s, Formed(s), AssetsOK(s), NEW blocks, NEW height, NEW block, block.trs \in Seq(TrsIds),
         NEW tables, tables = Executed(s, blocks, height, block), tables # Refused
  PROVE  IsTables(tables) /\ Backed(tables)
<1> DEFINE applied == ApplyBlock(s, block.trs, height - 1)
<1>1. tables = TablesAfter(applied.session.view, blocks, height, block)
  BY DEF Executed
<1>2. AssetsOK(applied.session)
  BY ApplyBlockAssets
<1> HIDE DEF applied
<1> QED BY <1>1, <1>2, TablesAfterBacked DEF AssetsOK

-----------------------------------------------------------------------------
(* The invariant *)

AssetsInv ==
  /\ \A h \in 0 .. Height : IsTables(saved[h]) /\ Backed(saved[h])
  /\ AssetsOK(session)

LEMMA InitAssets ==
  ASSUME GenesisValid, Init
  PROVE  AssetsInv
<1>1. IsTables(NoEntities) /\ Backed(NoEntities)
  <2>1. IsTables(NoEntities)
    BY DEF IsTables, NoEntities, Fields
  <2>2. DOMAIN NoEntities.balance = {} /\ DOMAIN NoEntities.asset = {}
    BY DEF NoEntities, NoRows
  <2> QED BY <2>1, <2>2, FS_EmptySet DEF Backed, BalancesOK
<1>2. AssetsOK(SessionOver(NoEntities)) /\ Formed(SessionOver(NoEntities))
  BY <1>1, OverBacked DEF Formed, SessionOver
<1>3. GenesisBlock.trs \in Seq(TrsIds)
  BY ExecutionAssumption DEF GenesisBlock, Block
<1>4. IsTables(GenesisTables) /\ Backed(GenesisTables)
  BY <1>2, <1>3, ExecutedBacked DEF GenesisTables, GenesisValid
<1>5. Height = 0 /\ saved[0] = GenesisTables /\ session = SessionOver(GenesisTables)
  BY InitTyped DEF Init
<1> QED BY <1>4, <1>5, OverBacked DEF AssetsInv

LEMMA GrownAssets ==
  ASSUME ChainTyped, \A h \in 0 .. Height : IsTables(saved[h]) /\ Backed(saved[h]),
         NEW block, NEW tables, IsTables(tables), Backed(tables), Grown(block, tables)
  PROVE  \A h \in 0 .. Height' : IsTables(saved'[h]) /\ Backed(saved'[h])
BY DEF Grown, ChainTyped

LEMMA CutAssets ==
  ASSUME \A h \in 0 .. Height : IsTables(saved[h]) /\ Backed(saved[h]), NEW common, Cut(common)
  PROVE  \A h \in 0 .. Height' : IsTables(saved'[h]) /\ Backed(saved'[h])
BY DEF Cut

LEMMA CommitLocalAssets ==
  ASSUME TypeInv, AssetsInv, NEW block, CommitLocal(block)
  PROVE  AssetsInv'
<1> DEFINE tables == TablesAfter(session.view, chain, Height + 1, block)
<1>1. Commit(block, tables) /\ session' = SessionOver(tables)
  BY DEF CommitLocal
<1>2. IsTables(tables) /\ Backed(tables)
  BY TablesAfterBacked DEF AssetsInv, AssetsOK
<1> HIDE DEF tables
<1>3. Grown(block, tables)
  BY <1>1, CommitGrows DEF TypeInv
<1>4. \A h \in 0 .. Height' : IsTables(saved'[h]) /\ Backed(saved'[h])
  BY <1>2, <1>3, GrownAssets DEF AssetsInv, TypeInv
<1>5. AssetsOK(session')
  BY <1>1, <1>2, OverBacked
<1> QED BY <1>4, <1>5 DEF AssetsInv

LEMMA OnReceiveBlockAssets ==
  ASSUME TypeInv, AssetsInv, NEW block \in OtherBlocks, OnReceiveBlock(block)
  PROVE  AssetsInv'
<1> DEFINE tables == Executed(RolledBack, chain, Height + 1, block)
           empty == [session |-> SessionOver(saved'[Height']), pool |-> <<>>, failed |-> failedTrs, ok |-> TRUE]
           filled == ProcessAll(empty, FALSE, Left(pool, block.trs), Height')
<1>1. ChainTyped /\ Height \in 0 .. Height /\ pool \in Seq(Senders) /\ FailedOK(failedTrs)
  BY PoolParts DEF TypeInv, ChainTyped
<1>2. /\ (tables # Refused /\ Grown(block, tables)) \/ UNCHANGED <<chain, saved>>
      /\ Height' \in Nat /\ SetPoolState(filled)
  BY <1>1, ReceivedBlock
<1>3. AssetsOK(RolledBack) /\ Formed(RolledBack)
  BY <1>1, OverBacked DEF AssetsInv, RolledBack, SessionOver, Formed
<1>4. tables # Refused => IsTables(tables) /\ Backed(tables)
  BY <1>3, OthersBlock, ExecutedBacked
<1> HIDE DEF tables
<1>5. \A h \in 0 .. Height' : IsTables(saved'[h]) /\ Backed(saved'[h])
  <2>1. CASE tables # Refused /\ Grown(block, tables)
    BY <1>1, <1>4, <2>1, GrownAssets DEF AssetsInv
  <2>2. CASE UNCHANGED <<chain, saved>>
    BY <2>2 DEF AssetsInv, Height
  <2> QED BY <1>2, <2>1, <2>2
<1>6. Height' \in 0 .. Height'
  BY <1>2
<1>7. AssetsOK(empty.session) /\ PoolTyped(empty, saved'[Height'])
  BY <1>1, <1>5, <1>6, OverBacked, EmptyPool
<1> HIDE DEF empty
<1>8. Left(pool, block.trs) \in Seq(Senders)
  BY <1>1, LeftIsSeq
<1>9. AssetsOK(filled.session)
  BY <1>2, <1>7, <1>8, ProcessAllAssets
<1> HIDE DEF filled
<1>10. session' = filled.session
  BY <1>2 DEF SetPoolState
<1> QED BY <1>5, <1>9, <1>10 DEF AssetsInv

LEMMA LoadBlockAssets ==
  ASSUME TypeInv, AssetsInv, NEW block \in OtherBlocks, LoadBlock(block)
  PROVE  AssetsInv'
<1> DEFINE tables == Executed(session, chain, Height + 1, block)
<1>1. IF tables # Refused
      THEN Commit(block, tables) /\ session' = SessionOver(tables)
      ELSE /\ session' = IF BlockPasses(session, block) THEN RolledBack ELSE session
           /\ UNCHANGED <<chain, saved>>
  BY DEF LoadBlock
<1>2. ChainTyped /\ Height \in 0 .. Height /\ Formed(session)
  BY PoolParts DEF TypeInv, ChainTyped
<1>3. tables # Refused => IsTables(tables) /\ Backed(tables)
  BY <1>2, OthersBlock, ExecutedBacked DEF AssetsInv
<1> HIDE DEF tables
<1>4. CASE tables # Refused
  <2>1. Grown(block, tables) /\ session' = SessionOver(tables)
    BY <1>1, <1>2, <1>4, CommitGrows
  <2>2. \A h \in 0 .. Height' : IsTables(saved'[h]) /\ Backed(saved'[h])
    BY <1>2, <1>3, <1>4, <2>1, GrownAssets DEF AssetsInv
  <2>3. AssetsOK(session')
    BY <1>3, <1>4, <2>1, OverBacked
  <2> QED BY <2>2, <2>3 DEF AssetsInv
<1>5. CASE tables = Refused
  <2>1. UNCHANGED <<chain, saved>> /\ session' \in {SessionOver(saved[Height]), session}
    BY <1>1, <1>5 DEF RolledBack
  <2>2. AssetsOK(session')
    BY <1>2, <2>1, OverBacked DEF AssetsInv
  <2> QED BY <2>1, <2>2 DEF AssetsInv, Height
<1> QED BY <1>4, <1>5

LEMMA StepAssets ==
  ASSUME TypeInv, AssetsInv, [Next]_vars
  PROVE  AssetsInv'
<1>1. ChainTyped /\ Height \in 0 .. Height /\ PoolTyped(PoolState, saved[Height])
  BY DEF TypeInv, ChainTyped
<1>2. ASSUME UNCHANGED <<chain, saved>>, AssetsOK(session') PROVE AssetsInv'
  BY <1>2 DEF AssetsInv, Height
<1>3. ASSUME NEW id \in Senders, ReceiveTransaction(id) PROVE AssetsInv'
  <2> DEFINE next == ProcessUnconfirmed(PoolState, IsCollectingVotes, id, Height)
  <2>1. UNCHANGED <<chain, saved>> /\ session' = next.session
    BY <1>3 DEF ReceiveTransaction, SetPoolState
  <2>2. AssetsOK(PoolState.session) /\ id \in TrsIds
    BY ExecutionAssumption DEF AssetsInv, PoolState
  <2>3. AssetsOK(next.session)
    BY <1>1, <2>2, ProcessAssets
  <2> HIDE DEF next
  <2> QED BY <1>2, <2>1, <2>3
<1>4. ASSUME NEW d \in Delegates, Forge(d) PROVE AssetsInv'
  BY <1>4, CommitLocalAssets DEF Forge
<1>5. CASE OnReceiveVotes
  <2>1. CommitLocal(pendingBlock) \/ UNCHANGED <<chain, saved, session>>
    BY <1>5 DEF OnReceiveVotes
  <2> QED BY <1>2, <2>1, CommitLocalAssets DEF AssetsInv
<1>6. ASSUME NEW block \in OtherBlocks, OnReceiveBlock(block) PROVE AssetsInv'
  BY <1>6, OnReceiveBlockAssets
<1>7. ASSUME NEW block \in OtherBlocks, LoadBlock(block) PROVE AssetsInv'
  BY <1>7, LoadBlockAssets
<1>8. ASSUME NEW common \in DOMAIN chain, StartSync(common) PROVE AssetsInv'
  <2>1. common \in Nat /\ Cut(common) /\ session' = SessionOver(saved[common])
    BY <1>1, <1>8, StartSyncCuts DEF StartSync
  <2>2. common \in 0 .. Height
    BY <2>1 DEF Cut
  <2>3. AssetsOK(session')
    BY <2>1, <2>2, OverBacked DEF AssetsInv
  <2> QED BY <2>1, <2>3, CutAssets DEF AssetsInv
<1>9. CASE Restart
  <2>1. UNCHANGED <<chain, saved>> /\ session' = SessionOver(saved[Height])
    BY <1>9 DEF Restart, RolledBack
  <2> QED BY <1>1, <1>2, <2>1, OverBacked DEF AssetsInv
<1>10. ASSUME \/ \E d \in Delegates : Propose(d)
              \/ StartSyncFromGenesis \/ EndSync \/ UNCHANGED vars
       PROVE  AssetsInv'
  BY <1>2, <1>10 DEF Propose, StartSyncFromGenesis, EndSync, vars, AssetsInv
<1> QED BY <1>3, <1>4, <1>5, <1>6, <1>7, <1>8, <1>9, <1>10 DEF Next

LEMMA AssetsAsTold ==
  ASSUME TypeInv, AssetsInv
  PROVE  IssuedQuantity
<1>1. Backed(Tables)
  BY DEF TypeInv, ChainTyped, AssetsInv, Tables
<1>2. ASSUME NEW c
      PROVE  SumFunctionOnSet(Tables.balance, {key \in DOMAIN Tables.balance : key[2] = c})
               = Held(Tables, c)
  BY DEF Held, Holdings, Sum
<1> QED BY <1>1, <1>2 DEF Backed, AssetRow, IssuedQuantity

(***************************************************************************)
(* What was issued of an asset is what its holders have, and within its    *)
(* maximum, on every node and after every block, though issue reads the    *)
(* quantity from the tables: its lock keeps a second issue of the asset    *)
(* out of the overlay, and transfers and rounds do not touch the sums.     *)
(***************************************************************************)
THEOREM IssuedQuantityHeld ==
  ASSUME GenesisValid
  PROVE  Spec => []IssuedQuantity
<1>1. Init => TypeInv /\ AssetsInv
  BY InitTyped, InitAssets
<1>2. TypeInv /\ AssetsInv /\ [Next]_vars => TypeInv' /\ AssetsInv'
  BY StepTyped, StepAssets
<1>3. TypeInv /\ AssetsInv => IssuedQuantity
  BY AssetsAsTold
<1> QED BY <1>1, <1>2, <1>3, PTL DEF Spec

==============================================================================
