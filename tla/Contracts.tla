----------------------------- MODULE Contracts ------------------------------
(***************************************************************************)
(* The contracts a transaction calls, and what applying one does to the    *)
(* entities of a node.                                                     *)
(*                                                                         *)
(* A contract works on a session: the entities as the session sees them,   *)
(* with every change that is pending (view), the tables as the last block  *)
(* left them (table), and the locks taken since then.  load, get, update,  *)
(* increase and create use the view; findAll, findOne and exists query the *)
(* tables.  A contract that returns an error, or throws, is rolled back,   *)
(* so that it is Refused as a whole, its fee and its locks included.       *)
(***************************************************************************)
EXTENDS Heights, SequencesExt

CONSTANTS
  TrsIds,           \* ids of transactions
  Content,          \* the transaction an id stands for
  MinFee,           \* the fee calculator of each type of transaction
  MinLockHeight,    \* 5760 * 30, blocks coins have to stay locked
  LockReserve,      \* 100000000, what a lock has to leave
  MaxVoteItems,     \* 33, delegates in one transaction
  MaxVotes,         \* 101, delegates an account can vote for
  MaxExact,         \* 2^53, up to which a Number has every integer
  Inexact           \* amounts whose Number is another amount, and that amount

CONSTANTS
  NoName,           \* username of an account that has none
  Refused           \* result of a contract that was rolled back

ASSUME ContractsAssumption ==
  /\ {MinLockHeight, LockReserve, MaxVoteItems, MaxVotes, MaxExact} \subseteq Nat
  /\ \A amount \in DOMAIN Inexact : amount > MaxExact /\ Inexact[amount] \in Nat
  /\ \A id \in TrsIds : Content[id].type \in DOMAIN MinFee
  /\ \A type \in DOMAIN MinFee : MinFee[type] \in Nat
  /\ \A id \in TrsIds :
       /\ Content[id].id = id
       /\ Content[id].fee \in Nat
       /\ Content[id].type \in {"transfer", "lock", "issue", "transferAsset"}
            => Content[id].amount \in Nat \ {0}    \* validate('amount', ...)
       /\ Content[id].type = "registerAsset" => Content[id].maximum \in Nat \ {0}

-----------------------------------------------------------------------------
(* Entities *)

NewAccount(gny) ==
  [username |-> NoName, gny |-> gny, secondPublicKey |-> FALSE, isDelegate |-> FALSE,
   isLocked |-> FALSE, lockHeight |-> 0, lockAmount |-> 0]

NoRows == [key \in {} |-> 0]

NoEntities ==
  [account |-> NoRows, delegate |-> NoRows, votes |-> {}, issuer |-> NoRows,
   asset |-> NoRows, balance |-> NoRows, mldata |-> {}, prediction |-> NoRows,
   transfers |-> {}, transactions |-> {}, round |-> NoRows, bookkeeper |-> <<>>]

With(rows, key, row) == [k \in DOMAIN rows \cup {key} |-> IF k = key THEN row ELSE rows[k]]

(* increase of rows: an amount for each key *)
Increase(rows, keys, property, amount) ==
  [k \in DOMAIN rows |->
     IF k \in keys THEN [rows[k] EXCEPT ![property] = @ + amount] ELSE rows[k]]

UpdateAccount(view, address, account) ==
  [view EXCEPT !.account[address] = account]

(* BalanceManager *)
BalanceOf(view, key) == IF key \in DOMAIN view.balance THEN view.balance[key] ELSE 0

IncreaseBalance(view, key, amount) ==
  IF amount = 0 THEN view
  ELSE [view EXCEPT !.balance = With(@, key, BalanceOf(view, key) + amount)]

(* Mutant: the sender keeps what it gives *)
TransferBalanceTwice(view, currency, amount, from, to) ==
  IncreaseBalance(view, <<to, currency>>, amount)

TransferBalance(view, currency, amount, from, to) ==
  IncreaseBalance(IncreaseBalance(view, <<from, currency>>, - amount), <<to, currency>>, amount)

(* String(Number(amount)) *)
NumberOf(amount) == IF amount \in DOMAIN Inexact THEN Inexact[amount] ELSE amount

(***************************************************************************)
(* + of two strings of digits.                                             *)
(***************************************************************************)
Concatenate(left, right) ==
  LET shifted == left * Radix ^ Digits(right)
  IN  IF left < 0 THEN shifted - right ELSE shifted + right

-----------------------------------------------------------------------------
(* basic: transfers and the properties of an account *)

Sender(s, t) == s.view.account[t.senderId]

Named(entities, name) == {a \in DOMAIN entities.account : entities.account[a].username = name}

(* The accounts a recipient may stand for: an address, or the owner of a name *)
Recipients(entities, recipient) ==
  IF recipient.isAddress THEN {recipient.value} ELSE Named(entities, recipient.value)

IsSender(s, t) ==
  IF t.recipient.isAddress THEN t.recipient.value = t.senderId
                           ELSE t.recipient.value = Sender(s, t).username

Pay(view, from, to, amount) ==
  LET paid == IF to \in DOMAIN view.account
              THEN Increase(view.account, {to}, "gny", amount)
              ELSE With(view.account, to, NewAccount(amount))
  IN  [view EXCEPT !.account = Increase(paid, {from}, "gny", - amount)]

Transfer(s, t, height) ==
  IF /\ height > 0 => Sender(s, t).gny >= NumberOf(t.amount)
     /\ ~ IsSender(s, t)
     /\ Recipients(s.view, t.recipient) # {}
  THEN LET to == CHOOSE a \in Recipients(s.view, t.recipient) : TRUE
       IN  [Pay(s.view, t.senderId, to, NumberOf(t.amount)) EXCEPT !.transfers = @ \cup {t.id}]
  ELSE Refused

SetUserName(s, t, height) ==
  IF Named(s.view, t.username) = {} /\ Sender(s, t).username = NoName
  THEN UpdateAccount(s.view, t.senderId, [Sender(s, t) EXCEPT !.username = t.username])
  ELSE Refused

SetSecondPassphrase(s, t, height) ==
  IF Sender(s, t).secondPublicKey
  THEN Refused
  ELSE UpdateAccount(s.view, t.senderId, [Sender(s, t) EXCEPT !.secondPublicKey = TRUE])

-----------------------------------------------------------------------------
(* basic: delegates, locked coins and votes *)

VotesOf(entities, address) == {v \in entities.votes : v.voterAddress = address}
VotedBy(entities, address) == {v.delegate : v \in VotesOf(entities, address)}

IncreaseVotes(view, names, amount) ==
  [view EXCEPT !.delegate = Increase(@, names, "votes", amount)]

LockHeightValid(account, t, height) ==
  IF account.isLocked
  THEN Max({height, account.lockHeight}) + MinLockHeight <= t.height
  ELSE height + MinLockHeight <= t.height

(* Mutant: coins that are added to a lock do not count for its votes *)
LockWithoutVotes(s, t, height) ==
  LET account == Sender(s, t)
  IN  IF account.gny - LockReserve >= t.amount /\ LockHeightValid(account, t, height)
      THEN UpdateAccount(s.view, t.senderId,
             [account EXCEPT !.isLocked = TRUE, !.lockHeight = t.height,
                             !.gny = @ - t.amount, !.lockAmount = @ + t.amount])
      ELSE Refused

Lock(s, t, height) ==
  LET account == Sender(s, t)
  IN  IF account.gny - LockReserve >= t.amount /\ LockHeightValid(account, t, height)
      THEN IncreaseVotes(
             UpdateAccount(s.view, t.senderId,
               [account EXCEPT !.isLocked = TRUE, !.lockHeight = t.height,
                               !.gny = @ - t.amount, !.lockAmount = @ + t.amount]),
             VotedBy(s.table, t.senderId), t.amount)
      ELSE Refused

(* The weight of the votes that go is a Number, that of those cast was not *)
DeleteCreatedVotes(s, address) ==
  LET account == s.view.account[address]
      left    == IncreaseVotes(s.view, VotedBy(s.table, address), - NumberOf(account.lockAmount))
  IN  IF account.lockAmount > 0
      THEN [left EXCEPT !.votes = @ \ VotesOf(s.table, address)]
      ELSE s.view

(* The coins come back by += on strings *)
Unlock(s, t, height) ==
  LET account == Sender(s, t)
      view    == IF account.isDelegate THEN DeleteCreatedVotes(s, t.senderId) ELSE s.view
  IN  IF account.isLocked /\ height > account.lockHeight
      THEN UpdateAccount(view, t.senderId,
             [account EXCEPT !.isLocked = FALSE, !.lockHeight = 0, !.lockAmount = 0,
                             !.gny = Concatenate(@, account.lockAmount)])
      ELSE Refused

NewDelegate(address) ==
  [address |-> address, votes |-> 0, producedBlocks |-> 0, missedBlocks |-> 0,
   fees |-> 0, rewards |-> 0]

(* The row of a delegate is found by its name, which never changes *)
RegisterDelegate(s, t, height) ==
  LET account == Sender(s, t)
  IN  IF account.username # NoName /\ ~ account.isDelegate
      THEN [UpdateAccount(s.view, t.senderId, [account EXCEPT !.isDelegate = TRUE])
              EXCEPT !.delegate = With(@, account.username, NewDelegate(t.senderId))]
      ELSE Refused

VoteItems(t) == {[voterAddress |-> t.senderId, delegate |-> name] : name \in ToSet(t.delegates)}

VotesAllowed(s, t) ==
  /\ Sender(s, t).isLocked
  /\ Len(t.delegates) \in 1 .. MaxVoteItems
  /\ IsInjective(t.delegates)
  /\ ToSet(t.delegates) \subseteq DOMAIN s.table.delegate

Vote(s, t, height) ==
  IF /\ VotesAllowed(s, t)
     /\ Cardinality(VotesOf(s.table, t.senderId)) + Len(t.delegates) <= MaxVotes
     /\ VotedBy(s.table, t.senderId) \cap ToSet(t.delegates) = {}
  THEN [IncreaseVotes(s.view, ToSet(t.delegates), Sender(s, t).lockAmount)
          EXCEPT !.votes = @ \cup VoteItems(t)]
  ELSE Refused

Unvote(s, t, height) ==
  IF /\ VotesAllowed(s, t)
     /\ ToSet(t.delegates) \subseteq VotedBy(s.table, t.senderId)
  THEN [IncreaseVotes(s.view, ToSet(t.delegates), - Sender(s, t).lockAmount)
          EXCEPT !.votes = @ \ VoteItems(t)]
  ELSE Refused

-----------------------------------------------------------------------------
(* uia: assets of users *)

IssuerNames(entities, address) ==
  {name \in DOMAIN entities.issuer : entities.issuer[name] = address}

(* A second issuer of the name in the same block is refused by create *)
RegisterIssuer(s, t, height) ==
  IF /\ t.name \notin DOMAIN s.table.issuer
     /\ IssuerNames(s.table, t.senderId) = {}
     /\ t.name \notin DOMAIN s.view.issuer
  THEN [s.view EXCEPT !.issuer = With(@, t.name, t.senderId)]
  ELSE Refused

FullNames(s, t) == {<<name, t.symbol>> : name \in IssuerNames(s.table, t.senderId)}

RegisterAsset(s, t, height) ==
  IF FullNames(s, t) # {} /\ FullNames(s, t) \cap DOMAIN s.table.asset = {}
  THEN LET name == CHOOSE n \in FullNames(s, t) : TRUE
       IN  [s.view EXCEPT !.asset = With(@, name,
              [maximum |-> t.maximum, quantity |-> 0, issuerId |-> t.senderId])]
  ELSE Refused

(* The quantity is that of the table *)
Issue(s, t, height) ==
  IF /\ t.currency \in DOMAIN s.table.asset
     /\ s.table.asset[t.currency].issuerId = t.senderId
     /\ s.table.asset[t.currency].quantity + t.amount <= s.table.asset[t.currency].maximum
  THEN IncreaseBalance(
         [s.view EXCEPT !.asset[t.currency].quantity = s.table.asset[t.currency].quantity + t.amount],
         <<t.senderId, t.currency>>, t.amount)
  ELSE Refused

TransferAsset(s, t, height) ==
  IF /\ ~ IsSender(s, t)
     /\ BalanceOf(s.view, <<t.senderId, t.currency>>) >= t.amount
     /\ Recipients(s.table, t.recipient) # {}
  THEN LET to == CHOOSE a \in Recipients(s.table, t.recipient) : TRUE
       IN  [TransferBalance(s.view, t.currency, t.amount, t.senderId, to)
              EXCEPT !.transfers = @ \cup {t.id}]
  ELSE Refused

-----------------------------------------------------------------------------
(* ml *)

MlRow(t) == [address |-> t.senderId, row |-> t.row]

UploadData(s, t, height) ==
  IF MlRow(t) \in s.view.mldata
  THEN Refused
  ELSE [s.view EXCEPT !.mldata = @ \cup {MlRow(t)}]

(* A prediction is a function of the rows it was trained with *)
GetPredictionCategory(s, t, height) ==
  LET data == {d \in s.table.mldata : d.address = t.senderId}
  IN  IF data = {}
      THEN Refused
      ELSE [s.view EXCEPT !.prediction = With(@, t.senderId, data)]

-----------------------------------------------------------------------------
(* Applying a transaction *)

LockNames(s, t, height) ==
  CASE t.type \in {"setUserName", "setSecondPassphrase", "lock", "unlock", "vote", "unvote"}
         -> {<<"basic.account", t.senderId>>}
    [] t.type = "registerDelegate" -> IF height > 0 THEN {<<"basic.account", t.senderId>>} ELSE {}
    [] t.type = "registerIssuer"   -> {<<"uia.registerIssuer", t.senderId>>}
    [] t.type = "registerAsset"    -> {<<"uia.registerAsset", name>> : name \in FullNames(s, t)}
    [] t.type = "issue"            -> {<<"uia.issue", t.currency>>}
    [] OTHER                       -> {}

Call(s, t, height) ==
  CASE t.type = "transfer"              -> Transfer(s, t, height)
    [] t.type = "setUserName"           -> SetUserName(s, t, height)
    [] t.type = "setSecondPassphrase"   -> SetSecondPassphrase(s, t, height)
    [] t.type = "lock"                  -> Lock(s, t, height)
    [] t.type = "unlock"                -> Unlock(s, t, height)
    [] t.type = "registerDelegate"      -> RegisterDelegate(s, t, height)
    [] t.type = "vote"                  -> Vote(s, t, height)
    [] t.type = "unvote"                -> Unvote(s, t, height)
    [] t.type = "registerIssuer"        -> RegisterIssuer(s, t, height)
    [] t.type = "registerAsset"         -> RegisterAsset(s, t, height)
    [] t.type = "issue"                 -> Issue(s, t, height)
    [] t.type = "transferAsset"         -> TransferAsset(s, t, height)
    [] t.type = "uploadData"            -> UploadData(s, t, height)
    [] t.type = "getPredictionCategory" -> GetPredictionCategory(s, t, height)
    [] OTHER                            -> Refused    \* Unsupported transaction type

(* The sender of a transaction of block 0 or 1 need not have an account *)
WithSender(s, t) ==
  IF t.senderId \in DOMAIN s.view.account
  THEN s
  ELSE [s EXCEPT !.view.account = With(@, t.senderId, NewAccount(0))]

(* A second signature is there exactly if the account has a second key *)
SecondSignatureFits(account, t) == t.secondSignature = account.secondPublicKey

(* TransactionBase.verify *)
Verified(account, t) == t.fee >= MinFee[t.type] /\ SecondSignatureFits(account, t)

Charged(s, t, height) ==
  IF height = 0 THEN s ELSE [s EXCEPT !.view.account[t.senderId].gny = @ - t.fee]

(***************************************************************************)
(* The fee is deducted first, and the contract sees its sender without it. *)
(* The transactions of the genesis block cost nothing.                     *)
(***************************************************************************)
Apply(s, t, height) ==
  LET charged == Charged(s, t, height)
      names   == LockNames(charged, t, height)
      result  == Call(charged, t, height)
  IN  IF (height > 0 => Sender(s, t).gny >= t.fee) /\ names \cap s.locks = {} /\ result # Refused
      THEN [s EXCEPT !.view = result, !.locks = @ \cup names]
      ELSE Refused

(***************************************************************************)
(* The transactions of blocks 0 and 1 are not verified, and the account    *)
(* their sender lacks is created outside of the contract: it stays when    *)
(* the contract is refused.                                                *)
(***************************************************************************)
ApplyUnconfirmed(s, id, lastHeight) ==
  LET t       == Content[id]
      known   == t.senderId \in DOMAIN s.view.account
      rejects == lastHeight > 0 /\ ~ (known /\ Verified(s.view.account[t.senderId], t))
      ready   == WithSender(s, t)
      applied == IF rejects THEN Refused ELSE Apply(ready, t, lastHeight + 1)
  IN  IF applied # Refused THEN [ok |-> TRUE, session |-> applied]
      ELSE [ok |-> FALSE, session |-> IF rejects THEN s ELSE ready]

=============================================================================
