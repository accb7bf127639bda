------------------------------ MODULE HttpApi -------------------------------
(***************************************************************************)
(* The requests a node answers over HTTP while it executes transactions.   *)
(*                                                                         *)
(* Reading requests bypass the node's Sequence: a handler queries the      *)
(* tables, awaits the rows, and goes on; blocks are committed and rolled   *)
(* back between its queries, and between a query and what it does with the *)
(* rows.  A request is followed by what its queries answered so far; what  *)
(* its handler does next is a function of that.  What is known from the    *)
(* caches alone is part of the step it is used in.                         *)
(***************************************************************************)
EXTENDS Execution

CONSTANTS
  Requests,       \* bound: the requests that are made
  Batches,        \* bound: the lists of transactions that are put
  Secrets,        \* forging.secret, as the accounts the secrets belong to
  Missing         \* undefined

(* The handlers of each router *)
Routes ==
  [accounts     |-> {"getAccountEndpoint", "openAccount", "getBalance", "getAddressCurrencyBalance",
                     "getVotedDelegates", "count", "getPublicKey"},
   delegates    |-> {"count", "getVoters", "getDelegate", "getDelegates",
                     "forgingEnable", "forgingDisable", "forgingStatus"},
   uia          |-> {"getIssuers", "isIssuer", "getIssuer", "getIssuerAssets",
                     "getAssets", "getAsset", "getBalances", "getBalance"},
   blocks       |-> {"getBlock", "getBlocks", "getHeight", "getMilestone", "getReward",
                     "getSupply", "getStatus"},
   transfers    |-> {"getRoot", "getAmount"},
   transactions |-> {"getTransactions", "getUnconfirmedTransaction", "getUnconfirmedTransactions"},
   exchange     |-> {"openAccountWithSecret"},
   loader       |-> {"sync"},
   system       |-> {"getSystemInfo"}]

(* The handlers that answer a page *)
Paged == {"getIssuers", "getIssuerAssets", "getAssets", "getBalances", "getBlocks", "getRoot", "getTransactions"}

(* undefined is no row *)
ASSUME HttpApiAssumption ==
  /\ \A ids \in Batches : ids \in Seq(Senders)
  /\ \A q \in Requests :
       /\ q.api \in DOMAIN Routes /\ q.handler \in Routes[q.api]
       /\ q.handler \in Paged => q.limit \in Nat /\ q.offset \in Nat
  /\ Missing \notin [id : TrsIds, height : Nat]
  /\ Missing \notin [name  : {Content[id].currency : id \in {i \in TrsIds : Content[i].type = "transferAsset"}},
                     asset : [maximum : Int, quantity : Int, issuerId : {Content[id].senderId : id \in TrsIds}]]
  /\ Missing # Null

VARIABLES
  ready,          \* blockchainReady
  keyPairs,       \* the accounts this node forges for
  inserted,       \* the block whose row is written and whose commit goes on
  request         \* the request that is being handled

apiVars == <<ready, keyPairs, inserted, request>>

-----------------------------------------------------------------------------
(* What a handler does next: it awaits one of some results, or it answers *)

Awaits(results) == [awaits |-> TRUE, results |-> results]
Answers(fields) == [awaits |-> FALSE, answer |-> fields]
Fails           == Answers([success |-> FALSE])

-----------------------------------------------------------------------------
(* Queries: the tables, without what is pending *)

Db == session.table

Row(rows, key) == IF key \in DOMAIN rows THEN rows[key] ELSE Missing

(* findOne by a unique property *)
TheOne(rows) == IF rows = {} THEN Missing ELSE CHOOSE row \in rows : TRUE

(* A page of rows that are not sorted may be any of that many *)
Pages(rows, limit, offset) ==
  kSubset(Min({limit, Max({0, Cardinality(rows) - offset})}), rows)

(* query.limit || default *)
LimitOr(q, default) == IF q.limit = 0 THEN default ELSE q.limit

(***************************************************************************)
(* Blocks.  appendBlock inserts the row of a block outside of the database *)
(* transaction that saves its entities and its transactions, so that the   *)
(* row is visible earlier.                                                 *)
(***************************************************************************)
BlockRows == IF inserted = Null THEN chain ELSE With(chain, Height + 1, inserted)

BlockByHeight(height) == Row(BlockRows, height)

BlockById(id) == TheOne({block \in Range(BlockRows) : block = id})

HeightOf(id) == CHOOSE h \in DOMAIN chain : id \in ToSet(chain[h].trs)

TransactionRows == {[id |-> id, height |-> HeightOf(id)] : id \in Db.transactions}

(* The rows of a range come in the order they were inserted in *)
BlocksByHeightRange(min, max) ==
  LET last == Max({min - 1, Min({max, Max(DOMAIN BlockRows)})})
  IN  [i \in 1 .. last - min + 1 |-> BlockRows[min + i - 1]]

(* Mutant: the page is read before the rows are counted *)
PageThenCount(seen, rows, limit, offset) ==
  CASE Len(seen) = 0 -> Awaits(Pages(rows, limit, offset))
    [] Len(seen) = 1 -> Awaits({Cardinality(rows)})
    [] OTHER         -> Answers([count |-> seen[2], rows |-> seen[1], limit |-> limit, offset |-> offset])

(* Most lists: the rows are counted, then a page of them is read *)
CountThenPage(seen, rows, limit, offset) ==
  CASE Len(seen) = 0 -> Awaits({Cardinality(rows)})
    [] Len(seen) = 1 -> Awaits(Pages(rows, limit, offset))
    [] OTHER         -> Answers([count |-> seen[1], rows |-> seen[2], limit |-> limit, offset |-> offset])

-----------------------------------------------------------------------------
(* /api/accounts *)

(* An account that has no row looks like an empty one *)
AccountData(row) == IF row = Missing THEN NewAccount(0) ELSE row

AccountOverview(seen) == [account |-> AccountData(seen[1]), height |-> Height]

GetAccount(address, seen) ==
  IF seen = <<>> THEN Awaits({Row(Db.account, address)}) ELSE Answers(AccountOverview(seen))

(* A name that nobody has is answered with success *)
GetAccountByName(name, seen) ==
  IF seen = <<>>
  THEN Awaits({TheOne({Db.account[a] : a \in Named(Db, name)})})
  ELSE Answers([success |-> TRUE, account |-> seen[1]])

GetAccountEndpoint(q, seen) ==
  IF q.of.isAddress THEN GetAccount(q.of.value, seen) ELSE GetAccountByName(q.of.value, seen)

OpenAccount(q, seen) ==
  IF seen = <<>>
  THEN GetAccount(q.address, seen)
  ELSE Answers([account |-> AccountData(seen[1]), height |-> Height, publicKey |-> q.address])

(* The same in /api/exchange, where the node derives the key from the secret *)
OpenAccountWithSecret(q, seen) == OpenAccount(q, seen)

(* No contract stores a public key in an account *)
GetPublicKey(q, seen) == IF seen = <<>> THEN GetAccount(q.address, seen) ELSE Fails

AssetRows(names) == {[name |-> n, asset |-> Db.asset[n]] : n \in names \cap DOMAIN Db.asset}

Balances(address) ==
  {[address |-> key[1], currency |-> key[2], balance |-> Db.balance[key]]
     : key \in {k \in DOMAIN Db.balance : k[1] = address}}

AllBalances == UNION {Balances(key[1]) : key \in DOMAIN Db.balance}

(***************************************************************************)
(* getBalance of an account: the condition takes the address from the      *)
(* wrong place, where there is none; what a query for an undefined address *)
(* finds is up to the library: nothing, or the balances of everybody.      *)
(***************************************************************************)
GetAccountBalances(q, seen) ==
  CASE Len(seen) = 0 -> GetAccount(q.address, seen)
    [] Len(seen) = 1 -> Awaits({0, Cardinality(AllBalances)})
    [] Len(seen) = 2 /\ seen[2] > 0 ->
         Awaits(Pages(AllBalances, LimitOr(q, 20), q.offset))
    [] Len(seen) = 3 /\ seen[3] # {} -> Awaits({AssetRows({b.currency : b \in seen[3]})})
    [] OTHER -> Answers([gny      |-> AccountData(seen[1]).gny,
                         count    |-> seen[2] + 1,
                         balances |-> IF Len(seen) > 2 THEN seen[3] ELSE {},
                         assets   |-> IF Len(seen) > 3 THEN seen[4] ELSE {}])

GetAddressCurrencyBalance(q, seen) ==
  IF seen = <<>> THEN Awaits({Row(Db.balance, <<q.address, q.currency>>)})
  ELSE IF seen[1] = Missing THEN Fails
  ELSE IF Len(seen) = 1 THEN Awaits({Row(Db.asset, q.currency)})
  ELSE Answers([balance |-> seen[1], asset |-> seen[2]])

(***************************************************************************)
(* The account of a name is loaded through the session, what is pending    *)
(* included; the votes are those of the tables; the delegates, again those *)
(* of the session, are taken when the votes are known.                     *)
(***************************************************************************)
GetVotedDelegates(q, seen) ==
  LET byName  == ~ q.of.isAddress
      address == IF byName THEN seen[1] ELSE q.of.value
      rest    == IF byName THEN Tail(seen) ELSE seen
  IN  IF byName /\ seen = <<>> THEN Awaits({TheOne(Named(session.view, q.of.value))})
      ELSE IF byName /\ seen[1] = Missing THEN Fails
      ELSE IF rest = <<>> THEN Awaits({VotedBy(Db, address)})
      ELSE Answers([voted |-> rest[1],
                    delegates |-> SelectSeq(SortedDelegates(session.view), LAMBDA d : d \in rest[1])])

CountAccounts(q, seen) ==
  IF seen = <<>> THEN Awaits({Cardinality(DOMAIN Db.account)}) ELSE Answers([count |-> seen[1]])

-----------------------------------------------------------------------------
(* /api/delegates: the delegates are all in the cache, what is pending included *)

(***************************************************************************)
(* Delegates.getDelegates.  It also writes to the session what it just     *)
(* read from it, without waiting in between: nothing changes.              *)
(***************************************************************************)
GetDelegateViews ==
  LET sorted == SortedDelegates(session.view)
  IN  [i \in DOMAIN sorted |->
        session.view.delegate[sorted[i]] @@
          [username |-> sorted[i], rate |-> i, totalSupply |-> CalculateSupply(Height)]]

CountDelegates(q, seen) == Answers([count |-> Cardinality(DOMAIN session.view.delegate)])

GetDelegate(q, seen) ==
  LET found == SelectSeq(GetDelegateViews,
                 LAMBDA d : IF q.of.isAddress THEN d.address = q.of.value ELSE d.username = q.of.value)
  IN  IF found = <<>> THEN Fails ELSE Answers([delegate |-> found[1]])

GetDelegates(q, seen) ==
  LET all == GetDelegateViews
  IN  IF all = <<>> THEN Fails
      ELSE Answers([totalCount |-> Len(all),
                    delegates |-> SubSeq(all, q.offset + 1,
                                         Min({Len(all), q.offset + LimitOr(q, 10)}))])

GetVoters(q, seen) ==
  IF seen = <<>> THEN Awaits({Voters(Db, q.name)})
  ELSE IF seen[1] = {} THEN Answers([accounts |-> {}])
  ELSE IF Len(seen) = 1
  THEN Awaits({{[address |-> a, lockAmount |-> Db.account[a].lockAmount]
                  : a \in seen[1] \cap DOMAIN Db.account}})
  ELSE Answers([accounts |-> seen[2], totalSupply |-> CalculateSupply(Height)])

(* Mutant: any account will do *)
ForgingEnableAnybody(q, seen) ==
  IF seen = <<>> THEN Awaits({q.address \in keyPairs})
  ELSE IF seen[1] THEN Fails
  ELSE IF Len(seen) = 1 THEN Awaits({Row(Db.account, q.address)})
  ELSE Answers([success |-> TRUE, keyPairs |-> keyPairs \cup {q.address}])

(* The key is looked for before the account is read, and set after it *)
ForgingEnable(q, seen) ==
  IF seen = <<>> THEN Awaits({q.address \in keyPairs})
  ELSE IF seen[1] THEN Fails
  ELSE IF Len(seen) = 1 THEN Awaits({Row(Db.account, q.address)})
  ELSE IF AccountData(seen[2]).isDelegate
  THEN Answers([success |-> TRUE, keyPairs |-> keyPairs \cup {q.address}])
  ELSE Fails

ForgingDisable(q, seen) ==
  IF seen = <<>> THEN Awaits({q.address \in keyPairs})
  ELSE IF ~ seen[1] THEN Fails
  ELSE IF Len(seen) = 1 THEN Awaits({Row(Db.account, q.address)})
  ELSE IF AccountData(seen[2]).isDelegate
  THEN Answers([success |-> TRUE, keyPairs |-> keyPairs \ {q.address}])
  ELSE Fails

ForgingStatus(q, seen) == Answers([enabled |-> q.address \in keyPairs])

-----------------------------------------------------------------------------
(* /api/uia *)

FindIssuer(of) ==
  IF of.isAddress
  THEN TheOne(IssuerNames(Db, of.value))
  ELSE IF of.value \in DOMAIN Db.issuer THEN of.value ELSE Missing

IsIssuer(q, seen) ==
  IF seen = <<>>
  THEN Awaits({FindIssuer([isAddress |-> TRUE, value |-> q.address])})
  ELSE Answers([isIssuer |-> seen[1] # Missing, issuerName |-> seen[1]])

GetIssuers(q, seen) == CountThenPage(seen, DOMAIN Db.issuer, LimitOr(q, 100), q.offset)

GetIssuer(q, seen) ==
  IF seen = <<>> THEN Awaits({FindIssuer(q.of)})
  ELSE IF seen[1] = Missing THEN Fails
  ELSE Answers([issuer |-> seen[1]])

AssetsOf(address) == {name \in DOMAIN Db.asset : Db.asset[name].issuerId = address}

GetIssuerAssets(q, seen) ==
  IF seen = <<>> THEN Awaits({Row(Db.issuer, q.name)})
  ELSE IF seen[1] = Missing THEN Fails
  ELSE CountThenPage(Tail(seen), AssetsOf(seen[1]), LimitOr(q, 100), q.offset)

GetAssets(q, seen) == CountThenPage(seen, DOMAIN Db.asset, LimitOr(q, 100), q.offset)

GetAsset(q, seen) ==
  IF seen = <<>> THEN Awaits({Row(Db.asset, q.currency)})
  ELSE IF seen[1] = Missing THEN Fails
  ELSE Answers([asset |-> seen[1]])

(* Without a limit all of them are answered *)
GetBalances(q, seen) ==
  LET rows == Balances(q.address)
  IN  CountThenPage(seen, rows, IF q.limit = 0 THEN Cardinality(rows) ELSE q.limit, q.offset)

GetBalance(q, seen) ==
  IF seen = <<>> THEN Awaits({Row(Db.balance, <<q.address, q.currency>>)})
  ELSE IF seen[1] = Missing THEN Fails
  ELSE Answers([balance |-> seen[1]])

-----------------------------------------------------------------------------
(* /api/blocks *)

GetBlock(q, seen) ==
  IF seen = <<>>
  THEN Awaits({IF q.block # Missing THEN BlockById(q.block) ELSE BlockByHeight(q.height)})
  ELSE IF seen[1] = Missing THEN Fails
  ELSE Answers([block |-> seen[1]])

(* The heights that are asked for, the last block being known when the request arrives *)
HeightRange(q) ==
  LET limit == LimitOr(q, 20)
      last  == Height - q.offset
  IN  IF q.reverse
      THEN [min |-> Max({0, last - limit + 1}), max |-> last]
      ELSE [min |-> q.offset, max |-> q.offset + limit - 1]

TransactionsBetween(min, max) == {t \in TransactionRows : t.height \in min .. max}

(* Mutant: the first block counts as the block before the first *)
AttachOffByOne(blocks, trs) ==
  [i \in DOMAIN blocks |->
    [block |-> blocks[i], transactions |-> {t.id : t \in {u \in trs : u.height - blocks[1].height = i}}]]

(* A transaction goes to the block in the place of its height *)
Attach(blocks, trs) ==
  [i \in DOMAIN blocks |->
    [block |-> blocks[i], transactions |-> {t.id : t \in {u \in trs : u.height - blocks[1].height + 1 = i}}]]

(* getBlocks of both modules; a range that is empty is an error *)
GetBlocks(q, seen) ==
  IF seen = <<>> THEN Awaits({HeightRange(q)})
  ELSE IF seen[1].min > seen[1].max THEN Fails
  ELSE IF Len(seen) = 1 THEN Awaits({BlocksByHeightRange(seen[1].min, seen[1].max)})
  ELSE IF q.transactions /\ seen[2] # <<>> /\ Len(seen) = 2
  THEN Awaits({TransactionsBetween(seen[1].min, Last(seen[2]).height)})
  ELSE LET trs    == IF Len(seen) > 2 THEN seen[3] ELSE {}
           blocks == Attach(seen[2], trs)
       IN  Answers([count |-> Height + 1, blocks |-> IF q.reverse THEN Reverse(blocks) ELSE blocks])

GetHeight(q, seen)    == Answers([height |-> Height])
GetMilestone(q, seen) == Answers([milestone |-> CalculateMilestone(Height)])
GetReward(q, seen)    == Answers([reward |-> CalculateReward(Height)])
GetSupply(q, seen)    == Answers([supply |-> CalculateSupply(Height)])

GetStatus(q, seen) ==
  Answers([height |-> Height, milestone |-> CalculateMilestone(Height),
           reward |-> CalculateReward(Height), supply |-> CalculateSupply(Height)])

-----------------------------------------------------------------------------
(* /api/transfers *)

IsAssetTransfer(id) == Content[id].type = "transferAsset"

(* The recipient is stored as an address *)
IsTransferOf(id, address) ==
  Content[id].senderId = address \/ address \in Recipients(Db, Content[id].recipient)

CurrenciesOf(ids) == {Content[id].currency : id \in {i \in ids : IsAssetTransfer(i)}}

(* The transfers, with the rows of their assets and transactions that were found *)
Resolved(ids, assets, trs) ==
  {[tid |-> id,
    asset |-> IF IsAssetTransfer(id)
              THEN TheOne({a \in assets : a.name = Content[id].currency}) ELSE Null,
    transaction |-> TheOne({t \in trs : t.id = id})] : id \in ids}

GetAssetMap(ids) == AssetRows(CurrenciesOf(ids))

GetTransactionMap(ids) == {t \in TransactionRows : t.id \in ids}

(* The assets are only read if there are transfers of any *)
GetRoot(q, seen) ==
  LET matching == {id \in Db.transfers : q.address # Missing => IsTransferOf(id, q.address)}
      assets   == IF CurrenciesOf(seen[2]) = {} THEN {} ELSE seen[3]
      all      == IF CurrenciesOf(seen[2]) = {} THEN 3 ELSE 4
  IN  IF seen = <<>> THEN Awaits({Cardinality(matching)})
      ELSE IF seen[1] = 0 THEN Answers([count |-> 0, transfers |-> {}])
      ELSE IF Len(seen) = 1 THEN Awaits(Pages(matching, LimitOr(q, 10), q.offset))
      ELSE IF Len(seen) = 2 /\ all = 4 THEN Awaits({GetAssetMap(seen[2])})
      ELSE IF Len(seen) < all THEN Awaits({GetTransactionMap(seen[2])})
      ELSE Answers([count |-> seen[1], transfers |-> Resolved(seen[2], assets, seen[all])])

(* The transfers of coins, all of them, and their sum *)
GetAmount(q, seen) ==
  LET matching == {id \in Db.transfers : ~ IsAssetTransfer(id)}
  IN  IF seen = <<>> THEN Awaits({Cardinality(matching)})
      ELSE IF seen[1] = 0 THEN Answers([count |-> 0, total |-> 0])
      ELSE IF Len(seen) = 1 THEN Awaits({matching})
      ELSE IF Len(seen) = 2 THEN Awaits({GetTransactionMap(seen[2])})
      ELSE Answers([count |-> seen[1],
                    total |-> MapThenSumSet(LAMBDA id : Content[id].amount, seen[2])])

-----------------------------------------------------------------------------
(* /api/transactions *)

TransactionsAt(height) == {t \in TransactionRows : t.height = height}

(* A height of 0 is no condition; that of a block always is one *)
TransactionsMatching(q) ==
  LET found == IF q.block # Missing THEN TransactionsAt(q.block.height)
               ELSE IF q.height # 0 THEN TransactionsAt(q.height)
               ELSE TransactionRows
  IN  {t \in found : q.address # Missing => Content[t.id].senderId = q.address}

GetTransactions(q, seen) ==
  LET rest == IF q.block = Missing THEN seen ELSE Tail(seen)
  IN  IF q.block # Missing /\ seen = <<>> THEN Awaits({BlockById(q.block)})
      ELSE IF q.block # Missing /\ seen[1] = Missing
      THEN Answers([count |-> 0, rows |-> {}, limit |-> 0, offset |-> 0])
      ELSE CountThenPage(rest, TransactionsMatching(q), LimitOr(q, 100), q.offset)

GetUnconfirmedTransaction(q, seen) ==
  IF q.id \in ToSet(pool) THEN Answers([transaction |-> q.id]) ELSE Fails

GetUnconfirmedTransactions(q, seen) ==
  Answers([transactions |->
    SelectSeq(pool, LAMBDA id : q.address # Missing => Content[id].senderId = q.address)])

(* /api/loader and /api/system *)
Sync(q, seen)          == Answers([syncing |-> syncing, height |-> Height])
GetSystemInfo(q, seen) == Answers([height |-> Height])

-----------------------------------------------------------------------------
(* The routes of each module, and what the handler of a request does next *)

AccountsApi(h, q, seen) ==
  CASE h = "getAccountEndpoint"        -> GetAccountEndpoint(q, seen)
    [] h = "openAccount"               -> OpenAccount(q, seen)
    [] h = "getBalance"                -> GetAccountBalances(q, seen)
    [] h = "getAddressCurrencyBalance" -> GetAddressCurrencyBalance(q, seen)
    [] h = "getVotedDelegates"         -> GetVotedDelegates(q, seen)
    [] h = "count"                     -> CountAccounts(q, seen)
    [] h = "getPublicKey"              -> GetPublicKey(q, seen)

DelegatesApi(h, q, seen) ==
  CASE h = "count"          -> CountDelegates(q, seen)
    [] h = "getVoters"      -> GetVoters(q, seen)
    [] h = "getDelegate"    -> GetDelegate(q, seen)
    [] h = "getDelegates"   -> GetDelegates(q, seen)
    [] h = "forgingEnable"  -> ForgingEnable(q, seen)
    [] h = "forgingDisable" -> ForgingDisable(q, seen)
    [] h = "forgingStatus"  -> ForgingStatus(q, seen)

UiaApi(h, q, seen) ==
  CASE h = "getIssuers"      -> GetIssuers(q, seen)
    [] h = "isIssuer"        -> IsIssuer(q, seen)
    [] h = "getIssuer"       -> GetIssuer(q, seen)
    [] h = "getIssuerAssets" -> GetIssuerAssets(q, seen)
    [] h = "getAssets"       -> GetAssets(q, seen)
    [] h = "getAsset"        -> GetAsset(q, seen)
    [] h = "getBalances"     -> GetBalances(q, seen)
    [] h = "getBalance"      -> GetBalance(q, seen)

BlocksApi(h, q, seen) ==
  CASE h = "getBlock"     -> GetBlock(q, seen)
    [] h = "getBlocks"    -> GetBlocks(q, seen)
    [] h = "getHeight"    -> GetHeight(q, seen)
    [] h = "getMilestone" -> GetMilestone(q, seen)
    [] h = "getReward"    -> GetReward(q, seen)
    [] h = "getSupply"    -> GetSupply(q, seen)
    [] h = "getStatus"    -> GetStatus(q, seen)

TransfersApi(h, q, seen) ==
  CASE h = "getRoot"   -> GetRoot(q, seen)
    [] h = "getAmount" -> GetAmount(q, seen)

TransactionsApi(h, q, seen) ==
  CASE h = "getTransactions"            -> GetTransactions(q, seen)
    [] h = "getUnconfirmedTransaction"  -> GetUnconfirmedTransaction(q, seen)
    [] h = "getUnconfirmedTransactions" -> GetUnconfirmedTransactions(q, seen)

Handle(r) ==
  LET q == r.query
  IN  CASE q.api = "accounts"     -> AccountsApi(q.handler, q, r.seen)
        [] q.api = "delegates"    -> DelegatesApi(q.handler, q, r.seen)
        [] q.api = "uia"          -> UiaApi(q.handler, q, r.seen)
        [] q.api = "blocks"       -> BlocksApi(q.handler, q, r.seen)
        [] q.api = "transfers"    -> TransfersApi(q.handler, q, r.seen)
        [] q.api = "transactions" -> TransactionsApi(q.handler, q, r.seen)
        [] q.api = "exchange"     -> OpenAccountWithSecret(q, r.seen)
        [] q.api = "loader"       -> Sync(q, r.seen)
        [] q.api = "system"       -> GetSystemInfo(q, r.seen)

(* A request goes on until it awaits the next result, or it ends *)
Continue(r) ==
  IF Handle(r).awaits
  THEN /\ \E result \in Handle(r).results : request' = [r EXCEPT !.seen = Append(@, result)]
       /\ UNCHANGED keyPairs
  ELSE /\ request' = Null
       /\ keyPairs' = IF "keyPairs" \in DOMAIN Handle(r).answer THEN Handle(r).answer.keyPairs ELSE keyPairs

(* Mutant: a router without the gate *)
AskEarly(q) ==
  /\ request = Null
  /\ Continue([query |-> q, seen |-> <<>>, removed |-> FALSE])
  /\ UNCHANGED <<vars, ready, inserted>>

(* Every router answers 'Blockchain is loading' until the node is ready *)
Ask(q) ==
  /\ ready /\ request = Null
  /\ Continue([query |-> q, seen |-> <<>>, removed |-> FALSE])
  /\ UNCHANGED <<vars, ready, inserted>>

Resume ==
  /\ request # Null
  /\ Continue(request)
  /\ UNCHANGED <<vars, ready, inserted>>

-----------------------------------------------------------------------------
(* The node *)

Keep == UNCHANGED <<chain, saved, pendingBlock, syncing>>

(* PUT /api/transactions/batch, a task: up to the first transaction that fails *)
AddTransactions(ids) ==
  /\ ~ syncing
  /\ Len(pool) + Len(ids) <= MaxPool
  /\ SetPoolState(ProcessAll(PoolState, IsCollectingVotes, ids, Height))
  /\ Keep

(* PUT /api/exchange, a task: the transaction is created and signed by the node *)
AddTransactionUnsigned(id) ==
  /\ ~ syncing
  /\ Len(pool) < MaxPool
  /\ SetPoolState(ProcessUnconfirmed(PoolState, IsCollectingVotes, id, Height))
  /\ Keep

(* loop forges for the keys of this node *)
MayForge(d) == session.view.delegate[d].address \in keyPairs

Forged == {Block(Height + 1, d, pool) : d \in {e \in Delegates : MayForge(e)}}

(* The blocks the next commit may be of *)
NextBlocks ==
  {block \in OtherBlocks : Executed(RolledBack, chain, Height + 1, block) # Refused}
    \cup (IF syncing THEN {} ELSE
            IF IsCollectingVotes THEN {pendingBlock} ELSE Forged)

(* appendBlock *)
InsertBlock(block) ==
  /\ ready /\ inserted = Null
  /\ Height < MaxHeight /\ block.height = Height + 1
  /\ inserted' = block
  /\ UNCHANGED <<vars, ready, keyPairs, request>>

NodeTask ==
  \/ \E id \in Senders : ReceiveTransaction(id) \/ AddTransactionUnsigned(id)
  \/ \E ids \in Batches : AddTransactions(ids)
  \/ \E d \in Delegates : (inserted # Null \/ MayForge(d)) /\ (Forge(d) \/ Propose(d))
  \/ OnReceiveVotes
  \/ \E block \in OtherBlocks : OnReceiveBlock(block) \/ LoadBlock(block)
  \/ \E common \in DOMAIN chain : StartSync(common)
  \/ StartSyncFromGenesis
  \/ EndSync

(* A commit begins with the row of its block; nothing else runs until it ends *)
CommitsInserted ==
  IF DOMAIN chain' \subseteq DOMAIN chain
  THEN inserted = Null
  ELSE inserted # Null /\ chain' = With(chain, Height + 1, inserted)

Task ==
  /\ ready
  /\ NodeTask
  /\ CommitsInserted
  /\ inserted' = Null
  /\ request' = IF request = Null \/ DOMAIN chain \subseteq DOMAIN chain' THEN request
                ELSE [request EXCEPT !.removed = TRUE]
  /\ UNCHANGED <<ready, keyPairs>>

(* The process stops, and its requests with it *)
RestartNode ==
  /\ inserted = Null
  /\ Restart
  /\ ready' = FALSE /\ keyPairs' = {} /\ inserted' = Null /\ request' = Null

(* onBlockchainReady: the secrets of the configuration that are those of delegates *)
Start ==
  /\ ~ ready
  /\ ready' = TRUE
  /\ keyPairs' = Secrets \cap {session.view.delegate[d].address : d \in DOMAIN session.view.delegate}
  /\ UNCHANGED <<vars, inserted, request>>

HttpInit ==
  /\ Init
  /\ ready = FALSE /\ keyPairs = {} /\ inserted = Null /\ request = Null

HttpNext ==
  \/ \E q \in Requests : Ask(q)
  \/ Resume
  \/ \E block \in NextBlocks : InsertBlock(block)
  \/ Task
  \/ RestartNode
  \/ Start

HttpSpec == HttpInit /\ [][HttpNext]_<<vars, apiVars>>

-----------------------------------------------------------------------------
(* Properties.  What a rollback removed meanwhile cannot be answered; a    *)
(* property is about the answers that were not disturbed by one.           *)

(***************************************************************************)
(* The shape of the state: a node that is not ready has no keys and no     *)
(* requests, a row that is written is that of the next block, and no       *)
(* handler awaits more than four results.                                  *)
(***************************************************************************)
HttpTypeOK ==
  /\ TypeOK
  /\ ready \in BOOLEAN
  /\ ~ ready => keyPairs = {} /\ inserted = Null /\ request = Null
  /\ inserted # Null => inserted.height = Height + 1
  /\ request # Null => request.query \in Requests /\ Len(request.seen) \in 1 .. 4

Undisturbed(api, handlers) ==
  /\ request # Null /\ ~ request.removed
  /\ request.query.api = api /\ request.query.handler \in handlers
  /\ ~ Handle(request).awaits

Answer == Handle(request).answer

(***************************************************************************)
(* A block of a list is answered with its transactions, none of another    *)
(* block and none missing.  Only the newest one may lack all of them: its  *)
(* row was there before its transactions were.                             *)
(***************************************************************************)
BlocksComplete ==
  Undisturbed("blocks", {"getBlocks"}) /\ request.query.transactions /\ "blocks" \in DOMAIN Answer =>
    \A i \in DOMAIN Answer.blocks :
      LET b == Answer.blocks[i]
      IN  \/ b.transactions = ToSet(b.block.trs)
          \/ b.transactions = {} /\ \A j \in DOMAIN Answer.blocks : Answer.blocks[j].block.height <= b.block.height

(***************************************************************************)
(* What a list says it has, it answers, as far as its page goes: commits   *)
(* between the two queries only add rows.                                  *)
(***************************************************************************)
CountsCovered ==
  (\/ Undisturbed("uia", {"getIssuers", "getIssuerAssets", "getAssets", "getBalances"})
   \/ Undisturbed("transactions", {"getTransactions"})) /\ "count" \in DOMAIN Answer =>
    Cardinality(Answer.rows) >= Min({Answer.limit, Answer.count - Answer.offset})

(***************************************************************************)
(* Each transfer is answered with its transaction, and with its asset if   *)
(* it is not one of coins, though three queries found them.                *)
(***************************************************************************)
TransfersResolved ==
  Undisturbed("transfers", {"getRoot"}) =>
    \A t \in Answer.transfers : t.asset # Missing /\ t.transaction # Missing

(***************************************************************************)
(* A key this node begins to forge with belongs to a delegate, at the      *)
(* moment it is set, though its account was read earlier.                  *)
(***************************************************************************)
KeysOfDelegates ==
  [][request # Null /\ ~ request.removed =>
       \A a \in keyPairs' \ keyPairs : Db.account[a].isDelegate]_<<vars, apiVars>>

=============================================================================
