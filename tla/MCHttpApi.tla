----------------------------- MODULE MCHttpApi ------------------------------
(* An instance of HttpApi on top of the transactions of MCExecution *)
EXTENDS MCExecution, HttpApi

Currency == <<"i", "C">>

Pageable(api, handler, limit, offset) ==
  [api |-> api, handler |-> handler, limit |-> limit, offset |-> offset]

(* Answered from what is in memory *)
Immediate ==
  {[api |-> "blocks", handler |-> h] : h \in {"getHeight", "getMilestone", "getReward", "getSupply", "getStatus"}}
    \cup {[api |-> "loader", handler |-> "sync"],
          [api |-> "system", handler |-> "getSystemInfo"],
          [api |-> "delegates", handler |-> "count"],
          [api |-> "delegates", handler |-> "forgingStatus", address |-> "a1"],
          [api |-> "delegates", handler |-> "getDelegate", of |-> Name("d1")],
          Pageable("delegates", "getDelegates", 1, 1),
          [api |-> "transactions", handler |-> "getUnconfirmedTransaction", id |-> "give"],
          [api |-> "transactions", handler |-> "getUnconfirmedTransactions", address |-> Missing]}

(* One row, or one after another *)
Rows ==
  {[api |-> "accounts", handler |-> "count"],
   [api |-> "accounts", handler |-> "getAccountEndpoint", of |-> Name("d2")],
   [api |-> "accounts", handler |-> "getAccountEndpoint", of |-> Address("a2")],
   [api |-> "accounts", handler |-> "openAccount", address |-> "a3"],
   [api |-> "exchange", handler |-> "openAccountWithSecret", address |-> "a1"],
   [api |-> "accounts", handler |-> "getPublicKey", address |-> "a1"],
   [api |-> "accounts", handler |-> "getVotedDelegates", of |-> Name("d2")],
   [api |-> "delegates", handler |-> "getVoters", name |-> "d1"],
   [api |-> "delegates", handler |-> "forgingEnable", address |-> "a1"],
   [api |-> "delegates", handler |-> "forgingEnable", address |-> "a2"],
   [api |-> "delegates", handler |-> "forgingDisable", address |-> "a1"],
   [api |-> "uia", handler |-> "isIssuer", address |-> "a1"],
   [api |-> "uia", handler |-> "getIssuer", of |-> Address("a2")],
   [api |-> "uia", handler |-> "getAsset", currency |-> Currency],
   [api |-> "uia", handler |-> "getBalance", currency |-> Currency, address |-> "a1"],
   [api |-> "accounts", handler |-> "getAddressCurrencyBalance", currency |-> Currency, address |-> "a1"],
   [api |-> "blocks", handler |-> "getBlock", block |-> Missing, height |-> 1]}

(* Lists, whole and in part *)
Listed ==
  {Pageable("uia", "getIssuers", 0, 0),
   Pageable("uia", "getAssets", 1, 0),
   Pageable("uia", "getIssuerAssets", 0, 0) @@ [name |-> "i"],
   Pageable("uia", "getBalances", 0, 0) @@ [address |-> "a2"],
   Pageable("accounts", "getBalance", 1, 0) @@ [address |-> "a3"],
   [api |-> "transfers", handler |-> "getAmount"],
   Pageable("transfers", "getRoot", 0, 0) @@ [address |-> "a2"],
   Pageable("blocks", "getBlocks", 3, 0) @@ [reverse |-> FALSE, transactions |-> TRUE],
   Pageable("blocks", "getBlocks", 2, 1) @@ [reverse |-> TRUE, transactions |-> TRUE],
   Pageable("transactions", "getTransactions", 0, 0) @@ [block |-> GenesisBlock, height |-> 0, address |-> Missing],
   Pageable("transactions", "getTransactions", 0, 0) @@ [block |-> Block(1, "d1", <<"issuer">>), height |-> 0, address |-> Missing]}

ApiRequests == Immediate \cup Rows \cup Listed

ApiBatches == {<<"issue1", "give">>}

ConfigSecrets == {"a1"}

ApiGenesis == <<"pay1", "pay2", "name1", "name2", "reg1", "data">>

ApiIds == {"issuer", "asset", "issue1", "give"}

=============================================================================
