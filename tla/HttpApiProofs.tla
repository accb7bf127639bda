---------------------------- MODULE HttpApiProofs -----------------------------
(***************************************************************************)
(* That the queries of a request fit together, for any requests, any       *)
(* transactions, and any number of blocks committed between the queries.   *)
(*                                                                         *)
(* First, what a block does to the tables the queries read: nothing is     *)
(* taken away, and what refers to a row refers to one that is there        *)
(* (Known, Grows).  Then, what is known of the results a handler has so    *)
(* far, and that no commit makes it false.                                 *)
(***************************************************************************)
EXTENDS HttpApi, ExecutionProofs, SequenceTheorems

-----------------------------------------------------------------------------
(* The tables that queries read *)

SenderIds == {Content[id].senderId : id \in TrsIds}

HaveFlag(accounts) == \A a \in DOMAIN accounts : "isDelegate" \in DOMAIN accounts[a]

(* Finitely many rows, and what a row refers to is there *)
Known(v) ==
  /\ IsFiniteSet(DOMAIN v.issuer) /\ IsFiniteSet(DOMAIN v.asset) /\ IsFiniteSet(v.transfers)
  /\ \A key \in DOMAIN v.balance : key = <<key[1], key[2]>>
  /\ \A c \in DOMAIN v.asset : v.asset[c].issuerId \in SenderIds
  /\ \A id \in v.transfers :
       id \in TrsIds /\ (IsAssetTransfer(id) => Content[id].currency \in DOMAIN v.asset)
  /\ HaveFlag(v.account)

(* No account goes away, and no delegate stops to be one *)
Stay(x, y) ==
  /\ DOMAIN x \subseteq DOMAIN y
  /\ HaveFlag(y)
  /\ \A a \in DOMAIN x : x[a].isDelegate => y[a].isDelegate

(* No row goes away *)
Grows(v, w) ==
  /\ DOMAIN v.issuer \subseteq DOMAIN w.issuer
  /\ \A c \in DOMAIN v.asset : c \in DOMAIN w.asset /\ w.asset[c].issuerId = v.asset[c].issuerId
  /\ DOMAIN v.balance \subseteq DOMAIN w.balance
  /\ v.transfers \subseteq w.transfers
  /\ Stay(v.account, w.account)

LEMMA StaySelf == ASSUME NEW x, HaveFlag(x) PROVE Stay(x, x)
BY DEF Stay

LEMMA StayStay ==
  ASSUME NEW x, NEW y, NEW z, Stay(x, y), Stay(y, z)
  PROVE  Stay(x, z)
BY DEF Stay

LEMMA PutStays ==
  ASSUME NEW x, HaveFlag(x), NEW a, NEW row, "isDelegate" \in DOMAIN row,
         a \in DOMAIN x => (x[a].isDelegate => row.isDelegate)
  PROVE  Stay(x, [x EXCEPT ![a] = row])
BY DEF Stay, HaveFlag

LEMMA WithStays ==
  ASSUME NEW x, HaveFlag(x), NEW a, NEW row, "isDelegate" \in DOMAIN row,
         a \in DOMAIN x => (x[a].isDelegate => row.isDelegate)
  PROVE  Stay(x, With(x, a, row))
BY DEF Stay, HaveFlag, With

LEMMA IncreaseStays ==
  ASSUME NEW x, HaveFlag(x), NEW keys, NEW amount
  PROVE  Stay(x, Increase(x, keys, "gny", amount))
<1> DEFINE y == Increase(x, keys, "gny", amount)
<1>1. DOMAIN y = DOMAIN x
  BY DEF Increase
<1>2. ASSUME NEW a \in DOMAIN x
      PROVE  "isDelegate" \in DOMAIN y[a] /\ (x[a].isDelegate => y[a].isDelegate)
  <2>1. "isDelegate" \in DOMAIN x[a]
    BY DEF HaveFlag
  <2>2. y[a] = x[a] \/ y[a] = [x[a] EXCEPT !["gny"] = @ + amount]
    BY DEF Increase
  <2> HIDE DEF y
  <2>3. DOMAIN y[a] = DOMAIN x[a] /\ y[a].isDelegate = x[a].isDelegate
    BY <2>1, <2>2
  <2> QED BY <2>1, <2>3
<1> HIDE DEF y
<1>3. Stay(x, y)
  BY <1>1, <1>2 DEF Stay, HaveFlag
<1> QED BY <1>3 DEF y

LEMMA NewAccountFlag ==
  ASSUME NEW gny
  PROVE  "isDelegate" \in DOMAIN NewAccount(gny) /\ ~ NewAccount(gny).isDelegate
BY DEF NewAccount

LEMMA PayStays ==
  ASSUME NEW v, IsTables(v), HaveFlag(v.account), NEW from, NEW to, NEW amount
  PROVE  Stay(v.account, Pay(v, from, to, amount).account)
<1> DEFINE paid == IF to \in DOMAIN v.account
                   THEN Increase(v.account, {to}, "gny", amount)
                   ELSE With(v.account, to, NewAccount(amount))
<1>1. Pay(v, from, to, amount).account = Increase(paid, {from}, "gny", - amount)
  BY DEF Pay, IsTables, Fields
<1>2. Stay(v.account, paid)
  <2>1. CASE to \in DOMAIN v.account
    BY <2>1, IncreaseStays
  <2>2. CASE to \notin DOMAIN v.account
    BY <2>2, NewAccountFlag, WithStays
  <2> QED BY <2>1, <2>2
<1> HIDE DEF paid
<1>3. Stay(paid, Increase(paid, {from}, "gny", - amount))
  BY <1>2, IncreaseStays DEF Stay
<1> QED BY <1>1, <1>2, <1>3, StayStay

-----------------------------------------------------------------------------
(* What a contract does to them *)

(* A session whose view has everything its table has *)
Serving(s) == AssetsOK(s) /\ Known(s.view) /\ Grows(s.table, s.view)

(* The view v of a session over a table becomes w: the transfer may be new *)
Serves(table, v, w, id) ==
  /\ IsTables(w) /\ Known(w) /\ Grows(table, w)
  /\ w.transfers \subseteq v.transfers \cup {id}

Unlisted == {"account", "delegate", "votes", "mldata", "prediction", "transactions", "round", "bookkeeper"}

LEMMA AccountsServe ==
  ASSUME NEW table, NEW v, Known(v), Grows(table, v), NEW id,
         NEW w, Touches(v, w, Unlisted), Stay(v.account, w.account)
  PROVE  Serves(table, v, w, id)
<1>1. w.issuer = v.issuer /\ w.asset = v.asset /\ w.balance = v.balance /\ w.transfers = v.transfers
  BY DEF Touches, Unlisted, Fields
<1>2. Stay(table.account, w.account)
  BY StayStay DEF Grows
<1> QED BY <1>1, <1>2 DEF Serves, Known, Grows, Touches, Stay

LEMMA TransferServes ==
  ASSUME NEW s, Serving(s), NEW id \in TrsIds, ~ IsAssetTransfer(id), NEW t, t.id = id,
         NEW height, NEW w, w = Transfer(s, t, height), w # Refused
  PROVE  Serves(s.table, s.view, w, id)
<1>0. IsTables(s.view) /\ Known(s.view) /\ Grows(s.table, s.view)
  BY DEF Serving, AssetsOK
<1> DEFINE to == CHOOSE a \in Recipients(s.view, t.recipient) : TRUE
           paid == Pay(s.view, t.senderId, to, NumberOf(t.amount))
<1>1. w = [paid EXCEPT !.transfers = @ \cup {id}]
  BY DEF Transfer
<1>2. Stay(s.view.account, paid.account)
  BY <1>0, PayStays DEF Known
<1>3. IsTables(paid) /\ paid.transfers = s.view.transfers
  BY <1>0 DEF Pay, IsTables, Fields
<1> HIDE DEF paid
<1>4. w.account = paid.account /\ w.transfers = s.view.transfers \cup {id}
  BY <1>1, <1>3 DEF IsTables, Fields
<1>5. Touches(s.view, w, {"account", "transfers"})
  BY <1>0, TransferTouches
<1>6. IsTables(w) /\ w.issuer = s.view.issuer /\ w.asset = s.view.asset /\ w.balance = s.view.balance
  BY <1>5 DEF Touches, Fields
<1>7. Stay(s.table.account, w.account)
  BY <1>0, <1>2, <1>4, StayStay DEF Grows
<1>8. IsFiniteSet(w.transfers)
  BY <1>0, <1>4, FS_AddElement DEF Known
<1>9. Known(w)
  BY <1>0, <1>2, <1>4, <1>6, <1>8 DEF Known, Stay
<1> QED BY <1>0, <1>4, <1>6, <1>7, <1>9 DEF Serves, Grows

(* The contracts that replace the row of the sender, or none *)
LEMMA UpdateServes ==
  ASSUME NEW s, Serving(s), NEW id, NEW a, NEW row, NEW w, Touches(s.view, w, Unlisted),
         w.account = [s.view.account EXCEPT ![a] = row],
         a \in DOMAIN s.view.account
           => /\ "isDelegate" \in DOMAIN row
              /\ s.view.account[a].isDelegate => row.isDelegate
  PROVE  Serves(s.table, s.view, w, id)
<1>1. Stay(s.view.account, w.account)
  <2>1. HaveFlag(s.view.account)
    BY DEF Serving, Known
  <2>2. CASE a \in DOMAIN s.view.account
    BY <2>1, <2>2, PutStays
  <2>3. CASE a \notin DOMAIN s.view.account
    BY <2>1, <2>3 DEF Stay, HaveFlag
  <2> QED BY <2>2, <2>3
<1> QED BY <1>1, AccountsServe DEF Serving

LEMMA FieldsRest ==
  ASSUME NEW v, NEW w, NEW F, F \subseteq Unlisted, Touches(v, w, F)
  PROVE  Touches(v, w, Unlisted)
BY TouchesMore

LEMMA NamesServe ==
  ASSUME NEW s, Serving(s), NEW id, NEW t, NEW height
  PROVE  /\ \A w : w = SetUserName(s, t, height) /\ w # Refused => Serves(s.table, s.view, w, id)
         /\ \A w : w = SetSecondPassphrase(s, t, height) /\ w # Refused => Serves(s.table, s.view, w, id)
<1>0. IsTables(s.view) /\ HaveFlag(s.view.account)
  BY DEF Serving, AssetsOK, Known
<1>1. ASSUME NEW w, w = SetUserName(s, t, height), w # Refused
      PROVE  Serves(s.table, s.view, w, id)
  <2> DEFINE row == [Sender(s, t) EXCEPT !.username = t.username]
  <2>1. w = UpdateAccount(s.view, t.senderId, row)
    BY <1>1 DEF SetUserName
  <2>2. w.account = [s.view.account EXCEPT ![t.senderId] = row]
    BY <1>0, <2>1 DEF UpdateAccount, IsTables, Fields
  <2>3. t.senderId \in DOMAIN s.view.account
          => "isDelegate" \in DOMAIN row /\ (s.view.account[t.senderId].isDelegate => row.isDelegate)
    BY <1>0 DEF Sender, HaveFlag
  <2>4. Touches(s.view, w, Unlisted)
    BY <1>0, <1>1, AccountTouches, FieldsRest DEF Unlisted
  <2> HIDE DEF row
  <2> QED BY <2>2, <2>3, <2>4, UpdateServes
<1>2. ASSUME NEW w, w = SetSecondPassphrase(s, t, height), w # Refused
      PROVE  Serves(s.table, s.view, w, id)
  <2> DEFINE row == [Sender(s, t) EXCEPT !.secondPublicKey = TRUE]
  <2>1. w = UpdateAccount(s.view, t.senderId, row)
    BY <1>2 DEF SetSecondPassphrase
  <2>2. w.account = [s.view.account EXCEPT ![t.senderId] = row]
    BY <1>0, <2>1 DEF UpdateAccount, IsTables, Fields
  <2>3. t.senderId \in DOMAIN s.view.account
          => "isDelegate" \in DOMAIN row /\ (s.view.account[t.senderId].isDelegate => row.isDelegate)
    BY <1>0 DEF Sender, HaveFlag
  <2>4. Touches(s.view, w, Unlisted)
    BY <1>0, <1>2, AccountTouches, FieldsRest DEF Unlisted
  <2> HIDE DEF row
  <2> QED BY <2>2, <2>3, <2>4, UpdateServes
<1> QED BY <1>1, <1>2

LEMMA LockServes ==
  ASSUME NEW s, Serving(s), NEW id, NEW t, NEW height, NEW w, w = Lock(s, t, height), w # Refused
  PROVE  Serves(s.table, s.view, w, id)
<1>0. IsTables(s.view) /\ HaveFlag(s.view.account)
  BY DEF Serving, AssetsOK, Known
<1> DEFINE row == [Sender(s, t) EXCEPT !.isLocked = TRUE, !.lockHeight = t.height,
                                       !.gny = @ - t.amount, !.lockAmount = @ + t.amount]
           updated == UpdateAccount(s.view, t.senderId, row)
<1>1. w = IncreaseVotes(updated, VotedBy(s.table, t.senderId), t.amount)
  BY DEF Lock
<1>2. updated.account = [s.view.account EXCEPT ![t.senderId] = row] /\ IsTables(updated)
  BY <1>0 DEF UpdateAccount, IsTables, Fields
<1>3. t.senderId \in DOMAIN s.view.account
        => "isDelegate" \in DOMAIN row /\ (s.view.account[t.senderId].isDelegate => row.isDelegate)
  BY <1>0 DEF Sender, HaveFlag
<1> HIDE DEF updated, row
<1>4. w.account = [s.view.account EXCEPT ![t.senderId] = row]
  BY <1>1, <1>2 DEF IncreaseVotes, IsTables, Fields
<1>5. Touches(s.view, w, Unlisted)
  BY <1>0, LockTouches, FieldsRest DEF Unlisted
<1> QED BY <1>3, <1>4, <1>5, UpdateServes

LEMMA UnlockServes ==
  ASSUME NEW s, Serving(s), NEW id, NEW t, NEW height, NEW w, w = Unlock(s, t, height), w # Refused
  PROVE  Serves(s.table, s.view, w, id)
<1>0. IsTables(s.view) /\ HaveFlag(s.view.account)
  BY DEF Serving, AssetsOK, Known
<1> DEFINE account == Sender(s, t)
           row  == [account EXCEPT !.isLocked = FALSE, !.lockHeight = 0, !.lockAmount = 0,
                                   !.gny = Concatenate(@, account.lockAmount)]
           left == IncreaseVotes(s.view, VotedBy(s.table, t.senderId),
                                 - NumberOf(s.view.account[t.senderId].lockAmount))
           view == IF account.isDelegate THEN DeleteCreatedVotes(s, t.senderId) ELSE s.view
<1>1. w = UpdateAccount(view, t.senderId, row)
  BY DEF Unlock
<1>2. IsTables(left) /\ left.account = s.view.account
  BY <1>0 DEF IncreaseVotes, IsTables, Fields
<1>3. view \in {s.view, [left EXCEPT !.votes = @ \ VotesOf(s.table, t.senderId)]}
  BY DEF DeleteCreatedVotes
<1> HIDE DEF left, view
<1>4. IsTables(view) /\ view.account = s.view.account
  BY <1>0, <1>2, <1>3 DEF IsTables, Fields
<1>5. t.senderId \in DOMAIN s.view.account
        => "isDelegate" \in DOMAIN row /\ (s.view.account[t.senderId].isDelegate => row.isDelegate)
  BY <1>0 DEF Sender, HaveFlag
<1> HIDE DEF row
<1>6. w.account = [s.view.account EXCEPT ![t.senderId] = row]
  BY <1>1, <1>4 DEF UpdateAccount, IsTables, Fields
<1>7. Touches(s.view, w, Unlisted)
  BY <1>0, UnlockTouches, FieldsRest DEF Unlisted
<1> QED BY <1>5, <1>6, <1>7, UpdateServes

LEMMA DelegateServes ==
  ASSUME NEW s, Serving(s), NEW id, NEW t, NEW height,
         NEW w, w = RegisterDelegate(s, t, height), w # Refused
  PROVE  Serves(s.table, s.view, w, id)
<1>0. IsTables(s.view) /\ HaveFlag(s.view.account)
  BY DEF Serving, AssetsOK, Known
<1> DEFINE row == [Sender(s, t) EXCEPT !.isDelegate = TRUE]
           updated == UpdateAccount(s.view, t.senderId, row)
<1>1. w = [updated EXCEPT !.delegate = With(@, Sender(s, t).username, NewDelegate(t.senderId))]
  BY DEF RegisterDelegate
<1>2. updated.account = [s.view.account EXCEPT ![t.senderId] = row] /\ IsTables(updated)
  BY <1>0 DEF UpdateAccount, IsTables, Fields
<1>3. t.senderId \in DOMAIN s.view.account => "isDelegate" \in DOMAIN row /\ row.isDelegate
  BY <1>0 DEF Sender, HaveFlag
<1> HIDE DEF updated, row
<1>4. w.account = [s.view.account EXCEPT ![t.senderId] = row]
  BY <1>1, <1>2 DEF IsTables, Fields
<1>5. Touches(s.view, w, Unlisted)
  BY <1>0, DelegateTouches, FieldsRest DEF Unlisted
<1> QED BY <1>3, <1>4, <1>5, UpdateServes

(* The contracts that leave all of these tables alone *)
LEMMA OthersServe ==
  ASSUME NEW s, Serving(s), NEW id, NEW t, NEW height,
         NEW w \in {Vote(s, t, height), Unvote(s, t, height), UploadData(s, t, height),
                    GetPredictionCategory(s, t, height)}, w # Refused
  PROVE  Serves(s.table, s.view, w, id)
<1>0. IsTables(s.view) /\ HaveFlag(s.view.account)
  BY DEF Serving, AssetsOK, Known
<1> DEFINE F == {"delegate", "votes", "mldata", "prediction"}
<1>1. /\ Vote(s, t, height) # Refused => Touches(s.view, Vote(s, t, height), {"delegate", "votes"})
      /\ Unvote(s, t, height) # Refused => Touches(s.view, Unvote(s, t, height), {"delegate", "votes"})
      /\ UploadData(s, t, height) # Refused => Touches(s.view, UploadData(s, t, height), {"mldata"})
      /\ GetPredictionCategory(s, t, height) # Refused
           => Touches(s.view, GetPredictionCategory(s, t, height), {"prediction"})
  BY <1>0, VoteTouches, OtherTouches
<1>2. Touches(s.view, w, F)
  BY <1>1, TouchesMore
<1>3. w.account = s.view.account
  BY <1>2 DEF Touches, Fields
<1>4. Touches(s.view, w, Unlisted)
  BY <1>2, FieldsRest DEF Unlisted
<1> QED BY <1>0, <1>3, <1>4, StaySelf, AccountsServe DEF Serving

LEMMA RegisterIssuerServes ==
  ASSUME NEW s, Serving(s), NEW id, NEW t, NEW height,
         NEW w, w = RegisterIssuer(s, t, height), w # Refused
  PROVE  Serves(s.table, s.view, w, id)
<1>0. IsTables(s.view) /\ Known(s.view) /\ Grows(s.table, s.view)
  BY DEF Serving, AssetsOK
<1> DEFINE rows == With(s.view.issuer, t.name, t.senderId)
<1>1. w = [s.view EXCEPT !.issuer = rows]
  BY DEF RegisterIssuer
<1>2. DOMAIN rows = DOMAIN s.view.issuer \cup {t.name}
  BY DEF With
<1> HIDE DEF rows
<1>3. /\ IsTables(w) /\ w.issuer = rows /\ w.asset = s.view.asset /\ w.balance = s.view.balance
      /\ w.transfers = s.view.transfers /\ w.account = s.view.account
  BY <1>0, <1>1 DEF IsTables, Fields
<1>4. IsFiniteSet(DOMAIN w.issuer)
  BY <1>0, <1>2, <1>3, FS_AddElement DEF Known
<1>5. Known(w)
  BY <1>0, <1>3, <1>4 DEF Known
<1> QED BY <1>0, <1>2, <1>3, <1>5 DEF Serves, Grows

LEMMA RegisterAssetServes ==
  ASSUME NEW s, Serving(s), NEW id, NEW t, t.senderId \in SenderIds, NEW height,
         NEW w, w = RegisterAsset(s, t, height), w # Refused
  PROVE  Serves(s.table, s.view, w, id)
<1>0. IsTables(s.view) /\ Known(s.view) /\ Grows(s.table, s.view)
  BY DEF Serving, AssetsOK
<1> DEFINE name == CHOOSE n \in FullNames(s, t) : TRUE
           row  == [maximum |-> t.maximum, quantity |-> 0, issuerId |-> t.senderId]
           rows == With(s.view.asset, name, row)
<1>1. w = [s.view EXCEPT !.asset = rows] /\ FullNames(s, t) # {}
      /\ FullNames(s, t) \cap DOMAIN s.table.asset = {}
  BY DEF RegisterAsset
<1>2. name \notin DOMAIN s.table.asset
  BY <1>1
<1> HIDE DEF name
<1>3. /\ DOMAIN rows = DOMAIN s.view.asset \cup {name} /\ rows[name].issuerId = t.senderId
      /\ \A c \in DOMAIN s.view.asset : c # name => rows[c] = s.view.asset[c]
  BY DEF With
<1> HIDE DEF rows
<1>4. /\ IsTables(w) /\ w.asset = rows /\ w.issuer = s.view.issuer /\ w.balance = s.view.balance
      /\ w.transfers = s.view.transfers /\ w.account = s.view.account
  BY <1>0, <1>1 DEF IsTables, Fields
<1>5. IsFiniteSet(DOMAIN w.asset)
  BY <1>0, <1>3, <1>4, FS_AddElement DEF Known
<1>6. \A c \in DOMAIN w.asset : w.asset[c].issuerId \in SenderIds
  BY <1>0, <1>3, <1>4 DEF Known
<1>7. Known(w)
  BY <1>0, <1>3, <1>4, <1>5, <1>6 DEF Known
<1>8. \A c \in DOMAIN s.table.asset :
        c \in DOMAIN w.asset /\ w.asset[c].issuerId = s.table.asset[c].issuerId
  BY <1>0, <1>2, <1>3, <1>4 DEF Grows
<1> QED BY <1>0, <1>4, <1>7, <1>8 DEF Serves, Grows

LEMMA BalanceServes ==
  ASSUME NEW table, NEW v, IsTables(v), Known(v), Grows(table, v), NEW a, NEW c, NEW amount, NEW id,
         NEW w, w = IncreaseBalance(v, <<a, c>>, amount)
  PROVE  Serves(table, v, w, id)
<1> DEFINE rows == With(v.balance, <<a, c>>, BalanceOf(v, <<a, c>>) + amount)
<1>1. w = v \/ w = [v EXCEPT !.balance = rows]
  BY DEF IncreaseBalance
<1>2. DOMAIN rows = DOMAIN v.balance \cup {<<a, c>>}
  BY DEF With
<1> HIDE DEF rows
<1>3. /\ IsTables(w) /\ w.asset = v.asset /\ w.issuer = v.issuer
      /\ w.transfers = v.transfers /\ w.account = v.account
      /\ DOMAIN w.balance \in {DOMAIN v.balance, DOMAIN v.balance \cup {<<a, c>>}}
  BY <1>1, <1>2 DEF IsTables, Fields
<1>4. \A key \in DOMAIN w.balance : key = <<key[1], key[2]>>
  BY <1>3 DEF Known
<1>5. Known(w)
  BY <1>3, <1>4 DEF Known
<1> QED BY <1>3, <1>5 DEF Serves, Grows

LEMMA IssueServes ==
  ASSUME NEW s, Serving(s), NEW id, NEW t, NEW height, NEW w, w = Issue(s, t, height), w # Refused
  PROVE  Serves(s.table, s.view, w, id)
<1>0. IsTables(s.view) /\ Known(s.view) /\ Grows(s.table, s.view) /\ Backed(s.view)
  BY DEF Serving, AssetsOK
<1> DEFINE quantity == s.table.asset[t.currency].quantity + t.amount
           issued == [s.view EXCEPT !.asset[t.currency].quantity = quantity]
<1>1. w = IncreaseBalance(issued, <<t.senderId, t.currency>>, t.amount)
  BY DEF Issue
<1> HIDE DEF quantity
<1>2. /\ IsTables(issued) /\ issued.issuer = s.view.issuer /\ issued.balance = s.view.balance
      /\ issued.transfers = s.view.transfers /\ issued.account = s.view.account
      /\ issued.asset = [s.view.asset EXCEPT ![t.currency].quantity = quantity]
  BY <1>0 DEF IsTables, Fields
<1> HIDE DEF issued
<1>3. /\ DOMAIN issued.asset = DOMAIN s.view.asset
      /\ \A c \in DOMAIN s.view.asset : issued.asset[c].issuerId = s.view.asset[c].issuerId
  <2>1. \A c \in DOMAIN s.view.asset : AssetRow(s.view.asset[c])
    BY <1>0 DEF Backed
  <2> QED BY <1>2, <2>1 DEF AssetRow
<1>4. Known(issued)
  BY <1>0, <1>2, <1>3 DEF Known
<1>5. Grows(s.table, issued)
  BY <1>0, <1>2, <1>3 DEF Grows
<1>6. Serves(s.table, issued, w, id)
  BY <1>1, <1>2, <1>4, <1>5, BalanceServes
<1> QED BY <1>2, <1>6 DEF Serves

(* What is given away is there: the balance of the sender, hence the asset *)
LEMMA TransferAssetServes ==
  ASSUME NEW s, Serving(s), NEW id \in TrsIds, NEW t, t = Content[id], t.id = id, t.amount \in Nat \ {0},
         NEW height, NEW w, w = TransferAsset(s, t, height), w # Refused
  PROVE  Serves(s.table, s.view, w, id)
<1>0. IsTables(s.view) /\ Known(s.view) /\ Grows(s.table, s.view) /\ Backed(s.view)
  BY DEF Serving, AssetsOK
<1> DEFINE to == CHOOSE a \in Recipients(s.table, t.recipient) : TRUE
           taken == IncreaseBalance(s.view, <<t.senderId, t.currency>>, - t.amount)
           given == IncreaseBalance(taken, <<to, t.currency>>, t.amount)
<1>1. w = [given EXCEPT !.transfers = @ \cup {id}]
  BY DEF TransferAsset, TransferBalance
<1>2. t.currency \in DOMAIN s.view.asset
  <2>1. BalanceOf(s.view, <<t.senderId, t.currency>>) >= t.amount
    BY DEF TransferAsset
  <2>2. <<t.senderId, t.currency>> \in DOMAIN s.view.balance
    BY <2>1 DEF BalanceOf
  <2>3. \A key \in DOMAIN s.view.balance : key[2] \in DOMAIN s.view.asset
    BY <1>0 DEF Backed, BalancesOK
  <2>4. <<t.senderId, t.currency>>[2] = t.currency
    OBVIOUS
  <2> QED BY <2>2, <2>3, <2>4
<1>3. Serves(s.table, s.view, taken, id)
  BY <1>0, BalanceServes
<1>4. taken.asset = s.view.asset /\ taken.transfers = s.view.transfers
  BY <1>0 DEF IncreaseBalance, IsTables, Fields
<1> HIDE DEF taken
<1> HIDE DEF to
<1>5. Serves(s.table, taken, given, id)
  <2>1. IsTables(taken) /\ Known(taken) /\ Grows(s.table, taken)
    BY <1>3 DEF Serves
  <2> QED BY <2>1, BalanceServes
<1>6. given.asset = taken.asset /\ given.transfers = taken.transfers
  BY <1>3 DEF IncreaseBalance, IsTables, Fields, Serves
<1> HIDE DEF given
<1>7. IsTables(given) /\ Known(given) /\ Grows(s.table, given)
  BY <1>5 DEF Serves
<1>8. /\ IsTables(w) /\ w.asset = given.asset /\ w.issuer = given.issuer /\ w.balance = given.balance
      /\ w.transfers = s.view.transfers \cup {id} /\ w.account = given.account
  BY <1>1, <1>4, <1>6, <1>7 DEF IsTables, Fields
<1>9. IsFiniteSet(w.transfers)
  BY <1>0, <1>8, FS_AddElement DEF Known
<1>10. t.currency \in DOMAIN w.asset
  BY <1>2, <1>4, <1>6, <1>8
<1>11. \A i \in w.transfers :
         i \in TrsIds /\ (IsAssetTransfer(i) => Content[i].currency \in DOMAIN w.asset)
  BY <1>0, <1>4, <1>6, <1>8, <1>10 DEF Known
<1>12. Known(w)
  BY <1>7, <1>8, <1>9, <1>11 DEF Known
<1>13. Grows(s.table, w)
  BY <1>4, <1>6, <1>7, <1>8 DEF Grows
<1> QED BY <1>8, <1>12, <1>13 DEF Serves

-----------------------------------------------------------------------------
(* What a block does to them *)

LEMMA CallServes ==
  ASSUME NEW s, Serving(s), NEW id \in TrsIds, NEW t, t = Content[id], NEW height,
         NEW w, w = Call(s, t, height), w # Refused
  PROVE  Serves(s.table, s.view, w, id)
<1>1. /\ t.id = id
      /\ t.senderId \in SenderIds
      /\ t.type = "transferAsset" => t.amount \in Nat \ {0}
  BY ContractsAssumption DEF SenderIds
<1>2. CASE t.type = "transfer"
  <2>1. w = Transfer(s, t, height) /\ ~ IsAssetTransfer(id)
    BY <1>2 DEF Call, IsAssetTransfer
  <2> QED BY <1>1, <2>1, TransferServes
<1>3. CASE t.type \in {"setUserName", "setSecondPassphrase"}
  <2>1. w \in {SetUserName(s, t, height), SetSecondPassphrase(s, t, height)}
    BY <1>3 DEF Call
  <2> QED BY <2>1, NamesServe
<1>4. CASE t.type = "lock"
  <2>1. w = Lock(s, t, height)
    BY <1>4 DEF Call
  <2> QED BY <2>1, LockServes
<1>5. CASE t.type = "unlock"
  <2>1. w = Unlock(s, t, height)
    BY <1>5 DEF Call
  <2> QED BY <2>1, UnlockServes
<1>6. CASE t.type = "registerDelegate"
  <2>1. w = RegisterDelegate(s, t, height)
    BY <1>6 DEF Call
  <2> QED BY <2>1, DelegateServes
<1>7. CASE t.type \in {"vote", "unvote", "uploadData", "getPredictionCategory"}
  <2>1. w \in {Vote(s, t, height), Unvote(s, t, height), UploadData(s, t, height),
               GetPredictionCategory(s, t, height)}
    BY <1>7 DEF Call
  <2> QED BY <2>1, OthersServe
<1>8. CASE t.type = "registerIssuer"
  <2>1. w = RegisterIssuer(s, t, height)
    BY <1>8 DEF Call
  <2> QED BY <2>1, RegisterIssuerServes
<1>9. CASE t.type = "registerAsset"
  <2>1. w = RegisterAsset(s, t, height)
    BY <1>9 DEF Call
  <2> QED BY <1>1, <2>1, RegisterAssetServes
<1>10. CASE t.type = "issue"
  <2>1. w = Issue(s, t, height)
    BY <1>10 DEF Call
  <2> QED BY <2>1, IssueServes
<1>11. CASE t.type = "transferAsset"
  <2>1. w = TransferAsset(s, t, height)
    BY <1>11 DEF Call
  <2> QED BY <1>1, <1>11, <2>1, TransferAssetServes
<1>12. t.type \in {"transfer", "setUserName", "setSecondPassphrase", "lock", "unlock", "registerDelegate",
                   "vote", "unvote", "uploadData", "getPredictionCategory", "registerIssuer",
                   "registerAsset", "issue", "transferAsset"}
  BY DEF Call
<1> QED BY <1>2, <1>3, <1>4, <1>5, <1>6, <1>7, <1>8, <1>9, <1>10, <1>11, <1>12

(* s becomes r, by a transaction, or before one is called *)
ServesOn(s, r, id) ==
  /\ Formed(r) /\ Serving(r) /\ r.table = s.table
  /\ r.view.transfers \subseteq s.view.transfers \cup {id}

LEMMA ServesOnSelf ==
  ASSUME NEW s, Formed(s), Serving(s), NEW id
  PROVE  ServesOn(s, s, id)
BY DEF ServesOn

LEMMA ServesOnTwice ==
  ASSUME NEW s, NEW r, NEW u, NEW id, ServesOn(s, r, id), ServesOn(r, u, id)
  PROVE  ServesOn(s, u, id)
BY DEF ServesOn

(* Only the rows of accounts change *)
LEMMA AccountsServeOn ==
  ASSUME NEW s, Formed(s), Serving(s), NEW rows, Stay(s.view.account, rows), NEW id,
         NEW r, r = [s EXCEPT !.view = [s.view EXCEPT !.account = rows]]
  PROVE  ServesOn(s, r, id)
<1>0. IsTables(s.view) /\ AssetsOK(s) /\ Known(s.view) /\ Grows(s.table, s.view)
  BY DEF Serving, AssetsOK
<1> DEFINE w == [s.view EXCEPT !.account = rows]
<1>1. r.view = w /\ r.table = s.table /\ r.locks = s.locks /\ Formed(r)
  BY DEF Formed
<1>2. Touches(s.view, w, {"account"}) /\ w.account = rows
  BY <1>0 DEF Touches, IsTables, Fields
<1> HIDE DEF w
<1>3. Serves(s.table, s.view, w, id)
  BY <1>0, <1>2, FieldsRest, AccountsServe DEF Unlisted
<1>4. SameAssets(s.view, w)
  BY <1>2 DEF Touches, Fields, SameAssets
<1>5. AssetsOK(r)
  BY <1>0, <1>1, <1>4, AssetsSame
<1> QED BY <1>1, <1>3, <1>5 DEF ServesOn, Serving, Serves

LEMMA ChargedServes ==
  ASSUME NEW s, Formed(s), Serving(s), NEW t, NEW height, NEW id
  PROVE  ServesOn(s, Charged(s, t, height), id)
<1>1. CASE height = 0
  BY <1>1, ServesOnSelf DEF Charged
<1>2. CASE height # 0
  <2> DEFINE a == t.senderId
             row == [s.view.account[a] EXCEPT !.gny = @ - t.fee]
             rows == [s.view.account EXCEPT ![a] = row]
  <2>1. Charged(s, t, height) = [s EXCEPT !.view = [s.view EXCEPT !.account = rows]]
    BY <1>2 DEF Charged
  <2>2. HaveFlag(s.view.account)
    BY DEF Serving, Known
  <2>3. a \in DOMAIN s.view.account
          => "isDelegate" \in DOMAIN row /\ (s.view.account[a].isDelegate => row.isDelegate)
    BY <2>2 DEF HaveFlag
  <2> HIDE DEF row
  <2>4. Stay(s.view.account, rows)
    <3>1. CASE a \in DOMAIN s.view.account
      BY <2>2, <2>3, <3>1, PutStays
    <3>2. CASE a \notin DOMAIN s.view.account
      BY <2>2, <3>2 DEF Stay, HaveFlag
    <3> QED BY <3>1, <3>2
  <2> HIDE DEF rows
  <2> QED BY <2>1, <2>4, AccountsServeOn
<1> QED BY <1>1, <1>2

LEMMA WithSenderServes ==
  ASSUME NEW s, Formed(s), Serving(s), NEW t, NEW id
  PROVE  ServesOn(s, WithSender(s, t), id)
<1>1. CASE t.senderId \in DOMAIN s.view.account
  BY <1>1, ServesOnSelf DEF WithSender
<1>2. CASE t.senderId \notin DOMAIN s.view.account
  <2> DEFINE rows == With(s.view.account, t.senderId, NewAccount(0))
  <2>1. WithSender(s, t) = [s EXCEPT !.view = [s.view EXCEPT !.account = rows]]
    BY <1>2 DEF WithSender
  <2>2. Stay(s.view.account, rows)
    BY <1>2, NewAccountFlag, WithStays DEF Serving, Known
  <2> HIDE DEF rows
  <2> QED BY <2>1, <2>2, AccountsServeOn
<1> QED BY <1>1, <1>2

LEMMA ApplyServes ==
  ASSUME NEW s, Formed(s), Serving(s), NEW id \in TrsIds, NEW height,
         NEW r, r = Apply(s, Content[id], height), r # Refused
  PROVE  ServesOn(s, r, id)
<1> DEFINE t == Content[id]
           charged == Charged(s, t, height)
           names == LockNames(charged, t, height)
           result == Call(charged, t, height)
<1>1. ServesOn(s, charged, id)
  BY ChargedServes
<1>2. result # Refused /\ r = [s EXCEPT !.view = result, !.locks = @ \cup names]
  BY DEF Apply
<1>3. r.view = result /\ r.table = s.table /\ Formed(r)
  BY <1>2 DEF Formed
<1>4. AssetsOK(r)
  BY ApplyAssets DEF Serving
<1> HIDE DEF charged, t
<1>5. Serving(charged) /\ charged.table = s.table /\ charged.view.transfers \subseteq s.view.transfers \cup {id}
  BY <1>1 DEF ServesOn
<1>6. Serves(charged.table, charged.view, result, id)
  BY <1>2, <1>5, CallServes DEF t
<1> HIDE DEF result
<1> QED BY <1>3, <1>4, <1>5, <1>6 DEF ServesOn, Serving, Serves

LEMMA ApplyUnconfirmedServes ==
  ASSUME NEW s, Formed(s), Serving(s), NEW id \in TrsIds, NEW h
  PROVE  ServesOn(s, ApplyUnconfirmed(s, id, h).session, id)
<1> DEFINE t == Content[id]
           known == WithSender(s, t)
           r == ApplyUnconfirmed(s, id, h).session
<1>1. \/ r \in {s, known}
      \/ Apply(known, t, h + 1) # Refused /\ r = Apply(known, t, h + 1)
  BY DEF ApplyUnconfirmed
<1>2. ServesOn(s, known, id) /\ ServesOn(s, s, id)
  BY WithSenderServes, ServesOnSelf
<1> HIDE DEF r, known
<1>3. Formed(known) /\ Serving(known)
  BY <1>2 DEF ServesOn
<1>4. CASE r \in {s, known}
  BY <1>2, <1>4 DEF r
<1>5. CASE Apply(known, t, h + 1) # Refused /\ r = Apply(known, t, h + 1)
  <2>1. ServesOn(known, r, id)
    BY <1>3, <1>5, ApplyServes
  <2> QED BY <1>2, <2>1, ServesOnTwice DEF r
<1> QED BY <1>1, <1>4, <1>5

LEMMA ApplyBlockServes ==
  ASSUME NEW s, Formed(s), Serving(s), NEW trs \in Seq(TrsIds), NEW h
  PROVE  LET r == ApplyBlock(s, trs, h).session
         IN  /\ Serving(r) /\ r.table = s.table
             /\ r.view.transfers \subseteq s.view.transfers \cup ToSet(trs)
<1> DEFINE n == Len(trs)
           all == s.view.transfers \cup ToSet(trs)
           Good(r) == Formed(r) /\ Serving(r) /\ r.table = s.table /\ r.view.transfers \subseteq all
<1>1. n \in Nat /\ DOMAIN trs = 1 .. n /\ \A i \in 1 .. n : trs[i] \in TrsIds /\ trs[i] \in ToSet(trs)
  BY DEF ToSet
<1>2. PICK done : AppliedUpTo(done, s, trs, h, n) /\ ApplyBlock(s, trs, h) = done[n]
  BY <1>1, ApplyBlockRun
<1> HIDE DEF n
<1> DEFINE T == {i \in Nat : i <= n => Good(done[i].session)}
<1>3. 0 \in T
  <2>0. done[0] = Fresh(s)
    BY <1>1, <1>2, AppliedStep
  <2> QED BY <2>0 DEF Fresh
<1>4. ASSUME NEW i \in Nat, i \in T PROVE i + 1 \in T
  <2>1. SUFFICES ASSUME i + 1 <= n PROVE Good(done[i + 1].session)
    OBVIOUS
  <2>2. done[i + 1] = ApplyNext(done[(i + 1) - 1], trs[i + 1], h) /\ (i + 1) - 1 = i
    BY <1>1, <1>2, <2>1, AppliedStep
  <2>3. Good(done[i].session) /\ trs[i + 1] \in TrsIds /\ trs[i + 1] \in ToSet(trs)
    BY <1>1, <1>4, <2>1
  <2> DEFINE r == done[i].session
             u == ApplyUnconfirmed(r, trs[i + 1], h)
  <2>4. done[i + 1] \in {done[i], u}
    BY <2>2 DEF ApplyNext
  <2> HIDE DEF r
  <2>5. ServesOn(r, u.session, trs[i + 1])
    BY <2>3, ApplyUnconfirmedServes DEF r
  <2> HIDE DEF u
  <2>6. Good(u.session)
    BY <2>3, <2>5 DEF ServesOn, r
  <2> QED BY <2>3, <2>4, <2>6
<1> HIDE DEF T
<1>5. Nat \subseteq T
  BY <1>3, <1>4, SetInduction
<1>6. Good(done[n].session)
  BY <1>1, <1>5 DEF T
<1> QED BY <1>2, <1>6

-----------------------------------------------------------------------------
(* What applyRound does to the accounts *)

StaysIn(v, w) == Stay(v.account, w.account)

LEMMA UpdateDelegateStays ==
  ASSUME NEW view, IsTables(view), HaveFlag(view.account), NEW d, NEW fee, NEW reward
  PROVE  StaysIn(view, UpdateDelegate(view, d, fee, reward))
<1> DEFINE earned == Increase(Increase(view.delegate, {d}, "fees", fee), {d}, "rewards", reward)
           rows == Increase(view.account, {view.delegate[d].address}, "gny", fee + reward)
<1>1. UpdateDelegate(view, d, fee, reward) = [view EXCEPT !.delegate = earned, !.account = rows]
  BY DEF UpdateDelegate, IsTables, Fields
<1>2. Stay(view.account, rows)
  BY IncreaseStays
<1> HIDE DEF earned, rows
<1>3. UpdateDelegate(view, d, fee, reward).account = rows
  BY <1>1 DEF IsTables, Fields
<1> QED BY <1>2, <1>3 DEF StaysIn

LEMMA PayForgersStays ==
  ASSUME NEW view, IsTables(view), HaveFlag(view.account), NEW forged, DOMAIN forged = 1 .. RoundLength,
         NEW fee, NEW reward
  PROVE  IsTables(PayForgers(view, forged, fee, reward)) /\ StaysIn(view, PayForgers(view, forged, fee, reward))
<1>1. RoundLength \in Nat
  BY RoundsAssumption
<1>2. PICK paid : /\ PaidUpTo(paid, view, forged, fee, reward, RoundLength)
                  /\ PayForgers(view, forged, fee, reward) = paid[RoundLength]
  BY <1>1, PayForgersRun
<1>5. /\ paid[0] = view
      /\ \A j \in 1 .. RoundLength : paid[j] = UpdateDelegate(paid[j - 1], forged[j], fee, reward)
  BY <1>1, <1>2, PaidStep
<1> DEFINE T == {i \in Nat : i <= RoundLength => IsTables(paid[i]) /\ StaysIn(view, paid[i])}
<1>3. 0 \in T
  BY <1>1, <1>5, StaySelf DEF StaysIn
<1>4. ASSUME NEW i \in Nat, i \in T PROVE i + 1 \in T
  <2>1. SUFFICES ASSUME i + 1 <= RoundLength PROVE IsTables(paid[i + 1]) /\ StaysIn(view, paid[i + 1])
    OBVIOUS
  <2> HIDE DEF T
  <2>7. i + 1 \in 1 .. RoundLength /\ (i + 1) - 1 = i
    BY <1>1, <2>1
  <2>2. paid[i + 1] = UpdateDelegate(paid[(i + 1) - 1], forged[i + 1], fee, reward) /\ (i + 1) - 1 = i
    BY <1>5, <2>7
  <2>3. IsTables(paid[i]) /\ StaysIn(view, paid[i])
    BY <1>1, <1>4, <2>1 DEF T
  <2>4. HaveFlag(paid[i].account)
    BY <2>3 DEF StaysIn, Stay
  <2>5. StaysIn(paid[i], paid[i + 1])
    BY <2>2, <2>3, <2>4, UpdateDelegateStays
  <2>6. IsTables(paid[i + 1])
    BY <2>2, <2>3, UpdateDelegateTouches, TouchedTables
  <2> QED BY <2>3, <2>5, <2>6, StayStay DEF StaysIn
<1> HIDE DEF T
<1>6. Nat \subseteq T
  BY <1>3, <1>4, SetInduction
<1> QED BY <1>1, <1>2, <1>6 DEF T

LEMMA PayRoundStays ==
  ASSUME NEW view, IsTables(view), HaveFlag(view.account), NEW forged, DOMAIN forged = 1 .. RoundLength,
         NEW delegate, NEW data
  PROVE  StaysIn(view, PayRound(view, forged, delegate, data))
<1> DEFINE n == Len(view.bookkeeper)
           paid == PayForgers(view, forged, data.fee \div n, data.reward \div n)
<1>1. PayRound(view, forged, delegate, data)
        = UpdateDelegate(paid, delegate, (data.fee \div n) * n - data.fee, (data.reward \div n) * n - data.reward)
  BY DEF PayRound
<1>2. IsTables(paid) /\ StaysIn(view, paid)
  BY PayForgersStays
<1> HIDE DEF paid, n
<1>3. StaysIn(paid, PayRound(view, forged, delegate, data))
  BY <1>1, <1>2, UpdateDelegateStays DEF StaysIn, Stay
<1> QED BY <1>2, <1>3, StayStay DEF StaysIn

LEMMA TablesAfterStays ==
  ASSUME NEW view, IsTables(view), HaveFlag(view.account), NEW blocks, NEW height, NEW block
  PROVE  StaysIn(view, TablesAfter(view, blocks, height, block))
<1> DEFINE recorded == SaveBlockTransactions(view, block.trs)
           produced == [recorded EXCEPT !.delegate = Increase(@, {block.delegate}, "producedBlocks", 1)]
           counted  == IncreaseRoundData(produced, RoundOf(height), GetFeesOfAll(block.trs), CalculateReward(height))
           forged   == ForgedDelegates(blocks, height, block.delegate)
           missed   == MissBlocks(counted, ToSet(counted.bookkeeper) \ ToSet(forged))
           paid     == PayRound(missed, forged, block.delegate, RoundData(missed, RoundOf(height)))
<1>1. TablesAfter(view, blocks, height, block)
        \in {UpdateBookkeeper(recorded), counted, UpdateBookkeeper(paid)}
  BY DEF TablesAfter, ApplyRound
<1>2. IsTables(recorded) /\ recorded.account = view.account
  BY DEF SaveBlockTransactions, IsTables, Fields
<1> HIDE DEF recorded
<1>3. IsTables(produced) /\ produced.account = view.account
  BY <1>2 DEF IsTables, Fields
<1> HIDE DEF produced
<1>4. IsTables(counted) /\ counted.account = view.account
  BY <1>3 DEF IncreaseRoundData, IsTables, Fields
<1> HIDE DEF counted
<1>5. IsTables(missed) /\ missed.account = view.account
  BY <1>4 DEF MissBlocks, IsTables, Fields
<1> HIDE DEF missed
<1>6. DOMAIN forged = 1 .. RoundLength
  BY DEF ForgedDelegates
<1> HIDE DEF forged
<1>7. Stay(view.account, paid.account) /\ IsTables(paid)
  <2>1. StaysIn(missed, paid)
    BY <1>5, <1>6, PayRoundStays
  <2>2. IsTables(paid)
    BY <1>5, <1>6, PayRoundTouches, TouchedTables
  <2> QED BY <1>5, <2>1, <2>2 DEF StaysIn
<1> HIDE DEF paid
<1>8. UpdateBookkeeper(recorded).account = view.account /\ UpdateBookkeeper(paid).account = paid.account
  BY <1>2, <1>7 DEF UpdateBookkeeper, IsTables, Fields
<1> QED BY <1>1, <1>4, <1>7, <1>8, StaySelf DEF StaysIn

-----------------------------------------------------------------------------
(* Finite sets *)

LEMMA ImageFinite ==
  ASSUME NEW f, IsFiniteSet(DOMAIN f), NEW T, T = {f[x] : x \in DOMAIN f}
  PROVE  /\ IsFiniteSet(T)
         /\ (\A x, y \in DOMAIN f : f[x] = f[y] => x = y) => Cardinality(T) = Cardinality(DOMAIN f)
<1> DEFINE g == [x \in DOMAIN f |-> f[x]]
           S == DOMAIN f
<1>1. g \in Surjection(S, T)
  BY DEF Surjection
<1>2. IsFiniteSet(T) /\ (Cardinality(T) = Cardinality(S) <=> g \in Injection(S, T))
  BY <1>1, FS_Surjection
<1>3. ASSUME \A x, y \in S : f[x] = f[y] => x = y
      PROVE  g \in Injection(S, T)
  BY <1>3 DEF Injection, IsInjective
<1> QED BY <1>2, <1>3

LEMMA ToSetFinite ==
  ASSUME NEW S, NEW seq \in Seq(S)
  PROVE  IsFiniteSet(ToSet(seq)) /\ ToSet(seq) \subseteq S
<1>1. DOMAIN seq = 1 .. Len(seq) /\ Len(seq) \in Nat /\ \A i \in 1 .. Len(seq) : seq[i] \in S
  OBVIOUS
<1>2. IsFiniteSet(DOMAIN seq)
  BY <1>1, FS_Interval
<1>3. ToSet(seq) = {seq[i] : i \in DOMAIN seq}
  BY <1>1 DEF ToSet
<1> QED BY <1>1, <1>2, <1>3, ImageFinite

-----------------------------------------------------------------------------
(* The tables of every block *)

TablesOK(v) ==
  /\ IsTables(v) /\ Backed(v) /\ Known(v)
  /\ IsFiniteSet(v.transactions)
  /\ v.transfers \subseteq v.transactions

LEMMA OverServing ==
  ASSUME NEW v, IsTables(v), Backed(v), Known(v)
  PROVE  Formed(SessionOver(v)) /\ Serving(SessionOver(v))
<1>1. AssetsOK(SessionOver(v))
  BY OverBacked
<1>2. Grows(v, v)
  BY StaySelf DEF Grows, Known
<1> QED BY <1>1, <1>2, OverTables DEF Serving

LEMMA ExecutedServes ==
  ASSUME NEW v, TablesOK(v), NEW blocks, NEW height, NEW block, block.trs \in Seq(TrsIds),
         Applies(SessionOver(v), height, block),
         NEW w, w = Executed(SessionOver(v), blocks, height, block)
  PROVE  /\ TablesOK(w) /\ Grows(v, w)
         /\ w.transactions = v.transactions \cup ToSet(block.trs)
<1> DEFINE s == SessionOver(v)
           applied == ApplyBlock(s, block.trs, height - 1).session
           view == applied.view
<1>1. s.view = v /\ s.table = v
  BY OverTables
<1>2. Formed(s) /\ Serving(s) /\ AssetsOK(s)
  BY OverServing DEF TablesOK, Serving
<1>3. w = TablesAfter(view, blocks, height, block)
  BY DEF Executed, Applies
<1>14. Keeps(s.view, view)
  BY <1>1, <1>2, ApplyBlockFollows DEF TablesOK
<1> HIDE DEF s
<1>4. Serving(applied) /\ applied.table = v /\ view.transfers \subseteq v.transfers \cup ToSet(block.trs)
  BY <1>1, <1>2, ApplyBlockServes
<1> HIDE DEF applied
<1>6. IsTables(view) /\ Backed(view) /\ Known(view) /\ Grows(v, view)
  BY <1>4 DEF Serving, AssetsOK
<1>5. IsTables(w) /\ Backed(w) /\ w.transactions = v.transactions \cup ToSet(block.trs)
  BY <1>1, <1>3, <1>6, <1>14, TablesAfterBacked, TablesAfterRecords DEF Keeps
<1> HIDE DEF view
<1>7. Touches(view, w, BlockFields) /\ StaysIn(view, w)
  BY <1>3, <1>6, TablesAfterTouches, TablesAfterStays DEF Known
<1>8. w.issuer = view.issuer /\ w.asset = view.asset /\ w.balance = view.balance /\ w.transfers = view.transfers
  BY <1>7 DEF Touches, BlockFields, Fields
<1>9. Known(w)
  BY <1>6, <1>7, <1>8 DEF Known, StaysIn, Stay
<1>10. Grows(v, w)
  BY <1>6, <1>7, <1>8, StayStay DEF Grows, StaysIn
<1>11. IsFiniteSet(ToSet(block.trs))
  BY ToSetFinite
<1>12. IsFiniteSet(w.transactions)
  BY <1>5, <1>11, FS_Union DEF TablesOK
<1>13. w.transfers \subseteq w.transactions
  BY <1>4, <1>5, <1>8 DEF TablesOK
<1> QED BY <1>5, <1>9, <1>10, <1>12, <1>13 DEF TablesOK

LEMMA NoEntitiesOK == TablesOK(NoEntities)
<1>1. IsTables(NoEntities)
  BY DEF IsTables, NoEntities, Fields
<1>2. /\ DOMAIN NoEntities.balance = {} /\ DOMAIN NoEntities.asset = {} /\ DOMAIN NoEntities.issuer = {}
      /\ DOMAIN NoEntities.account = {} /\ NoEntities.transfers = {} /\ NoEntities.transactions = {}
  BY DEF NoEntities, NoRows
<1>3. Backed(NoEntities)
  BY <1>2, FS_EmptySet DEF Backed, BalancesOK
<1> QED BY <1>1, <1>2, <1>3, FS_EmptySet DEF TablesOK, Known, HaveFlag

(* Those of every block are in order, and every transaction of them is in a block *)
TablesServed(blocks, tables, n) ==
  \A h \in 0 .. n :
    /\ TablesOK(tables[h])
    /\ \A id \in tables[h].transactions : \E k \in 0 .. h : id \in ToSet(blocks[k].trs)

LEMMA ReplayServed ==
  ASSUME GenesisValid, NEW blocks, NEW tables, NEW n \in Nat,
         blocks[0] = GenesisBlock, tables[0] = GenesisTables,
         \A h \in 0 .. n : blocks[h].trs \in Seq(TrsIds),
         \A h \in 1 .. n : /\ tables[h] = Executed(SessionOver(tables[h - 1]), blocks, h, blocks[h])
                           /\ Applies(SessionOver(tables[h - 1]), h, blocks[h])
  PROVE  TablesServed(blocks, tables, n)
<1> DEFINE Good(h) == /\ TablesOK(tables[h])
                      /\ \A id \in tables[h].transactions : \E k \in 0 .. h : id \in ToSet(blocks[k].trs)
           T == {h \in Nat : h <= n => Good(h)}
<1>1. 0 \in T
  <2>1. tables[0] = Executed(SessionOver(NoEntities), NoRows, 0, blocks[0])
    BY DEF GenesisTables
  <2>2. blocks[0].trs \in Seq(TrsIds) /\ Applies(SessionOver(NoEntities), 0, blocks[0])
    BY <2>1, ExecutedApplies DEF GenesisValid
  <2>3. TablesOK(tables[0]) /\ tables[0].transactions = NoEntities.transactions \cup ToSet(blocks[0].trs)
    BY <2>1, <2>2, NoEntitiesOK, ExecutedServes
  <2>4. NoEntities.transactions = {}
    BY DEF NoEntities
  <2> QED BY <2>3, <2>4
<1>2. ASSUME NEW h \in Nat, h \in T PROVE h + 1 \in T
  <2>1. SUFFICES ASSUME h + 1 <= n PROVE Good(h + 1)
    OBVIOUS
  <2>2. h + 1 \in 1 .. n /\ h + 1 \in 0 .. n /\ (h + 1) - 1 = h /\ Good(h)
    BY <1>2, <2>1
  <2>3. /\ tables[h + 1] = Executed(SessionOver(tables[h]), blocks, h + 1, blocks[h + 1])
        /\ Applies(SessionOver(tables[h]), h + 1, blocks[h + 1])
        /\ blocks[h + 1].trs \in Seq(TrsIds)
    BY <2>2
  <2>4. /\ TablesOK(tables[h + 1])
        /\ tables[h + 1].transactions = tables[h].transactions \cup ToSet(blocks[h + 1].trs)
    BY <2>2, <2>3, ExecutedServes
  <2>5. \A k \in 0 .. h : k \in 0 .. h + 1
    OBVIOUS
  <2>6. h + 1 \in 0 .. h + 1
    OBVIOUS
  <2> QED BY <2>2, <2>4, <2>5, <2>6
<1> HIDE DEF T
<1>3. Nat \subseteq T
  BY <1>1, <1>2, SetInduction
<1>4. ASSUME NEW h \in 0 .. n PROVE Good(h)
  BY <1>3, <1>4 DEF T
<1> QED BY <1>4 DEF TablesServed

-----------------------------------------------------------------------------
(* Results, one after another *)

LEMMA LeastOfTwo ==
  ASSUME NEW a \in Int, NEW b \in Int
  PROVE  Min({a, b}) = IF a <= b THEN a ELSE b
BY DEF Min

LEMMA MostOfTwo ==
  ASSUME NEW a \in Int, NEW b \in Int
  PROVE  Max({a, b}) = IF a <= b THEN b ELSE a
BY DEF Max

IsSeq(x) == \E S : x \in Seq(S)

(* One more result at the end of x *)
Longer(x, next, result) ==
  /\ Len(x) \in Nat /\ Len(next) = Len(x) + 1
  /\ \A i \in 1 .. Len(x) : next[i] = x[i]
  /\ next[Len(x) + 1] = result

LEMMA AppendLonger ==
  ASSUME NEW x, IsSeq(x), NEW result, NEW next, next = Append(x, result)
  PROVE  IsSeq(next) /\ Longer(x, next, result)
<1>1. PICK S : x \in Seq(S)
  BY DEF IsSeq
<1>2. next \in Seq(S \cup {result})
  BY <1>1
<1>3. Longer(x, next, result)
  BY <1>1 DEF Longer
<1> QED BY <1>2, <1>3 DEF IsSeq

LEMMA TailFacts ==
  ASSUME NEW x, IsSeq(x), x # <<>>
  PROVE  /\ IsSeq(Tail(x)) /\ Len(x) \in Nat /\ Len(Tail(x)) = Len(x) - 1
         /\ \A i \in 1 .. Len(x) - 1 : Tail(x)[i] = x[i + 1]
<1>1. PICK S : x \in Seq(S)
  BY DEF IsSeq
<1> QED BY <1>1 DEF IsSeq

LEMMA LenSeq ==
  ASSUME NEW x, IsSeq(x)
  PROVE  Len(x) \in Nat /\ (x = <<>> <=> Len(x) = 0)
BY DEF IsSeq

LEMMA TailLonger ==
  ASSUME NEW x, IsSeq(x), x # <<>>, NEW result, NEW next, IsSeq(next), Longer(x, next, result)
  PROVE  Longer(Tail(x), Tail(next), result)
<1>1. Len(x) \in Nat /\ Len(x) # 0 /\ Len(next) = Len(x) + 1 /\ next # <<>>
  BY LenSeq DEF Longer
<1>2. /\ Len(Tail(x)) = Len(x) - 1 /\ \A i \in 1 .. Len(x) - 1 : Tail(x)[i] = x[i + 1]
      /\ Len(Tail(next)) = Len(next) - 1 /\ \A i \in 1 .. Len(next) - 1 : Tail(next)[i] = next[i + 1]
  BY <1>1, TailFacts
<1>3. \A i \in 1 .. Len(x) - 1 : Tail(next)[i] = Tail(x)[i]
  BY <1>1, <1>2 DEF Longer
<1>4. Tail(next)[Len(x)] = result
  BY <1>1, <1>2 DEF Longer
<1> QED BY <1>1, <1>2, <1>3, <1>4 DEF Longer

LEMMA Few ==
  ASSUME NEW k \in Nat
  PROVE  /\ k # 0 => k > 0
         /\ k # 0 /\ k # 1 => k > 1
         /\ k > 1 /\ k < 3 => k = 2
         /\ k > 1 /\ k < 4 /\ k # 2 => k = 3
         /\ k - 1 = 0 => k < 4
         /\ k < 2 => k < 4 /\ k - 1 < 3
         /\ k - 1 < 2 => k < 4
OBVIOUS

-----------------------------------------------------------------------------
(* A count, and then a page *)

(* A page of as many rows as the count says, or as the limit does *)
Covers(count, page, limit, offset) ==
  \/ Cardinality(page) >= count - offset
  \/ limit # 0 /\ Cardinality(page) >= limit

(* What has been counted and read so far of rows of which there are n now *)
PageSeen(seen, n, limit, offset) ==
  /\ Len(seen) > 0 => seen[1] \in Nat /\ seen[1] <= n
  /\ Len(seen) > 1 => Cardinality(seen[2]) \in Nat /\ Covers(seen[1], seen[2], limit, offset)

LEMMA PageSeenMore ==
  ASSUME NEW seen, NEW n \in Nat, NEW m \in Nat, n <= m, NEW limit, NEW offset,
         PageSeen(seen, n, limit, offset)
  PROVE  PageSeen(seen, m, limit, offset)
BY DEF PageSeen

LEMMA PageStep ==
  ASSUME NEW rows, NEW n \in Nat, Cardinality(rows) = n,
         NEW limit \in Nat, NEW offset \in Nat, NEW all, all = IF limit = 0 THEN n ELSE limit,
         NEW seen, PageSeen(seen, n, limit, offset), NEW next, NEW result, Longer(seen, next, result),
         CountThenPage(seen, rows, all, offset).awaits,
         result \in CountThenPage(seen, rows, all, offset).results
  PROVE  PageSeen(next, n, limit, offset) /\ Len(seen) < 2
<1>1. CASE Len(seen) = 0
  <2>1. result = n
    BY <1>1 DEF CountThenPage, Awaits
  <2> QED BY <1>1, <2>1 DEF Longer, PageSeen
<1>2. CASE Len(seen) = 1
  <2> DEFINE k == Min({all, Max({0, n - offset})})
  <2>1. result \in kSubset(k, rows)
    BY <1>2 DEF CountThenPage, Awaits, Pages
  <2>2. Max({0, n - offset}) = IF 0 <= n - offset THEN n - offset ELSE 0
    BY MostOfTwo
  <2>3. k = IF all <= Max({0, n - offset}) THEN all ELSE Max({0, n - offset})
    <3> DEFINE rest == Max({0, n - offset})
    <3>1. all \in Int /\ rest \in Int
      BY <2>2
    <3> HIDE DEF rest
    <3>2. Min({all, rest}) = IF all <= rest THEN all ELSE rest
      BY ONLY <3>1, LeastOfTwo
    <3> QED BY <3>2 DEF rest
  <2>4. k \in Nat
    BY <2>2, <2>3
  <2>5. Cardinality(result) = k
    BY <2>1 DEF kSubset
  <2>6. seen[1] \in Nat /\ seen[1] <= n /\ next[1] = seen[1] /\ next[2] = result /\ Len(next) = 2
    BY <1>2 DEF PageSeen, Longer
  <2>7. k >= seen[1] - offset \/ (limit # 0 /\ k >= limit)
    BY <2>2, <2>3, <2>6
  <2> HIDE DEF k
  <2> QED BY <1>2, <2>4, <2>5, <2>6, <2>7 DEF PageSeen, Covers
<1>3. Len(seen) \in {0, 1}
  BY DEF CountThenPage, Answers
<1> QED BY <1>1, <1>2, <1>3

LEMMA PageAnswered ==
  ASSUME NEW rows, NEW n \in Nat, NEW limit \in Nat, NEW offset \in Nat,
         NEW all \in Nat, limit # 0 => all = limit,
         NEW seen, Len(seen) \in Nat, PageSeen(seen, n, limit, offset), NEW reply,
         reply = CountThenPage(seen, rows, all, offset), ~ reply.awaits
  PROVE  Cardinality(reply.answer.rows) >= Min({reply.answer.limit, reply.answer.count - reply.answer.offset})
<1>1. Len(seen) > 1
  BY DEF CountThenPage, Awaits
<1>2. reply.answer = [count |-> seen[1], rows |-> seen[2], limit |-> all, offset |-> offset]
  BY <1>1 DEF CountThenPage, Answers
<1>3. seen[1] \in Nat /\ Cardinality(seen[2]) \in Nat /\ Covers(seen[1], seen[2], limit, offset)
  BY <1>1 DEF PageSeen
<1>4. Min({all, seen[1] - offset}) = IF all <= seen[1] - offset THEN all ELSE seen[1] - offset
  BY <1>3, LeastOfTwo
<1>5. Cardinality(seen[2]) >= Min({all, seen[1] - offset})
  BY <1>3, <1>4 DEF Covers
<1> QED BY <1>2, <1>5

-----------------------------------------------------------------------------
(* Lists: getIssuers, getAssets, getIssuerAssets, getBalances and           *)
(* getTransactions.  What is listed is that of db and of trs, rows of       *)
(* transactions, as they are when the question is asked.                    *)

Lists ==
  [uia |-> {"getIssuers", "getIssuerAssets", "getAssets", "getBalances"}, transactions |-> {"getTransactions"}]

IsList(q) == q.api \in DOMAIN Lists /\ q.handler \in Lists[q.api]

Holds(db, address) == {key \in DOMAIN db.balance : key[1] = address}

Matches(q, t) ==
  /\ q.block # Missing => t.height = q.block.height
  /\ q.block = Missing /\ q.height # 0 => t.height = q.height
  /\ q.address # Missing => Content[t.id].senderId = q.address

(* Those of getIssuerAssets are of the issuer that was found first *)
Listed(q, first, db, trs) ==
  CASE q.handler = "getIssuers"      -> DOMAIN db.issuer
    [] q.handler = "getAssets"       -> DOMAIN db.asset
    [] q.handler = "getIssuerAssets" -> {c \in DOMAIN db.asset : db.asset[c].issuerId = first}
    [] q.handler = "getBalances"     -> Holds(db, q.address)
    [] q.handler = "getTransactions" -> {t \in trs : Matches(q, t)}

PageLimit(q) == IF q.handler = "getBalances" THEN q.limit ELSE LimitOr(q, 100)

(* The first result is not the count but what the list is of *)
LooksUp(q) == q.handler = "getIssuerAssets" \/ (q.handler = "getTransactions" /\ q.block # Missing)

Paging(q, seen) == IF LooksUp(q) /\ seen # <<>> THEN Tail(seen) ELSE seen

ListSeen(q, seen, db, trs) ==
  PageSeen(Paging(q, seen), Cardinality(Listed(q, seen[1], db, trs)), PageLimit(q), q.offset)

LEMMA ListsAre ==
  ASSUME NEW q, IsList(q)
  PROVE  \/ q.api = "uia" /\ q.handler \in {"getIssuers", "getIssuerAssets", "getAssets", "getBalances"}
         \/ q.api = "transactions" /\ q.handler = "getTransactions"
BY DEF IsList, Lists

LEMMA ListedFinite ==
  ASSUME NEW q, IsList(q), NEW first, NEW db, TablesOK(db), NEW trs, IsFiniteSet(trs)
  PROVE  IsFiniteSet(Listed(q, first, db, trs)) /\ Cardinality(Listed(q, first, db, trs)) \in Nat
<1> DEFINE L == Listed(q, first, db, trs)
<1>1. L \subseteq DOMAIN db.issuer \/ L \subseteq DOMAIN db.asset \/ L \subseteq DOMAIN db.balance \/ L \subseteq trs
  BY ListsAre DEF Listed, Holds
<1>2. IsFiniteSet(DOMAIN db.issuer) /\ IsFiniteSet(DOMAIN db.asset) /\ IsFiniteSet(DOMAIN db.balance)
  BY DEF TablesOK, Known, Backed, BalancesOK
<1> HIDE DEF L
<1>3. IsFiniteSet(L)
  BY <1>1, <1>2, FS_Subset
<1> QED BY <1>3, FS_CardinalityType DEF L

LEMMA ListedMore ==
  ASSUME NEW q, IsList(q), NEW first, NEW db, NEW w, Grows(db, w), NEW trs, NEW others, trs \subseteq others
  PROVE  Listed(q, first, db, trs) \subseteq Listed(q, first, w, others)
<1>1. CASE q.handler = "getIssuers"
  BY <1>1 DEF Listed, Grows
<1>2. CASE q.handler = "getAssets"
  BY <1>2 DEF Listed, Grows
<1>3. CASE q.handler = "getIssuerAssets"
  BY <1>3 DEF Listed, Grows
<1>4. CASE q.handler = "getBalances"
  BY <1>4 DEF Listed, Grows, Holds
<1>5. CASE q.handler = "getTransactions"
  BY <1>5 DEF Listed
<1> QED BY <1>1, <1>2, <1>3, <1>4, <1>5, ListsAre

LEMMA ListSeenLater ==
  ASSUME NEW q, IsList(q), NEW seen, NEW db, NEW w, TablesOK(db), TablesOK(w), Grows(db, w),
         NEW trs, NEW others, trs \subseteq others, IsFiniteSet(others),
         ListSeen(q, seen, db, trs)
  PROVE  ListSeen(q, seen, w, others)
<1> DEFINE L == Listed(q, seen[1], db, trs)
           M == Listed(q, seen[1], w, others)
<1>1. IsFiniteSet(trs)
  BY FS_Subset
<1>2. IsFiniteSet(L) /\ IsFiniteSet(M) /\ Cardinality(L) \in Nat /\ Cardinality(M) \in Nat /\ L \subseteq M
  BY <1>1, ListedFinite, ListedMore
<1>3. PageSeen(Paging(q, seen), Cardinality(L), PageLimit(q), q.offset)
  BY DEF ListSeen
<1> HIDE DEF L, M
<1>4. Cardinality(L) <= Cardinality(M)
  BY <1>2, FS_Subset
<1>5. PageSeen(Paging(q, seen), Cardinality(M), PageLimit(q), q.offset)
  BY <1>2, <1>3, <1>4, PageSeenMore
<1> QED BY <1>5 DEF ListSeen, M

LEMMA BalancesCounted ==
  ASSUME Known(Db), Backed(Db), NEW address
  PROVE  Cardinality(Balances(address)) = Cardinality(Holds(Db, address))
<1> DEFINE K == Holds(Db, address)
           f == [key \in K |-> [address |-> key[1], currency |-> key[2], balance |-> Db.balance[key]]]
<1>1. IsFiniteSet(DOMAIN f)
  BY FS_Subset DEF Backed, BalancesOK, Holds
<1>2. Balances(address) = {f[key] : key \in DOMAIN f}
  BY DEF Balances, Holds
<1>3. ASSUME NEW x \in DOMAIN f, NEW y \in DOMAIN f, f[x] = f[y]
      PROVE  x = y
  <2>1. f[x].address = x[1] /\ f[x].currency = x[2] /\ f[y].address = y[1] /\ f[y].currency = y[2]
    OBVIOUS
  <2>2. x = <<x[1], x[2]>> /\ y = <<y[1], y[2]>>
    BY DEF Known, Holds
  <2> QED BY <1>3, <2>1, <2>2
<1>4. DOMAIN f = K
  OBVIOUS
<1> HIDE DEF f
<1> QED BY <1>1, <1>2, <1>3, <1>4, ImageFinite

LEMMA MatchingListed ==
  ASSUME NEW q
  PROVE  TransactionsMatching(q) = {t \in TransactionRows : Matches(q, t)}
<1>1. CASE q.block # Missing
  BY <1>1 DEF TransactionsMatching, TransactionsAt, Matches
<1>2. CASE q.block = Missing /\ q.height # 0
  BY <1>2 DEF TransactionsMatching, TransactionsAt, Matches
<1>3. CASE q.block = Missing /\ q.height = 0
  BY <1>3 DEF TransactionsMatching, TransactionsAt, Matches
<1> QED BY <1>1, <1>2, <1>3

(* What each of the handlers does: look up, count, or read a page *)
ListHandler(q, seen) ==
  CASE q.handler = "getIssuers"      -> GetIssuers(q, seen)
    [] q.handler = "getAssets"       -> GetAssets(q, seen)
    [] q.handler = "getIssuerAssets" -> GetIssuerAssets(q, seen)
    [] q.handler = "getBalances"     -> GetBalances(q, seen)
    [] q.handler = "getTransactions" -> GetTransactions(q, seen)

LEMMA ListReply ==
  ASSUME NEW q, IsList(q), q.limit \in Nat, NEW seen, Known(Db), Backed(Db), NEW reply, reply = ListHandler(q, seen)
  PROVE  LET n == Cardinality(Listed(q, seen[1], Db, TransactionRows))
         IN  \/ LooksUp(q) /\ seen = <<>>
             \/ LooksUp(q) /\ seen # <<>> /\ ~ reply.awaits
                /\ ("count" \notin DOMAIN reply.answer
                    \/ reply.answer = [count |-> 0, rows |-> {}, limit |-> 0, offset |-> 0])
             \/ \E rows :
                  /\ reply = CountThenPage(Paging(q, seen), rows, IF PageLimit(q) = 0 THEN n ELSE PageLimit(q), q.offset)
                  /\ Cardinality(rows) = n
<1> DEFINE L == Listed(q, seen[1], Db, TransactionRows)
<1>1. CASE q.handler \in {"getIssuers", "getAssets"}
  <2>1. PageLimit(q) = LimitOr(q, 100) /\ PageLimit(q) # 0
    BY <1>1 DEF PageLimit, LimitOr
  <2>2. reply = CountThenPage(seen, L, LimitOr(q, 100), q.offset) /\ ~ LooksUp(q)
    BY <1>1 DEF ListHandler, GetIssuers, GetAssets, Listed, LooksUp
  <2> QED BY <2>1, <2>2 DEF Paging
<1>2. CASE q.handler = "getIssuerAssets"
  <2>1. PageLimit(q) = LimitOr(q, 100) /\ PageLimit(q) # 0 /\ LooksUp(q)
    BY <1>2 DEF PageLimit, LimitOr, LooksUp
  <2>2. L = AssetsOf(seen[1])
    BY <1>2 DEF Listed, AssetsOf
  <2>3. reply = GetIssuerAssets(q, seen)
    BY <1>2 DEF ListHandler
  <2>4. CASE seen = <<>>
    BY <2>1, <2>4
  <2>5. CASE seen # <<>> /\ seen[1] = Missing
    BY <2>1, <2>3, <2>5 DEF GetIssuerAssets, Fails, Answers
  <2>6. CASE seen # <<>> /\ seen[1] # Missing
    BY <2>1, <2>2, <2>3, <2>6 DEF GetIssuerAssets, Paging
  <2> QED BY <2>4, <2>5, <2>6
<1>3. CASE q.handler = "getBalances"
  <2> DEFINE rows == Balances(q.address)
  <2>1. PageLimit(q) = q.limit /\ ~ LooksUp(q)
    BY <1>3 DEF PageLimit, LooksUp
  <2>2. L = Holds(Db, q.address)
    BY <1>3 DEF Listed
  <2>3. Cardinality(rows) = Cardinality(L)
    BY <2>2, BalancesCounted
  <2>4. reply = CountThenPage(seen, rows, IF q.limit = 0 THEN Cardinality(rows) ELSE q.limit, q.offset)
    BY <1>3 DEF ListHandler, GetBalances
  <2> QED BY <2>1, <2>3, <2>4 DEF Paging
<1>4. CASE q.handler = "getTransactions"
  <2>1. PageLimit(q) = LimitOr(q, 100) /\ PageLimit(q) # 0
    BY <1>4 DEF PageLimit, LimitOr
  <2>2. L = TransactionsMatching(q)
    BY <1>4, MatchingListed DEF Listed
  <2>3. reply = GetTransactions(q, seen)
    BY <1>4 DEF ListHandler
  <2>4. CASE q.block # Missing /\ seen = <<>>
    BY <1>4, <2>4 DEF LooksUp
  <2>5. CASE q.block # Missing /\ seen # <<>> /\ seen[1] = Missing
    <3>1. reply = Answers([count |-> 0, rows |-> {}, limit |-> 0, offset |-> 0])
      BY <2>3, <2>5 DEF GetTransactions
    <3> QED BY <1>4, <2>5, <3>1 DEF Answers, LooksUp
  <2>6. CASE q.block # Missing /\ seen # <<>> /\ seen[1] # Missing
    BY <1>4, <2>1, <2>2, <2>3, <2>6 DEF GetTransactions, LooksUp, Paging
  <2>7. CASE q.block = Missing
    BY <1>4, <2>1, <2>2, <2>3, <2>7 DEF GetTransactions, LooksUp, Paging
  <2> QED BY <2>4, <2>5, <2>6, <2>7
<1> QED BY <1>1, <1>2, <1>3, <1>4, ListsAre

LEMMA ListPages ==
  ASSUME NEW q \in Requests, IsList(q)
  PROVE  q.limit \in Nat /\ q.offset \in Nat /\ PageLimit(q) \in Nat
<1>1. q.limit \in Nat /\ q.offset \in Nat
  BY ListsAre, HttpApiAssumption DEF Paged
<1> QED BY <1>1 DEF PageLimit, LimitOr

LEMMA ListStep ==
  ASSUME NEW q \in Requests, IsList(q), TablesOK(Db), IsFiniteSet(TransactionRows),
         NEW seen, IsSeq(seen), ListSeen(q, seen, Db, TransactionRows),
         NEW reply, reply = ListHandler(q, seen), reply.awaits,
         NEW result, result \in reply.results, NEW next, next = Append(seen, result)
  PROVE  ListSeen(q, next, Db, TransactionRows) /\ Len(seen) < 4
<1>1. IsSeq(next) /\ Longer(seen, next, result) /\ next # <<>>
  <2>1. IsSeq(next) /\ Longer(seen, next, result)
    BY AppendLonger
  <2> QED BY <2>1, LenSeq DEF Longer
<1>2. Len(seen) \in Nat /\ (seen = <<>> <=> Len(seen) = 0)
  BY LenSeq
<1>3. CASE LooksUp(q) /\ seen = <<>>
  <2>1. Len(next) = 1
    BY <1>1, <1>2, <1>3 DEF Longer
  <2>2. Len(Paging(q, next)) = 0
    BY <1>1, <1>3, <2>1, TailFacts DEF Paging
  <2> QED BY <1>2, <1>3, <2>2 DEF ListSeen, PageSeen
<1>4. CASE ~ (LooksUp(q) /\ seen = <<>>)
  <2> DEFINE n == Cardinality(Listed(q, seen[1], Db, TransactionRows))
             all == IF PageLimit(q) = 0 THEN n ELSE PageLimit(q)
  <2>1. Known(Db) /\ Backed(Db) /\ q.limit \in Nat /\ q.offset \in Nat /\ PageLimit(q) \in Nat
    BY ListPages DEF TablesOK
  <2>2. PICK rows : reply = CountThenPage(Paging(q, seen), rows, all, q.offset) /\ Cardinality(rows) = n
    BY <1>4, <2>1, ListReply
  <2>3. n \in Nat
    BY ListedFinite
  <2>4. Longer(Paging(q, seen), Paging(q, next), result) /\ Len(seen) <= Len(Paging(q, seen)) + 1
    BY <1>1, <1>2, <1>4, TailLonger, TailFacts DEF Paging
  <2>5. Listed(q, next[1], Db, TransactionRows) = Listed(q, seen[1], Db, TransactionRows)
    <3>1. CASE seen = <<>>
      <4>1. q.handler # "getIssuerAssets"
        BY <1>4, <3>1 DEF LooksUp
      <4> QED BY <4>1, ListsAre DEF Listed
    <3>2. CASE seen # <<>>
      BY <1>1, <1>2, <3>2 DEF Longer
    <3> QED BY <3>1, <3>2
  <2>6. PageSeen(Paging(q, seen), n, PageLimit(q), q.offset)
    BY DEF ListSeen
  <2>7. PageSeen(Paging(q, next), n, PageLimit(q), q.offset) /\ Len(Paging(q, seen)) < 2
    <3> DEFINE paging == Paging(q, seen)
               more == Paging(q, next)
               limit == PageLimit(q)
               offset == q.offset
    <3>1. CountThenPage(paging, rows, all, offset).awaits /\ result \in CountThenPage(paging, rows, all, offset).results
      BY <2>2
    <3>2. Longer(paging, more, result) /\ PageSeen(paging, n, limit, offset) /\ limit \in Nat /\ offset \in Nat
      BY <2>1, <2>4, <2>6
    <3>3. n \in Nat /\ Cardinality(rows) = n /\ all = IF limit = 0 THEN n ELSE limit
      BY <2>2, <2>3
    <3> HIDE DEF paging, more, limit, offset, n, all
    <3>4. PageSeen(more, n, limit, offset) /\ Len(paging) < 2
      BY <3>1, <3>2, <3>3, PageStep
    <3> QED BY <3>4 DEF paging, more, limit, offset
  <2> HIDE DEF all
  <2>8. PageSeen(Paging(q, next), Cardinality(Listed(q, next[1], Db, TransactionRows)), PageLimit(q), q.offset)
    BY <2>5, <2>7
  <2>9. Len(seen) < 4
    BY <1>2, <2>4, <2>7 DEF Longer
  <2> QED BY <2>8, <2>9 DEF ListSeen
<1> QED BY <1>3, <1>4

LEMMA ListAnswered ==
  ASSUME NEW q \in Requests, IsList(q), TablesOK(Db), IsFiniteSet(TransactionRows),
         NEW seen, IsSeq(seen), seen # <<>>, ListSeen(q, seen, Db, TransactionRows),
         NEW reply, reply = ListHandler(q, seen), ~ reply.awaits, "count" \in DOMAIN reply.answer
  PROVE  Cardinality(reply.answer.rows)
           >= Min({reply.answer.limit, reply.answer.count - reply.answer.offset})
<1> DEFINE n == Cardinality(Listed(q, seen[1], Db, TransactionRows))
           limit == PageLimit(q)
           offset == q.offset
           all == IF limit = 0 THEN n ELSE limit
           paging == Paging(q, seen)
<1>1. Known(Db) /\ Backed(Db) /\ q.limit \in Nat /\ offset \in Nat /\ limit \in Nat
  BY ListPages DEF TablesOK
<1>2. n \in Nat
  BY ListedFinite
<1>3. \/ reply.answer = [count |-> 0, rows |-> {}, limit |-> 0, offset |-> 0]
      \/ \E rows : reply = CountThenPage(paging, rows, all, offset)
  BY <1>1, ListReply
<1>4. CASE reply.answer = [count |-> 0, rows |-> {}, limit |-> 0, offset |-> 0]
  <2>1. Cardinality({}) = 0
    BY FS_EmptySet
  <2>2. Min({0, 0 - 0}) = 0
    BY LeastOfTwo
  <2> QED BY <1>4, <2>1, <2>2
<1>5. CASE \E rows : reply = CountThenPage(paging, rows, all, offset)
  <2>1. PICK rows : reply = CountThenPage(paging, rows, all, offset)
    BY <1>5
  <2>2. PageSeen(paging, n, limit, offset)
    BY DEF ListSeen
  <2>3. Len(paging) \in Nat
    BY LenSeq, TailFacts DEF Paging
  <2>4. all \in Nat /\ (limit # 0 => all = limit)
    BY <1>1, <1>2
  <2> HIDE DEF n, limit, offset, all, paging
  <2> QED BY <1>1, <1>2, <2>1, <2>2, <2>3, <2>4, PageAnswered
<1> QED BY <1>3, <1>4, <1>5

-----------------------------------------------------------------------------
(* What the queries find: the tables db, the rows of blocks of which the    *)
(* first n are committed, and those of transactions                         *)

IdsAt(trs, height) == {t.id : t \in {u \in trs : u.height = height}}

Stored(db, blocks, n, trs) ==
  /\ n \in Nat /\ TablesOK(db)
  /\ DOMAIN blocks \in {0 .. n, 0 .. n + 1}
  /\ \A h \in DOMAIN blocks : blocks[h].height = h
  /\ IsFiniteSet(trs) /\ trs \subseteq [id : TrsIds, height : Nat]
  /\ \A t \in trs : t.height <= n
  /\ \A h \in 0 .. n : IdsAt(trs, h) = ToSet(blocks[h].trs)
  /\ \A id \in db.transactions : \E t \in trs : t.id = id

-----------------------------------------------------------------------------
(* getBlocks *)

(* The rows of some heights that follow one another *)
Consecutive(list, min, blocks) ==
  /\ Len(list) \in Nat /\ DOMAIN list = 1 .. Len(list)
  /\ \A i \in 1 .. Len(list) :
       /\ list[i].height = min + i - 1
       /\ min + i - 1 \in DOMAIN blocks /\ list[i] = blocks[min + i - 1]

(* Transactions of these heights: all of a block, or none of the last one *)
Fitting(list, min, trs) ==
  /\ \A t \in trs : t.height \in Nat
  /\ \A i \in 1 .. Len(list) :
       \/ IdsAt(trs, min + i - 1) = ToSet(list[i].trs)
       \/ IdsAt(trs, min + i - 1) = {} /\ i = Len(list)

BlocksSeen(seen, blocks) ==
  /\ Len(seen) > 0 => seen[1].min \in Nat /\ seen[1].max \in Int
  /\ Len(seen) > 1 => Consecutive(seen[2], seen[1].min, blocks)
  /\ Len(seen) > 2 => Fitting(seen[2], seen[1].min, seen[3])

LEMMA BlocksSeenLater ==
  ASSUME NEW seen, NEW blocks, NEW others, BlocksSeen(seen, blocks),
         \A h \in DOMAIN blocks : h \in DOMAIN others /\ others[h] = blocks[h]
  PROVE  BlocksSeen(seen, others)
BY DEF BlocksSeen, Consecutive

LEMMA RangeKnown ==
  ASSUME NEW q, q.limit \in Nat, q.offset \in Nat, Height \in Nat
  PROVE  HeightRange(q).min \in Nat /\ HeightRange(q).max \in Int
<1> DEFINE limit == LimitOr(q, 20)
           last == Height - q.offset
<1>1. limit \in Nat /\ last \in Int
  BY DEF LimitOr
<1>2. Max({0, last - limit + 1}) \in Nat
  BY <1>1, MostOfTwo
<1>3. HeightRange(q) = IF q.reverse
                       THEN [min |-> Max({0, last - limit + 1}), max |-> last]
                       ELSE [min |-> q.offset, max |-> q.offset + limit - 1]
  BY DEF HeightRange
<1> HIDE DEF limit, last
<1> QED BY <1>1, <1>2, <1>3

LEMMA RangeConsecutive ==
  ASSUME NEW db, NEW n, NEW trs, Stored(db, BlockRows, n, trs), NEW min \in Nat, NEW max \in Int, min <= max
  PROVE  Consecutive(BlocksByHeightRange(min, max), min, BlockRows)
<1>1. PICK top \in Nat : DOMAIN BlockRows = 0 .. top
  BY DEF Stored
<1>2. Max(DOMAIN BlockRows) = top
  BY <1>1, MaxUpTo
<1> DEFINE last == Max({min - 1, Min({max, top})})
           list == BlocksByHeightRange(min, max)
<1>3. Min({max, top}) = IF max <= top THEN max ELSE top
  BY LeastOfTwo
<1>4. last = IF min - 1 <= Min({max, top}) THEN Min({max, top}) ELSE min - 1
  BY <1>3, MostOfTwo
<1>5. last \in Int /\ last >= min - 1 /\ (last > min - 1 => last <= top)
  BY <1>3, <1>4
<1>6. list = [i \in 1 .. last - min + 1 |-> BlockRows[min + i - 1]]
  BY <1>2 DEF BlocksByHeightRange
<1> HIDE DEF last, list
<1>7. last - min + 1 \in Nat /\ Len(list) = last - min + 1
  BY <1>5, <1>6
<1>8. ASSUME NEW i \in 1 .. Len(list)
      PROVE  min + i - 1 \in 0 .. top /\ list[i] = BlockRows[min + i - 1]
  BY <1>5, <1>6, <1>7
<1>9. \A h \in 0 .. top : BlockRows[h].height = h
  BY <1>1 DEF Stored
<1>10. Consecutive(list, min, BlockRows)
  BY <1>1, <1>6, <1>7, <1>8, <1>9 DEF Consecutive
<1> QED BY <1>10 DEF list

LEMMA BetweenFits ==
  ASSUME NEW db, NEW blocks, NEW n, Stored(db, blocks, n, TransactionRows), NEW min \in Nat,
         NEW list, Consecutive(list, min, blocks), list # <<>>, Len(list) # 0
  PROVE  Fitting(list, min, TransactionsBetween(min, Last(list).height))
<1> DEFINE m == Len(list)
           trs == TransactionsBetween(min, Last(list).height)
<1>1. m \in Nat /\ m # 0 /\ list[m].height = min + m - 1
  BY DEF Consecutive
<1>2. trs = {t \in TransactionRows : t.height \in min .. min + m - 1}
  BY <1>1 DEF TransactionsBetween, Last
<1>3. \A t \in TransactionRows : t.height \in Nat
  BY DEF Stored
<1> HIDE DEF trs, m
<1>4. ASSUME NEW i \in 1 .. m
      PROVE  \/ IdsAt(trs, min + i - 1) = ToSet(list[i].trs)
             \/ IdsAt(trs, min + i - 1) = {} /\ i = m
  <2> DEFINE h == min + i - 1
  <2>1. h \in min .. min + m - 1 /\ h \in Nat
    BY <1>1
  <2>2. IdsAt(trs, h) = IdsAt(TransactionRows, h)
    BY <1>2, <2>1 DEF IdsAt
  <2>3. h \in DOMAIN blocks /\ list[i] = blocks[h]
    BY DEF Consecutive, m
  <2> HIDE DEF h
  <2>4. n \in Nat /\ (h \in 0 .. n \/ h = n + 1)
    BY <2>1, <2>3 DEF Stored
  <2>5. CASE h \in 0 .. n
    BY <2>2, <2>3, <2>5 DEF Stored, h
  <2>6. CASE h = n + 1
    <3>1. IdsAt(TransactionRows, h) = {}
      BY <2>4, <2>6, <1>3 DEF Stored, IdsAt
    <3>2. i = m
      <4>1. SUFFICES ASSUME i < m PROVE FALSE
        BY <1>1
      <4>2. i + 1 \in 1 .. Len(list) /\ min + (i + 1) - 1 = h + 1
        BY <1>1, <4>1 DEF m, h
      <4>3. h + 1 \in DOMAIN blocks
        BY <4>2 DEF Consecutive
      <4> QED BY <2>4, <2>6, <4>3 DEF Stored
    <3> QED BY <2>2, <3>1, <3>2 DEF h
  <2> QED BY <2>4, <2>5, <2>6
<1>5. \A t \in trs : t.height \in Nat
  BY <1>2, <1>3
<1>6. Fitting(list, min, trs)
  BY <1>4, <1>5 DEF Fitting, m
<1> QED BY <1>6 DEF trs

LEMMA BlocksStep ==
  ASSUME NEW q, q.limit \in Nat, q.offset \in Nat, Height \in Nat,
         NEW db, NEW n, Stored(db, BlockRows, n, TransactionRows),
         NEW seen, IsSeq(seen), BlocksSeen(seen, BlockRows),
         NEW reply, reply = GetBlocks(q, seen), reply.awaits,
         NEW result, result \in reply.results, NEW next, next = Append(seen, result)
  PROVE  BlocksSeen(next, BlockRows) /\ Len(seen) < 4
<1>1. Longer(seen, next, result) /\ Len(seen) \in Nat /\ (seen = <<>> <=> Len(seen) = 0)
  BY AppendLonger, LenSeq
<1>2. CASE seen = <<>>
  <2>1. result = HeightRange(q)
    BY <1>2 DEF GetBlocks, Awaits
  <2> QED BY <1>1, <1>2, <2>1, RangeKnown DEF Longer, BlocksSeen
<1>3. CASE seen # <<>>
  <2> DEFINE min == seen[1].min
             max == seen[1].max
  <2>1. min \in Nat /\ max \in Int
    BY <1>1, <1>3 DEF BlocksSeen
  <2>2. ~ (min > max)
    BY <1>3 DEF GetBlocks, Fails, Answers
  <2>3. CASE Len(seen) = 1
    <3>1. result = BlocksByHeightRange(min, max)
      BY <1>3, <2>2, <2>3 DEF GetBlocks, Awaits
    <3>2. next[1] = seen[1] /\ next[2] = result /\ Len(next) = 2
      BY <1>1, <2>3 DEF Longer
    <3> HIDE DEF min, max
    <3>3. Consecutive(result, min, BlockRows)
      BY <2>1, <2>2, <3>1, RangeConsecutive
    <3> QED BY <2>1, <2>3, <3>2, <3>3 DEF BlocksSeen, min, max
  <2>4. CASE Len(seen) # 1
    <3>1. /\ reply = Awaits({TransactionsBetween(min, Last(seen[2]).height)})
          /\ q.transactions /\ seen[2] # <<>> /\ Len(seen) = 2
      <4> DEFINE blocks == Attach(seen[2], IF Len(seen) > 2 THEN seen[3] ELSE {})
      <4>1. reply = IF q.transactions /\ seen[2] # <<>> /\ Len(seen) = 2
                    THEN Awaits({TransactionsBetween(min, Last(seen[2]).height)})
                    ELSE Answers([count |-> Height + 1, blocks |-> IF q.reverse THEN Reverse(blocks) ELSE blocks])
        BY <1>3, <2>2, <2>4 DEF GetBlocks
      <4> HIDE DEF blocks
      <4> QED BY <4>1 DEF Answers
    <3>2. result = TransactionsBetween(min, Last(seen[2]).height)
      BY <3>1 DEF Awaits
    <3>3. Consecutive(seen[2], min, BlockRows)
      BY <3>1 DEF BlocksSeen
    <3>4. Len(seen[2]) # 0
      BY <3>1, <3>3 DEF Consecutive
    <3>5. next[1] = seen[1] /\ next[2] = seen[2] /\ next[3] = result /\ Len(next) = 3
      BY <1>1, <3>1 DEF Longer
    <3> HIDE DEF min, max
    <3>6. Fitting(seen[2], min, result)
      BY <2>1, <3>1, <3>2, <3>3, <3>4, BetweenFits
    <3> QED BY <2>1, <3>1, <3>3, <3>5, <3>6 DEF BlocksSeen, min, max
  <2> QED BY <2>3, <2>4
<1> QED BY <1>2, <1>3

(* One block of the list, with what was found for it *)
Complete(b, list) ==
  \/ b.transactions = ToSet(b.block.trs)
  \/ b.transactions = {} /\ \A j \in DOMAIN list : list[j].block.height <= b.block.height

LEMMA AttachComplete ==
  ASSUME NEW min \in Nat, NEW rows, NEW list, Consecutive(list, min, rows), NEW trs, Fitting(list, min, trs),
         NEW i \in DOMAIN Attach(list, trs)
  PROVE  Complete(Attach(list, trs)[i], Attach(list, trs))
<1> DEFINE m == Len(list)
           blocks == Attach(list, trs)
<1>1. m \in Nat /\ DOMAIN list = 1 .. m
  BY DEF Consecutive
<1>2. DOMAIN blocks = 1 .. m
  BY <1>1 DEF Attach
<1>3. i \in 1 .. m /\ 1 \in 1 .. m
  BY <1>1, <1>2
<1>4. \A j \in 1 .. m : list[j].height = min + j - 1
  BY DEF Consecutive
<1>5. list[1].height = min
  BY <1>3, <1>4
<1>6. blocks[i].transactions = {t.id : t \in {u \in trs : u.height - list[1].height + 1 = i}}
  BY <1>1, <1>3 DEF Attach
<1>7. {u \in trs : u.height - list[1].height + 1 = i} = {u \in trs : u.height = min + i - 1}
  BY <1>3, <1>5 DEF Fitting
<1>8. blocks[i].transactions = IdsAt(trs, min + i - 1)
  BY <1>6, <1>7 DEF IdsAt
<1>9. \A j \in 1 .. m : blocks[j].block = list[j]
  BY <1>1 DEF Attach
<1> HIDE DEF blocks
<1>10. CASE blocks[i].transactions = ToSet(list[i].trs)
  BY <1>3, <1>9, <1>10 DEF Complete, blocks
<1>11. CASE blocks[i].transactions = {} /\ i = m
  <2>1. \A j \in DOMAIN blocks : blocks[j].block.height <= blocks[i].block.height
    BY <1>1, <1>2, <1>3, <1>4, <1>9, <1>11
  <2> QED BY <1>11, <2>1 DEF Complete, blocks
<1> QED BY <1>3, <1>8, <1>10, <1>11 DEF Fitting, m

LEMMA ReverseComplete ==
  ASSUME NEW list, NEW m \in Nat, DOMAIN list = 1 .. m, Len(list) = m,
         \A i \in DOMAIN list : Complete(list[i], list), NEW i \in DOMAIN Reverse(list)
  PROVE  Complete(Reverse(list)[i], Reverse(list))
<1>1. DOMAIN Reverse(list) = 1 .. m /\ \A j \in 1 .. m : Reverse(list)[j] = list[m - j + 1]
  BY DEF Reverse
<1>2. \A j \in 1 .. m : m - j + 1 \in DOMAIN list
  OBVIOUS
<1>3. Complete(list[m - i + 1], list)
  BY <1>1, <1>2
<1> QED BY <1>1, <1>2, <1>3 DEF Complete

LEMMA BlocksAnswered ==
  ASSUME NEW q, q.transactions, NEW rows,
         NEW seen, IsSeq(seen), BlocksSeen(seen, rows),
         NEW reply, reply = GetBlocks(q, seen), ~ reply.awaits, "blocks" \in DOMAIN reply.answer
  PROVE  \A i \in DOMAIN reply.answer.blocks : Complete(reply.answer.blocks[i], reply.answer.blocks)
<1>1. Len(seen) \in Nat /\ (seen = <<>> <=> Len(seen) = 0)
  BY LenSeq
<1> DEFINE min == seen[1].min
           list == seen[2]
           trs == IF Len(seen) > 2 THEN seen[3] ELSE {}
           blocks == Attach(list, trs)
<1>2. seen # <<>> /\ ~ (min > seen[1].max)
  BY DEF GetBlocks, Awaits, Fails, Answers
<1>3. Len(seen) # 1
  BY <1>2 DEF GetBlocks, Awaits
<1>4. ~ (q.transactions /\ list # <<>> /\ Len(seen) = 2)
  BY <1>2, <1>3 DEF GetBlocks, Awaits
<1>5. reply.answer.blocks = IF q.reverse THEN Reverse(blocks) ELSE blocks
  BY <1>2, <1>3, <1>4 DEF GetBlocks, Answers
<1>11. Len(seen) > 0 /\ Len(seen) > 1 /\ (Len(seen) > 2 \/ Len(seen) = 2)
  <2> DEFINE k == Len(seen)
  <2>1. k \in Nat /\ k # 0 /\ k # 1
    BY <1>1, <1>2, <1>3
  <2> HIDE DEF k
  <2>2. k > 0 /\ k > 1 /\ (k > 2 \/ k = 2)
    BY <2>1
  <2> QED BY <2>2 DEF k
<1>6. min \in Nat /\ Consecutive(list, min, rows) /\ (Len(seen) > 2 => Fitting(list, min, seen[3]))
  BY <1>11 DEF BlocksSeen
<1>7. Fitting(list, min, trs)
  <2>1. CASE Len(seen) > 2
    BY <1>6, <2>1
  <2>2. CASE ~ (Len(seen) > 2)
    <3>1. list = <<>> /\ trs = {}
      BY <1>4, <1>11, <2>2
    <3> QED BY <3>1 DEF Fitting
  <2> QED BY <2>1, <2>2
<1>8. DOMAIN blocks = 1 .. Len(list) /\ Len(list) \in Nat /\ Len(blocks) = Len(list)
  BY <1>6 DEF Consecutive, Attach
<1> HIDE DEF min, list, trs
<1>9. \A i \in DOMAIN blocks : Complete(blocks[i], blocks)
  BY <1>6, <1>7, AttachComplete
<1> HIDE DEF blocks
<1>10. \A i \in DOMAIN Reverse(blocks) : Complete(Reverse(blocks)[i], Reverse(blocks))
  BY <1>8, <1>9, ReverseComplete
<1> QED BY <1>5, <1>9, <1>10

-----------------------------------------------------------------------------
(* getRoot *)

AssetRecords ==
  [name  : {Content[id].currency : id \in {i \in TrsIds : Content[i].type = "transferAsset"}},
   asset : [maximum : Int, quantity : Int, issuerId : {Content[id].senderId : id \in TrsIds}]]

TransactionRecords == [id : TrsIds, height : Nat]

(* The rows of transactions, or of assets, that belong to transfers *)
TransactionsOf(ids, rows) == rows \subseteq TransactionRecords /\ \A id \in ids : \E t \in rows : t.id = id

AssetsFor(ids, rows) ==
  /\ rows \subseteq AssetRecords
  /\ \A id \in ids : IsAssetTransfer(id) => \E a \in rows : a.name = Content[id].currency

RootSeen(seen, db) ==
  /\ Len(seen) > 1 => seen[2] \subseteq db.transfers
  /\ Len(seen) > 2 => IF CurrenciesOf(seen[2]) = {} THEN TransactionsOf(seen[2], seen[3])
                                                    ELSE AssetsFor(seen[2], seen[3])
  /\ Len(seen) > 3 => CurrenciesOf(seen[2]) # {} /\ TransactionsOf(seen[2], seen[4])

LEMMA RootSeenLater ==
  ASSUME NEW seen, NEW db, NEW w, Grows(db, w), RootSeen(seen, db)
  PROVE  RootSeen(seen, w)
BY DEF RootSeen, Grows

LEMMA TransactionsFound ==
  ASSUME NEW blocks, NEW n, Stored(Db, blocks, n, TransactionRows), NEW ids, ids \subseteq Db.transfers
  PROVE  TransactionsOf(ids, GetTransactionMap(ids))
<1>1. ids \subseteq Db.transactions
  BY DEF Stored, TablesOK
<1>2. TransactionRows \subseteq TransactionRecords
  BY DEF Stored, TransactionRecords
<1>3. ASSUME NEW id \in ids PROVE \E t \in GetTransactionMap(ids) : t.id = id
  BY <1>1, <1>3 DEF Stored, GetTransactionMap
<1> QED BY <1>2, <1>3 DEF TransactionsOf, GetTransactionMap

LEMMA AssetsFound ==
  ASSUME TablesOK(Db), NEW ids, ids \subseteq Db.transfers
  PROVE  AssetsFor(ids, GetAssetMap(ids))
<1> DEFINE names == CurrenciesOf(ids)
           rows == AssetRows(names)
<1>1. \A id \in ids : id \in TrsIds /\ (IsAssetTransfer(id) => Content[id].currency \in DOMAIN Db.asset)
  BY DEF TablesOK, Known
<1>2. names = {Content[id].currency : id \in {i \in ids : IsAssetTransfer(i)}}
  BY DEF CurrenciesOf
<1>3. rows = {[name |-> c, asset |-> Db.asset[c]] : c \in names \cap DOMAIN Db.asset}
  BY DEF AssetRows
<1> HIDE DEF names, rows
<1>4. ASSUME NEW id \in ids, IsAssetTransfer(id) PROVE \E a \in rows : a.name = Content[id].currency
  <2> DEFINE c == Content[id].currency
  <2>1. c \in names \cap DOMAIN Db.asset
    BY <1>1, <1>2, <1>4
  <2>2. [name |-> c, asset |-> Db.asset[c]] \in rows
    BY <1>3, <2>1
  <2> QED BY <2>2
<1>5. ASSUME NEW c \in names \cap DOMAIN Db.asset
      PROVE  [name |-> c, asset |-> Db.asset[c]] \in AssetRecords
  <2>1. Db.asset[c] \in [maximum : Int, quantity : Int, issuerId : {Content[id].senderId : id \in TrsIds}]
    <3> DEFINE row == Db.asset[c]
    <3>1. /\ row = [maximum |-> row.maximum, quantity |-> row.quantity, issuerId |-> row.issuerId]
          /\ row.maximum \in Int /\ row.quantity \in Int
      BY DEF TablesOK, Backed, AssetRow
    <3>2. row.issuerId \in {Content[id].senderId : id \in TrsIds}
      BY DEF TablesOK, Known, SenderIds
    <3> HIDE DEF row
    <3>3. row \in [maximum : Int, quantity : Int, issuerId : {Content[id].senderId : id \in TrsIds}]
      BY <3>1, <3>2
    <3> QED BY <3>3 DEF row
  <2>2. c \in {Content[id].currency : id \in {i \in TrsIds : Content[i].type = "transferAsset"}}
    BY <1>1, <1>2 DEF IsAssetTransfer
  <2> QED BY <2>1, <2>2 DEF AssetRecords
<1>6. rows \subseteq AssetRecords
  BY <1>3, <1>5
<1>7. AssetsFor(ids, rows)
  BY <1>4, <1>6 DEF AssetsFor
<1> QED BY <1>7 DEF GetAssetMap, rows, names

LEMMA RootStep ==
  ASSUME NEW q, NEW blocks, NEW n, Stored(Db, blocks, n, TransactionRows),
         NEW seen, IsSeq(seen), RootSeen(seen, Db),
         NEW reply, reply = GetRoot(q, seen), reply.awaits,
         NEW result, result \in reply.results, NEW next, next = Append(seen, result)
  PROVE  RootSeen(next, Db) /\ Len(seen) < 4
<1>1. Longer(seen, next, result) /\ Len(seen) \in Nat /\ (seen = <<>> <=> Len(seen) = 0)
  BY AppendLonger, LenSeq
<1> DEFINE matching == {id \in Db.transfers : q.address # Missing => IsTransferOf(id, q.address)}
           all == IF CurrenciesOf(seen[2]) = {} THEN 3 ELSE 4
<1>2. CASE seen = <<>>
  BY <1>1, <1>2 DEF Longer, RootSeen
<1>3. CASE seen # <<>>
  <2>1. seen[1] # 0
    BY <1>3 DEF GetRoot, Answers
  <2>2. CASE Len(seen) = 1
    <3>1. result \in Pages(matching, LimitOr(q, 10), q.offset)
      BY <1>3, <2>1, <2>2 DEF GetRoot, Awaits
    <3>2. result \subseteq Db.transfers
      BY <3>1 DEF Pages, kSubset
    <3> QED BY <1>1, <2>2, <3>2 DEF Longer, RootSeen
  <2>3. CASE Len(seen) # 1
    <3>0. Len(seen) > 1 /\ seen[2] \subseteq Db.transfers
      <4>1. Len(seen) > 1
        BY <1>1, <1>3, <2>3, Few
      <4> QED BY <4>1 DEF RootSeen
    <3>1. reply = IF Len(seen) = 2 /\ all = 4 THEN Awaits({GetAssetMap(seen[2])})
                  ELSE IF Len(seen) < all THEN Awaits({GetTransactionMap(seen[2])})
                  ELSE Answers([count |-> seen[1],
                                transfers |-> Resolved(seen[2], IF CurrenciesOf(seen[2]) = {} THEN {} ELSE seen[3],
                                                       seen[all])])
      BY <1>3, <2>1, <2>3 DEF GetRoot
    <3>2. next[1] = seen[1] /\ next[2] = seen[2] /\ next[Len(seen) + 1] = result /\ Len(next) = Len(seen) + 1
      BY <1>1, <3>0 DEF Longer
    <3>3. CASE Len(seen) = 2 /\ all = 4
      <4>1. result = GetAssetMap(seen[2])
        BY <3>1, <3>3 DEF Awaits
      <4>2. AssetsFor(seen[2], result)
        BY <3>0, <4>1, AssetsFound DEF Stored
      <4> QED BY <3>0, <3>2, <3>3, <4>2 DEF RootSeen
    <3>4. CASE ~ (Len(seen) = 2 /\ all = 4)
      <4>1. Len(seen) < all
        BY <3>1, <3>4 DEF Answers
      <4>2. result = GetTransactionMap(seen[2])
        BY <3>1, <3>4, <4>1 DEF Awaits
      <4>3. TransactionsOf(seen[2], result)
        BY <3>0, <4>2, TransactionsFound
      <4>4. CASE CurrenciesOf(seen[2]) = {}
        <5>1. Len(seen) < 3
          BY <4>1, <4>4
        <5>5. Len(seen) = 2
          BY <1>1, <3>0, <5>1, Few
        <5> QED BY <3>0, <3>2, <4>3, <4>4, <5>5 DEF RootSeen
      <4>5. CASE CurrenciesOf(seen[2]) # {}
        <5>3. Len(seen) < 4 /\ Len(seen) # 2
          BY <3>4, <4>1, <4>5
        <5>1. Len(seen) = 3
          BY <1>1, <3>0, <5>3, Few
        <5>2. next[3] = seen[3]
          BY <1>1, <5>1 DEF Longer
        <5> QED BY <3>0, <3>2, <4>3, <4>5, <5>1, <5>2 DEF RootSeen
      <4> QED BY <4>4, <4>5
    <3> QED BY <3>3, <3>4
  <2> QED BY <2>2, <2>3
<1> QED BY <1>2, <1>3

LEMMA OneOfThem ==
  ASSUME NEW rows, rows # {}
  PROVE  TheOne(rows) \in rows
BY DEF TheOne

LEMMA NeverMissing == Missing \notin AssetRecords /\ Missing \notin TransactionRecords /\ Missing # Null
BY HttpApiAssumption DEF AssetRecords, TransactionRecords

LEMMA ResolvedAll ==
  ASSUME NEW ids, NEW assets, NEW trs, TransactionsOf(ids, trs),
         CurrenciesOf(ids) # {} => AssetsFor(ids, assets),
         NEW t \in Resolved(ids, assets, trs)
  PROVE  t.asset # Missing /\ t.transaction # Missing
<1>1. PICK id \in ids :
        t = [tid |-> id,
             asset |-> IF IsAssetTransfer(id) THEN TheOne({a \in assets : a.name = Content[id].currency}) ELSE Null,
             transaction |-> TheOne({u \in trs : u.id = id})]
  BY DEF Resolved
<1>2. t.transaction \in {u \in trs : u.id = id}
  <2>1. {u \in trs : u.id = id} # {}
    BY DEF TransactionsOf
  <2>2. t.transaction = TheOne({u \in trs : u.id = id})
    BY <1>1
  <2> QED BY <2>1, <2>2, OneOfThem
<1>3. t.transaction \in TransactionRecords
  BY <1>2 DEF TransactionsOf
<1>4. CASE IsAssetTransfer(id)
  <2>1. AssetsFor(ids, assets)
    BY <1>4 DEF CurrenciesOf
  <2>2. {a \in assets : a.name = Content[id].currency} # {}
    BY <1>4, <2>1 DEF AssetsFor
  <2>3. t.asset = TheOne({a \in assets : a.name = Content[id].currency})
    BY <1>1, <1>4
  <2>4. t.asset \in {a \in assets : a.name = Content[id].currency}
    BY <2>2, <2>3, OneOfThem
  <2>5. t.asset \in AssetRecords
    BY <2>1, <2>4 DEF AssetsFor
  <2> QED BY <1>3, <2>5, NeverMissing
<1>5. CASE ~ IsAssetTransfer(id)
  <2>1. t.asset = Null
    BY <1>1, <1>5
  <2> QED BY <1>3, <2>1, NeverMissing
<1> QED BY <1>4, <1>5

LEMMA RootAnswered ==
  ASSUME NEW q, NEW db, NEW seen, IsSeq(seen), RootSeen(seen, db),
         NEW reply, reply = GetRoot(q, seen), ~ reply.awaits
  PROVE  \A t \in reply.answer.transfers : t.asset # Missing /\ t.transaction # Missing
<1> DEFINE none == CurrenciesOf(seen[2]) = {}
           all == IF none THEN 3 ELSE 4
           assets == IF none THEN {} ELSE seen[3]
<1>1. Len(seen) \in Nat /\ (seen = <<>> <=> Len(seen) = 0)
  BY LenSeq
<1>2. seen # <<>>
  BY DEF GetRoot, Awaits
<1>3. CASE seen[1] = 0
  <2>1. reply.answer.transfers = {}
    BY <1>2, <1>3 DEF GetRoot, Answers
  <2> QED BY <2>1
<1>4. CASE seen[1] # 0
  <2>1. Len(seen) # 1
    BY <1>2, <1>4 DEF GetRoot, Awaits
  <2>2. reply = IF Len(seen) = 2 /\ all = 4 THEN Awaits({GetAssetMap(seen[2])})
                ELSE IF Len(seen) < all THEN Awaits({GetTransactionMap(seen[2])})
                ELSE Answers([count |-> seen[1], transfers |-> Resolved(seen[2], assets, seen[all])])
    BY <1>2, <1>4, <2>1 DEF GetRoot
  <2>3. ~ (Len(seen) < all) /\ ~ (Len(seen) = 2 /\ all = 4)
    BY <2>2 DEF Awaits
  <2>4. reply.answer.transfers = Resolved(seen[2], assets, seen[all])
    BY <2>2, <2>3 DEF Answers
  <2>5. Len(seen) > 2 /\ (~ none => Len(seen) > 3)
    <3>1. CASE none
      <4>1. ~ (Len(seen) < 3)
        BY <2>3, <3>1
      <4> HIDE DEF none
      <4> QED BY <1>1, <3>1, <4>1
    <3>2. CASE ~ none
      <4>1. ~ (Len(seen) < 4)
        BY <2>3, <3>2
      <4> HIDE DEF none
      <4> QED BY <1>1, <4>1
    <3> QED BY <3>1, <3>2
  <2>6. TransactionsOf(seen[2], seen[all]) /\ (CurrenciesOf(seen[2]) # {} => AssetsFor(seen[2], assets))
    BY <2>5 DEF RootSeen
  <2> HIDE DEF all, assets
  <2> QED BY <2>4, <2>6, ResolvedAll
<1> QED BY <1>3, <1>4

-----------------------------------------------------------------------------
(* forgingEnable *)

EnableSeen(q, seen, db) ==
  Len(seen) > 1 /\ AccountData(seen[2]).isDelegate
    => q.address \in DOMAIN db.account /\ db.account[q.address].isDelegate

LEMMA EnableSeenLater ==
  ASSUME NEW q, NEW seen, NEW db, NEW w, Grows(db, w), EnableSeen(q, seen, db)
  PROVE  EnableSeen(q, seen, w)
BY DEF EnableSeen, Grows, Stay

LEMMA EnableStep ==
  ASSUME NEW q, NEW seen, IsSeq(seen), EnableSeen(q, seen, Db),
         NEW reply, reply = ForgingEnable(q, seen), reply.awaits,
         NEW result, result \in reply.results, NEW next, next = Append(seen, result)
  PROVE  EnableSeen(q, next, Db) /\ Len(seen) < 4
<1>1. Longer(seen, next, result) /\ Len(seen) \in Nat /\ (seen = <<>> <=> Len(seen) = 0)
  BY AppendLonger, LenSeq
<1>2. CASE seen = <<>>
  BY <1>1, <1>2 DEF Longer, EnableSeen
<1>3. CASE seen # <<>>
  <2>1. ~ seen[1] /\ Len(seen) = 1
    BY <1>3 DEF ForgingEnable, Fails, Answers
  <2>2. result = Row(Db.account, q.address)
    BY <1>3, <2>1 DEF ForgingEnable, Awaits
  <2>3. Len(next) = 2 /\ next[2] = result
    BY <1>1, <2>1 DEF Longer
  <2>4. AccountData(result).isDelegate => q.address \in DOMAIN Db.account /\ result = Db.account[q.address]
    BY <2>2, NewAccountFlag DEF AccountData, Row
  <2>5. AccountData(result).isDelegate => result # Missing /\ AccountData(result) = result
    BY NewAccountFlag DEF AccountData
  <2> QED BY <2>1, <2>3, <2>4, <2>5 DEF EnableSeen
<1> QED BY <1>2, <1>3

LEMMA EnableAnswered ==
  ASSUME NEW q, NEW seen, IsSeq(seen), EnableSeen(q, seen, Db),
         NEW reply, reply = ForgingEnable(q, seen), ~ reply.awaits, "keyPairs" \in DOMAIN reply.answer
  PROVE  \A a \in reply.answer.keyPairs \ keyPairs : a \in DOMAIN Db.account /\ Db.account[a].isDelegate
<1>1. Len(seen) \in Nat /\ (seen = <<>> <=> Len(seen) = 0)
  BY LenSeq
<1>2. seen # <<>>
  BY DEF ForgingEnable, Awaits
<1>3. ~ seen[1]
  BY <1>2 DEF ForgingEnable, Fails, Answers
<1>4. Len(seen) # 1
  BY <1>2, <1>3 DEF ForgingEnable, Awaits
<1>5. AccountData(seen[2]).isDelegate /\ reply.answer.keyPairs = keyPairs \cup {q.address}
  BY <1>2, <1>3, <1>4 DEF ForgingEnable, Fails, Answers
<1>6. Len(seen) > 1
  BY <1>1, <1>2, <1>4, Few
<1> QED BY <1>5, <1>6 DEF EnableSeen

-----------------------------------------------------------------------------
(* No handler awaits more than four results, and no other one sets keys *)

Plain(reply, seen) ==
  IF reply.awaits THEN Len(seen) < 4 ELSE "keyPairs" \notin DOMAIN reply.answer

LEMMA PlainPages ==
  ASSUME NEW seen, Len(seen) \in Nat, NEW rows, NEW limit, NEW offset
  PROVE  LET reply == CountThenPage(seen, rows, limit, offset)
         IN  IF reply.awaits THEN Len(seen) < 2 ELSE "keyPairs" \notin DOMAIN reply.answer
<1>1. CASE Len(seen) = 0
  BY <1>1 DEF CountThenPage, Awaits
<1>2. CASE Len(seen) = 1
  BY <1>2 DEF CountThenPage, Awaits
<1>3. CASE Len(seen) # 0 /\ Len(seen) # 1
  BY <1>3 DEF CountThenPage, Answers
<1> QED BY <1>1, <1>2, <1>3

LEMMA PlainAccount ==
  ASSUME NEW address, NEW seen, IsSeq(seen)
  PROVE  Plain(GetAccount(address, seen), seen)
BY LenSeq DEF GetAccount, AccountOverview, Awaits, Answers, Plain

LEMMA AccountsPlain ==
  ASSUME NEW q, q.handler \in Routes["accounts"], NEW seen, IsSeq(seen)
  PROVE  Plain(AccountsApi(q.handler, q, seen), seen)
<1>1. Len(seen) \in Nat /\ (seen = <<>> <=> Len(seen) = 0)
  BY LenSeq
<1>2. Plain(GetAccountEndpoint(q, seen), seen)
  BY <1>1, PlainAccount DEF GetAccountEndpoint, GetAccountByName, Awaits, Answers, Plain
<1>3. Plain(OpenAccount(q, seen), seen)
  BY <1>1, PlainAccount DEF OpenAccount, Answers, Plain
<1>4. Plain(GetAccountBalances(q, seen), seen)
  <2>1. CASE Len(seen) = 0
    BY <1>1, <2>1, PlainAccount DEF GetAccountBalances
  <2>2. CASE Len(seen) = 1
    BY <2>2 DEF GetAccountBalances, Awaits, Plain
  <2>3. CASE Len(seen) = 2 /\ seen[2] > 0
    BY <2>3 DEF GetAccountBalances, Awaits, Plain
  <2>4. CASE Len(seen) = 3 /\ seen[3] # {}
    BY <2>4 DEF GetAccountBalances, Awaits, Plain
  <2>5. CASE /\ Len(seen) # 0 /\ Len(seen) # 1
             /\ ~ (Len(seen) = 2 /\ seen[2] > 0) /\ ~ (Len(seen) = 3 /\ seen[3] # {})
    BY <2>5 DEF GetAccountBalances, Answers, Plain
  <2> QED BY <2>1, <2>2, <2>3, <2>4, <2>5
<1>5. Plain(GetAddressCurrencyBalance(q, seen), seen)
  <2>1. CASE seen = <<>>
    BY <1>1, <2>1 DEF GetAddressCurrencyBalance, Awaits, Plain
  <2>2. CASE seen # <<>> /\ seen[1] # Missing /\ Len(seen) = 1
    BY <2>2 DEF GetAddressCurrencyBalance, Awaits, Plain
  <2>3. CASE seen # <<>> /\ ~ (seen[1] # Missing /\ Len(seen) = 1)
    BY <2>3 DEF GetAddressCurrencyBalance, Answers, Fails, Plain
  <2> QED BY <2>1, <2>2, <2>3
<1>6. Plain(GetVotedDelegates(q, seen), seen)
  <2> DEFINE rest == IF ~ q.of.isAddress THEN Tail(seen) ELSE seen
  <2>1. CASE ~ q.of.isAddress /\ seen = <<>>
    BY <1>1, <2>1 DEF GetVotedDelegates, Awaits, Plain
  <2>2. CASE ~ q.of.isAddress /\ seen # <<>> /\ seen[1] = Missing
    BY <2>2 DEF GetVotedDelegates, Fails, Answers, Plain
  <2>3. CASE ~ (~ q.of.isAddress /\ seen = <<>>) /\ ~ (~ q.of.isAddress /\ seen[1] = Missing)
    <3>1. CASE rest = <<>>
      <4>1. Len(seen) < 4
        <5>1. CASE q.of.isAddress
          BY <1>1, <3>1, <5>1
        <5>2. CASE ~ q.of.isAddress
          <6>1. Len(Tail(seen)) = Len(seen) - 1 /\ Len(Tail(seen)) = 0
            BY <2>3, <3>1, <5>2, TailFacts, LenSeq
          <6>2. Len(seen) - 1 = 0
            BY <6>1
          <6> QED BY <1>1, <6>2, Few
        <5> QED BY <5>1, <5>2
      <4>2. GetVotedDelegates(q, seen).awaits
        BY <2>3, <3>1 DEF GetVotedDelegates, Awaits
      <4> QED BY <4>1, <4>2 DEF Plain
    <3>2. CASE rest # <<>>
      BY <2>3, <3>2 DEF GetVotedDelegates, Answers, Plain
    <3> QED BY <3>1, <3>2
  <2> QED BY <2>1, <2>2, <2>3
<1>7. Plain(CountAccounts(q, seen), seen)
  BY <1>1 DEF CountAccounts, Awaits, Answers, Plain
<1>8. Plain(GetPublicKey(q, seen), seen)
  BY <1>1, PlainAccount DEF GetPublicKey, Answers, Fails, Plain
<1>9. q.handler \in {"getAccountEndpoint", "openAccount", "getBalance", "getAddressCurrencyBalance",
                     "getVotedDelegates", "count", "getPublicKey"}
  BY DEF Routes
<1>10. AccountsApi(q.handler, q, seen)
         \in {GetAccountEndpoint(q, seen), OpenAccount(q, seen), GetAccountBalances(q, seen),
              GetAddressCurrencyBalance(q, seen), GetVotedDelegates(q, seen), CountAccounts(q, seen),
              GetPublicKey(q, seen)}
  BY <1>9 DEF AccountsApi
<1> QED BY <1>2, <1>3, <1>4, <1>5, <1>6, <1>7, <1>8, <1>10

LEMMA DelegatesPlain ==
  ASSUME NEW q, q.handler \in Routes["delegates"], NEW seen, IsSeq(seen)
  PROVE  /\ q.handler \notin {"forgingEnable", "forgingDisable"} => Plain(DelegatesApi(q.handler, q, seen), seen)
         /\ q.handler = "forgingEnable" => DelegatesApi(q.handler, q, seen) = ForgingEnable(q, seen)
         /\ q.handler = "forgingDisable" => DelegatesApi(q.handler, q, seen) = ForgingDisable(q, seen)
<1>1. Len(seen) \in Nat /\ (seen = <<>> <=> Len(seen) = 0)
  BY LenSeq
<1>2. Plain(CountDelegates(q, seen), seen)
  BY DEF CountDelegates, Answers, Plain
<1>3. Plain(GetVoters(q, seen), seen)
  <2>1. CASE seen = <<>>
    BY <1>1, <2>1 DEF GetVoters, Awaits, Plain
  <2>2. CASE seen # <<>> /\ seen[1] # {} /\ Len(seen) = 1
    BY <2>2 DEF GetVoters, Awaits, Plain
  <2>3. CASE seen # <<>> /\ ~ (seen[1] # {} /\ Len(seen) = 1)
    BY <2>3 DEF GetVoters, Answers, Plain
  <2> QED BY <2>1, <2>2, <2>3
<1>4. Plain(GetDelegate(q, seen), seen)
  BY DEF GetDelegate, Answers, Fails, Plain
<1>5. Plain(GetDelegates(q, seen), seen)
  BY DEF GetDelegates, Answers, Fails, Plain
<1>6. Plain(ForgingStatus(q, seen), seen)
  BY DEF ForgingStatus, Answers, Plain
<1>7. q.handler \in {"count", "getVoters", "getDelegate", "getDelegates",
                     "forgingEnable", "forgingDisable", "forgingStatus"}
  BY DEF Routes
<1>8. q.handler \notin {"forgingEnable", "forgingDisable"}
        => DelegatesApi(q.handler, q, seen)
             \in {CountDelegates(q, seen), GetVoters(q, seen), GetDelegate(q, seen), GetDelegates(q, seen),
                  ForgingStatus(q, seen)}
  BY <1>7 DEF DelegatesApi
<1>9. /\ q.handler = "forgingEnable" => DelegatesApi(q.handler, q, seen) = ForgingEnable(q, seen)
      /\ q.handler = "forgingDisable" => DelegatesApi(q.handler, q, seen) = ForgingDisable(q, seen)
  BY DEF DelegatesApi
<1> QED BY <1>2, <1>3, <1>4, <1>5, <1>6, <1>8, <1>9

LEMMA DisableAnswered ==
  ASSUME NEW q, NEW seen, IsSeq(seen), NEW reply, reply = ForgingDisable(q, seen)
  PROVE  /\ reply.awaits => Len(seen) < 4
         /\ ~ reply.awaits /\ "keyPairs" \in DOMAIN reply.answer => reply.answer.keyPairs \subseteq keyPairs
<1>1. Len(seen) \in Nat /\ (seen = <<>> <=> Len(seen) = 0)
  BY LenSeq
<1>2. CASE seen = <<>>
  BY <1>1, <1>2 DEF ForgingDisable, Awaits
<1>3. CASE seen # <<>> /\ seen[1] /\ Len(seen) = 1
  BY <1>3 DEF ForgingDisable, Awaits
<1>4. CASE seen # <<>> /\ ~ (seen[1] /\ Len(seen) = 1)
  BY <1>4 DEF ForgingDisable, Answers, Fails
<1> QED BY <1>2, <1>3, <1>4

LEMMA UiaPlain ==
  ASSUME NEW q, q.handler \in Routes["uia"], NEW seen, IsSeq(seen)
  PROVE  /\ Plain(UiaApi(q.handler, q, seen), seen)
         /\ q.handler \in Lists["uia"] => UiaApi(q.handler, q, seen) = ListHandler(q, seen)
<1>1. Len(seen) \in Nat /\ (seen = <<>> <=> Len(seen) = 0)
  BY LenSeq
<1>2. ASSUME NEW rows, NEW limit, NEW offset
      PROVE  Plain(CountThenPage(seen, rows, limit, offset), seen)
  <2>1. LET reply == CountThenPage(seen, rows, limit, offset)
        IN  IF reply.awaits THEN Len(seen) < 2 ELSE "keyPairs" \notin DOMAIN reply.answer
    BY <1>1, PlainPages
  <2> QED BY <1>1, <2>1, Few DEF Plain
<1>3. Plain(GetIssuers(q, seen), seen) /\ Plain(GetAssets(q, seen), seen) /\ Plain(GetBalances(q, seen), seen)
  BY <1>2 DEF GetIssuers, GetAssets, GetBalances
<1>4. Plain(GetIssuerAssets(q, seen), seen)
  <2>1. CASE seen = <<>>
    BY <1>1, <2>1 DEF GetIssuerAssets, Awaits, Plain
  <2>2. CASE seen # <<>> /\ seen[1] = Missing
    BY <2>2 DEF GetIssuerAssets, Fails, Answers, Plain
  <2>3. CASE seen # <<>> /\ seen[1] # Missing
    <3> DEFINE reply == CountThenPage(Tail(seen), AssetsOf(seen[1]), LimitOr(q, 100), q.offset)
    <3>1. Len(Tail(seen)) = Len(seen) - 1 /\ Len(Tail(seen)) \in Nat
      BY <2>3, TailFacts, LenSeq
    <3>2. GetIssuerAssets(q, seen) = reply
      BY <2>3 DEF GetIssuerAssets
    <3>3. IF reply.awaits THEN Len(Tail(seen)) < 2 ELSE "keyPairs" \notin DOMAIN reply.answer
      BY <3>1, PlainPages
    <3> HIDE DEF reply
    <3>4. reply.awaits => Len(seen) < 4
      BY <1>1, <3>1, <3>3, Few
    <3> QED BY <3>2, <3>3, <3>4 DEF Plain
  <2> QED BY <2>1, <2>2, <2>3
<1>5. Plain(IsIssuer(q, seen), seen)
  BY <1>1 DEF IsIssuer, Awaits, Answers, Plain
<1>6. Plain(GetIssuer(q, seen), seen)
  BY <1>1 DEF GetIssuer, Awaits, Answers, Fails, Plain
<1>7. Plain(GetAsset(q, seen), seen)
  BY <1>1 DEF GetAsset, Awaits, Answers, Fails, Plain
<1>8. Plain(GetBalance(q, seen), seen)
  BY <1>1 DEF GetBalance, Awaits, Answers, Fails, Plain
<1>9. q.handler \in {"getIssuers", "isIssuer", "getIssuer", "getIssuerAssets",
                     "getAssets", "getAsset", "getBalances", "getBalance"}
  BY DEF Routes
<1>10. UiaApi(q.handler, q, seen)
         \in {GetIssuers(q, seen), IsIssuer(q, seen), GetIssuer(q, seen), GetIssuerAssets(q, seen),
              GetAssets(q, seen), GetAsset(q, seen), GetBalances(q, seen), GetBalance(q, seen)}
  BY <1>9 DEF UiaApi
<1>11. ASSUME q.handler \in Lists["uia"] PROVE UiaApi(q.handler, q, seen) = ListHandler(q, seen)
  <2>1. q.handler \in {"getIssuers", "getIssuerAssets", "getAssets", "getBalances"}
    BY <1>11 DEF Lists
  <2>2. CASE q.handler = "getIssuers"
    BY <2>2 DEF UiaApi, ListHandler
  <2>3. CASE q.handler = "getIssuerAssets"
    BY <2>3 DEF UiaApi, ListHandler
  <2>4. CASE q.handler = "getAssets"
    BY <2>4 DEF UiaApi, ListHandler
  <2>5. CASE q.handler = "getBalances"
    BY <2>5 DEF UiaApi, ListHandler
  <2> QED BY <2>1, <2>2, <2>3, <2>4, <2>5
<1> QED BY <1>3, <1>4, <1>5, <1>6, <1>7, <1>8, <1>10, <1>11

LEMMA BlocksPlain ==
  ASSUME NEW q, q.handler \in Routes["blocks"], NEW seen, IsSeq(seen)
  PROVE  /\ q.handler # "getBlocks" => Plain(BlocksApi(q.handler, q, seen), seen)
         /\ q.handler = "getBlocks" => BlocksApi(q.handler, q, seen) = GetBlocks(q, seen)
<1>1. Len(seen) \in Nat /\ (seen = <<>> <=> Len(seen) = 0)
  BY LenSeq
<1>2. Plain(GetBlock(q, seen), seen)
  BY <1>1 DEF GetBlock, Awaits, Answers, Fails, Plain
<1>3. /\ Plain(GetHeight(q, seen), seen) /\ Plain(GetMilestone(q, seen), seen)
      /\ Plain(GetReward(q, seen), seen) /\ Plain(GetSupply(q, seen), seen) /\ Plain(GetStatus(q, seen), seen)
  BY DEF GetHeight, GetMilestone, GetReward, GetSupply, GetStatus, Answers, Plain
<1>4. q.handler \in {"getBlock", "getBlocks", "getHeight", "getMilestone", "getReward", "getSupply", "getStatus"}
  BY DEF Routes
<1>5. q.handler # "getBlocks"
        => BlocksApi(q.handler, q, seen)
             \in {GetBlock(q, seen), GetHeight(q, seen), GetMilestone(q, seen), GetReward(q, seen),
                  GetSupply(q, seen), GetStatus(q, seen)}
  BY <1>4 DEF BlocksApi
<1>6. q.handler = "getBlocks" => BlocksApi(q.handler, q, seen) = GetBlocks(q, seen)
  BY DEF BlocksApi
<1> QED BY <1>2, <1>3, <1>5, <1>6

LEMMA BlocksKeys ==
  ASSUME NEW q, NEW seen
  PROVE  ~ GetBlocks(q, seen).awaits => "keyPairs" \notin DOMAIN GetBlocks(q, seen).answer
<1> DEFINE list == Attach(seen[2], IF Len(seen) > 2 THEN seen[3] ELSE {})
           blocks == IF q.reverse THEN Reverse(list) ELSE list
           reply == GetBlocks(q, seen)
<1>1. reply.awaits \/ reply = Fails \/ reply = Answers([count |-> Height + 1, blocks |-> blocks])
  <2> HIDE DEF blocks
  <2> QED BY DEF GetBlocks, Awaits, blocks
<1> HIDE DEF blocks, reply
<1>2. ~ reply.awaits => "keyPairs" \notin DOMAIN reply.answer
  BY <1>1 DEF Fails, Answers
<1> QED BY <1>2 DEF reply

LEMMA TransfersPlain ==
  ASSUME NEW q, q.handler \in Routes["transfers"], NEW seen, IsSeq(seen)
  PROVE  /\ q.handler = "getAmount" => Plain(TransfersApi(q.handler, q, seen), seen)
         /\ q.handler = "getRoot" => TransfersApi(q.handler, q, seen) = GetRoot(q, seen)
         /\ q.handler \in {"getRoot", "getAmount"}
<1>1. Len(seen) \in Nat /\ (seen = <<>> <=> Len(seen) = 0)
  BY LenSeq
<1>2. Plain(GetAmount(q, seen), seen)
  <2>1. CASE seen = <<>>
    BY <1>1, <2>1 DEF GetAmount, Awaits, Plain
  <2>2. CASE seen # <<>> /\ seen[1] # 0 /\ Len(seen) = 1
    BY <2>2 DEF GetAmount, Awaits, Plain
  <2>3. CASE seen # <<>> /\ seen[1] # 0 /\ Len(seen) = 2
    BY <2>3 DEF GetAmount, Awaits, Plain
  <2>4. CASE seen # <<>> /\ ~ (seen[1] # 0 /\ (Len(seen) = 1 \/ Len(seen) = 2))
    BY <2>4 DEF GetAmount, Answers, Plain
  <2> QED BY <2>1, <2>2, <2>3, <2>4
<1>3. q.handler \in {"getRoot", "getAmount"}
  BY DEF Routes
<1>4. /\ q.handler = "getAmount" => TransfersApi(q.handler, q, seen) = GetAmount(q, seen)
      /\ q.handler = "getRoot" => TransfersApi(q.handler, q, seen) = GetRoot(q, seen)
  BY DEF TransfersApi
<1> QED BY <1>2, <1>3, <1>4

LEMMA RootKeys ==
  ASSUME NEW q, NEW seen
  PROVE  ~ GetRoot(q, seen).awaits => "keyPairs" \notin DOMAIN GetRoot(q, seen).answer
<1> DEFINE none == CurrenciesOf(seen[2]) = {}
           transfers == Resolved(seen[2], IF none THEN {} ELSE seen[3], seen[IF none THEN 3 ELSE 4])
           reply == GetRoot(q, seen)
<1>1. \/ reply.awaits
      \/ reply = Answers([count |-> 0, transfers |-> {}])
      \/ reply = Answers([count |-> seen[1], transfers |-> transfers])
  <2> HIDE DEF transfers
  <2> QED BY DEF GetRoot, Awaits, transfers
<1> HIDE DEF transfers, reply
<1>2. ~ reply.awaits => "keyPairs" \notin DOMAIN reply.answer
  BY <1>1 DEF Answers
<1> QED BY <1>2 DEF reply

LEMMA TransactionsPlain ==
  ASSUME NEW q, q.handler \in Routes["transactions"], NEW seen, IsSeq(seen)
  PROVE  /\ Plain(TransactionsApi(q.handler, q, seen), seen)
         /\ q.handler = "getTransactions" => TransactionsApi(q.handler, q, seen) = ListHandler(q, seen)
<1>1. Len(seen) \in Nat /\ (seen = <<>> <=> Len(seen) = 0)
  BY LenSeq
<1>2. Plain(GetTransactions(q, seen), seen)
  <2> DEFINE rest == IF q.block = Missing THEN seen ELSE Tail(seen)
             reply == CountThenPage(rest, TransactionsMatching(q), LimitOr(q, 100), q.offset)
  <2>1. CASE q.block # Missing /\ seen = <<>>
    BY <1>1, <2>1 DEF GetTransactions, Awaits, Plain
  <2>2. CASE q.block # Missing /\ seen # <<>> /\ seen[1] = Missing
    BY <2>2 DEF GetTransactions, Answers, Plain
  <2>3. CASE ~ (q.block # Missing /\ (seen = <<>> \/ seen[1] = Missing))
    <3>1. Len(rest) \in Nat /\ Len(rest) \in {Len(seen), Len(seen) - 1}
      BY <1>1, <2>3, TailFacts, LenSeq
    <3>2. GetTransactions(q, seen) = reply
      BY <2>3 DEF GetTransactions
    <3>3. IF reply.awaits THEN Len(rest) < 2 ELSE "keyPairs" \notin DOMAIN reply.answer
      BY <3>1, PlainPages
    <3> HIDE DEF reply, rest
    <3>4. reply.awaits => Len(seen) < 4
      BY <1>1, <3>1, <3>3, Few
    <3> QED BY <3>2, <3>3, <3>4 DEF Plain
  <2> QED BY <2>1, <2>2, <2>3
<1>3. Plain(GetUnconfirmedTransaction(q, seen), seen) /\ Plain(GetUnconfirmedTransactions(q, seen), seen)
  BY DEF GetUnconfirmedTransaction, GetUnconfirmedTransactions, Fails, Answers, Plain
<1>4. q.handler \in {"getTransactions", "getUnconfirmedTransaction", "getUnconfirmedTransactions"}
  BY DEF Routes
<1>5. TransactionsApi(q.handler, q, seen)
        \in {GetTransactions(q, seen), GetUnconfirmedTransaction(q, seen), GetUnconfirmedTransactions(q, seen)}
  BY <1>4 DEF TransactionsApi
<1>6. q.handler = "getTransactions" => TransactionsApi(q.handler, q, seen) = ListHandler(q, seen)
  BY DEF TransactionsApi, ListHandler
<1> QED BY <1>2, <1>3, <1>5, <1>6

LEMMA OthersPlain ==
  ASSUME NEW q, NEW seen, IsSeq(seen)
  PROVE  /\ Plain(OpenAccountWithSecret(q, seen), seen)
         /\ Plain(Sync(q, seen), seen) /\ Plain(GetSystemInfo(q, seen), seen)
<1>1. Plain(OpenAccount(q, seen), seen)
  BY LenSeq, PlainAccount DEF OpenAccount, Answers, Plain
<1>2. Plain(Sync(q, seen), seen) /\ Plain(GetSystemInfo(q, seen), seen)
  BY DEF Sync, GetSystemInfo, Answers, Plain
<1> QED BY <1>1, <1>2 DEF OpenAccountWithSecret

(* What those that are not plain await *)
LEMMA OthersFew ==
  ASSUME NEW q, NEW seen, IsSeq(seen)
  PROVE  /\ ForgingEnable(q, seen).awaits => Len(seen) < 4
         /\ GetBlocks(q, seen).awaits => Len(seen) < 4
         /\ GetRoot(q, seen).awaits => Len(seen) < 4
<1>1. Len(seen) \in Nat /\ (seen = <<>> <=> Len(seen) = 0)
  BY LenSeq
<1>2. ForgingEnable(q, seen).awaits => Len(seen) = 0 \/ Len(seen) = 1
  BY <1>1 DEF ForgingEnable, Awaits, Answers, Fails
<1>3. GetBlocks(q, seen).awaits => Len(seen) = 0 \/ Len(seen) = 1 \/ Len(seen) = 2
  BY <1>1 DEF GetBlocks, Awaits, Answers, Fails
<1>4. GetRoot(q, seen).awaits
        => Len(seen) = 0 \/ Len(seen) = 1 \/ Len(seen) = 2
             \/ Len(seen) < (IF CurrenciesOf(seen[2]) = {} THEN 3 ELSE 4)
  BY <1>1 DEF GetRoot, Awaits, Answers, Fails
<1> DEFINE k == Len(seen)
           all == IF CurrenciesOf(seen[2]) = {} THEN 3 ELSE 4
<1>5. k \in Nat /\ all \in {3, 4}
  BY <1>1
<1>6. /\ ForgingEnable(q, seen).awaits => k = 0 \/ k = 1
      /\ GetBlocks(q, seen).awaits => k = 0 \/ k = 1 \/ k = 2
      /\ GetRoot(q, seen).awaits => k = 0 \/ k = 1 \/ k = 2 \/ k < all
  BY <1>2, <1>3, <1>4
<1> HIDE DEF k, all
<1>7. (k = 0 \/ k = 1 \/ k = 2 \/ k < all) => k < 4
  BY <1>5
<1>8. /\ ForgingEnable(q, seen).awaits => k < 4
      /\ GetBlocks(q, seen).awaits => k < 4
      /\ GetRoot(q, seen).awaits => k < 4
  BY <1>6, <1>7
<1> QED BY <1>8 DEF k

(* The requests whose results are followed *)
Enabling(q)  == q.api = "delegates" /\ q.handler = "forgingEnable"
Disabling(q) == q.api = "delegates" /\ q.handler = "forgingDisable"
Blocking(q)  == q.api = "blocks" /\ q.handler = "getBlocks"
Rooting(q)   == q.api = "transfers" /\ q.handler = "getRoot"

LEMMA Handled ==
  ASSUME NEW q \in Requests, NEW r, r.query = q, IsSeq(r.seen)
  PROVE  /\ Plain(Handle(r), r.seen) \/ Enabling(q) \/ Disabling(q) \/ Blocking(q) \/ Rooting(q)
         /\ IsList(q) => Handle(r) = ListHandler(q, r.seen)
         /\ Enabling(q) => Handle(r) = ForgingEnable(q, r.seen)
         /\ Disabling(q) => Handle(r) = ForgingDisable(q, r.seen)
         /\ Blocking(q) => Handle(r) = GetBlocks(q, r.seen)
         /\ Rooting(q) => Handle(r) = GetRoot(q, r.seen)
<1> DEFINE seen == r.seen
<1>1. q.api \in DOMAIN Routes /\ q.handler \in Routes[q.api]
  BY HttpApiAssumption
<1>2. q.api \in {"accounts", "delegates", "uia", "blocks", "transfers", "transactions",
                 "exchange", "loader", "system"}
  BY <1>1 DEF Routes
<1>3. IsList(q) => q.api \in {"uia", "transactions"}
  BY ListsAre
<1>4. CASE q.api = "accounts"
  <2>1. Handle(r) = AccountsApi(q.handler, q, seen)
    BY <1>4 DEF Handle
  <2>2. Plain(AccountsApi(q.handler, q, seen), seen)
    BY <1>1, <1>4, AccountsPlain
  <2> QED BY <1>3, <1>4, <2>1, <2>2 DEF Enabling, Disabling, Blocking, Rooting
<1>5. CASE q.api = "delegates"
  <2>1. Handle(r) = DelegatesApi(q.handler, q, seen)
    BY <1>5 DEF Handle
  <2>2. /\ q.handler \notin {"forgingEnable", "forgingDisable"} => Plain(DelegatesApi(q.handler, q, seen), seen)
        /\ q.handler = "forgingEnable" => DelegatesApi(q.handler, q, seen) = ForgingEnable(q, seen)
        /\ q.handler = "forgingDisable" => DelegatesApi(q.handler, q, seen) = ForgingDisable(q, seen)
    BY <1>1, <1>5, DelegatesPlain
  <2> QED BY <1>3, <1>5, <2>1, <2>2 DEF Enabling, Disabling, Blocking, Rooting
<1>6. CASE q.api = "uia"
  <2>1. Handle(r) = UiaApi(q.handler, q, seen)
    BY <1>6 DEF Handle
  <2>2. /\ Plain(UiaApi(q.handler, q, seen), seen)
        /\ q.handler \in Lists["uia"] => UiaApi(q.handler, q, seen) = ListHandler(q, seen)
    BY <1>1, <1>6, UiaPlain
  <2> QED BY <1>6, <2>1, <2>2 DEF Enabling, Disabling, Blocking, Rooting, IsList
<1>7. CASE q.api = "blocks"
  <2>1. Handle(r) = BlocksApi(q.handler, q, seen)
    BY <1>7 DEF Handle
  <2>2. /\ q.handler # "getBlocks" => Plain(BlocksApi(q.handler, q, seen), seen)
        /\ q.handler = "getBlocks" => BlocksApi(q.handler, q, seen) = GetBlocks(q, seen)
    BY <1>1, <1>7, BlocksPlain
  <2> QED BY <1>3, <1>7, <2>1, <2>2 DEF Enabling, Disabling, Blocking, Rooting
<1>8. CASE q.api = "transfers"
  <2>1. Handle(r) = TransfersApi(q.handler, q, seen)
    BY <1>8 DEF Handle
  <2>2. /\ q.handler = "getAmount" => Plain(TransfersApi(q.handler, q, seen), seen)
        /\ q.handler = "getRoot" => TransfersApi(q.handler, q, seen) = GetRoot(q, seen)
        /\ q.handler \in {"getRoot", "getAmount"}
    BY <1>1, <1>8, TransfersPlain
  <2> QED BY <1>3, <1>8, <2>1, <2>2 DEF Enabling, Disabling, Blocking, Rooting
<1>9. CASE q.api = "transactions"
  <2>1. Handle(r) = TransactionsApi(q.handler, q, seen)
    BY <1>9 DEF Handle
  <2>2. /\ Plain(TransactionsApi(q.handler, q, seen), seen)
        /\ q.handler = "getTransactions" => TransactionsApi(q.handler, q, seen) = ListHandler(q, seen)
    BY <1>1, <1>9, TransactionsPlain
  <2> QED BY <1>9, <2>1, <2>2, ListsAre DEF Enabling, Disabling, Blocking, Rooting
<1>10. CASE q.api \in {"exchange", "loader", "system"}
  <2>1. Handle(r) \in {OpenAccountWithSecret(q, seen), Sync(q, seen), GetSystemInfo(q, seen)}
    BY <1>10 DEF Handle
  <2> QED BY <1>3, <1>10, <2>1, OthersPlain DEF Enabling, Disabling, Blocking, Rooting
<1> QED BY <1>2, <1>4, <1>5, <1>6, <1>7, <1>8, <1>9, <1>10

LEMMA AwaitsFew ==
  ASSUME NEW q \in Requests, NEW r, r.query = q, IsSeq(r.seen), Handle(r).awaits
  PROVE  Len(r.seen) < 4
<1>1. CASE Plain(Handle(r), r.seen)
  BY <1>1 DEF Plain
<1>2. CASE Enabling(q) \/ Disabling(q) \/ Blocking(q) \/ Rooting(q)
  BY <1>2, Handled, OthersFew, DisableAnswered
<1> QED BY <1>1, <1>2, Handled

(* Keys are only set by forgingEnable and forgingDisable *)
LEMMA KeysSet ==
  ASSUME NEW q \in Requests, NEW r, r.query = q, IsSeq(r.seen), ~ Handle(r).awaits,
         "keyPairs" \in DOMAIN Handle(r).answer
  PROVE  Enabling(q) \/ (Disabling(q) /\ Handle(r).answer.keyPairs \subseteq keyPairs)
<1>1. CASE Plain(Handle(r), r.seen)
  BY <1>1 DEF Plain
<1>2. CASE Blocking(q)
  BY <1>2, Handled, BlocksKeys
<1>3. CASE Rooting(q)
  BY <1>3, Handled, RootKeys
<1>4. CASE Disabling(q)
  BY <1>4, Handled, DisableAnswered
<1> QED BY <1>1, <1>2, <1>3, <1>4, Handled

-----------------------------------------------------------------------------
(* What is known of the results of a request *)

SeenOK(q, seen, db, blocks, trs) ==
  /\ IsList(q) => ListSeen(q, seen, db, trs)
  /\ Blocking(q) => BlocksSeen(seen, blocks)
  /\ Rooting(q) => RootSeen(seen, db)
  /\ Enabling(q) => EnableSeen(q, seen, db)

LEMMA SeenNothing ==
  ASSUME NEW q, NEW seen, seen = <<>>, NEW db, NEW blocks, NEW trs
  PROVE  SeenOK(q, seen, db, blocks, trs)
<1>1. Len(seen) = 0 /\ Paging(q, seen) = seen
  BY DEF Paging
<1>2. ListSeen(q, seen, db, trs)
  BY <1>1 DEF ListSeen, PageSeen
<1>3. BlocksSeen(seen, blocks) /\ RootSeen(seen, db) /\ EnableSeen(q, seen, db)
  BY <1>1 DEF BlocksSeen, RootSeen, EnableSeen
<1> QED BY <1>2, <1>3 DEF SeenOK

LEMMA SeenLater ==
  ASSUME NEW q, NEW seen, NEW db, NEW w, TablesOK(db), TablesOK(w), Grows(db, w),
         NEW trs, NEW more, trs \subseteq more, IsFiniteSet(more),
         NEW blocks, NEW others, \A h \in DOMAIN blocks : h \in DOMAIN others /\ others[h] = blocks[h],
         SeenOK(q, seen, db, blocks, trs)
  PROVE  SeenOK(q, seen, w, others, more)
<1>1. IsList(q) => ListSeen(q, seen, w, more)
  BY ListSeenLater DEF SeenOK
<1>2. Blocking(q) => BlocksSeen(seen, others)
  BY BlocksSeenLater DEF SeenOK
<1>3. Rooting(q) => RootSeen(seen, w)
  BY RootSeenLater DEF SeenOK
<1>4. Enabling(q) => EnableSeen(q, seen, w)
  BY EnableSeenLater DEF SeenOK
<1> QED BY <1>1, <1>2, <1>3, <1>4 DEF SeenOK

LEMMA SeenStep ==
  ASSUME NEW q \in Requests, NEW n, n = Height, Stored(Db, BlockRows, n, TransactionRows),
         NEW r, r.query = q, IsSeq(r.seen), SeenOK(q, r.seen, Db, BlockRows, TransactionRows),
         Handle(r).awaits, NEW result \in Handle(r).results, NEW next, next = Append(r.seen, result)
  PROVE  SeenOK(q, next, Db, BlockRows, TransactionRows)
<1>1. Height \in Nat /\ TablesOK(Db) /\ IsFiniteSet(TransactionRows)
  BY DEF Stored
<1> DEFINE seen == r.seen
           reply == Handle(r)
<1>2. ASSUME IsList(q) PROVE ListSeen(q, next, Db, TransactionRows)
  <2>1. reply = ListHandler(q, seen)
    BY <1>2, Handled
  <2>2. ListSeen(q, seen, Db, TransactionRows)
    BY <1>2 DEF SeenOK
  <2>3. reply.awaits /\ result \in reply.results /\ IsSeq(seen) /\ next = Append(seen, result)
    OBVIOUS
  <2> HIDE DEF reply, seen
  <2> QED BY <1>1, <1>2, <2>1, <2>2, <2>3, ListStep
<1>3. ASSUME Blocking(q) PROVE BlocksSeen(next, BlockRows)
  <2>1. reply = GetBlocks(q, seen)
    BY <1>3, Handled
  <2>2. BlocksSeen(seen, BlockRows)
    BY <1>3 DEF SeenOK
  <2>3. reply.awaits /\ result \in reply.results /\ IsSeq(seen) /\ next = Append(seen, result)
    OBVIOUS
  <2>4. q.limit \in Nat /\ q.offset \in Nat
    BY <1>3, HttpApiAssumption DEF Blocking, Paged
  <2> HIDE DEF reply, seen
  <2> QED BY <1>1, <2>1, <2>2, <2>3, <2>4, BlocksStep
<1>4. ASSUME Rooting(q) PROVE RootSeen(next, Db)
  <2>1. reply = GetRoot(q, seen)
    BY <1>4, Handled
  <2>2. RootSeen(seen, Db)
    BY <1>4 DEF SeenOK
  <2>3. reply.awaits /\ result \in reply.results /\ IsSeq(seen) /\ next = Append(seen, result)
    OBVIOUS
  <2> HIDE DEF reply, seen
  <2> QED BY <2>1, <2>2, <2>3, RootStep
<1>5. ASSUME Enabling(q) PROVE EnableSeen(q, next, Db)
  <2>1. reply = ForgingEnable(q, seen)
    BY <1>5, Handled
  <2>2. EnableSeen(q, seen, Db)
    BY <1>5 DEF SeenOK
  <2>3. reply.awaits /\ result \in reply.results /\ IsSeq(seen) /\ next = Append(seen, result)
    OBVIOUS
  <2> HIDE DEF reply, seen
  <2> QED BY <2>1, <2>2, <2>3, EnableStep
<1> QED BY <1>2, <1>3, <1>4, <1>5 DEF SeenOK

-----------------------------------------------------------------------------
(* What the queries find at each state *)

RowsOver(blocks, ids) ==
  {[id |-> id, height |-> CHOOSE h \in DOMAIN blocks : id \in ToSet(blocks[h].trs)] : id \in ids}

LEMMA RowsAre == TransactionRows = RowsOver(chain, Db.transactions)
BY DEF TransactionRows, HeightOf, RowsOver

(* Every transaction that is told of is in one of the blocks, and in one only *)
InOne(blocks, ids) ==
  \A id \in ids : \E h \in DOMAIN blocks :
    id \in ToSet(blocks[h].trs) /\ \A k \in DOMAIN blocks : id \in ToSet(blocks[k].trs) => k = h

LEMMA RowIs ==
  ASSUME NEW blocks, NEW ids, InOne(blocks, ids), NEW id \in ids,
         NEW h \in DOMAIN blocks, id \in ToSet(blocks[h].trs)
  PROVE  [id |-> id, height |-> h] \in RowsOver(blocks, ids)
<1>1. (CHOOSE k \in DOMAIN blocks : id \in ToSet(blocks[k].trs)) = h
  BY DEF InOne
<1> QED BY <1>1 DEF RowsOver

LEMMA RowsFound ==
  ASSUME NEW blocks, NEW ids, InOne(blocks, ids), NEW t \in RowsOver(blocks, ids)
  PROVE  /\ t = [id |-> t.id, height |-> t.height] /\ t.id \in ids
         /\ t.height \in DOMAIN blocks /\ t.id \in ToSet(blocks[t.height].trs)
<1>1. PICK id \in ids : t = [id |-> id, height |-> CHOOSE h \in DOMAIN blocks : id \in ToSet(blocks[h].trs)]
  BY DEF RowsOver
<1>2. \E h \in DOMAIN blocks : id \in ToSet(blocks[h].trs)
  BY DEF InOne
<1> DEFINE h == CHOOSE h \in DOMAIN blocks : id \in ToSet(blocks[h].trs)
<1>3. h \in DOMAIN blocks /\ id \in ToSet(blocks[h].trs)
  BY <1>2
<1>4. t = [id |-> id, height |-> h]
  BY <1>1
<1> HIDE DEF h
<1> QED BY <1>3, <1>4

LEMMA RowsMore ==
  ASSUME NEW blocks, NEW ids, InOne(blocks, ids), NEW others, NEW more, InOne(others, more),
         \A h \in DOMAIN blocks : h \in DOMAIN others /\ others[h] = blocks[h], ids \subseteq more
  PROVE  RowsOver(blocks, ids) \subseteq RowsOver(others, more)
<1>1. SUFFICES ASSUME NEW t \in RowsOver(blocks, ids) PROVE t \in RowsOver(others, more)
  OBVIOUS
<1>2. /\ t = [id |-> t.id, height |-> t.height] /\ t.id \in ids
      /\ t.height \in DOMAIN blocks /\ t.id \in ToSet(blocks[t.height].trs)
  BY RowsFound
<1>3. [id |-> t.id, height |-> t.height] \in RowsOver(others, more)
  BY <1>2, RowIs
<1> QED BY <1>2, <1>3

LEMMA RowsStored ==
  ASSUME NEW blocks, NEW n \in Nat, DOMAIN blocks = 0 .. n, \A h \in 0 .. n : blocks[h].trs \in Seq(TrsIds),
         NEW ids, IsFiniteSet(ids), InOne(blocks, ids), \A h \in 0 .. n : ToSet(blocks[h].trs) \subseteq ids,
         NEW rows, rows = RowsOver(blocks, ids)
  PROVE  /\ IsFiniteSet(rows) /\ rows \subseteq [id : TrsIds, height : Nat]
         /\ \A t \in rows : t.height <= n
         /\ \A h \in 0 .. n : IdsAt(rows, h) = ToSet(blocks[h].trs)
         /\ \A id \in ids : \E t \in rows : t.id = id
<1>1. \A t \in rows : /\ t = [id |-> t.id, height |-> t.height] /\ t.id \in ids
                      /\ t.height \in 0 .. n /\ t.id \in ToSet(blocks[t.height].trs)
  BY RowsFound
<1>2. \A h \in 0 .. n : ToSet(blocks[h].trs) \subseteq TrsIds
  BY DEF ToSet
<1>3. \A t \in rows : t.id \in TrsIds /\ t.height \in Nat /\ t.height <= n
  BY <1>1, <1>2
<1>4. IsFiniteSet(rows)
  <2> DEFINE f == [id \in ids |-> [id |-> id, height |-> CHOOSE h \in DOMAIN blocks : id \in ToSet(blocks[h].trs)]]
  <2>1. IsFiniteSet(DOMAIN f)
    OBVIOUS
  <2>2. rows = {f[id] : id \in DOMAIN f}
    BY DEF RowsOver
  <2>3. \A x, y \in DOMAIN f : f[x] = f[y] => x = y
    <3>1. \A x \in DOMAIN f : f[x].id = x
      OBVIOUS
    <3> HIDE DEF f
    <3> QED BY <3>1
  <2> HIDE DEF f
  <2> QED BY <2>1, <2>2, <2>3, ImageFinite
<1>5. ASSUME NEW h \in 0 .. n PROVE IdsAt(rows, h) = ToSet(blocks[h].trs)
  <2>1. ASSUME NEW id \in ToSet(blocks[h].trs) PROVE id \in IdsAt(rows, h)
    <3>1. [id |-> id, height |-> h] \in rows
      BY RowIs
    <3> DEFINE t == [id |-> id, height |-> h]
    <3>2. t \in rows /\ t.id = id /\ t.height = h
      BY <3>1
    <3> HIDE DEF t
    <3> QED BY <3>2 DEF IdsAt
  <2>2. ASSUME NEW id \in IdsAt(rows, h) PROVE id \in ToSet(blocks[h].trs)
    <3>1. PICK t \in rows : t.height = h /\ id = t.id
      BY DEF IdsAt
    <3> QED BY <1>1, <3>1
  <2> QED BY <2>1, <2>2
<1>6. ASSUME NEW id \in ids PROVE \E t \in rows : t.id = id
  <2>1. PICK h \in DOMAIN blocks : id \in ToSet(blocks[h].trs)
    BY DEF InOne
  <2>2. [id |-> id, height |-> h] \in rows
    BY <2>1, RowIs
  <2> QED BY <2>2
<1>7. rows \subseteq [id : TrsIds, height : Nat]
  BY <1>1, <1>3
<1> QED BY <1>3, <1>4, <1>5, <1>6, <1>7

(* A chain that was executed block by block *)
ChainGood(blocks, tables, n) ==
  /\ n \in Nat /\ DOMAIN blocks = 0 .. n
  /\ blocks[0] = GenesisBlock /\ tables[0] = GenesisTables
  /\ \A h \in 0 .. n : blocks[h].height = h /\ blocks[h].trs \in Seq(TrsIds)
  /\ \A h \in 0 .. n : ToSet(blocks[h].trs) \subseteq tables[n].transactions
  /\ \A h, k \in 0 .. n : h < k => ToSet(blocks[h].trs) \cap ToSet(blocks[k].trs) = {}
  /\ \A h \in 1 .. n : /\ tables[h] = Executed(SessionOver(tables[h - 1]), blocks, h, blocks[h])
                       /\ Applies(SessionOver(tables[h - 1]), h, blocks[h])

LEMMA ChainServed ==
  ASSUME GenesisValid, NEW blocks, NEW tables, NEW n, ChainGood(blocks, tables, n)
  PROVE  /\ \A h \in 0 .. n : TablesOK(tables[h])
         /\ InOne(blocks, tables[n].transactions)
<1>1. TablesServed(blocks, tables, n)
  BY ReplayServed DEF ChainGood
<1>2. n \in Nat /\ n \in 0 .. n /\ DOMAIN blocks = 0 .. n
  BY DEF ChainGood
<1>3. ASSUME NEW h \in 0 .. n, NEW k \in 0 .. n, NEW id, id \in ToSet(blocks[h].trs), id \in ToSet(blocks[k].trs)
      PROVE  k = h
  <2>1. ~ (h < k) /\ ~ (k < h)
    BY <1>3 DEF ChainGood
  <2> QED BY <1>2, <2>1
<1>4. ASSUME NEW id \in tables[n].transactions
      PROVE  \E h \in 0 .. n :
               id \in ToSet(blocks[h].trs) /\ \A k \in 0 .. n : id \in ToSet(blocks[k].trs) => k = h
  <2>1. PICK h \in 0 .. n : id \in ToSet(blocks[h].trs)
    BY <1>1, <1>2 DEF TablesServed
  <2> QED BY <1>3, <2>1
<1> QED BY <1>1, <1>2, <1>4 DEF TablesServed, InOne

(* With the row of the block that is being committed, or without one *)
LEMMA ChainStored ==
  ASSUME GenesisValid, NEW blocks, NEW tables, NEW n, ChainGood(blocks, tables, n),
         NEW listed, DOMAIN listed \in {0 .. n, 0 .. n + 1},
         \A h \in 0 .. n : listed[h] = blocks[h], \A h \in DOMAIN listed : listed[h].height = h,
         NEW db, db = tables[n], NEW rows, rows = RowsOver(blocks, db.transactions)
  PROVE  Stored(db, listed, n, rows)
<1>1. n \in Nat /\ n \in 0 .. n
  BY DEF ChainGood
<1>2. TablesOK(db) /\ InOne(blocks, db.transactions)
  BY <1>1, ChainServed
<1>3. IsFiniteSet(db.transactions)
  BY <1>2 DEF TablesOK
<1>4. /\ DOMAIN blocks = 0 .. n
      /\ \A h \in 0 .. n : blocks[h].trs \in Seq(TrsIds) /\ ToSet(blocks[h].trs) \subseteq db.transactions
  BY DEF ChainGood
<1>5. /\ IsFiniteSet(rows) /\ rows \subseteq [id : TrsIds, height : Nat]
      /\ \A t \in rows : t.height <= n
      /\ \A h \in 0 .. n : IdsAt(rows, h) = ToSet(blocks[h].trs)
      /\ \A id \in db.transactions : \E t \in rows : t.id = id
  BY <1>1, <1>2, <1>3, <1>4, RowsStored
<1> QED BY <1>1, <1>2, <1>5 DEF Stored

-----------------------------------------------------------------------------
(***************************************************************************)
(* The invariant: that of the node, the shape of the request, and what is  *)
(* known of its results unless a rollback removed something meanwhile.     *)
(***************************************************************************)

NodeInv == TypeInv /\ OnceInv /\ ReplayInv

NotReady == keyPairs = {} /\ inserted = Null /\ request = Null

RequestOK(r) ==
  /\ r = [query |-> r.query, seen |-> r.seen, removed |-> r.removed]
  /\ r.query \in Requests /\ IsSeq(r.seen)

RequestInv ==
  request # Null =>
    /\ RequestOK(request) /\ Len(request.seen) \in 1 .. 4
    /\ ~ request.removed => SeenOK(request.query, request.seen, Db, BlockRows, TransactionRows)

ApiInv ==
  /\ ready \in BOOLEAN
  /\ ~ ready => NotReady
  /\ inserted # Null => inserted.height = Height + 1
  /\ RequestInv

LEMMA NodeGood ==
  ASSUME NodeInv
  PROVE  ChainGood(chain, saved, Height) /\ Db = saved[Height]
<1>1. TypeInv /\ ChainTyped /\ ChainRecorded /\ ChainReplayed
  BY DEF NodeInv, TypeInv, OnceInv, ReplayInv
<1>2. Db = saved[Height]
  BY <1>1, PoolParts DEF TypeInv, Db
<1>3. Height \in 0 .. Height
  BY <1>1 DEF ChainTyped
<1> QED BY <1>1, <1>2, <1>3 DEF ChainGood, ChainTyped, ChainRecorded, ChainReplayed

LEMMA NodeGoodNext ==
  ASSUME NodeInv'
  PROVE  ChainGood(chain', saved', Height') /\ Db' = saved'[Height']
<1>1. ChainTyped' /\ ChainRecorded' /\ ChainReplayed' /\ PoolTyped(PoolState', saved'[Height'])
  BY DEF NodeInv, TypeInv, OnceInv, ReplayInv
<1>2. Db' = saved'[Height']
  BY <1>1 DEF PoolTyped, PoolState, Db
<1>3. Height' \in 0 .. Height'
  BY <1>1 DEF ChainTyped
<1> QED BY <1>1, <1>2, <1>3 DEF ChainGood, ChainTyped, ChainRecorded, ChainReplayed

LEMMA RowAdded ==
  ASSUME NEW blocks, NEW n \in Nat, DOMAIN blocks = 0 .. n, \A h \in 0 .. n : blocks[h].height = h,
         NEW block, block.height = n + 1, NEW listed, listed = With(blocks, n + 1, block)
  PROVE  /\ DOMAIN listed = 0 .. n + 1 /\ listed[n + 1] = block
         /\ \A h \in 0 .. n : listed[h] = blocks[h]
         /\ \A h \in DOMAIN listed : listed[h].height = h
<1>1. /\ (0 .. n) \cup {n + 1} = 0 .. n + 1
      /\ \A h \in 0 .. n : h # n + 1 /\ h \in 0 .. n + 1
      /\ n + 1 \in 0 .. n + 1
  OBVIOUS
<1> DEFINE m == n + 1
<1>2. DOMAIN listed = 0 .. m /\ listed[m] = block /\ \A h \in 0 .. n : listed[h] = blocks[h]
  <2>1. /\ (0 .. n) \cup {m} = 0 .. m /\ \A h \in 0 .. n : h # m /\ h \in 0 .. m
        /\ m \in 0 .. m /\ listed = With(blocks, m, block)
    BY <1>1
  <2> HIDE DEF m
  <2> QED BY <2>1 DEF With
<1>3. ASSUME NEW h \in 0 .. n + 1 PROVE listed[h].height = h
  <2>1. h \in 0 .. n \/ h = n + 1
    OBVIOUS
  <2> QED BY <1>2, <2>1
<1>4. DOMAIN listed = 0 .. n + 1 /\ listed[n + 1] = block /\ \A h \in 0 .. n : listed[h] = blocks[h]
  BY <1>2
<1>5. \A h \in DOMAIN listed : h \in 0 .. n + 1
  BY <1>4
<1>6. \A h \in DOMAIN listed : listed[h].height = h
  BY <1>3, <1>5
<1> HIDE DEF m
<1> QED BY <1>4, <1>6

LEMMA StoredNow ==
  ASSUME GenesisValid, NodeInv, inserted # Null => inserted.height = Height + 1
  PROVE  Stored(Db, BlockRows, Height, TransactionRows)
<1>1. ChainGood(chain, saved, Height) /\ Db = saved[Height] /\ TransactionRows = RowsOver(chain, Db.transactions)
  BY NodeGood, RowsAre
<1>2. Height \in Nat /\ DOMAIN chain = 0 .. Height /\ \A h \in 0 .. Height : chain[h].height = h
  BY <1>1 DEF ChainGood
<1>3. /\ DOMAIN BlockRows \in {0 .. Height, 0 .. Height + 1}
      /\ \A h \in 0 .. Height : BlockRows[h] = chain[h]
      /\ \A h \in DOMAIN BlockRows : BlockRows[h].height = h
  <2>1. CASE inserted = Null
    BY <1>2, <2>1 DEF BlockRows
  <2>2. CASE inserted # Null
    <3>1. BlockRows = With(chain, Height + 1, inserted) /\ inserted.height = Height + 1
      BY <2>2 DEF BlockRows
    <3>2. /\ DOMAIN BlockRows = 0 .. Height + 1
          /\ \A h \in 0 .. Height : BlockRows[h] = chain[h]
          /\ \A h \in DOMAIN BlockRows : BlockRows[h].height = h
      BY <1>2, <3>1, RowAdded
    <3> QED BY <3>2
  <2> QED BY <2>1, <2>2
<1> QED BY <1>1, <1>3, ChainStored

-----------------------------------------------------------------------------
(* A request goes on *)

(* What Continue does to a request whose results are known so far *)
LEMMA Continued ==
  ASSUME GenesisValid, NodeInv, ApiInv, NEW r, RequestOK(r), Len(r.seen) \in 0 .. 4,
         ~ r.removed => SeenOK(r.query, r.seen, Db, BlockRows, TransactionRows),
         Continue(r), UNCHANGED <<vars, ready, inserted>>, ready
  PROVE  NodeInv' /\ ApiInv'
<1>1. NodeInv'
  BY DEF vars, NodeInv, TypeInv, ChainTyped, OnceInv, ChainRecorded, ReplayInv, ChainReplayed,
         PoolState, IsCollectingVotes, Height
<1>2. /\ Db' = Db /\ BlockRows' = BlockRows /\ TransactionRows' = TransactionRows /\ Height' = Height
  BY DEF vars, Db, BlockRows, TransactionRows, HeightOf, Height
<1> DEFINE q == r.query
           seen == r.seen
<1>3. /\ r = [query |-> q, seen |-> seen, removed |-> r.removed]
      /\ q \in Requests /\ IsSeq(seen)
  BY DEF RequestOK
<1>4. RequestInv'
  <2>1. CASE Handle(r).awaits
    <3>1. PICK result \in Handle(r).results : request' = [r EXCEPT !.seen = Append(@, result)]
      BY <2>1 DEF Continue
    <3> DEFINE next == Append(seen, result)
    <3>2. request' = [query |-> q, seen |-> next, removed |-> r.removed]
      BY <1>3, <3>1
    <3>3. IsSeq(next) /\ Longer(seen, next, result)
      BY <1>3, AppendLonger
    <3>4. Len(seen) < 4
      BY <1>3, <2>1, AwaitsFew
    <3>5. Len(next) \in 1 .. 4
      <4> DEFINE k == Len(seen)
      <4>1. k \in Nat /\ k < 4 /\ Len(next) = k + 1
        BY <1>3, <3>3, <3>4, LenSeq DEF Longer
      <4> HIDE DEF k, next
      <4> QED BY <4>1
    <3>6. ASSUME ~ r.removed PROVE SeenOK(q, next, Db, BlockRows, TransactionRows)
      <4>1. Stored(Db, BlockRows, Height, TransactionRows)
        BY StoredNow DEF ApiInv
      <4>2. SeenOK(q, seen, Db, BlockRows, TransactionRows)
        BY <3>6
      <4> QED BY <1>3, <2>1, <4>1, <4>2, SeenStep
    <3> HIDE DEF q, seen, next
    <3>7. request'.query = q /\ request'.seen = next /\ request'.removed = r.removed
      BY <3>2
    <3>8. RequestOK(request')
      BY <1>3, <3>2, <3>3, <3>7 DEF RequestOK
    <3> QED BY <1>2, <3>5, <3>6, <3>7, <3>8 DEF RequestInv
  <2>2. CASE ~ Handle(r).awaits
    BY <2>2 DEF Continue, RequestInv
  <2> QED BY <2>1, <2>2
<1>5. ready' = ready /\ inserted' = inserted
  OBVIOUS
<1> QED BY <1>1, <1>2, <1>4, <1>5 DEF ApiInv

LEMMA AskKept ==
  ASSUME GenesisValid, NodeInv, ApiInv, NEW q \in Requests, Ask(q)
  PROVE  NodeInv' /\ ApiInv'
<1> DEFINE r == [query |-> q, seen |-> <<>>, removed |-> FALSE]
<1>1. ready /\ Continue(r) /\ UNCHANGED <<vars, ready, inserted>>
  BY DEF Ask
<1>2. r.query = q /\ r.seen = <<>> /\ r.removed = FALSE
  OBVIOUS
<1>3. r = [query |-> r.query, seen |-> r.seen, removed |-> r.removed]
  OBVIOUS
<1> HIDE DEF r
<1>4. IsSeq(r.seen) /\ Len(r.seen) \in 0 .. 4
  <2>1. <<>> \in Seq({}) /\ Len(<<>>) = 0
    OBVIOUS
  <2> QED BY <1>2, <2>1 DEF IsSeq
<1>5. RequestOK(r)
  BY <1>2, <1>3, <1>4 DEF RequestOK
<1>6. SeenOK(r.query, r.seen, Db, BlockRows, TransactionRows)
  BY <1>2, SeenNothing
<1> QED BY <1>1, <1>4, <1>5, <1>6, Continued

LEMMA ResumeKept ==
  ASSUME GenesisValid, NodeInv, ApiInv, Resume
  PROVE  NodeInv' /\ ApiInv'
<1>1. request # Null /\ Continue(request) /\ UNCHANGED <<vars, ready, inserted>> /\ ready
  BY DEF Resume, ApiInv, NotReady
<1>2. /\ RequestOK(request) /\ Len(request.seen) \in 1 .. 4
      /\ ~ request.removed => SeenOK(request.query, request.seen, Db, BlockRows, TransactionRows)
  BY <1>1 DEF ApiInv, RequestInv
<1>3. Len(request.seen) \in 0 .. 4
  BY <1>2
<1> QED BY <1>1, <1>2, <1>3, Continued

-----------------------------------------------------------------------------
(* The node goes on *)

(* Blocks are added to the chain, and to what is listed of it *)
LEMMA MoreKnown ==
  ASSUME GenesisValid, NodeInv, ApiInv, NodeInv', request' = request,
         \A h \in 0 .. Height : h \in 0 .. Height' /\ chain'[h] = chain[h] /\ saved'[h] = saved[h],
         Height' = Height \/ Height' = Height + 1,
         \A h \in DOMAIN BlockRows : h \in DOMAIN BlockRows' /\ BlockRows'[h] = BlockRows[h]
  PROVE  RequestInv'
<1>1. ChainGood(chain, saved, Height) /\ Db = saved[Height] /\ TransactionRows = RowsOver(chain, Db.transactions)
  BY NodeGood, RowsAre
<1>2. ChainGood(chain', saved', Height') /\ Db' = saved'[Height']
  BY NodeGoodNext
<1>3. TransactionRows' = RowsOver(chain', Db'.transactions)
  BY DEF TransactionRows, HeightOf, RowsOver
<1>4. /\ Height \in Nat /\ Height \in 0 .. Height /\ Height' \in 0 .. Height'
      /\ DOMAIN chain = 0 .. Height /\ DOMAIN chain' = 0 .. Height'
  BY <1>1, <1>2 DEF ChainGood
<1>5. TablesOK(Db) /\ InOne(chain, Db.transactions) /\ TablesOK(Db') /\ InOne(chain', Db'.transactions)
  BY <1>1, <1>2, <1>4, ChainServed
<1>6. Grows(Db, Db') /\ Db.transactions \subseteq Db'.transactions
  <2>1. CASE Height' = Height
    <3>1. Db' = Db
      BY <1>1, <1>2, <1>4, <2>1
    <3>2. Grows(Db, Db)
      BY <1>5, StaySelf DEF TablesOK, Known, Grows
    <3> QED BY <3>1, <3>2
  <2>2. CASE Height' = Height + 1
    <3> DEFINE n == Height + 1
               v == saved'[Height]
               w == saved'[n]
    <3>1. n \in 1 .. Height' /\ n \in 0 .. Height' /\ n - 1 = Height
      BY <1>4, <2>2
    <3>2. v = Db /\ w = Db'
      BY <1>1, <1>2, <1>4, <2>2
    <3>3. /\ w = Executed(SessionOver(v), chain', n, chain'[n])
          /\ Applies(SessionOver(v), n, chain'[n])
          /\ chain'[n].trs \in Seq(TrsIds)
      BY <1>2, <3>1 DEF ChainGood
    <3>4. TablesOK(v)
      BY <1>5, <3>2
    <3> HIDE DEF n, v, w
    <3>5. Grows(v, w) /\ w.transactions = v.transactions \cup ToSet(chain'[n].trs)
      BY <3>3, <3>4, ExecutedServes
    <3> QED BY <3>2, <3>5
  <2> QED BY <2>1, <2>2
<1>7. TransactionRows \subseteq TransactionRows'
  <2>1. \A h \in DOMAIN chain : h \in DOMAIN chain' /\ chain'[h] = chain[h]
    BY <1>4
  <2> QED BY <1>1, <1>3, <1>5, <1>6, <2>1, RowsMore
<1>8. IsFiniteSet(TransactionRows')
  <2>1. /\ Height' \in Nat
        /\ \A h \in 0 .. Height' : chain'[h].trs \in Seq(TrsIds) /\ ToSet(chain'[h].trs) \subseteq Db'.transactions
        /\ IsFiniteSet(Db'.transactions)
    BY <1>2, <1>5 DEF ChainGood, TablesOK
  <2> DEFINE blocks == chain'
             n == Height'
             ids == Db'.transactions
             rows == TransactionRows'
  <2>2. /\ n \in Nat /\ DOMAIN blocks = 0 .. n /\ \A h \in 0 .. n : blocks[h].trs \in Seq(TrsIds)
        /\ IsFiniteSet(ids) /\ InOne(blocks, ids) /\ \A h \in 0 .. n : ToSet(blocks[h].trs) \subseteq ids
        /\ rows = RowsOver(blocks, ids)
    BY <1>3, <1>4, <1>5, <2>1
  <2> HIDE DEF blocks, n, ids, rows
  <2>3. IsFiniteSet(rows)
    BY <2>2, RowsStored
  <2> QED BY <2>3 DEF rows
<1>9. ASSUME request # Null, ~ request.removed
      PROVE  SeenOK(request.query, request.seen, Db', BlockRows', TransactionRows')
  <2>1. SeenOK(request.query, request.seen, Db, BlockRows, TransactionRows)
    BY <1>9 DEF ApiInv, RequestInv
  <2> QED BY <1>5, <1>6, <1>7, <1>8, <2>1, SeenLater
<1> QED BY <1>9 DEF ApiInv, RequestInv

(* Transactions that are put: one after another, up to the first that fails *)
LEMMA CollectingKeepsPool ==
  ASSUME NEW ps, NEW tables, NEW h \in Nat, NEW ids \in Seq(Senders), NEW collecting,
         \A r, id : ~ Accepted(r, collecting, id), PoolTyped(ps, tables)
  PROVE  ProcessAll(ps, collecting, ids, h).pool = ps.pool
<1> DEFINE n == Len(ids)
           Good(r) == PoolTyped(r, tables) /\ r.pool = ps.pool
<1>1. n \in Nat /\ DOMAIN ids = 1 .. n /\ \A i \in 1 .. n : ids[i] \in Senders
  OBVIOUS
<1>2. PICK done : DoneUpTo(done, ps, collecting, ids, h, n) /\ ProcessAll(ps, collecting, ids, h) = done[n]
  BY <1>1, ProcessAllRun
<1> HIDE DEF n
<1> DEFINE T == {i \in Nat : i <= n => Good(done[i])}
<1>3. 0 \in T
  BY <1>1, <1>2, DoneStep
<1>4. ASSUME NEW i \in Nat, i \in T PROVE i + 1 \in T
  <2>1. SUFFICES ASSUME i + 1 <= n PROVE Good(done[i + 1])
    OBVIOUS
  <2>2. Good(done[i]) /\ ids[i + 1] \in Senders
    BY <1>1, <1>4, <2>1
  <2>3. done[i + 1] = ProcessNext(done[(i + 1) - 1], collecting, ids[i + 1], h) /\ (i + 1) - 1 = i
    BY <1>1, <1>2, <2>1, DoneStep
  <2> DEFINE r == done[i]
             next == ProcessUnconfirmed(r, collecting, ids[i + 1], h)
  <2>4. Good(r)
    BY <2>2
  <2>5. done[i + 1] \in {r, next}
    BY <2>3 DEF ProcessNext
  <2> HIDE DEF r
  <2>6. Good(next)
    <3>1. PoolTyped(next, tables)
      BY <2>2, <2>4, ProcessTyped
    <3>2. next = [r EXCEPT !.failed = AddFailedTrs(@, ids[i + 1]), !.ok = FALSE]
      BY DEF ProcessUnconfirmed
    <3>3. r = [session |-> r.session, pool |-> r.pool, failed |-> r.failed, ok |-> r.ok]
      BY <2>4 DEF PoolTyped
    <3> HIDE DEF next
    <3>4. next.pool = r.pool
      BY <3>2, <3>3
    <3> QED BY <2>4, <3>1, <3>4
  <2> HIDE DEF next, Good
  <2> QED BY <2>4, <2>5, <2>6
<1> HIDE DEF T, Good
<1>5. Nat \subseteq T
  BY <1>3, <1>4, SetInduction
<1>6. Good(done[n])
  BY <1>1, <1>5 DEF T
<1> QED BY <1>2, <1>6 DEF Good

LEMMA AddTransactionsKept ==
  ASSUME NodeInv, NEW ids \in Batches, AddTransactions(ids)
  PROVE  NodeInv' /\ UNCHANGED <<chain, saved>>
<1> DEFINE next == ProcessAll(PoolState, IsCollectingVotes, ids, Height)
<1>1. SetPoolState(next) /\ UNCHANGED <<chain, saved, pendingBlock, syncing>> /\ ~ syncing
  BY DEF AddTransactions, Keep
<1>2. ids \in Seq(Senders)
  BY HttpApiAssumption
<1>3. /\ ChainTyped /\ Height \in Nat /\ PoolTyped(PoolState, saved[Height])
      /\ ChainRecorded /\ PoolClean(PoolState, saved[Height])
      /\ ChainReplayed /\ PoolApplied(PoolState, saved[Height], Height)
  BY DEF NodeInv, TypeInv, ChainTyped, OnceInv, ReplayInv
<1>4. /\ PoolTyped(next, saved[Height]) /\ PoolClean(next, saved[Height])
      /\ PoolApplied(next, saved[Height], Height)
  BY <1>2, <1>3, ProcessAllOK
<1>5. IsCollectingVotes => next.pool = pool
  <2>1. IsCollectingVotes => \A r, id : ~ Accepted(r, IsCollectingVotes, id)
    BY DEF Accepted
  <2>2. ASSUME IsCollectingVotes PROVE next.pool = PoolState.pool
    <3> DEFINE ps == PoolState
               tables == saved[Height]
               h == Height
               collecting == IsCollectingVotes
    <3>1. PoolTyped(ps, tables) /\ h \in Nat /\ \A r, id : ~ Accepted(r, collecting, id)
      BY <1>3, <2>1, <2>2
    <3>2. next = ProcessAll(ps, collecting, ids, h)
      OBVIOUS
    <3> HIDE DEF ps, tables, h, collecting, next
    <3>3. next.pool = ps.pool
      BY <1>2, <3>1, <3>2, CollectingKeepsPool
    <3> QED BY <3>3 DEF ps
  <2> QED BY <2>2 DEF PoolState
<1> HIDE DEF next
<1>6. /\ PoolTyped(PoolState', saved[Height]) /\ PoolClean(PoolState', saved[Height])
      /\ PoolApplied(PoolState', saved[Height], Height)
  BY <1>1, <1>4, SetPool
<1>7. Height' = Height /\ saved'[Height'] = saved[Height]
  BY <1>1 DEF Height
<1>8. TypeInv'
  BY <1>1, <1>3, <1>6, <1>7 DEF NodeInv, TypeInv, ChainTyped, IsCollectingVotes
<1>9. OnceInv'
  <2>1. ChainRecorded'
    BY <1>1, <1>3, RecordedFrame
  <2>2. IsCollectingVotes' => ~ syncing' /\ pendingBlock'.height = Height' + 1 /\ pendingBlock'.trs = pool'
    BY <1>1, <1>5, <1>7 DEF NodeInv, OnceInv, IsCollectingVotes, SetPoolState
  <2> QED BY <1>1, <1>6, <1>7, <2>1, <2>2 DEF OnceInv
<1>10. ReplayInv'
  BY <1>1, <1>3, <1>6, <1>7, ReplayedFrame DEF ReplayInv
<1> QED BY <1>1, <1>8, <1>9, <1>10 DEF NodeInv

(* Every task of the node is a step of Execution, or one that adds to the pool *)
LEMMA NodeStep ==
  ASSUME NeverBusy, SendersKnown, NodeInv, NodeTask
  PROVE  NodeInv'
<1>1. ASSUME NEW ids \in Batches, AddTransactions(ids) PROVE NodeInv'
  BY <1>1, AddTransactionsKept
<1>2. ASSUME [Next]_vars PROVE NodeInv'
  BY <1>2, StepTyped, StepOnce, StepReplayed DEF NodeInv
<1>3. ASSUME NEW id \in Senders, AddTransactionUnsigned(id) PROVE ReceiveTransaction(id)
  BY <1>3 DEF AddTransactionUnsigned, ReceiveTransaction, Keep
<1>4. Next \/ \E ids \in Batches : AddTransactions(ids)
  BY <1>3 DEF NodeTask, Next
<1> QED BY <1>1, <1>2, <1>4

(* What a task does to the chain *)
LEMMA NodeChain ==
  ASSUME NodeInv, NodeTask
  PROVE  \/ UNCHANGED <<chain, saved>>
         \/ \E block, tables : Grown(block, tables)
         \/ \E common \in Nat : Cut(common)
<1>1. ChainTyped
  BY DEF NodeInv, TypeInv
<1>2. ASSUME NEW block, CommitLocal(block) PROVE \E b, tables : Grown(b, tables)
  BY <1>1, <1>2, CommitGrows DEF CommitLocal
<1>3. ASSUME NEW block, OnReceiveBlock(block)
      PROVE  UNCHANGED <<chain, saved>> \/ \E b, tables : Grown(b, tables)
  BY <1>1, <1>3, ReceivedBlock
<1>4. ASSUME NEW block, LoadBlock(block)
      PROVE  UNCHANGED <<chain, saved>> \/ \E b, tables : Grown(b, tables)
  BY <1>1, <1>4, CommitGrows DEF LoadBlock
<1>5. ASSUME NEW common \in DOMAIN chain, StartSync(common) PROVE \E c \in Nat : Cut(c)
  BY <1>1, <1>5, StartSyncCuts
<1>6. CASE \E ids \in Batches : AddTransactions(ids)
  BY <1>6, AddTransactionsKept
<1>7. CASE \E id \in Senders : ReceiveTransaction(id) \/ AddTransactionUnsigned(id)
  BY <1>7 DEF ReceiveTransaction, AddTransactionUnsigned, Keep
<1>8. CASE \E d \in Delegates : Forge(d) \/ Propose(d)
  BY <1>2, <1>8 DEF Forge, Propose
<1>9. CASE OnReceiveVotes
  BY <1>2, <1>9 DEF OnReceiveVotes
<1>10. CASE StartSyncFromGenesis \/ EndSync
  BY <1>10 DEF StartSyncFromGenesis, EndSync
<1> QED BY <1>3, <1>4, <1>5, <1>6, <1>7, <1>8, <1>9, <1>10 DEF NodeTask

LEMMA NodeFrame ==
  ASSUME NodeInv, UNCHANGED vars
  PROVE  NodeInv' /\ Height' = Height
BY DEF vars, NodeInv, TypeInv, ChainTyped, OnceInv, ChainRecorded, ReplayInv, ChainReplayed,
       PoolState, IsCollectingVotes, Height

LEMMA InsertKept ==
  ASSUME GenesisValid, NodeInv, ApiInv, NEW block, InsertBlock(block)
  PROVE  NodeInv' /\ ApiInv'
<1>1. /\ ready /\ inserted = Null /\ block.height = Height + 1 /\ inserted' = block
      /\ UNCHANGED <<vars, ready, keyPairs, request>>
  BY DEF InsertBlock
<1>2. NodeInv' /\ Height' = Height /\ chain' = chain /\ saved' = saved
  BY <1>1, NodeFrame DEF vars
<1>3. /\ Height \in Nat /\ DOMAIN chain = 0 .. Height /\ \A h \in 0 .. Height : chain[h].height = h
  BY NodeGood DEF ChainGood
<1>4. BlockRows = chain
  BY <1>1 DEF BlockRows
<1>5. \A h \in DOMAIN BlockRows : h \in DOMAIN BlockRows' /\ BlockRows'[h] = BlockRows[h]
  <2>1. CASE block = Null
    BY <1>1, <1>2, <1>4, <2>1 DEF BlockRows
  <2>2. CASE block # Null
    <3> DEFINE rows == With(chain, Height + 1, block)
    <3>1. BlockRows' = rows
      BY <1>1, <1>2, <2>2 DEF BlockRows
    <3>2. DOMAIN rows = 0 .. Height + 1 /\ \A h \in 0 .. Height : rows[h] = chain[h]
      BY <1>1, <1>3, RowAdded
    <3> HIDE DEF rows
    <3>3. \A h \in 0 .. Height : h \in DOMAIN rows
      BY <1>3, <3>2
    <3> QED BY <1>3, <1>4, <3>1, <3>2, <3>3
  <2> QED BY <2>1, <2>2
<1>6. \A h \in 0 .. Height : h \in 0 .. Height' /\ chain'[h] = chain[h] /\ saved'[h] = saved[h]
  BY <1>2
<1>7. RequestInv'
  BY <1>1, <1>2, <1>5, <1>6, MoreKnown
<1> QED BY <1>1, <1>2, <1>7 DEF ApiInv

(* A commit ends with the rows it began with; nothing else adds any *)
LEMMA TaskAdds ==
  ASSUME NodeInv, ApiInv, Task, NodeInv', DOMAIN chain \subseteq DOMAIN chain'
  PROVE  /\ \A h \in 0 .. Height : h \in 0 .. Height' /\ chain'[h] = chain[h] /\ saved'[h] = saved[h]
         /\ Height' = Height \/ Height' = Height + 1
         /\ \A h \in DOMAIN BlockRows : h \in DOMAIN BlockRows' /\ BlockRows'[h] = BlockRows[h]
<1>1. NodeTask /\ CommitsInserted /\ inserted' = Null
  BY DEF Task
<1>2. /\ Height \in Nat /\ DOMAIN chain = 0 .. Height /\ Height \in 0 .. Height
      /\ Height' \in Nat /\ DOMAIN chain' = 0 .. Height' /\ Height + 1 \notin 0 .. Height
      /\ \A h \in 0 .. Height : h \in 0 .. Height + 1
  BY NodeGood, NodeGoodNext DEF ChainGood
<1>3. BlockRows' = chain'
  BY <1>1 DEF BlockRows
<1>4. CASE UNCHANGED <<chain, saved>>
  <2>1. Height' = Height /\ inserted = Null
    BY <1>1, <1>4 DEF Height, CommitsInserted
  <2>2. BlockRows = chain
    BY <2>1 DEF BlockRows
  <2> QED BY <1>2, <1>3, <1>4, <2>1, <2>2
<1>5. CASE \E block, tables : Grown(block, tables)
  <2>1. PICK block, tables : Grown(block, tables)
    BY <1>5
  <2>2. /\ Height' = Height + 1 /\ DOMAIN chain' = 0 .. Height + 1 /\ Height + 1 \in 0 .. Height + 1
        /\ \A h \in 0 .. Height : chain'[h] = chain[h] /\ saved'[h] = saved[h]
    BY <1>2, <2>1 DEF Grown
  <2>3. inserted # Null /\ chain' = With(chain, Height + 1, inserted)
    BY <1>1, <1>2, <2>2 DEF CommitsInserted
  <2>4. BlockRows = chain'
    BY <2>3 DEF BlockRows
  <2> QED BY <1>2, <1>3, <2>2, <2>4
<1>6. CASE \E common \in Nat : Cut(common)
  <2>1. PICK common \in Nat : Cut(common)
    BY <1>6
  <2>2. /\ Height' = common /\ DOMAIN chain' = 0 .. common
        /\ \A h \in 0 .. common : h \in 0 .. Height /\ chain'[h] = chain[h] /\ saved'[h] = saved[h]
    BY <2>1 DEF Cut
  <2>3. common = Height
    <3>1. Height \in 0 .. common /\ common \in 0 .. common
      BY <1>2, <2>2
    <3>2. common \in 0 .. Height
      BY <2>2, <3>1
    <3> QED BY <1>2, <3>1, <3>2
  <2>4. inserted = Null
    BY <1>1, <1>2, <2>2, <2>3 DEF CommitsInserted
  <2>5. BlockRows = chain
    BY <2>4 DEF BlockRows
  <2> QED BY <1>2, <1>3, <2>2, <2>3, <2>5
<1> QED BY <1>1, <1>4, <1>5, <1>6, NodeChain

LEMMA TaskKept ==
  ASSUME NeverBusy, SendersKnown, NodeInv, ApiInv, Task
  PROVE  NodeInv' /\ ApiInv'
<1>1. NodeInv' /\ GenesisValid
  BY NodeStep DEF Task, NeverBusy
<1>2. /\ ready /\ UNCHANGED <<ready, keyPairs>> /\ inserted' = Null
      /\ request' = IF request = Null \/ DOMAIN chain \subseteq DOMAIN chain' THEN request
                    ELSE [request EXCEPT !.removed = TRUE]
  BY DEF Task
<1>3. ASSUME request = Null PROVE RequestInv'
  BY <1>2, <1>3 DEF RequestInv
<1>4. ASSUME request # Null, DOMAIN chain \subseteq DOMAIN chain' PROVE RequestInv'
  <2>1. request' = request
    BY <1>2, <1>4
  <2> QED BY <1>1, <1>4, <2>1, TaskAdds, MoreKnown
<1>5. ASSUME request # Null, ~ (DOMAIN chain \subseteq DOMAIN chain') PROVE RequestInv'
  <2>1. RequestOK(request) /\ Len(request.seen) \in 1 .. 4
    BY <1>5 DEF ApiInv, RequestInv
  <2>2. request' = [query |-> request.query, seen |-> request.seen, removed |-> TRUE]
    BY <1>2, <1>5, <2>1 DEF RequestOK
  <2>3. request'.query = request.query /\ request'.seen = request.seen /\ request'.removed = TRUE
    BY <2>2
  <2>4. RequestOK(request')
    BY <2>1, <2>2, <2>3 DEF RequestOK
  <2> QED BY <2>1, <2>3, <2>4 DEF RequestInv
<1>6. RequestInv'
  BY <1>3, <1>4, <1>5
<1> QED BY <1>1, <1>2, <1>6 DEF ApiInv

LEMMA RestartKept ==
  ASSUME NeverBusy, SendersKnown, NodeInv, ApiInv, RestartNode
  PROVE  NodeInv' /\ ApiInv'
<1>1. [Next]_vars
  BY DEF RestartNode, Next
<1>2. NodeInv'
  BY <1>1, StepTyped, StepOnce, StepReplayed DEF NodeInv
<1>3. ready' = FALSE /\ keyPairs' = {} /\ inserted' = Null /\ request' = Null
  BY DEF RestartNode
<1> QED BY <1>2, <1>3 DEF ApiInv, NotReady, RequestInv

LEMMA StartKept ==
  ASSUME NodeInv, ApiInv, Start
  PROVE  NodeInv' /\ ApiInv'
<1>1. ~ ready /\ ready' = TRUE /\ UNCHANGED <<vars, inserted, request>>
  BY DEF Start
<1>2. NodeInv'
  BY <1>1, NodeFrame
<1>3. inserted' = Null /\ request' = Null
  BY <1>1 DEF ApiInv, NotReady
<1> QED BY <1>1, <1>2, <1>3 DEF ApiInv, RequestInv

LEMMA HttpInitKept ==
  ASSUME NeverBusy, SendersKnown, HttpInit
  PROVE  NodeInv /\ ApiInv
<1>1. NodeInv
  BY InitTyped, InitOnce, InitReplayed DEF HttpInit, NodeInv, NeverBusy
<1>2. ready = FALSE /\ keyPairs = {} /\ inserted = Null /\ request = Null
  BY DEF HttpInit
<1> QED BY <1>1, <1>2 DEF ApiInv, NotReady, RequestInv

LEMMA HttpStepKept ==
  ASSUME NeverBusy, SendersKnown, NodeInv, ApiInv, [HttpNext]_<<vars, apiVars>>
  PROVE  NodeInv' /\ ApiInv'
<1>1. GenesisValid
  BY DEF NeverBusy
<1>2. ASSUME NEW q \in Requests, Ask(q) PROVE NodeInv' /\ ApiInv'
  BY <1>1, <1>2, AskKept
<1>3. CASE Resume
  BY <1>1, <1>3, ResumeKept
<1>4. ASSUME NEW block \in NextBlocks, InsertBlock(block) PROVE NodeInv' /\ ApiInv'
  BY <1>1, <1>4, InsertKept
<1>5. CASE Task
  BY <1>5, TaskKept
<1>6. CASE RestartNode
  BY <1>6, RestartKept
<1>7. CASE Start
  BY <1>7, StartKept
<1>8. CASE UNCHANGED <<vars, apiVars>>
  <2>1. NodeInv' /\ Height' = Height /\ UNCHANGED vars /\ UNCHANGED <<ready, keyPairs, inserted, request>>
    BY <1>8, NodeFrame DEF apiVars
  <2>2. Db' = Db /\ BlockRows' = BlockRows /\ TransactionRows' = TransactionRows
    BY <2>1 DEF vars, Db, BlockRows, TransactionRows, HeightOf, Height
  <2>3. RequestInv'
    BY <2>1, <2>2 DEF ApiInv, RequestInv
  <2> QED BY <2>1, <2>3 DEF ApiInv, NotReady
<1> QED BY <1>2, <1>3, <1>4, <1>5, <1>6, <1>7, <1>8 DEF HttpNext

-----------------------------------------------------------------------------
(* The properties *)

HttpInv == NodeInv /\ ApiInv

LEMMA SpecKeeps ==
  ASSUME NeverBusy, SendersKnown
  PROVE  HttpSpec => []HttpInv
<1>1. HttpInit => HttpInv
  BY HttpInitKept DEF HttpInv
<1>2. HttpInv /\ [HttpNext]_<<vars, apiVars>> => HttpInv'
  BY HttpStepKept DEF HttpInv
<1> QED BY <1>1, <1>2, PTL DEF HttpSpec

LEMMA RequestKnown ==
  ASSUME HttpInv, request # Null
  PROVE  /\ request.query \in Requests /\ IsSeq(request.seen) /\ request.seen # <<>>
         /\ ~ request.removed => SeenOK(request.query, request.seen, Db, BlockRows, TransactionRows)
<1>1. RequestOK(request) /\ Len(request.seen) \in 1 .. 4
  BY DEF HttpInv, ApiInv, RequestInv
<1>2. Len(request.seen) # 0
  BY <1>1
<1>3. request.seen # <<>>
  BY <1>1, <1>2, LenSeq DEF RequestOK
<1> QED BY <1>1, <1>3 DEF HttpInv, ApiInv, RequestInv, RequestOK

(***************************************************************************)
(* Whatever is asked meanwhile, a node that is not ready has no keys and   *)
(* no requests, the row that is ahead of its commit is the next one, and   *)
(* no handler awaits more than four results.                               *)
(***************************************************************************)
THEOREM HttpTypeCorrect ==
  ASSUME NeverBusy, SendersKnown
  PROVE  HttpSpec => []HttpTypeOK
<1>1. ASSUME HttpInv PROVE HttpTypeOK
  <2>1. TypeOK
    BY <1>1, TypesAsTold DEF HttpInv, NodeInv
  <2>2. request # Null => request.query \in Requests /\ Len(request.seen) \in 1 .. 4
    BY <1>1 DEF HttpInv, ApiInv, RequestInv, RequestOK
  <2> QED BY <1>1, <2>1, <2>2 DEF HttpInv, ApiInv, NotReady, HttpTypeOK
<1>2. HttpInv => HttpTypeOK
  BY <1>1
<1> QED BY <1>2, SpecKeeps, PTL

(***************************************************************************)
(* A list of blocks answers each with its transactions: the range, the     *)
(* rows and the transactions are read at three moments, and blocks are     *)
(* committed in between; only the one whose row is ahead of its commit     *)
(* may lack all of them.                                                   *)
(***************************************************************************)
THEOREM BlocksAreComplete ==
  ASSUME NeverBusy, SendersKnown
  PROVE  HttpSpec => []BlocksComplete
<1>1. ASSUME HttpInv, Undisturbed("blocks", {"getBlocks"}), request.query.transactions, "blocks" \in DOMAIN Answer
      PROVE  \A i \in DOMAIN Answer.blocks : Complete(Answer.blocks[i], Answer.blocks)
  <2> DEFINE q == request.query
             seen == request.seen
             reply == Handle(request)
  <2>1. request # Null /\ ~ request.removed /\ Blocking(q) /\ ~ reply.awaits
    BY <1>1 DEF Undisturbed, Blocking
  <2>2. q \in Requests /\ IsSeq(seen) /\ BlocksSeen(seen, BlockRows)
    BY <1>1, <2>1, RequestKnown DEF SeenOK
  <2>3. reply = GetBlocks(q, seen)
    BY <2>1, <2>2, Handled
  <2>4. q.transactions /\ Answer = reply.answer /\ "blocks" \in DOMAIN reply.answer
    BY <1>1 DEF Answer
  <2> HIDE DEF q, seen, reply
  <2>5. \A i \in DOMAIN reply.answer.blocks : Complete(reply.answer.blocks[i], reply.answer.blocks)
    BY <2>1, <2>2, <2>3, <2>4, BlocksAnswered
  <2> QED BY <2>4, <2>5
<1>2. HttpInv => BlocksComplete
  BY <1>1 DEF BlocksComplete, Complete
<1> QED BY <1>2, SpecKeeps, PTL

(***************************************************************************)
(* A list has the rows it counted, as far as the page goes: rows that are  *)
(* added between the count and the page make the page no shorter.          *)
(***************************************************************************)
THEOREM CountsAreCovered ==
  ASSUME NeverBusy, SendersKnown
  PROVE  HttpSpec => []CountsCovered
<1>1. ASSUME HttpInv, "count" \in DOMAIN Answer,
             \/ Undisturbed("uia", {"getIssuers", "getIssuerAssets", "getAssets", "getBalances"})
             \/ Undisturbed("transactions", {"getTransactions"})
      PROVE  Cardinality(Answer.rows) >= Min({Answer.limit, Answer.count - Answer.offset})
  <2> DEFINE q == request.query
             seen == request.seen
             reply == Handle(request)
  <2>1. request # Null /\ ~ request.removed /\ IsList(q) /\ ~ reply.awaits
    BY <1>1 DEF Undisturbed, IsList, Lists
  <2>2. q \in Requests /\ IsSeq(seen) /\ seen # <<>> /\ ListSeen(q, seen, Db, TransactionRows)
    BY <1>1, <2>1, RequestKnown DEF SeenOK
  <2>3. reply = ListHandler(q, seen)
    BY <2>1, <2>2, Handled
  <2>4. TablesOK(Db) /\ IsFiniteSet(TransactionRows)
    <3>1. Stored(Db, BlockRows, Height, TransactionRows)
      BY <1>1, StoredNow DEF HttpInv, ApiInv, NeverBusy
    <3> QED BY <3>1 DEF Stored
  <2>5. Answer = reply.answer /\ "count" \in DOMAIN reply.answer
    BY <1>1 DEF Answer
  <2> HIDE DEF q, seen, reply
  <2>6. Cardinality(reply.answer.rows) >= Min({reply.answer.limit, reply.answer.count - reply.answer.offset})
    BY <2>1, <2>2, <2>3, <2>4, <2>5, ListAnswered
  <2> QED BY <2>5, <2>6
<1>2. HttpInv => CountsCovered
  BY <1>1 DEF CountsCovered
<1> QED BY <1>2, SpecKeeps, PTL

(***************************************************************************)
(* Every transfer of an answer has its transaction, and its asset if it is *)
(* of one: what a transfer refers to is there before it is, and stays.     *)
(***************************************************************************)
THEOREM TransfersAreResolved ==
  ASSUME NeverBusy, SendersKnown
  PROVE  HttpSpec => []TransfersResolved
<1>1. ASSUME HttpInv, Undisturbed("transfers", {"getRoot"})
      PROVE  \A t \in Answer.transfers : t.asset # Missing /\ t.transaction # Missing
  <2> DEFINE q == request.query
             seen == request.seen
             reply == Handle(request)
  <2>1. request # Null /\ ~ request.removed /\ Rooting(q) /\ ~ reply.awaits
    BY <1>1 DEF Undisturbed, Rooting
  <2>2. q \in Requests /\ IsSeq(seen) /\ RootSeen(seen, Db)
    BY <1>1, <2>1, RequestKnown DEF SeenOK
  <2>3. reply = GetRoot(q, seen)
    BY <2>1, <2>2, Handled
  <2>4. Answer = reply.answer
    BY DEF Answer
  <2> HIDE DEF q, seen, reply
  <2>5. \A t \in reply.answer.transfers : t.asset # Missing /\ t.transaction # Missing
    BY <2>1, <2>2, <2>3, RootAnswered
  <2> QED BY <2>4, <2>5
<1>2. HttpInv => TransfersResolved
  BY <1>1 DEF TransfersResolved
<1> QED BY <1>2, SpecKeeps, PTL

(***************************************************************************)
(* forgingEnable sets a key that was a delegate's when its account was     *)
(* read: it still is when the key is set, because no block unmakes one.    *)
(***************************************************************************)
THEOREM KeysAreOfDelegates ==
  ASSUME NeverBusy, SendersKnown
  PROVE  HttpSpec => KeysOfDelegates
<1>1. ASSUME HttpInv, [HttpNext]_<<vars, apiVars>>, request # Null, ~ request.removed,
             NEW a \in keyPairs' \ keyPairs
      PROVE  Db.account[a].isDelegate
  <2>1. Resume
    <3>1. ready
      BY <1>1 DEF HttpInv, ApiInv, NotReady
    <3> QED BY <1>1, <3>1 DEF HttpNext, Ask, InsertBlock, Task, RestartNode, Start, vars, apiVars
  <2> DEFINE q == request.query
             seen == request.seen
             reply == Handle(request)
  <2>2. Continue(request)
    BY <2>1 DEF Resume
  <2>3. ~ reply.awaits /\ "keyPairs" \in DOMAIN reply.answer /\ keyPairs' = reply.answer.keyPairs
    BY <1>1, <2>2 DEF Continue
  <2>4. q \in Requests /\ IsSeq(seen) /\ SeenOK(q, seen, Db, BlockRows, TransactionRows)
    BY <1>1, RequestKnown
  <2>5. Enabling(q)
    BY <1>1, <2>3, <2>4, KeysSet
  <2>6. reply = ForgingEnable(q, seen) /\ EnableSeen(q, seen, Db)
    BY <2>4, <2>5, Handled DEF SeenOK
  <2> HIDE DEF q, seen, reply
  <2>7. \A x \in reply.answer.keyPairs \ keyPairs : Db.account[x].isDelegate
    BY <2>3, <2>4, <2>6, EnableAnswered
  <2> QED BY <1>1, <2>3, <2>7
<1>2. HttpInv /\ [HttpNext]_<<vars, apiVars>>
        => [request # Null /\ ~ request.removed =>
              \A a \in keyPairs' \ keyPairs : Db.account[a].isDelegate]_<<vars, apiVars>>
  BY <1>1
<1> QED BY <1>2, SpecKeeps, PTL DEF HttpSpec, KeysOfDelegates

=============================================================================
