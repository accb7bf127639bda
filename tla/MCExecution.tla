---------------------------- MODULE MCExecution -----------------------------
(* Instances of Execution small enough for TLC *)
EXTENDS Execution

Trs(id, type, senderId) ==
  [id |-> id, type |-> type, senderId |-> senderId, fee |-> 1, secondSignature |-> FALSE]

Address(a) == [isAddress |-> TRUE, value |-> a]
Name(n)    == [isAddress |-> FALSE, value |-> n]

TransferTo(id, from, recipient, amount) ==
  Trs(id, "transfer", from) @@ [recipient |-> recipient, amount |-> amount]

NameOf(id, a, name) == Trs(id, "setUserName", a) @@ [username |-> name]

(***************************************************************************)
(* g pays two accounts, which take names and become delegates; one uploads *)
(* data.                                                                   *)
(***************************************************************************)
Genesis ==
  [pay1  |-> TransferTo("pay1", "g", Address("a1"), 100),
   pay2  |-> TransferTo("pay2", "g", Address("a2"), 100),
   name1 |-> NameOf("name1", "a1", "d1"),
   name2 |-> NameOf("name2", "a2", "d2"),
   reg1  |-> Trs("reg1", "registerDelegate", "a1"),
   reg2  |-> Trs("reg2", "registerDelegate", "a2"),
   data  |-> Trs("data", "uploadData", "a2") @@ [row |-> 1]]

InGenesis == <<"pay1", "pay2", "name1", "name2", "reg1", "reg2", "data">>

(***************************************************************************)
(* A payment to a name, which leaves too little for some of the rest, and  *)
(* a second passphrase, which makes transactions without a second          *)
(* signature invalid.                                                      *)
(***************************************************************************)
Payments ==
  [pay3   |-> TransferTo("pay3", "a1", Name("d2"), 49),
   second |-> Trs("second", "setSecondPassphrase", "a1")]

(***************************************************************************)
(* Coins are locked, voted with, added to and unlocked; assets are issued  *)
(* and given away.                                                         *)
(***************************************************************************)
Savings ==
  [lock1  |-> Trs("lock1", "lock", "a1") @@ [amount |-> 20, height |-> 2],
   vote1  |-> Trs("vote1", "vote", "a1") @@ [delegates |-> <<"d2">>],
   lock2  |-> Trs("lock2", "lock", "a1") @@ [amount |-> 10, height |-> 4],
   lock3  |-> Trs("lock3", "lock", "a1") @@ [amount |-> 30, height |-> 2],
   unvote |-> Trs("unvote", "unvote", "a1") @@ [delegates |-> <<"d2">>],
   free   |-> Trs("free", "unlock", "a1"),
   issuer |-> Trs("issuer", "registerIssuer", "a2") @@ [name |-> "i"],
   asset  |-> Trs("asset", "registerAsset", "a2") @@ [symbol |-> "C", maximum |-> 5],
   issue1 |-> Trs("issue1", "issue", "a2") @@ [currency |-> <<"i", "C">>, amount |-> 3],
   give   |-> Trs("give", "transferAsset", "a2")
                @@ [currency |-> <<"i", "C">>, amount |-> 1, recipient |-> Name("d1")]]

AllContent == Genesis @@ Payments @@ Savings
AllIds     == DOMAIN AllContent

SavingIds == {"pay3", "second", "lock1", "vote1", "lock2", "lock3", "unvote", "free"}

Fees == [type \in {AllContent[id].type : id \in AllIds} |-> IF type = "unlock" THEN 0 ELSE 1]

(* Amounts a Number does not hold: among them that of pay3 and of lock3 *)
Rounded == 30 :> 28 @@ 49 :> 48

KeyRank == [d1 |-> 1, d2 |-> 2]

TwoMilestones == <<3, 1>>

=============================================================================
