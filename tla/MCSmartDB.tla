----------------------------- MODULE MCSmartDB ------------------------------
(* Instances of SmartDB small enough for TLC *)
EXTENDS SmartDB, TLC

(* One account with a property of two values, and one vote *)
OneAccount == {"a"}
OneVote    == {"v"}
TwoValues  == {"p", "q"}

(* Statements of a commit that may fail *)
CommitFaults == {"insertBlock", "saveChanges", "rollback"}

(* Any insert of a commit may fail, and the reverting of the entities *)
InsertFaults == CommitFaults \cup {"insertHistory"}

(* The process stops between two tasks *)
BetweenTasks == {"idle"}

(* Ids are only compared with each other *)
BlockSymmetry == Permutations(BlockIds)

=============================================================================
