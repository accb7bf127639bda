---------------------------- MODULE MCTaskQueue -----------------------------
(* A task that changes the state, a transaction, and both kinds of sync.   *)
EXTENDS TaskQueue

MCTasks == {"propose", "transaction", "startSync", "peerSync"}
MCKind  == [t \in MCTasks |-> t]
=============================================================================
