--------------------------- MODULE VersionedStore ---------------------------
(***************************************************************************)
(* What contracts and blocks may rely on: a store of values by key, where  *)
(* a block keeps the store as it is for good, a contract is kept or undone *)
(* as a whole, and a rollback brings back the store of an earlier block,   *)
(* with nothing of what came after it.                                     *)
(***************************************************************************)
EXTENDS Integers, Sequences

CONSTANTS
  Key,
  None    \* no value, no contract

VARIABLES
  versions,  \* the store as it was kept by each block, from the first
  store,     \* the store contracts read and write
  before     \* the store before the running contract

vars == <<versions, store, before>>

Empty == [k \in Key |-> None]

VersionOf(n) == IF n = 0 THEN Empty ELSE versions[n]

Init ==
  /\ versions = <<>>
  /\ store = Empty
  /\ before = None

Set(k, value) ==
  /\ store' = [store EXCEPT ![k] = value]
  /\ UNCHANGED <<versions, before>>

BeginContract ==
  /\ before = None
  /\ before' = store
  /\ UNCHANGED <<versions, store>>

KeepContract ==
  /\ before # None
  /\ before' = None
  /\ UNCHANGED <<versions, store>>

UndoContract ==
  /\ before # None
  /\ store' = before
  /\ before' = None
  /\ UNCHANGED versions

KeepBlock ==
  /\ before = None
  /\ versions' = Append(versions, store)
  /\ UNCHANGED <<store, before>>

Rollback(n) ==
  /\ versions' = SubSeq(versions, 1, n)
  /\ store' = VersionOf(n)
  /\ before' = None

Next ==
  \/ \E k \in Key : Set(k, store'[k])
  \/ BeginContract
  \/ KeepContract
  \/ UndoContract
  \/ KeepBlock
  \/ \E n \in 0 .. Len(versions) : Rollback(n)

Spec == Init /\ [][Next]_vars

=============================================================================
