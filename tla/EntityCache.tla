---------------------------- MODULE EntityCache -----------------------------
(***************************************************************************)
(* The entities of one model in memory: LRUEntityCache with its indexes of *)
(* unique fields, and the session that reads and changes entities through  *)
(* it.  A change is made in the cache only, and in the table once a block  *)
(* is committed; in between, the cache alone knows it.                     *)
(*                                                                         *)
(* EntityTracker takes the cache for a function that forgets nothing but   *)
(* what it is told to; this module is how that function is kept.           *)
(***************************************************************************)
EXTENDS Integers, Sequences, FiniteSets

CONSTANTS
  Key,          \* primary keys
  Fields,       \* unique fields, in the order of their indexes
  Value,        \* values of unique fields
  Plain,        \* values of the other properties
  NoValue,      \* null, 0 or the empty string: not indexed
  Absent,       \* no entity
  None,         \* no key
  MaxCached     \* max of the LRU cache

CONSTANTS
  MaxPending,   \* bound: changes between two commits
  TouchLimit    \* bound: entities used between two commits

Field == {Fields[n] : n \in DOMAIN Fields}

Entity == [plain : Plain, unique : [Field -> Value \cup {NoValue}]]

ASSUME EntityCacheAssumption ==
  /\ Fields \in Seq(STRING) /\ \A i, j \in DOMAIN Fields : Fields[i] = Fields[j] => i = j
  /\ NoValue \notin Value
  /\ Absent \notin Entity
  /\ None \notin Key
  /\ MaxCached \in Nat \ {0}

VARIABLES
  table,      \* the rows of the model
  cache,      \* the entities in memory
  pending,    \* changesStack: the changes that are not in the table yet
  touched     \* history: the entities that were used since the last commit

vars == <<table, cache, pending, touched>>

-----------------------------------------------------------------------------
(* LRU cache: entities by key, the most recently used key first *)

EmptyCache ==
  [entity |-> [k \in Key |-> Absent],
   order  |-> <<>>,
   index  |-> [f \in Field |-> [v \in Value |-> None]]]

Has(c, k) == c.entity[k] # Absent

Position(order, k) == CHOOSE n \in DOMAIN order : order[n] = k

Without(order, k) ==
  IF \E n \in DOMAIN order : order[n] = k
  THEN [i \in 1 .. Len(order) - 1 |-> order[IF i < Position(order, k) THEN i ELSE i + 1]]
  ELSE order

(* get *)
Touch(c, k) == IF Has(c, k) THEN [c EXCEPT !.order = <<k>> \o Without(@, k)] ELSE c

(* Mutant: the entries of the indexes stay *)
AfterEvitNothing(index, entity) == index

(* afterEvit: what the indexes say of the values of the entity *)
AfterEvit(index, entity) ==
  [f \in Field |-> [v \in Value |-> IF v = entity.unique[f] THEN None ELSE index[f][v]]]

(* del, which calls dispose *)
Remove(c, k) ==
  [entity |-> [c.entity EXCEPT ![k] = Absent],
   order  |-> Without(c.order, k),
   index  |-> AfterEvit(c.index, c.entity[k])]

Evit(c, k) == IF Has(c, k) THEN Remove(c, k) ELSE c

(* Mutant: one more than the limit *)
TrimLate(c) == IF Len(c.order) > MaxCached + 1 THEN Remove(c, c.order[Len(c.order)]) ELSE c

Trim(c) == IF Len(c.order) > MaxCached THEN Remove(c, c.order[Len(c.order)]) ELSE c

Insert(c, k, entity) ==
  Trim([entity |-> [c.entity EXCEPT ![k] = entity],
        order  |-> <<k>> \o c.order,
        index  |-> c.index])

-----------------------------------------------------------------------------
(* UniquedCache *)

Indexed(entity, f) == entity.unique[f] # NoValue

Taken(c, entity, f) == Indexed(entity, f) /\ c.index[f][entity.unique[f]] # None

(* The indexes before the first that throws *)
Added(c, entity) ==
  {Fields[n] : n \in {m \in DOMAIN Fields : \A i \in 1 .. m : ~ Taken(c, entity, Fields[i])}}

AddIndexes(c, k, entity) ==
  [c EXCEPT !.index =
     [f \in Field |->
        [v \in Value |-> IF f \in Added(c, entity) /\ v = entity.unique[f] THEN k ELSE c.index[f][v]]]]

(* set: if an index throws, the entity is cached and the others lack it *)
Set(c, k, entity) ==
  LET inserted == Insert(Evit(c, k), k, entity)
  IN  AddIndexes(inserted, k, entity)

GetUnique(c, f, v) == c.index[f][v]

-----------------------------------------------------------------------------
(* LRUEntityCache.refreshCached *)

HasUniqueProperty(entity, modified) == entity.unique # modified.unique

(* Mutant: an index is not told of a new value *)
RefreshCachedInPlace(c, k, modified) ==
  IF Has(c, k) THEN [Touch(c, k) EXCEPT !.entity = [@ EXCEPT ![k] = modified]] ELSE c

RefreshCached(c, k, modified) ==
  IF ~ Has(c, k) THEN c
  ELSE IF HasUniqueProperty(c.entity[k], modified) THEN Set(Evit(c, k), k, modified)
  ELSE [Touch(c, k) EXCEPT !.entity = [@ EXCEPT ![k] = modified]]

-----------------------------------------------------------------------------
(* The session *)

Changes == [key : Key, original : Entity \cup {Absent}, current : Entity \cup {Absent}]

Change(k, original, current) == [key |-> k, original |-> original, current |-> current]

(* The table with the pending changes *)
Overlay ==
  [k \in Key |->
     LET mine == {n \in DOMAIN pending : pending[n].key = k}
     IN  IF mine = {} THEN table[k]
         ELSE pending[CHOOSE n \in mine : \A m \in mine : m <= n].current]

RowWith(rows, f, v) == {k \in Key : rows[k] # Absent /\ rows[k].unique[f] = v}

(* The entity a contract gets by a unique field: of the cache, or of the table *)
Find(f, v) == IF GetUnique(cache, f, v) # None THEN {GetUnique(cache, f, v)} ELSE RowWith(table, f, v)

(* Bound: how many entities are used between two commits *)
MayTouch(k) == Cardinality(touched \cup {k}) <= TouchLimit

(***************************************************************************)
(* ensureEntityTracking finds an entity.  One whose deletion is pending is *)
(* not looked for: the contracts delete votes only, which they never load. *)
(***************************************************************************)
Known(k) == Has(cache, k) \/ (table[k] # Absent /\ Overlay[k] # Absent)

Tracked(k) == IF Has(cache, k) THEN Touch(cache, k) ELSE Set(cache, k, table[k])

(* load *)
Load(k) ==
  /\ MayTouch(k) /\ Known(k)
  /\ cache' = Tracked(k)
  /\ touched' = touched \cup {k}
  /\ UNCHANGED <<table, pending>>

LoadUnique(f, v) == \E k \in Find(f, v) : Load(k)

(* No entity has the unique values of this one: what the contracts check *)
IsFree(entity, k) == \A f \in Field : Indexed(entity, f) => Find(f, entity.unique[f]) \subseteq {k}

(* create, trackNew; the unique fields of a new entity are checked before *)
Create(k, entity) ==
  /\ MayTouch(k) /\ Len(pending) < MaxPending
  /\ ~ Known(k) /\ IsFree(entity, k)
  /\ cache' = Set(cache, k, entity)
  /\ pending' = Append(pending, Change(k, Absent, entity))
  /\ touched' = touched \cup {k}
  /\ UNCHANGED table

(* A field that is set once: a user name *)
SetOnce(entity, modified) ==
  \A f \in Field : modified.unique[f] = entity.unique[f] \/ ~ Indexed(entity, f)

(* update and increase: ensureEntityTracking, trackModify *)
Update(k, modified) ==
  LET tracked == Tracked(k)
  IN  /\ MayTouch(k) /\ Len(pending) < MaxPending
      /\ Known(k)
      /\ modified # tracked.entity[k]
      /\ SetOnce(tracked.entity[k], modified) /\ IsFree(modified, k)
      /\ cache' = RefreshCached(tracked, k, modified)
      /\ pending' = Append(pending, Change(k, tracked.entity[k], modified))
      /\ touched' = touched \cup {k}
      /\ UNCHANGED table

(* delete: ensureEntityTracking, trackDelete *)
Delete(k) ==
  /\ MayTouch(k) /\ Len(pending) < MaxPending
  /\ Known(k)
  /\ cache' = Evit(Tracked(k), k)
  /\ pending' = Append(pending, Change(k, Tracked(k).entity[k], Absent))
  /\ touched' = touched \cup {k}
  /\ UNCHANGED table

(* saveChanges and acceptChanges *)
Commit ==
  /\ table' = Overlay
  /\ pending' = <<>>
  /\ touched' = {}
  /\ UNCHANGED cache

(* undoEntityChanges, of the last change *)
Undone(c, change) ==
  IF change.original = Absent THEN Evit(c, change.key)
  ELSE IF change.current = Absent THEN Set(c, change.key, change.original)
  ELSE RefreshCached(c, change.key, change.original)

(* A step of undoChanges *)
Undo ==
  /\ pending # <<>>
  /\ cache' = Undone(cache, pending[Len(pending)])
  /\ pending' = SubSeq(pending, 1, Len(pending) - 1)
  /\ UNCHANGED <<table, touched>>

(* clear, when a model is reset or the process starts *)
Clear ==
  /\ pending = <<>>
  /\ cache' = EmptyCache
  /\ touched' = {}
  /\ UNCHANGED <<table, pending>>

Init ==
  /\ table = [k \in Key |-> Absent]
  /\ cache = EmptyCache
  /\ pending = <<>>
  /\ touched = {}

Next ==
  \/ \E k \in Key : Load(k) \/ Delete(k)
  \/ \E f \in Field, v \in Value : LoadUnique(f, v)
  \/ \E k \in Key, entity \in Entity : Create(k, entity) \/ Update(k, entity)
  \/ Commit
  \/ Undo
  \/ Clear

Spec == Init /\ [][Next]_vars

-----------------------------------------------------------------------------
(* What is checked *)

Cache ==
  [entity : [Key -> Entity \cup {Absent}],
   order  : Seq(Key),
   index  : [Field -> [Value -> Key \cup {None}]]]

(* Each cached key is in the order once, and there are not too many. *)
OrderOK(c) ==
  /\ Len(c.order) <= MaxCached
  /\ \A k \in Key : Has(c, k) <=> \E n \in DOMAIN c.order : c.order[n] = k
  /\ \A m, n \in DOMAIN c.order : c.order[m] = c.order[n] => m = n

(* The shape of the state: the cache keeps to its limit, and no key twice. *)
TypeOK ==
  /\ table \in [Key -> Entity \cup {Absent}]
  /\ cache \in Cache /\ OrderOK(cache)
  /\ pending \in Seq(Changes)

Sound(c) ==
  \A f \in Field, v \in Value :
    c.index[f][v] # None =>
      Has(c, c.index[f][v]) /\ c.entity[c.index[f][v]].unique[f] = v

(***************************************************************************)
(* What an index says is cached and has that value, after any sequence of  *)
(* sets, evictions at the limit, undone changes and sets that threw.       *)
(***************************************************************************)
IndexSound == Sound(cache)

(***************************************************************************)
(* Whatever the cache has dropped, a contract finds an entity, by its key  *)
(* and by a unique field, as the pending changes left it; as long as the   *)
(* entities used since the last commit fit into the cache.                 *)
(***************************************************************************)
PendingVisible ==
  /\ \A k \in Key : Known(k) => Tracked(k).entity[k] = Overlay[k]
  /\ \A k \in Key : Known(k) <=> Overlay[k] # Absent
  /\ \A f \in Field, v \in Value :
       \A k \in RowWith(Overlay, f, v) : Find(f, v) = {k}

(* A value of a unique field is found for one entity: the commit does not fail on it. *)
UniqueValues ==
  \A f \in Field, v \in Value : Cardinality(RowWith(Overlay, f, v)) <= 1

=============================================================================
