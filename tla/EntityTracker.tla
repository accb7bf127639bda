--------------------------- MODULE EntityTracker ----------------------------
(***************************************************************************)
(* BasicEntityTracker with the entity cache it writes through: the changes *)
(* of entities that are not saved yet, and the history of those that are,  *)
(* by the height of the block that saved them.                             *)
(*                                                                         *)
(* An entity is its properties, one value here, and _version_.  A change   *)
(* keeps the entity before and after it; it creates the entity if there is *)
(* none before, deletes it if there is none after.  A tracker is a record, *)
(* and each operator returns the tracker after the method it is named for. *)
(***************************************************************************)
EXTENDS Heights, SequencesExt

CONSTANTS
  Absent,       \* no entity: not cached, not in the table
  HistoryHold   \* maxHistoryVersionsHold

Entity(val, version) == [val |-> val, _version_ |-> version]

Change(key, original, current) ==
  [key |-> key, original |-> original, current |-> current]

IsNew(change)    == change.original = Absent
IsDelete(change) == change.current = Absent

-----------------------------------------------------------------------------
(* What a tracker records *)

PushChange(t, change) ==
  IF t.confirming
  THEN [t EXCEPT !.unconfirmed = Append(@, change)]
  ELSE [t EXCEPT !.confirmed = Append(@, change)]

IsTracking(t, key) == t.cache[key] # Absent

TrackNew(t, key, val) ==
  LET entity == Entity(val, 1)
  IN  PushChange([t EXCEPT !.cache[key] = entity], Change(key, Absent, entity))

TrackPersistent(t, key, entity) == [t EXCEPT !.cache[key] = entity]

(* Mutant: counts the version of the entity, but does not keep it *)
TrackModifySameVersion(t, key, val) ==
  LET entity == t.cache[key]
  IN  IF entity.val = val
      THEN t
      ELSE PushChange([t EXCEPT !.cache[key].val = val],
                      Change(key, entity, Entity(val, entity._version_ + 1)))

TrackModify(t, key, val) ==
  LET old == t.cache[key]
      new == Entity(val, old._version_ + 1)
  IN  IF old.val = val
      THEN t
      ELSE PushChange([t EXCEPT !.cache[key] = new], Change(key, old, new))

TrackDelete(t, key) ==
  PushChange([t EXCEPT !.cache[key] = Absent], Change(key, t.cache[key], Absent))

-----------------------------------------------------------------------------
(* Undoing changes, the last one first *)

(***************************************************************************)
(* A deleted entity is tracked again, which throws if it is tracked.  A    *)
(* modified one is set back if it is still cached.  The changes are popped *)
(* one by one, left of them remain when an undo throws.                    *)
(***************************************************************************)
UndoEntityChange(change, u) ==
  LET key    == change.key
      throws == IsDelete(change) /\ u.cache[key] # Absent
  IN  IF u.throws
      THEN u
      ELSE [cache  |-> IF \/ throws
                          \/ ~ IsDelete(change) /\ u.cache[key] = Absent
                       THEN u.cache
                       ELSE [u.cache EXCEPT ![key] = change.original],
            left   |-> u.left - 1,
            throws |-> throws]

UndoChanges(cache, changes) ==
  FoldRight(UndoEntityChange, changes,
            [cache |-> cache, left |-> Len(changes), throws |-> FALSE])

Keep(changes, left) == SubSeq(changes, 1, left)

(* Mutant: the changes are dropped, the cache is left as it is *)
CancelConfirmDrops(t) == [t EXCEPT !.unconfirmed = <<>>, !.confirming = FALSE,
                                   !.threw = FALSE]

CancelConfirm(t) ==
  LET u == UndoChanges(t.cache, t.unconfirmed)
  IN  [t EXCEPT !.cache       = u.cache,
                !.unconfirmed = Keep(@, u.left),
                !.confirming  = @ /\ u.throws,
                !.threw       = u.throws]

RejectChanges(t) ==
  LET c == CancelConfirm(t)
      u == UndoChanges(c.cache, c.confirmed)
  IN  IF c.threw
      THEN c
      ELSE [c EXCEPT !.cache     = u.cache,
                     !.confirmed = Keep(@, u.left),
                     !.threw     = u.throws]

-----------------------------------------------------------------------------
(* Contracts *)

(* Unconfirmed changes that are left are dropped with a warning *)
BeginConfirm(t) == [t EXCEPT !.confirming = TRUE, !.unconfirmed = <<>>]

(* Mutant: the changes of the contract are confirmed, and kept as its own *)
ConfirmKeeps(t) == [t EXCEPT !.confirmed  = @ \o t.unconfirmed,
                             !.confirming = FALSE]

Confirm(t) == [t EXCEPT !.confirmed   = @ \o t.unconfirmed,
                        !.unconfirmed = <<>>,
                        !.confirming  = FALSE]

-----------------------------------------------------------------------------
(* The history; the rows of the BlockHistory table are a function as well *)

NoHistory == [h \in {} |-> <<>>]

NewTracker(cache) ==
  [cache |-> cache, confirming |-> FALSE, unconfirmed |-> <<>>, confirmed |-> <<>>,
   history |-> NoHistory, minVersion |-> -1, currentVersion |-> -1, threw |-> FALSE]

RowsBetween(rows, from, to) == RestrictDomain(rows, LAMBDA h : from <= h /\ h <= to)

AttachHistory(t, rows) ==
  LET heights == DOMAIN rows
      min     == IF t.minVersion < 0 THEN heights ELSE heights \cup {t.minVersion}
  IN  IF heights = {}
      THEN t
      ELSE [t EXCEPT !.history        = WithRows(@, rows),
                     !.minVersion     = Min(min),
                     !.currentVersion = Max(heights \cup {@})]

InitVersion(t, version, rows) ==
  IF t.currentVersion = -1
  THEN AttachHistory(t, RowsBetween(rows, version, version))
  ELSE t

LoadHistoryUntil(t, height, rows) ==
  IF height < t.minVersion
  THEN AttachHistory(t, RowsBetween(rows, height, t.minVersion))
  ELSE t

(* Heights without an entry are skipped *)
GetChangesUntil(t, height) ==
  FlattenSeq([i \in 1 .. Max({0, t.currentVersion + 1 - height}) |->
                LET h == height + i - 1
                IN  IF h \in DOMAIN t.history THEN t.history[h] ELSE <<>>])

RemoveExpiredHistory(t) ==
  LET height == t.currentVersion - HistoryHold
  IN  IF height > t.minVersion
      THEN [t EXCEPT !.history    = RestrictDomain(@, LAMBDA h : h \notin t.minVersion .. height - 1),
                     !.minVersion = height]
      ELSE t

AcceptChanges(t, height) ==
  LET saved == RemoveExpiredHistory([t EXCEPT !.history   = WithRow(@, height, t.confirmed),
                                              !.confirmed = <<>>])
  IN  [saved EXCEPT !.minVersion     = IF @ = -1 THEN height ELSE @,
                    !.currentVersion = height]

(***************************************************************************)
(* The guard leaves one version to undo at most: the current one, when it  *)
(* is toBlockHeight.  Without an entry for it in the history this throws.  *)
(***************************************************************************)
RollbackChanges(t, toBlockHeight, rows) ==
  LET l       == LoadHistoryUntil(t, toBlockHeight, rows)
      version == l.currentVersion
      u       == UndoChanges(l.cache, l.history[version])
      undone  == [l EXCEPT !.cache            = u.cache,
                           !.history[version] = Keep(@, u.left),
                           !.currentVersion   = IF u.throws THEN @ ELSE @ - 1,
                           !.threw            = u.throws]
      lower(r) == [r EXCEPT !.minVersion = Min({@, r.currentVersion})]
  IN  CASE toBlockHeight < t.currentVersion -> t
        [] toBlockHeight > version -> lower(l)
        [] toBlockHeight = version /\ version \notin DOMAIN l.history -> [l EXCEPT !.threw = TRUE]
        [] OTHER -> IF undone.threw THEN undone ELSE lower(undone)

=============================================================================
