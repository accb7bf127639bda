------------------------- MODULE EntityCacheProofs --------------------------
(***************************************************************************)
(* The entity cache, for any number of entities, unique fields and values  *)
(* and any limit: its order, its entities and its indexes keep together    *)
(* under every operation, so that an index never answers an entity that    *)
(* was dropped or that has another value by now.                           *)
(***************************************************************************)
EXTENDS EntityCache, WellFoundedInduction, SequenceTheorems, FiniteSetTheorems, TLAPS

USE EntityCacheAssumption

Distinct(s) == \A m, n \in 1 .. Len(s) : s[m] = s[n] => m = n

Holds(s, k) == \E n \in 1 .. Len(s) : s[n] = k

(* What every operation keeps, also while one entity too many is cached *)
Consistent(c) ==
  /\ c \in Cache
  /\ \A k \in Key : Has(c, k) <=> Holds(c.order, k)
  /\ Distinct(c.order)
  /\ Sound(c)

CacheOK(c) == Consistent(c) /\ Len(c.order) <= MaxCached

IInv ==
  /\ table \in [Key -> Entity \cup {Absent}]
  /\ pending \in Seq(Changes)
  /\ CacheOK(cache)

-----------------------------------------------------------------------------
(* The order of the cache *)

(* A key is taken out *)
LEMMA WithoutOf ==
  ASSUME NEW s \in Seq(Key), Distinct(s), NEW k \in Key
  PROVE  /\ Without(s, k) \in Seq(Key) /\ Distinct(Without(s, k))
         /\ \A j \in Key : Holds(Without(s, k), j) <=> Holds(s, j) /\ j # k
         /\ Holds(s, k) => Len(Without(s, k)) = Len(s) - 1
<1>1. DOMAIN s = 1 .. Len(s) /\ Len(s) \in Nat /\ \A n \in 1 .. Len(s) : s[n] \in Key
  OBVIOUS
<1>2. CASE ~ Holds(s, k)
  <2>1. Without(s, k) = s
    BY <1>1, <1>2 DEF Without, Holds
  <2> QED
    BY <1>2, <2>1 DEF Holds
<1>3. CASE Holds(s, k)
  <2> DEFINE p == Position(s, k)
             w == Without(s, k)
  <2>1. p \in 1 .. Len(s) /\ s[p] = k
    BY <1>1, <1>3 DEF Position, Holds
  <2>2. w = [i \in 1 .. Len(s) - 1 |-> s[IF i < p THEN i ELSE i + 1]]
    BY <1>1, <1>3 DEF Without, Holds
  <2> HIDE DEF p, w
  <2>3. \A i \in 1 .. Len(s) - 1 : (IF i < p THEN i ELSE i + 1) \in 1 .. Len(s)
    BY <1>1, <2>1
  <2>4. w \in Seq(Key) /\ Len(w) = Len(s) - 1
    <3>1. Len(s) - 1 \in Nat /\ \A i \in 1 .. Len(s) - 1 : w[i] \in Key
      BY <1>1, <2>1, <2>2, <2>3
    <3> QED
      BY <2>2, <3>1
  <2>5. \A i \in 1 .. Len(w) : w[i] = s[IF i < p THEN i ELSE i + 1]
    BY <2>2, <2>4
  <2>6. ASSUME NEW i \in 1 .. Len(w), NEW j \in 1 .. Len(w), w[i] = w[j]
        PROVE  i = j
    <3>1. (IF i < p THEN i ELSE i + 1) = (IF j < p THEN j ELSE j + 1)
      BY <2>3, <2>4, <2>5, <2>6 DEF Distinct
    <3> QED
      BY <1>1, <2>1, <3>1
  <2>7. ASSUME NEW j \in Key, Holds(w, j)
        PROVE  Holds(s, j) /\ j # k
    <3>1. PICK i \in 1 .. Len(w) : w[i] = j
      BY <2>7 DEF Holds
    <3> DEFINE q == IF i < p THEN i ELSE i + 1
    <3>2. q \in 1 .. Len(s) /\ q # p /\ s[q] = j
      BY <1>1, <2>1, <2>3, <2>4, <2>5, <3>1
    <3> QED
      BY <2>1, <3>2 DEF Distinct, Holds
  <2>8. ASSUME NEW j \in Key, Holds(s, j), j # k
        PROVE  Holds(w, j)
    <3>1. PICK q \in 1 .. Len(s) : s[q] = j
      BY <2>8 DEF Holds
    <3>2. q # p
      BY <2>1, <2>8, <3>1
    <3> DEFINE i == IF q < p THEN q ELSE q - 1
    <3>3. i \in 1 .. Len(w) /\ (IF i < p THEN i ELSE i + 1) = q
      BY <1>1, <2>1, <2>4, <3>2
    <3>4. w[i] = j
      BY <2>5, <3>1, <3>3
    <3> QED
      BY <3>3, <3>4 DEF Holds
  <2> QED
    BY <1>3, <2>4, <2>6, <2>7, <2>8 DEF w, Distinct
<1> QED
  BY <1>2, <1>3

(* A key is put in front *)
LEMMA Prepended ==
  ASSUME NEW s \in Seq(Key), Distinct(s), NEW k \in Key, ~ Holds(s, k)
  PROVE  /\ <<k>> \o s \in Seq(Key) /\ Distinct(<<k>> \o s)
         /\ Len(<<k>> \o s) = Len(s) + 1
         /\ \A j \in Key : Holds(<<k>> \o s, j) <=> Holds(s, j) \/ j = k
<1> DEFINE r == <<k>> \o s
<1>1. /\ r \in Seq(Key) /\ Len(r) = Len(s) + 1 /\ Len(s) \in Nat
      /\ r[1] = k /\ \A i \in 2 .. Len(r) : r[i] = s[i - 1] /\ i - 1 \in 1 .. Len(s)
  OBVIOUS
<1> HIDE DEF r
<1>2. ASSUME NEW i \in 1 .. Len(r), NEW j \in 1 .. Len(r), r[i] = r[j]
      PROVE  i = j
  <2>1. \A n \in 2 .. Len(r) : r[n] # k
    BY <1>1 DEF Holds
  <2>2. CASE i = 1
    <3>1. j \notin 2 .. Len(r)
      BY <1>1, <1>2, <2>1, <2>2
    <3> QED
      BY <1>1, <2>2, <3>1
  <2>3. CASE j = 1
    <3>1. i \notin 2 .. Len(r)
      BY <1>1, <1>2, <2>1, <2>3
    <3> QED
      BY <1>1, <2>3, <3>1
  <2>4. CASE i # 1 /\ j # 1
    <3>1. i \in 2 .. Len(r) /\ j \in 2 .. Len(r)
      BY <1>1, <2>4
    <3>2. /\ i - 1 \in 1 .. Len(s) /\ j - 1 \in 1 .. Len(s)
          /\ s[i - 1] = s[j - 1]
      BY <1>1, <1>2, <3>1
    <3>3. i - 1 = j - 1
      BY <3>2 DEF Distinct
    <3> QED
      BY <3>3
  <2> QED
    BY <2>2, <2>3, <2>4
<1>3. ASSUME NEW j \in Key, Holds(r, j) PROVE Holds(s, j) \/ j = k
  BY <1>1, <1>3 DEF Holds
<1>4. ASSUME NEW j \in Key, Holds(s, j) PROVE Holds(r, j)
  <2>1. PICK n \in 1 .. Len(s) : s[n] = j
    BY <1>4 DEF Holds
  <2>2. n + 1 \in 1 .. Len(r) /\ r[n + 1] = j
    BY <1>1, <2>1
  <2> QED
    BY <2>2 DEF Holds
<1>5. Holds(r, k)
  BY <1>1 DEF Holds
<1> QED
  BY <1>1, <1>2, <1>3, <1>4, <1>5 DEF r, Distinct

-----------------------------------------------------------------------------
(* The cache *)

LEMMA CacheParts ==
  ASSUME NEW c \in Cache
  PROVE  /\ c.entity \in [Key -> Entity \cup {Absent}]
         /\ c.order \in Seq(Key) /\ Len(c.order) \in Nat
         /\ c.index \in [Field -> [Value -> Key \cup {None}]]
         /\ c = [entity |-> c.entity, order |-> c.order, index |-> c.index]
BY DEF Cache

LEMMA EntityParts ==
  ASSUME NEW entity \in Entity
  PROVE  entity # Absent /\ \A f \in Field : entity.unique[f] \in Value \cup {NoValue}
BY DEF Entity

LEMMA EmptyCacheOK == CacheOK(EmptyCache)
<1>1. EmptyCache \in Cache
  BY DEF EmptyCache, Cache
<1>2. /\ Len(EmptyCache.order) = 0 /\ EmptyCache.order = <<>>
      /\ \A k \in Key : ~ Has(EmptyCache, k)
      /\ \A f \in Field, v \in Value : EmptyCache.index[f][v] = None
  BY DEF EmptyCache, Has
<1> QED
  BY <1>1, <1>2 DEF CacheOK, Consistent, Distinct, Holds, Sound

(* dispose takes a key out of everything *)
LEMMA RemoveKeeps ==
  ASSUME NEW c, Consistent(c), NEW k \in Key, Has(c, k)
  PROVE  /\ Consistent(Remove(c, k)) /\ ~ Has(Remove(c, k), k)
         /\ Len(Remove(c, k).order) = Len(c.order) - 1
         /\ \A j \in Key : j # k => Remove(c, k).entity[j] = c.entity[j]
<1> DEFINE d == Remove(c, k)
<1>1. /\ c.entity \in [Key -> Entity \cup {Absent}] /\ c.order \in Seq(Key)
      /\ c.index \in [Field -> [Value -> Key \cup {None}]]
      /\ Distinct(c.order) /\ Sound(c) /\ Holds(c.order, k)
      /\ \A j \in Key : Has(c, j) <=> Holds(c.order, j)
  BY CacheParts DEF Consistent
<1>2. /\ d.entity = [c.entity EXCEPT ![k] = Absent]
      /\ d.order = Without(c.order, k)
      /\ d.index = AfterEvit(c.index, c.entity[k])
      /\ d = [entity |-> d.entity, order |-> d.order, index |-> d.index]
  BY DEF Remove
<1> HIDE DEF d
<1>3. /\ d.order \in Seq(Key) /\ Distinct(d.order) /\ Len(d.order) = Len(c.order) - 1
      /\ \A j \in Key : Holds(d.order, j) <=> Holds(c.order, j) /\ j # k
  <2> DEFINE s == c.order
  <2>1. s \in Seq(Key) /\ Distinct(s) /\ Holds(s, k)
    BY <1>1
  <2> HIDE DEF s
  <2>2. /\ Without(s, k) \in Seq(Key) /\ Distinct(Without(s, k))
        /\ Len(Without(s, k)) = Len(s) - 1
        /\ \A j \in Key : Holds(Without(s, k), j) <=> Holds(s, j) /\ j # k
    BY <2>1, WithoutOf
  <2> QED
    BY <1>2, <2>2 DEF s
<1>4. /\ d.entity \in [Key -> Entity \cup {Absent}] /\ d.entity[k] = Absent
      /\ \A j \in Key : j # k => d.entity[j] = c.entity[j]
  BY <1>1, <1>2
<1>5. /\ d.index \in [Field -> [Value -> Key \cup {None}]]
      /\ \A f \in Field, v \in Value :
           d.index[f][v] = IF v = c.entity[k].unique[f] THEN None ELSE c.index[f][v]
  BY <1>1, <1>2 DEF AfterEvit
<1>6. d \in Cache
  BY <1>2, <1>3, <1>4, <1>5 DEF Cache
<1>7. \A j \in Key : Has(d, j) <=> Holds(d.order, j)
  BY <1>1, <1>3, <1>4 DEF Has
<1>8. ASSUME NEW f \in Field, NEW v \in Value, d.index[f][v] # None
      PROVE  Has(d, d.index[f][v]) /\ d.entity[d.index[f][v]].unique[f] = v
  <2>1. d.index[f][v] = c.index[f][v] /\ v # c.entity[k].unique[f]
    BY <1>5, <1>8
  <2>2. /\ c.index[f][v] \in Key /\ Has(c, c.index[f][v])
        /\ c.entity[c.index[f][v]].unique[f] = v
    BY <1>1, <1>8, <2>1 DEF Sound
  <2> QED
    BY <1>4, <2>1, <2>2 DEF Has
<1> QED
  BY <1>3, <1>4, <1>6, <1>7, <1>8 DEF d, Consistent, Sound, Has

LEMMA EvitKeeps ==
  ASSUME NEW c, CacheOK(c), NEW k \in Key
  PROVE  CacheOK(Evit(c, k)) /\ ~ Has(Evit(c, k), k)
<1>1. CASE Has(c, k)
  <2>1. Len(c.order) \in Nat
    BY CacheParts DEF CacheOK, Consistent
  <2> QED
    BY <1>1, <2>1, RemoveKeeps DEF CacheOK, Evit
<1>2. CASE ~ Has(c, k)
  BY <1>2 DEF Evit
<1> QED
  BY <1>1, <1>2

(* Insert before the limit is applied *)
Inserted(c, k, entity) ==
  [entity |-> [c.entity EXCEPT ![k] = entity],
   order  |-> <<k>> \o c.order,
   index  |-> c.index]

LEMMA InsertedKeeps ==
  ASSUME NEW c, CacheOK(c), NEW k \in Key, ~ Has(c, k), NEW entity \in Entity,
         NEW d, d = Inserted(c, k, entity)
  PROVE  /\ Consistent(d) /\ Len(d.order) = Len(c.order) + 1
         /\ d.order[1] = k /\ d.index = c.index
         /\ d.entity[k] = entity /\ \A j \in Key : j # k => d.entity[j] = c.entity[j]
<1>1. /\ c \in Cache
      /\ c.entity \in [Key -> Entity \cup {Absent}] /\ c.order \in Seq(Key)
      /\ c.index \in [Field -> [Value -> Key \cup {None}]]
      /\ Distinct(c.order) /\ Sound(c) /\ ~ Holds(c.order, k)
      /\ Len(c.order) \in Nat /\ Len(c.order) <= MaxCached
      /\ \A j \in Key : Has(c, j) <=> Holds(c.order, j)
      /\ c = [entity |-> c.entity, order |-> c.order, index |-> c.index]
  BY CacheParts DEF Consistent, CacheOK
<1>2. /\ d.entity = [c.entity EXCEPT ![k] = entity]
      /\ d.order = <<k>> \o c.order
      /\ d.index = c.index
      /\ d = [entity |-> d.entity, order |-> d.order, index |-> d.index]
  BY <1>1 DEF Inserted
<1>3. /\ d.order \in Seq(Key) /\ Distinct(d.order) /\ Len(d.order) = Len(c.order) + 1
      /\ \A j \in Key : Holds(d.order, j) <=> Holds(c.order, j) \/ j = k
  BY <1>1, <1>2, Prepended
<1>4. /\ d.entity \in [Key -> Entity \cup {Absent}] /\ d.entity[k] = entity
      /\ \A j \in Key : j # k => d.entity[j] = c.entity[j]
  BY <1>1, <1>2
<1>5. d \in Cache
  BY <1>1, <1>2, <1>3, <1>4 DEF Cache
<1>6. \A j \in Key : Has(d, j) <=> Holds(d.order, j)
  BY <1>1, <1>3, <1>4, EntityParts DEF Has
<1>7. ASSUME NEW f \in Field, NEW v \in Value, d.index[f][v] # None
      PROVE  Has(d, d.index[f][v]) /\ d.entity[d.index[f][v]].unique[f] = v
  <2>1. /\ d.index[f][v] = c.index[f][v] /\ c.index[f][v] \in Key
        /\ Has(c, c.index[f][v]) /\ c.entity[c.index[f][v]].unique[f] = v
    BY <1>1, <1>2, <1>7 DEF Sound
  <2>2. c.index[f][v] # k
    BY <2>1
  <2> QED
    BY <1>4, <2>1, <2>2 DEF Has
<1>8. Consistent(d)
  BY <1>3, <1>5, <1>6, <1>7 DEF Consistent, Sound
<1>9. d.order[1] = k
  <2> DEFINE s == c.order
  <2>1. s \in Seq(Key) /\ d.order = <<k>> \o s
    BY <1>1, <1>2
  <2> HIDE DEF s
  <2> QED
    BY <2>1
<1> QED
  BY <1>2, <1>3, <1>4, <1>8, <1>9

(* The limit drops another entity than the one that came *)
LEMMA InsertKeeps ==
  ASSUME NEW c, CacheOK(c), NEW k \in Key, ~ Has(c, k), NEW entity \in Entity
  PROVE  CacheOK(Insert(c, k, entity)) /\ Insert(c, k, entity).entity[k] = entity
<1> DEFINE full == Inserted(c, k, entity)
<1>0. full = Inserted(c, k, entity)
  OBVIOUS
<1> HIDE DEF full
<1>1. /\ Consistent(full) /\ Len(full.order) = Len(c.order) + 1
      /\ full.order[1] = k /\ full.entity[k] = entity
  BY <1>0, InsertedKeeps
<1>2. Insert(c, k, entity) = Trim(full)
  BY <1>0 DEF Insert, Inserted
<1>3. /\ Len(c.order) \in Nat /\ Len(c.order) <= MaxCached
      /\ Distinct(full.order) /\ \A j \in Key : Has(full, j) <=> Holds(full.order, j)
      /\ full.order \in Seq(Key)
  BY <1>1, CacheParts DEF Consistent, CacheOK
<1>4. CASE Len(full.order) <= MaxCached
  <2>1. Trim(full) = full
    BY <1>1, <1>3, <1>4 DEF Trim
  <2> QED
    BY <1>1, <1>2, <1>4, <2>1 DEF CacheOK
<1>5. CASE Len(full.order) > MaxCached
  <2> DEFINE last == full.order[Len(full.order)]
  <2>1. Trim(full) = Remove(full, last)
    BY <1>5 DEF Trim
  <2>2. Len(full.order) = MaxCached + 1 /\ Len(full.order) \in 2 .. Len(full.order)
    BY <1>1, <1>3, <1>5
  <2>3. last \in Key /\ Has(full, last)
    BY <1>3, <2>2 DEF Holds
  <2>4. 1 \in 1 .. Len(full.order)
    BY <2>2
  <2>5. last # k
    BY <1>1, <1>3, <2>2, <2>4 DEF Distinct
  <2> HIDE DEF last
  <2>6. /\ Consistent(Remove(full, last)) /\ Len(Remove(full, last).order) = MaxCached
        /\ Remove(full, last).entity[k] = entity
    BY <1>1, <2>2, <2>3, <2>5, RemoveKeeps
  <2> QED
    BY <1>2, <2>1, <2>6 DEF CacheOK
<1> QED
  BY <1>1, <1>3, <1>4, <1>5

LEMMA AddIndexesKeeps ==
  ASSUME NEW c, CacheOK(c), NEW k \in Key, NEW entity \in Entity, c.entity[k] = entity
  PROVE  CacheOK(AddIndexes(c, k, entity)) /\ AddIndexes(c, k, entity).entity = c.entity
<1> DEFINE d == AddIndexes(c, k, entity)
<1>1. /\ c \in Cache /\ Sound(c) /\ Has(c, k)
      /\ c.entity \in [Key -> Entity \cup {Absent}] /\ c.order \in Seq(Key)
      /\ c.index \in [Field -> [Value -> Key \cup {None}]]
      /\ c = [entity |-> c.entity, order |-> c.order, index |-> c.index]
  BY CacheParts, EntityParts DEF Consistent, CacheOK, Has
<1> DEFINE index == [f \in Field |->
                      [v \in Value |-> IF f \in Added(c, entity) /\ v = entity.unique[f]
                                       THEN k ELSE c.index[f][v]]]
<1>2. /\ d.entity = c.entity /\ d.order = c.order /\ d.index = index
      /\ d = [entity |-> d.entity, order |-> d.order, index |-> d.index]
  <2>1. d = [c EXCEPT !.index = index]
    BY DEF AddIndexes
  <2> HIDE DEF d, index
  <2> QED
    BY <1>1, <2>1
<1> HIDE DEF d
<1>3. /\ d.index \in [Field -> [Value -> Key \cup {None}]]
      /\ \A f \in Field, v \in Value :
           d.index[f][v] = c.index[f][v] \/ (d.index[f][v] = k /\ v = entity.unique[f])
  BY <1>1, <1>2
<1>4. d \in Cache
  BY <1>1, <1>2, <1>3 DEF Cache
<1>5. Sound(d)
  BY <1>1, <1>2, <1>3 DEF Sound, Has
<1> QED
  BY <1>1, <1>2, <1>4, <1>5 DEF d, CacheOK, Consistent, Has

LEMMA SetKeeps ==
  ASSUME NEW c, CacheOK(c), NEW k \in Key, NEW entity \in Entity
  PROVE  CacheOK(Set(c, k, entity)) /\ Set(c, k, entity).entity[k] = entity
<1> DEFINE evitted  == Evit(c, k)
           inserted == Insert(evitted, k, entity)
<1>1. CacheOK(evitted) /\ ~ Has(evitted, k)
  BY EvitKeeps
<1> HIDE DEF evitted
<1>2. CacheOK(inserted) /\ inserted.entity[k] = entity
  BY <1>1, InsertKeeps
<1>3. Set(c, k, entity) = AddIndexes(inserted, k, entity)
  BY DEF Set, evitted
<1> HIDE DEF inserted
<1> QED
  BY <1>2, <1>3, AddIndexesKeeps

LEMMA TouchKeeps ==
  ASSUME NEW c, CacheOK(c), NEW k \in Key
  PROVE  CacheOK(Touch(c, k)) /\ Touch(c, k).entity = c.entity /\ Touch(c, k).index = c.index
<1>1. CASE ~ Has(c, k)
  BY <1>1 DEF Touch
<1>2. CASE Has(c, k)
  <2> DEFINE s == c.order
             d == Touch(c, k)
  <2>1. /\ c \in Cache /\ Sound(c)
        /\ c.entity \in [Key -> Entity \cup {Absent}] /\ s \in Seq(Key)
        /\ c.index \in [Field -> [Value -> Key \cup {None}]]
        /\ Distinct(s) /\ Holds(s, k) /\ Len(s) \in Nat /\ Len(s) <= MaxCached
        /\ \A j \in Key : Has(c, j) <=> Holds(s, j)
        /\ c = [entity |-> c.entity, order |-> s, index |-> c.index]
    BY <1>2, CacheParts DEF Consistent, CacheOK
  <2>2. /\ d.entity = c.entity /\ d.index = c.index /\ d.order = <<k>> \o Without(s, k)
        /\ d = [entity |-> d.entity, order |-> d.order, index |-> d.index]
    BY <1>2, <2>1 DEF Touch
  <2> HIDE DEF s, d
  <2>3. /\ Without(s, k) \in Seq(Key) /\ Distinct(Without(s, k))
        /\ Len(Without(s, k)) = Len(s) - 1
        /\ \A j \in Key : Holds(Without(s, k), j) <=> Holds(s, j) /\ j # k
    BY <2>1, WithoutOf
  <2>4. ~ Holds(Without(s, k), k)
    BY <2>3
  <2>5. /\ <<k>> \o Without(s, k) \in Seq(Key) /\ Distinct(<<k>> \o Without(s, k))
        /\ Len(<<k>> \o Without(s, k)) = Len(Without(s, k)) + 1
        /\ \A j \in Key : Holds(<<k>> \o Without(s, k), j) <=> Holds(Without(s, k), j) \/ j = k
    BY <2>3, <2>4, Prepended
  <2>6. /\ d.order \in Seq(Key) /\ Distinct(d.order) /\ Len(d.order) = Len(s)
        /\ \A j \in Key : Holds(d.order, j) <=> Holds(s, j)
    BY <2>1, <2>2, <2>3, <2>5
  <2>7. d \in Cache
    BY <2>1, <2>2, <2>6 DEF Cache
  <2> QED
    BY <2>1, <2>2, <2>6, <2>7 DEF d, CacheOK, Consistent, Sound, Has
<1> QED
  BY <1>1, <1>2

LEMMA RefreshKeeps ==
  ASSUME NEW c, CacheOK(c), NEW k \in Key, NEW modified \in Entity
  PROVE  CacheOK(RefreshCached(c, k, modified))
<1>1. CASE ~ Has(c, k)
  BY <1>1 DEF RefreshCached
<1>2. CASE Has(c, k) /\ HasUniqueProperty(c.entity[k], modified)
  BY <1>2, EvitKeeps, SetKeeps DEF RefreshCached
<1>3. CASE Has(c, k) /\ ~ HasUniqueProperty(c.entity[k], modified)
  <2> DEFINE touchedCache == Touch(c, k)
             d == RefreshCached(c, k, modified)
  <2>1. /\ CacheOK(touchedCache) /\ touchedCache.entity = c.entity
        /\ touchedCache.entity[k].unique = modified.unique /\ Has(touchedCache, k)
    BY <1>3, TouchKeeps DEF HasUniqueProperty, Has
  <2>2. d = [touchedCache EXCEPT !.entity = [@ EXCEPT ![k] = modified]]
    BY <1>3 DEF RefreshCached
  <2> HIDE DEF touchedCache, d
  <2>3. /\ touchedCache \in Cache /\ Sound(touchedCache)
        /\ touchedCache.entity \in [Key -> Entity \cup {Absent}] /\ touchedCache.order \in Seq(Key)
        /\ touchedCache.index \in [Field -> [Value -> Key \cup {None}]]
        /\ Distinct(touchedCache.order) /\ Len(touchedCache.order) <= MaxCached
        /\ \A j \in Key : Has(touchedCache, j) <=> Holds(touchedCache.order, j)
        /\ touchedCache = [entity |-> touchedCache.entity, order |-> touchedCache.order,
                           index |-> touchedCache.index]
    BY <2>1, CacheParts DEF Consistent, CacheOK
  <2>4. /\ d.entity = [touchedCache.entity EXCEPT ![k] = modified]
        /\ d.order = touchedCache.order /\ d.index = touchedCache.index
        /\ d = [entity |-> d.entity, order |-> d.order, index |-> d.index]
    BY <2>2, <2>3
  <2>5. /\ d.entity \in [Key -> Entity \cup {Absent}] /\ d.entity[k] = modified
        /\ \A j \in Key : j # k => d.entity[j] = touchedCache.entity[j]
        /\ \A j \in Key : Has(d, j) <=> Has(touchedCache, j)
    BY <2>1, <2>3, <2>4, EntityParts DEF Has
  <2>6. d \in Cache
    BY <2>3, <2>4, <2>5 DEF Cache
  <2>7. ASSUME NEW f \in Field, NEW v \in Value, d.index[f][v] # None
        PROVE  Has(d, d.index[f][v]) /\ d.entity[d.index[f][v]].unique[f] = v
    <3> DEFINE j == touchedCache.index[f][v]
    <3>1. /\ j \in Key /\ d.index[f][v] = j /\ Has(touchedCache, j)
          /\ touchedCache.entity[j].unique[f] = v
      BY <2>3, <2>4, <2>7 DEF Sound
    <3> HIDE DEF j
    <3>2. d.entity[j].unique[f] = v
      BY <2>1, <2>5, <3>1
    <3> QED
      BY <2>5, <3>1, <3>2
  <2>8. Sound(d)
    BY <2>7 DEF Sound
  <2> QED
    BY <2>3, <2>4, <2>5, <2>6, <2>8 DEF d, CacheOK, Consistent
<1> QED
  BY <1>1, <1>2, <1>3

-----------------------------------------------------------------------------
(* The session *)

LEMMA TrackedKeeps ==
  ASSUME IInv, NEW k \in Key, Known(k)
  PROVE  CacheOK(Tracked(k)) /\ Tracked(k).entity[k] \in Entity
<1>1. cache \in Cache /\ CacheOK(cache) /\ cache.entity[k] \in Entity \cup {Absent}
  BY CacheParts DEF IInv, CacheOK, Consistent
<1>2. CASE Has(cache, k)
  BY <1>1, <1>2, TouchKeeps DEF Tracked, Has
<1>3. CASE ~ Has(cache, k)
  <2>1. table[k] \in Entity
    BY <1>3 DEF Known, IInv
  <2> QED
    BY <1>1, <1>3, <2>1, SetKeeps DEF Tracked
<1> QED
  BY <1>2, <1>3

(* A key that was changed has a last change *)
LEMMA LastOf ==
  ASSUME NEW n \in Nat, NEW S \in SUBSET (1 .. n), S # {}
  PROVE  \E m \in S : \A i \in S : i <= m
<1> DEFINE T == {n - i : i \in S}
<1>1. T \subseteq Nat /\ T # {}
  <2>1. \A i \in S : i \in 1 .. n /\ n - i \in Nat
    OBVIOUS
  <2> QED
    BY <2>1
<1>2. PICK x \in T : \A y \in T : <<y, x>> \notin OpToRel(<, Nat)
  <2> HIDE DEF T
  <2> QED
    BY <1>1, NatLessThanWellFounded, WFMin
<1>3. PICK m \in S : x = n - m
  OBVIOUS
<1>4. ASSUME NEW i \in S PROVE i <= m
  <2>1. n - i \in T /\ n - i \in Nat /\ x \in Nat
    BY <1>1
  <2>2. ~ (n - i < x)
    BY <1>2, <2>1 DEF OpToRel
  <2> QED
    BY <1>3, <2>2
<1> QED
  BY <1>4

LEMMA OverlayType ==
  ASSUME IInv
  PROVE  Overlay \in [Key -> Entity \cup {Absent}]
<1>1. /\ table \in [Key -> Entity \cup {Absent}] /\ pending \in Seq(Changes)
      /\ DOMAIN pending = 1 .. Len(pending) /\ Len(pending) \in Nat
  BY DEF IInv
<1>2. ASSUME NEW k \in Key
      PROVE  Overlay[k] \in Entity \cup {Absent}
  <2> DEFINE mine == {n \in DOMAIN pending : pending[n].key = k}
             last == CHOOSE n \in mine : \A m \in mine : m <= n
  <2>1. Overlay[k] = IF mine = {} THEN table[k] ELSE pending[last].current
    BY DEF Overlay
  <2>2. mine \subseteq 1 .. Len(pending)
    BY <1>1
  <2>3. CASE mine # {}
    <3> HIDE DEF mine
    <3>1. last \in mine
      BY <1>1, <2>2, <2>3, LastOf
    <3> HIDE DEF last
    <3>2. pending[last] \in Changes
      BY <1>1, <2>2, <3>1
    <3> QED
      BY <2>1, <2>3, <3>2 DEF Changes
  <2>4. CASE mine = {}
    BY <1>1, <2>1, <2>4
  <2> QED
    BY <2>3, <2>4
<1> QED
  BY <1>2 DEF Overlay

LEMMA UndoneKeeps ==
  ASSUME NEW c, CacheOK(c), NEW change \in Changes
  PROVE  CacheOK(Undone(c, change))
<1>1. change.key \in Key /\ change.original \in Entity \cup {Absent}
  BY DEF Changes
<1>2. CASE change.original = Absent
  BY <1>1, <1>2, EvitKeeps DEF Undone
<1>3. CASE change.original # Absent /\ change.current = Absent
  BY <1>1, <1>3, SetKeeps DEF Undone
<1>4. CASE change.original # Absent /\ change.current # Absent
  BY <1>1, <1>4, RefreshKeeps DEF Undone
<1> QED
  BY <1>2, <1>3, <1>4

LEMMA Invariant == Spec => []IInv
<1>1. Init => IInv
  <2> SUFFICES ASSUME Init PROVE IInv
    OBVIOUS
  <2>1. /\ table \in [Key -> Entity \cup {Absent}] /\ pending \in Seq(Changes)
        /\ cache = EmptyCache
    BY DEF Init
  <2> QED
    BY <2>1, EmptyCacheOK DEF IInv
<1>2. IInv /\ [Next]_vars => IInv'
  <2> SUFFICES ASSUME IInv, [Next]_vars PROVE IInv'
    OBVIOUS
  <2>1. /\ table \in [Key -> Entity \cup {Absent}] /\ pending \in Seq(Changes)
        /\ CacheOK(cache)
    BY DEF IInv
  <2>2. ASSUME NEW k \in Key, Load(k)
        PROVE  IInv'
    <3>1. Known(k) /\ cache' = Tracked(k) /\ UNCHANGED <<table, pending>>
      BY <2>2 DEF Load
    <3>2. CacheOK(cache')
      BY <3>1, TrackedKeeps
    <3> QED
      BY <2>1, <3>1, <3>2 DEF IInv, CacheOK, Consistent, Sound, Has
  <2>3. ASSUME NEW f \in Field, NEW v \in Value, LoadUnique(f, v)
        PROVE  IInv'
    <3>1. PICK k \in Find(f, v) : Load(k)
      BY <2>3 DEF LoadUnique
    <3>2. k \in Key
      <4>1. cache.index[f][v] \in Key \cup {None}
        BY <2>1, CacheParts DEF CacheOK, Consistent
      <4> QED
        BY <4>1, <3>1 DEF Find, GetUnique, RowWith
    <3> QED
      BY <2>2, <3>1, <3>2
  <2>4. ASSUME NEW k \in Key, Delete(k)
        PROVE  IInv'
    <3>1. /\ Known(k) /\ cache' = Evit(Tracked(k), k) /\ UNCHANGED table
          /\ pending' = Append(pending, Change(k, Tracked(k).entity[k], Absent))
      BY <2>4 DEF Delete
    <3>2. CacheOK(Tracked(k)) /\ Tracked(k).entity[k] \in Entity
      BY <3>1, TrackedKeeps
    <3>3. CacheOK(cache')
      BY <3>1, <3>2, EvitKeeps
    <3>4. Change(k, Tracked(k).entity[k], Absent) \in Changes
      BY <3>2 DEF Change, Changes
    <3>5. pending' \in Seq(Changes)
      BY <2>1, <3>1, <3>4
    <3> QED
      BY <2>1, <3>1, <3>3, <3>5 DEF IInv, CacheOK, Consistent, Sound, Has
  <2>5. ASSUME NEW k \in Key, NEW entity \in Entity, Create(k, entity)
        PROVE  IInv'
    <3>1. /\ cache' = Set(cache, k, entity) /\ UNCHANGED table
          /\ pending' = Append(pending, Change(k, Absent, entity))
      BY <2>5 DEF Create
    <3>2. CacheOK(cache')
      BY <2>1, <3>1, SetKeeps
    <3>3. Change(k, Absent, entity) \in Changes
      BY DEF Change, Changes
    <3>4. pending' \in Seq(Changes)
      BY <2>1, <3>1, <3>3
    <3> QED
      BY <2>1, <3>1, <3>2, <3>4 DEF IInv, CacheOK, Consistent, Sound, Has
  <2>6. ASSUME NEW k \in Key, NEW entity \in Entity, Update(k, entity)
        PROVE  IInv'
    <3>1. /\ Known(k) /\ cache' = RefreshCached(Tracked(k), k, entity) /\ UNCHANGED table
          /\ pending' = Append(pending, Change(k, Tracked(k).entity[k], entity))
      BY <2>6 DEF Update
    <3>2. CacheOK(Tracked(k)) /\ Tracked(k).entity[k] \in Entity
      BY <3>1, TrackedKeeps
    <3>3. CacheOK(cache')
      BY <3>1, <3>2, RefreshKeeps
    <3>4. Change(k, Tracked(k).entity[k], entity) \in Changes
      BY <3>2 DEF Change, Changes
    <3>5. pending' \in Seq(Changes)
      BY <2>1, <3>1, <3>4
    <3> QED
      BY <2>1, <3>1, <3>3, <3>5 DEF IInv, CacheOK, Consistent, Sound, Has
  <2>7. CASE Commit
    <3>1. table' = Overlay /\ pending' = <<>> /\ UNCHANGED cache
      BY <2>7 DEF Commit
    <3>2. table' \in [Key -> Entity \cup {Absent}] /\ pending' \in Seq(Changes)
      BY <3>1, OverlayType
    <3> QED
      BY <2>1, <3>1, <3>2 DEF IInv, CacheOK, Consistent, Sound, Has
  <2>8. CASE Undo
    <3>1. /\ pending # <<>> /\ cache' = Undone(cache, pending[Len(pending)])
          /\ pending' = SubSeq(pending, 1, Len(pending) - 1) /\ UNCHANGED table
      BY <2>8 DEF Undo
    <3>2. pending[Len(pending)] \in Changes /\ pending' \in Seq(Changes)
      BY <2>1, <3>1
    <3>3. CacheOK(cache')
      BY <2>1, <3>1, <3>2, UndoneKeeps
    <3> QED
      BY <2>1, <3>1, <3>2, <3>3 DEF IInv, CacheOK, Consistent, Sound, Has
  <2>9. CASE Clear
    <3>1. cache' = EmptyCache /\ UNCHANGED <<table, pending>>
      BY <2>9 DEF Clear
    <3>2. CacheOK(cache')
      BY <3>1, EmptyCacheOK
    <3> QED
      BY <2>1, <3>1, <3>2 DEF IInv, CacheOK, Consistent, Sound, Has
  <2>10. CASE UNCHANGED vars
    BY <2>1, <2>10 DEF vars, IInv, CacheOK, Consistent, Sound, Has
  <2> QED
    BY <2>2, <2>3, <2>4, <2>5, <2>6, <2>7, <2>8, <2>9, <2>10 DEF Next
<1> QED
  BY <1>1, <1>2, PTL DEF Spec

-----------------------------------------------------------------------------
(***************************************************************************)
(* Whatever a session does, the cache keeps to its limit and lists every   *)
(* entity it holds once (LRUEntityCache, with the queue of lru-cache).     *)
(***************************************************************************)
THEOREM TypeCorrect == Spec => []TypeOK
<1>1. IInv => TypeOK
  <2> SUFFICES ASSUME IInv PROVE TypeOK
    OBVIOUS
  <2>1. cache \in Cache /\ CacheOK(cache) /\ DOMAIN cache.order = 1 .. Len(cache.order)
    BY CacheParts DEF IInv, CacheOK, Consistent
  <2>2. OrderOK(cache)
    BY <2>1 DEF CacheOK, Consistent, OrderOK, Holds, Distinct
  <2> QED
    BY <2>1, <2>2 DEF IInv, TypeOK
<1> QED
  BY <1>1, Invariant, PTL

(***************************************************************************)
(* An index of a unique field only says what is cached and has that value, *)
(* after any sequence of sets, evictions, undone changes and sets that     *)
(* threw in the middle (UniquedCache, LRUEntityCache.refreshCached).       *)
(***************************************************************************)
THEOREM IndexSoundCorrect == Spec => []IndexSound
<1>1. IInv => IndexSound
  BY DEF IInv, CacheOK, Consistent, IndexSound
<1> QED
  BY <1>1, Invariant, PTL

-----------------------------------------------------------------------------
(***************************************************************************)
(* What a session sees through the entity cache is the table with its      *)
(* pending changes, for any number of entities, fields, values and changes *)
(* and any limit, as long as the entities used between two commits fit     *)
(* into the cache (Fits): then the limit only drops entities that were not *)
(* used since the last commit, and those the table still knows.            *)
(***************************************************************************)

(* The entities used between two commits fit into the cache *)
Fits == TouchLimit \in Nat /\ TouchLimit <= MaxCached

-----------------------------------------------------------------------------
(* The inductive invariant *)

(* The rows of a table with some changes *)
View(rows, changes) ==
  [k \in Key |->
     LET mine == {n \in DOMAIN changes : changes[n].key = k}
     IN  IF mine = {} THEN rows[k]
         ELSE changes[CHOOSE n \in mine : \A m \in mine : m <= n].current]

Until(changes, n) == SubSeq(changes, 1, n)

(* A change remembers what it replaced *)
Linked(rows, changes) ==
  \A n \in 1 .. Len(changes) :
    changes[n].original = View(rows, Until(changes, n - 1))[changes[n].key]

OneOwner(view) ==
  \A f \in Field, v \in Value : \A j, k \in RowWith(view, f, v) : j = k

(* Unique values at any time since the last commit: undone changes restore them *)
Owned(rows, changes) == \A n \in 0 .. Len(changes) : OneOwner(View(rows, Until(changes, n)))

(* The used entities are the ones the limit would drop last *)
UsedFirst(s, used) == \A i, j \in 1 .. Len(s) : i < j /\ s[j] \in used => s[i] \in used

(* Every unique value of these entities, if cached, is indexed *)
Complete(c, keys) ==
  \A k \in keys : Has(c, k) => \A f \in Field :
    Indexed(c.entity[k], f) => c.index[f][c.entity[k].unique[f]] = k

(* The cache has entities as the session should see them, the used ones first *)
Shows(c, view, used) ==
  /\ \A k \in Key : Has(c, k) => c.entity[k] = view[k]
  /\ UsedFirst(c.order, used)

Good(c, view, used) == CacheOK(c) /\ Complete(c, Key) /\ Shows(c, view, used)

(* Of these entities, the cache has all that the other has *)
StillHas(c, d, keys) == \A k \in keys : Has(c, k) => Has(d, k)

Changed(changes) == {changes[n].key : n \in 1 .. Len(changes)}

(* What only the cache knows is in the cache *)
Pinned(c, view, changes) == \A k \in Changed(changes) : view[k] # Absent => Has(c, k)

ViewOK(rows, c, changes, used) ==
  /\ Good(c, View(rows, changes), used)
  /\ Pinned(c, View(rows, changes), changes)
  /\ Changed(changes) \subseteq used /\ used \subseteq Key
  /\ IsFiniteSet(used) /\ Cardinality(used) <= TouchLimit
  /\ Linked(rows, changes)
  /\ Owned(rows, changes)

ViewInv == IInv /\ ViewOK(table, cache, pending, touched)

-----------------------------------------------------------------------------
(* The order of the cache *)

LEMMA WithoutUsed ==
  ASSUME NEW s \in Seq(Key), Distinct(s), NEW k \in Key, NEW used, UsedFirst(s, used)
  PROVE  UsedFirst(Without(s, k), used)
<1>1. DOMAIN s = 1 .. Len(s) /\ Len(s) \in Nat
  OBVIOUS
<1>2. CASE ~ Holds(s, k)
  BY <1>1, <1>2 DEF Without, Holds
<1>3. CASE Holds(s, k)
  <2> DEFINE p == Position(s, k)
             w == Without(s, k)
  <2>1. p \in 1 .. Len(s)
    BY <1>1, <1>3 DEF Position, Holds
  <2>2. w = [i \in 1 .. Len(s) - 1 |-> s[IF i < p THEN i ELSE i + 1]]
    BY <1>1, <1>3 DEF Without, Holds
  <2>3. Len(w) = Len(s) - 1
    BY <1>3, WithoutOf
  <2> HIDE DEF p, w
  <2>4. ASSUME NEW i \in 1 .. Len(w), NEW j \in 1 .. Len(w), i < j, w[j] \in used
        PROVE  w[i] \in used
    <3> DEFINE x == IF i < p THEN i ELSE i + 1
               y == IF j < p THEN j ELSE j + 1
    <3>1. x \in 1 .. Len(s) /\ y \in 1 .. Len(s) /\ x < y
      BY <1>1, <2>1, <2>3, <2>4
    <3>2. w[i] = s[x] /\ w[j] = s[y]
      BY <2>2, <2>3
    <3> HIDE DEF x, y
    <3> QED
      BY <2>4, <3>1, <3>2 DEF UsedFirst
  <2> QED
    BY <2>4 DEF w, UsedFirst
<1> QED
  BY <1>2, <1>3

LEMMA PrependUsed ==
  ASSUME NEW s \in Seq(Key), NEW k \in Key, ~ Holds(s, k), NEW used, UsedFirst(s, used)
  PROVE  UsedFirst(<<k>> \o s, used \cup {k})
<1> DEFINE r == <<k>> \o s
<1>1. /\ Len(r) = Len(s) + 1 /\ Len(s) \in Nat /\ r[1] = k
      /\ \A i \in 2 .. Len(r) : r[i] = s[i - 1] /\ i - 1 \in 1 .. Len(s)
  OBVIOUS
<1> HIDE DEF r
<1>2. ASSUME NEW i \in 1 .. Len(r), NEW j \in 1 .. Len(r), i < j, r[j] \in used \cup {k}
      PROVE  r[i] \in used \cup {k}
  <2>1. CASE i = 1
    BY <1>1, <2>1
  <2>2. CASE i # 1
    <3>1. i \in 2 .. Len(r) /\ j \in 2 .. Len(r)
      BY <1>1, <1>2, <2>2
    <3>2. /\ i - 1 \in 1 .. Len(s) /\ j - 1 \in 1 .. Len(s) /\ i - 1 < j - 1
          /\ r[i] = s[i - 1] /\ r[j] = s[j - 1]
      BY <1>1, <1>2, <3>1
    <3>3. s[j - 1] # k
      BY <3>2 DEF Holds
    <3> QED
      BY <1>2, <3>2, <3>3 DEF UsedFirst
  <2> QED
    BY <2>1, <2>2
<1> QED
  BY <1>2 DEF r, UsedFirst

(* More entities than were used: the last one was not *)
LEMMA LastUnused ==
  ASSUME NEW s \in Seq(Key), Distinct(s), NEW used, UsedFirst(s, used),
         IsFiniteSet(used), Cardinality(used) < Len(s)
  PROVE  s[Len(s)] \notin used
<1>1. Len(s) \in Nat /\ Cardinality(used) \in Nat /\ Len(s) \in 1 .. Len(s)
  BY FS_CardinalityType
<1> SUFFICES ASSUME s[Len(s)] \in used PROVE FALSE
  OBVIOUS
<1> DEFINE n == Len(s)
           at == [i \in 1 .. n |-> s[i]]
<1>2. \A i \in 1 .. n : s[i] \in used
  BY <1>1 DEF UsedFirst
<1>3. at \in Injection(1 .. n, used)
  <2>1. at \in [1 .. n -> used]
    BY <1>2
  <2>2. \A i, j \in 1 .. n : at[i] = at[j] => i = j
    BY DEF Distinct
  <2> QED
    BY <2>1, <2>2 DEF Injection, IsInjective
<1> HIDE DEF at, n
<1>4. Cardinality(1 .. n) <= Cardinality(used)
  BY <1>3, FS_Injection
<1>5. Cardinality(1 .. n) = n
  <2>1. n \in Nat
    BY <1>1 DEF n
  <2> QED
    BY <2>1, FS_Interval
<1> QED
  BY <1>1, <1>4, <1>5 DEF n

-----------------------------------------------------------------------------
(* Views *)

LEMMA ViewType ==
  ASSUME NEW rows \in [Key -> Entity \cup {Absent}], NEW changes \in Seq(Changes)
  PROVE  View(rows, changes) \in [Key -> Entity \cup {Absent}]
<1>1. DOMAIN changes = 1 .. Len(changes) /\ Len(changes) \in Nat
  OBVIOUS
<1>2. ASSUME NEW k \in Key
      PROVE  View(rows, changes)[k] \in Entity \cup {Absent}
  <2> DEFINE mine == {n \in DOMAIN changes : changes[n].key = k}
             last == CHOOSE n \in mine : \A m \in mine : m <= n
  <2>1. View(rows, changes)[k] = IF mine = {} THEN rows[k] ELSE changes[last].current
    BY DEF View
  <2>2. mine \subseteq 1 .. Len(changes)
    BY <1>1
  <2>3. CASE mine # {}
    <3> HIDE DEF mine
    <3>1. last \in mine
      BY <1>1, <2>2, <2>3, LastOf
    <3> HIDE DEF last
    <3>2. changes[last] \in Changes
      BY <1>1, <2>2, <3>1
    <3> QED
      BY <2>1, <2>3, <3>2 DEF Changes
  <2>4. CASE mine = {}
    BY <1>1, <2>1, <2>4
  <2> QED
    BY <2>3, <2>4
<1> QED
  BY <1>2 DEF View

LEMMA ViewEmpty ==
  ASSUME NEW rows \in [Key -> Entity \cup {Absent}]
  PROVE  View(rows, <<>>) = rows
BY DEF View

(* A key without changes is as in the table *)
LEMMA ViewUnchanged ==
  ASSUME NEW rows, NEW changes \in Seq(Changes), NEW k \in Key, k \notin Changed(changes)
  PROVE  View(rows, changes)[k] = rows[k]
<1>1. {n \in DOMAIN changes : changes[n].key = k} = {}
  BY DEF Changed
<1> QED
  BY <1>1 DEF View

(* The last change of a key is what is seen *)
LEMMA ViewLast ==
  ASSUME NEW rows, NEW changes \in Seq(Changes), NEW last \in 1 .. Len(changes),
         \A m \in 1 .. Len(changes) : changes[m].key = changes[last].key => m <= last
  PROVE  View(rows, changes)[changes[last].key] = changes[last].current
<1> DEFINE k == changes[last].key
           mine == {n \in DOMAIN changes : changes[n].key = k}
           picked == CHOOSE n \in mine : \A m \in mine : m <= n
<1>1. DOMAIN changes = 1 .. Len(changes) /\ k \in Key /\ last \in Nat
  <2>1. changes[last] \in Changes /\ last \in Nat
    OBVIOUS
  <2> QED
    BY <2>1 DEF Changes
<1>2. View(rows, changes)[k] = IF mine = {} THEN rows[k] ELSE changes[picked].current
  BY <1>1 DEF View
<1>3. last \in mine /\ \A m \in mine : m \in Nat /\ m <= last
  BY <1>1
<1> HIDE DEF mine
<1>4. picked \in mine /\ \A m \in mine : m <= picked
  BY <1>3
<1> HIDE DEF picked
<1>5. picked = last
  <2>1. picked <= last /\ last <= picked /\ picked \in Nat
    BY <1>3, <1>4
  <2> QED
    BY <1>1, <2>1
<1> QED
  BY <1>2, <1>3, <1>5 DEF k

LEMMA ViewAppend ==
  ASSUME NEW rows \in [Key -> Entity \cup {Absent}], NEW changes \in Seq(Changes),
         NEW change \in Changes
  PROVE  View(rows, Append(changes, change))
           = [View(rows, changes) EXCEPT ![change.key] = change.current]
<1> DEFINE more == Append(changes, change)
           len  == Len(changes)
<1>1. /\ len \in Nat /\ DOMAIN changes = 1 .. len /\ Len(more) = len + 1
      /\ more[len + 1] = change /\ \A n \in 1 .. len : more[n] = changes[n]
      /\ change.key \in Key /\ more \in Seq(Changes)
  BY DEF Changes
<1> HIDE DEF more
<1>2. /\ View(rows, changes) \in [Key -> Entity \cup {Absent}]
      /\ View(rows, more) \in [Key -> Entity \cup {Absent}]
  BY <1>1, ViewType
<1>3. View(rows, more)[change.key] = change.current
  <2>1. len + 1 \in 1 .. Len(more) /\ \A m \in 1 .. Len(more) : m <= len + 1
    BY <1>1
  <2>2. View(rows, more)[more[len + 1].key] = more[len + 1].current
    BY <1>1, <2>1, ViewLast
  <2> QED
    BY <1>1, <2>2
<1>4. ASSUME NEW k \in Key, k # change.key
      PROVE  View(rows, more)[k] = View(rows, changes)[k]
  <2> DEFINE mine == {n \in 1 .. len : changes[n].key = k}
  <2>1. CASE mine = {}
    <3>1. k \notin Changed(changes) /\ k \notin Changed(more)
      BY <1>1, <1>4, <2>1 DEF Changed
    <3> QED
      BY <1>1, <3>1, ViewUnchanged
  <2>2. CASE mine # {}
    <3>1. PICK last \in mine : \A m \in mine : m <= last
      BY <1>1, <2>2, LastOf
    <3>2. /\ last \in 1 .. Len(changes) /\ changes[last].key = k
          /\ \A m \in 1 .. Len(changes) : changes[m].key = changes[last].key => m <= last
      BY <3>1
    <3>3. /\ last \in 1 .. Len(more) /\ more[last] = changes[last]
          /\ \A m \in 1 .. Len(more) : more[m].key = more[last].key => m <= last
      <4>1. last \in 1 .. Len(more) /\ more[last] = changes[last]
        BY <1>1, <3>2
      <4>2. ASSUME NEW m \in 1 .. Len(more), more[m].key = k
            PROVE  m <= last
        <5>1. m # len + 1
          BY <1>1, <1>4, <4>2
        <5>2. m \in 1 .. len
          <6> HIDE DEF len, mine
          <6>1. len \in Nat /\ m \in 1 .. len + 1
            BY <1>1
          <6> QED
            BY <5>1, <6>1
        <5>3. changes[m].key = k
          BY <1>1, <4>2, <5>2
        <5>4. m \in mine
          BY <5>2, <5>3
        <5> QED
          BY <3>1, <5>4
      <4> QED
        BY <3>2, <4>1, <4>2
    <3>4. View(rows, changes)[changes[last].key] = changes[last].current
      BY <3>2, ViewLast
    <3>5. View(rows, more)[more[last].key] = more[last].current
      BY <1>1, <3>3, ViewLast
    <3>6. View(rows, changes)[k] = changes[last].current
      BY <3>2, <3>4
    <3>7. View(rows, more)[k] = changes[last].current
      BY <3>2, <3>3, <3>5
    <3> QED
      BY <3>6, <3>7
  <2> QED
    BY <2>1, <2>2
<1> QED
  BY <1>1, <1>2, <1>3, <1>4 DEF more

(* Parts of a sequence of changes *)
LEMMA UntilOf ==
  ASSUME NEW s \in Seq(Changes), NEW n \in 0 .. Len(s)
  PROVE  /\ Until(s, n) \in Seq(Changes) /\ Len(Until(s, n)) = n
         /\ \A i \in 1 .. n : Until(s, n)[i] = s[i]
         /\ \A m \in 0 .. n : Until(Until(s, n), m) = Until(s, m)
         /\ \A x \in Changes : Until(Append(s, x), n) = Until(s, n)
         /\ Until(s, Len(s)) = s
<1>1. Len(s) \in Nat
  OBVIOUS
<1>2. ASSUME NEW t \in Seq(Changes), NEW m \in 0 .. Len(t)
      PROVE  /\ Until(t, m) \in Seq(Changes) /\ Len(Until(t, m)) = m
             /\ \A i \in 1 .. m : Until(t, m)[i] = t[i]
  <2>1. \A i \in 1 .. m : t[i] \in Changes
    OBVIOUS
  <2>2. /\ SubSeq(t, 1, m) \in Seq(Changes)
        /\ Len(SubSeq(t, 1, m)) = IF 1 <= m THEN m - 1 + 1 ELSE 0
        /\ \A i \in 1 .. m - 1 + 1 : SubSeq(t, 1, m)[i] = t[1 + i - 1]
    BY <2>1, SubSeqProperties
  <2> QED
    BY <2>2 DEF Until
<1>3. ASSUME NEW m \in 0 .. n
      PROVE  Until(Until(s, n), m) = Until(s, m)
  <2>1. m \in 0 .. Len(Until(s, n)) /\ m \in 0 .. Len(s)
    BY <1>1, <1>2
  <2>2. /\ Until(s, m) \in Seq(Changes) /\ Until(Until(s, n), m) \in Seq(Changes)
        /\ Len(Until(s, m)) = m /\ Len(Until(Until(s, n), m)) = m
        /\ \A i \in 1 .. m : Until(s, m)[i] = Until(Until(s, n), m)[i]
    BY <1>1, <1>2, <2>1
  <2> QED
    BY <2>2, SeqEqual
<1>4. ASSUME NEW x \in Changes
      PROVE  Until(Append(s, x), n) = Until(s, n)
  <2>1. /\ Append(s, x) \in Seq(Changes) /\ n \in 0 .. Len(Append(s, x))
        /\ \A i \in 1 .. n : Append(s, x)[i] = s[i]
    BY <1>1
  <2>2. /\ Until(s, n) \in Seq(Changes) /\ Until(Append(s, x), n) \in Seq(Changes)
        /\ Len(Until(s, n)) = n /\ Len(Until(Append(s, x), n)) = n
        /\ \A i \in 1 .. n : Until(s, n)[i] = Until(Append(s, x), n)[i]
    BY <1>1, <1>2, <2>1
  <2> QED
    BY <2>2, SeqEqual
<1>5. Until(s, Len(s)) = s
  <2>1. Len(s) \in 0 .. Len(s)
    BY <1>1
  <2>2. /\ Until(s, Len(s)) \in Seq(Changes) /\ Len(Until(s, Len(s))) = Len(s)
        /\ \A i \in 1 .. Len(s) : Until(s, Len(s))[i] = s[i]
    BY <1>2, <2>1
  <2> QED
    BY <2>2, SeqEqual
<1> QED
  BY <1>2, <1>3, <1>4, <1>5

(* A change that remembers what it replaces *)
LEMMA LinkedAppend ==
  ASSUME NEW rows \in [Key -> Entity \cup {Absent}], NEW changes \in Seq(Changes),
         NEW change \in Changes,
         Linked(rows, changes), Owned(rows, changes),
         change.original = View(rows, changes)[change.key],
         OneOwner([View(rows, changes) EXCEPT ![change.key] = change.current])
  PROVE  Linked(rows, Append(changes, change)) /\ Owned(rows, Append(changes, change))
<1> DEFINE more == Append(changes, change)
           len  == Len(changes)
<1>1. /\ len \in Nat /\ Len(more) = len + 1 /\ more \in Seq(Changes)
      /\ more[len + 1] = change /\ \A n \in 1 .. len : more[n] = changes[n]
  OBVIOUS
<1>2. ASSUME NEW n \in 0 .. len
      PROVE  Until(more, n) = Until(changes, n)
  BY UntilOf
<1>3. Until(changes, len) = changes /\ Until(more, Len(more)) = more
  <2>1. len \in 0 .. len /\ Len(more) \in 0 .. Len(more)
    BY <1>1
  <2> HIDE DEF more
  <2> QED
    BY <1>1, <2>1, UntilOf
<1>4. View(rows, more) = [View(rows, changes) EXCEPT ![change.key] = change.current]
  BY ViewAppend
<1> HIDE DEF more
<1>5. ASSUME NEW n \in 1 .. Len(more)
      PROVE  more[n].original = View(rows, Until(more, n - 1))[more[n].key]
  <2> HIDE DEF len
  <2>1. n \in 1 .. len + 1 /\ n - 1 \in 0 .. len
    BY <1>1
  <2>2. Until(more, n - 1) = Until(changes, n - 1)
    BY <1>2, <2>1
  <2>3. CASE n = len + 1
    <3>1. n - 1 = len /\ more[n] = change
      BY <1>1, <2>3
    <3> QED
      BY <1>3, <2>2, <3>1
  <2>4. CASE n # len + 1
    <3>1. n \in 1 .. len /\ more[n] = changes[n]
      <4>1. len \in Nat
        BY <1>1
      <4>2. n \in 1 .. len
        BY <2>1, <2>4, <4>1
      <4> QED
        BY <1>1, <4>2
    <3>2. changes[n].original = View(rows, Until(changes, n - 1))[changes[n].key]
      BY <3>1 DEF Linked, len
    <3> QED
      BY <2>2, <3>1, <3>2
  <2> QED
    BY <2>3, <2>4
<1>6. ASSUME NEW n \in 0 .. Len(more)
      PROVE  OneOwner(View(rows, Until(more, n)))
  <2> HIDE DEF len
  <2>1. n \in 0 .. len \/ n = Len(more)
    BY <1>1
  <2>2. CASE n = Len(more)
    BY <1>3, <1>4, <2>2
  <2>3. CASE n \in 0 .. len
    BY <1>2, <2>3 DEF Owned, len
  <2> QED
    BY <2>1, <2>2, <2>3
<1> QED
  BY <1>5, <1>6 DEF Linked, Owned, more

(* The changes before the last one *)
LEMMA LinkedFront ==
  ASSUME NEW rows \in [Key -> Entity \cup {Absent}], NEW changes \in Seq(Changes),
         changes # <<>>, Linked(rows, changes), Owned(rows, changes)
  PROVE  LET front == Until(changes, Len(changes) - 1)
             last  == changes[Len(changes)]
         IN  /\ front \in Seq(Changes) /\ last \in Changes
             /\ Linked(rows, front) /\ Owned(rows, front)
             /\ OneOwner(View(rows, front))
             /\ View(rows, front) = [View(rows, changes) EXCEPT ![last.key] = last.original]
             /\ View(rows, changes)[last.key] = last.current
             /\ Changed(front) \subseteq Changed(changes) /\ last.key \in Changed(changes)
<1> DEFINE len   == Len(changes)
           front == Until(changes, len - 1)
           last  == changes[len]
<1>1. len \in Nat \ {0} /\ len \in 1 .. len /\ len - 1 \in 0 .. len /\ len - 1 \in Nat
  <2>1. len \in Nat /\ len # 0
    OBVIOUS
  <2> HIDE DEF len
  <2> QED
    BY <2>1
<1>2. /\ front \in Seq(Changes) /\ Len(front) = len - 1
      /\ \A i \in 1 .. len - 1 : front[i] = changes[i]
      /\ \A m \in 0 .. len - 1 : Until(front, m) = Until(changes, m)
  BY <1>1, UntilOf
<1>3. last \in Changes /\ last.key \in Key
  <2>1. last \in Changes
    BY <1>1
  <2> QED
    BY <2>1 DEF Changes
<1> HIDE DEF front, last
<1>4. changes = Append(front, last)
  <2> HIDE DEF len
  <2>1. /\ Append(front, last) \in Seq(Changes) /\ Len(Append(front, last)) = len
        /\ Append(front, last)[len] = last
        /\ \A i \in 1 .. len - 1 : Append(front, last)[i] = front[i]
    <3>1. len - 1 + 1 = len
      BY <1>1
    <3> QED
      BY <1>2, <1>3, <3>1
  <2>2. ASSUME NEW i \in 1 .. len PROVE Append(front, last)[i] = changes[i]
    <3>1. CASE i = len
      BY <2>1, <3>1 DEF last
    <3>2. CASE i # len
      <4>1. i \in 1 .. len - 1
        BY <1>1, <3>2
      <4> QED
        BY <1>2, <2>1, <4>1
    <3> QED
      BY <3>1, <3>2
  <2> QED
    BY <2>1, <2>2, SeqEqual DEF len
<1>5. View(rows, changes) = [View(rows, front) EXCEPT ![last.key] = last.current]
  BY <1>2, <1>3, <1>4, ViewAppend
<1>6. View(rows, front) \in [Key -> Entity \cup {Absent}]
  BY <1>2, ViewType
<1>7. View(rows, front)[last.key] = last.original
  BY <1>1 DEF Linked, front, last
<1>8. /\ View(rows, front) = [View(rows, changes) EXCEPT ![last.key] = last.original]
      /\ View(rows, changes)[last.key] = last.current
  <2>1. View(rows, changes)[last.key] = last.current
    BY <1>3, <1>5, <1>6
  <2>2. [View(rows, changes) EXCEPT ![last.key] = last.original] = View(rows, front)
    BY <1>3, <1>5, <1>6, <1>7
  <2> QED
    BY <2>1, <2>2
<1>9. Linked(rows, front)
  <2> SUFFICES ASSUME NEW n \in 1 .. Len(front)
               PROVE  front[n].original = View(rows, Until(front, n - 1))[front[n].key]
    BY DEF Linked
  <2> HIDE DEF len
  <2>1. n \in 1 .. len /\ n - 1 \in 0 .. len - 1 /\ front[n] = changes[n]
    BY <1>1, <1>2
  <2>2. Until(front, n - 1) = Until(changes, n - 1)
    BY <1>2, <2>1
  <2> QED
    BY <2>1, <2>2 DEF Linked, len
<1>10. Owned(rows, front)
  <2> SUFFICES ASSUME NEW n \in 0 .. Len(front)
               PROVE  OneOwner(View(rows, Until(front, n)))
    BY DEF Owned
  <2> HIDE DEF len
  <2>1. n \in 0 .. len /\ n \in 0 .. len - 1
    BY <1>1, <1>2
  <2>2. Until(front, n) = Until(changes, n)
    BY <1>2, <2>1
  <2> QED
    BY <2>1, <2>2 DEF Owned, len
<1>11. OneOwner(View(rows, front))
  BY <1>1 DEF Owned, front
<1>12. Changed(front) \subseteq Changed(changes) /\ last.key \in Changed(changes)
  <2> HIDE DEF len
  <2>1. 1 .. Len(front) \subseteq 1 .. len /\ \A i \in 1 .. Len(front) : front[i] = changes[i]
    BY <1>1, <1>2
  <2> QED
    BY <1>1, <2>1 DEF Changed, last, len
<1> QED
  BY <1>2, <1>3, <1>8, <1>9, <1>10, <1>11, <1>12 DEF front, last

-----------------------------------------------------------------------------
(* The operations of the cache *)

Views == [Key -> Entity \cup {Absent}]

LEMMA RemoveShows ==
  ASSUME NEW c, Consistent(c), NEW view \in Views, NEW used, Shows(c, view, used),
         NEW keys \in SUBSET Key, Complete(c, keys), NEW k \in keys, Has(c, k)
  PROVE  /\ Complete(Remove(c, k), keys) /\ Shows(Remove(c, k), [view EXCEPT ![k] = Absent], used)
         /\ StillHas(c, Remove(c, k), Key \ {k})
<1> DEFINE d == Remove(c, k)
<1>1. /\ c.entity \in [Key -> Entity \cup {Absent}] /\ c.order \in Seq(Key)
      /\ c.index \in [Field -> [Value -> Key \cup {None}]] /\ Distinct(c.order) /\ k \in Key
  BY CacheParts DEF Consistent
<1>2. /\ d.order = Without(c.order, k)
      /\ ~ Has(d, k) /\ \A j \in Key : j # k => d.entity[j] = c.entity[j]
      /\ \A f \in Field, v \in Value :
           d.index[f][v] = IF v = c.entity[k].unique[f] THEN None ELSE c.index[f][v]
  <2>1. ~ Has(d, k) /\ \A j \in Key : j # k => d.entity[j] = c.entity[j]
    BY RemoveKeeps
  <2>2. d.order = Without(c.order, k) /\ d.index = AfterEvit(c.index, c.entity[k])
    BY DEF Remove
  <2> HIDE DEF d
  <2> QED
    BY <1>1, <2>1, <2>2 DEF AfterEvit
<1> HIDE DEF d
<1>3. Complete(d, keys)
  <2> SUFFICES ASSUME NEW j \in keys, Has(d, j), NEW f \in Field, Indexed(d.entity[j], f)
               PROVE  d.index[f][d.entity[j].unique[f]] = j
    BY DEF Complete
  <2>1. j \in Key /\ j # k /\ d.entity[j] = c.entity[j] /\ Has(c, j) /\ c.entity[j] \in Entity
    BY <1>1, <1>2 DEF Has
  <2> DEFINE v == c.entity[j].unique[f]
  <2>2. v \in Value /\ c.index[f][v] = j
    BY <2>1, EntityParts DEF Complete, Indexed
  <2>3. v # c.entity[k].unique[f]
    <3> SUFFICES ASSUME v = c.entity[k].unique[f] PROVE FALSE
      OBVIOUS
    <3>1. Indexed(c.entity[k], f)
      BY <2>2 DEF Indexed
    <3>2. c.index[f][c.entity[k].unique[f]] = k
      BY <3>1 DEF Complete
    <3> QED
      BY <2>1, <2>2, <3>2
  <2> QED
    BY <1>2, <2>1, <2>2, <2>3
<1>4. Shows(d, [view EXCEPT ![k] = Absent], used)
  <2>1. UsedFirst(d.order, used)
    <3> DEFINE s == c.order
    <3>1. s \in Seq(Key) /\ Distinct(s) /\ UsedFirst(s, used)
      BY <1>1 DEF Shows
    <3> HIDE DEF s
    <3>2. UsedFirst(Without(s, k), used)
      BY <1>1, <3>1, WithoutUsed
    <3> QED
      BY <1>2, <3>2 DEF s
  <2>2. ASSUME NEW j \in Key, Has(d, j) PROVE d.entity[j] = [view EXCEPT ![k] = Absent][j]
    <3>1. j # k /\ d.entity[j] = c.entity[j] /\ Has(c, j)
      BY <1>2, <2>2 DEF Has
    <3> QED
      BY <3>1 DEF Shows, Views
  <2> QED
    BY <2>1, <2>2 DEF Shows
<1>5. StillHas(c, d, Key \ {k})
  BY <1>2 DEF StillHas, Has
<1> QED
  BY <1>3, <1>4, <1>5 DEF d

LEMMA EvitGood ==
  ASSUME NEW c, NEW view \in Views, NEW used, Good(c, view, used), NEW k \in Key
  PROVE  /\ Good(Evit(c, k), [view EXCEPT ![k] = Absent], used)
         /\ ~ Has(Evit(c, k), k) /\ StillHas(c, Evit(c, k), Key \ {k})
<1>1. CacheOK(Evit(c, k)) /\ ~ Has(Evit(c, k), k)
  BY EvitKeeps DEF Good
<1>2. CASE Has(c, k)
  <2>1. Evit(c, k) = Remove(c, k)
    BY <1>2 DEF Evit
  <2>2. /\ Complete(Remove(c, k), Key) /\ Shows(Remove(c, k), [view EXCEPT ![k] = Absent], used)
        /\ StillHas(c, Remove(c, k), Key \ {k})
    BY <1>2, RemoveShows DEF Good, CacheOK
  <2> QED
    BY <1>1, <2>1, <2>2 DEF Good
<1>3. CASE ~ Has(c, k)
  <2>1. Evit(c, k) = c
    BY <1>3 DEF Evit
  <2>2. \A j \in Key : Has(c, j) => c.entity[j] = [view EXCEPT ![k] = Absent][j]
    BY <1>3 DEF Good, Shows, Views
  <2> QED
    BY <1>1, <2>1, <2>2 DEF Good, Shows, StillHas
<1> QED
  BY <1>2, <1>3

LEMMA TouchGood ==
  ASSUME NEW c, NEW view \in Views, NEW used, Good(c, view, used), NEW k \in Key, Has(c, k)
  PROVE  /\ Good(Touch(c, k), view, used \cup {k})
         /\ Touch(c, k).entity = c.entity /\ Touch(c, k).index = c.index
<1> DEFINE s == c.order
<1>1. CacheOK(Touch(c, k)) /\ Touch(c, k).entity = c.entity /\ Touch(c, k).index = c.index
  BY TouchKeeps DEF Good
<1>2. s \in Seq(Key) /\ Distinct(s) /\ UsedFirst(s, used) /\ c \in Cache
  BY CacheParts DEF Good, CacheOK, Consistent, Shows
<1>3. Touch(c, k).order = <<k>> \o Without(s, k)
  BY <1>2, CacheParts DEF Touch
<1> HIDE DEF s
<1>4. /\ Without(s, k) \in Seq(Key) /\ ~ Holds(Without(s, k), k)
      /\ UsedFirst(Without(s, k), used)
  BY <1>2, WithoutOf, WithoutUsed
<1>5. UsedFirst(<<k>> \o Without(s, k), used \cup {k})
  BY <1>4, PrependUsed
<1>6. UsedFirst(Touch(c, k).order, used \cup {k})
  BY <1>3, <1>5
<1> QED
  BY <1>1, <1>6 DEF Good, Shows, Complete, Has

(* An entity came, and is not indexed yet *)
Came(c, d, shown, used, k, entity) ==
  /\ CacheOK(d) /\ d.entity[k] = entity
  /\ Complete(d, Key \ {k})
  /\ Shows(d, shown, used \cup {k})
  /\ StillHas(c, d, used)
  /\ \A f \in Field, v \in Value : d.index[f][v] # k

(* If one has to go for it, that one was not used *)
LEMMA InsertShows ==
  ASSUME NEW c, NEW view \in Views, NEW used \in SUBSET Key, Good(c, view, used),
         NEW k \in Key, ~ Has(c, k), NEW entity \in Entity,
         IsFiniteSet(used \cup {k}), Cardinality(used \cup {k}) <= MaxCached,
         NEW d, d = Insert(c, k, entity), NEW shown, shown = [view EXCEPT ![k] = entity]
  PROVE  Came(c, d, shown, used, k, entity)
<1> DEFINE e == Inserted(c, k, entity)
           all == used \cup {k}
<1>0. e = Inserted(c, k, entity)
  OBVIOUS
<1>1. CacheOK(d) /\ d.entity[k] = entity /\ d = Trim(e) /\ e.order = <<k>> \o c.order
  BY InsertKeeps DEF Good, Insert, Inserted
<1> HIDE DEF e
<1>2. /\ Consistent(e) /\ Len(e.order) = Len(c.order) + 1 /\ e.order[1] = k
      /\ e.index = c.index
      /\ e.entity[k] = entity /\ \A j \in Key : j # k => e.entity[j] = c.entity[j]
  BY <1>0, InsertedKeeps DEF Good
<1>3. /\ c.order \in Seq(Key) /\ ~ Holds(c.order, k) /\ Len(c.order) \in Nat
      /\ c.index \in [Field -> [Value -> Key \cup {None}]] /\ Sound(c)
      /\ e.order \in Seq(Key) /\ Distinct(e.order)
      /\ \A j \in Key : Has(e, j) <=> Holds(e.order, j)
  BY <1>2, CacheParts DEF Good, CacheOK, Consistent
<1>4. Complete(e, Key \ {k})
  BY <1>2 DEF Good, Complete, Has
<1>5. Shows(e, shown, all)
  <2>1. UsedFirst(<<k>> \o c.order, all)
    <3> DEFINE s == c.order
    <3>1. s \in Seq(Key) /\ ~ Holds(s, k) /\ UsedFirst(s, used)
      BY <1>3 DEF Good, Shows
    <3> HIDE DEF s
    <3>2. UsedFirst(<<k>> \o s, used \cup {k})
      BY <3>1, PrependUsed
    <3> QED
      BY <3>2 DEF s
  <2>2. ASSUME NEW j \in Key, Has(e, j) PROVE e.entity[j] = shown[j]
    BY <1>2, <2>2 DEF Good, Shows, Has, Views
  <2>3. UsedFirst(e.order, all)
    BY <1>1, <2>1
  <2> QED
    BY <2>2, <2>3 DEF Shows
<1>6. shown \in Views
  BY DEF Views
<1>7. StillHas(c, e, Key)
  BY <1>2, EntityParts DEF StillHas, Has
<1>8. \A f \in Field, v \in Value : e.index[f][v] # k
  BY <1>2, <1>3 DEF Sound, Has
<1> HIDE DEF all
<1>9. CASE Len(e.order) <= MaxCached
  <2>1. d = e
    BY <1>1, <1>2, <1>3, <1>9 DEF Trim
  <2>2. StillHas(c, d, used)
    BY <1>7, <2>1 DEF StillHas
  <2> QED
    BY <1>1, <1>4, <1>5, <1>7, <1>8, <2>1, <2>2 DEF all, Came
<1>10. CASE Len(e.order) > MaxCached
  <2> DEFINE last == e.order[Len(e.order)]
  <2>1. d = Remove(e, last)
    BY <1>1, <1>10 DEF Trim
  <2>2. Len(e.order) \in Nat \ {0} /\ Len(e.order) \in 1 .. Len(e.order)
    BY <1>2, <1>3
  <2>3. last \in Key /\ Has(e, last)
    BY <1>3, <2>2 DEF Holds
  <2>4. last \notin all
    <3>1. Cardinality(all) \in Nat /\ Cardinality(all) < Len(e.order) /\ IsFiniteSet(all)
      BY <1>2, <1>3, <1>10, FS_CardinalityType DEF all
    <3> QED
      BY <1>3, <1>5, <3>1, LastUnused DEF Shows
  <2>5. last \in Key \ {k}
    BY <2>3, <2>4 DEF all
  <2> HIDE DEF last
  <2>6. /\ Complete(d, Key \ {k}) /\ Shows(d, [shown EXCEPT ![last] = Absent], all)
        /\ StillHas(e, d, Key \ {last})
    <3>1. /\ Complete(Remove(e, last), Key \ {k})
          /\ Shows(Remove(e, last), [shown EXCEPT ![last] = Absent], all)
          /\ StillHas(e, Remove(e, last), Key \ {last})
      BY <1>2, <1>4, <1>5, <1>6, <2>3, <2>5, RemoveShows
    <3> QED
      BY <2>1, <3>1
  <2>7. Shows(d, shown, all)
    <3>1. ~ Has(d, last)
      BY <1>2, <2>1, <2>3, RemoveKeeps
    <3>2. ASSUME NEW j \in Key, Has(d, j) PROVE d.entity[j] = shown[j]
      <4>1. j # last
        BY <3>1, <3>2
      <4> QED
        BY <1>6, <2>6, <3>2, <4>1 DEF Shows, Views
    <3> QED
      BY <2>6, <3>2 DEF Shows
  <2>8. ASSUME NEW f \in Field, NEW v \in Value PROVE d.index[f][v] # k
    <3>1. d.index = AfterEvit(e.index, e.entity[last])
      BY <2>1 DEF Remove
    <3>2. d.index[f][v] = None \/ d.index[f][v] = e.index[f][v]
      BY <3>1 DEF AfterEvit
    <3> QED
      BY <1>8, <3>2
  <2>9. StillHas(c, d, used)
    BY <1>7, <2>4, <2>6 DEF StillHas, all
  <2> QED
    BY <1>1, <2>6, <2>7, <2>8, <2>9 DEF all, Came
<1> QED
  BY <1>2, <1>3, <1>9, <1>10

(* If no index is taken, all are set *)
LEMMA AllAdded ==
  ASSUME NEW c, NEW entity, \A f \in Field : ~ Taken(c, entity, f)
  PROVE  Added(c, entity) = Field
<1>1. \A n \in DOMAIN Fields : \A i \in 1 .. n : i \in DOMAIN Fields
  <2>1. Fields \in Seq(STRING)
    BY DEF EntityCacheAssumption
  <2> QED
    BY <2>1
<1>2. \A n \in DOMAIN Fields : \A i \in 1 .. n : ~ Taken(c, entity, Fields[i])
  BY <1>1 DEF Field
<1> QED
  BY <1>2 DEF Added, Field

(* An entity is in the cache, and no used one was dropped *)
Stored(c, d, shown, used, k) ==
  Good(d, shown, used \cup {k}) /\ Has(d, k) /\ StillHas(c, d, used)

LEMMA SetGood ==
  ASSUME NEW c, NEW view \in Views, NEW used \in SUBSET Key, Good(c, view, used),
         NEW k \in Key, NEW entity \in Entity, OneOwner([view EXCEPT ![k] = entity]),
         IsFiniteSet(used \cup {k}), Cardinality(used \cup {k}) <= MaxCached
  PROVE  Stored(c, Set(c, k, entity), [view EXCEPT ![k] = entity], used, k)
<1> DEFINE e     == Evit(c, k)
           less  == [view EXCEPT ![k] = Absent]
           d     == Insert(e, k, entity)
           done  == AddIndexes(d, k, entity)
           shown == [view EXCEPT ![k] = entity]
<1>1. less \in Views /\ shown \in Views /\ [less EXCEPT ![k] = entity] = shown
  BY DEF Views
<1>2. Set(c, k, entity) = done
  BY DEF Set
<1>3. Good(e, less, used) /\ ~ Has(e, k) /\ StillHas(c, e, Key \ {k})
  BY EvitGood
<1>0. d = Insert(e, k, entity)
  OBVIOUS
<1> HIDE DEF d, e, less, shown
<1>4. /\ CacheOK(d) /\ d.entity[k] = entity /\ Complete(d, Key \ {k})
      /\ Shows(d, shown, used \cup {k}) /\ StillHas(e, d, used)
      /\ \A f \in Field, v \in Value : d.index[f][v] # k
  <2>1. less \in Views /\ Good(e, less, used) /\ ~ Has(e, k) /\ shown = [less EXCEPT ![k] = entity]
    BY <1>1, <1>3
  <2>2. Came(e, d, shown, used, k, entity)
    BY <1>0, <2>1, InsertShows, Zenon
  <2> QED
    BY <2>2 DEF Came
<1>5. Has(d, k) /\ d.index \in [Field -> [Value -> Key \cup {None}]] /\ Sound(d)
      /\ shown[k] = entity
  <2>1. Has(d, k)
    BY <1>4, EntityParts DEF Has
  <2>2. d.index \in [Field -> [Value -> Key \cup {None}]] /\ Sound(d)
    BY <1>4, CacheParts DEF CacheOK, Consistent
  <2>3. shown[k] = entity
    BY DEF shown, Views
  <2> QED
    BY <2>1, <2>2, <2>3
<1>6. ASSUME NEW f \in Field, Indexed(entity, f), NEW j \in Key, Has(d, j),
             d.entity[j].unique[f] = entity.unique[f]
      PROVE  j = k
  <2>1. entity.unique[f] \in Value
    BY <1>6, EntityParts DEF Indexed
  <2>2. shown[j] = d.entity[j] /\ shown[j] # Absent
    BY <1>4, <1>6 DEF Shows, Has
  <2>3. j \in RowWith(shown, f, entity.unique[f]) /\ k \in RowWith(shown, f, entity.unique[f])
    BY <1>5, <1>6, <2>2, EntityParts DEF RowWith
  <2>4. OneOwner(shown)
    BY DEF shown
  <2> QED
    BY <2>1, <2>3, <2>4 DEF OneOwner
<1>7. Added(d, entity) = Field
  <2>1. ASSUME NEW f \in Field, Taken(d, entity, f) PROVE FALSE
    <3> DEFINE j == d.index[f][entity.unique[f]]
    <3>1. Indexed(entity, f) /\ entity.unique[f] \in Value /\ j # None
      BY <2>1, EntityParts DEF Taken, Indexed
    <3>2. j \in Key /\ Has(d, j) /\ d.entity[j].unique[f] = entity.unique[f]
      BY <1>5, <3>1 DEF Sound
    <3>3. j # k
      BY <1>4, <3>1
    <3> QED
      BY <1>6, <3>1, <3>2, <3>3
  <2> QED
    BY <2>1, AllAdded
<1>8. CacheOK(done) /\ done.entity = d.entity
  BY <1>4, AddIndexesKeeps
<1>9. /\ done.order = d.order
      /\ \A f \in Field, v \in Value :
           done.index[f][v] = IF v = entity.unique[f] THEN k ELSE d.index[f][v]
  <2>1. d \in Cache
    BY <1>4 DEF CacheOK, Consistent
  <2>2. /\ done.order = d.order
        /\ done.index = [f \in Field |-> [v \in Value |->
             IF f \in Added(d, entity) /\ v = entity.unique[f] THEN k ELSE d.index[f][v]]]
    BY <2>1, CacheParts DEF AddIndexes
  <2> HIDE DEF done
  <2> QED
    BY <1>7, <2>2
<1> HIDE DEF done
<1>10. Complete(done, Key)
  <2> SUFFICES ASSUME NEW j \in Key, Has(done, j), NEW f \in Field, Indexed(done.entity[j], f)
               PROVE  done.index[f][done.entity[j].unique[f]] = j
    BY DEF Complete
  <2> DEFINE v == d.entity[j].unique[f]
  <2>1. /\ Has(d, j) /\ d.entity[j] \in Entity /\ done.entity[j] = d.entity[j]
        /\ Indexed(d.entity[j], f)
    BY <1>4, <1>8, CacheParts DEF Has, CacheOK, Consistent
  <2>2. v \in Value
    BY <2>1, EntityParts DEF Indexed
  <2>3. CASE j = k
    BY <1>4, <1>9, <2>1, <2>2, <2>3
  <2>4. CASE j # k
    <3>1. d.index[f][v] = j
      BY <1>4, <2>1, <2>4 DEF Complete
    <3>2. v # entity.unique[f]
      <4>1. v = entity.unique[f] => Indexed(entity, f)
        BY <2>1 DEF Indexed
      <4> QED
        BY <1>6, <2>1, <2>4, <4>1
    <3> QED
      BY <1>9, <2>1, <2>2, <3>1, <3>2
  <2> QED
    BY <2>3, <2>4
<1>11. Shows(done, shown, used \cup {k})
  BY <1>4, <1>8, <1>9 DEF Shows, Has
<1>12. StillHas(c, done, used)
  <2>1. ASSUME NEW j \in used, Has(c, j) PROVE Has(done, j)
    <3>1. CASE j = k
      BY <1>5, <1>8, <3>1 DEF Has
    <3>2. CASE j # k
      BY <1>3, <1>4, <1>8, <2>1, <3>2 DEF StillHas, Has
    <3> QED
      BY <3>1, <3>2
  <2> QED
    BY <2>1 DEF StillHas
<1> QED
  BY <1>2, <1>5, <1>8, <1>10, <1>11, <1>12 DEF Good, shown, Has, Stored

LEMMA RefreshGood ==
  ASSUME NEW c, NEW view \in Views, NEW used \in SUBSET Key, Good(c, view, used),
         NEW k \in Key, Has(c, k), NEW modified \in Entity,
         OneOwner([view EXCEPT ![k] = modified]),
         IsFiniteSet(used \cup {k}), Cardinality(used \cup {k}) <= MaxCached
  PROVE  Stored(c, RefreshCached(c, k, modified), [view EXCEPT ![k] = modified], used, k)
<1> DEFINE d     == RefreshCached(c, k, modified)
           shown == [view EXCEPT ![k] = modified]
<1>1. CASE HasUniqueProperty(c.entity[k], modified)
  <2> DEFINE e    == Evit(c, k)
             less == [view EXCEPT ![k] = Absent]
  <2>1. less \in Views /\ [less EXCEPT ![k] = modified] = shown
    BY DEF Views
  <2>2. Good(e, less, used) /\ StillHas(c, e, Key \ {k})
    BY EvitGood
  <2>3. d = Set(e, k, modified)
    BY <1>1 DEF RefreshCached
  <2> HIDE DEF e, less, d
  <2>4. Good(d, shown, used \cup {k}) /\ Has(d, k) /\ StillHas(e, d, used)
    BY <2>1, <2>2, <2>3, SetGood DEF Stored
  <2>5. StillHas(c, d, used)
    BY <2>2, <2>4 DEF StillHas
  <2> QED
    BY <2>4, <2>5 DEF d, Stored
<1>2. CASE ~ HasUniqueProperty(c.entity[k], modified)
  <2> DEFINE e == Touch(c, k)
  <2>1. Good(e, view, used \cup {k}) /\ e.entity = c.entity /\ e.index = c.index
    BY TouchGood
  <2>2. d = [e EXCEPT !.entity = [@ EXCEPT ![k] = modified]] /\ CacheOK(d)
    BY <1>2, RefreshKeeps DEF RefreshCached, Good
  <2> HIDE DEF d, e
  <2>3. e \in Cache /\ e.entity \in [Key -> Entity \cup {Absent}]
    BY <2>1, CacheParts DEF Good, CacheOK, Consistent
  <2>4. /\ d.entity[k] = modified /\ \A j \in Key : j # k => d.entity[j] = c.entity[j]
        /\ d.index = c.index /\ d.order = e.order
    BY <2>1, <2>2, <2>3, CacheParts
  <2>5. \A j \in Key : Has(d, j) <=> Has(c, j)
    BY <2>4, EntityParts DEF Has
  <2>6. \A j \in Key : Has(d, j) => d.entity[j].unique = c.entity[j].unique
    BY <1>2, <2>4 DEF HasUniqueProperty
  <2>7. Complete(d, Key)
    BY <2>4, <2>5, <2>6 DEF Good, Complete, Indexed
  <2>8. Shows(d, shown, used \cup {k})
    <3>1. UsedFirst(d.order, used \cup {k})
      BY <2>1, <2>4 DEF Good, Shows
    <3>2. \A j \in Key : Has(d, j) => d.entity[j] = shown[j]
      BY <2>4, <2>5 DEF Good, Shows, Views
    <3> QED
      BY <3>1, <3>2 DEF Shows
  <2> QED
    BY <2>2, <2>5, <2>7, <2>8 DEF d, Good, StillHas, Stored
<1> QED
  BY <1>1, <1>2

-----------------------------------------------------------------------------
(* What the session finds *)

LEMMA OverlayView == Overlay = View(table, pending)
BY DEF Overlay, View

LEMMA OneOwnerLess ==
  ASSUME NEW view \in Views, OneOwner(view), NEW k \in Key
  PROVE  OneOwner([view EXCEPT ![k] = Absent])
<1> DEFINE less == [view EXCEPT ![k] = Absent]
<1>1. \A j \in Key : less[j] = Absent \/ less[j] = view[j]
  BY DEF Views
<1> HIDE DEF less
<1>2. \A f \in Field, v \in Value : RowWith(less, f, v) \subseteq RowWith(view, f, v)
  BY <1>1 DEF RowWith
<1> QED
  BY <1>2 DEF OneOwner, less

(* The parts of the invariant, for the session *)
LEMMA ViewParts ==
  ASSUME ViewInv
  PROVE  /\ table \in Views /\ pending \in Seq(Changes) /\ Overlay \in Views
         /\ Overlay = View(table, pending)
         /\ Good(cache, Overlay, touched) /\ Pinned(cache, Overlay, pending)
         /\ touched \in SUBSET Key /\ Changed(pending) \subseteq touched
         /\ IsFiniteSet(touched) /\ Cardinality(touched) <= TouchLimit
         /\ OneOwner(Overlay) /\ OneOwner(table)
<1>1. table \in Views /\ pending \in Seq(Changes) /\ Overlay \in Views
  BY OverlayType DEF ViewInv, IInv, Views
<1>2. Overlay = View(table, pending)
  BY OverlayView
<1>3. 0 \in 0 .. Len(pending) /\ Len(pending) \in 0 .. Len(pending)
  BY <1>1
<1>4. Until(pending, Len(pending)) = pending
  BY <1>1, <1>3, UntilOf
<1>5. View(table, Until(pending, 0)) = table
  <2>1. Until(pending, 0) \in Seq(Changes) /\ Len(Until(pending, 0)) = 0
    BY <1>1, <1>3, UntilOf
  <2>2. Until(pending, 0) = <<>>
    BY <2>1
  <2> QED
    BY <1>1, <2>2, ViewEmpty DEF Views
<1>6. OneOwner(Overlay) /\ OneOwner(table)
  BY <1>2, <1>3, <1>4, <1>5 DEF ViewInv, ViewOK, Owned
<1> QED
  BY <1>1, <1>2, <1>6 DEF ViewInv, ViewOK

(* What is not cached is in the table *)
LEMMA TableShows ==
  ASSUME ViewInv, NEW k \in Key, ~ Has(cache, k), Overlay[k] # Absent
  PROVE  table[k] = Overlay[k]
<1>1. k \notin Changed(pending)
  BY ViewParts DEF Pinned
<1> QED
  BY <1>1, ViewParts, ViewUnchanged

LEMMA KnownShows ==
  ASSUME ViewInv, NEW k \in Key
  PROVE  Known(k) <=> Overlay[k] # Absent
<1>1. Has(cache, k) => Overlay[k] # Absent
  BY ViewParts DEF Good, Shows, Has
<1> QED
  BY <1>1, TableShows DEF Known

LEMMA TrackedShows ==
  ASSUME ViewInv, NEW k \in Key, Known(k)
  PROVE  Tracked(k).entity[k] = Overlay[k] /\ Overlay[k] \in Entity
<1>1. Overlay[k] \in Entity
  BY KnownShows, ViewParts DEF Views
<1>2. CASE Has(cache, k)
  <2>1. Tracked(k).entity = cache.entity
    BY <1>2, ViewParts, TouchKeeps DEF Tracked, Good
  <2> QED
    BY <1>1, <1>2, <2>1, ViewParts DEF Good, Shows
<1>3. CASE ~ Has(cache, k)
  <2>1. table[k] = Overlay[k]
    BY <1>3, KnownShows, TableShows
  <2>2. Set(cache, k, table[k]).entity[k] = table[k]
    BY <1>1, <2>1, ViewParts, SetKeeps DEF Good
  <2> QED
    BY <1>1, <1>3, <2>1, <2>2 DEF Tracked
<1> QED
  BY <1>2, <1>3

(* A unique field finds the entity that has the value *)
LEMMA FindsOwner ==
  ASSUME ViewInv, NEW f \in Field, NEW v \in Value, NEW k \in RowWith(Overlay, f, v)
  PROVE  Find(f, v) = {k}
<1>1. k \in Key /\ Overlay[k] # Absent /\ Overlay[k].unique[f] = v
  BY DEF RowWith
<1>2. /\ Sound(cache) /\ cache.index \in [Field -> [Value -> Key \cup {None}]]
      /\ Complete(cache, Key) /\ \A j \in Key : Has(cache, j) => cache.entity[j] = Overlay[j]
  BY ViewParts, CacheParts DEF Good, CacheOK, Consistent, Shows
<1>3. CASE cache.index[f][v] # None
  <2> DEFINE j == cache.index[f][v]
  <2>1. j \in Key /\ Has(cache, j) /\ cache.entity[j].unique[f] = v
    BY <1>2, <1>3 DEF Sound
  <2>2. j \in RowWith(Overlay, f, v)
    BY <1>2, <2>1 DEF RowWith, Has
  <2>3. j = k
    BY <2>2, ViewParts DEF OneOwner
  <2> QED
    BY <1>3, <2>3 DEF Find, GetUnique
<1>4. CASE cache.index[f][v] = None
  <2>1. ~ Has(cache, k)
    <3> SUFFICES ASSUME Has(cache, k) PROVE FALSE
      OBVIOUS
    <3>1. cache.entity[k].unique[f] = v /\ Indexed(cache.entity[k], f)
      BY <1>1, <1>2, EntityCacheAssumption DEF Indexed
    <3>2. cache.index[f][v] = k
      BY <1>1, <1>2, <3>1 DEF Complete
    <3> QED
      BY <1>1, <1>4, <3>2, EntityCacheAssumption
  <2>2. table[k] = Overlay[k]
    BY <1>1, <2>1, TableShows
  <2>3. k \in RowWith(table, f, v)
    BY <1>1, <2>2 DEF RowWith
  <2>4. \A j \in RowWith(table, f, v) : j = k
    BY <2>3, ViewParts DEF OneOwner
  <2>5. RowWith(table, f, v) = {k}
    BY <2>3, <2>4
  <2> QED
    BY <1>4, <2>5 DEF Find, GetUnique
<1> QED
  BY <1>3, <1>4

(* An entity with free values keeps them unique *)
LEMMA FreeValues ==
  ASSUME ViewInv, NEW k \in Key, NEW entity \in Entity, IsFree(entity, k)
  PROVE  OneOwner([Overlay EXCEPT ![k] = entity])
<1> DEFINE shown == [Overlay EXCEPT ![k] = entity]
<1>1. Overlay \in Views /\ OneOwner(Overlay)
  BY ViewParts
<1>2. shown[k] = entity /\ \A j \in Key : j # k => shown[j] = Overlay[j]
  BY <1>1 DEF Views
<1> HIDE DEF shown
<1>3. ASSUME NEW f \in Field, NEW v \in Value, NEW j \in RowWith(shown, f, v), j # k,
             k \in RowWith(shown, f, v)
      PROVE  FALSE
  <2>1. j \in RowWith(Overlay, f, v) /\ entity.unique[f] = v
    BY <1>2, <1>3 DEF RowWith
  <2>2. Find(f, v) = {j}
    BY <2>1, FindsOwner
  <2>3. Indexed(entity, f)
    BY <2>1, EntityCacheAssumption DEF Indexed
  <2>4. Find(f, v) \subseteq {k}
    BY <2>1, <2>3 DEF IsFree
  <2> QED
    BY <1>3, <2>2, <2>4
<1>4. ASSUME NEW f \in Field, NEW v \in Value,
             NEW i \in RowWith(shown, f, v), NEW j \in RowWith(shown, f, v)
      PROVE  i = j
  <2>1. CASE i = k
    BY <1>3, <2>1
  <2>2. CASE j = k
    BY <1>3, <2>2
  <2>3. CASE i # k /\ j # k
    <3>1. i \in RowWith(Overlay, f, v) /\ j \in RowWith(Overlay, f, v)
      BY <1>2, <2>3 DEF RowWith
    <3> QED
      BY <1>1, <3>1 DEF OneOwner
  <2> QED
    BY <2>1, <2>2, <2>3
<1> QED
  BY <1>4 DEF OneOwner, shown

-----------------------------------------------------------------------------
(* The steps of the session *)

(* What is used fits into the cache *)
LEMMA UsedFits ==
  ASSUME Fits, ViewInv, NEW k \in Key, MayTouch(k)
  PROVE  /\ touched \cup {k} \in SUBSET Key /\ IsFiniteSet(touched \cup {k})
         /\ Cardinality(touched \cup {k}) <= TouchLimit
         /\ Cardinality(touched \cup {k}) <= MaxCached
<1>1. touched \in SUBSET Key /\ IsFiniteSet(touched)
  BY ViewParts
<1>2. IsFiniteSet(touched \cup {k})
  BY <1>1, FS_AddElement
<1>3. Cardinality(touched \cup {k}) \in Nat
  BY <1>2, FS_CardinalityType
<1> QED
  BY <1>1, <1>2, <1>3, EntityCacheAssumption DEF MayTouch, Fits

LEMMA TrackedGood ==
  ASSUME Fits, ViewInv, NEW k \in Key, MayTouch(k), Known(k)
  PROVE  /\ Stored(cache, Tracked(k), Overlay, touched, k)
         /\ Tracked(k).entity[k] = Overlay[k] /\ Overlay[k] \in Entity
<1>1. Tracked(k).entity[k] = Overlay[k] /\ Overlay[k] \in Entity
  BY TrackedShows
<1>2. Good(cache, Overlay, touched) /\ Overlay \in Views /\ touched \in SUBSET Key
  BY ViewParts
<1>3. CASE Has(cache, k)
  <2>1. Tracked(k) = Touch(cache, k)
    BY <1>3 DEF Tracked
  <2>2. Good(Touch(cache, k), Overlay, touched \cup {k}) /\ Touch(cache, k).entity = cache.entity
    BY <1>2, <1>3, TouchGood
  <2> QED
    BY <1>1, <1>3, <2>1, <2>2 DEF Stored, StillHas, Has
<1>4. CASE ~ Has(cache, k)
  <2>1. table[k] = Overlay[k]
    BY <1>4, KnownShows, TableShows
  <2>2. [Overlay EXCEPT ![k] = table[k]] = Overlay
    BY <1>2, <2>1 DEF Views
  <2>3. OneOwner([Overlay EXCEPT ![k] = table[k]])
    BY <2>2, ViewParts
  <2>4. Stored(cache, Set(cache, k, table[k]), [Overlay EXCEPT ![k] = table[k]], touched, k)
    BY <1>1, <1>2, <2>1, <2>3, UsedFits, SetGood
  <2> QED
    BY <1>1, <1>4, <2>2, <2>4 DEF Tracked
<1> QED
  BY <1>3, <1>4

(* A change of an entity that is made in the cache *)
LEMMA ChangeKeeps ==
  ASSUME ViewInv, NEW k \in Key, NEW used \in SUBSET Key, used = touched \cup {k},
         IsFiniteSet(used), Cardinality(used) <= TouchLimit,
         NEW current \in Entity \cup {Absent},
         NEW shown, shown = [Overlay EXCEPT ![k] = current], OneOwner(shown),
         NEW d, Good(d, shown, used), current # Absent => Has(d, k),
         StillHas(cache, d, touched \ {k}),
         NEW changes, changes = Append(pending, Change(k, Overlay[k], current))
  PROVE  ViewOK(table, d, changes, used)
<1> DEFINE change == Change(k, Overlay[k], current)
<1>1. /\ table \in Views /\ pending \in Seq(Changes) /\ Overlay \in Views
      /\ Overlay = View(table, pending) /\ Pinned(cache, Overlay, pending)
      /\ Changed(pending) \subseteq touched
      /\ Linked(table, pending) /\ Owned(table, pending)
  BY ViewParts DEF ViewInv, ViewOK
<1>2. /\ change \in Changes /\ change.key = k /\ change.original = Overlay[k]
      /\ change.current = current
  BY <1>1 DEF Change, Changes, Views
<1> HIDE DEF change
<1>3. changes = Append(pending, change)
  BY DEF change
<1>4. [View(table, pending) EXCEPT ![change.key] = change.current] = shown
  BY <1>1, <1>2
<1>5. table \in [Key -> Entity \cup {Absent}]
  BY <1>1 DEF Views
<1>6. View(table, changes) = shown
  <2>1. View(table, Append(pending, change))
          = [View(table, pending) EXCEPT ![change.key] = change.current]
    <3>1. pending \in Seq(Changes) /\ change \in Changes
      BY <1>1, <1>2
    <3> QED
      BY ONLY <1>5, <3>1, ViewAppend, SMTT(60)
  <2> QED
    BY <1>3, <1>4, <2>1
<1>7. Linked(table, changes) /\ Owned(table, changes)
  <2>1. change.original = View(table, pending)[change.key]
    BY <1>1, <1>2
  <2>2. OneOwner([View(table, pending) EXCEPT ![change.key] = change.current])
    BY <1>4
  <2>3. Linked(table, Append(pending, change)) /\ Owned(table, Append(pending, change))
    BY <1>1, <1>2, <1>5, <2>1, <2>2, LinkedAppend
  <2> QED
    BY <1>3, <2>3
<1>8. Changed(changes) = Changed(pending) \cup {k}
  <2>1. /\ Len(pending) \in Nat /\ Len(changes) = Len(pending) + 1
        /\ changes[Len(pending) + 1] = change
        /\ \A n \in 1 .. Len(pending) : changes[n] = pending[n]
    BY <1>1, <1>2, <1>3
  <2> DEFINE len == Len(pending)
  <2>2. 1 .. len + 1 = 1 .. len \cup {len + 1}
    <3> HIDE DEF len
    <3>1. len \in Nat
      BY <2>1 DEF len
    <3> QED
      BY <3>1
  <2> QED
    BY <1>2, <2>1, <2>2 DEF Changed
<1>9. Pinned(d, shown, changes)
  <2> SUFFICES ASSUME NEW j \in Changed(pending) \cup {k}, shown[j] # Absent
               PROVE  Has(d, j)
    BY <1>8 DEF Pinned
  <2>1. CASE j = k
    BY <1>1, <2>1 DEF Views
  <2>2. CASE j # k
    <3>1. j \in Changed(pending) /\ j \in touched \ {k} /\ Overlay[j] # Absent
      BY <1>1, <2>2, ViewParts DEF Views
    <3> QED
      BY <1>1, <3>1 DEF Pinned, StillHas
  <2> QED
    BY <2>1, <2>2
<1> QED
  BY <1>1, <1>6, <1>7, <1>8, <1>9 DEF ViewOK

LEMMA LoadView ==
  ASSUME Fits, ViewInv, NEW k \in Key, Load(k)
  PROVE  ViewOK(table', cache', pending', touched')
<1>1. /\ MayTouch(k) /\ Known(k) /\ cache' = Tracked(k)
      /\ touched' = touched \cup {k} /\ table' = table /\ pending' = pending
  BY DEF Load
<1>2. Stored(cache, Tracked(k), Overlay, touched, k)
  BY <1>1, TrackedGood
<1>3. /\ touched \cup {k} \in SUBSET Key /\ IsFiniteSet(touched \cup {k})
      /\ Cardinality(touched \cup {k}) <= TouchLimit
  BY <1>1, UsedFits
<1>4. Pinned(Tracked(k), Overlay, pending)
  BY <1>2, ViewParts DEF Stored, StillHas, Pinned
<1>5. Overlay = View(table, pending) /\ Linked(table, pending) /\ Owned(table, pending)
      /\ Changed(pending) \subseteq touched
  BY ViewParts DEF ViewInv, ViewOK
<1>6. ViewOK(table, Tracked(k), pending, touched \cup {k})
  BY <1>2, <1>3, <1>4, <1>5 DEF Stored, ViewOK
<1> QED
  BY <1>1, <1>6

LEMMA CreateView ==
  ASSUME Fits, ViewInv, NEW k \in Key, NEW entity \in Entity, Create(k, entity)
  PROVE  ViewOK(table', cache', pending', touched')
<1> DEFINE d == Set(cache, k, entity)
           shown == [Overlay EXCEPT ![k] = entity]
<1>1. /\ MayTouch(k) /\ ~ Known(k) /\ IsFree(entity, k)
      /\ cache' = d /\ touched' = touched \cup {k} /\ table' = table
      /\ pending' = Append(pending, Change(k, Absent, entity))
  BY DEF Create
<1>2. Overlay[k] = Absent
  BY <1>1, KnownShows
<1>3. OneOwner(shown)
  BY <1>1, FreeValues
<1>4. /\ touched \cup {k} \in SUBSET Key /\ IsFiniteSet(touched \cup {k})
      /\ Cardinality(touched \cup {k}) <= TouchLimit
      /\ Cardinality(touched \cup {k}) <= MaxCached
  BY <1>1, UsedFits
<1>5. Stored(cache, d, shown, touched, k)
  BY <1>3, <1>4, ViewParts, SetGood
<1> HIDE DEF d
<1>6. Good(d, shown, touched \cup {k}) /\ Has(d, k) /\ StillHas(cache, d, touched \ {k})
  BY <1>5 DEF Stored, StillHas
<1> DEFINE changes == Append(pending, Change(k, Overlay[k], entity))
<1>7. shown = [Overlay EXCEPT ![k] = entity] /\ changes = Append(pending, Change(k, Overlay[k], entity))
  OBVIOUS
<1> HIDE DEF shown, changes
<1>8. ViewOK(table, d, changes, touched \cup {k})
  BY <1>3, <1>4, <1>6, <1>7, ChangeKeeps
<1> QED
  BY <1>1, <1>2, <1>8 DEF changes

LEMMA UpdateView ==
  ASSUME Fits, ViewInv, NEW k \in Key, NEW modified \in Entity, Update(k, modified)
  PROVE  ViewOK(table', cache', pending', touched')
<1> DEFINE t == Tracked(k)
           d == RefreshCached(t, k, modified)
           shown == [Overlay EXCEPT ![k] = modified]
           used == touched \cup {k}
<1>1. /\ MayTouch(k) /\ Known(k) /\ IsFree(modified, k)
      /\ cache' = d /\ touched' = used /\ table' = table
      /\ pending' = Append(pending, Change(k, t.entity[k], modified))
  BY DEF Update
<1>2. Stored(cache, t, Overlay, touched, k) /\ t.entity[k] = Overlay[k]
  BY <1>1, TrackedGood
<1>3. OneOwner(shown)
  BY <1>1, FreeValues
<1>4. /\ used \in SUBSET Key /\ IsFiniteSet(used) /\ Cardinality(used) <= TouchLimit
      /\ Cardinality(used) <= MaxCached /\ used \cup {k} = used /\ used = touched \cup {k}
  BY <1>1, UsedFits
<1> HIDE DEF t, used
<1>5. Stored(t, d, shown, used, k)
  <2>1. Good(t, Overlay, used) /\ Has(t, k) /\ Overlay \in Views
    BY <1>2, <1>4, ViewParts DEF Stored
  <2> QED
    BY <1>3, <1>4, <2>1, RefreshGood
<1> HIDE DEF d
<1>6. Good(d, shown, used) /\ Has(d, k) /\ StillHas(cache, d, touched \ {k})
  BY <1>2, <1>4, <1>5 DEF Stored, StillHas
<1> DEFINE changes == Append(pending, Change(k, Overlay[k], modified))
<1>7. shown = [Overlay EXCEPT ![k] = modified] /\ changes = Append(pending, Change(k, Overlay[k], modified))
  OBVIOUS
<1> HIDE DEF shown, changes
<1>8. ViewOK(table, d, changes, used)
  BY <1>3, <1>4, <1>6, <1>7, ChangeKeeps
<1> QED
  BY <1>1, <1>2, <1>8 DEF changes

LEMMA DeleteView ==
  ASSUME Fits, ViewInv, NEW k \in Key, Delete(k)
  PROVE  ViewOK(table', cache', pending', touched')
<1> DEFINE t == Tracked(k)
           d == Evit(t, k)
           shown == [Overlay EXCEPT ![k] = Absent]
           used == touched \cup {k}
<1>1. /\ MayTouch(k) /\ Known(k)
      /\ cache' = d /\ touched' = used /\ table' = table
      /\ pending' = Append(pending, Change(k, t.entity[k], Absent))
  BY DEF Delete
<1>2. Stored(cache, t, Overlay, touched, k) /\ t.entity[k] = Overlay[k]
  BY <1>1, TrackedGood
<1>3. OneOwner(shown)
  BY ViewParts, OneOwnerLess
<1>4. /\ used \in SUBSET Key /\ IsFiniteSet(used) /\ Cardinality(used) <= TouchLimit
      /\ used = touched \cup {k}
  BY <1>1, UsedFits
<1> HIDE DEF t, used
<1>5. Good(d, shown, used) /\ StillHas(t, d, Key \ {k})
  <2>1. Good(t, Overlay, used) /\ Overlay \in Views
    BY <1>2, <1>4, ViewParts DEF Stored
  <2> QED
    BY <2>1, EvitGood
<1> HIDE DEF d
<1>6. StillHas(cache, d, touched \ {k})
  BY <1>2, <1>4, <1>5 DEF Stored, StillHas
<1> DEFINE changes == Append(pending, Change(k, Overlay[k], Absent))
<1>7. shown = [Overlay EXCEPT ![k] = Absent] /\ changes = Append(pending, Change(k, Overlay[k], Absent))
  OBVIOUS
<1> HIDE DEF shown, changes
<1>8. ViewOK(table, d, changes, used)
  BY <1>3, <1>4, <1>5, <1>6, <1>7, ChangeKeeps
<1> QED
  BY <1>1, <1>2, <1>8 DEF changes

(* Nothing is pending and nothing used *)
LEMMA SettledView ==
  ASSUME TouchLimit \in Nat, NEW rows \in Views, OneOwner(rows),
         NEW c, CacheOK(c), Complete(c, Key),
         \A k \in Key : Has(c, k) => c.entity[k] = rows[k]
  PROVE  ViewOK(rows, c, <<>>, {})
<1>1. View(rows, <<>>) = rows
  BY ViewEmpty DEF Views
<1>2. Changed(<<>>) = {}
  BY DEF Changed
<1>3. IsFiniteSet({}) /\ Cardinality({}) <= TouchLimit
  BY FS_EmptySet
<1>4. Linked(rows, <<>>)
  BY DEF Linked
<1>5. Owned(rows, <<>>)
  <2>1. <<>> \in Seq(Changes) /\ Len(<<>>) = 0
    OBVIOUS
  <2>2. Until(<<>>, 0) = <<>>
    BY <2>1, SubSeqEmpty DEF Until
  <2>3. 0 .. Len(<<>>) = {0}
    BY <2>1
  <2> QED
    BY <1>1, <2>2, <2>3 DEF Owned
<1>6. Good(c, rows, {})
  BY DEF Good, Shows, UsedFirst
<1> QED
  BY <1>1, <1>2, <1>3, <1>4, <1>5, <1>6 DEF ViewOK, Pinned

LEMMA EmptyCacheView == Complete(EmptyCache, Key) /\ \A k \in Key : ~ Has(EmptyCache, k)
BY DEF EmptyCache, Has, Complete

LEMMA CommitView ==
  ASSUME Fits, ViewInv, Commit
  PROVE  ViewOK(table', cache', pending', touched')
<1>1. table' = Overlay /\ cache' = cache /\ pending' = <<>> /\ touched' = {}
  BY DEF Commit
<1>2. ViewOK(Overlay, cache, <<>>, {})
  BY ViewParts, SettledView DEF Fits, Good, Shows
<1> QED
  BY <1>1, <1>2

LEMMA ClearView ==
  ASSUME Fits, ViewInv, Clear
  PROVE  ViewOK(table', cache', pending', touched')
<1>1. table' = table /\ cache' = EmptyCache /\ pending' = <<>> /\ touched' = {}
  BY DEF Clear
<1>2. ViewOK(table, EmptyCache, <<>>, {})
  BY ViewParts, SettledView, EmptyCacheOK, EmptyCacheView DEF Fits
<1> QED
  BY <1>1, <1>2

LEMMA UndoView ==
  ASSUME Fits, ViewInv, Undo
  PROVE  ViewOK(table', cache', pending', touched')
<1> DEFINE last  == pending[Len(pending)]
           front == Until(pending, Len(pending) - 1)
           k     == last.key
           shown == [Overlay EXCEPT ![k] = last.original]
           d     == Undone(cache, last)
<1>1. /\ pending # <<>> /\ table' = table /\ cache' = d /\ pending' = front
      /\ touched' = touched
  BY DEF Undo, Until
<1>2. /\ Good(cache, Overlay, touched) /\ Pinned(cache, Overlay, pending)
      /\ Changed(pending) \subseteq touched /\ touched \in SUBSET Key
      /\ Overlay \in Views /\ OneOwner(Overlay)
      /\ IsFiniteSet(touched) /\ Cardinality(touched) <= TouchLimit
  BY ViewParts
<1>3. /\ front \in Seq(Changes) /\ last \in Changes
      /\ Linked(table, front) /\ Owned(table, front) /\ OneOwner(View(table, front))
      /\ View(table, front) = [View(table, pending) EXCEPT ![last.key] = last.original]
      /\ View(table, pending)[last.key] = last.current
      /\ Changed(front) \subseteq Changed(pending) /\ last.key \in Changed(pending)
  <2>1. /\ table \in [Key -> Entity \cup {Absent}] /\ pending \in Seq(Changes)
        /\ Linked(table, pending) /\ Owned(table, pending)
    BY ViewParts DEF ViewInv, ViewOK, Views
  <2> QED
    BY <1>1, <2>1, LinkedFront
<1>4. /\ View(table, front) = shown /\ OneOwner(shown) /\ Overlay[k] = last.current
      /\ k \in touched /\ k \in Key /\ touched \cup {k} = touched
      /\ last.original \in Entity \cup {Absent}
  <2>1. last.original \in Entity \cup {Absent}
    BY <1>3 DEF Changes
  <2> QED
    BY <1>2, <1>3, <2>1, ViewParts
<1>5. Cardinality(touched) <= MaxCached
  <2>1. Cardinality(touched) \in Nat
    BY <1>2, FS_CardinalityType
  <2> QED
    BY <1>2, <2>1, EntityCacheAssumption DEF Fits
<1> HIDE DEF k, shown, front
<1>6. /\ Good(d, shown, touched) /\ StillHas(cache, d, touched \ {k})
      /\ last.original # Absent => Has(d, k)
  <2>1. CASE last.original = Absent
    <3>1. d = Evit(cache, k) /\ shown = [Overlay EXCEPT ![k] = Absent]
      BY <2>1 DEF Undone, k, shown
    <3>2. /\ Good(Evit(cache, k), [Overlay EXCEPT ![k] = Absent], touched)
          /\ StillHas(cache, Evit(cache, k), Key \ {k})
      BY <1>2, <1>4, EvitGood
    <3> QED
      BY <1>2, <2>1, <3>1, <3>2 DEF StillHas
  <2>2. CASE last.original # Absent
    <3>1. Stored(cache, d, shown, touched, k)
      <4>1. last.original \in Entity /\ shown = [Overlay EXCEPT ![k] = last.original]
        BY <1>4, <2>2 DEF k, shown
      <4>2. OneOwner([Overlay EXCEPT ![k] = last.original])
        BY <1>4, <4>1
      <4>3. IsFiniteSet(touched \cup {k}) /\ Cardinality(touched \cup {k}) <= MaxCached
        BY <1>2, <1>4, <1>5
      <4>4. CASE last.current = Absent
        <5>1. d = Set(cache, k, last.original)
          BY <2>2, <4>4 DEF Undone, k
        <5>2. Stored(cache, Set(cache, k, last.original), [Overlay EXCEPT ![k] = last.original], touched, k)
          BY <1>2, <1>4, <4>1, <4>2, <4>3, SetGood
        <5> QED
          BY <4>1, <5>1, <5>2
      <4>5. CASE last.current # Absent
        <5>1. d = RefreshCached(cache, k, last.original)
          BY <2>2, <4>5 DEF Undone, k
        <5>2. Has(cache, k)
          BY <1>2, <1>3, <1>4, <4>5 DEF Pinned, k
        <5>3. Stored(cache, RefreshCached(cache, k, last.original),
                     [Overlay EXCEPT ![k] = last.original], touched, k)
          BY <1>2, <1>4, <4>1, <4>2, <4>3, <5>2, RefreshGood
        <5> QED
          BY <4>1, <5>1, <5>3
      <4> QED
        BY <4>4, <4>5
    <3> QED
      BY <1>4, <3>1 DEF Stored, StillHas
  <2> QED
    BY <2>1, <2>2
<1> HIDE DEF d
<1>7. Pinned(d, shown, front)
  <2> SUFFICES ASSUME NEW j \in Changed(front), shown[j] # Absent
               PROVE  Has(d, j)
    BY DEF Pinned
  <2>1. CASE j = k
    BY <1>2, <1>4, <1>6, <2>1 DEF Views, shown
  <2>2. CASE j # k
    <3>1. j \in Changed(pending) /\ j \in touched \ {k} /\ Overlay[j] # Absent
      BY <1>2, <1>3, <2>2 DEF Views, shown
    <3> QED
      BY <1>2, <1>6, <3>1 DEF Pinned, StillHas
  <2> QED
    BY <2>1, <2>2
<1>8. ViewOK(table, d, front, touched)
  BY <1>2, <1>3, <1>4, <1>6, <1>7 DEF ViewOK
<1> QED
  BY <1>1, <1>8

LEMMA ViewInit ==
  ASSUME Fits, Init
  PROVE  ViewInv
<1>1. /\ table = [k \in Key |-> Absent] /\ cache = EmptyCache
      /\ pending = <<>> /\ touched = {}
  BY DEF Init
<1>2. table \in Views /\ OneOwner(table)
  BY <1>1 DEF Views, OneOwner, RowWith
<1>3. ViewOK(table, EmptyCache, <<>>, {})
  BY <1>2, SettledView, EmptyCacheOK, EmptyCacheView DEF Fits
<1>4. IInv
  BY <1>1, <1>2, EmptyCacheOK DEF IInv, Views
<1> QED
  BY <1>1, <1>3, <1>4 DEF ViewInv

LEMMA ViewNext ==
  ASSUME Fits, ViewInv, IInv', [Next]_vars
  PROVE  ViewInv'
<1>1. ASSUME NEW k \in Key, Load(k)
      PROVE  ViewOK(table', cache', pending', touched')
  BY <1>1, LoadView
<1>2. ASSUME NEW f \in Field, NEW v \in Value, LoadUnique(f, v)
      PROVE  ViewOK(table', cache', pending', touched')
  <2>1. PICK k \in Find(f, v) : Load(k)
    BY <1>2 DEF LoadUnique
  <2>2. k \in Key
    <3>1. cache.index[f][v] \in Key \cup {None}
      BY ViewParts, CacheParts DEF Good, CacheOK, Consistent
    <3> QED
      BY <2>1, <3>1 DEF Find, GetUnique, RowWith
  <2> QED
    BY <2>1, <2>2, LoadView
<1>3. ASSUME NEW k \in Key, NEW entity \in Entity, Create(k, entity) \/ Update(k, entity)
      PROVE  ViewOK(table', cache', pending', touched')
  BY <1>3, CreateView, UpdateView
<1>4. ASSUME NEW k \in Key, Delete(k)
      PROVE  ViewOK(table', cache', pending', touched')
  BY <1>4, DeleteView
<1>5. CASE Commit \/ Undo \/ Clear
  BY <1>5, CommitView, UndoView, ClearView DEF ViewInv
<1>6. CASE UNCHANGED vars
  <2>1. table' = table /\ cache' = cache /\ pending' = pending /\ touched' = touched
    BY <1>6 DEF vars
  <2> QED
    BY <2>1 DEF ViewInv
<1>7. CASE Next
  <2>1. ViewOK(table', cache', pending', touched') \/ Commit \/ Undo \/ Clear
    BY <1>1, <1>2, <1>3, <1>4, <1>7 DEF Next
  <2> QED
    BY <1>5, <2>1 DEF ViewInv
<1> QED
  BY <1>6, <1>7

LEMMA ViewInvariant == Fits => (Spec => []ViewInv)
<1> SUFFICES ASSUME Fits PROVE Spec => []ViewInv
  OBVIOUS
<1>1. Init => ViewInv
  BY ViewInit
<1>2. ViewInv /\ IInv' /\ [Next]_vars => ViewInv'
  BY ViewNext
<1> QED
  BY <1>1, <1>2, Invariant, PTL DEF Spec

-----------------------------------------------------------------------------
(***************************************************************************)
(* Whatever the cache has dropped, a session finds every entity as the     *)
(* pending changes left it, by its key and by its unique fields, also      *)
(* after changes were undone: if the entities used between two commits fit *)
(* into the cache (DbSession.load and its sessions, LRUEntityCache).       *)
(***************************************************************************)
THEOREM PendingVisibleCorrect == Fits => (Spec => []PendingVisible)
<1> SUFFICES ASSUME Fits PROVE Spec => []PendingVisible
  OBVIOUS
<1>1. ViewInv => PendingVisible
  BY KnownShows, TrackedShows, FindsOwner DEF PendingVisible
<1> QED
  BY <1>1, ViewInvariant, PTL

(***************************************************************************)
(* A value of a unique field never has two entities, in the cache, the     *)
(* table or the pending changes: no commit fails on a unique index because *)
(* a contract looked for the value first and the cache answered wrongly.   *)
(***************************************************************************)
THEOREM UniqueValuesCorrect == Fits => (Spec => []UniqueValues)
<1> SUFFICES ASSUME Fits PROVE Spec => []UniqueValues
  OBVIOUS
<1>1. ViewInv => UniqueValues
  <2> SUFFICES ASSUME ViewInv, NEW f \in Field, NEW v \in Value
               PROVE  Cardinality(RowWith(Overlay, f, v)) <= 1
    BY DEF UniqueValues
  <2>1. \A i, j \in RowWith(Overlay, f, v) : i = j
    BY ViewParts DEF OneOwner
  <2>2. CASE RowWith(Overlay, f, v) = {}
    BY <2>2, FS_EmptySet
  <2>3. CASE RowWith(Overlay, f, v) # {}
    <3>1. PICK k : RowWith(Overlay, f, v) = {k}
      BY <2>1, <2>3
    <3>2. Cardinality({k}) = 1
      BY FS_Singleton, Zenon
    <3> QED
      BY <3>1, <3>2
  <2> QED
    BY <2>2, <2>3
<1> QED
  BY <1>1, ViewInvariant, PTL

=============================================================================
