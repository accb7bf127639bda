----------------------------- MODULE BlockCache -----------------------------
(***************************************************************************)
(* BlockCache: the newest blocks of the Block table, by height, and the    *)
(* range of heights it believes to hold.                                   *)
(***************************************************************************)
EXTENDS Heights, FiniteSets, Functions, FiniteSetsExt

EmptyBlockCache == [blocks |-> [h \in {} |-> {}], min |-> -1, max |-> -1]

CanPush(c, height) == c.max >= 0 => height = c.max + 1

(* The lowest height of the range goes when there are too many blocks *)
Pushed(c, height, blocks, maxCached) ==
  LET min  == IF c.min = -1 THEN height ELSE c.min
      full == Cardinality(DOMAIN blocks) > maxCached
  IN  [blocks |-> IF full THEN RestrictDomain(blocks, LAMBDA h : h # min) ELSE blocks,
       min    |-> IF full THEN min + 1 ELSE min,
       max    |-> height]

(* Mutant: a block that is cached already is not replaced *)
PushBlockOnce(c, height, block, maxCached) ==
  Pushed(c, height,
         IF height \in DOMAIN c.blocks THEN c.blocks ELSE WithRow(c.blocks, height, block),
         maxCached)

PushBlock(c, height, block, maxCached) ==
  Pushed(c, height, WithRow(c.blocks, height, block), maxCached)

(***************************************************************************)
(* The lowest block of the range is never removed.  When it is all that is *)
(* left the range is empty, whatever blocks the cache still has.           *)
(***************************************************************************)
EvitUntil(c, minEvitHeight) ==
  LET height == Max({minEvitHeight, c.min})
      reset  == height = c.min
  IN  IF minEvitHeight > c.max
      THEN c
      ELSE [blocks |-> RestrictDomain(c.blocks, LAMBDA h : h \notin height + 1 .. c.max),
            min    |-> IF reset THEN -1 ELSE c.min,
            max    |-> IF reset \/ c.min = -1 THEN -1 ELSE height]

=============================================================================
