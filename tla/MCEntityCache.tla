--------------------------- MODULE MCEntityCache ----------------------------
(* Instances of EntityCache small enough for TLC *)
EXTENDS EntityCache, TLC

TwoFields == <<"username", "publicKey">>

Interchangeable == Permutations(Key) \cup Permutations(Value)

=============================================================================
