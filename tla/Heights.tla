------------------------------ MODULE Heights -------------------------------
(***************************************************************************)
(* Heights of blocks, as SmartDB compares them and keeps rows by them.     *)
(***************************************************************************)
EXTENDS Integers

CONSTANT Radix   \* base of the numerals heights are written in, 10

(***************************************************************************)
(* Heights are strings of digits.  Where the source compares two of them   *)
(* with > as strings, the longer one is greater only if its first digits   *)
(* are no smaller than the shorter one: '12' > '1', but not '10' > '9'.    *)
(***************************************************************************)
Digits(height) ==
  CHOOSE k \in 1 .. height + 1 :
    height < Radix ^ k /\ \A j \in 1 .. k - 1 : height >= Radix ^ j

GreaterAsText(height, other) ==    \* for height >= other
  IF Digits(height) = Digits(other)
  THEN height > other
  ELSE height \div (Radix ^ (Digits(height) - Digits(other))) >= other

-----------------------------------------------------------------------------
(* What is kept by height: blocks, and changes of entities *)

WithRows(rows, more) ==
  [h \in DOMAIN rows \cup DOMAIN more |-> IF h \in DOMAIN more THEN more[h] ELSE rows[h]]

WithRow(rows, height, row) == WithRows(rows, [h \in {height} |-> row])

=============================================================================
