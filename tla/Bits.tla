-------------------------------- MODULE Bits --------------------------------
(***************************************************************************)
(* Powers of two, the bitwise operators of Go on unsigned numbers, and the *)
(* runs of numbers that share all their bits but the last.                 *)
(*                                                                         *)
(* The community module Bitwise declares its operators RECURSIVE, which    *)
(* nothing can be proved about; here they are recursive functions.  The    *)
(* other operators come down to the bitwise and.                           *)
(***************************************************************************)
EXTENDS Integers

Pow2[n \in Nat] == IF n = 0 THEN 1 ELSE 2 * Pow2[n - 1]

LastBits(x, y) == (x % 2) * (y % 2)

BitAnd[x \in Nat] ==
  [y \in Nat |-> IF x = 0 THEN 0
                 ELSE 2 * BitAnd[x \div 2][y \div 2] + LastBits(x, y)]

\* A bit set in both numbers counts twice in their sum.
BitOr(x, y)  == x + y - BitAnd[x][y]
BitXor(x, y) == x + y - 2 * BitAnd[x][y]

\* Shifts of a word of so many bits drop what leaves it; a negative count,
\* taken as unsigned, leaves nothing.
ShiftedLeft(x, n, bits) == IF n < 0 THEN 0 ELSE (x * Pow2[n]) % Pow2[bits]
ShiftedRight(x, n) == x \div Pow2[n]

\* The numbers below m that agree with i in all but their last k bits.
Alike(i, k, m) == {j \in 0 .. m - 1 : j \div Pow2[k] = i \div Pow2[k]}
AlignedRuns(m) == {Alike(i, k, m) : i \in 0 .. m - 1, k \in 0 .. m}
=============================================================================
