------------------------------- MODULE Words -------------------------------
(***************************************************************************)
(* C unsigned integers as sets of bit positions: the value of a w-bit word *)
(* is the set of the positions of its one bits, so that a | b is a union,  *)
(* a & b an intersection, and overlapping fields stay visible as such.     *)
(***************************************************************************)
EXTENDS Integers, FiniteSets

\* The w-bit words.
WordOf(w) == SUBSET (0 .. w - 1)

\* The word of a natural number below 2^31 (TLC's integers end there).
Bits(n) == {b \in 0 .. 30 : (n \div 2^b) % 2 = 1}

\* v << k in a w-bit integer: bits shifted beyond the width are lost.
Shl(v, k, w) == {b + k : b \in v} \cap (0 .. w - 1)

\* (v >> lo) & (2^w - 1).
Field(v, lo, w) == {b \in 0 .. w - 1 : b + lo \in v}

\* v + 1 in a 32-bit integer: the carry clears the low run of ones.
Increment(v) ==
    LET carry == {b \in 0 .. 31 : 0 .. b \subseteq v}
        top   == Cardinality(carry)
    IN  (v \ carry) \cup ({top} \cap (0 .. 31))

\* The position of the lowest one bit of a nonzero word (ffs(v) - 1).
LowestBit(v) == CHOOSE b \in v : \A c \in v : b <= c
=============================================================================
