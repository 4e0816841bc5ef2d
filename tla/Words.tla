------------------------------- MODULE Words -------------------------------
(***************************************************************************)
(* Words of W bits, the registers of SASS and of PTX: 32 there, a few here *)
(* (the rules name the width only as 31 and 32, W - 1 and W below).        *)
(***************************************************************************)
EXTENDS Integers, FiniteSets

LOCAL INSTANCE FiniteSetsExt

CONSTANT W

ASSUME WidthAssumption == W \in Nat /\ W >= 3

Word == 0 .. (2^W - 1)

Wrap(x) == x % 2^W
Signed(x) == IF x < 2^(W - 1) THEN x ELSE x - 2^W
Bit(x, n) == (x \div 2^n) % 2

(* Bit W of a sum: the carry, or the borrow when the sum is negative. *)
Carry(sum) == (sum \div 2^W) % 2 = 1

(* Shifts by W or more leave nothing. *)
ShiftLeft(x, n) == IF n >= W THEN 0 ELSE Wrap(x * 2^n)
ShiftRight(x, n) == IF n >= W THEN 0 ELSE x \div 2^n

(* Shifted in are copies of the sign. *)
ShiftSigned(x, n) == Wrap(Signed(x) \div 2^(IF n > W THEN W ELSE n))

Ones(x) == {n \in 0..(W - 1) : Bit(x, n) = 1}
PopCount(x) == Cardinality(Ones(x))
Mirrored(x) == MapThenSumSet(LAMBDA n : 2^(W - 1 - n), Ones(x))
Leading(x) == IF x = 0 THEN 2^W - 1 ELSE CHOOSE n \in Ones(x) : \A m \in Ones(x) : m <= n

(* A mask of n ones from a position upwards. *)
Mask(position, n) == ShiftLeft(Wrap(ShiftLeft(1, n) - 1), position)

(* The upper word of hi:lo shifted left, the lower one shifted right. *)
FunnelLeft(lo, hi, n) == ((hi * 2^W + lo) * 2^n) \div 2^W % 2^W
FunnelRight(lo, hi, n) == ((hi * 2^W + lo) \div 2^n) % 2^W

(* The truth table lut, applied bit by bit; a is the high bit of its index. *)
Lookup(lut, a, b, c) == Bit(lut, 4 * a + 2 * b + c)

Lop3(a, b, c, lut) ==
  LET upTo[n \in 0..W] ==
        IF n = 0 THEN 0
        ELSE upTo[n - 1] + 2^(n - 1) * Lookup(lut, Bit(a, n - 1), Bit(b, n - 1), Bit(c, n - 1))
  IN  upTo[W]

(* Comparisons, by the name setp gives them. *)
Holds(cmp, x, y) ==
  CASE cmp = "EQ" -> x = y [] cmp = "NE" -> x # y
    [] cmp = "LT" -> x < y [] cmp = "LE" -> x <= y
    [] cmp = "GT" -> x > y [] cmp = "GE" -> x >= y
=============================================================================
