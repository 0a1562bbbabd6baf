------------------------------ MODULE Numbers ------------------------------
(* The machine's numbers. Integers have Width bits instead of 64. A float is *)
(* the multiple of a quarter nearest to it, or an infinity, or not a number; *)
(* it is written as an integer (its bits), so that a register or a memory    *)
(* cell of the machine always holds an integer.                              *)
EXTENDS Integers, Sequences

CONSTANTS Width,   \* bits of an int: 64 in the code
          One      \* the bits of 1.0: four quarters

MinInt == -(2^(Width - 1))
MaxInt == 2^(Width - 1) - 1
Fits(n) == n \in MinInt..MaxInt

\* Two's complement: what is left of a result that does not fit.
Wrap(n) == ((n - MinInt) % 2^Width) + MinInt

\* C's integer division truncates towards zero; floor division does not.
Abs(n) == IF n < 0 THEN -n ELSE n
Quot(a, b) == LET q == Abs(a) \div Abs(b) IN IF (a < 0) = (b < 0) THEN q ELSE -q
Rem(a, b) == a - b * Quot(a, b)

\* Bitwise operations through the two's complement digits of the operands.
Bit(n, i) == ((n % 2^Width) \div 2^i) % 2
FromBits(b) ==
  LET Weight(i) == IF b[i] = 1 THEN 2^i ELSE 0
      sum[i \in 0..Width] == IF i = 0 THEN 0 ELSE sum[i - 1] + Weight(i - 1)
  IN Wrap(sum[Width])
Bitwise2(Op(_, _), a, b) == FromBits([i \in 0..(Width - 1) |-> Op(Bit(a, i), Bit(b, i))])
BitAnd(a, b) == Bitwise2(LAMBDA x, y : x * y, a, b)
BitOr(a, b)  == Bitwise2(LAMBDA x, y : x + y - x * y, a, b)
BitXor(a, b) == Bitwise2(LAMBDA x, y : (x + y) % 2, a, b)

---------------------------------------------------------------------------
(* Floats, as IEEE 754 has them except for the size of the mantissa.         *)

Inf == 1000000
NaN == 9000000
Finite(x) == Abs(x) < Inf
Sign(x) == IF x < 0 THEN -1 ELSE 1
OfInt(n) == n * One

FAbs(x) == Abs(x)
FNeg(x) == IF x = NaN THEN NaN ELSE -x
FAdd(x, y) ==
  IF x = NaN \/ y = NaN THEN NaN
  ELSE IF Finite(x) /\ Finite(y) THEN x + y
  ELSE IF Finite(x) THEN y
  ELSE IF Finite(y) \/ x = y THEN x ELSE NaN
FSub(x, y) == FAdd(x, FNeg(y))
FMul(x, y) ==
  IF x = NaN \/ y = NaN THEN NaN
  ELSE IF Finite(x) /\ Finite(y) THEN Quot(x * y, One)
  ELSE IF x = 0 \/ y = 0 THEN NaN ELSE Sign(x) * Sign(y) * Inf
FDiv(x, y) ==
  IF x = NaN \/ y = NaN \/ (~Finite(x) /\ ~Finite(y)) \/ (x = 0 /\ y = 0) THEN NaN
  ELSE IF y = 0 \/ ~Finite(x) THEN Sign(x) * Sign(y) * Inf
  ELSE IF ~Finite(y) THEN 0 ELSE Quot(x * One, y)
FMod(x, y) ==
  IF x = NaN \/ y = NaN \/ ~Finite(x) \/ y = 0 THEN NaN
  ELSE IF ~Finite(y) THEN x ELSE Rem(x, y)
FEq(x, y) == x # NaN /\ x = y
FLt(x, y) == x # NaN /\ y # NaN /\ x < y
FLe(x, y) == FLt(x, y) \/ FEq(x, y)

---------------------------------------------------------------------------
(* Numbers as text: bytes are ASCII codes.                                   *)

RECURSIVE Digits(_)
Digits(n) == IF n < 10 THEN <<48 + n>> ELSE Append(Digits(n \div 10), 48 + (n % 10))
IntText(n) == IF n < 0 THEN <<45>> \o Digits(-n) ELSE Digits(n)

Fraction(q) == <<46>> \o CASE q = 0 -> <<48>> [] q = 1 -> <<50, 53>> [] q = 2 -> <<53>> [] q = 3 -> <<55, 53>>
FloatText(x) ==
  IF x = NaN THEN <<110, 97, 110>>
  ELSE (IF x < 0 THEN <<45>> ELSE <<>>)
       \o (IF Finite(x) THEN Digits(Abs(x) \div One) \o Fraction(Abs(x) % One) ELSE <<105, 110, 102>>)
BoolText(b) == IF b # 0 THEN <<116, 114, 117, 101>> ELSE <<102, 97, 108, 115, 101>>

\* -1, 0 or 1: the order of two texts, a prefix first.
str_cmp(a, b) ==
  LET n == IF Len(a) < Len(b) THEN Len(a) ELSE Len(b)
      diff == {i \in 1..n : a[i] # b[i]}
      first == CHOOSE i \in diff : \A j \in diff : i <= j
  IN IF diff # {} THEN (IF a[first] < b[first] THEN -1 ELSE 1)
     ELSE IF Len(a) < Len(b) THEN -1 ELSE IF Len(a) > Len(b) THEN 1 ELSE 0

IsDigit(c) == c \in 48..57
RECURSIVE Number(_)
Number(t) == IF t = <<>> THEN 0 ELSE 10 * Number(SubSeq(t, 1, Len(t) - 1)) + (t[Len(t)] - 48)
=============================================================================
