------------------------------ MODULE Px64Words ------------------------------
(***************************************************************************)
(* The words of the px64 machine (i64) and its arithmetic, with the width  *)
(* as a parameter.  The compiler folds constants with it and the machine   *)
(* of pulselang-core computes with it.                                     *)
(***************************************************************************)
EXTENDS Integers

LOCAL INSTANCE Bitwise

CONSTANT WordBits   \* 64

ASSUME WordBitsAssumption == WordBits \in Nat /\ WordBits >= 4

Modulus == 2 ^ WordBits
Words   == -(Modulus \div 2) .. (Modulus \div 2) - 1

Wrap(v)     == ((v + Modulus \div 2) % Modulus) - Modulus \div 2
Unsigned(v) == v % Modulus
Bool(b)     == IF b THEN 1 ELSE 0

\* ERR_TAG, bit 60 of 64
ErrTag   == 2 ^ (WordBits - 4)
IsErr(v) == (Unsigned(v) & ErrTag) # 0
Untag(v) == IF IsErr(v) THEN Wrap(Unsigned(v) - ErrTag) ELSE v

\* Division truncates toward zero, the remainder has the dividend's sign.
Abs(v)       == IF v < 0 THEN -v ELSE v
Quot(a, b)   == IF (a < 0) = (b < 0) THEN Abs(a) \div Abs(b) ELSE -(Abs(a) \div Abs(b))
Amount(b)    == b % WordBits
ShiftUp(a, b) == Wrap(a * 2 ^ Amount(b))

\* The operations of three registers
Alu(op, a, b) ==
  CASE op = "add" -> Wrap(a + b)
    [] op = "sub" -> Wrap(a - b)
    [] op = "mul" -> Wrap(a * b)
    [] op = "div" -> Wrap(Quot(a, b))
    [] op = "mod" -> Wrap(a - b * Quot(a, b))
    [] op = "and" -> Wrap(Unsigned(a) & Unsigned(b))
    [] op = "or"  -> Wrap(Unsigned(a) | Unsigned(b))
    [] op = "xor" -> Wrap(Unsigned(a) ^^ Unsigned(b))
    [] op = "shl" -> ShiftUp(a, b)
    [] op = "shr" -> Wrap(Unsigned(a) \div 2 ^ Amount(b))
    [] op \in {"cmp_eq", "streq"} -> Bool(a = b)
    [] op = "cmp_ne" -> Bool(a # b)
    [] op = "cmp_lt" -> Bool(a < b)
    [] op = "cmp_le" -> Bool(a <= b)
    [] op = "cmp_gt" -> Bool(a > b)
    [] op = "cmp_ge" -> Bool(a >= b)
=============================================================================
