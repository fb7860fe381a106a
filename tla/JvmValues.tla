----------------------------- MODULE JvmValues -----------------------------
(***************************************************************************)
(* The values of the interpreter's slots, and the pure part of its         *)
(* instructions: arithmetic, shifts, bitwise operations, conversions and   *)
(* comparisons (interpreter.cpp, types.h, slot.h).                         *)
(*                                                                         *)
(* Integers have the width of a parameter and wrap around as the build's   *)
(* two's complement does.  A float or a double is an integer code c:       *)
(*   |c| <= FMax       the value c / 2, exactly                            *)
(*   |c| =  Huge       any finite value of a greater magnitude             *)
(*   |c| =  Infinity   an infinity                                         *)
(*   c   =  NaN        not a number                                        *)
(* Results the codes cannot tell apart are a nondeterministic choice; the  *)
(* two zeros are one code.  A reference is 0 (nullptr) or a string.        *)
(***************************************************************************)
EXTENDS Integers, Sequences

CONSTANTS ByteBits, ShortBits, IntBits, LongBits,  \* 8, 16, 32, 64 in types.h
          FMax,                                    \* bound on the exact floats
          Strings,                                 \* addresses of string data
          Garbage                                  \* bound: reinterpreted bytes

HalfOf(n) == 2 ^ (n - 1)

WidthsAssumption == /\ {ByteBits, ShortBits, IntBits, LongBits} \subseteq Nat
                    /\ 1 < ByteBits /\ ByteBits < ShortBits
                    /\ ShortBits < IntBits /\ IntBits <= LongBits
ASSUME WidthsAssumption

(* Powers of two are positive and grow, which the provers do not know. *)
PowersAssumption ==
  /\ \A n \in {ByteBits, ShortBits, IntBits, LongBits} : HalfOf(n) \in Nat \ {0}
  /\ HalfOf(ByteBits) <= HalfOf(IntBits)
  /\ 2 * HalfOf(ShortBits) <= HalfOf(IntBits)
  /\ HalfOf(IntBits) <= HalfOf(LongBits)
  /\ 8 <= HalfOf(IntBits)
ASSUME PowersAssumption

PlacesAssumption ==
  /\ 2 ^ 0 = 1
  /\ \A i \in 0 .. LongBits - 1 : 2 ^ i \in Nat \ {0} /\ 2 ^ (i + 1) = 2 * 2 ^ i
ASSUME PlacesAssumption

FMaxAssumption == FMax \in Nat /\ FMax >= 4 /\ FMax < HalfOf(IntBits)
ASSUME FMaxAssumption

StringsAssumption == Strings \subseteq Nat \ {0}
ASSUME StringsAssumption

Huge     == FMax + 1
Infinity == FMax + 2
NaN      == FMax + 3

(* The kinds of value, in the order the opcodes number them. *)
Kinds == <<"i", "l", "f", "d", "a">>
Kind  == {"i", "l", "f", "d", "a"}

Bits(k) == IF k = "i" THEN IntBits ELSE LongBits
Values(k) == CASE k \in {"i", "l"} -> -HalfOf(Bits(k)) .. HalfOf(Bits(k)) - 1
               [] k \in {"f", "d"} -> -Infinity .. NaN
               [] k = "a"          -> Strings \cup {0}

(* Two's complement: the value of n bits congruent to x. *)
WrapTo(n, x) == ((x + HalfOf(n)) % (2 * HalfOf(n))) - HalfOf(n)
Wrap(k, x)   == WrapTo(Bits(k), x)

(* A slot holds one member of the union.  "z" is a slot whose 8 bytes are  *)
(* all zero, which reads as 0 through every member.                        *)
Slot     == {s \in [k : Kind \cup {"z"}, v : Int] :
               s.v \in IF s.k = "z" THEN {0} ELSE Values(s.k)}
ZeroSlot == [k |-> "z", v |-> 0]
Of(k, x) == [k |-> k, v |-> x]

(* Reading a member that was not the last one written reinterprets bytes   *)
(* some of which nothing wrote: the same number and any of Garbage are     *)
(* possible.  With Garbage = Int, every value is.                          *)
Read(k, s) == IF s.k = k \/ s.k = "z" THEN {s.v}
              ELSE Values(k) \cap ({s.v} \cup Garbage)

(* pushLong and pushDouble put a placeholder below the value. *)
Width(k)    == IF k \in {"l", "d"} THEN 2 ELSE 1
Words(k, x) == IF Width(k) = 2 THEN <<Of("i", 0), Of(k, x)>> ELSE <<Of(k, x)>>

-----------------------------------------------------------------------------
(* Arithmetic *)

Abs(x)  == IF x < 0 THEN -x ELSE x
Sign(x) == IF x < 0 THEN -1 ELSE IF x > 0 THEN 1 ELSE 0

(* The division of C++ truncates towards zero; a mutant rounds down. *)
FloorDiv(x, y) == IF y < 0 THEN (-x) \div (-y) ELSE x \div y
TruncDiv(x, y) == Sign(x) * Sign(y) * (Abs(x) \div Abs(y))
TruncRem(x, y) == x - y * TruncDiv(x, y)

(* A mutant: results keep the bits that do not fit. *)
ArithUnwrapped(f, k, x, y) ==
  CASE f = "add" -> x + y [] f = "sub" -> x - y [] f = "mul" -> x * y
    [] f = "div" -> TruncDiv(x, y) [] f = "rem" -> TruncRem(x, y) [] f = "neg" -> -x

Arith(f, k, x, y) ==
  Wrap(k, CASE f = "add" -> x + y
            [] f = "sub" -> x - y
            [] f = "mul" -> x * y
            [] f = "div" -> TruncDiv(x, y)
            [] f = "rem" -> TruncRem(x, y)
            [] f = "neg" -> -x)

(* A sum of two exact floats is exact while it is small. *)
FloatArith(f, x, y) ==
  LET exact == CASE f = "add" -> x + y [] f = "sub" -> x - y [] OTHER -> -x
      known == /\ f \in {"add", "sub", "neg"}
               /\ f = "neg" \/ {Abs(x), Abs(y), Abs(exact)} \subseteq 0 .. FMax
  IN  IF NaN \in {x, y} THEN {NaN} ELSE IF known THEN {exact} ELSE Values("f")

(* Shifts use the low bits of their count: & 0x1F and & 0x3F. *)
Bit(n, x, i)  == ((x % (2 * HalfOf(n))) \div (2 ^ i)) % 2
(* A mutant: the unsigned shift copies the sign bit, and OR is exclusive. *)
BitOfSigned(f, n, x, y, i) ==
  LET s == y % n
  IN  CASE f = "shl"            -> IF i < s THEN 0 ELSE Bit(n, x, i - s)
        [] f \in {"shr", "ushr"} -> IF i + s < n THEN Bit(n, x, i + s) ELSE Bit(n, x, n - 1)
        [] f = "and"            -> Bit(n, x, i) * Bit(n, y, i)
        [] OTHER                -> (Bit(n, x, i) + Bit(n, y, i)) % 2

BitOf(f, n, x, y, i) ==
  LET s == y % n
  IN  CASE f = "shl"  -> IF i < s THEN 0 ELSE Bit(n, x, i - s)
        [] f = "shr"  -> IF i + s < n THEN Bit(n, x, i + s) ELSE Bit(n, x, n - 1)
        [] f = "ushr" -> IF i + s < n THEN Bit(n, x, i + s) ELSE 0
        [] f = "and"  -> IF Bit(n, x, i) = 1 /\ Bit(n, y, i) = 1 THEN 1 ELSE 0
        [] f = "or"   -> IF Bit(n, x, i) = 1 \/ Bit(n, y, i) = 1 THEN 1 ELSE 0
        [] f = "xor"  -> IF Bit(n, x, i) # Bit(n, y, i) THEN 1 ELSE 0

(* The value whose bits are those of the result. *)
Bitwise(f, k, x, y) ==
  {r \in Values(k) : \A i \in 0 .. Bits(k) - 1 :
                       Bit(Bits(k), r, i) = BitOf(f, Bits(k), x, y, i)}
=============================================================================
