------------------------------ MODULE AluLaws ------------------------------
(***************************************************************************)
(* What the arithmetic, shift, comparison and conversion instructions      *)
(* leave on the operand stack.  The laws are those of the JVM              *)
(* specification but for two edges at which the interpreter departs from   *)
(* it, and where they say what the interpreter does: the least integer     *)
(* divided by -1 (LeastByMinusOne), which traps where the specification    *)
(* gives the dividend, and infinities and other floats beyond an integer's *)
(* range (Truncated), which the specification takes to the nearest end of  *)
(* that range.                                                             *)
(***************************************************************************)
EXTENDS Interpreter

(* The values of n bits, up to their width. *)
Mod(n) == 2 * HalfOf(n)
Congruent(n, x, y) == (x - y) % Mod(n) = 0

(* Whether r is right for a named operation on n-bit integers: sums,       *)
(* differences and products are those of the unbounded operation up to the *)
(* width; a quotient is truncated towards zero, and a remainder has the    *)
(* dividend's sign.                                                        *)
ArithmeticLaw(f, n, x, y, r) ==
  CASE f = "add" -> Congruent(n, r, x + y)
    [] f = "sub" -> Congruent(n, r + y, x)
    [] f = "mul" -> Congruent(n, r, x * y)
    [] f = "neg" -> Congruent(n, r + x, 0)
    [] f = "div" -> /\ Abs(r * y) <= Abs(x) /\ Abs(x) < Abs(r * y) + Abs(y)
                    /\ r = 0 \/ (r > 0) = ((x > 0) = (y > 0))
    [] f = "rem" -> /\ Abs(r) < Abs(y)
                    /\ r = 0 \/ (r > 0) = (x > 0)
                    /\ \E q \in -Abs(x) .. Abs(x) : q * y + r = x

(* Shifts multiply and divide by powers of two, the count modulo the       *)
(* width; the unsigned ones work on the unsigned value.                    *)
ShiftLaw(op, n, x, y, r) ==
  LET p == 2 ^ (y % n)
  IN  CASE op \in {120, 121} -> Congruent(n, r, x * p)
        [] op \in {122, 123} -> r = x \div p
        [] op \in {124, 125} -> Congruent(n, r, (x % Mod(n)) \div p)

(* The bitwise operations are those of the sets of ones. *)
OnesOf(n, x) == {i \in 0 .. n - 1 : ((x % Mod(n)) \div 2 ^ i) % 2 = 1}
BitLaw(op, n, x, y, r) ==
  LET a == OnesOf(n, x)
      b == OnesOf(n, y)
  IN  OnesOf(n, r) = CASE op \in {126, 127} -> a \cap b
                       [] op \in {128, 129} -> a \cup b
                       [] op \in {130, 131} -> (a \cup b) \ (a \cap b)

Less(x, y) == NaN \notin {x, y} /\ x < y
Known(x, y) == x # y \/ Abs(x) # Huge   \* the codes tell the order of the floats

(* A comparison orders its operands; one with NaN is less for FCMPL and    *)
(* DCMPL, greater for FCMPG and DCMPG, never equal.                        *)
ComparisonLaw(op, x, y, r) ==
  /\ op = 148 => /\ r = -1 <=> x < y
                 /\ r =  0 <=> x = y
                 /\ r =  1 <=> x > y
  /\ op # 148 /\ Known(x, y) => (r = 0 <=> x = y /\ x # NaN)
  /\ op \in {149, 151} /\ Known(x, y) => (r = 1 <=> Less(y, x))
  /\ op \in {150, 152} /\ Known(x, y) => (r = -1 <=> Less(x, y))

(* Widening keeps the value; narrowing keeps it up to the width, with the  *)
(* sign of the narrow type except for char; a float becomes the integer    *)
(* towards zero.                                                           *)
Narrowed(n, least, x, r) == /\ Congruent(n, r, x)
                            /\ r \in least .. least + (Mod(n) - 1)
Floated(x, r) ==
  r = 2 * x \/ (2 * Abs(x) > FMax /\ Abs(r) = Huge /\ (r < 0 <=> x < 0))

(* NaN becomes 0, and so does an infinity, as in the tests F2I_Infinity    *)
(* and D2I_Infinity (interpreter_conversion_test.cpp); a float beyond the  *)
(* range becomes the least value whatever its sign, which is what the cast *)
(* gives on the build's hardware.                                          *)
Truncated(k, x, r) ==
  /\ x \in {NaN, Infinity, -Infinity} => r = 0
  /\ x \in {Huge, -Huge} => \/ r = -HalfOf(Bits(k))
                            \/ Sign(r) = Sign(x) /\ Abs(r) >= FMax \div 2
  /\ Abs(x) <= FMax => /\ Abs(2 * r) <= Abs(x) /\ Abs(x) < Abs(2 * r) + 2
                       /\ r = 0 \/ (r > 0 <=> x > 0)
Rounded(x, r) ==
  r = x \/ (Abs(x) = Huge /\ Abs(r) = Infinity /\ (r < 0 <=> x < 0))

ConversionLaw(op, x, r) ==
  /\ op \in {133, 141}           => r = x
  /\ op = 136                    => Narrowed(IntBits, -HalfOf(IntBits), x, r)
  /\ op = 145                    => Narrowed(ByteBits, -HalfOf(ByteBits), x, r)
  /\ op = 146                    => Narrowed(ShortBits, 0, x, r)
  /\ op = 147                    => Narrowed(ShortBits, -HalfOf(ShortBits), x, r)
  /\ op \in {134, 135, 137, 138} => Floated(x, r)
  /\ op \in {139, 140, 142, 143} => Truncated(Conversion(op)[2], x, r)
  /\ op = 144                    => Rounded(x, r)

-----------------------------------------------------------------------------
(* Properties, of the step that executes such an instruction on operands   *)
(* of its kinds                                                            *)

First == Ops[Len(Ops) - (Slots(AluIn(Op)) - Width(AluIn(Op)[1]))]
Last  == Ops[Len(Ops)]
Out   == LET left == frames'[Len(frames')].ops IN left[Len(left)]

Takes(S) ==
  Op \in S /\ First.k = AluIn(Op)[1] /\ Last.k = AluIn(Op)[Len(AluIn(Op))]
Executes(S) == Compute /\ Takes(S)
Runs(S)     == (Compute \/ DivideByZero \/ DivideTrap) /\ Takes(S)

IntArith(k) == {op \in ArithOps : ArithKind(op) = k}
Quotients   == {op \in ArithOps : ArithName(op) \in {"div", "rem"}}
LeastByMinusOne(k) == Op \in Quotients /\ First.v = -HalfOf(Bits(k)) /\ Last.v = -1

ArithmeticStep ==
  \A k \in {"i", "l"} : Runs(IntArith(k)) =>
    IF Op \in Quotients /\ Last.v = 0 THEN status' = "threw"
    ELSE IF LeastByMinusOne(k) THEN status' = "undefined"
    ELSE /\ Out.k = k /\ Out.v \in Values(k)
         /\ ArithmeticLaw(ArithName(Op), Bits(k), First.v, Last.v, Out.v)

BitwiseStep ==
  Executes(BitOps) =>
    /\ Out.k = ShiftKind(Op) /\ Out.v \in Values(Out.k)
    /\ BitLaw(Op, Bits(ShiftKind(Op)), First.v, Last.v, Out.v)

(* IADD .. LNEG and IAND .. LXOR, whatever the operands (interpreter.cpp,  *)
(* "Arithmetic" and the bitwise cases): a division by zero throws, the     *)
(* least value divided by -1 traps, against the JVM specification, and     *)
(* nothing else does; every other operation leaves the right result, of    *)
(* its kind and in its range: sums wrap, quotients are truncated, and the  *)
(* sign bit is a bit like the others.                                      *)
IntegerArithmetic == [][ArithmeticStep /\ BitwiseStep]_vars

(* ISHL .. LUSHR leave the right result for every count, negative ones and *)
(* ones beyond the width included.                                         *)
Shifts ==
  [][Executes(ShiftOps) =>
        /\ Out.k = ShiftKind(Op) /\ Out.v \in Values(Out.k)
        /\ ShiftLaw(Op, Bits(ShiftKind(Op)), First.v, Last.v, Out.v)]_vars

(* LCMP .. DCMPG leave the order of their operands, also where their       *)
(* difference overflows and where one is NaN.                              *)
Comparisons ==
  [][Executes(CompareOps) =>
        /\ Out.k = "i" /\ Out.v \in {-1, 0, 1}
        /\ ComparisonLaw(Op, First.v, Last.v, Out.v)]_vars

(* I2L .. I2S leave a value of the target's type, at the ends of the       *)
(* ranges too (interpreter.cpp, "Conversions"): the value itself, what is  *)
(* left of it in the target's width, its integer part, the nearest float,  *)
(* and of a float beyond an integer's range what the code and its tests    *)
(* make of it.                                                             *)
NumericConversions ==
  [][Executes(ConvertOps) =>
        /\ Out.k = AluOut(Op) /\ Out.v \in Values(Out.k)
        /\ ConversionLaw(Op, First.v, Out.v)]_vars
=============================================================================
