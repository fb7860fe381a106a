----------------------------- MODULE Alu_proofs -----------------------------
(***************************************************************************)
(* What the interpreter's pure instructions return, for every width and    *)
(* every pair of operands: a value in the range of the kind they push, and *)
(* the one that the instruction means.                                     *)
(***************************************************************************)
EXTENDS AluLaws, TLAPS, WellFoundedInduction

(* Every kind's values are integers, 0 among them. *)
LEMMA ValuesAreInts ==
  ASSUME NEW k \in Kind
  PROVE  Values(k) \subseteq Int /\ 0 \in Values(k)
<1>1. CASE k \in {"i", "l"}
  <2>1. HalfOf(Bits(k)) \in Nat \ {0}
    BY PowersAssumption DEF PowersAssumption, Bits
  <2>2. Values(k) = -HalfOf(Bits(k)) .. HalfOf(Bits(k)) - 1
    BY <1>1 DEF Values
  <2> QED BY <2>1, <2>2, SMT
<1>2. CASE k \in {"f", "d"}
  <2>1. Values(k) = -(FMax + 2) .. FMax + 3
    BY <1>2 DEF Values, Infinity, NaN
  <2> QED BY <2>1, FMaxAssumption, SMT DEF FMaxAssumption
<1>3. CASE k = "a"
  BY <1>3, StringsAssumption DEF Values, StringsAssumption
<1> QED BY <1>1, <1>2, <1>3 DEF Kind

(* Wrapping gives a value of the width, whatever is wrapped. *)
LEMMA WrapToRange ==
  ASSUME NEW n \in {ByteBits, ShortBits, IntBits, LongBits}, NEW x \in Int
  PROVE  WrapTo(n, x) \in -HalfOf(n) .. HalfOf(n) - 1
<1>1. HalfOf(n) \in Nat \ {0}
  BY PowersAssumption DEF PowersAssumption
<1>2. ASSUME NEW h \in Nat \ {0}
      PROVE  ((x + h) % (2 * h)) - h \in -h .. h - 1
  BY SMT
<1>3. ((x + HalfOf(n)) % (2 * HalfOf(n))) - HalfOf(n) \in -HalfOf(n) .. HalfOf(n) - 1
  BY <1>1, <1>2, Zenon
<1> QED BY <1>3 DEF WrapTo

LEMMA WrapValue ==
  ASSUME NEW k \in {"i", "l"}, NEW x \in Int
  PROVE  Wrap(k, x) \in Values(k)
<1>1. Bits(k) \in {ByteBits, ShortBits, IntBits, LongBits}
  BY DEF Bits
<1>2. WrapTo(Bits(k), x) \in -HalfOf(Bits(k)) .. HalfOf(Bits(k)) - 1
  BY <1>1, WrapToRange
<1> QED BY <1>2 DEF Wrap, Values

(* Reading a slot gives a value of the kind it is read as. *)
LEMMA ReadValue ==
  ASSUME NEW k \in Kind, NEW s \in Slot, NEW x \in Read(k, s)
  PROVE  x \in Values(k)
<1>1. 0 \in Values(k)
  BY ValuesAreInts
<1>2. s.v \in IF s.k = "z" THEN {0} ELSE Values(s.k)
  BY DEF Slot
<1> QED BY <1>1, <1>2 DEF Read

LEMMA OfSlot ==
  ASSUME NEW k \in Kind, NEW x \in Values(k)
  PROVE  Of(k, x) \in Slot
<1>1. x \in Int
  BY ValuesAreInts
<1>2. k # "z"
  BY DEF Kind
<1> QED BY <1>1, <1>2 DEF Of, Slot

LEMMA WordsSlots ==
  ASSUME NEW k \in Kind, NEW x \in Values(k)
  PROVE  Words(k, x) \in Seq(Slot) /\ Len(Words(k, x)) = Width(k)
<1>1. Of(k, x) \in Slot
  BY OfSlot
<1>2. Of("i", 0) \in Slot
  BY OfSlot, ValuesAreInts DEF Kind
<1> QED BY <1>1, <1>2 DEF Words, Width


-----------------------------------------------------------------------------
(* The opcode tables *)

LEMMA ArithKinds ==
  ASSUME NEW op \in ArithOps
  PROVE  ArithKind(op) \in {"i", "l", "f", "d"} /\ ArithName(op) \in
           {"add", "sub", "mul", "div", "rem", "neg"}
<1>1. ((op - 96) % 4) + 1 \in 1 .. 4
  BY SMT DEF ArithOps
<1>2. ((op - 96) \div 4) + 1 \in 1 .. 6
  BY SMT DEF ArithOps
<1>3. \A n \in 1 .. 4 : Kinds[n] \in {"i", "l", "f", "d"}
  BY DEF Kinds
<1>4. \A n \in 1 .. 6 : ArithNames[n] \in {"add", "sub", "mul", "div", "rem", "neg"}
  BY DEF ArithNames
<1> QED BY <1>1, <1>2, <1>3, <1>4 DEF ArithKind, ArithName

LEMMA ShiftKinds ==
  ASSUME NEW op \in ShiftOps \cup BitOps
  PROVE  ShiftKind(op) \in {"i", "l"}
<1>1. ((op - 120) % 2) + 1 \in 1 .. 2
  BY SMT DEF ShiftOps, BitOps
<1>2. \A n \in 1 .. 2 : Kinds[n] \in {"i", "l"}
  BY DEF Kinds
<1> QED BY <1>1, <1>2 DEF ShiftKind

(* Exactly one family holds each opcode, and its operands have these kinds. *)
LEMMA AluOperands ==
  ASSUME NEW op \in AluOps
  PROVE  LET ks == AluIn(op)
         IN  /\ ks \in Seq(Kind) /\ Len(ks) \in {1, 2}
             /\ AluOut(op) \in Kind
<1> DEFINE Typed(ks) == ks \in Seq(Kind) /\ Len(ks) \in {1, 2}
<1>0. \A a, b \in Kind : Typed(<<a>>) /\ Typed(<<a, b>>)
  OBVIOUS
<1>1. CASE op \in ArithOps
  <2>1. ArithKind(op) \in Kind
    BY <1>1, ArithKinds DEF Kind
  <2>4. op \notin ShiftOps /\ op \notin BitOps /\ op \notin ConvertOps /\ op \notin CompareOps
    BY <1>1 DEF ShiftOps, ArithOps, BitOps, ConvertOps, CompareOps
  <2>2. AluOut(op) = ArithKind(op)
    BY <1>1, <2>4 DEF AluOut
  <2>3. AluIn(op) = IF ArithName(op) = "neg" THEN <<ArithKind(op)>>
                    ELSE <<ArithKind(op), ArithKind(op)>>
    BY <1>1, <2>4 DEF AluIn
  <2> QED BY <1>0, <2>1, <2>2, <2>3
<1>2. CASE op \in ShiftOps
  <2>1. ShiftKind(op) \in Kind /\ "i" \in Kind
    BY <1>2, ShiftKinds DEF Kind
  <2>2. op \notin ArithOps /\ op \notin BitOps /\ op \notin ConvertOps /\ op \notin CompareOps
    BY <1>2 DEF ShiftOps, ArithOps, BitOps, ConvertOps, CompareOps
  <2>3. AluOut(op) = ShiftKind(op)
    BY <1>2, <2>2 DEF AluOut
  <2>4. AluIn(op) = <<ShiftKind(op), "i">>
    BY <1>2, <2>2 DEF AluIn
  <2> QED BY <1>0, <2>1, <2>3, <2>4
<1>3. CASE op \in BitOps
  <2>1. ShiftKind(op) \in Kind
    BY <1>3, ShiftKinds DEF Kind
  <2>2. op \notin ArithOps /\ op \notin ShiftOps /\ op \notin ConvertOps /\ op \notin CompareOps
    BY <1>3 DEF ShiftOps, ArithOps, BitOps, ConvertOps, CompareOps
  <2>3. AluOut(op) = ShiftKind(op)
    BY <1>3, <2>2 DEF AluOut
  <2>4. AluIn(op) = <<ShiftKind(op), ShiftKind(op)>>
    BY <1>3, <2>2 DEF AluIn
  <2> QED BY <1>0, <2>1, <2>3, <2>4
<1>4. CASE op \in ConvertOps
  <2>1. op - 132 \in 1 .. 15
    BY <1>4 DEF ConvertOps
  <2>2. Conversion(op)[1] \in Kind /\ Conversion(op)[2] \in Kind
    BY <2>1 DEF Conversion, Conversions, Kind
  <2>3. op \notin ArithOps /\ op \notin ShiftOps /\ op \notin BitOps /\ op \notin CompareOps
    BY <1>4 DEF ShiftOps, ArithOps, BitOps, ConvertOps, CompareOps
  <2>4. AluOut(op) = Conversion(op)[2]
    BY <1>4, <2>3 DEF AluOut
  <2>5. AluIn(op) = <<Conversion(op)[1]>>
    BY <1>4, <2>3 DEF AluIn
  <2> QED BY <1>0, <2>2, <2>4, <2>5
<1>5. CASE op \in CompareOps
  <2>1. op - 147 \in 1 .. 5
    BY <1>5 DEF CompareOps
  <2>2. CompareKinds[op - 147] \in Kind /\ "i" \in Kind
    BY <2>1 DEF CompareKinds, Kind
  <2>3. op \notin ArithOps /\ op \notin ShiftOps /\ op \notin BitOps /\ op \notin ConvertOps
    BY <1>5 DEF ShiftOps, ArithOps, BitOps, ConvertOps, CompareOps
  <2>4. AluOut(op) = "i"
    BY <1>5, <2>3 DEF AluOut
  <2>5. AluIn(op) = <<CompareKinds[op - 147], CompareKinds[op - 147]>>
    BY <1>5, <2>3 DEF AluIn
  <2> QED BY <1>0, <2>2, <2>4, <2>5
<1> QED BY <1>1, <1>2, <1>3, <1>4, <1>5 DEF AluOps


-----------------------------------------------------------------------------
(* The results *)

LEMMA AbsSign ==
  ASSUME NEW x \in Int
  PROVE  Abs(x) \in Nat /\ Sign(x) \in {-1, 0, 1} /\ (x # 0 => Abs(x) > 0)
BY DEF Abs, Sign

LEMMA TruncDivInt ==
  ASSUME NEW x \in Int, NEW y \in Int, y # 0
  PROVE  TruncDiv(x, y) \in Int
<1>1. Abs(x) \in Nat /\ Abs(y) \in Nat /\ Abs(y) > 0
  BY AbsSign
<1>2. Abs(x) \div Abs(y) \in Int
  BY <1>1, SMT
<1>3. Sign(x) * Sign(y) \in Int
  BY AbsSign, SMT
<1> QED BY <1>2, <1>3, SMT DEF TruncDiv

(* Integer arithmetic wraps to the width of its kind. *)
LEMMA ArithValue ==
  ASSUME NEW f \in {"add", "sub", "mul", "div", "rem", "neg"},
         NEW k \in {"i", "l"}, NEW x \in Int, NEW y \in Int,
         f \in {"div", "rem"} => y # 0
  PROVE  Arith(f, k, x, y) \in Values(k)
<1> DEFINE r == CASE f = "add" -> x + y
                  [] f = "sub" -> x - y
                  [] f = "mul" -> x * y
                  [] f = "div" -> TruncDiv(x, y)
                  [] f = "rem" -> TruncRem(x, y)
                  [] f = "neg" -> -x
<1>1. r \in Int
  <2>1. CASE f \in {"div", "rem"}
    <3>1. TruncDiv(x, y) \in Int
      BY <2>1, TruncDivInt
    <3>2. y * TruncDiv(x, y) \in Int
      BY <3>1, SMT
    <3>3. TruncRem(x, y) \in Int
      BY <3>2 DEF TruncRem
    <3> QED BY <2>1, <3>1, <3>3
  <2>2. CASE f = "mul"
    <3>1. x * y \in Int
      BY SMT
    <3> QED BY <2>2, <3>1
  <2>3. CASE f \in {"add", "sub", "neg"}
    BY <2>3
  <2> QED BY <2>1, <2>2, <2>3
<1>2. Wrap(k, r) \in Values(k)
  BY <1>1, WrapValue
<1> QED BY <1>2 DEF Arith

LEMMA FloatArithValues ==
  ASSUME NEW f \in {"add", "sub", "mul", "div", "rem", "neg"},
         NEW x \in Values("f"), NEW y \in Values("f"), NEW r \in FloatArith(f, x, y)
  PROVE  r \in Values("f")
<1>1. Values("f") = -(FMax + 2) .. FMax + 3
  BY DEF Values, Infinity, NaN
<1>2. FMax \in Nat
  BY FMaxAssumption DEF FMaxAssumption
<1> DEFINE exact == CASE f = "add" -> x + y [] f = "sub" -> x - y [] OTHER -> -x
           known == /\ f \in {"add", "sub", "neg"}
                    /\ f = "neg" \/ {Abs(x), Abs(y), Abs(exact)} \subseteq 0 .. FMax
<1>3. r \in IF NaN \in {x, y} THEN {NaN} ELSE IF known THEN {exact} ELSE Values("f")
  BY DEF FloatArith
<1>4. CASE NaN \in {x, y}
  BY <1>1, <1>2, <1>3, <1>4 DEF NaN
<1>5. CASE NaN \notin {x, y} /\ known
  <2>1. r = exact
    BY <1>3, <1>5
  <2>2. CASE f = "neg"
    <3>1. exact = -x
      BY <2>2
    <3>2. x # FMax + 3
      BY <1>5 DEF NaN
    <3> QED BY <1>1, <1>2, <2>1, <3>1, <3>2
  <2>3. CASE f \in {"add", "sub"}
    <3>1. exact \in Int
      BY <1>1, <1>2, <2>3
    <3>2. Abs(exact) \in 0 .. FMax
      BY <1>5, <2>3
    <3> HIDE DEF exact
    <3>3. exact \in -FMax .. FMax
      BY <1>2, <3>1, <3>2 DEF Abs
    <3> QED BY <1>1, <1>2, <2>1, <3>3
  <2> QED BY <1>5, <2>2, <2>3
<1>6. CASE NaN \notin {x, y} /\ ~known
  BY <1>3, <1>6
<1> QED BY <1>4, <1>5, <1>6

LEMMA IntToFloatValues ==
  ASSUME NEW x \in Int, NEW r \in IntToFloat(x)
  PROVE  r \in Values("f")
<1>1. Values("f") = -(FMax + 2) .. FMax + 3
  BY DEF Values, Infinity, NaN
<1>2. FMax \in Nat
  BY FMaxAssumption DEF FMaxAssumption
<1>3. r = IF 2 * Abs(x) <= FMax THEN 2 * x ELSE Sign(x) * Huge
  BY DEF IntToFloat
<1>4. CASE 2 * Abs(x) <= FMax
  BY <1>1, <1>2, <1>3, <1>4 DEF Abs
<1>5. CASE ~(2 * Abs(x) <= FMax)
  <2>1. r = Sign(x) * (FMax + 1)
    BY <1>3, <1>5 DEF Huge
  <2>2. r \in {-(FMax + 1), 0, FMax + 1}
    BY <1>2, <2>1 DEF Sign
  <2> QED BY <1>1, <1>2, <2>2
<1> QED BY <1>4, <1>5

LEMMA FloatToIntValues ==
  ASSUME NEW k \in {"i", "l"}, NEW x \in Values("f"), NEW r \in FloatToInt(k, x)
  PROVE  r \in Values(k)
<1>1. x \in -(FMax + 2) .. FMax + 3
  BY DEF Values, Infinity, NaN
<1>2. FMax \in Nat /\ FMax < HalfOf(IntBits) /\ FMax < HalfOf(LongBits)
      /\ HalfOf(IntBits) \in Nat /\ HalfOf(LongBits) \in Nat
  BY FMaxAssumption, PowersAssumption DEF FMaxAssumption, PowersAssumption
<1>3. /\ FMax < HalfOf(Bits(k)) /\ HalfOf(Bits(k)) \in Nat
      /\ Values(k) = -HalfOf(Bits(k)) .. HalfOf(Bits(k)) - 1
  BY <1>2 DEF Bits, Values
<1>4. CASE x \in {NaN, Infinity, -Infinity}
  <2>1. r = 0
    BY <1>4 DEF FloatToInt
  <2> QED BY <1>2, <1>3, <2>1
<1>5. CASE x \notin {NaN, Infinity, -Infinity} /\ Abs(x) = Huge
  <2>1. r \in HugeAs(k, x)
    BY <1>5 DEF FloatToInt
  <2> QED BY <2>1 DEF HugeAs
<1>6. CASE x \notin {NaN, Infinity, -Infinity} /\ Abs(x) # Huge
  <2>1. r = TruncDiv(x, 2)
    BY <1>6 DEF FloatToInt
  <2>2. Abs(2) = 2 /\ Sign(2) = 1
    BY DEF Abs, Sign
  <2>3. x \in Int /\ Abs(x) \in 0 .. FMax
    BY <1>1, <1>2, <1>6 DEF Abs, NaN, Infinity, Huge
  <2>4. Abs(x) \div 2 \in 0 .. FMax
    BY <1>2, <2>3, SMT
  <2>5. Sign(x) \in {-1, 0, 1}
    BY <2>3, AbsSign
  <2>6. r = Sign(x) * 1 * (Abs(x) \div 2)
    BY <2>1, <2>2 DEF TruncDiv
  <2>7. r \in -FMax .. FMax
    BY <1>2, <2>4, <2>5, <2>6
  <2> QED BY <1>2, <1>3, <2>7
<1> QED BY <1>4, <1>5, <1>6

(* What each conversion does, and between which kinds. *)
LEMMA ConvertRows ==
  ASSUME NEW op \in ConvertOps, NEW x
  PROVE  LET from == Conversion(op)[1]
             to   == Conversion(op)[2]
         IN  \/ from \in {"i", "l"} /\ to \in {"f", "d"} /\ Convert(op, x) = IntToFloat(x)
             \/ from \in {"f", "d"} /\ to \in {"i", "l"} /\ Convert(op, x) = FloatToInt(to, x)
             \/ from \in {"f", "d"} /\ to \in {"f", "d"} /\ Convert(op, x) \in {{x}, DoubleToFloat(x)}
             \/ from \in {"i", "l"} /\ to \in {"i", "l"} /\ Convert(op, x) = {Wrap(to, x)}
             \/ from = "i" /\ to = "i"
                /\ Convert(op, x) \in {{WrapTo(ByteBits, x)}, {WrapTo(ShortBits, x)},
                                       {x % (2 * HalfOf(ShortBits))}}
<1>1. op \in 133 .. 147
  BY DEF ConvertOps
<1>2. op - 132 \in 1 .. 15
  BY <1>1
<1>3. CASE op \in {134, 135, 137, 138}
  <2>1. Conversion(op)[1] \in {"i", "l"} /\ Conversion(op)[2] \in {"f", "d"}
    BY <1>3 DEF Conversion, Conversions
  <2>2. Convert(op, x) = IntToFloat(x)
    BY <1>3, <2>1 DEF Convert, Integral, Floating
  <2> QED BY <2>1, <2>2
<1>4. CASE op \in {139, 140, 142, 143}
  <2>1. Conversion(op)[1] \in {"f", "d"} /\ Conversion(op)[2] \in {"i", "l"}
    BY <1>4 DEF Conversion, Conversions
  <2>2. Convert(op, x) = FloatToInt(Conversion(op)[2], x)
    BY <1>4, <2>1 DEF Convert, Integral, Floating
  <2> QED BY <2>1, <2>2
<1>5. CASE op \in {141, 144}
  <2>1. Conversion(op)[1] \in {"f", "d"} /\ Conversion(op)[2] \in {"f", "d"}
    BY <1>5 DEF Conversion, Conversions
  <2>2. Convert(op, x) \in {{x}, DoubleToFloat(x)}
    BY <1>5, <2>1 DEF Convert, Integral, Floating
  <2> QED BY <2>1, <2>2
<1>6. CASE op \in {133, 136}
  <2>1. Conversion(op)[1] \in {"i", "l"} /\ Conversion(op)[2] \in {"i", "l"}
    BY <1>6 DEF Conversion, Conversions
  <2>2. Convert(op, x) = {Wrap(Conversion(op)[2], x)}
    BY <1>6, <2>1 DEF Convert, Integral, Floating
  <2> QED BY <2>1, <2>2
<1>7. CASE op \in {145, 146, 147}
  <2>1. Conversion(op)[1] = "i" /\ Conversion(op)[2] = "i"
    BY <1>7 DEF Conversion, Conversions
  <2>2. Convert(op, x) \in {{WrapTo(ByteBits, x)}, {WrapTo(ShortBits, x)},
                            {x % (2 * HalfOf(ShortBits))}}
    BY <1>7, <2>1 DEF Convert, Integral, Floating
  <2> QED BY <2>1, <2>2
<1> QED BY <1>1, <1>3, <1>4, <1>5, <1>6, <1>7

LEMMA ConvertValues ==
  ASSUME NEW op \in ConvertOps, NEW x \in Values(Conversion(op)[1]),
         NEW r \in Convert(op, x)
  PROVE  r \in Values(Conversion(op)[2])
<1> DEFINE from == Conversion(op)[1]
           to   == Conversion(op)[2]
<1>0. Values("f") = Values("d") /\ Values("f") = -(FMax + 2) .. FMax + 3
  BY DEF Values, Infinity, NaN
<1>1. FMax \in Nat
  BY FMaxAssumption DEF FMaxAssumption
<1>2. from \in {"i", "l"} => x \in Int
  BY ValuesAreInts DEF Kind
<1>3. CASE from \in {"i", "l"} /\ to \in {"f", "d"} /\ Convert(op, x) = IntToFloat(x)
  BY <1>0, <1>2, <1>3, IntToFloatValues
<1>4. CASE from \in {"f", "d"} /\ to \in {"i", "l"} /\ Convert(op, x) = FloatToInt(to, x)
  BY <1>0, <1>4, FloatToIntValues
<1>5. CASE from \in {"f", "d"} /\ to \in {"f", "d"} /\ Convert(op, x) \in {{x}, DoubleToFloat(x)}
  <2>1. x \in -(FMax + 2) .. FMax + 3
    BY <1>0, <1>5
  <2>2. Sign(x) \in {-1, 0, 1}
    BY <1>1, <2>1, AbsSign
  <2>3. r = x \/ r = Sign(x) * Infinity
    BY <1>5 DEF DoubleToFloat
  <2>4. r = x \/ r \in {-(FMax + 2), 0, FMax + 2}
    BY <1>1, <2>2, <2>3 DEF Infinity
  <2> QED BY <1>0, <1>1, <1>5, <2>1, <2>4
<1>6. CASE from \in {"i", "l"} /\ to \in {"i", "l"} /\ Convert(op, x) = {Wrap(to, x)}
  BY <1>2, <1>6, WrapValue
<1>7. CASE /\ from = "i" /\ to = "i"
           /\ Convert(op, x) \in {{WrapTo(ByteBits, x)}, {WrapTo(ShortBits, x)},
                                  {x % (2 * HalfOf(ShortBits))}}
  <2>1. Values("i") = -HalfOf(IntBits) .. HalfOf(IntBits) - 1
    BY DEF Values, Bits
  <2>2. /\ HalfOf(ByteBits) \in Nat \ {0} /\ HalfOf(ShortBits) \in Nat \ {0}
        /\ HalfOf(IntBits) \in Nat \ {0} /\ HalfOf(ByteBits) <= HalfOf(IntBits)
        /\ 2 * HalfOf(ShortBits) <= HalfOf(IntBits)
    BY PowersAssumption DEF PowersAssumption
  <2>3. r \in {WrapTo(ByteBits, x), WrapTo(ShortBits, x), x % (2 * HalfOf(ShortBits))}
    BY <1>7
  <2>4. /\ WrapTo(ByteBits, x) \in -HalfOf(ByteBits) .. HalfOf(ByteBits) - 1
        /\ WrapTo(ShortBits, x) \in -HalfOf(ShortBits) .. HalfOf(ShortBits) - 1
    BY <1>2, <1>7, WrapToRange
  <2>5. ASSUME NEW h \in Nat \ {0}, NEW z \in Int PROVE z % (2 * h) \in 0 .. 2 * h - 1
    BY SMT
  <2>6. x % (2 * HalfOf(ShortBits)) \in 0 .. 2 * HalfOf(ShortBits) - 1
    BY <1>2, <1>7, <2>2, <2>5, Zenon
  <2>7. r \in -HalfOf(IntBits) .. HalfOf(IntBits) - 1
    <3>1. CASE r = WrapTo(ByteBits, x)
      BY <2>2, <2>4, <3>1
    <3>2. CASE r = WrapTo(ShortBits, x)
      BY <2>2, <2>4, <3>2
    <3>3. CASE r = x % (2 * HalfOf(ShortBits))
      BY <2>2, <2>6, <3>3
    <3> QED BY <2>3, <3>1, <3>2, <3>3
  <2> QED BY <1>7, <2>1, <2>7
<1> QED BY <1>3, <1>4, <1>5, <1>6, <1>7, ConvertRows

LEMMA CompareValue ==
  ASSUME NEW op, NEW x \in Int, NEW y \in Int
  PROVE  Compare(op, x, y) \subseteq Values("i")
<1>1. Sign(x - y) \in {-1, 0, 1}
  BY DEF Sign
<1>2. Compare(op, x, y) \subseteq {-1, 0, 1}
  BY <1>1 DEF Compare
<1>3. Values("i") = -HalfOf(IntBits) .. HalfOf(IntBits) - 1
  BY DEF Values, Bits
<1> QED BY <1>2, <1>3, PowersAssumption DEF PowersAssumption

(* An instruction pushes a value in the range of the kind it pushes, for   *)
(* any operands of its kinds; the division instructions when they do not   *)
(* throw.                                                                  *)
THEOREM AluResultTyped ==
  ASSUME NEW op \in AluOps,
         NEW x \in Values(AluIn(op)[1]), NEW y \in Values(AluIn(op)[Len(AluIn(op))]),
         ~ThrowsDivide(op, y),
         NEW r \in AluResult(op, x, y)
  PROVE  r \in Values(AluOut(op))
<1>0. Values("f") = Values("d")
  BY DEF Values
<1>1. CASE op \in ArithOps
  <2>0. op \notin ShiftOps /\ op \notin BitOps /\ op \notin ConvertOps /\ op \notin CompareOps
    BY <1>1 DEF ShiftOps, ArithOps, BitOps, ConvertOps, CompareOps
  <2>1. AluOut(op) = ArithKind(op)
    BY <1>1, <2>0 DEF AluOut
  <2>2. AluIn(op) = IF ArithName(op) = "neg" THEN <<ArithKind(op)>>
                    ELSE <<ArithKind(op), ArithKind(op)>>
    BY <1>1, <2>0 DEF AluIn
  <2>3. x \in Values(ArithKind(op)) /\ y \in Values(ArithKind(op))
    BY <2>2
  <2>4. /\ ArithKind(op) \in {"i", "l", "f", "d"}
        /\ ArithName(op) \in {"add", "sub", "mul", "div", "rem", "neg"}
    BY <1>1, ArithKinds
  <2>5. CASE ArithKind(op) \in {"i", "l"}
    <3>1. r = Arith(ArithName(op), ArithKind(op), x, y)
      BY <1>1, <2>0, <2>5 DEF AluResult, Integral, Floating
    <3>2. x \in Int /\ y \in Int
      BY <2>3, <2>5, ValuesAreInts DEF Kind
    <3>3. ASSUME ArithName(op) \in {"div", "rem"} PROVE y # 0
      <4>1. (op - 96) \div 4 \in {3, 4}
        <5>1. ((op - 96) \div 4) + 1 \in 1 .. 6
          BY <1>1, SMT DEF ArithOps
        <5>2. ArithNames[((op - 96) \div 4) + 1] \in {"div", "rem"}
          BY <3>3 DEF ArithName
        <5>3. \A n \in 1 .. 6 : ArithNames[n] \in {"div", "rem"} => n \in {4, 5}
          BY DEF ArithNames
        <5>4. ((op - 96) \div 4) + 1 \in {4, 5}
          BY <5>1, <5>2, <5>3
        <5> QED BY <1>1, <5>4, SMT DEF ArithOps
      <4>2. (op - 96) % 4 \in {0, 1}
        <5>1. ((op - 96) % 4) + 1 \in 1 .. 4
          BY <1>1, SMT DEF ArithOps
        <5>2. Kinds[((op - 96) % 4) + 1] \in {"i", "l"}
          BY <2>5 DEF ArithKind
        <5>3. \A n \in 1 .. 4 : Kinds[n] \in {"i", "l"} => n \in {1, 2}
          BY DEF Kinds
        <5>4. ((op - 96) % 4) + 1 \in {1, 2}
          BY <5>1, <5>2, <5>3
        <5> QED BY <1>1, <5>4, SMT DEF ArithOps
      <4>3. op \in {108, 109, 112, 113}
        BY <1>1, <4>1, <4>2, SMT DEF ArithOps
      <4> QED BY <4>3 DEF ThrowsDivide, DividesInts
    <3> QED BY <2>1, <2>4, <2>5, <3>1, <3>2, <3>3, ArithValue
  <2>6. CASE ArithKind(op) \in {"f", "d"}
    <3>1. r \in FloatArith(ArithName(op), x, y)
      BY <1>1, <2>0, <2>6 DEF AluResult, Integral, Floating
    <3>2. x \in Values("f") /\ y \in Values("f")
      BY <1>0, <2>3, <2>6
    <3>3. r \in Values("f")
      BY <2>4, <3>1, <3>2, FloatArithValues
    <3> QED BY <1>0, <2>1, <2>6, <3>3
  <2> QED BY <2>4, <2>5, <2>6
<1>2. CASE op \in ShiftOps \cup BitOps
  <2>0. op \notin ArithOps /\ op \notin ConvertOps /\ op \notin CompareOps
        /\ ~(op \in ShiftOps /\ op \in BitOps)
    BY <1>2 DEF ShiftOps, ArithOps, BitOps, ConvertOps, CompareOps
  <2>1. AluOut(op) = ShiftKind(op)
    BY <1>2, <2>0 DEF AluOut
  <2>2. \/ r \in Bitwise(ShiftNames[(op - 120) \div 2 + 1], ShiftKind(op), x, y)
        \/ r \in Bitwise(BitNames[(op - 126) \div 2 + 1], ShiftKind(op), x, y)
    <3>1. CASE op \in ShiftOps
      <4>1. AluResult(op, x, y) = Bitwise(ShiftNames[(op - 120) \div 2 + 1], ShiftKind(op), x, y)
        BY <2>0, <3>1 DEF AluResult
      <4> QED BY <4>1
    <3>2. CASE op \in BitOps
      <4>1. AluResult(op, x, y) = Bitwise(BitNames[(op - 126) \div 2 + 1], ShiftKind(op), x, y)
        BY <2>0, <3>2 DEF AluResult
      <4> QED BY <4>1
    <3> QED BY <1>2, <3>1, <3>2
  <2>3. r \in Values(ShiftKind(op))
    BY <2>2 DEF Bitwise
  <2> QED BY <2>1, <2>3
<1>3. CASE op \in ConvertOps
  <2>0. op \notin ArithOps /\ op \notin ShiftOps /\ op \notin BitOps /\ op \notin CompareOps
    BY <1>3 DEF ShiftOps, ArithOps, BitOps, ConvertOps, CompareOps
  <2>1. AluOut(op) = Conversion(op)[2] /\ AluIn(op) = <<Conversion(op)[1]>>
    BY <1>3, <2>0 DEF AluOut, AluIn
  <2>2. x \in Values(Conversion(op)[1])
    BY <2>1
  <2>3. r \in Convert(op, x)
    BY <1>3, <2>0 DEF AluResult
  <2> QED BY <1>3, <2>1, <2>2, <2>3, ConvertValues
<1>4. CASE op \in CompareOps
  <2>0. op \notin ArithOps /\ op \notin ShiftOps /\ op \notin BitOps /\ op \notin ConvertOps
    BY <1>4 DEF ShiftOps, ArithOps, BitOps, ConvertOps, CompareOps
  <2>1. AluOut(op) = "i"
    BY <1>4, <2>0 DEF AluOut
  <2>2. x \in Int /\ y \in Int
    <3>1. AluIn(op) \in Seq(Kind) /\ Len(AluIn(op)) \in {1, 2}
      BY AluOperands
    <3>2. AluIn(op)[1] \in Kind /\ AluIn(op)[Len(AluIn(op))] \in Kind
      BY <3>1
    <3> QED BY <3>2, ValuesAreInts
  <2>3. r \in Compare(op, x, y)
    BY <1>4, <2>0 DEF AluResult
  <2> QED BY <2>1, <2>2, <2>3, CompareValue
<1> QED BY <1>1, <1>2, <1>3, <1>4 DEF AluOps

-----------------------------------------------------------------------------
(* What the results mean, for every width *)

LEMMA MultipleMod ==
  ASSUME NEW m \in Nat \ {0}, NEW q \in Int
  PROVE  (q * m) % m = 0
BY SMT

LEMMA Halves ==
  ASSUME NEW k \in {"i", "l"}
  PROVE  /\ Bits(k) \in {ByteBits, ShortBits, IntBits, LongBits}
         /\ HalfOf(Bits(k)) \in Nat \ {0}
         /\ Values(k) = -HalfOf(Bits(k)) .. HalfOf(Bits(k)) - 1
BY PowersAssumption DEF PowersAssumption, Bits, Values

(* A number and what is left of it modulo m differ by a multiple of m. *)
LEMMA ModCongruent ==
  ASSUME NEW m \in Nat \ {0}, NEW w \in Int
  PROVE  ((w % m) - w) % m = 0 /\ w % m \in 0 .. m - 1
<1>1. w = m * (w \div m) + (w % m) /\ w \div m \in Int /\ w % m \in 0 .. m - 1
  BY SMT
<1> DEFINE q == -(w \div m)
<1>2. q \in Int /\ (w % m) - w = q * m
  BY <1>1, SMT
<1> HIDE DEF q
<1>3. (q * m) % m = 0
  BY <1>2, MultipleMod, Zenon
<1> QED  BY <1>1, <1>2, <1>3

(* Wrapping changes a number by a multiple of 2^n, *)
LEMMA WrapCongruent ==
  ASSUME NEW n \in {ByteBits, ShortBits, IntBits, LongBits}, NEW z \in Int
  PROVE  /\ WrapTo(n, z) \in Int
         /\ (WrapTo(n, z) - z) % (2 * HalfOf(n)) = 0
<1>1. HalfOf(n) \in Nat \ {0}
  BY PowersAssumption DEF PowersAssumption
<1>2. ASSUME NEW h \in Nat \ {0}
      PROVE  /\ ((z + h) % (2 * h)) - h \in Int
             /\ (((z + h) % (2 * h)) - h - z) % (2 * h) = 0
  <2> DEFINE m == 2 * h
             w == z + h
  <2>1. m \in Nat \ {0} /\ w \in Int
    BY <1>2
  <2> HIDE DEF m, w
  <2>2. ((w % m) - w) % m = 0 /\ w % m \in 0 .. m - 1
    BY <2>1, ModCongruent, Zenon
  <2>3. (w % m) - h - z = (w % m) - w
    BY <2>1, <2>2 DEF w
  <2>4. w % m \in Int
    BY <2>1, <2>2
  <2> QED  BY <2>2, <2>3, <2>4 DEF m, w
<1> QED  BY <1>1, <1>2 DEF WrapTo

(* and not at all if it fits. *)
LEMMA WrapExact ==
  ASSUME NEW n \in {ByteBits, ShortBits, IntBits, LongBits},
         NEW z \in -HalfOf(n) .. HalfOf(n) - 1
  PROVE  WrapTo(n, z) = z
<1>1. HalfOf(n) \in Nat \ {0}
  BY PowersAssumption DEF PowersAssumption
<1>2. ASSUME NEW h \in Nat \ {0}, NEW x \in -h .. h - 1
      PROVE  ((x + h) % (2 * h)) - h = x
  <2>1. x + h \in 0 .. 2 * h - 1
    OBVIOUS
  <2>2. (x + h) % (2 * h) = x + h
    BY <2>1, SMT
  <2> QED  BY <2>2
<1> QED  BY <1>1, <1>2 DEF WrapTo

LEMMA DivNat ==
  ASSUME NEW a \in Nat, NEW b \in Nat \ {0}
  PROVE  /\ a \div b \in Nat /\ (a \div b) * b <= a /\ a < (a \div b) * b + b
         /\ a \div b <= a
         /\ a \div b = a => a = 0 \/ b = 1
<1>1. a \div b \in Nat /\ (a \div b) * b <= a /\ a < (a \div b) * b + b
  BY SMT
<1>2. a \div b <= a
  BY SMT
<1>3. ASSUME NEW q \in Nat, q = a, q * b <= a PROVE a = 0 \/ b = 1
  BY <1>3, SMT
<1> QED  BY <1>1, <1>2, <1>3

(* The quotient is truncated towards zero. *)
LEMMA TruncDivMeans ==
  ASSUME NEW x \in Int, NEW y \in Int, y # 0
  PROVE  LET t == TruncDiv(x, y)
         IN  /\ t \in Int
             /\ Abs(t * y) = (Abs(x) \div Abs(y)) * Abs(y)
             /\ Abs(t) = Abs(x) \div Abs(y)
             /\ t = 0 \/ (t > 0) = ((x > 0) = (y > 0))
<1> DEFINE q == Abs(x) \div Abs(y)
<1>1. Abs(x) \in Nat /\ Abs(y) \in Nat \ {0}
  BY DEF Abs
<1>2. q \in Nat /\ q <= Abs(x)
  BY <1>1, DivNat
<1>3. TruncDiv(x, y) = Sign(x) * Sign(y) * q
  BY DEF TruncDiv
<1> HIDE DEF q
<1>4. CASE x = 0
  <2>1. q = 0
    BY <1>2, <1>4 DEF Abs
  <2>2. Sign(x) = 0 /\ Sign(y) \in Int
    BY <1>4 DEF Sign
  <2>3. TruncDiv(x, y) = 0
    BY <1>3, <2>1, <2>2
  <2>4. 0 * y = 0 /\ q * Abs(y) = 0 /\ Abs(0) = 0
    BY <1>1, <2>1, SMT DEF Abs
  <2> QED  BY <2>1, <2>3, <2>4 DEF q
<1>5. CASE x # 0 /\ (x > 0) = (y > 0)
  <2>1. Sign(x) * Sign(y) = 1
    BY <1>5 DEF Sign
  <2>2. TruncDiv(x, y) = q
    BY <1>2, <1>3, <2>1
  <2>3. Abs(q * y) = q * Abs(y) /\ Abs(q) = q
    <3>1. CASE y > 0
      <4>1. q * y \in Nat
        BY <1>2, <3>1, SMT
      <4> QED  BY <1>2, <3>1, <4>1 DEF Abs
    <3>2. CASE y < 0
      <4>1. q * (-y) \in Nat /\ q * y = -(q * (-y))
        BY <1>2, <3>2, SMT
      <4>2. Abs(y) = -y /\ Abs(q) = q
        BY <1>2, <3>2 DEF Abs
      <4> HIDE DEF q
      <4>3. ASSUME NEW a \in Nat, NEW b, b = -a PROVE Abs(b) = a
        BY <4>3 DEF Abs
      <4> QED  BY <4>1, <4>2, <4>3
    <3> QED  BY <3>1, <3>2
  <2> QED  BY <1>2, <1>5, <2>2, <2>3 DEF q
<1>6. CASE x # 0 /\ (x > 0) # (y > 0)
  <2>1. Sign(x) * Sign(y) = -1
    BY <1>6 DEF Sign
  <2>2. TruncDiv(x, y) = -q
    BY <1>2, <1>3, <2>1
  <2>3. Abs((-q) * y) = q * Abs(y) /\ Abs(-q) = q
    <3>1. CASE y > 0
      <4>1. q * y \in Nat /\ (-q) * y = -(q * y)
        BY <1>2, <3>1, SMT
      <4>2. Abs(y) = y /\ Abs(-q) = q
        BY <1>2, <3>1 DEF Abs
      <4>3. ASSUME NEW a \in Nat, NEW b, b = -a PROVE Abs(b) = a
        BY <4>3 DEF Abs
      <4> QED  BY <4>1, <4>2, <4>3
    <3>2. CASE y < 0
      <4>1. q * (-y) \in Nat /\ (-q) * y = q * (-y)
        BY <1>2, <3>2, SMT
      <4>2. Abs(y) = -y /\ Abs(-q) = q
        BY <1>2, <3>2 DEF Abs
      <4>3. ASSUME NEW a \in Nat PROVE Abs(a) = a
        BY DEF Abs
      <4> QED  BY <4>1, <4>2, <4>3
    <3> QED  BY <3>1, <3>2
  <2> QED  BY <1>2, <1>6, <2>2, <2>3 DEF q
<1> QED  BY <1>4, <1>5, <1>6

(* A quotient of two values is a value, except the least one's by -1. *)
LEMMA QuotientFits ==
  ASSUME NEW h \in Nat \ {0}, NEW x \in -h .. h - 1, NEW y \in -h .. h - 1,
         y # 0, ~(x = -h /\ y = -1)
  PROVE  TruncDiv(x, y) \in -h .. h - 1
<1> DEFINE t == TruncDiv(x, y)
           q == Abs(x) \div Abs(y)
<1>1. /\ t \in Int /\ Abs(t) = q
      /\ t = 0 \/ (t > 0) = ((x > 0) = (y > 0))
  BY TruncDivMeans
<1>2. Abs(x) \in 0 .. h /\ Abs(y) \in Nat \ {0}
  BY DEF Abs
<1>3. q \in Nat /\ q <= Abs(x) /\ (q = Abs(x) => Abs(x) = 0 \/ Abs(y) = 1)
  BY <1>2, DivNat
<1> HIDE DEF t, q
<1>4. CASE q < h
  BY <1>1, <1>3, <1>4 DEF Abs, t
<1>5. CASE q >= h
  <2>1. Abs(x) = h /\ q = h
    BY <1>2, <1>3, <1>5
  <2>2. x = -h /\ Abs(y) = 1
    BY <1>3, <2>1 DEF Abs
  <2>3. y = 1
    BY <2>2 DEF Abs
  <2>4. ~(t > 0)
    BY <1>1, <2>2, <2>3
  <2>5. t = -h
    BY <1>1, <2>1, <2>4 DEF Abs
  <2> QED  BY <2>5 DEF t
<1> QED  BY <1>2, <1>3, <1>4, <1>5

(* The remainder is what the quotient leaves, with the dividend's sign. *)
LEMMA TruncRemMeans ==
  ASSUME NEW x \in Int, NEW y \in Int, y # 0
  PROVE  LET r == TruncRem(x, y)
         IN  /\ r \in Int /\ Abs(r) < Abs(y)
             /\ r = 0 \/ (r > 0) = (x > 0)
             /\ TruncDiv(x, y) \in -Abs(x) .. Abs(x)
             /\ TruncDiv(x, y) * y + r = x
<1> DEFINE t == TruncDiv(x, y)
           q == Abs(x) \div Abs(y)
<1>1. /\ t \in Int /\ Abs(t) = q /\ Abs(t * y) = q * Abs(y)
      /\ t = 0 \/ (t > 0) = ((x > 0) = (y > 0))
  BY TruncDivMeans
<1>2. Abs(x) \in Nat /\ Abs(y) \in Nat \ {0}
  BY DEF Abs
<1>3. /\ q \in Nat /\ q <= Abs(x)
      /\ q * Abs(y) <= Abs(x) /\ Abs(x) < q * Abs(y) + Abs(y)
  BY <1>2, DivNat
<1> HIDE DEF t, q
<1>4. t \in -Abs(x) .. Abs(x)
  BY <1>1, <1>2, <1>3 DEF Abs
<1> DEFINE p == t * y
<1>5. p \in Int /\ y * t = p
  BY <1>1
<1>6. p = 0 \/ (p > 0) = (x > 0)
  BY <1>1, SMT DEF p
<1> DEFINE s == q * Abs(y)
<1>7. s \in Nat /\ Abs(p) = s /\ s <= Abs(x) /\ Abs(x) < s + Abs(y)
  BY <1>1, <1>2, <1>3, SMT
<1> HIDE DEF p, s
<1> DEFINE r == x - p
<1>8. r \in Int /\ Abs(r) < Abs(y) /\ (r = 0 \/ (r > 0) = (x > 0)) /\ p + r = x
  BY <1>5, <1>6, <1>7, SMT DEF Abs
<1>9. TruncRem(x, y) = r
  BY <1>5 DEF TruncRem, t
<1> QED  BY <1>4, <1>8, <1>9 DEF p, t

(* The wrapped sum, difference, product, quotient, remainder and negation  *)
(* are those of the mathematical operation up to the width; the last two   *)
(* are exact, for no quotient but the trapping one overflows.              *)
LEMMA ArithmeticIsRight ==
  ASSUME NEW k \in {"i", "l"}, NEW x \in Values(k), NEW y \in Values(k),
         NEW f \in {"add", "sub", "mul", "div", "rem", "neg"},
         f \in {"div", "rem"} => y # 0 /\ ~(x = -HalfOf(Bits(k)) /\ y = -1)
  PROVE  ArithmeticLaw(f, Bits(k), x, y, Arith(f, k, x, y))
<1> DEFINE n == Bits(k)
           h == HalfOf(n)
<1>1. n \in {ByteBits, ShortBits, IntBits, LongBits} /\ h \in Nat \ {0}
  BY Halves
<1>2. x \in -h .. h - 1 /\ y \in -h .. h - 1 /\ x \in Int /\ y \in Int
  BY Halves
<1>3. Mod(n) = 2 * h
  BY DEF Mod
<1> HIDE DEF n
<1>4. CASE f = "add"
  <2>1. x + y \in Int
    BY <1>2
  <2>2. Arith(f, k, x, y) = WrapTo(n, x + y)
    BY <1>4 DEF Arith, Wrap, n
  <2>3. (WrapTo(n, x + y) - (x + y)) % (2 * HalfOf(n)) = 0
    BY <1>1, <2>1, WrapCongruent, Zenon
  <2> QED  BY <1>4, <2>2, <2>3 DEF ArithmeticLaw, Congruent, Mod, n
<1>5. CASE f = "sub"
  <2> DEFINE z == x - y
  <2>1. z \in Int
    BY <1>2
  <2>2. Arith(f, k, x, y) = WrapTo(n, z)
    BY <1>5 DEF Arith, Wrap, n
  <2>3. (WrapTo(n, z) - z) % (2 * HalfOf(n)) = 0 /\ WrapTo(n, z) \in Int
    BY <1>1, <2>1, WrapCongruent, Zenon
  <2>4. (WrapTo(n, z) + y) - x = WrapTo(n, z) - z
    BY <1>2, <2>3
  <2> HIDE DEF z
  <2>5. ((WrapTo(n, z) + y) - x) % (2 * HalfOf(n)) = 0
    BY <2>3, <2>4, Zenon
  <2>6. Congruent(n, WrapTo(n, z) + y, x)
    BY <2>5 DEF Congruent, Mod
  <2> QED  BY <1>5, <2>2, <2>6 DEF ArithmeticLaw, n
<1>6. CASE f = "mul"
  <2>1. x * y \in Int
    BY <1>2
  <2>2. Arith(f, k, x, y) = WrapTo(n, x * y)
    BY <1>6 DEF Arith, Wrap, n
  <2>3. (WrapTo(n, x * y) - (x * y)) % (2 * HalfOf(n)) = 0
    BY <1>1, <2>1, WrapCongruent, Zenon
  <2> QED  BY <1>6, <2>2, <2>3 DEF ArithmeticLaw, Congruent, Mod, n
<1>7. CASE f = "neg"
  <2> DEFINE z == -x
  <2>1. z \in Int
    BY <1>2
  <2>2. Arith(f, k, x, y) = WrapTo(n, z)
    BY <1>7 DEF Arith, Wrap, n
  <2>3. (WrapTo(n, z) - z) % (2 * HalfOf(n)) = 0 /\ WrapTo(n, z) \in Int
    BY <1>1, <2>1, WrapCongruent, Zenon
  <2>4. (WrapTo(n, z) + x) - 0 = WrapTo(n, z) - z
    BY <1>2, <2>3
  <2> HIDE DEF z
  <2>5. ((WrapTo(n, z) + x) - 0) % (2 * HalfOf(n)) = 0
    BY <2>3, <2>4, Zenon
  <2>6. Congruent(n, WrapTo(n, z) + x, 0)
    BY <2>5 DEF Congruent, Mod
  <2> QED  BY <1>7, <2>2, <2>6 DEF ArithmeticLaw, n
<1>8. CASE f = "div"
  <2> DEFINE t == TruncDiv(x, y)
  <2>0. y # 0 /\ ~(x = -h /\ y = -1)
    BY <1>8 DEF n
  <2>1. t \in -h .. h - 1
    BY <1>1, <1>2, <2>0, QuotientFits
  <2>2. WrapTo(n, t) = t
    BY <1>1, <2>1, WrapExact, Zenon
  <2>3. Arith(f, k, x, y) = t
    BY <1>8, <2>2 DEF Arith, Wrap, n
  <2>4. /\ Abs(t * y) = (Abs(x) \div Abs(y)) * Abs(y)
        /\ t = 0 \/ (t > 0) = ((x > 0) = (y > 0))
    BY <1>2, <2>0, TruncDivMeans
  <2>5. Abs(x) \in Nat /\ Abs(y) \in Nat \ {0}
    BY <1>2, <2>0 DEF Abs
  <2>6. Abs(t * y) <= Abs(x) /\ Abs(x) < Abs(t * y) + Abs(y)
    BY <2>4, <2>5, DivNat
  <2> HIDE DEF t
  <2> QED  BY <1>8, <2>3, <2>4, <2>6 DEF ArithmeticLaw
<1>9. CASE f = "rem"
  <2> DEFINE r == TruncRem(x, y)
  <2>0. y # 0
    BY <1>9
  <2>1. /\ r \in Int /\ Abs(r) < Abs(y)
        /\ r = 0 \/ (r > 0) = (x > 0)
        /\ TruncDiv(x, y) \in -Abs(x) .. Abs(x)
        /\ TruncDiv(x, y) * y + r = x
    BY <1>2, <2>0, TruncRemMeans
  <2> HIDE DEF r
  <2>2. r \in -h .. h - 1
    BY <1>1, <1>2, <2>1 DEF Abs
  <2>3. WrapTo(n, r) = r
    BY <1>1, <2>2, WrapExact, Zenon
  <2>4. Arith(f, k, x, y) = r
    BY <1>9, <2>3 DEF Arith, Wrap, n, r
  <2>5. \E q \in -Abs(x) .. Abs(x) : q * y + r = x
    BY <2>1
  <2> QED  BY <1>9, <2>1, <2>4, <2>5 DEF ArithmeticLaw
<1> QED  BY <1>4, <1>5, <1>6, <1>7, <1>8, <1>9

(* A comparison orders its operands. *)
LEMMA CompareIsRight ==
  ASSUME NEW op \in CompareOps, NEW x \in Int, NEW y \in Int,
         NEW r \in Compare(op, x, y)
  PROVE  ComparisonLaw(op, x, y, r)
<1>1. NaN \in Int
  BY FMaxAssumption DEF FMaxAssumption, NaN
<1>2. CASE op = 148
  <2>1. r = Sign(x - y)
    BY <1>2 DEF Compare
  <2> QED  BY <1>2, <2>1 DEF Sign, ComparisonLaw
<1>3. CASE op # 148 /\ NaN \in {x, y}
  <2>1. r = IF op \in {149, 151} THEN -1 ELSE 1
    BY <1>3 DEF Compare
  <2> QED  BY <1>3, <2>1 DEF ComparisonLaw, Less
<1>4. CASE op # 148 /\ NaN \notin {x, y} /\ x = y /\ Abs(x) = Huge
  BY <1>4 DEF ComparisonLaw, Known
<1>5. CASE op # 148 /\ NaN \notin {x, y} /\ ~(x = y /\ Abs(x) = Huge)
  <2>1. r = Sign(x - y)
    BY <1>5 DEF Compare
  <2> QED  BY <1>5, <2>1 DEF ComparisonLaw, Sign, Less
<1> QED  BY <1>2, <1>3, <1>4, <1>5

LEMMA BitIsBinary ==
  ASSUME NEW k \in {"i", "l"}, NEW z \in Int, NEW i \in 0 .. Bits(k) - 1
  PROVE  Bit(Bits(k), z, i) \in {0, 1}
<1> DEFINE a == z % (2 * HalfOf(Bits(k)))
           p == 2 ^ i
<1>1. a \in Int
  BY Halves
<1>2. i \in 0 .. LongBits - 1
  BY WidthsAssumption DEF WidthsAssumption, Bits
<1>3. p \in Nat \ {0}
  BY <1>2, PlacesAssumption DEF PlacesAssumption
<1>4. Bit(Bits(k), z, i) = (a \div p) % 2
  BY DEF Bit
<1> HIDE DEF a, p
<1> QED  BY <1>1, <1>3, <1>4, SMT

(* The bits of a bitwise operation's result are the sets of ones'. *)
LEMMA BitsAreRight ==
  ASSUME NEW op \in BitOps, NEW x \in Int, NEW y \in Int,
         NEW r \in AluResult(op, x, y)
  PROVE  BitLaw(op, Bits(ShiftKind(op)), x, y, r)
<1> DEFINE n == Bits(ShiftKind(op))
           f == BitNames[(op - 126) \div 2 + 1]
<1>0. ShiftKind(op) \in {"i", "l"}
  BY DEF BitOps, ShiftKind, Kinds
<1>1. r \in Bitwise(f, ShiftKind(op), x, y)
  <2>1. /\ op \notin ArithOps /\ op \notin ShiftOps
        /\ op \notin ConvertOps /\ op \notin CompareOps
    BY DEF BitOps, ArithOps, ShiftOps, ConvertOps, CompareOps
  <2>2. AluResult(op, x, y) = Bitwise(f, ShiftKind(op), x, y)
    BY <2>1 DEF AluResult
  <2> QED  BY <2>2
<1> HIDE DEF f, n
<1>2. \A i \in 0 .. n - 1 : Bit(n, r, i) = BitOf(f, n, x, y, i)
  BY <1>1, Zenon DEF Bitwise, n
<1>3. \A z : OnesOf(n, z) = {i \in 0 .. n - 1 : Bit(n, z, i) = 1}
  BY Zenon DEF OnesOf, Bit, Mod
<1>4. CASE op \in {126, 127}
  <2>1. f = "and"
    BY <1>4 DEF f, BitNames
  <2>2. \A i \in 0 .. n - 1 : (Bit(n, r, i) = 1) = (Bit(n, x, i) = 1 /\ Bit(n, y, i) = 1)
    BY <1>2, <2>1 DEF BitOf
  <2>3. OnesOf(n, r) = OnesOf(n, x) \cap OnesOf(n, y)
    BY <1>3, <2>2
  <2> QED  BY <1>4, <2>3 DEF BitLaw, n
<1>5. CASE op \in {128, 129}
  <2>1. f = "or"
    BY <1>5 DEF f, BitNames
  <2>2. \A i \in 0 .. n - 1 : (Bit(n, r, i) = 1) = (Bit(n, x, i) = 1 \/ Bit(n, y, i) = 1)
    BY <1>2, <2>1 DEF BitOf
  <2>3. OnesOf(n, r) = OnesOf(n, x) \cup OnesOf(n, y)
    BY <1>3, <2>2
  <2> QED  BY <1>5, <2>3 DEF BitLaw, n
<1>6. CASE op \in {130, 131}
  <2>1. f = "xor"
    BY <1>6 DEF f, BitNames
  <2>2. \A i \in 0 .. n - 1 : Bit(n, x, i) \in {0, 1} /\ Bit(n, y, i) \in {0, 1}
    BY <1>0, BitIsBinary DEF n
  <2>3. \A i \in 0 .. n - 1 : (Bit(n, r, i) = 1) = (Bit(n, x, i) # Bit(n, y, i))
    BY <1>2, <2>1 DEF BitOf
  <2>4. OnesOf(n, r) = (OnesOf(n, x) \cup OnesOf(n, y)) \ (OnesOf(n, x) \cap OnesOf(n, y))
    BY <1>3, <2>2, <2>3
  <2> QED  BY <1>6, <2>4 DEF BitLaw, n
<1> QED  BY <1>4, <1>5, <1>6 DEF BitOps

(* A float becomes the integer towards zero; NaN and the infinities become *)
(* 0, and a float beyond the integers what the cast gives.                 *)
LEMMA FloatToIntIsRight ==
  ASSUME NEW k \in {"i", "l"}, NEW x \in Values("f"), NEW r \in FloatToInt(k, x)
  PROVE  Truncated(k, x, r)
<1>1. x \in Int /\ FMax \in Nat
  BY FMaxAssumption DEF FMaxAssumption, Values, Infinity, NaN
<1>2. CASE x \in {NaN, Infinity, -Infinity}
  <2>1. r = 0
    BY <1>2 DEF FloatToInt
  <2>2. ~(Abs(x) <= FMax) /\ x \notin {Huge, -Huge}
    BY <1>1, <1>2 DEF Abs, NaN, Infinity, Huge
  <2> QED  BY <2>1, <2>2 DEF Truncated
<1>3. CASE x \in {Huge, -Huge}
  <2>1. x \notin {NaN, Infinity, -Infinity} /\ Abs(x) = Huge /\ ~(Abs(x) <= FMax)
    BY <1>1, <1>3 DEF Abs, NaN, Infinity, Huge
  <2>2. r \in HugeAs(k, x)
    BY <2>1 DEF FloatToInt
  <2>3. r = -HalfOf(Bits(k)) \/ (Sign(r) = Sign(x) /\ Abs(r) >= FMax \div 2)
    BY <2>2 DEF HugeAs
  <2> QED  BY <2>1, <2>3 DEF Truncated
<1>4. CASE x \notin {NaN, Infinity, -Infinity, Huge, -Huge}
  <2>1. Abs(x) # Huge
    BY <1>1, <1>4 DEF Abs
  <2>2. r = TruncDiv(x, 2)
    BY <1>4, <2>1 DEF FloatToInt
  <2>3. /\ r \in Int /\ Abs(r * 2) = (Abs(x) \div Abs(2)) * Abs(2)
        /\ r = 0 \/ (r > 0) = ((x > 0) = (2 > 0))
    BY <1>1, <2>2, TruncDivMeans
  <2>4. Abs(x) \in Nat /\ Abs(2) = 2 /\ 2 * r = r * 2
    BY <1>1, <2>3 DEF Abs
  <2>5. Abs(2 * r) <= Abs(x) /\ Abs(x) < Abs(2 * r) + 2
    BY <2>3, <2>4, DivNat
  <2> QED  BY <1>4, <2>3, <2>5 DEF Truncated
<1> QED  BY <1>2, <1>3, <1>4

(* An integer that the codes represent becomes the same float. *)
LEMMA IntToFloatIsRight ==
  ASSUME NEW x \in Int, NEW r \in IntToFloat(x)
  PROVE  Floated(x, r)
<1>1. FMax \in Nat
  BY FMaxAssumption DEF FMaxAssumption
<1>2. CASE 2 * Abs(x) <= FMax
  BY <1>2 DEF IntToFloat, Floated
<1>3. CASE ~(2 * Abs(x) <= FMax)
  <2>1. r = Sign(x) * Huge
    BY <1>3 DEF IntToFloat
  <2>2. 2 * Abs(x) > FMax /\ x # 0
    BY <1>1, <1>3 DEF Abs
  <2>3. (x < 0 /\ r = -Huge) \/ (x > 0 /\ r = Huge)
    BY <1>1, <2>1, <2>2 DEF Sign, Huge
  <2> QED  BY <1>1, <2>2, <2>3 DEF Abs, Huge, Floated
<1> QED  BY <1>2, <1>3

(* Narrowing keeps a number up to the width of its target. *)
LEMMA NarrowingIsRight ==
  ASSUME NEW x \in Int, NEW n \in {ByteBits, ShortBits, IntBits, LongBits}
  PROVE  /\ Narrowed(n, -HalfOf(n), x, WrapTo(n, x))
         /\ Narrowed(n, 0, x, x % (2 * HalfOf(n)))
<1>1. (WrapTo(n, x) - x) % (2 * HalfOf(n)) = 0
  BY WrapCongruent
<1>2. WrapTo(n, x) \in -HalfOf(n) .. HalfOf(n) - 1
  BY WrapToRange
<1> DEFINE m == 2 * HalfOf(n)
<1>3. m \in Nat \ {0}
  BY PowersAssumption DEF PowersAssumption
<1> HIDE DEF m
<1>4. ((x % m) - x) % m = 0 /\ x % m \in 0 .. m - 1
  BY <1>3, ModCongruent, Zenon
<1>5. Congruent(n, WrapTo(n, x), x) /\ Congruent(n, x % m, x) /\ Mod(n) = m
  BY <1>1, <1>4 DEF Congruent, Mod, m
<1>6. /\ WrapTo(n, x) \in -HalfOf(n) .. -HalfOf(n) + (Mod(n) - 1)
      /\ x % m \in 0 .. 0 + (Mod(n) - 1)
  BY <1>2, <1>3, <1>4, <1>5, PowersAssumption DEF m, PowersAssumption
<1> QED  BY <1>5, <1>6 DEF Narrowed, m

(* Each conversion does what its instruction means. *)
LEMMA ConvertIsRight ==
  ASSUME NEW op \in ConvertOps, NEW x \in Values(Conversion(op)[1]),
         NEW r \in Convert(op, x)
  PROVE  ConversionLaw(op, x, r)
<1>1. Values("f") = Values("d") /\ FMax \in Nat
  BY FMaxAssumption DEF Values, FMaxAssumption
<1>2. x \in Int
  <2>1. Conversion(op)[1] \in Kind
    BY ConvertRows DEF Kind
  <2> QED  BY <2>1, ValuesAreInts
<1>3. CASE op \in {134, 135, 137, 138}
  <2>1. Conversion(op)[1] \in {"i", "l"} /\ Conversion(op)[2] \in {"f", "d"}
    BY <1>3 DEF Conversion, Conversions
  <2>2. Convert(op, x) = IntToFloat(x)
    BY <1>3, <2>1 DEF Convert, Integral, Floating
  <2>3. Floated(x, r)
    BY <1>2, <2>2, IntToFloatIsRight
  <2> QED  BY <1>3, <2>3 DEF ConversionLaw
<1>4. CASE op \in {139, 140, 142, 143}
  <2>1. Conversion(op)[1] \in {"f", "d"} /\ Conversion(op)[2] \in {"i", "l"}
    BY <1>4 DEF Conversion, Conversions
  <2>2. Convert(op, x) = FloatToInt(Conversion(op)[2], x)
    BY <1>4, <2>1 DEF Convert, Integral, Floating
  <2>3. Truncated(Conversion(op)[2], x, r)
    BY <1>1, <2>1, <2>2, FloatToIntIsRight
  <2> QED  BY <1>4, <2>3 DEF ConversionLaw
<1>5. CASE op \in {141, 144}
  <2>1. Conversion(op)[1] \in {"f", "d"} /\ Conversion(op)[2] \in {"f", "d"}
    BY <1>5 DEF Conversion, Conversions
  <2>2. CASE op = 141
    <3>1. Convert(op, x) = {x}
      BY <2>1, <2>2 DEF Convert, Integral, Floating
    <3> QED  BY <2>2, <3>1 DEF ConversionLaw
  <2>3. CASE op = 144
    <3>1. Convert(op, x) = DoubleToFloat(x)
      BY <2>1, <2>3 DEF Convert, Integral, Floating
    <3>2. r = x \/ (Abs(x) = Huge /\ r = Sign(x) * Infinity)
      BY <3>1 DEF DoubleToFloat
    <3>3. Rounded(x, r)
      BY <1>1, <1>2, <3>2 DEF Rounded, Sign, Abs, Infinity, Huge
    <3> QED  BY <2>3, <3>3 DEF ConversionLaw
  <2> QED  BY <1>5, <2>2, <2>3
<1>6. CASE op \in {133, 136}
  <2>1. Conversion(op) = IF op = 133 THEN <<"i", "l">> ELSE <<"l", "i">>
    BY <1>6 DEF Conversion, Conversions
  <2>2. Convert(op, x) = {Wrap(Conversion(op)[2], x)}
    BY <1>6, <2>1 DEF Convert, Integral, Floating
  <2>3. CASE op = 133
    <3>1. r = WrapTo(LongBits, x)
      BY <2>1, <2>2, <2>3 DEF Wrap, Bits
    <3>2. x \in -HalfOf(LongBits) .. HalfOf(LongBits) - 1
      BY <2>1, <2>3, PowersAssumption DEF PowersAssumption, Values, Bits
    <3>3. r = x
      BY <3>1, <3>2, WrapExact
    <3> QED  BY <2>3, <3>3 DEF ConversionLaw
  <2>4. CASE op = 136
    <3>1. r = WrapTo(IntBits, x)
      BY <2>1, <2>2, <2>4 DEF Wrap, Bits
    <3>2. Narrowed(IntBits, -HalfOf(IntBits), x, r)
      BY <1>2, <3>1, NarrowingIsRight
    <3> QED  BY <2>4, <3>2 DEF ConversionLaw
  <2> QED  BY <1>6, <2>3, <2>4
<1>7. CASE op = 145
  <2>0. Conversion(op) = <<"i", "i">>
    BY <1>7 DEF Conversion, Conversions
  <2>1. Convert(op, x) = {WrapTo(ByteBits, x)}
    BY <1>7, <2>0 DEF Convert, Integral, Floating
  <2>2. Narrowed(ByteBits, -HalfOf(ByteBits), x, r)
    BY <1>2, <2>1, NarrowingIsRight
  <2> QED  BY <1>7, <2>2 DEF ConversionLaw
<1>8. CASE op = 146
  <2>0. Conversion(op) = <<"i", "i">>
    BY <1>8 DEF Conversion, Conversions
  <2>1. Convert(op, x) = {x % (2 * HalfOf(ShortBits))}
    BY <1>8, <2>0 DEF Convert, Integral, Floating
  <2>2. Narrowed(ShortBits, 0, x, r)
    BY <1>2, <2>1, NarrowingIsRight
  <2> QED  BY <1>8, <2>2 DEF ConversionLaw
<1>9. CASE op = 147
  <2>0. Conversion(op) = <<"i", "i">>
    BY <1>9 DEF Conversion, Conversions
  <2>1. Convert(op, x) = {WrapTo(ShortBits, x)}
    BY <1>9, <2>0 DEF Convert, Integral, Floating
  <2>2. Narrowed(ShortBits, -HalfOf(ShortBits), x, r)
    BY <1>2, <2>1, NarrowingIsRight
  <2> QED  BY <1>9, <2>2 DEF ConversionLaw
<1> QED  BY <1>3, <1>4, <1>5, <1>6, <1>7, <1>8, <1>9 DEF ConvertOps

-----------------------------------------------------------------------------
(* Shifts.  Their results are given bit by bit, so what they mean rests on *)
(* the bits of a number determining it, whatever the width.                *)

(* A set of naturals has a least element. *)
LEMMA LeastNat ==
  ASSUME NEW T \in SUBSET Nat, T # {}
  PROVE  \E i \in T : \A j \in T : i <= j
<1>1. \E i \in T : \A j \in T : ~(<<j, i>> \in OpToRel(<, Nat))
  BY WFMin, NatLessThanWellFounded
<1>2. PICK i \in T : \A j \in T : ~(<<j, i>> \in OpToRel(<, Nat))
  BY <1>1
<1>3. \A j \in T : ~(j < i)
  BY <1>2 DEF OpToRel
<1> QED BY <1>3

(* Two numbers that are built from the same digits are equal: A[j] and     *)
(* B[j] are what is left of them without their last j digits.              *)
LEMMA SameDigits ==
  ASSUME NEW m \in Nat, NEW A \in [0 .. m -> Int], NEW B \in [0 .. m -> Int],
         A[m] = B[m],
         \A j \in 0 .. m - 1 : A[j] - 2 * A[j + 1] = B[j] - 2 * B[j + 1]
  PROVE  A[0] = B[0]
<1> DEFINE T == {d \in 0 .. m : A[m - d] # B[m - d]}
<1> SUFFICES ASSUME A[0] # B[0] PROVE FALSE
  OBVIOUS
<1>1. m \in T
  BY m - m = 0
<1>2. PICK d \in T : \A e \in T : d <= e
  <2>1. T \in SUBSET Nat
    OBVIOUS
  <2> HIDE DEF T
  <2>2. T # {}
    BY <1>1
  <2> QED  BY <2>1, <2>2, LeastNat, Zenon
<1>3. d \in 1 .. m /\ A[m - d] # B[m - d]
  <2>1. d \in 0 .. m /\ A[m - d] # B[m - d]
    OBVIOUS
  <2>2. d = 0 => m - d = m
    OBVIOUS
  <2> QED  BY <2>1, <2>2
<1>4. m - d \in 0 .. m - 1 /\ (m - d) + 1 = m - (d - 1) /\ d - 1 \in 0 .. m
  BY <1>3
<1>5. A[m - (d - 1)] = B[m - (d - 1)]
  <2>1. d \in Int /\ \A e \in T : d <= e
    BY <1>2, <1>3
  <2> HIDE DEF T
  <2>2. d - 1 \notin T
    BY <2>1
  <2> QED  BY <1>4, <2>2 DEF T
<1>6. A[m - d] - 2 * A[m - (d - 1)] = B[m - d] - 2 * B[m - (d - 1)]
  BY <1>4
<1>7. A[m - d] \in Int /\ B[m - d] \in Int /\ A[m - (d - 1)] \in Int
  BY <1>4
<1> QED  BY <1>3, <1>5, <1>6, <1>7

(* Numbers that are halved equally often stay the same. *)
LEMMA SameHalves ==
  ASSUME NEW m \in Nat, NEW A \in [0 .. m -> Int], NEW B \in [0 .. m -> Int],
         A[0] = B[0],
         \A j \in 0 .. m - 1 : A[j + 1] = A[j] \div 2 /\ B[j + 1] = B[j] \div 2
  PROVE  A[m] = B[m]
<1> DEFINE T == {d \in 0 .. m : A[d] # B[d]}
<1> SUFFICES ASSUME A[m] # B[m] PROVE FALSE
  OBVIOUS
<1>1. m \in T
  OBVIOUS
<1>2. PICK d \in T : \A e \in T : d <= e
  <2>1. T \in SUBSET Nat
    OBVIOUS
  <2> HIDE DEF T
  <2>2. T # {}
    BY <1>1
  <2> QED  BY <2>1, <2>2, LeastNat, Zenon
<1>3. d \in 1 .. m /\ A[d] # B[d]
  BY <1>2
<1>4. d - 1 \in 0 .. m - 1 /\ (d - 1) + 1 = d
  BY <1>3
<1>5. A[d - 1] = B[d - 1]
  <2>1. d \in Int /\ \A e \in T : d <= e
    BY <1>2, <1>3
  <2> HIDE DEF T
  <2>2. d - 1 \notin T
    BY <2>1
  <2> QED  BY <1>4, <2>2 DEF T
<1> QED  BY <1>3, <1>4, <1>5

(* A quotient is the one number that leaves a remainder in range. *)
LEMMA DivUnique ==
  ASSUME NEW x \in Int, NEW d \in Nat \ {0}, NEW q \in Int, NEW r \in 0 .. d - 1, x = q * d + r
  PROVE  x \div d = q
BY SMT

(* Division by twice a number is division by it and a halving. *)
LEMMA DivTwice ==
  ASSUME NEW x \in Int, NEW p \in Nat \ {0}
  PROVE  x \div (2 * p) = (x \div p) \div 2
<1>1. PICK q \in Int, r \in 0 .. p - 1 : q = x \div p /\ x = q * p + r
  <2>1. x \div p \in Int /\ x % p \in 0 .. p - 1 /\ x = (x \div p) * p + (x % p)
    BY SMT
  <2> QED  BY <2>1
<1>2. PICK h \in Int, b \in {0, 1} : h = q \div 2 /\ q = 2 * h + b
  BY SMT
<1> DEFINE d == 2 * p
           s == b * p + r
<1>3. d \in Nat \ {0} /\ s \in 0 .. d - 1
  BY <1>1, <1>2
<1>4. h * d = 2 * (h * p)
  BY SMT
<1>5. q * p = 2 * (h * p) + b * p
  BY <1>2, SMT
<1>6. x = h * d + s
  BY <1>1, <1>4, <1>5
<1> HIDE DEF d, s
<1>7. x \div d = h
  BY <1>3, <1>6, DivUnique
<1> QED  BY <1>1, <1>2, <1>7 DEF d

-----------------------------------------------------------------------------
(* The widths and the powers of two of their places. *)
LEMMA Powers ==
  ASSUME NEW k \in {"i", "l"}
  PROVE  /\ Bits(k) \in Nat \ {0}
         /\ 2 ^ 0 = 1
         /\ \A j \in 0 .. Bits(k) : 2 ^ j \in Nat \ {0}
         /\ \A j \in 0 .. Bits(k) - 1 : 2 ^ (j + 1) = 2 * 2 ^ j
         /\ Mod(Bits(k)) = 2 ^ Bits(k) /\ HalfOf(Bits(k)) = 2 ^ (Bits(k) - 1)
<1> DEFINE n == Bits(k)
           pow(j) == 2 ^ j
<1>1. n \in Nat /\ 1 < n /\ n <= LongBits /\ LongBits \in Nat
  BY WidthsAssumption DEF WidthsAssumption, Bits
<1>2. pow(0) = 1 /\ \A j \in 0 .. LongBits - 1 : pow(j) \in Nat \ {0} /\ pow(j + 1) = 2 * pow(j)
  BY PlacesAssumption DEF PlacesAssumption
<1>3. Mod(n) = 2 * pow(n - 1) /\ HalfOf(n) = pow(n - 1)
  BY DEF Mod, HalfOf
<1> HIDE DEF n, pow
<1>4. \A j \in 0 .. n - 1 : pow(j) \in Nat \ {0} /\ pow(j + 1) = 2 * pow(j)
  BY <1>1, <1>2
<1>5. pow(n - 1) \in Nat \ {0} /\ pow((n - 1) + 1) = 2 * pow(n - 1) /\ (n - 1) + 1 = n
  BY <1>1, <1>4
<1>6. \A j \in 0 .. n : pow(j) \in Nat \ {0}
  <2> TAKE j \in 0 .. n
  <2>1. CASE j = n
    BY <1>5, <2>1
  <2>2. CASE j \in 0 .. n - 1
    BY <1>4, <2>2
  <2> QED  BY <1>1, <2>1, <2>2
<1> QED  BY <1>1, <1>2, <1>3, <1>4, <1>5, <1>6 DEF n, pow

(* What is left of a number of n bits without its last j. *)
Digits(n, z) == [j \in 0 .. n |-> (z % Mod(n)) \div 2 ^ j]

(* Its digits give the bits of a number back. *)
LEMMA DigitsAreBits ==
  ASSUME NEW k \in {"i", "l"}, NEW z \in Int
  PROVE  LET n == Bits(k)
             U == Digits(n, z)
         IN  /\ U \in [0 .. n -> Nat]
             /\ U[0] = z % Mod(n) /\ U[n] = 0
             /\ \A j \in 0 .. n - 1 : /\ U[j + 1] = U[j] \div 2
                                      /\ U[j] - 2 * U[j + 1] = Bit(n, z, j)
                                      /\ Bit(n, z, j) \in {0, 1}
<1> DEFINE n == Bits(k)
           u == z % Mod(n)
           pow(j) == 2 ^ j
           U == Digits(n, z)
<1>1. /\ n \in Nat \ {0} /\ pow(0) = 1 /\ Mod(n) = pow(n)
      /\ \A j \in 0 .. n : pow(j) \in Nat \ {0}
      /\ \A j \in 0 .. n - 1 : pow(j + 1) = 2 * pow(j)
  BY Powers, Zenon
<1>2. \A j \in 0 .. n : U[j] = u \div pow(j)
  BY DEF Digits
<1>3. \A j : Bit(n, z, j) = (u \div pow(j)) % 2
  BY DEF Bit, Mod
<1>4. u \in 0 .. pow(n) - 1
  <2>1. pow(n) \in Nat \ {0} /\ u = z % pow(n)
    BY <1>1
  <2> HIDE DEF pow, n, u
  <2> QED  BY <2>1, ModCongruent, Zenon
<1>5. U = [j \in 0 .. n |-> U[j]]
  BY DEF Digits
<1> HIDE DEF n, u, pow, U
<1>6. \A j \in 0 .. n : U[j] \in Nat
  <2> TAKE j \in 0 .. n
  <2>1. pow(j) \in Nat \ {0} /\ u \in Nat
    BY <1>1, <1>4
  <2> QED  BY <1>2, <2>1, DivNat
<1>7. U[0] = u
  <2>1. 0 \in 0 .. n /\ u \in Nat
    BY <1>1, <1>4
  <2>2. u \div 1 = u
    BY <2>1, SMT
  <2> QED  BY <1>1, <1>2, <2>1, <2>2
<1>8. U[n] = 0
  <2>1. n \in 0 .. n /\ pow(n) \in Nat \ {0}
    BY <1>1
  <2>2. u = 0 * pow(n) + u
    BY <1>4, <2>1
  <2>3. u \div pow(n) = 0
    BY <1>4, <2>1, <2>2, DivUnique
  <2> QED  BY <1>2, <2>1, <2>3
<1>9. ASSUME NEW j \in 0 .. n - 1
      PROVE  /\ U[j + 1] = U[j] \div 2 /\ U[j] - 2 * U[j + 1] = U[j] % 2
             /\ U[j] % 2 \in {0, 1} /\ U[j] = u \div pow(j)
  <2>1. j \in 0 .. n /\ j + 1 \in 0 .. n
    BY <1>1
  <2>2. pow(j) \in Nat \ {0} /\ pow(j + 1) = 2 * pow(j) /\ u \in Int
    BY <1>1, <1>4, <2>1
  <2>3. u \div pow(j + 1) = (u \div pow(j)) \div 2
    BY <2>2, DivTwice
  <2>4. U[j + 1] = U[j] \div 2 /\ U[j] = u \div pow(j)
    BY <1>2, <2>1, <2>3
  <2> QED  BY <1>6, <2>1, <2>4
<1>10. U \in [0 .. n -> Nat]
  BY <1>5, <1>6
<1> QED  BY <1>3, <1>7, <1>8, <1>9, <1>10 DEF n, u, U

-----------------------------------------------------------------------------
(* A number is a multiple of m and its remainder. *)
LEMMA Remainder ==
  ASSUME NEW m \in Nat \ {0}, NEW z \in Int
  PROVE  \E q \in Int : z = q * m + (z % m) /\ z % m \in 0 .. m - 1
<1>1. z \div m \in Int /\ z = (z \div m) * m + (z % m) /\ z % m \in 0 .. m - 1
  BY SMT
<1> QED  BY <1>1

(* A multiple of a power of two is half the same multiple of the next. *)
LEMMA DoublePower ==
  ASSUME NEW k \in {"i", "l"}, NEW z \in Int, NEW d \in 0 .. Bits(k) - 1
  PROVE  z * 2 ^ (d + 1) = 2 * (z * 2 ^ d) /\ z * 2 ^ d \in Int
<1>1. ASSUME NEW p \in Nat, NEW q \in Nat, q = 2 * p
      PROVE  z * q = 2 * (z * p) /\ z * p \in Int
  BY <1>1, SMT
<1>2. /\ 2 ^ d \in Nat /\ 2 ^ (d + 1) = 2 * 2 ^ d /\ 2 ^ (d + 1) \in Nat
  <2>1. Bits(k) \in Nat /\ d \in 0 .. Bits(k) /\ d + 1 \in 0 .. Bits(k)
    BY Powers
  <2> QED  BY <2>1, Powers
<1> QED  BY <1>1, <1>2

(* Zeros and then the bits of x are those of x * 2^s. *)
LEMMA ShiftedLeft ==
  ASSUME NEW k \in {"i", "l"}, NEW x \in Int, NEW r \in Int, NEW s \in 0 .. Bits(k) - 1,
         \A i \in 0 .. Bits(k) - 1 :
           Bit(Bits(k), r, i) = IF i < s THEN 0 ELSE Bit(Bits(k), x, i - s)
  PROVE  Congruent(Bits(k), r, x * 2 ^ s)
<1> DEFINE n == Bits(k)
           m == Mod(n)
           bit(z, j) == Bit(n, z, j)
           pow(j) == 2 ^ j
           U == Digits(n, x)
           R == Digits(n, r)
           u == U[0]
           t == U[n - s]
           B == [j \in 0 .. n |-> (IF j <= s THEN u * pow(s - j) ELSE U[j - s]) - t * pow(n - j)]
<1>1. /\ n \in Nat \ {0} /\ pow(0) = 1 /\ m = pow(n)
      /\ \A j \in 0 .. n : pow(j) \in Nat \ {0}
  BY Powers, Zenon
<1>2. /\ U \in [0 .. n -> Nat] /\ u = x % m
      /\ \A j \in 0 .. n - 1 : U[j] - 2 * U[j + 1] = bit(x, j)
  BY DigitsAreBits, Zenon
<1>3. /\ R \in [0 .. n -> Nat] /\ R[0] = r % m /\ R[n] = 0
      /\ \A j \in 0 .. n - 1 : R[j] - 2 * R[j + 1] = bit(r, j)
  BY DigitsAreBits, Zenon
<1>4. \A z \in Int : \A d \in 0 .. n - 1 : z * pow(d + 1) = 2 * (z * pow(d)) /\ z * pow(d) \in Int
  BY DoublePower
<1>5. s \in 0 .. n - 1 /\ \A i \in 0 .. n - 1 : bit(r, i) = IF i < s THEN 0 ELSE bit(x, i - s)
  OBVIOUS
<1>6. Congruent(n, r, x * 2 ^ s) <=> (r - x * pow(s)) % m = 0
  BY DEF Congruent
<1> HIDE DEF n, m, bit, pow, U, R
<1>7. u \in Int /\ t \in Int /\ u * pow(0) = u /\ t * pow(0) = t
  <2>1. 0 \in 0 .. n /\ n - s \in 0 .. n
    BY <1>1, <1>5
  <2>2. U[0] \in Int /\ U[n - s] \in Int
    BY <1>2, <2>1
  <2>3. \A z \in Int : z * 1 = z
    BY SMT
  <2> QED  BY <1>1, <2>2, <2>3
<1>8. \A z \in Int : \A d \in 0 .. n : z * pow(d) \in Int
  BY <1>1, SMT
<1>9. B \in [0 .. n -> Int]
  <2> SUFFICES ASSUME NEW j \in 0 .. n
               PROVE  (IF j <= s THEN u * pow(s - j) ELSE U[j - s]) - t * pow(n - j) \in Int
    OBVIOUS
  <2>1. j <= s => s - j \in 0 .. n
    BY <1>1, <1>5
  <2>2. j > s => j - s \in 0 .. n
    BY <1>1, <1>5
  <2>3. n - j \in 0 .. n
    BY <1>1
  <2>4. t * pow(n - j) \in Int
    BY <1>7, <1>8, <2>3
  <2>5. j <= s => u * pow(s - j) \in Int
    BY <1>7, <1>8, <2>1
  <2>6. j > s => U[j - s] \in Int
    BY <1>2, <2>2
  <2> QED  BY <1>1, <1>5, <2>4, <2>5, <2>6
<1>10. R[n] = B[n]
  <2>1. n - n = 0 /\ n \in 0 .. n /\ ~(n <= s)
    BY <1>1, <1>5
  <2>2. B[n] = t - t * pow(0)
    BY <2>1
  <2> QED  BY <1>3, <1>7, <2>2
<1>11. ASSUME NEW j \in 0 .. n - 1
       PROVE  R[j] - 2 * R[j + 1] = B[j] - 2 * B[j + 1]
  <2>1. /\ j \in 0 .. n /\ j + 1 \in 0 .. n /\ n - (j + 1) \in 0 .. n - 1
        /\ (n - (j + 1)) + 1 = n - j
    BY <1>1
  <2>2. t * pow(n - j) = 2 * (t * pow(n - (j + 1))) /\ t * pow(n - (j + 1)) \in Int
    BY <1>4, <1>7, <2>1
  <2>3. CASE j < s
    <3>1. s - (j + 1) \in 0 .. n - 1 /\ (s - (j + 1)) + 1 = s - j
      BY <1>1, <1>5, <2>3
    <3>2. u * pow(s - j) = 2 * (u * pow(s - (j + 1))) /\ u * pow(s - (j + 1)) \in Int
      BY <1>4, <1>7, <3>1
    <3>3. B[j] = u * pow(s - j) - t * pow(n - j)
      BY <1>5, <2>1, <2>3
    <3>4. B[j + 1] = u * pow(s - (j + 1)) - t * pow(n - (j + 1))
      BY <1>5, <2>1, <2>3
    <3>5. B[j] - 2 * B[j + 1] = 0
      BY <2>2, <3>2, <3>3, <3>4
    <3>6. bit(r, j) = 0
      BY <1>5, <2>3
    <3> QED  BY <1>3, <3>5, <3>6
  <2>4. CASE s <= j
    <3>1. j - s \in 0 .. n - 1 /\ (j - s) + 1 = (j + 1) - s
      BY <1>1, <1>5, <2>4
    <3>2. B[j] = U[j - s] - t * pow(n - j)
      <4>1. j = s => s - j = 0 /\ j - s = 0
        OBVIOUS
      <4> QED  BY <1>5, <1>7, <2>1, <2>4, <4>1
    <3>3. B[j + 1] = U[(j - s) + 1] - t * pow(n - (j + 1))
      BY <1>5, <2>1, <2>4, <3>1
    <3>4. U[j - s] \in Int /\ U[(j - s) + 1] \in Int /\ U[j - s] - 2 * U[(j - s) + 1] = bit(x, j - s)
      <4>1. j - s \in 0 .. n /\ (j - s) + 1 \in 0 .. n
        BY <1>1, <3>1
      <4> QED  BY <1>2, <3>1, <4>1
    <3>5. B[j] - 2 * B[j + 1] = bit(x, j - s)
      <4> DEFINE a == t * pow(n - j)
                 b == t * pow(n - (j + 1))
      <4>1. a = 2 * b /\ b \in Int /\ B[j] = U[j - s] - a /\ B[j + 1] = U[(j - s) + 1] - b
        BY <2>2, <3>2, <3>3
      <4> HIDE DEF a, b, B
      <4> QED  BY <3>4, <4>1
    <3>6. bit(r, j) = bit(x, j - s)
      BY <1>5, <2>4
    <3> QED  BY <1>3, <3>5, <3>6
  <2> QED  BY <1>5, <2>1, <2>3, <2>4
<1>12. R[0] = B[0]
  <2>1. R \in [0 .. n -> Int] /\ n \in Nat
    BY <1>1, <1>3
  <2> HIDE DEF B
  <2> QED  BY <1>9, <1>10, <1>11, <2>1, SameDigits
<1>13. B[0] = u * pow(s) - t * pow(n)
  <2>1. 0 \in 0 .. n /\ 0 <= s /\ s - 0 = s /\ n - 0 = n
    BY <1>1, <1>5
  <2> QED  BY <2>1
<1>14. r % m = (x % m) * pow(s) - t * m /\ m \in Nat \ {0} /\ pow(s) \in Int /\ t \in Int
  BY <1>1, <1>2, <1>3, <1>5, <1>7, <1>12, <1>13
<1> HIDE DEF u, t
<1>15. ASSUME NEW p \in Int, NEW v \in Int, m \in Nat \ {0}, r % m = (x % m) * p - v * m
       PROVE  (r - x * p) % m = 0
  <2>1. PICK a \in Int : r = a * m + (r % m) /\ r % m \in 0 .. m - 1
    BY <1>15, Remainder
  <2>2. PICK b \in Int : x = b * m + (x % m) /\ x % m \in 0 .. m - 1
    BY <1>15, Remainder
  <2> DEFINE y == x % m
             z == r % m
  <2>3. y \in Int /\ z \in Int /\ x = b * m + y /\ r = a * m + z /\ z = y * p - v * m
    BY <1>15, <2>1, <2>2
  <2> HIDE DEF y, z
  <2>4. r - x * p = (a - v - b * p) * m
    BY <1>15, <2>3, SMT
  <2>5. a - v - b * p \in Int
    OBVIOUS
  <2> QED  BY <1>15, <2>4, <2>5, MultipleMod
<1> QED  BY <1>6, <1>14, <1>15 DEF n

(* The last bit is the sign. *)
LEMMA SignBit ==
  ASSUME NEW k \in {"i", "l"}, NEW z \in Values(k)
  PROVE  z = (z % Mod(Bits(k))) - Bit(Bits(k), z, Bits(k) - 1) * Mod(Bits(k))
<1> DEFINE n == Bits(k)
           h == HalfOf(n)
           u == z % (2 * h)
<1>1. h \in Nat \ {0} /\ z \in -h .. h - 1 /\ Mod(n) = 2 * h /\ h = 2 ^ (n - 1)
  BY Halves, Powers, Zenon DEF Mod
<1>2. Bit(n, z, n - 1) = (u \div h) % 2
  BY <1>1 DEF Bit
<1> HIDE DEF n, h
<1>3. CASE z >= 0
  <2>1. u = z
    BY <1>1, <1>3, SMT
  <2>2. z = 0 * h + z /\ z \in 0 .. h - 1
    BY <1>1, <1>3
  <2>3. z \div h = 0
    BY <1>1, <2>2, DivUnique
  <2> QED  BY <1>1, <1>2, <2>1, <2>3 DEF n
<1>4. CASE z < 0
  <2>1. u = z + 2 * h
    <3>1. PICK q \in Int : z = q * (2 * h) + u /\ u \in 0 .. 2 * h - 1
      <4> DEFINE m == 2 * h
      <4>1. m \in Nat \ {0} /\ z \in Int
        BY <1>1
      <4> HIDE DEF m
      <4>2. \E q \in Int : z = q * m + (z % m) /\ z % m \in 0 .. m - 1
        BY <4>1, Remainder
      <4> QED  BY <4>2, Zenon DEF m
    <3>2. ~(q >= 0)
      BY <1>1, <1>4, <3>1, SMT
    <3>3. ~(q <= -2)
      <4> SUFFICES ASSUME q <= -2 PROVE FALSE
        OBVIOUS
      <4>1. PICK a \in Nat : q = -2 - a
        BY <3>1
      <4>2. a * (2 * h) \in Nat /\ q * (2 * h) = -2 * (2 * h) - a * (2 * h)
        BY <1>1, <4>1, SMT
      <4> QED  BY <1>1, <3>1, <4>2
    <3>4. q = -1
      BY <3>1, <3>2, <3>3
    <3> QED  BY <1>1, <3>1, <3>4
  <2>2. u = 1 * h + (z + h) /\ z + h \in 0 .. h - 1 /\ u \in Int
    BY <1>1, <1>4, <2>1
  <2> HIDE DEF u
  <2>3. u \div h = 1
    BY <1>1, <2>2, DivUnique
  <2>4. Bit(n, z, n - 1) = 1
    BY <1>2, <2>3
  <2>5. z = u - 1 * (2 * h)
    BY <1>1, <2>1
  <2> QED  BY <1>1, <2>4, <2>5 DEF n, u
<1> QED  BY <1>1, <1>3, <1>4

(* The upper bits of x and then zeros are its unsigned value divided by 2^s, *)
LEMMA ShiftedUnsigned ==
  ASSUME NEW k \in {"i", "l"}, NEW x \in Int, NEW r \in Int, NEW s \in 0 .. Bits(k) - 1,
         \A i \in 0 .. Bits(k) - 1 :
           Bit(Bits(k), r, i) = IF i + s < Bits(k) THEN Bit(Bits(k), x, i + s) ELSE 0
  PROVE  Congruent(Bits(k), r, (x % Mod(Bits(k))) \div 2 ^ s)
<1> DEFINE n == Bits(k)
           m == Mod(n)
           bit(z, j) == Bit(n, z, j)
           U == Digits(n, x)
           R == Digits(n, r)
           B == [j \in 0 .. n |-> IF j + s <= n THEN U[j + s] ELSE 0]
<1>1. n \in Nat \ {0} /\ m \in Nat \ {0}
  <2>1. n \in Nat \ {0} /\ m = 2 ^ n /\ \A j \in 0 .. n : 2 ^ j \in Nat \ {0}
    BY Powers, Zenon
  <2>2. n \in 0 .. n
    BY <2>1
  <2> QED  BY <2>1, <2>2, Zenon
<1>2. /\ U \in [0 .. n -> Nat] /\ U[n] = 0
      /\ \A j \in 0 .. n - 1 : U[j] - 2 * U[j + 1] = bit(x, j)
  BY DigitsAreBits, Zenon
<1>3. /\ R \in [0 .. n -> Nat] /\ R[0] = r % m /\ R[n] = 0
      /\ \A j \in 0 .. n - 1 : R[j] - 2 * R[j + 1] = bit(r, j)
  BY DigitsAreBits, Zenon
<1>4. s \in 0 .. n - 1 /\ \A i \in 0 .. n - 1 : bit(r, i) = IF i + s < n THEN bit(x, i + s) ELSE 0
  OBVIOUS
<1>5. U[s] = (x % m) \div 2 ^ s
  <2>1. s \in 0 .. n
    BY <1>1, <1>4
  <2> QED  BY <2>1 DEF Digits
<1>6. Congruent(n, r, (x % m) \div 2 ^ s) <=> (r - U[s]) % m = 0
  BY <1>5 DEF Congruent
<1> HIDE DEF n, m, bit, U, R
<1>7. B \in [0 .. n -> Int]
  <2> SUFFICES ASSUME NEW j \in 0 .. n PROVE (IF j + s <= n THEN U[j + s] ELSE 0) \in Int
    OBVIOUS
  <2>1. j + s <= n => j + s \in 0 .. n
    BY <1>1, <1>4
  <2> QED  BY <1>2, <2>1
<1>8. R[n] = B[n]
  <2>1. s = 0 => n + s = n
    BY <1>1
  <2>2. s # 0 => ~(n + s <= n)
    BY <1>1, <1>4
  <2>3. n \in 0 .. n
    BY <1>1
  <2> QED  BY <1>1, <1>2, <1>3, <2>1, <2>2, <2>3
<1>9. ASSUME NEW j \in 0 .. n - 1
      PROVE  R[j] - 2 * R[j + 1] = B[j] - 2 * B[j + 1]
  <2>1. j \in 0 .. n /\ j + 1 \in 0 .. n /\ (j + s) + 1 = (j + 1) + s
    BY <1>1, <1>4
  <2>2. CASE j + s < n
    <3>1. j + s \in 0 .. n - 1 /\ (j + 1) + s <= n /\ j + s <= n
      BY <1>1, <1>4, <2>2
    <3>2. B[j] = U[j + s] /\ B[j + 1] = U[(j + s) + 1]
      BY <2>1, <3>1
    <3> QED  BY <1>2, <1>3, <1>4, <2>2, <3>1, <3>2
  <2>3. CASE n <= j + s
    <3>1. ~((j + 1) + s <= n) /\ ~(j + s < n) /\ (j + s <= n => j + s = n)
      BY <1>1, <1>4, <2>3
    <3>2. B[j] = 0
      BY <1>2, <2>1, <3>1
    <3>3. B[j + 1] = 0
      BY <2>1, <3>1
    <3>4. bit(r, j) = 0
      BY <1>4, <3>1
    <3> QED  BY <1>3, <3>2, <3>3, <3>4
  <2> QED  BY <1>1, <1>4, <2>2, <2>3
<1>10. R[0] = B[0]
  <2>1. R \in [0 .. n -> Int] /\ n \in Nat
    BY <1>1, <1>3
  <2> HIDE DEF B
  <2> QED  BY <1>7, <1>8, <1>9, <2>1, SameDigits
<1>11. B[0] = U[s]
  <2>1. 0 \in 0 .. n /\ 0 + s = s /\ s <= n
    BY <1>1, <1>4
  <2> QED  BY <2>1
<1>12. (r - (r % m)) % m = 0
  <2>1. PICK q \in Int : r = q * m + (r % m) /\ r % m \in 0 .. m - 1
    BY <1>1, Remainder
  <2>2. r - (r % m) = q * m
    BY <1>1, <2>1
  <2> QED  BY <1>1, <2>2, MultipleMod
<1> QED  BY <1>3, <1>6, <1>10, <1>11, <1>12 DEF n, m

(* and followed by copies of the last bit, x itself divided by 2^s. *)
LEMMA ShiftedRight ==
  ASSUME NEW k \in {"i", "l"}, NEW x \in Values(k), NEW r \in Values(k),
         NEW s \in 0 .. Bits(k) - 1,
         \A i \in 0 .. Bits(k) - 1 :
           Bit(Bits(k), r, i) = IF i + s < Bits(k) THEN Bit(Bits(k), x, i + s)
                                ELSE Bit(Bits(k), x, Bits(k) - 1)
  PROVE  r = x \div 2 ^ s
<1> DEFINE n == Bits(k)
           m == Mod(n)
           bit(z, j) == Bit(n, z, j)
           pow(j) == 2 ^ j
           U == Digits(n, x)
           R == Digits(n, r)
           b == bit(x, n - 1)
           A == [j \in 0 .. n |-> R[j] - b * pow(n - j)]
           B == [j \in 0 .. n |-> IF j + s <= n THEN U[j + s] - b * pow(n - (j + s)) ELSE -b]
           C == [j \in 0 .. s |-> x \div pow(j)]
           D == [j \in 0 .. s |-> U[j] - b * pow(n - j)]
<1>0. x \in Int /\ r \in Int
  BY Halves
<1>1. /\ n \in Nat \ {0} /\ pow(0) = 1 /\ m = pow(n)
      /\ \A j \in 0 .. n : pow(j) \in Nat \ {0}
      /\ \A j \in 0 .. n - 1 : pow(j + 1) = 2 * pow(j)
  BY Powers, Zenon
<1>2. /\ U \in [0 .. n -> Nat] /\ U[0] = x % m /\ U[n] = 0
      /\ \A j \in 0 .. n - 1 : U[j] - 2 * U[j + 1] = bit(x, j) /\ bit(x, j) \in {0, 1}
  BY <1>0, DigitsAreBits, Zenon
<1>3. /\ R \in [0 .. n -> Nat] /\ R[0] = r % m /\ R[n] = 0
      /\ \A j \in 0 .. n - 1 : R[j] - 2 * R[j + 1] = bit(r, j)
  BY <1>0, DigitsAreBits, Zenon
<1>4. \A z \in Int : \A d \in 0 .. n - 1 : z * pow(d + 1) = 2 * (z * pow(d)) /\ z * pow(d) \in Int
  BY DoublePower
<1>5. s \in 0 .. n - 1 /\ \A i \in 0 .. n - 1 : bit(r, i) = IF i + s < n THEN bit(x, i + s) ELSE b
  OBVIOUS
<1>6. x = (x % m) - b * m /\ r = (r % m) - bit(r, n - 1) * m
  BY SignBit, Zenon
<1> HIDE DEF n, m, bit, pow, U, R, b
<1>7. b \in {0, 1} /\ bit(r, n - 1) = b /\ b * pow(0) = b
  <2>1. n - 1 \in 0 .. n - 1 /\ ((n - 1) + s < n => (n - 1) + s = n - 1)
    BY <1>1, <1>5
  <2>2. b \in {0, 1}
    BY <1>2, <2>1 DEF b
  <2>3. bit(r, n - 1) = b
    BY <1>5, <2>1 DEF b
  <2> QED  BY <1>1, <2>2, <2>3
<1>8. \A d \in 0 .. n : b * pow(d) \in Int
  BY <1>1, <1>7, SMT
<1>9. A \in [0 .. n -> Int] /\ B \in [0 .. n -> Int]
  <2>1. ASSUME NEW j \in 0 .. n
        PROVE  /\ R[j] - b * pow(n - j) \in Int
               /\ (IF j + s <= n THEN U[j + s] - b * pow(n - (j + s)) ELSE -b) \in Int
    <3>1. n - j \in 0 .. n /\ (j + s <= n => j + s \in 0 .. n /\ n - (j + s) \in 0 .. n)
      BY <1>1, <1>5
    <3>2. b * pow(n - j) \in Int /\ (j + s <= n => b * pow(n - (j + s)) \in Int)
      BY <1>8, <3>1
    <3>3. R[j] \in Int /\ (j + s <= n => U[j + s] \in Int) /\ -b \in Int
      BY <1>2, <1>3, <1>7, <3>1
    <3>4. \A y, z \in Int : y - z \in Int
      OBVIOUS
    <3> QED  BY <3>2, <3>3, <3>4, Zenon
  <2> QED  BY <2>1
<1>10. A[n] = B[n]
  <2>1. n \in 0 .. n /\ n - n = 0
    BY <1>1
  <2>2. A[n] = 0 - b
    BY <1>3, <1>7, <2>1
  <2>3. CASE s = 0
    <3>1. n + s = n
      BY <1>1, <2>3
    <3>2. B[n] = U[n] - b * pow(0)
      BY <2>1, <3>1
    <3> QED  BY <1>2, <1>7, <2>2, <3>2
  <2>4. CASE s # 0
    <3>1. ~(n + s <= n)
      BY <1>1, <1>5, <2>4
    <3> QED  BY <1>7, <2>1, <2>2, <3>1
  <2> QED  BY <2>3, <2>4
<1>11. ASSUME NEW j \in 0 .. n - 1
       PROVE  A[j] - 2 * A[j + 1] = B[j] - 2 * B[j + 1]
  <2>1. /\ j \in 0 .. n /\ j + 1 \in 0 .. n /\ n - (j + 1) \in 0 .. n - 1
        /\ (n - (j + 1)) + 1 = n - j /\ (j + s) + 1 = (j + 1) + s
    BY <1>1, <1>5
  <2>2. A[j] - 2 * A[j + 1] = bit(r, j)
    <3> DEFINE e == b * pow(n - j)
               f == b * pow(n - (j + 1))
    <3>1. e = 2 * f /\ f \in Int
      BY <1>4, <1>7, <2>1
    <3>2. A[j] = R[j] - e /\ A[j + 1] = R[j + 1] - f
      BY <2>1
    <3>3. R[j] \in Int /\ R[j + 1] \in Int /\ R[j] - 2 * R[j + 1] = bit(r, j)
      BY <1>3, <2>1
    <3> HIDE DEF e, f, A
    <3> QED  BY <3>1, <3>2, <3>3
  <2>3. CASE j + s < n
    <3> DEFINE e == b * pow(n - (j + s))
               f == b * pow(n - ((j + 1) + s))
    <3>1. /\ j + s \in 0 .. n - 1 /\ (j + 1) + s <= n /\ j + s <= n
          /\ n - ((j + 1) + s) \in 0 .. n - 1 /\ (n - ((j + 1) + s)) + 1 = n - (j + s)
      BY <1>1, <1>5, <2>3
    <3>2. e = 2 * f /\ f \in Int
      BY <1>4, <1>7, <3>1
    <3>3. B[j] = U[j + s] - e /\ B[j + 1] = U[(j + s) + 1] - f
      BY <2>1, <3>1
    <3>4. /\ U[j + s] \in Int /\ U[(j + s) + 1] \in Int
          /\ U[j + s] - 2 * U[(j + s) + 1] = bit(x, j + s)
      <4>1. j + s \in 0 .. n /\ (j + s) + 1 \in 0 .. n
        BY <1>1, <3>1
      <4> QED  BY <1>2, <3>1, <4>1
    <3>5. bit(r, j) = bit(x, j + s)
      BY <1>5, <2>3
    <3> HIDE DEF e, f, A, B
    <3> QED  BY <2>2, <3>2, <3>3, <3>4, <3>5
  <2>4. CASE n <= j + s
    <3>1. ~((j + 1) + s <= n) /\ ~(j + s < n) /\ (j + s <= n => j + s = n)
      BY <1>1, <1>5, <2>4
    <3>2. B[j + 1] = -b
      BY <2>1, <3>1
    <3>3. B[j] = -b
      <4>1. CASE j + s = n
        <5>1. j + s <= n /\ n - (j + s) = 0
          BY <1>1, <4>1
        <5>2. B[j] = U[n] - b * pow(0)
          BY <2>1, <4>1, <5>1
        <5> QED  BY <1>2, <1>7, <5>2
      <4>2. CASE j + s # n
        BY <2>1, <3>1, <4>2
      <4> QED  BY <4>1, <4>2
    <3>4. bit(r, j) = b
      BY <1>5, <3>1
    <3> HIDE DEF A, B
    <3> QED  BY <1>7, <2>2, <3>2, <3>3, <3>4
  <2> QED  BY <1>1, <1>5, <2>3, <2>4
<1>12. A[0] = B[0]
  <2>1. n \in Nat
    BY <1>1
  <2> HIDE DEF A, B
  <2> QED  BY <1>9, <1>10, <1>11, <2>1, SameDigits
<1>13. A[0] = r /\ B[0] = D[s]
  <2>1. 0 \in 0 .. n /\ 0 + s = s /\ s <= n /\ n - 0 = n /\ s \in 0 .. s
    BY <1>1, <1>5
  <2>2. A[0] = R[0] - b * pow(n)
    BY <2>1
  <2>3. B[0] = U[s] - b * pow(n - s)
    BY <2>1
  <2> QED  BY <1>1, <1>3, <1>6, <1>7, <2>1, <2>2, <2>3
<1>14. C[s] = D[s]
  <2>1. s \in Nat /\ \A j \in 0 .. s : j \in 0 .. n /\ n - j \in 0 .. n
    BY <1>1, <1>5
  <2>2. C \in [0 .. s -> Int]
    <3>1. \A p \in Nat \ {0} : x \div p \in Int
      BY <1>0, SMT
    <3> QED  BY <1>1, <2>1, <3>1
  <2>3. D \in [0 .. s -> Int]
    <3>1. ASSUME NEW j \in 0 .. s PROVE U[j] - b * pow(n - j) \in Int
      <4>1. U[j] \in Int /\ b * pow(n - j) \in Int
        <5>1. j \in 0 .. n /\ n - j \in 0 .. n
          BY <2>1
        <5>2. U[j] \in Int
          BY <1>2, <5>1
        <5>3. b * pow(n - j) \in Int
          BY <1>8, <5>1
        <5> QED  BY <5>2, <5>3
      <4> QED  BY <4>1
    <3> QED  BY <3>1
  <2>4. C[0] = D[0]
    <3>1. 0 \in 0 .. s /\ n - 0 = n
      BY <1>1, <2>1
    <3>2. C[0] = x
      <4>1. x \div 1 = x
        BY <1>0, SMT
      <4> QED  BY <1>1, <3>1, <4>1
    <3>3. D[0] = U[0] - b * pow(n)
      BY <3>1
    <3> QED  BY <1>1, <1>2, <1>6, <3>2, <3>3
  <2>5. ASSUME NEW j \in 0 .. s - 1
        PROVE  C[j + 1] = C[j] \div 2 /\ D[j + 1] = D[j] \div 2
    <3>1. /\ j \in 0 .. s /\ j + 1 \in 0 .. s /\ j \in 0 .. n - 1
          /\ n - (j + 1) \in 0 .. n - 1 /\ (n - (j + 1)) + 1 = n - j
      BY <1>1, <1>5
    <3>2. C[j + 1] = C[j] \div 2
      <4>1. pow(j) \in Nat \ {0} /\ pow(j + 1) = 2 * pow(j)
        BY <1>1, <2>1, <3>1
      <4>2. C[j] = x \div pow(j) /\ C[j + 1] = x \div pow(j + 1)
        BY <3>1
      <4>3. x \div (2 * pow(j)) = (x \div pow(j)) \div 2
        BY <1>0, <4>1, DivTwice
      <4> QED  BY <4>1, <4>2, <4>3
    <3>3. D[j + 1] = D[j] \div 2
      <4> DEFINE e == b * pow(n - j)
                 f == b * pow(n - (j + 1))
      <4>1. e = 2 * f /\ f \in Int
        BY <1>4, <1>7, <3>1
      <4>2. D[j] = U[j] - e /\ D[j + 1] = U[j + 1] - f
        BY <3>1
      <4>3. /\ U[j] \in Int /\ U[j + 1] \in Int
            /\ U[j] - 2 * U[j + 1] = bit(x, j) /\ bit(x, j) \in {0, 1}
        <5>1. j \in 0 .. n /\ j + 1 \in 0 .. n
          BY <1>1, <3>1
        <5> QED  BY <1>2, <3>1, <5>1
      <4> HIDE DEF e, f, D
      <4>4. D[j] = 2 * D[j + 1] + bit(x, j) /\ D[j + 1] \in Int
        BY <4>1, <4>2, <4>3
      <4> QED  BY <4>3, <4>4, SMT
    <3> QED  BY <3>2, <3>3
  <2> HIDE DEF C, D
  <2> QED  BY <2>1, <2>2, <2>3, <2>4, <2>5, SameHalves
<1>15. C[s] = x \div pow(s)
  <2>1. s \in 0 .. s
    BY <1>5
  <2> QED  BY <2>1
<1>16. r = x \div pow(s)
  BY <1>12, <1>13, <1>14, <1>15, Zenon
<1> QED  BY <1>16 DEF pow

(* ISHL .. LUSHR of the operands are multiplication and division by a      *)
(* power of two.                                                           *)
LEMMA ShiftsAreRight ==
  ASSUME NEW op \in ShiftOps, NEW x \in Values(ShiftKind(op)), NEW y \in Int,
         NEW r \in AluResult(op, x, y)
  PROVE  ShiftLaw(op, Bits(ShiftKind(op)), x, y, r)
<1> DEFINE k == ShiftKind(op)
           n == Bits(k)
           f == ShiftNames[(op - 120) \div 2 + 1]
           s == y % n
<1>1. k \in {"i", "l"}
  BY ShiftKinds
<1>2. r \in Bitwise(f, k, x, y)
  <2>1. /\ op \notin ArithOps /\ op \notin BitOps
        /\ op \notin ConvertOps /\ op \notin CompareOps
    BY DEF BitOps, ArithOps, ShiftOps, ConvertOps, CompareOps
  <2>2. AluResult(op, x, y) = Bitwise(f, k, x, y)
    BY <2>1 DEF AluResult
  <2> QED  BY <2>2
<1>3. s \in 0 .. n - 1
  <2>1. n \in Nat \ {0}
    BY <1>1, Powers
  <2> HIDE DEF n
  <2> QED  BY <2>1, ModCongruent
<1>4. /\ x \in Values(k) /\ x \in Int /\ r \in Values(k) /\ r \in Int
  BY <1>1, <1>2, Halves DEF Bitwise
<1> HIDE DEF k, f
<1>5. \A i \in 0 .. n - 1 : Bit(n, r, i) = BitOf(f, n, x, y, i)
  BY <1>2, Zenon DEF Bitwise
<1> DEFINE L == ShiftLaw(op, n, x, y, r)
           P == Congruent(n, r, x * 2 ^ s)
           Q == r = x \div 2 ^ s
           R == Congruent(n, r, (x % Mod(n)) \div 2 ^ s)
<1>6. L = (CASE op \in {120, 121} -> P [] op \in {122, 123} -> Q [] op \in {124, 125} -> R)
  BY Zenon DEF ShiftLaw
<1> HIDE DEF L, P, Q, R
<1>7. /\ op \in {120, 121} => L = P
      /\ op \in {122, 123} => L = Q
      /\ op \in {124, 125} => L = R
  BY <1>6
<1>8. CASE op \in {120, 121}
  <2>1. f = "shl"
    BY <1>8 DEF f, ShiftNames
  <2>2. \A i \in 0 .. n - 1 : Bit(n, r, i) = IF i < s THEN 0 ELSE Bit(n, x, i - s)
    BY <1>5, <2>1, Zenon DEF BitOf
  <2>3. P
    BY <1>1, <1>3, <1>4, <2>2, ShiftedLeft DEF P
  <2> QED  BY <1>7, <1>8, <2>3, Zenon DEF L, k
<1>9. CASE op \in {122, 123}
  <2>1. f = "shr"
    BY <1>9 DEF f, ShiftNames
  <2>2. \A i \in 0 .. n - 1 : Bit(n, r, i) = IF i + s < n THEN Bit(n, x, i + s) ELSE Bit(n, x, n - 1)
    BY <1>5, <2>1, Zenon DEF BitOf
  <2>3. Q
    BY <1>1, <1>3, <1>4, <2>2, ShiftedRight DEF Q
  <2> QED  BY <1>7, <1>9, <2>3, Zenon DEF L, k
<1>10. CASE op \in {124, 125}
  <2>1. f = "ushr"
    BY <1>10 DEF f, ShiftNames
  <2>2. \A i \in 0 .. n - 1 : Bit(n, r, i) = IF i + s < n THEN Bit(n, x, i + s) ELSE 0
    BY <1>5, <2>1, Zenon DEF BitOf
  <2>3. R
    BY <1>1, <1>3, <1>4, <2>2, ShiftedUnsigned DEF R
  <2> QED  BY <1>7, <1>10, <2>3, Zenon DEF L, k
<1> QED  BY <1>8, <1>9, <1>10 DEF ShiftOps
=============================================================================
