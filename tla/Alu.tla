-------------------------------- MODULE Alu --------------------------------
(***************************************************************************)
(* The instructions of interpreter.cpp that only compute on the operand    *)
(* stack, as tables over their opcodes (opcode.h): the kinds an            *)
(* instruction pops, the kind it pushes, the values it may push, and the   *)
(* condition of each conditional branch.                                   *)
(***************************************************************************)
EXTENDS JvmValues

ArithOps   == 96 .. 119      \* IADD .. DNEG
ShiftOps   == 120 .. 125     \* ISHL .. LUSHR
BitOps     == 126 .. 131     \* IAND .. LXOR
ConvertOps == 133 .. 147     \* I2L .. I2S
CompareOps == 148 .. 152     \* LCMP .. DCMPG
AluOps     == ArithOps \cup ShiftOps \cup BitOps \cup ConvertOps \cup CompareOps
BranchOps  == (153 .. 166) \cup {198, 199}   \* IFEQ .. IF_ACMPNE, IFNULL, IFNONNULL

ArithNames == <<"add", "sub", "mul", "div", "rem", "neg">>
ShiftNames == <<"shl", "shr", "ushr">>
BitNames   == <<"and", "or", "xor">>

ArithKind(op) == Kinds[((op - 96) % 4) + 1]
ArithName(op) == ArithNames[(op - 96) \div 4 + 1]
ShiftKind(op) == Kinds[((op - 120) % 2) + 1]

(* The rows of the conversions I2L .. I2S: from, to. *)
Conversions == <<<<"i", "l">>, <<"i", "f">>, <<"i", "d">>,
                 <<"l", "i">>, <<"l", "f">>, <<"l", "d">>,
                 <<"f", "i">>, <<"f", "l">>, <<"f", "d">>,
                 <<"d", "i">>, <<"d", "l">>, <<"d", "f">>,
                 <<"i", "i">>, <<"i", "i">>, <<"i", "i">>>>
Conversion(op) == Conversions[op - 132]
CompareKinds == <<"l", "f", "f", "d", "d">>

(* The kinds an instruction pops, the deepest first. *)
AluIn(op) ==
  CASE op \in ArithOps   -> IF ArithName(op) = "neg" THEN <<ArithKind(op)>>
                            ELSE <<ArithKind(op), ArithKind(op)>>
    [] op \in ShiftOps   -> <<ShiftKind(op), "i">>
    [] op \in BitOps     -> <<ShiftKind(op), ShiftKind(op)>>
    [] op \in ConvertOps -> <<Conversion(op)[1]>>
    [] op \in CompareOps -> <<CompareKinds[op - 147], CompareKinds[op - 147]>>

AluOut(op) ==
  CASE op \in ArithOps             -> ArithKind(op)
    [] op \in ShiftOps \cup BitOps -> ShiftKind(op)
    [] op \in ConvertOps           -> Conversion(op)[2]
    [] op \in CompareOps           -> "i"

BranchIn(op) == CASE op \in 153 .. 158 -> <<"i">>
                  [] op \in 159 .. 164 -> <<"i", "i">>
                  [] op \in 165 .. 166 -> <<"a", "a">>
                  [] op \in {198, 199} -> <<"a">>

Integral(k) == k \in {"i", "l"}
Floating(k) == k \in {"f", "d"}

(* What a float outside the exact range can be once it is an integer: out  *)
(* of the target's range the cast is undefined and the build's answer is   *)
(* the least value.                                                        *)
HugeAs(k, x) == {v \in Values(k) : \/ v = -HalfOf(Bits(k))
                                   \/ Sign(v) = Sign(x) /\ Abs(v) >= FMax \div 2}

(* A mutant: the cast without the tests for NaN and the infinities. *)
FloatToIntUnchecked(k, x) == IF Abs(x) >= Huge THEN HugeAs(k, x) ELSE {TruncDiv(x, 2)}

FloatToInt(k, x) ==
  IF x \in {NaN, Infinity, -Infinity} THEN {0}
  ELSE IF Abs(x) = Huge THEN HugeAs(k, x)
  ELSE {TruncDiv(x, 2)}

IntToFloat(x) == {IF 2 * Abs(x) <= FMax THEN 2 * x ELSE Sign(x) * Huge}

DoubleToFloat(x) == IF Abs(x) = Huge THEN {x, Sign(x) * Infinity} ELSE {x}

Convert(op, x) ==
  LET from == Conversion(op)[1]
      to   == Conversion(op)[2]
  IN  CASE op = 145 -> {WrapTo(ByteBits, x)}            \* I2B: (Jbyte)
        [] op = 146 -> {x % (2 * HalfOf(ShortBits))}    \* I2C: (Jchar)
        [] op = 147 -> {WrapTo(ShortBits, x)}           \* I2S: (Jshort)
        [] op \in {133, 136} -> {Wrap(to, x)}           \* I2L, L2I
        [] Integral(from) /\ Floating(to) -> IntToFloat(x)
        [] Floating(from) /\ Integral(to) -> FloatToInt(to, x)
        [] op = 141 -> {x}                              \* F2D
        [] op = 144 -> DoubleToFloat(x)                 \* D2F

(* A mutant: both forms of the comparison answer -1 for NaN. *)
CompareNaNLess(op, x, y) ==
  IF op # 148 /\ NaN \in {x, y} THEN {-1}
  ELSE IF op # 148 /\ x = y /\ Abs(x) = Huge THEN {-1, 0, 1}
  ELSE {Sign(x - y)}

(* FCMPL and DCMPL answer -1 for NaN, FCMPG and DCMPG answer 1.  Two       *)
(* finite floats outside the exact range may be in any order.              *)
Compare(op, x, y) ==
  IF op # 148 /\ NaN \in {x, y} THEN IF op \in {149, 151} THEN {-1} ELSE {1}
  ELSE IF op # 148 /\ x = y /\ Abs(x) = Huge THEN {-1, 0, 1}
  ELSE {Sign(x - y)}

(* Division by zero throws; the quotient that does not fit traps.          *)
DividesInts(op) == op \in {108, 109, 112, 113}        \* IDIV LDIV IREM LREM
ThrowsDivide(op, y) == DividesInts(op) /\ y = 0
Traps(op, x, y) == DividesInts(op) /\ x = -HalfOf(Bits(ArithKind(op))) /\ y = -1

(* The values the instruction may push for operands x and y (y is x for an *)
(* instruction with one operand).                                          *)
AluResult(op, x, y) ==
  CASE op \in ArithOps /\ Integral(ArithKind(op)) ->
         {Arith(ArithName(op), ArithKind(op), x, y)}
    [] op \in ArithOps /\ Floating(ArithKind(op)) ->
         FloatArith(ArithName(op), x, y)
    [] op \in ShiftOps ->
         Bitwise(ShiftNames[(op - 120) \div 2 + 1], ShiftKind(op), x, y)
    [] op \in BitOps ->
         Bitwise(BitNames[(op - 126) \div 2 + 1], ShiftKind(op), x, y)
    [] op \in ConvertOps -> Convert(op, x)
    [] op \in CompareOps -> Compare(op, x, y)

(* Whether a conditional branch is taken. *)
Taken(op, x, y) ==
  CASE op = 153 -> x = 0   [] op = 154 -> x # 0
    [] op = 155 -> x < 0   [] op = 156 -> x >= 0
    [] op = 157 -> x > 0   [] op = 158 -> x <= 0
    [] op \in {159, 165} -> x = y   [] op \in {160, 166} -> x # y
    [] op = 161 -> x < y   [] op = 162 -> x >= y
    [] op = 163 -> x > y   [] op = 164 -> x <= y
    [] op = 198 -> x = 0   [] op = 199 -> x # 0
=============================================================================
