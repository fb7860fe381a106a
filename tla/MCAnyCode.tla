----------------------------- MODULE MCAnyCode -----------------------------
(* The compiled methods, each its name alone, and every short code over a  *)
(* few opcodes of each family, verified or not: such a method is its own   *)
(* code, and all share one pool.                                           *)
EXTENDS MCVerifiedCode

MCGarbage == {-1, 0, 1, NaN} \cup Strings   \* what reinterpreted bytes may read as

(* One byte is an opcode, an operand, an index or an offset. *)
Bytes == {0, 1, 2, 3, 9, 16, 18, 26, 27, 30, 59, 63, 87, 92, 95, 96, 108, 132,
          153, 167, 172, 173, 177, 178, 179, 184, 202}
CallBytes == {0, 1, 5, 26, 172, 184}

Identity == <<26, 172>>     \* static int identity(int)
Wide     == <<30, 173>>     \* static long wide(long)
Instance == <<0, 177>>      \* a method that is not static
Short    == <<>>            \* a native method: no code, no locals

(* A table from 2 to 0, and one from the largest int to the least. *)
BadTable == <<26, 170, 0, 0, 0, 0, 0, 0, 0, 0, 0, 2, 0, 0, 0, 0, 172>>
WideTable == <<26, 170, 0, 0, 0, 0, 0, 0, 127, 255, 255, 255, 128, 0, 0, 0, 172>>

(* iload_0, then a branch or a switch to near targets; the operand word of *)
(* the switches is low, high and one offset, or one pair.                  *)
Branches == {<<26, op, 0, t, 172>> : op \in BranchOps, t \in 0 .. 5}
Switches == {<<26, op, 0, 0, 0, 0, 0, d, 0, 0, 0, x, 0, 0, 0, y, 0, 0, 0, t, 177>>
               : op \in SwitchOps, d \in {19, 20}, x \in 1 .. 2, y \in 1 .. 3, t \in {0, 19}}

Codes == [1 .. 3 -> Bytes] \cup [1 .. 5 -> CallBytes] \cup Branches \cup Switches
         \cup {Identity, Wide, Instance, Short, BadTable, WideTable}

Pool == <<[tag |-> "method", v |-> Identity], [tag |-> "method", v |-> Instance],
          [tag |-> "null", v |-> 0], [tag |-> "field", v |-> 0],
          [tag |-> "method", v |-> Wide], [tag |-> "string", v |-> 0],
          [tag |-> "throws", v |-> 0], [tag |-> "i", v |-> 5],
          [tag |-> "method", v |-> Short]>>

AnyProg(c) ==
  [code |-> c, pool |-> Pool, static |-> c # Instance,
   maxLocals |-> IF c \in {Short, Instance} THEN 0 ELSE 1,
   descriptor |-> <<"(", IF c = Wide THEN "J" ELSE "I", ")", "I">>]

MCMethod == MCCompiled \cup Codes
MCProg   == [m \in MCMethod |-> IF m \in MCCompiled THEN CompiledProg[m[1]] ELSE AnyProg(m)]

Started(c, h, x) == [method |-> c, host |-> h, locals |-> <<Of("i", x)>>]
EndBytes == {2, 26, 96, 108, 172, 177}
MCCalls == CompiledCalls
           \cup {Started(c, TRUE, 2) : c \in Codes \ {Identity, Wide, Instance, Short}}
           \cup {Started(c, h, -HalfOf(IntBits)) : h \in BOOLEAN, c \in [1 .. 3 -> EndBytes]}

(* The compiled methods pass verification. *)
ASSUME CompiledIsVerified ==
  \A m \in Compiled : Verified(m) /\ LocalsVerified(m) /\ OperandsVerified(m)
ASSUME CallsAreAccepted ==
  \A c \in Calls : c.method \in Compiled => Accepts(c.method, KindsOf(c.locals))
=============================================================================
