------------------------------- MODULE MCAlu -------------------------------
(***************************************************************************)
(* Each arithmetic, conversion and comparison instruction, run by the      *)
(* interpreter on every pair of small integers and on the edge values of   *)
(* the other kinds, against what its operation means.                      *)
(***************************************************************************)
EXTENDS AluLaws

MCGarbage == {-1, 0, 1, NaN} \cup Strings   \* what reinterpreted bytes may read as

(* The method of an instruction: load the operands, compute, return. *)
Index(k)   == CHOOSE n \in 1 .. 5 : Kinds[n] = k
LoadAt(k, n) == <<20 + Index(k), n>>
MCMethod == AluOps
MCProg == [op \in MCMethod |->
  LET ks == AluIn(op)
  IN  [code |-> LoadAt(ks[1], 0)
                \o (IF Len(ks) = 1 THEN <<>> ELSE LoadAt(ks[2], Width(ks[1])))
                \o <<op, 171 + Index(AluOut(op))>>,
       maxLocals |-> Slots(ks), static |-> TRUE, descriptor |-> <<"(", ")", "V">>,
       pool |-> <<>>]]

Edge(k) == LET h == HalfOf(Bits(k))
           IN  CASE k = "i" -> Values("i")
                 [] k = "l" -> {-h, -h + 1, -9, -2, -1, 0, 1, 3, 8, h - 1}
                 [] k \in {"f", "d"} -> {-Infinity, -Huge, -3, -1, 0, 1, 2, 3, 4,
                                         Huge, Infinity, NaN}
Second(op) == AluIn(op)[Len(AluIn(op))]
MCCalls ==
  UNION {{[method |-> op, host |-> TRUE,
           locals |-> [n \in 1 .. Slots(AluIn(op)) |->
                         IF n = 1 THEN Of(AluIn(op)[1], x)
                         ELSE IF n = Width(AluIn(op)[1]) + 1 THEN Of(Second(op), y)
                         ELSE ZeroSlot]]
            : x \in Edge(AluIn(op)[1]), y \in Edge(Second(op))} : op \in MCMethod}

(* The steps that the code of such a method takes. *)
AluNext == Load \/ Compute \/ DivideByZero \/ DivideTrap \/ ReturnValue \/ EndOfCode
AluSpec == Init /\ [][AluNext]_vars
=============================================================================
