--------------------------- MODULE MCSuspectCode ---------------------------
(* Two methods of javac's on which the interpreter and the repository's    *)
(* own statements about it part: one that passes a long to a static        *)
(* method, and ConstantTest.testBIPUSH_Neg128.                             *)
EXTENDS VerifiedCode

MCGarbage == {-1, 0, 1, NaN} \cup Strings   \* what reinterpreted bytes may read as

Passed == {"callTwice", "twice"}
Pushed128 == {"testBIPUSH_Neg128"}
MCMethod == Passed \cup Pushed128

MCProg == [m \in MCMethod |->
  [code |-> CASE m = "callTwice" -> <<30, 184, 0, 1, 173>>
              [] m = "twice"     -> <<30, 92, 97, 173>>
              [] OTHER           -> <<16, 128, 172>>,
   maxLocals |-> IF m \in Passed THEN 2 ELSE 0, static |-> TRUE,
   descriptor |-> IF m \in Passed THEN <<"(", "J", ")", "J">> ELSE <<"(", ")", "I">>,
   pool |-> <<[tag |-> "method", v |-> "twice"]>>]]

MCParameters == [m \in MCMethod |-> IF m \in Passed THEN {<<0, "l">>} ELSE {}]
MCReturnKind == [m \in MCMethod |-> IF m \in Passed THEN "l" ELSE "i"]
MCExpected(c) == <<IF c.method \in Passed THEN 2 * c.locals[1].v ELSE -128>>
MCStackMap == [m \in MCMethod |-> {}]

Longs == {-3, 0, 1, 5}
PassingCalls == {[method |-> m, host |-> TRUE, locals |-> <<Of("l", x), ZeroSlot>>]
                   : m \in Passed, x \in Longs}
PushingCalls == {[method |-> m, host |-> TRUE, locals |-> <<>>] : m \in Pushed128}
=============================================================================
