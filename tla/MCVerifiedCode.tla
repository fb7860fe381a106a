--------------------------- MODULE MCVerifiedCode ---------------------------
(* The methods of MethodInvocationTest, ControlFlowTest and StackTest, and *)
(* some more of their kind, as javac compiles them.                        *)
EXTENDS VerifiedCode

(* Four bytes of an int, and the slots of arguments. *)
W(x) == IF x >= 0 THEN <<0, 0, x \div 256, x % 256>> ELSE <<255, 255, 255, 256 + x>>

Names == {"callFactorial", "factorial", "recursive", "sum", "quotient", "divide",
             "table", "lookup", "drain", "dupX1", "dup2", "dup2X1"}

M(code, locals, descriptor, pool) ==
  [code |-> code, maxLocals |-> locals, static |-> TRUE,
   descriptor |-> descriptor, pool |-> pool]
IntToInt == <<"(", "I", ")", "I">>
Named(s) == <<s>>
Ref(s)   == <<[tag |-> "method", v |-> Named(s)]>>

MCCompiled == {Named(s) : s \in Names}

CompiledProg == [m \in Names |->
  CASE m = "callFactorial" -> M(<<26, 184, 0, 1, 172>>, 1, IntToInt, Ref("factorial"))
    [] m = "factorial" ->
         M(<<26, 157, 0, 5, 4, 172, 4, 60, 4, 61, 28, 26, 163, 0, 13, 27, 28, 104, 60,
             132, 2, 1, 167, 255, 244, 27, 172>>, 3, IntToInt, <<>>)
    [] m = "recursive" ->
         M(<<26, 157, 0, 5, 4, 172, 26, 26, 4, 100, 184, 0, 1, 104, 172>>,
           1, IntToInt, Ref("recursive"))
    [] m = "sum" ->
         M(<<9, 64, 26, 158, 0, 14, 31, 26, 133, 97, 64, 132, 0, 255, 167, 255, 244,
             31, 173>>, 3, <<"(", "I", ")", "J">>, <<>>)
    [] m = "quotient" ->
         M(<<26, 27, 100, 5, 108, 172>>, 2, <<"(", "I", "I", ")", "I">>, <<>>)
    [] m = "divide" -> M(<<26, 27, 108, 172>>, 2, <<"(", "I", "I", ")", "I">>, <<>>)
    [] m = "table" ->
         M(<<26, 170, 0, 0>> \o W(46) \o W(0) \o W(3) \o W(31) \o W(34) \o W(38) \o W(42)
             \o <<16, 100, 172, 17, 0, 200, 172, 17, 1, 44, 172, 17, 1, 144, 172, 3, 172>>,
           1, IntToInt, <<>>)
    [] m = "lookup" ->
         M(<<26, 171, 0, 0>> \o W(47) \o W(3) \o W(10) \o W(35) \o W(20) \o W(39)
             \o W(30) \o W(43)
             \o <<17, 3, 232, 172, 17, 7, 208, 172, 17, 11, 184, 172, 3, 172>>,
           1, IntToInt, <<>>)
    [] m = "drain" ->
         M(<<26, 170, 0, 0>> \o W(22) \o W(0) \o W(0) \o W(19)
             \o <<16, 7, 172, 132, 0, 255, 200>> \o W(-26), 1, IntToInt, <<>>)
    [] m = "dupX1" ->
         M(<<26, 27, 90, 100, 104, 172>>, 2, <<"(", "I", "I", ")", "I">>, <<>>)
    [] m = "dup2" -> M(<<30, 92, 97, 173>>, 2, <<"(", "J", ")", "J">>, <<>>)
    [] m = "dup2X1" ->
         M(<<26, 31, 93, 136, 96, 133, 97, 173>>, 3, <<"(", "I", "J", ")", "J">>, <<>>)]

MCReturnKind == [m \in MCCompiled |-> IF m[1] \in {"sum", "dup2", "dup2X1"} THEN "l" ELSE "i"]

Ints(n) == (0 .. n - 1) \X {"i"}
MCParameters == [m \in MCCompiled |->
  CASE m[1] \in {"quotient", "divide", "dupX1"} -> Ints(2)
    [] m[1] = "dup2"   -> {<<0, "l">>}
    [] m[1] = "dup2X1" -> {<<0, "i">>, <<1, "l">>}
    [] OTHER             -> Ints(1)]

(* A call by the test harness, with arguments a at their first slots. *)
Call(m, a) ==
  [method |-> Named(m), host |-> TRUE,
   locals |-> [i \in 1 .. CompiledProg[m].maxLocals |->
                 IF i <= Len(a) THEN a[i] ELSE ZeroSlot]]
Int1(m, S)    == {Call(m, <<Of("i", x)>>) : x \in S}
Int2(m, S, R) == {Call(m, <<Of("i", x), Of("i", y)>>) : x \in S, y \in R}
Extreme == {-HalfOf(IntBits), HalfOf(IntBits) - 1}

CompiledCalls ==
  UNION {Int1(m, {-5, -1} \cup 0 .. 9 \cup {-HalfOf(IntBits)})
           : m \in {"callFactorial", "factorial", "recursive"}}
  \cup Int1("sum", {-1} \cup 0 .. 6)
  \cup Int2("quotient", {-4, -3, 0, 3, HalfOf(IntBits) - 1}, {-2, 0, 1, 4})
  \cup Int2("divide", {-7, 0, 5}, {-2, 0, 3})
  \cup Int1("table", {-1, 0, 1, 2, 3, 4} \cup Extreme)
  \cup Int1("lookup", {0, 10, 11, 20, 30, 31, -10})
  \cup Int1("drain", 0 .. 5)
  \cup Int2("dupX1", {-3, 0, 2, 5}, {-7, 0, 4})
  \cup {Call("dup2", <<Of("l", x)>>) : x \in {-1, 0, 3, HalfOf(LongBits) - 1}}
  \cup {Call("dup2X1", <<Of("i", x), Of("l", y)>>) :
          x \in {-2, 0, 6}, y \in {-9, 4, HalfOf(LongBits) - 1}}

Arg(c, n) == c.locals[n].v
Factorial[n \in Int] == IF n <= 0 THEN 1 ELSE Wrap("i", n * Factorial[n - 1])

(* What a Java division gives: it truncates towards zero, as TLA+'s does   *)
(* only for operands of one sign.                                          *)
Quotient(x, y) == IF (x < 0) = (y < 0) THEN Abs(x) \div Abs(y) ELSE -(Abs(x) \div Abs(y))

Computed(c) ==
  LET x == Arg(c, 1)
  IN  CASE c.method[1] \in {"callFactorial", "factorial", "recursive"} -> Factorial[x]
        [] c.method[1] = "sum"      -> IF x <= 0 THEN 0 ELSE (x * (x + 1)) \div 2
        [] c.method[1] = "quotient" ->
             LET d == Wrap("i", x - Arg(c, 2))
             IN  Quotient(d, 2)
        [] c.method[1] = "divide"   -> Quotient(x, Arg(c, 2))
        [] c.method[1] = "table"    -> IF x \in 0 .. 3 THEN 100 * (x + 1) ELSE 0
        [] c.method[1] = "lookup"   -> IF x \in {10, 20, 30} THEN 100 * x ELSE 0
        [] c.method[1] = "drain"    -> 7
        [] c.method[1] = "dupX1"    -> Wrap("i", Arg(c, 2) * (x - Arg(c, 2)))
        [] c.method[1] = "dup2"     -> Wrap("l", 2 * x)
        [] c.method[1] = "dup2X1"   ->
             Wrap("l", Arg(c, 2) + Wrap("i", x + Wrap("i", Arg(c, 2))))

MCExpected(c) ==
  IF c.method[1] = "divide" /\ Arg(c, 2) = 0 THEN <<>> ELSE <<Computed(c)>>

(* The operand stack before each instruction. *)
E  == <<>>
I  == <<"i">>
II == <<"i", "i">>
J  == <<"i", "l">>
StackMapOf == [m \in Names |->
  CASE m = "callFactorial" -> {<<0, E>>, <<1, I>>, <<4, I>>}
    [] m = "factorial" ->
         {<<0, E>>, <<1, I>>, <<4, E>>, <<5, I>>, <<6, E>>, <<7, I>>, <<8, E>>, <<9, I>>,
          <<10, E>>, <<11, I>>, <<12, II>>, <<15, E>>, <<16, I>>, <<17, II>>, <<18, I>>,
          <<19, E>>, <<22, E>>, <<25, E>>, <<26, I>>}
    [] m = "recursive" ->
         {<<0, E>>, <<1, I>>, <<4, E>>, <<5, I>>, <<6, E>>, <<7, I>>, <<8, II>>,
          <<9, II \o I>>, <<10, II>>, <<13, II>>, <<14, I>>}
    [] m = "sum" ->
         {<<0, E>>, <<1, J>>, <<2, E>>, <<3, I>>, <<6, E>>, <<7, J>>, <<8, J \o I>>,
          <<9, J \o J>>, <<10, J>>, <<11, E>>, <<14, E>>, <<17, E>>, <<18, J>>}
    [] m = "quotient" -> {<<0, E>>, <<1, I>>, <<2, II>>, <<3, I>>, <<4, II>>, <<5, I>>}
    [] m = "divide" -> {<<0, E>>, <<1, I>>, <<2, II>>, <<3, I>>}
    [] m = "table" ->
         {<<0, E>>, <<1, I>>} \cup ({32, 35, 39, 43, 47} \X {E})
         \cup ({34, 38, 42, 46, 48} \X {I})
    [] m = "lookup" ->
         {<<0, E>>, <<1, I>>} \cup ({36, 40, 44, 48} \X {E}) \cup ({39, 43, 47, 49} \X {I})
    [] m = "drain" -> {<<0, E>>, <<1, I>>, <<20, E>>, <<22, I>>, <<23, E>>, <<26, E>>}
    [] m = "dupX1" ->
         {<<0, E>>, <<1, I>>, <<2, II>>, <<3, II \o I>>, <<4, II>>, <<5, I>>}
    [] m = "dup2" -> {<<0, E>>, <<1, J>>, <<2, J \o J>>, <<3, J>>}
    [] m = "dup2X1" ->
         {<<0, E>>, <<1, I>>, <<2, I \o J>>, <<3, J \o I \o J>>, <<4, J \o II>>,
          <<5, J \o I>>, <<6, J \o J>>, <<7, J>>}]
MCStackMap == [m \in MCCompiled |-> StackMapOf[m[1]]]
=============================================================================
