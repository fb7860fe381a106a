---------------------------- MODULE MCClassFiles ---------------------------
(* Class files for TLC.  The four attribute names the parser tells apart   *)
(* are one-byte strings here.                                              *)
EXTENDS EncodedClasses

NameCV  == <<1>>
NameEx  == <<2>>
NameCo  == <<3>>
NameBM  == <<4>>

C1(t, a)    == [tag |-> t, index |-> <<a>>, bytes |-> <<>>]
C2(t, a, b) == [tag |-> t, index |-> <<a, b>>, bytes |-> <<>>]
Text(b)     == [tag |-> Utf8, index |-> <<>>, bytes |-> b]
Lit(t, n)   == [tag |-> t, index |-> <<>>, bytes |-> [k \in 1 .. n |-> 200 + k]]

(* Indices 1 to 5 are strings: the attribute names and one other; 6 is the *)
(* class.  What follows differs.                                           *)
Names == <<Text(NameCV), Text(NameEx), Text(NameCo), Text(NameBM), Text(<<90, 255>>), C1(7, 5)>>
OneOfEach == {Lit(3, 4), Lit(4, 4), Lit(5, 8), Lit(6, 8), C1(7, 5), C1(8, 5), C1(16, 5), C2(9, 6, 7),
              C2(10, 6, 7), C2(11, 6, 7), C2(12, 5, 5), C2(18, 0, 7), C2(15, 6, 7), Text(<<>>), Text(<<7, 8, 9>>)}
WideOrNot == {Lit(5, 8), Lit(6, 8), Lit(3, 4), Text(<<>>)}

Value    == [kind |-> "ConstantValue", name_index |-> 1, info |-> <<6>>]
Thrown   == [kind |-> "Exceptions", name_index |-> 2, info |-> <<6, 6>>]
Other(b) == [kind |-> "Generic", name_index |-> 5, info |-> b]
Boot     == [kind |-> "BootstrapMethods", name_index |-> 4,
             attributes |-> <<[method_ref |-> 6, arguments |-> <<>>], [method_ref |-> 6, arguments |-> <<5, 5>>]>>]
Code(b, h, as) == [kind |-> "Code", name_index |-> 3, max_stack |-> 2, max_locals |-> 258, code |-> b,
                   exception_table |-> h, attributes |-> as]
Member(fl, as) == [kind |-> "member", access_flags |-> fl, name_index |-> 5, descriptor_index |-> 5, attributes |-> as]

Class(cs, ifs, fs, ms, as) ==
  [version |-> <<52, 0>>, constants |-> Names \o cs, access_flags |-> 33, this_class_index |-> 6,
   super_class_index |-> 0, interfaces |-> ifs, fields |-> fs, methods |-> ms, attributes |-> as]

CodeKinds == {Code(<<177>>, <<>>, <<>>), Code(<<42, 177>>, <<<<0, 1, 1, 6>>>>, <<Other(<<9>>)>>),
              Code(<<>>, <<<<0, 1, 1, 0>>, <<0, 2, 2, 6>>>>, <<Other(<<>>), Other(<<1, 2>>)>>)}
WithCode  == {<<c>> : c \in CodeKinds} \cup {<<Thrown, c>> : c \in CodeKinds} \cup {<<c, Other(<<3>>)>> : c \in CodeKinds}

(* Classes to cut: every constant, alone and next to a wide one; every     *)
(* attribute, in tables of none, one and two elements; no interfaces.      *)
PlainClasses ==
  {Class(<<c>>, <<>>, <<>>, <<>>, <<>>) : c \in OneOfEach}
  \cup {Class(<<c, d, e>>, <<>>, <<>>, <<>>, <<>>) : c \in WideOrNot, d \in WideOrNot, e \in WideOrNot}
  \cup {Class(<<>>, <<>>, fs, ms, as) :
          fs \in {<<>>, <<Member(9, <<Value>>)>>, <<Member(1, <<>>), Member(2, <<Other(<<7>>), Value>>)>>},
          ms \in {<<>>} \cup {<<Member(1, t)>> : t \in WithCode} \cup {<<Member(1025, <<>>), Member(257, t)>> : t \in WithCode},
          as \in {<<>>, <<Boot>>, <<Other(<<1, 2, 3>>), Boot>>}}

(* Classes that implement an interface or two. *)
InterfaceClasses ==
  {Class(<<C1(7, 5)>>, ifs, <<>>, ms, <<>>) : ifs \in {<<6>>, <<6, 7>>}, ms \in {<<>>, <<Member(1025, <<>>)>>}}

(* Whole classes for the preparation.  Indices 7 and 8 are "J" and "D".    *)
Field(st, d) == [kind |-> "member", access_flags |-> st, name_index |-> 5, descriptor_index |-> d, attributes |-> <<>>]
JD(fs, ms)   == Class(<<Text(<<74>>), Text(<<68>>)>>, <<>>, fs, ms, <<>>)
FieldKinds   == {Field(st, d) : st \in {1, 9}, d \in {5, 7, 8}}
MethodKinds  == {Member(fl, t) : fl \in {1, 8}, t \in WithCode} \cup {Member(fl, <<>>) : fl \in {257, 1025}}
                \cup {Member(256, <<Thrown>>)}
                \cup {[Member(257, <<>>) EXCEPT !.name_index = 7, !.descriptor_index = 8]}
FieldClasses == {JD(fs, <<>>) : fs \in SeqOf(FieldKinds, 3)}
ValidClasses ==
  PlainClasses \cup FieldClasses
  \cup {Class(<<c, d, e>>, <<>>, <<>>, <<>>, <<>>) : c \in OneOfEach, d \in WideOrNot, e \in OneOfEach}
  \cup {JD(<<>>, <<a, b>>) : a \in MethodKinds, b \in MethodKinds}

(* Files that are not class files: one byte of a class file is replaced,   *)
(* and two bytes follow it.                                                *)
(* A pool counts fewer than U2Range entries.  Wrapping with a count of 19  *)
(* has a long at the index before the last: the loop variable passes its   *)
(* range, and the pool is read a second time from index 0 on.              *)
U2Bound     == 20
Mixed(c)    == Class(<<Lit(5, 8)>>, <<>>, <<Member(9, <<Value>>)>>, <<Member(1, <<Thrown, c>>)>>, <<Boot>>)
Texts(n)    == [k \in 1 .. n |-> Text(<<>>)]
Wrapping    == Class(Texts(11) \o <<Lit(5, 8), Text(<<>>)>> \o Names \o Texts(12), <<>>, <<>>, <<>>, <<>>)
Broken(d)   == {[d EXCEPT ![k] = b] : k \in DOMAIN d, b \in {0, 1, 3, 5, 15, 18, 19, 100}}
Corrupted   == {d \in UNION {Broken(EncodeClass(c) \o <<0, 6>>) : c \in {Wrapping} \cup {Mixed(b) : b \in CodeKinds}} :
                  256 * d[9] + d[10] < U2Bound}

(* Files that parse and whose preparation meets a bad index, a method      *)
(* without code, or a wide constant at the end of a pool whose count is    *)
(* one too small.                                                          *)
CutPool(d) == [d EXCEPT ![10] = @ - 1]
Rejected ==
  {EncodeClass(Class(<<c, C1(8, n)>>, <<>>, <<>>, <<>>, <<>>)) : c \in WideOrNot, n \in {0, 6, 50}}
  \cup {EncodeClass([JD(<<>>, <<>>) EXCEPT !.this_class_index = n]) : n \in {0, 5, 50}}
  \cup {EncodeClass(JD(<<f, g>>, <<>>)) : f \in FieldKinds, g \in {Field(1, 6), Field(9, 50)}}
  \cup {EncodeClass(JD(<<>>, <<m, n>>)) : m \in MethodKinds,
           n \in {Member(1, <<>>), Member(8, <<Thrown>>), [Member(257, <<>>) EXCEPT !.descriptor_index = 6]}}
  \cup {CutPool(EncodeClass(Class(<<c, Lit(t, 8)>>, <<>>, <<>>, <<>>, <<>>))) : c \in WideOrNot, t \in EightBytes}
BadFiles == Corrupted \cup Rejected

None == {}
=============================================================================
