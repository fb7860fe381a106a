--------------------------- MODULE ClassFileConstants ---------------------------
(***************************************************************************)
(* The magic number and the constants of a class file (class_file.h and    *)
(* constant_pool.h), which are grouped by what follows their tag.          *)
(***************************************************************************)

EXTENDS Integers, Sequences

Byte    == 0 .. 255
MaxU2   == 65535
U2Value == 0 .. MaxU2
kClassFileMagic == <<202, 254, 186, 190>>

FourBytes    == {3, 4}               \* Integer, Float
EightBytes   == {5, 6}               \* Long, Double
OneIndex     == {7, 8, 16}           \* Class, String, MethodType
TwoIndices   == {9, 10, 11, 12, 18}  \* the member references, NameAndType, InvokeDynamic
MethodHandle == 15
Utf8         == 1
ConstantTag  == {Utf8, MethodHandle} \cup FourBytes \cup EightBytes \cup OneIndex \cup TwoIndices

(* A constant: its tag, the indices it holds, and its literal bytes.  The  *)
(* null pointer of an index without a constant has tag 0.                  *)
NullEntry == [tag |-> 0, index |-> <<>>, bytes |-> <<>>]
Constant == [tag : Nat, index : Seq(Nat), bytes : Seq(Byte)]
Entry(t, x, b) == [tag |-> t, index |-> x, bytes |-> b]
=============================================================================
