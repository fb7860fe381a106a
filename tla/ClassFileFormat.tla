-------------------------- MODULE ClassFileFormat --------------------------
(***************************************************************************)
(* What a class file is (JVM specification, chapter 4), written as an      *)
(* encoder: the reference that the parser is checked against.  A class is  *)
(* described as the parser's ClassFile is: the entries of its pool in file *)
(* order, its members and attributes as records.                           *)
(***************************************************************************)
EXTENDS SequencesExt, ClassFileConstants

EncodeU2(x) == <<x \div 256, x % 256>>
EncodeU4(x) == EncodeU2(x \div 65536) \o EncodeU2(x % 65536)

(* A table: its count and its elements. *)
EncodeAll(seq, Encode(_))  == FlattenSeq([k \in DOMAIN seq |-> Encode(seq[k])])
Counting(seq, Encode(_))   == EncodeU2(Len(seq)) \o EncodeAll(seq, Encode)

EncodeConstant(c) ==
  <<c.tag>> \o
  CASE c.tag = Utf8         -> EncodeU2(Len(c.bytes)) \o c.bytes
    [] c.tag = MethodHandle -> <<c.index[1]>> \o EncodeU2(c.index[2])
    [] OTHER                -> EncodeAll(c.index, EncodeU2) \o c.bytes

(* The pool index of the n-th constant. *)
IndexOf(cs, n) == n + Cardinality({k \in 1 .. n - 1 : cs[k].tag \in EightBytes})
PoolCount(cs)  == IndexOf(cs, Len(cs) + 1)
PoolOf(cs) ==
  [x \in 0 .. PoolCount(cs) - 1 |->
     IF \E n \in DOMAIN cs : IndexOf(cs, n) = x
       THEN cs[CHOOSE n \in DOMAIN cs : IndexOf(cs, n) = x]
       ELSE NullEntry]

(* An attribute: name, length of what follows, and that. *)
Sized(a, body) == EncodeU2(a.name_index) \o EncodeU4(Len(body)) \o body

EncodeBootstrapMethod(m) == EncodeU2(m.method_ref) \o Counting(m.arguments, EncodeU2)
EncodeFlat(a) ==
  Sized(a, CASE a.kind = "ConstantValue"    -> EncodeU2(a.info[1])
             [] a.kind = "Exceptions"       -> Counting(a.info, EncodeU2)
             [] a.kind = "Generic"          -> a.info
             [] a.kind = "BootstrapMethods" -> Counting(a.attributes, EncodeBootstrapMethod))

EncodeHandler(h) == EncodeAll(h, EncodeU2)
EncodeAttribute(a) ==
  IF a.kind = "Code"
    THEN Sized(a, EncodeU2(a.max_stack) \o EncodeU2(a.max_locals)
                  \o EncodeU4(Len(a.code)) \o a.code
                  \o Counting(a.exception_table, EncodeHandler)
                  \o Counting(a.attributes, EncodeFlat))
    ELSE EncodeFlat(a)

EncodeMember(m) ==
  EncodeU2(m.access_flags) \o EncodeU2(m.name_index) \o EncodeU2(m.descriptor_index)
    \o Counting(m.attributes, EncodeAttribute)

(* ClassFile { ... } of section 4.1: the interfaces follow the superclass. *)
EncodeClass(c) ==
  kClassFileMagic \o EncodeU2(c.version[2]) \o EncodeU2(c.version[1])
    \o EncodeU2(PoolCount(c.constants)) \o EncodeAll(c.constants, EncodeConstant)
    \o EncodeU2(c.access_flags) \o EncodeU2(c.this_class_index) \o EncodeU2(c.super_class_index)
    \o Counting(c.interfaces, EncodeU2)
    \o Counting(c.fields, EncodeMember)
    \o Counting(c.methods, EncodeMember)
    \o Counting(c.attributes, EncodeAttribute)
=============================================================================
