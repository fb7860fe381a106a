--------------------------- MODULE EncodedClasses ---------------------------
(***************************************************************************)
(* Files for the parser and the preparation: encoded classes, what is left *)
(* of them when they are cut off, and any other bytes.  What a Klass holds *)
(* is compared with what its class says.                                   *)
(***************************************************************************)
EXTENDS KlassPreparation, ClassFileFormat

CONSTANTS
  Classes,    \* the classes to encode
  Truncated   \* those whose encodings are also cut off at every place

-----------------------------------------------------------------------------
(* What a valid class is, as far as the parser and the preparation look at *)
(* it.                                                                     *)

IsTable(s) == s \in Seq(Range(s))

IsText(cs, n)       == \E k \in DOMAIN cs : IndexOf(cs, k) = n /\ cs[k].tag = Utf8
IsName(cs, n, kind) ==
  \E k \in DOMAIN cs : IndexOf(cs, k) = n /\ cs[k].tag = Utf8 /\ KindOf(cs[k].bytes) = kind

IsConstant(cs, c) ==
  /\ \/ c.tag = Utf8                         /\ c.index = <<>>
     \/ c.tag \in FourBytes                  /\ c.index = <<>>    /\ Len(c.bytes) = 4
     \/ c.tag \in EightBytes                 /\ c.index = <<>>    /\ Len(c.bytes) = 8
     \/ c.tag \in OneIndex                   /\ Len(c.index) = 1 /\ c.bytes = <<>>
     \/ c.tag \in TwoIndices \cup {MethodHandle} /\ Len(c.index) = 2 /\ c.bytes = <<>>
  /\ c.tag = 8 => IsText(cs, c.index[1])

IsFlat(cs, a) ==
  /\ a.name_index \in Nat /\ IsName(cs, a.name_index, a.kind)
  /\ \/ /\ a.kind \in {"ConstantValue", "Exceptions", "Generic"}
        /\ a = [kind |-> a.kind, name_index |-> a.name_index, info |-> a.info]
        /\ a.info \in Seq(IF a.kind = "Generic" THEN Byte ELSE Nat)
        /\ a.kind = "ConstantValue" => Len(a.info) = 1
     \/ /\ a.kind = "BootstrapMethods"
        /\ a = [kind |-> a.kind, name_index |-> a.name_index, attributes |-> a.attributes]
        /\ a.attributes \in Seq([method_ref : Nat, arguments : Seq(Nat)])

Handler == [1 .. 4 -> Nat]
IsCode(cs, a) ==
  /\ a.kind = "Code"
  /\ a = [kind |-> a.kind, name_index |-> a.name_index, max_stack |-> a.max_stack,
          max_locals |-> a.max_locals, code |-> a.code, exception_table |-> a.exception_table,
          attributes |-> a.attributes]
  /\ {a.name_index, a.max_stack, a.max_locals} \subseteq Nat /\ IsName(cs, a.name_index, a.kind)
  /\ a.code \in Seq(Byte)
  /\ a.exception_table \in Seq(Handler)
  /\ IsTable(a.attributes) /\ \A b \in Range(a.attributes) : IsFlat(cs, b)

IsMember(cs, m) ==
  /\ m = [kind |-> "member", access_flags |-> m.access_flags, name_index |-> m.name_index,
          descriptor_index |-> m.descriptor_index, attributes |-> m.attributes]
  /\ m.access_flags \in Nat
  /\ \A n \in {m.name_index, m.descriptor_index} : n \in Nat /\ IsText(cs, n)
  /\ IsTable(m.attributes) /\ \A a \in Range(m.attributes) : IsFlat(cs, a) \/ IsCode(cs, a)

(* Native and abstract methods, bits 8 and 10 of their flags, have none.   *)
HasCode(m) == m.access_flags % 512 < 256 /\ m.access_flags % 2048 < 1024

IsClass(c) ==
  /\ c.version \in Nat \X Nat
  /\ {c.access_flags, c.this_class_index, c.super_class_index} \subseteq Nat
  /\ c.constants \in Seq(Constant) /\ PoolCount(c.constants) < U2Range
  /\ \A k \in DOMAIN c.constants : IsConstant(c.constants, c.constants[k])
  /\ \E k \in DOMAIN c.constants :
       /\ IndexOf(c.constants, k) = c.this_class_index
       /\ c.constants[k].tag = 7 /\ IsText(c.constants, c.constants[k].index[1])
  /\ c.interfaces \in Seq(Nat)
  /\ IsTable(c.fields)     /\ \A f \in Range(c.fields) : IsMember(c.constants, f)
  /\ IsTable(c.methods)    /\ \A m \in Range(c.methods) : IsMember(c.constants, m)
  /\ IsTable(c.attributes) /\ \A a \in Range(c.attributes) : IsFlat(c.constants, a)
  /\ \A m \in Range(c.methods) :
       HasCode(m) => \E a \in Range(m.attributes) : a.kind = "Code"

ASSUME ClassesAssumption   == \A c \in Classes : IsClass(c)
ASSUME TruncatedAssumption == Truncated \subseteq Classes

-----------------------------------------------------------------------------
(* Files. *)

VARIABLES
  class,   \* the class that was encoded, NoClass for other bytes
  length   \* how many bytes of it are in the file

classVars == <<klassVars, class, length>>

NoClass == [constants |-> <<>>]
Encoded == class # NoClass
Whole   == length = Len(EncodeClass(class))

EncodedInit ==
  \E c \in Classes :
    LET bytes == EncodeClass(c) IN
      /\ class = c
      /\ \/ length = Len(bytes)
         \/ c \in Truncated /\ length \in 0 .. Len(bytes) - 1
      /\ Start(SubSeq(bytes, 1, length))

OtherInit == class = NoClass /\ length = 0 /\ Init

ClassInit == (EncodedInit \/ OtherInit) /\ Unprepared
ClassNext == define /\ UNCHANGED <<class, length>>
ClassSpec == ClassInit /\ [][ClassNext]_classVars /\ WF_classVars(ClassNext)

-----------------------------------------------------------------------------
(* Properties. *)

(* The parsed tables as a class describes them: without the null elements  *)
(* the parser leaves in front, and without the lengths the encoding adds.  *)
Present(as)   == SubSeq(as, Cardinality({k \in DOMAIN as : as[k].kind = "null"}) + 1, Len(as))
Unsized(a)    == [f \in DOMAIN a \ {"length"} |-> a[f]]
UnsizedAll(as) == [k \in DOMAIN Present(as) |-> Unsized(Present(as)[k])]
AttributeOf(a) ==
  IF a.kind = "Code" THEN [Unsized(a) EXCEPT !.attributes = UnsizedAll(@)] ELSE Unsized(a)
AttributesOf(as) == [k \in DOMAIN Present(as) |-> AttributeOf(Present(as)[k])]
MemberOf(m)      == [m EXCEPT !.attributes = AttributesOf(@)]
MembersOf(ms)    == [k \in DOMAIN ms |-> MemberOf(ms[k])]

(* What parse() returns is the class that was encoded: every constant at   *)
(* its index, long and double taking two; every member and attribute, at   *)
(* both levels, in order and with its contents; and nothing is left over.  *)
RoundTrip ==
  Encoded /\ status = "returned" /\ stage = "construct" =>
    /\ pool = PoolOf(class.constants)
    /\ file.version = class.version
    /\ file.access_flags = class.access_flags
    /\ file.this_class_index = class.this_class_index
    /\ file.super_class_index = class.super_class_index
    /\ file.interfaces = class.interfaces
    /\ MembersOf(file.fields) = class.fields
    /\ MembersOf(file.methods) = class.methods
    /\ AttributesOf(file.attributes) = class.attributes
    /\ pos = Len(data)

(* The parser accepts every class file, and no proper prefix of one: a     *)
(* truncated file throws wherever the cut is, also inside a length-counted *)
(* part, and never leaves a class behind.                                  *)
AcceptsWholeFilesOnly ==
  /\ Encoded /\ status = "returned" => Whole
  /\ Encoded /\ status = "thrown"   => ~Whole

(* A valid class prepares: no phase throws or leaves its vectors. *)
ValidClassPrepares == Encoded => stage \notin {"thrown", "out_of_bounds"}

(* The constant at an index is found under it at run time: the literals    *)
(* with their bytes, strings with the bytes of what they refer to, the     *)
(* symbolic references with their indices, after wide constants as well.   *)
PoolAsWritten ==
  Encoded /\ stage = "prepared" =>
    \A n \in DOMAIN class.constants :
      LET c == class.constants[n]
          info == infos[IndexOf(class.constants, n)]
      IN  /\ c.tag \in FourBytes \cup EightBytes => info.value = c.bytes
          /\ c.tag = 8 => info.value = PoolOf(class.constants)[c.index[1]].bytes
          /\ c.tag \in {7, 9, 10, 11} => info.index = c.index
          /\ c.tag \in {1, 12, 15, 16, 18} => info = Empty

(* The methods are those of the file, in its order, with the flags and the *)
(* texts of the name and the descriptor it gives them.  One that is        *)
(* neither native nor abstract has the code and the limits of its Code     *)
(* attribute, wherever that stands in the method's table; the others have  *)
(* no code.                                                                *)
MethodsAsWritten ==
  Encoded /\ stage = "prepared" =>
    /\ Len(methods) = Len(class.methods)
    /\ \A n \in DOMAIN methods :
         LET p    == methods[n]
             m    == class.methods[n]
             text == PoolOf(class.constants)
             cs   == {k \in DOMAIN m.attributes : m.attributes[k].kind = "Code"}
         IN  /\ p.access_flags = m.access_flags
             /\ p.name = text[m.name_index].bytes
             /\ p.descriptor = text[m.descriptor_index].bytes
             /\ IF ~HasCode(m)
                  THEN p.code = <<>>
                  ELSE \E k \in cs : /\ p.code = m.attributes[k].code
                                     /\ p.max_stack = m.attributes[k].max_stack
                                     /\ p.max_locals = m.attributes[k].max_locals
=============================================================================
