-------------------------- MODULE ClassFileParser --------------------------
(***************************************************************************)
(* The class-file parser (class_file_parser.cpp, constant_pool.cpp,        *)
(* attributes.cpp, members.cpp) over the bytes of a file.  One action      *)
(* reads one item: the header, one constant, the class indices, one        *)
(* member, one attribute.  parseAttributes is called from inside a member  *)
(* and from inside a Code attribute; tables is that recursion, the table   *)
(* being filled last.  A read past the end throws, and so does a constant  *)
(* of unknown tag or a name that is not a Utf8 entry; nothing in the       *)
(* parser catches.                                                         *)
(***************************************************************************)
EXTENDS ClassFileConstants

CONSTANTS
  Inputs,      \* the byte sequences a file may hold
  U2Range,     \* the number of values of the U2 that counts constants (65536)
  ConstantValueName, ExceptionsName, CodeName, BootstrapMethodsName  \* as bytes

ASSUME InputsAssumption == Inputs \subseteq Seq(Byte)
ASSUME U2RangeAssumption == U2Range \in 2 .. 65536

VARIABLES
  data,    \* the file
  pos,     \* ByteReader::pos_
  at,      \* the part of parse() that is running
  i,       \* the loop variable of parseConstantPool
  pool,    \* the constant pool: 0 .. count - 1 -> entry
  tables,  \* the member and attribute tables being filled, innermost last
  file,    \* what parse() has read apart from the pool
  status   \* "parsing", "returned" or "thrown"

vars == <<data, pos, at, i, pool, tables, file, status>>

Section == {"header", "constants", "fields", "methods", "attributes", "interfaces"}

NoFile == [version |-> <<>>, access_flags |-> 0, this_class_index |-> 0, super_class_index |-> 0,
           interfaces_count |-> 0, interfaces |-> <<>>,
           fields |-> <<>>, methods |-> <<>>, attributes |-> <<>>]

(* parseAttributes makes a vector of count null pointers and appends to it. *)
NullAttribute == [kind |-> "null"]
NoItem        == [kind |-> "none"]
Table(of, n) ==
  [of |-> of, left |-> n, open |-> NoItem,
   built |-> IF of = "attributes" THEN [k \in 1 .. n |-> NullAttribute] ELSE <<>>]

-----------------------------------------------------------------------------
(* ByteReader: big-endian reads at an offset from pos. *)

U1(d) == data[pos + d + 1]
U2(d) == 256 * U1(d) + U1(d + 1)
U4(d) == 65536 * U2(d) + U2(d + 2)
U2s(d, n)   == [k \in 1 .. n |-> U2(d + 2 * (k - 1))]
Bytes(d, n) == SubSeq(data, pos + d + 1, pos + d + n)

checkBounds(n) == pos + n <= Len(data)

(* The bytes of a head that ends in a U2 count and of the elements after it. *)
Counted(head, size) ==
  IF checkBounds(head) THEN head + size * U2(head - 2) ELSE head

-----------------------------------------------------------------------------
(* The constant pool. *)

ConstantSize ==
  IF ~checkBounds(1) THEN 1
  ELSE LET t == U1(0) IN
       CASE t = Utf8         -> Counted(3, 1)
         [] t \in FourBytes  -> 5
         [] t \in EightBytes -> 9
         [] t \in OneIndex   -> 3
         [] t \in TwoIndices -> 5
         [] t = MethodHandle -> 4
         [] OTHER            -> 1

(* Mutant: the two indices of a constant are read in the wrong order. *)
readInfoSwapped ==
  LET t == U1(0) IN
  CASE t = Utf8         -> Entry(t, <<>>, Bytes(3, U2(1)))
    [] t \in FourBytes  -> Entry(t, <<>>, Bytes(1, 4))
    [] t \in EightBytes -> Entry(t, <<>>, Bytes(1, 8))
    [] t \in OneIndex   -> Entry(t, <<U2(1)>>, <<>>)
    [] t \in TwoIndices -> Entry(t, <<U2(3), U2(1)>>, <<>>)
    [] t = MethodHandle -> Entry(t, <<U1(1), U2(2)>>, <<>>)

readInfo ==
  LET t == U1(0) IN
  CASE t = Utf8         -> Entry(t, <<>>, Bytes(3, U2(1)))
    [] t \in FourBytes  -> Entry(t, <<>>, Bytes(1, 4))
    [] t \in EightBytes -> Entry(t, <<>>, Bytes(1, 8))
    [] t \in OneIndex   -> Entry(t, <<U2(1)>>, <<>>)
    [] t \in TwoIndices -> Entry(t, <<U2(1), U2(3)>>, <<>>)
    [] t = MethodHandle -> Entry(t, <<U1(1), U2(2)>>, <<>>)

(* The indices the pool has; index 0 and those past the end throw. *)
IsUtf8(x)  == x # 0 /\ x \in DOMAIN pool /\ pool[x].tag = Utf8
Utf8At(x)  == pool[x].bytes

-----------------------------------------------------------------------------
(* Attributes.  A typed attribute is read by its own counts and not by the *)
(* length it declares, which only a generic one uses.                      *)

KindOf(name) ==
  CASE name = ConstantValueName    -> "ConstantValue"
    [] name = ExceptionsName       -> "Exceptions"
    [] name = CodeName             -> "Code"
    [] name = BootstrapMethodsName -> "BootstrapMethods"
    [] OTHER                       -> "Generic"

Kind == KindOf(Utf8At(U2(0)))

(* Code up to and with the count of its own attributes. *)
CodeEnd == 14 + U4(10)
CodeSize ==
  IF ~checkBounds(14) THEN 14
  ELSE IF ~checkBounds(CodeEnd + 2) THEN CodeEnd + 2
  ELSE CodeEnd + 4 + 8 * U2(CodeEnd)

AttributeSize ==
  IF ~checkBounds(6) \/ ~IsUtf8(U2(0)) THEN 6
  ELSE CASE Kind = "ConstantValue"    -> 8
         [] Kind = "Exceptions"       -> Counted(8, 2)
         [] Kind = "Code"             -> CodeSize
         [] Kind = "BootstrapMethods" -> 8
         [] Kind = "Generic"          -> 6 + U4(2)

(* A Code whose own attributes are still to be read. *)
CodeAttribute ==
  [kind |-> "Code", name_index |-> U2(0), length |-> U4(2),
   max_stack |-> U2(6), max_locals |-> U2(8), code |-> Bytes(14, U4(10)),
   exception_table |-> [k \in 1 .. U2(CodeEnd) |-> U2s(CodeEnd + 2 + 8 * (k - 1), 4)],
   attributes |-> <<>>]

(* The attributes that hold no table of their own. *)
FlatAttribute ==
  [kind |-> Kind, name_index |-> U2(0), length |-> U4(2),
   info |-> CASE Kind = "ConstantValue" -> <<U2(6)>>
              [] Kind = "Exceptions"    -> U2s(8, U2(6))
              [] Kind = "Generic"       -> Bytes(6, U4(2))]

-----------------------------------------------------------------------------
(* Control. *)

Parsing == status = "parsing"
Top     == tables[Len(tables)]
Pop     == SubSeq(tables, 1, Len(tables) - 1)

(* Mutant: the loop over a table runs up to and with its count. *)
FillingOneMore(of) == Parsing /\ tables # <<>> /\ Top.of \in of /\ Top.left >= 0

(* A table is being filled; it has another element; it is complete. *)
Filling(of) == Parsing /\ tables # <<>> /\ Top.of \in of /\ Top.left > 0
Filled(of)  == Parsing /\ tables # <<>> /\ Top.of \in of /\ Top.left = 0

(* The element e completes one of the elements of a table, the last of ts. *)
Completed(t, e) == [t EXCEPT !.left = @ - 1, !.built = Append(@, e), !.open = NoItem]
Element(ts, e)  == [ts EXCEPT ![Len(ts)] = Completed(@, e)]

(* An element with a table of n elements of its own: it waits for them. *)
Nest(item, of, n) ==
  Append([tables EXCEPT ![Len(tables)] = [@ EXCEPT !.open = item]], Table(of, n))

(* The n bytes of an item are there, and are read. *)
Take(n) == checkBounds(n) /\ pos' = pos + n

Throw == status' = "thrown" /\ UNCHANGED <<data, pos, at, i, pool, tables, file>>

Start(d) ==
  /\ data = d /\ pos = 0
  /\ at = "header" /\ i = 1 /\ pool = <<>> /\ tables = <<>>
  /\ file = NoFile
  /\ status = "parsing"

Init == \E d \in Inputs : Start(d)

-----------------------------------------------------------------------------
(* parse(), in the order in which it reads. *)

(* parseMagic, parseVersion and the count of the pool. *)
ParseHeader ==
  /\ Parsing /\ at = "header"
  /\ Take(10)
  /\ Bytes(0, 4) = kClassFileMagic
  /\ file' = [file EXCEPT !.version = <<U2(6), U2(4)>>]
  /\ pool' = [k \in 0 .. U2(8) - 1 |-> NullEntry]
  /\ at' = "constants"
  /\ UNCHANGED <<data, i, tables, status>>

BadMagic ==
  /\ Parsing /\ at = "header"
  /\ checkBounds(10) /\ Bytes(0, 4) # kClassFileMagic
  /\ Throw

(* Mutant: only a long takes two indices. *)
DoubleTakesOneIndex ==
  /\ Parsing /\ at = "constants" /\ i \in DOMAIN pool
  /\ Take(ConstantSize)
  /\ U1(0) \in ConstantTag
  /\ pool' = [pool EXCEPT ![i] = readInfo]
  /\ i' = (i + (IF U1(0) = 5 THEN 2 ELSE 1)) % U2Range
  /\ UNCHANGED <<data, at, tables, file, status>>

(* One turn of the loop of parseConstantPool; a long or a double takes two *)
(* indices.  The loop variable is a U2.                                    *)
CreateConstantInfo ==
  /\ Parsing /\ at = "constants" /\ i \in DOMAIN pool
  /\ Take(ConstantSize)
  /\ U1(0) \in ConstantTag
  /\ pool' = [pool EXCEPT ![i] = readInfo]
  /\ i' = (i + (IF U1(0) \in EightBytes THEN 2 ELSE 1)) % U2Range
  /\ UNCHANGED <<data, at, tables, file, status>>

UnknownTag ==
  /\ Parsing /\ at = "constants" /\ i \in DOMAIN pool
  /\ checkBounds(1) /\ U1(0) \notin ConstantTag
  /\ Throw

(* The end of the pool, then access flags, the two class indices and the   *)
(* number of interfaces.                                                   *)
ParseClassIndices ==
  /\ Parsing /\ at = "constants" /\ i \notin DOMAIN pool
  /\ Take(8)
  /\ file' = [file EXCEPT !.access_flags = U2(0), !.this_class_index = U2(2),
                          !.super_class_index = U2(4), !.interfaces_count = U2(6)]
  /\ at' = "fields"
  /\ UNCHANGED <<data, i, pool, tables, status>>

(* parseFields, parseMethods and the class's parseAttributes. *)
Tables    == {"fields", "methods", "attributes"}
Following  == [fields |-> "methods", methods |-> "attributes", attributes |-> "interfaces"]

ParseTable ==
  /\ Parsing /\ at \in Tables /\ tables = <<>>
  /\ Take(2)
  /\ tables' = <<Table(at, U2(0))>>
  /\ UNCHANGED <<data, at, i, pool, file, status>>

EndClassTable ==
  /\ Filled(Tables) /\ Len(tables) = 1
  /\ file' = [file EXCEPT ![at] = Top.built]
  /\ tables' = <<>>
  /\ at' = Following[at]
  /\ UNCHANGED <<data, pos, i, pool, status>>

(* createFieldInfo and createMethodInfo up to the member's parseAttributes. *)
CreateMemberInfo ==
  /\ Filling({"fields", "methods"})
  /\ Take(8)
  /\ tables' = Nest([kind |-> "member", access_flags |-> U2(0), name_index |-> U2(2),
                     descriptor_index |-> U2(4), attributes |-> <<>>], "attributes", U2(6))
  /\ UNCHANGED <<data, at, i, pool, file, status>>

(* createAttributeInfo. *)
Attribute(kinds) == Filling({"attributes"}) /\ checkBounds(6) /\ IsUtf8(U2(0)) /\ Kind \in kinds

NameNotUtf8 ==
  /\ Filling({"attributes"}) /\ checkBounds(6) /\ ~IsUtf8(U2(0))
  /\ Throw

CreateFlatAttribute ==
  /\ Attribute({"ConstantValue", "Exceptions", "Generic"})
  /\ Take(AttributeSize)
  /\ tables' = Element(tables, FlatAttribute)
  /\ UNCHANGED <<data, at, i, pool, file, status>>

(* Mutant: the nested attributes are read with a copy of the reader. *)
CreateCodeWithCopy ==
  /\ Attribute({"Code"})
  /\ checkBounds(AttributeSize)
  /\ tables' = Nest(CodeAttribute, "attributes", U2(AttributeSize - 2))
  /\ UNCHANGED <<data, pos, at, i, pool, file, status>>

CreateCodeAttribute ==
  /\ Attribute({"Code"})
  /\ Take(AttributeSize)
  /\ tables' = Nest(CodeAttribute, "attributes", U2(AttributeSize - 2))
  /\ UNCHANGED <<data, at, i, pool, file, status>>

CreateBootstrapMethods ==
  /\ Attribute({"BootstrapMethods"})
  /\ Take(AttributeSize)
  /\ tables' = Nest([kind |-> "BootstrapMethods", name_index |-> U2(0), length |-> U4(2),
                     attributes |-> <<>>], "bootstrap_methods", U2(6))
  /\ UNCHANGED <<data, at, i, pool, file, status>>

ReadBootstrapMethod ==
  /\ Filling({"bootstrap_methods"})
  /\ Take(Counted(4, 2))
  /\ tables' = Element(tables, [method_ref |-> U2(0), arguments |-> U2s(4, U2(2))])
  /\ UNCHANGED <<data, at, i, pool, file, status>>

(* A nested table is complete and is moved into the element it belongs to; *)
(* a member looks its name up only now.                                    *)
Owner == tables[Len(tables) - 1].open

EndNestedTable ==
  /\ Filled({"attributes", "bootstrap_methods"}) /\ Len(tables) > 1
  /\ Owner.kind = "member" => IsUtf8(Owner.name_index)
  /\ tables' = Element(Pop, [Owner EXCEPT !.attributes = Top.built])
  /\ UNCHANGED <<data, pos, at, i, pool, file, status>>

MemberNameNotUtf8 ==
  /\ Filled({"attributes"}) /\ Len(tables) > 1
  /\ Owner.kind = "member" /\ ~IsUtf8(Owner.name_index)
  /\ Throw

(* The loop over the interfaces. *)
ReadInterface ==
  /\ Parsing /\ at = "interfaces"
  /\ Len(file.interfaces) < file.interfaces_count
  /\ Take(2)
  /\ file' = [file EXCEPT !.interfaces = Append(@, U2(0))]
  /\ UNCHANGED <<data, at, i, pool, tables, status>>

ReturnClassFile ==
  /\ Parsing /\ at = "interfaces"
  /\ Len(file.interfaces) = file.interfaces_count
  /\ status' = "returned"
  /\ UNCHANGED <<data, pos, at, i, pool, tables, file>>

(* Mutant: a read past the end waits for more bytes. *)
ReadWaits == Parsing /\ UNCHANGED vars

(* checkBounds fails in the middle of an item. *)
ReadOutOfBounds ==
  /\ Parsing
  /\ \/ at = "header" /\ ~checkBounds(10)
     \/ at = "constants" /\ i \in DOMAIN pool /\ ~checkBounds(ConstantSize)
     \/ at = "constants" /\ i \notin DOMAIN pool /\ ~checkBounds(8)
     \/ at \in Tables /\ tables = <<>> /\ ~checkBounds(2)
     \/ Filling({"fields", "methods"}) /\ ~checkBounds(8)
     \/ Filling({"attributes"}) /\ ~checkBounds(AttributeSize)
     \/ Filling({"bootstrap_methods"}) /\ ~checkBounds(Counted(4, 2))
     \/ at = "interfaces" /\ Len(file.interfaces) < file.interfaces_count /\ ~checkBounds(2)
  /\ Throw

parse ==
  \/ ParseHeader \/ BadMagic
  \/ CreateConstantInfo \/ UnknownTag
  \/ ParseClassIndices
  \/ ParseTable \/ EndClassTable
  \/ CreateMemberInfo \/ MemberNameNotUtf8
  \/ CreateFlatAttribute \/ CreateCodeAttribute \/ NameNotUtf8
  \/ CreateBootstrapMethods \/ ReadBootstrapMethod
  \/ EndNestedTable
  \/ ReadInterface \/ ReturnClassFile
  \/ ReadOutOfBounds

Spec == Init /\ [][parse]_vars

-----------------------------------------------------------------------------
(* Properties. *)

TypeOK ==
  /\ data \in Seq(Byte)
  /\ pos \in 0 .. Len(data)
  /\ at \in Section
  /\ i \in 0 .. U2Range - 1
  /\ \A n \in DOMAIN pool : pool[n] \in Constant
  /\ \A k \in DOMAIN tables : tables[k].left \in U2Value
  /\ status \in {"parsing", "returned", "thrown"}

(* The parser recurses once per table inside a table, for any bytes, and   *)
(* every level has been paid for by at least 8 bytes of the file: the      *)
(* native stack parse() needs is bounded by the file and nothing else.     *)
NestingIsPaid == 8 * Len(tables) <= pos /\ pos <= Len(data)
=============================================================================
