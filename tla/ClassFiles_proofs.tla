--------------------------- MODULE ClassFiles_proofs ---------------------------
(***************************************************************************)
(* For every file, valid or not: the parser's state keeps its types, all   *)
(* constants it reads are well formed, and each level of its recursion is  *)
(* paid for by 8 bytes of the file; the fields of a Klass get slots that   *)
(* do not overlap, leave none unused and fit the counts the Klass reports; *)
(* and the loop that prepares the constant pool steps over exactly the     *)
(* entries that the parser's loop left null.                               *)
(*                                                                         *)
(* And for every class: what the parser reads where an encoded constant,   *)
(* attribute or member stands in a file.                                   *)
(***************************************************************************)
EXTENDS EncodedClasses, TLAPS, SequenceTheorems, FiniteSetTheorems, WellFoundedInduction

(* A table whose waiting element is in O and whose elements are in B, and  *)
(* a recursion of tables, each of which waits for the next.                *)
TableKind == Tables \cup {"bootstrap_methods"}
TableOf(O, B) == [of : TableKind, left : U2Value, open : O, built : B]

IsTables(ts) ==
  /\ \E O, B : ts \in Seq(TableOf(O, B))
  /\ \A k \in 1 .. Len(ts) - 1 : ts[k].left > 0

(* The position has moved past the header once the header is read, and     *)
(* tables are open only in the sections that have them.                    *)
Inv ==
  /\ TypeOK
  /\ NestingIsPaid
  /\ at # "header" => pos >= 10
  /\ at \notin Tables => tables = <<>>
  /\ IsTables(tables)

-----------------------------------------------------------------------------
(* The reader. *)

(* Within the bounds, a read of one or two bytes is a number of that width. *)
LEMMA U1Typed ==
  ASSUME data \in Seq(Byte), pos \in Nat, NEW d \in Nat, checkBounds(d + 1)
  PROVE  U1(d) \in Nat /\ U1(d) <= 255
<1>1. pos + d + 1 \in Nat /\ 1 <= pos + d + 1 /\ pos + d + 1 <= Len(data)
  BY DEF checkBounds
<1>2. data[pos + d + 1] \in Byte
  BY <1>1
<1>3. \A b \in Byte : b \in Nat /\ b <= 255
  BY DEF Byte
<1> QED BY <1>2, <1>3 DEF U1

LEMMA InU2Value == ASSUME NEW v \in Nat, v <= MaxU2 PROVE v \in U2Value
<1>1. MaxU2 \in Nat
  BY SMT DEF MaxU2
<1> QED BY <1>1 DEF U2Value

LEMMA U2Typed ==
  ASSUME data \in Seq(Byte), pos \in Nat, NEW d \in Nat, checkBounds(d + 2)
  PROVE  U2(d) \in Nat /\ U2(d) \in U2Value
<1>1. U1(d) \in Nat /\ U1(d) <= 255
  <2>1. checkBounds(d + 1)
    BY DEF checkBounds
  <2> QED BY <2>1, U1Typed
<1>2. U1(d + 1) \in Nat /\ U1(d + 1) <= 255
  <2>1. d + 1 \in Nat /\ checkBounds((d + 1) + 1)
    BY DEF checkBounds
  <2> QED BY <2>1, U1Typed
<1>3. U2(d) \in Nat
  BY <1>1, <1>2 DEF U2
<1>4. U2(d) <= MaxU2
  BY <1>1, <1>2, SMT DEF U2, MaxU2
<1> QED BY <1>3, <1>4, InU2Value

LEMMA U4Typed ==
  ASSUME data \in Seq(Byte), pos \in Nat, NEW d \in Nat, checkBounds(d + 4)
  PROVE  U4(d) \in Nat
<1>1. U2(d) \in Nat
  <2>1. checkBounds(d + 2)
    BY DEF checkBounds
  <2> QED BY <2>1, U2Typed
<1>2. U2(d + 2) \in Nat
  <2>1. d + 2 \in Nat /\ checkBounds((d + 2) + 2)
    BY DEF checkBounds
  <2> QED BY <2>1, U2Typed
<1> QED BY <1>1, <1>2, SMT DEF U4

LEMMA BytesTyped ==
  ASSUME data \in Seq(Byte), pos \in Nat, NEW d \in Nat, NEW n \in Nat, checkBounds(d + n)
  PROVE  Bytes(d, n) \in Seq(Byte)
<1>1. \A k \in pos + d + 1 .. pos + d + n : data[k] \in Byte
  BY DEF checkBounds
<1> QED BY <1>1, SubSeqProperties DEF Bytes

(* What follows a count: the size of an item is known once its count is.   *)
LEMMA CountedTyped ==
  ASSUME data \in Seq(Byte), pos \in Nat, NEW head \in Nat, NEW size \in Nat, head >= 2
  PROVE  Counted(head, size) \in Nat /\ Counted(head, size) >= head
<1>1. CASE checkBounds(head)
  <2>1. head - 2 \in Nat /\ checkBounds((head - 2) + 2)
    BY <1>1 DEF checkBounds
  <2>2. U2(head - 2) \in Nat
    BY <2>1, U2Typed
  <2>3. \A n \in Nat : size * n \in Nat
    OBVIOUS
  <2>4. size * U2(head - 2) \in Nat
    BY <2>2, <2>3
  <2> QED BY <1>1, <2>4 DEF Counted
<1>2. CASE ~checkBounds(head)
  BY <1>2 DEF Counted
<1> QED BY <1>1, <1>2

-----------------------------------------------------------------------------
(* Constants. *)

LEMMA ConstantSizeTyped ==
  ASSUME data \in Seq(Byte), pos \in Nat
  PROVE  ConstantSize \in Nat
<1>1. Counted(3, 1) \in Nat
  BY CountedTyped
<1> QED BY <1>1 DEF ConstantSize

(* A constant that is within the bounds is read whole. *)
LEMMA ConstantTyped ==
  ASSUME data \in Seq(Byte), pos \in Nat, checkBounds(1), U1(0) \in ConstantTag,
         checkBounds(ConstantSize)
  PROVE  readInfo \in Constant
<1> USE DEF FourBytes, EightBytes, OneIndex, TwoIndices, Utf8, MethodHandle
<1> DEFINE t == U1(0)
<1>1. \A n, k \in Nat : checkBounds(n) /\ k <= n => checkBounds(k)
  BY DEF checkBounds
<1>2. t \in Nat
  BY U1Typed
<1>3. \A s \in Seq(Nat), b \in Seq(Byte) : Entry(t, s, b) \in Constant
  BY <1>2 DEF Entry, Constant
<1> HIDE DEF t
<1>4. \A m, n \in Nat : <<m>> \in Seq(Nat) /\ <<m, n>> \in Seq(Nat)
  OBVIOUS
<1>5. <<>> \in Seq(Nat) /\ <<>> \in Seq(Byte)
  OBVIOUS
<1>6. CASE t = Utf8
  <2>1. ConstantSize = Counted(3, 1)
    BY <1>6 DEF ConstantSize, t
  <2>2. Counted(3, 1) \in Nat /\ Counted(3, 1) >= 3
    BY CountedTyped
  <2>3. checkBounds(3)
    BY <1>1, <2>1, <2>2
  <2>4. U2(1) \in Nat /\ ConstantSize = 3 + U2(1)
    BY <2>1, <2>3, U2Typed DEF Counted
  <2>5. Bytes(3, U2(1)) \in Seq(Byte)
    BY <2>4, BytesTyped
  <2>6. readInfo = Entry(t, <<>>, Bytes(3, U2(1)))
    BY <1>6 DEF readInfo, t
  <2> QED BY <1>3, <1>5, <2>5, <2>6
<1>7. CASE t \in FourBytes
  <2>1. ConstantSize = 5
    BY <1>7 DEF ConstantSize, t
  <2>2. Bytes(1, 4) \in Seq(Byte)
    BY <2>1, BytesTyped
  <2>3. readInfo = Entry(t, <<>>, Bytes(1, 4))
    BY <1>7 DEF readInfo, t
  <2> QED BY <1>3, <1>5, <2>2, <2>3
<1>8. CASE t \in EightBytes
  <2>1. ConstantSize = 9
    BY <1>8 DEF ConstantSize, t
  <2>2. Bytes(1, 8) \in Seq(Byte)
    BY <2>1, BytesTyped
  <2>3. readInfo = Entry(t, <<>>, Bytes(1, 8))
    BY <1>8 DEF readInfo, t
  <2> QED BY <1>3, <1>5, <2>2, <2>3
<1>9. CASE t \in OneIndex
  <2>1. ConstantSize = 3
    BY <1>9 DEF ConstantSize, t
  <2>2. U2(1) \in Nat
    BY <2>1, U2Typed
  <2>3. readInfo = Entry(t, <<U2(1)>>, <<>>)
    BY <1>9 DEF readInfo, t
  <2> QED BY <1>3, <1>4, <1>5, <2>2, <2>3
<1>10. CASE t \in TwoIndices
  <2>1. ConstantSize = 5
    BY <1>10 DEF ConstantSize, t
  <2>2. checkBounds(3)
    BY <1>1, <2>1
  <2>3. U2(1) \in Nat /\ U2(3) \in Nat
    BY <2>1, <2>2, U2Typed
  <2>4. readInfo = Entry(t, <<U2(1), U2(3)>>, <<>>)
    BY <1>10 DEF readInfo, t
  <2> QED BY <1>3, <1>4, <1>5, <2>3, <2>4
<1>11. CASE t = MethodHandle
  <2>1. ConstantSize = 4
    BY <1>11 DEF ConstantSize, t
  <2>2. checkBounds(2)
    BY <1>1, <2>1
  <2>3. U1(1) \in Nat /\ U2(2) \in Nat
    BY <2>1, <2>2, U1Typed, U2Typed
  <2>4. readInfo = Entry(t, <<U1(1), U2(2)>>, <<>>)
    BY <1>11 DEF readInfo, t
  <2> QED BY <1>3, <1>4, <1>5, <2>3, <2>4
<1> QED BY <1>6, <1>7, <1>8, <1>9, <1>10, <1>11 DEF ConstantTag, t

-----------------------------------------------------------------------------
(* Tables. *)

LEMMA TablesTyped ==
  ASSUME NEW ts, IsTables(ts)
  PROVE  /\ Len(ts) \in Nat /\ DOMAIN ts = 1 .. Len(ts)
         /\ \A k \in DOMAIN ts : ts[k].left \in U2Value /\ ts[k].of \in TableKind
         /\ ts # <<>> => Len(ts) > 0
<1>1. PICK O, B : ts \in Seq(TableOf(O, B))
  BY Zenon DEF IsTables
<1>2. Len(ts) \in Nat /\ DOMAIN ts = 1 .. Len(ts) /\ (ts # <<>> => Len(ts) > 0)
  BY <1>1, LenProperties, EmptySeq
<1>3. \A k \in DOMAIN ts : ts[k] \in TableOf(O, B)
  BY <1>1
<1> QED BY <1>2, <1>3 DEF TableOf

LEMMA WiderTables ==
  ASSUME NEW O, NEW B, NEW P, NEW C, NEW ts \in Seq(TableOf(O, B))
  PROVE  ts \in Seq(TableOf(O \cup P, B \cup C))
<1>1. TableOf(O, B) \subseteq TableOf(O \cup P, B \cup C)
  BY DEF TableOf
<1> QED BY <1>1, SeqMonotonic

(* The first table, or one more that an element of the last one waits for. *)
LEMMA TableTyped ==
  ASSUME NEW of \in TableKind, NEW n \in U2Value
  PROVE  Table(of, n) \in TableOf({NoItem}, {Table(of, n).built})
BY DEF Table, TableOf

LEMMA FirstTable ==
  ASSUME NEW of \in TableKind, NEW n \in U2Value
  PROVE  IsTables(<<Table(of, n)>>) /\ Len(<<Table(of, n)>>) = 1
<1> DEFINE S == TableOf({NoItem}, {Table(of, n).built})
<1>1. Table(of, n) \in S
  BY TableTyped
<1> HIDE DEF S
<1>2. <<Table(of, n)>> \in Seq(S) /\ Len(<<Table(of, n)>>) = 1
  BY <1>1
<1>3. 1 .. Len(<<Table(of, n)>>) - 1 = {}
  BY <1>2
<1> QED BY <1>2, <1>3 DEF IsTables, S

(* The last table is replaced by another that still counts its elements.  *)
WithLast(ts, t) == [ts EXCEPT ![Len(ts)] = t]

LEMMA LastReplaced ==
  ASSUME NEW ts, IsTables(ts), ts # <<>>,
         NEW P, NEW C, NEW t \in TableOf(P, C)
  PROVE  /\ \E O, B : WithLast(ts, t) \in Seq(TableOf(O, B))
         /\ Len(WithLast(ts, t)) = Len(ts) /\ WithLast(ts, t)[Len(ts)] = t
         /\ \A k \in 1 .. Len(ts) - 1 : WithLast(ts, t)[k].left > 0
<1> DEFINE us == WithLast(ts, t)
           n == Len(ts)
<1>1. PICK O, B : ts \in Seq(TableOf(O, B))
  BY Zenon DEF IsTables
<1> DEFINE S == TableOf(O \cup P, B \cup C)
<1>2. n \in 1 .. Len(ts) /\ n \in Nat
  BY TablesTyped
<1>3. ts \in Seq(S)
  BY <1>1, WiderTables
<1>4. t \in S
  BY DEF TableOf
<1> HIDE DEF S
<1>5. /\ us = [ts EXCEPT ![n] = t]
      /\ us \in Seq(S) /\ Len(us) = Len(ts)
      /\ \A j \in 1 .. Len(ts) : us[j] = IF j = n THEN t ELSE ts[j]
  BY <1>2, <1>3, <1>4, ExceptSeq DEF WithLast
<1> HIDE DEF us
<1>6. \A k \in 1 .. n - 1 : ts[k].left > 0
  BY Zenon DEF IsTables
<1>7. \A k \in 1 .. n - 1 : us[k].left > 0
  BY <1>2, <1>5, <1>6
<1>8. us[n] = t
  BY <1>2, <1>5
<1> HIDE DEF n
<1>9. n = Len(ts)
  BY DEF n
<1> QED BY <1>5, <1>7, <1>8, <1>9 DEF S, us

(* The table of an element that waits for a table of its own.              *)
Waiting(t, o) == [t EXCEPT !.open = o]

LEMMA Decremented == \A l \in U2Value : l > 0 => l - 1 \in U2Value
<1>1. MaxU2 \in Nat
  BY SMT DEF MaxU2
<1> QED BY <1>1 DEF U2Value

LEMMA CompletedTyped ==
  ASSUME NEW O, NEW B, NEW t \in TableOf(O, B), t.left > 0, NEW e
  PROVE  Completed(t, e) \in TableOf({NoItem}, {Append(t.built, e)})
<1>1. t.left - 1 \in U2Value
  <2>1. t.left \in U2Value
    BY DEF TableOf
  <2> QED BY <2>1, Decremented
<1> DEFINE l == t.left - 1
           b == Append(t.built, e)
<1>2. Completed(t, e) = [t EXCEPT !.left = l, !.built = b, !.open = NoItem]
  BY DEF Completed
<1> HIDE DEF l, b
<1>3. [t EXCEPT !.left = l, !.built = b, !.open = NoItem] \in TableOf({NoItem}, {b})
  BY <1>1 DEF TableOf, l
<1> QED BY <1>2, <1>3 DEF b

LEMMA WaitingTyped ==
  ASSUME NEW O, NEW B, NEW t \in TableOf(O, B), NEW o
  PROVE  Waiting(t, o) \in TableOf({o}, B) /\ Waiting(t, o).left = t.left
BY DEF TableOf, Waiting

(* An element is completed in the last table. *)
LEMMA ElementTyped ==
  ASSUME NEW ts, IsTables(ts), ts # <<>>, ts[Len(ts)].left > 0, NEW e
  PROVE  IsTables(Element(ts, e)) /\ Len(Element(ts, e)) = Len(ts)
<1>1. PICK O, B : ts \in Seq(TableOf(O, B))
  BY Zenon DEF IsTables
<1> DEFINE t == ts[Len(ts)]
<1>2. Len(ts) \in DOMAIN ts /\ t \in TableOf(O, B)
  BY <1>1, TablesTyped
<1>3. Completed(t, e) \in TableOf({NoItem}, {Append(t.built, e)})
  BY <1>2, CompletedTyped
<1>4. Element(ts, e) = WithLast(ts, Completed(t, e))
  BY DEF Element, WithLast
<1> HIDE DEF t
<1>5. /\ \E P, C : Element(ts, e) \in Seq(TableOf(P, C))
      /\ Len(Element(ts, e)) = Len(ts)
      /\ \A k \in 1 .. Len(ts) - 1 : Element(ts, e)[k].left > 0
  <2>1. /\ \E P, C : WithLast(ts, Completed(t, e)) \in Seq(TableOf(P, C))
        /\ Len(WithLast(ts, Completed(t, e))) = Len(ts)
        /\ \A k \in 1 .. Len(ts) - 1 : WithLast(ts, Completed(t, e))[k].left > 0
    BY <1>3, LastReplaced, Zenon
  <2> QED BY <1>4, <2>1, Zenon
<1> QED BY <1>5, Zenon DEF IsTables

(* A table is added for an element of the last one. *)
LEMMA NestTyped ==
  ASSUME IsTables(tables), tables # <<>>, Top.left > 0,
         NEW item, NEW of \in TableKind, NEW n \in U2Value
  PROVE  IsTables(Nest(item, of, n)) /\ Len(Nest(item, of, n)) = Len(tables) + 1
<1>1. PICK O, B : tables \in Seq(TableOf(O, B))
  BY Zenon DEF IsTables
<1> DEFINE m  == Len(tables)
           t  == tables[m]
           us == WithLast(tables, Waiting(t, item))
<1>2. m \in DOMAIN tables /\ t \in TableOf(O, B) /\ t.left > 0 /\ m \in Nat
  BY <1>1, TablesTyped DEF Top
<1>3. Waiting(t, item) \in TableOf({item}, B) /\ Waiting(t, item).left = t.left
  BY <1>2, WaitingTyped
<1>4. Nest(item, of, n) = Append(us, Table(of, n))
  BY Zenon DEF Nest, Waiting, WithLast
<1> HIDE DEF us
<1>5. /\ \E P, C : us \in Seq(TableOf(P, C))
      /\ Len(us) = m /\ us[m].left > 0
      /\ \A k \in 1 .. m - 1 : us[k].left > 0
  <2> HIDE DEF t
  <2>1. /\ \E P, C : us \in Seq(TableOf(P, C))
        /\ Len(us) = Len(tables) /\ us[Len(tables)] = Waiting(t, item)
        /\ \A k \in 1 .. Len(tables) - 1 : us[k].left > 0
    BY <1>3, LastReplaced, Zenon DEF us
  <2>2. us[m].left > 0
    BY <1>2, <1>3, <2>1
  <2> QED BY <2>1, <2>2, Zenon
<1>6. PICK P, C : us \in Seq(TableOf(P, C))
  BY <1>5, Zenon
<1> DEFINE S == TableOf(P \cup {NoItem}, C \cup {Table(of, n).built})
<1>7. us \in Seq(S)
  BY <1>6, WiderTables
<1>8. Table(of, n) \in S
  BY DEF Table, TableOf
<1> HIDE DEF S, t, m
<1>9. /\ Append(us, Table(of, n)) \in Seq(S)
      /\ Len(Append(us, Table(of, n))) = m + 1
      /\ \A k \in 1 .. m : Append(us, Table(of, n))[k] = us[k]
  BY <1>2, <1>5, <1>7, <1>8
<1>10. \A k \in 1 .. m : us[k].left > 0
  BY <1>2, <1>5
<1>11. (m + 1) - 1 = m
  BY <1>2
<1> QED BY <1>4, <1>9, <1>10, <1>11, Zenon DEF IsTables, S, m

(* The last table is dropped; the one that waited for it still counts. *)
LEMMA PopTyped ==
  ASSUME IsTables(tables), Len(tables) > 1
  PROVE  IsTables(Pop) /\ Len(Pop) = Len(tables) - 1 /\ Pop # <<>> /\ Pop[Len(Pop)].left > 0
<1>1. PICK O, B : tables \in Seq(TableOf(O, B))
  BY Zenon DEF IsTables
<1> DEFINE S == TableOf(O, B)
<1>2. Len(tables) \in Nat /\ DOMAIN tables = 1 .. Len(tables)
  BY TablesTyped
<1> HIDE DEF S
<1>3. \A k \in 1 .. Len(tables) - 1 : tables[k] \in S
  BY <1>1, <1>2 DEF S
<1>4. /\ Pop \in Seq(S) /\ Len(Pop) = Len(tables) - 1
      /\ \A k \in 1 .. Len(tables) - 1 : Pop[k] = tables[k]
  BY <1>2, <1>3, SubSeqProperties DEF Pop
<1>5. \A k \in 1 .. Len(tables) - 1 : Pop[k].left > 0
  BY <1>4 DEF IsTables
<1>6. Len(Pop) \in 1 .. Len(tables) - 1 /\ Pop # <<>> /\ \A k \in 1 .. Len(Pop) - 1 : k \in 1 .. Len(tables) - 1
  BY <1>2, <1>4
<1> QED BY <1>4, <1>5, <1>6 DEF IsTables, S

-----------------------------------------------------------------------------
(* Attributes. *)

(* The fixed part of an attribute within the bounds: 6 bytes, and for the  *)
(* kinds with tables at least 8.                                           *)
LEMMA AttributeSizeTyped ==
  ASSUME data \in Seq(Byte), pos \in Nat, Attribute({"Code", "BootstrapMethods"}),
         checkBounds(AttributeSize)
  PROVE  /\ AttributeSize \in Nat /\ AttributeSize >= 8
         /\ U2(AttributeSize - 2) \in U2Value
<1>1. checkBounds(6) /\ IsUtf8(U2(0)) /\ Kind \in {"Code", "BootstrapMethods"}
  BY DEF Attribute
<1>2. AttributeSize \in Nat /\ AttributeSize >= 8
  <2>1. CASE Kind = "BootstrapMethods"
    BY <1>1, <2>1 DEF AttributeSize
  <2>2. CASE Kind = "Code"
    <3>1. AttributeSize = CodeSize
      BY <1>1, <2>2 DEF AttributeSize
    <3>2. CASE ~checkBounds(14)
      BY <3>1, <3>2 DEF CodeSize
    <3>3. CASE checkBounds(14)
      <4>1. 10 \in Nat /\ checkBounds(10 + 4)
        BY <3>3
      <4>2. CodeEnd \in Nat /\ CodeEnd >= 14
        BY <4>1, U4Typed DEF CodeEnd
      <4>3. CASE ~checkBounds(CodeEnd + 2)
        BY <3>1, <3>3, <4>2, <4>3 DEF CodeSize
      <4>4. CASE checkBounds(CodeEnd + 2)
        <5>1. U2(CodeEnd) \in Nat
          BY <4>2, <4>4, U2Typed
        <5>2. CodeSize = CodeEnd + 4 + 8 * U2(CodeEnd)
          BY <3>3, <4>4 DEF CodeSize
        <5> QED BY <3>1, <4>2, <5>1, <5>2
      <4> QED BY <4>3, <4>4
    <3> QED BY <3>2, <3>3
  <2> QED BY <1>1, <2>1, <2>2
<1>3. AttributeSize - 2 \in Nat /\ checkBounds((AttributeSize - 2) + 2)
  BY <1>2 DEF checkBounds
<1> QED BY <1>2, <1>3, U2Typed

-----------------------------------------------------------------------------
(* The invariant. *)

LEMMA InitInv == Init => Inv
<1> SUFFICES ASSUME NEW d \in Inputs, Start(d)
             PROVE  Inv
  BY DEF Init
<1>1. d \in Seq(Byte) /\ Len(d) \in Nat
  BY InputsAssumption
<1>2. TypeOK
  BY <1>1, U2RangeAssumption, SMT DEF Start, TypeOK, Section
<1>3. IsTables(<<>>)
  BY DEF IsTables
<1> QED BY <1>1, <1>2, <1>3 DEF Start, Inv, NestingIsPaid

StatusType == {"parsing", "returned", "thrown"}

(* What a step has to establish. *)
LEMMA Assembled ==
  ASSUME Inv, data' = data, pos' \in Nat, pos' <= Len(data), at' \in Section,
         i' \in 0 .. U2Range - 1, \A n \in DOMAIN pool' : pool'[n] \in Constant,
         status' \in StatusType, IsTables(tables'), 8 * Len(tables') <= pos',
         at' # "header" => pos' >= 10, at' \notin Tables => tables' = <<>>
  PROVE  Inv'
<1>1. data \in Seq(Byte) /\ Len(data) \in Nat
  <2>1. data \in Seq(Byte)
    BY Zenon DEF Inv, TypeOK
  <2> QED BY <2>1
<1>2. data' \in Seq(Byte) /\ pos' \in 0 .. Len(data')
  BY <1>1
<1>3. \A k \in DOMAIN tables' : tables'[k].left \in U2Value
  BY TablesTyped, Zenon
<1>4. TypeOK'
  BY <1>2, <1>3, Zenon DEF TypeOK, StatusType
<1>5. NestingIsPaid'
  BY DEF NestingIsPaid
<1> QED BY <1>4, <1>5, Zenon DEF Inv, IsTables

(* What holds before it. *)
LEMMA InvMeans ==
  ASSUME Inv
  PROVE  /\ data \in Seq(Byte) /\ Len(data) \in Nat /\ pos \in Nat /\ pos <= Len(data)
         /\ at \in Section /\ i \in 0 .. U2Range - 1 /\ status \in StatusType
         /\ \A n \in DOMAIN pool : pool[n] \in Constant
         /\ IsTables(tables) /\ Len(tables) \in Nat /\ 8 * Len(tables) <= pos
         /\ at # "header" => pos >= 10
         /\ at \notin Tables => tables = <<>>
<1>1. data \in Seq(Byte) /\ Len(data) \in Nat
  <2>1. data \in Seq(Byte)
    BY Zenon DEF Inv, TypeOK
  <2> QED BY <2>1
<1>2. pos \in Nat /\ pos <= Len(data)
  <2>1. pos \in 0 .. Len(data)
    BY Zenon DEF Inv, TypeOK
  <2> QED BY <1>1, <2>1
<1>3. IsTables(tables) /\ 8 * Len(tables) <= pos
  BY Zenon DEF Inv, NestingIsPaid
<1>4. Len(tables) \in Nat
  BY <1>3, TablesTyped
<1>5. /\ at \in Section /\ i \in 0 .. U2Range - 1 /\ status \in StatusType
      /\ \A n \in DOMAIN pool : pool[n] \in Constant
  BY Zenon DEF Inv, TypeOK, StatusType
<1>6. (at # "header" => pos >= 10) /\ (at \notin Tables => tables = <<>>)
  BY Zenon DEF Inv
<1> QED BY <1>1, <1>2, <1>3, <1>4, <1>5, <1>6, Zenon

(* The steps that only throw, or leave the parser where it is. *)
LEMMA InvKept ==
  ASSUME Inv, UNCHANGED <<data, pos, at, i, pool, tables>>, status' \in StatusType
  PROVE  Inv'
<1>1. IsTables(tables')
  BY InvMeans
<1> QED BY <1>1, InvMeans, Assembled

(* The steps that read n bytes and open or fill tables. *)
LEMMA InvRead ==
  ASSUME Inv, UNCHANGED <<data, at, i, pool, status>>, at # "header",
         NEW n \in Nat, Take(n), IsTables(tables'), 8 * Len(tables') <= pos + n,
         at \notin Tables => tables' = <<>>
  PROVE  Inv'
<1>1. pos' = pos + n /\ pos' \in Nat /\ pos' <= Len(data) /\ pos' >= pos
  BY InvMeans DEF Take, checkBounds
<1>2. pos' >= 10
  BY <1>1, InvMeans
<1> QED BY <1>1, <1>2, InvMeans, Assembled

-----------------------------------------------------------------------------
(* The steps, in the order of parse. *)

LEMMA Throws == ASSUME Inv, Throw PROVE Inv'
BY InvKept DEF Throw, StatusType

LEMMA HeaderStep == ASSUME Inv, ParseHeader PROVE Inv'
<1>1. /\ Take(10) /\ at = "header" /\ at' = "constants"
      /\ pool' = [k \in 0 .. U2(8) - 1 |-> NullEntry]
      /\ UNCHANGED <<data, i, tables, status>>
  BY Zenon DEF ParseHeader
<1>2. pos' = pos + 10 /\ pos' <= Len(data) /\ pos' \in Nat
  BY <1>1, InvMeans DEF Take, checkBounds
<1>3. NullEntry \in Constant
  BY DEF NullEntry, Constant
<1>4. \A n \in DOMAIN pool' : pool'[n] \in Constant
  BY <1>1, <1>3, Zenon
<1>5. tables = <<>> /\ tables' = <<>> /\ at' \in Section
  BY <1>1, InvMeans DEF Tables, Section
<1>6. IsTables(tables') /\ 8 * Len(tables') <= pos'
  BY <1>1, <1>2, <1>5, InvMeans
<1>7. pos' >= 10
  BY <1>2, InvMeans
<1> QED BY <1>1, <1>2, <1>4, <1>5, <1>6, <1>7, InvMeans, Assembled

LEMMA ConstantStep == ASSUME Inv, CreateConstantInfo PROVE Inv'
<1>1. /\ Take(ConstantSize) /\ at = "constants" /\ U1(0) \in ConstantTag
      /\ pool' = [pool EXCEPT ![i] = readInfo]
      /\ i' = (i + (IF U1(0) \in EightBytes THEN 2 ELSE 1)) % U2Range
      /\ UNCHANGED <<data, at, tables, status>>
  BY Zenon DEF CreateConstantInfo
<1>2. ConstantSize \in Nat /\ checkBounds(ConstantSize)
  BY <1>1, InvMeans, ConstantSizeTyped DEF Take
<1>3. pos' = pos + ConstantSize /\ pos' <= Len(data) /\ pos' \in Nat /\ pos' >= pos
  BY <1>1, <1>2, InvMeans DEF Take, checkBounds
<1>4. checkBounds(1)
  <2>1. CASE ~checkBounds(1)
    <3>1. ConstantSize = 1
      BY <2>1 DEF ConstantSize
    <3> QED BY <1>2, <3>1
  <2> QED BY <2>1
<1>5. readInfo \in Constant
  BY <1>1, <1>2, <1>4, InvMeans, ConstantTyped
<1>6. \A n \in DOMAIN pool' : pool'[n] \in Constant
  <2>1. \A n \in DOMAIN pool : pool[n] \in Constant
    BY InvMeans
  <2> QED BY <1>1, <1>5, <2>1
<1>7. i' \in 0 .. U2Range - 1
  <2>1. i \in Nat /\ U2Range \in Nat /\ U2Range > 0
    BY InvMeans, U2RangeAssumption, SMT
  <2>2. \A k \in Nat : k % U2Range \in 0 .. U2Range - 1
    BY <2>1
  <2>3. i + (IF U1(0) \in EightBytes THEN 2 ELSE 1) \in Nat
    BY <2>1
  <2> QED BY <1>1, <2>2, <2>3
<1>8. IsTables(tables') /\ 8 * Len(tables') <= pos' /\ pos' >= 10
  BY <1>1, <1>3, InvMeans
<1> QED BY <1>1, <1>3, <1>6, <1>7, <1>8, InvMeans, Assembled

LEMMA ClassIndicesStep == ASSUME Inv, ParseClassIndices PROVE Inv'
<1>1. Take(8) /\ at = "constants" /\ at' = "fields" /\ UNCHANGED <<data, i, pool, tables, status>>
  BY Zenon DEF ParseClassIndices
<1>2. pos' = pos + 8 /\ pos' <= Len(data) /\ pos' \in Nat /\ pos' >= pos
  BY <1>1, InvMeans DEF Take, checkBounds
<1>3. at' \in Section /\ at' \in Tables
  BY <1>1 DEF Section, Tables
<1>4. IsTables(tables') /\ 8 * Len(tables') <= pos' /\ pos' >= 10
  BY <1>1, <1>2, InvMeans
<1> QED BY <1>1, <1>2, <1>3, <1>4, InvMeans, Assembled

LEMMA TableStep == ASSUME Inv, ParseTable PROVE Inv'
<1>1. /\ Take(2) /\ at \in Tables /\ tables' = <<Table(at, U2(0))>>
      /\ UNCHANGED <<data, at, i, pool, status>>
  BY Zenon DEF ParseTable
<1>2. U2(0) \in U2Value
  BY <1>1, InvMeans, U2Typed DEF Take
<1>3. at \in TableKind /\ at # "header"
  BY <1>1 DEF TableKind, Tables
<1>4. IsTables(tables') /\ Len(tables') = 1
  BY <1>1, <1>2, <1>3, FirstTable
<1>5. 8 * Len(tables') <= pos + 2
  BY <1>3, <1>4, InvMeans
<1> QED BY <1>1, <1>3, <1>4, <1>5, InvRead

LEMMA EndTableStep == ASSUME Inv, EndClassTable PROVE Inv'
<1>1. /\ tables # <<>> /\ tables' = <<>> /\ at' = Following[at]
      /\ UNCHANGED <<data, pos, i, pool, status>>
  BY Zenon DEF EndClassTable, Filled
<1>2. at \in Tables
  BY <1>1, InvMeans
<1>3. at' \in Section /\ at # "header"
  BY <1>1, <1>2 DEF Following, Tables, Section
<1>4. IsTables(tables') /\ 8 * Len(tables') <= pos'
  BY <1>1, InvMeans DEF IsTables
<1> QED BY <1>1, <1>3, <1>4, InvMeans, Assembled

LEMMA MemberStep == ASSUME Inv, CreateMemberInfo PROVE Inv'
<1>1. PICK item : tables' = Nest(item, "attributes", U2(6))
  BY Zenon DEF CreateMemberInfo
<1>2. /\ Take(8) /\ tables # <<>> /\ Top.left > 0
      /\ UNCHANGED <<data, at, i, pool, status>>
  BY Zenon DEF CreateMemberInfo, Filling
<1>3. U2(6) \in U2Value
  BY <1>2, InvMeans, U2Typed DEF Take
<1>4. "attributes" \in TableKind
  BY DEF TableKind, Tables
<1>5. IsTables(tables') /\ Len(tables') = Len(tables) + 1
  BY <1>1, <1>2, <1>3, <1>4, InvMeans, NestTyped, Zenon
<1>6. 8 * Len(tables') <= pos + 8 /\ at \in Tables /\ at # "header"
  BY <1>2, <1>5, InvMeans DEF Tables
<1> QED BY <1>2, <1>5, <1>6, InvRead

(* An attribute with a table of its own. *)
LEMMA NestingAttribute ==
  ASSUME Inv, Attribute({"Code", "BootstrapMethods"}), Take(AttributeSize),
         NEW item, NEW of \in TableKind, NEW n \in U2Value,
         tables' = Nest(item, of, n), UNCHANGED <<data, at, i, pool, status>>
  PROVE  Inv'
<1>1. tables # <<>> /\ Top.left > 0
  BY Zenon DEF Attribute, Filling
<1>2. AttributeSize \in Nat /\ AttributeSize >= 8
  BY InvMeans, AttributeSizeTyped DEF Take
<1>3. IsTables(tables') /\ Len(tables') = Len(tables) + 1
  BY <1>1, InvMeans, NestTyped, Zenon
<1>4. 8 * Len(tables') <= pos + AttributeSize /\ at \in Tables /\ at # "header"
  BY <1>1, <1>2, <1>3, InvMeans DEF Tables
<1> QED BY <1>2, <1>3, <1>4, InvRead

LEMMA CodeStep == ASSUME Inv, CreateCodeAttribute PROVE Inv'
<1>1. /\ Attribute({"Code"}) /\ Take(AttributeSize)
      /\ tables' = Nest(CodeAttribute, "attributes", U2(AttributeSize - 2))
      /\ UNCHANGED <<data, at, i, pool, status>>
  BY Zenon DEF CreateCodeAttribute
<1>2. Attribute({"Code", "BootstrapMethods"})
  BY <1>1, Zenon DEF Attribute
<1>3. U2(AttributeSize - 2) \in U2Value
  BY <1>1, <1>2, InvMeans, AttributeSizeTyped DEF Take
<1>4. "attributes" \in TableKind
  BY DEF TableKind, Tables
<1> QED BY <1>1, <1>2, <1>3, <1>4, NestingAttribute, Zenon

LEMMA BootstrapStep == ASSUME Inv, CreateBootstrapMethods PROVE Inv'
<1>1. /\ Attribute({"BootstrapMethods"}) /\ Take(AttributeSize)
      /\ UNCHANGED <<data, at, i, pool, status>>
  BY Zenon DEF CreateBootstrapMethods
<1>2. PICK item : tables' = Nest(item, "bootstrap_methods", U2(6))
  BY Zenon DEF CreateBootstrapMethods
<1>3. Attribute({"Code", "BootstrapMethods"})
  BY <1>1, Zenon DEF Attribute
<1>4. U2(6) \in U2Value
  <2>1. AttributeSize >= 8 /\ AttributeSize \in Nat /\ checkBounds(AttributeSize)
    BY <1>1, <1>3, InvMeans, AttributeSizeTyped DEF Take
  <2>2. checkBounds(6 + 2)
    BY <2>1, InvMeans DEF checkBounds
  <2> QED BY <2>2, InvMeans, U2Typed
<1>5. "bootstrap_methods" \in TableKind
  BY DEF TableKind
<1> QED BY <1>1, <1>2, <1>3, <1>4, <1>5, NestingAttribute, Zenon

(* An element that holds no table; n bytes of it are read. *)
LEMMA FlatElement ==
  ASSUME Inv, tables # <<>>, Top.left > 0, NEW n \in Nat, Take(n), NEW e,
         tables' = Element(tables, e), UNCHANGED <<data, at, i, pool, status>>
  PROVE  Inv'
<1>1. tables[Len(tables)].left > 0
  BY DEF Top
<1>2. IsTables(tables') /\ Len(tables') = Len(tables)
  BY <1>1, InvMeans, ElementTyped, Zenon
<1>3. 8 * Len(tables') <= pos + n /\ at \in Tables /\ at # "header"
  BY <1>2, InvMeans DEF Tables
<1> QED BY <1>2, <1>3, InvRead

LEMMA FlatStep == ASSUME Inv, CreateFlatAttribute PROVE Inv'
<1>1. /\ checkBounds(6) /\ IsUtf8(U2(0)) /\ Kind \in {"ConstantValue", "Exceptions", "Generic"}
      /\ tables # <<>> /\ Top.left > 0 /\ Take(AttributeSize)
      /\ tables' = Element(tables, FlatAttribute) /\ UNCHANGED <<data, at, i, pool, status>>
  BY Zenon DEF CreateFlatAttribute, Attribute, Filling
<1>2. AttributeSize \in Nat
  <2>1. CASE Kind = "ConstantValue"
    BY <1>1, <2>1 DEF AttributeSize
  <2>2. CASE Kind = "Exceptions"
    <3>1. AttributeSize = Counted(8, 2)
      BY <1>1, <2>2 DEF AttributeSize
    <3> QED BY <3>1, InvMeans, CountedTyped
  <2>3. CASE Kind = "Generic"
    <3>1. AttributeSize = 6 + U4(2)
      BY <1>1, <2>3 DEF AttributeSize
    <3>2. 2 \in Nat /\ checkBounds(2 + 4)
      BY <1>1
    <3> QED BY <3>1, <3>2, InvMeans, U4Typed
  <2> QED BY <1>1, <2>1, <2>2, <2>3
<1> QED BY <1>1, <1>2, FlatElement

LEMMA BootstrapMethodStep == ASSUME Inv, ReadBootstrapMethod PROVE Inv'
<1>1. PICK e : tables' = Element(tables, e)
  BY Zenon DEF ReadBootstrapMethod
<1>2. /\ tables # <<>> /\ Top.left > 0 /\ Take(Counted(4, 2))
      /\ UNCHANGED <<data, at, i, pool, status>>
  BY Zenon DEF ReadBootstrapMethod, Filling
<1>3. Counted(4, 2) \in Nat
  <2>1. data \in Seq(Byte) /\ pos \in Nat /\ 4 \in Nat /\ 2 \in Nat /\ 4 >= 2
    BY InvMeans
  <2> QED BY <2>1, CountedTyped, Zenon
<1> QED BY <1>1, <1>2, <1>3, FlatElement

LEMMA EndNestedStep == ASSUME Inv, EndNestedTable PROVE Inv'
<1>1. PICK e : tables' = Element(Pop, e)
  BY Zenon DEF EndNestedTable
<1>2. Len(tables) > 1 /\ tables # <<>> /\ UNCHANGED <<data, pos, at, i, pool, status>>
  BY Zenon DEF EndNestedTable, Filled
<1>3. IsTables(Pop) /\ Len(Pop) = Len(tables) - 1 /\ Pop # <<>> /\ Pop[Len(Pop)].left > 0
  BY <1>2, InvMeans, PopTyped
<1>4. IsTables(tables') /\ Len(tables') = Len(Pop)
  BY <1>1, <1>3, ElementTyped, Zenon
<1>5. 8 * Len(tables') <= pos' /\ at' \in Tables /\ at' # "header"
  BY <1>2, <1>3, <1>4, InvMeans DEF Tables
<1> QED BY <1>2, <1>4, <1>5, InvMeans, Assembled

LEMMA InterfaceStep == ASSUME Inv, ReadInterface PROVE Inv'
<1>1. /\ at = "interfaces" /\ Take(2) /\ UNCHANGED <<data, at, i, pool, tables, status>>
  BY Zenon DEF ReadInterface
<1>2. tables' = <<>> /\ IsTables(tables') /\ 8 * Len(tables') <= pos + 2
  BY <1>1, InvMeans DEF Tables
<1> QED BY <1>1, <1>2, InvRead

LEMMA NextInv == Inv /\ [parse]_vars => Inv'
<1> SUFFICES ASSUME Inv, [parse]_vars PROVE Inv'
  OBVIOUS
<1>1. CASE BadMagic \/ UnknownTag \/ MemberNameNotUtf8 \/ NameNotUtf8 \/ ReadOutOfBounds
  <2>1. Throw
    BY <1>1, Zenon DEF BadMagic, UnknownTag, MemberNameNotUtf8, NameNotUtf8, ReadOutOfBounds
  <2> QED BY <2>1, Throws
<1>2. CASE ReturnClassFile
  <2>1. UNCHANGED <<data, pos, at, i, pool, tables>> /\ status' = "returned"
    BY <1>2, Zenon DEF ReturnClassFile
  <2> QED BY <2>1, InvKept DEF StatusType
<1>3. CASE UNCHANGED vars
  <2>1. UNCHANGED <<data, pos, at, i, pool, tables, status>>
    BY <1>3, Zenon DEF vars
  <2> QED BY <2>1, InvMeans, InvKept
<1>4. CASE ParseHeader \/ CreateConstantInfo \/ ParseClassIndices \/ ParseTable \/ EndClassTable
  BY <1>4, HeaderStep, ConstantStep, ClassIndicesStep, TableStep, EndTableStep, Zenon
<1>5. CASE \/ CreateMemberInfo \/ CreateFlatAttribute \/ CreateCodeAttribute
           \/ CreateBootstrapMethods \/ ReadBootstrapMethod \/ EndNestedTable
  BY <1>5, MemberStep, FlatStep, CodeStep, BootstrapStep, BootstrapMethodStep, EndNestedStep, Zenon
<1>6. CASE ReadInterface
  BY <1>6, InterfaceStep
<1> QED BY <1>1, <1>2, <1>3, <1>4, <1>5, <1>6, Zenon DEF parse

(* Every level of the parser's recursion is paid for by 8 bytes of the     *)
(* file, which it never reads past (parseAttributes, ByteReader).          *)
THEOREM RecursionIsPaid == Spec => []NestingIsPaid
<1>1. Inv => NestingIsPaid
  BY Zenon DEF Inv
<1> QED BY <1>1, InitInv, NextInv, PTL DEF Spec

(* The parser's state keeps its types, and what it puts into the pool are  *)
(* constants, for any bytes (parse and the reads it makes).                *)
THEOREM TypeCorrect == Spec => []TypeOK
<1>1. Inv => TypeOK
  BY Zenon DEF Inv
<1> QED BY <1>1, InitInv, NextInv, PTL DEF Spec

-----------------------------------------------------------------------------
(* The entries a loop that steps over the constants meets.  The parser's   *)
(* own loop may wrap and pass over the pool again, by other steps; what it *)
(* leaves is the same all the while: a constant is followed, where the     *)
(* pool goes on, by a constant or by the one that is to be read next.      *)

Steps(c) == IF c.tag \in EightBytes THEN 2 ELSE 1

Walk ==
  /\ DOMAIN pool \subseteq 0 .. MaxU2 - 1
  /\ at = "header" => i = 1 /\ pool = <<>>
  /\ at \notin {"header", "constants"} => i \notin DOMAIN pool
  /\ 1 \in DOMAIN pool => i = 1 \/ pool[1].tag # 0
  /\ \A n \in DOMAIN pool :
       LET m == n + Steps(pool[n])
       IN  pool[n].tag # 0 /\ m \in DOMAIN pool => m = i \/ pool[m].tag # 0

LEMMA InitWalk == Init => Walk
<1> SUFFICES ASSUME NEW d \in Inputs, Start(d) PROVE Walk
  BY DEF Init
<1>1. DOMAIN pool = {}
  BY DEF Start
<1> QED BY <1>1 DEF Start, Walk

(* The pool and its loop variable stay as they are. *)
LEMMA WalkKept ==
  ASSUME Walk, UNCHANGED <<i, pool>>,
         at' = at \/ (at # "header" /\ at' # "header" /\ i \notin DOMAIN pool)
  PROVE  Walk'
<1>1. CASE at' = at
  BY <1>1 DEF Walk
<1>2. CASE at # "header" /\ at' # "header" /\ i \notin DOMAIN pool
  BY <1>2 DEF Walk
<1> QED BY <1>1, <1>2

(* One more constant, at i. *)
LEMMA WalkGrows ==
  ASSUME U2Range = MaxU2 + 1, Walk, i \in DOMAIN pool, at = "constants", at' = at,
         NEW c, c.tag # 0,
         pool' = [pool EXCEPT ![i] = c], i' = (i + Steps(c)) % U2Range
  PROVE  Walk'
<1>1. DOMAIN pool' = DOMAIN pool /\ \A n \in DOMAIN pool : pool'[n] = IF n = i THEN c ELSE pool[n]
  OBVIOUS
<1>2. MaxU2 \in Nat /\ MaxU2 > 2
  BY SMT DEF MaxU2
<1>3. i \in Nat /\ i < MaxU2 /\ Steps(c) \in 1 .. 2
  BY <1>2 DEF Walk, Steps
<1>4. i + Steps(c) \in DOMAIN pool => i' = i + Steps(c)
  <2> SUFFICES ASSUME i + Steps(c) \in DOMAIN pool PROVE i' = i + Steps(c)
    OBVIOUS
  <2>1. i + Steps(c) \in 0 .. MaxU2 - 1
    BY DEF Walk
  <2>2. \A k \in 0 .. MaxU2 : k % (MaxU2 + 1) = k
    BY <1>2
  <2> QED BY <1>2, <2>1, <2>2
<1>5. ASSUME NEW n \in DOMAIN pool, pool'[n].tag # 0, n + Steps(pool'[n]) \in DOMAIN pool
      PROVE  n + Steps(pool'[n]) = i' \/ pool'[n + Steps(pool'[n])].tag # 0
  <2>1. CASE n = i
    BY <1>1, <1>4, <1>5, <2>1
  <2>2. CASE n # i
    <3>1. pool'[n] = pool[n]
      BY <1>1, <2>2
    <3>2. n + Steps(pool[n]) = i \/ pool[n + Steps(pool[n])].tag # 0
      BY <1>5, <3>1 DEF Walk
    <3> QED BY <1>1, <1>5, <3>1, <3>2
  <2> QED BY <2>1, <2>2
<1>6. 1 \in DOMAIN pool' => pool'[1].tag # 0
  BY <1>1 DEF Walk
<1> QED BY <1>1, <1>5, <1>6 DEF Walk

(* A constant that is read keeps its tag, which is never that of null. *)
LEMMA ReadTag ==
  ASSUME U1(0) \in ConstantTag
  PROVE  readInfo.tag = U1(0) /\ readInfo.tag # 0
<1> USE DEF FourBytes, EightBytes, OneIndex, TwoIndices, Utf8, MethodHandle
<1>1. U1(0) # 0
  BY DEF ConstantTag
<1>2. readInfo.tag = U1(0)
  BY DEF readInfo, Entry, ConstantTag
<1> QED BY <1>1, <1>2

LEMMA HeaderWalk == ASSUME Inv, Walk, ParseHeader PROVE Walk'
<1>1. /\ Take(10) /\ at = "header" /\ at' = "constants" /\ i' = i
      /\ pool' = [k \in 0 .. U2(8) - 1 |-> NullEntry]
  BY Zenon DEF ParseHeader
<1>2. U2(8) \in U2Value
  <2>1. 8 \in Nat /\ checkBounds(8 + 2)
    BY <1>1 DEF Take
  <2> QED BY <2>1, InvMeans, U2Typed
<1>3. MaxU2 \in Nat
  BY SMT DEF MaxU2
<1>4. DOMAIN pool' \subseteq 0 .. MaxU2 - 1
  BY <1>1, <1>2, <1>3 DEF U2Value
<1>5. \A n \in DOMAIN pool' : pool'[n].tag = 0
  BY <1>1 DEF NullEntry
<1>6. i' = 1
  BY <1>1 DEF Walk
<1> QED BY <1>1, <1>4, <1>5, <1>6 DEF Walk

LEMMA NextWalk ==
  ASSUME U2Range = MaxU2 + 1
  PROVE  Inv /\ Walk /\ [parse]_vars => Walk'
<1> SUFFICES ASSUME Inv, Walk, [parse]_vars PROVE Walk'
  OBVIOUS
<1>1. CASE \/ BadMagic \/ UnknownTag \/ MemberNameNotUtf8 \/ NameNotUtf8 \/ ReadOutOfBounds
           \/ ReturnClassFile \/ ParseTable \/ CreateMemberInfo \/ CreateFlatAttribute
           \/ CreateCodeAttribute \/ CreateBootstrapMethods \/ ReadBootstrapMethod
           \/ EndNestedTable \/ ReadInterface \/ UNCHANGED vars
  <2>1. UNCHANGED <<i, pool>> /\ at' = at
    BY <1>1, Zenon DEF BadMagic, UnknownTag, MemberNameNotUtf8, NameNotUtf8, ReadOutOfBounds,
       Throw, ReturnClassFile, ParseTable, CreateMemberInfo, CreateFlatAttribute,
       CreateCodeAttribute, CreateBootstrapMethods, ReadBootstrapMethod, EndNestedTable,
       ReadInterface, vars
  <2> QED BY <2>1, WalkKept
<1>2. CASE ParseHeader
  BY <1>2, HeaderWalk
<1>3. CASE CreateConstantInfo
  <2>1. /\ at = "constants" /\ at' = at /\ i \in DOMAIN pool /\ U1(0) \in ConstantTag
        /\ pool' = [pool EXCEPT ![i] = readInfo]
        /\ i' = (i + (IF U1(0) \in EightBytes THEN 2 ELSE 1)) % U2Range
    BY <1>3, Zenon DEF CreateConstantInfo
  <2>2. readInfo.tag = U1(0) /\ readInfo.tag # 0
    BY <2>1, ReadTag
  <2>3. i' = (i + Steps(readInfo)) % U2Range
    BY <2>1, <2>2, Zenon DEF Steps
  <2> QED BY <2>1, <2>2, <2>3, WalkGrows, Zenon
<1>4. CASE ParseClassIndices
  <2>1. UNCHANGED <<i, pool>> /\ at = "constants" /\ at' = "fields" /\ i \notin DOMAIN pool
    BY <1>4, Zenon DEF ParseClassIndices
  <2> QED BY <2>1, WalkKept
<1>5. CASE EndClassTable
  <2>1. UNCHANGED <<i, pool>> /\ at' = Following[at] /\ tables # <<>>
    BY <1>5, Zenon DEF EndClassTable, Filled
  <2>2. at \in Tables
    BY <2>1, InvMeans
  <2>3. at # "header" /\ at # "constants" /\ at' # "header"
    BY <2>1, <2>2 DEF Tables, Following
  <2>4. i \notin DOMAIN pool
    BY <2>3 DEF Walk
  <2> QED BY <2>1, <2>3, <2>4, WalkKept
<1> QED BY <1>1, <1>2, <1>3, <1>4, <1>5, Zenon DEF parse

-----------------------------------------------------------------------------
(* The preparation of a Klass, from any file that was parsed. *)
USE DEF Phase, Ended

(* What preparing one field does to the layout: the new field starts where *)
(* the fields of its storage ended, and they now end where it ends.        *)
LEMMA LayoutGrows ==
  ASSUME NEW st \in {"static", "instance"}, NEW nm \in Seq(Byte), NEW ds \in Seq(Byte),
         KlassTypeOK, FieldLayout,
         fields' = Append(fields, [storage |-> st, name |-> nm, descriptor |-> ds, slot_index |-> slots[st]]),
         slots' = [slots EXCEPT ![st] = @ + SlotWidth(ds)]
  PROVE  /\ fields' \in Seq(FieldObject)
         /\ slots' \in [static : Nat, instance : Nat]
         /\ FieldLayout'
<1> DEFINE f == [storage |-> st, name |-> nm, descriptor |-> ds, slot_index |-> slots[st]]
           n == Len(fields) + 1
<1>1. SlotWidth(ds) \in {1, 2}
  BY DEF SlotWidth
<1>2. slots[st] \in Nat /\ slots'[st] = slots[st] + SlotWidth(ds)
  BY <1>1 DEF KlassTypeOK
<1>3. \A s \in {"static", "instance"} : s # st => slots'[s] = slots[s]
  BY <1>1 DEF KlassTypeOK
<1>4. slots' \in [static : Nat, instance : Nat]
  <2>1. slots \in [static : Nat, instance : Nat] /\ slots[st] + SlotWidth(ds) \in Nat
    BY <1>1, <1>2 DEF KlassTypeOK
  <2>2. CASE st = "static"
    BY <2>1, <2>2
  <2>3. CASE st = "instance"
    BY <2>1, <2>3
  <2> QED BY <2>2, <2>3
<1>5. f \in FieldObject
  BY <1>2 DEF FieldObject
<1>6. fields \in Seq(FieldObject) /\ fields' \in Seq(FieldObject)
  BY <1>5 DEF KlassTypeOK
<1>7. /\ DOMAIN fields = 1 .. n - 1 /\ DOMAIN fields' = 1 .. n /\ n \in Nat \ {0}
      /\ \A a \in 1 .. n - 1 : fields'[a] = fields[a]
      /\ fields'[n] = f
  BY <1>5, <1>6
<1>8. \A a \in 1 .. n - 1 : /\ fields[a] \in FieldObject
                            /\ fields[a].slot_index + Width(fields[a]) <= slots[fields[a].storage]
  BY <1>6, <1>7 DEF FieldLayout, SlotsFit
<1>9. \A g \in FieldObject : Width(g) \in {1, 2} /\ g.slot_index \in Nat /\ g.storage \in {"static", "instance"}
  BY DEF Width, SlotWidth, FieldObject
<1>10. Width(f) = SlotWidth(ds) /\ f.storage = st /\ f.slot_index = slots[st]
  BY DEF Width
<1> HIDE DEF f, n
<1>11. SlotsDisjoint'
  <2> SUFFICES ASSUME NEW a \in 1 .. n, NEW b \in 1 .. n,
                      fields'[a].storage = fields'[b].storage, a < b
               PROVE  fields'[a].slot_index + Width(fields'[a]) <= fields'[b].slot_index
    BY <1>7 DEF SlotsDisjoint, Width
  <2>1. CASE b = n
    BY <2>1, <1>7, <1>8, <1>10
  <2>2. CASE b # n
    <3>1. a \in DOMAIN fields /\ b \in DOMAIN fields
      BY <2>2, <1>7
    <3>2. fields[a].slot_index + Width(fields[a]) <= fields[b].slot_index
      BY <3>1, <2>2, <1>7 DEF FieldLayout, SlotsDisjoint
    <3> QED BY <3>1, <3>2, <2>2, <1>7
  <2> QED BY <2>1, <2>2
<1>12. SlotsFit'
  <2> SUFFICES ASSUME NEW a \in 1 .. n
               PROVE  fields'[a].slot_index + Width(fields'[a]) <= slots'[fields'[a].storage]
    BY <1>7 DEF SlotsFit, Width
  <2>1. CASE a = n
    BY <2>1, <1>1, <1>2, <1>7, <1>10
  <2>2. CASE a # n
    <3>1. a \in 1 .. n - 1 /\ fields'[a] = fields[a]
      BY <2>2, <1>7
    <3> DEFINE u == fields[a].storage
    <3>0. u \in {"static", "instance"}
      BY <3>1, <1>8, <1>9
    <3>2. slots[u] <= slots'[u] /\ slots[u] \in Nat
      <4> HIDE DEF u
      <4>1. slots[u] \in Nat
        BY <3>0 DEF KlassTypeOK
      <4>2. CASE u = st
        BY <4>1, <4>2, <1>1, <1>2
      <4>3. CASE u # st
        BY <4>1, <4>3, <3>0, <1>3
      <4> QED BY <4>1, <4>2, <4>3
    <3>3. fields[a].slot_index + Width(fields[a]) <= slots[u]
      BY <3>1, <1>8
    <3>4. slots'[u] \in Nat
      BY <3>0, <1>4
    <3>5. fields[a].slot_index + Width(fields[a]) \in Nat
      <4> DEFINE g == fields[a]
      <4>1. g \in FieldObject
        BY <3>1, <1>8
      <4> HIDE DEF g
      <4>2. Width(g) \in {1, 2} /\ g.slot_index \in Nat
        BY <1>9, <4>1
      <4>3. g.slot_index + Width(g) \in Nat
        BY <4>2
      <4> QED BY <4>3 DEF g
    <3> HIDE DEF u
    <3>6. fields[a].slot_index + Width(fields[a]) <= slots'[u]
      BY <3>2, <3>3, <3>4, <3>5
    <3> QED BY <3>1, <3>6 DEF u
  <2> QED BY <2>1, <2>2
<1>13. SlotsUsed'
  <2> SUFFICES ASSUME NEW u \in {"static", "instance"}, NEW s \in 0 .. slots'[u] - 1
               PROVE  \E a \in 1 .. n :
                        /\ fields'[a].storage = u
                        /\ fields'[a].slot_index <= s /\ s < fields'[a].slot_index + Width(fields'[a])
    BY <1>7 DEF SlotsUsed, Width
  <2>1. CASE u = st /\ s >= slots[st]
    <3>1. fields'[n].storage = u /\ fields'[n].slot_index <= s /\ s < fields'[n].slot_index + Width(fields'[n])
      BY <2>1, <1>1, <1>2, <1>7, <1>10
    <3> QED BY <3>1, <1>7
  <2>2. CASE ~(u = st /\ s >= slots[st])
    <3>1. slots[u] \in Nat /\ slots'[u] \in Nat
      BY <1>4 DEF KlassTypeOK
    <3>2. s \in 0 .. slots[u] - 1
      BY <2>2, <3>1, <1>1, <1>2, <1>3
    <3>3. PICK a \in DOMAIN fields :
             /\ fields[a].storage = u
             /\ fields[a].slot_index <= s /\ s < fields[a].slot_index + Width(fields[a])
      BY <3>2 DEF FieldLayout, SlotsUsed
    <3>4. a \in 1 .. n /\ fields'[a] = fields[a]
      BY <1>7
    <3> QED BY <3>3, <3>4
  <2> QED BY <2>1, <2>2
<1> QED BY <1>4, <1>6, <1>11, <1>12, <1>13 DEF FieldLayout

KlassInv == Inv /\ KlassTypeOK /\ FieldLayout

LEMMA KlassInitInv == Init /\ Unprepared => KlassInv
<1> SUFFICES ASSUME Init, Unprepared PROVE KlassInv
  OBVIOUS
<1>1. KlassTypeOK
  BY DEF Unprepared, KlassTypeOK
<1>2. FieldLayout
  BY DEF Unprepared, FieldLayout, SlotsDisjoint, SlotsFit, SlotsUsed
<1> QED BY <1>1, <1>2, InitInv, Zenon DEF KlassInv

(* The steps that leave fields and counts alone. *)
LEMMA LayoutKept ==
  ASSUME KlassTypeOK, FieldLayout, UNCHANGED <<fields, slots>>,
         stage' \in Phase \cup Ended, x' \in Nat
  PROVE  KlassTypeOK' /\ FieldLayout'
<1>1. KlassTypeOK'
  BY DEF KlassTypeOK
<1>2. FieldLayout'
  BY DEF FieldLayout, SlotsDisjoint, SlotsFit, SlotsUsed, Width
<1> QED BY <1>1, <1>2

(* What a field is called is a string of bytes: its constants are Utf8.    *)
LEMMA NamesTyped ==
  ASSUME Inv, NEW n, IsUtf8(n)
  PROVE  Utf8At(n) \in Seq(Byte)
<1>1. pool[n] \in Constant
  BY InvMeans DEF IsUtf8
<1> QED BY <1>1 DEF Utf8At, Constant

LEMMA PrepareKeeps ==
  ASSUME Inv, KlassTypeOK, FieldLayout, prepare
  PROVE  KlassTypeOK' /\ FieldLayout'
<1>0. stage \in Phase \cup Ended /\ x \in Nat
  BY DEF KlassTypeOK
<1>1. CASE Construct
  BY <1>0, <1>1, LayoutKept DEF Construct
<1>2. CASE NoClassName \/ StringThrows \/ WideConstantAtEnd \/ MethodThrows \/ FieldThrows
  BY <1>0, <1>2, LayoutKept DEF NoClassName, StringThrows, WideConstantAtEnd, MethodThrows, FieldThrows, Stop
<1>3. CASE PrepareConstant \/ PrepareWideConstant
  BY <1>0, <1>3, LayoutKept DEF PrepareConstant, PrepareWideConstant
<1>4. CASE EndPool \/ EndMethods \/ EndFields
  BY <1>0, <1>4, LayoutKept DEF EndPool, EndMethods, EndFields
<1>5. CASE PrepareMethod \/ PrepareMethodWithoutCode
  BY <1>0, <1>5, LayoutKept DEF PrepareMethod, PrepareMethodWithoutCode
<1>6. CASE PrepareField
  <2> DEFINE f  == file.fields[x]
             st == Storage(f.access_flags)
             nm == Utf8At(f.name_index)
             ds == Utf8At(f.descriptor_index)
  <2>1. st \in {"static", "instance"}
    BY DEF Storage
  <2>2. nm \in Seq(Byte) /\ ds \in Seq(Byte)
    BY <1>6, NamesTyped DEF PrepareField, Named
  <2>3. /\ fields' = Append(fields, [storage |-> st, name |-> nm, descriptor |-> ds, slot_index |-> slots[st]])
        /\ slots' = [slots EXCEPT ![st] = @ + SlotWidth(ds)]
    BY <1>6 DEF PrepareField
  <2>4. UNCHANGED stage /\ x' \in Nat
    BY <1>0, <1>6 DEF PrepareField
  <2> HIDE DEF st, nm, ds
  <2>5. /\ fields' \in Seq(FieldObject)
        /\ slots' \in [static : Nat, instance : Nat]
        /\ FieldLayout'
    BY <2>1, <2>2, <2>3, LayoutGrows
  <2>6. KlassTypeOK'
    BY <1>0, <2>4, <2>5 DEF KlassTypeOK
  <2> QED BY <2>5, <2>6
<1> QED BY <1>1, <1>2, <1>3, <1>4, <1>5, <1>6, Zenon DEF prepare

(* No step of the preparation touches the parser or the pool. *)
LEMMA PrepareReadsPool ==
  ASSUME prepareClass
  PROVE  UNCHANGED <<data, pos, at, i, pool, tables, status>>
BY Zenon DEF prepareClass, cursorVars, prepare, Construct, NoClassName, PrepareConstant,
   PrepareWideConstant, StringThrows, WideConstantAtEnd, EndPool, PrepareMethod,
   PrepareMethodWithoutCode, MethodThrows, EndMethods, PrepareField, FieldThrows, EndFields, Stop

LEMMA KlassNextInv == KlassInv /\ [define]_klassVars => KlassInv'
<1> SUFFICES ASSUME KlassInv, [define]_klassVars PROVE KlassInv'
  OBVIOUS
<1>0. Inv /\ KlassTypeOK /\ FieldLayout
  BY Zenon DEF KlassInv
<1>1. CASE parseClass \/ UNCHANGED klassVars
  <2>1. [parse]_vars /\ UNCHANGED prepVars
    BY <1>1, Zenon DEF parseClass, klassVars
  <2>2. UNCHANGED <<fields, slots, stage, x>>
    BY <2>1, Zenon DEF prepVars
  <2>3. stage' \in Phase \cup Ended /\ x' \in Nat
    BY <1>0, <2>2 DEF KlassTypeOK
  <2>4. KlassTypeOK' /\ FieldLayout'
    BY <1>0, <2>2, <2>3, LayoutKept
  <2> QED BY <1>0, <2>1, <2>4, NextInv, Zenon DEF KlassInv
<1>2. CASE prepareClass
  <2>1. Inv'
    BY <1>0, <1>2, PrepareReadsPool, InvMeans, InvKept
  <2>2. KlassTypeOK' /\ FieldLayout'
    BY <1>0, <1>2, PrepareKeeps, Zenon DEF prepareClass
  <2> QED BY <2>1, <2>2, Zenon DEF KlassInv
<1> QED BY <1>1, <1>2, Zenon DEF define

(* Fields that share a storage never overlap, every slot counted belongs   *)
(* to a field, and the counts hold all fields (prepareFieldsAndStatics).   *)
THEOREM FieldsAreLaidOut == KlassSpec => []FieldLayout
<1>1. KlassInv => FieldLayout
  BY Zenon DEF KlassInv
<1> QED BY <1>1, KlassInitInv, KlassNextInv, PTL DEF KlassSpec

(* The state of a preparation keeps its types, whatever the file holds.    *)
THEOREM KlassTypeCorrect == KlassSpec => []KlassTypeOK
<1>1. KlassInv => KlassTypeOK
  BY Zenon DEF KlassInv
<1> QED BY <1>1, KlassInitInv, KlassNextInv, PTL DEF KlassSpec

-----------------------------------------------------------------------------
(* The two loops over the constant pool. *)

(* The pool is prepared only once it has been read to its end. *)
WholePool ==
  /\ status = "returned" => at = "interfaces"
  /\ stage # "construct" => status = "returned"

PoolInv == KlassInv /\ Walk /\ WholePool /\ NoNullConstant

LEMMA PoolInitInv == Init /\ Unprepared => PoolInv
<1> SUFFICES ASSUME Init, Unprepared PROVE PoolInv
  OBVIOUS
<1>1. status = "parsing" /\ stage = "construct"
  BY DEF Init, Start, Unprepared
<1>2. WholePool /\ NoNullConstant
  BY <1>1 DEF WholePool, NoNullConstant
<1> QED BY <1>2, KlassInitInv, InitWalk, Zenon DEF PoolInv

LEMMA ParseStatus ==
  ASSUME parse
  PROVE  /\ status = "parsing"
         /\ status' = "returned" => at' = "interfaces"
<1>1. status = "parsing"
  BY Zenon DEF parse, Parsing, Filling, Filled, Attribute, ParseHeader, BadMagic, CreateConstantInfo,
     UnknownTag, ParseClassIndices, ParseTable, EndClassTable, CreateMemberInfo, MemberNameNotUtf8,
     CreateFlatAttribute, CreateCodeAttribute, NameNotUtf8, CreateBootstrapMethods,
     ReadBootstrapMethod, EndNestedTable, ReadInterface, ReturnClassFile, ReadOutOfBounds
<1>2. CASE ReturnClassFile
  <2>1. at = "interfaces" /\ at' = at
    BY <1>2, Zenon DEF ReturnClassFile
  <2> QED BY <1>1, <2>1
<1>3. CASE \/ BadMagic \/ UnknownTag \/ MemberNameNotUtf8 \/ NameNotUtf8 \/ ReadOutOfBounds
  <2>1. status' = "thrown"
    BY <1>3, Zenon DEF BadMagic, UnknownTag, MemberNameNotUtf8, NameNotUtf8, ReadOutOfBounds, Throw
  <2> QED BY <1>1, <2>1
<1>4. CASE \/ ParseHeader \/ CreateConstantInfo \/ ParseClassIndices \/ ParseTable
           \/ EndClassTable \/ CreateMemberInfo \/ CreateFlatAttribute \/ CreateCodeAttribute
           \/ CreateBootstrapMethods \/ ReadBootstrapMethod \/ EndNestedTable \/ ReadInterface
  <2>1. status' = status
    BY <1>4, Zenon DEF ParseHeader, CreateConstantInfo, ParseClassIndices, ParseTable,
       EndClassTable, CreateMemberInfo, CreateFlatAttribute, CreateCodeAttribute,
       CreateBootstrapMethods, ReadBootstrapMethod, EndNestedTable, ReadInterface
  <2> QED BY <1>1, <2>1
<1> QED BY <1>1, <1>2, <1>3, <1>4, Zenon DEF parse

(* A step of the preparation comes to a constant only by stepping over     *)
(* another, or to the first.                                               *)
LEMMA PrepareWalks ==
  ASSUME Walk, WholePool, NoNullConstant, prepareClass
  PROVE  NoNullConstant'
<1>1. UNCHANGED <<at, i, pool, status>> /\ status = "returned"
  BY PrepareReadsPool, Zenon DEF prepareClass
<1>2. i \notin DOMAIN pool
  BY <1>1 DEF WholePool, Walk
<1>3. CASE Construct
  BY <1>1, <1>2, <1>3 DEF Construct, NoNullConstant, Walk
<1>4. CASE PrepareConstant
  <2>1. /\ stage = "pool" /\ x \in DOMAIN pool /\ pool[x].tag \notin EightBytes
        /\ x' = x + 1
    BY <1>4 DEF PrepareConstant, AtConstant
  <2>2. Steps(pool[x]) = 1 /\ pool[x].tag # 0
    BY <2>1 DEF Steps, NoNullConstant
  <2> QED BY <1>1, <1>2, <2>1, <2>2 DEF Walk, NoNullConstant
<1>5. CASE PrepareWideConstant
  <2>1. /\ stage = "pool" /\ x \in DOMAIN pool /\ pool[x].tag \in EightBytes
        /\ x' = x + 2
    BY <1>5 DEF PrepareWideConstant, AtConstant
  <2>2. Steps(pool[x]) = 2 /\ pool[x].tag # 0
    BY <2>1 DEF Steps, NoNullConstant
  <2> QED BY <1>1, <1>2, <2>1, <2>2 DEF Walk, NoNullConstant
<1>6. CASE \/ NoClassName \/ StringThrows \/ WideConstantAtEnd \/ MethodThrows \/ FieldThrows
           \/ EndPool \/ EndMethods \/ EndFields
           \/ PrepareMethod \/ PrepareMethodWithoutCode \/ PrepareField
  <2>1. stage' # "pool"
    BY <1>6 DEF NoClassName, StringThrows, WideConstantAtEnd, MethodThrows, FieldThrows, Stop,
       EndPool, EndMethods, EndFields, PrepareMethod, PrepareMethodWithoutCode, PrepareField,
       AtMethod, AtField
  <2> QED BY <2>1 DEF NoNullConstant
<1> QED BY <1>3, <1>4, <1>5, <1>6, Zenon DEF prepareClass, prepare

LEMMA PoolNextInv ==
  ASSUME U2Range = MaxU2 + 1
  PROVE  PoolInv /\ [define]_klassVars => PoolInv'
<1> SUFFICES ASSUME PoolInv, [define]_klassVars PROVE PoolInv'
  OBVIOUS
<1>0. KlassInv /\ Inv /\ Walk /\ WholePool /\ NoNullConstant
  BY Zenon DEF PoolInv, KlassInv
<1>1. KlassInv'
  BY <1>0, KlassNextInv, Zenon
<1>2. CASE parseClass
  <2>1. parse /\ UNCHANGED prepVars
    BY <1>2, Zenon DEF parseClass
  <2>2. Walk'
    BY <1>0, <2>1, NextWalk, Zenon
  <2>3. stage = "construct" /\ stage' = "construct"
    BY <1>0, <2>1, ParseStatus DEF WholePool, prepVars
  <2>4. WholePool' /\ NoNullConstant'
    BY <2>1, <2>3, ParseStatus DEF WholePool, NoNullConstant
  <2> QED BY <1>1, <2>2, <2>4, Zenon DEF PoolInv
<1>3. CASE prepareClass
  <2>1. UNCHANGED <<at, i, pool, status>> /\ status = "returned"
    BY <1>3, PrepareReadsPool, Zenon DEF prepareClass
  <2>2. Walk' /\ WholePool'
    BY <1>0, <2>1, WalkKept DEF WholePool
  <2>3. NoNullConstant'
    BY <1>0, <1>3, PrepareWalks
  <2> QED BY <1>1, <2>2, <2>3, Zenon DEF PoolInv
<1>4. CASE UNCHANGED klassVars
  <2>1. UNCHANGED <<at, i, pool, status, stage, x>>
    BY <1>4, Zenon DEF klassVars, vars, prepVars
  <2>2. Walk' /\ WholePool' /\ NoNullConstant'
    BY <1>0, <2>1, WalkKept DEF WholePool, NoNullConstant
  <2> QED BY <1>1, <2>2, Zenon DEF PoolInv
<1> QED BY <1>2, <1>3, <1>4, Zenon DEF define

(* With the U2 of the code, the loop of prepareRuntimeConstantPool never   *)
(* asks the null pointer of an unused index for its tag, for any bytes     *)
(* that parseConstantPool accepts.                                         *)
THEOREM LoopsAgree ==
  ASSUME U2Range = MaxU2 + 1
  PROVE  KlassSpec => []NoNullConstant
<1>1. PoolInv => NoNullConstant
  BY Zenon DEF PoolInv
<1>2. PoolInv /\ [define]_klassVars => PoolInv'
  BY PoolNextInv
<1> QED BY <1>1, <1>2, PoolInitInv, PTL DEF KlassSpec

-----------------------------------------------------------------------------
(* A set of numbers has a least one: the form in which induction is used   *)
(* from here on.                                                           *)
LEMMA LeastNat ==
  ASSUME NEW T \in SUBSET Nat, T # {}
  PROVE  \E k \in T : \A j \in T : k <= j
<1>1. \E k \in T : \A j \in T : ~(<<j, k>> \in OpToRel(<, Nat))
  BY WFMin, NatLessThanWellFounded
<1>2. PICK k \in T : \A j \in T : ~(<<j, k>> \in OpToRel(<, Nat))
  BY <1>1
<1>3. \A j \in T : ~(j < k)
  BY <1>2 DEF OpToRel
<1> QED BY <1>3

-----------------------------------------------------------------------------
(* Where the elements of a concatenation are. *)

Bits == Seq(Nat)

LEMMA Concatenated ==
  ASSUME NEW S, NEW u \in Seq(S), NEW v \in Seq(S)
  PROVE  /\ u \o v \in Seq(S)
         /\ Len(u \o v) = Len(u) + Len(v)
         /\ \A d \in 1 .. Len(u) : (u \o v)[d] = u[d]
         /\ \A d \in 1 .. Len(v) : (u \o v)[Len(u) + d] = v[d]
OBVIOUS

(* The sequences that end with the first, the second, ... of ss. *)
Joins(ss, f, n) ==
  /\ f \in [1 .. n -> Bits]
  /\ \A k \in 1 .. n : f[k] = IF k = 1 THEN ss[k] ELSE f[k - 1] \o ss[k]

LEMMA JoinsExist ==
  ASSUME NEW ss \in Seq(Bits)
  PROVE  \A n \in 1 .. Len(ss) : \E f : Joins(ss, f, n)
<1> DEFINE T == {n \in 1 .. Len(ss) : ~ \E f : Joins(ss, f, n)}
<1>1. SUFFICES ASSUME T # {} PROVE FALSE
  OBVIOUS
<1>2. PICK n \in T : \A k \in T : n <= k
  <2>1. T \in SUBSET Nat
    OBVIOUS
  <2> HIDE DEF T
  <2> QED BY <1>1, <2>1, LeastNat, Zenon
<1>3. n \in 1 .. Len(ss) /\ ss[n] \in Bits
  BY <1>2
<1>4. CASE n = 1
  <2>1. Joins(ss, [k \in 1 .. 1 |-> ss[1]], 1)
    BY <1>3, <1>4 DEF Joins
  <2> QED BY <2>1, <1>2, <1>4
<1>5. CASE n # 1
  <2>1. n - 1 \in 1 .. Len(ss) /\ n - 1 \notin T
    BY <1>2, <1>3, <1>5
  <2>2. PICK f : Joins(ss, f, n - 1)
    BY <2>1
  <2> DEFINE g == [k \in 1 .. n |-> IF k = n THEN f[n - 1] \o ss[n] ELSE f[k]]
  <2>3. f \in [1 .. n - 1 -> Bits] /\ f[n - 1] \o ss[n] \in Bits
    BY <1>3, <1>5, <2>2 DEF Joins, Bits
  <2>4. g \in [1 .. n -> Bits]
    BY <1>3, <2>3
  <2>5. ASSUME NEW k \in 1 .. n
        PROVE  g[k] = IF k = 1 THEN ss[k] ELSE g[k - 1] \o ss[k]
    <3>1. CASE k = n
      <4>1. n - 1 \in 1 .. n /\ n - 1 # n /\ n \in 1 .. n
        BY <1>3, <1>5
      <4>2. g[n] = f[n - 1] \o ss[n] /\ g[n - 1] = f[n - 1]
        BY <4>1
      <4> HIDE DEF g
      <4> QED BY <1>5, <3>1, <4>2
    <3>2. CASE k # n
      <4>1. k \in 1 .. n - 1 /\ (k # 1 => k - 1 \in 1 .. n - 1)
        BY <1>3, <3>2
      <4>2. f[k] = IF k = 1 THEN ss[k] ELSE f[k - 1] \o ss[k]
        BY <2>2, <4>1 DEF Joins
      <4>3. g[k] = f[k] /\ (k # 1 => g[k - 1] = f[k - 1])
        BY <1>3, <4>1
      <4> QED BY <4>2, <4>3
    <3> QED BY <3>1, <3>2
  <2>6. Joins(ss, g, n)
    BY <2>4, <2>5 DEF Joins
  <2> QED BY <2>6, <1>2
<1> QED BY <1>4, <1>5

(* FlattenSeq puts the elements of ss one after the other. *)
LEMMA Flattened ==
  ASSUME NEW ss \in Seq(Bits), Len(ss) > 0
  PROVE  \E f : Joins(ss, f, Len(ss)) /\ FlattenSeq(ss) = f[Len(ss)]
<1> DEFINE Step(f) == [k \in 1 .. Len(ss) |-> IF k = 1 THEN ss[k] ELSE f[k - 1] \o ss[k]]
           g == CHOOSE f : f = Step(f)
<1>1. FlattenSeq(ss) = g[Len(ss)]
  BY DEF FlattenSeq
<1>2. PICK f : Joins(ss, f, Len(ss))
  BY JoinsExist
<1>3. f = Step(f)
  BY <1>2 DEF Joins
<1>4. g = Step(g)
  BY <1>3
<1>5. ASSUME NEW k \in 1 .. Len(ss) PROVE g[k] = f[k]
  <2> DEFINE T == {n \in 1 .. Len(ss) : g[n] # f[n]}
  <2>1. SUFFICES ASSUME T # {} PROVE FALSE
    OBVIOUS
  <2>2. PICK n \in T : \A j \in T : n <= j
    <3> HIDE DEF g
    <3>1. T \in SUBSET Nat
      OBVIOUS
    <3> HIDE DEF T
    <3> QED BY <2>1, <3>1, LeastNat, Zenon
  <2>3. n \in 1 .. Len(ss) /\ g[n] # f[n]
    BY <2>2
  <2>4. g[n] = Step(g)[n] /\ f[n] = Step(f)[n]
    BY <1>3, <1>4, Zenon
  <2> HIDE DEF g
  <2>5. CASE n = 1
    BY <2>3, <2>4, <2>5
  <2>6. CASE n # 1
    <3>1. n - 1 \in 1 .. Len(ss) /\ n - 1 \notin T
      BY <2>2, <2>3, <2>6
    <3>2. g[n - 1] = f[n - 1]
      BY <3>1
    <3> QED BY <2>3, <2>4, <2>6, <3>2
  <2> QED BY <2>5, <2>6
<1> HIDE DEF g
<1> QED BY <1>1, <1>2, <1>5

(* The elements of ss are in w one after the other, and e[n] is where the  *)
(* n-th ends.                                                              *)
IsEnds(ss, w, e) ==
  /\ w \in Bits
  /\ e \in [0 .. Len(ss) -> Nat]
  /\ e[0] = 0 /\ e[Len(ss)] = Len(w)
  /\ \A n \in 1 .. Len(ss) :
       /\ e[n] = e[n - 1] + Len(ss[n])
       /\ e[n] <= Len(w)
       /\ \A d \in 1 .. Len(ss[n]) : w[e[n - 1] + d] = ss[n][d]
Ends(ss) == CHOOSE e : IsEnds(ss, FlattenSeq(ss), e)

(* The elements of ss follow one another, and nothing comes between. *)
LEMMA EndsOfJoin ==
  ASSUME NEW ss \in Seq(Bits), NEW f, Len(ss) > 0, Joins(ss, f, Len(ss))
  PROVE  LET e == [n \in 0 .. Len(ss) |-> IF n = 0 THEN 0 ELSE Len(f[n])]
         IN  IsEnds(ss, f[Len(ss)], e)
<1> DEFINE L == Len(ss)
           e == [n \in 0 .. L |-> IF n = 0 THEN 0 ELSE Len(f[n])]
<1>1. L \in Nat \ {0} /\ \A n \in 1 .. L : ss[n] \in Bits /\ f[n] \in Bits
  BY DEF Joins
<1>2. ASSUME NEW n \in 1 .. L
      PROVE  (n = 1 => f[n] = ss[n]) /\ (n # 1 => f[n] = f[n - 1] \o ss[n])
  BY <1>1 DEF Joins
<1>0. \A n \in 1 .. L : Len(ss[n]) \in Nat
  BY <1>1 DEF Bits
<1>3. e \in [0 .. L -> Nat] /\ e[0] = 0 /\ \A n \in 1 .. L : e[n] = Len(f[n])
  <2>1. \A n \in 1 .. L : Len(f[n]) \in Nat
    BY <1>1 DEF Bits
  <2> QED BY <1>1, <2>1
<1> HIDE DEF e
<1>4. ASSUME NEW n \in 1 .. L
      PROVE  /\ e[n] = e[n - 1] + Len(ss[n])
             /\ \A d \in 1 .. Len(ss[n]) : f[n][e[n - 1] + d] = ss[n][d]
             /\ n > 1 => \A d \in 1 .. e[n - 1] : f[n][d] = f[n - 1][d]
  <2>0. Len(ss[n]) \in Nat /\ e[n] = Len(f[n]) /\ n \in Nat
    BY <1>0, <1>1, <1>3
  <2>1. CASE n = 1
    <3>1. f[n] = ss[n] /\ e[n - 1] = 0
      BY <1>2, <1>3, <2>1
    <3> QED BY <2>0, <2>1, <3>1
  <2>2. CASE n # 1
    <3>1. n > 1 /\ n - 1 \in 1 .. L
      BY <1>1, <2>2
    <3>2. f[n] = f[n - 1] \o ss[n]
      BY <1>2, <2>2
    <3>3. f[n - 1] \in Seq(Nat) /\ ss[n] \in Seq(Nat) /\ e[n - 1] = Len(f[n - 1])
      BY <1>1, <1>3, <3>1 DEF Bits
    <3> DEFINE u == f[n - 1]
               v == ss[n]
    <3>4. u \in Seq(Nat) /\ v \in Seq(Nat) /\ f[n] = u \o v
      BY <3>2, <3>3
    <3> HIDE DEF u, v
    <3>5. /\ Len(f[n]) = Len(u) + Len(v)
          /\ \A d \in 1 .. Len(u) : f[n][d] = u[d]
          /\ \A d \in 1 .. Len(v) : f[n][Len(u) + d] = v[d]
      BY <3>4, Concatenated
    <3>6. e[n - 1] = Len(u)
      BY <3>3 DEF u
    <3>7. /\ e[n] = e[n - 1] + Len(v)
          /\ \A d \in 1 .. Len(v) : f[n][e[n - 1] + d] = v[d]
          /\ \A d \in 1 .. e[n - 1] : f[n][d] = u[d]
      BY <2>0, <3>5, <3>6
    <3> QED BY <3>7 DEF u, v
  <2> QED BY <2>1, <2>2
<1>5. e[L] = Len(f[L])
  BY <1>1, <1>3
<1>6. ASSUME NEW k \in 1 .. L
      PROVE  \A n \in k .. L : /\ e[k] <= e[n]
                               /\ \A d \in 1 .. Len(ss[k]) : f[n][e[k - 1] + d] = ss[k][d]
  <2> DEFINE P(n) == /\ e[k] <= e[n]
                     /\ \A d \in 1 .. Len(ss[k]) : f[n][e[k - 1] + d] = ss[k][d]
             T == {n \in k .. L : ~P(n)}
  <2>1. SUFFICES ASSUME T # {} PROVE FALSE
    OBVIOUS
  <2>2. PICK n \in T : \A j \in T : n <= j
    <3>1. T \in SUBSET Nat
      BY <1>1
    <3> HIDE DEF T
    <3> QED BY <2>1, <3>1, LeastNat, Zenon
  <2>3. n \in k .. L /\ n \in 1 .. L /\ e[k] \in Nat /\ ~P(n)
    BY <1>1, <1>3, <2>2
  <2>4. CASE n = k
    BY <1>4, <2>3, <2>4
  <2>5. CASE n # k
    <3>1. n - 1 \in k .. L /\ n - 1 \notin T /\ n > 1 /\ n - 1 \in 1 .. L
      BY <1>1, <2>2, <2>3, <2>5
    <3>2. P(n - 1)
      BY <3>1
    <3>3. e[k] = e[k - 1] + Len(ss[k]) /\ e[k - 1] \in Nat /\ Len(ss[k]) \in Nat
      <4>0. k - 1 \in 0 .. L
        BY <1>1
      <4> QED BY <1>0, <1>3, <1>4, <4>0
    <3>4. e[n - 1] \in Nat /\ e[n] \in Nat /\ e[n - 1] <= e[n]
      <4>1. e[n] = e[n - 1] + Len(ss[n])
        BY <1>4, <2>3
      <4>2. e[n - 1] = Len(f[n - 1]) /\ f[n - 1] \in Seq(Nat) /\ Len(ss[n]) \in Nat
        BY <1>0, <1>1, <1>3, <2>3, <3>1 DEF Bits
      <4>3. e[n - 1] \in Nat
        BY <4>2
      <4>4. \A p, q \in Nat : p + q \in Nat /\ p <= p + q
        OBVIOUS
      <4> QED BY <4>1, <4>2, <4>3, <4>4, Zenon
    <3>5. e[k] <= e[n]
      BY <2>3, <3>2, <3>4
    <3>6. ASSUME NEW d \in 1 .. Len(ss[k]) PROVE f[n][e[k - 1] + d] = ss[k][d]
      <4>0. \A p, q, l \in Nat : p <= q /\ p = l + Len(ss[k]) => l + d \in 1 .. q
        BY <3>3
      <4>1. e[k - 1] + d \in 1 .. e[n - 1]
        BY <2>3, <3>2, <3>3, <3>4, <4>0, Zenon
      <4>2. f[n][e[k - 1] + d] = f[n - 1][e[k - 1] + d]
        BY <1>4, <2>3, <3>1, <4>1
      <4> QED BY <3>2, <4>2
    <3> QED BY <2>3, <3>5, <3>6
  <2> QED BY <2>4, <2>5
<1>7. ASSUME NEW k \in 1 .. L
      PROVE  /\ e[k] = e[k - 1] + Len(ss[k])
             /\ e[k] <= Len(f[L])
             /\ \A d \in 1 .. Len(ss[k]) : f[L][e[k - 1] + d] = ss[k][d]
  <2>1. L \in k .. L
    BY <1>1
  <2> QED BY <1>4, <1>5, <1>6, <2>1
<1>8. IsEnds(ss, f[L], e)
  BY <1>1, <1>3, <1>5, <1>7 DEF IsEnds
<1> QED BY <1>8 DEF e

LEMMA EndsExist ==
  ASSUME NEW ss \in Seq(Bits)
  PROVE  IsEnds(ss, FlattenSeq(ss), Ends(ss))
<1>1. \E e : IsEnds(ss, FlattenSeq(ss), e)
  <2>1. CASE Len(ss) = 0
    <3>1. ss = <<>> /\ FlattenSeq(ss) = <<>>
      BY <2>1 DEF FlattenSeq
    <3>2. IsEnds(<<>>, <<>>, [n \in 0 .. 0 |-> 0])
      BY DEF IsEnds, Bits
    <3> QED BY <3>1, <3>2
  <2>2. CASE Len(ss) > 0
    <3>1. PICK f : Joins(ss, f, Len(ss)) /\ FlattenSeq(ss) = f[Len(ss)]
      BY <2>2, Flattened
    <3> QED BY <2>2, <3>1, EndsOfJoin, Zenon
  <2> QED BY <2>1, <2>2
<1> QED BY <1>1 DEF Ends

(* b holds w from position p on. *)
Holds(b, p, w) == p + Len(w) <= Len(b) /\ \A d \in 1 .. Len(w) : b[p + d] = w[d]

LEMMA HoldsBoth ==
  ASSUME NEW b \in Bits, NEW p \in Nat, NEW u \in Bits, NEW v \in Bits, Holds(b, p, u \o v)
  PROVE  Holds(b, p, u) /\ Holds(b, p + Len(u), v)
<1>1. /\ Len(u \o v) = Len(u) + Len(v) /\ Len(u) \in Nat /\ Len(v) \in Nat /\ Len(b) \in Nat
      /\ \A d \in 1 .. Len(u) : (u \o v)[d] = u[d]
      /\ \A d \in 1 .. Len(v) : (u \o v)[Len(u) + d] = v[d]
  BY Concatenated DEF Bits
<1> DEFINE w == u \o v
<1>2. /\ p + (Len(u) + Len(v)) <= Len(b)
      /\ \A d \in 1 .. Len(u) + Len(v) : b[p + d] = w[d]
  BY <1>1 DEF Holds
<1> HIDE DEF w
<1>3. ASSUME NEW d \in 1 .. Len(u) PROVE b[p + d] = u[d]
  BY <1>1, <1>2 DEF w
<1>4. ASSUME NEW d \in 1 .. Len(v) PROVE b[(p + Len(u)) + d] = v[d]
  <2>1. Len(u) + d \in 1 .. Len(u) + Len(v) /\ p + (Len(u) + d) = (p + Len(u)) + d
    BY <1>1
  <2>2. w[Len(u) + d] = v[d]
    BY <1>1 DEF w
  <2>3. b[p + (Len(u) + d)] = v[d]
    BY <1>2, <2>1, <2>2
  <2> QED BY <2>1, <2>3
<1> QED BY <1>1, <1>2, <1>3, <1>4 DEF Holds

LEMMA HoldsAll ==
  ASSUME NEW b \in Bits, NEW p \in Nat, NEW ss \in Seq(Bits), Holds(b, p, FlattenSeq(ss)),
         NEW n \in 1 .. Len(ss)
  PROVE  /\ Holds(b, p + Ends(ss)[n - 1], ss[n])
         /\ Ends(ss)[n] = Ends(ss)[n - 1] + Len(ss[n])
<1> DEFINE e == Ends(ss)
           w == FlattenSeq(ss)
<1>1. IsEnds(ss, w, e)
  BY EndsExist
<1> HIDE DEF e, w
<1>2. /\ ss[n] \in Bits /\ Len(ss[n]) \in Nat /\ e[n] \in Nat /\ e[n - 1] \in Nat
      /\ Len(w) \in Nat /\ Len(b) \in Nat /\ Len(ss) \in Nat
  <2>1. e \in [0 .. Len(ss) -> Nat] /\ w \in Seq(Nat)
    BY <1>1 DEF IsEnds, Bits
  <2>2. n \in 0 .. Len(ss) /\ n - 1 \in 0 .. Len(ss)
    OBVIOUS
  <2>3. ss[n] \in Bits /\ Len(ss[n]) \in Nat
    BY DEF Bits
  <2>4. Len(w) \in Nat /\ Len(b) \in Nat /\ Len(ss) \in Nat
    BY <2>1 DEF Bits
  <2> QED BY <2>1, <2>2, <2>3, <2>4
<1>3. /\ e[n] = e[n - 1] + Len(ss[n])
      /\ e[n] <= Len(w)
      /\ \A d \in 1 .. Len(ss[n]) : w[e[n - 1] + d] = ss[n][d]
  BY <1>1 DEF IsEnds
<1>4. p + Len(w) <= Len(b) /\ \A d \in 1 .. Len(w) : b[p + d] = w[d]
  BY DEF Holds, w
<1>5. ASSUME NEW d \in 1 .. Len(ss[n]) PROVE b[(p + e[n - 1]) + d] = ss[n][d]
  <2>1. e[n - 1] + d \in 1 .. Len(w) /\ p + (e[n - 1] + d) = (p + e[n - 1]) + d
    BY <1>2, <1>3
  <2>2. b[p + (e[n - 1] + d)] = ss[n][d]
    BY <1>3, <1>4, <2>1
  <2> QED BY <2>1, <2>2
<1>6. (p + e[n - 1]) + Len(ss[n]) <= Len(b)
  BY <1>2, <1>3, <1>4
<1> QED BY <1>3, <1>5, <1>6 DEF Holds, e

LEMMA HoldsItself == ASSUME NEW w \in Bits PROVE Holds(w, 0, w)
<1>1. Len(w) \in Nat
  BY DEF Bits
<1> QED BY <1>1 DEF Holds

(* Elements of one size. *)
LEMMA EqualSizes ==
  ASSUME NEW ss \in Seq(Bits), NEW z \in Nat, \A n \in 1 .. Len(ss) : Len(ss[n]) = z
  PROVE  /\ \A n \in 0 .. Len(ss) : Ends(ss)[n] = z * n
         /\ Len(FlattenSeq(ss)) = z * Len(ss)
<1> DEFINE e == Ends(ss)
           L == Len(ss)
           m(k) == z * k
           T == {n \in 0 .. L : e[n] # m(n)}
<1>1. IsEnds(ss, FlattenSeq(ss), e) /\ L \in Nat
  BY EndsExist
<1>2. m(0) = 0 /\ \A k \in Nat \ {0} : m(k) = m(k - 1) + z
  OBVIOUS
<1> HIDE DEF e, m
<1>3. ASSUME T # {} PROVE FALSE
  <2>1. PICK n \in T : \A j \in T : n <= j
    <3>1. T \in SUBSET Nat
      BY <1>1
    <3> HIDE DEF T
    <3> QED BY <1>3, <3>1, LeastNat, Zenon
  <2>2. n # 0
    BY <1>1, <1>2, <2>1 DEF IsEnds
  <2>3. n - 1 \in 0 .. L /\ n - 1 \notin T /\ n \in 1 .. L
    BY <1>1, <2>1, <2>2
  <2>4. e[n] = e[n - 1] + z /\ e[n - 1] = m(n - 1)
    BY <1>1, <2>3 DEF IsEnds
  <2> QED BY <1>2, <2>1, <2>3, <2>4
<1>4. \A n \in 0 .. L : e[n] = m(n)
  BY <1>3
<1>5. Len(FlattenSeq(ss)) = m(L)
  BY <1>1, <1>4 DEF IsEnds
<1> QED BY <1>4, <1>5 DEF e, m

-----------------------------------------------------------------------------
(* Numbers *)

LEMMA HalvesOf == \A n \in Nat : n \div 256 \in Nat /\ n % 256 \in Nat /\ 256 * (n \div 256) + (n % 256) = n
OBVIOUS

LEMMA EncodedU2 ==
  ASSUME NEW n \in Nat
  PROVE  /\ EncodeU2(n) \in Bits /\ Len(EncodeU2(n)) = 2
         /\ 256 * EncodeU2(n)[1] + EncodeU2(n)[2] = n
<1>1. n \div 256 \in Nat /\ n % 256 \in Nat /\ 256 * (n \div 256) + (n % 256) = n
  BY HalvesOf
<1> QED BY <1>1 DEF EncodeU2, Bits

LEMMA EncodedU4 ==
  ASSUME NEW n \in Nat
  PROVE  /\ n \div 65536 \in Nat /\ n % 65536 \in Nat
         /\ 65536 * (n \div 65536) + (n % 65536) = n
         /\ EncodeU4(n) \in Bits /\ Len(EncodeU4(n)) = 4
<1>1. n \div 65536 \in Nat /\ n % 65536 \in Nat /\ 65536 * (n \div 65536) + (n % 65536) = n
  OBVIOUS
<1>2. /\ EncodeU2(n \div 65536) \in Bits /\ Len(EncodeU2(n \div 65536)) = 2
      /\ EncodeU2(n % 65536) \in Bits /\ Len(EncodeU2(n % 65536)) = 2
  BY <1>1, EncodedU2
<1> DEFINE u == EncodeU2(n \div 65536)
           v == EncodeU2(n % 65536)
<1>3. EncodeU4(n) = u \o v
  BY DEF EncodeU4
<1> HIDE DEF u, v
<1>4. u \in Bits /\ v \in Bits /\ Len(u) = 2 /\ Len(v) = 2
  BY <1>2 DEF u, v
<1>5. u \o v \in Bits /\ Len(u \o v) = 4
  <2>1. u \in Seq(Nat) /\ v \in Seq(Nat)
    BY <1>4 DEF Bits
  <2>2. u \o v \in Seq(Nat) /\ Len(u \o v) = Len(u) + Len(v)
    BY <2>1, Concatenated
  <2> QED BY <1>4, <2>2 DEF Bits
<1> QED BY <1>1, <1>3, <1>5

-----------------------------------------------------------------------------
(* Reading what the file holds *)

File == EncodeClass(class)

(* The file is the encoding of a class, or a prefix of it. *)
Source ==
  /\ File \in Bits
  /\ length \in 0 .. Len(File)
  /\ data = SubSeq(File, 1, length)
  /\ pos \in Nat

LEMMA DataIsFile ==
  ASSUME Source
  PROVE  /\ Len(data) \in Nat /\ Len(data) = length /\ length <= Len(File) /\ Len(File) \in Nat
         /\ \A k \in 1 .. Len(data) : data[k] = File[k]
<1> DEFINE b == File
<1>1. b \in Seq(Nat) /\ length \in 0 .. Len(b) /\ data = SubSeq(b, 1, length)
  BY DEF Source, Bits
<1> HIDE DEF b
<1>2. Len(b) \in Nat
  BY <1>1
<1>3. /\ Len(data) = length /\ length \in Nat /\ length <= Len(b)
      /\ \A k \in 1 .. length : data[k] = b[k]
  BY <1>1, <1>2
<1> QED BY <1>2, <1>3 DEF b

LEMMA ReadByte ==
  ASSUME Source, NEW d \in Nat, NEW k \in Nat, NEW w \in Bits,
         Holds(File, pos + d, w), k < Len(w), checkBounds(d + k + 1)
  PROVE  U1(d + k) = w[k + 1]
<1>1. pos \in Nat /\ Len(w) \in Nat
  BY DEF Source, Bits
<1>2. File[(pos + d) + (k + 1)] = w[k + 1]
  BY <1>1 DEF Holds
<1>3. (pos + d) + (k + 1) = pos + (d + k) + 1 /\ pos + (d + k) + 1 \in 1 .. Len(data)
  BY <1>1, DataIsFile DEF checkBounds
<1>4. data[pos + (d + k) + 1] = File[pos + (d + k) + 1]
  BY <1>3, DataIsFile
<1> QED BY <1>2, <1>3, <1>4 DEF U1

LEMMA ReadU2 ==
  ASSUME Source, NEW d \in Nat, NEW n \in Nat, Holds(File, pos + d, EncodeU2(n)), checkBounds(d + 2)
  PROVE  U2(d) = n
<1>0. pos \in Nat /\ Len(data) \in Nat
  BY DataIsFile DEF Source
<1> DEFINE w == EncodeU2(n)
<1>1. w \in Bits /\ Len(w) = 2 /\ 256 * w[1] + w[2] = n /\ Holds(File, pos + d, w)
  BY EncodedU2
<1> HIDE DEF w
<1>2. checkBounds(d + 0 + 1) /\ checkBounds(d + 1 + 1)
  BY <1>0 DEF checkBounds
<1>3. U1(d + 0) = w[0 + 1]
  <2>1. 0 < Len(w) /\ 0 \in Nat
    BY <1>1
  <2> QED BY <1>1, <1>2, <2>1, ReadByte
<1>5. U1(d + 1) = w[1 + 1]
  <2>1. 1 < Len(w) /\ 1 \in Nat
    BY <1>1
  <2> QED BY <1>1, <1>2, <2>1, ReadByte
<1>4. U1(d) = w[1] /\ U1(d + 1) = w[2]
  BY <1>3, <1>5
<1> QED BY <1>1, <1>4 DEF U2

LEMMA ReadU4 ==
  ASSUME Source, NEW d \in Nat, NEW n \in Nat, Holds(File, pos + d, EncodeU4(n)), checkBounds(d + 4)
  PROVE  U4(d) = n
<1>0. pos \in Nat /\ Len(data) \in Nat /\ File \in Bits /\ pos + d \in Nat
  BY DataIsFile DEF Source
<1> DEFINE hi == n \div 65536
           lo == n % 65536
<1>1. hi \in Nat /\ lo \in Nat /\ 65536 * hi + lo = n
  BY EncodedU4
<1>2. EncodeU4(n) = EncodeU2(hi) \o EncodeU2(lo)
  BY DEF EncodeU4
<1> HIDE DEF hi, lo
<1>3. /\ EncodeU2(hi) \in Bits /\ Len(EncodeU2(hi)) = 2 /\ EncodeU2(lo) \in Bits
  BY <1>1, EncodedU2
<1> DEFINE u == EncodeU2(hi)
           v == EncodeU2(lo)
           b == File
           p == pos + d
<1>4. Holds(b, p, u) /\ Holds(b, p + 2, v)
  <2>1. /\ b \in Bits /\ p \in Nat /\ u \in Bits /\ v \in Bits /\ Len(u) = 2
        /\ Holds(b, p, u \o v)
    BY <1>0, <1>2, <1>3
  <2> HIDE DEF u, v, b, p
  <2>2. Holds(b, p, u) /\ Holds(b, p + Len(u), v)
    BY <2>1, HoldsBoth
  <2> QED BY <2>1, <2>2
<1>5. (pos + d) + 2 = pos + (d + 2) /\ checkBounds(d + 2) /\ checkBounds((d + 2) + 2)
  BY <1>0 DEF checkBounds
<1>6. U2(d) = hi /\ U2(d + 2) = lo
  BY <1>1, <1>4, <1>5, ReadU2
<1> QED BY <1>1, <1>6 DEF U4

LEMMA ReadBytes ==
  ASSUME Source, NEW d \in Nat, NEW w \in Bits, Holds(File, pos + d, w), checkBounds(d + Len(w))
  PROVE  Bytes(d, Len(w)) = w
<1>0. pos \in Nat /\ Len(data) \in Nat /\ Len(w) \in Nat /\ w \in Seq(Nat)
  BY DataIsFile DEF Source, Bits
<1>1. \A k \in 1 .. Len(w) : data[pos + d + k] = w[k]
  <2> SUFFICES ASSUME NEW k \in 1 .. Len(w) PROVE data[pos + d + k] = w[k]
    OBVIOUS
  <2>1. pos + d + k \in 1 .. Len(data)
    BY <1>0 DEF checkBounds
  <2> QED BY <2>1, DataIsFile DEF Holds
<1>2. data \in Seq(Nat)
  BY DEF Source, Bits
<1>3. pos + d + Len(w) <= Len(data)
  BY <1>0 DEF checkBounds
<1> DEFINE s == SubSeq(data, pos + d + 1, pos + d + Len(w))
<1>4. s \in Seq(Nat) /\ Len(s) = Len(w) /\ \A k \in 1 .. Len(w) : s[k] = data[pos + d + k]
  BY <1>0, <1>2, <1>3
<1> HIDE DEF s
<1>5. s = w
  BY <1>0, <1>1, <1>4
<1> QED BY <1>5 DEF s, Bytes

(* A table of numbers, and one of exception handlers. *)
LEMMA EncodedU2s ==
  ASSUME NEW s \in Seq(Nat)
  PROVE  LET ss == [k \in DOMAIN s |-> EncodeU2(s[k])]
         IN  /\ ss \in Seq(Bits) /\ Len(ss) = Len(s)
             /\ \A k \in 1 .. Len(s) : ss[k] = EncodeU2(s[k]) /\ Len(ss[k]) = 2
             /\ EncodeAll(s, EncodeU2) = FlattenSeq(ss)
             /\ EncodeAll(s, EncodeU2) \in Bits /\ Len(EncodeAll(s, EncodeU2)) = 2 * Len(s)
             /\ \A n \in 0 .. Len(s) : Ends(ss)[n] = 2 * n
<1> DEFINE ss == [k \in DOMAIN s |-> EncodeU2(s[k])]
<1>1. \A k \in 1 .. Len(s) : EncodeU2(s[k]) \in Bits /\ Len(EncodeU2(s[k])) = 2
  BY EncodedU2
<1>2. /\ ss \in Seq(Bits) /\ Len(ss) = Len(s)
      /\ \A k \in 1 .. Len(s) : ss[k] = EncodeU2(s[k]) /\ Len(ss[k]) = 2
  BY <1>1
<1>3. EncodeAll(s, EncodeU2) = FlattenSeq(ss)
  BY DEF EncodeAll
<1> HIDE DEF ss
<1>4. FlattenSeq(ss) \in Bits
  BY <1>2, EndsExist DEF IsEnds
<1>5. 2 \in Nat /\ \A k \in 1 .. Len(ss) : Len(ss[k]) = 2
  BY <1>2
<1>6. /\ \A n \in 0 .. Len(ss) : Ends(ss)[n] = 2 * n
      /\ Len(FlattenSeq(ss)) = 2 * Len(ss)
  BY <1>2, <1>5, EqualSizes
<1> QED BY <1>2, <1>3, <1>4, <1>6 DEF ss

LEMMA ReadU2s ==
  ASSUME Source, NEW d \in Nat, NEW s \in Seq(Nat), Holds(File, pos + d, EncodeAll(s, EncodeU2)),
         checkBounds(d + 2 * Len(s))
  PROVE  U2s(d, Len(s)) = s
<1> DEFINE ss == [k \in DOMAIN s |-> EncodeU2(s[k])]
<1>0. pos \in Nat /\ Len(data) \in Nat /\ File \in Bits /\ pos + d \in Nat
  BY DataIsFile DEF Source
<1>1. /\ ss \in Seq(Bits) /\ Len(ss) = Len(s)
      /\ \A k \in 1 .. Len(s) : ss[k] = EncodeU2(s[k]) /\ Len(ss[k]) = 2
      /\ EncodeAll(s, EncodeU2) = FlattenSeq(ss)
      /\ \A n \in 0 .. Len(s) : Ends(ss)[n] = 2 * n
  BY EncodedU2s
<1> HIDE DEF ss
<1>2. ASSUME NEW k \in 1 .. Len(s) PROVE U2(d + 2 * (k - 1)) = s[k]
  <2>1. k - 1 \in 0 .. Len(s) /\ k \in 1 .. Len(ss)
    BY <1>1
  <2>2. Ends(ss)[k - 1] = 2 * (k - 1)
    BY <1>1, <2>1
  <2>3. Holds(File, (pos + d) + Ends(ss)[k - 1], ss[k])
    BY <1>0, <1>1, <2>1, HoldsAll, Zenon
  <2>4. Holds(File, pos + (d + 2 * (k - 1)), EncodeU2(s[k]))
    <3>1. (pos + d) + 2 * (k - 1) = pos + (d + 2 * (k - 1))
      BY <1>0
    <3>2. ss[k] = EncodeU2(s[k])
      BY <1>1
    <3> QED BY <2>2, <2>3, <3>1, <3>2, Zenon
  <2>5. d + 2 * (k - 1) \in Nat /\ s[k] \in Nat
    OBVIOUS
  <2>6. checkBounds((d + 2 * (k - 1)) + 2)
    BY <1>0 DEF checkBounds
  <2> QED BY <2>4, <2>5, <2>6, ReadU2, Zenon
<1>3. Len(s) \in Nat /\ s = [k \in 1 .. Len(s) |-> s[k]]
  OBVIOUS
<1> QED BY <1>2, <1>3 DEF U2s

LEMMA HandlerIsSeq == ASSUME NEW h \in Handler PROVE h \in Seq(Nat) /\ Len(h) = 4
<1>1. h \in [1 .. 4 -> Nat] /\ 4 \in Nat
  BY DEF Handler
<1>2. h \in Seq(Nat)
  BY <1>1, SeqDef, Zenon
<1>3. DOMAIN h = 1 .. 4
  BY <1>1
<1> QED BY <1>2, <1>3

LEMMA EncodedHandlers ==
  ASSUME NEW t \in Seq(Handler)
  PROVE  LET ss == [k \in DOMAIN t |-> EncodeHandler(t[k])]
         IN  /\ ss \in Seq(Bits) /\ Len(ss) = Len(t)
             /\ \A k \in 1 .. Len(t) : ss[k] = EncodeAll(t[k], EncodeU2) /\ Len(ss[k]) = 8
             /\ EncodeAll(t, EncodeHandler) = FlattenSeq(ss)
             /\ EncodeAll(t, EncodeHandler) \in Bits /\ Len(EncodeAll(t, EncodeHandler)) = 8 * Len(t)
             /\ \A n \in 0 .. Len(t) : Ends(ss)[n] = 8 * n
<1> DEFINE ss == [k \in DOMAIN t |-> EncodeHandler(t[k])]
<1>1. ASSUME NEW k \in 1 .. Len(t)
      PROVE  EncodeHandler(t[k]) = EncodeAll(t[k], EncodeU2) /\ EncodeHandler(t[k]) \in Bits /\ Len(EncodeHandler(t[k])) = 8
  <2>1. t[k] \in Seq(Nat) /\ Len(t[k]) = 4
    BY HandlerIsSeq
  <2>2. EncodeAll(t[k], EncodeU2) \in Bits /\ Len(EncodeAll(t[k], EncodeU2)) = 2 * Len(t[k])
    BY <2>1, EncodedU2s
  <2> QED BY <2>1, <2>2 DEF EncodeHandler
<1>2. /\ ss \in Seq(Bits) /\ Len(ss) = Len(t)
      /\ \A k \in 1 .. Len(t) : ss[k] = EncodeAll(t[k], EncodeU2) /\ Len(ss[k]) = 8
  BY <1>1
<1>3. EncodeAll(t, EncodeHandler) = FlattenSeq(ss)
  BY DEF EncodeAll
<1> HIDE DEF ss
<1>4. FlattenSeq(ss) \in Bits
  BY <1>2, EndsExist DEF IsEnds
<1>5. 8 \in Nat /\ \A k \in 1 .. Len(ss) : Len(ss[k]) = 8
  BY <1>2
<1>6. /\ \A n \in 0 .. Len(ss) : Ends(ss)[n] = 8 * n
      /\ Len(FlattenSeq(ss)) = 8 * Len(ss)
  BY <1>2, <1>5, EqualSizes
<1> QED BY <1>2, <1>3, <1>4, <1>6 DEF ss

LEMMA ReadHandlers ==
  ASSUME Source, NEW d \in Nat, NEW t \in Seq(Handler), Holds(File, pos + d, EncodeAll(t, EncodeHandler)),
         checkBounds(d + 8 * Len(t))
  PROVE  [k \in 1 .. Len(t) |-> U2s(d + 8 * (k - 1), 4)] = t
<1> DEFINE ss == [k \in DOMAIN t |-> EncodeHandler(t[k])]
<1>0. pos \in Nat /\ Len(data) \in Nat /\ File \in Bits /\ pos + d \in Nat
  BY DataIsFile DEF Source
<1>1. /\ ss \in Seq(Bits) /\ Len(ss) = Len(t)
      /\ \A k \in 1 .. Len(t) : ss[k] = EncodeAll(t[k], EncodeU2) /\ Len(ss[k]) = 8
      /\ EncodeAll(t, EncodeHandler) = FlattenSeq(ss)
      /\ \A n \in 0 .. Len(t) : Ends(ss)[n] = 8 * n
  BY EncodedHandlers
<1> HIDE DEF ss
<1>2. ASSUME NEW k \in 1 .. Len(t) PROVE U2s(d + 8 * (k - 1), 4) = t[k]
  <2>1. k - 1 \in 0 .. Len(t) /\ k \in 1 .. Len(ss) /\ t[k] \in Seq(Nat) /\ Len(t[k]) = 4
    BY <1>1, HandlerIsSeq
  <2>2. Ends(ss)[k - 1] = 8 * (k - 1)
    BY <1>1, <2>1
  <2>3. Holds(File, (pos + d) + Ends(ss)[k - 1], ss[k])
    BY <1>0, <1>1, <2>1, HoldsAll, Zenon
  <2>4. Holds(File, pos + (d + 8 * (k - 1)), EncodeAll(t[k], EncodeU2))
    <3>1. (pos + d) + 8 * (k - 1) = pos + (d + 8 * (k - 1))
      BY <1>0
    <3>2. ss[k] = EncodeAll(t[k], EncodeU2)
      BY <1>1
    <3> QED BY <2>2, <2>3, <3>1, <3>2, Zenon
  <2>5. d + 8 * (k - 1) \in Nat
    OBVIOUS
  <2>6. checkBounds((d + 8 * (k - 1)) + 2 * Len(t[k]))
    BY <1>0, <2>1 DEF checkBounds
  <2>7. U2s(d + 8 * (k - 1), Len(t[k])) = t[k]
    BY <2>1, <2>4, <2>5, <2>6, ReadU2s, Zenon
  <2> QED BY <2>1, <2>7
<1>3. Len(t) \in Nat /\ t = [k \in 1 .. Len(t) |-> t[k]]
  OBVIOUS
<1> QED BY <1>2, <1>3

-----------------------------------------------------------------------------
(* Items: the bytes that describe one, and how many of them there are.     *)

LEMMA WholeFile ==
  ASSUME Source, NEW w \in Bits, Holds(File, pos, w), Whole, NEW n \in Nat, n <= Len(w)
  PROVE  checkBounds(n)
BY DataIsFile DEF Whole, Holds, checkBounds, Source, Bits, File

LEMMA FewerBytes ==
  ASSUME Source, NEW n \in Nat, NEW m \in Nat, m <= n, checkBounds(n)
  PROVE  checkBounds(m)
BY DataIsFile DEF Source, checkBounds

(* An item of two parts. *)
LEMMA Split ==
  ASSUME Source, NEW d \in Nat, NEW u \in Bits, NEW v \in Bits, Holds(File, pos + d, u \o v)
  PROVE  /\ Holds(File, pos + d, u)
         /\ Holds(File, pos + (d + Len(u)), v)
         /\ u \o v \in Bits /\ Len(u \o v) = Len(u) + Len(v)
<1>1. pos \in Nat /\ File \in Bits /\ Len(u) \in Nat
  BY DEF Source, Bits
<1>2. (pos + d) + Len(u) = pos + (d + Len(u)) /\ pos + d \in Nat
  BY <1>1
<1>3. Holds(File, pos + d, u) /\ Holds(File, (pos + d) + Len(u), v)
  BY <1>1, <1>2, HoldsBoth, Zenon
<1>4. u \o v \in Bits /\ Len(u \o v) = Len(u) + Len(v)
  BY Concatenated DEF Bits
<1> QED BY <1>2, <1>3, <1>4

LEMMA SplitByte ==
  ASSUME Source, NEW d \in Nat, NEW t \in Nat, NEW v \in Bits, Holds(File, pos + d, <<t>> \o v)
  PROVE  /\ checkBounds(d + 1) => U1(d) = t
         /\ Holds(File, pos + (d + 1), v)
         /\ <<t>> \o v \in Bits /\ Len(<<t>> \o v) = 1 + Len(v)
<1> DEFINE u == <<t>>
<1>1. u \in Bits /\ Len(u) = 1 /\ u[1] = t
  BY DEF Bits
<1> HIDE DEF u
<1>2. /\ Holds(File, pos + d, u)
      /\ Holds(File, pos + (d + Len(u)), v)
      /\ u \o v \in Bits /\ Len(u \o v) = Len(u) + Len(v)
  BY <1>1, Split DEF u
<1>3. ASSUME checkBounds(d + 1) PROVE U1(d) = t
  <2>1. checkBounds(d + 0 + 1) /\ d + 0 = d /\ 0 < Len(u) /\ 0 \in Nat
    BY <1>1, <1>3
  <2>2. U1(d + 0) = u[0 + 1]
    BY <1>1, <1>2, <2>1, ReadByte
  <2> QED BY <1>1, <2>1, <2>2
<1> QED BY <1>1, <1>2, <1>3 DEF u

LEMMA SplitU2 ==
  ASSUME Source, NEW d \in Nat, NEW n \in Nat, NEW v \in Bits, Holds(File, pos + d, EncodeU2(n) \o v)
  PROVE  /\ checkBounds(d + 2) => U2(d) = n
         /\ Holds(File, pos + (d + 2), v)
         /\ EncodeU2(n) \o v \in Bits /\ Len(EncodeU2(n) \o v) = 2 + Len(v)
<1> DEFINE u == EncodeU2(n)
<1>1. u \in Bits /\ Len(u) = 2 /\ Holds(File, pos + d, u \o v)
  BY EncodedU2
<1> HIDE DEF u
<1>2. /\ Holds(File, pos + d, u)
      /\ Holds(File, pos + (d + Len(u)), v)
      /\ u \o v \in Bits /\ Len(u \o v) = Len(u) + Len(v)
  BY <1>1, Split
<1>3. ASSUME checkBounds(d + 2) PROVE U2(d) = n
  BY <1>2, <1>3, ReadU2 DEF u
<1> QED BY <1>1, <1>2, <1>3 DEF u

LEMMA SplitU4 ==
  ASSUME Source, NEW d \in Nat, NEW n \in Nat, NEW v \in Bits, Holds(File, pos + d, EncodeU4(n) \o v)
  PROVE  /\ checkBounds(d + 4) => U4(d) = n
         /\ Holds(File, pos + (d + 4), v)
         /\ EncodeU4(n) \o v \in Bits /\ Len(EncodeU4(n) \o v) = 4 + Len(v)
<1> DEFINE u == EncodeU4(n)
<1>1. u \in Bits /\ Len(u) = 4 /\ Holds(File, pos + d, u \o v)
  BY EncodedU4
<1> HIDE DEF u
<1>2. /\ Holds(File, pos + d, u)
      /\ Holds(File, pos + (d + Len(u)), v)
      /\ u \o v \in Bits /\ Len(u \o v) = Len(u) + Len(v)
  BY <1>1, Split
<1>3. ASSUME checkBounds(d + 4) PROVE U4(d) = n
  BY <1>2, <1>3, ReadU4 DEF u
<1> QED BY <1>1, <1>2, <1>3 DEF u

(* One constant *)

ConstantBody(c) ==
  CASE c.tag = Utf8         -> EncodeU2(Len(c.bytes)) \o c.bytes
    [] c.tag = MethodHandle -> <<c.index[1]>> \o EncodeU2(c.index[2])
    [] OTHER                -> EncodeAll(c.index, EncodeU2) \o c.bytes

LEMMA ConstantBits ==
  ASSUME NEW c \in Constant
  PROVE  /\ c.tag \in Nat /\ c.index \in Seq(Nat) /\ c.bytes \in Bits /\ Len(c.bytes) \in Nat
         /\ c = Entry(c.tag, c.index, c.bytes)
<1>1. c.bytes \in Seq(Byte) /\ Byte \subseteq Nat
  BY DEF Constant, Byte
<1>2. c.bytes \in Seq(Nat)
  BY <1>1, SeqMonotonic
<1> QED BY <1>1, <1>2 DEF Constant, Bits, Entry

LEMMA ConstantBodies ==
  ASSUME NEW c \in Constant
  PROVE  /\ EncodeConstant(c) = <<c.tag>> \o ConstantBody(c)
         /\ c.tag = Utf8 => ConstantBody(c) = EncodeU2(Len(c.bytes)) \o c.bytes
         /\ c.tag = MethodHandle => ConstantBody(c) = <<c.index[1]>> \o EncodeU2(c.index[2])
         /\ c.tag \notin {Utf8, MethodHandle} => ConstantBody(c) = EncodeAll(c.index, EncodeU2) \o c.bytes
<1>1. EncodeConstant(c) = <<c.tag>> \o ConstantBody(c)
  BY Zenon DEF EncodeConstant, ConstantBody
<1>2. Utf8 # MethodHandle
  BY DEF Utf8, MethodHandle
<1>3. CASE c.tag = Utf8
  BY <1>1, <1>2, <1>3 DEF ConstantBody
<1>4. CASE c.tag = MethodHandle
  BY <1>1, <1>2, <1>4 DEF ConstantBody
<1>5. CASE c.tag \notin {Utf8, MethodHandle}
  BY <1>1, <1>5 DEF ConstantBody
<1> QED BY <1>3, <1>4, <1>5

(* What the parser takes an item with the tag t for. *)
LEMMA ByTag ==
  ASSUME NEW t, checkBounds(1), U1(0) = t
  PROVE  /\ t = Utf8         => ConstantSize = Counted(3, 1) /\ readInfo = Entry(t, <<>>, Bytes(3, U2(1)))
         /\ t \in FourBytes  => ConstantSize = 5 /\ readInfo = Entry(t, <<>>, Bytes(1, 4))
         /\ t \in EightBytes => ConstantSize = 9 /\ readInfo = Entry(t, <<>>, Bytes(1, 8))
         /\ t \in OneIndex   => ConstantSize = 3 /\ readInfo = Entry(t, <<U2(1)>>, <<>>)
         /\ t \in TwoIndices => ConstantSize = 5 /\ readInfo = Entry(t, <<U2(1), U2(3)>>, <<>>)
         /\ t = MethodHandle => ConstantSize = 4 /\ readInfo = Entry(t, <<U1(1), U2(2)>>, <<>>)
<1>1. CASE t = Utf8
  BY <1>1, SMT DEF ConstantSize, readInfo, Utf8, FourBytes, EightBytes, OneIndex, TwoIndices, MethodHandle
<1>2. CASE t \in FourBytes
  BY <1>2, SMT DEF ConstantSize, readInfo, Utf8, FourBytes, EightBytes, OneIndex, TwoIndices, MethodHandle
<1>3. CASE t \in EightBytes
  BY <1>3, SMT DEF ConstantSize, readInfo, Utf8, FourBytes, EightBytes, OneIndex, TwoIndices, MethodHandle
<1>4. CASE t \in OneIndex
  BY <1>4, SMT DEF ConstantSize, readInfo, Utf8, FourBytes, EightBytes, OneIndex, TwoIndices, MethodHandle
<1>5. CASE t \in TwoIndices
  BY <1>5, SMT DEF ConstantSize, readInfo, Utf8, FourBytes, EightBytes, OneIndex, TwoIndices, MethodHandle
<1>6. CASE t = MethodHandle
  BY <1>6, SMT DEF ConstantSize, readInfo, Utf8, FourBytes, EightBytes, OneIndex, TwoIndices, MethodHandle
<1> QED BY <1>1, <1>2, <1>3, <1>4, <1>5, <1>6, Zenon

LEMMA Utf8Read ==
  ASSUME Source, NEW c \in Constant, c.tag = Utf8, c.index = <<>>, Holds(File, pos, EncodeConstant(c))
  PROVE  /\ EncodeConstant(c) \in Bits
         /\ checkBounds(1) => U1(0) = c.tag
         /\ checkBounds(ConstantSize) => ConstantSize = Len(EncodeConstant(c)) /\ readInfo = c
         /\ Whole => checkBounds(ConstantSize)
<1> DEFINE u == c.bytes
           n == Len(u)
           v == EncodeU2(n) \o u
           w == EncodeConstant(c)
<1>0. /\ u \in Bits /\ n \in Nat /\ c = Entry(Utf8, <<>>, u) /\ pos \in Nat /\ Utf8 \in Nat
  BY ConstantBits DEF Source, Utf8
<1>1. w = <<Utf8>> \o v
  BY ConstantBodies
<1> HIDE DEF w, u, n
<1>2. v \in Bits
  BY <1>0, EncodedU2, Concatenated DEF Bits
<1> HIDE DEF v
<1>3. Holds(File, pos + 0, <<Utf8>> \o v)
  <2>1. pos + 0 = pos
    BY <1>0
  <2> QED BY <1>1, <2>1, Zenon DEF w
<1>4. /\ checkBounds(0 + 1) => U1(0) = Utf8
      /\ Holds(File, pos + (0 + 1), v)
      /\ <<Utf8>> \o v \in Bits /\ Len(<<Utf8>> \o v) = 1 + Len(v)
  BY <1>0, <1>2, <1>3, SplitByte
<1>5. /\ checkBounds(1 + 2) => U2(1) = n
      /\ Holds(File, pos + (1 + 2), u)
      /\ Len(v) = 2 + n
  BY <1>0, <1>4, SplitU2 DEF v, n
<1>6. w \in Bits /\ Len(w) = 3 + n
  BY <1>0, <1>1, <1>4, <1>5
<1>7. checkBounds(1) => U1(0) = Utf8
  BY <1>4
<1>8. ASSUME checkBounds(3)
      PROVE  ConstantSize = 3 + n /\ (checkBounds(3 + n) => readInfo = c)
  <2>1. checkBounds(1) /\ U1(0) = Utf8 /\ U2(1) = n
    BY <1>5, <1>7, <1>8, FewerBytes
  <2>2. Counted(3, 1) = 3 + n
    BY <1>0, <1>8, <2>1 DEF Counted
  <2>3. ConstantSize = 3 + n
    BY <2>1, <2>2, ByTag
  <2>4. ASSUME checkBounds(3 + n) PROVE readInfo = c
    <3>1. Bytes(3, n) = u
      <4>1. Holds(File, pos + 3, u) /\ 3 \in Nat
        BY <1>5
      <4> QED BY <1>0, <2>4, <4>1, ReadBytes DEF n
    <3>2. readInfo = Entry(Utf8, <<>>, Bytes(3, n))
      BY <2>1, ByTag
    <3> QED BY <1>0, <3>1, <3>2
  <2> QED BY <2>3, <2>4
<1>9. ASSUME checkBounds(ConstantSize) PROVE checkBounds(3)
  <2>1. CASE ~checkBounds(1)
    BY <1>9, <2>1 DEF ConstantSize
  <2>2. CASE checkBounds(1) /\ ~checkBounds(3)
    <3>1. ConstantSize = Counted(3, 1)
      BY <1>7, <2>2, ByTag
    <3> QED BY <1>9, <2>2, <3>1 DEF Counted
  <2> QED BY <2>1, <2>2
<1>10. ASSUME Whole PROVE checkBounds(ConstantSize)
  <2>1. checkBounds(3) /\ checkBounds(3 + n)
    BY <1>0, <1>6, <1>10, WholeFile DEF w
  <2> QED BY <1>8, <2>1
<1> QED BY <1>0, <1>6, <1>7, <1>8, <1>9, <1>10 DEF w, Entry

(* The constants whose indices are U2 and stand before their bytes. *)
PlainTag == FourBytes \cup EightBytes \cup OneIndex \cup TwoIndices
Indices(t)  == IF t \in OneIndex THEN 1 ELSE IF t \in TwoIndices THEN 2 ELSE 0
Literals(t) == IF t \in FourBytes THEN 4 ELSE IF t \in EightBytes THEN 8 ELSE 0

LEMMA PlainConstant ==
  ASSUME NEW cs, NEW c, IsConstant(cs, c), c.tag \in PlainTag
  PROVE  /\ Len(c.index) = Indices(c.tag) /\ Len(c.bytes) = Literals(c.tag)
         /\ c.tag \notin {Utf8, MethodHandle}
<1>0. Len(<<>>) = 0
  OBVIOUS
<1>1. CASE c.tag \in FourBytes
  <2>1. /\ c.tag \notin EightBytes /\ c.tag \notin OneIndex /\ c.tag \notin TwoIndices
        /\ c.tag # Utf8 /\ c.tag # MethodHandle
    BY <1>1 DEF Utf8, FourBytes, EightBytes, OneIndex, TwoIndices, MethodHandle
  <2>2. c.index = <<>> /\ Len(c.bytes) = 4
    BY <1>1, <2>1, Zenon DEF IsConstant
  <2> QED BY <1>0, <1>1, <2>1, <2>2 DEF Indices, Literals
<1>2. CASE c.tag \in EightBytes
  <2>1. /\ c.tag \notin FourBytes /\ c.tag \notin OneIndex /\ c.tag \notin TwoIndices
        /\ c.tag # Utf8 /\ c.tag # MethodHandle
    BY <1>2 DEF Utf8, FourBytes, EightBytes, OneIndex, TwoIndices, MethodHandle
  <2>2. c.index = <<>> /\ Len(c.bytes) = 8
    BY <1>2, <2>1, Zenon DEF IsConstant
  <2> QED BY <1>0, <1>2, <2>1, <2>2 DEF Indices, Literals
<1>3. CASE c.tag \in OneIndex
  <2>1. /\ c.tag \notin FourBytes /\ c.tag \notin EightBytes /\ c.tag \notin TwoIndices
        /\ c.tag # Utf8 /\ c.tag # MethodHandle
    BY <1>3 DEF Utf8, FourBytes, EightBytes, OneIndex, TwoIndices, MethodHandle
  <2>2. Len(c.index) = 1 /\ c.bytes = <<>>
    BY <1>3, <2>1, Zenon DEF IsConstant
  <2> QED BY <1>0, <1>3, <2>1, <2>2 DEF Indices, Literals
<1>4. CASE c.tag \in TwoIndices
  <2>1. /\ c.tag \notin FourBytes /\ c.tag \notin EightBytes /\ c.tag \notin OneIndex
        /\ c.tag # Utf8 /\ c.tag # MethodHandle
    BY <1>4 DEF Utf8, FourBytes, EightBytes, OneIndex, TwoIndices, MethodHandle
  <2>2. Len(c.index) = 2 /\ c.bytes = <<>>
    BY <1>4, <2>1, Zenon DEF IsConstant
  <2> QED BY <1>0, <1>4, <2>1, <2>2 DEF Indices, Literals
<1> QED BY <1>1, <1>2, <1>3, <1>4, Zenon DEF PlainTag

(* The parser reads their indices and bytes where they are. *)
LEMMA PlainByTag ==
  ASSUME NEW t, checkBounds(1), U1(0) = t, t \in PlainTag,
         NEW s \in Seq(Nat), NEW b \in Seq(Byte), Len(s) = Indices(t), Len(b) = Literals(t)
  PROVE  /\ ConstantSize = 1 + 2 * Indices(t) + Literals(t)
         /\ U2s(1, Indices(t)) = s /\ Bytes(1 + 2 * Indices(t), Literals(t)) = b => readInfo = Entry(t, s, b)
<1>1. CASE t \in FourBytes
  <2>1. Indices(t) = 0 /\ Literals(t) = 4
    BY <1>1 DEF Indices, Literals, FourBytes, OneIndex, TwoIndices
  <2>2. ConstantSize = 5 /\ readInfo = Entry(t, <<>>, Bytes(1, 4))
    BY <1>1, ByTag
  <2>3. s = <<>>
    BY <2>1
  <2> QED BY <2>1, <2>2, <2>3
<1>2. CASE t \in EightBytes
  <2>1. Indices(t) = 0 /\ Literals(t) = 8
    BY <1>2 DEF Indices, Literals, FourBytes, EightBytes, OneIndex, TwoIndices
  <2>2. ConstantSize = 9 /\ readInfo = Entry(t, <<>>, Bytes(1, 8))
    BY <1>2, ByTag
  <2>3. s = <<>>
    BY <2>1
  <2> QED BY <2>1, <2>2, <2>3
<1>3. CASE t \in OneIndex
  <2>1. Indices(t) = 1 /\ Literals(t) = 0
    BY <1>3 DEF Indices, Literals, FourBytes, EightBytes, OneIndex, TwoIndices
  <2>2. ConstantSize = 3 /\ readInfo = Entry(t, <<U2(1)>>, <<>>)
    BY <1>3, ByTag
  <2>3. b = <<>> /\ s = <<s[1]>>
    BY <2>1
  <2>4. U2s(1, 1) = s => U2(1) = s[1]
    <3>1. U2s(1, 1)[1] = U2(1 + 2 * (1 - 1)) /\ 1 + 2 * (1 - 1) = 1
      BY DEF U2s
    <3> QED BY <3>1
  <2> QED BY <2>1, <2>2, <2>3, <2>4
<1>4. CASE t \in TwoIndices
  <2>1. Indices(t) = 2 /\ Literals(t) = 0
    BY <1>4 DEF Indices, Literals, FourBytes, EightBytes, OneIndex, TwoIndices
  <2>2. ConstantSize = 5 /\ readInfo = Entry(t, <<U2(1), U2(3)>>, <<>>)
    BY <1>4, ByTag
  <2>3. b = <<>> /\ s = <<s[1], s[2]>>
    BY <2>1
  <2>4. U2s(1, 2) = s => U2(1) = s[1] /\ U2(3) = s[2]
    <3>1. /\ U2s(1, 2)[1] = U2(1 + 2 * (1 - 1)) /\ 1 + 2 * (1 - 1) = 1
          /\ U2s(1, 2)[2] = U2(1 + 2 * (2 - 1)) /\ 1 + 2 * (2 - 1) = 3
      BY DEF U2s
    <3> QED BY <3>1
  <2> QED BY <2>1, <2>2, <2>3, <2>4
<1> QED BY <1>1, <1>2, <1>3, <1>4, Zenon DEF PlainTag

LEMMA PlainRead ==
  ASSUME Source, NEW cs, NEW c \in Constant, IsConstant(cs, c), c.tag \in PlainTag,
         Holds(File, pos, EncodeConstant(c))
  PROVE  /\ EncodeConstant(c) \in Bits
         /\ checkBounds(1) => U1(0) = c.tag
         /\ checkBounds(ConstantSize) => ConstantSize = Len(EncodeConstant(c)) /\ readInfo = c
         /\ Whole => checkBounds(ConstantSize)
<1> DEFINE t == c.tag
           s == c.index
           b == c.bytes
           is == EncodeAll(s, EncodeU2)
           v == is \o b
           w == EncodeConstant(c)
           k == Indices(t)
           m == Literals(t)
<1>0. /\ t \in Nat /\ s \in Seq(Nat) /\ b \in Bits /\ b \in Seq(Byte) /\ c = Entry(t, s, b) /\ pos \in Nat
      /\ Len(s) = k /\ Len(b) = m /\ k \in Nat /\ m \in Nat /\ t \in PlainTag
  BY ConstantBits, PlainConstant DEF Source, Constant, Indices, Literals
<1>1. w = <<t>> \o v
  BY ConstantBodies, PlainConstant
<1>2. is \in Bits /\ Len(is) = 2 * k
  BY <1>0, EncodedU2s
<1>13. Holds(File, pos, w)
  OBVIOUS
<1> HIDE DEF t, s, b, is, w, k, m
<1>3. v \in Bits /\ Len(v) = 2 * k + m
  BY <1>0, <1>2, Concatenated DEF Bits
<1> HIDE DEF v
<1>4. Holds(File, pos + 0, <<t>> \o v)
  <2>1. pos + 0 = pos
    BY <1>0
  <2> QED BY <1>1, <1>13, <2>1, Zenon
<1>5. /\ checkBounds(0 + 1) => U1(0) = t
      /\ Holds(File, pos + (0 + 1), v)
      /\ <<t>> \o v \in Bits /\ Len(<<t>> \o v) = 1 + Len(v)
  <2>1. t \in Nat /\ v \in Bits /\ 0 \in Nat
    BY <1>0, <1>3
  <2> QED BY <1>4, <2>1, SplitByte
<1>6. w \in Bits /\ Len(w) = 1 + 2 * k + m
  BY <1>0, <1>1, <1>3, <1>5
<1>7. checkBounds(1) => U1(0) = t
  BY <1>5
<1>8. Holds(File, pos + 1, is) /\ Holds(File, pos + (1 + 2 * k), b)
  <2>1. Holds(File, pos + 1, is \o b) /\ 1 \in Nat
    BY <1>5 DEF v
  <2> QED BY <1>0, <1>2, <2>1, Split
<1>9. ASSUME checkBounds(1) PROVE ConstantSize = 1 + 2 * k + m
  BY <1>0, <1>7, <1>9, PlainByTag DEF k, m
<1>10. ASSUME checkBounds(1 + 2 * k + m) PROVE readInfo = c
  <2>1. checkBounds(1) /\ checkBounds(1 + 2 * k)
    BY <1>0, <1>10, FewerBytes
  <2>2. U2s(1, k) = s
    <3>1. checkBounds(1 + 2 * Len(s)) /\ 1 \in Nat
      BY <1>0, <2>1
    <3>2. U2s(1, Len(s)) = s
      BY <1>0, <1>8, <3>1, ReadU2s DEF is
    <3> QED BY <1>0, <3>2
  <2>3. Bytes(1 + 2 * k, m) = b
    <3>1. checkBounds((1 + 2 * k) + Len(b)) /\ 1 + 2 * k \in Nat
      BY <1>0, <1>10
    <3>2. Bytes(1 + 2 * k, Len(b)) = b
      BY <1>0, <1>8, <3>1, ReadBytes
    <3> QED BY <1>0, <3>2
  <2> QED BY <1>0, <1>7, <2>1, <2>2, <2>3, PlainByTag DEF k, m
<1>11. ASSUME checkBounds(ConstantSize) PROVE checkBounds(1)
  BY <1>11 DEF ConstantSize
<1>12. ASSUME Whole PROVE checkBounds(ConstantSize)
  <2>1. checkBounds(1) /\ checkBounds(1 + 2 * k + m)
    BY <1>0, <1>6, <1>12, <1>13, WholeFile
  <2> QED BY <1>9, <2>1
<1> QED BY <1>0, <1>6, <1>7, <1>9, <1>10, <1>11, <1>12 DEF w, t

LEMMA HandleRead ==
  ASSUME Source, NEW c \in Constant, c.tag = MethodHandle, Len(c.index) = 2, c.bytes = <<>>,
         Holds(File, pos, EncodeConstant(c))
  PROVE  /\ EncodeConstant(c) \in Bits
         /\ checkBounds(1) => U1(0) = c.tag
         /\ checkBounds(ConstantSize) => ConstantSize = Len(EncodeConstant(c)) /\ readInfo = c
         /\ Whole => checkBounds(ConstantSize)
<1> DEFINE kind == c.index[1]
           ref  == c.index[2]
           u == EncodeU2(ref)
           v == <<kind>> \o u
           w == EncodeConstant(c)
<1>0. /\ kind \in Nat /\ ref \in Nat /\ c = Entry(MethodHandle, <<kind, ref>>, <<>>)
      /\ pos \in Nat /\ MethodHandle \in Nat /\ c.tag = MethodHandle
  <2>1. c.index \in Seq(Nat) /\ c = Entry(c.tag, c.index, c.bytes)
    BY ConstantBits
  <2>2. c.index = <<c.index[1], c.index[2]>>
    BY <2>1
  <2>3. kind \in Nat /\ ref \in Nat
    BY <2>1
  <2>4. c = Entry(MethodHandle, <<kind, ref>>, <<>>)
    BY <2>1, <2>2, Zenon
  <2> QED BY <2>3, <2>4 DEF Source, MethodHandle
<1>1. w = <<MethodHandle>> \o v
  BY ConstantBodies
<1>2. u \in Bits /\ Len(u) = 2
  BY <1>0, EncodedU2
<1>3. Holds(File, pos, w)
  OBVIOUS
<1> HIDE DEF w, u, kind, ref
<1>4. v \in Bits
  <2>1. <<kind>> \in Seq(Nat)
    BY <1>0
  <2> QED BY <1>2, <2>1, Concatenated DEF Bits
<1> HIDE DEF v
<1>5. Holds(File, pos + 0, <<MethodHandle>> \o v)
  <2>1. pos + 0 = pos
    BY <1>0
  <2> QED BY <1>1, <1>3, <2>1, Zenon
<1>6. /\ checkBounds(0 + 1) => U1(0) = MethodHandle
      /\ Holds(File, pos + (0 + 1), v)
      /\ <<MethodHandle>> \o v \in Bits /\ Len(<<MethodHandle>> \o v) = 1 + Len(v)
  <2>1. MethodHandle \in Nat /\ v \in Bits /\ 0 \in Nat
    BY <1>0, <1>4
  <2> QED BY <1>5, <2>1, SplitByte
<1>7. /\ checkBounds(1 + 1) => U1(1) = kind
      /\ Holds(File, pos + (1 + 1), u)
      /\ Len(v) = 1 + Len(u)
  <2>1. Holds(File, pos + 1, <<kind>> \o u) /\ 1 \in Nat /\ kind \in Nat /\ u \in Bits
    BY <1>0, <1>2, <1>6 DEF v
  <2> QED BY <2>1, SplitByte DEF v
<1>8. w \in Bits /\ Len(w) = 4
  BY <1>1, <1>2, <1>6, <1>7
<1>9. checkBounds(1) => U1(0) = MethodHandle
  BY <1>6
<1>10. ASSUME checkBounds(1) PROVE ConstantSize = 4
  BY <1>9, <1>10, ByTag
<1>11. ASSUME checkBounds(4) PROVE readInfo = c
  <2>1. checkBounds(1) /\ checkBounds(2)
    BY <1>11, FewerBytes
  <2>2. U1(1) = kind
    BY <1>7, <2>1
  <2>3. U2(2) = ref
    <3>1. Holds(File, pos + 2, EncodeU2(ref)) /\ checkBounds(2 + 2) /\ 2 \in Nat
      BY <1>7, <1>11 DEF u
    <3> QED BY <1>0, <3>1, ReadU2
  <2>4. readInfo = Entry(MethodHandle, <<U1(1), U2(2)>>, <<>>)
    BY <1>9, <2>1, ByTag
  <2> QED BY <1>0, <2>2, <2>3, <2>4
<1>12. ASSUME checkBounds(ConstantSize) PROVE checkBounds(1)
  BY <1>12 DEF ConstantSize
<1>13. ASSUME Whole PROVE checkBounds(ConstantSize)
  <2>1. checkBounds(1) /\ checkBounds(4)
    <3>1. w \in Bits /\ Holds(File, pos, w) /\ 1 <= Len(w) /\ 4 <= Len(w) /\ 1 \in Nat /\ 4 \in Nat
      BY <1>3, <1>8
    <3> QED BY <1>13, <3>1, WholeFile
  <2> QED BY <1>10, <2>1
<1> QED BY <1>0, <1>8, <1>9, <1>10, <1>11, <1>12, <1>13 DEF w

LEMMA ConstantRead ==
  ASSUME Source, NEW cs, NEW c \in Constant, IsConstant(cs, c), Holds(File, pos, EncodeConstant(c))
  PROVE  /\ c.tag \in ConstantTag
         /\ EncodeConstant(c) \in Bits
         /\ checkBounds(1) => U1(0) = c.tag
         /\ checkBounds(ConstantSize) => ConstantSize = Len(EncodeConstant(c)) /\ readInfo = c
         /\ Whole => checkBounds(ConstantSize)
<1>1. CASE c.tag = Utf8 /\ c.index = <<>>
  BY <1>1, Utf8Read DEF ConstantTag
<1>2. CASE c.tag \in PlainTag
  BY <1>2, PlainRead DEF ConstantTag, PlainTag
<1>3. CASE c.tag = MethodHandle /\ Len(c.index) = 2 /\ c.bytes = <<>>
  BY <1>3, HandleRead DEF ConstantTag
<1> QED BY <1>1, <1>2, <1>3 DEF IsConstant, PlainTag

-----------------------------------------------------------------------------
(* The constant pool *)

LEMMA IndexSteps ==
  ASSUME NEW cs, NEW n \in Nat \ {0}
  PROVE  /\ IndexOf(cs, 1) = 1
         /\ IndexOf(cs, n) \in Nat \ {0}
         /\ IndexOf(cs, n + 1) = IndexOf(cs, n) + Steps(cs[n])
<1> DEFINE S(m) == {k \in 1 .. m : cs[k].tag \in EightBytes}
<1>1. ASSUME NEW m \in Nat PROVE IsFiniteSet(S(m)) /\ Cardinality(S(m)) \in Nat
  <2>1. S(m) \subseteq 1 .. m /\ IsFiniteSet(1 .. m)
    BY FS_Interval
  <2> HIDE DEF S
  <2> QED BY <2>1, FS_Subset, FS_CardinalityType
<1>2. \A m \in Nat : IndexOf(cs, m + 1) = (m + 1) + Cardinality(S(m))
  <2> SUFFICES ASSUME NEW m \in Nat PROVE IndexOf(cs, m + 1) = (m + 1) + Cardinality(S(m))
    OBVIOUS
  <2>1. (m + 1) - 1 = m
    OBVIOUS
  <2> QED BY <2>1, Zenon DEF IndexOf
<1>3. S(0) = {} /\ Cardinality({}) = 0
  BY FS_EmptySet
<1>4. IndexOf(cs, 1) = 1
  <2>1. IndexOf(cs, 0 + 1) = (0 + 1) + Cardinality(S(0))
    BY <1>2
  <2> HIDE DEF S
  <2> QED BY <2>1, <1>3
<1>5. n - 1 \in Nat /\ (n - 1) + 1 = n
  OBVIOUS
<1>6. IndexOf(cs, n) = n + Cardinality(S(n - 1)) /\ IndexOf(cs, n + 1) = (n + 1) + Cardinality(S(n))
  <2> HIDE DEF S
  <2>1. IndexOf(cs, (n - 1) + 1) = ((n - 1) + 1) + Cardinality(S(n - 1))
    BY <1>2, <1>5
  <2>2. IndexOf(cs, n + 1) = (n + 1) + Cardinality(S(n))
    BY <1>2
  <2> QED BY <1>5, <2>1, <2>2
<1>7. Cardinality(S(n)) = Cardinality(S(n - 1)) + (IF cs[n].tag \in EightBytes THEN 1 ELSE 0)
  <2>1. CASE cs[n].tag \in EightBytes
    <3>1. S(n) = S(n - 1) \cup {n} /\ n \notin S(n - 1)
      BY <2>1
    <3>2. IsFiniteSet(S(n - 1)) /\ Cardinality(S(n - 1)) \in Nat
      BY <1>1, <1>5
    <3> HIDE DEF S
    <3>3. Cardinality(S(n - 1) \cup {n}) = Cardinality(S(n - 1)) + 1
      BY <3>1, <3>2, FS_AddElement
    <3> QED BY <2>1, <3>1, <3>3
  <2>2. CASE cs[n].tag \notin EightBytes
    <3>1. S(n) = S(n - 1)
      BY <2>2
    <3>2. Cardinality(S(n - 1)) \in Nat
      BY <1>1, <1>5
    <3> HIDE DEF S
    <3> QED BY <2>2, <3>1, <3>2
  <2> QED BY <2>1, <2>2
<1>8. Cardinality(S(n - 1)) \in Nat
  BY <1>1, <1>5
<1> HIDE DEF S
<1>9. Steps(cs[n]) = 1 + (IF cs[n].tag \in EightBytes THEN 1 ELSE 0)
  BY DEF Steps
<1> QED BY <1>4, <1>6, <1>7, <1>8, <1>9

(* The constants have different indices, in their order. *)
LEMMA IndexGrows ==
  ASSUME NEW cs, NEW m \in Nat \ {0}, NEW n \in Nat, m < n
  PROVE  IndexOf(cs, m) + Steps(cs[m]) <= IndexOf(cs, n)
<1> DEFINE T == {k \in Nat : m < k /\ ~(IndexOf(cs, m) + Steps(cs[m]) <= IndexOf(cs, k))}
<1>1. SUFFICES ASSUME T # {} PROVE FALSE
  OBVIOUS
<1>2. PICK k \in T : \A j \in T : k <= j
  <2>1. T \in SUBSET Nat
    OBVIOUS
  <2> HIDE DEF T
  <2> QED BY <1>1, <2>1, LeastNat, Zenon
<1>3. k \in Nat /\ m < k /\ ~(IndexOf(cs, m) + Steps(cs[m]) <= IndexOf(cs, k))
  BY <1>2
<1>4. Steps(cs[m]) \in {1, 2} /\ \A j \in Nat \ {0} : Steps(cs[j]) \in {1, 2}
  BY DEF Steps
<1>5. CASE k = m + 1
  <2>1. IndexOf(cs, m + 1) = IndexOf(cs, m) + Steps(cs[m]) /\ IndexOf(cs, m) \in Nat
    BY IndexSteps
  <2> QED BY <1>3, <1>4, <1>5, <2>1
<1>6. CASE k # m + 1
  <2>1. k - 1 \in Nat \ {0} /\ m < k - 1 /\ (k - 1) + 1 = k /\ k - 1 \notin T
    BY <1>2, <1>3, <1>6
  <2>2. IndexOf(cs, m) + Steps(cs[m]) <= IndexOf(cs, k - 1)
    BY <2>1
  <2>3. IndexOf(cs, (k - 1) + 1) = IndexOf(cs, k - 1) + Steps(cs[k - 1]) /\ IndexOf(cs, k - 1) \in Nat
    BY <2>1, IndexSteps
  <2>4. IndexOf(cs, k) = IndexOf(cs, k - 1) + Steps(cs[k - 1])
    BY <2>1, <2>3
  <2>5. IndexOf(cs, m) \in Nat /\ Steps(cs[k - 1]) \in {1, 2}
    BY <1>4, <2>1, IndexSteps
  <2>6. \A a, b \in Nat : \A p \in Nat : \A q \in {1, 2} : a + b <= p => a + b <= p + q
    OBVIOUS
  <2>7. Steps(cs[m]) \in Nat
    BY <1>4
  <2> QED BY <1>3, <2>2, <2>3, <2>4, <2>5, <2>6, <2>7
<1> QED BY <1>5, <1>6

(* The pool of cs: each constant at its index, and nothing between. *)
LEMMA PoolFacts ==
  ASSUME NEW cs, Len(cs) \in Nat, DOMAIN cs = 1 .. Len(cs)
  PROVE  /\ PoolCount(cs) \in Nat \ {0}
         /\ DOMAIN PoolOf(cs) = 0 .. PoolCount(cs) - 1
         /\ PoolOf(cs) = [j \in 0 .. PoolCount(cs) - 1 |-> PoolOf(cs)[j]]
         /\ \A n \in 1 .. Len(cs) :
              /\ IndexOf(cs, n) \in 1 .. PoolCount(cs) - 1
              /\ IndexOf(cs, n + 1) = IndexOf(cs, n) + Steps(cs[n])
              /\ IndexOf(cs, n + 1) \in 1 .. PoolCount(cs)
              /\ PoolOf(cs)[IndexOf(cs, n)] = cs[n]
              /\ \A j \in IndexOf(cs, n) + 1 .. IndexOf(cs, n + 1) - 1 : PoolOf(cs)[j] = NullEntry
         /\ PoolOf(cs)[0] = NullEntry
<1> DEFINE L == Len(cs)
           C == PoolCount(cs)
           ix(n) == IndexOf(cs, n)
           P == PoolOf(cs)
<1>1. ix(1) = 1 /\ \A n \in Nat \ {0} : ix(n) \in Nat \ {0} /\ ix(n + 1) = ix(n) + Steps(cs[n]) /\ Steps(cs[n]) \in {1, 2}
  <2>1. \A n : Steps(cs[n]) \in {1, 2}
    BY DEF Steps
  <2>2. IndexOf(cs, 1) = 1
    BY IndexSteps
  <2>3. ASSUME NEW n \in Nat \ {0}
        PROVE  IndexOf(cs, n) \in Nat \ {0} /\ IndexOf(cs, n + 1) = IndexOf(cs, n) + Steps(cs[n])
    BY IndexSteps, Zenon
  <2> QED BY <2>1, <2>2, <2>3, Zenon
<1>2. \A m \in Nat \ {0} : \A n \in Nat : m < n => ix(m) + Steps(cs[m]) <= ix(n)
  BY IndexGrows
<1>3. C = ix(L + 1) /\ L \in Nat
  BY DEF PoolCount
<1>4. P = [j \in 0 .. C - 1 |-> IF \E n \in 1 .. L : ix(n) = j
                                  THEN cs[CHOOSE n \in 1 .. L : ix(n) = j] ELSE NullEntry]
  BY DEF PoolOf
<1> HIDE DEF ix, C, P, L
<1>5. C \in Nat \ {0}
  BY <1>1, <1>3
<1>6. DOMAIN P = 0 .. C - 1 /\ P = [j \in 0 .. C - 1 |-> P[j]]
  BY <1>4
<1>7. ASSUME NEW n \in 1 .. L
      PROVE  /\ ix(n) \in 1 .. C - 1
             /\ ix(n + 1) = ix(n) + Steps(cs[n])
             /\ ix(n + 1) \in 1 .. C
             /\ P[ix(n)] = cs[n]
             /\ \A j \in ix(n) + 1 .. ix(n + 1) - 1 : P[j] = NullEntry
  <2>1. n \in Nat \ {0} /\ n + 1 \in Nat \ {0} /\ n < L + 1 /\ L + 1 \in Nat
    BY <1>3
  <2>2. ix(n + 1) = ix(n) + Steps(cs[n]) /\ ix(n) + Steps(cs[n]) <= C /\ ix(n) \in Nat \ {0} /\ Steps(cs[n]) \in {1, 2}
    BY <1>1, <1>2, <1>3, <2>1
  <2>3. ix(n) \in 1 .. C - 1 /\ ix(n + 1) \in 1 .. C
    BY <1>5, <2>2
  <2>4. \A m \in 1 .. L : ix(m) = ix(n) => m = n
    <3> SUFFICES ASSUME NEW m \in 1 .. L, ix(m) = ix(n), m # n PROVE FALSE
      OBVIOUS
    <3>1. m \in Nat \ {0} /\ (m < n \/ n < m)
      BY <1>3
    <3>2. ix(m) + Steps(cs[m]) <= ix(n) \/ ix(n) + Steps(cs[n]) <= ix(m)
      BY <1>2, <2>1, <3>1
    <3>3. Steps(cs[m]) \in {1, 2} /\ ix(m) \in Nat
      BY <1>1, <3>1
    <3> QED BY <2>2, <3>2, <3>3
  <2>5. P[ix(n)] = cs[n]
    <3>1. ix(n) \in 0 .. C - 1
      BY <2>3
    <3>2. P[ix(n)] = cs[CHOOSE m \in 1 .. L : ix(m) = ix(n)]
      BY <1>4, <3>1
    <3>3. (CHOOSE m \in 1 .. L : ix(m) = ix(n)) = n
      BY <2>4
    <3> QED BY <3>2, <3>3
  <2>6. ASSUME NEW j \in ix(n) + 1 .. ix(n + 1) - 1 PROVE P[j] = NullEntry
    <3>1. ASSUME NEW m \in 1 .. L, ix(m) = j PROVE FALSE
      <4>1. m \in Nat \ {0} /\ (m < n \/ m = n \/ n < m)
        BY <1>3
      <4>2. CASE m = n
        BY <2>2, <3>1, <4>2
      <4>3. CASE m < n
        <5>1. ix(m) + Steps(cs[m]) <= ix(n) /\ Steps(cs[m]) \in {1, 2} /\ ix(m) \in Nat
          BY <1>1, <1>2, <2>1, <4>1, <4>3
        <5> QED BY <2>2, <3>1, <5>1
      <4>4. CASE n < m
        <5>1. ix(n) + Steps(cs[n]) <= ix(m)
          BY <1>2, <2>1, <4>1, <4>4
        <5> QED BY <2>2, <3>1, <5>1
      <4> QED BY <4>1, <4>2, <4>3, <4>4
    <3>2. j \in 0 .. C - 1
      <4>1. ix(n + 1) \in Nat /\ ix(n + 1) <= C /\ ix(n) \in Nat
        BY <1>5, <2>2, <2>3
      <4> QED BY <1>5, <4>1
    <3> QED BY <1>4, <3>1, <3>2
  <2> QED BY <2>2, <2>3, <2>5, <2>6
<1>8. P[0] = NullEntry
  <2>1. ASSUME NEW m \in 1 .. L, ix(m) = 0 PROVE FALSE
    BY <1>1, <1>3, <2>1
  <2>2. 0 \in 0 .. C - 1
    BY <1>5
  <2> QED BY <1>4, <2>1, <2>2
<1> QED BY <1>5, <1>6, <1>7, <1>8, Zenon DEF ix, C, P, L

(* The pool when the first k - 1 constants have been read. *)
PoolSoFar(cs, k) ==
  [j \in 0 .. PoolCount(cs) - 1 |-> IF j < IndexOf(cs, k) THEN PoolOf(cs)[j] ELSE NullEntry]

LEMMA PoolStarts ==
  ASSUME NEW cs, Len(cs) \in Nat, DOMAIN cs = 1 .. Len(cs)
  PROVE  PoolSoFar(cs, 1) = [j \in 0 .. PoolCount(cs) - 1 |-> NullEntry]
<1>1. IndexOf(cs, 1) = 1 /\ PoolOf(cs)[0] = NullEntry /\ PoolCount(cs) \in Nat
  BY PoolFacts, IndexSteps
<1> QED BY <1>1 DEF PoolSoFar

LEMMA PoolEnds ==
  ASSUME NEW cs, Len(cs) \in Nat, DOMAIN cs = 1 .. Len(cs)
  PROVE  PoolSoFar(cs, Len(cs) + 1) = PoolOf(cs)
<1> DEFINE C == PoolCount(cs)
           P == PoolOf(cs)
<1>1. C = IndexOf(cs, Len(cs) + 1) /\ C \in Nat /\ P = [j \in 0 .. C - 1 |-> P[j]]
  BY PoolFacts DEF PoolCount
<1> HIDE DEF C, P
<1>2. PoolSoFar(cs, Len(cs) + 1) = [j \in 0 .. C - 1 |-> IF j < C THEN P[j] ELSE NullEntry]
  BY <1>1 DEF PoolSoFar, C, P
<1> QED BY <1>1, <1>2 DEF P

LEMMA PoolGrows ==
  ASSUME NEW cs, Len(cs) \in Nat, DOMAIN cs = 1 .. Len(cs), NEW k \in 1 .. Len(cs)
  PROVE  /\ IndexOf(cs, k) \in DOMAIN PoolSoFar(cs, k)
         /\ PoolSoFar(cs, k + 1) = [PoolSoFar(cs, k) EXCEPT ![IndexOf(cs, k)] = cs[k]]
<1> DEFINE C == PoolCount(cs)
           P == PoolOf(cs)
           a == IndexOf(cs, k)
           b == IndexOf(cs, k + 1)
           p == PoolSoFar(cs, k)
           q == PoolSoFar(cs, k + 1)
<1>1. /\ C \in Nat /\ a \in 1 .. C - 1 /\ b = a + Steps(cs[k]) /\ b \in 1 .. C /\ P[a] = cs[k]
      /\ \A j \in a + 1 .. b - 1 : P[j] = NullEntry
  BY PoolFacts
<1>2. Steps(cs[k]) \in {1, 2}
  BY DEF Steps
<1>3. /\ p = [j \in 0 .. C - 1 |-> IF j < a THEN P[j] ELSE NullEntry]
      /\ q = [j \in 0 .. C - 1 |-> IF j < b THEN P[j] ELSE NullEntry]
  BY Zenon DEF PoolSoFar
<1> HIDE DEF C, P, a, b, p, q
<1>4. a \in DOMAIN p
  BY <1>1, <1>3
<1>5. ASSUME NEW j \in 0 .. C - 1 PROVE q[j] = IF j = a THEN cs[k] ELSE p[j]
  <2>1. CASE j < a
    BY <1>1, <1>2, <1>3, <2>1
  <2>2. CASE j = a
    BY <1>1, <1>2, <1>3, <2>2
  <2>3. CASE j > a /\ j < b
    <3>1. j \in a + 1 .. b - 1 /\ ~(j < a)
      BY <1>1, <1>2, <2>3
    <3> QED BY <1>1, <1>3, <2>3, <3>1
  <2>4. CASE j > a /\ ~(j < b)
    BY <1>1, <1>3, <2>4
  <2> QED BY <1>1, <2>1, <2>2, <2>3, <2>4
<1>6. q = [p EXCEPT ![a] = cs[k]]
  BY <1>1, <1>3, <1>5
<1> QED BY <1>4, <1>6 DEF a, p, q

-----------------------------------------------------------------------------
(* What an element of a table is encoded as.                               *)

LEMMA Assoc ==
  ASSUME NEW u \in Bits, NEW v \in Bits, NEW w \in Bits
  PROVE  (u \o v) \o w = u \o (v \o w) /\ u \o v \in Bits /\ Len(u) \in Nat
BY DEF Bits

LEMMA Joined ==
  ASSUME NEW u \in Bits, NEW v \in Bits
  PROVE  u \o v \in Bits /\ Len(u \o v) = Len(u) + Len(v) /\ Len(u) \in Nat /\ Len(v) \in Nat
BY DEF Bits

LEMMA AfterU2 ==
  ASSUME NEW n \in Nat, NEW v \in Bits
  PROVE  /\ EncodeU2(n) \in Bits /\ EncodeU2(n) \o v \in Bits
         /\ Len(EncodeU2(n) \o v) = 2 + Len(v) /\ Len(v) \in Nat
<1>1. EncodeU2(n) \in Bits /\ Len(EncodeU2(n)) = 2
  BY EncodedU2
<1> DEFINE u == EncodeU2(n)
<1>2. u \in Bits /\ Len(u) = 2
  BY <1>1
<1> HIDE DEF u
<1>3. u \o v \in Bits /\ Len(u \o v) = Len(u) + Len(v) /\ Len(v) \in Nat
  BY <1>2, Joined
<1> QED BY <1>2, <1>3 DEF u

LEMMA AfterU4 ==
  ASSUME NEW n \in Nat, NEW v \in Bits
  PROVE  /\ EncodeU4(n) \in Bits /\ EncodeU4(n) \o v \in Bits
         /\ Len(EncodeU4(n) \o v) = 4 + Len(v) /\ Len(v) \in Nat
<1>1. EncodeU4(n) \in Bits /\ Len(EncodeU4(n)) = 4
  BY EncodedU4
<1> DEFINE u == EncodeU4(n)
<1>2. u \in Bits /\ Len(u) = 4
  BY <1>1
<1> HIDE DEF u
<1>3. u \o v \in Bits /\ Len(u \o v) = Len(u) + Len(v) /\ Len(v) \in Nat
  BY <1>2, Joined
<1> QED BY <1>2, <1>3 DEF u

(* A table of encoded elements, with its count. *)
LEMMA CountedBits ==
  ASSUME NEW ss \in Seq(Bits)
  PROVE  /\ FlattenSeq(ss) \in Bits
         /\ EncodeU2(Len(ss)) \o FlattenSeq(ss) \in Bits
         /\ Len(EncodeU2(Len(ss)) \o FlattenSeq(ss)) = 2 + Len(FlattenSeq(ss))
<1>1. FlattenSeq(ss) \in Bits
  BY EndsExist DEF IsEnds
<1>2. Len(ss) \in Nat
  OBVIOUS
<1> QED BY <1>1, <1>2, AfterU2

LEMMA U2sBits ==
  ASSUME NEW s \in Seq(Nat)
  PROVE  EncodeAll(s, EncodeU2) \in Bits /\ Len(EncodeAll(s, EncodeU2)) = 2 * Len(s) /\ Len(s) \in Nat
<1>1. EncodeAll(s, EncodeU2) \in Bits /\ Len(EncodeAll(s, EncodeU2)) = 2 * Len(s)
  BY EncodedU2s, Zenon
<1>2. Len(s) \in Nat
  OBVIOUS
<1> QED BY <1>1, <1>2

BootstrapMethod == [method_ref : Nat, arguments : Seq(Nat)]

LEMMA BootstrapMethodBits ==
  ASSUME NEW m \in BootstrapMethod
  PROVE  /\ EncodeBootstrapMethod(m) =
              EncodeU2(m.method_ref) \o (EncodeU2(Len(m.arguments)) \o EncodeAll(m.arguments, EncodeU2))
         /\ EncodeBootstrapMethod(m) \in Bits
         /\ m.method_ref \in Nat /\ m.arguments \in Seq(Nat)
<1>1. m.method_ref \in Nat /\ m.arguments \in Seq(Nat) /\ Len(m.arguments) \in Nat
  BY DEF BootstrapMethod
<1>2. EncodeAll(m.arguments, EncodeU2) \in Bits
  BY <1>1, EncodedU2s
<1>4. EncodeBootstrapMethod(m) =
        EncodeU2(m.method_ref) \o (EncodeU2(Len(m.arguments)) \o EncodeAll(m.arguments, EncodeU2))
  BY Zenon DEF EncodeBootstrapMethod, Counting
<1>5. EncodeU2(Len(m.arguments)) \o EncodeAll(m.arguments, EncodeU2) \in Bits
  BY <1>1, <1>2, AfterU2
<1>6. EncodeBootstrapMethod(m) \in Bits
  BY <1>1, <1>4, <1>5, AfterU2
<1> QED BY <1>1, <1>4, <1>6

FlatKind == {"ConstantValue", "Exceptions", "Generic", "BootstrapMethods"}
Body(a) ==
  CASE a.kind = "ConstantValue"    -> EncodeU2(a.info[1])
    [] a.kind = "Exceptions"       -> Counting(a.info, EncodeU2)
    [] a.kind = "Generic"          -> a.info
    [] a.kind = "BootstrapMethods" -> Counting(a.attributes, EncodeBootstrapMethod)

LEMMA Bodies ==
  ASSUME NEW a
  PROVE  /\ a.kind = "ConstantValue"    => Body(a) = EncodeU2(a.info[1])
         /\ a.kind = "Exceptions"       => Body(a) = EncodeU2(Len(a.info)) \o EncodeAll(a.info, EncodeU2)
         /\ a.kind = "Generic"          => Body(a) = a.info
         /\ a.kind = "BootstrapMethods" =>
              Body(a) = EncodeU2(Len(a.attributes))
                          \o FlattenSeq([k \in DOMAIN a.attributes |-> EncodeBootstrapMethod(a.attributes[k])])
<1>1. CASE a.kind = "ConstantValue"
  BY <1>1 DEF Body
<1>2. CASE a.kind = "Exceptions"
  <2>1. Body(a) = Counting(a.info, EncodeU2)
    BY <1>2 DEF Body
  <2> QED BY <1>2, <2>1 DEF Counting
<1>3. CASE a.kind = "Generic"
  BY <1>3 DEF Body
<1>4. CASE a.kind = "BootstrapMethods"
  <2>1. Body(a) = Counting(a.attributes, EncodeBootstrapMethod)
    BY <1>4 DEF Body
  <2> QED BY <1>4, <2>1 DEF Counting, EncodeAll
<1> QED BY <1>1, <1>2, <1>3, <1>4

(* The name, the length and the rest of an attribute. *)
SizedBits(n, body) == EncodeU2(n) \o (EncodeU4(Len(body)) \o body)

LEMMA SizedIs ==
  ASSUME NEW a, a.name_index \in Nat, NEW body \in Bits
  PROVE  /\ Sized(a, body) = SizedBits(a.name_index, body)
         /\ Sized(a, body) \in Bits /\ Len(Sized(a, body)) = 6 + Len(body)
<1>1. Len(body) \in Nat
  BY DEF Bits
<1>2. /\ EncodeU2(a.name_index) \in Bits /\ Len(EncodeU2(a.name_index)) = 2
      /\ EncodeU4(Len(body)) \in Bits /\ Len(EncodeU4(Len(body))) = 4
  BY <1>1, EncodedU2, EncodedU4
<1> DEFINE u == EncodeU2(a.name_index)
           v == EncodeU4(Len(body))
<1>3. Sized(a, body) = (u \o v) \o body
  BY DEF Sized
<1>4. SizedBits(a.name_index, body) = u \o (v \o body)
  BY DEF SizedBits
<1>5. u \in Bits /\ Len(u) = 2 /\ v \in Bits /\ Len(v) = 4
  BY <1>2
<1> HIDE DEF u, v
<1>6. (u \o v) \o body = u \o (v \o body)
  BY <1>5, Assoc
<1> DEFINE r == v \o body
<1>7. r \in Bits /\ Len(r) = 4 + Len(body)
  BY <1>5, Joined
<1> HIDE DEF r
<1>9. u \o r \in Bits /\ Len(u \o r) = 2 + Len(r)
  BY <1>5, <1>7, Joined
<1>8. u \o (v \o body) \in Bits /\ Len(u \o (v \o body)) = 6 + Len(body)
  BY <1>1, <1>7, <1>9 DEF r
<1> QED BY <1>1, <1>3, <1>4, <1>6, <1>8

LEMMA FlatBits ==
  ASSUME NEW cs, NEW a, IsFlat(cs, a)
  PROVE  /\ a.kind \in FlatKind /\ a.name_index \in Nat
         /\ EncodeAttribute(a) = EncodeFlat(a)
         /\ EncodeFlat(a) = SizedBits(a.name_index, Body(a))
         /\ Body(a) \in Bits /\ EncodeFlat(a) \in Bits /\ Len(EncodeFlat(a)) = 6 + Len(Body(a))
         /\ a.kind = "BootstrapMethods" =>
              /\ a.attributes \in Seq(BootstrapMethod)
              /\ [k \in DOMAIN a.attributes |-> EncodeBootstrapMethod(a.attributes[k])] \in Seq(Bits)
<1>1. a.kind \in FlatKind /\ a.name_index \in Nat
  BY DEF IsFlat, FlatKind
<1>2. EncodeAttribute(a) = EncodeFlat(a)
  BY <1>1 DEF EncodeAttribute, FlatKind
<1>3. EncodeFlat(a) = Sized(a, Body(a))
  BY Zenon DEF EncodeFlat, Body
<1>4. a.kind = "BootstrapMethods" =>
              /\ a.attributes \in Seq(BootstrapMethod)
              /\ [k \in DOMAIN a.attributes |-> EncodeBootstrapMethod(a.attributes[k])] \in Seq(Bits)
  <2> SUFFICES ASSUME a.kind = "BootstrapMethods"
               PROVE  /\ a.attributes \in Seq(BootstrapMethod)
                      /\ [k \in DOMAIN a.attributes |-> EncodeBootstrapMethod(a.attributes[k])] \in Seq(Bits)
    OBVIOUS
  <2>1. a.attributes \in Seq(BootstrapMethod)
    BY DEF IsFlat, BootstrapMethod
  <2> DEFINE s == a.attributes
  <2> HIDE DEF s
  <2>2. s \in Seq(BootstrapMethod)
    BY <2>1 DEF s
  <2>3. ASSUME NEW k \in 1 .. Len(s) PROVE EncodeBootstrapMethod(s[k]) \in Bits
    <3>1. s[k] \in BootstrapMethod
      BY <2>2
    <3> QED BY <3>1, BootstrapMethodBits
  <2>4. [k \in DOMAIN s |-> EncodeBootstrapMethod(s[k])] \in Seq(Bits)
    BY <2>2, <2>3
  <2> QED BY <2>2, <2>4 DEF s
<1>5. Body(a) \in Bits
  <2>1. CASE a.kind = "ConstantValue"
    <3>1. a.info[1] \in Nat
      <4>1. a.info \in Seq(Nat) /\ Len(a.info) = 1
        BY <2>1 DEF IsFlat
      <4> QED BY <4>1
    <3> QED BY <2>1, <3>1, Bodies, EncodedU2
  <2>2. CASE a.kind = "Exceptions"
    <3>1. a.info \in Seq(Nat)
      BY <2>2 DEF IsFlat
    <3>2. EncodeAll(a.info, EncodeU2) \in Bits /\ Len(a.info) \in Nat
      BY <3>1, U2sBits, Zenon
    <3>3. EncodeU2(Len(a.info)) \o EncodeAll(a.info, EncodeU2) \in Bits
      BY <3>2, AfterU2
    <3> QED BY <2>2, <3>3, Bodies, Zenon
  <2>3. CASE a.kind = "Generic"
    <3>1. a.info \in Seq(Byte) /\ Byte \subseteq Nat
      BY <2>3 DEF IsFlat, Byte
    <3> QED BY <2>3, <3>1, Bodies, SeqMonotonic DEF Bits
  <2>4. CASE a.kind = "BootstrapMethods"
    <3> DEFINE s == a.attributes
               ss == [k \in DOMAIN s |-> EncodeBootstrapMethod(s[k])]
    <3>1. ss \in Seq(Bits) /\ Len(ss) = Len(s)
      BY <1>4, <2>4
    <3>2. Body(a) = EncodeU2(Len(s)) \o FlattenSeq(ss)
      BY <2>4, Bodies
    <3> HIDE DEF s, ss
    <3> QED BY <3>1, <3>2, CountedBits
  <2> QED BY <1>1, <2>1, <2>2, <2>3, <2>4 DEF FlatKind
<1>6. Sized(a, Body(a)) = SizedBits(a.name_index, Body(a)) /\ Sized(a, Body(a)) \in Bits
      /\ Len(Sized(a, Body(a))) = 6 + Len(Body(a))
  BY <1>1, <1>5, SizedIs
<1> QED BY <1>1, <1>2, <1>3, <1>4, <1>5, <1>6

LEMMA TableFacts ==
  ASSUME NEW s, IsTable(s)
  PROVE  /\ Len(s) \in Nat /\ DOMAIN s = 1 .. Len(s) /\ s \in Seq(Range(s))
         /\ \A k \in 1 .. Len(s) : s[k] \in Range(s)
         /\ s = [k \in 1 .. Len(s) |-> s[k]]
<1> DEFINE S == Range(s)
<1>1. s \in Seq(S)
  BY DEF IsTable
<1> HIDE DEF S
<1>2. Len(s) \in Nat /\ DOMAIN s = 1 .. Len(s) /\ s = [k \in 1 .. Len(s) |-> s[k]] /\ \A k \in 1 .. Len(s) : s[k] \in S
  BY <1>1
<1> QED BY <1>1, <1>2 DEF S

LEMMA FunctionIsSeq ==
  ASSUME NEW S, NEW n \in Nat, NEW f \in [1 .. n -> S]
  PROVE  f \in Seq(S) /\ Len(f) = n
<1>1. f \in Seq(S)
  BY SeqDef, Zenon
<1>2. DOMAIN f = 1 .. n
  OBVIOUS
<1> QED BY <1>1, <1>2

(* A table of members or of attributes, encoded. *)
LEMMA EncodedTable ==
  ASSUME NEW s, IsTable(s), NEW es, es = [k \in DOMAIN s |-> es[k]],
         \A k \in 1 .. Len(s) : es[k] \in Bits
  PROVE  /\ es \in Seq(Bits) /\ Len(es) = Len(s) /\ Len(s) \in Nat
         /\ FlattenSeq(es) \in Bits
         /\ EncodeU2(Len(s)) \o FlattenSeq(es) \in Bits
<1>1. Len(s) \in Nat /\ DOMAIN s = 1 .. Len(s)
  BY TableFacts
<1>2. es = [k \in 1 .. Len(s) |-> es[k]]
  BY <1>1
<1>3. es \in [1 .. Len(s) -> Bits]
  BY <1>2
<1>4. es \in Seq(Bits) /\ Len(es) = Len(s)
  BY <1>1, <1>3, FunctionIsSeq
<1>5. FlattenSeq(es) \in Bits
  BY <1>4, CountedBits
<1>6. EncodeU2(Len(es)) \o FlattenSeq(es) \in Bits
  BY <1>4, CountedBits
<1> QED BY <1>1, <1>4, <1>5, <1>6

(* Concatenation as an operator of its own, for the provers to rearrange.  *)
Then(u, v) == u \o v
LEMMA ThenAssoc ==
  ASSUME NEW u \in Bits, NEW v \in Bits, NEW w \in Bits
  PROVE  Then(u, v) \in Bits /\ Then(Then(u, v), w) = Then(u, Then(v, w))
BY DEF Bits, Then

LeftToRight(a, b, c, d, e, f, g) == Then(Then(Then(Then(Then(a, b), c), d), Then(e, f)), g)
RightToLeft(a, b, c, d, e, f, g) == Then(a, Then(b, Then(c, Then(d, Then(e, Then(f, g))))))

LEMMA InOrder ==
  ASSUME NEW a \in Bits, NEW b \in Bits, NEW c \in Bits, NEW d \in Bits, NEW e \in Bits, NEW f \in Bits, NEW g \in Bits
  PROVE  /\ LeftToRight(a, b, c, d, e, f, g) = RightToLeft(a, b, c, d, e, f, g)
         /\ RightToLeft(a, b, c, d, e, f, g) \in Bits
<1> DEFINE ab    == Then(a, b)
           abc   == Then(ab, c)
           abcd  == Then(abc, d)
           ef    == Then(e, f)
           fg    == Then(f, g)
           efg   == Then(e, fg)
           defg  == Then(d, efg)
           cdefg == Then(c, defg)
<1>1. ab \in Bits /\ ef \in Bits /\ fg \in Bits
  BY ThenAssoc
<1> HIDE DEF ab, ef, fg
<1>2. abc \in Bits /\ efg \in Bits
  BY <1>1, ThenAssoc
<1> HIDE DEF abc, efg
<1>3. abcd \in Bits /\ defg \in Bits
  BY <1>2, ThenAssoc
<1> HIDE DEF abcd, defg
<1>4. cdefg \in Bits
  BY <1>3, ThenAssoc
<1> HIDE DEF cdefg
<1>5. Then(Then(abcd, ef), g) = Then(abcd, Then(ef, g))
  BY <1>1, <1>3, ThenAssoc
<1>6. Then(ef, g) = efg
  BY ThenAssoc DEF ef, efg, fg
<1>7. Then(abcd, efg) = Then(abc, defg)
  BY <1>2, ThenAssoc DEF abcd, defg
<1>8. Then(abc, defg) = Then(ab, cdefg)
  BY <1>1, <1>3, ThenAssoc DEF abc, cdefg
<1>9. Then(ab, cdefg) = Then(a, Then(b, cdefg))
  BY <1>4, ThenAssoc DEF ab
<1>10. Then(Then(abcd, ef), g) = Then(a, Then(b, cdefg))
  BY <1>5, <1>6, <1>7, <1>8, <1>9
<1>11. Then(a, Then(b, cdefg)) \in Bits
  BY <1>4, ThenAssoc
<1>12. RightToLeft(a, b, c, d, e, f, g) = Then(a, Then(b, cdefg))
  BY Zenon DEF fg, efg, defg, cdefg, RightToLeft
<1>13. LeftToRight(a, b, c, d, e, f, g) = Then(Then(abcd, ef), g)
  BY Zenon DEF ab, abc, abcd, ef, LeftToRight
<1> QED BY <1>10, <1>11, <1>12, <1>13
(* The parts of a Code attribute, in their order. *)
CodeBody(a) ==
  EncodeU2(a.max_stack) \o (EncodeU2(a.max_locals) \o (EncodeU4(Len(a.code)) \o (a.code \o
    (EncodeU2(Len(a.exception_table)) \o (EncodeAll(a.exception_table, EncodeHandler) \o
      (EncodeU2(Len(a.attributes)) \o FlattenSeq([k \in DOMAIN a.attributes |-> EncodeFlat(a.attributes[k])])))))))

LEMMA CodeBits ==
  ASSUME NEW cs, NEW a, IsCode(cs, a)
  PROVE  /\ a.kind = "Code" /\ {a.name_index, a.max_stack, a.max_locals} \subseteq Nat
         /\ a.code \in Bits /\ Len(a.code) \in Nat
         /\ a.exception_table \in Seq(Handler) /\ Len(a.exception_table) \in Nat
         /\ EncodeAll(a.exception_table, EncodeHandler) \in Bits
         /\ Len(EncodeAll(a.exception_table, EncodeHandler)) = 8 * Len(a.exception_table)
         /\ IsTable(a.attributes) /\ Len(a.attributes) \in Nat
         /\ \A k \in 1 .. Len(a.attributes) : IsFlat(cs, a.attributes[k])
         /\ FlattenSeq([k \in DOMAIN a.attributes |-> EncodeFlat(a.attributes[k])]) \in Bits
         /\ EncodeAttribute(a) = SizedBits(a.name_index, CodeBody(a))
         /\ CodeBody(a) \in Bits /\ EncodeAttribute(a) \in Bits /\ Len(EncodeAttribute(a)) = 6 + Len(CodeBody(a))
<1>1. /\ a.kind = "Code" /\ {a.name_index, a.max_stack, a.max_locals} \subseteq Nat
      /\ a.code \in Seq(Byte) /\ a.exception_table \in Seq(Handler)
      /\ IsTable(a.attributes) /\ \A b \in Range(a.attributes) : IsFlat(cs, b)
  BY Zenon DEF IsCode
<1>2. a.code \in Bits /\ Len(a.code) \in Nat
  <2>1. Byte \subseteq Nat
    BY DEF Byte
  <2>2. a.code \in Seq(Nat)
    BY <1>1, <2>1, SeqMonotonic
  <2> QED BY <2>2 DEF Bits
<1>3. /\ EncodeAll(a.exception_table, EncodeHandler) \in Bits
      /\ Len(EncodeAll(a.exception_table, EncodeHandler)) = 8 * Len(a.exception_table)
  BY <1>1, EncodedHandlers, Zenon
<1>4. Len(a.exception_table) \in Nat
  BY <1>1
<1> DEFINE s == a.attributes
           es == [k \in DOMAIN s |-> EncodeFlat(s[k])]
<1>5. Len(s) \in Nat /\ DOMAIN s = 1 .. Len(s) /\ \A k \in 1 .. Len(s) : IsFlat(cs, s[k])
  BY <1>1, TableFacts
<1>6. /\ es \in Seq(Bits) /\ Len(es) = Len(s)
      /\ FlattenSeq(es) \in Bits /\ EncodeU2(Len(s)) \o FlattenSeq(es) \in Bits
  <2>1. \A k \in 1 .. Len(s) : es[k] \in Bits
    <3> SUFFICES ASSUME NEW k \in 1 .. Len(s) PROVE EncodeFlat(s[k]) \in Bits
      BY <1>5
    <3> QED BY <1>5, FlatBits
  <2>2. es = [k \in DOMAIN s |-> es[k]] /\ IsTable(s)
    BY <1>1
  <2> HIDE DEF es, s
  <2> QED BY <2>1, <2>2, EncodedTable
<1> DEFINE u == EncodeU2(a.max_stack)
           v == EncodeU2(a.max_locals)
           w == EncodeU4(Len(a.code))
           b == a.code
           x1 == EncodeU2(Len(a.exception_table))
           x2 == EncodeAll(a.exception_table, EncodeHandler)
           g == EncodeU2(Len(s)) \o FlattenSeq(es)
           left  == LeftToRight(u, v, w, b, x1, x2, g)
           right == RightToLeft(u, v, w, b, x1, x2, g)
<1>7. EncodeAttribute(a) = Sized(a, left)
  BY <1>1, Zenon DEF EncodeAttribute, Counting, EncodeAll, Then, LeftToRight
<1>8. CodeBody(a) = right
  BY Zenon DEF CodeBody, Then, RightToLeft
<1>9. u \in Bits /\ v \in Bits /\ w \in Bits /\ b \in Bits /\ x1 \in Bits /\ x2 \in Bits /\ g \in Bits
  BY <1>1, <1>2, <1>3, <1>4, <1>6, EncodedU2, EncodedU4
<1> HIDE DEF u, v, w, b, x1, x2, g
<1>10. left = right /\ right \in Bits
  BY <1>9, InOrder
<1>11. right \in Bits
  BY <1>10
<1> HIDE DEF left, right
<1>12. a.name_index \in Nat
  BY <1>1
<1>13. /\ Sized(a, right) = SizedBits(a.name_index, right)
       /\ Sized(a, right) \in Bits /\ Len(Sized(a, right)) = 6 + Len(right)
  BY <1>11, <1>12, SizedIs
<1> QED BY <1>1, <1>2, <1>3, <1>4, <1>5, <1>6, <1>7, <1>8, <1>10, <1>11, <1>13

(* The parts of a member, in their order. *)
MemberBits(m) ==
  EncodeU2(m.access_flags) \o (EncodeU2(m.name_index) \o (EncodeU2(m.descriptor_index) \o
    (EncodeU2(Len(m.attributes))
       \o FlattenSeq([k \in DOMAIN m.attributes |-> EncodeAttribute(m.attributes[k])]))))

LEMMA MemberIs ==
  ASSUME NEW cs, NEW m, IsMember(cs, m)
  PROVE  /\ {m.access_flags, m.name_index, m.descriptor_index} \subseteq Nat
         /\ IsTable(m.attributes) /\ Len(m.attributes) \in Nat
         /\ \A k \in 1 .. Len(m.attributes) : IsFlat(cs, m.attributes[k]) \/ IsCode(cs, m.attributes[k])
         /\ FlattenSeq([k \in DOMAIN m.attributes |-> EncodeAttribute(m.attributes[k])]) \in Bits
         /\ EncodeMember(m) = MemberBits(m) /\ MemberBits(m) \in Bits
<1>1. /\ {m.access_flags, m.name_index, m.descriptor_index} \subseteq Nat
      /\ IsTable(m.attributes) /\ \A b \in Range(m.attributes) : IsFlat(cs, b) \/ IsCode(cs, b)
  <2>1. m.access_flags \in Nat /\ \A n \in {m.name_index, m.descriptor_index} : n \in Nat
    BY Zenon DEF IsMember
  <2> QED BY <2>1, Zenon DEF IsMember
<1> DEFINE s == m.attributes
           es == [k \in DOMAIN s |-> EncodeAttribute(s[k])]
<1>2. Len(s) \in Nat /\ DOMAIN s = 1 .. Len(s) /\ \A k \in 1 .. Len(s) : IsFlat(cs, s[k]) \/ IsCode(cs, s[k])
  BY <1>1, TableFacts
<1>3. FlattenSeq(es) \in Bits /\ EncodeU2(Len(s)) \o FlattenSeq(es) \in Bits
  <2>1. \A k \in 1 .. Len(s) : es[k] \in Bits
    <3> SUFFICES ASSUME NEW k \in 1 .. Len(s) PROVE EncodeAttribute(s[k]) \in Bits
      BY <1>2
    <3>1. CASE IsFlat(cs, s[k])
      BY <3>1, FlatBits
    <3>2. CASE IsCode(cs, s[k])
      BY <3>2, CodeBits
    <3> QED BY <1>2, <3>1, <3>2
  <2>2. es = [k \in DOMAIN s |-> es[k]] /\ IsTable(s)
    BY <1>1
  <2> HIDE DEF es, s
  <2> QED BY <2>1, <2>2, EncodedTable
<1> DEFINE u == EncodeU2(m.access_flags)
           v == EncodeU2(m.name_index)
           w == EncodeU2(m.descriptor_index)
           g == EncodeU2(Len(s)) \o FlattenSeq(es)
<1>4. EncodeMember(m) = Then(Then(Then(u, v), w), g)
  BY Zenon DEF EncodeMember, Counting, EncodeAll, Then
<1>5. MemberBits(m) = Then(u, Then(v, Then(w, g)))
  BY Zenon DEF MemberBits, Then
<1>6. u \in Bits /\ v \in Bits /\ w \in Bits /\ g \in Bits
  BY <1>1, <1>3, EncodedU2
<1> HIDE DEF u, v, w, g
<1> DEFINE wg == Then(w, g)
           uv == Then(u, v)
<1>7. wg \in Bits /\ uv \in Bits
  BY <1>6, ThenAssoc
<1> HIDE DEF wg, uv
<1>8. Then(Then(uv, w), g) = Then(uv, wg)
  BY <1>6, <1>7, ThenAssoc DEF wg
<1>9. Then(uv, wg) = Then(u, Then(v, wg)) /\ Then(v, wg) \in Bits
  BY <1>6, <1>7, ThenAssoc DEF uv
<1> DEFINE y == Then(v, wg)
<1>10. y \in Bits
  BY <1>9
<1> HIDE DEF y
<1>11. Then(u, y) \in Bits
  BY <1>6, <1>10, ThenAssoc
<1>12. EncodeMember(m) = MemberBits(m) /\ MemberBits(m) \in Bits
  BY <1>4, <1>5, <1>8, <1>9, <1>11, Zenon DEF wg, uv, y
<1> QED BY <1>1, <1>2, <1>3, <1>12

-----------------------------------------------------------------------------
(* Attributes and members, read. *)

LEMMA NameFound ==
  ASSUME NEW cs, Len(cs) \in Nat, DOMAIN cs = 1 .. Len(cs), pool = PoolOf(cs), NEW n, NEW kind
  PROVE  /\ IsText(cs, n) => IsUtf8(n)
         /\ IsName(cs, n, kind) => IsUtf8(n) /\ KindOf(Utf8At(n)) = kind
<1>1. ASSUME NEW k \in DOMAIN cs, IndexOf(cs, k) = n, cs[k].tag = Utf8
      PROVE  IsUtf8(n) /\ Utf8At(n) = cs[k].bytes
  <2>1. /\ IndexOf(cs, k) \in 1 .. PoolCount(cs) - 1 /\ PoolOf(cs)[IndexOf(cs, k)] = cs[k]
        /\ DOMAIN PoolOf(cs) = 0 .. PoolCount(cs) - 1 /\ PoolCount(cs) \in Nat
    BY <1>1, PoolFacts
  <2>2. n # 0 /\ n \in DOMAIN pool /\ pool[n] = cs[k]
    BY <1>1, <2>1
  <2> QED BY <1>1, <2>2 DEF IsUtf8, Utf8At
<1>2. IsText(cs, n) => IsUtf8(n)
  BY <1>1, Zenon DEF IsText
<1>3. ASSUME IsName(cs, n, kind) PROVE IsUtf8(n) /\ KindOf(Utf8At(n)) = kind
  <2>1. PICK k \in DOMAIN cs : IndexOf(cs, k) = n /\ cs[k].tag = Utf8 /\ KindOf(cs[k].bytes) = kind
    BY <1>3, Zenon DEF IsName
  <2> QED BY <1>1, <2>1, Zenon
<1> QED BY <1>2, <1>3, Zenon

(* The name and the length of an attribute, and what is after them. *)
LEMMA AttributeHead ==
  ASSUME Source, NEW cs, Len(cs) \in Nat, DOMAIN cs = 1 .. Len(cs), pool = PoolOf(cs),
         NEW n \in Nat, NEW kind, IsName(cs, n, kind), NEW body \in Bits,
         Holds(File, pos, SizedBits(n, body))
  PROVE  /\ checkBounds(6) => U2(0) = n /\ U4(2) = Len(body) /\ IsUtf8(U2(0)) /\ Kind = kind
         /\ Holds(File, pos + 6, body)
         /\ SizedBits(n, body) \in Bits /\ Len(SizedBits(n, body)) = 6 + Len(body)
         /\ Len(body) \in Nat
<1>0. pos \in Nat /\ pos + 0 = pos /\ Len(body) \in Nat
  BY DEF Source, Bits
<1> DEFINE r == EncodeU4(Len(body)) \o body
<1>1. r \in Bits /\ Len(r) = 4 + Len(body) /\ SizedBits(n, body) = EncodeU2(n) \o r
  BY <1>0, AfterU4 DEF SizedBits
<1> HIDE DEF r
<1>2. /\ checkBounds(0 + 2) => U2(0) = n
      /\ Holds(File, pos + (0 + 2), r)
      /\ EncodeU2(n) \o r \in Bits /\ Len(EncodeU2(n) \o r) = 2 + Len(r)
  <2>1. Holds(File, pos + 0, EncodeU2(n) \o r) /\ 0 \in Nat
    BY <1>0, <1>1
  <2> QED BY <1>1, <2>1, SplitU2
<1>3. /\ checkBounds(2 + 4) => U4(2) = Len(body)
      /\ Holds(File, pos + (2 + 4), body)
  <2>1. Holds(File, pos + 2, EncodeU4(Len(body)) \o body) /\ 2 \in Nat
    BY <1>2 DEF r
  <2> QED BY <1>0, <2>1, SplitU4
<1>4. checkBounds(6) => checkBounds(2)
  BY FewerBytes
<1>5. IsUtf8(n) /\ KindOf(Utf8At(n)) = kind
  BY NameFound
<1>6. ASSUME checkBounds(6) PROVE U2(0) = n /\ U4(2) = Len(body) /\ IsUtf8(U2(0)) /\ Kind = kind
  BY <1>2, <1>3, <1>4, <1>5, <1>6 DEF Kind
<1> QED BY <1>0, <1>1, <1>2, <1>3, <1>6

(* How large the parser takes an attribute of a kind for. *)
LEMMA SizeByKind ==
  ASSUME checkBounds(6), IsUtf8(U2(0))
  PROVE  /\ Kind = "ConstantValue"    => AttributeSize = 8
         /\ Kind = "Exceptions"       => AttributeSize = Counted(8, 2)
         /\ Kind = "Code"             => AttributeSize = CodeSize
         /\ Kind = "BootstrapMethods" => AttributeSize = 8
         /\ Kind = "Generic"          => AttributeSize = 6 + U4(2)
BY DEF AttributeSize

LEMMA SixBytes ==
  ASSUME Source, checkBounds(AttributeSize)
  PROVE  checkBounds(6)
<1>1. CASE ~checkBounds(6)
  BY <1>1 DEF AttributeSize
<1> QED BY <1>1

(* An attribute as it is read, p, and as it is described, a. *)
AttributeRead(p, a) ==
  /\ p.kind = a.kind /\ AttributeOf(p) = a
  /\ a.kind = "Code" => p.code = a.code /\ p.max_stack = a.max_stack /\ p.max_locals = a.max_locals

LEMMA FlatUnsized ==
  ASSUME NEW k, k # "Code", NEW n, NEW l, NEW v
  PROVE  AttributeRead([kind |-> k, name_index |-> n, length |-> l, info |-> v],
                       [kind |-> k, name_index |-> n, info |-> v])
<1> DEFINE p == [kind |-> k, name_index |-> n, length |-> l, info |-> v]
           a == [kind |-> k, name_index |-> n, info |-> v]
<1>1. Unsized(p) = a
  BY DEF Unsized
<1>2. p.kind = k /\ a.kind = k
  OBVIOUS
<1> HIDE DEF p, a
<1>3. AttributeOf(p) = Unsized(p)
  BY <1>2 DEF AttributeOf
<1>4. AttributeRead(p, a)
  BY <1>1, <1>2, <1>3 DEF AttributeRead
<1> QED BY <1>4 DEF p, a

LEMMA FlatRead ==
  ASSUME Source, NEW cs, Len(cs) \in Nat, DOMAIN cs = 1 .. Len(cs), pool = PoolOf(cs),
         NEW a, IsFlat(cs, a), a.kind # "BootstrapMethods", Holds(File, pos, EncodeAttribute(a))
  PROVE  /\ checkBounds(6) => IsUtf8(U2(0)) /\ Kind = a.kind
         /\ checkBounds(AttributeSize) =>
              /\ AttributeSize = Len(EncodeAttribute(a))
              /\ AttributeRead(FlatAttribute, a)
         /\ Whole => checkBounds(AttributeSize)
<1> DEFINE k == a.kind
           n == a.name_index
           b == Body(a)
           w == EncodeAttribute(a)
<1>1. /\ k \in {"ConstantValue", "Exceptions", "Generic"} /\ n \in Nat /\ IsName(cs, n, k)
      /\ a = [kind |-> k, name_index |-> n, info |-> a.info]
      /\ k = "ConstantValue" => a.info \in Seq(Nat) /\ Len(a.info) = 1
      /\ k = "Exceptions" => a.info \in Seq(Nat)
      /\ k = "Generic" => a.info \in Seq(Byte)
  <2>1. k \in {"ConstantValue", "Exceptions", "Generic"} /\ n \in Nat /\ IsName(cs, n, k)
        /\ a = [kind |-> k, name_index |-> n, info |-> a.info]
        /\ a.info \in Seq(IF k = "Generic" THEN Byte ELSE Nat)
        /\ (k = "ConstantValue" => Len(a.info) = 1)
    BY Zenon DEF IsFlat
  <2> QED BY <2>1
<1>2. w = SizedBits(n, b) /\ b \in Bits /\ w \in Bits /\ Len(w) = 6 + Len(b) /\ Len(b) \in Nat
  <2>1. w = SizedBits(n, b) /\ b \in Bits /\ w \in Bits /\ Len(w) = 6 + Len(b)
    BY FlatBits
  <2> QED BY <2>1 DEF Bits
<1>3. Holds(File, pos, w)
  OBVIOUS
<1>4. Body(a) = b
  OBVIOUS
<1> HIDE DEF b, w
<1>5. /\ checkBounds(6) => U2(0) = n /\ U4(2) = Len(b) /\ IsUtf8(U2(0)) /\ Kind = k
      /\ Holds(File, pos + 6, b)
  BY <1>1, <1>2, <1>3, AttributeHead
<1>6. ASSUME NEW l PROVE AttributeRead([kind |-> k, name_index |-> n, length |-> l, info |-> a.info], a)
  <2>1. k # "Code"
    BY <1>1
  <2>2. AttributeRead([kind |-> k, name_index |-> n, length |-> l, info |-> a.info],
                      [kind |-> k, name_index |-> n, info |-> a.info])
    BY <2>1, FlatUnsized
  <2> QED BY <1>1, <2>2, Zenon
<1> DEFINE v == CASE Kind = "ConstantValue" -> <<U2(6)>>
                  [] Kind = "Exceptions"    -> U2s(8, U2(6))
                  [] Kind = "Generic"       -> Bytes(6, U4(2))
<1>7. FlatAttribute = [kind |-> Kind, name_index |-> U2(0), length |-> U4(2), info |-> v]
  BY Zenon DEF FlatAttribute
<1>8. ASSUME checkBounds(6), AttributeSize = Len(w), v = a.info
      PROVE  AttributeRead(FlatAttribute, a)
  BY <1>5, <1>6, <1>7, <1>8
<1>9. checkBounds(AttributeSize) => checkBounds(6)
  BY SixBytes
<1>10. Whole => checkBounds(6) /\ checkBounds(6 + Len(b))
  <2>1. 6 <= Len(w) /\ 6 + Len(b) <= Len(w) /\ 6 \in Nat /\ 6 + Len(b) \in Nat
    BY <1>2
  <2> QED BY <1>2, <1>3, <2>1, WholeFile
<1>11. CASE k = "ConstantValue"
  <2>1. b = EncodeU2(a.info[1]) /\ a.info[1] \in Nat /\ a.info = <<a.info[1]>>
    <3>1. b = EncodeU2(a.info[1])
      BY <1>4, <1>11, Bodies
    <3>2. a.info \in Seq(Nat) /\ Len(a.info) = 1
      BY <1>1, <1>11
    <3> DEFINE s == a.info
    <3>3. s \in Seq(Nat) /\ Len(s) = 1
      BY <3>2
    <3> HIDE DEF s
    <3>4. s[1] \in Nat /\ s = <<s[1]>>
      BY <3>3
    <3> QED BY <3>1, <3>4 DEF s
  <2>2. Len(b) = 2
    BY <2>1, EncodedU2
  <2>3. checkBounds(6) => AttributeSize = 8
    BY <1>5, <1>11, SizeByKind
  <2>4. ASSUME checkBounds(8) PROVE U2(6) = a.info[1]
    <3>1. checkBounds(6 + 2) /\ 6 \in Nat /\ Holds(File, pos + 6, EncodeU2(a.info[1]))
      BY <1>5, <2>1, <2>4
    <3> QED BY <2>1, <3>1, ReadU2
  <2>5. Kind = k => v = <<U2(6)>>
    BY <1>11
  <2> HIDE DEF v, k
  <2>6. ASSUME checkBounds(AttributeSize) PROVE AttributeSize = Len(w) /\ AttributeRead(FlatAttribute, a)
    <3>1. checkBounds(6) /\ AttributeSize = 8 /\ AttributeSize = Len(w)
      BY <1>2, <1>9, <2>2, <2>3, <2>6
    <3>2. v = a.info
      BY <1>5, <2>1, <2>4, <2>5, <2>6, <3>1
    <3> QED BY <1>8, <3>1, <3>2
  <2>7. Whole => checkBounds(AttributeSize)
    BY <1>10, <2>2, <2>3
  <2> QED BY <1>5, <2>6, <2>7 DEF w, k
<1>12. CASE k = "Exceptions"
  <2>1. b = EncodeU2(Len(a.info)) \o EncodeAll(a.info, EncodeU2)
    BY <1>4, <1>12, Bodies
  <2>2. EncodeAll(a.info, EncodeU2) \in Bits /\ Len(EncodeAll(a.info, EncodeU2)) = 2 * Len(a.info)
        /\ Len(a.info) \in Nat
    BY <1>1, <1>12, U2sBits, Zenon
  <2>3. /\ checkBounds(6 + 2) => U2(6) = Len(a.info)
        /\ Holds(File, pos + (6 + 2), EncodeAll(a.info, EncodeU2))
        /\ Len(b) = 2 + Len(EncodeAll(a.info, EncodeU2))
    <3>1. Holds(File, pos + 6, EncodeU2(Len(a.info)) \o EncodeAll(a.info, EncodeU2)) /\ 6 \in Nat
      BY <1>5, <2>1
    <3> DEFINE m == Len(a.info)
               y == EncodeAll(a.info, EncodeU2)
    <3>2. m \in Nat /\ y \in Bits /\ b = EncodeU2(m) \o y /\ Holds(File, pos + 6, EncodeU2(m) \o y) /\ 6 \in Nat
      BY <2>1, <2>2, <3>1
    <3> HIDE DEF m, y
    <3>3. /\ checkBounds(6 + 2) => U2(6) = m
          /\ Holds(File, pos + (6 + 2), y)
          /\ Len(EncodeU2(m) \o y) = 2 + Len(y)
      BY <3>2, SplitU2
    <3> QED BY <3>2, <3>3 DEF m, y
  <2>4. checkBounds(6) => AttributeSize = Counted(8, 2)
    BY <1>5, <1>12, SizeByKind
  <2>5. checkBounds(8) => Counted(8, 2) = 8 + 2 * Len(a.info) /\ U2(6) = Len(a.info)
    BY <2>3 DEF Counted
  <2>6. ~checkBounds(8) => Counted(8, 2) = 8
    BY DEF Counted
  <2>7. ASSUME checkBounds(8 + 2 * Len(a.info)) PROVE U2s(8, Len(a.info)) = a.info
    <3>1. Holds(File, pos + 8, EncodeAll(a.info, EncodeU2)) /\ 8 \in Nat /\ a.info \in Seq(Nat)
      BY <1>1, <1>12, <2>3
    <3> QED BY <2>7, <3>1, ReadU2s
  <2>8. Kind = k => v = U2s(8, U2(6))
    BY <1>12
  <2> HIDE DEF v, k
  <2>9. ASSUME checkBounds(AttributeSize) PROVE AttributeSize = Len(w) /\ AttributeRead(FlatAttribute, a)
    <3>1. checkBounds(6) /\ checkBounds(8)
      BY <1>9, <2>4, <2>6, <2>9
    <3>2. AttributeSize = 8 + 2 * Len(a.info) /\ U2(6) = Len(a.info) /\ AttributeSize = Len(w)
      BY <1>2, <2>2, <2>3, <2>4, <2>5, <3>1
    <3>3. v = a.info
      BY <1>5, <2>7, <2>8, <2>9, <3>1, <3>2
    <3> QED BY <1>8, <3>1, <3>2, <3>3
  <2>10. Whole => checkBounds(AttributeSize)
    <3>1. Whole => checkBounds(8)
      <4>1. 8 <= Len(w) /\ 8 \in Nat
        BY <1>2, <2>2, <2>3
      <4> QED BY <1>2, <1>3, <4>1, WholeFile
    <3> QED BY <1>10, <2>2, <2>3, <2>4, <2>5, <3>1
  <2> QED BY <1>5, <2>9, <2>10 DEF w, k
<1>13. CASE k = "Generic"
  <2>1. b = a.info
    BY <1>4, <1>13, Bodies
  <2>2. checkBounds(6) => AttributeSize = 6 + Len(b)
    BY <1>5, <1>13, SizeByKind
  <2>3. ASSUME checkBounds(6 + Len(b)) PROVE Bytes(6, Len(b)) = b
    <3>1. 6 \in Nat /\ b \in Bits /\ Holds(File, pos + 6, b)
      BY <1>2, <1>5
    <3> QED BY <2>3, <3>1, ReadBytes
  <2>4. Kind = k => v = Bytes(6, U4(2))
    BY <1>13
  <2> HIDE DEF v, k
  <2>5. ASSUME checkBounds(AttributeSize) PROVE AttributeSize = Len(w) /\ AttributeRead(FlatAttribute, a)
    <3>1. checkBounds(6) /\ AttributeSize = 6 + Len(b) /\ AttributeSize = Len(w)
      BY <1>2, <1>9, <2>2, <2>5
    <3>2. v = a.info
      BY <1>5, <2>1, <2>3, <2>4, <2>5, <3>1
    <3> QED BY <1>8, <3>1, <3>2
  <2>6. Whole => checkBounds(AttributeSize)
    BY <1>10, <2>2
  <2> QED BY <1>5, <2>5, <2>6 DEF w, k
<1> QED BY <1>1, <1>11, <1>12, <1>13

(* The elements that wait for a table, of which they are the owners. *)
CodeItem(a, l) ==
  [kind |-> "Code", name_index |-> a.name_index, length |-> l,
   max_stack |-> a.max_stack, max_locals |-> a.max_locals, code |-> a.code,
   exception_table |-> a.exception_table, attributes |-> <<>>]
BootstrapItem(a, l) ==
  [kind |-> "BootstrapMethods", name_index |-> a.name_index, length |-> l, attributes |-> <<>>]
MemberItem(m) ==
  [kind |-> "member", access_flags |-> m.access_flags, name_index |-> m.name_index,
   descriptor_index |-> m.descriptor_index, attributes |-> <<>>]

LEMMA CodeRead ==
  ASSUME Source, NEW cs, Len(cs) \in Nat, DOMAIN cs = 1 .. Len(cs), pool = PoolOf(cs),
         NEW a, IsCode(cs, a), Holds(File, pos, EncodeAttribute(a)),
         NEW g, g = FlattenSeq([k \in DOMAIN a.attributes |-> EncodeFlat(a.attributes[k])])
  PROVE  /\ checkBounds(6) => IsUtf8(U2(0)) /\ Kind = "Code"
         /\ checkBounds(AttributeSize) =>
              /\ AttributeSize \in Nat /\ Len(EncodeAttribute(a)) = AttributeSize + Len(g)
              /\ Holds(File, pos + AttributeSize, g)
              /\ U2(AttributeSize - 2) = Len(a.attributes)
              /\ CodeAttribute = CodeItem(a, U4(2))
         /\ Whole => checkBounds(AttributeSize)
<1> DEFINE n == a.name_index
           ms == a.max_stack
           ml == a.max_locals
           c == a.code
           t == a.exception_table
           z == Len(c)
           h == Len(t)
           e == EncodeAll(t, EncodeHandler)
           q == Len(a.attributes)
           w == EncodeAttribute(a)
           b == CodeBody(a)
           r1 == EncodeU2(q) \o g
           r2 == e \o r1
           r3 == EncodeU2(h) \o r2
           r4 == c \o r3
           r5 == EncodeU4(z) \o r4
           r6 == EncodeU2(ml) \o r5
<1>1. /\ a.kind = "Code" /\ {n, ms, ml, z, h, q} \subseteq Nat /\ c \in Bits
      /\ t \in Seq(Handler) /\ e \in Bits /\ Len(e) = 8 * h /\ g \in Bits
      /\ w = SizedBits(n, b) /\ b \in Bits /\ w \in Bits /\ Len(w) = 6 + Len(b)
  <2>1. /\ a.kind = "Code" /\ {a.name_index, a.max_stack, a.max_locals} \subseteq Nat
        /\ a.code \in Bits /\ Len(a.code) \in Nat
        /\ a.exception_table \in Seq(Handler) /\ Len(a.exception_table) \in Nat
        /\ EncodeAll(a.exception_table, EncodeHandler) \in Bits
        /\ Len(EncodeAll(a.exception_table, EncodeHandler)) = 8 * Len(a.exception_table)
        /\ Len(a.attributes) \in Nat /\ g \in Bits
        /\ EncodeAttribute(a) = SizedBits(a.name_index, CodeBody(a))
        /\ CodeBody(a) \in Bits /\ EncodeAttribute(a) \in Bits /\ Len(EncodeAttribute(a)) = 6 + Len(CodeBody(a))
    BY CodeBits, Zenon
  <2> QED BY <2>1
<1>2. b = EncodeU2(ms) \o r6
  BY Zenon DEF CodeBody
<1>3. IsName(cs, n, "Code") /\ Holds(File, pos, w) /\ pos \in Nat
  BY DEF IsCode, Source
<1>4. CodeItem(a, U4(2)) = [kind |-> "Code", name_index |-> n, length |-> U4(2), max_stack |-> ms, max_locals |-> ml,
                            code |-> c, exception_table |-> t, attributes |-> <<>>]
  BY Zenon DEF CodeItem
<1>5. z = Len(c) /\ h = Len(t)
  OBVIOUS
<1> HIDE DEF n, ms, ml, c, t, z, h, e, q, w, b
<1>6. r1 \in Bits /\ Len(r1) = 2 + Len(g) /\ Len(g) \in Nat
  BY <1>1, AfterU2
<1> HIDE DEF r1
<1>7. r2 \in Bits /\ Len(r2) = Len(e) + Len(r1)
  BY <1>1, <1>6, Joined
<1> HIDE DEF r2
<1>8. r3 \in Bits /\ Len(r3) = 2 + Len(r2)
  BY <1>1, <1>7, AfterU2
<1> HIDE DEF r3
<1>9. r4 \in Bits /\ Len(r4) = z + Len(r3)
  BY <1>1, <1>5, <1>8, Joined
<1> HIDE DEF r4
<1>10. r5 \in Bits /\ Len(r5) = 4 + Len(r4)
  BY <1>1, <1>9, AfterU4
<1> HIDE DEF r5
<1>11. r6 \in Bits /\ Len(r6) = 2 + Len(r5) /\ Len(b) = 2 + Len(r6)
  <2>1. r6 \in Bits /\ Len(r6) = 2 + Len(r5)
    BY <1>1, <1>10, AfterU2
  <2> HIDE DEF r6
  <2> QED BY <1>1, <1>2, <2>1, AfterU2
<1> HIDE DEF r6
<1>30. z \in Nat /\ h \in Nat /\ 8 * h \in Nat /\ Len(g) \in Nat
  <2>1. z \in Nat /\ h \in Nat
    BY <1>1
  <2> QED BY <1>6, <2>1
<1>12. Len(w) = (18 + z + 8 * h) + Len(g)
  <2> DEFINE y == 8 * h
  <2>1. y \in Nat /\ Len(e) = y
    BY <1>1, <1>30
  <2>2. Len(w) = 6 + Len(b)
    BY <1>1
  <2> HIDE DEF y
  <2>4. Len(r1) = 2 + Len(g) /\ Len(r2) = y + Len(r1) /\ Len(r3) = 2 + Len(r2) /\ Len(r4) = z + Len(r3)
    BY <1>6, <1>7, <1>8, <1>9, <2>1
  <2>5. Len(r4) = z + (2 + (y + (2 + Len(g))))
    BY <2>4, Zenon
  <2>6. Len(r5) = 4 + Len(r4) /\ Len(r6) = 2 + Len(r5) /\ Len(b) = 2 + Len(r6)
    BY <1>10, <1>11
  <2>7. Len(w) = 6 + (2 + (2 + (4 + (z + (2 + (y + (2 + Len(g))))))))
    BY <2>2, <2>5, <2>6, Zenon
  <2>8. z \in Nat /\ y \in Nat /\ Len(g) \in Nat
    BY <1>30, <2>1
  <2>9. 6 + (2 + (2 + (4 + (z + (2 + (y + (2 + Len(g)))))))) = (18 + z + y) + Len(g)
    BY <2>8
  <2>3. Len(w) = (18 + z + y) + Len(g)
    BY <2>7, <2>9, Zenon
  <2> QED BY <2>3 DEF y
<1>13. /\ checkBounds(6) => U2(0) = n /\ U4(2) = Len(b) /\ IsUtf8(U2(0)) /\ Kind = "Code"
       /\ Holds(File, pos + 6, b)
  <2>1. n \in Nat /\ b \in Bits /\ Holds(File, pos, SizedBits(n, b))
    BY <1>1, <1>3
  <2> QED BY <1>3, <2>1, AttributeHead
<1>14. (checkBounds(8) => U2(6) = ms) /\ Holds(File, pos + 8, r6)
  <2>1. 6 \in Nat /\ ms \in Nat /\ Holds(File, pos + 6, EncodeU2(ms) \o r6)
    BY <1>1, <1>2, <1>13
  <2>2. (checkBounds(6 + 2) => U2(6) = ms) /\ Holds(File, pos + (6 + 2), r6)
    BY <1>11, <2>1, SplitU2
  <2> QED BY <2>2
<1>15. (checkBounds(10) => U2(8) = ml) /\ Holds(File, pos + 10, r5)
  <2>1. 8 \in Nat /\ ml \in Nat /\ Holds(File, pos + 8, EncodeU2(ml) \o r5)
    BY <1>1, <1>14 DEF r6
  <2>2. (checkBounds(8 + 2) => U2(8) = ml) /\ Holds(File, pos + (8 + 2), r5)
    BY <1>10, <2>1, SplitU2
  <2> QED BY <2>2
<1>16. (checkBounds(14) => U4(10) = z) /\ Holds(File, pos + 14, r4)
  <2>1. 10 \in Nat /\ z \in Nat /\ Holds(File, pos + 10, EncodeU4(z) \o r4)
    BY <1>1, <1>15 DEF r5
  <2>2. (checkBounds(10 + 4) => U4(10) = z) /\ Holds(File, pos + (10 + 4), r4)
    BY <1>9, <2>1, SplitU4
  <2> QED BY <2>2
<1>17. Holds(File, pos + 14, c) /\ Holds(File, pos + (14 + z), r3)
  <2>1. 14 \in Nat /\ Holds(File, pos + 14, c \o r3)
    BY <1>16 DEF r4
  <2>2. Holds(File, pos + 14, c) /\ Holds(File, pos + (14 + Len(c)), r3)
    BY <1>1, <1>8, <2>1, Split
  <2> QED BY <1>5, <2>2
<1> DEFINE d == 14 + z
<1>18. d \in Nat /\ d + 2 \in Nat /\ (d + 2) + 8 * h \in Nat
  BY <1>30
<1>19. (checkBounds(d + 2) => U2(d) = h) /\ Holds(File, pos + (d + 2), r2)
  <2>1. Holds(File, pos + d, EncodeU2(h) \o r2) /\ h \in Nat
    BY <1>1, <1>17 DEF r3
  <2> QED BY <1>7, <1>18, <2>1, SplitU2
<1> HIDE DEF d
<1>20. Holds(File, pos + (d + 2), e) /\ Holds(File, pos + ((d + 2) + 8 * h), r1)
  <2>1. Holds(File, pos + (d + 2), e \o r1)
    BY <1>19 DEF r2
  <2>2. Holds(File, pos + (d + 2), e) /\ Holds(File, pos + ((d + 2) + Len(e)), r1)
    BY <1>1, <1>6, <1>18, <2>1, Split
  <2> QED BY <1>1, <2>2
<1> DEFINE k == (d + 2) + 8 * h
<1>21. (checkBounds(k + 2) => U2(k) = q) /\ Holds(File, pos + (k + 2), g)
  <2>1. Holds(File, pos + k, EncodeU2(q) \o g) /\ q \in Nat
    BY <1>1, <1>20 DEF r1
  <2> QED BY <1>1, <1>18, <2>1, SplitU2
<1> HIDE DEF k
<1>22. k \in Nat /\ k + 2 = 18 + z + 8 * h /\ d = 14 + z
  <2> DEFINE y == 8 * h
  <2>1. y \in Nat
    BY <1>30
  <2>2. k = ((14 + z) + 2) + y /\ d = 14 + z
    BY DEF k, d
  <2> HIDE DEF y
  <2>3. k \in Nat /\ k + 2 = 18 + z + y
    BY <1>30, <2>1, <2>2
  <2> QED BY <2>2, <2>3 DEF y
<1>23. checkBounds(6) => AttributeSize = CodeSize
  BY <1>13, SizeByKind
<1>24. checkBounds(14) => CodeEnd = d
  BY <1>16, <1>22 DEF CodeEnd
<1>25. checkBounds(14) /\ checkBounds(d + 2) => CodeSize = k + 2
  <2> SUFFICES ASSUME checkBounds(14), checkBounds(d + 2) PROVE CodeSize = k + 2
    OBVIOUS
  <2> DEFINE y == 8 * h
  <2>1. CodeSize = d + 4 + y
    BY <1>19, <1>24 DEF CodeSize
  <2>2. k = (d + 2) + y /\ d \in Nat /\ y \in Nat
    BY <1>18, <1>30 DEF k
  <2> HIDE DEF y
  <2>3. d + 4 + y = k + 2
    BY <2>2
  <2> QED BY <2>1, <2>3
<1>26. ASSUME checkBounds(AttributeSize) PROVE checkBounds(6) /\ checkBounds(14) /\ checkBounds(d + 2)
  <2>1. checkBounds(6)
    BY <1>26, SixBytes
  <2>2. checkBounds(14)
    <3>1. CASE ~checkBounds(14)
      <4>1. CodeSize = 14
        BY <3>1 DEF CodeSize
      <4> QED BY <1>23, <1>26, <2>1, <3>1, <4>1
    <3> QED BY <3>1
  <2>3. checkBounds(d + 2)
    <3>1. CASE ~checkBounds(d + 2)
      <4>1. CodeSize = d + 2
        BY <1>24, <2>2, <3>1 DEF CodeSize
      <4> QED BY <1>23, <1>26, <2>1, <3>1, <4>1
    <3> QED BY <3>1
  <2> QED BY <2>1, <2>2, <2>3
<1>27. ASSUME checkBounds(AttributeSize)
       PROVE  /\ AttributeSize = k + 2
              /\ CodeAttribute = CodeItem(a, U4(2))
  <2>1. checkBounds(6) /\ checkBounds(14) /\ checkBounds(d + 2) /\ AttributeSize = k + 2 /\ CodeEnd = d
    BY <1>23, <1>24, <1>25, <1>26, <1>27
  <2>2. checkBounds(8) /\ checkBounds(10)
    <3>1. 8 \in Nat /\ 10 \in Nat /\ 14 \in Nat /\ 8 <= 14 /\ 10 <= 14
      OBVIOUS
    <3> QED BY <2>1, <3>1, FewerBytes
  <2>3. U2(0) = n /\ U2(6) = ms /\ U2(8) = ml /\ U4(10) = z /\ U2(CodeEnd) = h
    BY <1>13, <1>14, <1>15, <1>16, <1>19, <2>1, <2>2
  <2>4. checkBounds(14 + z) /\ checkBounds((d + 2) + 8 * h)
    <3>1. 14 + z <= k + 2 /\ k <= k + 2 /\ 14 + z \in Nat /\ k + 2 \in Nat
      <4> DEFINE y == 8 * h
      <4>1. z \in Nat /\ y \in Nat /\ k \in Nat /\ k + 2 = 18 + z + y
        BY <1>22, <1>30
      <4> HIDE DEF y
      <4> QED BY <4>1
    <3>2. checkBounds(k + 2)
      BY <1>27, <2>1
    <3>3. checkBounds(14 + z) /\ checkBounds(k)
      BY <1>22, <3>1, <3>2, FewerBytes
    <3> QED BY <3>3 DEF k
  <2>5. Bytes(14, z) = c
    <3>1. 14 \in Nat /\ checkBounds(14 + Len(c))
      BY <1>5, <2>4
    <3>2. Bytes(14, Len(c)) = c
      BY <1>1, <1>17, <3>1, ReadBytes
    <3> QED BY <1>5, <3>2
  <2>6. [j \in 1 .. h |-> U2s((d + 2) + 8 * (j - 1), 4)] = t
    <3>1. checkBounds((d + 2) + 8 * Len(t)) /\ Holds(File, pos + (d + 2), EncodeAll(t, EncodeHandler))
      BY <1>5, <1>20, <2>4 DEF e
    <3>2. [j \in 1 .. Len(t) |-> U2s((d + 2) + 8 * (j - 1), 4)] = t
      BY <1>1, <1>18, <3>1, ReadHandlers, Zenon
    <3> QED BY <1>5, <3>2
  <2>7. CodeAttribute = [kind |-> "Code", name_index |-> U2(0), length |-> U4(2),
                         max_stack |-> U2(6), max_locals |-> U2(8), code |-> Bytes(14, U4(10)),
                         exception_table |-> [j \in 1 .. U2(CodeEnd) |-> U2s(CodeEnd + 2 + 8 * (j - 1), 4)],
                         attributes |-> <<>>]
    BY Zenon DEF CodeAttribute
  <2>8. CodeAttribute = CodeItem(a, U4(2))
    BY <1>4, <2>1, <2>3, <2>5, <2>6, <2>7, Zenon
  <2> QED BY <2>1, <2>8
<1>28. Whole => checkBounds(AttributeSize)
  <2> SUFFICES ASSUME Whole PROVE checkBounds(AttributeSize)
    OBVIOUS
  <2>1. 6 <= Len(w) /\ 14 <= Len(w) /\ d + 2 <= Len(w) /\ k + 2 <= Len(w)
        /\ {6, 14, d + 2, k + 2} \subseteq Nat
    <3> DEFINE y == 8 * h
    <3>1. y \in Nat /\ Len(w) = (18 + z + y) + Len(g) /\ k \in Nat /\ k + 2 = 18 + z + y /\ d = 14 + z
      BY <1>12, <1>22, <1>30
    <3> HIDE DEF y
    <3>2. 6 <= Len(w) /\ 14 <= Len(w) /\ d + 2 <= Len(w) /\ k + 2 <= Len(w) /\ d \in Nat
      BY <1>30, <3>1
    <3> QED BY <3>1, <3>2
  <2>2. checkBounds(6) /\ checkBounds(14) /\ checkBounds(d + 2) /\ checkBounds(k + 2)
    <3>1. \A m \in {6, 14, d + 2, k + 2} : m \in Nat /\ m <= Len(w)
      BY <2>1
    <3> QED BY <1>1, <1>3, <3>1, WholeFile
  <2> QED BY <1>23, <1>25, <2>2
<1>29. ASSUME checkBounds(AttributeSize)
       PROVE  /\ AttributeSize \in Nat /\ Len(w) = AttributeSize + Len(g)
              /\ Holds(File, pos + AttributeSize, g)
              /\ U2(AttributeSize - 2) = q
  <2>1. AttributeSize = k + 2 /\ AttributeSize - 2 = k
    <3>1. AttributeSize = k + 2 /\ k \in Nat
      BY <1>22, <1>27, <1>29
    <3>2. (k + 2) - 2 = k
      BY <3>1
    <3> QED BY <3>1, <3>2
  <2> QED BY <1>12, <1>21, <1>22, <1>29, <2>1
<1> QED BY <1>13, <1>27, <1>28, <1>29 DEF w, q

LEMMA BootstrapMethodsRead ==
  ASSUME Source, NEW cs, Len(cs) \in Nat, DOMAIN cs = 1 .. Len(cs), pool = PoolOf(cs),
         NEW a, IsFlat(cs, a), a.kind = "BootstrapMethods", Holds(File, pos, EncodeAttribute(a)),
         NEW g, g = FlattenSeq([k \in DOMAIN a.attributes |-> EncodeBootstrapMethod(a.attributes[k])])
  PROVE  /\ checkBounds(6) => IsUtf8(U2(0)) /\ Kind = "BootstrapMethods"
         /\ checkBounds(AttributeSize) =>
              /\ AttributeSize = 8 /\ Len(EncodeAttribute(a)) = 8 + Len(g) /\ Len(g) \in Nat
              /\ Holds(File, pos + 8, g)
              /\ U2(6) = Len(a.attributes)
              /\ U2(0) = a.name_index
         /\ Whole => checkBounds(AttributeSize)
<1> DEFINE n == a.name_index
           s == a.attributes
           ss == [k \in DOMAIN s |-> EncodeBootstrapMethod(s[k])]
           q == Len(s)
           w == EncodeAttribute(a)
           b == Body(a)
<1>1. /\ w = SizedBits(n, b) /\ n \in Nat /\ b \in Bits /\ w \in Bits /\ Len(w) = 6 + Len(b)
      /\ s \in Seq(BootstrapMethod) /\ ss \in Seq(Bits)
  BY FlatBits, Zenon
<1>2. b = EncodeU2(q) \o g
  BY Bodies, Zenon
<1>3. IsName(cs, n, "BootstrapMethods") /\ Holds(File, pos, w)
  BY DEF IsFlat
<1>4. q \in Nat
  BY <1>1
<1>5. g \in Bits
  <2> HIDE DEF ss
  <2>1. FlattenSeq(ss) \in Bits
    BY <1>1, CountedBits
  <2> QED BY <2>1 DEF ss
<1> HIDE DEF n, q, w, b, s, ss
<1>6. Len(b) = 2 + Len(g) /\ Len(g) \in Nat
  BY <1>2, <1>4, <1>5, AfterU2
<1>7. /\ checkBounds(6) => U2(0) = n /\ IsUtf8(U2(0)) /\ Kind = "BootstrapMethods"
      /\ Holds(File, pos + 6, b)
  <2>1. n \in Nat /\ b \in Bits /\ Holds(File, pos, SizedBits(n, b))
    BY <1>1, <1>3
  <2> QED BY <1>3, <2>1, AttributeHead
<1>8. (checkBounds(6 + 2) => U2(6) = q) /\ Holds(File, pos + (6 + 2), g)
  <2>1. 6 \in Nat /\ Holds(File, pos + 6, EncodeU2(q) \o g)
    BY <1>2, <1>7
  <2> QED BY <1>4, <1>5, <2>1, SplitU2
<1>9. checkBounds(6) => AttributeSize = 8
  BY <1>7, SizeByKind
<1>10. checkBounds(AttributeSize) => checkBounds(6)
  BY SixBytes
<1>11. Whole => checkBounds(6) /\ checkBounds(8)
  <2>1. 6 <= Len(w) /\ 8 <= Len(w) /\ 6 \in Nat /\ 8 \in Nat
    BY <1>1, <1>6
  <2> QED BY <1>1, <1>3, <2>1, WholeFile
<1>12. Len(w) = 8 + Len(g)
  BY <1>1, <1>6
<1> QED BY <1>6, <1>7, <1>8, <1>9, <1>10, <1>11, <1>12 DEF n, q, s, w

LEMMA MethodRead ==
  ASSUME Source, NEW m \in BootstrapMethod, Holds(File, pos, EncodeBootstrapMethod(m))
  PROVE  /\ checkBounds(Counted(4, 2)) =>
              /\ Counted(4, 2) = Len(EncodeBootstrapMethod(m))
              /\ [method_ref |-> U2(0), arguments |-> U2s(4, U2(2))] = m
         /\ Whole => checkBounds(Counted(4, 2))
<1> DEFINE n == m.method_ref
           s == m.arguments
           y == EncodeAll(s, EncodeU2)
           q == Len(s)
           w == EncodeBootstrapMethod(m)
           r == EncodeU2(q) \o y
<1>1. w = EncodeU2(n) \o r /\ w \in Bits /\ n \in Nat /\ s \in Seq(Nat) /\ Holds(File, pos, w)
  BY BootstrapMethodBits, Zenon
<1>2. y \in Bits /\ Len(y) = 2 * q /\ q \in Nat
  <2> HIDE DEF s
  <2> QED BY <1>1, U2sBits, Zenon
<1>3. m = [method_ref |-> n, arguments |-> s] /\ pos \in Nat /\ pos + 0 = pos
  BY DEF BootstrapMethod, Source
<1>4. q = Len(s) /\ y = EncodeAll(s, EncodeU2)
  OBVIOUS
<1> HIDE DEF n, s, y, q, w
<1>5. r \in Bits /\ Len(r) = 2 + 2 * q
  BY <1>2, AfterU2
<1> HIDE DEF r
<1>6. (checkBounds(0 + 2) => U2(0) = n) /\ Holds(File, pos + (0 + 2), r) /\ Len(EncodeU2(n) \o r) = 2 + Len(r)
  <2>1. 0 \in Nat /\ Holds(File, pos + 0, EncodeU2(n) \o r)
    BY <1>1, <1>3
  <2> QED BY <1>1, <1>5, <2>1, SplitU2
<1>7. (checkBounds(2 + 2) => U2(2) = q) /\ Holds(File, pos + (2 + 2), y)
  <2>1. 2 \in Nat /\ Holds(File, pos + 2, EncodeU2(q) \o y)
    BY <1>6 DEF r
  <2> QED BY <1>2, <2>1, SplitU2
<1>8. Len(w) = 4 + 2 * q
  BY <1>1, <1>2, <1>5, <1>6
<1>9. checkBounds(4) => Counted(4, 2) = 4 + 2 * q
  BY <1>7 DEF Counted
<1>10. ~checkBounds(4) => Counted(4, 2) = 4
  BY DEF Counted
<1>11. ASSUME checkBounds(Counted(4, 2))
       PROVE  Counted(4, 2) = Len(w) /\ [method_ref |-> U2(0), arguments |-> U2s(4, U2(2))] = m
  <2>1. checkBounds(4) /\ checkBounds(4 + 2 * q)
    BY <1>9, <1>10, <1>11
  <2>2. checkBounds(2)
    BY <2>1, FewerBytes
  <2>3. U2s(4, Len(s)) = s
    <3>1. 4 \in Nat /\ Holds(File, pos + 4, EncodeAll(s, EncodeU2)) /\ checkBounds(4 + 2 * Len(s))
      BY <1>4, <1>7, <2>1
    <3> QED BY <1>1, <3>1, ReadU2s
  <2>4. U2(0) = n /\ U2(2) = q /\ U2s(4, q) = s
    BY <1>4, <1>6, <1>7, <2>1, <2>2, <2>3
  <2> QED BY <1>3, <1>8, <1>9, <2>1, <2>4
<1>12. Whole => checkBounds(4) /\ checkBounds(4 + 2 * q)
  <2>1. 4 <= Len(w) /\ 4 + 2 * q <= Len(w) /\ 4 \in Nat /\ 4 + 2 * q \in Nat
    BY <1>2, <1>8
  <2> QED BY <1>1, <2>1, WholeFile
<1> QED BY <1>9, <1>11, <1>12 DEF w

LEMMA MemberRead ==
  ASSUME Source, NEW cs, Len(cs) \in Nat, DOMAIN cs = 1 .. Len(cs), pool = PoolOf(cs),
         NEW m, IsMember(cs, m), Holds(File, pos, EncodeMember(m)),
         NEW g, g = FlattenSeq([k \in DOMAIN m.attributes |-> EncodeAttribute(m.attributes[k])])
  PROVE  /\ IsUtf8(m.name_index) /\ IsUtf8(m.descriptor_index)
         /\ checkBounds(8) =>
              /\ U2(0) = m.access_flags /\ U2(2) = m.name_index /\ U2(4) = m.descriptor_index
              /\ U2(6) = Len(m.attributes)
         /\ Len(EncodeMember(m)) = 8 + Len(g) /\ Len(g) \in Nat
         /\ Holds(File, pos + 8, g)
         /\ Whole => checkBounds(8)
<1> DEFINE f == m.access_flags
           n == m.name_index
           d == m.descriptor_index
           q == Len(m.attributes)
           w == EncodeMember(m)
           r1 == EncodeU2(q) \o g
           r2 == EncodeU2(d) \o r1
           r3 == EncodeU2(n) \o r2
<1>1. f \in Nat /\ n \in Nat /\ d \in Nat /\ q \in Nat /\ g \in Bits /\ w = MemberBits(m) /\ w \in Bits
  <2>1. /\ {m.access_flags, m.name_index, m.descriptor_index} \subseteq Nat
        /\ Len(m.attributes) \in Nat /\ g \in Bits
        /\ EncodeMember(m) = MemberBits(m) /\ MemberBits(m) \in Bits
    BY MemberIs, Zenon
  <2> QED BY <2>1
<1>2. w = EncodeU2(f) \o r3
  BY <1>1, Zenon DEF MemberBits
<1>3. IsUtf8(n) /\ IsUtf8(d)
  <2>1. IsText(cs, n) /\ IsText(cs, d)
    BY DEF IsMember
  <2> QED BY <2>1, NameFound
<1>4. Holds(File, pos, w) /\ pos \in Nat /\ pos + 0 = pos
  BY DEF Source
<1> HIDE DEF f, n, d, q, w
<1>5. r1 \in Bits /\ Len(r1) = 2 + Len(g) /\ Len(g) \in Nat
  BY <1>1, AfterU2
<1> HIDE DEF r1
<1>6. r2 \in Bits /\ Len(r2) = 2 + Len(r1)
  BY <1>1, <1>5, AfterU2
<1> HIDE DEF r2
<1>7. r3 \in Bits /\ Len(r3) = 2 + Len(r2)
  BY <1>1, <1>6, AfterU2
<1> HIDE DEF r3
<1>8. (checkBounds(0 + 2) => U2(0) = f) /\ Holds(File, pos + (0 + 2), r3) /\ Len(EncodeU2(f) \o r3) = 2 + Len(r3)
  <2>1. 0 \in Nat /\ Holds(File, pos + 0, EncodeU2(f) \o r3)
    BY <1>2, <1>4
  <2> QED BY <1>1, <1>7, <2>1, SplitU2
<1>9. (checkBounds(2 + 2) => U2(2) = n) /\ Holds(File, pos + (2 + 2), r2)
  <2>1. 2 \in Nat /\ Holds(File, pos + 2, EncodeU2(n) \o r2)
    BY <1>8 DEF r3
  <2> QED BY <1>1, <1>6, <2>1, SplitU2
<1>10. (checkBounds(4 + 2) => U2(4) = d) /\ Holds(File, pos + (4 + 2), r1)
  <2>1. 4 \in Nat /\ Holds(File, pos + 4, EncodeU2(d) \o r1)
    BY <1>9 DEF r2
  <2> QED BY <1>1, <1>5, <2>1, SplitU2
<1>11. (checkBounds(6 + 2) => U2(6) = q) /\ Holds(File, pos + (6 + 2), g)
  <2>1. 6 \in Nat /\ Holds(File, pos + 6, EncodeU2(q) \o g)
    BY <1>10 DEF r1
  <2> QED BY <1>1, <2>1, SplitU2
<1>12. Len(w) = 8 + Len(g)
  BY <1>2, <1>5, <1>6, <1>7, <1>8
<1>13. Whole => checkBounds(8)
  <2>1. 8 <= Len(w) /\ 8 \in Nat
    BY <1>5, <1>12
  <2> QED BY <1>1, <1>4, <2>1, WholeFile
<1>14. checkBounds(8) => checkBounds(2) /\ checkBounds(4) /\ checkBounds(6)
  BY FewerBytes
<1> QED BY <1>3, <1>5, <1>8, <1>9, <1>10, <1>11, <1>12, <1>13, <1>14 DEF f, n, d, q, w

-----------------------------------------------------------------------------
(* Tables that grow and shrink, whatever their elements are. *)

LEMMA SeqIsTable == ASSUME NEW S, NEW s \in Seq(S) PROVE IsTable(s)
<1>1. Len(s) \in Nat /\ s = [k \in 1 .. Len(s) |-> s[k]] /\ DOMAIN s = 1 .. Len(s)
  OBVIOUS
<1>2. \A k \in 1 .. Len(s) : s[k] \in Range(s)
  BY <1>1 DEF Range
<1>3. s \in [1 .. Len(s) -> Range(s)]
  BY <1>1, <1>2
<1> QED BY <1>1, <1>3, FunctionIsSeq DEF IsTable

LEMMA Wider ==
  ASSUME NEW s, IsTable(s), NEW v
  PROVE  \E S : s \in Seq(S) /\ v \in S
<1> DEFINE S == Range(s) \cup {v}
<1>1. s \in Seq(Range(s)) /\ Range(s) \subseteq S /\ v \in S
  BY DEF IsTable
<1>2. s \in Seq(S)
  BY <1>1, SeqMonotonic
<1> QED BY <1>1, <1>2

LEMMA Appended ==
  ASSUME NEW s, IsTable(s), NEW v
  PROVE  /\ IsTable(Append(s, v)) /\ Len(Append(s, v)) = Len(s) + 1
         /\ \A k \in 1 .. Len(s) : Append(s, v)[k] = s[k]
         /\ Append(s, v)[Len(s) + 1] = v
<1>1. PICK S : s \in Seq(S) /\ v \in S
  BY Wider
<1>2. Append(s, v) \in Seq(S)
  BY <1>1
<1>3. IsTable(Append(s, v))
  BY <1>2, SeqIsTable
<1>4. /\ Len(Append(s, v)) = Len(s) + 1
      /\ \A k \in 1 .. Len(s) : Append(s, v)[k] = s[k]
      /\ Append(s, v)[Len(s) + 1] = v
  BY <1>1
<1> QED BY <1>3, <1>4

LEMMA Replaced ==
  ASSUME NEW s, IsTable(s), Len(s) > 0, NEW v
  PROVE  /\ IsTable([s EXCEPT ![Len(s)] = v]) /\ Len([s EXCEPT ![Len(s)] = v]) = Len(s)
         /\ \A k \in 1 .. Len(s) - 1 : [s EXCEPT ![Len(s)] = v][k] = s[k]
         /\ [s EXCEPT ![Len(s)] = v][Len(s)] = v
<1>1. PICK S : s \in Seq(S) /\ v \in S
  BY Wider
<1> DEFINE n == Len(s)
           u == [s EXCEPT ![n] = v]
<1>2. n \in 1 .. Len(s) /\ n \in Nat
  BY <1>1
<1>3. /\ u \in Seq(S) /\ Len(u) = Len(s)
      /\ \A j \in 1 .. Len(s) : u[j] = IF j = n THEN v ELSE s[j]
  <2> HIDE DEF n
  <2> QED BY <1>1, <1>2, ExceptSeq
<1>4. IsTable(u)
  <2> HIDE DEF u
  <2> QED BY <1>3, SeqIsTable
<1>5. u[n] = v /\ \A j \in 1 .. n - 1 : u[j] = s[j]
  <2>1. n = Len(s)
    OBVIOUS
  <2> HIDE DEF u, n
  <2> QED BY <1>2, <1>3, <2>1
<1> QED BY <1>3, <1>4, <1>5

LEMMA PartOf ==
  ASSUME NEW S, NEW s \in Seq(S), NEW m \in Nat \ {0}, NEW n \in Nat, m <= n + 1, n <= Len(s)
  PROVE  /\ SubSeq(s, m, n) \in Seq(S) /\ Len(SubSeq(s, m, n)) = (n - m) + 1
         /\ \A k \in 1 .. (n - m) + 1 : SubSeq(s, m, n)[k] = s[(m + k) - 1]
<1>1. \A k \in m .. n : s[k] \in S
  OBVIOUS
<1>2. m \in Int /\ n \in Int
  OBVIOUS
<1>3. /\ SubSeq(s, m, n) \in Seq(S)
      /\ Len(SubSeq(s, m, n)) = IF m <= n THEN n - m + 1 ELSE 0
      /\ \A k \in 1 .. n - m + 1 : SubSeq(s, m, n)[k] = s[m + k - 1]
  BY <1>1, <1>2, SubSeqProperties
<1>4. (IF m <= n THEN n - m + 1 ELSE 0) = (n - m) + 1
  OBVIOUS
<1> QED BY <1>3, <1>4

LEMMA Popped ==
  ASSUME NEW s, IsTable(s), Len(s) > 0
  PROVE  /\ IsTable(SubSeq(s, 1, Len(s) - 1)) /\ Len(SubSeq(s, 1, Len(s) - 1)) = Len(s) - 1
         /\ \A k \in 1 .. Len(s) - 1 : SubSeq(s, 1, Len(s) - 1)[k] = s[k]
<1>1. PICK S : s \in Seq(S)
  BY Wider
<1> DEFINE u == SubSeq(s, 1, Len(s) - 1)
<1>2. u \in Seq(S) /\ Len(u) = Len(s) - 1 /\ \A k \in 1 .. Len(s) - 1 : u[k] = s[k]
  <2> DEFINE n == Len(s) - 1
  <2>1. 1 \in Nat \ {0} /\ n \in Nat /\ 1 <= n + 1 /\ n <= Len(s)
    BY <1>1
  <2> HIDE DEF n
  <2>2. SubSeq(s, 1, n) \in Seq(S) /\ Len(SubSeq(s, 1, n)) = (n - 1) + 1
        /\ \A k \in 1 .. (n - 1) + 1 : SubSeq(s, 1, n)[k] = s[(1 + k) - 1]
    BY <1>1, <2>1, PartOf
  <2>3. (n - 1) + 1 = n /\ \A k \in 1 .. n : (1 + k) - 1 = k
    BY <2>1
  <2> QED BY <2>2, <2>3 DEF n
<1>3. IsTable(u)
  <2> HIDE DEF u
  <2> QED BY <1>2, SeqIsTable
<1> QED BY <1>2, <1>3

-----------------------------------------------------------------------------
(* A table of attributes as the parser builds it: for each one described   *)
(* a null element, and then those that have been read.                     *)
AttributesRead(b, s, d) ==
  /\ IsTable(b) /\ Len(b) = Len(s) + d
  /\ \A k \in 1 .. Len(s) : b[k] = NullAttribute
  /\ \A k \in 1 .. d : AttributeRead(b[Len(s) + k], s[k])

LEMMA PresentAttributes ==
  ASSUME NEW s, IsTable(s), \A k \in 1 .. Len(s) : s[k].kind # "null",
         NEW b, AttributesRead(b, s, Len(s))
  PROVE  /\ DOMAIN Present(b) = 1 .. Len(s)
         /\ \A k \in 1 .. Len(s) : Present(b)[k] = b[Len(s) + k]
<1> DEFINE n == Len(s)
           N == {k \in DOMAIN b : b[k].kind = "null"}
<1>1. n \in Nat
  BY TableFacts
<1>2. IsTable(b) /\ Len(b) = n + n /\ DOMAIN b = 1 .. n + n
  <2>1. IsTable(b) /\ Len(b) = n + n
    BY DEF AttributesRead
  <2>2. DOMAIN b = 1 .. Len(b)
    BY <2>1, TableFacts
  <2> QED BY <2>1, <2>2
<1>3. \A k \in 1 .. n : b[k].kind = "null" /\ b[n + k].kind # "null"
  BY DEF AttributesRead, AttributeRead, NullAttribute
<1> HIDE DEF n
<1>4. N = 1 .. n
  <2>1. ASSUME NEW k \in 1 .. n + n PROVE (b[k].kind = "null") <=> (k \in 1 .. n)
    <3>1. CASE k \in 1 .. n
      BY <1>3, <3>1
    <3>2. CASE k \notin 1 .. n
      <4>1. k - n \in 1 .. n /\ n + (k - n) = k
        BY <1>1, <3>2
      <4> QED BY <1>3, <3>2, <4>1
    <3> QED BY <3>1, <3>2
  <2>2. 1 .. n \subseteq 1 .. n + n
    BY <1>1
  <2> QED BY <1>2, <2>1, <2>2
<1>5. Cardinality(N) = n
  <2>1. 1 \in Int /\ n \in Int
    BY <1>1
  <2>2. Cardinality(1 .. n) = IF 1 > n THEN 0 ELSE n - 1 + 1
    BY <2>1, FS_Interval
  <2>3. (IF 1 > n THEN 0 ELSE n - 1 + 1) = n
    BY <1>1
  <2> DEFINE c == Cardinality(1 .. n)
  <2>4. c = IF 1 > n THEN 0 ELSE n - 1 + 1
    BY <2>2
  <2> HIDE DEF c
  <2>5. c = n
    BY <1>1, <2>4
  <2> QED BY <1>4, <2>5, Zenon DEF c
<1>6. PICK S : b \in Seq(S)
  BY <1>2, Wider
<1>7. Present(b) = SubSeq(b, n + 1, n + n)
  BY <1>2, <1>5 DEF Present
<1>8. DOMAIN SubSeq(b, n + 1, n + n) = 1 .. n /\ \A k \in 1 .. n : SubSeq(b, n + 1, n + n)[k] = b[n + k]
  <2> DEFINE u == SubSeq(b, n + 1, n + n)
  <2>0. n + 1 \in Nat \ {0} /\ n + n \in Nat /\ n + 1 <= (n + n) + 1 /\ n + n <= Len(b)
    BY <1>1, <1>2
  <2>1. u \in Seq(S) /\ Len(u) = ((n + n) - (n + 1)) + 1
        /\ \A k \in 1 .. ((n + n) - (n + 1)) + 1 : u[k] = b[((n + 1) + k) - 1]
    BY <1>6, <2>0, PartOf
  <2> HIDE DEF u
  <2>2. ((n + n) - (n + 1)) + 1 = n /\ \A k \in 1 .. n : ((n + 1) + k) - 1 = n + k
    BY <1>1
  <2>3. DOMAIN u = 1 .. n
    BY <2>1, <2>2
  <2> QED BY <2>1, <2>2, <2>3 DEF u
<1> QED BY <1>7, <1>8 DEF n

LEMMA AttributesAreOf ==
  ASSUME NEW s, IsTable(s), \A k \in 1 .. Len(s) : s[k].kind # "null",
         NEW b, AttributesRead(b, s, Len(s))
  PROVE  /\ AttributesOf(b) = s
         /\ (\A k \in 1 .. Len(s) : s[k].kind # "Code") => UnsizedAll(b) = s
<1>1. /\ DOMAIN Present(b) = 1 .. Len(s)
      /\ \A k \in 1 .. Len(s) : Present(b)[k] = b[Len(s) + k]
  BY PresentAttributes
<1>2. s = [k \in 1 .. Len(s) |-> s[k]]
  BY TableFacts
<1>3. \A k \in 1 .. Len(s) : AttributeOf(Present(b)[k]) = s[k] /\ Present(b)[k].kind = s[k].kind
  BY <1>1 DEF AttributesRead, AttributeRead
<1>4. AttributesOf(b) = [k \in 1 .. Len(s) |-> AttributeOf(Present(b)[k])]
  BY <1>1, Zenon DEF AttributesOf
<1>5. UnsizedAll(b) = [k \in 1 .. Len(s) |-> Unsized(Present(b)[k])]
  BY <1>1, Zenon DEF UnsizedAll
<1>6. AttributesOf(b) = s
  <2>1. [k \in 1 .. Len(s) |-> AttributeOf(Present(b)[k])] = [k \in 1 .. Len(s) |-> s[k]]
    BY <1>3, Zenon
  <2> QED BY <1>2, <1>4, <2>1, Zenon
<1>7. ASSUME \A k \in 1 .. Len(s) : s[k].kind # "Code" PROVE UnsizedAll(b) = s
  <2>1. \A k \in 1 .. Len(s) : Unsized(Present(b)[k]) = s[k]
    <3> SUFFICES ASSUME NEW k \in 1 .. Len(s) PROVE Unsized(Present(b)[k]) = s[k]
      OBVIOUS
    <3> DEFINE q == Present(b)[k]
    <3>1. q.kind # "Code" /\ AttributeOf(q) = s[k]
      BY <1>3, <1>7
    <3> HIDE DEF q
    <3>2. AttributeOf(q) = Unsized(q)
      BY <3>1 DEF AttributeOf
    <3> QED BY <3>1, <3>2 DEF q
  <2>2. [k \in 1 .. Len(s) |-> Unsized(Present(b)[k])] = [k \in 1 .. Len(s) |-> s[k]]
    BY <2>1, Zenon
  <2> QED BY <1>2, <1>5, <2>2, Zenon
<1> QED BY <1>6, <1>7

(* An element that waited for its table, with it. *)
Owning(o, b) == [o EXCEPT !.attributes = b]

LEMMA FlatKinds == ASSUME NEW cs, NEW a, IsFlat(cs, a) PROVE a.kind # "null" /\ a.kind # "Code"
BY FlatBits DEF FlatKind

LEMMA CodeOwns ==
  ASSUME NEW cs, NEW a, IsCode(cs, a), NEW l, NEW b, AttributesRead(b, a.attributes, Len(a.attributes))
  PROVE  AttributeRead(Owning(CodeItem(a, l), b), a)
<1> DEFINE s  == a.attributes
           n  == a.name_index
           ms == a.max_stack
           ml == a.max_locals
           c  == a.code
           t  == a.exception_table
           p  == [kind |-> "Code", name_index |-> n, length |-> l, max_stack |-> ms, max_locals |-> ml,
                  code |-> c, exception_table |-> t, attributes |-> b]
           q  == [kind |-> "Code", name_index |-> n, max_stack |-> ms, max_locals |-> ml,
                  code |-> c, exception_table |-> t, attributes |-> b]
<1>1. a = [kind |-> "Code", name_index |-> n, max_stack |-> ms, max_locals |-> ml,
           code |-> c, exception_table |-> t, attributes |-> s] /\ a.kind = "Code"
  BY Zenon DEF IsCode
<1>2. UnsizedAll(b) = s
  <2>1. IsTable(s) /\ \A k \in 1 .. Len(s) : IsFlat(cs, s[k])
    BY CodeBits, Zenon
  <2>2. \A k \in 1 .. Len(s) : s[k].kind # "null" /\ s[k].kind # "Code"
    BY <2>1, FlatKinds
  <2>3. AttributesRead(b, s, Len(s))
    OBVIOUS
  <2> HIDE DEF s
  <2> QED BY <2>1, <2>2, <2>3, AttributesAreOf
<1>3. Owning(CodeItem(a, l), b) = p
  BY DEF Owning, CodeItem
<1> HIDE DEF n, ms, ml, c, t, s
<1>4. Unsized(p) = q
  BY DEF Unsized
<1>5. p.kind = "Code" /\ p.code = c /\ p.max_stack = ms /\ p.max_locals = ml
  OBVIOUS
<1>6. q.attributes = b
  OBVIOUS
<1>7. [q EXCEPT !.attributes = UnsizedAll(@)] = a
  <2>1. [q EXCEPT !.attributes = UnsizedAll(@)] = [q EXCEPT !.attributes = s]
    BY <1>2, <1>6, Zenon
  <2>2. [q EXCEPT !.attributes = s] = [kind |-> "Code", name_index |-> n, max_stack |-> ms, max_locals |-> ml,
                                       code |-> c, exception_table |-> t, attributes |-> s]
    OBVIOUS
  <2> QED BY <1>1, <2>1, <2>2, Zenon
<1>8. AttributeOf(p) = a
  <2> HIDE DEF p
  <2>1. AttributeOf(p) = [Unsized(p) EXCEPT !.attributes = UnsizedAll(@)]
    BY <1>5 DEF AttributeOf
  <2> QED BY <1>4, <1>7, <2>1, Zenon
<1> HIDE DEF p, q
<1>9. AttributeRead(p, a)
  BY <1>1, <1>5, <1>8, Zenon DEF AttributeRead, c, ms, ml
<1> QED BY <1>3, <1>9, Zenon

LEMMA BootstrapOwns ==
  ASSUME NEW cs, NEW a, IsFlat(cs, a), a.kind = "BootstrapMethods", NEW l
  PROVE  AttributeRead(Owning(BootstrapItem(a, l), a.attributes), a)
<1> DEFINE s == a.attributes
           n == a.name_index
           p == [kind |-> "BootstrapMethods", name_index |-> n, length |-> l, attributes |-> s]
<1>1. a = [kind |-> "BootstrapMethods", name_index |-> n, attributes |-> s]
  BY Zenon DEF IsFlat
<1>2. Owning(BootstrapItem(a, l), s) = p
  BY DEF Owning, BootstrapItem
<1> HIDE DEF n, s
<1>3. Unsized(p) = [kind |-> "BootstrapMethods", name_index |-> n, attributes |-> s]
  BY DEF Unsized
<1>4. p.kind = "BootstrapMethods"
  OBVIOUS
<1> HIDE DEF p
<1>5. AttributeOf(p) = Unsized(p)
  BY <1>4 DEF AttributeOf
<1>6. AttributeRead(p, a)
  BY <1>1, <1>3, <1>4, <1>5 DEF AttributeRead
<1> QED BY <1>2, <1>6, Zenon DEF s

(* A member as it is read, p, and as it is described, m. *)
ReadAsMember(p, m) ==
  /\ p.access_flags = m.access_flags /\ p.name_index = m.name_index
  /\ p.descriptor_index = m.descriptor_index
  /\ AttributesRead(p.attributes, m.attributes, Len(m.attributes))
  /\ MemberOf(p) = m

LEMMA MemberKinds ==
  ASSUME NEW cs, NEW m, IsMember(cs, m)
  PROVE  IsTable(m.attributes) /\ \A k \in 1 .. Len(m.attributes) : m.attributes[k].kind # "null"
<1>1. IsTable(m.attributes)
      /\ \A k \in 1 .. Len(m.attributes) : IsFlat(cs, m.attributes[k]) \/ IsCode(cs, m.attributes[k])
  BY MemberIs, Zenon
<1>2. \A k \in 1 .. Len(m.attributes) : m.attributes[k].kind # "null"
  <2> SUFFICES ASSUME NEW k \in 1 .. Len(m.attributes) PROVE m.attributes[k].kind # "null"
    OBVIOUS
  <2>1. CASE IsFlat(cs, m.attributes[k])
    BY <2>1, FlatKinds
  <2>2. CASE IsCode(cs, m.attributes[k])
    BY <2>2 DEF IsCode
  <2> QED BY <1>1, <2>1, <2>2
<1> QED BY <1>1, <1>2

LEMMA MemberOwns ==
  ASSUME NEW cs, NEW m, IsMember(cs, m), NEW b, AttributesRead(b, m.attributes, Len(m.attributes))
  PROVE  ReadAsMember(Owning(MemberItem(m), b), m)
<1> DEFINE f == m.access_flags
           n == m.name_index
           d == m.descriptor_index
           s == m.attributes
           p == [kind |-> "member", access_flags |-> f, name_index |-> n, descriptor_index |-> d, attributes |-> b]
<1>1. m = [kind |-> "member", access_flags |-> f, name_index |-> n, descriptor_index |-> d, attributes |-> s]
  BY Zenon DEF IsMember
<1>2. AttributesOf(b) = s
  <2>1. IsTable(s) /\ (\A k \in 1 .. Len(s) : s[k].kind # "null") /\ AttributesRead(b, s, Len(s))
    BY MemberKinds
  <2> HIDE DEF s
  <2> QED BY <2>1, AttributesAreOf
<1>3. Owning(MemberItem(m), b) = p
  BY DEF Owning, MemberItem
<1>4. AttributesRead(b, s, Len(s))
  OBVIOUS
<1> HIDE DEF f, n, d, s
<1>5. p.access_flags = f /\ p.name_index = n /\ p.descriptor_index = d /\ p.attributes = b
  OBVIOUS
<1>6. MemberOf(p) = m
  <2>1. MemberOf(p) = [p EXCEPT !.attributes = AttributesOf(b)]
    BY <1>5, Zenon DEF MemberOf
  <2>2. [p EXCEPT !.attributes = s] = [kind |-> "member", access_flags |-> f, name_index |-> n,
                                       descriptor_index |-> d, attributes |-> s]
    OBVIOUS
  <2> QED BY <1>1, <1>2, <2>1, <2>2, Zenon
<1> HIDE DEF p
<1>7. ReadAsMember(p, m)
  BY <1>4, <1>5, <1>6, Zenon DEF ReadAsMember, f, n, d, s
<1> QED BY <1>3, <1>7, Zenon
=============================================================================
