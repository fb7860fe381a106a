------------------------- MODULE EncodedClasses_proofs -------------------------
(***************************************************************************)
(* For every class without interfaces: what parse() returns for its        *)
(* encoding is the class; it throws for no whole encoding, and returns for *)
(* none that was cut off; and the Klass that is prepared from the file has *)
(* the constants and the code of the class.                                *)
(*                                                                         *)
(* The recursion of parseAttributes comes first: the stack of tables is    *)
(* described by a stack of levels (Stacked), which every step inside a     *)
(* table keeps.  The rest of a file is read front to back, and Reading     *)
(* says how far; ClassInv adds how far the preparation is.                 *)
(***************************************************************************)
EXTENDS ClassFiles_proofs

-----------------------------------------------------------------------------
(* The recursion of parseAttributes.  A level is a table that is read: the *)
(* kind of it, the elements it is described with, where they start in the  *)
(* file, and how many of them have been read.                              *)
Level(of, elems, start, done) == [of |-> of, elems |-> elems, start |-> start, done |-> done]

EncodeElement(of, e) ==
  IF of = "attributes" THEN EncodeAttribute(e)
  ELSE IF of = "bootstrap_methods" THEN EncodeBootstrapMethod(e)
  ELSE EncodeMember(e)
IsElement(cs, of, e) ==
  IF of = "attributes" THEN IsFlat(cs, e) \/ IsCode(cs, e)
  ELSE IF of = "bootstrap_methods" THEN e \in BootstrapMethod
  ELSE IsMember(cs, e)
ElementRead(of, p, e) ==
  IF of = "attributes" THEN AttributeRead(p, e)
  ELSE IF of = "bootstrap_methods" THEN p = e
  ELSE ReadAsMember(p, e)

EncodedElements(of, s) == [k \in DOMAIN s |-> EncodeElement(of, s[k])]
Encodings(l) == EncodedElements(l.of, l.elems)
At(l, n) == l.start + Ends(Encodings(l))[n]

IsElements(cs, of, s) == IsTable(s) /\ \A k \in 1 .. Len(s) : IsElement(cs, of, s[k])

IsLevel(b, cs, l) ==
  /\ IsElements(cs, l.of, l.elems)
  /\ l.start \in Nat /\ l.done \in 0 .. Len(l.elems)
  /\ Holds(b, l.start, FlattenSeq(Encodings(l)))

(* A table with its null elements and those that have been read. *)
Nulls(of, s) == IF of = "attributes" THEN Len(s) ELSE 0
TableRead(of, b, s, d) ==
  /\ IsTable(b) /\ Len(b) = Nulls(of, s) + d
  /\ \A k \in 1 .. Nulls(of, s) : b[k] = NullAttribute
  /\ \A k \in 1 .. d : ElementRead(of, b[Nulls(of, s) + k], s[k])

(* The parser's table t at a level. *)
TableAt(l, t) ==
  /\ t = [of |-> l.of, left |-> Len(l.elems) - l.done, open |-> t.open, built |-> t.built]
  /\ TableRead(l.of, t.built, l.elems, l.done)

LEMMA ElementBits ==
  ASSUME NEW cs, NEW of, NEW e, IsElement(cs, of, e)
  PROVE  EncodeElement(of, e) \in Bits /\ Len(EncodeElement(of, e)) \in Nat
<1>1. EncodeElement(of, e) \in Bits
  <2>1. CASE of = "attributes"
    <3>1. IsFlat(cs, e) => EncodeAttribute(e) \in Bits
      BY FlatBits
    <3>2. IsCode(cs, e) => EncodeAttribute(e) \in Bits
      BY CodeBits, Zenon
    <3> QED BY <2>1, <3>1, <3>2 DEF EncodeElement, IsElement
  <2>2. CASE of = "bootstrap_methods"
    BY <2>2, BootstrapMethodBits DEF EncodeElement, IsElement
  <2>3. CASE of # "attributes" /\ of # "bootstrap_methods"
    <3>1. IsMember(cs, e) => EncodeMember(e) \in Bits
      BY MemberIs, Zenon
    <3> QED BY <2>3, <3>1 DEF EncodeElement, IsElement
  <2> QED BY <2>1, <2>2, <2>3
<1> DEFINE w == EncodeElement(of, e)
<1>2. w \in Bits
  BY <1>1
<1> HIDE DEF w
<1>3. Len(w) \in Nat
  BY <1>2 DEF Bits
<1> QED BY <1>2, <1>3 DEF w

LEMMA ElementsBits ==
  ASSUME NEW cs, NEW of, NEW s, IsElements(cs, of, s)
  PROVE  /\ EncodedElements(of, s) \in Seq(Bits) /\ Len(EncodedElements(of, s)) = Len(s) /\ Len(s) \in Nat
         /\ \A k \in 1 .. Len(s) : EncodedElements(of, s)[k] = EncodeElement(of, s[k])
         /\ FlattenSeq(EncodedElements(of, s)) \in Bits /\ Len(FlattenSeq(EncodedElements(of, s))) \in Nat
         /\ EncodeU2(Len(s)) \o FlattenSeq(EncodedElements(of, s)) \in Bits
<1> DEFINE es == EncodedElements(of, s)
<1>1. IsTable(s) /\ Len(s) \in Nat /\ DOMAIN s = 1 .. Len(s)
  BY TableFacts DEF IsElements
<1>2. es = [k \in DOMAIN s |-> es[k]] /\ \A k \in 1 .. Len(s) : es[k] = EncodeElement(of, s[k])
  BY <1>1 DEF EncodedElements
<1>3. \A k \in 1 .. Len(s) : es[k] \in Bits
  BY <1>2, ElementBits DEF IsElements
<1> HIDE DEF es
<1>4. /\ es \in Seq(Bits) /\ Len(es) = Len(s) /\ Len(s) \in Nat
      /\ FlattenSeq(es) \in Bits
      /\ EncodeU2(Len(s)) \o FlattenSeq(es) \in Bits
  BY <1>1, <1>2, <1>3, EncodedTable
<1> DEFINE w == FlattenSeq(es)
<1>5. w \in Bits
  BY <1>4
<1> HIDE DEF w
<1>6. Len(w) \in Nat
  BY <1>5 DEF Bits
<1> QED BY <1>2, <1>4, <1>6 DEF es, w

(* Where the elements of a level are. *)
LEMMA LevelFacts ==
  ASSUME NEW b \in Bits, NEW cs, NEW l, IsLevel(b, cs, l)
  PROVE  /\ Len(l.elems) \in Nat /\ l.done \in Nat
         /\ \A n \in 0 .. Len(l.elems) : At(l, n) \in Nat /\ At(l, n) <= Len(b)
         /\ At(l, 0) = l.start
         /\ At(l, Len(l.elems)) = l.start + Len(FlattenSeq(Encodings(l)))
         /\ \A n \in 1 .. Len(l.elems) :
              /\ IsElement(cs, l.of, l.elems[n])
              /\ Holds(b, At(l, n - 1), EncodeElement(l.of, l.elems[n]))
              /\ At(l, n) = At(l, n - 1) + Len(EncodeElement(l.of, l.elems[n]))
<1> DEFINE ss == Encodings(l)
           s == l.elems
           e == Ends(ss)
           w == FlattenSeq(ss)
           p == l.start
           q == Len(s)
<1>1. /\ IsElements(cs, l.of, s) /\ p \in Nat /\ l.done \in 0 .. q /\ Holds(b, p, w)
  BY DEF IsLevel
<1>2. /\ ss \in Seq(Bits) /\ Len(ss) = q /\ q \in Nat /\ w \in Bits /\ Len(w) \in Nat
      /\ \A k \in 1 .. q : ss[k] = EncodeElement(l.of, s[k])
  <2> DEFINE of == l.of
             es == EncodedElements(of, s)
  <2>1. IsElements(cs, of, s) /\ ss = es
    BY <1>1 DEF Encodings
  <2> HIDE DEF of, s, ss
  <2>2. /\ es \in Seq(Bits) /\ Len(es) = Len(s) /\ Len(s) \in Nat
        /\ \A k \in 1 .. Len(s) : es[k] = EncodeElement(of, s[k])
        /\ FlattenSeq(es) \in Bits /\ Len(FlattenSeq(es)) \in Nat
    BY <2>1, ElementsBits
  <2> QED BY <2>1, <2>2 DEF of
<1>3. Len(b) \in Nat
  BY DEF Bits
<1>4. \A n \in 0 .. q : At(l, n) = p + e[n]
  BY DEF At
<1>5. \A n \in 1 .. q : IsElement(cs, l.of, s[n])
  BY <1>1 DEF IsElements
<1> HIDE DEF ss, s, p, q
<1>6. IsEnds(ss, w, e)
  BY <1>2, EndsExist
<1> HIDE DEF e
<1>7. /\ e \in [0 .. q -> Nat] /\ e[0] = 0 /\ e[q] = Len(w)
      /\ \A n \in 1 .. q : e[n] <= Len(w)
  BY <1>2, <1>6, Zenon DEF IsEnds
<1>8. \A n \in 1 .. q : Holds(b, p + e[n - 1], ss[n]) /\ e[n] = e[n - 1] + Len(ss[n])
  BY <1>1, <1>2, HoldsAll DEF e
<1>9. p + Len(w) <= Len(b)
  BY <1>1 DEF Holds
<1> HIDE DEF w
<1>10. \A n \in 0 .. q : p + e[n] \in Nat /\ p + e[n] <= Len(b)
  <2> SUFFICES ASSUME NEW n \in 0 .. q PROVE p + e[n] \in Nat /\ p + e[n] <= Len(b)
    OBVIOUS
  <2>1. e[n] \in Nat /\ e[n] <= Len(w)
    <3>1. e[n] \in Nat
      BY <1>2, <1>7
    <3>2. CASE n = 0
      BY <1>2, <1>7, <3>2
    <3>3. CASE n # 0
      BY <1>2, <1>7, <3>1, <3>3
    <3> QED BY <3>1, <3>2, <3>3
  <2> DEFINE z == e[n]
  <2>2. z \in Nat /\ z <= Len(w)
    BY <2>1
  <2> HIDE DEF z
  <2>3. p + z \in Nat /\ p + z <= Len(b)
    BY <1>1, <1>2, <1>3, <1>9, <2>2
  <2> QED BY <2>3 DEF z
<1>11. /\ \A n \in 0 .. q : At(l, n) \in Nat /\ At(l, n) <= Len(b)
       /\ At(l, 0) = p /\ At(l, q) = p + Len(w)
  <2>1. At(l, 0) = p + e[0] /\ At(l, q) = p + e[q]
    BY <1>2, <1>4
  <2>2. p + e[0] = p
    BY <1>1, <1>7
  <2> QED BY <1>4, <1>7, <1>10, <2>1, <2>2
<1>12. ASSUME NEW n \in 1 .. q
       PROVE  /\ Holds(b, At(l, n - 1), EncodeElement(l.of, s[n]))
              /\ At(l, n) = At(l, n - 1) + Len(EncodeElement(l.of, s[n]))
  <2>1. n - 1 \in 0 .. q /\ n \in 0 .. q
    BY <1>2
  <2>2. At(l, n - 1) = p + e[n - 1] /\ At(l, n) = p + e[n] /\ ss[n] = EncodeElement(l.of, s[n])
    BY <1>2, <1>4, <2>1
  <2>3. Holds(b, p + e[n - 1], ss[n]) /\ e[n] = e[n - 1] + Len(ss[n])
    BY <1>8
  <2>4. e[n - 1] \in Nat /\ Len(ss[n]) \in Nat
    <3>1. ss[n] \in Bits
      BY <1>2
    <3> DEFINE v == ss[n]
    <3>2. v \in Bits
      BY <3>1
    <3> HIDE DEF v
    <3>3. Len(v) \in Nat
      BY <3>2 DEF Bits
    <3> QED BY <1>7, <2>1, <3>3 DEF v
  <2>5. p + e[n] = (p + e[n - 1]) + Len(ss[n])
    BY <1>1, <2>3, <2>4
  <2> QED BY <2>2, <2>3, <2>5, Zenon
<1>13. l.done \in Nat
  BY <1>1, <1>2
<1> QED BY <1>2, <1>5, <1>11, <1>12, <1>13 DEF ss, s, p, q, w

(* The element e of a table waits, as o, for its own table. *)
WaitsFor(of, o, e, inner) ==
  \/ of \notin {"attributes", "bootstrap_methods"} /\ inner = "attributes" /\ o = MemberItem(e)
  \/ of = "attributes" /\ e.kind = "Code" /\ inner = "attributes" /\ \E n : o = CodeItem(e, n)
  \/ /\ of = "attributes" /\ e.kind = "BootstrapMethods" /\ inner = "bootstrap_methods"
     /\ \E n : o = BootstrapItem(e, n)

(* The level m is that of the element l is at, which ends where m ends. *)
Links(l, o, m) ==
  /\ l.done < Len(l.elems)
  /\ WaitsFor(l.of, o, l.elems[l.done + 1], m.of)
  /\ m.elems = l.elems[l.done + 1].attributes
  /\ At(m, Len(m.elems)) = At(l, l.done + 1)

(* The parser's tables ts are at the levels ls, and the file b at p. *)
Stacked(b, cs, ls, ts, p) ==
  /\ IsTable(ts) /\ Len(ts) > 0
  /\ \A k \in 1 .. Len(ts) : IsLevel(b, cs, ls[k]) /\ TableAt(ls[k], ts[k])
  /\ \A k \in 1 .. Len(ts) - 1 : Links(ls[k], ts[k].open, ls[k + 1])
  /\ p = At(ls[Len(ts)], ls[Len(ts)].done)

SameTable(l, m) == m.of = l.of /\ m.elems = l.elems /\ m.start = l.start

(* One more element of a level. *)
Advance(l) == Level(l.of, l.elems, l.start, l.done + 1)

LEMMA Advanced ==
  ASSUME NEW b, NEW cs, NEW l, IsLevel(b, cs, l), l.done < Len(l.elems)
  PROVE  /\ IsLevel(b, cs, Advance(l)) /\ SameTable(l, Advance(l))
         /\ \A n : At(Advance(l), n) = At(l, n)
         /\ Advance(l).done = l.done + 1
<1> DEFINE m == Advance(l)
<1>1. m.of = l.of /\ m.elems = l.elems /\ m.start = l.start /\ m.done = l.done + 1
  BY DEF Advance, Level
<1> HIDE DEF m
<1>2. Encodings(m) = Encodings(l)
  BY <1>1, Zenon DEF Encodings
<1>3. \A n : At(m, n) = At(l, n)
  BY <1>1, <1>2, Zenon DEF At
<1>4. m.done \in 0 .. Len(m.elems)
  <2>1. IsTable(l.elems) /\ l.done \in 0 .. Len(l.elems)
    BY DEF IsLevel, IsElements
  <2>2. Len(l.elems) \in Nat
    BY <2>1, TableFacts
  <2> QED BY <1>1, <2>1, <2>2
<1>5. IsLevel(b, cs, m)
  BY <1>1, <1>2, <1>4 DEF IsLevel
<1> QED BY <1>1, <1>3, <1>5 DEF m, SameTable

LEMMA TableChanged ==
  ASSUME NEW k, NEW l, NEW o, NEW c, NEW t, t = [of |-> k, left |-> l, open |-> o, built |-> c],
         NEW m, NEW v, NEW w,
         NEW u, u = [t EXCEPT !.left = m, !.built = v, !.open = w]
  PROVE  u = [of |-> k, left |-> m, open |-> w, built |-> v]
<1>1. DOMAIN u = {"of", "left", "open", "built"} /\ u = [f \in DOMAIN u |-> u[f]]
  OBVIOUS
<1>2. u.of = k /\ u.left = m /\ u.open = w /\ u.built = v
  OBVIOUS
<1> QED BY <1>1, <1>2

LEMMA TableAdvanced ==
  ASSUME NEW b, NEW cs, NEW l, IsLevel(b, cs, l), l.done < Len(l.elems),
         NEW t, TableAt(l, t), NEW r, ElementRead(l.of, r, l.elems[l.done + 1])
  PROVE  TableAt(Advance(l), Completed(t, r))
<1> DEFINE of == l.of
           s == l.elems
           d == l.done
           z == Nulls(of, s)
           c == t.built
           v == Append(c, r)
           lf == Len(s) - d
<1>1. Len(s) \in Nat /\ d \in Nat /\ d < Len(s)
  <2>1. IsTable(s) /\ d \in 0 .. Len(s)
    BY DEF IsLevel, IsElements
  <2>2. Len(s) \in Nat
    BY <2>1, TableFacts
  <2> QED BY <2>1, <2>2
<1>2. z \in Nat
  BY <1>1 DEF Nulls
<1>3. /\ t = [of |-> of, left |-> lf, open |-> t.open, built |-> c]
      /\ IsTable(c) /\ Len(c) = z + d
      /\ \A k \in 1 .. z : c[k] = NullAttribute
      /\ \A k \in 1 .. d : ElementRead(of, c[z + k], s[k])
  BY Zenon DEF TableAt, TableRead
<1>4. Advance(l) = [of |-> of, elems |-> s, start |-> l.start, done |-> d + 1]
  BY Zenon DEF Advance, Level
<1>5. ElementRead(of, r, s[d + 1])
  OBVIOUS
<1> HIDE DEF of, s, d, z, c
<1>6. /\ IsTable(v) /\ Len(v) = (z + d) + 1 /\ v[(z + d) + 1] = r
      /\ \A k \in 1 .. z + d : v[k] = c[k]
  BY <1>3, Appended
<1> HIDE DEF v
<1>7. Completed(t, r) = [of |-> of, left |-> lf - 1, open |-> NoItem, built |-> v]
  <2> DEFINE y == lf - 1
             o == t.open
             u == Completed(t, r)
  <2>1. u = [t EXCEPT !.left = y, !.built = v, !.open = NoItem]
    <3>1. t.left = lf /\ t.built = c
      BY <1>3
    <3> QED BY <3>1, Zenon DEF Completed, v
  <2>2. t = [of |-> of, left |-> lf, open |-> o, built |-> c]
    BY <1>3
  <2> HIDE DEF y, o, u, lf
  <2>3. u = [of |-> of, left |-> y, open |-> NoItem, built |-> v]
    BY <2>1, <2>2, TableChanged
  <2> QED BY <2>3 DEF u, y
<1>8. lf - 1 = Len(s) - (d + 1)
  BY <1>1
<1>9. \A k \in 1 .. z : v[k] = NullAttribute
  BY <1>1, <1>2, <1>3, <1>6
<1>10. \A k \in 1 .. d + 1 : ElementRead(of, v[z + k], s[k])
  <2> SUFFICES ASSUME NEW k \in 1 .. d + 1 PROVE ElementRead(of, v[z + k], s[k])
    OBVIOUS
  <2>1. CASE k = d + 1
    <3>1. v[z + k] = r
      <4>1. z + (d + 1) = (z + d) + 1
        BY <1>1, <1>2
      <4> QED BY <1>6, <2>1, <4>1
    <3> QED BY <1>5, <2>1, <3>1
  <2>2. CASE k # d + 1
    <3>1. k \in 1 .. d /\ z + k \in 1 .. z + d
      BY <1>1, <1>2, <2>2
    <3>2. v[z + k] = c[z + k]
      BY <1>6, <3>1
    <3> QED BY <1>3, <3>1, <3>2
  <2> QED BY <2>1, <2>2
<1>11. TableRead(of, v, s, d + 1)
  <2>1. Len(v) = z + (d + 1)
    BY <1>1, <1>2, <1>6
  <2> QED BY <1>6, <1>9, <1>10, <2>1 DEF TableRead, z
<1> DEFINE m == Advance(l)
           u == Completed(t, r)
<1>12. m.of = of /\ m.elems = s /\ m.done = d + 1
  BY <1>4
<1>13. u = [of |-> of, left |-> Len(s) - (d + 1), open |-> u.open, built |-> u.built] /\ u.built = v
  BY <1>7, <1>8
<1> HIDE DEF m, u
<1>14. TableAt(m, u)
  BY <1>11, <1>12, <1>13 DEF TableAt
<1> QED BY <1>14 DEF m, u

LEMMA OneMoreElement ==
  ASSUME NEW b, NEW cs, NEW ls, NEW ts, NEW p, Stacked(b, cs, ls, ts, p),
         ls[Len(ts)].done < Len(ls[Len(ts)].elems),
         NEW r, ElementRead(ls[Len(ts)].of, r, ls[Len(ts)].elems[ls[Len(ts)].done + 1])
  PROVE  \E ms : /\ Stacked(b, cs, ms, Element(ts, r), At(ls[Len(ts)], ls[Len(ts)].done + 1))
                 /\ SameTable(ls[1], ms[1])
<1> DEFINE n == Len(ts)
           l == ls[n]
           t == ts[n]
           us == Element(ts, r)
           ms == [k \in 1 .. n |-> IF k = n THEN Advance(l) ELSE ls[k]]
<1>1. /\ IsTable(ts) /\ n > 0
      /\ \A k \in 1 .. n : IsLevel(b, cs, ls[k]) /\ TableAt(ls[k], ts[k])
      /\ \A k \in 1 .. n - 1 : Links(ls[k], ts[k].open, ls[k + 1])
  BY DEF Stacked
<1>2. n \in Nat
  BY <1>1, TableFacts
<1>3. IsTable(us) /\ Len(us) = n /\ us[n] = Completed(t, r) /\ \A k \in 1 .. n - 1 : us[k] = ts[k]
  <2> DEFINE v == Completed(t, r)
  <2>1. us = [ts EXCEPT ![Len(ts)] = v]
    BY DEF Element
  <2> HIDE DEF v, us
  <2>2. IsTable(ts) /\ Len(ts) > 0
    BY <1>1
  <2>3. /\ IsTable([ts EXCEPT ![Len(ts)] = v]) /\ Len([ts EXCEPT ![Len(ts)] = v]) = Len(ts)
        /\ \A k \in 1 .. Len(ts) - 1 : [ts EXCEPT ![Len(ts)] = v][k] = ts[k]
        /\ [ts EXCEPT ![Len(ts)] = v][Len(ts)] = v
    BY <2>2, Replaced, Zenon
  <2> QED BY <2>1, <2>3, Zenon DEF v
<1> HIDE DEF us
<1>4. n \in 1 .. n /\ (n # 1 => 1 \in 1 .. n - 1)
  <2>1. n > 0
    BY <1>1
  <2> HIDE DEF n
  <2> QED BY <1>2, <2>1
<1>5. IsLevel(b, cs, l) /\ TableAt(l, t) /\ l.done < Len(l.elems) /\ ElementRead(l.of, r, l.elems[l.done + 1])
  BY <1>1, <1>4
<1>6. /\ ms[n] = Advance(l) /\ \A k \in 1 .. n - 1 : ms[k] = ls[k]
  BY <1>2, <1>4
<1> HIDE DEF ms
<1> HIDE DEF l, t
<1>7. /\ IsLevel(b, cs, Advance(l)) /\ SameTable(l, Advance(l))
      /\ \A k : At(Advance(l), k) = At(l, k)
      /\ Advance(l).done = l.done + 1
  BY <1>5, Advanced
<1>8. TableAt(Advance(l), Completed(t, r))
  BY <1>5, TableAdvanced
<1>9. \A k \in 1 .. n : IsLevel(b, cs, ms[k]) /\ TableAt(ms[k], us[k])
  <2> SUFFICES ASSUME NEW k \in 1 .. n PROVE IsLevel(b, cs, ms[k]) /\ TableAt(ms[k], us[k])
    OBVIOUS
  <2>1. CASE k = n
    BY <1>3, <1>6, <1>7, <1>8, <2>1
  <2>2. CASE k # n
    <3>1. k \in 1 .. n - 1
      BY <1>2, <2>2
    <3> QED BY <1>1, <1>3, <1>6, <3>1
  <2> QED BY <2>1, <2>2
<1>10. \A k \in 1 .. n - 1 : Links(ms[k], us[k].open, ms[k + 1])
  <2> SUFFICES ASSUME NEW k \in 1 .. n - 1 PROVE Links(ms[k], us[k].open, ms[k + 1])
    OBVIOUS
  <2>1. Links(ls[k], ts[k].open, ls[k + 1]) /\ ms[k] = ls[k] /\ us[k] = ts[k]
    BY <1>1, <1>3, <1>6
  <2>2. CASE k + 1 = n
    <3>1. ms[k + 1] = Advance(l) /\ ls[k + 1] = l
      BY <1>6, <2>2 DEF l
    <3>2. Links(ls[k], ts[k].open, l)
      BY <2>1, <3>1
    <3>3. Links(ls[k], ts[k].open, Advance(l))
      BY <1>7, <3>2, Zenon DEF Links, SameTable
    <3> QED BY <2>1, <3>1, <3>3
  <2>3. CASE k + 1 # n
    <3>1. k + 1 \in 1 .. n - 1
      BY <1>2, <2>3
    <3> QED BY <1>6, <2>1, <3>1
  <2> QED BY <2>2, <2>3
<1>11. At(l, l.done + 1) = At(ms[n], ms[n].done)
  BY <1>6, <1>7
<1>12. Stacked(b, cs, ms, us, At(l, l.done + 1))
  BY <1>1, <1>3, <1>9, <1>10, <1>11 DEF Stacked
<1>13. SameTable(ls[1], ms[1])
  <2>1. CASE n = 1
    BY <1>6, <1>7, <2>1 DEF l
  <2>2. CASE n # 1
    <3>1. 1 \in 1 .. n - 1
      BY <1>4, <2>2
    <3> QED BY <1>6, <3>1 DEF SameTable
  <2> QED BY <2>1, <2>2
<1> QED BY <1>12, <1>13 DEF l, us

(* The table that an element waits for is complete: so is the element. *)
LEMMA ElementOwns ==
  ASSUME NEW cs, NEW of, NEW e, IsElement(cs, of, e), NEW o, NEW inner, WaitsFor(of, o, e, inner),
         NEW c, TableRead(inner, c, e.attributes, Len(e.attributes))
  PROVE  /\ ElementRead(of, Owning(o, c), e)
         /\ o.kind = "member" => IsText(cs, o.name_index)
<1> DEFINE s == e.attributes
<1>1. CASE of \notin {"attributes", "bootstrap_methods"} /\ inner = "attributes" /\ o = MemberItem(e)
  <2>1. IsMember(cs, e)
    BY <1>1 DEF IsElement
  <2>2. AttributesRead(c, s, Len(s))
    BY <1>1, Zenon DEF TableRead, AttributesRead, Nulls, ElementRead
  <2>3. ReadAsMember(Owning(o, c), e)
    BY <1>1, <2>1, <2>2, MemberOwns
  <2>4. o.name_index = e.name_index /\ IsText(cs, e.name_index)
    BY <1>1, <2>1 DEF MemberItem, IsMember
  <2> QED BY <1>1, <2>3, <2>4, Zenon DEF ElementRead
<1>2. CASE of = "attributes" /\ e.kind = "Code" /\ inner = "attributes" /\ \E n : o = CodeItem(e, n)
  <2>1. IsCode(cs, e)
    BY <1>2, FlatKinds DEF IsElement
  <2>2. AttributesRead(c, s, Len(s))
    BY <1>2, Zenon DEF TableRead, AttributesRead, Nulls, ElementRead
  <2>3. PICK n : o = CodeItem(e, n)
    BY <1>2
  <2>4. AttributeRead(Owning(o, c), e)
    BY <2>1, <2>2, <2>3, CodeOwns
  <2>5. o.kind # "member"
    BY <2>3 DEF CodeItem
  <2> QED BY <1>2, <2>4, <2>5, Zenon DEF ElementRead
<1>3. CASE /\ of = "attributes" /\ e.kind = "BootstrapMethods" /\ inner = "bootstrap_methods"
           /\ \E n : o = BootstrapItem(e, n)
  <2>1. IsFlat(cs, e)
    BY <1>3 DEF IsElement, IsCode
  <2>2. c = s
    <3>1. IsTable(c) /\ Len(c) = 0 + Len(s) /\ \A k \in 1 .. Len(s) : c[0 + k] = s[k]
      BY <1>3, Zenon DEF TableRead, Nulls, ElementRead
    <3>2. s \in Seq(BootstrapMethod)
      BY <1>3, <2>1, FlatBits
    <3> HIDE DEF s
    <3>3. Len(s) \in Nat /\ s = [k \in 1 .. Len(s) |-> s[k]]
      BY <3>2
    <3>4. c = [k \in 1 .. Len(c) |-> c[k]]
      BY <3>1, TableFacts
    <3>5. Len(c) = Len(s) /\ \A k \in 1 .. Len(s) : c[k] = s[k]
      BY <3>1, <3>3
    <3> QED BY <3>3, <3>4, <3>5
  <2>3. PICK n : o = BootstrapItem(e, n)
    BY <1>3
  <2>4. AttributeRead(Owning(o, c), e)
    BY <1>3, <2>1, <2>2, <2>3, BootstrapOwns
  <2>5. o.kind # "member"
    BY <2>3 DEF BootstrapItem
  <2> QED BY <1>3, <2>4, <2>5, Zenon DEF ElementRead
<1> QED BY <1>1, <1>2, <1>3, Zenon DEF WaitsFor

LEMMA OneTableDown ==
  ASSUME NEW b \in Bits, NEW cs, NEW ls, NEW ts, NEW p, Stacked(b, cs, ls, ts, p),
         Len(ts) > 1, ts[Len(ts)].left = 0
  PROVE  LET o == ts[Len(ts) - 1].open
         IN  /\ o.kind = "member" => IsText(cs, o.name_index)
             /\ \E ms : /\ Stacked(b, cs, ms, Element(SubSeq(ts, 1, Len(ts) - 1), Owning(o, ts[Len(ts)].built)), p)
                        /\ SameTable(ls[1], ms[1])
<1> DEFINE n == Len(ts)
           i1 == n - 1
           us == SubSeq(ts, 1, n - 1)
           l == ls[i1]
           m == ls[n]
           o == ts[i1].open
           c == ts[n].built
           e == l.elems[l.done + 1]
           r == Owning(o, c)
<1>1. /\ IsTable(ts) /\ n > 0
      /\ \A k \in 1 .. n : IsLevel(b, cs, ls[k]) /\ TableAt(ls[k], ts[k])
      /\ \A k \in 1 .. n - 1 : Links(ls[k], ts[k].open, ls[k + 1])
      /\ p = At(ls[n], ls[n].done)
  BY DEF Stacked
<1>2. n \in Nat /\ n > 1
  BY <1>1, TableFacts
<1>3. IsTable(us) /\ Len(us) = n - 1 /\ \A k \in 1 .. n - 1 : us[k] = ts[k]
  <2>1. IsTable(ts) /\ Len(ts) > 0
    BY <1>1
  <2> QED BY <2>1, Popped, Zenon
<1>4. ts[n].left = 0
  OBVIOUS
<1> HIDE DEF us, n
<1>5. n \in 1 .. n /\ i1 \in 1 .. n - 1 /\ i1 \in 1 .. n /\ i1 + 1 = n /\ i1 \in Nat
  BY <1>2
<1>6. /\ IsLevel(b, cs, l) /\ IsLevel(b, cs, m) /\ TableAt(l, ts[i1]) /\ TableAt(m, ts[n])
      /\ Links(l, o, m)
  BY <1>1, <1>5
<1> HIDE DEF i1
<1>7. Stacked(b, cs, ls, us, At(l, l.done))
  <2>1. Len(us) = i1 /\ IsTable(us) /\ Len(us) > 0
    BY <1>3, <1>5 DEF i1
  <2>2. \A k \in 1 .. Len(us) : IsLevel(b, cs, ls[k]) /\ TableAt(ls[k], us[k])
    <3> SUFFICES ASSUME NEW k \in 1 .. Len(us) PROVE IsLevel(b, cs, ls[k]) /\ TableAt(ls[k], us[k])
      OBVIOUS
    <3>1. k \in 1 .. n - 1 /\ k \in 1 .. n
      BY <1>2, <1>3
    <3> QED BY <1>1, <1>3, <3>1
  <2>3. \A k \in 1 .. Len(us) - 1 : Links(ls[k], us[k].open, ls[k + 1])
    <3> SUFFICES ASSUME NEW k \in 1 .. Len(us) - 1 PROVE Links(ls[k], us[k].open, ls[k + 1])
      OBVIOUS
    <3>1. k \in 1 .. n - 1
      BY <1>2, <1>3
    <3> QED BY <1>1, <1>3, <3>1
  <2>4. At(l, l.done) = At(ls[Len(us)], ls[Len(us)].done)
    BY <2>1
  <2> HIDE DEF l
  <2> QED BY <2>1, <2>2, <2>3, <2>4 DEF Stacked
<1>8. m.done = Len(m.elems) /\ TableRead(m.of, c, m.elems, m.done)
  <2>1. /\ TableRead(m.of, c, m.elems, m.done)
        /\ ts[n] = [of |-> m.of, left |-> Len(m.elems) - m.done, open |-> ts[n].open, built |-> ts[n].built]
    BY <1>6, Zenon DEF TableAt
  <2>2. Len(m.elems) \in Nat /\ m.done \in Nat
    BY <1>6, LevelFacts
  <2>3. Len(m.elems) - m.done = 0
    BY <1>4, <2>1
  <2> QED BY <2>1, <2>2, <2>3
<1>9. /\ l.done < Len(l.elems) /\ WaitsFor(l.of, o, e, m.of) /\ m.elems = e.attributes
      /\ At(m, Len(m.elems)) = At(l, l.done + 1)
  BY <1>6, Zenon DEF Links
<1>10. IsElement(cs, l.of, e)
  <2>1. Len(l.elems) \in Nat /\ l.done \in Nat /\ \A k \in 1 .. Len(l.elems) : IsElement(cs, l.of, l.elems[k])
    BY <1>6, LevelFacts
  <2>2. l.done + 1 \in 1 .. Len(l.elems)
    BY <1>9, <2>1
  <2> QED BY <2>1, <2>2
<1>11. ElementRead(l.of, r, e) /\ (o.kind = "member" => IsText(cs, o.name_index))
  <2>1. TableRead(m.of, c, e.attributes, Len(e.attributes))
    BY <1>8, <1>9
  <2> QED BY <1>9, <1>10, <2>1, ElementOwns, Zenon
<1>12. p = At(l, l.done + 1)
  BY <1>1, <1>8, <1>9
<1>13. \E ms : Stacked(b, cs, ms, Element(us, r), At(l, l.done + 1)) /\ SameTable(ls[1], ms[1])
  <2>1. Len(us) = i1
    BY <1>3 DEF i1
  <2> HIDE DEF r
  <2>2. /\ ls[Len(us)].done < Len(ls[Len(us)].elems)
        /\ ElementRead(ls[Len(us)].of, r, ls[Len(us)].elems[ls[Len(us)].done + 1])
    BY <1>9, <1>11, <2>1
  <2>3. \E ms : /\ Stacked(b, cs, ms, Element(us, r), At(ls[Len(us)], ls[Len(us)].done + 1))
                /\ SameTable(ls[1], ms[1])
    BY <1>7, <2>2, OneMoreElement, Zenon
  <2> QED BY <2>1, <2>3
<1>14. \E ms : Stacked(b, cs, ms, Element(us, r), p) /\ SameTable(ls[1], ms[1])
  BY <1>12, <1>13
<1> QED BY <1>11, <1>14, Zenon DEF us, i1, n

LEMMA FreshTable ==
  ASSUME NEW b, NEW cs, NEW of, NEW s, IsElements(cs, of, s),
         NEW q \in Nat, Holds(b, q, FlattenSeq(EncodedElements(of, s)))
  PROVE  /\ IsLevel(b, cs, Level(of, s, q, 0)) /\ TableAt(Level(of, s, q, 0), Table(of, Len(s)))
         /\ At(Level(of, s, q, 0), 0) = q
         /\ At(Level(of, s, q, 0), Len(s)) = q + Len(FlattenSeq(EncodedElements(of, s)))
<1> DEFINE l == Level(of, s, q, 0)
           z == Len(s)
           t == Table(of, z)
           c == t.built
<1>1. l.of = of /\ l.elems = s /\ l.start = q /\ l.done = 0
  BY DEF Level
<1>2. IsTable(s) /\ z \in Nat
  BY TableFacts DEF IsElements
<1> HIDE DEF l
<1>3. Encodings(l) = EncodedElements(of, s)
  BY <1>1, Zenon DEF Encodings
<1>4. IsLevel(b, cs, l)
  BY <1>1, <1>2, <1>3 DEF IsLevel
<1>5. t = [of |-> of, left |-> z, open |-> NoItem, built |-> c]
      /\ c = IF of = "attributes" THEN [k \in 1 .. z |-> NullAttribute] ELSE <<>>
  BY DEF Table
<1> HIDE DEF t
<1>6. IsTable(c) /\ Len(c) = Nulls(of, s) /\ \A k \in 1 .. Nulls(of, s) : c[k] = NullAttribute
  <2>1. CASE of = "attributes"
    <3>1. c = [k \in 1 .. z |-> NullAttribute] /\ Nulls(of, s) = z
      BY <1>5, <2>1 DEF Nulls
    <3> HIDE DEF z, c
    <3>2. c \in [1 .. z -> {NullAttribute}]
      BY <3>1
    <3>3. c \in Seq({NullAttribute}) /\ Len(c) = z
      BY <1>2, <3>2, FunctionIsSeq
    <3>4. IsTable(c)
      BY <3>3, SeqIsTable
    <3> QED BY <3>1, <3>3, <3>4
  <2>2. CASE of # "attributes"
    <3>1. c = <<>> /\ Nulls(of, s) = 0
      BY <1>5, <2>2 DEF Nulls
    <3> HIDE DEF c
    <3>2. c \in Seq({NullAttribute}) /\ Len(c) = 0
      BY <3>1
    <3>3. IsTable(c)
      BY <3>2, SeqIsTable
    <3> QED BY <3>1, <3>2, <3>3
  <2> QED BY <2>1, <2>2
<1>7. TableRead(of, c, s, 0)
  <2>1. Len(c) = Nulls(of, s) + 0
    BY <1>2, <1>6 DEF Nulls
  <2> QED BY <1>6, <2>1 DEF TableRead
<1>8. TableAt(l, t)
  <2>1. z - 0 = z
    BY <1>2
  <2>2. t.open = NoItem
    BY <1>5
  <2> QED BY <1>1, <1>5, <1>7, <2>1, <2>2 DEF TableAt
<1>9. At(l, 0) = q /\ At(l, z) = q + Len(FlattenSeq(EncodedElements(of, s)))
  <2> DEFINE ss == EncodedElements(of, s)
  <2>1. ss \in Seq(Bits) /\ Len(ss) = z
    BY ElementsBits
  <2> HIDE DEF ss
  <2>2. IsEnds(ss, FlattenSeq(ss), Ends(ss))
    BY <2>1, EndsExist
  <2>3. Ends(ss)[0] = 0 /\ Ends(ss)[z] = Len(FlattenSeq(ss))
    BY <2>1, <2>2, Zenon DEF IsEnds
  <2>4. \A k : At(l, k) = q + Ends(ss)[k]
    BY <1>1, <1>3 DEF At, ss
  <2>5. At(l, 0) = q
    BY <2>3, <2>4
  <2> QED BY <2>3, <2>4, <2>5 DEF ss
<1> QED BY <1>4, <1>8, <1>9 DEF l, t

LEMMA OneTableUp ==
  ASSUME NEW b, NEW cs, NEW ls, NEW ts, NEW p, Stacked(b, cs, ls, ts, p),
         NEW l, l = ls[Len(ts)], l.done < Len(l.elems),
         NEW e, e = l.elems[l.done + 1],
         NEW o, NEW inner, WaitsFor(l.of, o, e, inner), IsElements(cs, inner, e.attributes),
         NEW q \in Nat, Holds(b, q, FlattenSeq(EncodedElements(inner, e.attributes))),
         At(l, l.done + 1) = q + Len(FlattenSeq(EncodedElements(inner, e.attributes)))
  PROVE  \E ms : /\ Stacked(b, cs, ms,
                            Append([ts EXCEPT ![Len(ts)] = [@ EXCEPT !.open = o]],
                                   Table(inner, Len(e.attributes))), q)
                 /\ SameTable(ls[1], ms[1])
<1> DEFINE n == Len(ts)
           s == e.attributes
           m == Level(inner, s, q, 0)
           t == ts[n]
           u == [t EXCEPT !.open = o]
           v == Table(inner, Len(s))
           us == [ts EXCEPT ![n] = u]
           vs == Append(us, v)
           n1 == n + 1
           ms == [k \in 1 .. n1 |-> IF k = n1 THEN m ELSE ls[k]]
<1>1. /\ IsTable(ts) /\ n > 0
      /\ \A k \in 1 .. n : IsLevel(b, cs, ls[k]) /\ TableAt(ls[k], ts[k])
      /\ \A k \in 1 .. n - 1 : Links(ls[k], ts[k].open, ls[k + 1])
  BY DEF Stacked
<1>2. n \in Nat
  BY <1>1, TableFacts
<1>3. /\ IsTable(us) /\ Len(us) = n /\ us[n] = u /\ \A k \in 1 .. n - 1 : us[k] = ts[k]
  <2>1. IsTable(ts) /\ Len(ts) > 0
    BY <1>1
  <2> HIDE DEF u
  <2> QED BY <2>1, Replaced, Zenon
<1>4. [ts EXCEPT ![Len(ts)] = [@ EXCEPT !.open = o]] = us
  OBVIOUS
<1> HIDE DEF us
<1>5. /\ IsTable(vs) /\ Len(vs) = n1 /\ vs[n1] = v /\ \A k \in 1 .. n : vs[k] = us[k]
  <2> HIDE DEF v
  <2>1. /\ IsTable(Append(us, v)) /\ Len(Append(us, v)) = Len(us) + 1
        /\ \A k \in 1 .. Len(us) : Append(us, v)[k] = us[k]
        /\ Append(us, v)[Len(us) + 1] = v
    BY <1>3, Appended, Zenon
  <2> QED BY <1>3, <2>1, Zenon
<1>6. IsLevel(b, cs, m) /\ TableAt(m, v) /\ At(m, 0) = q
      /\ At(m, Len(s)) = q + Len(FlattenSeq(EncodedElements(inner, s)))
  <2> HIDE DEF m, v, s
  <2> QED BY FreshTable DEF m, v, s
<1>7. m.of = inner /\ m.elems = s /\ m.done = 0
  BY DEF Level
<1>8. TableAt(l, u) /\ u.open = o
  <2> DEFINE c == t.built
             lf == Len(l.elems) - l.done
             x1 == t.open
             of == l.of
  <2>0. n \in 1 .. n
    <3>1. n > 0
      BY <1>1
    <3> HIDE DEF n
    <3> QED BY <1>2, <3>1
  <2>1. TableAt(l, t)
    BY <1>1, <2>0
  <2>2. t = [of |-> of, left |-> lf, open |-> x1, built |-> c] /\ TableRead(l.of, c, l.elems, l.done)
    BY <2>1, Zenon DEF TableAt
  <2>3. u = [t EXCEPT !.open = o]
    OBVIOUS
  <2> HIDE DEF c, lf, x1, t, u, of
  <2>4. u = [of |-> of, left |-> lf, open |-> o, built |-> c]
    BY <2>2, <2>3
  <2>5. u.open = o /\ u.built = c
    BY <2>4
  <2> QED BY <2>2, <2>4, <2>5, Zenon DEF TableAt, lf, of
<1> HIDE DEF vs, v, m, u
<1>9. n1 \in 1 .. n1 /\ n1 \in Nat /\ n1 > 0 /\ n \in 1 .. n /\ n1 - 1 = n /\ n \in 1 .. n1 /\ n # n1
  <2>1. n > 0
    BY <1>1
  <2> HIDE DEF n
  <2> QED BY <1>2, <2>1
<1> HIDE DEF n
<1>10. ms[n1] = m /\ \A k \in 1 .. n : ms[k] = ls[k]
  BY <1>2, <1>9
<1> HIDE DEF ms
<1>11. \A k \in 1 .. n1 : IsLevel(b, cs, ms[k]) /\ TableAt(ms[k], vs[k])
  <2> SUFFICES ASSUME NEW k \in 1 .. n1 PROVE IsLevel(b, cs, ms[k]) /\ TableAt(ms[k], vs[k])
    OBVIOUS
  <2>1. CASE k = n1
    BY <1>5, <1>6, <1>10, <2>1
  <2>2. CASE k = n
    <3>1. ms[k] = l /\ vs[k] = u
      BY <1>3, <1>5, <1>9, <1>10, <2>2 DEF n
    <3>2. IsLevel(b, cs, l)
      BY <1>1, <1>9 DEF n
    <3> QED BY <1>8, <3>1, <3>2
  <2>3. CASE k # n1 /\ k # n
    <3>1. k \in 1 .. n - 1 /\ k \in 1 .. n
      BY <1>2, <2>3
    <3>2. ms[k] = ls[k] /\ vs[k] = ts[k]
      BY <1>3, <1>5, <1>10, <3>1
    <3> QED BY <1>1, <3>1, <3>2
  <2> QED BY <2>1, <2>2, <2>3
<1>12. \A k \in 1 .. n1 - 1 : Links(ms[k], vs[k].open, ms[k + 1])
  <2> SUFFICES ASSUME NEW k \in 1 .. n1 - 1 PROVE Links(ms[k], vs[k].open, ms[k + 1])
    OBVIOUS
  <2>1. CASE k = n
    <3>1. ms[k] = l /\ vs[k] = u /\ ms[k + 1] = m
      BY <1>3, <1>5, <1>9, <1>10, <2>1 DEF n
    <3>2. Links(l, o, m)
      BY <1>6, <1>7 DEF Links
    <3> QED BY <1>8, <3>1, <3>2
  <2>2. CASE k # n
    <3>1. k \in 1 .. n - 1 /\ k \in 1 .. n /\ k + 1 \in 1 .. n
      BY <1>2, <1>9, <2>2
    <3>2. ms[k] = ls[k] /\ ms[k + 1] = ls[k + 1] /\ vs[k] = ts[k]
      BY <1>3, <1>5, <1>10, <3>1
    <3> QED BY <1>1, <3>1, <3>2
  <2> QED BY <2>1, <2>2
<1>13. q = At(ms[n1], ms[n1].done)
  BY <1>6, <1>7, <1>10
<1>14. Stacked(b, cs, ms, vs, q)
  BY <1>5, <1>9, <1>11, <1>12, <1>13 DEF Stacked
<1>15. SameTable(ls[1], ms[1])
  <2>1. 1 \in 1 .. n
    BY <1>9
  <2> QED BY <1>10, <2>1 DEF SameTable
<1> QED BY <1>4, <1>14, <1>15, Zenon DEF vs, v, n

(* The first table of a stack. *)
LEMMA FirstLevel ==
  ASSUME NEW b, NEW cs, NEW of, NEW s, IsElements(cs, of, s),
         NEW q \in Nat, Holds(b, q, FlattenSeq(EncodedElements(of, s)))
  PROVE  LET l == Level(of, s, q, 0)
         IN  Stacked(b, cs, <<l>>, <<Table(of, Len(s))>>, q)
<1> DEFINE l == Level(of, s, q, 0)
           t == Table(of, Len(s))
<1>1. IsLevel(b, cs, l) /\ TableAt(l, t) /\ At(l, 0) = q
  BY FreshTable
<1>2. l.done = 0
  BY DEF Level
<1> HIDE DEF l, t
<1>3. <<t>> \in Seq({t}) /\ Len(<<t>>) = 1 /\ <<t>>[1] = t /\ <<l>>[1] = l
  OBVIOUS
<1>4. IsTable(<<t>>)
  <2> DEFINE ts == <<t>>
             S == {t}
  <2>1. ts \in Seq(S)
    BY <1>3
  <2> HIDE DEF ts, S
  <2> QED BY <2>1, SeqIsTable DEF ts
<1>5. Stacked(b, cs, <<l>>, <<t>>, q)
  <2> DEFINE ts == <<t>>
             ls == <<l>>
  <2>1. Len(ts) = 1 /\ ts[1] = t /\ ls[1] = l /\ IsTable(ts)
    BY <1>3, <1>4
  <2> HIDE DEF ts, ls
  <2>2. \A k \in 1 .. Len(ts) : IsLevel(b, cs, ls[k]) /\ TableAt(ls[k], ts[k])
    BY <1>1, <2>1
  <2>3. \A k \in 1 .. Len(ts) - 1 : Links(ls[k], ts[k].open, ls[k + 1])
    BY <2>1
  <2>4. q = At(ls[Len(ts)], ls[Len(ts)].done)
    BY <1>1, <1>2, <2>1
  <2>5. Len(ts) > 0
    BY <2>1
  <2>6. Stacked(b, cs, ls, ts, q)
    BY <2>1, <2>2, <2>3, <2>4, <2>5, Zenon DEF Stacked
  <2> QED BY <2>6 DEF ts, ls
<1> QED BY <1>5 DEF l, t

-----------------------------------------------------------------------------
(* The parser in one of the tables of a class. *)

(* From p on, the file holds w and nothing else. *)
Remains(b, p, w) == p \in Nat /\ Holds(b, p, w) /\ p + Len(w) = Len(b)

(* The table of the elements s is being read, with all that is nested in   *)
(* it, and rest follows it.                                                *)
InTable(b, cs, ts, p, of, s, rest) ==
  \E ls : /\ Stacked(b, cs, ls, ts, p)
          /\ ls[1].of = of /\ ls[1].elems = s
          /\ Remains(b, At(ls[1], Len(s)), rest)

LEMMA StaysInTable ==
  ASSUME NEW b, NEW cs, NEW of, NEW s, NEW rest,
         NEW ls, ls[1].of = of, ls[1].elems = s, Remains(b, At(ls[1], Len(s)), rest),
         NEW ts, NEW p, \E ms : Stacked(b, cs, ms, ts, p) /\ SameTable(ls[1], ms[1])
  PROVE  InTable(b, cs, ts, p, of, s, rest)
<1>1. PICK ms : Stacked(b, cs, ms, ts, p) /\ SameTable(ls[1], ms[1])
  OBVIOUS
<1>2. ms[1].of = of /\ ms[1].elems = s /\ ms[1].start = ls[1].start
  BY <1>1, Zenon DEF SameTable
<1>3. At(ms[1], Len(s)) = At(ls[1], Len(s))
  BY <1>2, Zenon DEF At, Encodings
<1> QED BY <1>1, <1>2, <1>3, Zenon DEF InTable

(* The pool has been read. *)
Known ==
  /\ Source
  /\ Len(class.constants) \in Nat /\ DOMAIN class.constants = 1 .. Len(class.constants)
  /\ pool = PoolOf(class.constants)

(* The element that the innermost table is at. *)
LEMMA NextItem ==
  ASSUME Known, NEW ls, Stacked(File, class.constants, ls, tables, pos), Top.left > 0
  PROVE  LET l == ls[Len(tables)]
             e == l.elems[l.done + 1]
             w == EncodeElement(l.of, e)
         IN  /\ Top.of = l.of /\ l.done < Len(l.elems)
             /\ IsElement(class.constants, l.of, e)
             /\ Holds(File, pos, w)
             /\ At(l, l.done + 1) = pos + Len(w)
<1> DEFINE n == Len(tables)
           l == ls[n]
           e == l.elems[l.done + 1]
           w == EncodeElement(l.of, e)
           cs == class.constants
<1>1. /\ IsTable(tables) /\ n > 0
      /\ \A k \in 1 .. n : IsLevel(File, cs, ls[k]) /\ TableAt(ls[k], tables[k])
      /\ pos = At(l, l.done)
  BY DEF Stacked
<1>2. n \in 1 .. n
  <2>1. n \in Nat
    BY <1>1, TableFacts
  <2>2. n > 0
    BY <1>1
  <2> HIDE DEF n
  <2> QED BY <2>1, <2>2
<1>3. IsLevel(File, cs, l) /\ TableAt(l, tables[n])
  BY <1>1, <1>2
<1>4. File \in Bits
  BY DEF Known, Source
<1>5. Top = tables[n]
  BY DEF Top
<1> HIDE DEF n, cs
<1>6. /\ Len(l.elems) \in Nat /\ l.done \in Nat
      /\ \A k \in 1 .. Len(l.elems) :
           /\ IsElement(cs, l.of, l.elems[k])
           /\ Holds(File, At(l, k - 1), EncodeElement(l.of, l.elems[k]))
           /\ At(l, k) = At(l, k - 1) + Len(EncodeElement(l.of, l.elems[k]))
  BY <1>3, <1>4, LevelFacts
<1>7. Top.of = l.of /\ Top.left = Len(l.elems) - l.done
  <2>1. tables[n] = [of |-> l.of, left |-> Len(l.elems) - l.done, open |-> tables[n].open, built |-> tables[n].built]
    BY <1>3, Zenon DEF TableAt
  <2> HIDE DEF l
  <2> QED BY <1>5, <2>1
<1>8. l.done < Len(l.elems)
  BY <1>6, <1>7
<1> DEFINE k == l.done + 1
<1>9. k \in 1 .. Len(l.elems) /\ k - 1 = l.done
  BY <1>6, <1>8
<1> HIDE DEF k
<1>10. /\ IsElement(cs, l.of, l.elems[k])
       /\ Holds(File, At(l, l.done), EncodeElement(l.of, l.elems[k]))
       /\ At(l, k) = At(l, l.done) + Len(EncodeElement(l.of, l.elems[k]))
  BY <1>6, <1>9
<1> QED BY <1>1, <1>7, <1>8, <1>10 DEF k, cs, n

(* The two ways in which a step leaves the parser in the same table. *)
LEMMA ElementIn ==
  ASSUME NEW of, NEW s, NEW rest,
         NEW ls, Stacked(File, class.constants, ls, tables, pos),
         ls[1].of = of, ls[1].elems = s, Remains(File, At(ls[1], Len(s)), rest),
         NEW l, l = ls[Len(tables)], l.done < Len(l.elems),
         NEW r, ElementRead(l.of, r, l.elems[l.done + 1])
  PROVE  InTable(File, class.constants, Element(tables, r), At(l, l.done + 1), of, s, rest)
<1>1. \E ms : /\ Stacked(File, class.constants, ms, Element(tables, r), At(l, l.done + 1))
              /\ SameTable(ls[1], ms[1])
  BY OneMoreElement, Zenon
<1> QED BY <1>1, StaysInTable, Zenon

LEMMA NestIn ==
  ASSUME NEW of, NEW s, NEW rest,
         NEW ls, Stacked(File, class.constants, ls, tables, pos),
         ls[1].of = of, ls[1].elems = s, Remains(File, At(ls[1], Len(s)), rest),
         NEW l, l = ls[Len(tables)], l.done < Len(l.elems),
         NEW e, e = l.elems[l.done + 1],
         NEW o, NEW inner, WaitsFor(l.of, o, e, inner), IsElements(class.constants, inner, e.attributes),
         NEW n, n = Len(e.attributes),
         NEW q \in Nat, Holds(File, q, FlattenSeq(EncodedElements(inner, e.attributes))),
         At(l, l.done + 1) = q + Len(FlattenSeq(EncodedElements(inner, e.attributes)))
  PROVE  InTable(File, class.constants, Nest(o, inner, n), q, of, s, rest)
<1>1. \E ms : /\ Stacked(File, class.constants, ms,
                         Append([tables EXCEPT ![Len(tables)] = [@ EXCEPT !.open = o]],
                                Table(inner, Len(e.attributes))), q)
              /\ SameTable(ls[1], ms[1])
  BY OneTableUp, Zenon
<1>2. \E ms : /\ Stacked(File, class.constants, ms, Nest(o, inner, n), q)
              /\ SameTable(ls[1], ms[1])
  BY <1>1, Zenon DEF Nest
<1> QED BY <1>2, StaysInTable, Zenon

-----------------------------------------------------------------------------
(* The steps inside a table of a class. *)

(* The innermost table l is at the element e. *)
ReadsNext(of, s, rest, ls, l, e) ==
  /\ Stacked(File, class.constants, ls, tables, pos)
  /\ ls[1].of = of /\ ls[1].elems = s /\ Remains(File, At(ls[1], Len(s)), rest)
  /\ l = ls[Len(tables)] /\ l.done < Len(l.elems) /\ e = l.elems[l.done + 1]
  /\ Top.of = l.of
  /\ IsElement(class.constants, l.of, e)
  /\ Holds(File, pos, EncodeElement(l.of, e))
  /\ At(l, l.done + 1) = pos + Len(EncodeElement(l.of, e))

LEMMA AtElement ==
  ASSUME Known, NEW of, NEW s, NEW rest, InTable(File, class.constants, tables, pos, of, s, rest),
         Top.left > 0
  PROVE  \E ls, l, e : ReadsNext(of, s, rest, ls, l, e)
<1>1. PICK ls : /\ Stacked(File, class.constants, ls, tables, pos)
                /\ ls[1].of = of /\ ls[1].elems = s /\ Remains(File, At(ls[1], Len(s)), rest)
  BY Zenon DEF InTable
<1> DEFINE l == ls[Len(tables)]
           e == l.elems[l.done + 1]
           w == EncodeElement(l.of, e)
<1>2. /\ Top.of = l.of /\ l.done < Len(l.elems)
      /\ IsElement(class.constants, l.of, e)
      /\ Holds(File, pos, w)
      /\ At(l, l.done + 1) = pos + Len(w)
  BY <1>1, NextItem, Zenon
<1>3. ReadsNext(of, s, rest, ls, l, e)
  BY <1>1, <1>2, Zenon DEF ReadsNext
<1> QED BY <1>3, Zenon

(* What an element of each kind of table is. *)
LEMMA ElementKinds ==
  ASSUME NEW cs, NEW e
  PROVE  /\ IsElement(cs, "attributes", e) = (IsFlat(cs, e) \/ IsCode(cs, e))
         /\ EncodeElement("attributes", e) = EncodeAttribute(e)
         /\ IsElement(cs, "bootstrap_methods", e) = (e \in BootstrapMethod)
         /\ EncodeElement("bootstrap_methods", e) = EncodeBootstrapMethod(e)
         /\ \A of : of \notin {"attributes", "bootstrap_methods"} =>
              IsElement(cs, of, e) = IsMember(cs, e) /\ EncodeElement(of, e) = EncodeMember(e)
BY DEF IsElement, EncodeElement

LEMMA EncodedKinds ==
  ASSUME NEW s
  PROVE  /\ EncodedElements("attributes", s) = [k \in DOMAIN s |-> EncodeAttribute(s[k])]
         /\ EncodedElements("bootstrap_methods", s) = [k \in DOMAIN s |-> EncodeBootstrapMethod(s[k])]
         /\ \A of : of \notin {"attributes", "bootstrap_methods"} =>
              EncodedElements(of, s) = [k \in DOMAIN s |-> EncodeMember(s[k])]
BY DEF EncodedElements, EncodeElement

(* A nested table starts n bytes into an element. *)
LEMMA NestAfter ==
  ASSUME Known, NEW of, NEW s, NEW rest, NEW ls, NEW l, NEW e, ReadsNext(of, s, rest, ls, l, e),
         NEW o, NEW inner, WaitsFor(l.of, o, e, inner), IsElements(class.constants, inner, e.attributes),
         NEW n \in Nat, NEW g, g = FlattenSeq(EncodedElements(inner, e.attributes)),
         Holds(File, pos + n, g), Len(EncodeElement(l.of, e)) = n + Len(g), Len(g) \in Nat,
         NEW c, c = Len(e.attributes)
  PROVE  InTable(File, class.constants, Nest(o, inner, c), pos + n, of, s, rest)
<1>1. pos \in Nat
  BY DEF Known, Source
<1> DEFINE q == pos + n
<1>2. q \in Nat /\ pos + (n + Len(g)) = q + Len(g)
  BY <1>1
<1>3. /\ Stacked(File, class.constants, ls, tables, pos)
      /\ ls[1].of = of /\ ls[1].elems = s /\ Remains(File, At(ls[1], Len(s)), rest)
      /\ l = ls[Len(tables)] /\ l.done < Len(l.elems) /\ e = l.elems[l.done + 1]
      /\ At(l, l.done + 1) = pos + Len(EncodeElement(l.of, e))
  BY Zenon DEF ReadsNext
<1>4. At(l, l.done + 1) = q + Len(g)
  BY <1>2, <1>3, Zenon
<1> HIDE DEF q
<1>5. /\ Holds(File, q, FlattenSeq(EncodedElements(inner, e.attributes)))
      /\ At(l, l.done + 1) = q + Len(FlattenSeq(EncodedElements(inner, e.attributes)))
  BY <1>4, Zenon DEF q
<1>6. InTable(File, class.constants, Nest(o, inner, c), q, of, s, rest)
  BY <1>2, <1>3, <1>5, NestIn, Zenon
<1> QED BY <1>6 DEF q

LEMMA MemberStepIn ==
  ASSUME Known, NEW of, NEW s, NEW rest, InTable(File, class.constants, tables, pos, of, s, rest),
         CreateMemberInfo
  PROVE  InTable(File, class.constants, tables', pos', of, s, rest)
<1> DEFINE cs == class.constants
<1>1. Top.of \in {"fields", "methods"} /\ Top.left > 0 /\ checkBounds(8) /\ pos' = pos + 8
  BY DEF CreateMemberInfo, Filling, Take
<1>2. PICK ls, l, e : ReadsNext(of, s, rest, ls, l, e)
  BY <1>1, AtElement, Zenon
<1>3. /\ l.of = Top.of /\ IsElement(cs, l.of, e) /\ Holds(File, pos, EncodeElement(l.of, e))
  BY <1>2, Zenon DEF ReadsNext
<1>4. l.of \notin {"attributes", "bootstrap_methods"}
  BY <1>1, <1>3
<1>5. IsMember(cs, e) /\ EncodeElement(l.of, e) = EncodeMember(e) /\ Holds(File, pos, EncodeMember(e))
  BY <1>3, <1>4, ElementKinds
<1> DEFINE g == FlattenSeq(EncodedElements("attributes", e.attributes))
           z == Len(e.attributes)
           o == [kind |-> "member", access_flags |-> U2(0), name_index |-> U2(2),
                 descriptor_index |-> U2(4), attributes |-> <<>>]
<1>6. Source /\ Len(cs) \in Nat /\ DOMAIN cs = 1 .. Len(cs) /\ pool = PoolOf(cs)
  BY DEF Known
<1>7. g = FlattenSeq([k \in DOMAIN e.attributes |-> EncodeAttribute(e.attributes[k])])
  BY EncodedKinds, Zenon
<1>8. IsElements(cs, "attributes", e.attributes)
  <2>1. IsTable(e.attributes) /\ \A k \in 1 .. Len(e.attributes) : IsFlat(cs, e.attributes[k]) \/ IsCode(cs, e.attributes[k])
    BY <1>5, MemberIs, Zenon
  <2> QED BY <2>1, ElementKinds, Zenon DEF IsElements
<1>9. tables' = Nest(o, "attributes", U2(6))
  BY DEF CreateMemberInfo
<1> HIDE DEF g, cs
<1>10. /\ U2(0) = e.access_flags /\ U2(2) = e.name_index /\ U2(4) = e.descriptor_index
       /\ U2(6) = z
       /\ Len(EncodeMember(e)) = 8 + Len(g) /\ Len(g) \in Nat
       /\ Holds(File, pos + 8, g)
  BY <1>1, <1>5, <1>6, <1>7, MemberRead
<1>11. o = MemberItem(e)
  BY <1>10 DEF MemberItem
<1> HIDE DEF o, z
<1>12. WaitsFor(l.of, o, e, "attributes")
  BY <1>4, <1>11, Zenon DEF WaitsFor
<1>13. InTable(File, cs, Nest(o, "attributes", z), pos + 8, of, s, rest)
  <2>1. 8 \in Nat /\ g = FlattenSeq(EncodedElements("attributes", e.attributes)) /\ z = Len(e.attributes)
    BY DEF g, z
  <2>2. Len(EncodeElement(l.of, e)) = 8 + Len(g)
    BY <1>5, <1>10
  <2> QED BY <1>2, <1>8, <1>10, <1>12, <2>1, <2>2, NestAfter, Zenon DEF cs
<1> QED BY <1>1, <1>9, <1>10, <1>13, Zenon DEF cs

LEMMA CodeStepIn ==
  ASSUME Known, NEW of, NEW s, NEW rest, InTable(File, class.constants, tables, pos, of, s, rest),
         CreateCodeAttribute
  PROVE  InTable(File, class.constants, tables', pos', of, s, rest)
<1> DEFINE cs == class.constants
           q == AttributeSize
<1>1. /\ Top.of = "attributes" /\ Top.left > 0 /\ checkBounds(6) /\ Kind = "Code"
      /\ checkBounds(q) /\ pos' = pos + q
  BY DEF CreateCodeAttribute, Attribute, Filling, Take
<1>2. PICK ls, l, e : ReadsNext(of, s, rest, ls, l, e)
  BY <1>1, AtElement, Zenon
<1>3. l.of = "attributes" /\ IsElement(cs, l.of, e) /\ Holds(File, pos, EncodeElement(l.of, e))
  BY <1>1, <1>2, Zenon DEF ReadsNext
<1>4. /\ IsFlat(cs, e) \/ IsCode(cs, e)
      /\ EncodeElement(l.of, e) = EncodeAttribute(e) /\ Holds(File, pos, EncodeAttribute(e))
  BY <1>3, ElementKinds
<1>5. Source /\ Len(cs) \in Nat /\ DOMAIN cs = 1 .. Len(cs) /\ pool = PoolOf(cs)
  BY DEF Known
<1>6. IsCode(cs, e)
  <2> SUFFICES ASSUME IsFlat(cs, e) PROVE FALSE
    BY <1>4
  <2>1. e.kind # "Code"
    BY FlatKinds
  <2>2. CASE e.kind = "BootstrapMethods"
    <3>1. Kind = "BootstrapMethods"
      BY <1>1, <1>4, <1>5, <2>2, BootstrapMethodsRead
    <3> QED BY <1>1, <3>1
  <2>3. CASE e.kind # "BootstrapMethods"
    <3>1. Kind = e.kind
      BY <1>1, <1>4, <1>5, <2>3, FlatRead
    <3> QED BY <1>1, <2>1, <3>1
  <2> QED BY <2>2, <2>3
<1> DEFINE g == FlattenSeq(EncodedElements("attributes", e.attributes))
           z == Len(e.attributes)
           o == CodeAttribute
<1>7. /\ IsTable(e.attributes) /\ e.kind = "Code"
      /\ \A k \in 1 .. Len(e.attributes) : IsFlat(cs, e.attributes[k])
      /\ FlattenSeq([k \in DOMAIN e.attributes |-> EncodeFlat(e.attributes[k])]) \in Bits
  BY <1>6, CodeBits, Zenon
<1>8. g = FlattenSeq([k \in DOMAIN e.attributes |-> EncodeFlat(e.attributes[k])])
  <2>1. \A k \in DOMAIN e.attributes : EncodeAttribute(e.attributes[k]) = EncodeFlat(e.attributes[k])
    <3> TAKE k \in DOMAIN e.attributes
    <3>1. k \in 1 .. Len(e.attributes)
      BY <1>7, TableFacts
    <3> QED BY <1>7, <3>1, FlatBits
  <2>2. EncodedElements("attributes", e.attributes) = [k \in DOMAIN e.attributes |-> EncodeAttribute(e.attributes[k])]
    BY EncodedKinds, Zenon
  <2>3. EncodedElements("attributes", e.attributes) = [k \in DOMAIN e.attributes |-> EncodeFlat(e.attributes[k])]
    BY <2>1, <2>2
  <2> QED BY <2>3
<1>9. IsElements(cs, "attributes", e.attributes)
  BY <1>7, ElementKinds, Zenon DEF IsElements
<1>10. tables' = Nest(o, "attributes", U2(q - 2))
  BY DEF CreateCodeAttribute
<1>11. Len(g) \in Nat
  <2>1. g \in Bits
    BY <1>7, <1>8
  <2> HIDE DEF g
  <2> QED BY <2>1 DEF Bits
<1> HIDE DEF g, cs, q
<1>12. /\ q \in Nat /\ Len(EncodeAttribute(e)) = q + Len(g)
       /\ Holds(File, pos + q, g)
       /\ U2(q - 2) = z
       /\ o = CodeItem(e, U4(2))
  BY <1>1, <1>4, <1>5, <1>6, <1>8, CodeRead DEF q
<1> HIDE DEF o, z
<1>13. WaitsFor(l.of, o, e, "attributes")
  BY <1>3, <1>7, <1>12, Zenon DEF WaitsFor
<1>14. InTable(File, cs, Nest(o, "attributes", z), pos + q, of, s, rest)
  <2>1. g = FlattenSeq(EncodedElements("attributes", e.attributes)) /\ z = Len(e.attributes)
    BY DEF g, z
  <2>2. Len(EncodeElement(l.of, e)) = q + Len(g)
    BY <1>4, <1>12
  <2> QED BY <1>2, <1>9, <1>11, <1>12, <1>13, <2>1, <2>2, NestAfter, Zenon DEF cs
<1> QED BY <1>1, <1>10, <1>12, <1>14, Zenon DEF cs

(* Any attribute: its name is found, and gives its kind.                   *)
LEMMA AttributeKind ==
  ASSUME Known, NEW e, IsFlat(class.constants, e) \/ IsCode(class.constants, e),
         Holds(File, pos, EncodeAttribute(e))
  PROVE  /\ checkBounds(6) => IsUtf8(U2(0)) /\ Kind = e.kind
         /\ Whole => checkBounds(AttributeSize)
<1> DEFINE cs == class.constants
<1>1. Source /\ Len(cs) \in Nat /\ DOMAIN cs = 1 .. Len(cs) /\ pool = PoolOf(cs)
  BY DEF Known
<1>2. CASE IsCode(cs, e)
  <2>1. e.kind = "Code"
    BY <1>2 DEF IsCode
  <2> QED BY <1>1, <1>2, <2>1, CodeRead
<1>3. CASE IsFlat(cs, e) /\ e.kind = "BootstrapMethods"
  BY <1>1, <1>3, BootstrapMethodsRead
<1>4. CASE IsFlat(cs, e) /\ e.kind # "BootstrapMethods"
  BY <1>1, <1>4, FlatRead
<1> QED BY <1>2, <1>3, <1>4

LEMMA BootstrapStepIn ==
  ASSUME Known, NEW of, NEW s, NEW rest, InTable(File, class.constants, tables, pos, of, s, rest),
         CreateBootstrapMethods
  PROVE  InTable(File, class.constants, tables', pos', of, s, rest)
<1> DEFINE cs == class.constants
<1>1. /\ Top.of = "attributes" /\ Top.left > 0 /\ checkBounds(6) /\ Kind = "BootstrapMethods"
      /\ checkBounds(AttributeSize) /\ pos' = pos + AttributeSize
  BY DEF CreateBootstrapMethods, Attribute, Filling, Take
<1>2. PICK ls, l, e : ReadsNext(of, s, rest, ls, l, e)
  BY <1>1, AtElement, Zenon
<1>3. l.of = "attributes" /\ IsElement(cs, l.of, e) /\ Holds(File, pos, EncodeElement(l.of, e))
  BY <1>1, <1>2, Zenon DEF ReadsNext
<1>4. /\ IsFlat(cs, e) \/ IsCode(cs, e)
      /\ EncodeElement(l.of, e) = EncodeAttribute(e) /\ Holds(File, pos, EncodeAttribute(e))
  BY <1>3, ElementKinds
<1>5. Source /\ Len(cs) \in Nat /\ DOMAIN cs = 1 .. Len(cs) /\ pool = PoolOf(cs)
  BY DEF Known
<1>6. IsFlat(cs, e) /\ e.kind = "BootstrapMethods"
  <2>1. e.kind = "BootstrapMethods"
    BY <1>1, <1>4, AttributeKind
  <2>2. IsCode(cs, e) => e.kind = "Code"
    BY DEF IsCode
  <2> QED BY <1>4, <2>1, <2>2
<1> DEFINE g == FlattenSeq(EncodedElements("bootstrap_methods", e.attributes))
           z == Len(e.attributes)
           o == [kind |-> "BootstrapMethods", name_index |-> U2(0), length |-> U4(2), attributes |-> <<>>]
<1>7. g = FlattenSeq([k \in DOMAIN e.attributes |-> EncodeBootstrapMethod(e.attributes[k])])
  BY EncodedKinds, Zenon
<1>8. IsElements(cs, "bootstrap_methods", e.attributes)
  <2> DEFINE t == e.attributes
  <2>1. t \in Seq(BootstrapMethod)
    BY <1>6, FlatBits
  <2> HIDE DEF t
  <2>2. IsTable(t) /\ \A k \in 1 .. Len(t) : t[k] \in BootstrapMethod
    BY <2>1, SeqIsTable
  <2>3. IsElements(cs, "bootstrap_methods", t)
    BY <2>2, ElementKinds, Zenon DEF IsElements
  <2> QED BY <2>3 DEF t
<1>9. tables' = Nest(o, "bootstrap_methods", U2(6))
  BY DEF CreateBootstrapMethods
<1> HIDE DEF g, cs
<1>10. /\ AttributeSize = 8 /\ Len(EncodeAttribute(e)) = 8 + Len(g) /\ Len(g) \in Nat
       /\ Holds(File, pos + 8, g)
       /\ U2(6) = z
       /\ U2(0) = e.name_index
  BY <1>1, <1>4, <1>5, <1>6, <1>7, BootstrapMethodsRead
<1>11. o = BootstrapItem(e, U4(2))
  BY <1>10 DEF BootstrapItem
<1> HIDE DEF o, z
<1>12. WaitsFor(l.of, o, e, "bootstrap_methods")
  BY <1>3, <1>6, <1>11, Zenon DEF WaitsFor
<1>13. InTable(File, cs, Nest(o, "bootstrap_methods", z), pos + 8, of, s, rest)
  <2>1. 8 \in Nat /\ g = FlattenSeq(EncodedElements("bootstrap_methods", e.attributes)) /\ z = Len(e.attributes)
    BY DEF g, z
  <2>2. Len(EncodeElement(l.of, e)) = 8 + Len(g)
    BY <1>4, <1>10
  <2> QED BY <1>2, <1>8, <1>10, <1>12, <2>1, <2>2, NestAfter, Zenon DEF cs
<1> QED BY <1>1, <1>9, <1>10, <1>13, Zenon DEF cs

(* An element without a table of its own is read as a whole. *)
LEMMA ElementAfter ==
  ASSUME NEW of, NEW s, NEW rest, NEW ls, NEW l, NEW e, ReadsNext(of, s, rest, ls, l, e),
         NEW r, ElementRead(l.of, r, e), NEW n, n = Len(EncodeElement(l.of, e))
  PROVE  InTable(File, class.constants, Element(tables, r), pos + n, of, s, rest)
<1>1. /\ Stacked(File, class.constants, ls, tables, pos)
      /\ ls[1].of = of /\ ls[1].elems = s /\ Remains(File, At(ls[1], Len(s)), rest)
      /\ l = ls[Len(tables)] /\ l.done < Len(l.elems) /\ e = l.elems[l.done + 1]
      /\ At(l, l.done + 1) = pos + Len(EncodeElement(l.of, e))
  BY Zenon DEF ReadsNext
<1>2. ElementRead(l.of, r, l.elems[l.done + 1])
  BY <1>1, Zenon
<1>3. InTable(File, class.constants, Element(tables, r), At(l, l.done + 1), of, s, rest)
  BY <1>1, <1>2, ElementIn, Zenon
<1> QED BY <1>1, <1>3, Zenon

LEMMA FlatStepIn ==
  ASSUME Known, NEW of, NEW s, NEW rest, InTable(File, class.constants, tables, pos, of, s, rest),
         CreateFlatAttribute
  PROVE  InTable(File, class.constants, tables', pos', of, s, rest)
<1> DEFINE cs == class.constants
<1>1. /\ Top.of = "attributes" /\ Top.left > 0 /\ checkBounds(6)
      /\ Kind \in {"ConstantValue", "Exceptions", "Generic"}
      /\ checkBounds(AttributeSize) /\ pos' = pos + AttributeSize
      /\ tables' = Element(tables, FlatAttribute)
  BY DEF CreateFlatAttribute, Attribute, Filling, Take
<1>2. PICK ls, l, e : ReadsNext(of, s, rest, ls, l, e)
  BY <1>1, AtElement, Zenon
<1>3. l.of = "attributes" /\ IsElement(cs, l.of, e) /\ Holds(File, pos, EncodeElement(l.of, e))
  BY <1>1, <1>2, Zenon DEF ReadsNext
<1>4. /\ IsFlat(cs, e) \/ IsCode(cs, e)
      /\ EncodeElement(l.of, e) = EncodeAttribute(e) /\ Holds(File, pos, EncodeAttribute(e))
  BY <1>3, ElementKinds
<1>5. Source /\ Len(cs) \in Nat /\ DOMAIN cs = 1 .. Len(cs) /\ pool = PoolOf(cs)
  BY DEF Known
<1>6. IsFlat(cs, e) /\ e.kind # "BootstrapMethods"
  <2>1. e.kind = Kind
    BY <1>1, <1>4, AttributeKind
  <2>2. IsCode(cs, e) => e.kind = "Code"
    BY DEF IsCode
  <2> QED BY <1>1, <1>4, <2>1, <2>2
<1> HIDE DEF cs
<1>7. AttributeSize = Len(EncodeAttribute(e)) /\ AttributeRead(FlatAttribute, e)
  BY <1>1, <1>4, <1>5, <1>6, FlatRead
<1>8. ElementRead(l.of, FlatAttribute, e)
  BY <1>3, <1>7, Zenon DEF ElementRead
<1>9. AttributeSize = Len(EncodeElement(l.of, e))
  BY <1>4, <1>7
<1>10. InTable(File, class.constants, Element(tables, FlatAttribute), pos + AttributeSize, of, s, rest)
  BY <1>2, <1>8, <1>9, ElementAfter, Zenon
<1> QED BY <1>1, <1>10, Zenon

LEMMA BootstrapMethodStepIn ==
  ASSUME Known, NEW of, NEW s, NEW rest, InTable(File, class.constants, tables, pos, of, s, rest),
         ReadBootstrapMethod
  PROVE  InTable(File, class.constants, tables', pos', of, s, rest)
<1> DEFINE r == [method_ref |-> U2(0), arguments |-> U2s(4, U2(2))]
<1>1. /\ Top.of = "bootstrap_methods" /\ Top.left > 0
      /\ checkBounds(Counted(4, 2)) /\ pos' = pos + Counted(4, 2)
      /\ tables' = Element(tables, r)
  BY DEF ReadBootstrapMethod, Filling, Take
<1>2. PICK ls, l, e : ReadsNext(of, s, rest, ls, l, e)
  BY <1>1, AtElement, Zenon
<1>3. l.of = "bootstrap_methods" /\ IsElement(class.constants, l.of, e) /\ Holds(File, pos, EncodeElement(l.of, e))
  BY <1>1, <1>2, Zenon DEF ReadsNext
<1>4. /\ e \in BootstrapMethod
      /\ EncodeElement(l.of, e) = EncodeBootstrapMethod(e) /\ Holds(File, pos, EncodeBootstrapMethod(e))
  BY <1>3, ElementKinds
<1>5. Counted(4, 2) = Len(EncodeBootstrapMethod(e)) /\ r = e
  BY <1>1, <1>4, MethodRead DEF Known
<1> HIDE DEF r
<1>6. ElementRead(l.of, r, e)
  BY <1>3, <1>5 DEF ElementRead
<1>7. Counted(4, 2) = Len(EncodeElement(l.of, e))
  BY <1>4, <1>5
<1>8. InTable(File, class.constants, Element(tables, r), pos + Counted(4, 2), of, s, rest)
  BY <1>2, <1>6, <1>7, ElementAfter, Zenon
<1> QED BY <1>1, <1>8, Zenon

LEMMA NestedEnds ==
  ASSUME Known, NEW of, NEW s, NEW rest, InTable(File, class.constants, tables, pos, of, s, rest),
         Len(tables) > 1, Top.left = 0
  PROVE  /\ Owner.kind = "member" => IsUtf8(Owner.name_index)
         /\ InTable(File, class.constants, Element(Pop, Owning(Owner, Top.built)), pos, of, s, rest)
<1> DEFINE cs == class.constants
           n == Len(tables)
           o == tables[n - 1].open
<1>1. PICK ls : /\ Stacked(File, cs, ls, tables, pos)
                /\ ls[1].of = of /\ ls[1].elems = s /\ Remains(File, At(ls[1], Len(s)), rest)
  BY Zenon DEF InTable
<1>2. File \in Bits /\ Len(cs) \in Nat /\ DOMAIN cs = 1 .. Len(cs) /\ pool = PoolOf(cs)
  BY DEF Known, Source
<1>3. tables[n].left = 0 /\ Owner = o /\ Top = tables[n] /\ Pop = SubSeq(tables, 1, n - 1)
  BY DEF Top, Owner, Pop
<1>4. /\ o.kind = "member" => IsText(cs, o.name_index)
      /\ \E ms : /\ Stacked(File, cs, ms, Element(SubSeq(tables, 1, n - 1), Owning(o, tables[n].built)), pos)
                 /\ SameTable(ls[1], ms[1])
  <2>1. Len(tables) > 1 /\ tables[Len(tables)].left = 0
    BY <1>3
  <2> QED BY <1>1, <1>2, <2>1, OneTableDown, Zenon
<1>5. o.kind = "member" => IsUtf8(o.name_index)
  BY <1>2, <1>4, NameFound
<1>6. \E ms : /\ Stacked(File, cs, ms, Element(Pop, Owning(Owner, Top.built)), pos)
              /\ SameTable(ls[1], ms[1])
  BY <1>3, <1>4, Zenon
<1>7. InTable(File, cs, Element(Pop, Owning(Owner, Top.built)), pos, of, s, rest)
  BY <1>1, <1>6, StaysInTable, Zenon
<1> QED BY <1>3, <1>5, <1>7, Zenon

LEMMA NestedStepIn ==
  ASSUME Known, NEW of, NEW s, NEW rest, InTable(File, class.constants, tables, pos, of, s, rest),
         EndNestedTable
  PROVE  InTable(File, class.constants, tables', pos', of, s, rest)
<1>1. Len(tables) > 1 /\ Top.left = 0 /\ pos' = pos
  BY DEF EndNestedTable, Filled
<1>2. tables' = Element(Pop, Owning(Owner, Top.built))
  BY Zenon DEF EndNestedTable, Owning
<1>3. InTable(File, class.constants, Element(Pop, Owning(Owner, Top.built)), pos, of, s, rest)
  BY <1>1, NestedEnds, Zenon
<1> QED BY <1>1, <1>2, <1>3, Zenon

(* Every name of a class is found. *)
LEMMA NamesAreFound ==
  ASSUME Known, NEW of, NEW s, NEW rest, InTable(File, class.constants, tables, pos, of, s, rest)
  PROVE  ~NameNotUtf8 /\ ~MemberNameNotUtf8
<1>1. ASSUME MemberNameNotUtf8 PROVE FALSE
  <2>1. Len(tables) > 1 /\ Top.left = 0 /\ Owner.kind = "member" /\ ~IsUtf8(Owner.name_index)
    BY <1>1 DEF MemberNameNotUtf8, Filled
  <2>2. Owner.kind = "member" => IsUtf8(Owner.name_index)
    BY <2>1, NestedEnds, Zenon
  <2> QED BY <2>1, <2>2
<1>2. ASSUME NameNotUtf8 PROVE FALSE
  <2>1. Top.of = "attributes" /\ Top.left > 0 /\ checkBounds(6) /\ ~IsUtf8(U2(0))
    BY <1>2 DEF NameNotUtf8, Filling
  <2>2. PICK ls, l, e : ReadsNext(of, s, rest, ls, l, e)
    BY <2>1, AtElement, Zenon
  <2>3. l.of = "attributes" /\ IsElement(class.constants, l.of, e) /\ Holds(File, pos, EncodeElement(l.of, e))
    BY <2>1, <2>2, Zenon DEF ReadsNext
  <2>4. (IsFlat(class.constants, e) \/ IsCode(class.constants, e)) /\ Holds(File, pos, EncodeAttribute(e))
    BY <2>3, ElementKinds
  <2> QED BY <2>1, <2>4, AttributeKind
<1> QED BY <1>1, <1>2

(* A read inside a table fails only in a file that was cut off. *)
ReadsPast ==
  \/ Filling({"fields", "methods"}) /\ ~checkBounds(8)
  \/ Filling({"attributes"}) /\ ~checkBounds(AttributeSize)
  \/ Filling({"bootstrap_methods"}) /\ ~checkBounds(Counted(4, 2))

LEMMA ReadsPastTheCut ==
  ASSUME Known, NEW of, NEW s, NEW rest, InTable(File, class.constants, tables, pos, of, s, rest),
         ReadsPast
  PROVE  ~Whole
<1> SUFFICES ASSUME Whole PROVE FALSE
  OBVIOUS
<1> DEFINE cs == class.constants
<1>1. Top.left > 0 /\ Top.of \in {"fields", "methods", "attributes", "bootstrap_methods"}
  BY DEF ReadsPast, Filling
<1>2. PICK ls, l, e : ReadsNext(of, s, rest, ls, l, e)
  BY <1>1, AtElement, Zenon
<1>3. l.of = Top.of /\ IsElement(cs, l.of, e) /\ Holds(File, pos, EncodeElement(l.of, e))
  BY <1>2, Zenon DEF ReadsNext
<1>4. Source /\ Len(cs) \in Nat /\ DOMAIN cs = 1 .. Len(cs) /\ pool = PoolOf(cs)
  BY DEF Known
<1>5. CASE Top.of \in {"fields", "methods"}
  <2>1. l.of \notin {"attributes", "bootstrap_methods"}
    BY <1>3, <1>5
  <2>2. IsMember(cs, e) /\ Holds(File, pos, EncodeMember(e))
    BY <1>3, <2>1, ElementKinds
  <2>3. checkBounds(8)
    BY <1>4, <2>2, MemberRead
  <2>4. ~checkBounds(8)
    BY <1>5 DEF ReadsPast, Filling
  <2> QED BY <2>3, <2>4
<1>6. CASE Top.of = "attributes"
  <2>1. (IsFlat(cs, e) \/ IsCode(cs, e)) /\ Holds(File, pos, EncodeAttribute(e))
    BY <1>3, <1>6, ElementKinds
  <2>2. checkBounds(AttributeSize)
    BY <2>1, AttributeKind
  <2>3. ~checkBounds(AttributeSize)
    BY <1>6 DEF ReadsPast, Filling
  <2> QED BY <2>2, <2>3
<1>7. CASE Top.of = "bootstrap_methods"
  <2>1. e \in BootstrapMethod /\ Holds(File, pos, EncodeBootstrapMethod(e))
    BY <1>3, <1>7, ElementKinds
  <2>2. checkBounds(Counted(4, 2))
    BY <1>4, <2>1, MethodRead
  <2>3. ~checkBounds(Counted(4, 2))
    BY <1>7 DEF ReadsPast, Filling
  <2> QED BY <2>2, <2>3
<1> QED BY <1>1, <1>5, <1>6, <1>7

(* The table of the class is complete, and what follows it is next. *)
LEMMA TableIsRead ==
  ASSUME NEW of, NEW s, NEW rest, NEW b \in Bits, NEW cs, NEW p, NEW t,
         InTable(b, cs, <<t>>, p, of, s, rest), t.left = 0
  PROVE  t.of = of /\ TableRead(of, t.built, s, Len(s)) /\ Remains(b, p, rest)
<1> DEFINE ts == <<t>>
<1>1. PICK ls : /\ Stacked(b, cs, ls, ts, p)
                /\ ls[1].of = of /\ ls[1].elems = s /\ Remains(b, At(ls[1], Len(s)), rest)
  BY Zenon DEF InTable
<1>2. Len(ts) = 1 /\ ts[1] = t
  OBVIOUS
<1> HIDE DEF ts
<1> DEFINE l == ls[1]
           d == l.done
<1>3. IsLevel(b, cs, l) /\ TableAt(l, t) /\ p = At(l, d)
  <2>1. 1 \in 1 .. 1
    OBVIOUS
  <2> QED BY <1>1, <1>2, <2>1, Zenon DEF Stacked
<1>4. l.of = of /\ l.elems = s /\ Remains(b, At(l, Len(s)), rest)
  BY <1>1
<1> HIDE DEF l
<1>5. Len(s) \in Nat /\ d \in Nat
  BY <1>3, <1>4, LevelFacts
<1> HIDE DEF d
<1>6. t = [of |-> of, left |-> Len(s) - d, open |-> t.open, built |-> t.built] /\ TableRead(of, t.built, s, d)
  BY <1>3, <1>4, Zenon DEF TableAt, d
<1>7. t.of = of /\ d = Len(s)
  <2>1. t.of = of /\ t.left = Len(s) - d
    BY <1>6
  <2> QED BY <1>5, <2>1
<1> QED BY <1>3, <1>4, <1>6, <1>7, Zenon

(* The first table of a class is about to be read. *)
LEMMA TableStarts ==
  ASSUME NEW b \in Bits, NEW cs, NEW of, NEW s, NEW rest, IsElements(cs, of, s), rest \in Bits,
         NEW p \in Nat, Remains(b, p, FlattenSeq(EncodedElements(of, s)) \o rest)
  PROVE  InTable(b, cs, <<Table(of, Len(s))>>, p, of, s, rest)
<1> DEFINE g == FlattenSeq(EncodedElements(of, s))
           l == Level(of, s, p, 0)
           ls == <<l>>
           z == Len(s)
<1>1. g \in Bits
  BY ElementsBits, Zenon
<1>2. Holds(b, p, g \o rest) /\ p + Len(g \o rest) = Len(b)
  BY Zenon DEF Remains
<1>3. /\ Stacked(b, cs, ls, <<Table(of, z)>>, p)
      /\ At(l, z) = p + Len(g)
  <2>1. Holds(b, p, g)
    <3> HIDE DEF g
    <3> QED BY <1>1, <1>2, HoldsBoth
  <2>2. Stacked(b, cs, <<l>>, <<Table(of, Len(s))>>, p)
    BY <2>1, FirstLevel, Zenon
  <2>3. At(l, z) = p + Len(g)
    <3>1. IsLevel(b, cs, l) /\ TableAt(l, Table(of, z)) /\ At(l, 0) = p
      BY <2>1, FreshTable
    <3>2. l.elems = s /\ l.start = p /\ l.of = of
      BY DEF Level
    <3> HIDE DEF l
    <3>3. At(l, Len(l.elems)) = l.start + Len(FlattenSeq(Encodings(l)))
      BY <3>1, LevelFacts
    <3> QED BY <3>2, <3>3, Zenon DEF Encodings, g
  <2> QED BY <2>2, <2>3
<1>4. l.of = of /\ l.elems = s
  BY DEF Level
<1>5. ls[1] = l
  OBVIOUS
<1> HIDE DEF g, l, ls
<1>6. Len(g \o rest) = Len(g) + Len(rest) /\ Len(g) \in Nat /\ Len(rest) \in Nat
  BY <1>1, Joined
<1>7. Holds(b, p + Len(g), rest)
  BY <1>1, <1>2, HoldsBoth
<1>8. p + Len(g) \in Nat /\ (p + Len(g)) + Len(rest) = Len(b)
  BY <1>2, <1>6
<1>9. Remains(b, At(l, z), rest)
  BY <1>3, <1>7, <1>8, Zenon DEF Remains
<1> QED BY <1>3, <1>4, <1>5, <1>9, Zenon DEF InTable, z

-----------------------------------------------------------------------------
(* The parts of a file, each with what follows it. *)

LEMMA ConstantEncoded ==
  ASSUME NEW cs, NEW c \in Constant, IsConstant(cs, c)
  PROVE  EncodeConstant(c) \in Bits
<1> DEFINE t == c.tag
           x1 == c.index
           v == c.bytes
<1>1. t \in Nat /\ x1 \in Seq(Nat) /\ v \in Bits /\ Len(v) \in Nat
  BY ConstantBits
<1>2. EncodeConstant(c) = <<t>> \o ConstantBody(c)
  BY ConstantBodies
<1>3. ConstantBody(c) \in Bits
  <2>1. CASE t = Utf8
    <3>1. ConstantBody(c) = EncodeU2(Len(v)) \o v
      BY <2>1, ConstantBodies
    <3> HIDE DEF v
    <3> QED BY <1>1, <3>1, AfterU2
  <2>2. CASE t = MethodHandle
    <3>1. ConstantBody(c) = <<x1[1]>> \o EncodeU2(x1[2])
      BY <2>2, ConstantBodies
    <3>2. Len(x1) = 2
      BY <2>2 DEF IsConstant, MethodHandle, Utf8, FourBytes, EightBytes, OneIndex, TwoIndices
    <3> DEFINE a1 == x1[1]
               a2 == x1[2]
               u == EncodeU2(a2)
    <3>3. a1 \in Nat /\ a2 \in Nat
      <4>1. c.index \in Seq(Nat) /\ Len(c.index) = 2
        BY <1>1, <3>2
      <4> QED BY <4>1
    <3>4. u \in Bits
      BY <3>3, EncodedU2
    <3> HIDE DEF a1, u
    <3>5. <<a1>> \in Seq(Nat)
      BY <3>3
    <3>6. <<a1>> \o u \in Bits
      BY <3>4, <3>5, Concatenated DEF Bits
    <3> QED BY <3>1, <3>6 DEF a1, u
  <2>3. CASE t \notin {Utf8, MethodHandle}
    <3>1. ConstantBody(c) = EncodeAll(x1, EncodeU2) \o v
      BY <2>3, ConstantBodies
    <3>2. EncodeAll(x1, EncodeU2) \in Bits
      <4> HIDE DEF x1
      <4> QED BY <1>1, U2sBits, Zenon
    <3> DEFINE u == EncodeAll(x1, EncodeU2)
    <3>3. u \in Bits
      BY <3>2
    <3> HIDE DEF u, v
    <3>4. u \o v \in Bits
      BY <1>1, <3>3, Joined
    <3> QED BY <3>1, <3>4 DEF u
  <2> QED BY <2>1, <2>2, <2>3
<1> DEFINE b == ConstantBody(c)
<1>4. b \in Bits /\ <<t>> \in Bits
  BY <1>1, <1>3 DEF Bits
<1> HIDE DEF b, t
<1>5. <<t>> \o b \in Bits
  BY <1>4, Joined
<1> QED BY <1>2, <1>5 DEF b, t

ConstantEncodings(cs) == [k \in DOMAIN cs |-> EncodeConstant(cs[k])]
TableBits(of, s) == EncodeU2(Len(s)) \o FlattenSeq(EncodedElements(of, s))

AttributesOn(c) == Then(TableBits("attributes", c.attributes), <<>>)
MethodsOn(c)    == Then(TableBits("methods", c.methods), AttributesOn(c))
FieldsOn(c)     == Then(TableBits("fields", c.fields), MethodsOn(c))
IndicesOn(c) ==
  Then(EncodeU2(c.access_flags), Then(EncodeU2(c.this_class_index), Then(EncodeU2(c.super_class_index),
    Then(EncodeU2(0), FieldsOn(c)))))
ConstantsOn(c) == Then(FlattenSeq(ConstantEncodings(c.constants)), IndicesOn(c))
HeaderOn(c) ==
  Then(kClassFileMagic, Then(EncodeU2(c.version[2]), Then(EncodeU2(c.version[1]),
    Then(EncodeU2(PoolCount(c.constants)), ConstantsOn(c)))))

(* What a valid class consists of. *)
LEMMA ClassIs ==
  ASSUME NEW c, IsClass(c)
  PROVE  /\ {c.access_flags, c.this_class_index, c.super_class_index, c.version[1], c.version[2]} \subseteq Nat
         /\ c.version = <<c.version[1], c.version[2]>>
         /\ Len(c.constants) \in Nat /\ DOMAIN c.constants = 1 .. Len(c.constants)
         /\ PoolCount(c.constants) \in Nat /\ PoolCount(c.constants) < U2Range
         /\ \A k \in 1 .. Len(c.constants) : c.constants[k] \in Constant /\ IsConstant(c.constants, c.constants[k])
         /\ ConstantEncodings(c.constants) \in Seq(Bits)
         /\ Len(ConstantEncodings(c.constants)) = Len(c.constants)
         /\ FlattenSeq(ConstantEncodings(c.constants)) \in Bits
         /\ IsElements(c.constants, "fields", c.fields)
         /\ IsElements(c.constants, "methods", c.methods)
         /\ IsElements(c.constants, "attributes", c.attributes)
<1> DEFINE cs == c.constants
           es == ConstantEncodings(cs)
           n == PoolCount(cs)
<1>1. {c.access_flags, c.this_class_index, c.super_class_index} \subseteq Nat /\ c.version \in Nat \X Nat
  BY DEF IsClass
<1>2. cs \in Seq(Constant) /\ n < U2Range /\ \A k \in DOMAIN cs : IsConstant(cs, cs[k])
  BY DEF IsClass
<1>3. IsElements(cs, "fields", c.fields)
  <2>1. IsTable(c.fields) /\ \A f \in Range(c.fields) : IsMember(cs, f)
    BY DEF IsClass
  <2>2. \A k \in 1 .. Len(c.fields) : IsMember(cs, c.fields[k])
    BY <2>1, TableFacts
  <2> QED BY <2>1, <2>2, ElementKinds DEF IsElements
<1>4. IsElements(cs, "methods", c.methods)
  <2>1. IsTable(c.methods) /\ \A f \in Range(c.methods) : IsMember(cs, f)
    BY DEF IsClass
  <2>2. \A k \in 1 .. Len(c.methods) : IsMember(cs, c.methods[k])
    BY <2>1, TableFacts
  <2> QED BY <2>1, <2>2, ElementKinds DEF IsElements
<1>5. IsElements(cs, "attributes", c.attributes)
  <2>1. IsTable(c.attributes) /\ \A f \in Range(c.attributes) : IsFlat(cs, f)
    BY DEF IsClass
  <2>2. \A k \in 1 .. Len(c.attributes) : IsFlat(cs, c.attributes[k])
    BY <2>1, TableFacts
  <2> QED BY <2>1, <2>2, ElementKinds DEF IsElements
<1>6. c.version = <<c.version[1], c.version[2]>> /\ c.version[1] \in Nat /\ c.version[2] \in Nat
  BY <1>1
<1> HIDE DEF cs
<1>7. Len(cs) \in Nat /\ DOMAIN cs = 1 .. Len(cs) /\ IsTable(cs) /\ \A k \in 1 .. Len(cs) : cs[k] \in Constant
  BY <1>2, SeqIsTable
<1>8. n \in Nat
  BY <1>7, PoolFacts
<1>9. \A k \in 1 .. Len(cs) : es[k] \in Bits
  BY <1>2, <1>7, ConstantEncoded DEF ConstantEncodings
<1>10. es = [k \in DOMAIN cs |-> es[k]]
  BY DEF ConstantEncodings
<1> HIDE DEF es, n
<1>11. es \in Seq(Bits) /\ Len(es) = Len(cs) /\ FlattenSeq(es) \in Bits
  BY <1>7, <1>9, <1>10, EncodedTable
<1> QED BY <1>1, <1>2, <1>3, <1>4, <1>5, <1>6, <1>7, <1>8, <1>11 DEF cs, es, n

(* Twelve parts one after the other, from the left or from the right. *)
FromLeft(a, b, c, d, e, f, g, h, j, k, l, m) ==
  Then(Then(Then(Then(Then(Then(Then(Then(Then(Then(Then(a, b), c), d), e), f), g), h), j), k), l), m)
FromRight(a, b, c, d, e, f, g, h, j, k, l, m) ==
  Then(a, Then(b, Then(c, Then(d, Then(e, Then(f, Then(g, Then(h, Then(j, Then(k, Then(l, m)))))))))))

LEMMA Nothing ==
  /\ <<>> \in Bits /\ EncodeAll(<<>>, EncodeU2) = <<>>
  /\ \A u \in Bits : Then(u, <<>>) = u
<1>1. <<>> \in Bits /\ <<>> \in Seq(Nat)
  BY DEF Bits
<1> DEFINE w == EncodeAll(<<>>, EncodeU2)
<1>2. w \in Bits /\ Len(w) = 2 * Len(<<>>)
  BY <1>1, U2sBits, Zenon
<1> HIDE DEF w
<1>3. Len(<<>>) = 0
  OBVIOUS
<1>4. w = <<>>
  BY <1>2, <1>3 DEF Bits
<1>5. \A u \in Bits : Then(u, <<>>) = u
  BY DEF Bits, Then
<1> QED BY <1>1, <1>4, <1>5 DEF w

LEMMA PartsAreBits ==
  ASSUME NEW c, IsClass(c)
  PROVE  /\ TableBits("fields", c.fields) \in Bits
         /\ TableBits("methods", c.methods) \in Bits
         /\ TableBits("attributes", c.attributes) \in Bits
         /\ AttributesOn(c) \in Bits /\ MethodsOn(c) \in Bits /\ FieldsOn(c) \in Bits
         /\ Then(EncodeU2(0), FieldsOn(c)) \in Bits
         /\ Then(EncodeU2(c.super_class_index), Then(EncodeU2(0), FieldsOn(c))) \in Bits
         /\ Then(EncodeU2(c.this_class_index),
                 Then(EncodeU2(c.super_class_index), Then(EncodeU2(0), FieldsOn(c)))) \in Bits
         /\ IndicesOn(c) \in Bits /\ ConstantsOn(c) \in Bits
         /\ \A n \in Nat : EncodeU2(n) \in Bits
         /\ kClassFileMagic \in Bits
<1> DEFINE f == TableBits("fields", c.fields)
           m == TableBits("methods", c.methods)
           a == TableBits("attributes", c.attributes)
           u1 == Then(EncodeU2(0), FieldsOn(c))
           u2 == Then(EncodeU2(c.super_class_index), u1)
           u3 == Then(EncodeU2(c.this_class_index), u2)
<1>1. f \in Bits /\ m \in Bits /\ a \in Bits
  BY ClassIs, ElementsBits, Zenon DEF TableBits
<1>2. <<>> \in Bits
  BY Nothing
<1>3. \A n \in Nat : EncodeU2(n) \in Bits
  BY EncodedU2
<1>4. /\ {c.access_flags, c.this_class_index, c.super_class_index} \subseteq Nat /\ 0 \in Nat
      /\ FlattenSeq(ConstantEncodings(c.constants)) \in Bits
  BY ClassIs
<1> HIDE DEF f, m, a
<1>5. AttributesOn(c) \in Bits
  BY <1>1, <1>2, ThenAssoc DEF AttributesOn, a
<1>6. MethodsOn(c) \in Bits
  BY <1>1, <1>5, ThenAssoc DEF MethodsOn, m
<1>7. FieldsOn(c) \in Bits
  BY <1>1, <1>6, ThenAssoc DEF FieldsOn, f
<1>8. u1 \in Bits
  BY <1>3, <1>4, <1>7, ThenAssoc
<1> HIDE DEF u1
<1>9. u2 \in Bits
  BY <1>3, <1>4, <1>8, ThenAssoc
<1> HIDE DEF u2
<1>10. u3 \in Bits
  BY <1>3, <1>4, <1>9, ThenAssoc
<1> HIDE DEF u3
<1>11. IndicesOn(c) \in Bits
  <2>1. IndicesOn(c) = Then(EncodeU2(c.access_flags), u3)
    BY Zenon DEF IndicesOn, u1, u2, u3
  <2>2. Then(EncodeU2(c.access_flags), u3) \in Bits
    BY <1>3, <1>4, <1>10, ThenAssoc
  <2> QED BY <2>1, <2>2
<1>12. ConstantsOn(c) \in Bits
  BY <1>4, <1>11, ThenAssoc DEF ConstantsOn
<1>13. kClassFileMagic \in Bits
  BY DEF kClassFileMagic, Bits
<1> QED BY <1>1, <1>3, <1>5, <1>6, <1>7, <1>8, <1>9, <1>10, <1>11, <1>12, <1>13 DEF f, m, a, u1, u2, u3

LEMMA Layout ==
  ASSUME NEW c, IsClass(c), c.interfaces = <<>>
  PROVE  EncodeClass(c) = HeaderOn(c)
<1> DEFINE mg == kClassFileMagic
           v2 == EncodeU2(c.version[2])
           v1 == EncodeU2(c.version[1])
           pc == EncodeU2(PoolCount(c.constants))
           ks == FlattenSeq(ConstantEncodings(c.constants))
           af == EncodeU2(c.access_flags)
           tc == EncodeU2(c.this_class_index)
           sc == EncodeU2(c.super_class_index)
           ic == EncodeU2(0)
           f == TableBits("fields", c.fields)
           m == TableBits("methods", c.methods)
           a == TableBits("attributes", c.attributes)
<1>1. /\ mg \in Bits /\ v2 \in Bits /\ v1 \in Bits /\ pc \in Bits /\ ks \in Bits /\ af \in Bits
      /\ tc \in Bits /\ sc \in Bits /\ ic \in Bits /\ f \in Bits /\ m \in Bits /\ a \in Bits
  <2>1. /\ {c.access_flags, c.this_class_index, c.super_class_index, c.version[1], c.version[2]} \subseteq Nat
        /\ PoolCount(c.constants) \in Nat /\ 0 \in Nat /\ ks \in Bits
    BY ClassIs
  <2>2. mg \in Bits /\ f \in Bits /\ m \in Bits /\ a \in Bits /\ \A n \in Nat : EncodeU2(n) \in Bits
    BY PartsAreBits, Zenon
  <2> QED BY <2>1, <2>2
<1>2. EncodeAll(c.constants, EncodeConstant) = ks
  BY Zenon DEF EncodeAll, ConstantEncodings
<1>3. Counting(c.interfaces, EncodeU2) = ic
  <2>1. Counting(<<>>, EncodeU2) = EncodeU2(Len(<<>>)) \o EncodeAll(<<>>, EncodeU2)
    BY Zenon DEF Counting
  <2>2. Len(<<>>) = 0 /\ ic \o <<>> = ic
    BY <1>1, Nothing DEF Then
  <2> QED BY <2>1, <2>2, Nothing
<1>4. /\ Counting(c.fields, EncodeMember) = f
      /\ Counting(c.methods, EncodeMember) = m
      /\ Counting(c.attributes, EncodeAttribute) = a
  <2>1. /\ EncodedElements("fields", c.fields) = [k \in DOMAIN c.fields |-> EncodeMember(c.fields[k])]
        /\ EncodedElements("methods", c.methods) = [k \in DOMAIN c.methods |-> EncodeMember(c.methods[k])]
        /\ EncodedElements("attributes", c.attributes) = [k \in DOMAIN c.attributes |-> EncodeAttribute(c.attributes[k])]
    BY EncodedKinds
  <2> QED BY <2>1, Zenon DEF Counting, EncodeAll, TableBits
<1>5. EncodeClass(c) = FromLeft(mg, v2, v1, pc, ks, af, tc, sc, ic, f, m, a)
  BY <1>2, <1>3, <1>4, Zenon DEF EncodeClass, FromLeft, Then
<1>6. Then(a, <<>>) = a
  BY <1>1, Nothing
<1>7. HeaderOn(c) = FromRight(mg, v2, v1, pc, ks, af, tc, sc, ic, f, m, Then(a, <<>>))
  BY Zenon DEF FromRight, HeaderOn, ConstantsOn, IndicesOn, FieldsOn, MethodsOn, AttributesOn
<1> HIDE DEF mg, v2, v1, pc, ks, af, tc, sc, ic, f, m, a
<1>8. FromLeft(mg, v2, v1, pc, ks, af, tc, sc, ic, f, m, a) = FromRight(mg, v2, v1, pc, ks, af, tc, sc, ic, f, m, a)
  <2> DEFINE l2 == Then(mg, v2)
             l3 == Then(l2, v1)
             l4 == Then(l3, pc)
             l5 == Then(l4, ks)
             l6 == Then(l5, af)
             l7 == Then(l6, tc)
             l8 == Then(l7, sc)
             l9 == Then(l8, ic)
             l10 == Then(l9, f)
             r11 == Then(m, a)
             r10 == Then(f, r11)
             r9 == Then(ic, r10)
             r8 == Then(sc, r9)
             r7 == Then(tc, r8)
             r6 == Then(af, r7)
             r5 == Then(ks, r6)
             r4 == Then(pc, r5)
             r3 == Then(v1, r4)
             r2 == Then(v2, r3)
  <2>1. FromLeft(mg, v2, v1, pc, ks, af, tc, sc, ic, f, m, a) = Then(Then(l10, m), a)
    BY Zenon DEF FromLeft
  <2>2. FromRight(mg, v2, v1, pc, ks, af, tc, sc, ic, f, m, a) = Then(mg, r2)
    BY Zenon DEF FromRight
  <2>3. l2 \in Bits /\ r11 \in Bits
    BY <1>1, ThenAssoc
  <2> HIDE DEF l2, r11
  <2>4. l3 \in Bits /\ r10 \in Bits
    BY <1>1, <2>3, ThenAssoc
  <2> HIDE DEF l3, r10
  <2>5. l4 \in Bits /\ r9 \in Bits
    BY <1>1, <2>4, ThenAssoc
  <2> HIDE DEF l4, r9
  <2>6. l5 \in Bits /\ r8 \in Bits
    BY <1>1, <2>5, ThenAssoc
  <2> HIDE DEF l5, r8
  <2>7. l6 \in Bits /\ r7 \in Bits
    BY <1>1, <2>6, ThenAssoc
  <2> HIDE DEF l6, r7
  <2>8. l7 \in Bits /\ r6 \in Bits
    BY <1>1, <2>7, ThenAssoc
  <2> HIDE DEF l7, r6
  <2>9. l8 \in Bits /\ r5 \in Bits
    BY <1>1, <2>8, ThenAssoc
  <2> HIDE DEF l8, r5
  <2>10. l9 \in Bits /\ r4 \in Bits
    BY <1>1, <2>9, ThenAssoc
  <2> HIDE DEF l9, r4
  <2>11. l10 \in Bits /\ r3 \in Bits
    BY <1>1, <2>10, ThenAssoc
  <2> HIDE DEF l10, r3
  <2>12. Then(Then(l10, m), a) = Then(l10, r11)
    BY <1>1, <2>11, ThenAssoc DEF r11
  <2>13. Then(l10, r11) = Then(l9, r10)
    BY <1>1, <2>3, <2>10, ThenAssoc DEF l10, r10
  <2>14. Then(l9, r10) = Then(l8, r9)
    BY <1>1, <2>4, <2>9, ThenAssoc DEF l9, r9
  <2>15. Then(l8, r9) = Then(l7, r8)
    BY <1>1, <2>5, <2>8, ThenAssoc DEF l8, r8
  <2>16. Then(l7, r8) = Then(l6, r7)
    BY <1>1, <2>6, <2>7, ThenAssoc DEF l7, r7
  <2>17. Then(l6, r7) = Then(l5, r6)
    BY <1>1, <2>6, <2>7, ThenAssoc DEF l6, r6
  <2>18. Then(l5, r6) = Then(l4, r5)
    BY <1>1, <2>5, <2>8, ThenAssoc DEF l5, r5
  <2>19. Then(l4, r5) = Then(l3, r4)
    BY <1>1, <2>4, <2>9, ThenAssoc DEF l4, r4
  <2>20. Then(l3, r4) = Then(l2, r3)
    BY <1>1, <2>3, <2>10, ThenAssoc DEF l3, r3
  <2>21. Then(l2, r3) = Then(mg, r2)
    BY <1>1, <2>11, ThenAssoc DEF l2
  <2> QED BY <2>1, <2>2, <2>12, <2>13, <2>14, <2>15, <2>16, <2>17, <2>18, <2>19, <2>20, <2>21
<1> QED BY <1>5, <1>6, <1>7, <1>8

(* What remains of a file, read from the front. *)
LEMMA RemainsAfter ==
  ASSUME NEW b \in Bits, NEW p, NEW u \in Bits, NEW v \in Bits, Remains(b, p, Then(u, v))
  PROVE  Holds(b, p, u) /\ Remains(b, p + Len(u), v)
<1>1. p \in Nat /\ Holds(b, p, u \o v) /\ p + Len(u \o v) = Len(b)
  BY Zenon DEF Remains, Then
<1>2. Holds(b, p, u) /\ Holds(b, p + Len(u), v)
  BY <1>1, HoldsBoth
<1>3. Len(u \o v) = Len(u) + Len(v) /\ Len(u) \in Nat /\ Len(v) \in Nat
  BY Joined
<1>4. p + Len(u) \in Nat /\ (p + Len(u)) + Len(v) = Len(b)
  BY <1>1, <1>3
<1> QED BY <1>2, <1>4, Zenon DEF Remains

LEMMA WholeRemains ==
  ASSUME Source, Whole, NEW d \in Nat, NEW n \in Nat, NEW w \in Bits, Remains(File, pos + d, w), n <= Len(w)
  PROVE  checkBounds(d + n)
<1>1. Len(data) = length /\ Len(File) \in Nat /\ length = Len(File)
  BY DataIsFile DEF Whole, File
<1>2. pos \in Nat /\ Len(w) \in Nat /\ (pos + d) + Len(w) = Len(File)
  BY DEF Source, Remains, Bits
<1> DEFINE z == Len(w)
           y == Len(File)
<1>3. z \in Nat /\ n <= z /\ (pos + d) + z = y /\ y = Len(data)
  BY <1>1, <1>2
<1> HIDE DEF z, y
<1>4. pos + (d + n) <= y
  BY <1>2, <1>3
<1> QED BY <1>3, <1>4 DEF checkBounds

LEMMA U2Remains ==
  ASSUME Source, NEW d \in Nat, NEW n \in Nat, NEW v \in Bits, Remains(File, pos + d, Then(EncodeU2(n), v))
  PROVE  /\ checkBounds(d + 2) => U2(d) = n
         /\ Remains(File, pos + (d + 2), v)
<1> DEFINE u == EncodeU2(n)
<1>1. u \in Bits /\ Len(u) = 2 /\ File \in Bits /\ pos \in Nat
  BY EncodedU2 DEF Source
<1>2. Remains(File, pos + d, Then(u, v))
  OBVIOUS
<1> HIDE DEF u
<1>3. Holds(File, pos + d, u) /\ Remains(File, (pos + d) + Len(u), v)
  BY <1>1, <1>2, RemainsAfter
<1>4. (pos + d) + Len(u) = pos + (d + 2)
  BY <1>1
<1>5. checkBounds(d + 2) => U2(d) = n
  BY <1>3, ReadU2 DEF u
<1> QED BY <1>3, <1>4, <1>5

-----------------------------------------------------------------------------
(* Where the parser is in the file of a class, and what it has read so far. *)

ElementsOf(c, of) ==
  IF of = "fields" THEN c.fields ELSE IF of = "methods" THEN c.methods ELSE c.attributes
From(c, section) ==
  IF section = "fields" THEN FieldsOn(c)
  ELSE IF section = "methods" THEN MethodsOn(c)
  ELSE IF section = "attributes" THEN AttributesOn(c)
  ELSE <<>>

AtStart == at = "header" /\ pos = 0 /\ i = 1 /\ tables = <<>>
ConstantAt(k) ==
  /\ i = IndexOf(class.constants, k) /\ pool = PoolSoFar(class.constants, k)
  /\ pos = 10 + Ends(ConstantEncodings(class.constants))[k - 1]
InConstants == at = "constants" /\ tables = <<>> /\ \E k \in 1 .. Len(class.constants) + 1 : ConstantAt(k)
BeforeTable == tables = <<>> /\ Remains(File, pos, From(class, at))
InsideTable ==
  InTable(File, class.constants, tables, pos, at, ElementsOf(class, at), From(class, Following[at]))
InTables == at \in Tables /\ pool = PoolOf(class.constants) /\ (BeforeTable \/ InsideTable)
AtEnd    == at = "interfaces" /\ pool = PoolOf(class.constants) /\ tables = <<>> /\ Remains(File, pos, <<>>)

InSection == AtStart \/ InConstants \/ InTables \/ AtEnd

(* file, up to the section that is being read. *)
FileSoFar ==
  /\ DOMAIN file = DOMAIN NoFile
  /\ file.interfaces = <<>> /\ file.interfaces_count = 0
  /\ at # "header" => file.version = class.version
  /\ at \notin {"header", "constants"} =>
       /\ file.access_flags = class.access_flags
       /\ file.this_class_index = class.this_class_index
       /\ file.super_class_index = class.super_class_index
  /\ at \in {"methods", "attributes", "interfaces"} =>
       TableRead("fields", file.fields, class.fields, Len(class.fields))
  /\ at \in {"attributes", "interfaces"} =>
       TableRead("methods", file.methods, class.methods, Len(class.methods))
  /\ at = "interfaces" =>
       TableRead("attributes", file.attributes, class.attributes, Len(class.attributes))

(* The file is a valid class without interfaces, the bytes are its encoding *)
(* or a part of it, and none has been read past the end.                    *)
OfClass == Source /\ IsClass(class) /\ class.interfaces = <<>> /\ pos <= Len(data)

Reading == OfClass /\ InSection /\ FileSoFar

LEMMA Beginning ==
  ASSUME Source, IsClass(class), class.interfaces = <<>>
  PROVE  /\ File \in Bits
         /\ Remains(File, 0, HeaderOn(class))
         /\ Remains(File, 10, ConstantsOn(class))
<1> DEFINE c == class
           mg == kClassFileMagic
           a1 == EncodeU2(c.version[2])
           a2 == EncodeU2(c.version[1])
           a3 == EncodeU2(PoolCount(c.constants))
           r3 == Then(a3, ConstantsOn(c))
           r2 == Then(a2, r3)
           r1 == Then(a1, r2)
<1>1. File = HeaderOn(c) /\ File \in Bits
  BY Layout DEF Source, File
<1>2. Remains(File, 0, HeaderOn(c))
  <2>1. Holds(File, 0, File)
    BY <1>1, HoldsItself
  <2>2. Len(File) \in Nat
    BY <1>1 DEF Bits
  <2>3. 0 \in Nat /\ 0 + Len(File) = Len(File)
    BY <2>2
  <2> QED BY <1>1, <2>1, <2>3, Zenon DEF Remains
<1>3. mg \in Bits /\ ConstantsOn(c) \in Bits /\ a1 \in Bits /\ a2 \in Bits /\ a3 \in Bits
  <2>1. c.version[1] \in Nat /\ c.version[2] \in Nat /\ PoolCount(c.constants) \in Nat
    BY ClassIs
  <2>2. mg \in Bits /\ ConstantsOn(c) \in Bits /\ \A n \in Nat : EncodeU2(n) \in Bits
    BY PartsAreBits, Zenon
  <2> QED BY <2>1, <2>2
<1>4. Len(mg) = 4 /\ Len(a1) = 2 /\ Len(a2) = 2 /\ Len(a3) = 2
  <2>1. c.version[1] \in Nat /\ c.version[2] \in Nat /\ PoolCount(c.constants) \in Nat
    BY ClassIs
  <2> QED BY <2>1, EncodedU2 DEF kClassFileMagic
<1>5. HeaderOn(c) = Then(mg, r1)
  BY Zenon DEF HeaderOn
<1> HIDE DEF mg, a1, a2, a3
<1>6. r3 \in Bits
  BY <1>3, ThenAssoc
<1>7. r2 \in Bits
  <2> HIDE DEF r3
  <2> QED BY <1>3, <1>6, ThenAssoc
<1> HIDE DEF r2
<1>8. r1 \in Bits
  BY <1>3, <1>7, ThenAssoc
<1> HIDE DEF r1
<1>9. Remains(File, 0, Then(mg, r1))
  BY <1>2, <1>5
<1>10. Remains(File, 0 + Len(mg), Then(a1, r2))
  BY <1>1, <1>3, <1>8, <1>9, RemainsAfter DEF r1
<1>11. Remains(File, (0 + Len(mg)) + Len(a1), Then(a2, r3))
  BY <1>1, <1>3, <1>7, <1>10, RemainsAfter DEF r2
<1>12. Remains(File, ((0 + Len(mg)) + Len(a1)) + Len(a2), Then(a3, ConstantsOn(c)))
  <2> HIDE DEF r3
  <2>1. Remains(File, ((0 + Len(mg)) + Len(a1)) + Len(a2), r3)
    BY <1>1, <1>3, <1>6, <1>11, RemainsAfter
  <2> QED BY <2>1 DEF r3
<1>13. Remains(File, (((0 + Len(mg)) + Len(a1)) + Len(a2)) + Len(a3), ConstantsOn(c))
  BY <1>1, <1>3, <1>12, RemainsAfter
<1>14. (((0 + Len(mg)) + Len(a1)) + Len(a2)) + Len(a3) = 10
  BY <1>4
<1> QED BY <1>1, <1>2, <1>13, <1>14

(* A step reads further in the same file. *)
LEMMA SameFile ==
  ASSUME OfClass, UNCHANGED <<class, length, data>>, pos' \in Nat, pos' <= Len(data)
  PROVE  OfClass' /\ File' = File
<1>1. class' = class /\ length' = length /\ data' = data
  OBVIOUS
<1>2. File' = File
  BY <1>1 DEF File
<1>3. Source'
  BY <1>1, <1>2 DEF Source, OfClass
<1> QED BY <1>1, <1>2, <1>3 DEF OfClass

LEMMA Taken ==
  ASSUME OfClass, NEW n \in Nat, Take(n)
  PROVE  pos' \in Nat /\ pos' <= Len(data) /\ pos' = pos + n /\ checkBounds(n)
<1>1. pos \in Nat
  BY DEF OfClass, Source
<1> QED BY <1>1 DEF Take, checkBounds

(* The parts of the header. *)
LEMMA HeaderRead ==
  ASSUME OfClass, AtStart
  PROVE  /\ checkBounds(10) => /\ Bytes(0, 4) = kClassFileMagic
                               /\ <<U2(6), U2(4)>> = class.version
                               /\ U2(8) = PoolCount(class.constants)
         /\ Whole => checkBounds(10)
<1> DEFINE c == class
           mg == kClassFileMagic
           v1 == c.version[1]
           v2 == c.version[2]
           pc == PoolCount(c.constants)
           r3 == Then(EncodeU2(pc), ConstantsOn(c))
           r2 == Then(EncodeU2(v1), r3)
           r1 == Then(EncodeU2(v2), r2)
<1>1. Source /\ IsClass(c) /\ c.interfaces = <<>> /\ pos = 0
  BY DEF OfClass, AtStart
<1>2. Remains(File, 0, HeaderOn(c)) /\ File \in Bits
  BY <1>1, Beginning
<1>3. mg \in Bits /\ ConstantsOn(c) \in Bits /\ \A n \in Nat : EncodeU2(n) \in Bits
  BY <1>1, PartsAreBits, Zenon
<1>4. v1 \in Nat /\ v2 \in Nat /\ pc \in Nat /\ c.version = <<v1, v2>>
  BY <1>1, ClassIs
<1>5. HeaderOn(c) = Then(mg, r1)
  BY Zenon DEF HeaderOn
<1>6. Len(mg) = 4
  BY DEF kClassFileMagic
<1> HIDE DEF mg, v1, v2, pc
<1>7. r3 \in Bits /\ Len(r3) >= 2
  <2>1. EncodeU2(pc) \o ConstantsOn(c) \in Bits /\ Len(EncodeU2(pc) \o ConstantsOn(c)) = 2 + Len(ConstantsOn(c)) /\ Len(ConstantsOn(c)) \in Nat
    BY <1>3, <1>4, AfterU2
  <2> QED BY <2>1 DEF Then
<1> HIDE DEF r3
<1>8. r2 \in Bits /\ Len(r2) >= 4
  <2>1. EncodeU2(v1) \o r3 \in Bits /\ Len(EncodeU2(v1) \o r3) = 2 + Len(r3) /\ Len(r3) \in Nat
    BY <1>4, <1>7, AfterU2
  <2> QED BY <1>7, <2>1 DEF Then
<1> HIDE DEF r2
<1>9. r1 \in Bits /\ Len(r1) >= 6
  <2>1. EncodeU2(v2) \o r2 \in Bits /\ Len(EncodeU2(v2) \o r2) = 2 + Len(r2) /\ Len(r2) \in Nat
    BY <1>4, <1>8, AfterU2
  <2> QED BY <1>8, <2>1 DEF Then
<1> HIDE DEF r1
<1>10. Holds(File, 0, mg) /\ Remains(File, 0 + 4, r1)
  BY <1>2, <1>3, <1>5, <1>6, <1>9, RemainsAfter
<1>11. pos + 0 = 0 /\ pos + 4 = 0 + 4 /\ pos \in Nat
  BY <1>1
<1>12. /\ checkBounds(4 + 2) => U2(4) = v2
       /\ Remains(File, pos + (4 + 2), r2)
  <2>1. Remains(File, pos + 4, Then(EncodeU2(v2), r2))
    BY <1>10, <1>11 DEF r1
  <2> QED BY <1>1, <1>4, <1>8, <2>1, U2Remains
<1>13. /\ checkBounds(6 + 2) => U2(6) = v1
       /\ Remains(File, pos + (6 + 2), r3)
  <2>1. Remains(File, pos + 6, Then(EncodeU2(v1), r3))
    BY <1>12 DEF r2
  <2> QED BY <1>1, <1>4, <1>7, <2>1, U2Remains
<1>14. checkBounds(8 + 2) => U2(8) = pc
  <2>1. Remains(File, pos + 8, Then(EncodeU2(pc), ConstantsOn(c)))
    BY <1>13 DEF r3
  <2> QED BY <1>1, <1>3, <1>4, <2>1, U2Remains
<1>15. checkBounds(0 + Len(mg)) => Bytes(0, Len(mg)) = mg
  <2>1. Holds(File, pos + 0, mg)
    BY <1>10, <1>11
  <2> QED BY <1>1, <1>3, <2>1, ReadBytes
<1>16. checkBounds(10) => checkBounds(4) /\ checkBounds(6) /\ checkBounds(8)
  BY <1>1, FewerBytes
<1>17. Whole => checkBounds(4 + 6)
  <2>1. Remains(File, pos + 4, r1) /\ 4 \in Nat /\ 6 \in Nat
    BY <1>10, <1>11
  <2> QED BY <1>1, <1>9, <2>1, WholeRemains
<1> QED BY <1>4, <1>6, <1>12, <1>13, <1>14, <1>15, <1>16, <1>17 DEF mg, v1, v2, pc

(* Where the constants start and end. *)
LEMMA ConstantsAt ==
  ASSUME OfClass
  PROVE  LET cs == class.constants
             es == ConstantEncodings(cs)
         IN  /\ Len(cs) \in Nat /\ DOMAIN cs = 1 .. Len(cs)
             /\ es \in Seq(Bits) /\ Len(es) = Len(cs) /\ FlattenSeq(es) \in Bits
             /\ Holds(File, 10, FlattenSeq(es))
             /\ Ends(es)[0] = 0
             /\ Remains(File, 10 + Ends(es)[Len(cs)], IndicesOn(class))
             /\ \A k \in 0 .. Len(cs) : Ends(es)[k] \in Nat
<1> DEFINE cs == class.constants
           es == ConstantEncodings(cs)
           w == FlattenSeq(es)
           e == Ends(es)
<1>1. Source /\ IsClass(class) /\ class.interfaces = <<>>
  BY DEF OfClass
<1>2. /\ Len(cs) \in Nat /\ DOMAIN cs = 1 .. Len(cs)
      /\ es \in Seq(Bits) /\ Len(es) = Len(cs) /\ w \in Bits
  BY <1>1, ClassIs
<1>3. Remains(File, 10, Then(w, IndicesOn(class))) /\ File \in Bits
  BY <1>1, Beginning DEF ConstantsOn
<1>4. IndicesOn(class) \in Bits
  BY <1>1, PartsAreBits, Zenon
<1> HIDE DEF es, cs
<1>5. IsEnds(es, w, e)
  BY <1>2, EndsExist
<1> HIDE DEF e
<1>6. e \in [0 .. Len(cs) -> Nat] /\ e[0] = 0 /\ e[Len(cs)] = Len(w)
  BY <1>2, <1>5, Zenon DEF IsEnds
<1> HIDE DEF w
<1>7. Holds(File, 10, w) /\ Remains(File, 10 + Len(w), IndicesOn(class))
  BY <1>2, <1>3, <1>4, RemainsAfter
<1> QED BY <1>2, <1>6, <1>7 DEF cs, es, w, e

(* The next constant, or the end of the pool. *)
LEMMA ConstantNext ==
  ASSUME OfClass, NEW k \in 1 .. Len(class.constants) + 1, ConstantAt(k)
  PROVE  /\ i \in DOMAIN pool => /\ k \in 1 .. Len(class.constants)
                                 /\ Holds(File, pos, EncodeConstant(class.constants[k]))
         /\ i \notin DOMAIN pool => pool = PoolOf(class.constants) /\ Remains(File, pos, IndicesOn(class))
<1> DEFINE cs == class.constants
           es == ConstantEncodings(cs)
           n == Len(cs)
<1>1. /\ n \in Nat /\ DOMAIN cs = 1 .. n
      /\ es \in Seq(Bits) /\ Len(es) = n /\ FlattenSeq(es) \in Bits
      /\ Holds(File, 10, FlattenSeq(es))
      /\ Remains(File, 10 + Ends(es)[n], IndicesOn(class))
  BY ConstantsAt
<1>2. i = IndexOf(cs, k) /\ pool = PoolSoFar(cs, k) /\ pos = 10 + Ends(es)[k - 1]
  BY DEF ConstantAt
<1>3. \A j \in 1 .. n : es[j] = EncodeConstant(cs[j])
  BY <1>1 DEF ConstantEncodings
<1>4. File \in Bits /\ 10 \in Nat
  BY DEF OfClass, Source
<1>5. DOMAIN pool = 0 .. PoolCount(cs) - 1 /\ IndexOf(cs, n + 1) = PoolCount(cs)
  BY <1>2 DEF PoolSoFar, PoolCount
<1>6. PoolCount(cs) \in Nat
  BY <1>1, PoolFacts
<1> HIDE DEF es, cs, n
<1>7. CASE k = n + 1
  <2>1. k - 1 = n
    BY <1>1, <1>7
  <2>2. i = PoolCount(cs) /\ i \notin DOMAIN pool
    BY <1>2, <1>5, <1>6, <1>7
  <2>3. pool = PoolOf(cs)
    BY <1>1, <1>2, <1>7, PoolEnds DEF n
  <2>4. Remains(File, pos, IndicesOn(class))
    BY <1>1, <1>2, <2>1
  <2> QED BY <2>2, <2>3, <2>4 DEF cs
<1>8. CASE k # n + 1
  <2>1. k \in 1 .. n
    BY <1>1, <1>8 DEF n, cs
  <2>2. i \in DOMAIN pool
    BY <1>1, <1>2, <2>1, PoolGrows DEF n
  <2>3. Holds(File, pos, es[k])
    <3>1. Holds(File, 10 + Ends(es)[k - 1], es[k])
      BY <1>1, <1>4, <2>1, HoldsAll
    <3> QED BY <1>2, <3>1
  <2>4. Holds(File, pos, EncodeConstant(cs[k]))
    BY <1>3, <2>1, <2>3
  <2> QED BY <2>1, <2>2, <2>4 DEF cs, n
<1> QED BY <1>7, <1>8

-----------------------------------------------------------------------------
(* The steps of parse(), in the order of the file. *)

LEMMA HeaderStepOf ==
  ASSUME Reading, UNCHANGED <<class, length>>, ParseHeader
  PROVE  Reading'
<1> DEFINE cs == class.constants
<1>1. OfClass /\ InSection /\ FileSoFar /\ at = "header"
  BY DEF Reading, ParseHeader
<1>2. AtStart
  BY <1>1 DEF InSection, InConstants, InTables, AtEnd, Tables
<1>3. /\ pos' = pos + 10 /\ checkBounds(10) /\ at' = "constants" /\ data' = data
      /\ i' = i /\ tables' = tables /\ class' = class /\ length' = length
      /\ file' = [file EXCEPT !.version = <<U2(6), U2(4)>>]
      /\ pool' = [k \in 0 .. U2(8) - 1 |-> NullEntry]
  BY DEF ParseHeader, Take
<1>4. <<U2(6), U2(4)>> = class.version /\ U2(8) = PoolCount(cs)
  BY <1>1, <1>2, <1>3, HeaderRead
<1>5. Len(cs) \in Nat /\ DOMAIN cs = 1 .. Len(cs)
  BY <1>1, ConstantsAt
<1>6. OfClass'
  <2>1. 10 \in Nat /\ Take(10)
    BY DEF ParseHeader
  <2>2. pos' \in Nat /\ pos' <= Len(data)
    BY <1>1, <2>1, Taken
  <2> QED BY <1>1, <1>3, <2>2, SameFile
<1>7. i' = IndexOf(cs, 1) /\ pool' = PoolSoFar(cs, 1)
  <2>1. IndexOf(cs, 1) = 1
    BY IndexSteps
  <2>2. PoolSoFar(cs, 1) = [j \in 0 .. PoolCount(cs) - 1 |-> NullEntry]
    BY <1>5, PoolStarts
  <2> QED BY <1>2, <1>3, <1>4, <2>1, <2>2 DEF AtStart
<1>8. pos' = 10 + Ends(ConstantEncodings(cs))[1 - 1]
  <2>1. Ends(ConstantEncodings(cs))[0] = 0
    BY <1>1, ConstantsAt
  <2> QED BY <1>2, <1>3, <2>1 DEF AtStart
<1>9. ConstantAt(1)'
  BY <1>3, <1>7, <1>8 DEF ConstantAt
<1>10. InConstants'
  <2>1. tables' = <<>>
    BY <1>2, <1>3 DEF AtStart
  <2>2. 1 \in 1 .. Len(cs) + 1
    BY <1>5
  <2> HIDE DEF ConstantAt
  <2> QED BY <1>3, <1>9, <2>1, <2>2 DEF InConstants
<1>11. FileSoFar'
  BY <1>1, <1>3, <1>4 DEF FileSoFar, NoFile
<1> QED BY <1>6, <1>10, <1>11 DEF Reading, InSection

LEMMA ConstantStepOf ==
  ASSUME Reading, UNCHANGED <<class, length>>, CreateConstantInfo
  PROVE  Reading'
<1> DEFINE cs == class.constants
           es == ConstantEncodings(cs)
<1>1. OfClass /\ InSection /\ FileSoFar /\ at = "constants" /\ i \in DOMAIN pool
  BY DEF Reading, CreateConstantInfo
<1>2. InConstants
  BY <1>1 DEF InSection, AtStart, InTables, AtEnd, Tables
<1>3. PICK k \in 1 .. Len(cs) + 1 : ConstantAt(k)
  BY <1>2 DEF InConstants
<1> DEFINE c == cs[k]
           w == EncodeConstant(c)
<1>4. k \in 1 .. Len(cs) /\ Holds(File, pos, w)
  BY <1>1, <1>3, ConstantNext
<1>5. /\ i = IndexOf(cs, k) /\ pool = PoolSoFar(cs, k) /\ pos = 10 + Ends(es)[k - 1]
  BY <1>3 DEF ConstantAt
<1>6. /\ pos' = pos + ConstantSize /\ checkBounds(ConstantSize) /\ at' = at /\ data' = data
      /\ pool' = [pool EXCEPT ![i] = readInfo]
      /\ i' = (i + (IF U1(0) \in EightBytes THEN 2 ELSE 1)) % U2Range
      /\ tables' = tables /\ class' = class /\ length' = length /\ file' = file
  BY DEF CreateConstantInfo, Take
<1>7. /\ Source /\ IsClass(class) /\ Len(cs) \in Nat /\ DOMAIN cs = 1 .. Len(cs)
      /\ PoolCount(cs) \in Nat /\ PoolCount(cs) < U2Range
      /\ c \in Constant /\ IsConstant(cs, c)
      /\ es \in Seq(Bits) /\ Len(es) = Len(cs)
  BY <1>1, <1>4, ClassIs DEF OfClass
<1>8. ConstantSize = Len(w) /\ readInfo = c /\ U1(0) = c.tag /\ w \in Bits /\ Len(w) \in Nat
  <2>1. /\ w \in Bits
        /\ checkBounds(1) => U1(0) = c.tag
        /\ ConstantSize = Len(w) /\ readInfo = c
    BY <1>4, <1>6, <1>7, ConstantRead
  <2>2. checkBounds(1)
    <3>1. ConstantSize = 1 \/ checkBounds(1)
      BY DEF ConstantSize
    <3> QED BY <1>6, <3>1
  <2> HIDE DEF w
  <2>3. Len(w) \in Nat
    BY <2>1 DEF Bits
  <2> QED BY <2>1, <2>2, <2>3
<1>9. es[k] = w
  BY <1>4, <1>7 DEF ConstantEncodings
<1> HIDE DEF w, c
<1>10. /\ IndexOf(cs, k + 1) = i + (IF U1(0) \in EightBytes THEN 2 ELSE 1)
       /\ IndexOf(cs, k + 1) \in 1 .. PoolCount(cs)
  <2> HIDE DEF cs
  <2>1. /\ IndexOf(cs, k + 1) = IndexOf(cs, k) + Steps(cs[k])
        /\ IndexOf(cs, k + 1) \in 1 .. PoolCount(cs)
    BY <1>4, <1>7, PoolFacts
  <2>2. Steps(c) = IF U1(0) \in EightBytes THEN 2 ELSE 1
    BY <1>8 DEF Steps
  <2> QED BY <1>5, <2>1, <2>2 DEF c
<1>11. i' = IndexOf(cs, k + 1)
  <2> DEFINE z == IndexOf(cs, k + 1)
  <2>3. U2Range \in Nat
    BY U2RangeAssumption
  <2>1. z \in Nat /\ z < U2Range
    BY <1>7, <1>10, <2>3
  <2>2. i' = z % U2Range
    BY <1>6, <1>10
  <2> HIDE DEF z
  <2>4. z % U2Range = z
    BY <2>1, <2>3
  <2> QED BY <2>2, <2>4 DEF z
<1>12. pool' = PoolSoFar(cs, k + 1)
  <2>1. PoolSoFar(cs, k + 1) = [PoolSoFar(cs, k) EXCEPT ![IndexOf(cs, k)] = cs[k]]
    BY <1>4, <1>7, PoolGrows
  <2> QED BY <1>5, <1>6, <1>8, <2>1 DEF c
<1>13. pos' = 10 + Ends(es)[(k + 1) - 1]
  <2>1. Ends(es)[k] = Ends(es)[k - 1] + Len(es[k])
    <3>1. FlattenSeq(es) \in Bits /\ Holds(File, 10, FlattenSeq(es)) /\ File \in Bits /\ 10 \in Nat
      BY <1>1, ConstantsAt DEF OfClass, Source
    <3>2. k \in 1 .. Len(es)
      BY <1>4, <1>7
    <3> HIDE DEF es
    <3> QED BY <1>7, <3>1, <3>2, HoldsAll
  <2>2. Ends(es)[k - 1] \in Nat
    <3>1. \A j \in 0 .. Len(cs) : Ends(es)[j] \in Nat
      BY <1>1, ConstantsAt
    <3>2. k - 1 \in 0 .. Len(cs)
      BY <1>4, <1>7
    <3> QED BY <3>1, <3>2
  <2>3. (k + 1) - 1 = k
    BY <1>4
  <2> DEFINE y == Ends(es)[k - 1]
             y1 == Ends(es)[k]
  <2>4. y \in Nat /\ y1 = y + Len(w) /\ pos = 10 + y
    BY <1>5, <1>9, <2>1, <2>2
  <2> HIDE DEF y, y1, es
  <2>5. pos' = 10 + y1
    BY <1>6, <1>8, <2>4
  <2> QED BY <2>3, <2>5 DEF y1
<1>14. OfClass'
  <2>1. ConstantSize \in Nat /\ Take(ConstantSize)
    BY <1>8 DEF CreateConstantInfo
  <2>2. pos' \in Nat /\ pos' <= Len(data)
    BY <1>1, <2>1, Taken
  <2> QED BY <1>1, <1>6, <2>2, SameFile
<1>15. ConstantAt(k + 1)'
  BY <1>6, <1>11, <1>12, <1>13 DEF ConstantAt
<1>16. InConstants'
  <2>1. k + 1 \in 1 .. Len(cs) + 1
    BY <1>4, <1>7
  <2>2. tables' = <<>>
    BY <1>2, <1>6 DEF InConstants
  <2> QED BY <1>1, <1>6, <1>15, <2>1, <2>2 DEF InConstants
<1>17. FileSoFar'
  BY <1>1, <1>6 DEF FileSoFar
<1> QED BY <1>14, <1>16, <1>17 DEF Reading, InSection

LEMMA IndicesRead ==
  ASSUME OfClass, Remains(File, pos, IndicesOn(class))
  PROVE  /\ checkBounds(8) => /\ U2(0) = class.access_flags
                              /\ U2(2) = class.this_class_index
                              /\ U2(4) = class.super_class_index
                              /\ U2(6) = 0
         /\ Remains(File, pos + 8, FieldsOn(class))
         /\ Whole => checkBounds(8)
<1> DEFINE c == class
           f == FieldsOn(c)
           n1 == c.access_flags
           n2 == c.this_class_index
           n3 == c.super_class_index
           r4 == Then(EncodeU2(0), f)
           r3 == Then(EncodeU2(n3), r4)
           r2 == Then(EncodeU2(n2), r3)
           r1 == Then(EncodeU2(n1), r2)
<1>1. Source /\ IsClass(c) /\ pos \in Nat /\ pos + 0 = pos
  BY DEF OfClass, Source
<1>2. n1 \in Nat /\ n2 \in Nat /\ n3 \in Nat /\ 0 \in Nat
  BY <1>1, ClassIs
<1>3. f \in Bits
  BY <1>1, PartsAreBits, Zenon
<1>4. Remains(File, pos + 0, r1)
  <2>1. IndicesOn(c) = r1
    BY Zenon DEF IndicesOn
  <2> QED BY <1>1, <2>1, Zenon
<1> HIDE DEF f, n1, n2, n3
<1>5. r4 \in Bits /\ Len(r4) >= 2
  <2>1. EncodeU2(0) \o f \in Bits /\ Len(EncodeU2(0) \o f) = 2 + Len(f) /\ Len(f) \in Nat
    BY <1>2, <1>3, AfterU2
  <2> QED BY <2>1 DEF Then
<1> HIDE DEF r4
<1>6. r3 \in Bits /\ Len(r3) >= 4
  <2>1. EncodeU2(n3) \o r4 \in Bits /\ Len(EncodeU2(n3) \o r4) = 2 + Len(r4) /\ Len(r4) \in Nat
    BY <1>2, <1>5, AfterU2
  <2> QED BY <1>5, <2>1 DEF Then
<1> HIDE DEF r3
<1>7. r2 \in Bits /\ Len(r2) >= 6
  <2>1. EncodeU2(n2) \o r3 \in Bits /\ Len(EncodeU2(n2) \o r3) = 2 + Len(r3) /\ Len(r3) \in Nat
    BY <1>2, <1>6, AfterU2
  <2> QED BY <1>6, <2>1 DEF Then
<1> HIDE DEF r2
<1>8. r1 \in Bits /\ Len(r1) >= 8
  <2>1. EncodeU2(n1) \o r2 \in Bits /\ Len(EncodeU2(n1) \o r2) = 2 + Len(r2) /\ Len(r2) \in Nat
    BY <1>2, <1>7, AfterU2
  <2> QED BY <1>7, <2>1 DEF Then
<1>9. (checkBounds(0 + 2) => U2(0) = n1) /\ Remains(File, pos + (0 + 2), r2)
  BY <1>1, <1>2, <1>4, <1>7, U2Remains
<1>10. (checkBounds(2 + 2) => U2(2) = n2) /\ Remains(File, pos + (2 + 2), r3)
  <2>1. Remains(File, pos + 2, Then(EncodeU2(n2), r3)) /\ 2 \in Nat
    BY <1>9 DEF r2
  <2> QED BY <1>1, <1>2, <1>6, <2>1, U2Remains
<1>11. (checkBounds(4 + 2) => U2(4) = n3) /\ Remains(File, pos + (4 + 2), r4)
  <2>1. Remains(File, pos + 4, Then(EncodeU2(n3), r4)) /\ 4 \in Nat
    BY <1>10 DEF r3
  <2> QED BY <1>1, <1>2, <1>5, <2>1, U2Remains
<1>12. (checkBounds(6 + 2) => U2(6) = 0) /\ Remains(File, pos + (6 + 2), f)
  <2>1. Remains(File, pos + 6, Then(EncodeU2(0), f)) /\ 6 \in Nat
    BY <1>11 DEF r4
  <2> QED BY <1>1, <1>2, <1>3, <2>1, U2Remains
<1>13. checkBounds(8) => checkBounds(2) /\ checkBounds(4) /\ checkBounds(6)
  BY <1>1, FewerBytes
<1>14. Whole => checkBounds(0 + 8)
  <2> HIDE DEF r1
  <2>1. 0 \in Nat /\ 8 \in Nat /\ 8 <= Len(r1)
    <3> DEFINE z == Len(r1)
    <3>1. z >= 8 /\ z \in Nat
      BY <1>8 DEF Bits
    <3> HIDE DEF z
    <3>2. 8 <= z
      BY <3>1
    <3> QED BY <3>2 DEF z
  <2> QED BY <1>1, <1>4, <1>8, <2>1, WholeRemains
<1> QED BY <1>9, <1>10, <1>11, <1>12, <1>13, <1>14 DEF f, n1, n2, n3

(* A table of the class and what follows it. *)
LEMMA FromTable ==
  ASSUME NEW c, IsClass(c), NEW of \in Tables
  PROVE  /\ From(c, of) = Then(TableBits(of, ElementsOf(c, of)), From(c, Following[of]))
         /\ IsElements(c.constants, of, ElementsOf(c, of))
         /\ From(c, Following[of]) \in Bits
         /\ Following[of] \in {"methods", "attributes", "interfaces"}
<1>1. CASE of = "fields"
  <2>1. Following[of] = "methods"
    BY <1>1 DEF Following
  <2>2. From(c, of) = FieldsOn(c) /\ From(c, Following[of]) = MethodsOn(c) /\ ElementsOf(c, of) = c.fields
    BY <1>1, <2>1 DEF From, ElementsOf
  <2>3. FieldsOn(c) = Then(TableBits("fields", c.fields), MethodsOn(c))
    BY DEF FieldsOn
  <2>4. MethodsOn(c) \in Bits
    BY PartsAreBits, Zenon
  <2>5. IsElements(c.constants, "fields", c.fields)
    BY ClassIs
  <2> QED BY <1>1, <2>1, <2>2, <2>3, <2>4, <2>5
<1>2. CASE of = "methods"
  <2>1. Following[of] = "attributes"
    BY <1>2 DEF Following
  <2>2. From(c, of) = MethodsOn(c) /\ From(c, Following[of]) = AttributesOn(c) /\ ElementsOf(c, of) = c.methods
    BY <1>2, <2>1 DEF From, ElementsOf
  <2>3. MethodsOn(c) = Then(TableBits("methods", c.methods), AttributesOn(c))
    BY DEF MethodsOn
  <2>4. AttributesOn(c) \in Bits
    BY PartsAreBits, Zenon
  <2>5. IsElements(c.constants, "methods", c.methods)
    BY ClassIs
  <2> QED BY <1>2, <2>1, <2>2, <2>3, <2>4, <2>5
<1>3. CASE of = "attributes"
  <2>1. Following[of] = "interfaces"
    BY <1>3 DEF Following
  <2>2. From(c, of) = AttributesOn(c) /\ From(c, Following[of]) = <<>> /\ ElementsOf(c, of) = c.attributes
    BY <1>3, <2>1 DEF From, ElementsOf
  <2>3. AttributesOn(c) = Then(TableBits("attributes", c.attributes), <<>>)
    BY DEF AttributesOn
  <2>4. <<>> \in Bits
    BY Nothing
  <2>5. IsElements(c.constants, "attributes", c.attributes)
    BY ClassIs
  <2> QED BY <1>3, <2>1, <2>2, <2>3, <2>4, <2>5
<1> QED BY <1>1, <1>2, <1>3 DEF Tables

LEMMA TableCountRead ==
  ASSUME OfClass, at \in Tables, BeforeTable
  PROVE  /\ checkBounds(2) =>
              /\ U2(0) = Len(ElementsOf(class, at))
              /\ InTable(File, class.constants, <<Table(at, U2(0))>>, pos + 2, at, ElementsOf(class, at),
                         From(class, Following[at]))
         /\ Whole => checkBounds(2)
<1> DEFINE cs == class.constants
           of == at
           s == ElementsOf(class, of)
           rest == From(class, Following[of])
           g == FlattenSeq(EncodedElements(of, s))
           n == Len(s)
           r == Then(g, rest)
           w == Then(EncodeU2(n), r)
<1>1. Source /\ IsClass(class) /\ pos \in Nat /\ pos + 0 = pos /\ File \in Bits
  BY DEF OfClass, Source
<1>2. /\ From(class, of) = Then(TableBits(of, s), rest)
      /\ IsElements(cs, of, s) /\ rest \in Bits
  BY <1>1, FromTable, Zenon
<1>3. g \in Bits /\ n \in Nat
  BY <1>2, ElementsBits, Zenon
<1>4. EncodeU2(n) \in Bits
  BY <1>3, EncodedU2
<1>5. TableBits(of, s) = Then(EncodeU2(n), g)
  BY Zenon DEF TableBits, Then
<1>6. Remains(File, pos, From(class, of))
  BY DEF BeforeTable
<1> HIDE DEF s, rest, of, cs
<1>7. Then(Then(EncodeU2(n), g), rest) = w
  <2> HIDE DEF g, n
  <2> QED BY <1>2, <1>3, <1>4, ThenAssoc
<1>8. Remains(File, pos + 0, w)
  BY <1>1, <1>2, <1>5, <1>6, <1>7
<1>9. r \in Bits
  <2> HIDE DEF g
  <2> QED BY <1>2, <1>3, ThenAssoc
<1>10. w \in Bits /\ Len(w) >= 2
  <2> HIDE DEF r, n
  <2>1. EncodeU2(n) \o r \in Bits /\ Len(EncodeU2(n) \o r) = 2 + Len(r) /\ Len(r) \in Nat
    BY <1>3, <1>9, AfterU2
  <2> QED BY <2>1 DEF Then
<1>11. (checkBounds(0 + 2) => U2(0) = n) /\ Remains(File, pos + (0 + 2), r)
  <2> HIDE DEF r, n
  <2>1. 0 \in Nat
    OBVIOUS
  <2> QED BY <1>1, <1>3, <1>8, <1>9, <2>1, U2Remains
<1>12. InTable(File, cs, <<Table(of, n)>>, pos + 2, of, s, rest)
  <2> DEFINE p == pos + 2
  <2>1. p \in Nat
    BY <1>1
  <2>2. Remains(File, p, FlattenSeq(EncodedElements(of, s)) \o rest)
    BY <1>11 DEF Then
  <2> HIDE DEF p
  <2>3. InTable(File, cs, <<Table(of, Len(s))>>, p, of, s, rest)
    BY <1>1, <1>2, <2>1, <2>2, TableStarts, Zenon
  <2> QED BY <2>3 DEF p
<1>13. Whole => checkBounds(0 + 2)
  <2> HIDE DEF w
  <2>1. 0 \in Nat /\ 2 \in Nat /\ 2 <= Len(w)
    <3> DEFINE z == Len(w)
    <3>1. z >= 2 /\ z \in Nat
      BY <1>10 DEF Bits
    <3> HIDE DEF z
    <3>2. 2 <= z
      BY <3>1
    <3> QED BY <3>2 DEF z
  <2> QED BY <1>1, <1>8, <1>10, <2>1, WholeRemains
<1> HIDE DEF n
<1> QED BY <1>11, <1>12, <1>13 DEF of, s, rest, cs, n

LEMMA ClassIndicesStepOf ==
  ASSUME Reading, UNCHANGED <<class, length>>, ParseClassIndices
  PROVE  Reading'
<1> DEFINE cs == class.constants
<1>1. OfClass /\ InSection /\ FileSoFar /\ at = "constants" /\ i \notin DOMAIN pool
  BY DEF Reading, ParseClassIndices
<1>2. InConstants
  BY <1>1 DEF InSection, AtStart, InTables, AtEnd, Tables
<1>3. PICK k \in 1 .. Len(cs) + 1 : ConstantAt(k)
  BY <1>2 DEF InConstants
<1>4. pool = PoolOf(cs) /\ Remains(File, pos, IndicesOn(class))
  BY <1>1, <1>3, ConstantNext
<1>5. /\ pos' = pos + 8 /\ checkBounds(8) /\ at' = "fields" /\ data' = data
      /\ file' = [file EXCEPT !.access_flags = U2(0), !.this_class_index = U2(2),
                              !.super_class_index = U2(4), !.interfaces_count = U2(6)]
      /\ i' = i /\ pool' = pool /\ tables' = tables /\ class' = class /\ length' = length
  BY DEF ParseClassIndices, Take
<1>6. /\ U2(0) = class.access_flags /\ U2(2) = class.this_class_index
      /\ U2(4) = class.super_class_index /\ U2(6) = 0
      /\ Remains(File, pos + 8, FieldsOn(class))
  BY <1>1, <1>4, <1>5, IndicesRead
<1>7. OfClass' /\ File' = File
  <2>1. 8 \in Nat /\ Take(8)
    BY DEF ParseClassIndices
  <2>2. pos' \in Nat /\ pos' <= Len(data)
    BY <1>1, <2>1, Taken
  <2> QED BY <1>1, <1>5, <2>2, SameFile
<1>8. Remains(File, pos', From(class, "fields"))
  BY <1>5, <1>6 DEF From
<1>9. BeforeTable'
  <2>1. tables' = <<>>
    BY <1>2, <1>5 DEF InConstants
  <2>2. Remains(File', pos', From(class', at'))
    BY <1>5, <1>7, <1>8
  <2> QED BY <2>1, <2>2 DEF BeforeTable
<1>10. InTables'
  BY <1>4, <1>5, <1>9 DEF InTables, Tables
<1>11. FileSoFar'
  BY <1>1, <1>5, <1>6 DEF FileSoFar, NoFile
<1> QED BY <1>7, <1>10, <1>11 DEF Reading, InSection

LEMMA TableStepOf ==
  ASSUME Reading, UNCHANGED <<class, length>>, ParseTable
  PROVE  Reading'
<1> DEFINE cs == class.constants
<1>1. OfClass /\ InSection /\ FileSoFar /\ at \in Tables /\ tables = <<>>
  BY DEF Reading, ParseTable
<1>2. InTables
  BY <1>1 DEF InSection, AtStart, InConstants, AtEnd, Tables
<1>3. ~InsideTable
  <2> SUFFICES ASSUME InsideTable PROVE FALSE
    OBVIOUS
  <2>1. PICK ls : Stacked(File, cs, ls, tables, pos)
    BY Zenon DEF InsideTable, InTable
  <2>2. Len(tables) > 0
    BY <2>1, Zenon DEF Stacked
  <2> QED BY <1>1, <2>2
<1>4. BeforeTable /\ pool = PoolOf(cs)
  BY <1>2, <1>3 DEF InTables
<1>5. /\ pos' = pos + 2 /\ checkBounds(2) /\ at' = at /\ data' = data
      /\ tables' = <<Table(at, U2(0))>>
      /\ i' = i /\ pool' = pool /\ file' = file /\ class' = class /\ length' = length
  BY DEF ParseTable, Take
<1>6. InTable(File, cs, <<Table(at, U2(0))>>, pos + 2, at, ElementsOf(class, at), From(class, Following[at]))
  BY <1>1, <1>4, <1>5, TableCountRead, Zenon
<1>7. OfClass' /\ File' = File
  <2>1. 2 \in Nat /\ Take(2)
    BY DEF ParseTable
  <2>2. pos' \in Nat /\ pos' <= Len(data)
    BY <1>1, <2>1, Taken
  <2> QED BY <1>1, <1>5, <2>2, SameFile
<1>8. InsideTable'
  <2>1. InTable(File', class'.constants, tables', pos', at', ElementsOf(class', at'), From(class', Following[at']))
    BY <1>5, <1>6, <1>7, Zenon
  <2> QED BY <2>1, Zenon DEF InsideTable
<1>9. InTables'
  BY <1>1, <1>4, <1>5, <1>8 DEF InTables
<1>10. FileSoFar'
  BY <1>1, <1>5 DEF FileSoFar
<1> QED BY <1>7, <1>9, <1>10 DEF Reading, InSection

(* The parser in the middle of a table. *)
LEMMA Inside ==
  ASSUME Reading, tables # <<>>
  PROVE  /\ OfClass /\ FileSoFar /\ Known /\ InsideTable
         /\ at \in Tables /\ pool = PoolOf(class.constants)
<1>1. OfClass /\ InSection /\ FileSoFar
  BY DEF Reading
<1>2. InTables /\ ~BeforeTable
  BY <1>1 DEF InSection, AtStart, InConstants, AtEnd, BeforeTable
<1>3. InsideTable /\ at \in Tables /\ pool = PoolOf(class.constants)
  BY <1>2 DEF InTables
<1>4. Len(class.constants) \in Nat /\ DOMAIN class.constants = 1 .. Len(class.constants)
  BY <1>1, ConstantsAt
<1>5. Known
  BY <1>1, <1>3, <1>4 DEF Known, OfClass
<1> QED BY <1>1, <1>3, <1>5

(* A step inside a table that stays in it. *)
LEMMA StaysInside ==
  ASSUME Reading, tables # <<>>, UNCHANGED <<class, length, data, at, i, pool, file>>,
         pos' \in Nat, pos' <= Len(data),
         InTable(File, class.constants, tables', pos', at, ElementsOf(class, at), From(class, Following[at]))
  PROVE  Reading'
<1>1. OfClass /\ FileSoFar /\ at \in Tables /\ pool = PoolOf(class.constants)
  BY Inside
<1>2. class' = class /\ length' = length /\ data' = data /\ at' = at /\ pool' = pool /\ file' = file
  OBVIOUS
<1>3. OfClass' /\ File' = File
  BY <1>1, SameFile
<1>4. InsideTable'
  <2>1. InTable(File', class'.constants, tables', pos', at', ElementsOf(class', at'), From(class', Following[at']))
    BY <1>2, <1>3, Zenon
  <2> QED BY <2>1, Zenon DEF InsideTable
<1>5. InTables'
  BY <1>1, <1>2, <1>4 DEF InTables
<1>6. FileSoFar'
  BY <1>1, <1>2 DEF FileSoFar
<1> QED BY <1>3, <1>5, <1>6 DEF Reading, InSection

LEMMA EndTableStepOf ==
  ASSUME Reading, UNCHANGED <<class, length>>, EndClassTable
  PROVE  Reading'
<1> DEFINE cs == class.constants
           s == ElementsOf(class, at)
           rest == From(class, Following[at])
           t == Top
<1>1. /\ tables # <<>> /\ Len(tables) = 1 /\ Top.left = 0
      /\ file' = [file EXCEPT ![at] = Top.built]
      /\ tables' = <<>> /\ at' = Following[at]
      /\ pos' = pos /\ data' = data /\ i' = i /\ pool' = pool
      /\ class' = class /\ length' = length
  BY DEF EndClassTable, Filled
<1>2. OfClass /\ FileSoFar /\ InsideTable /\ at \in Tables /\ pool = PoolOf(cs)
  BY <1>1, Inside
<1>3. tables = <<t>>
  <2>1. PICK ls : Stacked(File, cs, ls, tables, pos)
    BY <1>2, Zenon DEF InsideTable, InTable
  <2>2. IsTable(tables)
    BY <2>1, Zenon DEF Stacked
  <2>3. tables = [k \in 1 .. Len(tables) |-> tables[k]]
    BY <2>2, TableFacts, Zenon
  <2>4. t = tables[1]
    BY <1>1 DEF Top
  <2> HIDE DEF t
  <2> QED BY <1>1, <2>3, <2>4
<1>4. t.left = 0
  BY <1>1
<1>5. File \in Bits
  BY <1>2 DEF OfClass, Source
<1>6. InTable(File, cs, <<t>>, pos, at, s, rest)
  BY <1>2, <1>3, Zenon DEF InsideTable
<1> HIDE DEF t
<1>7. TableRead(at, t.built, s, Len(s)) /\ Remains(File, pos, rest)
  BY <1>4, <1>5, <1>6, TableIsRead, Zenon
<1>8. OfClass' /\ File' = File
  <2>1. pos' \in Nat /\ pos' <= Len(data)
    BY <1>1, <1>2 DEF OfClass, Source
  <2> QED BY <1>1, <1>2, <2>1, SameFile
<1>9. Remains(File', pos', From(class', at'))
  BY <1>1, <1>7, <1>8, Zenon
<1>10. file' = [file EXCEPT ![at] = t.built]
  BY <1>1 DEF t
<1> DEFINE v == t.built
<1>11. TableRead(at, v, s, Len(s)) /\ file' = [file EXCEPT ![at] = v]
  BY <1>7, <1>10
<1> HIDE DEF v
<1>12. CASE at = "fields"
  <2>1. at' = "methods"
    BY <1>1, <1>12 DEF Following
  <2>2. TableRead("fields", v, class.fields, Len(class.fields))
    BY <1>11, <1>12, Zenon DEF ElementsOf
  <2>3. FileSoFar'
    BY <1>1, <1>2, <1>11, <1>12, <2>1, <2>2 DEF FileSoFar, NoFile
  <2>4. BeforeTable'
    BY <1>1, <1>9 DEF BeforeTable
  <2>5. InTables'
    BY <1>1, <1>2, <2>1, <2>4 DEF InTables, Tables
  <2> QED BY <1>8, <2>3, <2>5 DEF Reading, InSection
<1>13. CASE at = "methods"
  <2>1. at' = "attributes"
    BY <1>1, <1>13 DEF Following
  <2>2. TableRead("methods", v, class.methods, Len(class.methods))
    BY <1>11, <1>13 DEF ElementsOf
  <2>3. FileSoFar'
    BY <1>1, <1>2, <1>11, <1>13, <2>1, <2>2 DEF FileSoFar, NoFile
  <2>4. BeforeTable'
    BY <1>1, <1>9 DEF BeforeTable
  <2>5. InTables'
    BY <1>1, <1>2, <2>1, <2>4 DEF InTables, Tables
  <2> QED BY <1>8, <2>3, <2>5 DEF Reading, InSection
<1>14. CASE at = "attributes"
  <2>1. at' = "interfaces"
    BY <1>1, <1>14 DEF Following
  <2>2. TableRead("attributes", v, class.attributes, Len(class.attributes))
    BY <1>11, <1>14 DEF ElementsOf
  <2>3. FileSoFar'
    BY <1>1, <1>2, <1>11, <1>14, <2>1, <2>2 DEF FileSoFar, NoFile
  <2>4. Remains(File', pos', <<>>)
    BY <1>9, <2>1 DEF From
  <2>5. AtEnd'
    BY <1>1, <1>2, <2>1, <2>4 DEF AtEnd
  <2> QED BY <1>8, <2>3, <2>5 DEF Reading, InSection
<1> QED BY <1>2, <1>12, <1>13, <1>14 DEF Tables

LEMMA PlaceInTable ==
  ASSUME NEW b \in Bits, NEW cs, NEW ts, NEW p, NEW of, NEW s, NEW rest, InTable(b, cs, ts, p, of, s, rest)
  PROVE  p \in Nat
<1>1. PICK ls : Stacked(b, cs, ls, ts, p)
  BY Zenon DEF InTable
<1> DEFINE n == Len(ts)
           l == ls[n]
           d == l.done
<1>2. /\ IsTable(ts) /\ n > 0
      /\ \A k \in 1 .. n : IsLevel(b, cs, ls[k]) /\ TableAt(ls[k], ts[k])
      /\ p = At(l, d)
  BY <1>1, Zenon DEF Stacked
<1>3. n \in Nat
  BY <1>2, TableFacts
<1> HIDE DEF n
<1>4. n \in 1 .. n
  BY <1>2, <1>3
<1>5. IsLevel(b, cs, l)
  BY <1>2, <1>4
<1> HIDE DEF l
<1>6. Len(l.elems) \in Nat /\ \A k \in 0 .. Len(l.elems) : At(l, k) \in Nat
  BY <1>5, LevelFacts
<1>7. d \in 0 .. Len(l.elems)
  BY <1>5 DEF IsLevel
<1> QED BY <1>2, <1>6, <1>7

LEMMA InsideStepOf ==
  ASSUME Reading, UNCHANGED <<class, length>>,
         \/ CreateMemberInfo \/ CreateFlatAttribute \/ CreateCodeAttribute
         \/ CreateBootstrapMethods \/ ReadBootstrapMethod \/ EndNestedTable
  PROVE  Reading'
<1> DEFINE s == ElementsOf(class, at)
           rest == From(class, Following[at])
<1>1. /\ tables # <<>> /\ UNCHANGED <<class, length, data, at, i, pool, file>>
  BY DEF CreateMemberInfo, CreateFlatAttribute, CreateCodeAttribute, CreateBootstrapMethods,
         ReadBootstrapMethod, EndNestedTable, Attribute, Filling, Filled
<1>2. OfClass /\ Known /\ InTable(File, class.constants, tables, pos, at, s, rest)
  BY <1>1, Inside DEF InsideTable
<1> HIDE DEF s, rest
<1>3. InTable(File, class.constants, tables', pos', at, s, rest)
  <2>1. CASE CreateMemberInfo
    BY <1>2, <2>1, MemberStepIn, Zenon
  <2>2. CASE CreateFlatAttribute
    BY <1>2, <2>2, FlatStepIn, Zenon
  <2>3. CASE CreateCodeAttribute
    BY <1>2, <2>3, CodeStepIn, Zenon
  <2>4. CASE CreateBootstrapMethods
    BY <1>2, <2>4, BootstrapStepIn, Zenon
  <2>5. CASE ReadBootstrapMethod
    BY <1>2, <2>5, BootstrapMethodStepIn, Zenon
  <2>6. CASE EndNestedTable
    BY <1>2, <2>6, NestedStepIn, Zenon
  <2> QED BY <2>1, <2>2, <2>3, <2>4, <2>5, <2>6
<1>4. pos' \in Nat
  <2>1. File \in Bits
    BY <1>2 DEF OfClass, Source
  <2> QED BY <1>3, <2>1, PlaceInTable, Zenon
<1>5. pos' <= Len(data)
  <2>1. CASE EndNestedTable
    BY <1>2, <2>1 DEF EndNestedTable, OfClass
  <2>2. CASE CreateMemberInfo
    BY <2>2 DEF CreateMemberInfo, Take, checkBounds
  <2>3. CASE CreateFlatAttribute
    BY <2>3, Zenon DEF CreateFlatAttribute, Take, checkBounds
  <2>4. CASE CreateCodeAttribute
    BY <2>4, Zenon DEF CreateCodeAttribute, Take, checkBounds
  <2>5. CASE CreateBootstrapMethods
    BY <2>5, Zenon DEF CreateBootstrapMethods, Take, checkBounds
  <2>6. CASE ReadBootstrapMethod
    BY <2>6, Zenon DEF ReadBootstrapMethod, Take, checkBounds
  <2> QED BY <2>1, <2>2, <2>3, <2>4, <2>5, <2>6
<1> QED BY <1>1, <1>3, <1>4, <1>5, StaysInside DEF s, rest

(* No exception but that of a read past the end, and that one only in a    *)
(* file that was cut off.                                                  *)
LEMMA OnlyCutsThrow ==
  ASSUME Reading
  PROVE  /\ ~BadMagic /\ ~UnknownTag /\ ~NameNotUtf8 /\ ~MemberNameNotUtf8
         /\ ReadOutOfBounds => ~Whole
<1> DEFINE cs == class.constants
<1>1. OfClass /\ InSection /\ FileSoFar
  BY DEF Reading
<1>2. ASSUME at = "header" PROVE AtStart
  BY <1>1, <1>2 DEF InSection, InConstants, InTables, AtEnd, Tables
<1>3. ASSUME at = "constants" PROVE \E k \in 1 .. Len(cs) + 1 : ConstantAt(k)
  BY <1>1, <1>3 DEF InSection, AtStart, InConstants, InTables, AtEnd, Tables
<1>4. ASSUME at = "constants", i \in DOMAIN pool
      PROVE  /\ checkBounds(1) => U1(0) \in ConstantTag
             /\ Whole => checkBounds(ConstantSize)
  <2>1. PICK k \in 1 .. Len(cs) + 1 : ConstantAt(k)
    BY <1>3, <1>4
  <2>2. k \in 1 .. Len(cs) /\ Holds(File, pos, EncodeConstant(cs[k]))
    BY <1>1, <1>4, <2>1, ConstantNext
  <2>3. Source /\ IsClass(class)
    BY <1>1 DEF OfClass
  <2>4. cs[k] \in Constant /\ IsConstant(cs, cs[k])
    BY <2>2, <2>3, ClassIs
  <2> DEFINE c == cs[k]
  <2>5. c \in Constant /\ IsConstant(cs, c) /\ Holds(File, pos, EncodeConstant(c))
    BY <2>2, <2>4
  <2> HIDE DEF c
  <2> QED BY <2>3, <2>5, ConstantRead
<1>5. ASSUME at = "constants", i \notin DOMAIN pool, Whole PROVE checkBounds(8)
  <2>1. PICK k \in 1 .. Len(cs) + 1 : ConstantAt(k)
    BY <1>3, <1>5
  <2>2. Remains(File, pos, IndicesOn(class))
    BY <1>1, <1>5, <2>1, ConstantNext
  <2> QED BY <1>1, <1>5, <2>2, IndicesRead
<1>6. ASSUME at \in Tables, tables = <<>>, Whole PROVE checkBounds(2)
  <2>1. InTables
    BY <1>1, <1>6 DEF InSection, AtStart, InConstants, AtEnd, Tables
  <2>2. ~InsideTable
    <3> SUFFICES ASSUME InsideTable PROVE FALSE
      OBVIOUS
    <3>1. PICK ls : Stacked(File, cs, ls, tables, pos)
      BY Zenon DEF InsideTable, InTable
    <3>2. Len(tables) > 0
      BY <3>1, Zenon DEF Stacked
    <3> QED BY <1>6, <3>2
  <2>3. BeforeTable
    BY <2>1, <2>2 DEF InTables
  <2> QED BY <1>1, <1>6, <2>3, TableCountRead, Zenon
<1>7. ASSUME tables # <<>> PROVE ~NameNotUtf8 /\ ~MemberNameNotUtf8 /\ (ReadsPast => ~Whole)
  <2>1. Known /\ InTable(File, cs, tables, pos, at, ElementsOf(class, at), From(class, Following[at]))
    BY <1>7, Inside DEF InsideTable
  <2>2. ~NameNotUtf8 /\ ~MemberNameNotUtf8
    BY <2>1, NamesAreFound, Zenon
  <2>3. ReadsPast => ~Whole
    BY <2>1, ReadsPastTheCut, Zenon
  <2> QED BY <2>2, <2>3
<1>8. ~BadMagic
  <2> SUFFICES ASSUME BadMagic PROVE FALSE
    OBVIOUS
  <2>1. at = "header" /\ checkBounds(10) /\ Bytes(0, 4) # kClassFileMagic
    BY DEF BadMagic
  <2> QED BY <1>1, <1>2, <2>1, HeaderRead
<1>9. ~UnknownTag
  <2> SUFFICES ASSUME UnknownTag PROVE FALSE
    OBVIOUS
  <2>1. at = "constants" /\ i \in DOMAIN pool /\ checkBounds(1) /\ U1(0) \notin ConstantTag
    BY DEF UnknownTag
  <2> QED BY <1>4, <2>1
<1>10. ~NameNotUtf8 /\ ~MemberNameNotUtf8
  <2>1. NameNotUtf8 \/ MemberNameNotUtf8 => tables # <<>>
    BY DEF NameNotUtf8, MemberNameNotUtf8, Filling, Filled
  <2> QED BY <1>7, <2>1
<1>11. ASSUME ReadOutOfBounds, Whole PROVE FALSE
  <2>1. ~(at = "header" /\ ~checkBounds(10))
    BY <1>1, <1>2, <1>11, HeaderRead
  <2>2. ~(at = "constants" /\ i \in DOMAIN pool /\ ~checkBounds(ConstantSize))
    BY <1>4, <1>11
  <2>3. ~(at = "constants" /\ i \notin DOMAIN pool /\ ~checkBounds(8))
    BY <1>5, <1>11
  <2>4. ~(at \in Tables /\ tables = <<>> /\ ~checkBounds(2))
    BY <1>6, <1>11
  <2>5. ~(at = "interfaces" /\ Len(file.interfaces) < file.interfaces_count)
    <3>1. file.interfaces = <<>> /\ file.interfaces_count = 0
      BY <1>1, Zenon DEF FileSoFar
    <3> QED BY <3>1
  <2>6. ~ReadsPast
    <3>1. ReadsPast => tables # <<>>
      BY DEF ReadsPast, Filling
    <3> QED BY <1>7, <1>11, <3>1
  <2> QED BY <1>11, <2>1, <2>2, <2>3, <2>4, <2>5, <2>6, Zenon DEF ReadOutOfBounds, ReadsPast
<1> QED BY <1>8, <1>9, <1>10, <1>11

-----------------------------------------------------------------------------
(* parse() from its first step to its last. *)

LEMMA ReadingKept ==
  ASSUME Reading, UNCHANGED <<class, length, data, pos, at, i, pool, tables, file>>
  PROVE  Reading'
<1>1. OfClass /\ InSection /\ FileSoFar
  BY DEF Reading
<1>2. /\ class' = class /\ length' = length /\ data' = data /\ pos' = pos /\ at' = at /\ i' = i
      /\ pool' = pool /\ tables' = tables /\ file' = file
  OBVIOUS
<1>3. OfClass' /\ File' = File
  <2>1. pos' \in Nat /\ pos' <= Len(data)
    BY <1>1, <1>2 DEF OfClass, Source
  <2> QED BY <1>1, <1>2, <2>1, SameFile
<1>4. InSection'
  <2>1. AtStart => AtStart'
    BY <1>2 DEF AtStart
  <2>2. InConstants => InConstants'
    BY <1>2 DEF InConstants, ConstantAt
  <2>3. BeforeTable => BeforeTable'
    BY <1>2, <1>3 DEF BeforeTable
  <2>4. InsideTable => InsideTable'
    <3>1. /\ File' = File /\ class'.constants = class.constants
          /\ ElementsOf(class', at') = ElementsOf(class, at)
          /\ From(class', Following[at']) = From(class, Following[at])
      BY <1>2, <1>3
    <3> QED BY <1>2, <3>1, Zenon DEF InsideTable
  <2>5. InTables => InTables'
    BY <1>2, <2>3, <2>4 DEF InTables
  <2>6. AtEnd => AtEnd'
    BY <1>2, <1>3 DEF AtEnd
  <2> QED BY <1>1, <2>1, <2>2, <2>5, <2>6 DEF InSection
<1>5. FileSoFar'
  BY <1>1, <1>2 DEF FileSoFar
<1> QED BY <1>3, <1>4, <1>5 DEF Reading

(* A step of parse(). *)
LEMMA ParseStepOf ==
  ASSUME Reading, UNCHANGED <<class, length>>, parse
  PROVE  \/ status' = status /\ Reading'
         \/ status' = "returned" /\ Reading' /\ at' = "interfaces"
         \/ status' = "thrown" /\ ~Whole /\ UNCHANGED <<data, pos>>
<1>1. CASE ParseHeader
  <2>1. status' = status
    BY <1>1 DEF ParseHeader
  <2> QED BY <1>1, <2>1, HeaderStepOf
<1>2. CASE CreateConstantInfo
  <2>1. status' = status
    BY <1>2 DEF CreateConstantInfo
  <2> QED BY <1>2, <2>1, ConstantStepOf
<1>3. CASE ParseClassIndices
  <2>1. status' = status
    BY <1>3 DEF ParseClassIndices
  <2> QED BY <1>3, <2>1, ClassIndicesStepOf
<1>4. CASE ParseTable
  <2>1. status' = status
    BY <1>4 DEF ParseTable
  <2> QED BY <1>4, <2>1, TableStepOf
<1>5. CASE EndClassTable
  <2>1. status' = status
    BY <1>5 DEF EndClassTable
  <2> QED BY <1>5, <2>1, EndTableStepOf
<1>6. CASE \/ CreateMemberInfo \/ CreateFlatAttribute \/ CreateCodeAttribute
           \/ CreateBootstrapMethods \/ ReadBootstrapMethod \/ EndNestedTable
  <2>1. status' = status
    BY <1>6 DEF CreateMemberInfo, CreateFlatAttribute, CreateCodeAttribute, CreateBootstrapMethods,
                ReadBootstrapMethod, EndNestedTable
  <2> QED BY <1>6, <2>1, InsideStepOf
<1>7. CASE ReadInterface
  <2>1. file.interfaces = <<>> /\ file.interfaces_count = 0
    BY DEF Reading, FileSoFar
  <2> QED BY <1>7, <2>1 DEF ReadInterface
<1>8. CASE ReturnClassFile
  <2>1. /\ UNCHANGED <<class, length, data, pos, at, i, pool, tables, file>>
        /\ status' = "returned" /\ at' = "interfaces"
    BY <1>8 DEF ReturnClassFile
  <2> QED BY <2>1, ReadingKept
<1>9. CASE ReadOutOfBounds
  <2>1. status' = "thrown" /\ UNCHANGED <<data, pos>>
    BY <1>9 DEF ReadOutOfBounds, Throw
  <2> QED BY <1>9, <2>1, OnlyCutsThrow
<1>10. CASE BadMagic \/ UnknownTag \/ NameNotUtf8 \/ MemberNameNotUtf8
  BY <1>10, OnlyCutsThrow
<1> QED BY <1>1, <1>2, <1>3, <1>4, <1>5, <1>6, <1>7, <1>8, <1>9, <1>10 DEF parse

(* The file of a class, all through parse() and the preparation.           *)
FileInv ==
  /\ stage # "construct" => status = "returned"
  /\ Encoded =>
       /\ OfClass
       /\ status = "thrown" => ~Whole
       /\ status # "thrown" /\ stage = "construct" => Reading
       /\ status = "returned" => at = "interfaces" /\ pos = Len(File)

(* parse() reads the interfaces last, where no class file has them (the    *)
(* finding of the run parse_ifaces): a class that implements one is not    *)
(* read as it was written.                                                 *)
NoInterfaces == \A c \in Classes : c.interfaces = <<>>

LEMMA FileIsBits ==
  ASSUME IsClass(class), class.interfaces = <<>>
  PROVE  File \in Bits /\ Len(File) \in Nat
<1> DEFINE c == class
           a1 == EncodeU2(c.version[2])
           a2 == EncodeU2(c.version[1])
           a3 == EncodeU2(PoolCount(c.constants))
           r3 == Then(a3, ConstantsOn(c))
           r2 == Then(a2, r3)
           r1 == Then(a1, r2)
<1>1. File = HeaderOn(c)
  BY Layout DEF File
<1>2. kClassFileMagic \in Bits /\ ConstantsOn(c) \in Bits /\ a1 \in Bits /\ a2 \in Bits /\ a3 \in Bits
  <2>1. c.version[1] \in Nat /\ c.version[2] \in Nat /\ PoolCount(c.constants) \in Nat
    BY ClassIs
  <2>2. kClassFileMagic \in Bits /\ ConstantsOn(c) \in Bits /\ \A n \in Nat : EncodeU2(n) \in Bits
    BY PartsAreBits, Zenon
  <2> QED BY <2>1, <2>2
<1>3. HeaderOn(c) = Then(kClassFileMagic, r1)
  BY Zenon DEF HeaderOn
<1> HIDE DEF a1, a2, a3
<1>4. r3 \in Bits
  BY <1>2, ThenAssoc
<1> HIDE DEF r3
<1>5. r2 \in Bits
  BY <1>2, <1>4, ThenAssoc
<1> HIDE DEF r2
<1>6. r1 \in Bits
  BY <1>2, <1>5, ThenAssoc
<1> HIDE DEF r1
<1>7. Then(kClassFileMagic, r1) \in Bits
  BY <1>2, <1>6, ThenAssoc
<1>8. File \in Bits
  BY <1>1, <1>3, <1>7
<1> QED BY <1>8 DEF Bits

LEMMA InitFile == ASSUME NoInterfaces, ClassInit PROVE FileInv
<1>1. stage = "construct"
  BY DEF ClassInit, Unprepared
<1>2. SUFFICES ASSUME Encoded PROVE OfClass /\ status = "parsing" /\ Reading
  BY <1>1 DEF FileInv
<1>3. EncodedInit
  BY <1>2 DEF ClassInit, OtherInit, Encoded
<1>4. /\ class \in Classes
      /\ length = Len(File) \/ length \in 0 .. Len(File) - 1
      /\ Start(SubSeq(File, 1, length))
  <2>1. PICK c \in Classes :
          LET bytes == EncodeClass(c) IN
            /\ class = c
            /\ length = Len(bytes) \/ (c \in Truncated /\ length \in 0 .. Len(bytes) - 1)
            /\ Start(SubSeq(bytes, 1, length))
    BY <1>3, Zenon DEF EncodedInit
  <2>2. class = c /\ EncodeClass(c) = File
    BY <2>1, Zenon DEF File
  <2> QED BY <2>1, <2>2, Zenon
<1>5. IsClass(class) /\ class.interfaces = <<>>
  BY <1>4, ClassesAssumption DEF NoInterfaces
<1>6. File \in Bits /\ Len(File) \in Nat
  BY <1>5, FileIsBits
<1>7. /\ data = SubSeq(File, 1, length) /\ pos = 0 /\ at = "header" /\ i = 1 /\ tables = <<>>
      /\ file = NoFile /\ status = "parsing"
  BY <1>4, Zenon DEF Start
<1>8. length \in 0 .. Len(File)
  BY <1>4, <1>6
<1>9. Source
  BY <1>6, <1>7, <1>8 DEF Source
<1>10. pos <= Len(data)
  <2> DEFINE z == Len(data)
  <2>1. z \in Nat
    BY <1>9, DataIsFile
  <2>2. pos = 0
    BY <1>7
  <2> HIDE DEF z
  <2>3. 0 <= z
    BY <2>1
  <2>4. pos <= z
    BY <2>2, <2>3
  <2> QED BY <2>4 DEF z
<1>11. OfClass
  BY <1>5, <1>9, <1>10 DEF OfClass
<1>12. InSection
  BY <1>7 DEF InSection, AtStart
<1>13. FileSoFar
  BY <1>7 DEF FileSoFar, NoFile
<1> QED BY <1>7, <1>11, <1>12, <1>13 DEF Reading

LEMMA OfClassKept ==
  ASSUME OfClass, UNCHANGED <<class, length, data, pos>>
  PROVE  OfClass' /\ File' = File /\ Whole' = Whole
<1>1. pos' = pos /\ data' = data /\ class' = class /\ length' = length
  OBVIOUS
<1>2. pos' \in Nat /\ pos' <= Len(data)
  BY <1>1 DEF OfClass, Source
<1>3. OfClass' /\ File' = File
  BY <1>1, <1>2, SameFile
<1> QED BY <1>1, <1>3 DEF Whole

LEMMA EndOfFile ==
  ASSUME Reading, at = "interfaces"
  PROVE  pos = Len(File)
<1>1. OfClass /\ InSection
  BY DEF Reading
<1>2. AtEnd
  BY <1>1 DEF InSection, AtStart, InConstants, InTables, Tables
<1>3. pos \in Nat /\ pos + Len(<<>>) = Len(File)
  BY <1>2, Zenon DEF AtEnd, Remains
<1> QED BY <1>3

LEMMA NextFile == ASSUME FileInv, [ClassNext]_classVars PROVE FileInv'
<1>1. class' = class /\ length' = length
  BY DEF ClassNext, classVars
<1>2. Encoded' = Encoded
  BY <1>1 DEF Encoded
<1>3. CASE UNCHANGED classVars
  <2>1. UNCHANGED <<class, length, data, pos, at, i, pool, tables, file, status, stage>>
    BY <1>3 DEF classVars, klassVars, vars, prepVars
  <2>2. OfClass => OfClass' /\ File' = File /\ Whole' = Whole
    BY <2>1, OfClassKept
  <2>3. Reading => Reading'
    BY <2>1, ReadingKept
  <2> QED BY <1>2, <2>1, <2>2, <2>3 DEF FileInv
<1>4. CASE parseClass
  <2>1. parse /\ stage' = stage
    BY <1>4 DEF parseClass, prepVars
  <2>2. status = "parsing"
    BY <2>1, ParseStatus
  <2>3. stage = "construct" /\ stage' = "construct"
    BY <2>1, <2>2 DEF FileInv
  <2>4. SUFFICES ASSUME Encoded
                 PROVE  /\ OfClass'
                        /\ status' = "thrown" => ~Whole'
                        /\ status' # "thrown" => Reading'
                        /\ status' = "returned" => at' = "interfaces" /\ pos' = Len(File')
    BY <1>2, <2>3 DEF FileInv
  <2>5. OfClass /\ Reading
    BY <2>2, <2>3, <2>4 DEF FileInv
  <2>6. \/ status' = status /\ Reading'
        \/ status' = "returned" /\ Reading' /\ at' = "interfaces"
        \/ status' = "thrown" /\ ~Whole /\ UNCHANGED <<data, pos>>
    BY <1>1, <2>1, <2>5, ParseStepOf
  <2>7. CASE status' = status /\ Reading'
    <3>1. OfClass'
      BY <2>7 DEF Reading
    <3> QED BY <2>2, <2>7, <3>1
  <2>8. CASE status' = "returned" /\ Reading' /\ at' = "interfaces"
    <3>1. OfClass'
      BY <2>8 DEF Reading
    <3>2. (Reading /\ at = "interfaces" => pos = Len(File))'
      BY EndOfFile, PTL
    <3> QED BY <2>8, <3>1, <3>2
  <2>9. CASE status' = "thrown" /\ ~Whole /\ UNCHANGED <<data, pos>>
    <3>1. OfClass' /\ Whole' = Whole
      BY <1>1, <2>5, <2>9, OfClassKept
    <3> QED BY <2>9, <3>1
  <2> QED BY <2>6, <2>7, <2>8, <2>9
<1>5. CASE prepareClass
  <2>1. status = "returned" /\ prepare /\ UNCHANGED <<data, pos, at, status>>
    BY <1>5 DEF prepareClass, cursorVars
  <2>2. stage' # "construct"
    BY <2>1 DEF prepare, Stop, Construct, NoClassName, StringThrows, PrepareConstant, PrepareWideConstant,
       WideConstantAtEnd, AtConstant, EndPool, MethodThrows, AtMethod, PrepareMethod,
       PrepareMethodWithoutCode, EndMethods, FieldThrows, AtField, PrepareField, EndFields
  <2>3. OfClass => OfClass' /\ File' = File /\ Whole' = Whole
    BY <1>1, <2>1, OfClassKept
  <2> QED BY <1>2, <2>1, <2>2, <2>3 DEF FileInv
<1> QED BY <1>3, <1>4, <1>5 DEF ClassNext, define

-----------------------------------------------------------------------------
(* What parse() has read. *)

(* Members as they are read, b, and as they are described, s. *)
MembersRead(b, s) ==
  /\ IsTable(b) /\ Len(b) = Len(s)
  /\ \A k \in 1 .. Len(s) : ReadAsMember(b[k], s[k])

LEMMA MembersAreOf ==
  ASSUME NEW s, IsTable(s), NEW b, MembersRead(b, s)
  PROVE  MembersOf(b) = s
<1>1. s = [k \in 1 .. Len(s) |-> s[k]] /\ DOMAIN b = 1 .. Len(s)
  BY TableFacts DEF MembersRead
<1>2. \A k \in 1 .. Len(s) : MemberOf(b[k]) = s[k]
  BY Zenon DEF MembersRead, ReadAsMember
<1>3. MembersOf(b) = [k \in 1 .. Len(s) |-> MemberOf(b[k])]
  BY <1>1, Zenon DEF MembersOf
<1>4. [k \in 1 .. Len(s) |-> MemberOf(b[k])] = [k \in 1 .. Len(s) |-> s[k]]
  BY <1>2, Zenon
<1> QED BY <1>1, <1>3, <1>4, Zenon

LEMMA MembersFromTable ==
  ASSUME NEW of \in {"fields", "methods"}, NEW b, NEW s, IsTable(s), TableRead(of, b, s, Len(s))
  PROVE  MembersRead(b, s)
<1>1. Nulls(of, s) = 0 /\ Len(s) \in Nat
  BY TableFacts DEF Nulls
<1>2. IsTable(b) /\ Len(b) = 0 + Len(s) /\ \A k \in 1 .. Len(s) : ElementRead(of, b[0 + k], s[k])
  BY <1>1, Zenon DEF TableRead
<1>3. Len(b) = Len(s)
  BY <1>1, <1>2
<1>4. \A k \in 1 .. Len(s) : ReadAsMember(b[k], s[k])
  <2> SUFFICES ASSUME NEW k \in 1 .. Len(s) PROVE ReadAsMember(b[k], s[k])
    OBVIOUS
  <2>1. 0 + k = k
    BY <1>1
  <2>2. ElementRead(of, b[k], s[k])
    BY <1>2, <2>1
  <2> QED BY <2>2 DEF ElementRead
<1> QED BY <1>2, <1>3, <1>4, Zenon DEF MembersRead

LEMMA AttributesFromTable ==
  ASSUME NEW b, NEW s, IsTable(s), TableRead("attributes", b, s, Len(s))
  PROVE  AttributesRead(b, s, Len(s))
<1>1. Nulls("attributes", s) = Len(s)
  BY DEF Nulls
<1>2. /\ IsTable(b) /\ Len(b) = Len(s) + Len(s)
      /\ \A k \in 1 .. Len(s) : b[k] = NullAttribute
      /\ \A k \in 1 .. Len(s) : ElementRead("attributes", b[Len(s) + k], s[k])
  BY <1>1, Zenon DEF TableRead
<1>3. \A k \in 1 .. Len(s) : AttributeRead(b[Len(s) + k], s[k])
  BY <1>2, Zenon DEF ElementRead
<1> QED BY <1>2, <1>3, Zenon DEF AttributesRead

(* What parse() has read when it is at its last section. *)
LEMMA FileRead ==
  ASSUME Reading, at = "interfaces"
  PROVE  /\ pool = PoolOf(class.constants)
         /\ file.version = class.version
         /\ file.access_flags = class.access_flags
         /\ file.this_class_index = class.this_class_index
         /\ file.super_class_index = class.super_class_index
         /\ file.interfaces = class.interfaces
         /\ MembersRead(file.fields, class.fields)
         /\ MembersRead(file.methods, class.methods)
         /\ AttributesRead(file.attributes, class.attributes, Len(class.attributes))
<1>1. OfClass /\ InSection /\ FileSoFar
  BY DEF Reading
<1>2. AtEnd
  BY <1>1 DEF InSection, AtStart, InConstants, InTables, Tables
<1>3. IsTable(class.fields) /\ IsTable(class.methods) /\ IsTable(class.attributes)
  BY <1>1 DEF OfClass, IsClass
<1>4. /\ TableRead("fields", file.fields, class.fields, Len(class.fields))
      /\ TableRead("methods", file.methods, class.methods, Len(class.methods))
      /\ TableRead("attributes", file.attributes, class.attributes, Len(class.attributes))
      /\ file.version = class.version
      /\ file.access_flags = class.access_flags
      /\ file.this_class_index = class.this_class_index
      /\ file.super_class_index = class.super_class_index
      /\ file.interfaces = <<>>
  BY <1>1 DEF FileSoFar
<1>5. class.interfaces = <<>> /\ pool = PoolOf(class.constants)
  BY <1>1, <1>2 DEF OfClass, AtEnd
<1>6. MembersRead(file.fields, class.fields) /\ MembersRead(file.methods, class.methods)
  BY <1>3, <1>4, MembersFromTable
<1>7. AttributesRead(file.attributes, class.attributes, Len(class.attributes))
  BY <1>3, <1>4, AttributesFromTable
<1> QED BY <1>4, <1>5, <1>6, <1>7

LEMMA ReturnedWhole ==
  ASSUME FileInv, Encoded, status = "returned"
  PROVE  Whole /\ pos = Len(data)
<1>1. OfClass /\ pos = Len(File)
  BY DEF FileInv
<1>2. Source /\ IsClass(class) /\ class.interfaces = <<>> /\ pos <= Len(data)
  BY <1>1 DEF OfClass
<1>3. Len(File) \in Nat
  BY <1>2, FileIsBits
<1>4. Len(data) = length /\ length \in 0 .. Len(File)
  BY <1>2, DataIsFile DEF Source
<1> DEFINE y == Len(File)
           z == Len(data)
<1>5. y \in Nat /\ z = length /\ z \in 0 .. y /\ pos = y /\ pos <= z
  BY <1>1, <1>2, <1>3, <1>4
<1> HIDE DEF y, z
<1>6. z = y
  BY <1>5
<1>7. length = y /\ pos = z
  BY <1>5, <1>6
<1> QED BY <1>7 DEF Whole, File, y, z

LEMMA FileRoundTrips == ASSUME FileInv PROVE RoundTrip
<1> SUFFICES ASSUME Encoded, status = "returned", stage = "construct"
             PROVE  /\ pool = PoolOf(class.constants)
                    /\ file.version = class.version
                    /\ file.access_flags = class.access_flags
                    /\ file.this_class_index = class.this_class_index
                    /\ file.super_class_index = class.super_class_index
                    /\ file.interfaces = class.interfaces
                    /\ MembersOf(file.fields) = class.fields
                    /\ MembersOf(file.methods) = class.methods
                    /\ AttributesOf(file.attributes) = class.attributes
                    /\ pos = Len(data)
  BY DEF RoundTrip
<1>1. Reading /\ at = "interfaces"
  BY DEF FileInv
<1>2. IsClass(class)
  BY <1>1 DEF Reading, OfClass
<1>3. IsTable(class.fields) /\ IsTable(class.methods) /\ IsTable(class.attributes)
  BY <1>2 DEF IsClass
<1>4. MembersOf(file.fields) = class.fields /\ MembersOf(file.methods) = class.methods
  <2>1. MembersRead(file.fields, class.fields) /\ MembersRead(file.methods, class.methods)
    BY <1>1, FileRead
  <2> QED BY <1>3, <2>1, MembersAreOf
<1>5. AttributesOf(file.attributes) = class.attributes
  <2> DEFINE s == class.attributes
  <2>1. \A k \in 1 .. Len(s) : s[k].kind # "null"
    <3>1. \A k \in 1 .. Len(s) : s[k] \in Range(s)
      BY <1>3, TableFacts
    <3>2. \A k \in 1 .. Len(s) : IsFlat(class.constants, s[k])
      BY <1>2, <3>1 DEF IsClass
    <3> QED BY <3>2, FlatKinds
  <2>2. AttributesRead(file.attributes, s, Len(s))
    BY <1>1, FileRead
  <2>3. IsTable(s)
    BY <1>3
  <2> HIDE DEF s
  <2>4. AttributesOf(file.attributes) = s
    BY <2>1, <2>2, <2>3, AttributesAreOf
  <2> QED BY <2>4 DEF s
<1>6. pos = Len(data)
  BY ReturnedWhole
<1> QED BY <1>1, <1>4, <1>5, <1>6, FileRead

(* Whatever a class holds, as long as it implements no interfaces: what    *)
(* parse() returns for its encoding is that class, every constant at its   *)
(* index, every member and attribute in order, and no byte left over.      *)
THEOREM ParserInvertsEncoder ==
  ASSUME NoInterfaces PROVE ClassSpec => []RoundTrip
<1>1. FileInv => RoundTrip
  BY FileRoundTrips
<1>2. ClassInit => FileInv
  BY InitFile
<1>3. FileInv /\ [ClassNext]_classVars => FileInv'
  BY NextFile
<1> QED BY <1>1, <1>2, <1>3, PTL DEF ClassSpec

(* parse() never throws for the whole encoding of such a class, and never  *)
(* returns for one that was cut off, wherever the cut is.                  *)
THEOREM OnlyWholeFilesAreParsed ==
  ASSUME NoInterfaces PROVE ClassSpec => []AcceptsWholeFilesOnly
<1>1. FileInv => AcceptsWholeFilesOnly
  <2> SUFFICES ASSUME FileInv PROVE AcceptsWholeFilesOnly
    OBVIOUS
  <2>1. Encoded /\ status = "returned" => Whole
    BY ReturnedWhole
  <2>2. Encoded /\ status = "thrown" => ~Whole
    BY DEF FileInv
  <2> QED BY <2>1, <2>2 DEF AcceptsWholeFilesOnly
<1>2. ClassInit => FileInv
  BY InitFile
<1>3. FileInv /\ [ClassNext]_classVars => FileInv'
  BY NextFile
<1> QED BY <1>1, <1>2, <1>3, PTL DEF ClassSpec

-----------------------------------------------------------------------------
(* The preparation of a class, phase by phase.                             *)

InfosFilled(n) ==
  \A k \in 1 .. n - 1 : infos[IndexOf(class.constants, k)] = RuntimeInfo(class.constants[k])

(* A prepared method, p, of one that is described as m in a class with the *)
(* constants cs.                                                           *)
NamedAs(p, m, cs) ==
  /\ p.access_flags = m.access_flags
  /\ p.name = PoolOf(cs)[m.name_index].bytes
  /\ p.descriptor = PoolOf(cs)[m.descriptor_index].bytes
CodedAs(p, m) ==
  IF HasCode(m)
    THEN \E k \in DOMAIN m.attributes :
           /\ m.attributes[k].kind = "Code"
           /\ p.code = m.attributes[k].code
           /\ p.max_stack = m.attributes[k].max_stack /\ p.max_locals = m.attributes[k].max_locals
    ELSE p.code = <<>>
PreparedAs(p, m, cs) == NamedAs(p, m, cs) /\ CodedAs(p, m)
MethodsDone(n) ==
  /\ IsTable(methods) /\ Len(methods) = n - 1
  /\ \A k \in 1 .. n - 1 : PreparedAs(methods[k], class.methods[k], class.constants)

(* The code of a method stays in the file until the method is prepared. *)
MethodsLeft(n) ==
  /\ DOMAIN file.methods = 1 .. Len(class.methods)
  /\ \A k \in n .. Len(class.methods) : ReadAsMember(file.methods[k], class.methods[k])

InPool ==
  /\ stage = "pool" /\ DOMAIN infos = DOMAIN pool
  /\ \E k \in 1 .. Len(class.constants) + 1 : x = IndexOf(class.constants, k) /\ InfosFilled(k)
  /\ methods = <<>> /\ MethodsLeft(1)
InMethods ==
  /\ stage = "methods" /\ InfosFilled(Len(class.constants) + 1)
  /\ x \in 1 .. Len(class.methods) + 1 /\ MethodsDone(x) /\ MethodsLeft(x)
InFields ==
  /\ stage \in {"fields", "prepared"} /\ InfosFilled(Len(class.constants) + 1)
  /\ MethodsDone(Len(class.methods) + 1)

FromParser ==
  /\ pool = PoolOf(class.constants) /\ DOMAIN file = DOMAIN NoFile
  /\ MembersRead(file.fields, class.fields)
Preparing == IsClass(class) /\ FromParser /\ (InPool \/ InMethods \/ InFields)

LEMMA NoCodeFlags ==
  ASSUME NEW m, m.access_flags \in Nat
  PROVE  NeedsCode(m) <=> HasCode(m)
<1> DEFINE f == m.access_flags
<1>1. f \in Nat
  OBVIOUS
<1> HIDE DEF f
<1>2. (f \div 256) % 2 = 1 <=> ~(f % 512 < 256)
  BY <1>1
<1>3. (f \div 1024) % 2 = 1 <=> ~(f % 2048 < 1024)
  BY <1>1
<1> QED BY <1>2, <1>3 DEF NeedsCode, HasCode, Has, NATIVE, ABSTRACT, f

LEMMA SameFlags ==
  ASSUME NEW p, NEW m, p.access_flags = m.access_flags
  PROVE  NeedsCode(p) <=> NeedsCode(m)
BY DEF NeedsCode

(* The members of a class are named. *)
LEMMA MembersNamed ==
  ASSUME IsClass(class), pool = PoolOf(class.constants),
         NEW m, IsMember(class.constants, m), NEW p, ReadAsMember(p, m)
  PROVE  Named(p)
<1>1. Len(class.constants) \in Nat /\ DOMAIN class.constants = 1 .. Len(class.constants)
  BY ClassIs
<1>2. IsText(class.constants, m.name_index) /\ IsText(class.constants, m.descriptor_index)
  BY DEF IsMember
<1>3. IsUtf8(m.name_index) /\ IsUtf8(m.descriptor_index)
  BY <1>1, <1>2, NameFound
<1>4. p.name_index = m.name_index /\ p.descriptor_index = m.descriptor_index
  BY DEF ReadAsMember
<1> QED BY <1>3, <1>4 DEF Named

LEMMA ClassNamed ==
  ASSUME IsClass(class), pool = PoolOf(class.constants)
  PROVE  IsClassName(class.this_class_index)
<1> DEFINE cs == class.constants
<1>1. Len(cs) \in Nat /\ DOMAIN cs = 1 .. Len(cs)
  BY ClassIs
<1>2. PICK k \in DOMAIN cs : /\ IndexOf(cs, k) = class.this_class_index
                             /\ cs[k].tag = 7 /\ IsText(cs, cs[k].index[1])
  BY DEF IsClass
<1> HIDE DEF cs
<1>3. /\ IndexOf(cs, k) \in 1 .. PoolCount(cs) - 1 /\ PoolOf(cs)[IndexOf(cs, k)] = cs[k]
      /\ DOMAIN PoolOf(cs) = 0 .. PoolCount(cs) - 1 /\ PoolCount(cs) \in Nat
  BY <1>1, <1>2, PoolFacts
<1>4. IsUtf8(cs[k].index[1])
  BY <1>1, <1>2, NameFound DEF cs
<1> DEFINE n == class.this_class_index
<1>5. n # 0 /\ n \in DOMAIN pool /\ pool[n] = cs[k]
  BY <1>2, <1>3 DEF cs
<1> HIDE DEF n
<1>6. IsClassName(n)
  BY <1>2, <1>4, <1>5 DEF IsClassName
<1> QED BY <1>6 DEF n

(* The loop over the pool is at a constant of the class.                   *)
LEMMA AtConstantOf ==
  ASSUME IsClass(class), pool = PoolOf(class.constants),
         NEW k \in 1 .. Len(class.constants) + 1, x = IndexOf(class.constants, k)
  PROVE  /\ x \in DOMAIN pool <=> k # Len(class.constants) + 1
         /\ k # Len(class.constants) + 1 =>
              /\ k \in 1 .. Len(class.constants) /\ pool[x] = class.constants[k]
              /\ class.constants[k].tag = 8 => IsUtf8(class.constants[k].index[1])
              /\ IndexOf(class.constants, k + 1) = x + Steps(class.constants[k])
              /\ class.constants[k].tag \in EightBytes => x + 1 \in DOMAIN pool
              /\ \A j \in 1 .. k - 1 : IndexOf(class.constants, j) < x
<1> DEFINE cs == class.constants
           C == PoolCount(cs)
<1>1. Len(cs) \in Nat /\ DOMAIN cs = 1 .. Len(cs) /\ \A j \in 1 .. Len(cs) : IsConstant(cs, cs[j])
  BY ClassIs
<1>2. k \in 1 .. Len(cs) + 1 /\ x = IndexOf(cs, k) /\ pool = PoolOf(cs)
  OBVIOUS
<1>3. /\ C \in Nat /\ DOMAIN PoolOf(cs) = 0 .. C - 1
      /\ \A n \in 1 .. Len(cs) :
           /\ IndexOf(cs, n) \in 1 .. C - 1
           /\ IndexOf(cs, n + 1) = IndexOf(cs, n) + Steps(cs[n])
           /\ IndexOf(cs, n + 1) \in 1 .. C
           /\ PoolOf(cs)[IndexOf(cs, n)] = cs[n]
  BY <1>1, PoolFacts
<1>4. C = IndexOf(cs, Len(cs) + 1)
  BY DEF PoolCount
<1> HIDE DEF cs, C
<1>5. CASE k = Len(cs) + 1
  <2>1. x = C
    BY <1>2, <1>4, <1>5
  <2>2. x \notin DOMAIN pool
    BY <1>2, <1>3, <2>1
  <2> QED BY <1>5, <2>2 DEF cs
<1>6. CASE k # Len(cs) + 1
  <2>1. k \in 1 .. Len(cs)
    BY <1>1, <1>2, <1>6
  <2>2. /\ x \in 1 .. C - 1 /\ IndexOf(cs, k + 1) = x + Steps(cs[k]) /\ IndexOf(cs, k + 1) \in 1 .. C
        /\ pool[x] = cs[k]
    BY <1>2, <1>3, <2>1
  <2>3. x \in DOMAIN pool
    BY <1>2, <1>3, <2>2
  <2>4. cs[k].tag = 8 => IsUtf8(cs[k].index[1])
    <3>1. cs[k].tag = 8 => IsText(cs, cs[k].index[1])
      BY <1>1, <2>1 DEF IsConstant
    <3> QED BY <1>1, <1>2, <3>1, NameFound
  <2>5. cs[k].tag \in EightBytes => x + 1 \in DOMAIN pool
    <3>1. cs[k].tag \in EightBytes => Steps(cs[k]) = 2
      BY DEF Steps
    <3> QED BY <1>2, <1>3, <2>2, <3>1
  <2>6. \A j \in 1 .. k - 1 : IndexOf(cs, j) < x
    <3> SUFFICES ASSUME NEW j \in 1 .. k - 1 PROVE IndexOf(cs, j) < x
      OBVIOUS
    <3>1. j \in Nat \ {0} /\ k \in Nat /\ j < k
      BY <2>1
    <3>2. IndexOf(cs, j) + Steps(cs[j]) <= IndexOf(cs, k)
      BY <3>1, IndexGrows
    <3>3. IndexOf(cs, j) \in Nat \ {0}
      BY <3>1, IndexSteps
    <3>4. Steps(cs[j]) \in {1, 2}
      BY DEF Steps
    <3> QED BY <1>2, <2>2, <3>2, <3>3, <3>4
  <2> QED BY <1>6, <2>1, <2>2, <2>3, <2>4, <2>5, <2>6 DEF cs
<1> QED BY <1>5, <1>6 DEF cs

LEMMA FromParserKept ==
  ASSUME FromParser, UNCHANGED <<class, pool, file>>
  PROVE  FromParser'
<1>1. class' = class /\ pool' = pool /\ file' = file
  OBVIOUS
<1> QED BY <1>1 DEF FromParser

LEMMA LeftKept ==
  ASSUME NEW n, UNCHANGED <<class, file>>
  PROVE  MethodsLeft(n) => MethodsLeft(n)'
<1>1. class' = class /\ file' = file
  OBVIOUS
<1> QED BY <1>1 DEF MethodsLeft

(* A constant, wide or not, gets its entry. *)
LEMMA ConstantPrepared ==
  ASSUME IsClass(class), FromParser, InPool, UNCHANGED class, PrepareConstant \/ PrepareWideConstant
  PROVE  InPool'
<1> DEFINE cs == class.constants
<1>1. PICK k \in 1 .. Len(cs) + 1 : x = IndexOf(cs, k) /\ InfosFilled(k)
  BY DEF InPool
<1>2. AtConstant /\ UNCHANGED <<pool, file, stage, methods>> /\ class' = class
  BY DEF PrepareConstant, PrepareWideConstant
<1>3. x \in DOMAIN pool /\ pool = PoolOf(cs)
  BY <1>2 DEF AtConstant, FromParser
<1>4. /\ k \in 1 .. Len(cs) /\ pool[x] = cs[k]
      /\ IndexOf(cs, k + 1) = x + Steps(cs[k])
      /\ cs[k].tag \in EightBytes => x + 1 \in DOMAIN pool
      /\ \A j \in 1 .. k - 1 : IndexOf(cs, j) < x
  BY <1>1, <1>3, AtConstantOf
<1>5. x \in Nat /\ Len(cs) \in Nat /\ \A j \in 1 .. k - 1 : IndexOf(cs, j) \in Nat
  <2>1. \A j \in Nat \ {0} : IndexOf(cs, j) \in Nat \ {0}
    BY IndexSteps, Zenon
  <2>2. Len(cs) \in Nat
    BY ClassIs
  <2>3. k \in Nat \ {0} /\ \A j \in 1 .. k - 1 : j \in Nat \ {0}
    BY <1>4, <2>2
  <2> QED BY <1>1, <2>1, <2>2, <2>3
<1>6. \A c : RuntimeInfo(c)' = RuntimeInfo(c)
  BY <1>2 DEF RuntimeInfo, Utf8At
<1>7. DOMAIN infos = DOMAIN pool /\ \A j \in 1 .. k - 1 : infos[IndexOf(cs, j)] = RuntimeInfo(cs[j])
  BY <1>1 DEF InPool, InfosFilled
<1> DEFINE R == RuntimeInfo(cs[k])
<1>8. /\ DOMAIN infos' = DOMAIN infos /\ infos'[x] = R /\ x' = IndexOf(cs, k + 1)
      /\ \A j \in Nat : j < x => infos'[j] = infos[j]
  <2>1. CASE PrepareConstant
    <3>1. infos' = [infos EXCEPT ![x] = R] /\ x' = x + 1 /\ cs[k].tag \notin EightBytes
      BY <1>4, <2>1 DEF PrepareConstant
    <3>2. Steps(cs[k]) = 1
      BY <3>1 DEF Steps
    <3> HIDE DEF R, cs
    <3> QED BY <1>3, <1>4, <1>5, <1>7, <3>1, <3>2
  <2>2. CASE PrepareWideConstant
    <3>1. infos' = [infos EXCEPT ![x] = R, ![x + 1] = Empty] /\ x' = x + 2 /\ cs[k].tag \in EightBytes
      BY <1>4, <2>2 DEF PrepareWideConstant
    <3>2. Steps(cs[k]) = 2
      BY <3>1 DEF Steps
    <3> DEFINE once == [infos EXCEPT ![x] = R]
               y == x + 1
    <3>3. infos' = [once EXCEPT ![y] = Empty]
      BY <3>1
    <3>4. y \in Nat /\ x < y
      BY <1>5
    <3> HIDE DEF R, cs, y
    <3>5. DOMAIN once = DOMAIN infos /\ once[x] = R /\ \A j \in Nat : j < x => once[j] = infos[j]
      BY <1>3, <1>5, <1>7
    <3> HIDE DEF once
    <3>6. DOMAIN infos' = DOMAIN once /\ infos'[x] = once[x] /\ \A j \in Nat : j < x => infos'[j] = once[j]
      BY <1>3, <1>5, <1>7, <3>3, <3>4, <3>5
    <3>7. x' = IndexOf(cs, k + 1)
      BY <1>4, <3>1, <3>2
    <3> QED BY <3>5, <3>6, <3>7
  <2> QED BY <2>1, <2>2
<1>9. \A j \in 1 .. k : infos'[IndexOf(cs, j)] = RuntimeInfo(cs[j])
  <2> SUFFICES ASSUME NEW j \in 1 .. k PROVE infos'[IndexOf(cs, j)] = RuntimeInfo(cs[j])
    OBVIOUS
  <2>1. CASE j = k
    BY <1>1, <1>8, <2>1
  <2>2. CASE j # k
    <3>1. j \in 1 .. k - 1
      BY <1>4, <1>5, <2>2
    <3> HIDE DEF cs
    <3> QED BY <1>4, <1>5, <1>7, <1>8, <3>1
  <2> QED BY <2>1, <2>2
<1>10. (k + 1) - 1 = k /\ k + 1 \in 1 .. Len(cs) + 1
  BY <1>4, <1>5
<1>11. InfosFilled(k + 1)'
  BY <1>2, <1>6, <1>9, <1>10 DEF InfosFilled
<1>12. MethodsLeft(1)' /\ methods' = <<>>
  BY <1>2, LeftKept DEF InPool
<1> QED BY <1>2, <1>7, <1>8, <1>10, <1>11, <1>12 DEF InPool

LEMMA EndOfPool ==
  ASSUME IsClass(class), FromParser, InPool, UNCHANGED class, EndPool
  PROVE  InMethods'
<1> DEFINE cs == class.constants
<1>1. PICK k \in 1 .. Len(cs) + 1 : x = IndexOf(cs, k) /\ InfosFilled(k)
  BY DEF InPool
<1>2. x \notin DOMAIN pool /\ stage' = "methods" /\ x' = 1 /\ UNCHANGED <<pool, file, infos, methods>> /\ class' = class
  BY DEF EndPool
<1>3. k = Len(cs) + 1
  BY <1>1, <1>2, AtConstantOf DEF FromParser
<1>4. InfosFilled(Len(cs) + 1)'
  <2>1. InfosFilled(Len(cs) + 1)
    BY <1>1, <1>3
  <2>2. \A c : RuntimeInfo(c)' = RuntimeInfo(c)
    BY <1>2 DEF RuntimeInfo, Utf8At
  <2> QED BY <1>2, <2>1, <2>2 DEF InfosFilled
<1>5. MethodsLeft(1)'
  BY <1>2, LeftKept DEF InPool
<1>6. Len(class.methods) \in Nat
  BY TableFacts DEF IsClass
<1>7. MethodsDone(1)'
  <2>1. methods' = <<>>
    BY <1>2 DEF InPool
  <2>2. IsTable(<<>>)
    <3> DEFINE e == <<>>
    <3>1. e \in Seq({})
      OBVIOUS
    <3> HIDE DEF e
    <3>2. IsTable(e)
      BY <3>1, SeqIsTable
    <3> QED BY <3>2 DEF e
  <2>3. Len(<<>>) = 1 - 1 /\ \A j \in 1 .. 1 - 1 : FALSE
    OBVIOUS
  <2> QED BY <2>1, <2>2, <2>3 DEF MethodsDone
<1>8. 1 \in 1 .. Len(class.methods) + 1
  BY <1>6
<1> QED BY <1>2, <1>4, <1>5, <1>7, <1>8 DEF InMethods

(* No constant of a class stops the loop over the pool.                    *)
LEMMA NoConstantStops ==
  ASSUME IsClass(class), FromParser, InPool
  PROVE  ~StringThrows /\ ~WideConstantAtEnd
<1> DEFINE cs == class.constants
<1>1. PICK k \in 1 .. Len(cs) + 1 : x = IndexOf(cs, k)
  BY DEF InPool
<1>2. ASSUME AtConstant
      PROVE  /\ pool[x].tag = 8 => IsUtf8(pool[x].index[1])
             /\ pool[x].tag \in EightBytes => x + 1 \in DOMAIN pool
  <2>1. x \in DOMAIN pool
    BY <1>2 DEF AtConstant
  <2> QED BY <1>1, <2>1, AtConstantOf DEF FromParser
<1> QED BY <1>2 DEF StringThrows, WideConstantAtEnd

(* The Code attribute that the preparation takes from a method.            *)
LEMMA CodeTaken ==
  ASSUME NEW cs, NEW m, IsMember(cs, m), NEW p, ReadAsMember(p, m)
  PROVE  /\ (\E a \in Range(m.attributes) : a.kind = "Code") => CodesOf(p) # {}
         /\ CodesOf(p) # {} =>
              \E k \in DOMAIN m.attributes :
                /\ m.attributes[k].kind = "Code"
                /\ p.attributes[FirstCode(p)].code = m.attributes[k].code
                /\ p.attributes[FirstCode(p)].max_stack = m.attributes[k].max_stack
                /\ p.attributes[FirstCode(p)].max_locals = m.attributes[k].max_locals
<1> DEFINE s == m.attributes
           b == p.attributes
           n == Len(s)
<1>1. IsTable(s) /\ n \in Nat /\ DOMAIN s = 1 .. n
  BY MemberIs, TableFacts
<1>2. AttributesRead(b, s, Len(s))
  BY DEF ReadAsMember
<1>3. /\ IsTable(b) /\ Len(b) = n + n
      /\ \A k \in 1 .. n : b[k].kind = "null"
      /\ \A k \in 1 .. n : AttributeRead(b[n + k], s[k])
  BY <1>2 DEF AttributesRead, NullAttribute
<1>4. DOMAIN b = 1 .. n + n
  BY <1>3, TableFacts
<1>5. \A k \in 1 .. n : b[n + k].kind = s[k].kind
  BY <1>3 DEF AttributeRead
<1>6. CodesOf(p) = {j \in DOMAIN b : b[j].kind = "Code"}
  BY DEF CodesOf
<1>7. ASSUME \E a \in Range(s) : a.kind = "Code" PROVE CodesOf(p) # {}
  <2>1. PICK a \in Range(s) : a.kind = "Code"
    BY <1>7
  <2>2. PICK k \in 1 .. n : a = s[k]
    BY <1>1, <2>1 DEF Range
  <2> HIDE DEF n, s, b
  <2>3. n + k \in 1 .. n + n
    BY <1>1, <2>2
  <2>4. b[n + k].kind = "Code"
    BY <1>5, <2>1, <2>2
  <2> QED BY <1>4, <1>6, <2>3, <2>4
<1>8. ASSUME CodesOf(p) # {}
      PROVE  \E k \in DOMAIN s : /\ s[k].kind = "Code"
                                 /\ b[FirstCode(p)].code = s[k].code
                                 /\ b[FirstCode(p)].max_stack = s[k].max_stack
                                 /\ b[FirstCode(p)].max_locals = s[k].max_locals
  <2> DEFINE T == CodesOf(p)
             j == FirstCode(p)
  <2>1. T \in SUBSET Nat /\ T # {}
    BY <1>1, <1>4, <1>6, <1>8
  <2>2. j \in T
    <3>1. j = CHOOSE q \in T : \A k \in T : q <= k
      BY DEF FirstCode
    <3>2. \E q \in T : \A k \in T : q <= k
      <4> HIDE DEF T
      <4> QED BY <2>1, LeastNat
    <3> HIDE DEF T, j
    <3> QED BY <3>1, <3>2
  <2>3. j \in 1 .. n + n /\ b[j].kind = "Code"
    <3>1. \A q \in T : q \in 1 .. n + n /\ b[q].kind = "Code"
      BY <1>4, <1>6
    <3> HIDE DEF T, j
    <3> QED BY <2>2, <3>1
  <2> HIDE DEF j, n, s, b
  <2>4. j \notin 1 .. n
    BY <1>3, <2>3
  <2> DEFINE k == j - n
  <2>5. k \in 1 .. n /\ n + k = j
    BY <1>1, <2>3, <2>4
  <2> HIDE DEF k
  <2>6. AttributeRead(b[j], s[k]) /\ s[k].kind = "Code"
    BY <1>3, <1>5, <2>3, <2>5
  <2>7. b[j].code = s[k].code /\ b[j].max_stack = s[k].max_stack /\ b[j].max_locals = s[k].max_locals
    BY <2>6 DEF AttributeRead
  <2> QED BY <1>1, <2>5, <2>6, <2>7 DEF j
<1> QED BY <1>7, <1>8

(* The method at hand, as it was read and as the class has it. *)
LEMMA MethodAt ==
  ASSUME IsClass(class), pool = PoolOf(class.constants), InMethods, AtMethod
  PROVE  /\ x \in 1 .. Len(class.methods) /\ Len(class.methods) \in Nat
         /\ IsMember(class.constants, class.methods[x])
         /\ ReadAsMember(file.methods[x], class.methods[x])
         /\ Named(file.methods[x])
         /\ NeedsCode(file.methods[x]) <=> HasCode(class.methods[x])
         /\ HasCode(class.methods[x]) => CodesOf(file.methods[x]) # {}
<1> DEFINE m == class.methods[x]
           p == file.methods[x]
<1>1. MethodsLeft(x) /\ x \in DOMAIN file.methods
  BY DEF InMethods, AtMethod
<1>2. Len(class.methods) \in Nat /\ DOMAIN class.methods = 1 .. Len(class.methods)
      /\ \A k \in 1 .. Len(class.methods) : class.methods[k] \in Range(class.methods)
  BY TableFacts DEF IsClass
<1>3. x \in 1 .. Len(class.methods) /\ ReadAsMember(p, m)
  BY <1>1, <1>2 DEF MethodsLeft
<1>4. IsMember(class.constants, m) /\ (HasCode(m) => \E a \in Range(m.attributes) : a.kind = "Code")
  BY <1>2, <1>3 DEF IsClass
<1> HIDE DEF m, p
<1>5. Named(p)
  BY <1>3, <1>4, MembersNamed
<1>6. NeedsCode(p) <=> HasCode(m)
  <2>1. p.access_flags = m.access_flags /\ m.access_flags \in Nat
    BY <1>3, <1>4, MemberIs DEF ReadAsMember
  <2> QED BY <2>1, NoCodeFlags, SameFlags
<1>7. HasCode(m) => CodesOf(p) # {}
  BY <1>3, <1>4, CodeTaken
<1> QED BY <1>2, <1>3, <1>4, <1>5, <1>6, <1>7 DEF m, p

LEMMA OneMoreMethod ==
  ASSUME NEW n \in Nat \ {0}, MethodsDone(n), NEW p, PreparedAs(p, class.methods[n], class.constants),
         UNCHANGED class, methods' = Append(methods, p)
  PROVE  MethodsDone(n + 1)'
<1>1. IsTable(methods) /\ Len(methods) = n - 1 /\ \A k \in 1 .. n - 1 : PreparedAs(methods[k], class.methods[k], class.constants)
  BY DEF MethodsDone
<1> DEFINE u == Append(methods, p)
<1>2. /\ IsTable(u) /\ Len(u) = Len(methods) + 1
      /\ \A k \in 1 .. Len(methods) : u[k] = methods[k]
      /\ u[Len(methods) + 1] = p
  BY <1>1, Appended
<1> HIDE DEF u
<1>3. Len(u) = n /\ u[n] = p /\ \A k \in 1 .. n - 1 : u[k] = methods[k]
  BY <1>1, <1>2
<1>4. \A k \in 1 .. n : PreparedAs(u[k], class.methods[k], class.constants)
  <2> SUFFICES ASSUME NEW k \in 1 .. n PROVE PreparedAs(u[k], class.methods[k], class.constants)
    OBVIOUS
  <2>1. k = n \/ k \in 1 .. n - 1
    OBVIOUS
  <2> QED BY <1>1, <1>3, <2>1
<1>5. (n + 1) - 1 = n /\ methods' = u /\ class' = class
  BY DEF u
<1> QED BY <1>2, <1>3, <1>4, <1>5 DEF MethodsDone

(* Taking the code of a method leaves the others as they are.              *)
LEMMA OneMethodChanged ==
  ASSUME NEW j, DOMAIN file = DOMAIN NoFile, x \in DOMAIN file.methods,
         file' = [file EXCEPT !.methods[x].attributes[j].code = <<>>]
  PROVE  /\ DOMAIN file' = DOMAIN file /\ file'.fields = file.fields
         /\ DOMAIN file'.methods = DOMAIN file.methods
         /\ \A k \in DOMAIN file.methods : k # x => file'.methods[k] = file.methods[k]
<1>1. "methods" \in DOMAIN file /\ "fields" \in DOMAIN file
  BY DEF NoFile
<1> DEFINE v == [file.methods[x] EXCEPT !.attributes[j].code = <<>>]
           u == [file.methods EXCEPT ![x] = v]
<1>2. file' = [file EXCEPT !.methods = u]
  OBVIOUS
<1> HIDE DEF v
<1>3. DOMAIN u = DOMAIN file.methods /\ \A k \in DOMAIN file.methods : k # x => u[k] = file.methods[k]
  OBVIOUS
<1> HIDE DEF u
<1>4. DOMAIN file' = DOMAIN file /\ file'.fields = file.fields /\ file'.methods = u
  BY <1>1, <1>2
<1> QED BY <1>3, <1>4

LEMMA AllInfosKept ==
  ASSUME InfosFilled(Len(class.constants) + 1), UNCHANGED <<class, pool, infos>>
  PROVE  InfosFilled(Len(class.constants) + 1)'
<1>1. class' = class /\ infos' = infos /\ pool' = pool
  OBVIOUS
<1>2. \A c : RuntimeInfo(c)' = RuntimeInfo(c)
  BY <1>1 DEF RuntimeInfo, Utf8At
<1> QED BY <1>1, <1>2 DEF InfosFilled

(* A method is made with the flags and the texts of what was read.         *)
LEMMA NamedByMethod ==
  ASSUME FromParser, NEW m, NEW d, ReadAsMember(m, d), NEW stack, NEW locals, NEW code
  PROVE  NamedAs(Method(m, stack, locals, code), d, class.constants)
<1>1. /\ m.access_flags = d.access_flags /\ m.name_index = d.name_index
      /\ m.descriptor_index = d.descriptor_index
  BY DEF ReadAsMember
<1>2. pool = PoolOf(class.constants)
  BY DEF FromParser
<1>3. \A n : Utf8At(n) = PoolOf(class.constants)[n].bytes
  BY <1>2 DEF Utf8At
<1>4. LET p == Method(m, stack, locals, code)
      IN  /\ p.access_flags = m.access_flags /\ p.name = Utf8At(m.name_index)
          /\ p.descriptor = Utf8At(m.descriptor_index)
  BY DEF Method
<1> QED BY <1>1, <1>3, <1>4 DEF NamedAs

LEMMA MethodStepOf ==
  ASSUME IsClass(class), FromParser, InMethods, UNCHANGED class,
         PrepareMethod \/ PrepareMethodWithoutCode
  PROVE  FromParser' /\ InMethods'
<1> DEFINE d == class.methods[x]
           m == file.methods[x]
           n == Len(class.methods)
<1>1. /\ AtMethod /\ x' = x + 1 /\ UNCHANGED <<pool, stage, infos>> /\ class' = class
      /\ Named(m)
  BY DEF PrepareMethod, PrepareMethodWithoutCode
<1>2. /\ x \in 1 .. n /\ n \in Nat /\ IsMember(class.constants, d) /\ ReadAsMember(m, d)
      /\ NeedsCode(m) <=> HasCode(d)
  BY <1>1, MethodAt DEF FromParser
<1>3. /\ DOMAIN file = DOMAIN NoFile /\ x \in DOMAIN file.methods
      /\ DOMAIN file.methods = 1 .. n
      /\ \A k \in x .. n : ReadAsMember(file.methods[k], class.methods[k])
      /\ MethodsDone(x)
  BY <1>1 DEF FromParser, InMethods, MethodsLeft, AtMethod
<1>4. /\ DOMAIN file' = DOMAIN file /\ file'.fields = file.fields
      /\ DOMAIN file'.methods = DOMAIN file.methods
      /\ \A k \in DOMAIN file.methods : k # x => file'.methods[k] = file.methods[k]
  <2>1. CASE PrepareMethod
    <3>1. file' = [file EXCEPT !.methods[x].attributes[FirstCode(m)].code = <<>>]
      BY <2>1 DEF PrepareMethod
    <3> QED BY <1>3, <3>1, OneMethodChanged
  <2>2. CASE PrepareMethodWithoutCode
    <3>1. file' = file
      BY <2>2 DEF PrepareMethodWithoutCode
    <3> QED BY <3>1
  <2> QED BY <2>1, <2>2
<1>5. \E p : methods' = Append(methods, p) /\ PreparedAs(p, d, class.constants)
  <2>1. CASE PrepareMethod
    <3> DEFINE c == m.attributes[FirstCode(m)]
               p == Method(m, c.max_stack, c.max_locals, c.code)
    <3>1. NeedsCode(m) /\ CodesOf(m) # {} /\ methods' = Append(methods, p)
      BY <2>1, Zenon DEF PrepareMethod
    <3>2. \E k \in DOMAIN d.attributes :
            /\ d.attributes[k].kind = "Code" /\ c.code = d.attributes[k].code
            /\ c.max_stack = d.attributes[k].max_stack /\ c.max_locals = d.attributes[k].max_locals
      BY <1>2, <3>1, CodeTaken
    <3>3. p.code = c.code /\ p.max_stack = c.max_stack /\ p.max_locals = c.max_locals
      BY DEF Method
    <3>4. HasCode(d)
      BY <1>2, <3>1
    <3>5. NamedAs(p, d, class.constants)
      BY <1>2, NamedByMethod
    <3> HIDE DEF p, c, d, m
    <3>6. CodedAs(p, d)
      BY <3>2, <3>3, <3>4 DEF CodedAs
    <3> QED BY <3>1, <3>5, <3>6 DEF PreparedAs
  <2>2. CASE PrepareMethodWithoutCode
    <3> DEFINE p == Method(m, 0, 0, <<>>)
    <3>1. ~NeedsCode(m) /\ methods' = Append(methods, p)
      BY <2>2, Zenon DEF PrepareMethodWithoutCode
    <3>2. p.code = <<>>
      BY DEF Method
    <3>3. ~HasCode(d)
      BY <1>2, <3>1
    <3>4. NamedAs(p, d, class.constants)
      BY <1>2, NamedByMethod
    <3> HIDE DEF p, d, m
    <3>5. CodedAs(p, d)
      BY <3>2, <3>3 DEF CodedAs
    <3> QED BY <3>1, <3>4, <3>5 DEF PreparedAs
  <2> QED BY <2>1, <2>2
<1>6. FromParser'
  BY <1>1, <1>3, <1>4 DEF FromParser
<1>7. MethodsDone(x)'
  <2>1. PICK p : methods' = Append(methods, p) /\ PreparedAs(p, d, class.constants)
    BY <1>5
  <2>2. PICK y : y = x
    OBVIOUS
  <2>3. y \in Nat \ {0} /\ MethodsDone(y) /\ PreparedAs(p, class.methods[y], class.constants) /\ UNCHANGED class
    BY <1>2, <1>3, <2>1, <2>2
  <2>4. MethodsDone(y + 1)'
    BY <2>1, <2>3, OneMoreMethod
  <2>5. x' = y + 1
    BY <1>1, <2>2
  <2> QED BY <2>4, <2>5 DEF MethodsDone
<1>8. MethodsLeft(x)'
  <2>1. \A k \in x + 1 .. n : k \in x .. n /\ k \in 1 .. n /\ k # x
    BY <1>2
  <2>2. \A k \in x + 1 .. n : ReadAsMember(file'.methods[k], class.methods[k])
    BY <1>3, <1>4, <2>1
  <2> QED BY <1>1, <1>3, <1>4, <2>2 DEF MethodsLeft
<1>9. InfosFilled(Len(class.constants) + 1)'
  BY <1>1, AllInfosKept DEF InMethods
<1>10. x' \in 1 .. Len(class'.methods) + 1 /\ stage' = "methods"
  BY <1>1, <1>2 DEF AtMethod
<1> QED BY <1>6, <1>7, <1>8, <1>9, <1>10 DEF InMethods

LEMMA EndOfMethods ==
  ASSUME IsClass(class), FromParser, InMethods, UNCHANGED class, EndMethods
  PROVE  FromParser' /\ InFields'
<1> DEFINE n == Len(class.methods)
<1>1. /\ x \notin DOMAIN file.methods /\ stage' = "fields"
      /\ UNCHANGED <<pool, file, infos, methods>> /\ class' = class
  BY DEF EndMethods
<1>2. n \in Nat /\ x \in 1 .. n + 1 /\ DOMAIN file.methods = 1 .. n /\ MethodsDone(x)
  BY TableFacts DEF IsClass, InMethods, MethodsLeft
<1>3. x = n + 1
  BY <1>1, <1>2
<1>4. MethodsDone(n + 1)
  BY <1>2, <1>3
<1>5. MethodsDone(Len(class.methods) + 1)'
  BY <1>1, <1>4 DEF MethodsDone
<1>6. InfosFilled(Len(class.constants) + 1)'
  BY <1>1, AllInfosKept DEF InMethods
<1>7. FromParser'
  BY <1>1, FromParserKept
<1> QED BY <1>1, <1>5, <1>6, <1>7 DEF InFields

LEMMA NoMethodStops ==
  ASSUME IsClass(class), FromParser, InMethods
  PROVE  ~MethodThrows
<1> SUFFICES ASSUME MethodThrows PROVE FALSE
  OBVIOUS
<1>1. AtMethod /\ LET m == file.methods[x] IN ~Named(m) \/ (NeedsCode(m) /\ CodesOf(m) = {})
  BY DEF MethodThrows
<1> QED BY <1>1, MethodAt DEF FromParser

(* The fields are named, and what came before them stays.                  *)
LEMMA FieldStepOf ==
  ASSUME IsClass(class), FromParser, InFields, UNCHANGED class, PrepareField \/ EndFields
  PROVE  FromParser' /\ InFields'
<1>1. UNCHANGED <<pool, file, infos, methods>> /\ class' = class /\ stage' \in {"fields", "prepared"}
  BY DEF PrepareField, EndFields, AtField
<1>2. MethodsDone(Len(class.methods) + 1)'
  BY <1>1 DEF InFields, MethodsDone
<1>3. InfosFilled(Len(class.constants) + 1)'
  BY <1>1, AllInfosKept DEF InFields
<1>4. FromParser'
  BY <1>1, FromParserKept
<1> QED BY <1>1, <1>2, <1>3, <1>4 DEF InFields

LEMMA NoFieldStops ==
  ASSUME IsClass(class), FromParser
  PROVE  ~FieldThrows
<1> SUFFICES ASSUME FieldThrows PROVE FALSE
  OBVIOUS
<1>1. x \in DOMAIN file.fields /\ ~Named(file.fields[x])
  BY DEF FieldThrows, AtField
<1> DEFINE n == Len(class.fields)
<1>2. /\ n \in Nat /\ DOMAIN class.fields = 1 .. n
      /\ \A k \in 1 .. n : class.fields[k] \in Range(class.fields)
  BY TableFacts DEF IsClass
<1>3. \A k \in 1 .. n : IsMember(class.constants, class.fields[k])
  BY <1>2 DEF IsClass
<1>4. DOMAIN file.fields = 1 .. n /\ \A k \in 1 .. n : ReadAsMember(file.fields[k], class.fields[k])
  BY TableFacts DEF FromParser, MembersRead
<1>5. x \in 1 .. n /\ IsMember(class.constants, class.fields[x]) /\ ReadAsMember(file.fields[x], class.fields[x])
  BY <1>1, <1>3, <1>4
<1> DEFINE m == class.fields[x]
           p == file.fields[x]
<1>6. IsMember(class.constants, m) /\ ReadAsMember(p, m) /\ pool = PoolOf(class.constants)
  BY <1>5 DEF FromParser
<1> HIDE DEF m, p
<1>7. Named(p)
  BY <1>6, MembersNamed
<1> QED BY <1>1, <1>7 DEF p

-----------------------------------------------------------------------------
(* The preparation from its first step to its last. *)

(* The preparation of a class that was encoded. *)
PrepInv ==
  /\ Encoded /\ stage = "construct" => methods = <<>>
  /\ Encoded /\ stage # "construct" => Preparing

ClassInv == FileInv /\ PrepInv

LEMMA ConstructStepOf ==
  ASSUME Reading, at = "interfaces", methods = <<>>, UNCHANGED class, Construct
  PROVE  Preparing'
<1> DEFINE cs == class.constants
<1>1. /\ pool = PoolOf(cs)
      /\ MembersRead(file.fields, class.fields) /\ MembersRead(file.methods, class.methods)
  BY FileRead
<1>2. IsClass(class) /\ DOMAIN file = DOMAIN NoFile
  BY DEF Reading, OfClass, FileSoFar
<1>3. /\ stage' = "pool" /\ x' = 1 /\ infos' = [n \in DOMAIN pool |-> Empty]
      /\ UNCHANGED <<pool, file, methods>> /\ class' = class
  BY DEF Construct
<1>4. FromParser /\ FromParser'
  <2>1. FromParser
    BY <1>1, <1>2 DEF FromParser
  <2> QED BY <1>3, <2>1, FromParserKept
<1>5. MethodsLeft(1)'
  <2>1. DOMAIN file.methods = 1 .. Len(class.methods)
    BY <1>1, TableFacts DEF MembersRead
  <2>2. \A k \in 1 .. Len(class.methods) : ReadAsMember(file.methods[k], class.methods[k])
    BY <1>1 DEF MembersRead
  <2> QED BY <1>3, <2>1, <2>2 DEF MethodsLeft
<1>6. \E k \in 1 .. Len(class'.constants) + 1 : x' = IndexOf(class'.constants, k) /\ InfosFilled(k)'
  <2>1. IndexOf(cs, 1) = 1 /\ Len(cs) \in Nat
    BY <1>2, ClassIs, IndexSteps
  <2>2. 1 \in 1 .. Len(cs) + 1 /\ \A j \in 1 .. 1 - 1 : FALSE
    BY <2>1
  <2>3. InfosFilled(1)'
    BY <2>2 DEF InfosFilled
  <2>4. class'.constants = cs
    BY <1>3
  <2>5. x' = IndexOf(class'.constants, 1)
    BY <1>3, <2>1, <2>4
  <2>6. 1 \in 1 .. Len(class'.constants) + 1
    BY <2>2, <2>4
  <2> QED BY <2>3, <2>5, <2>6
<1>7. DOMAIN infos' = DOMAIN pool'
  BY <1>3
<1>8. InPool'
  BY <1>3, <1>5, <1>6, <1>7 DEF InPool
<1> QED BY <1>2, <1>3, <1>4, <1>8 DEF Preparing

(* A step of the preparation of a class. *)
LEMMA PrepareStepOf ==
  ASSUME Preparing, UNCHANGED class, prepare
  PROVE  Preparing'
<1>1. IsClass(class) /\ FromParser /\ (InPool \/ InMethods \/ InFields)
  BY DEF Preparing
<1>2. class' = class /\ IsClass(class)'
  BY <1>1
<1>3. /\ InPool => stage = "pool"
      /\ InMethods => stage = "methods"
      /\ InFields => stage \in {"fields", "prepared"}
  BY DEF InPool, InMethods, InFields
<1>4. CASE Construct \/ NoClassName
  BY <1>1, <1>3, <1>4 DEF Construct, NoClassName
<1>5. CASE PrepareConstant \/ PrepareWideConstant
  <2>1. stage = "pool"
    BY <1>5 DEF PrepareConstant, PrepareWideConstant, AtConstant
  <2>2. InPool
    BY <1>1, <1>3, <2>1
  <2>3. InPool'
    BY <1>1, <1>5, <2>2, ConstantPrepared
  <2>4. FromParser'
    <3>1. UNCHANGED <<class, pool, file>>
      BY <1>2, <1>5 DEF PrepareConstant, PrepareWideConstant
    <3> QED BY <1>1, <3>1, FromParserKept
  <2> QED BY <1>2, <2>3, <2>4 DEF Preparing
<1>6. CASE StringThrows \/ WideConstantAtEnd
  <2>1. stage = "pool"
    BY <1>6 DEF StringThrows, WideConstantAtEnd, AtConstant
  <2>2. InPool
    BY <1>1, <1>3, <2>1
  <2> QED BY <1>1, <1>6, <2>2, NoConstantStops
<1>7. CASE EndPool
  <2>1. InPool
    BY <1>1, <1>3, <1>7 DEF EndPool
  <2>2. InMethods'
    BY <1>1, <1>7, <2>1, EndOfPool
  <2>3. FromParser'
    <3>1. UNCHANGED <<class, pool, file>>
      BY <1>2, <1>7 DEF EndPool
    <3> QED BY <1>1, <3>1, FromParserKept
  <2> QED BY <1>2, <2>2, <2>3 DEF Preparing
<1>8. CASE PrepareMethod \/ PrepareMethodWithoutCode
  <2>1. InMethods
    BY <1>1, <1>3, <1>8 DEF PrepareMethod, PrepareMethodWithoutCode, AtMethod
  <2>2. FromParser' /\ InMethods'
    BY <1>1, <1>8, <2>1, MethodStepOf
  <2> QED BY <1>2, <2>2 DEF Preparing
<1>9. CASE MethodThrows
  <2>1. InMethods
    BY <1>1, <1>3, <1>9 DEF MethodThrows, AtMethod
  <2> QED BY <1>1, <1>9, <2>1, NoMethodStops
<1>10. CASE EndMethods
  <2>1. InMethods
    BY <1>1, <1>3, <1>10 DEF EndMethods
  <2>2. FromParser' /\ InFields'
    BY <1>1, <1>10, <2>1, EndOfMethods
  <2> QED BY <1>2, <2>2 DEF Preparing
<1>11. CASE PrepareField \/ EndFields
  <2>1. InFields
    BY <1>1, <1>3, <1>11 DEF PrepareField, EndFields, AtField
  <2>2. FromParser' /\ InFields'
    BY <1>1, <1>11, <2>1, FieldStepOf
  <2> QED BY <1>2, <2>2 DEF Preparing
<1>12. CASE FieldThrows
  BY <1>1, <1>12, NoFieldStops
<1> QED BY <1>4, <1>5, <1>6, <1>7, <1>8, <1>9, <1>10, <1>11, <1>12 DEF prepare

(* The class has a name: the constructor of Klass does not throw.          *)
LEMMA NameOfClass ==
  ASSUME Reading, at = "interfaces"
  PROVE  ~NoClassName
<1>1. pool = PoolOf(class.constants) /\ file.this_class_index = class.this_class_index /\ IsClass(class)
  BY FileRead DEF Reading, OfClass
<1>2. IsClassName(class.this_class_index)
  BY <1>1, ClassNamed
<1> QED BY <1>1, <1>2 DEF NoClassName

LEMMA PreparingKept ==
  ASSUME Preparing, UNCHANGED <<class, pool, file, stage, x, infos, methods>>
  PROVE  Preparing'
<1>1. /\ class' = class /\ pool' = pool /\ file' = file /\ stage' = stage /\ x' = x
      /\ infos' = infos /\ methods' = methods
  OBVIOUS
<1>2. FromParser' /\ IsClass(class')
  BY <1>1, FromParserKept DEF Preparing
<1>3. \A c : RuntimeInfo(c)' = RuntimeInfo(c)
  BY <1>1 DEF RuntimeInfo, Utf8At
<1>4. \A n : (InfosFilled(n) => InfosFilled(n)') /\ (MethodsDone(n) => MethodsDone(n)')
             /\ (MethodsLeft(n) => MethodsLeft(n)')
  BY <1>1, <1>3 DEF InfosFilled, MethodsDone, MethodsLeft
<1>5. InPool => InPool'
  BY <1>1, <1>4 DEF InPool
<1>6. InMethods => InMethods'
  BY <1>1, <1>3 DEF InMethods, InfosFilled, MethodsDone, MethodsLeft
<1>7. InFields => InFields'
  BY <1>1, <1>3 DEF InFields, InfosFilled, MethodsDone
<1> QED BY <1>2, <1>5, <1>6, <1>7 DEF Preparing

LEMMA InitClass == ASSUME NoInterfaces, ClassInit PROVE ClassInv
<1>1. stage = "construct" /\ methods = <<>>
  BY DEF ClassInit, Unprepared
<1>2. PrepInv
  BY <1>1 DEF PrepInv
<1> QED BY <1>2, InitFile DEF ClassInv

LEMMA NextClass == ASSUME ClassInv, [ClassNext]_classVars PROVE ClassInv'
<1>0. FileInv /\ PrepInv
  BY DEF ClassInv
<1>1. FileInv'
  BY <1>0, NextFile
<1>2. class' = class /\ length' = length
  BY DEF ClassNext, classVars
<1>3. Encoded' = Encoded
  BY <1>2 DEF Encoded
<1>4. CASE UNCHANGED classVars
  <2>1. UNCHANGED <<class, pool, file, stage, x, infos, methods>>
    BY <1>4 DEF classVars, klassVars, vars, prepVars
  <2>2. Preparing => Preparing'
    BY <2>1, PreparingKept
  <2>3. PrepInv'
    BY <1>0, <1>3, <2>1, <2>2 DEF PrepInv
  <2> QED BY <1>1, <2>3 DEF ClassInv
<1>5. CASE parseClass
  <2>1. parse /\ stage' = stage /\ methods' = methods
    BY <1>5 DEF parseClass, prepVars
  <2>2. stage = "construct"
    BY <1>0, <2>1, ParseStatus DEF FileInv
  <2>3. PrepInv'
    BY <1>0, <1>3, <2>1, <2>2 DEF PrepInv
  <2> QED BY <1>1, <2>3 DEF ClassInv
<1>6. CASE prepareClass
  <2>1. status = "returned" /\ prepare
    BY <1>6 DEF prepareClass
  <2>2. SUFFICES ASSUME Encoded PROVE stage' # "construct" /\ Preparing'
    <3>1. PrepInv'
      BY <1>3, <2>2 DEF PrepInv
    <3> QED BY <1>1, <3>1 DEF ClassInv
  <2>3. CASE stage = "construct"
    <3>1. methods = <<>> /\ Reading /\ at = "interfaces"
      BY <1>0, <2>1, <2>2, <2>3 DEF PrepInv, FileInv
    <3>2. ~NoClassName
      BY <3>1, NameOfClass
    <3>3. Construct
      BY <2>1, <2>3, <3>2 DEF prepare, StringThrows, PrepareConstant, PrepareWideConstant,
         WideConstantAtEnd, AtConstant, EndPool, MethodThrows, AtMethod, PrepareMethod,
         PrepareMethodWithoutCode, EndMethods, FieldThrows, AtField, PrepareField, EndFields
    <3>4. stage' # "construct"
      BY <3>3 DEF Construct
    <3>5. Preparing'
      BY <1>2, <3>1, <3>3, ConstructStepOf
    <3> QED BY <3>4, <3>5
  <2>4. CASE stage # "construct"
    <3>1. Preparing
      BY <1>0, <2>2, <2>4 DEF PrepInv
    <3>2. Preparing'
      BY <1>2, <2>1, <3>1, PrepareStepOf
    <3>3. Preparing => stage # "construct"
      BY DEF Preparing, InPool, InMethods, InFields
    <3>4. stage' # "construct"
      BY <3>2 DEF Preparing, InPool, InMethods, InFields
    <3> QED BY <3>2, <3>4
  <2> QED BY <2>3, <2>4
<1> QED BY <1>4, <1>5, <1>6 DEF ClassNext, define

-----------------------------------------------------------------------------
(* What has been prepared. *)

(* The kinds of the entries of the run-time pool.                          *)
LEMMA KindsOfEntries ==
  /\ \A t \in FourBytes \cup EightBytes \cup {7, 9, 10, 11} :
       t \in ConstantTag /\ t # 8 /\ RuntimeKind[t] # "monostate"
  /\ RuntimeKind[8] = "string"
  /\ \A t \in {1, 12, 15, 16, 18} : RuntimeKind[t] = "monostate"
BY DEF RuntimeKind, ConstantTag, Utf8, MethodHandle, FourBytes, EightBytes, OneIndex, TwoIndices

LEMMA EntriesAre ==
  ASSUME NEW c
  PROVE  /\ c.tag \in FourBytes \cup EightBytes => RuntimeInfo(c).value = c.bytes
         /\ c.tag = 8 => RuntimeInfo(c).value = Utf8At(c.index[1])
         /\ c.tag \in {7, 9, 10, 11} => RuntimeInfo(c).index = c.index
         /\ c.tag \in {1, 12, 15, 16, 18} => RuntimeInfo(c) = Empty
<1>1. ASSUME c.tag \in FourBytes \cup EightBytes \cup {7, 9, 10, 11}
      PROVE  RuntimeInfo(c) = Info(RuntimeKind[c.tag], c.index, c.bytes)
  <2>1. RuntimeKind[c.tag] # "monostate" /\ c.tag # 8
    BY <1>1, KindsOfEntries
  <2> QED BY <2>1, Zenon DEF RuntimeInfo
<1>2. c.tag = 8 => RuntimeInfo(c) = Info("string", <<>>, Utf8At(c.index[1]))
  BY KindsOfEntries DEF RuntimeInfo
<1>3. c.tag \in {1, 12, 15, 16, 18} => RuntimeInfo(c) = Empty
  <2> SUFFICES ASSUME c.tag \in {1, 12, 15, 16, 18} PROVE RuntimeInfo(c) = Empty
    OBVIOUS
  <2>1. RuntimeKind[c.tag] = "monostate" /\ c.tag # 8
    BY KindsOfEntries
  <2> QED BY <2>1, Zenon DEF RuntimeInfo
<1>4. \A k, n, v : Info(k, n, v).index = n /\ Info(k, n, v).value = v
  BY DEF Info
<1>5. c.tag \in FourBytes \cup EightBytes => RuntimeInfo(c).value = c.bytes
  BY <1>1, <1>4
<1>6. c.tag \in {7, 9, 10, 11} => RuntimeInfo(c).index = c.index
  BY <1>1, <1>4
<1>7. c.tag = 8 => RuntimeInfo(c).value = Utf8At(c.index[1])
  BY <1>2, <1>4
<1> QED BY <1>3, <1>5, <1>6, <1>7

LEMMA InvPrepared ==
  ASSUME ClassInv, Encoded, stage = "prepared"
  PROVE  /\ IsClass(class) /\ pool = PoolOf(class.constants)
         /\ InfosFilled(Len(class.constants) + 1) /\ MethodsDone(Len(class.methods) + 1)
BY DEF ClassInv, PrepInv, Preparing, FromParser, InPool, InMethods, InFields

LEMMA PoolIsAsWritten == ASSUME ClassInv PROVE PoolAsWritten
<1> SUFFICES ASSUME Encoded, stage = "prepared", NEW n \in DOMAIN class.constants
             PROVE  LET c == class.constants[n]
                        info == infos[IndexOf(class.constants, n)]
                    IN  /\ c.tag \in FourBytes \cup EightBytes => info.value = c.bytes
                        /\ c.tag = 8 => info.value = PoolOf(class.constants)[c.index[1]].bytes
                        /\ c.tag \in {7, 9, 10, 11} => info.index = c.index
                        /\ c.tag \in {1, 12, 15, 16, 18} => info = Empty
  BY Zenon DEF PoolAsWritten
<1> DEFINE c == class.constants[n]
           info == infos[IndexOf(class.constants, n)]
<1>1. IsClass(class) /\ pool = PoolOf(class.constants) /\ InfosFilled(Len(class.constants) + 1)
  BY InvPrepared
<1>2. Len(class.constants) \in Nat /\ n \in 1 .. Len(class.constants)
  BY <1>1, ClassIs
<1>3. n \in 1 .. (Len(class.constants) + 1) - 1
  BY <1>2
<1>4. info = RuntimeInfo(c)
  BY <1>1, <1>3 DEF InfosFilled
<1>5. Utf8At(c.index[1]) = PoolOf(class.constants)[c.index[1]].bytes
  BY <1>1 DEF Utf8At
<1> HIDE DEF c, info
<1>6. /\ c.tag \in FourBytes \cup EightBytes => info.value = c.bytes
      /\ c.tag = 8 => info.value = Utf8At(c.index[1])
      /\ c.tag \in {7, 9, 10, 11} => info.index = c.index
      /\ c.tag \in {1, 12, 15, 16, 18} => info = Empty
  BY <1>4, EntriesAre
<1> QED BY <1>5, <1>6, Zenon DEF c, info

LEMMA MethodsAreAsWritten == ASSUME ClassInv PROVE MethodsAsWritten
<1> DEFINE s == class.methods
           cs == class.constants
<1> SUFFICES ASSUME Encoded, stage = "prepared"
             PROVE  Len(methods) = Len(s) /\ \A n \in DOMAIN methods : PreparedAs(methods[n], s[n], cs)
  BY DEF MethodsAsWritten, PreparedAs, NamedAs, CodedAs
<1>1. IsClass(class) /\ MethodsDone(Len(s) + 1)
  BY InvPrepared
<1>2. Len(s) \in Nat
  BY <1>1, TableFacts DEF IsClass
<1>3. /\ IsTable(methods) /\ Len(methods) = Len(s)
      /\ \A n \in 1 .. Len(s) : PreparedAs(methods[n], s[n], cs)
  <2>1. (Len(s) + 1) - 1 = Len(s)
    BY <1>2
  <2> QED BY <1>1, <2>1 DEF MethodsDone
<1>4. DOMAIN methods = 1 .. Len(s)
  BY <1>3, TableFacts
<1> QED BY <1>3, <1>4

(* No class makes the constructor of Klass or a phase of klass.cpp throw,  *)
(* or write past the end of infos_.                                        *)
THEOREM ValidClassesPrepare ==
  ASSUME NoInterfaces PROVE ClassSpec => []ValidClassPrepares
<1>1. ClassInv => ValidClassPrepares
  BY DEF ClassInv, PrepInv, Preparing, InPool, InMethods, InFields, ValidClassPrepares
<1>2. ClassInit => ClassInv
  BY InitClass
<1>3. ClassInv /\ [ClassNext]_classVars => ClassInv'
  BY NextClass
<1> QED BY <1>1, <1>2, <1>3, PTL DEF ClassSpec

(* The run-time pool has every constant of the class at its index: the     *)
(* two loops, that of the parser and that of prepareRuntimeConstantPool,   *)
(* count wide constants alike.                                             *)
THEOREM PreparedPool ==
  ASSUME NoInterfaces PROVE ClassSpec => []PoolAsWritten
<1>1. ClassInv => PoolAsWritten
  BY PoolIsAsWritten
<1>2. ClassInit => ClassInv
  BY InitClass
<1>3. ClassInv /\ [ClassNext]_classVars => ClassInv'
  BY NextClass
<1> QED BY <1>1, <1>2, <1>3, PTL DEF ClassSpec

(* Every method has the code the class gives it, although prepareMethods   *)
(* moves it out of the parsed file, one method after the other.            *)
THEOREM PreparedMethods ==
  ASSUME NoInterfaces PROVE ClassSpec => []MethodsAsWritten
<1>1. ClassInv => MethodsAsWritten
  BY MethodsAreAsWritten
<1>2. ClassInit => ClassInv
  BY InitClass
<1>3. ClassInv /\ [ClassNext]_classVars => ClassInv'
  BY NextClass
<1> QED BY <1>1, <1>2, <1>3, PTL DEF ClassSpec
=============================================================================
