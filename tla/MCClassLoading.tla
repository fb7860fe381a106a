-------------------------- MODULE MCClassLoading --------------------------
(* Instances of ClassLoading for TLC. *)
EXTENDS ClassLoading, TLC

CONSTANTS A, B, C, d1, d2

File(s, i, f) == [super |-> s, ifaces |-> i, fails |-> f]

(* Files without interfaces (the parser lets hardly any other through). *)
PlainFiles(fails) == {File(s, <<>>, f) : s \in Name \cup {Null}, f \in fails}

(* No class is its own ancestor in what any classpath order could load. *)
RECURSIVE Ancestors(_, _)
Ancestors(dk, S) ==
  LET up == S \cup {n \in Name : \E m \in S, d \in Dir :
                      dk[d][m] # Null /\ (\/ dk[d][m].super = n
                                          \/ \E i \in DOMAIN dk[d][m].ifaces :
                                               dk[d][m].ifaces[i].name = n)}
  IN  IF up = S THEN S ELSE Ancestors(dk, up)
Parents(dk, n) ==
  {m \in Name : \E d \in Dir : dk[d][n] # Null /\
      (dk[d][n].super = m \/ \E i \in DOMAIN dk[d][n].ifaces : dk[d][n].ifaces[i].name = m)}
Acyclic(dk) == \A n \in Name : n \notin Ancestors(dk, Parents(dk, n))

(* Every failure point, classes A, B, C in any inheritance order. *)
AllFiles == PlainFiles({"never", "link", "pool", "fields"})
            \cup {File(Null, <<>>, "parse"), File(A, <<>>, "methods")}
AllDisks == {dk \in [Dir -> [Name -> AllFiles \cup {Null}]] : Acyclic(dk)}

(* Only files whose classes prepare. *)
GoodFiles == PlainFiles({"never"})
GoodDisks == {dk \in [Dir -> [Name -> GoodFiles \cup {Null}]] : Acyclic(dk)}

(* Interfaces: a class entry out of the bounds of the interfaces vector,   *)
(* one that is no class entry, and lists that link, of one or two names.   *)
IfaceEntry(x, n) == [index |-> x, name |-> n]
IfaceLists ==
  {<<IfaceEntry(2, B), IfaceEntry(1, C)>>, <<IfaceEntry(1, B), IfaceEntry(0, Null)>>,
   <<IfaceEntry(1, B), IfaceEntry(1, B)>>, <<IfaceEntry(1, B), IfaceEntry(2, C), IfaceEntry(1, B)>>}
IfaceFiles == PlainFiles({"never", "fields"}) \cup
  {File(s, is, "never") : s \in {Null, B}, is \in IfaceLists}
IfaceDisks == {dk \in [Dir -> [Name -> IfaceFiles \cup {Null}]] : Acyclic(dk)}

(* Both. *)
FixtureFiles == AllFiles \cup IfaceFiles
FixtureDisks == AllDisks \cup IfaceDisks

(* Every failure point, and a class with two interface entries. *)
FreeFiles == AllFiles \cup {File(Null, <<IfaceEntry(1, B), e>>, "never")
                              : e \in {IfaceEntry(1, B), IfaceEntry(2, B), IfaceEntry(0, Null)}}
FreeDisks == {dk \in [Dir -> [Name -> FreeFiles \cup {Null}]] : Acyclic(dk)}

(* Two directories that may hold different files for one name. *)
DirFiles == {File(Null, <<>>, "never"), File(A, <<>>, "never"), File(Null, <<>>, "fields")}
DirDisks == {dk \in [Dir -> [Name -> DirFiles \cup {Null}]] : Acyclic(dk)}

OnePath  == {<<d1>>}
TwoPaths == {<<>>, <<d1>>, <<d1, d2>>, <<d2, d1>>}

KlassSymmetry == Permutations(Klass)
AddrSymmetry  == Permutations(Klass) \cup Permutations(Addr)
=============================================================================
