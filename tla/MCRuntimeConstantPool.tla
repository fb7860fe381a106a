----------------------- MODULE MCRuntimeConstantPool -----------------------
(* The loader with its fixture, and resolution, for TLC: the disks are     *)
(* those of MCClassLoading.  On most of them the pools are empty and a     *)
(* test only loads classes.                                                *)
EXTENDS RuntimeConstantPool, MCLoaderFixture

CONSTANTS m, g

(* The hypothesis of the theorem on nesting holds of these instances. *)
ASSUME DisksAreLayered == \A dk \in Disks : Layered(dk)

Root == File(Null, <<>>, "never")
Sub  == File(A, <<>>, "never")

Body(pool, methods, fields) == [pool |-> pool, methods |-> methods, fields |-> fields]
NoBodies == [f \in Files |-> Body(<<>>, {}, {})]

(* B extends A; the other names are missing, or the one file or the other, *)
(* or do not prepare.                                                      *)
Extending(dk) ==
  \A d \in Dir : /\ dk[d][A] = Root /\ dk[d][B] = Sub
                 /\ \A n \in Name : dk[d][n] \in {Null, Root, Sub, File(Null, <<>>, "fields")}

(* References from a pool to class n, from all kinds of entries. *)
Refs(n) ==
  {<<SymRef_Class(n), SymRef_Method(1, m), SymRef_Field(1, g)>>,
   <<SymRef_Class(n), SymRef_Field(1, Null), SymRef_Method(1, Null), Other>>}
Unnamed == <<SymRef_Class(Null), SymRef_Method(1, m), SymRef_Method(2, m)>>

(* Root is the file of A, and may be that of C: its pool is the one with   *)
(* references, and what it declares decides where a search ends.           *)
Declaring(pools, mss, nss) ==
  {[f \in Files |-> IF f = Root THEN Body(p, ms, {g} \ ms) ELSE Body(<<SymRef_Class(B)>>, ns, {g})] :
     p \in pools, ms \in mss, ns \in nss}

PoolBodies(dk) ==
  IF Extending(dk)
    THEN Declaring(Refs(B) \cup Refs(C), {{}, {m, g}}, {{}, {m}}) \cup Declaring({Unnamed}, {{m}}, {{}})
    ELSE {NoBodies}
EndBodies(dk) ==
  IF Extending(dk) THEN Declaring(Refs(B) \cup {Unnamed}, {{m}}, {{}}) ELSE {NoBodies}
FewBodies(dk) ==
  IF Extending(dk) THEN Declaring({<<SymRef_Class(B), SymRef_Method(1, m)>>}, {{m}}, {{}}) ELSE {NoBodies}
=============================================================================
