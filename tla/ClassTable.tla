---------------------------- MODULE ClassTable ----------------------------
(***************************************************************************)
(* What class loading promises: every open loader has a table from names   *)
(* to classes that is written once per name, a class belongs to one loader *)
(* and one name, and a class is defined after, and with, its superclass.   *)
(* How files are found, how the superclass gets loaded, what half-built    *)
(* objects exist meanwhile and what happens to them when a load fails are  *)
(* invisible here.                                                         *)
(***************************************************************************)
CONSTANTS Null, Addr, Name, Klass

VARIABLES
  open,    \* the loaders that exist
  table,   \* the classes each has defined
  super    \* the superclass of each defined class

tableVars == <<open, table, super>>

Empty == [n \in Name |-> Null]

Defined(l) == {table[l][n] : n \in Name} \ {Null}
AllDefined == {table[l][n] : l \in Addr, n \in Name} \ {Null}

TableInit ==
  /\ open = {}
  /\ table = [l \in Addr |-> Empty]
  /\ super = [k \in Klass |-> Null]

Open(l) ==
  /\ l \notin open
  /\ open' = open \cup {l}
  /\ UNCHANGED <<table, super>>

(* The class k becomes name n of loader l; its superclass, if it has one,  *)
(* is a class the same loader defined before.                              *)
Define(l, n, k, s) ==
  /\ l \in open
  /\ table[l][n] = Null
  /\ k \notin AllDefined
  /\ s = Null \/ s \in Defined(l)
  /\ table' = [table EXCEPT ![l][n] = k]
  /\ super' = [super EXCEPT ![k] = s]
  /\ UNCHANGED open

(* The end of a test: all loaders and what they defined are given up. *)
CloseAll ==
  /\ open' = {}
  /\ table' = [l \in Addr |-> Empty]
  /\ super' = [k \in Klass |-> Null]

TableNext ==
  \/ \E l \in Addr : Open(l)
  \/ \E l \in Addr, n \in Name, k \in Klass, s \in Klass \cup {Null} : Define(l, n, k, s)
  \/ CloseAll

TableSpec == TableInit /\ [][TableNext]_tableVars
=============================================================================
