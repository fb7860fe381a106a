-------------------------- MODULE LoaderRefinement --------------------------
(***************************************************************************)
(* The loader with the test fixture implements ClassTable: the table of a  *)
(* loader is its cache_, and a class has its superclass pointer from the   *)
(* moment it is cached.  The step that defines a class abstractly is the   *)
(* cache update at the end of loadClass; everything before it, and every   *)
(* load that throws, is a stuttering step.                                 *)
(***************************************************************************)
EXTENDS LoaderFixture

Cached == {cache[l][n] : l \in Addr, n \in Name} \ {Null}

Table == INSTANCE ClassTable WITH
  open  <- LiveLoaders,
  table <- cache,
  super <- [k \in Klass |-> IF k \in Cached THEN klass[k].super ELSE Null]

(* Every behaviour of the loader, with failing loads and retries, is one   *)
(* of the class table (loadClass's doc: the cached Klass is returned for   *)
(* the same name, class_loader.cpp:140).                                   *)
ImplementsClassTable == Table!TableSpec
=============================================================================
