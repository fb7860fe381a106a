------------------------ MODULE RuntimeConstantPool ------------------------
(***************************************************************************)
(* Resolution of symbolic references (runtime/constant_pool.cpp) by the    *)
(* classes a test has loaded.  Resolving a class runs loadClass of the     *)
(* loader of the class that owns the pool, which may define and prepare    *)
(* other classes or throw while resolveMethod and resolveField hold a      *)
(* reference into infos_, so a resolution is a request that waits for the  *)
(* loader between its own steps.                                           *)
(***************************************************************************)
EXTENDS LoaderFixture

CONSTANTS
  Member,     \* pairs of a name and a descriptor
  Bodies(_)   \* of the disks: what their files may declare, functions on Files

(* The entries of infos_ (RtCpInfo).  Literals, the placeholders of wide   *)
(* constants and SymRef_InterfaceMethod are "other": no resolve function   *)
(* accepts them.  name is the dotted form of the name a class entry leads  *)
(* to and member what a NameAndType entry leads to; Null is an index that  *)
(* leads to no such entry, and makes the function that follows it throw.   *)
Other                == [kind |-> "other"]
SymRef_Class(n)      == [kind |-> "SymRef_Class", name |-> n]
SymRef_Field(ci, m)  == [kind |-> "SymRef_Field", class_index |-> ci, member |-> m]
SymRef_Method(ci, m) == [kind |-> "SymRef_Method", class_index |-> ci, member |-> m]

(* A pointer to a member is the Klass that declares it, with the member    *)
(* its reference named; owner is Null for the null pointer.                *)
KlassPointer(k)      == [kind |-> "Klass", klass |-> k]
FieldPointer(k, m)   == [kind |-> "Field", owner |-> k, member |-> m]
MethodPointer(k, m)  == [kind |-> "Method", owner |-> k, member |-> m]

Symbol(Index) ==
  {Other} \cup {SymRef_Class(n) : n \in Name \cup {Null}}
    \cup {SymRef_Field(ci, m) : ci \in Index, m \in Member \cup {Null}}
    \cup {SymRef_Method(ci, m) : ci \in Index, m \in Member \cup {Null}}
Resolved ==
  {KlassPointer(k) : k \in Klass}
    \cup {FieldPointer(k, m) : k \in Klass \cup {Null}, m \in Member}
    \cup {MethodPointer(k, m) : k \in Klass \cup {Null}, m \in Member}

(* Every class_index lies in the pool: infos_[class_index] is unchecked. *)
IsBody(b) ==
  /\ b.pool \in Seq(Symbol(DOMAIN b.pool))
  /\ b.methods \subseteq Member /\ b.fields \subseteq Member

ASSUME MemberAssumption == Null \notin Member
ASSUME BodiesAssumption ==
  \A dk \in Disks : \A body \in Bodies(dk) : DOMAIN body = Files /\ \A f \in Files : IsBody(body[f])

VARIABLES
  bodies,   \* what each file declares
  infos,    \* constant_pool_.infos_ of each Klass
  request,  \* the resolution that is running, or NoRequest
  answer    \* what the last one returned, NoAnswer if it threw

poolVars == <<fixtureVars, bodies, infos, request, answer>>

Op  == {"resolveClass", "resolveField", "resolveMethod"}
Sym == [op \in Op |-> CASE op = "resolveClass"  -> "SymRef_Class"
                        [] op = "resolveField"  -> "SymRef_Field"
                        [] op = "resolveMethod" -> "SymRef_Method"]
Ptr == [op \in Op |-> CASE op = "resolveClass"  -> "Klass"
                        [] op = "resolveField"  -> "Field"
                        [] op = "resolveMethod" -> "Method"]

NoRequest == [at |-> "none"]
NoAnswer  == [kind |-> "none"]

(* A request: the owner of the pool, the index to resolve, the index of    *)
(* the class entry it needs (its own for resolveClass) and target_klass.   *)
Request ==
  [at : {"slot", "class", "load", "target"}, op : Op, klass : Klass,
   index : Nat, class_index : Nat, target : Klass \cup {Null}]

ResolutionInit ==
  /\ FixtureInit
  /\ bodies \in Bodies(disk)
  /\ infos = [k \in Klass |-> <<>>]
  /\ request = NoRequest /\ answer = NoAnswer

-----------------------------------------------------------------------------
(* The loader's steps, and the pools they make and destroy. *)

(* prepareRuntimeConstantPool fills infos_ with the entries of the file;   *)
(* it dies with its Klass.                                                 *)
PoolsFollow ==
  infos' = [k \in Klass |->
              IF klass'[k].stage \in {"free", "linking"} THEN <<>>
              ELSE IF klass'[k].stage = "pool" /\ klass[k].stage # "pool"
                THEN bodies[klass'[k].file].pool
              ELSE infos[k]]

LoaderRuns == Running_loadClass /\ PoolsFollow /\ UNCHANGED <<bodies, request, answer>>

Quiet == request = NoRequest /\ PoolsFollow /\ UNCHANGED <<bodies, request, answer>>

-----------------------------------------------------------------------------
(* The members of a Klass, as the phases of its preparation add them. *)

Methods(k) == IF klass[k].stage \in {"methods", "prepared"} THEN bodies[klass[k].file].methods ELSE {}
Fields(k)  == IF klass[k].stage = "prepared" THEN bodies[klass[k].file].fields ELSE {}

(* Mutant: superclasses are not searched. *)
findHere(k, m) == IF m \in Methods(k) THEN k ELSE Null

(* findMethod and findField: the class itself, then its superclasses. *)
findMethod(k, m) ==
  LET find[c \in Klass] == IF m \in Methods(c) THEN c
                           ELSE IF klass[c].super = Null THEN Null ELSE find[klass[c].super]
  IN  find[k]
findField(k, m) ==
  LET find[c \in Klass] == IF m \in Fields(c) THEN c
                           ELSE IF klass[c].super = Null THEN Null ELSE find[klass[c].super]
  IN  find[k]

find(op, k, m) ==
  IF op = "resolveField" THEN FieldPointer(findField(k, m), m) ELSE MethodPointer(findMethod(k, m), m)

-----------------------------------------------------------------------------
(* The resolve functions. *)

Pool        == infos[request.klass]
Slot        == Pool[request.index]
ClassEntry  == Pool[request.class_index]
At(p)       == request.at = p /\ Idle
Go(p)       == request' = [request EXCEPT !.at = p]
Set(i, e)   == infos' = [infos EXCEPT ![request.klass][i] = e]
Return(e)   == request' = NoRequest /\ answer' = e
Raise       == request' = NoRequest /\ answer' = NoAnswer /\ UNCHANGED <<fixtureVars, bodies, infos>>

(* A call for an entry of a class that the test has loaded.                *)
(* BOUND: the heap has room for the classes it may define.                 *)
CallResolve(op, k, i) ==
  /\ phase = "test" /\ Idle /\ request = NoRequest
  /\ \E n \in Name : klass[k].loader # Null /\ cache[klass[k].loader][n] = k
  /\ i \in DOMAIN infos[k] /\ HeapHasRoom(klass[k].loader)
  /\ request' = [at |-> IF op = "resolveClass" THEN "class" ELSE "slot", op |-> op, klass |-> k,
                 index |-> i, class_index |-> i, target |-> Null]
  /\ answer' = NoAnswer
  /\ UNCHANGED <<fixtureVars, bodies, infos>>

(* resolveField and resolveMethod, up to their call of resolveClass. *)
MemberResolved ==
  /\ At("slot") /\ Slot.kind = Ptr[request.op]
  /\ Return(Slot)
  /\ UNCHANGED <<fixtureVars, bodies, infos>>

NotAMember ==
  /\ At("slot") /\ Slot.kind \notin {Ptr[request.op], Sym[request.op]}
  /\ Raise

ResolveMember ==
  /\ At("slot") /\ Slot.kind = Sym[request.op]
  /\ request' = [request EXCEPT !.at = "class", !.class_index = Slot.class_index]
  /\ UNCHANGED <<fixtureVars, bodies, infos, answer>>

(* resolveClass, up to its call of loadClass. *)
ClassResolved ==
  /\ At("class") /\ ClassEntry.kind = "Klass"
  /\ request' = [request EXCEPT !.at = "target", !.target = ClassEntry.klass]
  /\ UNCHANGED <<fixtureVars, bodies, infos, answer>>

NotAClass ==
  /\ At("class") /\ ClassEntry.kind \notin {"Klass", "SymRef_Class"}
  /\ Raise

ClassNameThrows ==
  /\ At("class") /\ ClassEntry.kind = "SymRef_Class" /\ ClassEntry.name = Null
  /\ Raise

(* Mutant: the loader that was used last, instead of the owner's. *)
LoadInLastLoader ==
  /\ At("class") /\ ClassEntry.kind = "SymRef_Class" /\ ClassEntry.name # Null
  /\ CallLoadClass(this, ClassEntry.name)
  /\ Go("load")
  /\ UNCHANGED <<phase, bodies, infos, answer>>

LoadTarget ==
  /\ At("class") /\ ClassEntry.kind = "SymRef_Class" /\ ClassEntry.name # Null
  /\ CallLoadClass(klass[request.klass].loader, ClassEntry.name)
  /\ Go("load")
  /\ UNCHANGED <<phase, bodies, infos, answer>>

(* Mutant: a class that does not load is cached as a null pointer. *)
CacheFailure ==
  /\ At("load") /\ thrown
  /\ Set(request.class_index, KlassPointer(Null))
  /\ Return(NoAnswer)
  /\ UNCHANGED <<fixtureVars, bodies>>

LoadThrows == At("load") /\ thrown /\ Raise

(* Mutant: the class is written where the member is. *)
CacheClassInSlot ==
  /\ At("load") /\ ~thrown
  /\ Set(request.index, KlassPointer(ret))
  /\ request' = [request EXCEPT !.at = "target", !.target = ret]
  /\ UNCHANGED <<fixtureVars, bodies, answer>>

(* Mutant: the class is not cached, and the entry is looked at again. *)
LoadAgain ==
  /\ At("load") /\ ~thrown
  /\ Go("class")
  /\ UNCHANGED <<fixtureVars, bodies, infos, answer>>

CacheClass ==
  /\ At("load") /\ ~thrown
  /\ Set(request.class_index, KlassPointer(ret))
  /\ request' = [request EXCEPT !.at = "target", !.target = ret]
  /\ UNCHANGED <<fixtureVars, bodies, answer>>

ReturnClass ==
  /\ At("target") /\ request.op = "resolveClass"
  /\ Return(KlassPointer(request.target))
  /\ UNCHANGED <<fixtureVars, bodies, infos>>

(* resolveNameAndType. *)
NameAndTypeThrows ==
  /\ At("target") /\ request.op # "resolveClass" /\ Slot.member = Null
  /\ Raise

(* A member that is not found is cached and returned as a null pointer. *)
CacheMember ==
  /\ At("target") /\ request.op # "resolveClass" /\ Slot.member # Null
  /\ LET found == find(request.op, request.target, Slot.member)
     IN  Set(request.index, found) /\ Return(found)
  /\ UNCHANGED <<fixtureVars, bodies>>

resolve ==
  \/ MemberResolved \/ NotAMember \/ ResolveMember
  \/ ClassResolved \/ NotAClass \/ ClassNameThrows \/ LoadTarget
  \/ LoadThrows \/ CacheClass \/ ReturnClass
  \/ NameAndTypeThrows \/ CacheMember

ResolutionNext ==
  \/ LoaderRuns
  \/ resolve
  \/ \E op \in Op, k \in Klass : \E i \in DOMAIN infos[k] : CallResolve(op, k, i)
  \/ \E l \in Addr, path \in Classpaths : SetUp(l, path) /\ Quiet
  \/ \E l \in Addr, path \in Classpaths : BodyNewLoader(l, path) /\ Quiet
  \/ \E l \in Addr, n \in Name : BodyLoadClass(l, n) /\ Quiet
  \/ TearDown /\ Quiet

(* loadClass and the resolve functions run straight through. *)
ResolutionSpec ==
  /\ ResolutionInit /\ [][ResolutionNext]_poolVars
  /\ WF_poolVars(LoaderRuns) /\ WF_poolVars(resolve)

-----------------------------------------------------------------------------
(* Properties. *)

(* The classes a test may resolve in: those its loaders have cached. *)
Usable == {k \in Klass : \E l \in LiveLoaders, n \in Name : cache[l][n] = k}

(* What the class file has at index i of k's pool. *)
Written(k, i) == bodies[klass[k].file].pool[i]

PoolTypeOK ==
  /\ bodies \in Bodies(disk)
  /\ \A k \in Klass : infos[k] \in Seq(Resolved \cup Symbol(DOMAIN infos[k]))
  /\ request \in Request \cup {NoRequest}
  /\ answer \in Resolved \cup {NoAnswer}

(* A resolved class entry is the class that the owner's own loader caches  *)
(* under the name the class file gives, whatever loads other loaders did.  *)
ClassesAsNamed ==
  \A k \in Usable : \A i \in DOMAIN infos[k] :
    infos[k][i].kind = "Klass" =>
      /\ Written(k, i).kind = "SymRef_Class"
      /\ infos[k][i].klass = cache[klass[k].loader][Written(k, i).name]

(* k and its superclasses: the smallest set with k in it that holds the    *)
(* superclass of each of its classes.                                      *)
Lineage(k) ==
  {c \in Klass : \A S \in SUBSET Klass :
                   k \in S /\ (\A s \in S : klass[s].super \in S \cup {Null}) => c \in S}

Declared(kind, k) ==
  IF kind = "Field" THEN bodies[klass[k].file].fields ELSE bodies[klass[k].file].methods

(* Of k and its superclasses, owner is the nearest that declares member m, *)
(* or Null if none does.                                                   *)
NearestDeclaring(kind, k, m, owner) ==
  LET declaring == {c \in Lineage(k) : m \in Declared(kind, c)}
  IN  IF owner = Null THEN declaring = {}
      ELSE owner \in declaring /\ declaring \subseteq Lineage(owner)

(* A resolved member entry is what the class file names, in the nearest    *)
(* class that declares it, and null only when no superclass of the class   *)
(* the reference names declares it, whenever it was resolved.              *)
MembersAsDeclared ==
  \A k \in Usable : \A i \in DOMAIN infos[k] :
    LET e == infos[k][i]
        w == Written(k, i)
    IN  e.kind \in {"Field", "Method"} =>
          /\ w.kind = (IF e.kind = "Field" THEN "SymRef_Field" ELSE "SymRef_Method")
          /\ e.member = w.member
          /\ infos[k][w.class_index].kind = "Klass"
          /\ NearestDeclaring(e.kind, infos[k][w.class_index].klass, e.member, e.owner)

(* While resolveMethod holds its reference into infos_, no load it causes  *)
(* destroys the owner or makes its pool anew.                              *)
ReferenceHolds ==
  request # NoRequest =>
    /\ request.klass \in Usable
    /\ klass[request.klass].stage = "prepared"
    /\ Len(Pool) = Len(bodies[klass[request.klass].file].pool)

(* While its class lives an entry changes once, from a symbolic reference  *)
(* to a pointer, so that a caller may keep what it got: "the second        *)
(* resolve should return the same pointer" (constant_pool_test.cpp).       *)
EntriesChangeOnce ==
  [][\A k \in Klass : Len(infos[k]) = Len(infos'[k]) =>
       \A i \in DOMAIN infos[k] :
         infos'[k][i] # infos[k][i] =>
           \E op \in Op : infos[k][i].kind = Sym[op] /\ infos'[k][i].kind = Ptr[op]]_poolVars

(* A resolution that throws leaves the entry it was asked for symbolic, to *)
(* be resolved again; one that returns has cached what it returns.         *)
EndsAsCached ==
  [][request # NoRequest /\ request' = NoRequest =>
       LET e == infos'[request.klass][request.index]
           w == Written(request.klass, request.index)
       IN  IF answer' = NoAnswer THEN w.kind = Sym[request.op] => e = w ELSE e = answer']_poolVars

(* Every resolution ends, unless a load it causes meets undefined          *)
(* behaviour.                                                              *)
ResolutionEnds == request # NoRequest ~> request = NoRequest \/ fault # "none"
=============================================================================
