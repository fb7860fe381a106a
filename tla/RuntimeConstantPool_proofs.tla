--------------------- MODULE RuntimeConstantPool_proofs ---------------------
(***************************************************************************)
(* Proofs about RuntimeConstantPool: resolution runs within the fixture's  *)
(* discipline, its references hold, and what it caches is what the class   *)
(* files name.                                                             *)
(***************************************************************************)
EXTENDS RuntimeConstantPool, LoaderFixture_proofs

-----------------------------------------------------------------------------
(* What a step does to each Klass object.                                  *)

(* The links and the file stay, and the stage stays or is the next one. *)
Kept(k) ==
  /\ klass'[k].super = klass[k].super
  /\ klass'[k].file = klass[k].file
  /\ klass'[k].loader = klass[k].loader
  /\ \/ klass'[k].stage = klass[k].stage
     \/ klass[k].stage = "linking" /\ klass'[k].stage = "pool"
     \/ klass[k].stage = "pool" /\ klass'[k].stage = "methods"
     \/ klass[k].stage = "methods" /\ klass'[k].stage = "prepared"
(* The object is destroyed, or made. *)
Renewed(k) ==
  /\ klass[k].stage \in {"free", "linking"} /\ klass'[k].stage \in {"free", "linking"}
  /\ klass'[k].super = Null
(* linkSuperClass sets the pointer. *)
Linked(k) ==
  /\ SetSuperClass /\ k = Top.klass
  /\ klass[k].stage = "linking" /\ klass'[k].stage = "linking"
  /\ klass'[k].super = ret

LEMMA ObjectSteps ==
  ASSUME Shape, Ownership, CacheSound, loadClass, NEW k \in Klass
  PROVE  Kept(k) \/ Renewed(k) \/ Linked(k)
<1> USE DEF Running, Returned, heap
<1>0. stack # <<>> /\ klass \in [Klass -> KlassObject]
  BY LoadClassStack, Typed
<1>1. CASE klass'[k] = klass[k]
  BY <1>1 DEF Kept
<1>2. CASE Throw
  <2>1. k \in Owned => klass[k].stage = "linking" /\ klass'[k] = Raw
    BY <1>2 DEF Throw, Owned, Shape, StackSound, ActivationSound
  <2>2. k \notin Owned => klass'[k] = klass[k]
    BY <1>2 DEF Throw
  <2> QED  BY <1>1, <2>1, <2>2 DEF Renewed, Raw
<1>3. CASE CacheHit \/ LinkNoSuper \/ LoadSuper \/ LoadInterface \/ PrepareDangling
  BY <1>1, <1>3 DEF CacheHit, LinkNoSuper, LoadSuper, LoadInterface, PrepareDangling, Recurse
<1>4. CASE ClassNotFound \/ ParseThrows \/ SuperNameThrows \/ InterfaceNameThrows
  BY <1>2, <1>4 DEF ClassNotFound, ParseThrows, SuperNameThrows, InterfaceNameThrows
<1>5. CASE BeginDefine
  <2>1. PICK f \in Files, j \in Klass :
          /\ klass[j].stage = "free"
          /\ klass' = [klass EXCEPT ![j] = [stage |-> "linking", loader |-> this, file |-> f,
                                            super |-> Null, ifaces |-> {}]]
    BY <1>5 DEF BeginDefine, readClassFile
  <2>2. CASE k = j
    BY <1>0, <2>1, <2>2 DEF Renewed
  <2>3. CASE k # j
    BY <1>0, <1>1, <2>1, <2>3
  <2> QED  BY <2>2, <2>3
<1>6. CASE SetSuperClass
  <2>1. Top.klass \in Klass /\ klass[Top.klass].stage = "linking"
    BY <1>0, <1>6, TopSound DEF SetSuperClass, ActivationSound
  <2>2. CASE k = Top.klass
    BY <1>0, <1>6, <2>1, <2>2 DEF SetSuperClass, Linked, KlassObject
  <2>3. CASE k # Top.klass
    BY <1>0, <1>1, <1>6, <2>1, <2>3 DEF SetSuperClass
  <2> QED  BY <2>2, <2>3
<1>7. CASE SetInterface
  <2>1. CASE UNCHANGED klass
    BY <1>1, <2>1
  <2>2. CASE ~ UNCHANGED klass
    <3>1. Top.klass \in Klass
      BY <1>0, <1>7, TopSound DEF SetInterface, ActivationSound
    <3>2. klass' = [klass EXCEPT ![Top.klass] = [klass[Top.klass] EXCEPT !.ifaces = @ \cup {ret}]]
      BY <1>0, <1>7, <2>2, <3>1 DEF SetInterface
    <3> QED  BY <1>0, <3>1, <3>2 DEF Kept, KlassObject
  <2> QED  BY <2>1, <2>2
<1>8. CASE AddClass
  <2>1. CASE UNCHANGED klass
    BY <1>1, <2>1
  <2>2. CASE ~ UNCHANGED klass
    <3>1. Top.klass \in Klass /\ klass[Top.klass].stage = "linking"
      BY <1>0, <1>8, TopSound DEF AddClass, ActivationSound
    <3>2. klass' = [klass EXCEPT ![Top.klass] = Raw]
      BY <1>8, <2>2 DEF AddClass
    <3> QED  BY <1>0, <1>1, <3>1, <3>2 DEF Renewed, Raw
  <2> QED  BY <2>1, <2>2
<1>9. ASSUME NEW s \in Stage, Top.klass \in Klass, klass' = [klass EXCEPT ![Top.klass].stage = s],
             \/ klass[Top.klass].stage = "linking" /\ s = "pool"
             \/ klass[Top.klass].stage = "pool" /\ s = "methods"
             \/ klass[Top.klass].stage = "methods" /\ s = "prepared"
      PROVE  Kept(k)
  BY <1>0, <1>9 DEF Kept, KlassObject
<1>10. CASE PrepareRuntimeConstantPool
  <2>1. Top.klass \in Klass /\ klass[Top.klass].stage = "linking"
    BY <1>0, <1>10, TopSound DEF PrepareRuntimeConstantPool, ActivationSound
  <2> QED  BY <1>2, <1>9, <1>10, <2>1 DEF PrepareRuntimeConstantPool, Stage
<1>11. CASE PrepareMethods
  <2>1. Top.klass \in Klass /\ klass[Top.klass].stage = "pool"
    BY <1>0, <1>11, TopSound DEF PrepareMethods, ActivationSound
  <2> QED  BY <1>2, <1>9, <1>11, <2>1 DEF PrepareMethods, Stage
<1>12. CASE PrepareFieldsAndStatics
  <2>1. Top.klass \in Klass /\ klass[Top.klass].stage = "methods"
    BY <1>0, <1>12, TopSound DEF PrepareFieldsAndStatics, ActivationSound
  <2> QED  BY <1>2, <1>9, <1>12, <2>1 DEF PrepareFieldsAndStatics, Stage
<1> QED  BY <1>3, <1>4, <1>5, <1>6, <1>7, <1>8, <1>10, <1>11, <1>12 DEF loadClass

-----------------------------------------------------------------------------
(* The class hierarchy: superclass pointers lead to prepared classes and   *)
(* never round in a circle, so the searches of findMethod and findField    *)
(* end.                                                                    *)

SupersPrepared ==
  \A k \in Klass : klass[k].super # Null => klass[klass[k].super].stage = "prepared"
NoCircle == \A S \in SUBSET Klass : S # {} => \E k \in S : klass[k].super \notin S
FreeUnlinked == \A k \in Klass : klass[k].stage = "free" => klass[k].super = Null
Hierarchy == SupersPrepared /\ NoCircle /\ FreeUnlinked

(* What a nested call has returned is prepared. *)
LEMMA ReturnedIsDone ==
  ASSUME Linking, stack # <<>>, ret # Null
  PROVE  ret \in Klass /\ klass[ret].stage = "prepared"
<1>1. /\ Shape /\ CacheSound /\ Chained /\ this \in LiveLoaders
  BY DEF Linking, Base, Shape, RunsOnLiveLoader, LiveLoaders
<1>2. Wanted(Top) \in Name /\ ret = cache[this][Wanted(Top)]
  BY <1>1 DEF Chained
<1>3. ret \in Klass
  BY <1>1 DEF Shape, TypeOK
<1> QED  BY <1>1, <1>2, <1>3 DEF CacheSound

LEMMA LoadClassHierarchy ==
  ASSUME Linking, Hierarchy, loadClass
  PROVE  Hierarchy'
<1>0. /\ Shape /\ Ownership /\ CacheSound /\ Grows /\ stack # <<>>
      /\ \A k \in Klass : klass[k].super \in Klass \cup {Null}
      /\ \A k \in Klass : Kept(k) \/ Renewed(k) \/ Linked(k)
      /\ Null \notin Klass
  <2>1. Shape /\ Ownership /\ CacheSound
    BY DEF Linking, Base
  <2> QED  BY <2>1, LoadClassGrows, LoadClassStack, ObjectSteps, Typed, NullAssumption DEF KlassObject
<1>1. SetSuperClass => ret # Null /\ ret \in Klass /\ klass[ret].stage = "prepared"
  BY <1>0, ReturnedIsDone DEF SetSuperClass, Returned
<1>2. \A k \in Klass : klass[k].stage = "prepared" => klass'[k].stage = "prepared"
  BY <1>0 DEF Grows
<1>3. SupersPrepared'
  <2> SUFFICES ASSUME NEW k \in Klass, klass'[k].super # Null
               PROVE  klass'[klass'[k].super].stage = "prepared"
    BY DEF SupersPrepared
  <2>1. CASE Kept(k)
    BY <1>0, <1>2, <2>1 DEF Kept, Hierarchy, SupersPrepared
  <2>2. CASE Linked(k)
    BY <1>1, <1>2, <2>2 DEF Linked
  <2> QED  BY <1>0, <2>1, <2>2 DEF Renewed
<1>4. NoCircle'
  <2> SUFFICES ASSUME NEW S \in SUBSET Klass, S # {}
               PROVE  \E k \in S : klass'[k].super \notin S
    BY DEF NoCircle
  <2>1. CASE SetSuperClass /\ Top.klass \in S
    <3>1. \A k \in S : k # Top.klass => klass'[k].super \in {klass[k].super, Null}
      BY <1>0 DEF Kept, Renewed, Linked
    <3>2. klass[Top.klass].stage = "linking"
      BY <1>0, <2>1, TopSound DEF SetSuperClass, Returned, ActivationSound
    <3>3. klass'[Top.klass].super = ret
      BY <1>0, <2>1, Typed DEF SetSuperClass
    <3>4. CASE S = {Top.klass}
      BY <1>1, <2>1, <3>2, <3>3, <3>4
    <3>5. CASE S # {Top.klass}
      <4>1. S \ {Top.klass} # {} /\ S \ {Top.klass} \in SUBSET Klass
        BY <3>5
      <4>2. PICK k \in S \ {Top.klass} : klass[k].super \notin S \ {Top.klass}
        BY <4>1 DEF Hierarchy, NoCircle
      <4>3. klass[k].super # Top.klass
        BY <1>0, <2>1, <3>2 DEF Hierarchy, SupersPrepared
      <4> QED  BY <1>0, <3>1, <4>2, <4>3
    <3> QED  BY <3>4, <3>5
  <2>2. CASE ~ (SetSuperClass /\ Top.klass \in S)
    <3>1. \A k \in S : klass'[k].super \in {klass[k].super, Null}
      BY <1>0, <2>2 DEF Kept, Renewed, Linked
    <3>2. PICK k \in S : klass[k].super \notin S
      BY DEF Hierarchy, NoCircle
    <3> QED  BY <1>0, <3>1, <3>2
  <2> QED  BY <2>1, <2>2
<1>5. FreeUnlinked'
  BY <1>0 DEF Hierarchy, FreeUnlinked, Kept, Renewed, Linked
<1> QED  BY <1>3, <1>4, <1>5 DEF Hierarchy

LEMMA HierarchyInit == FixtureInit => Hierarchy
<1> SUFFICES ASSUME FixtureInit PROVE Hierarchy
  OBVIOUS
<1>1. \A k \in Klass : klass[k].super = Null
  BY DEF FixtureInit, Init, Raw
<1> QED  BY <1>1, NullAssumption DEF Hierarchy, SupersPrepared, NoCircle, FreeUnlinked

(* At SetUp no object is left. *)
LEMMA SetUpFrees ==
  ASSUME Base, NEW l \in Addr, NEW path \in Classpaths, SetUp(l, path)
  PROVE  \A k \in Klass : (k \in Registered \/ klass[k].stage = "free") /\ klass'[k].stage = "free"
<1>0. Shape /\ Ownership
  BY DEF Base
<1>1. Owned = {}
  BY DEF SetUp, Idle, Owned
<1>2. \A k \in Klass : klass[k].stage # "free" => k \in Registered
  BY <1>0, <1>1, Typed, NullAssumption DEF Ownership, Registered
<1> QED  BY <1>2 DEF SetUp, FreeAll, Raw

LEMMA HierarchyNext ==
  ASSUME Linking, Hierarchy, [FixtureNext]_fixtureVars
  PROVE  Hierarchy'
<1>1. CASE Running_loadClass
  BY <1>1, LoadClassHierarchy DEF Running_loadClass
<1>2. CASE \E l \in Addr, path \in Classpaths : SetUp(l, path)
  <2>1. \A k \in Klass : k \in Registered \/ klass[k].stage = "free"
    BY <1>2, SetUpFrees DEF Linking
  <2>2. \A k \in Klass : klass'[k].super = Null
    BY <1>2, <2>1 DEF SetUp, FreeAll, Raw, Hierarchy, FreeUnlinked
  <2> QED  BY <2>2, NullAssumption DEF Hierarchy, SupersPrepared, NoCircle, FreeUnlinked
<1>3. CASE UNCHANGED klass
  BY <1>3 DEF Hierarchy, SupersPrepared, NoCircle, FreeUnlinked
<1> QED  BY <1>1, <1>2, <1>3
         DEF FixtureNext, BodyNewLoader, NewLoader, BodyLoadClass, CallLoadClass, TearDown, heap,
             fixtureVars, vars

-----------------------------------------------------------------------------
(* The lineage of a class, and the search that findMethod and findField    *)
(* make in it.  The proofs by least element of NoCircle take the place of  *)
(* an induction along the superclass pointers.                             *)

SupersTyped == \A k \in Klass : klass[k].super \in Klass \cup {Null}
ClosedUp(S) == \A s \in S : klass[s].super \in S \cup {Null}

LEMMA LineageLeast ==
  ASSUME NEW k \in Klass
  PROVE  \A S \in SUBSET Klass : k \in S /\ ClosedUp(S) => Lineage(k) \subseteq S
BY DEF Lineage, ClosedUp

LEMMA LineageClosed ==
  ASSUME SupersTyped, NEW k \in Klass
  PROVE  k \in Lineage(k) /\ ClosedUp(Lineage(k)) /\ Lineage(k) \subseteq Klass
<1>1. k \in Lineage(k) /\ Lineage(k) \subseteq Klass
  BY DEF Lineage
<1>2. ASSUME NEW c \in Lineage(k), klass[c].super # Null
      PROVE  klass[c].super \in Lineage(k)
  <2>1. klass[c].super \in Klass
    BY <1>2 DEF SupersTyped, Lineage
  <2>2. ASSUME NEW S \in SUBSET Klass, k \in S, \A s \in S : klass[s].super \in S \cup {Null}
        PROVE  klass[c].super \in S
    <3>1. c \in S
      BY <2>2 DEF Lineage
    <3> QED  BY <1>2, <2>2, <3>1
  <2> QED  BY <2>1, <2>2 DEF Lineage
<1> QED  BY <1>1, <1>2 DEF ClosedUp

(* A class, and then the lineage of its superclass. *)
LEMMA LineageUp ==
  ASSUME SupersTyped, NEW k \in Klass
  PROVE  /\ klass[k].super = Null => Lineage(k) = {k}
         /\ klass[k].super # Null => Lineage(k) = {k} \cup Lineage(klass[k].super)
<1>1. CASE klass[k].super = Null
  <2>1. {k} \in SUBSET Klass /\ ClosedUp({k})
    BY <1>1 DEF ClosedUp
  <2>2. Lineage(k) \subseteq {k}
    BY <2>1, LineageLeast
  <2> QED  BY <1>1, <2>2, LineageClosed
<1>2. CASE klass[k].super # Null
  <2> DEFINE s == klass[k].super
  <2>1. s \in Klass
    BY <1>2 DEF SupersTyped
  <2>2. s \in Lineage(s) /\ ClosedUp(Lineage(s)) /\ Lineage(s) \subseteq Klass
    BY <2>1, LineageClosed
  <2>3. {k} \cup Lineage(s) \in SUBSET Klass /\ ClosedUp({k} \cup Lineage(s))
    BY <2>2 DEF ClosedUp
  <2>4. Lineage(k) \subseteq {k} \cup Lineage(s)
    BY <2>3, LineageLeast
  <2>5. k \in Lineage(k) /\ s \in Lineage(k) /\ ClosedUp(Lineage(k)) /\ Lineage(k) \in SUBSET Klass
    BY <1>2, LineageClosed DEF ClosedUp
  <2>6. Lineage(s) \subseteq Lineage(k)
    BY <2>1, <2>5, LineageLeast
  <2> QED  BY <1>2, <2>4, <2>5, <2>6
<1> QED  BY <1>1, <1>2

LEMMA LineageTransitive ==
  ASSUME SupersTyped, NEW k \in Klass, NEW c \in Lineage(k)
  PROVE  c \in Klass /\ Lineage(c) \subseteq Lineage(k)
<1>1. Lineage(k) \in SUBSET Klass /\ ClosedUp(Lineage(k)) /\ c \in Lineage(k)
  BY LineageClosed
<1> QED  BY <1>1, LineageLeast

(* No two classes are superclasses of each other. *)
LEMMA LineageAntisymmetric ==
  ASSUME SupersTyped, NoCircle, NEW k \in Klass, NEW c \in Lineage(k), k \in Lineage(c)
  PROVE  c = k
<1> SUFFICES ASSUME c # k PROVE FALSE
  OBVIOUS
<1> DEFINE S == {z \in Klass : z \in Lineage(k) /\ k \in Lineage(z)}
<1>1. k \in S /\ S \in SUBSET Klass
  BY LineageClosed
<1>2. PICK z \in S : klass[z].super \notin S
  BY <1>1 DEF NoCircle
<1>3. CASE klass[z].super = Null
  <2>1. k = z
    BY <1>2, <1>3, LineageUp
  <2> QED  BY <1>3, <2>1, LineageUp
<1>4. CASE klass[z].super # Null
  <2>1. klass[z].super \in Klass /\ klass[z].super \in Lineage(k)
    BY <1>2, <1>4, LineageClosed DEF ClosedUp, SupersTyped
  <2>2. CASE k \in Lineage(klass[z].super)
    BY <1>2, <2>1, <2>2
  <2>3. CASE k \notin Lineage(klass[z].super)
    <3>1. k = z
      BY <1>2, <1>4, <2>3, LineageUp
    <3>2. c \in Lineage(klass[k].super)
      BY <1>4, <3>1, LineageUp
    <3>3. Lineage(c) \subseteq Lineage(klass[k].super)
      BY <2>1, <3>1, <3>2, LineageTransitive
    <3> QED  BY <2>3, <3>1, <3>3
  <2> QED  BY <2>2, <2>3
<1> QED  BY <1>3, <1>4

(* The nearest class of the set D, from k upwards. *)
NearestIn(D, k, owner) ==
  IF owner = Null THEN Lineage(k) \cap D = {}
  ELSE owner \in Lineage(k) \cap D /\ Lineage(k) \cap D \subseteq Lineage(owner)

Searches(f, D) ==
  f = [c \in Klass |-> IF c \in D THEN c
                       ELSE IF klass[c].super = Null THEN Null ELSE f[klass[c].super]]

(* A function that satisfies the recursion finds the nearest class of D. *)
LEMMA SearchFinds ==
  ASSUME SupersTyped, NoCircle, NEW D \in SUBSET Klass, NEW f, Searches(f, D), NEW k \in Klass
  PROVE  NearestIn(D, k, f[k])
<1> DEFINE S == {c \in Klass : ~ NearestIn(D, c, f[c])}
<1> SUFFICES ASSUME S # {} PROVE FALSE
  OBVIOUS
<1>1. PICK c \in S : klass[c].super \notin S
  BY DEF NoCircle
<1>2. f[c] = IF c \in D THEN c ELSE IF klass[c].super = Null THEN Null ELSE f[klass[c].super]
  BY DEF Searches
<1>3. CASE c \in D
  BY <1>1, <1>2, <1>3, LineageClosed, NullAssumption DEF NearestIn
<1>4. CASE c \notin D /\ klass[c].super = Null
  BY <1>1, <1>2, <1>4, LineageUp DEF NearestIn
<1>5. CASE c \notin D /\ klass[c].super # Null
  <2>1. klass[c].super \in Klass /\ f[c] = f[klass[c].super]
    BY <1>1, <1>2, <1>5 DEF SupersTyped
  <2>2. NearestIn(D, klass[c].super, f[c])
    BY <1>1, <2>1
  <2>3. Lineage(c) \cap D = Lineage(klass[c].super) \cap D
    BY <1>1, <1>5, LineageUp
  <2> QED  BY <1>1, <2>2, <2>3 DEF NearestIn
<1> QED  BY <1>3, <1>4, <1>5

(* There is such a function. *)
LEMMA SearchExists ==
  ASSUME SupersTyped, NoCircle, NEW D \in SUBSET Klass
  PROVE  \E f : Searches(f, D)
<1> DEFINE nearest(c) == CHOOSE x \in Klass : NearestIn(D, c, x)
           f == [c \in Klass |-> IF Lineage(c) \cap D = {} THEN Null ELSE nearest(c)]
<1>1. \A c \in Klass : f[c] = IF Lineage(c) \cap D = {} THEN Null ELSE nearest(c)
  OBVIOUS
<1>2. ASSUME NEW c \in Klass, c \in D
      PROVE  f[c] = c
  <2>1. NearestIn(D, c, c) /\ Lineage(c) \cap D # {}
    BY <1>2, LineageClosed, NullAssumption DEF NearestIn
  <2>2. \A x \in Klass : NearestIn(D, c, x) => x = c
    BY <1>2, LineageClosed, LineageAntisymmetric, NullAssumption DEF NearestIn
  <2> QED  BY <1>1, <2>1, <2>2
<1>3. ASSUME NEW c \in Klass, c \notin D, klass[c].super = Null
      PROVE  f[c] = Null
  BY <1>1, <1>3, LineageUp
<1>4. ASSUME NEW c \in Klass, c \notin D, klass[c].super # Null
      PROVE  f[c] = f[klass[c].super]
  <2>1. klass[c].super \in Klass
    BY <1>4 DEF SupersTyped
  <2>2. Lineage(c) \cap D = Lineage(klass[c].super) \cap D
    BY <1>4, LineageUp
  <2>3. \A x : NearestIn(D, c, x) <=> NearestIn(D, klass[c].super, x)
    BY <2>2 DEF NearestIn
  <2>4. nearest(c) = nearest(klass[c].super)
    BY <2>3, Zenon
  <2> QED  BY <1>1, <2>1, <2>2, <2>4
<1>5. Searches(f, D)
  <2> HIDE DEF f
  <2>1. f = [c \in Klass |-> f[c]]
    BY DEF f
  <2> QED  BY <1>2, <1>3, <1>4, <2>1 DEF Searches
<1> QED  BY <1>5

-----------------------------------------------------------------------------
(* The invariant of resolution.                                            *)

(* A Klass that prepareRuntimeConstantPool has not reached, and what the   *)
(* file of one that it has reached says.                                   *)
Unmade(k) == klass[k].stage \in {"free", "linking"}
PoolOf(k) == bodies[klass[k].file].pool

(* Pools are made, with an entry for each of the file's, in the phase that *)
(* makes them.                                                             *)
PoolShape ==
  /\ PoolTypeOK
  /\ infos = [k \in Klass |-> infos[k]]
  /\ \A k \in Klass : IF Unmade(k) THEN infos[k] = <<>> ELSE Len(infos[k]) = Len(PoolOf(k))

(* Entry i of k's pool has been resolved, to what the file of k names      *)
(* there.                                                                  *)
ClassResolvedAt(k, i) ==
  /\ klass[k].loader \in Addr
  /\ \E n \in Name : /\ Written(k, i) = SymRef_Class(n)
                     /\ cache[klass[k].loader][n] # Null
                     /\ infos[k][i] = KlassPointer(cache[klass[k].loader][n])

SymbolOf(kind, ci, mm)   == IF kind = "Field" THEN SymRef_Field(ci, mm) ELSE SymRef_Method(ci, mm)
PointerOf(kind, c, mm)   == IF kind = "Field" THEN FieldPointer(c, mm) ELSE MethodPointer(c, mm)
MemberResolvedAt(k, i) ==
  \E kind \in {"Field", "Method"}, ci \in DOMAIN infos[k], mm \in Member, c \in Klass,
     owner \in Klass \cup {Null} :
    /\ Written(k, i) = SymbolOf(kind, ci, mm)
    /\ infos[k][ci] = KlassPointer(c) /\ klass[c].stage = "prepared"
    /\ infos[k][i] = PointerOf(kind, owner, mm)
    /\ NearestDeclaring(kind, c, mm, owner)

(* During a test every entry is what the file has or what that names.      *)
EntrySound(k, i) ==
  infos[k][i] = Written(k, i) \/ ClassResolvedAt(k, i) \/ MemberResolvedAt(k, i)
EntriesSound == phase = "test" => \A k \in Klass : \A i \in DOMAIN infos[k] : EntrySound(k, i)

(* The load that a resolution waits for is that of name n by the owner's   *)
(* loader, and has returned what is cached under n, if it has returned.    *)
Awaits(n) ==
  /\ this = klass[request.klass].loader
  /\ stack # <<>> => stack[1].name = n
  /\ stack = <<>> /\ ~ thrown => ret = cache[this][n] /\ ret # Null

(* What a resolution relies on when it continues. *)
RequestSound ==
  request # NoRequest =>
    /\ phase = "test"
    /\ \E l \in LiveLoaders, n \in Name : cache[l][n] = request.klass
    /\ request.index \in DOMAIN Pool /\ request.class_index \in DOMAIN Pool
    /\ request.op = "resolveClass" => request.index = request.class_index /\ request.at # "slot"
    /\ request.op # "resolveClass" /\ request.at # "slot" =>
         Slot.kind = Sym[request.op] /\ request.class_index = Slot.class_index
    /\ IF request.at = "load"
         THEN \E n \in Name : ClassEntry = SymRef_Class(n) /\ Awaits(n)
         ELSE stack = <<>>
    /\ request.at = "target" => ClassEntry = KlassPointer(request.target)

Resolving == Linking /\ Hierarchy /\ PoolShape /\ EntriesSound /\ RequestSound

(* The files of the made classes and what they declare.                    *)
LEMMA MadeBodies ==
  ASSUME Shape, PoolShape, NEW k \in Klass, ~ Unmade(k)
  PROVE  /\ klass[k].file \in Files
         /\ PoolOf(k) \in Seq(Symbol(DOMAIN PoolOf(k)))
         /\ bodies[klass[k].file].methods \subseteq Member
         /\ bodies[klass[k].file].fields \subseteq Member
<1>1. klass[k].file \in Files
  BY DEF Shape, KlassHasFile, Unmade
<1>2. disk \in Disks /\ bodies \in Bodies(disk)
  BY DEF Shape, TypeOK, PoolShape, PoolTypeOK
<1>3. IsBody(bodies[klass[k].file])
  BY <1>1, <1>2, BodiesAssumption
<1> QED  BY <1>1, <1>3 DEF IsBody, PoolOf

(* An index of infos_ is an index of the file's pool, and leads to entries *)
(* of it.                                                                  *)
LEMMA Indices ==
  ASSUME Shape, PoolShape, NEW k \in Klass, NEW i \in DOMAIN infos[k]
  PROVE  /\ ~ Unmade(k) /\ DOMAIN PoolOf(k) = DOMAIN infos[k] /\ DOMAIN infos[k] = 1 .. Len(infos[k])
         /\ i \in Nat
         /\ Written(k, i) \in Symbol(DOMAIN infos[k])
         /\ infos[k][i] \in Resolved \cup Symbol(DOMAIN infos[k])
<1>1. infos[k] \in Seq(Resolved \cup Symbol(DOMAIN infos[k]))
  BY DEF PoolShape, PoolTypeOK
<1>2. Len(infos[k]) \in Nat /\ DOMAIN infos[k] = 1 .. Len(infos[k])
  BY <1>1, LenProperties
<1>3. infos[k][i] \in Resolved \cup Symbol(DOMAIN infos[k])
  BY <1>1, <1>2, ElementOfSeq
<1>4. ~ Unmade(k)
  BY DEF PoolShape
<1>5. PoolOf(k) \in Seq(Symbol(DOMAIN PoolOf(k))) /\ Len(infos[k]) = Len(PoolOf(k))
  BY <1>4, MadeBodies DEF PoolShape
<1>6. DOMAIN PoolOf(k) = DOMAIN infos[k]
  BY <1>2, <1>5, LenProperties
<1>7. PoolOf(k)[i] \in Symbol(DOMAIN infos[k])
  BY <1>2, <1>5, <1>6, ElementOfSeq
<1> QED  BY <1>2, <1>3, <1>4, <1>6, <1>7 DEF Written, PoolOf

-----------------------------------------------------------------------------
(* What a step of the loader or the fixture does to the pools.             *)

(* The Klass objects that a step other than the reset of SetUp leaves.     *)
LEMMA FixtureObjects ==
  ASSUME Linking, [FixtureNext]_fixtureVars, NEW k \in Klass
  PROVE  Kept(k) \/ Renewed(k) \/ Linked(k) \/ \A j \in Klass : klass'[j].stage = "free"
<1>1. CASE Running_loadClass
  BY <1>1, ObjectSteps DEF Running_loadClass, Linking, Base
<1>2. CASE \E l \in Addr, path \in Classpaths : SetUp(l, path)
  BY <1>2, SetUpFrees DEF Linking
<1>3. CASE UNCHANGED klass
  BY <1>3 DEF Kept
<1> QED  BY <1>1, <1>2, <1>3
         DEF FixtureNext, BodyNewLoader, NewLoader, BodyLoadClass, CallLoadClass, TearDown, heap,
             fixtureVars, vars

SamePool(k) ==
  /\ ~ Unmade(k) /\ ~ Unmade(k)' /\ infos'[k] = infos[k]
  /\ klass'[k].file = klass[k].file /\ klass'[k].loader = klass[k].loader
NewPool(k) ==
  /\ klass[k].stage = "linking" /\ ~ Unmade(k)' /\ infos'[k] = PoolOf(k)
  /\ klass'[k].file = klass[k].file
NoPool(k) == Unmade(k)' /\ infos'[k] = <<>>

LEMMA PoolSteps ==
  ASSUME Linking, [FixtureNext]_fixtureVars, PoolsFollow, NEW k \in Klass
  PROVE  SamePool(k) \/ NewPool(k) \/ NoPool(k)
<1>1. CASE Kept(k)
  BY <1>1 DEF Kept, PoolsFollow, SamePool, NewPool, NoPool, Unmade, PoolOf, Linking, Base, Shape, TypeOK, KlassObject, Stage
<1>2. CASE Renewed(k) \/ Linked(k) \/ klass'[k].stage = "free"
  BY <1>2 DEF Renewed, Linked, PoolsFollow, NoPool, Unmade
<1> QED  BY <1>1, <1>2, FixtureObjects

LEMMA FixtureKeepsShape ==
  ASSUME Linking, PoolShape, [FixtureNext]_fixtureVars, PoolsFollow,
         UNCHANGED <<bodies, request, answer>>
  PROVE  PoolShape'
<1>0. Shape /\ UNCHANGED disk
  <2>1. CASE Running_loadClass
    BY <2>1, LoadClassGrows DEF Running_loadClass, Linking, Base, Grows, world
  <2>2. CASE ~ Running_loadClass
    BY <2>2, FixtureStack DEF Linking, Base
  <2> QED  BY <2>1, <2>2 DEF Linking, Base
<1>1. \A k \in Klass : SamePool(k) \/ NewPool(k) \/ NoPool(k)
  BY PoolSteps
<1>2. ASSUME NEW k \in Klass
      PROVE  /\ infos'[k] \in Seq(Resolved \cup Symbol(DOMAIN infos'[k]))
             /\ IF Unmade(k)' THEN infos'[k] = <<>> ELSE Len(infos'[k]) = Len(PoolOf(k)')
  <2>1. CASE SamePool(k)
    BY <2>1 DEF SamePool, PoolShape, PoolTypeOK, PoolOf
  <2>2. CASE NewPool(k)
    <3>1. klass[k].file \in Files
      BY <1>0, <2>2 DEF NewPool, Shape, KlassHasFile
    <3>2. disk \in Disks /\ bodies \in Bodies(disk)
      BY <1>0 DEF Shape, TypeOK, PoolShape, PoolTypeOK
    <3>3. IsBody(bodies[klass[k].file])
      BY <3>1, <3>2, BodiesAssumption
    <3>4. infos'[k] \in Seq(Symbol(DOMAIN infos'[k]))
      BY <2>2, <3>3 DEF NewPool, IsBody, PoolOf
    <3>5. infos'[k] \in Seq(Resolved \cup Symbol(DOMAIN infos'[k]))
      BY <3>4, SeqMonotonic
    <3> QED  BY <2>2, <3>5 DEF NewPool, PoolOf
  <2>3. CASE NoPool(k)
    BY <2>3, EmptySeq DEF NoPool
  <2> QED  BY <1>1, <2>1, <2>2, <2>3
<1>3. infos' = [k \in Klass |-> infos'[k]]
  BY DEF PoolsFollow
<1> QED  BY <1>0, <1>2, <1>3 DEF PoolShape, PoolTypeOK

(* Within a test nothing that is published is taken back.                  *)
LEMMA TestGrows ==
  ASSUME Base, [FixtureNext]_fixtureVars, phase = "test", phase' = "test"
  PROVE  /\ \A l \in Addr, n \in Name : cache[l][n] # Null => cache'[l][n] = cache[l][n]
         /\ \A k \in Klass : klass[k].stage = "prepared" => klass'[k] = klass[k]
         /\ \A l \in Addr : paths[l] # Null => paths'[l] = paths[l]
<1>1. CASE Running_loadClass
  BY <1>1, LoadClassGrows DEF Running_loadClass, Base, Grows, world
<1>2. CASE \E l \in Addr, path \in Classpaths : BodyNewLoader(l, path)
  <2>1. PICK l \in Addr, path \in Classpaths : BodyNewLoader(l, path)
    BY <1>2
  <2>2. \A n \in Name : cache[l][n] = Null
    BY <2>1 DEF BodyNewLoader, NewLoader, Base, PhaseSound, EmptyCache
  <2> QED  BY <2>1, <2>2, Typed DEF BodyNewLoader, NewLoader, heap, Base
<1>3. CASE UNCHANGED <<cache, klass, paths>>
  BY <1>3
<1> QED  BY <1>1, <1>2, <1>3
         DEF FixtureNext, SetUp, BodyLoadClass, CallLoadClass, TearDown, heap, world, fixtureVars, vars

(* A prepared class keeps its lineage.                                     *)
Steady ==
  /\ SupersTyped /\ SupersPrepared /\ SupersTyped'
  /\ \A k \in Klass : klass[k].stage = "prepared" => klass'[k] = klass[k]

LEMMA LineagePrepared ==
  ASSUME SupersTyped, SupersPrepared, NEW k \in Klass, klass[k].stage = "prepared"
  PROVE  \A c \in Lineage(k) : c \in Klass /\ klass[c].stage = "prepared"
<1> DEFINE P == {c \in Klass : klass[c].stage = "prepared"}
<1>1. P \in SUBSET Klass /\ k \in P /\ ClosedUp(P)
  BY DEF ClosedUp, SupersTyped, SupersPrepared
<1>2. Lineage(k) \subseteq P
  BY <1>1, LineageLeast
<1> QED  BY <1>2

LEMMA LineageStays ==
  ASSUME Steady, NEW k \in Klass, klass[k].stage = "prepared"
  PROVE  Lineage(k)' = Lineage(k)
<1>0. SupersTyped /\ SupersPrepared
  BY DEF Steady
<1>1. \A c \in Lineage(k) : c \in Klass /\ klass'[c] = klass[c]
  BY <1>0, LineagePrepared DEF Steady
<1>2. k \in Lineage(k) /\ ClosedUp(Lineage(k))
  BY <1>0, LineageClosed
<1>3. Lineage(k)' \subseteq Lineage(k)
  <2>1. Lineage(k) \in SUBSET Klass /\ \A s \in Lineage(k) : klass'[s].super \in Lineage(k) \cup {Null}
    BY <1>1, <1>2 DEF ClosedUp
  <2>2. \A S \in SUBSET Klass :
          k \in S /\ (\A s \in S : klass'[s].super \in S \cup {Null}) => Lineage(k)' \subseteq S
    BY DEF Lineage
  <2> QED  BY <1>2, <2>1, <2>2
<1>4. /\ k \in Lineage(k)' /\ Lineage(k)' \subseteq Klass
      /\ \A c \in Lineage(k)' : klass'[c].super \in Lineage(k)' \cup {Null}
  <2>2. k \in Lineage(k)' /\ Lineage(k)' \subseteq Klass
    BY DEF Lineage
  <2>3. ASSUME NEW c \in Lineage(k)', klass'[c].super # Null
        PROVE  klass'[c].super \in Lineage(k)'
    <3>1. klass'[c].super \in Klass
      BY <2>2, <2>3 DEF Steady, SupersTyped
    <3>2. ASSUME NEW S \in SUBSET Klass, k \in S, \A s \in S : klass'[s].super \in S \cup {Null}
          PROVE  klass'[c].super \in S
      <4>1. c \in S
        BY <3>2 DEF Lineage
      <4> QED  BY <2>3, <3>2, <4>1
    <3> QED  BY <3>1, <3>2 DEF Lineage
  <2> QED  BY <2>2, <2>3
<1>5. ClosedUp(Lineage(k)') /\ Lineage(k)' \in SUBSET Klass
  BY <1>1, <1>3, <1>4 DEF ClosedUp
<1>6. Lineage(k) \subseteq Lineage(k)'
  BY <1>4, <1>5, LineageLeast
<1> QED  BY <1>3, <1>6

LEMMA NearestStays ==
  ASSUME Steady, UNCHANGED bodies, NEW c \in Klass, klass[c].stage = "prepared",
         NEW kind, NEW mm, NEW owner \in Klass \cup {Null}, NearestDeclaring(kind, c, mm, owner)
  PROVE  NearestDeclaring(kind, c, mm, owner)'
<1> DEFINE declaring == {d \in Lineage(c) : mm \in Declared(kind, d)}
<1>1. SupersTyped /\ SupersPrepared
  BY DEF Steady
<1>2. \A d \in Lineage(c) : d \in Klass /\ klass[d].stage = "prepared" /\ Declared(kind, d)' = Declared(kind, d)
  BY <1>1, LineagePrepared DEF Steady, Declared
<1>3. Lineage(c)' = Lineage(c)
  BY LineageStays
<1>4. {d \in Lineage(c)' : mm \in Declared(kind, d)'} = declaring
  BY <1>2, <1>3
<1>5. CASE owner = Null
  BY <1>4, <1>5 DEF NearestDeclaring
<1>6. CASE owner # Null
  <2>1. owner \in Lineage(c) /\ owner \in declaring /\ declaring \subseteq Lineage(owner)
    BY <1>6 DEF NearestDeclaring
  <2>2. Lineage(owner)' = Lineage(owner)
    BY <1>2, <2>1, LineageStays
  <2> QED  BY <1>4, <1>6, <2>1, <2>2 DEF NearestDeclaring
<1> QED  BY <1>5, <1>6

LEMMA SteadyTest ==
  ASSUME Linking, Hierarchy, Linking', [FixtureNext]_fixtureVars, phase = "test", phase' = "test"
  PROVE  Steady
<1>1. SupersTyped /\ SupersTyped'
  <2>1. klass \in [Klass -> KlassObject] /\ klass' \in [Klass -> KlassObject]
    BY DEF Linking, Base, Shape, TypeOK
  <2> QED  BY <2>1 DEF SupersTyped, KlassObject
<1> QED  BY <1>1, TestGrows DEF Steady, Hierarchy, Linking

(* An entry of a pool that stays remains sound.                            *)
LEMMA EntryStays ==
  ASSUME Steady, UNCHANGED bodies,
         \A l \in Addr, n \in Name : cache[l][n] # Null => cache'[l][n] = cache[l][n],
         NEW k \in Klass, NEW i \in DOMAIN infos[k], EntrySound(k, i),
         infos'[k] = infos[k],
         klass'[k].file = klass[k].file, klass'[k].loader = klass[k].loader
  PROVE  EntrySound(k, i)'
<1>1. Written(k, i)' = Written(k, i)
  BY DEF Written
<1>2. CASE infos[k][i] = Written(k, i)
  BY <1>1, <1>2 DEF EntrySound
<1>3. CASE ClassResolvedAt(k, i)
  <2>1. PICK n \in Name : /\ klass[k].loader \in Addr
                          /\ Written(k, i) = SymRef_Class(n)
                          /\ cache[klass[k].loader][n] # Null
                          /\ infos[k][i] = KlassPointer(cache[klass[k].loader][n])
    BY <1>3 DEF ClassResolvedAt
  <2>2. cache'[klass[k].loader][n] = cache[klass[k].loader][n]
    BY <2>1
  <2>3. ClassResolvedAt(k, i)'
    BY <1>1, <2>1, <2>2 DEF ClassResolvedAt
  <2> QED  BY <2>3 DEF EntrySound
<1>4. CASE MemberResolvedAt(k, i)
  <2>1. PICK kind \in {"Field", "Method"}, ci \in DOMAIN infos[k], mm \in Member, c \in Klass,
             owner \in Klass \cup {Null} :
          /\ Written(k, i) = SymbolOf(kind, ci, mm)
          /\ infos[k][ci] = KlassPointer(c) /\ klass[c].stage = "prepared"
          /\ infos[k][i] = PointerOf(kind, owner, mm)
          /\ NearestDeclaring(kind, c, mm, owner)
    BY <1>4 DEF MemberResolvedAt
  <2>2. NearestDeclaring(kind, c, mm, owner)'
    BY <2>1, NearestStays
  <2>3. klass'[c].stage = "prepared"
    BY <2>1 DEF Steady
  <2>4. MemberResolvedAt(k, i)'
    BY <1>1, <2>1, <2>2, <2>3 DEF MemberResolvedAt
  <2> QED  BY <2>4 DEF EntrySound
<1> QED  BY <1>2, <1>3, <1>4 DEF EntrySound

LEMMA FixtureKeepsEntries ==
  ASSUME Linking, Linking', Hierarchy, PoolShape, EntriesSound, [FixtureNext]_fixtureVars,
         PoolsFollow, UNCHANGED <<bodies, request, answer>>
  PROVE  EntriesSound'
<1> SUFFICES ASSUME phase' = "test", NEW k \in Klass, NEW i \in DOMAIN infos'[k]
             PROVE  EntrySound(k, i)'
  BY DEF EntriesSound
<1>0. ~ NoPool(k)
  BY DEF NoPool
<1>1. SamePool(k) \/ NewPool(k)
  BY <1>0, PoolSteps
<1>2. CASE NewPool(k)
  BY <1>2 DEF NewPool, EntrySound, Written, PoolOf
<1>3. CASE SamePool(k)
  <2>1. phase = "test"
    <3>1. ASSUME NEW l \in Addr, NEW path \in Classpaths, SetUp(l, path)
          PROVE  klass'[k].stage = "free"
      BY <3>1, SetUpFrees DEF Linking
    <3>2. ~ \E l \in Addr, path \in Classpaths : SetUp(l, path)
      BY <1>3, <3>1 DEF SamePool, Unmade
    <3>3. CASE FixtureNext
      BY <3>2, <3>3 DEF FixtureNext, Running_loadClass, BodyNewLoader, BodyLoadClass, TearDown
    <3>4. CASE UNCHANGED fixtureVars
      BY <3>4 DEF fixtureVars
    <3> QED  BY <3>3, <3>4
  <2>2. Steady
    BY <2>1, SteadyTest
  <2>3. EntrySound(k, i) /\ i \in DOMAIN infos[k]
    BY <1>3, <2>1 DEF SamePool, EntriesSound
  <2>4. \A l \in Addr, n \in Name : cache[l][n] # Null => cache'[l][n] = cache[l][n]
    BY <2>1, TestGrows DEF Linking
  <2> QED  BY <1>3, <2>2, <2>3, <2>4, EntryStays DEF SamePool, Linking, Base
<1> QED  BY <1>1, <1>2, <1>3

-----------------------------------------------------------------------------
(* The steps of the loader while a resolution waits, and those of a test.  *)

(* The outermost call stays until it returns what the cache holds.         *)
LEMMA BottomStays ==
  ASSUME Base, Running_loadClass, NEW n \in Name, stack[1].name = n
  PROVE  /\ stack' # <<>> => stack'[1].name = n
         /\ stack' = <<>> /\ ~ thrown' => ret' # Null /\ ret' = cache'[this][n]
<1>0. Shape /\ stack # <<>> /\ StackStep /\ FixtureNext
  BY LoadClassStack DEF Base, Running_loadClass, FixtureNext
<1>1. Len(stack) \in Nat /\ Len(stack) # 0 /\ DOMAIN stack = 1 .. Len(stack)
  BY <1>0, TopInStack DEF Shape
<1>2. CASE Throws \/ Faults
  BY <1>0, <1>2 DEF Throws, Faults
<1>3. ASSUME NEW p \in Name, Nests(p)
      PROVE  stack' # <<>> /\ stack'[1].name = n
  BY <1>0, <1>1, <1>3, PushFacts DEF Nests, Shape
<1>4. CASE Returns
  <2>1. CASE Len(stack) = 1
    <3>1. stack' = <<>>
      BY <1>0, <1>1, <1>4, <2>1, PopFacts DEF Returns, Shape
    <3> QED  BY <1>0, <2>1, <3>1, ReturnStep
  <2>2. CASE Len(stack) # 1
    BY <1>0, <1>1, <1>4, <2>2, PopFacts DEF Returns, Shape
  <2> QED  BY <2>1, <2>2
<1>5. ASSUME NEW a \in Activation, Moves(a)
      PROVE  stack' # <<>> /\ stack'[1].name = n
  BY <1>0, <1>1, <1>5, SetTopFacts DEF Moves, Shape, Top
<1> QED  BY <1>0, <1>2, <1>3, <1>4, <1>5 DEF StackStep

-----------------------------------------------------------------------------
(* findMethod and findField find the nearest class that declares a member. *)

LEMMA NearestOfPrepared ==
  ASSUME SupersTyped, SupersPrepared, NEW k \in Klass, klass[k].stage = "prepared",
         NEW kind, NEW mm, NEW D \in SUBSET Klass, NEW owner,
         \A c \in Klass : klass[c].stage = "prepared" => (c \in D <=> mm \in Declared(kind, c)),
         NearestIn(D, k, owner)
  PROVE  NearestDeclaring(kind, k, mm, owner) /\ owner \in Klass \cup {Null}
<1>1. \A c \in Lineage(k) : c \in Klass /\ klass[c].stage = "prepared"
  BY LineagePrepared
<1>2. {c \in Lineage(k) : mm \in Declared(kind, c)} = Lineage(k) \cap D
  BY <1>1
<1>3. NearestDeclaring(kind, k, mm, owner)
  BY <1>2 DEF NearestDeclaring, NearestIn
<1> QED  BY <1>1, <1>3 DEF NearestIn

LEMMA FindMethodFinds ==
  ASSUME SupersTyped, Hierarchy, NEW k \in Klass, klass[k].stage = "prepared", NEW mm
  PROVE  /\ NearestDeclaring("Method", k, mm, findMethod(k, mm))
         /\ findMethod(k, mm) \in Klass \cup {Null}
<1> DEFINE D == {c \in Klass : mm \in Methods(c)}
           searches(f) == f = [c \in Klass |-> IF mm \in Methods(c) THEN c
                                               ELSE IF klass[c].super = Null THEN Null
                                               ELSE f[klass[c].super]]
<1>0. SupersPrepared /\ NoCircle /\ D \in SUBSET Klass
  BY DEF Hierarchy
<1>1. \A f : searches(f) <=> Searches(f, D)
  BY DEF Searches
<1>2. \E f : searches(f)
  BY <1>0, <1>1, SearchExists
<1>3. searches(CHOOSE f : searches(f))
  BY <1>2
<1>4. PICK f : f = (CHOOSE g : searches(g)) /\ Searches(f, D)
  BY <1>1, <1>3
<1>5. NearestIn(D, k, findMethod(k, mm))
  <2>1. findMethod(k, mm) = f[k]
    BY <1>4 DEF findMethod
  <2> HIDE DEF D
  <2>2. NearestIn(D, k, f[k])
    BY <1>0, <1>4, SearchFinds
  <2> QED  BY <2>1, <2>2
<1>6. \A c \in Klass : klass[c].stage = "prepared" => (c \in D <=> mm \in Declared("Method", c))
  BY DEF Methods, Declared
<1> QED  BY <1>0, <1>5, <1>6, NearestOfPrepared

LEMMA FindFieldFinds ==
  ASSUME SupersTyped, Hierarchy, NEW k \in Klass, klass[k].stage = "prepared", NEW mm
  PROVE  /\ NearestDeclaring("Field", k, mm, findField(k, mm))
         /\ findField(k, mm) \in Klass \cup {Null}
<1> DEFINE D == {c \in Klass : mm \in Fields(c)}
           searches(f) == f = [c \in Klass |-> IF mm \in Fields(c) THEN c
                                               ELSE IF klass[c].super = Null THEN Null
                                               ELSE f[klass[c].super]]
<1>0. SupersPrepared /\ NoCircle /\ D \in SUBSET Klass
  BY DEF Hierarchy
<1>1. \A f : searches(f) <=> Searches(f, D)
  BY DEF Searches
<1>2. \E f : searches(f)
  BY <1>0, <1>1, SearchExists
<1>3. searches(CHOOSE f : searches(f))
  BY <1>2
<1>4. PICK f : f = (CHOOSE g : searches(g)) /\ Searches(f, D)
  BY <1>1, <1>3
<1>5. NearestIn(D, k, findField(k, mm))
  <2>1. findField(k, mm) = f[k]
    BY <1>4 DEF findField
  <2> HIDE DEF D
  <2>2. NearestIn(D, k, f[k])
    BY <1>0, <1>4, SearchFinds
  <2> QED  BY <2>1, <2>2
<1>6. \A c \in Klass : klass[c].stage = "prepared" => (c \in D <=> mm \in Declared("Field", c))
  BY DEF Fields, Declared
<1> QED  BY <1>0, <1>5, <1>6, NearestOfPrepared

-----------------------------------------------------------------------------
(* The steps of a resolution.                                              *)

(* A Klass that a loader has cached is prepared, and knows that loader.    *)
LEMMA CachedFacts ==
  ASSUME Base, NEW l \in LiveLoaders, NEW n \in Name, NEW k, cache[l][n] = k, k # Null
  PROVE  k \in Klass /\ klass[k].stage = "prepared" /\ klass[k].loader = l /\ l \in Addr
<1>1. cache \in [Addr -> [Name -> Klass \cup {Null}]] /\ CacheSound /\ l \in Addr
  BY DEF Base, Shape, TypeOK, LiveLoaders
<1>2. k \in Klass
  BY <1>1
<1>3. klass[cache[l][n]].stage = "prepared" /\ klass[cache[l][n]].loader = l
  BY <1>1 DEF CacheSound
<1> QED  BY <1>1, <1>2, <1>3

LEMMA OwnerFacts ==
  ASSUME Base, PoolShape, RequestSound, request # NoRequest
  PROVE  /\ request \in Request /\ request.klass \in Klass /\ request.op \in Op
         /\ klass[request.klass].stage = "prepared" /\ ~ Unmade(request.klass)
         /\ klass[request.klass].loader \in LiveLoaders
         /\ request.index \in DOMAIN Pool /\ request.class_index \in DOMAIN Pool
<1>1. request \in Request /\ request.klass \in Klass /\ request.op \in Op
  BY DEF PoolShape, PoolTypeOK, Request
<1>2. PICK l \in LiveLoaders, n \in Name : cache[l][n] = request.klass
  BY DEF RequestSound
<1>3. klass[request.klass].stage = "prepared" /\ klass[request.klass].loader = l
  BY <1>1, <1>2, CachedFacts, NullAssumption
<1> QED  BY <1>1, <1>2, <1>3 DEF RequestSound, Unmade

(* infos_[i] of k's pool is assigned.                                      *)
LEMMA SetEntry ==
  ASSUME PoolShape, NEW k \in Klass, NEW i \in DOMAIN infos[k], NEW e \in Resolved,
         infos' = [infos EXCEPT ![k][i] = e]
  PROVE  /\ infos' = [j \in Klass |-> infos'[j]]
         /\ \A j \in Klass : j # k => infos'[j] = infos[j]
         /\ infos'[k] \in Seq(Resolved \cup Symbol(DOMAIN infos'[k]))
         /\ Len(infos'[k]) = Len(infos[k]) /\ DOMAIN infos'[k] = DOMAIN infos[k]
         /\ infos'[k][i] = e
         /\ \A j \in DOMAIN infos[k] : j # i => infos'[k][j] = infos[k][j]
<1>1. infos = [j \in Klass |-> infos[j]]
  BY DEF PoolShape
<1>2. infos' = [infos EXCEPT ![k] = [infos[k] EXCEPT ![i] = e]]
  BY <1>1
<1>3. infos'[k] = [infos[k] EXCEPT ![i] = e] /\ \A j \in Klass : j # k => infos'[j] = infos[j]
  BY <1>1, <1>2
<1>4. infos' = [j \in Klass |-> infos'[j]]
  BY <1>1, <1>2
<1> DEFINE Cells == Resolved \cup Symbol(DOMAIN infos[k])
<1>5. infos[k] \in Seq(Cells) /\ e \in Cells
  BY DEF PoolShape, PoolTypeOK
<1> HIDE DEF Cells
<1>6. DOMAIN infos[k] = 1 .. Len(infos[k])
  BY <1>5, LenProperties
<1>7. /\ infos'[k] \in Seq(Cells) /\ Len(infos'[k]) = Len(infos[k])
      /\ \A j \in DOMAIN infos[k] : infos'[k][j] = IF j = i THEN e ELSE infos[k][j]
  BY <1>3, <1>5, <1>6, ExceptSeq
<1>8. DOMAIN infos'[k] = DOMAIN infos[k]
  BY <1>6, <1>7, LenProperties
<1>9. infos'[k] \in Seq(Resolved \cup Symbol(DOMAIN infos'[k]))
  BY <1>7, <1>8 DEF Cells
<1> QED  BY <1>3, <1>4, <1>7, <1>8, <1>9

LEMMA SetKeepsShape ==
  ASSUME PoolShape, NEW k \in Klass, NEW i \in DOMAIN infos[k], NEW e \in Resolved,
         infos' = [infos EXCEPT ![k][i] = e], UNCHANGED <<disk, klass, bodies>>,
         request' \in Request \cup {NoRequest}, answer' \in Resolved \cup {NoAnswer}
  PROVE  PoolShape'
<1>1. \A j \in Klass : infos'[j] \in Seq(Resolved \cup Symbol(DOMAIN infos'[j]))
  BY SetEntry DEF PoolShape, PoolTypeOK
<1>2. PoolTypeOK'
  BY <1>1 DEF PoolShape, PoolTypeOK
<1>3. ASSUME NEW j \in Klass
      PROVE  IF Unmade(j)' THEN infos'[j] = <<>> ELSE Len(infos'[j]) = Len(PoolOf(j)')
  <2>1. Unmade(j)' = Unmade(j) /\ PoolOf(j)' = PoolOf(j)
    BY DEF Unmade, PoolOf
  <2>2. IF Unmade(j) THEN infos[j] = <<>> ELSE Len(infos[j]) = Len(PoolOf(j))
    BY DEF PoolShape
  <2>3. Unmade(j) => j # k
    BY <2>2
  <2> QED  BY <2>1, <2>2, <2>3, SetEntry
<1> QED  BY <1>2, <1>3, SetEntry DEF PoolShape

(* An assignment to an entry that is no class pointer leaves the others    *)
(* sound.                                                                  *)
LEMMA SetKeepsEntries ==
  ASSUME Shape, PoolShape, EntriesSound, NEW k \in Klass, NEW i \in DOMAIN infos[k], NEW e \in Resolved,
         infos' = [infos EXCEPT ![k][i] = e], UNCHANGED <<fixtureVars, bodies>>,
         infos[k][i].kind # "Klass", EntrySound(k, i)'
  PROVE  EntriesSound'
<1> USE DEF fixtureVars, vars
<1> SUFFICES ASSUME phase = "test", NEW j \in Klass, NEW p \in DOMAIN infos'[j]
             PROVE  EntrySound(j, p)'
  BY DEF EntriesSound
<1>1. CASE j # k
  <2>1. infos'[j] = infos[j]
    BY <1>1, SetEntry
  <2>2. EntrySound(j, p)
    BY <2>1 DEF EntriesSound
  <2>3. Written(j, p)' = Written(j, p)
    BY DEF Written
  <2>4. ClassResolvedAt(j, p) => ClassResolvedAt(j, p)'
    BY <2>1, <2>3 DEF ClassResolvedAt
  <2>5. \A kind, c, mm, owner : NearestDeclaring(kind, c, mm, owner)' = NearestDeclaring(kind, c, mm, owner)
    BY DEF NearestDeclaring, Declared, Lineage
  <2>6. MemberResolvedAt(j, p) => MemberResolvedAt(j, p)'
    BY <2>1, <2>3, <2>5 DEF MemberResolvedAt
  <2> QED  BY <2>1, <2>2, <2>3, <2>4, <2>6 DEF EntrySound
<1>2. CASE j = k /\ p # i
  <2>1. infos'[j][p] = infos[j][p] /\ p \in DOMAIN infos[j] /\ DOMAIN infos'[j] = DOMAIN infos[j]
    BY <1>2, SetEntry
  <2>2. EntrySound(j, p) /\ Written(j, p)' = Written(j, p)
    BY <2>1 DEF EntriesSound, Written
  <2>3. ClassResolvedAt(j, p) => ClassResolvedAt(j, p)'
    BY <2>1, <2>2 DEF ClassResolvedAt
  <2>4. ASSUME MemberResolvedAt(j, p) PROVE MemberResolvedAt(j, p)'
    <3>1. PICK kind \in {"Field", "Method"}, ci \in DOMAIN infos[j], mm \in Member, c \in Klass,
               owner \in Klass \cup {Null} :
            /\ Written(j, p) = SymbolOf(kind, ci, mm)
            /\ infos[j][ci] = KlassPointer(c) /\ klass[c].stage = "prepared"
            /\ infos[j][p] = PointerOf(kind, owner, mm)
            /\ NearestDeclaring(kind, c, mm, owner)
      BY <2>4 DEF MemberResolvedAt
    <3>2. ci # i
      BY <1>2, <3>1 DEF KlassPointer
    <3>3. infos'[j][ci] = infos[j][ci]
      BY <1>2, <3>2, SetEntry
    <3>4. NearestDeclaring(kind, c, mm, owner)'
      BY <3>1 DEF NearestDeclaring, Declared, Lineage
    <3> QED  BY <2>1, <2>2, <3>1, <3>3, <3>4 DEF MemberResolvedAt
  <2> QED  BY <2>1, <2>2, <2>3, <2>4 DEF EntrySound
<1>3. CASE j = k /\ p = i
  BY <1>3
<1> QED  BY <1>1, <1>2, <1>3

(* What the kind of an entry says about it.                                *)
LEMMA EntryKinds ==
  ASSUME NEW Index, NEW e \in Resolved \cup Symbol(Index)
  PROVE  /\ e.kind = "Klass" => e = KlassPointer(e.klass) /\ e.klass \in Klass
         /\ e.kind = "SymRef_Class" => e = SymRef_Class(e.name) /\ e.name \in Name \cup {Null}
         /\ e.kind = "SymRef_Field" =>
              e = SymRef_Field(e.class_index, e.member) /\ e.class_index \in Index /\ e.member \in Member \cup {Null}
         /\ e.kind = "SymRef_Method" =>
              e = SymRef_Method(e.class_index, e.member) /\ e.class_index \in Index /\ e.member \in Member \cup {Null}
         /\ e.kind \in {"Klass", "Field", "Method"} => e \in Resolved
<1> USE DEF KlassPointer, FieldPointer, MethodPointer, SymRef_Class, SymRef_Field, SymRef_Method, Other
<1>1. CASE e = Other
  BY <1>1
<1>2. CASE \E n \in Name \cup {Null} : e = SymRef_Class(n)
  BY <1>2
<1>3. CASE \E ci \in Index, mm \in Member \cup {Null} : e = SymRef_Field(ci, mm)
  BY <1>3
<1>4. CASE \E ci \in Index, mm \in Member \cup {Null} : e = SymRef_Method(ci, mm)
  BY <1>4
<1>5. CASE e \in Resolved /\ \E k \in Klass : e = KlassPointer(k)
  BY <1>5
<1>6. CASE e \in Resolved /\ \E k \in Klass \cup {Null}, mm \in Member : e = FieldPointer(k, mm)
  BY <1>6
<1>7. CASE e \in Resolved /\ \E k \in Klass \cup {Null}, mm \in Member : e = MethodPointer(k, mm)
  BY <1>7
<1>8. \/ e = Other
      \/ \E n \in Name \cup {Null} : e = SymRef_Class(n)
      \/ \E ci \in Index, mm \in Member \cup {Null} : e = SymRef_Field(ci, mm)
      \/ \E ci \in Index, mm \in Member \cup {Null} : e = SymRef_Method(ci, mm)
      \/ e \in Resolved
  BY DEF Symbol
<1>9. e \in Resolved =>
        \/ \E k \in Klass : e = KlassPointer(k)
        \/ \E k \in Klass \cup {Null}, mm \in Member : e = FieldPointer(k, mm)
        \/ \E k \in Klass \cup {Null}, mm \in Member : e = MethodPointer(k, mm)
  BY DEF Resolved
<1> QED  BY <1>1, <1>2, <1>3, <1>4, <1>5, <1>6, <1>7, <1>8, <1>9

(* A sound entry that is symbolic is still what the file has, and one that *)
(* is a pointer stands where the file has its symbolic reference.          *)
LEMMA SoundKinds ==
  ASSUME Shape, PoolShape, NEW k \in Klass, NEW i \in DOMAIN infos[k], EntrySound(k, i)
  PROVE  /\ \/ infos[k][i] = Written(k, i) /\ infos[k][i].kind \notin {"Klass", "Field", "Method"}
            \/ infos[k][i].kind = "Klass" /\ Written(k, i).kind = "SymRef_Class" /\ ClassResolvedAt(k, i)
            \/ infos[k][i].kind = "Field" /\ Written(k, i).kind = "SymRef_Field" /\ MemberResolvedAt(k, i)
            \/ infos[k][i].kind = "Method" /\ Written(k, i).kind = "SymRef_Method" /\ MemberResolvedAt(k, i)
<1> USE DEF KlassPointer, FieldPointer, MethodPointer, SymRef_Class, SymRef_Field, SymRef_Method, Other
<1>1. Written(k, i) \in Symbol(DOMAIN infos[k])
  BY Indices
<1>2. Written(k, i).kind \notin {"Klass", "Field", "Method"}
  BY <1>1 DEF Symbol
<1>3. CASE infos[k][i] = Written(k, i)
  BY <1>2, <1>3
<1>4. CASE ClassResolvedAt(k, i)
  BY <1>4 DEF ClassResolvedAt
<1>5. CASE MemberResolvedAt(k, i)
  BY <1>5 DEF MemberResolvedAt, SymbolOf, PointerOf
<1> QED  BY <1>3, <1>4, <1>5 DEF EntrySound

(* The entries that a resolution looks at.                                 *)
LEMMA RequestEntries ==
  ASSUME Linking, PoolShape, EntriesSound, RequestSound, request # NoRequest
  PROVE  /\ Slot \in Resolved \cup Symbol(DOMAIN Pool) /\ ClassEntry \in Resolved \cup Symbol(DOMAIN Pool)
         /\ EntrySound(request.klass, request.index) /\ EntrySound(request.klass, request.class_index)
         /\ Slot = infos[request.klass][request.index]
         /\ ClassEntry = infos[request.klass][request.class_index]
<1>1. /\ request.klass \in Klass /\ request.index \in DOMAIN infos[request.klass]
      /\ request.class_index \in DOMAIN infos[request.klass] /\ phase = "test" /\ Shape
  BY OwnerFacts DEF Linking, Base, RequestSound, Pool
<1>2. /\ Slot = infos[request.klass][request.index]
      /\ ClassEntry = infos[request.klass][request.class_index]
  BY DEF Slot, ClassEntry, Pool
<1> QED  BY <1>1, <1>2, Indices DEF EntriesSound, Pool

(* A step that only moves the request on.                                  *)
LEMMA PoolsUnchanged ==
  ASSUME PoolShape, EntriesSound, UNCHANGED <<disk, klass, cache, phase, bodies, infos>>,
         request' \in Request \cup {NoRequest}, answer' \in Resolved \cup {NoAnswer}
  PROVE  PoolShape' /\ EntriesSound'
<1>1. PoolShape'
  BY DEF PoolShape, PoolTypeOK, Unmade, PoolOf
<1>2. \A kind, c, mm, owner : NearestDeclaring(kind, c, mm, owner)' = NearestDeclaring(kind, c, mm, owner)
  BY DEF NearestDeclaring, Declared, Lineage
<1>3. \A k \in Klass : \A i : MemberResolvedAt(k, i) => MemberResolvedAt(k, i)'
  BY <1>2 DEF MemberResolvedAt, Written
<1>4. \A k \in Klass : \A i : ClassResolvedAt(k, i) => ClassResolvedAt(k, i)'
  BY DEF ClassResolvedAt, Written
<1>5. \A k \in Klass : \A i : EntrySound(k, i) => EntrySound(k, i)'
  BY <1>3, <1>4 DEF EntrySound, Written
<1> QED  BY <1>1, <1>5 DEF EntriesSound

Waiting == Linking /\ PoolShape /\ EntriesSound /\ RequestSound /\ request # NoRequest

LEMMA RequestEnds ==
  ASSUME Waiting, request' = NoRequest, answer' \in Resolved \cup {NoAnswer},
         UNCHANGED <<fixtureVars, bodies, infos>>
  PROVE  PoolShape' /\ EntriesSound' /\ RequestSound'
BY PoolsUnchanged DEF Waiting, RequestSound, fixtureVars, vars

LEMMA ResolveMemberKeeps ==
  ASSUME Waiting, ResolveMember
  PROVE  PoolShape' /\ EntriesSound' /\ RequestSound'
<1>1. /\ request \in Request /\ request.op \in Op /\ request.at = "slot" /\ Slot.kind = Sym[request.op]
      /\ request' = [request EXCEPT !.at = "class", !.class_index = Slot.class_index]
      /\ UNCHANGED <<fixtureVars, bodies, infos, answer>>
  BY OwnerFacts DEF Waiting, ResolveMember, At, Linking
<1>2. request.op # "resolveClass" /\ RequestSound
  BY <1>1 DEF Waiting, RequestSound
<1>3. Slot.kind \in {"SymRef_Field", "SymRef_Method"}
  BY <1>1, <1>2 DEF Sym, Op
<1>4. Slot \in Resolved \cup Symbol(DOMAIN Pool)
  BY RequestEntries DEF Waiting
<1>5. Slot.class_index \in DOMAIN Pool
  BY <1>3, <1>4, EntryKinds
<1>6. Slot.class_index \in Nat
  <2>1. Slot.class_index \in DOMAIN infos[request.klass] /\ request.klass \in Klass
    BY <1>5, OwnerFacts DEF Pool, Waiting, Linking
  <2> QED  BY <2>1, Indices DEF Waiting, Linking, Base
<1>7. request' \in Request
  BY <1>1, <1>6 DEF Request
<1>8. /\ request'.at = "class" /\ request'.class_index = Slot.class_index /\ request'.op = request.op
      /\ request'.klass = request.klass /\ request'.index = request.index
  BY <1>1 DEF Request
<1>9. PoolShape' /\ EntriesSound'
  BY <1>1, <1>7, PoolsUnchanged DEF Waiting, fixtureVars, vars, PoolShape, PoolTypeOK
<1>10. Slot' = Slot /\ Pool' = Pool
  BY <1>1, <1>8 DEF Slot, Pool
<1>11. request # NoRequest
  BY DEF Waiting
<1>12. RequestSound'
  BY <1>1, <1>2, <1>5, <1>8, <1>10, <1>11 DEF RequestSound, fixtureVars, vars, LiveLoaders
<1> QED  BY <1>9, <1>12

LEMMA ClassResolvedKeeps ==
  ASSUME Waiting, ClassResolved
  PROVE  PoolShape' /\ EntriesSound' /\ RequestSound'
<1>1. /\ request \in Request /\ request.at = "class" /\ ClassEntry.kind = "Klass"
      /\ request' = [request EXCEPT !.at = "target", !.target = ClassEntry.klass]
      /\ UNCHANGED <<fixtureVars, bodies, infos, answer>>
  BY OwnerFacts DEF Waiting, ClassResolved, At, Linking
<1>2. ClassEntry \in Resolved \cup Symbol(DOMAIN Pool)
  BY RequestEntries DEF Waiting
<1>3. ClassEntry = KlassPointer(ClassEntry.klass) /\ ClassEntry.klass \in Klass
  BY <1>1, <1>2, EntryKinds
<1>4. request' \in Request
  BY <1>1, <1>3 DEF Request
<1>5. /\ request'.at = "target" /\ request'.class_index = request.class_index /\ request'.op = request.op
      /\ request'.klass = request.klass /\ request'.index = request.index
      /\ request'.target = ClassEntry.klass
  BY <1>1 DEF Request
<1>6. PoolShape' /\ EntriesSound'
  BY <1>1, <1>4, PoolsUnchanged DEF Waiting, fixtureVars, vars, PoolShape, PoolTypeOK
<1>7. ClassEntry' = ClassEntry /\ Slot' = Slot /\ Pool' = Pool
  BY <1>1, <1>5 DEF ClassEntry, Slot, Pool
<1>8. RequestSound /\ request # NoRequest
  BY DEF Waiting
<1>9. RequestSound'
  BY <1>1, <1>3, <1>5, <1>7, <1>8 DEF RequestSound, fixtureVars, vars, LiveLoaders
<1> QED  BY <1>6, <1>9

LEMMA LoadTargetKeeps ==
  ASSUME Waiting, LoadTarget
  PROVE  /\ PoolShape' /\ EntriesSound' /\ RequestSound'
         /\ \E l \in Addr, n \in Name : BodyLoadClass(l, n)
<1>0. PICK n \in Name : ClassEntry = SymRef_Class(n)
  <2>1. ClassEntry \in Resolved \cup Symbol(DOMAIN Pool)
    BY RequestEntries DEF Waiting
  <2> QED  BY <2>1, EntryKinds DEF LoadTarget
<1> DEFINE l == klass[request.klass].loader
<1>1. /\ request \in Request /\ request.at = "class" /\ ClassEntry.name = n
      /\ CallLoadClass(l, n) /\ l \in LiveLoaders /\ RequestSound
      /\ request' = [request EXCEPT !.at = "load"]
      /\ UNCHANGED <<phase, bodies, infos, answer>>
  BY <1>0, OwnerFacts DEF Waiting, LoadTarget, At, Linking, Go, SymRef_Class
<1>4. request' \in Request
  BY <1>1 DEF Request
<1>5. /\ request'.at = "load" /\ request'.class_index = request.class_index /\ request'.op = request.op
      /\ request'.klass = request.klass /\ request'.index = request.index
  BY <1>1 DEF Request
<1>6. this' = l /\ stack' = <<Entry(n)>> /\ UNCHANGED <<disk, paths, cache, area, klass, fault>>
  BY <1>1 DEF CallLoadClass, Entry, world, heap
<1>7. PoolShape' /\ EntriesSound'
  BY <1>1, <1>4, <1>6, PoolsUnchanged DEF Waiting, PoolShape, PoolTypeOK
<1>8. Awaits(n)'
  BY <1>5, <1>6 DEF Awaits, Entry
<1>9. ClassEntry' = ClassEntry /\ Slot' = Slot /\ Pool' = Pool
  BY <1>1, <1>5 DEF ClassEntry, Slot, Pool
<1>10. phase = "test" /\ request # NoRequest
  BY <1>1 DEF Waiting, RequestSound
<1>11. RequestSound'
  BY <1>1, <1>0, <1>5, <1>6, <1>8, <1>9, <1>10 DEF RequestSound, LiveLoaders
<1>12. l \in Addr /\ BodyLoadClass(l, n)
  BY <1>1, <1>10 DEF BodyLoadClass, LiveLoaders
<1> QED  BY <1>0, <1>7, <1>11, <1>12

LEMMA CacheClassKeeps ==
  ASSUME Waiting, CacheClass
  PROVE  PoolShape' /\ EntriesSound' /\ RequestSound'
<1>1. /\ Shape /\ Base /\ PoolShape /\ EntriesSound /\ RequestSound /\ request # NoRequest /\ phase = "test"
  BY DEF Waiting, Linking, Base, RequestSound
<1>2. PICK k \in Klass : k = request.klass /\ klass[k].loader \in Addr
  BY <1>1, OwnerFacts DEF LiveLoaders
<1>3. PICK i \in DOMAIN infos[k] : i = request.class_index
  BY <1>1, <1>2, OwnerFacts DEF Pool
<1>4. request.at = "load" /\ stack = <<>> /\ ~ thrown
  BY DEF CacheClass, At, Idle
<1>5. PICK n \in Name : infos[k][i] = SymRef_Class(n) /\ Awaits(n)
  BY <1>1, <1>2, <1>3, <1>4 DEF RequestSound, ClassEntry, Pool
<1>6. ret # Null /\ ret = cache[klass[k].loader][n]
  BY <1>2, <1>4, <1>5 DEF Awaits
<1>7. PICK c \in Klass : c = ret
  BY <1>1, <1>6 DEF Shape, TypeOK
<1>8. /\ KlassPointer(c) \in Resolved
      /\ infos' = [infos EXCEPT ![k][i] = KlassPointer(c)]
      /\ request' = [request EXCEPT !.at = "target", !.target = c]
      /\ UNCHANGED <<fixtureVars, bodies, answer>>
  BY <1>2, <1>3, <1>7 DEF CacheClass, Set, Resolved
<1>9. request \in Request /\ request' \in Request
  BY <1>1, <1>8, OwnerFacts DEF Request
<1>10. PoolShape'
  BY <1>1, <1>8, <1>9, SetKeepsShape DEF fixtureVars, vars, PoolShape, PoolTypeOK
<1>11. infos[k][i].kind = "SymRef_Class"
  BY <1>5 DEF SymRef_Class
<1>12. EntrySound(k, i)'
  <2>1. Written(k, i) = SymRef_Class(n)
    BY <1>1, <1>5, <1>11, SoundKinds DEF EntriesSound
  <2>2. Written(k, i)' = SymRef_Class(n)
    BY <1>8, <2>1 DEF Written, fixtureVars, vars
  <2>3. infos'[k][i] = KlassPointer(cache[klass[k].loader][n])
    BY <1>1, <1>6, <1>7, <1>8, SetEntry
  <2>4. ClassResolvedAt(k, i)'
    BY <1>2, <1>6, <1>8, <2>2, <2>3 DEF ClassResolvedAt, fixtureVars, vars
  <2> QED  BY <2>4 DEF EntrySound
<1>13. EntriesSound'
  BY <1>1, <1>8, <1>11, <1>12, SetKeepsEntries
<1>14. /\ request'.at = "target" /\ request'.class_index = i /\ request'.op = request.op
       /\ request'.klass = k /\ request'.index = request.index /\ request'.target = c
  BY <1>2, <1>3, <1>8, <1>9 DEF Request
<1>15. DOMAIN Pool' = DOMAIN Pool /\ ClassEntry' = KlassPointer(c)
  <2>1. DOMAIN infos'[k] = DOMAIN infos[k] /\ infos'[k][i] = KlassPointer(c)
    BY <1>1, <1>8, SetEntry
  <2> QED  BY <1>2, <1>14, <2>1 DEF Pool, ClassEntry
<1>16. request.op # "resolveClass" => Slot' = Slot
  <2> SUFFICES ASSUME request.op # "resolveClass" PROVE Slot' = Slot
    OBVIOUS
  <2>1. Slot.kind = Sym[request.op] /\ request.op \in Op
    BY <1>1, <1>4, OwnerFacts DEF RequestSound
  <2>2. Slot.kind # "SymRef_Class"
    BY <2>1 DEF Sym, Op
  <2>3. request.index # i /\ request.index \in DOMAIN infos[k]
    BY <1>1, <1>2, <1>11, <2>2, OwnerFacts DEF Slot, Pool
  <2> QED  BY <1>1, <1>2, <1>8, <1>14, <2>3, SetEntry DEF Slot, Pool
<1>17. RequestSound'
  BY <1>1, <1>2, <1>3, <1>4, <1>8, <1>14, <1>15, <1>16 DEF RequestSound, fixtureVars, vars, LiveLoaders
<1> QED  BY <1>10, <1>13, <1>17

LEMMA CacheMemberKeeps ==
  ASSUME Waiting, Hierarchy, CacheMember
  PROVE  PoolShape' /\ EntriesSound' /\ RequestSound'
<1>1. /\ Shape /\ Base /\ PoolShape /\ EntriesSound /\ RequestSound /\ request # NoRequest /\ phase = "test"
  BY DEF Waiting, Linking, Base, RequestSound
<1>2. PICK k \in Klass : k = request.klass
  BY <1>1, OwnerFacts
<1>3. PICK i \in DOMAIN infos[k] : i = request.index
  BY <1>1, <1>2, OwnerFacts DEF Pool
<1>4. PICK ci \in DOMAIN infos[k] : ci = request.class_index
  BY <1>1, <1>2, OwnerFacts DEF Pool
<1>5. request.at = "target" /\ request.op # "resolveClass" /\ request.op \in Op
  BY <1>1, OwnerFacts DEF CacheMember, At
<1>6. PICK c \in Klass : c = request.target /\ infos[k][ci] = KlassPointer(c)
  <2>1. infos[k][ci] = KlassPointer(request.target)
    BY <1>1, <1>2, <1>4, <1>5 DEF RequestSound, ClassEntry, Pool
  <2>2. infos[k][ci] \in Resolved \cup Symbol(DOMAIN infos[k])
    BY <1>1, Indices
  <2>3. request.target \in Klass
    BY <2>1, <2>2, EntryKinds DEF KlassPointer
  <2> QED  BY <2>1, <2>3
<1>7. klass[c].stage = "prepared"
  <2>1. EntrySound(k, ci)
    BY <1>1 DEF EntriesSound
  <2>2. PICK n \in Name : /\ klass[k].loader \in Addr
                          /\ cache[klass[k].loader][n] # Null
                          /\ infos[k][ci] = KlassPointer(cache[klass[k].loader][n])
    BY <1>1, <1>6, <2>1, SoundKinds DEF KlassPointer, ClassResolvedAt
  <2>3. cache[klass[k].loader][n] = c
    BY <1>6, <2>2 DEF KlassPointer
  <2>4. klass[k].loader \in LiveLoaders
    BY <1>1, <2>2 DEF LiveLoaders, Base, PhaseSound, EmptyCache
  <2> QED  BY <1>1, <2>2, <2>3, <2>4, CachedFacts
<1>8. PICK kind \in {"Field", "Method"}, mm \in Member :
        /\ kind = Ptr[request.op] /\ Sym[request.op] = IF kind = "Field" THEN "SymRef_Field" ELSE "SymRef_Method"
        /\ infos[k][i] = SymbolOf(kind, ci, mm)
  <2>1. infos[k][i] \in Resolved \cup Symbol(DOMAIN infos[k])
    BY <1>1, Indices
  <2>2. infos[k][i].kind = Sym[request.op] /\ infos[k][i].class_index = ci /\ infos[k][i].member # Null
    BY <1>1, <1>2, <1>3, <1>4, <1>5 DEF RequestSound, Slot, Pool, CacheMember
  <2>3. CASE request.op = "resolveField"
    <3>1. Sym[request.op] = "SymRef_Field" /\ Ptr[request.op] = "Field"
      BY <2>3 DEF Sym, Ptr, Op
    <3> QED  BY <2>1, <2>2, <3>1, EntryKinds DEF SymbolOf
  <2>4. CASE request.op = "resolveMethod"
    <3>1. Sym[request.op] = "SymRef_Method" /\ Ptr[request.op] = "Method"
      BY <2>4 DEF Sym, Ptr, Op
    <3> QED  BY <2>1, <2>2, <3>1, EntryKinds DEF SymbolOf
  <2> QED  BY <1>5, <2>3, <2>4 DEF Op
<1>9. infos[k][i].member = mm
  BY <1>8 DEF SymbolOf, SymRef_Field, SymRef_Method
<1>10. PICK owner \in Klass \cup {Null} :
         /\ NearestDeclaring(kind, c, mm, owner)
         /\ find(request.op, c, mm) = PointerOf(kind, owner, mm)
  <2>1. SupersTyped
    BY <1>1 DEF SupersTyped, Shape, TypeOK, KlassObject
  <2>2. CASE request.op = "resolveField"
    <3>1. kind = "Field"
      BY <1>8, <2>2 DEF Ptr, Op
    <3> QED  BY <1>7, <2>1, <2>2, <3>1, FindFieldFinds DEF find, PointerOf
  <2>3. CASE request.op = "resolveMethod"
    <3>1. kind = "Method"
      BY <1>8, <2>3 DEF Ptr, Op
    <3> QED  BY <1>7, <2>1, <2>3, <3>1, FindMethodFinds DEF find, PointerOf
  <2> QED  BY <1>5, <2>2, <2>3 DEF Op
<1>11. /\ PointerOf(kind, owner, mm) \in Resolved
       /\ infos' = [infos EXCEPT ![k][i] = PointerOf(kind, owner, mm)]
       /\ request' = NoRequest /\ answer' = PointerOf(kind, owner, mm)
       /\ UNCHANGED <<fixtureVars, bodies>>
  <2>1. Slot.member = mm
    BY <1>2, <1>3, <1>9 DEF Slot, Pool
  <2>2. infos' = [infos EXCEPT ![k][i] = PointerOf(kind, owner, mm)]
        /\ request' = NoRequest /\ answer' = PointerOf(kind, owner, mm) /\ UNCHANGED <<fixtureVars, bodies>>
    BY <1>2, <1>3, <1>6, <1>10, <2>1 DEF CacheMember, Set, Return
  <2> QED  BY <2>2 DEF PointerOf, Resolved
<1>12. PoolShape'
  BY <1>1, <1>11, SetKeepsShape DEF fixtureVars, vars
<1>13. infos[k][i].kind \in {"SymRef_Field", "SymRef_Method"}
  BY <1>8 DEF SymbolOf, SymRef_Field, SymRef_Method
<1>14. EntrySound(k, i)'
  <2>1. Written(k, i) = SymbolOf(kind, ci, mm)
    BY <1>1, <1>8, <1>13, SoundKinds DEF EntriesSound
  <2>2. Written(k, i)' = SymbolOf(kind, ci, mm)
    BY <1>11, <2>1 DEF Written, fixtureVars, vars
  <2>3. ci # i
    BY <1>6, <1>13 DEF KlassPointer
  <2>4. infos'[k][i] = PointerOf(kind, owner, mm) /\ infos'[k][ci] = KlassPointer(c) /\ ci \in DOMAIN infos'[k]
    <3>1. PICK e \in Resolved : e = PointerOf(kind, owner, mm)
      BY <1>11
    <3>2. infos' = [infos EXCEPT ![k][i] = e]
      BY <1>11, <3>1
    <3>3. /\ infos'[k][i] = e /\ DOMAIN infos'[k] = DOMAIN infos[k]
          /\ \A j \in DOMAIN infos[k] : j # i => infos'[k][j] = infos[k][j]
      BY <1>1, <3>2, SetEntry
    <3> QED  BY <1>6, <2>3, <3>1, <3>3
  <2>5. NearestDeclaring(kind, c, mm, owner)'
    BY <1>10, <1>11 DEF NearestDeclaring, Declared, Lineage, fixtureVars, vars
  <2>6. klass'[c].stage = "prepared"
    BY <1>7, <1>11 DEF fixtureVars, vars
  <2>7. MemberResolvedAt(k, i)'
    BY <2>2, <2>4, <2>5, <2>6 DEF MemberResolvedAt
  <2> QED  BY <2>7 DEF EntrySound
<1>15. EntriesSound'
  BY <1>1, <1>11, <1>13, <1>14, SetKeepsEntries
<1>16. RequestSound'
  BY <1>11 DEF RequestSound
<1> QED  BY <1>12, <1>15, <1>16

LEMMA ResolveKeeps ==
  ASSUME Linking, Hierarchy, PoolShape, EntriesSound, RequestSound, resolve
  PROVE  PoolShape' /\ EntriesSound' /\ RequestSound'
<1>1. Waiting
  BY DEF Waiting, resolve, MemberResolved, NotAMember, ResolveMember, ClassResolved, NotAClass,
         ClassNameThrows, LoadTarget, LoadThrows, CacheClass, ReturnClass, NameAndTypeThrows,
         CacheMember, At, NoRequest
<1>2. CASE Raise
  BY <1>1, <1>2, RequestEnds DEF Raise
<1>3. CASE MemberResolved
  <2>1. Slot \in Resolved
    <3>1. Slot.kind \in {"Klass", "Field", "Method"}
      <4>1. Slot.kind = Ptr[request.op] /\ request.op \in Op
        BY <1>1, <1>3, OwnerFacts DEF MemberResolved, Linking, Waiting
      <4> QED  BY <4>1 DEF Ptr, Op
    <3>2. Slot \in Resolved \cup Symbol(DOMAIN Pool)
      BY <1>1, RequestEntries DEF Waiting
    <3> QED  BY <3>1, <3>2, EntryKinds
  <2> QED  BY <1>1, <1>3, <2>1, RequestEnds DEF MemberResolved, Return
<1>4. CASE ReturnClass
  <2>1. ClassEntry = KlassPointer(request.target)
    BY <1>1, <1>4 DEF ReturnClass, At, RequestSound, Waiting
  <2>2. ClassEntry \in Resolved
    <3>1. ClassEntry \in Resolved \cup Symbol(DOMAIN Pool)
      BY <1>1, RequestEntries DEF Waiting
    <3> QED  BY <2>1, <3>1, EntryKinds DEF KlassPointer
  <2> QED  BY <1>1, <1>4, <2>1, <2>2, RequestEnds DEF ReturnClass, Return
<1> QED  BY <1>1, <1>2, <1>3, <1>4, ResolveMemberKeeps, ClassResolvedKeeps, LoadTargetKeeps,
            CacheClassKeeps, CacheMemberKeeps
         DEF resolve, NotAMember, NotAClass, ClassNameThrows, LoadThrows, NameAndTypeThrows

(* The loads that a resolution causes, or its test makes.                  *)
LEMMA LoaderKeepsRequest ==
  ASSUME Linking, PoolShape, RequestSound, LoaderRuns
  PROVE  RequestSound'
<1> SUFFICES ASSUME request # NoRequest
             PROVE  RequestSound'
  BY DEF LoaderRuns, RequestSound
<1>1. /\ Base /\ Shape /\ Running_loadClass /\ PoolsFollow /\ UNCHANGED <<bodies, request, answer>>
      /\ stack # <<>> /\ UNCHANGED <<this, phase>>
  BY LoadClassStack DEF Linking, Base, LoaderRuns, Running_loadClass
<1>2. /\ request.at = "load" /\ phase = "test"
      /\ \E n \in Name : ClassEntry = SymRef_Class(n) /\ Awaits(n)
  BY <1>1 DEF RequestSound
<1>3. PICK n \in Name : ClassEntry = SymRef_Class(n) /\ Awaits(n)
  BY <1>2
<1>4. PICK k \in Klass : k = request.klass /\ klass[k].stage = "prepared" /\ ~ Unmade(k)
  BY <1>1, OwnerFacts
<1>5. Grows
  BY <1>1, LoadClassGrows DEF Running_loadClass, Base
<1>6. klass'[k] = klass[k]
  BY <1>4, <1>5 DEF Grows
<1>7. infos'[k] = infos[k]
  BY <1>1, <1>4, <1>6 DEF PoolsFollow, Unmade
<1>8. Pool' = Pool /\ Slot' = Slot /\ ClassEntry' = ClassEntry
  BY <1>1, <1>4, <1>7 DEF Pool, Slot, ClassEntry
<1>9. Awaits(n)'
  <2>1. stack[1].name = n /\ this = klass[k].loader
    BY <1>1, <1>3, <1>4 DEF Awaits
  <2>2. /\ stack' # <<>> => stack'[1].name = n
        /\ stack' = <<>> /\ ~ thrown' => ret' # Null /\ ret' = cache'[this][n]
    BY <1>1, <2>1, BottomStays
  <2> QED  BY <1>1, <1>4, <1>6, <2>1, <2>2 DEF Awaits
<1>10. \E l \in LiveLoaders', p \in Name : cache'[l][p] = request.klass
  <2>1. PICK l \in LiveLoaders, p \in Name : cache[l][p] = k
    BY <1>4 DEF RequestSound
  <2>2. l \in LiveLoaders' /\ l \in Addr
    BY <1>5, <2>1 DEF Grows, LiveLoaders, world
  <2>3. cache'[l][p] = k
    BY <1>4, <1>5, <2>1, <2>2, NullAssumption DEF Grows
  <2> QED  BY <1>4, <2>2, <2>3
<1> QED  BY <1>1, <1>2, <1>3, <1>8, <1>9, <1>10 DEF RequestSound

LEMMA CallResolveKeeps ==
  ASSUME Linking, PoolShape, EntriesSound, NEW op \in Op, NEW k \in Klass, NEW i \in DOMAIN infos[k],
         CallResolve(op, k, i)
  PROVE  PoolShape' /\ EntriesSound' /\ RequestSound'
<1>1. /\ phase = "test" /\ stack = <<>> /\ answer' = NoAnswer
      /\ request' = [at |-> IF op = "resolveClass" THEN "class" ELSE "slot", op |-> op, klass |-> k,
                     index |-> i, class_index |-> i, target |-> Null]
      /\ UNCHANGED <<fixtureVars, bodies, infos>>
  BY DEF CallResolve, Idle
<1>2. request' \in Request
  BY <1>1, Indices DEF Request, Linking, Base
<1>3. PoolShape' /\ EntriesSound'
  BY <1>1, <1>2, PoolsUnchanged DEF fixtureVars, vars
<1>4. \E l \in LiveLoaders, n \in Name : cache[l][n] = k
  <2>1. PICK n \in Name : klass[k].loader # Null /\ cache[klass[k].loader][n] = k
    BY DEF CallResolve
  <2>2. klass[k].loader \in Addr
    BY <2>1 DEF Linking, Base, Shape, TypeOK, KlassObject
  <2>3. klass[k].loader \in LiveLoaders
    BY <2>1, <2>2, NullAssumption DEF Linking, Base, PhaseSound, EmptyCache, LiveLoaders
  <2> QED  BY <2>1, <2>3
<1>5. LiveLoaders' = LiveLoaders
  BY <1>1 DEF LiveLoaders, fixtureVars, vars
<1>6. RequestSound'
  BY <1>1, <1>4, <1>5 DEF RequestSound, Pool, fixtureVars, vars
<1> QED  BY <1>3, <1>6

-----------------------------------------------------------------------------
(* Every reachable state is sound.                                         *)

LEMMA ResolutionIsFixture ==
  ASSUME Resolving, [ResolutionNext]_poolVars
  PROVE  [FixtureNext]_fixtureVars
<1>1. CASE LoaderRuns
  BY <1>1 DEF LoaderRuns, FixtureNext
<1>2. CASE LoadTarget
  <2>1. Waiting
    BY <1>2 DEF Resolving, Waiting, LoadTarget, At, NoRequest
  <2> QED  BY <1>2, <2>1, LoadTargetKeeps DEF FixtureNext
<1>3. CASE UNCHANGED fixtureVars
  BY <1>3
<1>4. CASE resolve
  BY <1>2, <1>3, <1>4
     DEF resolve, MemberResolved, NotAMember, ResolveMember, ClassResolved, NotAClass,
         ClassNameThrows, LoadThrows, CacheClass, ReturnClass, NameAndTypeThrows, CacheMember, Raise
<1>5. CASE UNCHANGED poolVars
  BY <1>3, <1>5 DEF poolVars
<1> QED  BY <1>1, <1>3, <1>4, <1>5 DEF ResolutionNext, FixtureNext, CallResolve

LEMMA ResolvingInit == ResolutionInit => Resolving
<1> SUFFICES ASSUME ResolutionInit PROVE Resolving
  OBVIOUS
<1>1. FixtureInit /\ Linking /\ Hierarchy
  BY LinkingInit, HierarchyInit DEF ResolutionInit
<1>2. \A k \in Klass : infos[k] = <<>> /\ klass[k].stage = "free"
  BY <1>1 DEF ResolutionInit, FixtureInit, Init, Raw
<1>3. \A k \in Klass : infos[k] \in Seq(Resolved \cup Symbol(DOMAIN infos[k]))
  BY <1>2, EmptySeq
<1>4. PoolShape
  BY <1>2, <1>3 DEF PoolShape, PoolTypeOK, ResolutionInit, Unmade
<1>5. EntriesSound /\ RequestSound
  BY <1>2 DEF EntriesSound, RequestSound, ResolutionInit
<1> QED  BY <1>1, <1>4, <1>5 DEF Resolving

LEMMA ResolvingNext ==
  ASSUME Resolving, [ResolutionNext]_poolVars
  PROVE  Resolving'
<1>0. /\ Linking /\ Hierarchy /\ PoolShape /\ EntriesSound /\ RequestSound
      /\ [FixtureNext]_fixtureVars
  BY ResolutionIsFixture DEF Resolving
<1>1. Linking' /\ Hierarchy'
  BY <1>0, LinkingNext, HierarchyNext
<1>2. PoolsFollow /\ UNCHANGED <<bodies, request, answer>> => PoolShape' /\ EntriesSound'
  BY <1>0, <1>1, FixtureKeepsShape, FixtureKeepsEntries
<1>3. CASE LoaderRuns
  BY <1>0, <1>1, <1>2, <1>3, LoaderKeepsRequest DEF LoaderRuns, Resolving
<1>4. CASE Quiet
  BY <1>1, <1>2, <1>4 DEF Quiet, RequestSound, Resolving
<1>5. CASE resolve
  BY <1>0, <1>1, <1>5, ResolveKeeps DEF Resolving
<1>6. CASE \E op \in Op, k \in Klass : \E i \in DOMAIN infos[k] : CallResolve(op, k, i)
  BY <1>0, <1>1, <1>6, CallResolveKeeps DEF Resolving
<1>7. CASE UNCHANGED poolVars
  <2>1. PoolShape' /\ EntriesSound'
    BY <1>0, <1>7, PoolsUnchanged DEF poolVars, fixtureVars, vars, PoolShape, PoolTypeOK
  <2>2. RequestSound'
    BY <1>0, <1>7 DEF poolVars, fixtureVars, vars, RequestSound, LiveLoaders, Pool, Slot, ClassEntry, Awaits
  <2> QED  BY <1>1, <2>1, <2>2 DEF Resolving
<1> QED  BY <1>3, <1>4, <1>5, <1>6, <1>7 DEF ResolutionNext

(* Every reachable state has sound links, an acyclic superclass relation   *)
(* over prepared classes, pools of the files' shape, entries that name     *)
(* what their file does, and a request that awaits the load it started.    *)
THEOREM ResolutionInvariant == ResolutionSpec => []Resolving
<1>1. Resolving /\ [ResolutionNext]_poolVars => Resolving'
  BY ResolvingNext
<1> QED  BY ResolvingInit, <1>1, PTL DEF ResolutionSpec

(* A resolution uses the loader as any test does, so that whatever is      *)
(* proved of the fixture's loads holds of the loads it causes too          *)
(* (constant_pool.cpp calls loadClass and nothing else of the loader).     *)
THEOREM ResolutionKeepsFixture == ResolutionSpec => FixtureSpec
<1>1. ResolutionInit => FixtureInit
  BY DEF ResolutionInit
<1>2. Resolving /\ [ResolutionNext]_poolVars => [FixtureNext]_fixtureVars
  BY ResolutionIsFixture
<1> QED  BY <1>1, <1>2, ResolutionInvariant, PTL DEF ResolutionSpec, FixtureSpec

-----------------------------------------------------------------------------
(* What that says of the entries.                                          *)

(* Entries are of the types the resolve functions tell apart.              *)
THEOREM PoolTypeCorrect == ResolutionSpec => []PoolTypeOK
<1>1. Resolving => PoolTypeOK
  BY DEF Resolving, PoolShape
<1> QED  BY <1>1, ResolutionInvariant, PTL

LEMMA UsableSound ==
  ASSUME Resolving, NEW k \in Usable, NEW i \in DOMAIN infos[k]
  PROVE  k \in Klass /\ Shape /\ PoolShape /\ EntrySound(k, i)
<1>1. k \in Klass /\ \E l \in Addr : paths[l] # Null
  BY DEF Usable, LiveLoaders
<1>2. phase = "test"
  BY <1>1 DEF Resolving, Linking, Base, PhaseSound
<1> QED  BY <1>1, <1>2 DEF Resolving, Linking, Base, EntriesSound

(* A resolved class entry is the class that the owner's loader caches      *)
(* under the name the file gives (RuntimeConstantPool::resolveClass),      *)
(* whatever other loaders hold under that name.                            *)
THEOREM EntriesAreClassesAsNamed == ResolutionSpec => []ClassesAsNamed
<1>1. ASSUME Resolving PROVE ClassesAsNamed
  <2> SUFFICES ASSUME NEW k \in Usable, NEW i \in DOMAIN infos[k], infos[k][i].kind = "Klass"
               PROVE  /\ Written(k, i).kind = "SymRef_Class"
                      /\ infos[k][i].klass = cache[klass[k].loader][Written(k, i).name]
    BY DEF ClassesAsNamed
  <2>1. k \in Klass /\ Shape /\ PoolShape /\ EntrySound(k, i)
    BY <1>1, UsableSound
  <2>2. ClassResolvedAt(k, i)
    BY <2>1, SoundKinds
  <2> QED  BY <2>2 DEF ClassResolvedAt, SymRef_Class, KlassPointer
<1> QED  BY <1>1, ResolutionInvariant, PTL

(* A resolved member entry is the nearest declaration of what the file     *)
(* names, and null only if there is none (resolveMethod and resolveField,  *)
(* Klass::findMethod and Klass::findField).                                *)
THEOREM EntriesAreMembersAsDeclared == ResolutionSpec => []MembersAsDeclared
<1>1. ASSUME Resolving PROVE MembersAsDeclared
  <2> SUFFICES ASSUME NEW k \in Usable, NEW i \in DOMAIN infos[k],
                      infos[k][i].kind \in {"Field", "Method"}
               PROVE  LET e == infos[k][i]
                          w == Written(k, i)
                      IN  /\ w.kind = (IF e.kind = "Field" THEN "SymRef_Field" ELSE "SymRef_Method")
                          /\ e.member = w.member
                          /\ infos[k][w.class_index].kind = "Klass"
                          /\ NearestDeclaring(e.kind, infos[k][w.class_index].klass, e.member, e.owner)
    BY DEF MembersAsDeclared
  <2>1. k \in Klass /\ Shape /\ PoolShape /\ EntrySound(k, i)
    BY <1>1, UsableSound
  <2>2. MemberResolvedAt(k, i)
    BY <2>1, SoundKinds
  <2>3. PICK kind \in {"Field", "Method"}, ci \in DOMAIN infos[k], mm \in Member, c \in Klass,
             owner \in Klass \cup {Null} :
          /\ Written(k, i) = SymbolOf(kind, ci, mm)
          /\ infos[k][ci] = KlassPointer(c)
          /\ infos[k][i] = PointerOf(kind, owner, mm)
          /\ NearestDeclaring(kind, c, mm, owner)
    BY <2>2 DEF MemberResolvedAt
  <2>4. /\ infos[k][i].kind = kind /\ infos[k][i].member = mm /\ infos[k][i].owner = owner
        /\ infos[k][ci].kind = "Klass" /\ infos[k][ci].klass = c
        /\ Written(k, i).class_index = ci /\ Written(k, i).member = mm
        /\ Written(k, i).kind = IF kind = "Field" THEN "SymRef_Field" ELSE "SymRef_Method"
    BY <2>3 DEF SymbolOf, PointerOf, KlassPointer, FieldPointer, MethodPointer, SymRef_Field, SymRef_Method
  <2> QED  BY <2>3, <2>4
<1> QED  BY <1>1, ResolutionInvariant, PTL

(* resolveMethod holds a reference into infos_ across loadClass: the class *)
(* that owns the pool and the pool itself outlive the call.                *)
THEOREM ReferencesHold == ResolutionSpec => []ReferenceHolds
<1>1. ASSUME Resolving PROVE ReferenceHolds
  <2> SUFFICES ASSUME request # NoRequest
               PROVE  /\ request.klass \in Usable
                      /\ klass[request.klass].stage = "prepared"
                      /\ Len(Pool) = Len(bodies[klass[request.klass].file].pool)
    BY DEF ReferenceHolds
  <2>1. Base /\ PoolShape /\ RequestSound
    BY <1>1 DEF Resolving, Linking
  <2>2. request.klass \in Klass /\ klass[request.klass].stage = "prepared" /\ ~ Unmade(request.klass)
    BY <2>1, OwnerFacts
  <2>3. request.klass \in Usable
    BY <2>1, <2>2 DEF Usable, RequestSound
  <2> QED  BY <2>1, <2>2, <2>3 DEF PoolShape, Pool, PoolOf
<1> QED  BY <1>1, ResolutionInvariant, PTL

-----------------------------------------------------------------------------
(* What a step of a resolution writes.                                     *)

LEMMA ClassWritten ==
  ASSUME Waiting, CacheClass
  PROVE  /\ request.class_index \in DOMAIN infos[request.klass] /\ request.klass \in Klass
         /\ infos[request.klass][request.class_index].kind = "SymRef_Class"
         /\ \E c \in Klass : infos' = [infos EXCEPT ![request.klass][request.class_index] = KlassPointer(c)]
<1>1. Base /\ PoolShape /\ RequestSound /\ request # NoRequest
  BY DEF Waiting, Linking
<1>2. request.at = "load" /\ stack = <<>> /\ ~ thrown
  BY DEF CacheClass, At, Idle
<1>3. PICK n \in Name : ClassEntry = SymRef_Class(n) /\ ret # Null
  BY <1>1, <1>2 DEF RequestSound, Awaits
<1>4. ret \in Klass
  BY <1>3 DEF Waiting, Linking, Base, Shape, TypeOK
<1>5. infos' = [infos EXCEPT ![request.klass][request.class_index] = KlassPointer(ret)]
  BY DEF CacheClass, Set
<1>6. request.class_index \in DOMAIN infos[request.klass] /\ request.klass \in Klass
  BY <1>1, OwnerFacts DEF Pool
<1>7. infos[request.klass][request.class_index].kind = "SymRef_Class"
  BY <1>3 DEF ClassEntry, Pool, SymRef_Class
<1> QED  BY <1>4, <1>5, <1>6, <1>7

LEMMA MemberWritten ==
  ASSUME Waiting, Hierarchy, CacheMember
  PROVE  /\ request.index \in DOMAIN infos[request.klass] /\ request.klass \in Klass
         /\ request.op \in Op /\ infos[request.klass][request.index].kind = Sym[request.op]
         /\ answer' \in Resolved /\ answer'.kind = Ptr[request.op]
         /\ infos' = [infos EXCEPT ![request.klass][request.index] = answer']
<1>1. Base /\ PoolShape /\ RequestSound /\ request # NoRequest
  BY DEF Waiting, Linking
<1>2. request.at = "target" /\ request.op # "resolveClass" /\ request.op \in Op
  BY <1>1, OwnerFacts DEF CacheMember, At
<1>3. Slot.kind = Sym[request.op] /\ request.class_index = Slot.class_index
  BY <1>1, <1>2 DEF RequestSound
<1>4. /\ infos' = [infos EXCEPT ![request.klass][request.index] = answer']
      /\ answer' = find(request.op, request.target, Slot.member)
  BY DEF CacheMember, Set, Return
<1>5. answer'.kind = Ptr[request.op]
  <2>1. CASE request.op = "resolveField"
    <3>1. Ptr[request.op] = "Field"
      BY <2>1 DEF Ptr, Op
    <3> QED  BY <1>4, <2>1, <3>1 DEF find, FieldPointer
  <2>2. CASE request.op = "resolveMethod"
    <3>1. Ptr[request.op] = "Method"
      BY <2>2 DEF Ptr, Op
    <3> QED  BY <1>4, <2>2, <3>1 DEF find, MethodPointer
  <2> QED  BY <1>2, <2>1, <2>2 DEF Op
<1>6. answer' \in Resolved
  <2>1. answer' \in Resolved \cup {NoAnswer}
    BY CacheMemberKeeps DEF PoolShape, PoolTypeOK
  <2>2. answer' # NoAnswer
    BY <1>4, <1>5 DEF find, FieldPointer, MethodPointer, NoAnswer
  <2> QED  BY <2>1, <2>2
<1>7. request.index \in DOMAIN infos[request.klass] /\ request.klass \in Klass
  BY <1>1, OwnerFacts DEF Pool
<1>8. infos[request.klass][request.index].kind = Sym[request.op]
  BY <1>3 DEF Slot, Pool
<1> QED  BY <1>2, <1>4, <1>5, <1>6, <1>7, <1>8

(* resolve writes one entry at most.                                       *)
LEMMA ResolveWrites ==
  ASSUME Waiting, Hierarchy, resolve, NEW k \in Klass, NEW i \in DOMAIN infos[k],
         infos'[k][i] # infos[k][i]
  PROVE  \E op \in Op : infos[k][i].kind = Sym[op] /\ infos'[k][i].kind = Ptr[op]
<1>0. PoolShape
  BY DEF Waiting
<1>1. CASE CacheClass
  <2>1. PICK c \in Klass, j \in Klass, p \in DOMAIN infos[request.klass] :
          /\ j = request.klass /\ infos[j][p].kind = "SymRef_Class"
          /\ infos' = [infos EXCEPT ![j][p] = KlassPointer(c)]
    BY <1>1, ClassWritten
  <2>2. KlassPointer(c) \in Resolved
    BY DEF Resolved
  <2>3. /\ \A q \in Klass : q # j => infos'[q] = infos[q]
        /\ infos'[j][p] = KlassPointer(c)
        /\ \A q \in DOMAIN infos[j] : q # p => infos'[j][q] = infos[j][q]
    BY <1>0, <2>1, <2>2, SetEntry
  <2>4. k = j /\ i = p
    BY <2>3
  <2>5. Sym["resolveClass"] = "SymRef_Class" /\ Ptr["resolveClass"] = "Klass" /\ "resolveClass" \in Op
    BY DEF Sym, Ptr, Op
  <2> QED  BY <2>1, <2>3, <2>4, <2>5 DEF KlassPointer
<1>2. CASE CacheMember
  <2>1. PICK j \in Klass, p \in DOMAIN infos[request.klass], op \in Op, e \in Resolved :
          /\ j = request.klass /\ infos[j][p].kind = Sym[op] /\ e.kind = Ptr[op]
          /\ infos' = [infos EXCEPT ![j][p] = e]
    BY <1>2, MemberWritten
  <2>2. /\ \A q \in Klass : q # j => infos'[q] = infos[q]
        /\ infos'[j][p] = e
        /\ \A q \in DOMAIN infos[j] : q # p => infos'[j][q] = infos[j][q]
    BY <1>0, <2>1, SetEntry
  <2>3. k = j /\ i = p
    BY <2>2
  <2> QED  BY <2>1, <2>2, <2>3
<1>3. CASE UNCHANGED infos
  BY <1>3
<1> QED  BY <1>1, <1>2, <1>3
         DEF resolve, MemberResolved, NotAMember, ResolveMember, ClassResolved, NotAClass,
             ClassNameThrows, LoadTarget, LoadThrows, ReturnClass, NameAndTypeThrows, Raise

LEMMA EntryStep ==
  ASSUME Resolving, [ResolutionNext]_poolVars, NEW k \in Klass, Len(infos[k]) = Len(infos'[k]),
         NEW i \in DOMAIN infos[k], infos'[k][i] # infos[k][i]
  PROVE  \E op \in Op : infos[k][i].kind = Sym[op] /\ infos'[k][i].kind = Ptr[op]
<1>0. Linking /\ Hierarchy /\ PoolShape /\ EntriesSound /\ RequestSound /\ [FixtureNext]_fixtureVars
  BY ResolutionIsFixture DEF Resolving
<1>1. ~ PoolsFollow
  <2> SUFFICES ASSUME PoolsFollow PROVE FALSE
    OBVIOUS
  <2>1. ~ Unmade(k) /\ infos[k] \in Seq(Resolved \cup Symbol(DOMAIN infos[k]))
    BY <1>0, Indices DEF Linking, Base, PoolShape, PoolTypeOK
  <2>2. NoPool(k)
    BY <1>0, <2>1, PoolSteps DEF SamePool, NewPool, Unmade
  <2>3. Len(infos[k]) = 0
    BY <2>2, EmptySeq DEF NoPool
  <2> QED  BY <2>1, <2>3, LenProperties
<1>2. ~ UNCHANGED infos
  OBVIOUS
<1>3. resolve
  BY <1>1, <1>2 DEF ResolutionNext, LoaderRuns, Quiet, CallResolve, poolVars
<1>4. Waiting
  BY <1>0, <1>3 DEF Waiting, resolve, MemberResolved, NotAMember, ResolveMember, ClassResolved, NotAClass,
         ClassNameThrows, LoadTarget, LoadThrows, CacheClass, ReturnClass, NameAndTypeThrows,
         CacheMember, At, NoRequest
<1> QED  BY <1>0, <1>3, <1>4, ResolveWrites

(* A reference that has been resolved stays what it is as long as its      *)
(* class lives (constant_pool_test.cpp resolves twice and compares).       *)
THEOREM EntriesStayResolved == ResolutionSpec => EntriesChangeOnce
<1> DEFINE Once == \A k \in Klass : Len(infos[k]) = Len(infos'[k]) =>
                     \A i \in DOMAIN infos[k] :
                       infos'[k][i] # infos[k][i] =>
                         \E op \in Op : infos[k][i].kind = Sym[op] /\ infos'[k][i].kind = Ptr[op]
<1>1. Resolving /\ [ResolutionNext]_poolVars => [Once]_poolVars
  BY EntryStep
<1>2. ResolutionSpec => [][Once]_poolVars
  BY <1>1, ResolutionInvariant, PTL DEF ResolutionSpec
<1> QED  BY <1>2 DEF EntriesChangeOnce

(* How a resolution ends.                                                  *)
LEMMA KindsDiffer ==
  ASSUME NEW op \in Op
  PROVE  /\ op = "resolveClass" => Sym[op] = "SymRef_Class" /\ Ptr[op] = "Klass"
         /\ op = "resolveField" => Sym[op] = "SymRef_Field" /\ Ptr[op] = "Field"
         /\ op = "resolveMethod" => Sym[op] = "SymRef_Method" /\ Ptr[op] = "Method"
         /\ Ptr[op] # "none"
BY DEF Sym, Ptr, Op

LEMMA EndStep ==
  ASSUME Resolving, [ResolutionNext]_poolVars, request # NoRequest, request' = NoRequest
  PROVE  LET e == infos'[request.klass][request.index]
             w == Written(request.klass, request.index)
         IN  IF answer' = NoAnswer THEN w.kind = Sym[request.op] => e = w ELSE e = answer'
<1> DEFINE w == Written(request.klass, request.index)
<1>0. Waiting /\ Hierarchy
  BY DEF Waiting, Resolving
<1>1. resolve
  BY DEF ResolutionNext, LoaderRuns, Quiet, CallResolve, poolVars, NoRequest
<1>2. request \in Request /\ request.op \in Op /\ request.klass \in Klass
  BY <1>0, OwnerFacts DEF Waiting, Linking
<1>3. /\ Slot = infos[request.klass][request.index] /\ request.index \in DOMAIN infos[request.klass]
      /\ \/ Slot = w /\ Slot.kind \notin {"Klass", "Field", "Method"}
         \/ Slot.kind = "Klass" /\ w.kind = "SymRef_Class"
         \/ Slot.kind = "Field" /\ w.kind = "SymRef_Field"
         \/ Slot.kind = "Method" /\ w.kind = "SymRef_Method"
  <2>1. request.index \in DOMAIN infos[request.klass] /\ Shape /\ PoolShape
    BY <1>0, OwnerFacts DEF Pool, Waiting, Linking, Base
  <2>2. Slot = infos[request.klass][request.index] /\ EntrySound(request.klass, request.index)
    BY <1>0, RequestEntries DEF Waiting
  <2> QED  BY <1>2, <2>1, <2>2, SoundKinds
<1>4. CASE Raise
  <2>1. infos'[request.klass][request.index] = Slot /\ answer' = NoAnswer
    BY <1>3, <1>4 DEF Raise
  <2>2. Slot = w \/ w.kind # Sym[request.op]
    <3>1. ASSUME Slot.kind = Ptr[request.op] PROVE FALSE
      <4>1. CASE NotAMember \/ NotAClass \/ ClassNameThrows \/ LoadThrows \/ NameAndTypeThrows
        <5>1. request.op # "resolveClass" /\ request.at # "slot" => Slot.kind = Sym[request.op]
          BY <1>0 DEF Waiting, RequestSound
        <5>2. request.op = "resolveClass" => Slot = ClassEntry /\ request.at # "slot"
          BY <1>0 DEF Waiting, RequestSound, Slot, ClassEntry
        <5>3. Sym[request.op] # Ptr[request.op]
          BY <1>2, KindsDiffer DEF Op
        <5>4. request.op = "resolveClass"
          BY <3>1, <4>1, <5>1, <5>3 DEF NotAMember, NotAClass, ClassNameThrows, LoadThrows, NameAndTypeThrows, At
        <5>5. ClassEntry.kind = "Klass"
          BY <1>2, <3>1, <5>2, <5>4, KindsDiffer
        <5>6. request.at = "load" => ClassEntry.kind = "SymRef_Class"
          BY <1>0 DEF Waiting, RequestSound, SymRef_Class
        <5> QED  BY <4>1, <5>2, <5>4, <5>5, <5>6
                 DEF NotAMember, NotAClass, ClassNameThrows, LoadThrows, NameAndTypeThrows, At
      <4>2. CASE MemberResolved \/ ReturnClass \/ CacheMember
        <5>1. answer' # NoAnswer
          <6>1. CASE MemberResolved
            BY <1>2, <3>1, <6>1, KindsDiffer DEF MemberResolved, Return, NoAnswer
          <6>2. CASE ReturnClass
            BY <6>2 DEF ReturnClass, Return, NoAnswer, KlassPointer
          <6>3. CASE CacheMember
            BY <1>0, <1>2, <6>3, MemberWritten, KindsDiffer DEF NoAnswer
          <6> QED  BY <4>2, <6>1, <6>2, <6>3
        <5> QED  BY <2>1, <5>1
      <4>3. CASE ResolveMember \/ ClassResolved \/ LoadTarget \/ CacheClass
        BY <1>2, <4>3 DEF ResolveMember, ClassResolved, LoadTarget, CacheClass, Go, NoRequest, Request
      <4> QED  BY <1>1, <4>1, <4>2, <4>3 DEF resolve
    <3> QED  BY <1>2, <1>3, <3>1, KindsDiffer DEF Op
  <2> QED  BY <2>1, <2>2
<1>5. CASE MemberResolved
  BY <1>2, <1>3, <1>5, KindsDiffer DEF MemberResolved, Return, NoAnswer
<1>6. CASE ReturnClass
  <2>1. Slot = KlassPointer(request.target)
    BY <1>0, <1>6 DEF Waiting, RequestSound, ReturnClass, At, Slot, ClassEntry
  <2> QED  BY <1>3, <1>6, <2>1 DEF ReturnClass, Return, NoAnswer, KlassPointer
<1>7. CASE CacheMember
  <2>1. /\ infos' = [infos EXCEPT ![request.klass][request.index] = answer'] /\ answer' \in Resolved
        /\ answer'.kind = Ptr[request.op]
    BY <1>0, <1>7, MemberWritten
  <2>2. infos'[request.klass][request.index] = answer'
    BY <1>0, <1>2, <1>3, <2>1, SetEntry DEF Waiting
  <2>3. answer' # NoAnswer
    BY <1>2, <2>1, KindsDiffer DEF NoAnswer
  <2> QED  BY <2>2, <2>3
<1>8. CASE ResolveMember \/ ClassResolved \/ LoadTarget \/ CacheClass
  BY <1>2, <1>8 DEF ResolveMember, ClassResolved, LoadTarget, CacheClass, Go, NoRequest, Request
<1> QED  BY <1>1, <1>4, <1>5, <1>6, <1>7, <1>8
         DEF resolve, NotAMember, NotAClass, ClassNameThrows, LoadThrows, NameAndTypeThrows

(* A resolution that throws leaves the entry symbolic, to be resolved      *)
(* again; one that returns has cached what it returns.                     *)
THEOREM ResolutionsEndAsCached == ResolutionSpec => EndsAsCached
<1> DEFINE Ended == request # NoRequest /\ request' = NoRequest =>
                      LET e == infos'[request.klass][request.index]
                          w == Written(request.klass, request.index)
                      IN  IF answer' = NoAnswer THEN w.kind = Sym[request.op] => e = w ELSE e = answer'
<1>1. Resolving /\ [ResolutionNext]_poolVars => [Ended]_poolVars
  BY EndStep
<1>2. ResolutionSpec => [][Ended]_poolVars
  BY <1>1, ResolutionInvariant, PTL DEF ResolutionSpec
<1> QED  BY <1>2 DEF EndsAsCached
=============================================================================
