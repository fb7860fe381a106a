------------------------ MODULE LoaderFixture_proofs ------------------------
(***************************************************************************)
(* Proofs about LoaderFixture, where the method area is reset only when no *)
(* loader lives, and about the class table it implements.                  *)
(***************************************************************************)
EXTENDS LoaderRefinement, ClassLoading_proofs

(* Loaders live, and calls run, only in the body of a test; a dead loader  *)
(* caches nothing, and during a test the method area holds only classes of *)
(* live loaders.                                                           *)
PhaseSound ==
  /\ phase \in {"idle", "test"}
  /\ stack # <<>> => phase = "test"
  /\ phase = "idle" => \A l \in Addr : paths[l] = Null
  /\ \A l \in Addr : paths[l] = Null => cache[l] = EmptyCache
  /\ phase = "test" => \A key \in Key : area[key] # Null => paths[key[1]] # Null

Base == Shape /\ Ownership /\ CacheSound /\ PhaseSound

-----------------------------------------------------------------------------
(* What a step of loadClass does, whichever action it is.                  *)

(* The class that is about to be published is not cached: the cache holds  *)
(* what the method area holds, and that is the class being prepared.       *)
LEMMA NotYetCached ==
  ASSUME Shape, CacheSound, stack # <<>>, Top.at \in {"methods", "fields"}
  PROVE  cache[this][Top.name] = Null
<1>1. /\ klass[Top.klass].stage # "prepared" /\ area[<<this, Top.name>>] = Top.klass
      /\ this \in LiveLoaders /\ Top.name \in Name
  BY TopSound DEF ActivationSound, InArea, Shape, RunsOnLiveLoader, LiveLoaders, Activation
<1> QED  BY <1>1 DEF CacheSound

(* Nothing that is shared is taken back: caches and the method area only   *)
(* grow, prepared classes do not change and registered ones keep their     *)
(* links.                                                                  *)
Grows ==
  /\ \A l \in Addr, n \in Name : cache[l][n] # Null => cache'[l][n] = cache[l][n]
  /\ \A key \in Key : area[key] # Null => area'[key] = area[key]
  /\ \A k \in Klass : klass[k].stage = "prepared" => klass'[k] = klass[k]
  /\ \A key \in Key : area[key] # Null =>
        /\ klass'[area[key]].super = klass[area[key]].super
        /\ klass'[area[key]].ifaces = klass[area[key]].ifaces
        /\ klass'[area[key]].file = klass[area[key]].file
        /\ klass'[area[key]].loader = klass[area[key]].loader
  /\ UNCHANGED world

(* The types the proofs below need of the shared state. *)
LEMMA Typed ==
  ASSUME Shape
  PROVE  /\ klass \in [Klass -> KlassObject]
         /\ area \in [Key -> Klass \cup {Null}]
         /\ cache \in [Addr -> [Name -> Klass \cup {Null}]]
         /\ paths \in [Addr -> Classpaths \cup {Null}]
         /\ disk \in [Dir -> [Name -> Files \cup {Null}]]
  BY DisksAssumption DEF Shape, TypeOK, Key

(* Steps that change nothing shared but what the innermost activation      *)
(* owns, or a class in a preparation phase.                                *)
LEMMA GrowsQuietly ==
  ASSUME Shape, Ownership, UNCHANGED <<cache, area, world>>,
         \A k \in Klass : k \in Owned \/ klass[k].stage = "free" \/ klass'[k] = klass[k]
  PROVE  Grows
<1>1. \A k \in Owned : klass[k].stage = "linking"
  BY DEF Owned, Shape, StackSound, ActivationSound
<1>2. \A key \in Key : area[key] # Null =>
        area[key] \in Klass /\ area[key] \notin Owned /\ klass[area[key]].stage # "free"
  BY Typed DEF Ownership
<1> QED  BY <1>1, <1>2 DEF Grows

LEMMA ThrowGrows ==
  ASSUME Shape, Ownership, Throw, UNCHANGED world
  PROVE  Grows
<1>1. \A k \in Klass : k \in Owned \/ klass'[k] = klass[k]
  BY DEF Throw
<1> QED  BY <1>1, GrowsQuietly DEF Throw

(* A preparation phase. *)
LEMMA StageGrows ==
  ASSUME Shape, Ownership, stack # <<>>, Top.klass \in Klass, klass[Top.klass].stage # "prepared",
         NEW s \in Stage, klass' = [klass EXCEPT ![Top.klass].stage = s],
         UNCHANGED <<area, world>>,
         \A l \in Addr, n \in Name : cache[l][n] # Null => cache'[l][n] = cache[l][n]
  PROVE  Grows
<1>1. /\ \A k \in Klass : k # Top.klass => klass'[k] = klass[k]
      /\ klass'[Top.klass].super = klass[Top.klass].super
      /\ klass'[Top.klass].ifaces = klass[Top.klass].ifaces
      /\ klass'[Top.klass].file = klass[Top.klass].file
      /\ klass'[Top.klass].loader = klass[Top.klass].loader
  BY Typed DEF KlassObject
<1>2. \A key \in Key : area[key] # Null => area[key] \in Klass
  BY Typed
<1> QED  BY <1>1, <1>2 DEF Grows

LEMMA LoadClassGrows ==
  ASSUME Shape, Ownership, CacheSound, loadClass
  PROVE  Grows
<1> USE DEF Running, Returned, world, heap
<1>1. CASE ClassNotFound \/ ParseThrows \/ SuperNameThrows \/ InterfaceNameThrows
  BY <1>1, ThrowGrows DEF ClassNotFound, ParseThrows, SuperNameThrows, InterfaceNameThrows
<1>2. CASE CacheHit \/ LinkNoSuper \/ LoadSuper \/ LoadInterface \/ PrepareDangling
  <2>1. UNCHANGED <<cache, area, klass, world>>
    BY <1>2 DEF CacheHit, LinkNoSuper, LoadSuper, LoadInterface, PrepareDangling, Recurse
  <2> QED  BY <2>1, GrowsQuietly
<1>3. CASE BeginDefine
  <2>1. PICK f \in Files, k \in Klass :
          /\ klass[k].stage = "free"
          /\ klass' = [klass EXCEPT ![k] = [stage |-> "linking", loader |-> this, file |-> f,
                                            super |-> Null, ifaces |-> {}]]
    BY <1>3 DEF BeginDefine, readClassFile
  <2>2. \A j \in Klass \ {k} : klass'[j] = klass[j]
    BY <2>1, Typed
  <2>3. UNCHANGED <<cache, area, world>>
    BY <1>3 DEF BeginDefine
  <2> QED  BY <2>1, <2>2, <2>3, GrowsQuietly
<1>4. CASE SetSuperClass \/ SetInterface
  <2>1. stack # <<>> /\ Top.at \in {"super", "ifaces"} /\ UNCHANGED <<cache, area, world>>
    BY <1>4 DEF SetSuperClass, SetInterface
  <2>2. Top.klass \in Klass /\ Top.klass \in Owned
    BY <2>1, FileOfTop, OwnedByTop DEF OwnersByTop, Shape
  <2>3. \A j \in Klass \ {Top.klass} : klass'[j] = klass[j]
    BY <1>4, Typed DEF SetSuperClass, SetInterface
  <2> QED  BY <2>1, <2>2, <2>3, GrowsQuietly
<1>5. CASE AddClass
  <2> USE <1>5 DEF AddClass
  <2>1. Top.klass \in Klass /\ Top.klass \in Owned /\ <<this, Top.name>> \in Key
    BY FileOfTop, OwnedByTop, TopSound DEF OwnersByTop, Shape, RunsOnLiveLoader, Activation, Key
  <2>2. CASE area[<<this, Top.name>>] = Null
    <3>1. klass' = klass /\ \A key \in Key : area[key] # Null => area'[key] = area[key]
      BY <2>1, <2>2, Typed
    <3> QED  BY <3>1 DEF Grows
  <2>3. CASE area[<<this, Top.name>>] # Null
    <3>1. UNCHANGED area /\ \A j \in Klass \ {Top.klass} : klass'[j] = klass[j]
      BY <2>1, <2>3, Typed
    <3> QED  BY <2>1, <3>1, GrowsQuietly
  <2> QED  BY <2>2, <2>3
<1>6. CASE PrepareRuntimeConstantPool
  <2> USE <1>6 DEF PrepareRuntimeConstantPool
  <2>1. CASE TopFile.fails = "pool"
    BY <2>1, ThrowGrows
  <2>2. CASE TopFile.fails # "pool"
    <3>1. Top.klass \in Klass /\ klass[Top.klass].stage # "prepared"
      BY TopSound DEF ActivationSound
    <3> QED  BY <2>2, <3>1, StageGrows DEF Stage
  <2> QED  BY <2>1, <2>2
<1>7. CASE PrepareMethods
  <2> USE <1>7 DEF PrepareMethods
  <2>1. CASE TopFile.fails = "methods"
    BY <2>1, ThrowGrows
  <2>2. CASE TopFile.fails # "methods"
    <3>1. Top.klass \in Klass /\ klass[Top.klass].stage # "prepared"
      BY TopSound DEF ActivationSound
    <3> QED  BY <2>2, <3>1, StageGrows DEF Stage
  <2> QED  BY <2>1, <2>2
<1>8. CASE PrepareFieldsAndStatics
  <2> USE <1>8 DEF PrepareFieldsAndStatics
  <2>1. CASE TopFile.fails = "fields"
    BY <2>1, ThrowGrows
  <2>2. CASE TopFile.fails # "fields"
    <3>1. Top.klass \in Klass /\ klass[Top.klass].stage # "prepared"
      BY TopSound DEF ActivationSound
    <3>2. cache[this][Top.name] = Null /\ this \in Addr /\ Top.name \in Name
      BY NotYetCached, TopSound DEF Shape, RunsOnLiveLoader, Activation
    <3>3. cache' = [cache EXCEPT ![this] = [cache[this] EXCEPT ![Top.name] = Top.klass]]
      BY <2>2
    <3>4. \A l \in Addr, n \in Name : cache[l][n] # Null => cache'[l][n] = cache[l][n]
      BY <3>2, <3>3, Typed
    <3> QED  BY <2>2, <3>1, <3>4, StageGrows DEF Stage
  <2> QED  BY <2>1, <2>2
<1> QED  BY <1>1, <1>2, <1>3, <1>4, <1>5, <1>6, <1>7, <1>8 DEF loadClass

-----------------------------------------------------------------------------
(* What a step of loadClass does to the activations. *)

Throws  == stack' = <<>> /\ ret' = Null /\ thrown'
Faults  == UNCHANGED <<stack, ret, cache, area, klass>> /\ fault' # "none"
Nests(n) ==
  /\ Top.at \in {"super", "ifaces"} /\ ret = Null /\ n \in Needs(TopFile)
  /\ stack' = Append(stack, Entry(n))
  /\ UNCHANGED <<cache, area, klass, ret>>
Returns ==
  /\ Top.at \in {"enter", "fields"} /\ ret = Null
  /\ stack' = Pop
  /\ ret' # Null /\ ret' = cache'[this][Top.name]
  /\ thrown' = thrown
Moves(a) ==
  /\ a.name = Top.name
  /\ stack' = SetTop(a) /\ ret' = Null
  /\ UNCHANGED cache

(* The name that a nested call of activation a loads, Null where all its   *)
(* links are set.                                                          *)
WantedBy(objects, a) ==
  IF a.at = "super" THEN objects[a.klass].file.super
  ELSE IF a.linked < Len(objects[a.klass].file.ifaces)
    THEN objects[a.klass].file.ifaces[a.linked + 1].name
  ELSE Null
Wanted(a) == WantedBy(klass, a)

StackStep ==
  \/ Throws
  \/ Faults
  \/ \E n \in Name : n = Wanted(Top) /\ Nests(n)
  \/ Returns
  \/ \E a \in Activation : Moves(a)

(* The name that LoadSuper or LoadInterface calls loadClass with. *)
Calls(n) ==
  /\ Top.at \in {"super", "ifaces"} /\ ret = Null
  /\ n = Wanted(Top) /\ n \in Needs(TopFile)
  /\ Recurse(n)

LEMMA CalledName ==
  ASSUME Shape, LoadSuper \/ LoadInterface
  PROVE  \E n \in Name : Calls(n)
<1> USE DEF Running
<1>1. CASE LoadSuper
  <2>1. stack # <<>> /\ Top.at = "super" /\ TopFile.super # Null /\ Recurse(TopFile.super) /\ ret = Null
    BY <1>1 DEF LoadSuper
  <2>2. PICK n \in Name : n = TopFile.super
    BY <2>1, FileOfTop DEF Shape, ClassFile
  <2>3. n = Wanted(Top) /\ n \in Needs(TopFile)
    BY <2>1, <2>2, NullAssumption DEF Wanted, WantedBy, TopFile, Needs
  <2> QED  BY <2>1, <2>2, <2>3 DEF Calls
<1>2. CASE LoadInterface
  <2>1. /\ stack # <<>> /\ Top.at = "ifaces" /\ Top.linked < Len(TopFile.ifaces) /\ ret = Null
        /\ TopInterface.name # Null /\ Recurse(TopInterface.name)
    BY <1>2 DEF LoadInterface
  <2>2. TopFile.ifaces \in Seq(Interface) /\ Top.linked \in Nat
    BY <2>1, FileOfTop, TopInStack DEF Shape, ClassFile, Activation
  <2>3. Top.linked + 1 \in DOMAIN TopFile.ifaces
    BY <2>1, <2>2, LenProperties
  <2>4. TopInterface \in Interface
    BY <2>2, <2>3, ElementOfSeq, LenProperties DEF TopInterface
  <2>5. PICK n \in Name : n = TopInterface.name
    BY <2>1, <2>4 DEF Interface
  <2>6. n = Wanted(Top) /\ n \in Needs(TopFile)
    BY <2>1, <2>3, <2>5, NullAssumption DEF Wanted, WantedBy, TopFile, TopInterface, Needs
  <2> QED  BY <2>1, <2>5, <2>6 DEF Calls
<1> QED  BY <1>1, <1>2

LEMMA LoadClassStack ==
  ASSUME Shape, loadClass
  PROVE  stack # <<>> /\ UNCHANGED this /\ StackStep
<1> USE DEF Running, Returned, world, heap, call, Advance
<1>0. stack # <<>> /\ UNCHANGED this
  BY DEF loadClass, CacheHit, ClassNotFound, ParseThrows, BeginDefine, LinkNoSuper, SuperNameThrows, InterfaceNameThrows,
         LoadSuper, SetSuperClass, LoadInterface, SetInterface, AddClass, PrepareDangling,
         PrepareRuntimeConstantPool, PrepareMethods, PrepareFieldsAndStatics, Throw, Recurse
<1>1. CASE ClassNotFound \/ ParseThrows \/ SuperNameThrows \/ InterfaceNameThrows
  BY <1>0, <1>1 DEF ClassNotFound, ParseThrows, SuperNameThrows, InterfaceNameThrows, Throw, Throws, StackStep
<1>2. CASE CacheHit
  BY <1>0, <1>2 DEF CacheHit, Returns, StackStep
<1>3. CASE BeginDefine
  <2>1. PICK k \in Klass : stack' = SetTop([Top EXCEPT !.klass = k, !.at = "super"])
    BY <1>3 DEF BeginDefine
  <2>2. PICK a \in Activation : a = [Top EXCEPT !.klass = k, !.at = "super"]
    BY <1>0, TopSound DEF Activation, Position
  <2>3. a.name = Top.name
    BY <1>0, <2>2, TopSound DEF Activation
  <2> QED  BY <1>0, <1>3, <2>1, <2>2, <2>3 DEF BeginDefine, Moves, StackStep
<1>4. CASE LinkNoSuper \/ SetSuperClass
  <2>1. PICK a \in Activation : a = [Top EXCEPT !.at = "ifaces"]
    BY <1>0, TopSound DEF Activation, Position
  <2>2. a.name = Top.name
    BY <1>0, <2>1, TopSound DEF Activation
  <2> QED  BY <1>0, <1>4, <2>1, <2>2 DEF LinkNoSuper, SetSuperClass, Moves, StackStep
<1>5. ASSUME NEW n \in Name, Calls(n)
      PROVE  StackStep
  <2>1. CASE Len(stack) < MaxDepth
    BY <1>5, <2>1 DEF Calls, Recurse, Nests, Entry, StackStep
  <2>2. CASE ~ Len(stack) < MaxDepth
    BY <1>5, <2>2 DEF Calls, Recurse, Faults, StackStep
  <2> QED  BY <2>1, <2>2
<1>6. CASE LoadSuper \/ LoadInterface
  BY <1>0, <1>5, <1>6, CalledName DEF Calls
<1>8. CASE SetInterface
  <2>1. CASE TopInterface.index < Len(TopFile.ifaces)
    <3>0. Top \in Activation /\ Top.linked + 1 \in Nat
      BY <1>0, TopSound DEF Activation
    <3>1. PICK a \in Activation : a = [Top EXCEPT !.linked = @ + 1]
      BY <3>0 DEF Activation
    <3>2. a.name = Top.name
      BY <1>0, <3>1, TopSound DEF Activation
    <3> QED  BY <1>0, <1>8, <2>1, <3>1, <3>2 DEF SetInterface, Moves, StackStep
  <2>2. CASE ~ TopInterface.index < Len(TopFile.ifaces)
    BY <1>0, <1>8, <2>2 DEF SetInterface, Faults, StackStep
  <2> QED  BY <2>1, <2>2
<1>9. CASE AddClass
  <2>1. PICK a \in Activation : a = [Top EXCEPT !.at = "pool"]
    BY <1>0, TopSound DEF Activation, Position
  <2>2. a.name = Top.name
    BY <1>0, <2>1, TopSound DEF Activation
  <2> QED  BY <1>0, <1>9, <2>1, <2>2 DEF AddClass, Moves, StackStep
<1>10. CASE PrepareDangling
  BY <1>0, <1>10 DEF PrepareDangling, Faults, StackStep
<1>11. CASE PrepareRuntimeConstantPool
  <2>1. PICK a \in Activation : a = [Top EXCEPT !.at = "methods"]
    BY <1>0, TopSound DEF Activation, Position
  <2>2. a.name = Top.name
    BY <1>0, <2>1, TopSound DEF Activation
  <2> QED  BY <1>0, <1>11, <2>1, <2>2 DEF PrepareRuntimeConstantPool, Throw, Throws, Moves, StackStep
<1>12. CASE PrepareMethods
  <2>1. PICK a \in Activation : a = [Top EXCEPT !.at = "fields"]
    BY <1>0, TopSound DEF Activation, Position
  <2>2. a.name = Top.name
    BY <1>0, <2>1, TopSound DEF Activation
  <2> QED  BY <1>0, <1>12, <2>1, <2>2 DEF PrepareMethods, Throw, Throws, Moves, StackStep
<1>13. CASE PrepareFieldsAndStatics
  <2> USE <1>13 DEF PrepareFieldsAndStatics
  <2>1. CASE TopFile.fails = "fields"
    BY <1>0, <2>1 DEF Throw, Throws, StackStep
  <2>2. CASE TopFile.fails # "fields"
    <3>1. Top.klass \in Klass /\ this \in Addr /\ Top.name \in Name
      BY <1>0, TopSound DEF ActivationSound, Shape, RunsOnLiveLoader, Activation
    <3>2. cache' = [cache EXCEPT ![this] = [cache[this] EXCEPT ![Top.name] = Top.klass]]
      BY <2>2
    <3>3. cache'[this][Top.name] = Top.klass
      BY <3>1, <3>2, Typed
    <3> QED  BY <1>0, <2>2, <3>1, <3>3, NullAssumption DEF Returns, StackStep
  <2> QED  BY <2>1, <2>2
<1> QED  BY <1>0, <1>1, <1>2, <1>3, <1>4, <1>6, <1>8, <1>9, <1>10, <1>11, <1>12, <1>13
         DEF loadClass

-----------------------------------------------------------------------------
(* The fixture's own actions keep the base of the invariants. *)

LEMMA SetUpBase ==
  ASSUME Base, NEW l \in Addr, NEW path \in Classpaths, SetUp(l, path)
  PROVE  Base'
<1> USE DEF SetUp, Idle, call
<1>0. Shape /\ Ownership /\ CacheSound /\ PhaseSound
  BY DEF Base
<1>1. \A m \in Addr : m # l => paths'[m] = Null
  BY <1>0, Typed DEF PhaseSound
<1>2. klass' \in [Klass -> KlassObject] /\ KlassHasFile'
  BY <1>0 DEF FreeAll, Shape, TypeOK, KlassHasFile, KlassObject, Raw, Stage
<1>3. EmptyCache \in [Name -> Klass \cup {Null}] /\ area' \in [Addr \X Name -> Klass \cup {Null}]
  BY DEF EmptyCache, EmptyArea
<1>4. /\ cache' \in [Addr -> [Name -> Klass \cup {Null}]] /\ cache'[l] = EmptyCache
      /\ \A m \in Addr : m # l => cache'[m] = cache[m]
  BY <1>0, <1>3, Typed
<1>5. Shape'
  <2>1. TypeOK'
    BY <1>0, <1>2, <1>3, <1>4 DEF Shape, TypeOK
  <2> QED  BY <1>2, <2>1 DEF Shape, StackSound, RunsOnLiveLoader
<1>6. Ownership'
  <2>1. Owned = {} /\ Owned' = {}
    BY IdleOwnsNothing DEF Owned
  <2>2. \A k \in Klass : klass[k].stage # "free" => k \in Registered
    BY <1>0, <2>1, Typed, NullAssumption DEF Ownership, Registered
  <2>3. \A k \in Klass : klass'[k].stage = "free"
    BY <2>2 DEF FreeAll, Raw
  <2>4. \A key \in Key : area'[key] = Null
    BY DEF EmptyArea, Key
  <2> QED  BY <2>3, <2>4 DEF Ownership
<1>7. CacheSound'
  BY <1>1, <1>4 DEF CacheSound, LiveLoaders, EmptyCache
<1>8. PhaseSound'
  <2>1. \A key \in Key : area'[key] = Null
    BY DEF EmptyArea, Key
  <2>2. \A m \in Addr : paths'[m] = Null => cache'[m] = EmptyCache
    BY <1>0, <1>4, Typed DEF PhaseSound
  <2> QED  BY <2>1, <2>2 DEF PhaseSound
<1> QED  BY <1>5, <1>6, <1>7, <1>8 DEF Base

LEMMA BodyNewLoaderBase ==
  ASSUME Base, NEW l \in Addr, NEW path \in Classpaths, BodyNewLoader(l, path)
  PROVE  Base'
<1> USE DEF BodyNewLoader
<1>0. Shape /\ Ownership /\ CacheSound /\ PhaseSound
  BY DEF Base
<1>1. Shape' /\ CacheSound'
  BY <1>0, NewLoaderStep
<1>2. Ownership'
  <2>1. Owned' = Owned
    BY DEF NewLoader, call, Owned
  <2> QED  BY <1>0, <2>1, OwnershipKept DEF NewLoader, heap
<1>3. PhaseSound'
  <2>1. /\ \A m \in Addr : m # l => paths'[m] = paths[m] /\ cache'[m] = cache[m]
        /\ cache'[l] = EmptyCache
        /\ paths'[l] = path /\ path # Null
    BY <1>0, Typed, NullAssumption DEF NewLoader
  <2>2. \A key \in Key : key[1] \in Addr
    BY DEF Key
  <2> QED  BY <1>0, <2>1, <2>2 DEF PhaseSound, NewLoader, Idle, heap, call
<1> QED  BY <1>1, <1>2, <1>3 DEF Base

LEMMA BodyLoadClassBase ==
  ASSUME Base, NEW l \in Addr, NEW n \in Name, BodyLoadClass(l, n)
  PROVE  Base'
<1> USE DEF BodyLoadClass
<1>0. Shape /\ Ownership /\ CacheSound /\ PhaseSound
  BY DEF Base
<1>1. Shape' /\ CacheSound'
  BY <1>0, CallLoadClassStep
<1>2. Ownership'
  <2>1. stack' = Append(stack, Entry(n))
    BY DEF CallLoadClass, Idle, Entry
  <2> QED  BY <1>0, <2>1, OwnedByPush, OwnershipKept DEF CallLoadClass, heap
<1>3. PhaseSound'
  BY <1>0 DEF PhaseSound, CallLoadClass, heap, world
<1> QED  BY <1>1, <1>2, <1>3 DEF Base

LEMMA TearDownBase ==
  ASSUME Base, TearDown
  PROVE  Base'
<1> USE DEF TearDown, Idle, heap, call
<1>0. Shape /\ Ownership /\ CacheSound /\ PhaseSound
  BY DEF Base
<1>1. EmptyCache \in [Name -> Klass \cup {Null}]
  BY DEF EmptyCache
<1>2. TypeOK'
  BY <1>0, <1>1 DEF Shape, TypeOK
<1>3. Shape'
  BY <1>0, <1>2 DEF Shape, StackSound, RunsOnLiveLoader, KlassHasFile
<1>4. Ownership'
  <2>1. Owned' = Owned
    BY DEF Owned
  <2> QED  BY <1>0, <2>1, OwnershipKept
<1>5. CacheSound' /\ PhaseSound'
  BY DEF CacheSound, LiveLoaders, PhaseSound
<1> QED  BY <1>3, <1>4, <1>5 DEF Base

LEMMA LoadClassBase ==
  ASSUME Base, Running_loadClass
  PROVE  Base'
<1> USE DEF Running_loadClass
<1>0. Shape /\ Ownership /\ CacheSound /\ PhaseSound
  BY DEF Base
<1>1. Shape' /\ CacheSound' /\ Ownership'
  BY <1>0, LoadClassStep, LoadClassOwnership
<1>2. stack # <<>> /\ this \in Addr /\ paths[this] # Null /\ UNCHANGED world
  BY <1>0, LoadClassStack, LoadClassGrows DEF Shape, RunsOnLiveLoader, Grows
<1>3. \A l \in Addr : paths[l] = Null => cache'[l] = cache[l]
  <2>1. UNCHANGED cache \/ \E c : cache' = [cache EXCEPT ![this] = c]
    BY DEF loadClass, CacheHit, ClassNotFound, ParseThrows, BeginDefine, LinkNoSuper, SuperNameThrows, InterfaceNameThrows,
           LoadSuper, SetSuperClass, LoadInterface, SetInterface, AddClass, PrepareDangling,
           PrepareRuntimeConstantPool, PrepareMethods, PrepareFieldsAndStatics, Throw, Recurse
  <2> QED  BY <1>0, <1>2, <2>1, Typed
<1>4. \A key \in Key : area'[key] # area[key] => key[1] = this
  <2>1. UNCHANGED area \/ \E k : area' = [area EXCEPT ![<<this, Top.name>>] = k]
    BY DEF loadClass, CacheHit, ClassNotFound, ParseThrows, BeginDefine, LinkNoSuper, SuperNameThrows, InterfaceNameThrows,
           LoadSuper, SetSuperClass, LoadInterface, SetInterface, AddClass, PrepareDangling,
           PrepareRuntimeConstantPool, PrepareMethods, PrepareFieldsAndStatics, Throw, Recurse, heap
  <2> QED  BY <1>0, <2>1, Typed
<1>5. PhaseSound'
  BY <1>0, <1>2, <1>3, <1>4 DEF PhaseSound, world
<1> QED  BY <1>1, <1>5 DEF Base

LEMMA NextBase ==
  ASSUME Base, [FixtureNext]_fixtureVars
  PROVE  Base'
<1>1. CASE UNCHANGED fixtureVars
  <2>1. UNCHANGED vars /\ UNCHANGED phase
    BY <1>1 DEF fixtureVars
  <2>2. Shape' /\ CacheSound' /\ Ownership'
    BY <2>1, ShapeStutters, NextOwnership DEF Base
  <2>3. PhaseSound'
    BY <2>1 DEF Base, PhaseSound, vars
  <2> QED  BY <2>2, <2>3 DEF Base
<1> QED  BY <1>1, LoadClassBase, SetUpBase, BodyNewLoaderBase, BodyLoadClassBase, TearDownBase
         DEF FixtureNext

LEMMA InitBase == FixtureInit => Base
<1> SUFFICES ASSUME FixtureInit PROVE Base
  OBVIOUS
<1>1. PhaseSound
  BY DEF FixtureInit, Init, PhaseSound, EmptyArea, EmptyCache
<1> QED  BY <1>1, InitShape, InitOwnership DEF Base, FixtureInit

(* Every reachable state has sound activations, owners, caches and phases. *)
THEOREM FixtureInvariant == FixtureSpec => []Base
<1>1. Base /\ [FixtureNext]_fixtureVars => Base'
  BY NextBase
<1> QED  BY InitBase, <1>1, PTL DEF FixtureSpec

(* Type correctness of the loader, the method area and the activation      *)
(* stack, for any number of names, loaders and classes.                    *)
THEOREM TypeCorrect == FixtureSpec => []TypeOK
<1>1. Base => TypeOK
  BY DEF Base, Shape
<1> QED  BY <1>1, FixtureInvariant, PTL

(* The cache of loadClass (class_loader.cpp:149,172) holds only classes    *)
(* that are prepared, alive and registered by their loader, whatever files *)
(* are missing, malformed or fail to prepare, and whatever is retried.     *)
THEOREM CacheIsSound == FixtureSpec => []CacheSound
<1>1. Base => CacheSound
  BY DEF Base
<1> QED  BY <1>1, FixtureInvariant, PTL

(* Between calls every class object is owned by one method area entry,     *)
(* also after loads that threw at any point.                               *)
THEOREM NoKlassLeaks == FixtureSpec => []NoLeak
<1>1. Base => NoLeak
  BY OwnershipMeansNoLeak DEF Base
<1> QED  BY <1>1, FixtureInvariant, PTL

-----------------------------------------------------------------------------
(* Action properties. *)

LEMMA StableStep ==
  ASSUME Base, FixtureNext, NEW l \in Addr, NEW n \in Name,
         paths[l] # Null, paths'[l] # Null, cache[l][n] # Null
  PROVE  cache'[l][n] = cache[l][n]
<1>0. Shape /\ Ownership /\ CacheSound /\ PhaseSound
  BY DEF Base
<1>1. CASE Running_loadClass
  BY <1>0, <1>1, LoadClassGrows DEF Running_loadClass, Grows
<1>2. CASE \E m \in Addr, path \in Classpaths : SetUp(m, path)
  BY <1>0, <1>2 DEF SetUp, PhaseSound
<1>3. CASE \E m \in Addr, path \in Classpaths : BodyNewLoader(m, path)
  BY <1>0, <1>3, Typed DEF BodyNewLoader, NewLoader
<1>4. CASE \E m \in Addr, k \in Name : BodyLoadClass(m, k)
  BY <1>4 DEF BodyLoadClass, CallLoadClass
<1>5. CASE TearDown
  BY <1>5 DEF TearDown
<1> QED  BY <1>1, <1>2, <1>3, <1>4, <1>5 DEF FixtureNext

(* While a loader lives, a name keeps the class it has been given: the     *)
(* step that caches a class never replaces one, because the method area    *)
(* would not have taken a second class for the name.                       *)
THEOREM CachesOnlyGrow == FixtureSpec => CacheStable
<1> DEFINE Stable == \A l \in Addr, n \in Name :
                        paths[l] # Null /\ paths'[l] # Null /\ cache[l][n] # Null
                          => cache'[l][n] = cache[l][n]
<1>1. Base /\ [FixtureNext]_fixtureVars => [Stable]_fixtureVars
  BY StableStep
<1>2. FixtureSpec => [][Stable]_fixtureVars
  BY <1>1, FixtureInvariant, PTL DEF FixtureSpec
<1> QED  BY <1>2 DEF CacheStable

LEMMA ReturnStep ==
  ASSUME Base, FixtureNext, NEW n \in Name,
         Len(stack) = 1, stack[1].name = n, stack' = <<>>, ~ thrown'
  PROVE  ret' # Null /\ ret' = cache'[this][n]
<1>0. Shape /\ stack # <<>>
  BY DEF Base
<1>1. Running_loadClass
  BY <1>0 DEF FixtureNext, SetUp, BodyNewLoader, NewLoader, BodyLoadClass, CallLoadClass, TearDown, Idle
<1>2. StackStep
  BY <1>0, <1>1, LoadClassStack DEF Running_loadClass
<1>3. Top.name = n
  BY DEF Top
<1>4. ~ Faults /\ ~ Throws
  BY <1>0 DEF Faults, Throws
<1>5. \A m \in Name : ~ Nests(m)
  BY <1>0, PushFacts, LenProperties, EmptySeq DEF Nests, Shape
<1>6. \A a \in Activation : ~ Moves(a)
  BY <1>0, OuterStays DEF Moves
<1> QED  BY <1>2, <1>3, <1>4, <1>5, <1>6 DEF StackStep, Returns

(* A load that returns gives its caller what the cache now holds for the   *)
(* name it asked for (class_loader.cpp:170-174).                           *)
THEOREM LoadsReturnTheCached == FixtureSpec => ReturnsCached
<1> DEFINE Given == \A n \in Name :
                       Len(stack) = 1 /\ stack[1].name = n /\ stack' = <<>> /\ ~ thrown'
                         => ret' # Null /\ ret' = cache'[this][n]
<1>1. Base /\ [FixtureNext]_fixtureVars => [Given]_fixtureVars
  BY ReturnStep
<1>2. FixtureSpec => [][Given]_fixtureVars
  BY <1>1, FixtureInvariant, PTL DEF FixtureSpec
<1> QED  BY <1>2 DEF ReturnsCached

-----------------------------------------------------------------------------
(* The chain of nested calls: each activation below the innermost waits    *)
(* for the name its own file refers to, and what a nested call returns is  *)
(* cached under that name.                                                 *)

Chained ==
  /\ \A i \in DOMAIN stack : i < Len(stack) => stack[i + 1].name = Wanted(stack[i])
  /\ stack # <<>> /\ ret # Null => Wanted(Top) \in Name /\ ret = cache[this][Wanted(Top)]

(* A step of loadClass leaves the objects of the outer activations alone,  *)
(* unless it throws.                                                       *)
LEMMA OuterUnchanged ==
  ASSUME Shape, Ownership, CacheSound, loadClass, ~ Throws,
         NEW i \in DOMAIN stack, i < Len(stack)
  PROVE  klass'[stack[i].klass] = klass[stack[i].klass]
<1> USE DEF Running, Returned, world, heap
<1>1. /\ stack[i].klass # Top.klass
      /\ stack[i].klass \in Klass
      /\ klass[stack[i].klass].stage = "linking"
  BY LoadClassStack, TopSound
<1>2. ~ Throw
  BY DEF Throw, Throws
<1>3. CASE CacheHit \/ LinkNoSuper \/ LoadSuper \/ LoadInterface \/ PrepareDangling
  BY <1>3 DEF CacheHit, LinkNoSuper, LoadSuper, LoadInterface, PrepareDangling, Recurse
<1>4. CASE ClassNotFound \/ ParseThrows \/ SuperNameThrows \/ InterfaceNameThrows
  BY <1>2, <1>4 DEF ClassNotFound, ParseThrows, SuperNameThrows, InterfaceNameThrows
<1>5. CASE BeginDefine
  <2>1. PICK k \in Klass, f \in Files : klass[k].stage = "free"
          /\ klass' = [klass EXCEPT ![k] = [stage |-> "linking", loader |-> this, file |-> f,
                                            super |-> Null, ifaces |-> {}]]
    BY <1>5 DEF BeginDefine, readClassFile
  <2> QED  BY <1>1, <2>1, Typed
<1>6. CASE SetSuperClass \/ SetInterface \/ AddClass \/ PrepareRuntimeConstantPool
             \/ PrepareMethods \/ PrepareFieldsAndStatics
  <2>1. UNCHANGED klass \/ \E o : klass' = [klass EXCEPT ![Top.klass] = o]
    BY <1>2, <1>6 DEF SetSuperClass, SetInterface, AddClass, PrepareRuntimeConstantPool,
                      PrepareMethods, PrepareFieldsAndStatics
  <2> QED  BY <1>1, <2>1, Typed
<1> QED  BY <1>3, <1>4, <1>5, <1>6 DEF loadClass

LEMMA ChainStep ==
  ASSUME Shape, Ownership, CacheSound, Chained, loadClass
  PROVE  Chained'
<1>0. /\ stack # <<>> /\ UNCHANGED this /\ StackStep
      /\ Len(stack) \in Nat /\ Len(stack) # 0
      /\ DOMAIN stack = 1 .. Len(stack)
      /\ Top = stack[Len(stack)] /\ Top \in Activation
  BY LoadClassStack, TopInStack DEF Top, Shape
<1>1. CASE Throws
  BY <1>1 DEF Throws, Chained
<1>2. CASE Faults
  BY <1>0, <1>2 DEF Faults, Chained, Wanted, Top
<1>3. CASE ~ Throws /\ \E a \in Activation : Moves(a)
  <2>1. PICK a \in Activation : Moves(a)
    BY <1>3
  <2>2. /\ Len(stack') = Len(stack) /\ DOMAIN stack' = DOMAIN stack
        /\ stack'[Len(stack)] = a
        /\ \A i \in DOMAIN stack : i # Len(stack) => stack'[i] = stack[i]
    BY <1>0, <2>1, SetTopFacts DEF Moves, Shape
  <2>3. \A i \in DOMAIN stack : stack'[i].name = stack[i].name
    BY <1>0, <2>1, <2>2 DEF Moves
  <2>4. ASSUME NEW i \in DOMAIN stack, i < Len(stack)
        PROVE  WantedBy(klass', stack'[i]) = WantedBy(klass, stack[i])
    <3>1. stack'[i] = stack[i] /\ klass'[stack[i].klass] = klass[stack[i].klass]
      BY <1>0, <1>3, <2>2, <2>4, OuterUnchanged
    <3> QED  BY <3>1 DEF WantedBy
  <2>5. \A i \in DOMAIN stack : i < Len(stack) => i + 1 \in DOMAIN stack
    BY <1>0
  <2>6. \A i \in DOMAIN stack' : i < Len(stack') => stack'[i + 1].name = WantedBy(klass', stack'[i])
    BY <2>2, <2>3, <2>4, <2>5 DEF Chained, Wanted
  <2>7. ret' = Null
    BY <2>1 DEF Moves
  <2> QED  BY <2>6, <2>7 DEF Chained, Wanted
<1>4. CASE \E n \in Name : n = Wanted(Top) /\ Nests(n)
  <2>1. PICK n \in Name : n = Wanted(Top) /\ Nests(n)
    BY <1>4
  <2>2. /\ Len(stack') = Len(stack) + 1 /\ DOMAIN stack' = 1 .. Len(stack) + 1
        /\ stack'[Len(stack) + 1] = Entry(n)
        /\ \A i \in 1 .. Len(stack) : stack'[i] = stack[i]
    BY <1>0, <2>1, PushFacts DEF Nests, Shape
  <2>3. Entry(n).name = n
    BY DEF Entry
  <2>4. ASSUME NEW i \in 1 .. Len(stack)
        PROVE  stack'[i + 1].name = Wanted(stack[i])
    <3>1. CASE i = Len(stack)
      BY <1>0, <2>1, <2>2, <2>3, <3>1
    <3>2. CASE i < Len(stack)
      <4>1. i + 1 \in 1 .. Len(stack)
        BY <1>0, <3>2
      <4> QED  BY <1>0, <2>2, <3>2, <4>1 DEF Chained
    <3>3. \A m \in Nat : \A j \in 1 .. m : j = m \/ j < m
      OBVIOUS
    <3>4. i = Len(stack) \/ i < Len(stack)
      BY <1>0, <3>3, Zenon
    <3> QED  BY <3>1, <3>2, <3>4
  <2>5. UNCHANGED <<klass, ret>> /\ ret = Null
    BY <2>1 DEF Nests
  <2>6. \A i \in DOMAIN stack' : i < Len(stack') => i \in 1 .. Len(stack) /\ stack'[i] = stack[i]
    BY <1>0, <2>2
  <2> QED  BY <2>4, <2>5, <2>6 DEF Chained, Wanted
<1>5. CASE ~ Throws /\ Returns
  <2>1. /\ Len(stack') = Len(stack) - 1 /\ DOMAIN stack' = 1 .. Len(stack) - 1
        /\ \A i \in DOMAIN stack' : i \in DOMAIN stack /\ i < Len(stack) /\ stack'[i] = stack[i]
    BY <1>0, <1>5, PopFacts DEF Returns, Shape
  <2>2. ASSUME NEW i \in DOMAIN stack'
        PROVE  stack[i + 1].name = WantedBy(klass', stack'[i])
    <3>1. klass'[stack[i].klass] = klass[stack[i].klass] /\ stack'[i] = stack[i]
      BY <1>0, <1>5, <2>1, <2>2, OuterUnchanged
    <3>2. stack[i + 1].name = WantedBy(klass, stack[i])
      BY <2>1, <2>2 DEF Chained, Wanted
    <3> QED  BY <3>1, <3>2 DEF WantedBy
  <2>3. \A i \in DOMAIN stack' : i < Len(stack') => i + 1 \in DOMAIN stack'
    BY <1>0, <2>1
  <2>4. \A i \in DOMAIN stack' : i < Len(stack') => stack'[i + 1].name = WantedBy(klass', stack'[i])
    BY <2>1, <2>2, <2>3
  <2>5. ASSUME stack' # <<>>
        PROVE  /\ WantedBy(klass', stack'[Len(stack')]) \in Name
               /\ ret' = cache'[this'][WantedBy(klass', stack'[Len(stack')])]
    <3>1. Len(stack') \in DOMAIN stack' /\ Len(stack') + 1 = Len(stack)
      <4>1. Len(stack') # 0
        BY <1>0, <1>5, <2>1, <2>5, PopFacts, EmptySeq DEF Returns, Shape
      <4> QED  BY <1>0, <2>1, <4>1
    <3>2. WantedBy(klass', stack'[Len(stack')]) = Top.name
      BY <1>0, <2>2, <3>1
    <3> QED  BY <1>0, <1>5, <3>2 DEF Returns, Activation
  <2> QED  BY <2>4, <2>5 DEF Chained, Wanted, Top
<1> QED  BY <1>0, <1>1, <1>2, <1>3, <1>4, <1>5 DEF StackStep

-----------------------------------------------------------------------------
(* The links: what the superclass and interface pointers of a class lead   *)
(* to, once the class is registered and while it is built.                 *)

SuperLinked(o, table) ==
  IF o.file.super = Null THEN o.super = Null
  ELSE o.super # Null /\ o.super = table[o.file.super]

(* The interface pointers are the classes of the first m interface names.  *)
FirstLinked(o, table, m) ==
  /\ \A i \in 1 .. m : /\ o.file.ifaces[i].name \in Name
                       /\ table[o.file.ifaces[i].name] # Null
  /\ o.ifaces = {table[o.file.ifaces[i].name] : i \in 1 .. m}
IfacesLinked(o, table) == FirstLinked(o, table, Len(o.file.ifaces))

(* How far the linking of an activation's class has come, and that its     *)
(* file is one a directory has under the name that was asked for.          *)
LinksOf(a, objects, table, dirs) ==
  /\ a.at \in {"super", "ifaces"} => \E d \in Dir : dirs[d][a.name] = objects[a.klass].file
  /\ a.at \in {"enter", "super"} => a.linked = 0
  /\ a.at = "super" => objects[a.klass].super = Null
  /\ a.at \in {"super", "ifaces"} => FirstLinked(objects[a.klass], table, a.linked)
  /\ a.at = "ifaces" => SuperLinked(objects[a.klass], table)

RegisteredLinked ==
  phase = "test" =>
    \A key \in Key : area[key] # Null =>
      /\ SuperLinked(klass[area[key]], cache[key[1]])
      /\ IfacesLinked(klass[area[key]], cache[key[1]])
BuildingLinked == \A i \in DOMAIN stack : LinksOf(stack[i], klass, cache[this], disk)

Linking == Base /\ Chained /\ RegisteredLinked /\ BuildingLinked

(* A class whose links stay keeps them sound in a table that only grows. *)
LEMMA LinksKept ==
  ASSUME NEW o, o.file \in ClassFile, o.ifaces \subseteq Klass,
         NEW p, p.super = o.super, p.ifaces = o.ifaces, p.file = o.file,
         NEW c, NEW d, \A n \in Name : c[n] # Null => d[n] = c[n]
  PROVE  /\ SuperLinked(o, c) => SuperLinked(p, d)
         /\ \A m : FirstLinked(o, c, m) => FirstLinked(p, d, m)
         /\ IfacesLinked(o, c) => IfacesLinked(p, d)
<1>1. o.file.super \in Name \cup {Null}
  BY DEF ClassFile
<1>2. SuperLinked(o, c) => SuperLinked(p, d)
  BY <1>1, NullAssumption DEF SuperLinked
<1>3. ASSUME NEW m, FirstLinked(o, c, m)
      PROVE  FirstLinked(p, d, m)
  <2>1. \A i \in 1 .. m : /\ p.file.ifaces[i].name \in Name
                          /\ d[p.file.ifaces[i].name] = c[o.file.ifaces[i].name]
                          /\ d[p.file.ifaces[i].name] # Null
    BY <1>3 DEF FirstLinked
  <2>2. {d[p.file.ifaces[i].name] : i \in 1 .. m} = {c[o.file.ifaces[i].name] : i \in 1 .. m}
    BY <2>1
  <2> QED  BY <1>3, <2>1, <2>2 DEF FirstLinked
<1> QED  BY <1>2, <1>3 DEF IfacesLinked

(* One more interface is linked. *)
LEMMA OneMoreLinked ==
  ASSUME NEW o, NEW p, NEW table, NEW m \in Nat, FirstLinked(o, table, m),
         p.file = o.file, o.file.ifaces[m + 1].name \in Name,
         table[o.file.ifaces[m + 1].name] # Null,
         p.ifaces = o.ifaces \cup {table[o.file.ifaces[m + 1].name]}
  PROVE  FirstLinked(p, table, m + 1)
<1>1. \A i : i \in 1 .. m + 1 <=> i \in 1 .. m \/ i = m + 1
  OBVIOUS
<1>2. \A i \in 1 .. m + 1 : p.file.ifaces[i].name \in Name /\ table[p.file.ifaces[i].name] # Null
  BY <1>1 DEF FirstLinked
<1>3. p.ifaces = {table[p.file.ifaces[i].name] : i \in 1 .. m + 1}
  BY <1>1 DEF FirstLinked
<1> QED  BY <1>2, <1>3 DEF FirstLinked

(* The objects of the stack and of the method area have files. *)
LEMMA HasFile ==
  ASSUME Shape, NEW k \in Klass, klass[k].stage # "free"
  PROVE  klass[k].file \in ClassFile /\ klass[k].ifaces \subseteq Klass
<1>1. klass[k] \in KlassObject /\ klass[k].file \in Files
  BY Typed DEF Shape, KlassHasFile
<1> QED  BY <1>1, FilesAssumption DEF KlassObject

(* readClassFile finds a file in a directory, under the name. *)
LEMMA FoundInDir ==
  ASSUME Shape, stack # <<>>, NEW f \in readClassFile(this, Top.name)
  PROVE  \E d \in Dir : disk[d][Top.name] = f
<1>1. paths[this] \in Classpaths
  BY Typed DEF Shape, RunsOnLiveLoader
<1>2. paths[this] \in Seq(Dir)
  BY <1>1, ClasspathsAssumption
<1>3. PICK i \in DOMAIN paths[this] : disk[paths[this][i]][Top.name] = f
  BY DEF readClassFile
<1>4. paths[this][i] \in Dir
  BY <1>2, <1>3, ElementOfSeq, LenProperties
<1> QED  BY <1>3, <1>4

LEMMA MoveLinks ==
  ASSUME Shape, Ownership, CacheSound, Chained, BuildingLinked, loadClass, ~ Throws,
         NEW a \in Activation, stack' = SetTop(a)
  PROVE  LinksOf(a, klass', cache'[this], disk')
<1> USE DEF Running, Returned, world, heap, Advance
<1>0. /\ stack # <<>> /\ Top \in Activation /\ ActivationSound(Top)
      /\ Len(stack) \in Nat /\ Len(stack) # 0 /\ Len(stack) \in DOMAIN stack
      /\ LinksOf(Top, klass, cache[this], disk)
      /\ Len(stack') = Len(stack) /\ a = stack'[Len(stack)]
      /\ UNCHANGED disk
  BY LoadClassStack, TopInStack, TopSound, SetTopFacts, LoadClassGrows
     DEF Shape, BuildingLinked, Top, Grows
<1>2. ~ Throw
  BY DEF Throw, Throws
<1>3. CASE UNCHANGED <<stack, klass, cache>>
  BY <1>0, <1>3 DEF Top
<1>4. CASE CacheHit \/ PrepareFieldsAndStatics
  <2>1. stack' = Pop
    BY <1>2, <1>4 DEF CacheHit, PrepareFieldsAndStatics
  <2> QED  BY <1>0, <2>1, PopFacts DEF Shape
<1>5. CASE ClassNotFound \/ ParseThrows \/ SuperNameThrows \/ InterfaceNameThrows
  BY <1>2, <1>5 DEF ClassNotFound, ParseThrows, SuperNameThrows, InterfaceNameThrows
<1>6. CASE LoadSuper \/ LoadInterface
  <2>1. CASE \E n : stack' = Append(stack, n)
    <3>1. Len(stack') = Len(stack) + 1
      BY <1>0, <2>1, AppendProperties DEF Shape, TypeOK
    <3> QED  BY <1>0, <3>1
  <2>2. CASE UNCHANGED stack
    BY <1>3, <1>6, <2>2 DEF LoadSuper, LoadInterface, Recurse
  <2> QED  BY <1>6, <2>1, <2>2 DEF LoadSuper, LoadInterface, Recurse
<1>7. CASE PrepareDangling
  BY <1>3, <1>7 DEF PrepareDangling, call
<1>8. CASE BeginDefine
  <2>1. PICK f \in readClassFile(this, Top.name), k \in Klass :
          /\ klass' = [klass EXCEPT ![k] = [stage |-> "linking", loader |-> this, file |-> f,
                                            super |-> Null, ifaces |-> {}]]
          /\ stack' = SetTop([Top EXCEPT !.klass = k, !.at = "super"])
    BY <1>8 DEF BeginDefine
  <2>2. PICK b \in Activation : b = [Top EXCEPT !.klass = k, !.at = "super"]
    BY <1>0 DEF Activation, Position
  <2>3. a = b /\ b.klass = k /\ b.at = "super" /\ b.name = Top.name /\ b.linked = Top.linked
    BY <1>0, <2>1, <2>2, SetTopFacts DEF Shape, Activation
  <2>4. klass'[k].super = Null /\ klass'[k].ifaces = {} /\ klass'[k].file = f
    BY <2>1, Typed
  <2>5. \E d \in Dir : disk[d][Top.name] = f
    BY <1>0, <2>1, FoundInDir
  <2>6. Top.linked = 0
    BY <1>0, <1>8 DEF BeginDefine, LinksOf
  <2>7. FirstLinked(klass'[k], cache'[this], 0)
    BY <2>4 DEF FirstLinked
  <2> QED  BY <1>0, <2>3, <2>4, <2>5, <2>6, <2>7 DEF LinksOf
<1>9. CASE LinkNoSuper
  <2>1. PICK b \in Activation : b = [Top EXCEPT !.at = "ifaces"]
    BY <1>0 DEF Activation, Position
  <2>2. a = b /\ b.klass = Top.klass /\ b.at = "ifaces" /\ b.name = Top.name /\ b.linked = Top.linked
    BY <1>0, <1>9, <2>1, SetTopFacts DEF LinkNoSuper, Shape, Activation
  <2>3. Top.at = "super" /\ klass[Top.klass].file.super = Null /\ UNCHANGED <<klass, cache>>
    BY <1>9 DEF LinkNoSuper, TopFile
  <2>4. /\ klass[Top.klass].super = Null
        /\ FirstLinked(klass[Top.klass], cache[this], Top.linked)
        /\ \E d \in Dir : disk[d][Top.name] = klass[Top.klass].file
    BY <1>0, <2>3 DEF LinksOf
  <2>5. SuperLinked(klass[Top.klass], cache[this])
    BY <2>3, <2>4 DEF SuperLinked
  <2>6. klass'[a.klass] = klass[Top.klass] /\ cache'[this] = cache[this] /\ a.linked = Top.linked
    BY <2>2, <2>3
  <2> QED  BY <1>0, <2>2, <2>4, <2>5, <2>6 DEF LinksOf
<1>10. CASE SetSuperClass
  <2>1. PICK b \in Activation : b = [Top EXCEPT !.at = "ifaces"]
    BY <1>0 DEF Activation, Position
  <2>2. a = b /\ b.klass = Top.klass /\ b.at = "ifaces" /\ b.name = Top.name /\ b.linked = Top.linked
    BY <1>0, <1>10, <2>1, SetTopFacts DEF SetSuperClass, Shape, Activation
  <2>3. /\ Top.at = "super" /\ ret # Null /\ Top.klass \in Klass
        /\ klass' = [klass EXCEPT ![Top.klass].super = ret] /\ UNCHANGED cache
    BY <1>0, <1>10 DEF SetSuperClass, ActivationSound
  <2>4. /\ klass'[Top.klass].super = ret
        /\ klass'[Top.klass].ifaces = klass[Top.klass].ifaces
        /\ klass'[Top.klass].file = klass[Top.klass].file
    BY <2>3, Typed DEF KlassObject
  <2>5. klass[Top.klass].file.super \in Name /\ ret = cache[this][klass[Top.klass].file.super]
    BY <1>0, <2>3 DEF Chained, Wanted, WantedBy
  <2>6. /\ FirstLinked(klass[Top.klass], cache[this], Top.linked)
        /\ \E d \in Dir : disk[d][Top.name] = klass[Top.klass].file
    BY <1>0, <2>3 DEF LinksOf
  <2>7. FirstLinked(klass'[Top.klass], cache[this], Top.linked)
    BY <2>4, <2>6 DEF FirstLinked
  <2>8. SuperLinked(klass'[Top.klass], cache[this])
    BY <2>3, <2>4, <2>5, NullAssumption DEF SuperLinked
  <2> QED  BY <1>0, <2>2, <2>3, <2>4, <2>6, <2>7, <2>8 DEF LinksOf
<1>11. CASE SetInterface
  <2>1. CASE TopInterface.index < Len(TopFile.ifaces)
    <3>0. Top \in Activation /\ Top.linked + 1 \in Nat
      BY <1>0 DEF Activation
    <3>1. PICK b \in Activation : b = [Top EXCEPT !.linked = @ + 1]
      BY <3>0 DEF Activation
    <3>2. a = b /\ b.klass = Top.klass /\ b.at = "ifaces" /\ b.name = Top.name /\ b.linked = Top.linked + 1
      BY <1>0, <1>11, <2>1, <3>1, SetTopFacts DEF SetInterface, Shape, Activation
    <3>3. /\ Top.at = "ifaces" /\ ret # Null /\ Top.klass \in Klass /\ UNCHANGED cache
          /\ klass' = [klass EXCEPT ![Top.klass] =
                         [klass[Top.klass] EXCEPT !.ifaces = @ \cup {ret}]]
      BY <1>0, <1>11, <2>1 DEF SetInterface, ActivationSound
    <3>4. /\ klass'[Top.klass].super = klass[Top.klass].super
          /\ klass'[Top.klass].ifaces = klass[Top.klass].ifaces \cup {ret}
          /\ klass'[Top.klass].file = klass[Top.klass].file
      BY <3>3, Typed DEF KlassObject
    <3>5. /\ klass[Top.klass].file.ifaces[Top.linked + 1].name \in Name
          /\ ret = cache[this][klass[Top.klass].file.ifaces[Top.linked + 1].name]
      BY <1>0, <3>3, NullAssumption DEF Chained, Wanted, WantedBy
    <3>6. Top.linked \in Nat
      BY <1>0 DEF Activation
    <3>7. FirstLinked(klass'[Top.klass], cache[this], Top.linked + 1)
      BY <1>0, <3>3, <3>4, <3>5, <3>6, OneMoreLinked DEF LinksOf
    <3>8. SuperLinked(klass'[Top.klass], cache[this])
      BY <1>0, <3>3, <3>4 DEF LinksOf, SuperLinked
    <3> QED  BY <1>0, <3>2, <3>3, <3>4, <3>7, <3>8 DEF LinksOf
  <2>2. CASE ~ TopInterface.index < Len(TopFile.ifaces)
    BY <1>3, <1>11, <2>2 DEF SetInterface
  <2> QED  BY <2>1, <2>2
<1>12. CASE AddClass \/ PrepareRuntimeConstantPool \/ PrepareMethods
  <2>1. \E p \in {"pool", "methods", "fields"} : stack' = SetTop([Top EXCEPT !.at = p])
    BY <1>2, <1>12 DEF AddClass, PrepareRuntimeConstantPool, PrepareMethods
  <2>2. PICK p \in {"pool", "methods", "fields"}, b \in Activation :
          b = [Top EXCEPT !.at = p] /\ stack' = SetTop(b)
    BY <1>0, <2>1 DEF Activation, Position
  <2>3. a = b /\ b.at = p
    BY <1>0, <2>2, SetTopFacts DEF Shape, Activation
  <2> QED  BY <2>3 DEF LinksOf
<1> QED  BY <1>4, <1>5, <1>6, <1>7, <1>8, <1>9, <1>10, <1>11, <1>12 DEF loadClass

(* What is linked stays linked through a step that only adds. *)
LEMMA GrowKeepsLinks ==
  ASSUME Shape, Grows, NEW l \in Addr, NEW k \in Klass, klass[k].stage # "free",
         klass'[k].super = klass[k].super, klass'[k].ifaces = klass[k].ifaces,
         klass'[k].file = klass[k].file
  PROVE  /\ SuperLinked(klass[k], cache[l]) => SuperLinked(klass'[k], cache'[l])
         /\ IfacesLinked(klass[k], cache[l]) => IfacesLinked(klass'[k], cache'[l])
         /\ \A m : FirstLinked(klass[k], cache[l], m) => FirstLinked(klass'[k], cache'[l], m)
<1>1. \A n \in Name : cache[l][n] # Null => cache'[l][n] = cache[l][n]
  BY DEF Grows
<1>2. klass[k].file \in ClassFile /\ klass[k].ifaces \subseteq Klass
  BY HasFile
<1> QED  BY <1>1, <1>2, LinksKept

LEMMA LoadClassLinks ==
  ASSUME Linking, Running_loadClass
  PROVE  RegisteredLinked' /\ BuildingLinked'
<1>0. /\ Shape /\ Ownership /\ CacheSound /\ Chained /\ RegisteredLinked /\ BuildingLinked
      /\ loadClass /\ UNCHANGED phase
  BY DEF Linking, Base, Running_loadClass
<1>1. /\ stack # <<>> /\ UNCHANGED this /\ StackStep /\ this \in Addr
      /\ Grows /\ UNCHANGED disk
  BY <1>0, LoadClassStack, LoadClassGrows DEF Shape, RunsOnLiveLoader, Grows, world
<1>2. RegisteredLinked'
  <2> SUFFICES ASSUME phase' = "test", NEW key \in Key, area'[key] # Null
               PROVE  /\ SuperLinked(klass'[area'[key]], cache'[key[1]])
                      /\ IfacesLinked(klass'[area'[key]], cache'[key[1]])
    BY DEF RegisteredLinked
  <2>0. key[1] \in Addr
    BY DEF Key
  <2>1. CASE area[key] # Null
    <3>1. /\ area'[key] = area[key] /\ area[key] \in Klass /\ klass[area[key]].stage # "free"
          /\ klass'[area[key]].super = klass[area[key]].super
          /\ klass'[area[key]].ifaces = klass[area[key]].ifaces
          /\ klass'[area[key]].file = klass[area[key]].file
      BY <1>0, <1>1, <2>1, Typed DEF Grows, Ownership
    <3>2. SuperLinked(klass[area[key]], cache[key[1]]) /\ IfacesLinked(klass[area[key]], cache[key[1]])
      BY <1>0, <2>1 DEF RegisteredLinked
    <3> QED  BY <1>0, <1>1, <2>0, <3>1, <3>2, GrowKeepsLinks
  <2>2. CASE area[key] = Null
    <3>1. AddClass
      BY <1>0, <2>2 DEF loadClass, CacheHit, ClassNotFound, ParseThrows, BeginDefine, LinkNoSuper,
         SuperNameThrows, InterfaceNameThrows, LoadSuper, SetSuperClass, LoadInterface, SetInterface, PrepareDangling,
         PrepareRuntimeConstantPool, PrepareMethods, PrepareFieldsAndStatics, Throw, Recurse, heap
    <3>2. Top.at = "ifaces" /\ Top.name \in Name /\ LinksOf(Top, klass, cache[this], disk)
      BY <1>0, <1>1, <3>1, TopSound DEF AddClass, Running, BuildingLinked, Top, Activation
    <3>3. /\ key = <<this, Top.name>> /\ area'[key] = Top.klass
          /\ UNCHANGED klass /\ UNCHANGED cache
      BY <1>0, <1>1, <2>2, <3>1, <3>2, Typed DEF AddClass, Key
    <3>4. Top.linked = Len(klass[Top.klass].file.ifaces)
      BY <3>1 DEF AddClass, TopFile
    <3> QED  BY <3>2, <3>3, <3>4 DEF LinksOf, IfacesLinked
  <2> QED  BY <2>1, <2>2
<1>3. BuildingLinked'
  <2>0. Len(stack) \in Nat /\ Len(stack) # 0 /\ DOMAIN stack = 1 .. Len(stack)
    BY <1>0, <1>1, TopInStack DEF Shape
  <2>1. CASE Throws
    BY <2>1 DEF Throws, BuildingLinked
  <2>2. CASE Faults
    BY <1>0, <1>1, <2>2 DEF Faults, BuildingLinked
  <2>3. ASSUME ~ Throws, NEW i \in DOMAIN stack, i < Len(stack)
        PROVE  LinksOf(stack[i], klass', cache'[this], disk')
    <3>1. /\ stack[i].klass \in Klass /\ klass[stack[i].klass].stage = "linking"
          /\ klass'[stack[i].klass] = klass[stack[i].klass]
      BY <1>0, <1>1, <2>3, TopSound, OuterUnchanged
    <3>2. LinksOf(stack[i], klass, cache[this], disk)
      BY <1>0 DEF BuildingLinked
    <3> QED  BY <1>0, <1>1, <3>1, <3>2, GrowKeepsLinks DEF LinksOf
  <2>4. CASE ~ Throws /\ \E a \in Activation : Moves(a)
    <3>1. PICK a \in Activation : stack' = SetTop(a)
      BY <2>4 DEF Moves
    <3>2. /\ DOMAIN stack' = DOMAIN stack /\ stack'[Len(stack)] = a
          /\ \A i \in DOMAIN stack : i # Len(stack) => i < Len(stack) /\ stack'[i] = stack[i]
      BY <1>0, <1>1, <2>0, <3>1, SetTopFacts DEF Shape
    <3>3. LinksOf(a, klass', cache'[this], disk')
      BY <1>0, <2>4, <3>1, MoveLinks
    <3> QED  BY <1>1, <2>3, <2>4, <3>2, <3>3 DEF BuildingLinked
  <2>5. CASE \E n \in Name : n = Wanted(Top) /\ Nests(n)
    <3>1. PICK n \in Name : Nests(n)
      BY <2>5
    <3>2. /\ DOMAIN stack' = 1 .. Len(stack) + 1
          /\ stack'[Len(stack) + 1] = Entry(n)
          /\ \A i \in DOMAIN stack : stack'[i] = stack[i]
      BY <1>0, <3>1, PushFacts DEF Nests, Shape
    <3>3. \A i \in DOMAIN stack' : i \in DOMAIN stack \/ i = Len(stack) + 1
      BY <2>0, <3>2
    <3>4. LinksOf(Entry(n), klass', cache'[this], disk')
      BY DEF LinksOf, Entry
    <3>5. UNCHANGED <<klass, cache>>
      BY <3>1 DEF Nests
    <3> QED  BY <1>0, <1>1, <3>2, <3>3, <3>4, <3>5 DEF BuildingLinked
  <2>6. CASE ~ Throws /\ Returns
    <3>1. \A i \in DOMAIN stack' : i \in DOMAIN stack /\ i < Len(stack) /\ stack'[i] = stack[i]
      BY <1>0, <1>1, <2>6, PopFacts DEF Returns, Shape
    <3> QED  BY <1>1, <2>3, <2>6, <3>1 DEF BuildingLinked
  <2> QED  BY <1>1, <2>1, <2>2, <2>4, <2>5, <2>6 DEF StackStep
<1> QED  BY <1>2, <1>3

LEMMA LinkingInit == FixtureInit => Linking
<1> SUFFICES ASSUME FixtureInit PROVE Linking
  OBVIOUS
<1>1. stack = <<>> /\ phase = "idle"
  BY DEF FixtureInit, Init
<1> QED  BY <1>1, InitBase DEF Linking, Chained, RegisteredLinked, BuildingLinked

LEMMA LinkingNext ==
  ASSUME Linking, [FixtureNext]_fixtureVars
  PROVE  Linking'
<1>0. Base' /\ Base /\ Shape /\ Ownership /\ CacheSound /\ PhaseSound /\ Chained /\ RegisteredLinked
  BY NextBase DEF Linking, Base
<1>1. CASE Running_loadClass
  BY <1>0, <1>1, LoadClassLinks, ChainStep DEF Linking, Running_loadClass
<1>2. CASE \E l \in Addr, path \in Classpaths : SetUp(l, path)
  <2>1. \A key \in Key : area'[key] = Null
    BY <1>2 DEF SetUp, EmptyArea, Key
  <2>2. stack' = <<>>
    BY <1>2 DEF SetUp, Idle, call
  <2> QED  BY <1>0, <2>1, <2>2 DEF Linking, Chained, RegisteredLinked, BuildingLinked
<1>3. CASE \E l \in Addr, path \in Classpaths : BodyNewLoader(l, path)
  <2>1. PICK l \in Addr, path \in Classpaths : BodyNewLoader(l, path)
    BY <1>3
  <2>2. stack' = <<>> /\ phase = "test" /\ UNCHANGED <<area, klass>>
    BY <2>1 DEF BodyNewLoader, NewLoader, Idle, call, heap
  <2>3. \A m \in Addr : m # l => cache'[m] = cache[m]
    BY <1>0, <2>1, Typed DEF BodyNewLoader, NewLoader
  <2>4. \A key \in Key : area[key] # Null => key[1] # l /\ key[1] \in Addr
    BY <1>0, <2>1, <2>2 DEF PhaseSound, BodyNewLoader, NewLoader, Key
  <2>5. RegisteredLinked'
    BY <1>0, <2>2, <2>3, <2>4 DEF RegisteredLinked
  <2> QED  BY <1>0, <2>2, <2>5 DEF Linking, Chained, BuildingLinked
<1>4. CASE \E l \in Addr, n \in Name : BodyLoadClass(l, n)
  <2>1. PICK l \in Addr, n \in Name : BodyLoadClass(l, n)
    BY <1>4
  <2>2. /\ stack' = <<Entry(n)>> /\ ret' = Null
        /\ UNCHANGED <<area, klass, cache, phase>>
    BY <2>1 DEF BodyLoadClass, CallLoadClass, Entry, heap
  <2>3. DOMAIN stack' = {1} /\ Len(stack') = 1 /\ stack'[1] = Entry(n)
    BY <2>2
  <2>4. Chained'
    BY <2>2, <2>3 DEF Chained
  <2>5. BuildingLinked'
    BY <2>3 DEF BuildingLinked, LinksOf, Entry
  <2> QED  BY <1>0, <2>2, <2>4, <2>5 DEF Linking, RegisteredLinked
<1>5. CASE TearDown
  BY <1>0, <1>5 DEF TearDown, Idle, call, Linking, Chained, RegisteredLinked, BuildingLinked
<1>6. CASE UNCHANGED fixtureVars
  <2>1. UNCHANGED <<disk, cache, area, klass, this, stack, ret, phase>>
    BY <1>6 DEF fixtureVars, vars
  <2>2. Chained'
    BY <1>0, <2>1 DEF Chained, Wanted, WantedBy, Top
  <2> QED  BY <1>0, <2>1, <2>2 DEF Linking, RegisteredLinked, BuildingLinked
<1> QED  BY <1>1, <1>2, <1>3, <1>4, <1>5, <1>6 DEF FixtureNext

(* Every reachable state also chains the nested calls, each to the name    *)
(* the outer one waits for, and has sound links (class_loader.cpp:92-126). *)
THEOREM LinkingInvariant == FixtureSpec => []Linking
<1>1. Linking /\ [FixtureNext]_fixtureVars => Linking'
  BY LinkingNext
<1> QED  BY LinkingInit, <1>1, PTL DEF FixtureSpec

(* Every class in the method area has the superclass and the interfaces    *)
(* its file names, as its own loader caches them under those names         *)
(* (linkSuperClass and linkInterfaces, class_loader.cpp:92-126): the walks *)
(* of findMethod and findField meet no dangling and no half-built class,   *)
(* and no wrong one.                                                       *)
THEOREM LinksAreSound == FixtureSpec => []LinksSound
<1>1. Linking => LinksSound
  <2> SUFFICES ASSUME Linking, phase = "test", NEW key \in DOMAIN area, area[key] # Null
               PROVE  /\ \A n \in Needs(klass[area[key]].file) : cache[key[1]][n] # Null
                      /\ klass[area[key]].super =
                           IF klass[area[key]].file.super = Null THEN Null
                           ELSE cache[key[1]][klass[area[key]].file.super]
                      /\ klass[area[key]].ifaces =
                           {cache[key[1]][klass[area[key]].file.ifaces[i].name] :
                              i \in DOMAIN klass[area[key]].file.ifaces}
    BY DEF LinksSound
  <2> DEFINE o     == klass[area[key]]
             table == cache[key[1]]
  <2>1. Shape /\ Ownership
    BY DEF Linking, Base
  <2>2. key \in Key /\ area[key] \in Klass /\ klass[area[key]].stage # "free"
    BY <2>1, Typed DEF Ownership
  <2>3. SuperLinked(o, table) /\ IfacesLinked(o, table)
    BY <2>2 DEF Linking, RegisteredLinked
  <2>4. o.file \in ClassFile
    BY <2>1, <2>2, HasFile
  <2>5. DOMAIN o.file.ifaces = 1 .. Len(o.file.ifaces)
    BY <2>4, LenProperties DEF ClassFile
  <2>6. o.super = IF o.file.super = Null THEN Null ELSE table[o.file.super]
    BY <2>3 DEF SuperLinked
  <2>7. o.ifaces = {table[o.file.ifaces[i].name] : i \in DOMAIN o.file.ifaces}
    BY <2>3, <2>5 DEF IfacesLinked, FirstLinked
  <2>8. \A n \in Needs(o.file) : table[n] # Null
    BY <2>3, <2>5 DEF SuperLinked, IfacesLinked, FirstLinked, Needs
  <2> QED  BY <2>6, <2>7, <2>8
<1> QED  BY <1>1, LinkingInvariant, PTL

-----------------------------------------------------------------------------
(* The class table: every step of the loader is one of the table's, or     *)
(* changes nothing of it.                                                  *)

Supers == [k \in Klass |-> IF k \in Cached THEN klass[k].super ELSE Null]

LEMMA CachedMeans ==
  \A k : k \in Cached <=> k # Null /\ \E l \in Addr, n \in Name : cache[l][n] = k
  BY DEF Cached

LEMMA NoneCached ==
  (\A l \in Addr : cache[l] = EmptyCache) => Cached = {}
<1>1. \A l \in Addr, n \in Name : cache[l] = EmptyCache => cache[l][n] = Null
  BY DEF EmptyCache
<1> QED  BY <1>1, CachedMeans

LEMMA CachedAreDone ==
  ASSUME Base, NEW k \in Cached
  PROVE  k \in Klass /\ k # Null /\ klass[k].stage = "prepared"
<1>0. Shape /\ CacheSound /\ PhaseSound
  BY DEF Base
<1>1. PICK l \in Addr, n \in Name : k = cache[l][n] /\ k # Null
  BY CachedMeans
<1>2. cache[l] # EmptyCache
  BY <1>1 DEF EmptyCache
<1>3. l \in LiveLoaders
  BY <1>0, <1>2 DEF PhaseSound, LiveLoaders
<1>4. k \in Klass
  BY <1>0, <1>1, Typed
<1>5. klass[cache[l][n]].stage = "prepared"
  BY <1>0, <1>1, <1>3 DEF CacheSound
<1> QED  BY <1>1, <1>4, <1>5

LEMMA TableInitially == FixtureInit => Table!TableInit
<1> SUFFICES ASSUME FixtureInit PROVE Table!TableInit
  OBVIOUS
<1>1. LiveLoaders = {} /\ cache = [l \in Addr |-> Table!Empty]
  BY DEF FixtureInit, Init, LiveLoaders, EmptyCache, Table!Empty
<1>2. Cached = {}
  BY <1>1, NoneCached DEF EmptyCache, Table!Empty
<1> QED  BY <1>1, <1>2 DEF Table!TableInit

(* Steps after which the caches are as before are invisible, or open a     *)
(* loader whose cache was empty already.                                   *)
LEMMA SupersStay ==
  ASSUME Base, UNCHANGED cache, \A k \in Cached : klass'[k] = klass[k]
  PROVE  UNCHANGED Supers
<1>1. Cached' = Cached
  BY DEF Cached
<1> QED  BY <1>1 DEF Supers

LEMMA SetUpOpens ==
  ASSUME Base, NEW l \in Addr, NEW path \in Classpaths, SetUp(l, path)
  PROVE  Table!Open(l)
<1>0. Shape /\ PhaseSound
  BY DEF Base
<1>1. \A m \in Addr : paths[m] = Null /\ cache[m] = EmptyCache
  BY <1>0 DEF SetUp, PhaseSound
<1>2. UNCHANGED cache
  BY <1>0, <1>1, Typed DEF SetUp
<1>3. \A m \in Addr : paths'[m] = IF m = l THEN path ELSE paths[m]
  BY <1>0, Typed DEF SetUp
<1>4. l \notin LiveLoaders /\ LiveLoaders' = LiveLoaders \cup {l}
  BY <1>1, <1>3, NullAssumption DEF LiveLoaders
<1>5. Cached = {}
  BY <1>1, NoneCached
<1>6. UNCHANGED Supers
  BY <1>2, <1>5, SupersStay
<1> QED  BY <1>2, <1>4, <1>6 DEF Table!Open, Supers

LEMMA NewLoaderOpens ==
  ASSUME Base, NEW l \in Addr, NEW path \in Classpaths, BodyNewLoader(l, path)
  PROVE  Table!Open(l)
<1>0. Shape /\ PhaseSound
  BY DEF Base
<1>1. paths[l] = Null /\ cache[l] = EmptyCache /\ UNCHANGED klass
  BY <1>0 DEF BodyNewLoader, NewLoader, PhaseSound, heap
<1>2. UNCHANGED cache
  BY <1>0, <1>1, Typed DEF BodyNewLoader, NewLoader
<1>3. \A m \in Addr : paths'[m] = IF m = l THEN path ELSE paths[m]
  BY <1>0, Typed DEF BodyNewLoader, NewLoader
<1>4. l \notin LiveLoaders /\ LiveLoaders' = LiveLoaders \cup {l}
  BY <1>1, <1>3, NullAssumption DEF LiveLoaders
<1>5. UNCHANGED Supers
  BY <1>1, <1>2, SupersStay
<1> QED  BY <1>2, <1>4, <1>5 DEF Table!Open, Supers

LEMMA TearDownCloses ==
  ASSUME TearDown
  PROVE  Table!CloseAll
<1>1. LiveLoaders' = {} /\ cache' = [l \in Addr |-> Table!Empty]
  BY DEF TearDown, LiveLoaders, EmptyCache, Table!Empty
<1>2. (Cached = {})'
  <2>1. (\A l \in Addr : cache[l] = EmptyCache)'
    BY <1>1 DEF EmptyCache, Table!Empty
  <2> QED  BY <2>1, NoneCached, PTL
<1> QED  BY <1>1, <1>2 DEF Table!CloseAll

(* The end of a load that succeeds is the step that defines the class.     *)
LEMMA CachingDefines ==
  ASSUME Linking, PrepareFieldsAndStatics, TopFile.fails # "fields"
  PROVE  Table!Define(this, Top.name, Top.klass, klass[Top.klass].super)
<1> USE DEF PrepareFieldsAndStatics, Running
<1>0. Shape /\ Ownership /\ CacheSound /\ PhaseSound /\ RegisteredLinked /\ Base
  BY DEF Linking, Base
<1>1. /\ this \in LiveLoaders /\ this \in Addr /\ Top.name \in Name
      /\ Top.klass \in Klass /\ klass[Top.klass].stage = "methods"
      /\ area[<<this, Top.name>>] = Top.klass /\ <<this, Top.name>> \in Key
      /\ phase = "test"
  BY <1>0, TopSound
     DEF ActivationSound, InArea, Shape, RunsOnLiveLoader, LiveLoaders, Activation, Key, PhaseSound
<1>2. /\ Top.klass # Null /\ Top.klass \notin Cached
      /\ cache[this][Top.name] = Null
  BY <1>0, <1>1, CachedAreDone, NotYetCached, NullAssumption
<1>3. klass[Top.klass].super = Null \/ klass[Top.klass].super \in Table!Defined(this)
  <2>1. SuperLinked(klass[Top.klass], cache[this])
    BY <1>0, <1>1, <1>2 DEF RegisteredLinked
  <2>2. klass[Top.klass].file.super \in Name \cup {Null}
    BY <1>0, <1>1, HasFile DEF ClassFile
  <2> QED  BY <2>1, <2>2 DEF SuperLinked, Table!Defined
<1>4. Top.klass \notin Table!AllDefined
  BY <1>2 DEF Table!AllDefined, Cached
<1>5. /\ cache' = [cache EXCEPT ![this] = [cache[this] EXCEPT ![Top.name] = Top.klass]]
      /\ UNCHANGED paths
  BY DEF world
<1>6. \A l \in Addr, n \in Name :
        cache'[l][n] = IF l = this /\ n = Top.name THEN Top.klass ELSE cache[l][n]
  BY <1>0, <1>1, <1>5, Typed
<1>7. Cached' = Cached \cup {Top.klass}
  <2>1. (\A k : k \in Cached <=> k # Null /\ \E l \in Addr, n \in Name : cache[l][n] = k)'
    BY CachedMeans, PTL
  <2>2. ASSUME NEW k
        PROVE  k \in Cached' <=> k \in Cached \cup {Top.klass}
    <3>1. k \in Cached' <=> k # Null /\ \E l \in Addr, n \in Name : cache'[l][n] = k
      BY <2>1
    <3>2. CASE k = Top.klass
      BY <1>1, <1>2, <1>6, <3>1, <3>2
    <3>3. CASE k # Top.klass
      <4>1. \A l \in Addr, n \in Name : cache'[l][n] = k => cache[l][n] = k
        BY <1>6, <3>3
      <4>2. \A l \in Addr, n \in Name : k # Null /\ cache[l][n] = k => cache'[l][n] = k
        BY <1>2, <1>6
      <4> QED  BY <3>1, <3>3, <4>1, <4>2, CachedMeans
    <3> QED  BY <3>2, <3>3
  <2> QED  BY <2>2
<1>8. /\ klass'[Top.klass].super = klass[Top.klass].super
      /\ \A k \in Klass : k # Top.klass => klass'[k] = klass[k]
  BY <1>0, <1>1, Typed DEF KlassObject
<1>9. Supers' = [Supers EXCEPT ![Top.klass] = klass[Top.klass].super]
  BY <1>1, <1>7, <1>8 DEF Supers
<1> QED  BY <1>1, <1>2, <1>3, <1>4, <1>5, <1>9 DEF Table!Define, Supers, LiveLoaders

LEMMA TableStep ==
  ASSUME Linking, [FixtureNext]_fixtureVars
  PROVE  [Table!TableNext]_Table!tableVars
<1>0. Base /\ Shape /\ Ownership /\ CacheSound /\ PhaseSound
  BY DEF Linking, Base
<1>1. CASE Running_loadClass
  <2>0. loadClass /\ Grows
    BY <1>0, <1>1, LoadClassGrows DEF Running_loadClass
  <2>1. CASE UNCHANGED cache
    <3>1. \A k \in Cached : klass'[k] = klass[k]
      BY <1>0, <2>0, CachedAreDone DEF Grows
    <3>2. UNCHANGED Supers /\ UNCHANGED LiveLoaders
      BY <1>0, <2>0, <2>1, <3>1, SupersStay DEF Grows, world, LiveLoaders
    <3> QED  BY <2>1, <3>2 DEF Table!tableVars, Supers
  <2>2. CASE ~ UNCHANGED cache
    <3>1. PrepareFieldsAndStatics /\ TopFile.fails # "fields"
      BY <2>0, <2>2 DEF loadClass, CacheHit, ClassNotFound, ParseThrows, BeginDefine, LinkNoSuper,
         SuperNameThrows, InterfaceNameThrows, LoadSuper, SetSuperClass, LoadInterface, SetInterface, AddClass,
         PrepareDangling, PrepareRuntimeConstantPool, PrepareMethods, PrepareFieldsAndStatics,
         Throw, Recurse
    <3>2. this \in Addr /\ Top.name \in Name /\ Top.klass \in Klass
          /\ klass[Top.klass].super \in Klass \cup {Null}
      BY <1>0, <3>1, TopSound, Typed
         DEF PrepareFieldsAndStatics, Running, ActivationSound, Shape, RunsOnLiveLoader, Activation,
             KlassObject
    <3>3. PICK l \in Addr, n \in Name, k \in Klass, s \in Klass \cup {Null} :
            l = this /\ n = Top.name /\ k = Top.klass /\ s = klass[Top.klass].super
      BY <3>2
    <3>4. Table!Define(l, n, k, s)
      BY <3>1, <3>3, CachingDefines DEF Table!Define
    <3> QED  BY <3>4 DEF Table!TableNext
  <2> QED  BY <2>1, <2>2
<1>2. CASE \E l \in Addr, path \in Classpaths : SetUp(l, path)
  BY <1>0, <1>2, SetUpOpens DEF Table!TableNext
<1>3. CASE \E l \in Addr, path \in Classpaths : BodyNewLoader(l, path)
  BY <1>0, <1>3, NewLoaderOpens DEF Table!TableNext
<1>4. CASE \E l \in Addr, n \in Name : BodyLoadClass(l, n)
  <2>1. UNCHANGED <<paths, cache, klass>>
    BY <1>4 DEF BodyLoadClass, CallLoadClass, world, heap
  <2>2. UNCHANGED Supers /\ UNCHANGED LiveLoaders
    BY <1>0, <2>1, SupersStay DEF LiveLoaders
  <2> QED  BY <2>1, <2>2 DEF Table!tableVars, Supers
<1>5. CASE TearDown
  BY <1>5, TearDownCloses DEF Table!TableNext
<1>6. CASE UNCHANGED fixtureVars
  <2>1. UNCHANGED <<paths, cache, klass>>
    BY <1>6 DEF fixtureVars, vars
  <2>2. UNCHANGED Supers /\ UNCHANGED LiveLoaders
    BY <1>0, <2>1, SupersStay DEF LiveLoaders
  <2> QED  BY <2>1, <2>2 DEF Table!tableVars, Supers
<1> QED  BY <1>1, <1>2, <1>3, <1>4, <1>5, <1>6 DEF FixtureNext

(* The loader implements the class table: a name is given a class once,    *)
(* after and with its superclass, whatever fails and is retried on the way *)
(* ("subsequent calls with the same name return the cached Klass object",  *)
(* class_loader.cpp:140).                                                  *)
THEOREM LoaderImplementsTable == FixtureSpec => ImplementsClassTable
<1>1. Linking /\ [FixtureNext]_fixtureVars => [Table!TableNext]_Table!tableVars
  BY TableStep
<1> QED  BY <1>1, TableInitially, LinkingInvariant, PTL
         DEF FixtureSpec, ImplementsClassTable, Table!TableSpec

-----------------------------------------------------------------------------
(* Nesting: over layered class files, the ranks of the names that are      *)
(* being loaded fall from each activation to the next.                     *)

Orders(rank) ==
  /\ rank \in [Name -> 0 .. MaxDepth - 1]
  /\ \A d \in Dir, n \in Name : disk[d][n] # Null => \A p \in Needs(disk[d][n]) : rank[p] < rank[n]
Falling(rank) ==
  \A i \in DOMAIN stack :
    /\ rank[stack[i].name] + i <= MaxDepth
    /\ \A j \in DOMAIN stack : i < j => rank[stack[j].name] < rank[stack[i].name]

Nesting ==
  /\ Linking
  /\ fault # "stack_overflow"
  /\ \E rank : Orders(rank) /\ Falling(rank)

(* A nested call goes down in rank. *)
LEMMA NeedsLess ==
  ASSUME Linking, stack # <<>>, Top.at \in {"super", "ifaces"},
         NEW rank, Orders(rank), NEW n \in Needs(TopFile)
  PROVE  rank[n] < rank[Top.name]
<1>1. Shape /\ LinksOf(Top, klass, cache[this], disk) /\ Top.name \in Name
  BY TopSound DEF Linking, Base, BuildingLinked, Top, Activation
<1>2. PICK d \in Dir : disk[d][Top.name] = TopFile
  BY <1>1 DEF LinksOf, TopFile
<1>3. TopFile \in Files
  BY <1>1, FileOfTop DEF Shape, KlassHasFile, TopFile
<1> QED  BY <1>1, <1>2, <1>3, NullAssumption DEF Orders

LEMMA OverflowStep ==
  ASSUME Shape, loadClass, fault' = "stack_overflow"
  PROVE  \E n \in Name : Calls(n) /\ ~ Len(stack) < MaxDepth
<1>1. LoadSuper \/ LoadInterface
  BY DEF loadClass, CacheHit, ClassNotFound, ParseThrows, BeginDefine, LinkNoSuper, SuperNameThrows, InterfaceNameThrows,
         SetSuperClass, SetInterface, AddClass, PrepareDangling, PrepareRuntimeConstantPool,
         PrepareMethods, PrepareFieldsAndStatics, Throw, Running, Returned
<1>2. PICK n \in Name : Calls(n)
  BY <1>1, CalledName
<1>3. fault = "none"
  BY <1>1 DEF LoadSuper, LoadInterface, Running
<1> QED  BY <1>2, <1>3 DEF Calls, Recurse

LEMMA LoadClassFalls ==
  ASSUME Linking, loadClass, NEW rank, Orders(rank), Falling(rank)
  PROVE  fault' # "stack_overflow" /\ Falling(rank)'
<1>0. /\ Shape /\ stack # <<>> /\ StackStep
      /\ Len(stack) \in Nat /\ Len(stack) # 0 /\ Len(stack) \in DOMAIN stack
      /\ DOMAIN stack = 1 .. Len(stack)
      /\ MaxDepth \in Nat
      /\ Top = stack[Len(stack)]
      /\ \A i \in DOMAIN stack : stack[i].name \in Name
      /\ \A n \in Name : rank[n] \in Nat
  <2>1. Shape /\ stack # <<>> /\ StackStep
    BY LoadClassStack DEF Linking, Base
  <2>2. \A i \in DOMAIN stack : stack[i] \in Activation
    BY <2>1, TopInStack, ElementOfSeq DEF Shape, TypeOK
  <2>3. MaxDepth \in Nat
    BY MaxDepthAssumption
  <2>4. \A n \in Name : rank[n] \in Nat
    BY <2>3 DEF Orders
  <2> QED  BY <2>1, <2>2, <2>3, <2>4, TopInStack DEF Shape, Top, Activation
<1>1. \A i \in DOMAIN stack : rank[stack[i].name] \in Nat /\ rank[stack[i].name] + i <= MaxDepth
  BY <1>0 DEF Falling
<1>2. fault' # "stack_overflow"
  <2> SUFFICES ASSUME fault' = "stack_overflow" PROVE FALSE
    OBVIOUS
  <2>1. PICK n \in Name : Calls(n) /\ ~ Len(stack) < MaxDepth
    BY <1>0, OverflowStep
  <2>2. rank[n] < rank[Top.name] /\ rank[n] \in Nat
    BY <1>0, <2>1, NeedsLess DEF Calls
  <2>3. rank[Top.name] \in Nat /\ rank[Top.name] + Len(stack) <= MaxDepth
    BY <1>0, <1>1
  <2> QED  BY <1>0, <2>1, <2>2, <2>3
<1>3. Falling(rank)'
  <2>1. CASE Throws
    BY <2>1 DEF Throws, Falling
  <2>2. CASE Faults
    BY <2>2 DEF Faults, Falling
  <2>3. CASE \E a \in Activation : Moves(a)
    <3>1. PICK a \in Activation : Moves(a)
      BY <2>3
    <3>2. /\ DOMAIN stack' = DOMAIN stack
          /\ \A i \in DOMAIN stack : stack'[i].name = stack[i].name
      BY <1>0, <3>1, SetTopFacts DEF Moves, Shape
    <3> QED  BY <3>2 DEF Falling
  <2>4. CASE Returns
    <3>1. \A i \in DOMAIN stack' : i \in DOMAIN stack /\ stack'[i] = stack[i]
      BY <1>0, <2>4, PopFacts DEF Returns, Shape
    <3> QED  BY <3>1 DEF Falling
  <2>5. CASE \E n \in Name : n = Wanted(Top) /\ Nests(n)
    <3>1. PICK n \in Name : Nests(n)
      BY <2>5
    <3>2. /\ DOMAIN stack' = 1 .. Len(stack) + 1
          /\ stack'[Len(stack) + 1].name = n
          /\ \A i \in DOMAIN stack : stack'[i] = stack[i]
      BY <1>0, <3>1, PushFacts DEF Nests, Shape, Entry
    <3>3. rank[n] < rank[Top.name] /\ rank[n] \in Nat
      BY <1>0, <3>1, NeedsLess DEF Nests
    <3>4. \A i \in DOMAIN stack : rank[n] < rank[stack[i].name]
      <4> TAKE i \in DOMAIN stack
      <4>1. CASE i = Len(stack)
        BY <1>0, <3>3, <4>1
      <4>2. CASE i < Len(stack)
        <5>1. rank[Top.name] < rank[stack[i].name]
          BY <1>0, <4>2 DEF Falling
        <5> QED  BY <1>0, <1>1, <3>3, <5>1
      <4> QED  BY <1>0, <4>1, <4>2
    <3>5. rank[n] + (Len(stack) + 1) <= MaxDepth
      BY <1>0, <1>1, <3>3
    <3>6. \A i \in DOMAIN stack' : i \in DOMAIN stack \/ i = Len(stack) + 1
      BY <1>0, <3>2
    <3>7. \A i \in DOMAIN stack : rank[stack[i].name] + i <= MaxDepth
                                  /\ \A j \in DOMAIN stack : i < j => rank[stack[j].name] < rank[stack[i].name]
      BY DEF Falling
    <3>8. \A i \in DOMAIN stack : ~ Len(stack) + 1 < i
      BY <1>0
    <3> QED  BY <1>0, <3>2, <3>4, <3>5, <3>6, <3>7, <3>8 DEF Falling
  <2> QED  BY <1>0, <2>1, <2>2, <2>3, <2>4, <2>5 DEF StackStep
<1> QED  BY <1>2, <1>3

(* Outside of loadClass no activation is left, or one is just starting.    *)
LEMMA FixtureStack ==
  ASSUME Shape, [FixtureNext]_fixtureVars, ~ Running_loadClass
  PROVE  /\ UNCHANGED <<disk, fault>>
         /\ \/ UNCHANGED <<this, stack, ret>>
            \/ \E n \in Name : stack = <<>> /\ stack' = <<Entry(n)>>
<1>1. CASE \E l \in Addr, path \in Classpaths : SetUp(l, path)
  BY <1>1 DEF SetUp, call
<1>2. CASE \E l \in Addr, path \in Classpaths : BodyNewLoader(l, path)
  BY <1>2 DEF BodyNewLoader, NewLoader, call
<1>3. CASE \E l \in Addr, n \in Name : BodyLoadClass(l, n)
  BY <1>3 DEF BodyLoadClass, CallLoadClass, Idle, Entry, world
<1>4. CASE TearDown
  BY <1>4 DEF TearDown, call
<1>5. CASE UNCHANGED fixtureVars
  BY <1>5 DEF fixtureVars, vars
<1> QED  BY <1>1, <1>2, <1>3, <1>4, <1>5 DEF FixtureNext

LEMMA NestingNext ==
  ASSUME Nesting, [FixtureNext]_fixtureVars
  PROVE  Nesting'
<1>0. Linking /\ Linking' /\ Shape
  BY LinkingNext DEF Nesting, Linking, Base
<1>1. PICK rank : Orders(rank) /\ Falling(rank)
  BY DEF Nesting
<1>2. CASE Running_loadClass
  <2>1. fault' # "stack_overflow" /\ Falling(rank)'
    BY <1>0, <1>1, <1>2, LoadClassFalls DEF Running_loadClass
  <2>2. UNCHANGED disk
    BY <1>0, <1>2, LoadClassGrows DEF Running_loadClass, Linking, Base, Grows, world
  <2>3. Orders(rank)'
    BY <1>1, <2>2 DEF Orders
  <2> QED  BY <1>0, <2>1, <2>3 DEF Nesting
<1>3. CASE ~ Running_loadClass
  <2>1. /\ UNCHANGED <<disk, fault>>
        /\ UNCHANGED <<this, stack, ret>> \/ \E n \in Name : stack' = <<Entry(n)>>
    BY <1>0, <1>3, FixtureStack
  <2>2. Orders(rank)'
    BY <1>1, <2>1 DEF Orders
  <2>3. Falling(rank)'
    <3>1. CASE UNCHANGED stack
      BY <1>1, <3>1 DEF Falling
    <3>2. ASSUME NEW n \in Name, stack' = <<Entry(n)>>
          PROVE  Falling(rank)'
      <4>1. DOMAIN stack' = {1} /\ stack'[1].name = n
        BY <3>2 DEF Entry
      <4>2. rank[n] + 1 <= MaxDepth
        BY <1>1, MaxDepthAssumption DEF Orders
      <4> QED  BY <4>1, <4>2 DEF Falling
    <3> QED  BY <2>1, <3>1, <3>2
  <2> QED  BY <1>0, <2>1, <2>2, <2>3 DEF Nesting
<1> QED  BY <1>2, <1>3

LEMMA NestingInit ==
  ASSUME \A dk \in Disks : Layered(dk)
  PROVE  FixtureInit => Nesting
<1> SUFFICES ASSUME FixtureInit PROVE Nesting
  OBVIOUS
<1>1. disk \in Disks /\ stack = <<>> /\ fault = "none"
  BY DEF FixtureInit, Init
<1>2. PICK rank : Orders(rank)
  BY <1>1 DEF Layered, Orders
<1>3. Falling(rank)
  BY <1>1 DEF Falling
<1> QED  BY <1>1, <1>2, <1>3, LinkingInit DEF Nesting

LEMMA NestingInvariant ==
  ASSUME \A dk \in Disks : Layered(dk)
  PROVE  FixtureSpec => []Nesting
<1>1. Nesting /\ [FixtureNext]_fixtureVars => Nesting'
  BY NestingNext
<1> QED  BY NestingInit, <1>1, PTL DEF FixtureSpec

(* Over class files without cycles, whose lines of ancestors fit the       *)
(* native stack, the recursion of loadClass through linkSuperClass and     *)
(* linkInterfaces (class_loader.cpp:111,123) never overflows it, whatever  *)
(* order the classes are loaded in and however often loads fail.           *)
THEOREM LoadsFitTheStack ==
  ASSUME \A dk \in Disks : Layered(dk)
  PROVE  FixtureSpec => []NoStackOverflow
<1>1. Nesting => NoStackOverflow
  BY DEF Nesting, NoStackOverflow
<1> QED  BY <1>1, NestingInvariant, PTL

-----------------------------------------------------------------------------
(* Publishing: over layered files that are refused, if at all, before      *)
(* their class is registered, the method area holds what loadClass has     *)
(* returned, and the class it is preparing.                                *)

(* A class under construction is not cached under its name, and nobody     *)
(* registers another one for it meanwhile.                                 *)
Unpublished == \A i \in DOMAIN stack : stack[i].at # "enter" => cache[this][stack[i].name] = Null

Preparing == stack # <<>> /\ Top.at \in {"pool", "methods", "fields"}
Published ==
  phase = "test" =>
    \A key \in Key : area[key] # Null =>
      cache[key[1]][key[2]] = area[key] \/ (Preparing /\ key = <<this, Top.name>>)
Publishing == Unpublished /\ DefinedIsRegistered /\ Published

Publication == Nesting /\ Publishing

(* What the proofs below need of an invariant state. *)
LEMMA PublicationFacts ==
  ASSUME Publication
  PROVE  /\ Linking /\ Base /\ Shape /\ Ownership /\ CacheSound /\ PhaseSound /\ Chained
         /\ Unpublished
BY DEF Publication, Nesting, Linking, Base, Publishing

LEMMA StackNames == Shape => \A i \in DOMAIN stack : stack[i].name \in Name
<1> SUFFICES ASSUME Shape, NEW i \in DOMAIN stack PROVE stack[i].name \in Name
  OBVIOUS
<1>1. stack \in Seq(Activation)
  BY DEF Shape, TypeOK
<1>2. stack[i] \in Activation
  BY <1>1, LenProperties, ElementOfSeq
<1> QED  BY <1>2 DEF Activation

(* The names below the innermost activation differ from its own. *)
LEMMA OtherNames ==
  ASSUME Nesting, stack # <<>>, NEW i \in DOMAIN stack, i < Len(stack)
  PROVE  stack[i].name # Top.name
<1>1. PICK rank : Orders(rank) /\ Falling(rank)
  BY DEF Nesting
<1>2. Len(stack) \in DOMAIN stack /\ stack[i].name \in Name
  <2>1. Shape
    BY DEF Nesting, Linking, Base
  <2> QED  BY <2>1, StackNames, TopInStack DEF Shape
<1>3. rank[Top.name] < rank[stack[i].name]
  BY <1>1, <1>2 DEF Falling, Top
<1>4. rank[stack[i].name] \in Nat
  BY <1>1, <1>2, MaxDepthAssumption DEF Orders
<1> QED  BY <1>3, <1>4

(* A step of loadClass that keeps the innermost activation works on a name *)
(* that is not cached.                                                     *)
LEMMA EnteringUncached ==
  ASSUME Shape, loadClass, Top.at = "enter", NEW a \in Activation, stack' = SetTop(a)
  PROVE  cache[this][Top.name] = Null
<1>1. stack # <<>>
  BY LoadClassStack
<1>2. CASE CacheHit
  <2>1. stack' = Pop
    BY <1>2 DEF CacheHit
  <2>2. Len(stack) \in Nat /\ Len(Pop) = Len(stack) - 1
    BY <1>1, TopInStack, PopFacts DEF Shape
  <2>3. Len(SetTop(a)) = Len(stack)
    BY <1>1, SetTopFacts DEF Shape
  <2> QED  BY <2>1, <2>2, <2>3
<1>3. CASE ~ CacheHit
  BY <1>3 DEF loadClass, ClassNotFound, ParseThrows, BeginDefine, LinkNoSuper, SuperNameThrows, InterfaceNameThrows, LoadSuper,
         SetSuperClass, LoadInterface, SetInterface, AddClass, PrepareDangling,
         PrepareRuntimeConstantPool, PrepareMethods, PrepareFieldsAndStatics, Running, Returned
<1> QED  BY <1>2, <1>3

LEMMA UnpublishedStep ==
  ASSUME Publication, loadClass
  PROVE  Unpublished'
<1>0. /\ Shape /\ stack # <<>> /\ StackStep /\ Unpublished /\ UNCHANGED this
      /\ Len(stack) \in Nat /\ Len(stack) \in DOMAIN stack /\ DOMAIN stack = 1 .. Len(stack)
      /\ this \in Addr /\ Top = stack[Len(stack)]
  BY PublicationFacts, LoadClassStack, TopInStack DEF Shape, Top, RunsOnLiveLoader
<1>1. CASE Throws
  BY <1>1 DEF Throws, Unpublished
<1>2. CASE Faults
  BY <1>0, <1>2 DEF Faults, Unpublished
<1>3. CASE \E a \in Activation : Moves(a)
  <2>1. PICK a \in Activation : Moves(a)
    BY <1>3
  <2>2. /\ DOMAIN stack' = DOMAIN stack /\ stack'[Len(stack)] = a
        /\ \A i \in DOMAIN stack : i # Len(stack) => stack'[i] = stack[i]
        /\ a.name = Top.name /\ UNCHANGED cache
    BY <1>0, <2>1, SetTopFacts DEF Moves, Shape
  <2>3. cache[this][Top.name] = Null
    BY <1>0, <2>1, EnteringUncached DEF Moves, Unpublished
  <2> QED  BY <1>0, <2>2, <2>3 DEF Unpublished
<1>4. CASE \E n \in Name : n = Wanted(Top) /\ Nests(n)
  <2>1. PICK n \in Name : Nests(n)
    BY <1>4
  <2>2. /\ DOMAIN stack' = 1 .. Len(stack) + 1
        /\ stack'[Len(stack) + 1].at = "enter"
        /\ \A i \in DOMAIN stack : stack'[i] = stack[i]
    BY <1>0, <2>1, PushFacts DEF Nests, Shape, Entry
  <2>3. \A i \in DOMAIN stack' : i \in DOMAIN stack \/ i = Len(stack) + 1
    BY <1>0, <2>2
  <2>4. UNCHANGED cache
    BY <2>1 DEF Nests
  <2> QED  BY <1>0, <2>2, <2>3, <2>4 DEF Unpublished
<1>5. CASE Returns
  <2>1. \A i \in DOMAIN stack' : i \in DOMAIN stack /\ i < Len(stack) /\ stack'[i] = stack[i]
    BY <1>0, <1>5, PopFacts DEF Returns, Shape
  <2>2. \A n \in Name : n # Top.name => cache'[this][n] = cache[this][n]
    <3>1. UNCHANGED cache \/ cache' = [cache EXCEPT ![this] = [cache[this] EXCEPT ![Top.name] = Top.klass]]
      BY DEF loadClass, CacheHit, ClassNotFound, ParseThrows, BeginDefine, LinkNoSuper, SuperNameThrows, InterfaceNameThrows,
             LoadSuper, SetSuperClass, LoadInterface, SetInterface, AddClass, PrepareDangling,
             PrepareRuntimeConstantPool, PrepareMethods, PrepareFieldsAndStatics, Throw, Recurse
    <3> QED  BY <1>0, <3>1, Typed
  <2>3. \A i \in DOMAIN stack : i < Len(stack) => stack[i].name # Top.name
    BY <1>0, OtherNames DEF Publication
  <2>4. \A i \in DOMAIN stack : stack[i].name \in Name
    BY <1>0, StackNames
  <2> QED  BY <1>0, <2>1, <2>2, <2>3, <2>4 DEF Unpublished
<1> QED  BY <1>0, <1>1, <1>2, <1>3, <1>4, <1>5 DEF StackStep

(* addClass always registers the class it is given. *)
LEMMA AddClassFindsRoom ==
  ASSUME Publication, AddClass
  PROVE  area[<<this, Top.name>>] = Null
<1>1. /\ stack # <<>> /\ Top.at = "ifaces" /\ Shape /\ Unpublished /\ Published /\ phase = "test"
  BY PublicationFacts DEF AddClass, Running, Publication, Publishing, PhaseSound
<1>2. <<this, Top.name>> \in Key /\ cache[this][Top.name] = Null
  BY <1>1, TopSound DEF Unpublished, Top, Key, Activation, Shape, RunsOnLiveLoader
<1> QED  BY <1>1, <1>2 DEF Published, Preparing

LEMMA DefinedStep ==
  ASSUME Publication, loadClass
  PROVE  DefinedIsRegistered'
<1>0. /\ Shape /\ stack # <<>> /\ StackStep /\ UNCHANGED this /\ DefinedIsRegistered
      /\ Len(stack) \in Nat /\ Len(stack) \in DOMAIN stack /\ DOMAIN stack = 1 .. Len(stack)
  BY PublicationFacts, LoadClassStack, TopInStack DEF Shape, Publication, Publishing
<1>1. CASE Throws
  BY <1>1 DEF Throws, DefinedIsRegistered
<1>2. CASE Faults
  BY <1>0, <1>2 DEF Faults, DefinedIsRegistered, Top
<1>3. CASE \E n \in Name : n = Wanted(Top) /\ Nests(n)
  <2>1. PICK n \in Name : Nests(n)
    BY <1>3
  <2>2. Top'.at = "enter"
    BY <1>0, <2>1, PushFacts DEF Nests, Shape, Entry, Top
  <2> QED  BY <2>2 DEF DefinedIsRegistered
<1>4. CASE Returns
  <2> SUFFICES ASSUME stack' # <<>> PROVE Top'.at # "pool"
    BY DEF DefinedIsRegistered
  <2>1. /\ Len(stack') = Len(stack) - 1 /\ stack' \in Seq(Activation)
        /\ \A i \in DOMAIN stack' : i \in DOMAIN stack /\ i < Len(stack) /\ stack'[i] = stack[i]
    BY <1>0, <1>4, PopFacts DEF Returns, Shape
  <2>2. Len(stack') \in DOMAIN stack'
    BY <2>1, EmptySeq, LenProperties
  <2>3. Top'.at \in {"super", "ifaces"}
    BY <1>0, <2>1, <2>2 DEF Top, Shape, StackSound
  <2> QED  BY <2>3
<1>5. CASE \E a \in Activation : Moves(a)
  <2>1. PICK a \in Activation : Moves(a)
    BY <1>5
  <2>2. Top' = a /\ a.name = Top.name
    BY <1>0, <2>1, OuterStays DEF Moves
  <2>3. CASE AddClass
    <3>1. area[<<this, Top.name>>] = Null /\ <<this, Top.name>> \in Key
      BY <1>0, <2>3, AddClassFindsRoom, TopSound DEF Key, Shape, RunsOnLiveLoader, Activation
    <3>2. area' = [area EXCEPT ![<<this, Top.name>>] = Top.klass]
      BY <2>3, <3>1 DEF AddClass
    <3>3. area'[<<this, Top.name>>] = Top.klass
      BY <1>0, <3>1, <3>2, Typed
    <3>4. stack' = SetTop([Top EXCEPT !.at = "pool"])
      BY <2>3 DEF AddClass, Advance
    <3>5. PICK b \in Activation : b = [Top EXCEPT !.at = "pool"]
      BY <1>0, TopSound DEF Activation, Position
    <3>6. Top' = b /\ b.klass = Top.klass /\ b.name = Top.name
      BY <1>0, <3>4, <3>5, OuterStays, TopSound DEF Activation
    <3> QED  BY <1>0, <3>3, <3>6 DEF DefinedIsRegistered
  <2>4. CASE ~ AddClass
    <3> SUFFICES ASSUME a.at = "pool" PROVE area'[<<this', Top'.name>>] = Top'.klass
      BY <2>2 DEF DefinedIsRegistered
    <3>1. CASE PrepareDangling
      BY <1>0, <2>2, <3>1 DEF PrepareDangling, Running, DefinedIsRegistered, heap, call, Top
    <3>2. CASE ~ PrepareDangling
      <4>1. \/ stack' = <<>> \/ stack' = Pop
            \/ UNCHANGED stack /\ Top.at # "pool"
            \/ \E n : stack' = Append(stack, n)
            \/ \E b \in Activation : stack' = SetTop(b) /\ b.at # "pool"
        <5> USE <1>0 DEF Running, Returned
        <5>1. CASE CacheHit \/ ClassNotFound \/ ParseThrows \/ SuperNameThrows \/ InterfaceNameThrows \/ LoadSuper \/ LoadInterface
          BY <5>1 DEF CacheHit, ClassNotFound, ParseThrows, SuperNameThrows, InterfaceNameThrows, Throw, LoadSuper,
                      LoadInterface, Recurse
        <5>2. CASE BeginDefine
          <6>1. PICK k \in Klass : stack' = SetTop([Top EXCEPT !.klass = k, !.at = "super"])
            BY <5>2 DEF BeginDefine
          <6>2. PICK b \in Activation : b = [Top EXCEPT !.klass = k, !.at = "super"]
            BY TopSound DEF Activation, Position
          <6>3. b.at # "pool"
            BY <6>2, TopSound DEF Activation
          <6> QED  BY <6>1, <6>2, <6>3
        <5>3. CASE SetInterface
          <6>1. CASE UNCHANGED stack
            BY <5>3, <6>1 DEF SetInterface
          <6>2. CASE ~ UNCHANGED stack
            <7>1. stack' = SetTop([Top EXCEPT !.linked = @ + 1]) /\ Top.at = "ifaces"
              BY <5>3, <6>2 DEF SetInterface
            <7>2. Top \in Activation /\ Top.linked + 1 \in Nat
              BY TopSound DEF Activation
            <7>3. PICK b \in Activation : b = [Top EXCEPT !.linked = @ + 1]
              BY <7>2 DEF Activation
            <7>4. b.at = Top.at
              BY <7>2, <7>3 DEF Activation
            <7> QED  BY <7>1, <7>3, <7>4
          <6> QED  BY <6>1, <6>2
        <5>4. CASE LinkNoSuper \/ SetSuperClass \/ PrepareRuntimeConstantPool \/ PrepareMethods
                     \/ PrepareFieldsAndStatics
          <6>1. \/ stack' = <<>> \/ stack' = Pop
                \/ \E p \in {"ifaces", "methods", "fields"} : stack' = Advance(p)
            BY <5>4 DEF LinkNoSuper, SetSuperClass, PrepareRuntimeConstantPool, PrepareMethods,
                        PrepareFieldsAndStatics, Throw
          <6>2. ASSUME NEW p \in {"ifaces", "methods", "fields"}, stack' = Advance(p)
                PROVE  \E b \in Activation : stack' = SetTop(b) /\ b.at # "pool"
            <7>1. PICK b \in Activation : b = [Top EXCEPT !.at = p]
              BY TopSound DEF Activation, Position
            <7>2. b.at = p
              BY <7>1, TopSound DEF Activation
            <7> QED  BY <6>2, <7>1, <7>2 DEF Advance
          <6> QED  BY <6>1, <6>2
        <5> QED  BY <2>4, <3>2, <5>1, <5>2, <5>3, <5>4 DEF loadClass
      <4>2. Len(stack') = Len(stack) /\ Len(stack) # 0
        BY <1>0, <2>1, SetTopFacts, TopInStack DEF Moves, Shape
      <4>3. stack' # <<>> /\ stack' # Pop
        BY <1>0, <4>2, PopFacts DEF Shape
      <4>4. ASSUME NEW n, stack' = Append(stack, n)
            PROVE  FALSE
        BY <1>0, <4>2, <4>4 DEF Shape, TypeOK
      <4>5. \A b \in Activation : stack' = SetTop(b) => b = a
        BY <1>0, <2>2, OuterStays
      <4>6. UNCHANGED stack => Top.at = "pool"
        BY <2>2 DEF Top
      <4> QED  BY <4>1, <4>3, <4>4, <4>5, <4>6
    <3> QED  BY <3>1, <3>2
  <2> QED  BY <2>3, <2>4
<1> QED  BY <1>0, <1>1, <1>2, <1>3, <1>4, <1>5 DEF StackStep

LEMMA PublishedStep ==
  ASSUME Publication, loadClass, UNCHANGED phase, \A f \in Files : FailsEarly(f)
  PROVE  Published'
<1> USE DEF Running
<1>0. /\ Shape /\ stack # <<>> /\ Published /\ UNCHANGED this /\ Grows /\ phase = "test"
      /\ this \in Addr /\ Top.name \in Name /\ <<this, Top.name>> \in Key
      /\ ActivationSound(Top) /\ Top \in Activation
  BY PublicationFacts, LoadClassStack, LoadClassGrows, TopSound
     DEF Publication, Publishing, Shape, RunsOnLiveLoader, Activation, Key, PhaseSound
<1> SUFFICES ASSUME NEW key \in Key, area'[key] # Null
             PROVE  \/ cache'[key[1]][key[2]] = area'[key]
                    \/ Preparing' /\ key = <<this', Top'.name>>
  BY DEF Published
<1>1. key[1] \in Addr /\ key[2] \in Name
  BY DEF Key
<1>2. CASE area[key] # Null /\ cache[key[1]][key[2]] = area[key]
  BY <1>0, <1>1, <1>2 DEF Grows
<1>3. CASE area[key] # Null /\ Preparing /\ key = <<this, Top.name>>
  <2>1. area'[key] = area[key]
    BY <1>0, <1>3 DEF Grows
  <2>2. PrepareDangling \/ PrepareRuntimeConstantPool \/ PrepareMethods \/ PrepareFieldsAndStatics
    BY <1>3 DEF Preparing, loadClass, CacheHit, ClassNotFound, ParseThrows, BeginDefine, LinkNoSuper,
       SuperNameThrows, InterfaceNameThrows, LoadSuper, SetSuperClass, LoadInterface, SetInterface, AddClass, Returned
  <2>3. CASE PrepareDangling
    BY <1>0, <1>3, <2>3 DEF PrepareDangling, Preparing, call, Top
  <2>4. CASE ~ PrepareDangling
    <3>1. TopFile \in Files /\ FailsEarly(TopFile) /\ Top.klass \in Klass
      BY <1>0, <1>3, <2>2, <2>4
         DEF PrepareDangling, PrepareRuntimeConstantPool, PrepareMethods, PrepareFieldsAndStatics,
             Preparing, TopFile, ActivationSound, Shape, KlassHasFile
    <3>2. CASE PrepareRuntimeConstantPool \/ PrepareMethods
      <4>1. \E p \in {"methods", "fields"} : stack' = Advance(p)
        BY <3>1, <3>2 DEF PrepareRuntimeConstantPool, PrepareMethods, FailsEarly
      <4>2. PICK p \in {"methods", "fields"}, b \in Activation :
              b = [Top EXCEPT !.at = p] /\ stack' = SetTop(b)
        BY <1>0, <4>1 DEF Activation, Position, Advance
      <4>3. stack' # <<>> /\ Top' = b /\ b.at = p /\ b.name = Top.name
        BY <1>0, <4>2, OuterStays DEF Activation
      <4> QED  BY <1>0, <1>3, <4>3 DEF Preparing
    <3>3. CASE PrepareFieldsAndStatics
      <4>1. cache' = [cache EXCEPT ![this] = [cache[this] EXCEPT ![Top.name] = Top.klass]]
        BY <3>1, <3>3 DEF PrepareFieldsAndStatics, FailsEarly
      <4>2. cache'[this][Top.name] = Top.klass
        BY <1>0, <4>1, Typed
      <4>3. area[key] = Top.klass
        BY <1>0, <1>3, <3>3 DEF PrepareFieldsAndStatics, ActivationSound, InArea
      <4> QED  BY <1>3, <2>1, <4>2, <4>3
    <3> QED  BY <2>2, <2>4, <3>2, <3>3
  <2> QED  BY <2>3, <2>4
<1>4. CASE area[key] = Null
  <2>1. AddClass
    BY <1>4 DEF loadClass, CacheHit, ClassNotFound, ParseThrows, BeginDefine, LinkNoSuper,
       SuperNameThrows, InterfaceNameThrows, LoadSuper, SetSuperClass, LoadInterface, SetInterface, PrepareDangling,
       PrepareRuntimeConstantPool, PrepareMethods, PrepareFieldsAndStatics, Throw, Recurse, heap
  <2>2. key = <<this, Top.name>>
    BY <1>0, <1>4, <2>1, Typed DEF AddClass
  <2>3. PICK b \in Activation : b = [Top EXCEPT !.at = "pool"] /\ stack' = SetTop(b)
    BY <1>0, <2>1 DEF AddClass, Activation, Position, Advance
  <2>4. stack' # <<>> /\ Top' = b /\ b.at = "pool" /\ b.name = Top.name
    BY <1>0, <2>3, OuterStays DEF Activation
  <2> QED  BY <1>0, <2>2, <2>4 DEF Preparing
<1> QED  BY <1>0, <1>2, <1>3, <1>4 DEF Published

LEMMA PublicationNext ==
  ASSUME Publication, [FixtureNext]_fixtureVars, \A f \in Files : FailsEarly(f)
  PROVE  Publication'
<1>0. /\ Nesting' /\ Shape /\ PhaseSound /\ Unpublished /\ DefinedIsRegistered /\ Published
  BY NestingNext, PublicationFacts DEF Publication, Publishing
<1>1. CASE Running_loadClass
  BY <1>0, <1>1, UnpublishedStep, DefinedStep, PublishedStep
     DEF Publication, Publishing, Running_loadClass
<1>2. CASE \E l \in Addr, path \in Classpaths : SetUp(l, path)
  <2>1. \A key \in Key : area'[key] = Null
    BY <1>2 DEF SetUp, EmptyArea, Key
  <2>2. stack' = <<>>
    BY <1>2 DEF SetUp, Idle, call
  <2> QED  BY <1>0, <2>1, <2>2 DEF Publication, Publishing, Unpublished, DefinedIsRegistered, Published
<1>3. CASE \E l \in Addr, path \in Classpaths : BodyNewLoader(l, path)
  <2>1. PICK l \in Addr, path \in Classpaths : BodyNewLoader(l, path)
    BY <1>3
  <2>2. stack = <<>> /\ stack' = <<>> /\ phase = "test" /\ UNCHANGED <<area, phase>>
    BY <2>1 DEF BodyNewLoader, NewLoader, Idle, call, heap
  <2>3. cache[l] = EmptyCache
    BY <1>0, <2>1 DEF PhaseSound, BodyNewLoader, NewLoader
  <2>4. UNCHANGED cache
    BY <1>0, <2>1, <2>3, Typed DEF BodyNewLoader, NewLoader
  <2> QED  BY <1>0, <2>2, <2>4
           DEF Publication, Publishing, Unpublished, DefinedIsRegistered, Published, Preparing
<1>4. CASE \E l \in Addr, n \in Name : BodyLoadClass(l, n)
  <2>1. PICK l \in Addr, n \in Name : BodyLoadClass(l, n)
    BY <1>4
  <2>2. stack = <<>> /\ stack' = <<Entry(n)>> /\ UNCHANGED <<area, cache, phase>>
    BY <2>1 DEF BodyLoadClass, CallLoadClass, Idle, Entry, heap
  <2>3. DOMAIN stack' = {1} /\ stack'[1].at = "enter" /\ Top'.at = "enter"
    BY <2>2 DEF Entry, Top
  <2> QED  BY <1>0, <2>2, <2>3
           DEF Publication, Publishing, Unpublished, DefinedIsRegistered, Published, Preparing
<1>5. CASE TearDown
  BY <1>0, <1>5
     DEF TearDown, Idle, call, Publication, Publishing, Unpublished, DefinedIsRegistered, Published
<1>6. CASE UNCHANGED fixtureVars
  <2>1. UNCHANGED <<cache, area, this, stack, phase>>
    BY <1>6 DEF fixtureVars, vars
  <2> QED  BY <1>0, <2>1
           DEF Publication, Publishing, Unpublished, DefinedIsRegistered, Published, Preparing, Top
<1> QED  BY <1>1, <1>2, <1>3, <1>4, <1>5, <1>6 DEF FixtureNext

LEMMA PublicationInvariant ==
  ASSUME \A dk \in Disks : Layered(dk), \A f \in Files : FailsEarly(f)
  PROVE  FixtureSpec => []Publication
<1>1. FixtureInit => Publication
  <2> SUFFICES ASSUME FixtureInit PROVE Publication
    OBVIOUS
  <2>1. stack = <<>> /\ phase = "idle"
    BY DEF FixtureInit, Init
  <2> QED  BY <2>1, NestingInit
           DEF Publication, Publishing, Unpublished, DefinedIsRegistered, Published
<1>2. Publication /\ [FixtureNext]_fixtureVars => Publication'
  BY PublicationNext
<1> QED  BY <1>1, <1>2, PTL DEF FixtureSpec

(* When no file fails in a preparation phase, the pointer that defineClass *)
(* returns is always the registered object ("A pointer to the newly        *)
(* created and registered Klass object", class_loader.cpp:69): addClass    *)
(* never meets an entry under the loader's key.                            *)
THEOREM DefinedClassesAreRegistered ==
  ASSUME \A dk \in Disks : Layered(dk), \A f \in Files : FailsEarly(f)
  PROVE  FixtureSpec => []DefinedIsRegistered
<1>1. Publication => DefinedIsRegistered
  BY DEF Publication, Publishing
<1> QED  BY <1>1, PublicationInvariant, PTL

(* Then, too, MethodArea::getClass shows between calls only classes that   *)
(* loadClass returned.                                                     *)
THEOREM RegisteredClassesAreCached ==
  ASSUME \A dk \in Disks : Layered(dk), \A f \in Files : FailsEarly(f)
  PROVE  FixtureSpec => []RegisteredIsCached
<1>1. Publication => RegisteredIsCached
  <2> SUFFICES ASSUME Publication, Idle, phase = "test"
               PROVE  \A key \in DOMAIN area : area[key] # Null => cache[key[1]][key[2]] = area[key]
    BY DEF RegisteredIsCached
  <2>1. DOMAIN area = Key
    BY PublicationFacts, Typed
  <2> QED  BY <2>1 DEF Publication, Publishing, Published, Preparing, Idle
<1> QED  BY <1>1, PublicationInvariant, PTL
=============================================================================
