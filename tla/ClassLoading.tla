---------------------------- MODULE ClassLoading ----------------------------
(***************************************************************************)
(* The class-loading path of the JVM: ClassLoader (class_loader/           *)
(* class_loader.cpp), the MethodArea singleton that owns every loaded      *)
(* class (runtime/method_area.{h,cpp}) and the preparation phases of Klass *)
(* (runtime/klass.cpp).                                                    *)
(*                                                                         *)
(* loadClass is recursive (a class loads its superclass and its interfaces *)
(* while it is being defined) and can throw at many points, so one call is *)
(* modelled as a stack of activations, each at a position in the code      *)
(* between two calls that change shared state; a throw unwinds the stack,  *)
(* because nothing in the loader catches.  Every pointer the C++ code      *)
(* keeps is an element of Klass or Addr; deleted objects return to the     *)
(* free pool and their addresses are used again, as an allocator does.     *)
(***************************************************************************)
EXTENDS Naturals, Sequences, FiniteSets

CONSTANTS
  Null,        \* the null pointer, "no file", "no name"
  Addr,        \* addresses a ClassLoader object can be allocated at
  Name,        \* dotted class names
  Klass,       \* addresses a Klass object can be allocated at
  Dir,         \* classpath directories
  Files,       \* what parse() makes of the class files of the universe
  Disks,       \* the contents of the directories: subsets of Dir x Name -> Files
  Classpaths,  \* the classpath lists that loaders are created with
  MaxDepth     \* BOUND: activations of loadClass that fit the native stack

(* Where the loading of a file throws: nowhere, in parse() or the Klass    *)
(* constructor (which decodes the class's own name), when its superclass   *)
(* entry is decoded, or in one of the preparation phases.                  *)
FailPoint == {"never", "parse", "link", "pool", "methods", "fields"}

(* An interface: the constant pool index of its class entry (which         *)
(* linkInterfaces also uses as position in the interfaces vector) and the  *)
(* name found there, Null where getClassName throws.                       *)
Interface == [index : Nat, name : Name \cup {Null}]

(* What loadClass needs to know of a ClassFile.  super is Null for a zero  *)
(* super_class_index and for java.lang.Object, which are treated alike.    *)
ClassFile == [super : Name \cup {Null}, ifaces : Seq(Interface), fails : FailPoint]

ASSUME NullAssumption ==
  Null \notin Addr /\ Null \notin Name /\ Null \notin Klass /\ Null \notin Files /\ Null \notin Classpaths
ASSUME FilesAssumption == Files \subseteq ClassFile
ASSUME DisksAssumption == Disks \subseteq [Dir -> [Name -> Files \cup {Null}]]
ASSUME ClasspathsAssumption == Classpaths \subseteq Seq(Dir)
ASSUME MaxDepthAssumption == MaxDepth \in Nat \ {0}

VARIABLES
  disk,    \* the class files found in each directory
  paths,   \* classpaths_ of each live loader, Null where no loader lives
  cache,   \* cache_ of each loader
  area,    \* MethodArea::classes_: (loader, name) -> Klass
  klass,   \* the Klass objects
  this,    \* the loader whose loadClass is running
  stack,   \* its activations, innermost last
  ret,     \* the pointer returned by the last activation to finish, or Null
  thrown,  \* the last call ended with an exception
  fault    \* undefined behaviour the run has met, or "none"

heap  == <<area, klass>>
world == <<disk, paths>>
call  == <<this, stack, ret, thrown>>
vars  == <<disk, paths, cache, area, klass, this, stack, ret, thrown, fault>>

Stage    == {"free", "linking", "pool", "methods", "prepared"}
Position == {"enter", "super", "ifaces", "pool", "methods", "fields"}
Fault    == {"none", "use_after_free", "out_of_bounds", "stack_overflow"}

(* A Klass object; Raw is the memory of none. *)
KlassObject ==
  [stage : Stage, loader : Addr \cup {Null}, file : Files \cup {Null},
   super : Klass \cup {Null}, ifaces : SUBSET Klass]
Raw == [stage |-> "free", loader |-> Null, file |-> Null, super |-> Null, ifaces |-> {}]

Activation ==
  [name : Name, klass : Klass \cup {Null}, at : Position, linked : Nat]

TypeOK ==
  /\ disk \in Disks
  /\ paths \in [Addr -> Classpaths \cup {Null}]
  /\ cache \in [Addr -> [Name -> Klass \cup {Null}]]
  /\ area \in [Addr \X Name -> Klass \cup {Null}]
  /\ klass \in [Klass -> KlassObject]
  /\ this \in Addr \cup {Null}
  /\ stack \in Seq(Activation)
  /\ ret \in Klass \cup {Null}
  /\ thrown \in BOOLEAN
  /\ fault \in Fault

EmptyCache == [n \in Name |-> Null]
EmptyArea  == [key \in Addr \X Name |-> Null]

Init ==
  /\ disk \in Disks
  /\ paths = [l \in Addr |-> Null]
  /\ cache = [l \in Addr |-> EmptyCache]
  /\ area = EmptyArea
  /\ klass = [k \in Klass |-> Raw]
  /\ this = Null /\ stack = <<>> /\ ret = Null /\ thrown = FALSE
  /\ fault = "none"

-----------------------------------------------------------------------------
(* The activation stack. *)

Top        == stack[Len(stack)]
Pop        == SubSeq(stack, 1, Len(stack) - 1)
SetTop(a)  == [stack EXCEPT ![Len(stack)] = a]
Advance(p) == SetTop([Top EXCEPT !.at = p])

(* The innermost activation is at position p and no nested call is about   *)
(* to hand it a result.                                                    *)
Running(p) == stack # <<>> /\ fault = "none" /\ Top.at = p /\ ret = Null

(* The innermost activation is at p and its nested loadClass has returned. *)
Returned(p) == stack # <<>> /\ fault = "none" /\ Top.at = p /\ ret # Null

(* A nested call of loadClass: the native stack is finite. *)
Recurse(n) ==
  /\ IF Len(stack) < MaxDepth
       THEN /\ stack' = Append(stack, [name |-> n, klass |-> Null, at |-> "enter", linked |-> 0])
            /\ UNCHANGED fault
       ELSE /\ fault' = "stack_overflow"
            /\ UNCHANGED stack
  /\ UNCHANGED <<heap, cache, this, ret, thrown>>

(* The Klass objects that defineClass activations still own (unique_ptr)   *)
(* because they have not been handed to the method area.                   *)
Owned == {stack[i].klass : i \in {j \in DOMAIN stack : stack[j].at \in {"super", "ifaces"}}}

(* Mutant: the unwinding forgets the classes under construction. *)
ThrowLeaks ==
  /\ stack' = <<>> /\ ret' = Null /\ thrown' = TRUE
  /\ UNCHANGED <<area, klass, cache, this, fault>>

(* Mutant: an exception discards the cache of the running loader. *)
ThrowClearsCache ==
  /\ klass' = [k \in Klass |-> IF k \in Owned THEN Raw ELSE klass[k]]
  /\ cache' = [cache EXCEPT ![this] = EmptyCache]
  /\ stack' = <<>> /\ ret' = Null /\ thrown' = TRUE
  /\ UNCHANGED <<area, this, fault>>

(* An exception leaves every activation and destroys what they own. *)
Throw ==
  /\ klass' = [k \in Klass |-> IF k \in Owned THEN Raw ELSE klass[k]]
  /\ stack' = <<>> /\ ret' = Null /\ thrown' = TRUE
  /\ UNCHANGED <<area, cache, this, fault>>

-----------------------------------------------------------------------------
(* loadClass, from its entry to the definition of the class. *)

(* readClassFile: the file of the first classpath directory that has one;  *)
(* the empty set is nullopt.                                               *)
readClassFile(l, n) ==
  {f \in Files : \E i \in DOMAIN paths[l] :
                    /\ disk[paths[l][i]][n] = f
                    /\ \A j \in 1 .. i - 1 : disk[paths[l][j]][n] = Null}

CacheHit ==
  /\ Running("enter")
  /\ cache[this][Top.name] # Null
  /\ ret' = cache[this][Top.name]
  /\ stack' = Pop
  /\ UNCHANGED <<world, cache, heap, this, thrown, fault>>

ClassNotFound ==
  /\ Running("enter")
  /\ cache[this][Top.name] = Null
  /\ readClassFile(this, Top.name) = {}
  /\ Throw
  /\ UNCHANGED world

ParseThrows ==
  /\ Running("enter")
  /\ cache[this][Top.name] = Null
  /\ \E f \in readClassFile(this, Top.name) : f.fails = "parse"
  /\ Throw
  /\ UNCHANGED world

(* Mutant: the class is read and defined anew although it is cached. *)
BeginDefineAnew ==
  /\ Running("enter")
  /\ \E f \in readClassFile(this, Top.name), k \in Klass :
       /\ f.fails # "parse"
       /\ klass[k].stage = "free"
       /\ klass' = [klass EXCEPT ![k] = [stage |-> "linking", loader |-> this, file |-> f,
                                         super |-> Null, ifaces |-> {}]]
       /\ stack' = SetTop([Top EXCEPT !.klass = k, !.at = "super"])
  /\ UNCHANGED <<world, cache, area, this, ret, thrown, fault>>

(* defineClass up to its first nested call: a new Klass over the parsed    *)
(* file, owned by the activation.                                          *)
BeginDefine ==
  /\ Running("enter")
  /\ cache[this][Top.name] = Null
  /\ \E f \in readClassFile(this, Top.name), k \in Klass :
       /\ f.fails # "parse"
       /\ klass[k].stage = "free"
       /\ klass' = [klass EXCEPT ![k] = [stage |-> "linking", loader |-> this, file |-> f,
                                         super |-> Null, ifaces |-> {}]]
       /\ stack' = SetTop([Top EXCEPT !.klass = k, !.at = "super"])
  /\ UNCHANGED <<world, cache, area, this, ret, thrown, fault>>

TopFile == klass[Top.klass].file

LinkNoSuper ==
  /\ Running("super")
  /\ TopFile.fails # "link" /\ TopFile.super = Null
  /\ stack' = Advance("ifaces")
  /\ UNCHANGED <<world, cache, heap, this, ret, thrown, fault>>

SuperNameThrows ==
  /\ Running("super")
  /\ TopFile.fails = "link"
  /\ Throw
  /\ UNCHANGED world

(* Mutant: a class without superclass is not told apart. *)
LoadSuperAlways ==
  /\ Running("super")
  /\ TopFile.fails # "link"
  /\ Recurse(TopFile.super)
  /\ UNCHANGED world

(* Mutant: the name is taken from this_class_index. *)
LoadSelfAsSuper ==
  /\ Running("super")
  /\ TopFile.fails # "link" /\ TopFile.super # Null
  /\ Recurse(Top.name)
  /\ UNCHANGED world

LoadSuper ==
  /\ Running("super")
  /\ TopFile.fails # "link" /\ TopFile.super # Null
  /\ Recurse(TopFile.super)
  /\ UNCHANGED world

(* Mutant: defineClass links the superclass again and again. *)
LinkSuperAgain ==
  /\ Returned("super")
  /\ klass' = [klass EXCEPT ![Top.klass].super = ret]
  /\ ret' = Null
  /\ UNCHANGED <<world, cache, area, this, stack, thrown, fault>>

SetSuperClass ==
  /\ Returned("super")
  /\ klass' = [klass EXCEPT ![Top.klass].super = ret]
  /\ stack' = Advance("ifaces")
  /\ ret' = Null
  /\ UNCHANGED <<world, cache, area, this, thrown, fault>>

(* The interface that linkInterfaces is at. *)
TopInterface == TopFile.ifaces[Top.linked + 1]

(* Mutant: the names are taken from the first interface entry. *)
LoadFirstInterface ==
  /\ Running("ifaces")
  /\ Top.linked < Len(TopFile.ifaces) /\ TopInterface.name # Null
  /\ Recurse(TopFile.ifaces[1].name)
  /\ UNCHANGED world

LoadInterface ==
  /\ Running("ifaces")
  /\ Top.linked < Len(TopFile.ifaces) /\ TopInterface.name # Null
  /\ Recurse(TopInterface.name)
  /\ UNCHANGED world

InterfaceNameThrows ==
  /\ Running("ifaces")
  /\ Top.linked < Len(TopFile.ifaces) /\ TopInterface.name = Null
  /\ Throw
  /\ UNCHANGED world

(* setInterface writes at the constant pool index of the interface, into a *)
(* vector of interfaces_count elements.                                    *)
SetInterface ==
  /\ Returned("ifaces")
  /\ IF TopInterface.index < Len(TopFile.ifaces)
       THEN /\ klass' = [klass EXCEPT ![Top.klass].ifaces = @ \cup {ret}]
            /\ stack' = SetTop([Top EXCEPT !.linked = @ + 1])
            /\ ret' = Null
            /\ UNCHANGED fault
       ELSE /\ fault' = "out_of_bounds"
            /\ UNCHANGED <<klass, stack, ret>>
  /\ UNCHANGED <<world, cache, area, this, thrown>>

(* Mutant: the class is cached when it is defined, before it is prepared. *)
AddClassAndCache ==
  /\ Running("ifaces")
  /\ Top.linked = Len(TopFile.ifaces)
  /\ area[<<this, Top.name>>] = Null
  /\ area' = [area EXCEPT ![<<this, Top.name>>] = Top.klass]
  /\ cache' = [cache EXCEPT ![this][Top.name] = Top.klass]
  /\ stack' = Advance("pool")
  /\ UNCHANGED <<world, klass, this, ret, thrown, fault>>

(* MethodArea::addClass: emplace keeps an entry that is already there, and *)
(* then the new Klass and its file are destroyed with the call's argument. *)
AddClass ==
  /\ Running("ifaces")
  /\ Top.linked = Len(TopFile.ifaces)
  /\ LET key == <<this, Top.name>>
     IN  IF area[key] = Null
           THEN area' = [area EXCEPT ![key] = Top.klass] /\ UNCHANGED klass
           ELSE klass' = [klass EXCEPT ![Top.klass] = Raw] /\ UNCHANGED area
  /\ stack' = Advance("pool")
  /\ UNCHANGED <<world, cache, this, ret, thrown, fault>>

-----------------------------------------------------------------------------
(* loadClass, the preparation of the defined class through klass_ptr. *)

(* The first use of the pointer defineClass returned, where it dangles:    *)
(* undefined behaviour, with which the call ends.                          *)
PrepareDangling ==
  /\ Running("pool")
  /\ klass[Top.klass].stage = "free"
  /\ fault' = "use_after_free"
  /\ UNCHANGED <<world, cache, heap, call>>

(* The other outcome of the same undefined behaviour: the phases run over  *)
(* the freed memory unnoticed, and loadClass goes on to cache the pointer. *)
CacheDropped ==
  /\ Running("pool")
  /\ klass[Top.klass].stage = "free"
  /\ cache' = [cache EXCEPT ![this][Top.name] = Top.klass]
  /\ fault' = "use_after_free"
  /\ UNCHANGED <<world, heap, call>>

PrepareRuntimeConstantPool ==
  /\ Running("pool")
  /\ klass[Top.klass].stage # "free"
  /\ IF TopFile.fails = "pool"
       THEN Throw
       ELSE /\ klass' = [klass EXCEPT ![Top.klass].stage = "pool"]
            /\ stack' = Advance("methods")
            /\ UNCHANGED <<cache, area, this, ret, thrown, fault>>
  /\ UNCHANGED world

PrepareMethods ==
  /\ Running("methods")
  /\ IF TopFile.fails = "methods"
       THEN Throw
       ELSE /\ klass' = [klass EXCEPT ![Top.klass].stage = "methods"]
            /\ stack' = Advance("fields")
            /\ UNCHANGED <<cache, area, this, ret, thrown, fault>>
  /\ UNCHANGED world

(* Mutant: loadClass returns without caching. *)
PrepareWithoutCaching ==
  /\ Running("fields")
  /\ IF TopFile.fails = "fields"
       THEN Throw
       ELSE /\ klass' = [klass EXCEPT ![Top.klass].stage = "prepared"]
            /\ ret' = Top.klass
            /\ stack' = Pop
            /\ UNCHANGED <<area, cache, this, thrown, fault>>
  /\ UNCHANGED world

(* The last phase, the cache update and the return of loadClass. *)
PrepareFieldsAndStatics ==
  /\ Running("fields")
  /\ IF TopFile.fails = "fields"
       THEN Throw
       ELSE /\ klass' = [klass EXCEPT ![Top.klass].stage = "prepared"]
            /\ cache' = [cache EXCEPT ![this][Top.name] = Top.klass]
            /\ ret' = Top.klass
            /\ stack' = Pop
            /\ UNCHANGED <<area, this, thrown, fault>>
  /\ UNCHANGED world

loadClass ==
  \/ CacheHit \/ ClassNotFound \/ ParseThrows \/ BeginDefine
  \/ LinkNoSuper \/ SuperNameThrows \/ LoadSuper \/ SetSuperClass
  \/ LoadInterface \/ InterfaceNameThrows \/ SetInterface \/ AddClass
  \/ PrepareDangling \/ PrepareRuntimeConstantPool \/ PrepareMethods
  \/ PrepareFieldsAndStatics

-----------------------------------------------------------------------------
(* The public operations, used between calls of loadClass. *)

Idle == stack = <<>> /\ fault = "none"

(* BOUND: a call starts only while the heap has room for the classes it    *)
(* may still have to define.                                               *)
HeapHasRoom(l) ==
  Cardinality({k \in Klass : klass[k].stage = "free"})
    >= Cardinality({n \in Name : cache[l][n] = Null})

CallLoadClass(l, n) ==
  /\ Idle /\ paths[l] # Null /\ HeapHasRoom(l)
  /\ this' = l
  /\ stack' = <<[name |-> n, klass |-> Null, at |-> "enter", linked |-> 0]>>
  /\ ret' = Null /\ thrown' = FALSE
  /\ UNCHANGED <<world, cache, heap, fault>>

(* The constructor, at an address no live loader has. *)
NewLoader(l, path) ==
  /\ Idle /\ paths[l] = Null
  /\ paths' = [paths EXCEPT ![l] = path]
  /\ cache' = [cache EXCEPT ![l] = EmptyCache]
  /\ UNCHANGED <<disk, heap, call, fault>>

(* The destructor: the loader's entries in the method area stay. *)
DestroyLoader(l) ==
  /\ Idle /\ paths[l] # Null
  /\ paths' = [paths EXCEPT ![l] = Null]
  /\ cache' = [cache EXCEPT ![l] = EmptyCache]
  /\ UNCHANGED <<disk, heap, call, fault>>

(* MethodArea::reset destroys every registered class. *)
Registered == {area[key] : key \in DOMAIN area} \ {Null}
FreeAll    == [k \in Klass |-> IF k \in Registered THEN Raw ELSE klass[k]]

Reset ==
  /\ Idle
  /\ area' = EmptyArea
  /\ klass' = FreeAll
  /\ UNCHANGED <<world, cache, call, fault>>

(* A client that uses the public operations in any order. *)
Next ==
  \/ loadClass
  \/ CacheDropped
  \/ \E l \in Addr, n \in Name : CallLoadClass(l, n)
  \/ \E l \in Addr, path \in Classpaths : NewLoader(l, path)
  \/ \E l \in Addr : DestroyLoader(l)
  \/ Reset

Spec == Init /\ [][Next]_vars

-----------------------------------------------------------------------------
(* Properties. *)

LiveLoaders == {l \in Addr : paths[l] # Null}

(* A class found in a loader's cache is fully prepared, was made by that   *)
(* loader, and is the object the method area owns under the loader's key:  *)
(* loadClass publishes nothing half-made, whatever failed before it.       *)
CacheSound ==
  \A l \in LiveLoaders, n \in Name :
    cache[l][n] # Null =>
      /\ klass[cache[l][n]].stage = "prepared"
      /\ klass[cache[l][n]].loader = l
      /\ area[<<l, n>>] = cache[l][n]

(* No Klass leaks: between calls every object is owned by exactly one      *)
(* method area entry, also after a load that threw half way.               *)
NoLeak ==
  Idle => \A k \in Klass : klass[k].stage # "free" =>
            Cardinality({key \in DOMAIN area : area[key] = k}) = 1

(* What can make a live loader's cache unsound, whatever the client does   *)
(* with its loaders.  One way is MethodArea::reset, which destroys classes *)
(* that caches still hold.  The other is a load that meets another class   *)
(* of its own loader's address under its own key, left by a load that      *)
(* failed in preparation or by a destroyed loader: emplace drops the new   *)
(* Klass (method_area.cpp:6), and loadClass caches its pointer all the     *)
(* same (class_loader.cpp:172).  A class of another key is never in the    *)
(* way, and no exception, new loader or destroyed one breaks a cache.      *)
MeetsOlderClass ==
  LET key == <<this, Top.name>>
  IN  /\ stack # <<>> /\ Top.at = "pool"
      /\ area[key] \notin {Null, Top.klass}
      /\ klass[area[key]].loader = this

CacheBrokenByResetOrReuse ==
  [][CacheSound /\ ~CacheSound' =>
       \/ area' = EmptyArea /\ stack' = <<>>
       \/ /\ MeetsOlderClass
          /\ \A l \in Addr, n \in Name : cache'[l][n] # cache[l][n] => l = this /\ n = Top.name]_vars
=============================================================================
