--------------------------- MODULE LoaderFixture ---------------------------
(***************************************************************************)
(* Class loading as the repository uses it: the test fixtures create a     *)
(* loader and reset the method area before anything is loaded (SetUp), the *)
(* body of a test may create more loaders and loads classes, and every     *)
(* loader is destroyed at its end (TearDown), which leaves the method area *)
(* alone.  An address freed in one test is used again in a later one.      *)
(***************************************************************************)
EXTENDS ClassLoading

VARIABLE phase   \* between tests ("idle") or in the body of one ("test")

fixtureVars == <<vars, phase>>

FixtureInit == Init /\ phase = "idle"

(* make_unique<ClassLoader>, then MethodArea::reset. *)
SetUp(l, path) ==
  /\ phase = "idle" /\ Idle
  /\ phase' = "test"
  /\ paths' = [paths EXCEPT ![l] = path]
  /\ cache' = [cache EXCEPT ![l] = EmptyCache]
  /\ area' = EmptyArea
  /\ klass' = FreeAll
  /\ UNCHANGED <<disk, call, fault>>

BodyNewLoader(l, path) == phase = "test" /\ NewLoader(l, path) /\ UNCHANGED phase
BodyLoadClass(l, n)    == phase = "test" /\ CallLoadClass(l, n) /\ UNCHANGED phase

(* The loaders of the fixture and of the body go out of scope. *)
TearDown ==
  /\ phase = "test" /\ Idle
  /\ phase' = "idle"
  /\ paths' = [l \in Addr |-> Null]
  /\ cache' = [l \in Addr |-> EmptyCache]
  /\ UNCHANGED <<disk, heap, call, fault>>

Running_loadClass == loadClass /\ UNCHANGED phase

FixtureNext ==
  \/ Running_loadClass
  \/ \E l \in Addr, path \in Classpaths : SetUp(l, path)
  \/ \E l \in Addr, path \in Classpaths : BodyNewLoader(l, path)
  \/ \E l \in Addr, n \in Name : BodyLoadClass(l, n)
  \/ TearDown

FixtureSpec == FixtureInit /\ [][FixtureNext]_fixtureVars

-----------------------------------------------------------------------------
(* Properties. *)

(* The names a file makes its loader load. *)
Needs(f) == ({f.super} \cup {f.ifaces[i].name : i \in DOMAIN f.ifaces}) \ {Null}

(* No class is its own ancestor, and none has more lines of ancestors than *)
(* fit the native stack: each file needs only names of a lower rank.       *)
Layered(dk) ==
  \E rank \in [Name -> 0 .. MaxDepth - 1] :
    \A d \in Dir, n \in Name : dk[d][n] # Null => \A p \in Needs(dk[d][n]) : rank[p] < rank[n]

(* The file is refused, if at all, before its class is registered. *)
FailsEarly(f) == f.fails \notin {"pool", "methods", "fields"}

(* The pointers of every class that got as far as the method area are      *)
(* those its file asks for, so findMethod and findField may walk them: the *)
(* superclass pointer is what the loader caches under the superclass's     *)
(* name, null when the file has none, and the interface pointers (the      *)
(* elements of interfaces_ that linkInterfaces has set) are what it caches *)
(* under the names of the interfaces, none of them missing and no other.   *)
LinksSound ==
  \A key \in DOMAIN area : phase = "test" /\ area[key] # Null =>
    LET k     == area[key]
        file  == klass[k].file
        table == cache[key[1]]
    IN  /\ \A n \in Needs(file) : table[n] # Null
        /\ klass[k].super = IF file.super = Null THEN Null ELSE table[file.super]
        /\ klass[k].ifaces = {table[file.ifaces[i].name] : i \in DOMAIN file.ifaces}

(* A recursive load of acyclic class files nests no deeper than there are  *)
(* names to load, so a native stack that holds that many is enough.        *)
NoStackOverflow == fault # "stack_overflow"

(* The pointer defineClass returns is the registered object under the      *)
(* loader's key ("A pointer to the newly created and registered Klass      *)
(* object", class_loader.cpp:69).                                          *)
DefinedIsRegistered ==
  stack # <<>> /\ Top.at = "pool" => area[<<this, Top.name>>] = Top.klass

(* A class the method area hands out between calls is one loadClass        *)
(* returned: getClass shows no half-prepared class.                        *)
RegisteredIsCached ==
  Idle /\ phase = "test" =>
    \A key \in DOMAIN area : area[key] # Null => cache[key[1]][key[2]] = area[key]

(* While a loader lives its cache only grows: a name never changes or      *)
(* loses its class ("subsequent calls with the same name return the cached *)
(* Klass object", class_loader.cpp:140).                                   *)
CacheStable ==
  [][\A l \in Addr, n \in Name :
       paths[l] # Null /\ paths'[l] # Null /\ cache[l][n] # Null
         => cache'[l][n] = cache[l][n]]_fixtureVars

(* A load that returns gives the caller what the cache now holds for the   *)
(* name it asked for.                                                      *)
ReturnsCached ==
  [][\A n \in Name :
       Len(stack) = 1 /\ stack[1].name = n /\ stack' = <<>> /\ ~thrown'
         => ret' # Null /\ ret' = cache'[this][n]]_fixtureVars

(* Every call of loadClass over acyclic files returns or throws. *)
LoadEnds == stack # <<>> ~> stack = <<>>
=============================================================================
