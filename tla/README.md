# Verification of demo-jvm

TLA+ models of the demo JVM, the TLC runs that check them on small instances,
and theorems about them checked by TLAPS. Paths such as
`class_loader/class_loader.cpp` are relative to `src/` of the repository.

## 1. Inventory of the system

The repository is a single-threaded JVM core: a class loader, the run-time
representation of classes, and a bytecode interpreter. `main.cpp` only prints a
greeting; the tests are the only clients. There is no heap of Java objects, no
garbage collector, no exception dispatch, no native method and no Java thread.
The difficulty is not concurrency: it is recursion with failures half way,
ownership through raw pointers, caches beside registries, an untyped operand
stack, and arithmetic at the ends of its ranges.

| component | state | operations | what makes it correct |
|---|---|---|---|
| `ClassLoader` (`class_loader/class_loader.{h,cpp}`) | `classpaths_`, `cache_` (`parent_` is never read) | `loadClass`, `readClassFile`, `defineClass`, `linkSuperClass`, `linkInterfaces` | a cached class is complete and registered; a name keeps its class; a failing load publishes nothing; loads end |
| `MethodArea` (`runtime/method_area.{h,cpp}`) | singleton map (loader address, name) to (Klass, ClassFile), owning both | `addClass`, `getClass`, `hasClass`, `reset` | every Klass has one owner; nobody holds a pointer to a destroyed one |
| `Klass` (`runtime/klass.{h,cpp}`) | pointers to superclass and interfaces, constant pool, methods, fields, statics | three preparation phases, `findMethod`, `findField` | prepared before it is used; links lead to prepared classes; constants at their indices, fields in slots of their own |
| `RuntimeConstantPool` (`runtime/constant_pool.{h,cpp}`) | per index: literal, symbolic reference, or resolved pointer | `resolveClass`, `resolveField`, `resolveMethod` | a reference resolves once, to the member of the class the loader gives |
| `Interpreter` (`engine/interpreter.cpp`) | a local `pc`, the thread | one `case` per opcode | follows the code's control flow, keeps slots typed, calls and returns match |
| `Thread`, `Stack`, `Frame`, `OperandStack`, `LocalVariables`, `Slot` (`runtime/*.h`) | frames of untyped 8-byte slots, a caller pc per frame | push, pop, typed reads and writes | two-slot values stay together; a slot is read as it was written |
| `BytecodeReader` (`engine/bytecode_reader.h`) | reference to the code and to `pc` | unsigned and signed reads, alignment | signedness and alignment |
| class-file parser (`class_loader/class_file_parser.cpp`), constant pool (`constant_pool.{h,cpp}`), members, attributes, byte reader (`class_loader/*`) | a cursor over the file, the ClassFile being built, the native stack of `parseAttributes` | `parse` and its parts | reads what the format says, takes two indices for wide constants, throws instead of reading past the end, comes to an end for any bytes |

How they interact: `loadClass` calls the parser, then `defineClass`, which calls
`loadClass` again for the superclass and the interfaces, then registers the
Klass with the method area (which takes ownership), then `loadClass` prepares
it through the raw pointer and caches that pointer. The interpreter reads a
method's code and the constant pool of its class; resolving an entry calls
`loadClass` of the class's loader and `findMethod` along the superclass
pointers, while it holds a reference into the pool. The embedder (the test harness) pushes a frame of its own and the
frame of a method, and calls `interpret`.

The hard behaviours, at their lines, are the list `hazards` of `PROJECT.json`.
The main ones: a load that throws after registration, and its retry; recursive
loads that fail at any depth, also in the middle of a resolution; files that end
or lie anywhere; the two loops over a pool with two-index constants; `reset` and address reuse under live pointers;
call and return in any nesting; two-slot values through stack shuffles, stores
and calls; reads of a slot through another union member; code that is not what
the compiler produced; division, shift, conversion and comparison edges.

## 2. Modules

### Class files

`ClassFileConstants` has the tags and their layouts. `ClassFileParser` is `parse()`
over a sequence of bytes: `data` and `pos` are the ByteReader, `at` is the part of
`parse` that runs, `i` the `U2` loop variable of `parseConstantPool`, `pool` and `file`
what has been read, and `tables` the member and attribute tables being filled: one
for each activation of `parseFields`, `parseMethods`, `parseAttributes` or of the loop over
bootstrap methods, the innermost last.

| action | code |
|---|---|
| `ParseHeader`, `BadMagic` | `parseMagic`, `parseVersion`, the count and the null entries of the pool |
| `CreateConstantInfo`, `UnknownTag` | one turn of `parseConstantPool` with `readInfo` of the constant |
| `ParseClassIndices` | access flags, the class indices, the number of interfaces |
| `ParseTable`, `EndClassTable` | the beginning and the end of fields, methods and the class's attributes |
| `CreateMemberInfo`, `EndNestedTable`, `MemberNameNotUtf8` | `FieldInfo::readInfo`, `MethodInfo::readInfo` up to and after `parseAttributes` |
| `CreateFlatAttribute`, `CreateCodeAttribute`, `CreateBootstrapMethods`, `ReadBootstrapMethod`, `NameNotUtf8` | `createAttributeInfo` and `readInfo` of the five kinds |
| `ReadInterface`, `ReturnClassFile` | the interfaces, which the code reads last, and the return |
| `ReadOutOfBounds` | `checkBounds` fails anywhere in an item |

An item that the code reads in several calls is one action: whether its reads
throw depends only on its size, which `ConstantSize` and `AttributeSize` compute as far
as the counts in it can be read. As in the code, a typed attribute is read by its own
counts and its declared length is ignored, and bytes after the class are accepted.

`KlassPreparation` continues with the constructor of Klass and one action per turn of
the loops of `prepareRuntimeConstantPool`, `prepareMethods`, `prepareFieldsAndStatics`: `infos`,
`methods`, `fields` and `slots` are `infos_`, `methods_`, `fields_` and the two counts. The code of a
method is moved out of the file, constants are stepped over by one or two, and a wide
constant at the last index writes past the vector (`WideConstantAtEnd`). `parseClass` and
`prepareClass` chain both as `loadClass` does; linking in between is in `ClassLoading`.

`ClassFileFormat` is the reference: the class file format of the JVM specification,
written as an encoder, independent of the parser. `EncodedClasses` feeds encoded classes,
their prefixes and other bytes to the parser and states what must come back. `IsClass` says
what a valid class is, as far as the parser and the preparation look at it: constants with the
indices and bytes of their tags, names that are Utf8 constants, the kind of an attribute the one
its name stands for, Code in members only and in each method that is neither native nor abstract.
`ClassesAssumption` asks it of `Classes`, and TLC evaluates it for the classes of each run.

### Class loading

`ClassLoading` has the loaders (`paths`, `cache`), the method area (`area`), the
Klass objects (`klass`) and the running call of `loadClass` as a stack of
activations (`this`, `stack`, `ret`, `thrown`). Each action is the code between
two points where shared state changes or a nested call starts:

| action | code |
|---|---|
| `CacheHit`, `ClassNotFound`, `ParseThrows` | the beginning of `loadClass` |
| `BeginDefine` | `make_unique<Klass>` in `defineClass` |
| `LinkNoSuper`, `SuperNameThrows`, `LoadSuper`, `SetSuperClass` | `linkSuperClass` before and after its nested call |
| `LoadInterface`, `InterfaceNameThrows`, `SetInterface` | one turn of the loop of `linkInterfaces` |
| `AddClass` | `MethodArea::addClass`: `emplace` inserts or, if the key is taken, drops and destroys its argument |
| `PrepareRuntimeConstantPool`, `PrepareMethods`, `PrepareFieldsAndStatics` | the three phases; the last with the cache update and the return |
| `PrepareDangling` | the first use of the pointer when `AddClass` destroyed its object |
| `CacheDropped` | the same as builds do it that survive the use: `loadClass` goes on and caches the pointer |
| `CallLoadClass`, `NewLoader`, `DestroyLoader`, `Reset` | the public operations |

A throw unwinds the whole stack (`Throw`): nothing in the loader catches, and
the unwinding destroys the Klass objects that `defineClass` activations still
own. A Klass and a loader are identified by their addresses, and an address is
free again when its object is destroyed. A class file is what the loader needs
of it: the superclass name, the interface entries (an index and a name, or `Null`
if the entry is no class), and the point at which its
loading throws (in the parser, at the superclass entry, in one of the phases, or
nowhere). `fault` records undefined behaviour; a behaviour stops there. The one
exception is `CacheDropped`: with clients in any order (`Next`) a load whose Klass `emplace`
destroyed may also go on through the freed memory to the cache update, because what that
leaves in the cache is what `CacheBrokenByResetOrReuse` is about. The fixture stops.

`LoaderFixture` composes `ClassLoading` with its clients: `SetUp` creates a
loader and resets the area, the body of a test creates more loaders and loads
classes, `TearDown` destroys the loaders and leaves the area alone.

`ClassTable` is the abstract specification: an append-only table of classes per
open loader, with superclasses defined first. `LoaderRefinement` states that the
fixture implements it: the table is `cache_`, and a class's superclass counts from
the moment it is cached; everything before the cache update is stuttering.

### Resolution

`RuntimeConstantPool` composes the fixture with the pools of its classes. `infos` is
`infos_` of each Klass: the loader's step that runs `prepareRuntimeConstantPool` fills it, and
it dies with its Klass (`PoolsFollow`). A resolution is a `request`, because `resolveMethod` and
`resolveField` call `resolveClass`, which calls `loadClass`, whose steps (with nested loads,
new classes and throws) run between the steps of the request:

| action | code |
|---|---|
| `CallResolve` | a test calls `resolveClass`, `resolveField` or `resolveMethod` of a class it has |
| `MemberResolved`, `NotAMember`, `ResolveMember` | the beginning of `resolveField` and `resolveMethod` |
| `ClassResolved`, `NotAClass`, `ClassNameThrows`, `LoadTarget` | `resolveClass` up to `loadClass` of the owner's loader |
| `LoadThrows`, `CacheClass`, `ReturnClass` | after it |
| `NameAndTypeThrows`, `CacheMember` | `resolveNameAndType`, `findMethod` or `findField`, and the cached result, null included |

A member is a pair of name and descriptor, a class name its dotted form; a member
pointer is the class that declares it. `bodies` is what each file declares. That every
`class_index` lies in the pool is assumed (`BodiesAssumption`): the code indexes `infos_`
unchecked. Entries a test writes by hand with `setConstant` are not modelled. The two
mechanisms that fill a pool are linked by what each proves or checks: `KlassPreparation`
that an entry is what the file says (`PoolAsWritten`), `RuntimeConstantPool` what becomes of it.

### Interpreter

`JvmValues` has slots and pure arithmetic, `Alu` the computing instructions as
tables over opcodes, `AluLaws` the laws of what they compute (those of jvms-8, and at the two
edges where the code departs from them what it does instead), `BytecodeReader` the reads, `Descriptors` the count of
argument slots, `Interpreter` the loop. `frames` is `Thread::stack_`, `tpc` is
`Thread::pc_`, `pc` is the variable of `interpret`, `status` how it ended. Every
opcode with an effect is in exactly one family of actions; the ones whose case is
empty (`NOP`, the array loads and stores, `JSR` and `RET`, what needs objects) are `Ignore`
and, as in the code, do not skip their operand bytes. Index 0 of the pool is an entry without
a value: `LDC` pushes nothing for it and resolving it throws.
Errors are actions of their own: `Underflow`, `LocalOutOfBounds`, `DivideByZero`,
`InvokeBadArguments`, `ResolutionThrows`, `SwitchBadLength`, `InvalidOpcode` throw,
with the pops the code has done by then; `DivideTrap`, `PoolOverrun`,
`CodeOverrun`, `UnsafeMember` are undefined behaviour and end the model. So does a table switch
whose number of entries overflows an int (`Overflow`).

A slot records the union member it was last written through. A read through
another member gives any of a set `Garbage` of values of that type. A float is
an integer code (`JvmValues`): exact halves up to a bound, one code for all larger
finite values, and infinity and NaN; what the codes cannot tell is a choice. The
two zeros are one code.

`VerifiedCode` adds what a compiler promises of a method: its stack map and its
result; the methods in `Compiled` carry such promises, any others run beside them.
`Verified`, `LocalsVerified` and `OperandsVerified` are what a verifier asks before such a
method runs, one instruction at a time: from each entry of the map every way on leads to an
entry, calls are of verified methods, every local has one kind, and each instruction is whole,
has a case, and finds values of its kinds, its constant and the locals it needs. The repository
has no verifier; they are the reference that section 4 proves the interpreter against, and `MCAnyCode`
has TLC evaluate them for every compiled method of `interp_code`.

## 3. Runs

| run | expects | shows |
|---|---|---|
| `class_files` | pass | parse gives back what the format encodes and accepts no prefix; preparation puts constants, methods and fields where they belong; corrupted files end in a class or an exception, with bounded recursion and without a null constant being asked for its tag |
| `parse_ifaces` | violation | a valid class with an interface is rejected or misread |
| `prepare_statics` | violation | no room in `statics_` for the static fields of a prepared class |
| `loader_one` | pass | soundness of the cache, of the links and of ownership through failures, retries and resets; stability of the cache; recursion no deeper than the names; resolution to the member that the file names, once, also after loads that threw |
| `loader_two` | pass | the refinement of `ClassTable`, with two loaders and ordered classpaths; each pool resolves in its own loader |
| `loader_ends` | pass | with files that do not fail: the method area shows only complete classes, and loads and resolutions end |
| `loader_free` | pass | clients in any order, with address reuse: only `reset`, or a load that meets an older class under its own key, can make a live loader's cache unsound |
| `loader_retry` | violation | the retry of a load that failed in preparation uses a destroyed Klass |
| `interp_code` | pass | compiled methods follow their stack maps, read locals and operands as written, return what their sources compute, end otherwise only in a division, and come back; arbitrary bytes keep slots typed and frames a chain of calls |
| `alu_laws` | pass | arithmetic, shifts, bitwise operations, comparisons and conversions against laws: those of jvms-8, and at the two edges where the code departs from them what it does |
| `interp_long_args` | violation | a `long` argument arrives with its placeholder in the parameter's first local |
| `interp_bipush` | violation | `BIPUSH -128` pushes 128 |

### Findings

* **Interfaces are read last** (`class_file_parser.cpp:18`). The format has the interface
  indices after `interfaces_count`; the parser reads fields, methods and attributes first
  and takes the indices for their counts. A class with an interface is rejected or misread.
* **No static storage** (`klass.h:59`). Static fields get slot numbers and
  `static_slot_count_` counts them, but `statics_` stays empty, so every access through
  `getStaticSlot` is outside the vector.
* **Retry after a failed preparation** (`class_loader.cpp:86`, `:167-169`). The
  class is registered before it is prepared. If a phase throws, the name stays
  registered and uncached; the next load of it creates a second Klass, `emplace`
  keeps the first, the second dies with the argument, and `loadClass` prepares
  the destroyed object.
* **Least quotient** (`interpreter.cpp:627` and the cases of `LDIV`, `IREM`, `LREM`): the C++
  division overflows for the least value and -1, and traps. jvms-8 defines the result. The
  passing run `alu_laws` shows it: `IntegerArithmetic` states the trap, for these operands only.
* **No saturation** (`interpreter.cpp:814`, in `F2I`, `F2L`, `D2I`, `D2L`): infinities become
  0, which two tests also expect, and other floats out of range what a `static_cast` gives;
  in jvms-8 they become the largest or the least integer. `NumericConversions` states what the
  code does (one code stands for all larger finite floats, some of which fit a long, so for
  these it allows the cast's value for either).
* **Wide arguments** (`interpreter.cpp:1300`): the stack holds placeholder, then
  value; the callee's locals are read value first.
* **Signed immediates** (`interpreter.cpp:156`, `:160`): read unsigned.

Smaller disagreements, seen while modelling and without a run: `linkInterfaces` passes
`setInterface` the constant pool index of an interface for its position
(`class_loader.cpp:124`), which writes outside a vector with one element for each interface
(`SetInterface`; the first finding hides it from most classes); a class that is not
found ends `loadClass` with an exception (`ClassNotFound`; a test expects it), where
`class_loader.cpp:137-138` promises `nullptr`; instance fields are numbered from 0 whatever
the superclass has; `findMethod` does not search superinterfaces, and no function
resolves an InterfaceMethodref entry.

### Bounds and why they are enough

* Class files: names are strings of at most three bytes, the four attribute names the
  parser tells apart one byte each (`ConstantValueName` and the others are constants). The
  classes have every kind of constant alone and every combination of three of the
  kinds that differ in their indices, tables of none, one and two elements, every
  attribute alone and beside another, and three fields of every storage and width.
  Every class of `PlainClasses` is also cut at every byte. `Corrupted` replaces each
  byte of four classes by each of eight values, counts, tags, lengths and indices among
  them, and has two more bytes at the end. `U2Range` is the range of the `U2` that counts
  constants: 20 in `class_files`, so that a pool of 19 entries with a long before its last
  makes the loop variable wrap, as 65535 entries do in the code; no count in the run
  reaches it otherwise. The violation runs have 65536.
* Loader: three names give a chain of a class, its superclass and that one's
  superclass, and a class reached from two sides; `MaxDepth` is the number of
  names, so `NoStackOverflow` says that nesting never exceeds it. `HeapHasRoom`
  keeps a call from starting when `Klass` has too few free addresses; four
  addresses for three names in `loader_one` let half-prepared classes stay behind and a
  retry allocate. Two loader addresses let one be used again while the area still holds
  entries of its former owner. Disks range over all acyclic assignments of files
  to names: cyclic superclasses recurse without end in the code (see the
  hazards), and class files in a cycle are not what a compiler emits.
  Klass addresses are symmetric in the runs without liveness, and so are
  loader addresses where the run gives them no roles.
* Resolution: pools have references where the disk has a class B that extends A; the
  other names are missing, are one of these files, or fail in their last phase. Classes
  and members are referred to by entries of each kind, by entries that lead to no
  name or no NameAndType, and by a member reference whose class entry is a member
  reference. Two members declared in none, one or both classes let a search end at
  the class, at its superclass and nowhere.
* Interpreter: ints have 18 and longs 20 bits, enough for the 16-bit immediates
  and offsets; in `alu_laws` the widths are 2, 3, 4 and 8 bits, so that the edges
  of every range and every shift count occur. Floats are exact up to 4 (2 in
  `alu_laws`). `Garbage` has five or six representatives. `MaxFrames` bounds recursion (12,
  above what the compiled methods need). Beside the compiled methods `interp_code`
  runs every sequence of 3 bytes over 27 opcodes and operands and of 5 bytes over 6
  for the calls, and a family of branches and switches with near targets; each of
  the failing actions needs no more.

### Fairness

Weak fairness is assumed of four things, each a native call on one thread that nothing
preempts or blocks, so that a step that can be taken is taken: the parse and
preparation of one file (`define`, for `DefinitionEnds`), the steps of a running `loadClass`
(`LoaderRuns`, for `LoadEnds`), those of a running resolution (`resolve`, for `ResolutionEnds`),
and those of `interpret` on a compiled method (`ComesBack`). None is assumed of clients.
`LoadEnds` and `ComesBack` are checked only over inputs for which the C++ recursion or loop
is finite by construction of the input (acyclic files, methods whose loops count
down); `DefinitionEnds` holds for all the bytes of its run.

Deadlock is not checked where a behaviour ends: when a file is prepared or rejected,
after undefined behaviour in the loader, and when `interpret` has returned or thrown.
`loader_ends` checks it.

## 4. Theorems

All proofs are hierarchical and checked by TLAPS for every value of the constants,
from the named assumptions of the modules.

**`ClassFiles_proofs`, the parser**: `RecursionIsPaid` (`Spec => []NestingIsPaid`) and `TypeCorrect`,
for any bytes. The invariant `Inv` adds that `tables` is a sequence of tables each of
which, but the last, still waits for an element (so that finishing a nested table
never counts below zero), that tables are open only where the parser has them, and
that the header's 10 bytes are behind the reader: a table of the class costs 2 bytes
and every table inside it at least 8. `CountedTyped`, `ConstantTyped` and `AttributeSizeTyped` say
what the reader's operators yield within the bounds; `NestTyped`, `ElementTyped` and
`PopTyped` what the steps do to the recursion. Assumptions: `InputsAssumption`, `U2RangeAssumption`.

**`ClassFiles_proofs`, the preparation**: `FieldsAreLaidOut` (`KlassSpec => []FieldLayout`) and
`KlassTypeCorrect` for any file; `LayoutGrows` is the step that adds a field. `LoopsAgree`
(`KlassSpec => []NoNullConstant`) is about the two loops over the constant pool: whatever
bytes the parser accepts, the second loop meets only entries that the first filled.
The parser's loop variable may wrap and pass over the pool again by other steps, so
the invariant `Walk` says of every moment: a constant that has been read is followed, one
or two entries on, by one that has been read, by the end of the pool, or by the entry
to be read next. When the loop ends there is no entry to be read next, and the walk
of the second loop, which starts at 1 and takes the same steps, stays on constants.
`Walk` needs that the position after an entry does not wrap, hence the hypothesis
`U2Range = MaxU2 + 1`, the width of the code. The rest of the module is about the encoder:
what the reads of the parser yield where an encoded constant, attribute or member stands in a file.

**`EncodedClasses_proofs`**: the parser inverts the encoder, and the Klass is the class.
`ParserInvertsEncoder` (`ClassSpec => []RoundTrip`), `OnlyWholeFilesAreParsed`
(`[]AcceptsWholeFilesOnly`), `ValidClassesPrepare` (`[]ValidClassPrepares`), `PreparedPool`
(`[]PoolAsWritten`) and `PreparedMethods` (`[]MethodsAsWritten`) hold of every set of valid
classes, with constants, members and attributes of any number and any content, cut off at any
byte. (The one bound is that the count of the pool fits its `U2`; `IsClass` asks of no other
number that it fits its bytes, so the classes include every one that has a file.) Their one
hypothesis is `NoInterfaces`: no class implements an interface. With one the theorems are false,
because the code reads the interfaces last (`parse_ifaces`).

* *Reading.* `Layout` writes a file as a header followed by the rest, which is the constants
  followed by the rest, and so on; `Remains(File, pos, r)` says that `r` is what the file
  has after `pos`, or would have if it had not been cut off. `Reading` says of every moment
  which section the parser is in (`InSection`), that the constants, the indices and the tables
  it has finished are those of the class (`FileSoFar`), and where `pos` stands. `CodeTaken` and
  `AtConstantOf` do the same for the two loops of the preparation.
* *Recursion.* Inside a table, `tables` is compared with a stack of levels (`Stacked`): each level
  names the elements the encoder was given, where they start and how many are done, and each but
  the last waits for an element whose attributes are the next level (`Links`). An action begins,
  continues or ends the last level, so that no case needs more than two of them, however
  deep the stack is.
* *Truncation.* `OnlyCutsThrow`: in `Reading`, no check on the contents fails, and a read goes out
  of bounds only where the file was cut off. A file that was cut off cannot be read to its end.
* *Preparation.* `Preparing` has the finished part of each vector: `InPool` and `InMethods` say how
  far the loop is, and that the loop variable of the pool is always the index of a
  constant. `FileInv` and `PrepInv` put both halves together; TLC checked `PrepInv` on the
  instance of `class_files` before it was proved.

Where a proof needs an induction over the constants or the elements of a table it takes the least
number at which the claim fails (`LeastNat`). Assumptions:
`ClassesAssumption`, `TruncatedAssumption`, `InputsAssumption`, `U2RangeAssumption` and the tags' own.

**`ClassLoading_proofs`**, for clients that do anything in any order: `ResetOrReuseBreaksCaches`
(`Spec => CacheBrokenByResetOrReuse`; the second way a cache breaks is the step `CacheDropped`,
and the proof shows that the key then held an older class of the same loader address) and `NothingLeaks` (`Spec => []NoLeak`). `Shape` says of every
activation which stage its Klass is in, where it is registered, and that no two
activations build the same object. `NoLeak` speaks of the moments between calls; the
invariant that carries it through a call is `Ownership`: the method area and the activations
that have not handed over their object (`Owned`) own every object that is not free,
each exactly once. The unwinding in `Throw` frees just what `Owned` names.

**`LoaderFixture_proofs`**, for the fixture's discipline. Each invariant rests on the one before it:

* `Base` = `Shape`, `Ownership`, `CacheSound` and `PhaseSound` (loaders live in the body of a
  test only). `CacheSound` alone is not inductive: the step that caches a class must know
  that the class at the top of the stack has passed its phases, belongs to the running
  loader and is what the area holds under the name. It gives `TypeCorrect`, `CacheIsSound`,
  `NoKlassLeaks`, `CachesOnlyGrow` and `LoadsReturnTheCached`. `Grows` is what every step of
  a load keeps of the caches, the area and the prepared classes; the later proofs use it
  in place of the actions.
* `Linking` adds `Chained` (each activation loads the name that the one below waits for, and
  a value that has been returned is cached under it), `RegisteredLinked` and `BuildingLinked`
  (the links made so far lead to cached classes, in the area and on the stack). It gives
  `LinksAreSound` and `LoaderImplementsTable`: the step that caches a class is `Define` of the
  abstract table, a new loader is `Open`, the end of a test `CloseAll`, and the rest stutters.
* `Nesting` adds a rank of the names that falls from each activation to the next, and gives
  `LoadsFitTheStack`; `Publication` adds that what is registered and not cached is on the
  stack, and gives `DefinedClassesAreRegistered` and `RegisteredClassesAreCached`.

The last three have a hypothesis on the input. `Layered(dk)`: no class is its own ancestor, and
lines of ancestors are shorter than the native stack. The code rejects no cyclic class, so
without it the recursion overflows; TLC evaluates it for the disks of the runs `loader_one`,
`loader_two` and `loader_ends`.
`FailsEarly(f)`: no file fails in a preparation phase; with one that does, `loader_retry` refutes the
property. All the others hold for files that fail anywhere, cyclic ones included. Other
assumptions: `NullAssumption` and the typing of `Files`, `Disks` and `Classpaths`.

**`RuntimeConstantPool_proofs`**: `PoolTypeCorrect`, `EntriesAreClassesAsNamed`,
`EntriesAreMembersAsDeclared`, `ReferencesHold`, `EntriesStayResolved` and `ResolutionsEndAsCached`: every
property of resolution that a run checks, apart from liveness. A resolution uses the loader
as a test does (`ResolutionKeepsFixture`: `ResolutionSpec => FixtureSpec`), so that the
fixture's theorems hold here too. The invariant is `Resolving`: `Linking`; `Hierarchy`
(superclasses are prepared and go round in no circle, also over files that do, because
a class is linked before it is cached); `PoolShape` (a pool has its file's length and dies
with its Klass); `EntriesSound` (an entry is as the file wrote it, or what that resolves to);
and `RequestSound` (a running request is of a cached class of a live loader, and awaits a load of
the name its class entry has). The last is why the reference held across `loadClass` stays valid: a
load frees only objects that are not cached. TLC checked `Resolving` on the instance of
`loader_one` before it was proved. `MembersAsDeclared` speaks of the nearest declaration by
`Lineage`, the least set closed under superclasses, and not by a recursive search;
that `findMethod` finds it is part of the proof.

**`Alu_proofs`**: `AluResultTyped`, the result of every computing instruction is
in the range of the kind it pushes, for any operands of the kinds it pops.
Wrapping, truncated division, the float codes and the conversions have a lemma
each. Its second half proves the laws of `AluLaws` of these results: wrapping changes a
number by a multiple of 2^n (`WrapCongruent`) and not at all if it fits (`WrapExact`), and a
quotient fits but for the one that traps (`QuotientFits`). The results of the shifts are
given bit by bit, as in the code; that these bits are those of a multiple or a quotient and of no
other number is `SameDigits`: two numbers that lose their last bits one by one, alike, down to
the same rest, are equal. Each kind of shift compares the result's digits with its own
(`ShiftedLeft`, `ShiftedRight`, `ShiftedUnsigned`). Assumptions: `WidthsAssumption`, and
`PowersAssumption`, which states that powers of two are positive and ordered as their exponents,
with `PlacesAssumption`, which says of the places of a number's bits that each has twice the
value of the one before (exponentiation is unknown to the provers; TLC evaluates both for the
widths of each run).

**`Interpreter_proofs`**: `SlotsTyped` (`Spec => []TypeOK`) and `FramesAreACallChain`
(`Spec => []CallChain`), over any code, valid or not, and any `Garbage`. The inductive
invariant is their conjunction `Inv`. The lemmas `SetTopKeeps`, `LeaveKeeps` and
`EnterKeeps` say what an instruction that changes the top frame, returns or
calls does to the invariant; one lemma per group of actions reduces to them.
`IntegersAreTrue`, `ShiftsAreTrue`, `ComparisonsAreTrue` and `ConversionsAreTrue` are the action
properties of `alu_laws`, for every width and whatever code runs. `IntegerArithmetic` covers every
operand: it says where a division throws and where it traps. `ComputeMeans` finds the
operands of an instruction at their places on the stack and its result on top, and `Alu_proofs`
says what the result is.
Assumption besides those above: `ProgAssumption`, which contains that the number of
argument slots of every descriptor is a natural number.

**`VerifiedCode_proofs`**: verification is enough. `VerifiedCodeFollowsItsMap`
(`VSpec => []FollowsStackMap`) is for any methods and any stack maps with `Verified`,
`VerifiedCodeReturns` (`VSpec => []ReturnsAsDeclared`) for those with `LocalsVerified` and
`OperandsVerified` too, and `VerifiedCodeReadsAsWritten` (`VSpec => []ReadsAsWritten`) for these
called with arguments of the kinds they use. They say that no compiled method, whichever it is,
can make this interpreter start an instruction at a wrong byte, find other kinds on the
operand stack than the verifier saw, read a local or an operand through another union member,
throw an exception, read outside its code, pool, stack or locals, or return to the embedder
with anything on its frame but the result; the one exception is an integer division. The
invariant `Mapped` says of all frames that they are on the map, of a suspended one with the
result it is waiting for, and of the embedder's frame that it waits for the first method and
then has its result; `KeepsKinds` says of each local what `ReadsAsWritten` says of the one being
read. One lemma per family of instructions compares what the interpreter does with `FlowsOn`;
`NothingIsMissing` derives from `FindsOperands` that every guard of the failing actions is false.
`LocalsVerified` asks for the kinds that the interpreter's argument loop gives a callee, and
so excludes a method with a wide parameter that is called with one from compiled
code: there the placeholder arrives first, which is the finding of `interp_long_args`.

### Model-checked only

* Liveness: `LoadEnds`, `ResolutionEnds`, `DefinitionEnds`, `ComesBack`.
* `ReturnsWhatSourceComputes`: what the source computes is recursive or a loop's closed form.
  That a result of the method's kind arrives is proved (`VerifiedCodeReturns`).
* What the recursive function `calculateArgSlotCount` computes: an assumption that TLC
  evaluates for each program.

Liveness is outside what the installed provers do, and so is a theorem on what a recursive
function computes, because the library's theorems on recursion have operators as parameters.
An induction over numbers is done by way of the least counterexample (`LeastNat`).

## 5. Not modelled, and the plan

Not modelled: `main.cpp`; names as characters beyond equality; the wording of
exceptions, so that kinds of exceptions are not told apart; `infos_[index]` with an index
outside the pool, and pools written by hand; the lifetime of the string that `LDC` pushes
(`interpreter.cpp:179`: the reference is an opaque value that nothing follows); a
big-endian host; a heap of objects, exception dispatch, threads and native code, which
the repository does not have.

Plan, in order:

1. Resolution under `Interpreter` as state, where it is now the outcome given with the
   program.
