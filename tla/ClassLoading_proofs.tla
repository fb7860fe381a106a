------------------------ MODULE ClassLoading_proofs ------------------------
(***************************************************************************)
(* Proofs about ClassLoading, for clients that use the public operations   *)
(* in any order.  What a call of loadClass does to the shared state is     *)
(* right because of what each of its activations knows about the Klass it  *)
(* works on (Shape) and about who owns it (Ownership).                     *)
(***************************************************************************)
EXTENDS ClassLoading, SequenceTheorems, FiniteSetTheorems, TLAPS

(* A Klass that exists has a class file. *)
KlassHasFile == \A k \in Klass : klass[k].stage # "free" => klass[k].file \in Files

(* The Klass of an activation belongs to the running loader and, once it   *)
(* has been registered, is the method area's entry for the name asked for: *)
(* it is destroyed only where that entry is there already.                 *)
Mine(a)     == klass[a.klass].loader = this
InArea(a)   == area[<<this, a.name>>] = a.klass
ActivationSound(a) ==
  /\ a.at = "enter" => a.klass = Null
  /\ a.at # "enter" => a.klass \in Klass
  /\ a.at \in {"super", "ifaces"} => klass[a.klass].stage = "linking" /\ Mine(a)
  /\ a.at = "pool" =>
       \/ klass[a.klass].stage = "free" /\ area[<<this, a.name>>] # Null
       \/ klass[a.klass].stage = "linking" /\ Mine(a) /\ InArea(a)
  /\ a.at = "methods" => klass[a.klass].stage = "pool" /\ Mine(a) /\ InArea(a)
  /\ a.at = "fields" => klass[a.klass].stage = "methods" /\ Mine(a) /\ InArea(a)

(* Only the innermost activation is past its nested calls, and no two work *)
(* on the same Klass.                                                      *)
StackSound ==
  /\ \A i \in DOMAIN stack : ActivationSound(stack[i])
  /\ \A i \in DOMAIN stack : i < Len(stack) => stack[i].at \in {"super", "ifaces"}
  /\ \A i, j \in DOMAIN stack : i # j => stack[i].klass # stack[j].klass

(* A call runs on a live loader. *)
RunsOnLiveLoader == stack # <<>> => this \in Addr /\ paths[this] # Null

Shape == TypeOK /\ KlassHasFile /\ StackSound /\ RunsOnLiveLoader

-----------------------------------------------------------------------------
(* The shapes the activation stack takes. *)

(* The innermost activation is an element of the stack. *)
LEMMA TopInStack ==
  ASSUME TypeOK, stack # <<>>
  PROVE  /\ Len(stack) \in Nat \ {0}
         /\ DOMAIN stack = 1 .. Len(stack)
         /\ Len(stack) \in DOMAIN stack
         /\ Top \in Activation
<1>1. stack \in Seq(Activation)
  BY DEF TypeOK
<1>2. Len(stack) \in Nat /\ Len(stack) # 0 /\ DOMAIN stack = 1 .. Len(stack)
  BY <1>1, EmptySeq, LenProperties
<1>3. Len(stack) \in 1 .. Len(stack)
  BY <1>2
<1> QED  BY <1>1, <1>2, <1>3, ElementOfSeq DEF Top

(* Replacing the innermost activation changes nothing else. *)
LEMMA SetTopFacts ==
  ASSUME TypeOK, stack # <<>>, NEW a \in Activation
  PROVE  /\ SetTop(a) \in Seq(Activation)
         /\ Len(SetTop(a)) = Len(stack)
         /\ DOMAIN SetTop(a) = DOMAIN stack
         /\ SetTop(a)[Len(stack)] = a
         /\ \A i \in DOMAIN stack : i # Len(stack) => SetTop(a)[i] = stack[i]
<1>1. stack \in Seq(Activation) /\ Len(stack) \in DOMAIN stack
  BY TopInStack DEF TypeOK
<1>2. SetTop(a) \in Seq(Activation) /\ Len(SetTop(a)) = Len(stack)
  BY <1>1, ExceptSeq, LenProperties DEF SetTop
<1> QED  BY <1>1, <1>2 DEF SetTop

(* Returning keeps the outer activations. *)
LEMMA PopFacts ==
  ASSUME TypeOK, stack # <<>>
  PROVE  /\ Pop \in Seq(Activation)
         /\ Len(Pop) = Len(stack) - 1
         /\ DOMAIN Pop = 1 .. Len(stack) - 1
         /\ \A i \in DOMAIN Pop : i \in DOMAIN stack /\ i < Len(stack) /\ Pop[i] = stack[i]
<1>1. stack \in Seq(Activation) /\ Len(stack) \in Nat \ {0} /\ DOMAIN stack = 1 .. Len(stack)
  BY TopInStack DEF TypeOK
<1>2. \A i \in 1 .. Len(stack) - 1 : stack[i] \in Activation
  BY <1>1, ElementOfSeq
<1>3. /\ Pop \in Seq(Activation)
      /\ Len(Pop) = Len(stack) - 1
      /\ \A i \in 1 .. Len(stack) - 1 : Pop[i] = stack[i]
  BY <1>1, <1>2, SubSeqProperties DEF Pop
<1>4. DOMAIN Pop = 1 .. Len(stack) - 1
  BY <1>3, LenProperties
<1> QED  BY <1>1, <1>3, <1>4

(* A nested call adds an activation at the entry of loadClass. *)
Entry(n) == [name |-> n, klass |-> Null, at |-> "enter", linked |-> 0]

LEMMA PushFacts ==
  ASSUME TypeOK, NEW n \in Name
  PROVE  /\ Append(stack, Entry(n)) \in Seq(Activation)
         /\ Len(Append(stack, Entry(n))) = Len(stack) + 1
         /\ DOMAIN Append(stack, Entry(n)) = 1 .. Len(stack) + 1
         /\ Append(stack, Entry(n))[Len(stack) + 1] = Entry(n)
         /\ \A i \in DOMAIN stack : i \in 1 .. Len(stack) /\ Append(stack, Entry(n))[i] = stack[i]
<1>1. Entry(n) \in Activation
  BY DEF Entry, Activation, Position
<1>2. stack \in Seq(Activation) /\ DOMAIN stack = 1 .. Len(stack) /\ Len(stack) \in Nat
  BY LenProperties DEF TypeOK
<1> QED  BY <1>1, <1>2, AppendProperties, LenProperties

(* The file of a Klass is a class file of the universe. *)
LEMMA FileOfTop ==
  ASSUME TypeOK, KlassHasFile, StackSound, stack # <<>>, Top.at \in {"super", "ifaces"}
  PROVE  /\ Top.klass \in Klass
         /\ klass[Top.klass] \in KlassObject
         /\ klass[Top.klass].stage = "linking"
         /\ Mine(Top)
         /\ TopFile \in ClassFile
<1>1. Len(stack) \in DOMAIN stack /\ Top \in Activation
  BY TopInStack
<1>2. Top.klass \in Klass /\ klass[Top.klass].stage = "linking" /\ Mine(Top)
  BY <1>1 DEF StackSound, ActivationSound, Top
<1>3. klass[Top.klass] \in KlassObject
  BY <1>2 DEF TypeOK
<1>4. TopFile \in Files
  BY <1>2 DEF KlassHasFile, TopFile
<1> QED  BY <1>2, <1>3, <1>4, FilesAssumption

-----------------------------------------------------------------------------
(* The initial states. *)

LEMMA InitShape == Init => Shape /\ CacheSound
<1> SUFFICES ASSUME Init PROVE Shape /\ CacheSound
  OBVIOUS
<1> USE DEF Init
<1>1. TypeOK
  <2>1. Raw \in KlassObject
    BY DEF KlassObject, Raw, Stage
  <2>2. klass \in [Klass -> KlassObject]
    BY <2>1
  <2>3. EmptyCache \in [Name -> Klass \cup {Null}] /\ area \in [Addr \X Name -> Klass \cup {Null}]
    BY DEF EmptyCache, EmptyArea
  <2>4. cache \in [Addr -> [Name -> Klass \cup {Null}]]
    BY <2>3
  <2>5. stack \in Seq(Activation)
    BY EmptySeq
  <2> QED  BY <2>2, <2>3, <2>4, <2>5 DEF TypeOK, Fault
<1>2. KlassHasFile
  BY DEF KlassHasFile, Raw
<1>3. StackSound
  BY DEF StackSound
<1>4. RunsOnLiveLoader
  BY DEF RunsOnLiveLoader
<1>5. CacheSound
  BY DEF CacheSound, LiveLoaders
<1> QED  BY <1>1, <1>2, <1>3, <1>4, <1>5 DEF Shape

-----------------------------------------------------------------------------
(* Steps shared by several actions. *)

(* An exception destroys only Klass objects still being linked, so none    *)
(* that a cache refers to.                                                 *)
LEMMA ThrowStep ==
  ASSUME Shape, Throw, UNCHANGED world
  PROVE  Shape' /\ (CacheSound => CacheSound')
<1> USE DEF Shape, Throw, world
<1>1. TypeOK'
  <2>1. klass' \in [Klass -> KlassObject]
    BY DEF TypeOK, KlassObject, Raw, Stage
  <2>2. stack' \in Seq(Activation)
    OBVIOUS
  <2> QED  BY <2>1, <2>2 DEF TypeOK
<1>2. KlassHasFile'
  BY DEF KlassHasFile, Raw, TypeOK
<1>3. StackSound'
  BY DEF StackSound
<1>4. RunsOnLiveLoader'
  BY DEF RunsOnLiveLoader
<1>5. CacheSound => CacheSound'
  <2> SUFFICES ASSUME CacheSound, NEW l \in LiveLoaders, NEW n \in Name, cache[l][n] # Null
               PROVE  /\ klass'[cache[l][n]].stage = "prepared"
                      /\ klass'[cache[l][n]].loader = l
                      /\ area[<<l, n>>] = cache[l][n]
    BY DEF CacheSound, LiveLoaders
  <2>1. /\ klass[cache[l][n]].stage = "prepared"
        /\ klass[cache[l][n]].loader = l
        /\ area[<<l, n>>] = cache[l][n]
    BY DEF CacheSound
  <2>2. cache[l][n] \in Klass
    BY DEF TypeOK, LiveLoaders
  <2>3. \A k \in Owned : klass[k].stage = "linking"
    BY DEF Owned, StackSound, ActivationSound
  <2>4. cache[l][n] \notin Owned
    BY <2>1, <2>3
  <2> QED  BY <2>1, <2>2, <2>4
<1> QED  BY <1>1, <1>2, <1>3, <1>4, <1>5

(* A nested call, or the overflow of the native stack. *)
LEMMA RecurseStep ==
  ASSUME Shape, stack # <<>>, Top.at \in {"super", "ifaces"},
         NEW n \in Name, Recurse(n), UNCHANGED world
  PROVE  Shape' /\ (CacheSound => CacheSound')
<1> USE DEF Shape, Recurse, world, heap
<1>0. CASE ~ Len(stack) < MaxDepth
  <2> USE <1>0
  <2>1. TypeOK'
    BY DEF TypeOK, Fault
  <2>2. StackSound'
    BY DEF StackSound, ActivationSound, Mine, InArea
  <2> QED  BY <2>1, <2>2 DEF KlassHasFile, RunsOnLiveLoader, CacheSound, LiveLoaders
<1>1. CASE Len(stack) < MaxDepth
  <2> USE <1>1
  <2>0. stack' = Append(stack, Entry(n))
    BY DEF Entry
  <2>1. TypeOK'
    BY <2>0, PushFacts DEF TypeOK
  <2>2. /\ Len(stack') = Len(stack) + 1
        /\ DOMAIN stack' = 1 .. Len(stack) + 1
        /\ DOMAIN stack = 1 .. Len(stack)
        /\ Len(stack) \in Nat \ {0}
        /\ stack'[Len(stack) + 1] = Entry(n)
        /\ \A i \in 1 .. Len(stack) : stack'[i] = stack[i]
    BY <2>0, PushFacts, TopInStack
  <2>3. \A i \in 1 .. Len(stack) : stack[i].at \in {"super", "ifaces"}
    BY <2>2 DEF StackSound, Top
  <2>4. (\A i \in DOMAIN stack : ActivationSound(stack[i]))'
    <3> SUFFICES ASSUME NEW i \in DOMAIN stack' PROVE ActivationSound(stack[i])'
      OBVIOUS
    <3>1. CASE i = Len(stack) + 1
      BY <3>1, <2>2 DEF ActivationSound, Entry
    <3>2. CASE i \in 1 .. Len(stack)
      BY <3>2, <2>2, <2>3 DEF StackSound, ActivationSound, Mine
    <3> QED  BY <3>1, <3>2, <2>2
  <2>5. \A i \in DOMAIN stack' : i < Len(stack') => stack'[i].at \in {"super", "ifaces"}
    BY <2>2, <2>3
  <2>6. \A i, j \in DOMAIN stack' : i # j => stack'[i].klass # stack'[j].klass
    <3>1. \A i \in 1 .. Len(stack) : stack[i].klass # Null
      BY <2>2, <2>3, NullAssumption DEF StackSound, ActivationSound
    <3>2. Entry(n).klass = Null
      BY DEF Entry
    <3>3. \A i, j \in 1 .. Len(stack) : i # j => stack[i].klass # stack[j].klass
      BY <2>2 DEF StackSound
    <3> QED  BY <3>1, <3>2, <3>3, <2>2
  <2>7. StackSound'
    BY <2>4, <2>5, <2>6 DEF StackSound
  <2>8. RunsOnLiveLoader'
    BY DEF RunsOnLiveLoader
  <2> QED  BY <2>1, <2>7, <2>8 DEF KlassHasFile, CacheSound, LiveLoaders
<1> QED  BY <1>0, <1>1

(* The innermost activation returns: the others were all linking. *)
LEMMA PopStack ==
  ASSUME Shape, stack # <<>>, stack' = Pop,
         UNCHANGED <<area, this>>,
         \A k \in Klass : k # Top.klass => klass'[k] = klass[k]
  PROVE  StackSound' /\ stack' \in Seq(Activation)
<1> USE DEF Shape
<1>1. /\ Len(stack') = Len(stack) - 1
      /\ \A i \in DOMAIN stack' : i \in DOMAIN stack /\ i < Len(stack) /\ stack'[i] = stack[i]
      /\ stack' \in Seq(Activation)
      /\ Len(stack) \in DOMAIN stack
  BY PopFacts, TopInStack
<1>2. \A i \in DOMAIN stack' : stack[i].at \in {"super", "ifaces"} /\ stack[i].klass # Top.klass
  BY <1>1 DEF StackSound, Top
<1>3. (\A i \in DOMAIN stack : ActivationSound(stack[i]))'
  BY <1>1, <1>2 DEF StackSound, ActivationSound, Mine, InArea
<1> QED  BY <1>1, <1>2, <1>3 DEF StackSound

(* The innermost activation moves on to a, which is sound and works on a   *)
(* Klass that no other activation has.                                     *)
LEMMA AdvanceStack ==
  ASSUME Shape, stack # <<>>, NEW a \in Activation, stack' = SetTop(a),
         UNCHANGED this,
         ActivationSound(a)',
         \A i \in DOMAIN stack : i < Len(stack) =>
            /\ stack[i].klass # a.klass
            /\ klass'[stack[i].klass] = klass[stack[i].klass]
  PROVE  StackSound' /\ stack' \in Seq(Activation) /\ stack' # <<>>
<1> USE DEF Shape
<1>1. /\ Len(stack') = Len(stack)
      /\ DOMAIN stack' = DOMAIN stack
      /\ stack'[Len(stack)] = a
      /\ stack' \in Seq(Activation)
      /\ Len(stack) \in DOMAIN stack
      /\ \A i \in DOMAIN stack : i # Len(stack) => i < Len(stack) /\ stack'[i] = stack[i]
  BY SetTopFacts, TopInStack
<1>2. (\A i \in DOMAIN stack : ActivationSound(stack[i]))'
  <2> SUFFICES ASSUME NEW i \in DOMAIN stack, i < Len(stack) PROVE ActivationSound(stack[i])'
    BY <1>1
  <2>1. stack'[i] = stack[i] /\ stack[i].at \in {"super", "ifaces"} /\ ActivationSound(stack[i])
    BY <1>1 DEF StackSound
  <2> QED  BY <2>1 DEF ActivationSound, Mine
<1>3. \A i \in DOMAIN stack' : i < Len(stack') => stack'[i].at \in {"super", "ifaces"}
  BY <1>1 DEF StackSound
<1>4. \A i, j \in DOMAIN stack' : i # j => stack'[i].klass # stack'[j].klass
  BY <1>1 DEF StackSound
<1> QED  BY <1>1, <1>2, <1>3, <1>4 DEF StackSound

-----------------------------------------------------------------------------
(* The actions of loadClass.  Each keeps the type invariant, the three     *)
(* structural parts and CacheSound.                                        *)

(* What an activation past the definition of its class knows. *)
LEMMA TopSound ==
  ASSUME Shape, stack # <<>>
  PROVE  /\ Top \in Activation
         /\ ActivationSound(Top)
         /\ Len(stack) \in DOMAIN stack
         /\ \A i \in DOMAIN stack : i < Len(stack) =>
              /\ stack[i].klass # Top.klass
              /\ stack[i].klass \in Klass
              /\ klass[stack[i].klass].stage = "linking"
<1>1. Top \in Activation /\ Len(stack) \in DOMAIN stack
  BY TopInStack DEF Shape
<1>2. ActivationSound(Top)
  BY <1>1 DEF Shape, StackSound, Top
<1>3. \A i \in DOMAIN stack : i < Len(stack) =>
         ActivationSound(stack[i]) /\ stack[i].at \in {"super", "ifaces"} /\ stack[i].klass # Top.klass
  BY <1>1 DEF Shape, StackSound, Top
<1>4. \A i \in DOMAIN stack : i < Len(stack) =>
         stack[i].klass \in Klass /\ klass[stack[i].klass].stage = "linking"
  BY <1>3 DEF ActivationSound
<1> QED  BY <1>1, <1>2, <1>3, <1>4

LEMMA CacheHitStep ==
  ASSUME Shape, CacheHit
  PROVE  Shape' /\ (CacheSound => CacheSound')
<1> USE DEF Shape, CacheHit, Running, world, heap
<1>1. StackSound' /\ stack' \in Seq(Activation)
  BY PopStack
<1>2. this \in Addr /\ Top.name \in Name
  BY TopInStack DEF RunsOnLiveLoader, Activation
<1>3. ret' \in Klass \cup {Null}
  BY <1>2 DEF TypeOK
<1>4. TypeOK'
  BY <1>1, <1>3 DEF TypeOK
<1>5. RunsOnLiveLoader'
  BY DEF RunsOnLiveLoader
<1> QED  BY <1>1, <1>4, <1>5 DEF KlassHasFile, CacheSound, LiveLoaders

LEMMA BeginDefineStep ==
  ASSUME Shape, BeginDefine
  PROVE  Shape' /\ (CacheSound => CacheSound')
<1> USE DEF Shape, BeginDefine, Running, world
<1>1. PICK f \in Files, k \in Klass :
        /\ klass[k].stage = "free"
        /\ klass' = [klass EXCEPT ![k] = [stage |-> "linking", loader |-> this, file |-> f,
                                          super |-> Null, ifaces |-> {}]]
        /\ stack' = SetTop([Top EXCEPT !.klass = k, !.at = "super"])
  BY DEF readClassFile
<1>2. PICK a \in Activation : a = [Top EXCEPT !.klass = k, !.at = "super"]
  BY TopSound DEF Activation, Position
<1>3. a.at = "super" /\ a.klass = k
  BY <1>2, TopSound DEF Activation
<1>4. this \in Addr
  BY DEF RunsOnLiveLoader
<1>5. klass' \in [Klass -> KlassObject]
  BY <1>1, <1>4 DEF TypeOK, KlassObject, Stage
<1>6. klass'[k].stage = "linking" /\ klass'[k].loader = this /\ klass'[k].file = f
  BY <1>1 DEF TypeOK
<1>7. \A j \in Klass : j # k => klass'[j] = klass[j]
  BY <1>1 DEF TypeOK
<1>8. ActivationSound(a)'
  BY <1>3, <1>6 DEF ActivationSound, Mine
<1>9. StackSound' /\ stack' \in Seq(Activation) /\ stack' # <<>>
  <2>1. \A i \in DOMAIN stack : i < Len(stack) =>
          /\ stack[i].klass # a.klass
          /\ klass'[stack[i].klass] = klass[stack[i].klass]
    BY <1>1, <1>3, <1>7, TopSound
  <2> QED  BY <1>1, <1>2, <1>8, <2>1, AdvanceStack
<1>10. TypeOK'
  BY <1>5, <1>9 DEF TypeOK
<1>11. KlassHasFile'
  BY <1>6, <1>7 DEF KlassHasFile
<1>12. RunsOnLiveLoader'
  BY DEF RunsOnLiveLoader
<1>13. CacheSound => CacheSound'
  BY <1>1, <1>7 DEF CacheSound, LiveLoaders, TypeOK
<1> QED  BY <1>9, <1>10, <1>11, <1>12, <1>13

LEMMA LinkNoSuperStep ==
  ASSUME Shape, LinkNoSuper
  PROVE  Shape' /\ (CacheSound => CacheSound')
<1> USE DEF Shape, LinkNoSuper, Running, world, heap, Advance
<1>1. PICK a \in Activation : a = [Top EXCEPT !.at = "ifaces"]
  BY TopSound DEF Activation, Position
<1>2. a.at = "ifaces" /\ a.klass = Top.klass
  BY <1>1, TopSound DEF Activation
<1>3. ActivationSound(a)'
  BY <1>2, TopSound DEF ActivationSound, Mine
<1>4. StackSound' /\ stack' \in Seq(Activation) /\ stack' # <<>>
  BY <1>1, <1>2, <1>3, TopSound, AdvanceStack
<1> QED  BY <1>4 DEF TypeOK, KlassHasFile, RunsOnLiveLoader, CacheSound, LiveLoaders

LEMMA SetSuperClassStep ==
  ASSUME Shape, SetSuperClass
  PROVE  Shape' /\ (CacheSound => CacheSound')
<1> USE DEF Shape, SetSuperClass, Returned, world, Advance
<1>1. PICK a \in Activation : a = [Top EXCEPT !.at = "ifaces"]
  BY TopSound DEF Activation, Position
<1>2. a.at = "ifaces" /\ a.klass = Top.klass
  BY <1>1, TopSound DEF Activation
<1>3. Top.klass \in Klass /\ klass[Top.klass] \in KlassObject /\ klass[Top.klass].stage = "linking"
      /\ klass[Top.klass].loader = this
  BY FileOfTop DEF Mine
<1>4. /\ klass' \in [Klass -> KlassObject]
      /\ \A j \in Klass : /\ klass'[j].stage = klass[j].stage
                          /\ klass'[j].loader = klass[j].loader
                          /\ klass'[j].file = klass[j].file
      /\ \A j \in Klass : j # Top.klass => klass'[j] = klass[j]
  BY <1>3 DEF TypeOK, KlassObject
<1>5. ActivationSound(a)'
  BY <1>2, <1>3, <1>4 DEF ActivationSound, Mine
<1>6. StackSound' /\ stack' \in Seq(Activation) /\ stack' # <<>>
  <2>1. \A i \in DOMAIN stack : i < Len(stack) =>
          /\ stack[i].klass # a.klass
          /\ klass'[stack[i].klass] = klass[stack[i].klass]
    BY <1>2, <1>4, TopSound
  <2> QED  BY <1>1, <1>5, <2>1, AdvanceStack
<1>7. TypeOK'
  BY <1>4, <1>6 DEF TypeOK
<1>8. CacheSound => CacheSound'
  BY <1>4 DEF CacheSound, LiveLoaders, TypeOK
<1> QED  BY <1>4, <1>6, <1>7, <1>8 DEF KlassHasFile, RunsOnLiveLoader

LEMMA SetInterfaceStep ==
  ASSUME Shape, SetInterface
  PROVE  Shape' /\ (CacheSound => CacheSound')
<1> USE DEF Shape, SetInterface, Returned, world
<1>0. Top.klass \in Klass /\ klass[Top.klass] \in KlassObject /\ klass[Top.klass].stage = "linking"
      /\ klass[Top.klass].loader = this
  BY FileOfTop DEF Mine
<1>1. CASE TopInterface.index < Len(TopFile.ifaces)
  <2> USE <1>1
  <2>1. PICK a \in Activation : a = [Top EXCEPT !.linked = @ + 1]
    BY TopSound DEF Activation
  <2>2. a.at = "ifaces" /\ a.klass = Top.klass
    BY <2>1, TopSound DEF Activation
  <2>3. klass' = [klass EXCEPT ![Top.klass] =
                    [klass[Top.klass] EXCEPT !.ifaces = @ \cup {ret}]]
    OBVIOUS
  <2>10. [klass[Top.klass] EXCEPT !.ifaces = @ \cup {ret}] \in KlassObject
    BY <1>0 DEF TypeOK, KlassObject
  <2>4. /\ klass' \in [Klass -> KlassObject]
        /\ \A j \in Klass : /\ klass'[j].stage = klass[j].stage
                            /\ klass'[j].loader = klass[j].loader
                            /\ klass'[j].file = klass[j].file
        /\ \A j \in Klass : j # Top.klass => klass'[j] = klass[j]
    BY <1>0, <2>3, <2>10 DEF TypeOK, KlassObject
  <2>5. ActivationSound(a)'
    BY <2>2, <1>0, <2>4 DEF ActivationSound, Mine
  <2>6. StackSound' /\ stack' \in Seq(Activation) /\ stack' # <<>>
    <3>1. \A i \in DOMAIN stack : i < Len(stack) =>
            /\ stack[i].klass # a.klass
            /\ klass'[stack[i].klass] = klass[stack[i].klass]
      BY <2>2, <2>4, TopSound
    <3> QED  BY <2>1, <2>5, <3>1, AdvanceStack
  <2>7. TypeOK'
    BY <2>4, <2>6 DEF TypeOK
  <2>8. CacheSound => CacheSound'
    BY <2>4 DEF CacheSound, LiveLoaders, TypeOK
  <2> QED  BY <2>4, <2>6, <2>7, <2>8 DEF KlassHasFile, RunsOnLiveLoader
<1>2. CASE ~ TopInterface.index < Len(TopFile.ifaces)
  <2> USE <1>2
  <2>1. TypeOK'
    BY DEF TypeOK, Fault
  <2>2. StackSound'
    BY DEF StackSound, ActivationSound, Mine, InArea
  <2> QED  BY <2>1, <2>2 DEF KlassHasFile, RunsOnLiveLoader, CacheSound, LiveLoaders
<1> QED  BY <1>1, <1>2

LEMMA LoadSuperStep ==
  ASSUME Shape, LoadSuper
  PROVE  Shape' /\ (CacheSound => CacheSound')
<1>1. stack # <<>> /\ Top.at = "super" /\ TopFile.super # Null /\ Recurse(TopFile.super)
      /\ UNCHANGED world
  BY DEF LoadSuper, Running
<1>2. TopFile \in ClassFile
  BY <1>1, FileOfTop DEF Shape
<1>3. TopFile.super \in Name
  BY <1>1, <1>2 DEF ClassFile
<1>4. PICK n \in Name : n = TopFile.super
  BY <1>3
<1> QED  BY <1>1, <1>4, RecurseStep

LEMMA LoadInterfaceStep ==
  ASSUME Shape, LoadInterface
  PROVE  Shape' /\ (CacheSound => CacheSound')
<1>1. /\ stack # <<>> /\ Top.at = "ifaces" /\ Top.linked < Len(TopFile.ifaces)
      /\ TopInterface.name # Null
      /\ Recurse(TopInterface.name)
      /\ UNCHANGED world
  BY DEF LoadInterface, Running
<1>2. TopFile.ifaces \in Seq(Interface) /\ Top.linked \in Nat
  BY <1>1, FileOfTop, TopInStack DEF Shape, ClassFile, Activation
<1>3. Top.linked + 1 \in 1 .. Len(TopFile.ifaces)
  BY <1>1, <1>2, LenProperties
<1>4. TopInterface \in Interface
  BY <1>2, <1>3, ElementOfSeq DEF TopInterface
<1>5. PICK n \in Name : n = TopInterface.name
  BY <1>1, <1>4 DEF Interface
<1> QED  BY <1>1, <1>5, RecurseStep

LEMMA AddClassStep ==
  ASSUME Shape, AddClass
  PROVE  Shape' /\ (CacheSound => CacheSound')
<1> USE DEF Shape, AddClass, Running, world, Advance
<1> DEFINE key == <<this, Top.name>>
<1>1. PICK a \in Activation : a = [Top EXCEPT !.at = "pool"]
  BY TopSound DEF Activation, Position
<1>2. a.at = "pool" /\ a.klass = Top.klass /\ a.name = Top.name
  BY <1>1, TopSound DEF Activation
<1>3. /\ Top.klass \in Klass /\ klass[Top.klass].stage = "linking" /\ klass[Top.klass].loader = this
      /\ key \in Addr \X Name
  BY FileOfTop, TopSound DEF Mine, RunsOnLiveLoader, Activation
<1>4. CASE area[key] = Null
  <2> USE <1>4
  <2>1. area' = [area EXCEPT ![key] = Top.klass] /\ klass' = klass
    OBVIOUS
  <2>2. area' \in [Addr \X Name -> Klass \cup {Null}] /\ area'[key] = Top.klass
    BY <1>3, <2>1 DEF TypeOK
  <2>3. ActivationSound(a)'
    BY <1>2, <1>3, <2>1, <2>2 DEF ActivationSound, Mine, InArea
  <2>4. StackSound' /\ stack' \in Seq(Activation) /\ stack' # <<>>
    <3>1. \A i \in DOMAIN stack : i < Len(stack) =>
            /\ stack[i].klass # a.klass
            /\ klass'[stack[i].klass] = klass[stack[i].klass]
      BY <1>2, <2>1, TopSound
    <3> QED  BY <1>1, <2>3, <3>1, AdvanceStack
  <2>5. CacheSound => CacheSound'
    <3> SUFFICES ASSUME CacheSound PROVE CacheSound'
      OBVIOUS
    <3>1. \A l \in LiveLoaders, n \in Name : cache[l][n] # Null => <<l, n>> # key
      BY NullAssumption DEF CacheSound, TypeOK, LiveLoaders
    <3>2. \A l \in Addr, n \in Name : <<l, n>> # key => area'[<<l, n>>] = area[<<l, n>>]
      BY <2>1 DEF TypeOK
    <3> QED  BY <2>1, <3>1, <3>2 DEF CacheSound, LiveLoaders
  <2>6. TypeOK'
    BY <2>1, <2>2, <2>4 DEF TypeOK
  <2> QED  BY <2>1, <2>4, <2>5, <2>6 DEF KlassHasFile, RunsOnLiveLoader
<1>5. CASE area[key] # Null
  <2> USE <1>5
  <2>1. klass' = [klass EXCEPT ![Top.klass] = Raw] /\ area' = area
    OBVIOUS
  <2>2. /\ klass' \in [Klass -> KlassObject]
        /\ klass'[Top.klass].stage = "free"
        /\ \A j \in Klass : j # Top.klass => klass'[j] = klass[j]
    BY <1>3, <2>1 DEF TypeOK, KlassObject, Raw, Stage
  <2>3. ActivationSound(a)'
    BY <1>2, <1>3, <2>2 DEF ActivationSound
  <2>4. StackSound' /\ stack' \in Seq(Activation) /\ stack' # <<>>
    <3>1. \A i \in DOMAIN stack : i < Len(stack) =>
            /\ stack[i].klass # a.klass
            /\ klass'[stack[i].klass] = klass[stack[i].klass]
      BY <1>2, <2>2, TopSound
    <3> QED  BY <1>1, <2>3, <3>1, AdvanceStack
  <2>5. CacheSound => CacheSound'
    BY <1>3, <2>1, <2>2 DEF CacheSound, LiveLoaders, TypeOK
  <2>6. TypeOK'
    BY <2>1, <2>2, <2>4 DEF TypeOK
  <2>7. KlassHasFile'
    BY <2>2 DEF KlassHasFile
  <2> QED  BY <2>4, <2>5, <2>6, <2>7 DEF RunsOnLiveLoader
<1> QED  BY <1>4, <1>5

(* A new entry of one cache. *)
LEMMA CacheEntry ==
  ASSUME TypeOK, NEW l \in Addr, NEW n \in Name, NEW k \in Klass,
         cache' = [cache EXCEPT ![l][n] = k]
  PROVE  /\ cache' \in [Addr -> [Name -> Klass \cup {Null}]]
         /\ cache'[l][n] = k
         /\ \A l1 \in Addr, n1 \in Name : ~ (l1 = l /\ n1 = n) => cache'[l1][n1] = cache[l1][n1]
<1>1. cache \in [Addr -> [Name -> Klass \cup {Null}]]
  BY DEF TypeOK
<1>2. cache' = [cache EXCEPT ![l] = [cache[l] EXCEPT ![n] = k]]
  OBVIOUS
<1>3. [cache[l] EXCEPT ![n] = k] \in [Name -> Klass \cup {Null}]
  BY <1>1
<1> QED  BY <1>1, <1>2, <1>3

LEMMA PrepareDanglingStep ==
  ASSUME Shape, PrepareDangling
  PROVE  Shape' /\ (CacheSound => CacheSound')
<1> USE DEF Shape, PrepareDangling, world, heap, call
<1>1. TypeOK'
  BY DEF TypeOK, Fault
<1>2. StackSound'
  BY DEF StackSound, ActivationSound, Mine, InArea
<1> QED  BY <1>1, <1>2 DEF KlassHasFile, RunsOnLiveLoader, CacheSound, LiveLoaders

(* A dangling pointer that goes into a cache unnoticed leaves the calls as *)
(* they were.                                                              *)
LEMMA CacheDroppedStep ==
  ASSUME Shape, CacheDropped
  PROVE  Shape'
<1> USE DEF Shape, CacheDropped, Running, world, heap, call
<1>1. this \in Addr /\ Top.name \in Name /\ Top.klass \in Klass
  BY TopSound DEF RunsOnLiveLoader, Activation, ActivationSound
<1>2. cache' \in [Addr -> [Name -> Klass \cup {Null}]]
  BY <1>1, CacheEntry DEF TypeOK
<1>3. TypeOK'
  BY <1>2 DEF TypeOK, Fault
<1>4. StackSound'
  BY DEF StackSound, ActivationSound, Mine, InArea
<1> QED  BY <1>3, <1>4 DEF KlassHasFile, RunsOnLiveLoader

(* A preparation phase that succeeds changes only the stage of its Klass,  *)
(* which no other activation works on and no cache holds yet.              *)
LEMMA StageStep ==
  ASSUME Shape, stack # <<>>, Top.klass \in Klass,
         klass[Top.klass].stage \in {"linking", "pool", "methods"},
         NEW s \in {"pool", "methods", "prepared"},
         klass' = [klass EXCEPT ![Top.klass].stage = s],
         UNCHANGED <<area, paths>>
  PROVE  /\ klass' \in [Klass -> KlassObject]
         /\ KlassHasFile'
         /\ klass'[Top.klass].stage = s
         /\ klass'[Top.klass].loader = klass[Top.klass].loader
         /\ \A j \in Klass : j # Top.klass => klass'[j] = klass[j]
         /\ CacheSound /\ UNCHANGED cache => CacheSound'
<1> USE DEF Shape
<1>1. /\ klass' \in [Klass -> KlassObject]
      /\ klass'[Top.klass].stage = s
      /\ klass'[Top.klass].loader = klass[Top.klass].loader
      /\ klass'[Top.klass].file = klass[Top.klass].file
      /\ \A j \in Klass : j # Top.klass => klass'[j] = klass[j]
  <2>1. klass \in [Klass -> KlassObject] /\ klass[Top.klass] \in KlassObject
    BY DEF TypeOK
  <2>2. [klass[Top.klass] EXCEPT !.stage = s] \in KlassObject
    BY <2>1 DEF KlassObject, Stage
  <2> QED  BY <2>1, <2>2 DEF KlassObject
<1>2. KlassHasFile'
  BY <1>1 DEF KlassHasFile
<1>3. CacheSound /\ UNCHANGED cache => CacheSound'
  BY <1>1 DEF CacheSound, LiveLoaders, TypeOK
<1> QED  BY <1>1, <1>2, <1>3

LEMMA PreparePoolStep ==
  ASSUME Shape, PrepareRuntimeConstantPool
  PROVE  Shape' /\ (CacheSound => CacheSound')
<1> USE DEF Shape, PrepareRuntimeConstantPool, Running, world, Advance
<1>1. CASE TopFile.fails = "pool"
  BY <1>1, ThrowStep
<1>2. CASE TopFile.fails # "pool"
  <2> USE <1>2
  <2>1. PICK a \in Activation : a = [Top EXCEPT !.at = "methods"]
    BY TopSound DEF Activation, Position
  <2>2. a.at = "methods" /\ a.klass = Top.klass /\ a.name = Top.name
    BY <2>1, TopSound DEF Activation
  <2>3. /\ Top.klass \in Klass /\ klass[Top.klass].stage = "linking"
        /\ klass[Top.klass].loader = this /\ area[<<this, Top.name>>] = Top.klass
    BY TopSound DEF ActivationSound, Mine, InArea
  <2>4. /\ klass' \in [Klass -> KlassObject] /\ KlassHasFile' /\ (CacheSound => CacheSound')
        /\ klass'[Top.klass].stage = "pool"
        /\ klass'[Top.klass].loader = klass[Top.klass].loader
        /\ \A j \in Klass : j # Top.klass => klass'[j] = klass[j]
    BY <2>3, StageStep
  <2>5. ActivationSound(a)'
    BY <2>2, <2>3, <2>4 DEF ActivationSound, Mine, InArea
  <2>6. StackSound' /\ stack' \in Seq(Activation) /\ stack' # <<>>
    <3>1. \A i \in DOMAIN stack : i < Len(stack) =>
            /\ stack[i].klass # a.klass
            /\ klass'[stack[i].klass] = klass[stack[i].klass]
      BY <2>2, <2>4, TopSound
    <3> QED  BY <2>1, <2>5, <3>1, AdvanceStack
  <2> QED  BY <2>4, <2>6 DEF TypeOK, RunsOnLiveLoader
<1> QED  BY <1>1, <1>2

LEMMA PrepareMethodsStep ==
  ASSUME Shape, PrepareMethods
  PROVE  Shape' /\ (CacheSound => CacheSound')
<1> USE DEF Shape, PrepareMethods, Running, world, Advance
<1>1. CASE TopFile.fails = "methods"
  BY <1>1, ThrowStep
<1>2. CASE TopFile.fails # "methods"
  <2> USE <1>2
  <2>1. PICK a \in Activation : a = [Top EXCEPT !.at = "fields"]
    BY TopSound DEF Activation, Position
  <2>2. a.at = "fields" /\ a.klass = Top.klass /\ a.name = Top.name
    BY <2>1, TopSound DEF Activation
  <2>3. /\ Top.klass \in Klass /\ klass[Top.klass].stage = "pool"
        /\ klass[Top.klass].loader = this /\ area[<<this, Top.name>>] = Top.klass
    BY TopSound DEF ActivationSound, Mine, InArea
  <2>4. /\ klass' \in [Klass -> KlassObject] /\ KlassHasFile' /\ (CacheSound => CacheSound')
        /\ klass'[Top.klass].stage = "methods"
        /\ klass'[Top.klass].loader = klass[Top.klass].loader
        /\ \A j \in Klass : j # Top.klass => klass'[j] = klass[j]
    BY <2>3, StageStep
  <2>5. ActivationSound(a)'
    BY <2>2, <2>3, <2>4 DEF ActivationSound, Mine, InArea
  <2>6. StackSound' /\ stack' \in Seq(Activation) /\ stack' # <<>>
    <3>1. \A i \in DOMAIN stack : i < Len(stack) =>
            /\ stack[i].klass # a.klass
            /\ klass'[stack[i].klass] = klass[stack[i].klass]
      BY <2>2, <2>4, TopSound
    <3> QED  BY <2>1, <2>5, <3>1, AdvanceStack
  <2> QED  BY <2>4, <2>6 DEF TypeOK, RunsOnLiveLoader
<1> QED  BY <1>1, <1>2

(* The step that publishes a class: what its activation knows is what      *)
(* CacheSound asks of the new cache entry.                                 *)
LEMMA PrepareFieldsStep ==
  ASSUME Shape, PrepareFieldsAndStatics
  PROVE  Shape' /\ (CacheSound => CacheSound')
<1> USE DEF Shape, PrepareFieldsAndStatics, Running, world
<1>1. CASE TopFile.fails = "fields"
  BY <1>1, ThrowStep
<1>2. CASE TopFile.fails # "fields"
  <2> USE <1>2
  <2>1. /\ Top.klass \in Klass /\ klass[Top.klass].stage = "methods"
        /\ klass[Top.klass].loader = this /\ area[<<this, Top.name>>] = Top.klass
        /\ this \in Addr /\ Top.name \in Name
    BY TopSound DEF ActivationSound, Mine, InArea, RunsOnLiveLoader, Activation
  <2>2. /\ klass' \in [Klass -> KlassObject] /\ KlassHasFile'
        /\ klass'[Top.klass].stage = "prepared"
        /\ klass'[Top.klass].loader = klass[Top.klass].loader
        /\ \A j \in Klass : j # Top.klass => klass'[j] = klass[j]
    BY <2>1, StageStep
  <2>3. StackSound' /\ stack' \in Seq(Activation)
    BY <2>2, PopStack
  <2>4. /\ cache' \in [Addr -> [Name -> Klass \cup {Null}]]
        /\ cache'[this][Top.name] = Top.klass
        /\ \A l \in Addr, n \in Name : ~ (l = this /\ n = Top.name) => cache'[l][n] = cache[l][n]
    BY <2>1, CacheEntry
  <2>5. CacheSound => CacheSound'
    <3> SUFFICES ASSUME CacheSound, NEW l \in LiveLoaders, NEW n \in Name, cache'[l][n] # Null
                 PROVE  /\ klass'[cache'[l][n]].stage = "prepared"
                        /\ klass'[cache'[l][n]].loader = l
                        /\ area[<<l, n>>] = cache'[l][n]
      BY DEF CacheSound, LiveLoaders
    <3>1. CASE l = this /\ n = Top.name
      BY <3>1, <2>1, <2>2, <2>4
    <3>2. CASE ~ (l = this /\ n = Top.name)
      <4>1. cache'[l][n] = cache[l][n] /\ l \in Addr
        BY <3>2, <2>4 DEF LiveLoaders
      <4>2. cache[l][n] # Null
        BY <4>1
      <4>3. cache[l][n] \in Klass
        <5>1. cache \in [Addr -> [Name -> Klass \cup {Null}]]
          BY DEF TypeOK
        <5> QED  BY <4>1, <4>2, <5>1
      <4>4. /\ klass[cache[l][n]].stage = "prepared"
            /\ klass[cache[l][n]].loader = l
            /\ area[<<l, n>>] = cache[l][n]
        BY <4>2 DEF CacheSound
      <4> QED  BY <4>1, <4>3, <4>4, <2>1, <2>2
    <3> QED  BY <3>1, <3>2
  <2>6. TypeOK'
    BY <2>1, <2>2, <2>3, <2>4 DEF TypeOK
  <2> QED  BY <2>2, <2>3, <2>5, <2>6 DEF RunsOnLiveLoader
<1> QED  BY <1>1, <1>2

(* Every step of a running loadClass keeps the shape of the call and,      *)
(* where the caches are sound, leaves them sound.                          *)
LEMMA LoadClassStep ==
  ASSUME Shape, loadClass
  PROVE  Shape' /\ (CacheSound => CacheSound')
<1>1. CASE CacheHit
  BY <1>1, CacheHitStep
<1>2. CASE ClassNotFound
  BY <1>2, ThrowStep DEF ClassNotFound
<1>3. CASE ParseThrows
  BY <1>3, ThrowStep DEF ParseThrows
<1>4. CASE BeginDefine
  BY <1>4, BeginDefineStep
<1>5. CASE LinkNoSuper
  BY <1>5, LinkNoSuperStep
<1>6. CASE SuperNameThrows \/ InterfaceNameThrows
  BY <1>6, ThrowStep DEF SuperNameThrows, InterfaceNameThrows
<1>7. CASE LoadSuper
  BY <1>7, LoadSuperStep
<1>8. CASE SetSuperClass
  BY <1>8, SetSuperClassStep
<1>9. CASE LoadInterface
  BY <1>9, LoadInterfaceStep
<1>10. CASE SetInterface
  BY <1>10, SetInterfaceStep
<1>11. CASE AddClass
  BY <1>11, AddClassStep
<1>12. CASE PrepareDangling
  BY <1>12, PrepareDanglingStep
<1>13. CASE PrepareRuntimeConstantPool
  BY <1>13, PreparePoolStep
<1>14. CASE PrepareMethods
  BY <1>14, PrepareMethodsStep
<1>15. CASE PrepareFieldsAndStatics
  BY <1>15, PrepareFieldsStep
<1> QED  BY <1>1, <1>2, <1>3, <1>4, <1>5, <1>6, <1>7, <1>8, <1>9, <1>10, <1>11, <1>12,
            <1>13, <1>14, <1>15 DEF loadClass

-----------------------------------------------------------------------------
(* The public operations. *)

LEMMA CallLoadClassStep ==
  ASSUME Shape, NEW l \in Addr, NEW n \in Name, CallLoadClass(l, n)
  PROVE  Shape' /\ (CacheSound => CacheSound')
<1> USE DEF Shape, CallLoadClass, Idle, world, heap
<1>1. stack' = <<Entry(n)>> /\ Entry(n) \in Activation
  BY DEF Entry, Activation, Position
<1>2. stack' \in Seq(Activation) /\ Len(stack') = 1 /\ DOMAIN stack' = 1 .. 1 /\ stack'[1] = Entry(n)
  BY <1>1
<1>3. TypeOK'
  BY <1>2 DEF TypeOK
<1>4. (\A i \in DOMAIN stack : ActivationSound(stack[i]))'
  BY <1>2 DEF ActivationSound, Entry
<1>5. StackSound'
  BY <1>2, <1>4 DEF StackSound
<1>6. RunsOnLiveLoader'
  BY DEF RunsOnLiveLoader
<1> QED  BY <1>3, <1>5, <1>6 DEF KlassHasFile, CacheSound, LiveLoaders

(* A new loader starts with an empty cache, whatever the method area holds *)
(* under its address.                                                      *)
LEMMA NewLoaderStep ==
  ASSUME Shape, NEW l \in Addr, NEW path \in Classpaths, NewLoader(l, path)
  PROVE  Shape' /\ (CacheSound => CacheSound')
<1> USE DEF Shape, NewLoader, Idle, heap, call
<1>1. /\ \A m \in Addr : m # l => paths'[m] = paths[m] /\ cache'[m] = cache[m]
      /\ cache'[l] = EmptyCache
  BY DEF TypeOK
<1>2. EmptyCache \in [Name -> Klass \cup {Null}]
  BY DEF EmptyCache
<1>3. TypeOK'
  BY <1>2 DEF TypeOK
<1>4. StackSound' /\ RunsOnLiveLoader' /\ KlassHasFile'
  BY DEF StackSound, RunsOnLiveLoader, KlassHasFile
<1>5. CacheSound => CacheSound'
  BY <1>1 DEF CacheSound, LiveLoaders, EmptyCache
<1> QED  BY <1>3, <1>4, <1>5

LEMMA DestroyLoaderStep ==
  ASSUME Shape, NEW l \in Addr, DestroyLoader(l)
  PROVE  Shape' /\ (CacheSound => CacheSound')
<1> USE DEF Shape, DestroyLoader, Idle, heap, call
<1>1. /\ \A m \in Addr : m # l => paths'[m] = paths[m] /\ cache'[m] = cache[m]
      /\ paths'[l] = Null
  BY DEF TypeOK
<1>2. EmptyCache \in [Name -> Klass \cup {Null}]
  BY DEF EmptyCache
<1>3. TypeOK'
  BY <1>2 DEF TypeOK
<1>4. StackSound' /\ RunsOnLiveLoader' /\ KlassHasFile'
  BY DEF StackSound, RunsOnLiveLoader, KlassHasFile
<1>5. CacheSound => CacheSound'
  BY <1>1 DEF CacheSound, LiveLoaders
<1> QED  BY <1>3, <1>4, <1>5

(* MethodArea::reset keeps the shape, but not CacheSound: it may destroy   *)
(* classes that caches still refer to.                                     *)
LEMMA ResetStep ==
  ASSUME Shape, Reset
  PROVE  Shape'
<1> USE DEF Shape, Reset, Idle, world, call
<1>1. klass' \in [Klass -> KlassObject] /\ KlassHasFile'
  BY DEF FreeAll, TypeOK, KlassHasFile, KlassObject, Raw, Stage
<1>2. area' \in [Addr \X Name -> Klass \cup {Null}]
  BY DEF EmptyArea
<1>3. TypeOK'
  BY <1>1, <1>2 DEF TypeOK
<1> QED  BY <1>1, <1>3 DEF StackSound, RunsOnLiveLoader

LEMMA ShapeStutters ==
  ASSUME Shape, UNCHANGED vars
  PROVE  Shape' /\ (CacheSound => CacheSound')
<1> USE DEF Shape, vars
<1>1. TypeOK'
  BY DEF TypeOK
<1>2. StackSound'
  BY DEF StackSound, ActivationSound, Mine, InArea
<1> QED  BY <1>1, <1>2 DEF KlassHasFile, RunsOnLiveLoader, CacheSound, LiveLoaders

(* Every step but a reset and the caching of a dangling pointer keeps      *)
(* sound caches sound.                                                     *)
LEMMA NextShape ==
  ASSUME Shape, [Next]_vars
  PROVE  Shape' /\ (CacheSound /\ ~ Reset /\ ~ CacheDropped => CacheSound')
<1>1. CASE loadClass
  BY <1>1, LoadClassStep
<1>2. CASE \E l \in Addr, n \in Name : CallLoadClass(l, n)
  BY <1>2, CallLoadClassStep
<1>3. CASE \E l \in Addr, path \in Classpaths : NewLoader(l, path)
  BY <1>3, NewLoaderStep
<1>4. CASE \E l \in Addr : DestroyLoader(l)
  BY <1>4, DestroyLoaderStep
<1>5. CASE Reset
  BY <1>5, ResetStep
<1>6. CASE UNCHANGED vars
  BY <1>6, ShapeStutters
<1>7. CASE CacheDropped
  BY <1>7, CacheDroppedStep
<1> QED  BY <1>1, <1>2, <1>3, <1>4, <1>5, <1>6, <1>7 DEF Next

(* Whatever files are missing, malformed or fail to prepare, and whatever  *)
(* is retried, every activation of loadClass works on a Klass of its own   *)
(* in the stage of its position, and between calls nothing is half-way.    *)
THEOREM CallsKeepShape == Spec => []Shape
<1>1. Init => Shape
  BY InitShape
<1>2. Shape /\ [Next]_vars => Shape'
  BY NextShape
<1> QED  BY <1>1, <1>2, PTL DEF Spec

-----------------------------------------------------------------------------
(* Ownership: every Klass object that exists has one owner, an entry of    *)
(* the method area or the activation that builds it.                       *)

Key == Addr \X Name

Ownership ==
  /\ \A key \in Key : area[key] # Null => klass[area[key]].stage # "free" /\ area[key] \notin Owned
  /\ \A key1, key2 \in Key : area[key1] # Null /\ area[key1] = area[key2] => key1 = key2
  /\ \A k \in Klass : klass[k].stage # "free" => (\E key \in Key : area[key] = k) \/ k \in Owned

(* The objects of the activations below the innermost one. *)
Outer == {stack[i].klass : i \in 1 .. Len(stack) - 1}

(* Who owns, by the position of the innermost activation. *)
OwnersByTop ==
  /\ Top.at \in {"super", "ifaces"} => Owned = Outer \cup {Top.klass}
  /\ Top.at \notin {"super", "ifaces"} => Owned = Outer
  /\ Top.klass \notin Outer
  /\ Outer \subseteq Klass

LEMMA OwnedByTop == Shape /\ stack # <<>> => OwnersByTop
<1> SUFFICES ASSUME Shape, stack # <<>> PROVE OwnersByTop
  OBVIOUS
<1>0. Len(stack) \in Nat /\ Len(stack) # 0
  BY TopInStack DEF Shape
<1>1. DOMAIN stack = 1 .. Len(stack) /\ Top = stack[Len(stack)]
  BY TopInStack DEF Shape, Top
<1>2. \A i \in 1 .. Len(stack) : i = Len(stack) \/ (i \in 1 .. Len(stack) - 1 /\ i < Len(stack))
  BY <1>0
<1>3. \A i \in 1 .. Len(stack) - 1 : i \in 1 .. Len(stack) /\ i < Len(stack) /\ i # Len(stack)
  BY <1>0
<1>4. Len(stack) \in 1 .. Len(stack)
  BY <1>0
<1>5. \A i \in 1 .. Len(stack) - 1 : /\ stack[i].at \in {"super", "ifaces"}
                                     /\ stack[i].klass \in Klass
                                     /\ stack[i].klass # Top.klass
  BY <1>1, <1>3, <1>4 DEF Shape, StackSound, ActivationSound
<1>6. ASSUME Top.at \in {"super", "ifaces"} PROVE Owned = Outer \cup {Top.klass}
  BY <1>1, <1>2, <1>3, <1>4, <1>5, <1>6 DEF Owned, Outer
<1>7. ASSUME Top.at \notin {"super", "ifaces"} PROVE Owned = Outer
  BY <1>1, <1>2, <1>3, <1>4, <1>5, <1>7 DEF Owned, Outer
<1>8. Top.klass \notin Outer /\ Outer \subseteq Klass
  BY <1>5 DEF Outer
<1> QED  BY <1>6, <1>7, <1>8 DEF OwnersByTop

(* The innermost activation moves on: the outer objects stay. *)
LEMMA OuterStays ==
  ASSUME Shape, stack # <<>>, NEW a \in Activation, stack' = SetTop(a)
  PROVE  Outer' = Outer /\ Top' = a /\ stack' # <<>>
<1>1. /\ Len(stack') = Len(stack) /\ Len(stack) \in Nat \ {0}
      /\ DOMAIN stack = 1 .. Len(stack) /\ stack' \in Seq(Activation)
      /\ stack'[Len(stack)] = a
      /\ \A i \in DOMAIN stack : i # Len(stack) => stack'[i] = stack[i]
  BY SetTopFacts, TopInStack DEF Shape
<1>2. \A i \in 1 .. Len(stack) - 1 : stack'[i] = stack[i]
  BY <1>1
<1>3. Outer' = Outer
  BY <1>1, <1>2 DEF Outer
<1>4. stack' # <<>>
  BY <1>1, EmptySeq
<1> QED  BY <1>1, <1>3, <1>4 DEF Top

(* The innermost activation returns: what is owned is what was owned by    *)
(* the outer ones.                                                         *)
LEMMA OwnedByPop ==
  ASSUME Shape, stack # <<>>, stack' = Pop
  PROVE  Owned' = Outer
<1>1. /\ DOMAIN Pop = 1 .. Len(stack) - 1
      /\ \A i \in DOMAIN Pop : i \in DOMAIN stack /\ i < Len(stack) /\ Pop[i] = stack[i]
  BY PopFacts DEF Shape
<1>2. \A i \in 1 .. Len(stack) - 1 : stack'[i] = stack[i] /\ stack[i].at \in {"super", "ifaces"}
  BY <1>1 DEF Shape, StackSound
<1> QED  BY <1>1, <1>2 DEF Owned, Outer

(* A nested call owns nothing yet. *)
LEMMA OwnedByPush ==
  ASSUME Shape, NEW n \in Name, stack' = Append(stack, Entry(n))
  PROVE  Owned' = Owned
<1>1. /\ DOMAIN stack' = 1 .. Len(stack) + 1
      /\ stack'[Len(stack) + 1] = Entry(n)
      /\ \A i \in DOMAIN stack : i \in 1 .. Len(stack) /\ stack'[i] = stack[i]
      /\ DOMAIN stack = 1 .. Len(stack) /\ Len(stack) \in Nat
  BY PushFacts, LenProperties DEF Shape, TypeOK
<1>2. \A i \in 1 .. Len(stack) + 1 : i = Len(stack) + 1 \/ i \in 1 .. Len(stack)
  BY <1>1
<1>3. Entry(n).at = "enter"
  BY DEF Entry
<1>4. {j \in DOMAIN stack' : stack'[j].at \in {"super", "ifaces"}}
        = {j \in DOMAIN stack : stack[j].at \in {"super", "ifaces"}}
  BY <1>1, <1>2, <1>3
<1>5. \A i \in {j \in DOMAIN stack : stack[j].at \in {"super", "ifaces"}} :
         stack'[i].klass = stack[i].klass
  BY <1>1
<1> QED  BY <1>4, <1>5 DEF Owned

(* Ownership is about which objects exist, what the method area holds and  *)
(* what the activations own.                                               *)
LEMMA OwnershipKept ==
  ASSUME Shape, Ownership, UNCHANGED area, Owned' = Owned,
         \A k \in Klass : klass'[k].stage = "free" <=> klass[k].stage = "free"
  PROVE  Ownership'
<1>1. area \in [Key -> Klass \cup {Null}]
  BY DEF Shape, TypeOK, Key
<1> QED  BY <1>1 DEF Ownership

LEMMA ThrowOwnership ==
  ASSUME Shape, Ownership, Throw
  PROVE  Ownership'
<1> USE DEF Throw
<1>1. area \in [Key -> Klass \cup {Null}]
  BY DEF Shape, TypeOK, Key
<1>2. Owned' = {}
  BY DEF Owned
<1>3. \A k \in Klass : klass'[k].stage = IF k \in Owned THEN "free" ELSE klass[k].stage
  BY DEF Raw
<1>4. \A key \in Key : area[key] # Null => klass'[area[key]].stage # "free"
  BY <1>1, <1>3 DEF Ownership
<1> QED  BY <1>2, <1>3, <1>4 DEF Ownership

LEMMA RecurseOwnership ==
  ASSUME Shape, Ownership, NEW n \in Name, Recurse(n)
  PROVE  Ownership'
<1> USE DEF Recurse, heap
<1>1. CASE Len(stack) < MaxDepth
  <2>1. stack' = Append(stack, Entry(n))
    BY <1>1 DEF Entry
  <2> QED  BY <2>1, OwnedByPush, OwnershipKept
<1>2. CASE ~ Len(stack) < MaxDepth
  <2>1. Owned' = Owned
    BY <1>2 DEF Owned
  <2> QED  BY <2>1, OwnershipKept
<1> QED  BY <1>1, <1>2

(* A returning activation owns nothing. *)
LEMMA PopOwnership ==
  ASSUME Shape, Ownership, stack # <<>>, Top.at \notin {"super", "ifaces"}, stack' = Pop,
         UNCHANGED area,
         \A k \in Klass : klass'[k].stage = "free" <=> klass[k].stage = "free"
  PROVE  Ownership'
<1>1. Owned' = Owned
  BY OwnedByPop, OwnedByTop DEF OwnersByTop
<1> QED  BY <1>1, OwnershipKept

(* The innermost activation stays among the ones that own their Klass, or  *)
(* among those that do not.                                                *)
LEMMA AdvanceOwnership ==
  ASSUME Shape, Shape', Ownership, stack # <<>>, NEW a \in Activation, stack' = SetTop(a),
         a.klass = Top.klass,
         a.at \in {"super", "ifaces"} <=> Top.at \in {"super", "ifaces"},
         UNCHANGED area,
         \A k \in Klass : klass'[k].stage = "free" <=> klass[k].stage = "free"
  PROVE  Ownership'
<1>1. Outer' = Outer /\ Top' = a /\ stack' # <<>>
  BY OuterStays
<1>2. OwnersByTop /\ OwnersByTop'
  <2>1. (Shape /\ stack # <<>> => OwnersByTop)'
    BY OwnedByTop, PTL
  <2> QED  BY <1>1, <2>1, OwnedByTop
<1>3. CASE a.at \in {"super", "ifaces"}
  <2>1. Owned' = Outer' \cup {Top'.klass} /\ Owned = Outer \cup {Top.klass}
    BY <1>1, <1>2, <1>3 DEF OwnersByTop
  <2> QED  BY <1>1, <2>1, OwnershipKept
<1>4. CASE a.at \notin {"super", "ifaces"}
  <2>1. Owned' = Outer' /\ Owned = Outer
    BY <1>1, <1>2, <1>4 DEF OwnersByTop
  <2> QED  BY <1>1, <2>1, OwnershipKept
<1> QED  BY <1>3, <1>4

(* A Klass is allocated where no object is, so it is nobody else's. *)
LEMMA BeginDefineOwnership ==
  ASSUME Shape, Shape', Ownership, BeginDefine
  PROVE  Ownership'
<1> USE DEF BeginDefine, Running, world
<1>1. PICK f \in Files, k \in Klass :
        /\ klass[k].stage = "free"
        /\ klass' = [klass EXCEPT ![k] = [stage |-> "linking", loader |-> this, file |-> f,
                                          super |-> Null, ifaces |-> {}]]
        /\ stack' = SetTop([Top EXCEPT !.klass = k, !.at = "super"])
  BY DEF readClassFile
<1>2. PICK a \in Activation : a = [Top EXCEPT !.klass = k, !.at = "super"]
  BY TopSound DEF Activation, Position
<1>3. a.at = "super" /\ a.klass = k
  BY <1>2, TopSound DEF Activation
<1>4. Outer' = Outer /\ Top' = a /\ stack' # <<>>
  BY <1>1, <1>2, OuterStays
<1>5. OwnersByTop /\ OwnersByTop'
  <2>1. (Shape /\ stack # <<>> => OwnersByTop)'
    BY OwnedByTop, PTL
  <2> QED  BY <1>4, <2>1, OwnedByTop
<1>6. Owned = Outer
  BY <1>5 DEF OwnersByTop
<1>7. Owned' = Outer \cup {k}
  BY <1>3, <1>4, <1>5 DEF OwnersByTop
<1>8. klass \in [Klass -> KlassObject] /\ area \in [Key -> Klass \cup {Null}]
  BY DEF Shape, TypeOK, Key
<1>9. klass'[k].stage = "linking" /\ \A j \in Klass : j # k => klass'[j] = klass[j]
  BY <1>1, <1>8
<1>10. \A key \in Key : area[key] # k
  BY <1>1, NullAssumption DEF Ownership
<1> QED  BY <1>6, <1>7, <1>8, <1>9, <1>10 DEF Ownership

(* Registration hands the object to the method area, or destroys it. *)
LEMMA AddClassOwnership ==
  ASSUME Shape, Shape', Ownership, AddClass
  PROVE  Ownership'
<1> USE DEF AddClass, Running, world, Advance
<1> DEFINE new == <<this, Top.name>>
<1>1. PICK a \in Activation : a = [Top EXCEPT !.at = "pool"]
  BY TopSound DEF Activation, Position
<1>2. a.at = "pool" /\ a.klass = Top.klass
  BY <1>1, TopSound DEF Activation
<1>3. Outer' = Outer /\ Top' = a /\ stack' # <<>>
  BY <1>1, OuterStays
<1>4. OwnersByTop /\ OwnersByTop'
  <2>1. (Shape /\ stack # <<>> => OwnersByTop)'
    BY OwnedByTop, PTL
  <2> QED  BY <1>3, <2>1, OwnedByTop
<1>5. Owned = Outer \cup {Top.klass} /\ Top.klass \notin Outer
  BY <1>4 DEF OwnersByTop
<1>6. Owned' = Outer
  BY <1>2, <1>3, <1>4 DEF OwnersByTop
<1>7. Top.klass \in Klass /\ klass[Top.klass].stage = "linking" /\ new \in Key
  BY FileOfTop, TopSound DEF Shape, RunsOnLiveLoader, Activation, Key
<1>8. klass \in [Klass -> KlassObject] /\ area \in [Key -> Klass \cup {Null}]
  BY DEF Shape, TypeOK, Key
<1>9. \A key \in Key : area[key] # Top.klass
  BY <1>5, <1>7, NullAssumption DEF Ownership
<1>10. CASE area[new] = Null
  <2>1. area' = [area EXCEPT ![new] = Top.klass] /\ klass' = klass
    BY <1>10
  <2>2. area'[new] = Top.klass /\ \A key \in Key : key # new => area'[key] = area[key]
    BY <1>7, <1>8, <2>1
  <2>3. \A key \in Key : area'[key] # Null => klass[area'[key]].stage # "free" /\ area'[key] \notin Outer
    BY <1>5, <1>7, <2>2 DEF Ownership
  <2>4. \A key1, key2 \in Key : area'[key1] # Null /\ area'[key1] = area'[key2] => key1 = key2
    BY <1>9, <2>2 DEF Ownership
  <2>5. \A k \in Klass : klass[k].stage # "free" => (\E key \in Key : area'[key] = k) \/ k \in Outer
    <3> SUFFICES ASSUME NEW k \in Klass, klass[k].stage # "free", k \notin Outer, k # Top.klass
                 PROVE  \E key \in Key : area'[key] = k
      BY <1>7, <2>2
    <3>1. PICK key \in Key : area[key] = k
      BY <1>5 DEF Ownership
    <3>2. key # new
      BY <1>10, <3>1, NullAssumption
    <3> QED  BY <2>2, <3>1, <3>2
  <2> QED  BY <1>6, <2>1, <2>3, <2>4, <2>5 DEF Ownership
<1>11. CASE area[new] # Null
  <2>1. klass' = [klass EXCEPT ![Top.klass] = Raw] /\ area' = area
    BY <1>11
  <2>2. klass'[Top.klass].stage = "free" /\ \A j \in Klass : j # Top.klass => klass'[j] = klass[j]
    BY <1>7, <1>8, <2>1 DEF Raw
  <2> QED  BY <1>5, <1>6, <1>8, <1>9, <2>1, <2>2 DEF Ownership
<1> QED  BY <1>10, <1>11

(* A preparation phase that succeeds. *)
LEMMA StageOwnership ==
  ASSUME Shape, NEW s \in {"pool", "methods", "prepared"},
         klass[Top.klass].stage # "free",
         klass' = [klass EXCEPT ![Top.klass].stage = s]
  PROVE  \A k \in Klass : klass'[k].stage = "free" <=> klass[k].stage = "free"
<1>1. klass \in [Klass -> KlassObject]
  BY DEF Shape, TypeOK
<1> QED  BY <1>1 DEF KlassObject

LEMMA LoadClassOwnership ==
  ASSUME Shape, Ownership, loadClass
  PROVE  Ownership'
<1>0. Shape'
  BY LoadClassStep
<1> USE DEF Running, Returned, world, heap, Advance
<1>1. CASE CacheHit
  BY <1>1, PopOwnership DEF CacheHit
<1>2. CASE ClassNotFound \/ ParseThrows \/ SuperNameThrows \/ InterfaceNameThrows
  BY <1>2, ThrowOwnership DEF ClassNotFound, ParseThrows, SuperNameThrows, InterfaceNameThrows
<1>3. CASE BeginDefine
  BY <1>0, <1>3, BeginDefineOwnership
<1>4. CASE LinkNoSuper
  <2> USE <1>4 DEF LinkNoSuper
  <2>1. PICK a \in Activation : a = [Top EXCEPT !.at = "ifaces"]
    BY TopSound DEF Activation, Position
  <2>2. a.at = "ifaces" /\ a.klass = Top.klass
    BY <2>1, TopSound DEF Activation
  <2> QED  BY <1>0, <2>1, <2>2, AdvanceOwnership
<1>5. CASE LoadSuper
  <2>1. stack # <<>> /\ Top.at = "super" /\ TopFile.super # Null /\ Recurse(TopFile.super)
    BY <1>5 DEF LoadSuper
  <2>2. PICK n \in Name : n = TopFile.super
    BY <2>1, FileOfTop DEF Shape, ClassFile
  <2> QED  BY <2>1, <2>2, RecurseOwnership
<1>6. CASE SetSuperClass
  <2> USE <1>6 DEF SetSuperClass
  <2>1. PICK a \in Activation : a = [Top EXCEPT !.at = "ifaces"]
    BY TopSound DEF Activation, Position
  <2>2. a.at = "ifaces" /\ a.klass = Top.klass
    BY <2>1, TopSound DEF Activation
  <2>3. klass \in [Klass -> KlassObject]
    BY DEF Shape, TypeOK
  <2>4. \A k \in Klass : klass'[k].stage = klass[k].stage
    BY <2>3 DEF KlassObject
  <2> QED  BY <1>0, <2>1, <2>2, <2>4, AdvanceOwnership
<1>7. CASE LoadInterface
  <2>1. stack # <<>> /\ Top.at = "ifaces" /\ Top.linked < Len(TopFile.ifaces)
        /\ TopInterface.name # Null /\ Recurse(TopInterface.name)
    BY <1>7 DEF LoadInterface
  <2>2. TopFile.ifaces \in Seq(Interface) /\ Top.linked \in Nat
    BY <2>1, FileOfTop, TopInStack DEF Shape, ClassFile, Activation
  <2>3. Top.linked + 1 \in 1 .. Len(TopFile.ifaces)
    BY <2>1, <2>2, LenProperties
  <2>4. TopInterface \in Interface
    BY <2>2, <2>3, ElementOfSeq DEF TopInterface
  <2>5. PICK n \in Name : n = TopInterface.name
    BY <2>1, <2>4 DEF Interface
  <2> QED  BY <2>1, <2>5, RecurseOwnership
<1>8. CASE SetInterface
  <2> USE <1>8 DEF SetInterface
  <2>1. CASE TopInterface.index < Len(TopFile.ifaces)
    <3>1. PICK a \in Activation : a = [Top EXCEPT !.linked = @ + 1]
      BY TopSound DEF Activation
    <3>2. a.at = "ifaces" /\ a.klass = Top.klass
      BY <3>1, TopSound DEF Activation
    <3>3. klass \in [Klass -> KlassObject]
      BY DEF Shape, TypeOK
    <3>4. \A k \in Klass : klass'[k].stage = klass[k].stage
      <4>1. klass' = [klass EXCEPT ![Top.klass] =
                        [klass[Top.klass] EXCEPT !.ifaces = @ \cup {ret}]]
        BY <2>1
      <4>2. Top.klass \in Klass /\ klass[Top.klass] \in KlassObject
        BY FileOfTop DEF Shape
      <4>3. [klass[Top.klass] EXCEPT !.ifaces = @ \cup {ret}].stage = klass[Top.klass].stage
        BY <4>2 DEF KlassObject
      <4> QED  BY <3>3, <4>1, <4>3
    <3> QED  BY <1>0, <2>1, <3>1, <3>2, <3>4, AdvanceOwnership
  <2>2. CASE ~ TopInterface.index < Len(TopFile.ifaces)
    <3>1. Owned' = Owned
      BY <2>2 DEF Owned
    <3> QED  BY <2>2, <3>1, OwnershipKept
  <2> QED  BY <2>1, <2>2
<1>9. CASE AddClass
  BY <1>0, <1>9, AddClassOwnership
<1>10. CASE PrepareDangling
  <2> USE <1>10 DEF PrepareDangling, call
  <2>1. Owned' = Owned
    BY DEF Owned
  <2> QED  BY <2>1, OwnershipKept
<1>11. CASE PrepareRuntimeConstantPool
  <2> USE <1>11 DEF PrepareRuntimeConstantPool
  <2>1. CASE TopFile.fails = "pool"
    BY <2>1, ThrowOwnership
  <2>2. CASE TopFile.fails # "pool"
    <3>1. PICK a \in Activation : a = [Top EXCEPT !.at = "methods"]
      BY TopSound DEF Activation, Position
    <3>2. a.at = "methods" /\ a.klass = Top.klass
      BY <3>1, TopSound DEF Activation
    <3>3. \A k \in Klass : klass'[k].stage = "free" <=> klass[k].stage = "free"
      BY <2>2, StageOwnership
    <3> QED  BY <1>0, <2>2, <3>1, <3>2, <3>3, AdvanceOwnership
  <2> QED  BY <2>1, <2>2
<1>12. CASE PrepareMethods
  <2> USE <1>12 DEF PrepareMethods
  <2>1. CASE TopFile.fails = "methods"
    BY <2>1, ThrowOwnership
  <2>2. CASE TopFile.fails # "methods"
    <3>1. PICK a \in Activation : a = [Top EXCEPT !.at = "fields"]
      BY TopSound DEF Activation, Position
    <3>2. a.at = "fields" /\ a.klass = Top.klass
      BY <3>1, TopSound DEF Activation
    <3>3. klass[Top.klass].stage # "free"
      BY TopSound DEF ActivationSound
    <3>4. \A k \in Klass : klass'[k].stage = "free" <=> klass[k].stage = "free"
      BY <2>2, <3>3, StageOwnership
    <3> QED  BY <1>0, <2>2, <3>1, <3>2, <3>4, AdvanceOwnership
  <2> QED  BY <2>1, <2>2
<1>13. CASE PrepareFieldsAndStatics
  <2> USE <1>13 DEF PrepareFieldsAndStatics
  <2>1. CASE TopFile.fails = "fields"
    BY <2>1, ThrowOwnership
  <2>2. CASE TopFile.fails # "fields"
    <3>1. klass[Top.klass].stage # "free"
      BY TopSound DEF ActivationSound
    <3>2. \A k \in Klass : klass'[k].stage = "free" <=> klass[k].stage = "free"
      BY <2>2, <3>1, StageOwnership
    <3> QED  BY <2>2, <3>2, PopOwnership
  <2> QED  BY <2>1, <2>2
<1> QED  BY <1>1, <1>2, <1>3, <1>4, <1>5, <1>6, <1>7, <1>8, <1>9, <1>10, <1>11, <1>12, <1>13
         DEF loadClass

-----------------------------------------------------------------------------
(* The public operations leave nothing behind. *)

(* Between calls nothing is being built. *)
LEMMA IdleOwnsNothing == Idle => Owned = {}
  BY DEF Idle, Owned

LEMMA NextOwnership ==
  ASSUME Shape, Ownership, [Next]_vars
  PROVE  Ownership'
<1>1. CASE loadClass
  BY <1>1, LoadClassOwnership
<1>2. CASE \E l \in Addr, n \in Name : CallLoadClass(l, n)
  <2> USE DEF CallLoadClass, heap
  <2>1. PICK l \in Addr, n \in Name : CallLoadClass(l, n)
    BY <1>2
  <2>2. stack = <<>> /\ stack' = Append(stack, Entry(n))
    BY <2>1 DEF Idle, Entry
  <2>3. Owned' = Owned
    BY <2>2, OwnedByPush
  <2> QED  BY <2>1, <2>3, OwnershipKept
<1>3. CASE \/ \E l \in Addr, path \in Classpaths : NewLoader(l, path)
           \/ \E l \in Addr : DestroyLoader(l)
           \/ UNCHANGED vars
  <2>1. UNCHANGED <<area, klass, stack>>
    BY <1>3 DEF NewLoader, DestroyLoader, heap, call, vars
  <2>2. Owned' = Owned
    BY <2>1 DEF Owned
  <2> QED  BY <2>1, <2>2, OwnershipKept
<1>4. CASE Reset
  <2> USE <1>4 DEF Reset, call
  <2>1. Owned = {} /\ Owned' = {}
    BY IdleOwnsNothing DEF Idle, Owned
  <2>2. \A k \in Klass : klass[k].stage # "free" => k \in Registered
    BY <2>1, NullAssumption DEF Ownership, Registered, Key, Shape, TypeOK
  <2>3. \A k \in Klass : klass'[k].stage = "free"
    BY <2>2 DEF FreeAll, Raw
  <2>4. \A key \in Key : area'[key] = Null
    BY DEF EmptyArea, Key
  <2> QED  BY <2>3, <2>4 DEF Ownership
<1>5. CASE CacheDropped
  <2>1. UNCHANGED <<area, klass, stack>>
    BY <1>5 DEF CacheDropped, heap, call
  <2>2. Owned' = Owned
    BY <2>1 DEF Owned
  <2> QED  BY <2>1, <2>2, OwnershipKept
<1> QED  BY <1>1, <1>2, <1>3, <1>4, <1>5 DEF Next

LEMMA InitOwnership == Init => Ownership
  BY DEF Init, Ownership, EmptyArea, Key, Raw

(* One entry of the method area owns each object between calls. *)
LEMMA OwnedOnce ==
  ASSUME Shape, Ownership, Idle, NEW k \in Klass, klass[k].stage # "free"
  PROVE  Cardinality({key \in DOMAIN area : area[key] = k}) = 1
<1>1. DOMAIN area = Key
  BY DEF Shape, TypeOK, Key
<1>2. PICK key \in Key : area[key] = k
  BY IdleOwnsNothing DEF Ownership
<1>3. {j \in DOMAIN area : area[j] = k} = {key}
  BY <1>1, <1>2, NullAssumption DEF Ownership
<1> QED  BY <1>3, FS_Singleton

LEMMA OwnershipMeansNoLeak == Shape /\ Ownership => NoLeak
  BY OwnedOnce DEF NoLeak

(* Whatever a client does, also when it drops loaders whose classes stay   *)
(* in the method area and retries loads that threw, every Klass object has *)
(* exactly one owner.                                                      *)
THEOREM EveryKlassIsOwned == Spec => []Ownership
<1>1. Shape /\ Ownership /\ [Next]_vars => Ownership'
  BY NextOwnership
<1> QED  BY InitOwnership, <1>1, CallsKeepShape, PTL DEF Spec

(* Between calls, then, every Klass is owned by the method area, under one *)
(* key: a load that throws frees what it has made (class_loader.cpp:73).   *)
THEOREM NothingLeaks == Spec => []NoLeak
  BY OwnershipMeansNoLeak, CallsKeepShape, EveryKlassIsOwned, PTL

-----------------------------------------------------------------------------
(* What can make the cache of a live loader unsound. *)

(* An entry of the method area was made by the loader of its key, or by an *)
(* earlier one at the same address.                                        *)
EntriesMine == \A key \in Key : area[key] # Null => klass[area[key]].loader = key[1]

(* A step that registers nothing and changes the loader of no Klass that   *)
(* an entry owns.                                                          *)
LEMMA EntriesStayMine ==
  ASSUME Shape, Ownership, EntriesMine, UNCHANGED area,
         \A k \in Klass : klass[k].stage # "free" /\ k \notin Owned => klass'[k].loader = klass[k].loader
  PROVE  EntriesMine'
<1>1. area \in [Key -> Klass \cup {Null}]
  BY DEF Shape, TypeOK, Key
<1> QED  BY <1>1 DEF Ownership, EntriesMine

(* A step that changes at most one Klass, and not its loader. *)
LEMMA LoaderStays ==
  ASSUME Shape, NEW k \in Klass, NEW o, klass' = [klass EXCEPT ![k] = o], o.loader = klass[k].loader
  PROVE  \A j \in Klass : klass'[j].loader = klass[j].loader
<1>1. klass \in [Klass -> KlassObject]
  BY DEF Shape, TypeOK
<1> QED  BY <1>1

LEMMA LoadClassKeepsMine ==
  ASSUME Shape, Ownership, EntriesMine, loadClass
  PROVE  EntriesMine'
<1> USE DEF Running, Returned, world, heap, call
<1>0. /\ stack # <<>> /\ Top.klass \in Klass \cup {Null} /\ this \in Addr /\ Top.name \in Name
      /\ Top.at # "enter" => Top.klass \in Klass /\ klass[Top.klass] \in KlassObject
  <2>1. stack # <<>>
    BY DEF loadClass, CacheHit, ClassNotFound, ParseThrows, BeginDefine, LinkNoSuper, SuperNameThrows,
           LoadSuper, SetSuperClass, LoadInterface, InterfaceNameThrows, SetInterface, AddClass,
           PrepareDangling, PrepareRuntimeConstantPool, PrepareMethods, PrepareFieldsAndStatics
  <2> QED  BY <2>1, TopSound DEF Shape, RunsOnLiveLoader, Activation, ActivationSound, TypeOK
<1>1. Throw => EntriesMine'
  BY EntriesStayMine DEF Throw
<1>2. CASE ClassNotFound \/ ParseThrows \/ SuperNameThrows \/ InterfaceNameThrows
  BY <1>1, <1>2 DEF ClassNotFound, ParseThrows, SuperNameThrows, InterfaceNameThrows
<1>3. CASE CacheHit \/ LinkNoSuper \/ LoadSuper \/ LoadInterface \/ PrepareDangling
  <2>1. UNCHANGED <<area, klass>>
    BY <1>3 DEF CacheHit, LinkNoSuper, LoadSuper, LoadInterface, PrepareDangling, Recurse
  <2> QED  BY <2>1 DEF EntriesMine
<1>4. CASE BeginDefine
  <2>1. PICK f \in Files, k \in Klass :
          /\ klass[k].stage = "free"
          /\ klass' = [klass EXCEPT ![k] = [stage |-> "linking", loader |-> this, file |-> f,
                                            super |-> Null, ifaces |-> {}]]
    BY <1>4 DEF BeginDefine, readClassFile
  <2>2. \A j \in Klass : klass[j].stage # "free" => klass'[j] = klass[j]
    BY <2>1 DEF Shape, TypeOK
  <2> QED  BY <1>4, <2>2, EntriesStayMine DEF BeginDefine
<1>5. CASE SetSuperClass
  <2>1. klass' = [klass EXCEPT ![Top.klass] = [klass[Top.klass] EXCEPT !.super = ret]]
    BY <1>5 DEF SetSuperClass
  <2>2. [klass[Top.klass] EXCEPT !.super = ret].loader = klass[Top.klass].loader /\ Top.klass \in Klass
    BY <1>0, <1>5 DEF SetSuperClass, KlassObject
  <2> QED  BY <1>5, <2>1, <2>2, LoaderStays, EntriesStayMine DEF SetSuperClass
<1>6. CASE SetInterface
  <2>1. CASE TopInterface.index < Len(TopFile.ifaces)
    <3>1. klass' = [klass EXCEPT ![Top.klass] = [klass[Top.klass] EXCEPT !.ifaces = @ \cup {ret}]]
      BY <1>6, <2>1 DEF SetInterface
    <3>2. /\ [klass[Top.klass] EXCEPT !.ifaces = @ \cup {ret}].loader = klass[Top.klass].loader
          /\ Top.klass \in Klass
      BY <1>0, <1>6 DEF SetInterface, KlassObject
    <3> QED  BY <1>6, <3>1, <3>2, LoaderStays, EntriesStayMine DEF SetInterface
  <2>2. CASE ~ TopInterface.index < Len(TopFile.ifaces)
    BY <1>6, <2>2 DEF SetInterface, EntriesMine
  <2> QED  BY <2>1, <2>2
<1>7. CASE AddClass
  <2> DEFINE new == <<this, Top.name>>
  <2>1. new \in Key /\ new[1] = this /\ Top.klass \in Klass /\ klass[Top.klass].loader = this
        /\ klass[Top.klass].stage = "linking" /\ Top.klass \in Owned
    <3>1. Top.klass \in Owned
      BY <1>0, <1>7, OwnedByTop DEF AddClass, OwnersByTop
    <3> QED  BY <1>0, <1>7, <3>1, FileOfTop DEF AddClass, Key, Shape, Mine
  <2>2. area \in [Key -> Klass \cup {Null}] /\ klass \in [Klass -> KlassObject]
    BY DEF Shape, TypeOK, Key
  <2>3. CASE area[new] = Null
    <3>1. area' = [area EXCEPT ![new] = Top.klass] /\ klass' = klass
      BY <1>7, <2>3 DEF AddClass
    <3> QED  BY <2>1, <2>2, <3>1 DEF EntriesMine
  <2>4. CASE area[new] # Null
    <3>1. area' = area /\ klass' = [klass EXCEPT ![Top.klass] = Raw]
      BY <1>7, <2>4 DEF AddClass
    <3> QED  BY <2>1, <2>2, <3>1, EntriesStayMine
  <2> QED  BY <2>3, <2>4
<1>8. CASE PrepareRuntimeConstantPool \/ PrepareMethods \/ PrepareFieldsAndStatics
  <2> USE <1>8 DEF PrepareRuntimeConstantPool, PrepareMethods, PrepareFieldsAndStatics
  <2>1. CASE Throw
    BY <1>1, <2>1
  <2>2. CASE ~ Throw
    <3>1. PICK s \in {"pool", "methods", "prepared"} : klass' = [klass EXCEPT ![Top.klass].stage = s]
      BY <2>2
    <3>2. klass' = [klass EXCEPT ![Top.klass] = [klass[Top.klass] EXCEPT !.stage = s]]
      BY <3>1
    <3>3. [klass[Top.klass] EXCEPT !.stage = s].loader = klass[Top.klass].loader /\ Top.klass \in Klass
      BY <1>0 DEF KlassObject
    <3>4. UNCHANGED area
      BY <2>2
    <3> QED  BY <3>2, <3>3, <3>4, LoaderStays, EntriesStayMine
  <2> QED  BY <2>1, <2>2
<1> QED  BY <1>2, <1>3, <1>4, <1>5, <1>6, <1>7, <1>8 DEF loadClass

LEMMA NextKeepsMine ==
  ASSUME Shape, Ownership, EntriesMine, [Next]_vars
  PROVE  EntriesMine'
<1>1. CASE loadClass
  BY <1>1, LoadClassKeepsMine
<1>2. CASE Reset
  BY <1>2 DEF Reset, EntriesMine, EmptyArea, Key
<1>3. CASE \/ CacheDropped \/ UNCHANGED vars
           \/ \E l \in Addr, n \in Name : CallLoadClass(l, n)
           \/ \E l \in Addr, path \in Classpaths : NewLoader(l, path)
           \/ \E l \in Addr : DestroyLoader(l)
  <2>1. UNCHANGED <<area, klass>>
    BY <1>3 DEF CacheDropped, CallLoadClass, NewLoader, DestroyLoader, heap, vars
  <2> QED  BY <2>1 DEF EntriesMine
<1> QED  BY <1>1, <1>2, <1>3 DEF Next

(* A class is cached although it was destroyed only by a load that has met *)
(* another one of its loader's address.                                    *)
LEMMA DroppedMeetsOlder ==
  ASSUME Shape, Ownership, EntriesMine, CacheDropped
  PROVE  /\ MeetsOlderClass
         /\ \A l \in Addr, n \in Name : cache'[l][n] # cache[l][n] => l = this /\ n = Top.name
<1> USE DEF Shape, CacheDropped, Running
<1> DEFINE key == <<this, Top.name>>
<1>1. /\ this \in Addr /\ Top.name \in Name /\ Top.klass \in Klass
      /\ klass[Top.klass].stage = "free" /\ area[key] # Null
  BY TopSound DEF RunsOnLiveLoader, Activation, ActivationSound
<1>2. key \in Key /\ key[1] = this
  BY <1>1 DEF Key
<1>3. klass[area[key]].stage # "free" /\ klass[area[key]].loader = this
  BY <1>1, <1>2 DEF Ownership, EntriesMine
<1>4. MeetsOlderClass
  BY <1>1, <1>3 DEF MeetsOlderClass
<1> QED  BY <1>1, <1>4, CacheEntry

(* A client that destroys loaders, reuses their addresses and retries      *)
(* failed loads in any order can make a live loader's cache unsound in two *)
(* ways only: by MethodArea::reset, and by loading a name whose key still  *)
(* holds an older class.                                                   *)
THEOREM ResetOrReuseBreaksCaches == Spec => CacheBrokenByResetOrReuse
<1> DEFINE Inv == Shape /\ Ownership /\ EntriesMine
           Breaks == CacheSound /\ ~ CacheSound' =>
                       \/ area' = EmptyArea /\ stack' = <<>>
                       \/ /\ MeetsOlderClass
                          /\ \A l \in Addr, n \in Name :
                               cache'[l][n] # cache[l][n] => l = this /\ n = Top.name
<1>1. Init => EntriesMine
  BY DEF Init, EntriesMine, EmptyArea, Key
<1>2. Inv /\ [Next]_vars => EntriesMine'
  BY NextKeepsMine
<1>3. Inv /\ [Next]_vars => [Breaks]_vars
  BY NextShape, DroppedMeetsOlder DEF Reset, Idle, call
<1>4. Spec => [][Breaks]_vars
  BY <1>1, <1>2, <1>3, CallsKeepShape, EveryKlassIsOwned, PTL DEF Spec
<1> QED  BY <1>4 DEF CacheBrokenByResetOrReuse
=============================================================================
