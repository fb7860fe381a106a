------------------------- MODULE VerifiedCode_proofs -------------------------
(***************************************************************************)
(* Verification is enough: code that a verifier accepts, with any stack    *)
(* maps, keeps to them on this interpreter, through calls of any depth,    *)
(* and reads its local variables as they were written.                     *)
(***************************************************************************)
EXTENDS VerifiedCode, Interpreter_proofs

MapsVerified == \A m \in Compiled : Verified(m)

-----------------------------------------------------------------------------
(* The kinds of a sequence of slots *)

LEMMA KindsTyped ==
  ASSUME NEW S, NEW s \in Seq(S)
  PROVE  /\ KindsOf(s) \in Seq({e.k : e \in S}) /\ Len(KindsOf(s)) = Len(s)
         /\ \A i \in 1 .. Len(s) : KindsOf(s)[i] = s[i].k
<1>1. \A i \in 1 .. Len(s) : s[i].k \in {e.k : e \in S}
  OBVIOUS
<1> QED  BY <1>1 DEF KindsOf

LEMMA KindsConcat ==
  ASSUME NEW S, NEW s \in Seq(S), NEW t \in Seq(S)
  PROVE  KindsOf(s \o t) = KindsOf(s) \o KindsOf(t)
<1> DEFINE R == {e.k : e \in S}
<1>1. s \o t \in Seq(S) /\ Len(s \o t) = Len(s) + Len(t)
      /\ \A i \in 1 .. Len(s) + Len(t) : (s \o t)[i] = IF i <= Len(s) THEN s[i] ELSE t[i - Len(s)]
  BY ConcatProperties
<1>2. /\ KindsOf(s) \in Seq(R) /\ Len(KindsOf(s)) = Len(s)
      /\ KindsOf(t) \in Seq(R) /\ Len(KindsOf(t)) = Len(t)
      /\ KindsOf(s \o t) \in Seq(R) /\ Len(KindsOf(s \o t)) = Len(s \o t)
      /\ \A i \in 1 .. Len(s \o t) : KindsOf(s \o t)[i] = (s \o t)[i].k
      /\ \A i \in 1 .. Len(s) : KindsOf(s)[i] = s[i].k
      /\ \A i \in 1 .. Len(t) : KindsOf(t)[i] = t[i].k
  BY <1>1, KindsTyped
<1> HIDE DEF R
<1>3. /\ KindsOf(s) \o KindsOf(t) \in Seq(R)
      /\ Len(KindsOf(s) \o KindsOf(t)) = Len(s) + Len(t)
      /\ \A i \in 1 .. Len(s) + Len(t) :
           (KindsOf(s) \o KindsOf(t))[i] = IF i <= Len(s) THEN KindsOf(s)[i]
                                           ELSE KindsOf(t)[i - Len(s)]
  <2>1. ASSUME NEW u \in Seq(R), NEW v \in Seq(R), Len(u) = Len(s), Len(v) = Len(t)
        PROVE  /\ u \o v \in Seq(R) /\ Len(u \o v) = Len(s) + Len(t)
               /\ \A i \in 1 .. Len(s) + Len(t) :
                    (u \o v)[i] = IF i <= Len(s) THEN u[i] ELSE v[i - Len(s)]
    <3>1. /\ u \o v \in Seq(R) /\ Len(u \o v) = Len(u) + Len(v)
          /\ \A i \in 1 .. Len(u) + Len(v) :
               (u \o v)[i] = IF i <= Len(u) THEN u[i] ELSE v[i - Len(u)]
      BY ConcatProperties
    <3> QED  BY <2>1, <3>1
  <2> QED  BY <1>2, <2>1
<1>4. ASSUME NEW i \in 1 .. Len(s) + Len(t)
      PROVE  KindsOf(s \o t)[i] = (KindsOf(s) \o KindsOf(t))[i]
  <2>1. KindsOf(s \o t)[i] = (s \o t)[i].k
    BY <1>1, <1>2
  <2>2. Len(s) \in Nat /\ Len(t) \in Nat
    OBVIOUS
  <2>3. CASE i <= Len(s)
    <3>1. i \in 1 .. Len(s)
      BY <2>2, <2>3
    <3>2. KindsOf(s)[i] = s[i].k
      BY <1>2, <3>1
    <3> QED  BY <1>1, <1>3, <2>1, <2>3, <3>2
  <2>4. CASE ~ (i <= Len(s))
    <3>1. i - Len(s) \in 1 .. Len(t)
      BY <2>2, <2>4
    <3>2. KindsOf(t)[i - Len(s)] = t[i - Len(s)].k
      BY <1>2, <3>1
    <3> QED  BY <1>1, <1>3, <2>1, <2>4, <3>2
  <2> QED  BY <2>3, <2>4
<1> QED  BY <1>1, <1>2, <1>3, <1>4, SeqEqual

LEMMA KindsDrop ==
  ASSUME NEW S, NEW s \in Seq(S), NEW n \in 0 .. Len(s)
  PROVE  KindsOf(Drop(s, n)) = Drop(KindsOf(s), n)
<1> DEFINE R == {e.k : e \in S}
<1>1. /\ KindsOf(s) \in Seq(R) /\ Len(KindsOf(s)) = Len(s)
      /\ \A i \in 1 .. Len(s) : KindsOf(s)[i] = s[i].k
  BY KindsTyped
<1>2. /\ Drop(s, n) \in Seq(S) /\ Len(Drop(s, n)) = Len(s) - n
      /\ \A i \in 1 .. Len(s) - n : Drop(s, n)[i] = s[i]
  BY DropProperties
<1>3. /\ KindsOf(Drop(s, n)) \in Seq(R) /\ Len(KindsOf(Drop(s, n))) = Len(s) - n
      /\ \A i \in 1 .. Len(s) - n : KindsOf(Drop(s, n))[i] = Drop(s, n)[i].k
  BY <1>2, KindsTyped
<1> HIDE DEF R
<1>4. /\ Drop(KindsOf(s), n) \in Seq(R) /\ Len(Drop(KindsOf(s), n)) = Len(s) - n
      /\ \A i \in 1 .. Len(s) - n : Drop(KindsOf(s), n)[i] = KindsOf(s)[i]
  BY <1>1, DropProperties
<1>5. ASSUME NEW i \in 1 .. Len(s) - n PROVE KindsOf(Drop(s, n))[i] = Drop(KindsOf(s), n)[i]
  <2>1. i \in 1 .. Len(s)
    OBVIOUS
  <2> QED  BY <1>1, <1>2, <1>3, <1>4, <2>1
<1> QED  BY <1>3, <1>4, <1>5, SeqEqual

(* The kinds of a value's words do not depend on the value. *)
LEMMA KindsWords ==
  ASSUME NEW k, NEW x
  PROVE  KindsOf(Words(k, x)) = PushedKinds(k)
<1>1. CASE Width(k) = 2
  <2>1. Words(k, x) = <<Of("i", 0), Of(k, x)>> /\ Words(k, 0) = <<Of("i", 0), Of(k, 0)>>
    BY <1>1 DEF Words
  <2> QED  BY <2>1 DEF KindsOf, PushedKinds, Of
<1>2. CASE Width(k) # 2
  <2>1. Words(k, x) = <<Of(k, x)>> /\ Words(k, 0) = <<Of(k, 0)>>
    BY <1>2 DEF Words
  <2> QED  BY <2>1 DEF KindsOf, PushedKinds, Of
<1> QED  BY <1>1, <1>2

LEMMA KindsPushed ==
  ASSUME NEW ops \in Seq(Slot), NEW k, NEW x
  PROVE  KindsOf(ops \o Words(k, x)) = KindsOf(ops) \o PushedKinds(k)
<1> DEFINE S == Slot \cup {Of("i", 0), Of(k, x)}
<1>1. ops \in Seq(S)
  BY SeqMonotonic
<1>2. Words(k, x) \in Seq(S)
  <2>1. Of("i", 0) \in S /\ Of(k, x) \in S
    OBVIOUS
  <2> HIDE DEF S
  <2>2. ASSUME NEW a \in S, NEW b \in S PROVE <<a>> \in Seq(S) /\ <<a, b>> \in Seq(S)
    OBVIOUS
  <2> QED  BY <2>1, <2>2 DEF Words
<1> HIDE DEF S
<1>3. KindsOf(ops \o Words(k, x)) = KindsOf(ops) \o KindsOf(Words(k, x))
  BY <1>1, <1>2, KindsConcat
<1> QED  BY <1>3, KindsWords

-----------------------------------------------------------------------------
(* The instruction that runs, as the verifier saw it *)

LEMMA AsVerified ==
  /\ Op = OpAt(Top.m, pc) /\ After = NextAt(Top.m, pc)
  /\ LocalIndex(Op) = LocalAt(Top.m, pc)
  /\ PoolIndex = IndexAt(Top.m, pc) /\ Entry = EntryAt(Top.m, pc)
  /\ ArgSlots = ArgsAt(Top.m, pc)
  /\ \A n : Word(n) = WordAt(Top.m, pc, n)
<1>1. Op = OpAt(Top.m, pc)
  BY DEF Op, OpAt, Code
<1>2. After = NextAt(Top.m, pc)
  BY <1>1 DEF After, NextAt
<1>3. LocalIndex(Op) = LocalAt(Top.m, pc)
  BY <1>1 DEF LocalIndex, LocalAt, Code
<1>4. PoolIndex = IndexAt(Top.m, pc)
  BY <1>1 DEF PoolIndex, IndexAt, Code
<1>5. Entry = EntryAt(Top.m, pc)
  BY <1>4 DEF Entry, EntryAt
<1>6. ArgSlots = ArgsAt(Top.m, pc)
  BY <1>5 DEF ArgSlots, ArgsAt, Callee
<1>7. \A n : Word(n) = WordAt(Top.m, pc, n)
  BY DEF Word, WordAt, TableAt, Code
<1> QED  BY <1>1, <1>2, <1>3, <1>4, <1>5, <1>6, <1>7

(* A frame that waits for the one above it, with the result that one will  *)
(* return; and the frame that runs.  The embedder's frame is the first.    *)
WaitsAsMapped(i) ==
  IF i = 1 /\ call.host
  THEN IsHost(frames[1]) /\ frames[1].m = call.method /\ frames[2].m = call.method
  ELSE <<frames[i].callerPC, KindsOf(frames[i].ops) \o ResultKinds(frames[i + 1].m)>>
         \in StackMap[frames[i].m]

RunsAsMapped ==
  IF Len(frames) = 1 /\ call.host
  THEN /\ Top.m = call.method /\ pc = Len(Code) /\ tpc = pc
       /\ KindsOf(Ops) = ResultKinds(call.method)
  ELSE <<pc, KindsOf(Ops)>> \in StackMap[Top.m]

Mapped ==
  /\ \A i \in 1 .. Len(frames) : frames[i].m \in Compiled
  /\ \A i \in 1 .. Len(frames) - 1 : WaitsAsMapped(i)
  /\ frames # <<>> => RunsAsMapped
  /\ call.host => frames # <<>>

(* Where there is an instruction, the frame is not the embedder's.         *)
LEMMA NotTheHost ==
  ASSUME Inv, Mapped, frames # <<>>, pc < Len(Code)
  PROVE  ~ (Len(frames) = 1 /\ call.host)
<1>1. pc # Len(Code)
  BY TopFacts DEF Inv
<1> QED  BY <1>1 DEF Mapped, RunsAsMapped

(* Where there is an instruction, the map has an entry that allows it. *)
LEMMA InstructionIsMapped ==
  ASSUME Inv, Mapped, MapsVerified, NEW S, Fetch(S)
  PROVE  /\ Top.m \in Compiled
         /\ <<pc, KindsOf(Ops)>> \in StackMap[Top.m]
         /\ FlowsOn(Top.m, pc, KindsOf(Ops))
<1>1. frames # <<>> /\ pc < Len(Code) /\ pc \in Nat
  BY FetchFacts
<1>2. Len(frames) \in Nat \ {0} /\ Code \in Seq(Byte)
  BY <1>1, TopFacts DEF Inv
<1>3. Top.m \in Compiled
  BY <1>2 DEF Mapped, Top
<1>4. pc # Len(Code)
  BY <1>1, <1>2
<1>5. <<pc, KindsOf(Ops)>> \in StackMap[Top.m]
  BY <1>1, <1>4 DEF Mapped, RunsAsMapped
<1>6. \A e \in StackMap[Top.m] : FlowsOn(Top.m, e[1], e[2])
  BY <1>3 DEF MapsVerified, Verified
<1>7. FlowsOn(Top.m, <<pc, KindsOf(Ops)>>[1], <<pc, KindsOf(Ops)>>[2])
  BY <1>5, <1>6
<1> QED  BY <1>3, <1>5, <1>7

(* An instruction that stays in its frame and comes to an entry of the map *)
(* leaves the frames below as they were.                                   *)
LEMMA SetTopMapped ==
  ASSUME Inv, Mapped, UNCHANGED call, frames # <<>>, pc < Len(Code),
         NEW f, f.m = Top.m, frames' = SetTop(f),
         <<pc', KindsOf(f.ops)>> \in StackMap[Top.m]
  PROVE  Mapped'
<1>1. Len(frames) \in Nat \ {0} /\ frames \in Seq(Frame)
  BY TopFacts DEF TypeOK, Inv
<1>2. /\ Len(frames') = Len(frames)
      /\ \A i \in 1 .. Len(frames) : frames'[i] = IF i = Len(frames) THEN f ELSE frames[i]
  BY <1>1 DEF SetTop
<1>3. Top' = f
  BY <1>1, <1>2 DEF Top
<1>4. \A i \in 1 .. Len(frames) : frames'[i].m = frames[i].m
  BY <1>1, <1>2 DEF Top
<1>5. ASSUME NEW i \in 1 .. Len(frames) - 1 PROVE WaitsAsMapped(i)'
  <2>1. /\ i \in 1 .. Len(frames) /\ i + 1 \in 1 .. Len(frames) /\ i # Len(frames)
        /\ 1 \in 1 .. Len(frames) /\ 1 # Len(frames)
    <3>1. \A n \in Nat : \A j \in 1 .. n - 1 :
            j \in 1 .. n /\ j + 1 \in 1 .. n /\ j # n /\ 1 \in 1 .. n /\ 1 # n
      OBVIOUS
    <3> QED  BY <1>1, <3>1
  <2>2. frames'[i] = frames[i] /\ frames'[i + 1].m = frames[i + 1].m /\ frames'[1] = frames[1]
    BY <1>2, <1>4, <2>1
  <2>3. WaitsAsMapped(i)
    BY DEF Mapped
  <2> QED  BY <2>2, <2>3 DEF WaitsAsMapped, IsHost
<1>6. ~ (Len(frames) = 1 /\ call.host)
  BY NotTheHost
<1>7. RunsAsMapped'
  BY <1>2, <1>3, <1>6 DEF RunsAsMapped, Ops
<1>8. frames' # <<>>
  BY <1>1, <1>2
<1> QED  BY <1>2, <1>4, <1>5, <1>7, <1>8 DEF Mapped

LEMMA ContinueMapped ==
  ASSUME Inv, Mapped, UNCHANGED call, frames # <<>>, pc < Len(Code), NEW ops, NEW p, Continue(ops, p),
         <<p, KindsOf(ops)>> \in StackMap[Top.m]
  PROVE  Mapped'
<1> DEFINE f == [Top EXCEPT !.ops = ops]
<1>1. f.m = Top.m /\ f.ops = ops
  BY TopFacts DEF Inv, Frame
<1>2. frames' = SetTop(f) /\ pc' = p
  BY DEF Continue
<1> HIDE DEF f
<1> QED  BY <1>1, <1>2, SetTopMapped

LEMMA SetLocalMapped ==
  ASSUME Inv, Mapped, UNCHANGED call, frames # <<>>, pc < Len(Code), NEW slot, NEW ops, SetLocal(slot, ops),
         <<After, KindsOf(ops)>> \in StackMap[Top.m]
  PROVE  Mapped'
<1> DEFINE f == [Top EXCEPT !.locals[LocalIndex(Op) + 1] = slot, !.ops = ops]
<1>1. f.m = Top.m /\ f.ops = ops
  BY TopFacts DEF Inv, Frame
<1>2. frames' = SetTop(f) /\ pc' = After
  BY DEF SetLocal
<1> HIDE DEF f
<1> QED  BY <1>1, <1>2, SetTopMapped

-----------------------------------------------------------------------------
(* Each instruction comes to an entry of the map *)

LEMMA PushMapped ==
  ASSUME Inv, Mapped, UNCHANGED call, MapsVerified, Ignore \/ PushConst \/ PushImmediate
  PROVE  Mapped'
<1>0. /\ Op = OpAt(Top.m, pc) /\ After = NextAt(Top.m, pc)
  BY AsVerified
<1>1. CASE Ignore
  <2>1. Fetch(Ignored) /\ Continue(Ops, After)
    BY <1>1 DEF Ignore
  <2>2. frames # <<>> /\ pc < Len(Code) /\ Op \in Ignored /\ After \in Int
    BY <2>1, FetchFacts
  <2>3. <<After, KindsOf(Ops)>> \in StackMap[Top.m]
    BY <1>0, <2>1, <2>2, InstructionIsMapped DEF FlowsOn
  <2>4. Ops \in Seq(Slot)
    BY <2>2, TopFacts DEF Inv
  <2> QED  BY <2>1, <2>2, <2>3, <2>4, ContinueMapped
<1>2. CASE PushConst
  <2>1. Fetch(1 .. 15) /\ Continue(Ops \o Constants[Op], After)
    BY <1>2 DEF PushConst
  <2>2. frames # <<>> /\ pc < Len(Code) /\ Op \in 1 .. 15 /\ After \in Int
    BY <2>1, FetchFacts
  <2>3. <<After, KindsOf(Ops) \o KindsOf(Constants[Op])>> \in StackMap[Top.m]
    BY <1>0, <2>1, <2>2, InstructionIsMapped DEF FlowsOn
  <2>4. Ops \in Seq(Slot) /\ Constants[Op] \in Seq(Slot)
    BY <2>2, TopFacts, ConstantWords DEF Inv
  <2>5. Ops \o Constants[Op] \in Seq(Slot)
        /\ KindsOf(Ops \o Constants[Op]) = KindsOf(Ops) \o KindsOf(Constants[Op])
    BY <2>4, KindsConcat, ConcatProperties
  <2> QED  BY <2>1, <2>2, <2>3, <2>5, ContinueMapped
<1>3. CASE PushImmediate
  <2>1. PICK x : Fetch({16, 17}) /\ Continue(Ops \o Words("i", Wrap("i", x)), After)
    BY <1>3 DEF PushImmediate
  <2>2. frames # <<>> /\ pc < Len(Code) /\ Op \in {16, 17} /\ After \in Int
    BY <2>1, FetchFacts
  <2>3. <<After, KindsOf(Ops) \o <<"i">>>> \in StackMap[Top.m]
    BY <1>0, <2>1, <2>2, InstructionIsMapped DEF FlowsOn
  <2>4. PushedKinds("i") = <<"i">>
    BY DEF PushedKinds, Words, Width, KindsOf, Of
  <2>5. Ops \in Seq(Slot)
    BY <2>2, TopFacts DEF Inv
  <2>6. KindsOf(Ops \o Words("i", Wrap("i", x))) = KindsOf(Ops) \o <<"i">>
    BY <2>4, <2>5, KindsPushed
  <2> QED  BY <2>1, <2>2, <2>3, <2>6, ContinueMapped
<1> QED  BY <1>1, <1>2, <1>3

LEMMA LoadConstantMapped ==
  ASSUME Inv, Mapped, UNCHANGED call, MapsVerified, LoadConstant
  PROVE  Mapped'
<1>1. /\ Fetch({18, 19, 20})
      /\ \E w \in LoadedWords : Continue(Ops \o w, After)
  BY DEF LoadConstant
<1>2. frames # <<>> /\ pc < Len(Code) /\ Op \in {18, 19, 20} /\ After \in Int
  BY <1>1, FetchFacts
<1>3. Ops \in Seq(Slot)
  BY <1>2, TopFacts DEF Inv
<1>4. PICK w \in LoadedWords : Continue(Ops \o w, After)
  BY <1>1
<1>5. FlowsOn(Top.m, pc, KindsOf(Ops))
  BY <1>1, InstructionIsMapped
<1>6. /\ Op = OpAt(Top.m, pc) /\ After = NextAt(Top.m, pc) /\ Entry = EntryAt(Top.m, pc)
  BY AsVerified
<1>7. PushedKinds("a") = <<"a">>
  BY DEF PushedKinds, Words, Width, KindsOf, Of
<1>8. \/ Op = 20 /\ Entry.tag \in {"l", "d"}
      \/ Op # 20 /\ Entry.tag \in {"i", "f"}
      \/ Op # 20 /\ Entry.tag = "string"
  BY <1>2, <1>5, <1>6 DEF FlowsOn
<1>9. CASE (Op = 20 /\ Entry.tag \in {"l", "d"}) \/ (Op # 20 /\ Entry.tag \in {"i", "f"})
  <2>1. w = Words(Entry.tag, Entry.v)
    BY <1>2, <1>4, <1>9 DEF LoadedWords
  <2>2. <<After, KindsOf(Ops) \o PushedKinds(Entry.tag)>> \in StackMap[Top.m]
    BY <1>2, <1>5, <1>6, <1>9 DEF FlowsOn
  <2>3. KindsOf(Ops \o w) = KindsOf(Ops) \o PushedKinds(Entry.tag)
    BY <1>3, <2>1, KindsPushed
  <2> QED  BY <1>2, <1>4, <2>2, <2>3, ContinueMapped
<1>10. CASE Op # 20 /\ Entry.tag = "string"
  <2>1. PICK x : w = Words("a", x)
    BY <1>2, <1>4, <1>10 DEF LoadedWords
  <2>2. <<After, KindsOf(Ops) \o PushedKinds("a")>> \in StackMap[Top.m]
    BY <1>2, <1>5, <1>6, <1>7, <1>10 DEF FlowsOn
  <2>3. KindsOf(Ops \o w) = KindsOf(Ops) \o PushedKinds("a")
    BY <1>3, <2>1, KindsPushed
  <2> QED  BY <1>2, <1>4, <2>2, <2>3, ContinueMapped
<1> QED  BY <1>8, <1>9, <1>10

LEMMA LocalsMapped ==
  ASSUME Inv, Mapped, UNCHANGED call, MapsVerified, Load \/ Store \/ Increment
  PROVE  Mapped'
<1>0. /\ Op = OpAt(Top.m, pc) /\ After = NextAt(Top.m, pc)
  BY AsVerified
<1>1. CASE Load
  <2>1. PICK x : Fetch(LoadOps) /\ Continue(Ops \o Words(LocalKind(Op), x), After)
    BY <1>1 DEF Load
  <2>2. frames # <<>> /\ pc < Len(Code) /\ Op \in LoadOps
    BY <2>1, FetchFacts
  <2>3. <<After, KindsOf(Ops) \o PushedKinds(LocalKind(Op))>> \in StackMap[Top.m]
    BY <1>0, <2>1, <2>2, InstructionIsMapped DEF FlowsOn
  <2>4. Ops \in Seq(Slot)
    BY <2>2, TopFacts DEF Inv
  <2>5. KindsOf(Ops \o Words(LocalKind(Op), x)) = KindsOf(Ops) \o PushedKinds(LocalKind(Op))
    BY <2>4, KindsPushed
  <2> QED  BY <2>1, <2>2, <2>3, <2>5, ContinueMapped
<1>2. CASE Store
  <2>1. /\ Fetch(StoreOps) /\ Len(Ops) >= Pops(Op)
        /\ \E slot : SetLocal(slot, Drop(Ops, Pops(Op)))
    BY <1>2 DEF Store, Stores, Ready
  <2>2. frames # <<>> /\ pc < Len(Code) /\ Op \in StoreOps /\ Op \in Byte
    BY <2>1, FetchFacts
  <2>3. <<After, Drop(KindsOf(Ops), Pops(Op))>> \in StackMap[Top.m]
    BY <1>0, <2>1, <2>2, InstructionIsMapped DEF FlowsOn
  <2>4. Ops \in Seq(Slot) /\ Pops(Op) \in 0 .. Len(Ops)
    BY <2>1, <2>2, TopFacts, PopsOf DEF Inv
  <2>5. KindsOf(Drop(Ops, Pops(Op))) = Drop(KindsOf(Ops), Pops(Op))
    BY <2>4, KindsDrop
  <2>6. PICK slot : SetLocal(slot, Drop(Ops, Pops(Op)))
    BY <2>1
  <2> QED  BY <2>2, <2>3, <2>5, <2>6, SetLocalMapped
<1>3. CASE Increment
  <2>1. PICK slot : Fetch({132}) /\ SetLocal(slot, Ops)
    BY <1>3 DEF Increment
  <2>2. frames # <<>> /\ pc < Len(Code) /\ Op = 132
    BY <2>1, FetchFacts
  <2>3. <<After, KindsOf(Ops)>> \in StackMap[Top.m]
    BY <1>0, <2>1, <2>2, InstructionIsMapped DEF FlowsOn
  <2> QED  BY <2>1, <2>2, <2>3, SetLocalMapped
<1> QED  BY <1>1, <1>2, <1>3

(* The kinds that a shuffle leaves are the kinds shuffled. *)
LEMMA KindsMoved ==
  ASSUME NEW ops \in Seq(Slot), NEW new, Len(new) \in Nat,
         \A i \in 1 .. Len(new) : new[i] \in 1 .. Len(ops)
  PROVE  LET moved == [i \in 1 .. Len(new) |-> ops[Len(ops) + 1 - new[i]]]
         IN  /\ moved \in Seq(Slot)
             /\ KindsOf(moved) = [i \in 1 .. Len(new) |-> KindsOf(ops)[Len(KindsOf(ops)) + 1 - new[i]]]
<1> DEFINE n == Len(new)
           moved == [i \in 1 .. n |-> ops[Len(ops) + 1 - new[i]]]
<1>1. \A i \in 1 .. n : Len(ops) + 1 - new[i] \in 1 .. Len(ops)
  OBVIOUS
<1>2. KindsOf(ops) \in Seq({s.k : s \in Slot}) /\ Len(KindsOf(ops)) = Len(ops)
      /\ \A i \in 1 .. Len(ops) : KindsOf(ops)[i] = ops[i].k
  BY KindsTyped
<1> HIDE DEF n
<1>3. n \in Nat
  BY DEF n
<1>4. moved \in Seq(Slot) /\ DOMAIN moved = 1 .. n
  <2>1. \A i \in 1 .. n : ops[Len(ops) + 1 - new[i]] \in Slot
    BY <1>1
  <2> QED  BY <1>3, <2>1
<1>5. KindsOf(moved) = [i \in 1 .. n |-> moved[i].k]
  BY <1>4 DEF KindsOf
<1>6. \A i \in 1 .. n : moved[i].k = KindsOf(ops)[Len(KindsOf(ops)) + 1 - new[i]]
  BY <1>1, <1>2
<1> QED  BY <1>4, <1>5, <1>6 DEF n

LEMMA ShuffleMapped ==
  ASSUME Inv, Mapped, UNCHANGED call, MapsVerified, ShuffleStack
  PROVE  Mapped'
<1> DEFINE new   == Pushed[Op - 86]
           moved == [i \in 1 .. Len(new) |-> Ops[Len(Ops) + 1 - new[i]]]
           ks    == KindsOf(Ops)
           after == [i \in 1 .. Len(new) |-> ks[Len(ks) + 1 - new[i]]]
<1>1. /\ Fetch(StackOps) /\ Len(Ops) >= Pops(Op)
      /\ Continue(Drop(Ops, Pops(Op)) \o moved, After)
  BY DEF ShuffleStack, Ready
<1>2. frames # <<>> /\ pc < Len(Code) /\ Op \in StackOps /\ Op \in Byte
  BY <1>1, FetchFacts
<1>3. Ops \in Seq(Slot) /\ Len(Ops) \in Nat
  BY <1>2, TopFacts DEF Inv
<1>4. Op - 86 \in 1 .. 9 /\ Pops(Op) = Popped[Op - 86] /\ Pops(Op) \in Nat
  BY <1>2, PopsOf DEF StackOps
<1>5. \A i \in 1 .. Len(new) : new[i] \in 1 .. Pops(Op)
  BY <1>4, ShufflePositions
<1>6. Len(new) \in Nat
  BY <1>4 DEF Pushed
<1>7. <<After, Drop(ks, Pops(Op)) \o after>> \in StackMap[Top.m]
  <2>1. FlowsOn(Top.m, pc, ks) /\ Op = OpAt(Top.m, pc) /\ After = NextAt(Top.m, pc)
    BY <1>1, AsVerified, InstructionIsMapped
  <2> QED  BY <1>2, <2>1 DEF FlowsOn
<1> HIDE DEF new
<1>8. moved \in Seq(Slot) /\ KindsOf(moved) = after
  <2>1. \A i \in 1 .. Len(new) : new[i] \in 1 .. Len(Ops)
    BY <1>1, <1>3, <1>4, <1>5
  <2> QED  BY <1>3, <1>6, <2>1, KindsMoved
<1>9. /\ Drop(Ops, Pops(Op)) \in Seq(Slot)
      /\ KindsOf(Drop(Ops, Pops(Op))) = Drop(ks, Pops(Op))
  BY <1>1, <1>3, <1>4, DropProperties, KindsDrop
<1> HIDE DEF moved, after, ks
<1>10. KindsOf(Drop(Ops, Pops(Op)) \o moved) = Drop(ks, Pops(Op)) \o after
  BY <1>8, <1>9, KindsConcat
<1>11. Continue(Drop(Ops, Pops(Op)) \o moved, After)
  BY <1>1 DEF moved, new
<1> QED  BY <1>2, <1>7, <1>10, <1>11, ContinueMapped

LEMMA ComputeMapped ==
  ASSUME Inv, Mapped, UNCHANGED call, MapsVerified, Compute
  PROVE  Mapped'
<1>1. PICK r : /\ Fetch(AluOps) /\ Len(Ops) >= Pops(Op)
               /\ Continue(Drop(Ops, Pops(Op)) \o Words(AluOut(Op), r), After)
  BY DEF Compute, Ready
<1>2. frames # <<>> /\ pc < Len(Code) /\ Op \in AluOps /\ Op \in Byte
  BY <1>1, FetchFacts
<1>3. Ops \in Seq(Slot) /\ Pops(Op) \in 0 .. Len(Ops)
  BY <1>1, <1>2, TopFacts, PopsOf DEF Inv
<1>4. <<After, Drop(KindsOf(Ops), Pops(Op)) \o PushedKinds(AluOut(Op))>> \in StackMap[Top.m]
  <2>1. FlowsOn(Top.m, pc, KindsOf(Ops)) /\ Op = OpAt(Top.m, pc) /\ After = NextAt(Top.m, pc)
    BY <1>1, AsVerified, InstructionIsMapped
  <2> QED  BY <1>2, <2>1 DEF FlowsOn
<1>5. /\ Drop(Ops, Pops(Op)) \in Seq(Slot)
      /\ KindsOf(Drop(Ops, Pops(Op))) = Drop(KindsOf(Ops), Pops(Op))
  BY <1>3, DropProperties, KindsDrop
<1>6. KindsOf(Drop(Ops, Pops(Op)) \o Words(AluOut(Op), r))
        = Drop(KindsOf(Ops), Pops(Op)) \o PushedKinds(AluOut(Op))
  BY <1>5, KindsPushed
<1> QED  BY <1>1, <1>2, <1>4, <1>6, ContinueMapped

LEMMA JumpMapped ==
  ASSUME Inv, Mapped, UNCHANGED call, MapsVerified, Branch \/ Goto
  PROVE  Mapped'
<1>0. Op = OpAt(Top.m, pc) /\ After = NextAt(Top.m, pc) /\ Code = Prog[Top.m].code
  BY AsVerified DEF Code
<1>1. CASE Branch
  <2>1. PICK p : /\ Fetch(BranchOps) /\ Len(Ops) >= Pops(Op)
                 /\ Continue(Drop(Ops, Pops(Op)), p)
                 /\ p = After \/ p = pc + readSU2(Code, pc + 1)
    BY <1>1 DEF Branch, Ready
  <2>2. frames # <<>> /\ pc < Len(Code) /\ Op \in BranchOps /\ Op \in Byte
    BY <2>1, FetchFacts
  <2>3. Ops \in Seq(Slot) /\ Pops(Op) \in 0 .. Len(Ops)
    BY <2>1, <2>2, TopFacts, PopsOf DEF Inv
  <2>4. KindsOf(Drop(Ops, Pops(Op))) = Drop(KindsOf(Ops), Pops(Op))
    BY <2>3, KindsDrop
  <2>5. <<p, Drop(KindsOf(Ops), Pops(Op))>> \in StackMap[Top.m]
    <3>1. FlowsOn(Top.m, pc, KindsOf(Ops))
      BY <2>1, InstructionIsMapped
    <3> QED  BY <1>0, <2>1, <2>2, <3>1 DEF FlowsOn
  <2> QED  BY <2>1, <2>2, <2>4, <2>5, ContinueMapped
<1>2. CASE Goto
  <2> DEFINE p == pc + IF Op = 167 THEN readSU2(Code, pc + 1) ELSE readSU4(Code, pc + 1)
  <2>1. Fetch({167, 200}) /\ Continue(Ops, p)
    BY <1>2 DEF Goto
  <2>2. frames # <<>> /\ pc < Len(Code) /\ Op \in {167, 200}
    BY <2>1, FetchFacts
  <2>3. <<p, KindsOf(Ops)>> \in StackMap[Top.m]
    <3>1. FlowsOn(Top.m, pc, KindsOf(Ops))
      BY <2>1, InstructionIsMapped
    <3> QED  BY <1>0, <2>2, <3>1 DEF FlowsOn
  <2> HIDE DEF p
  <2> QED  BY <2>1, <2>2, <2>3, ContinueMapped
<1> QED  BY <1>1, <1>2

(* A switch goes on at one of the offsets of its table. *)
LEMMA SwitchInTable ==
  ASSUME Code \in Seq(Byte), pc \in Nat, HasTable, Op \in SwitchOps, NEW x \in Int
  PROVE  \E n \in OffsetsAt(Top.m, pc) :
           WordAt(Top.m, pc, n) = IF Op = 170 THEN TableTarget(x) ELSE LookupTarget(x)
<1>0. /\ Op = OpAt(Top.m, pc)
      /\ \A n : Word(n) = WordAt(Top.m, pc, n)
  BY AsVerified
<1>1. 0 \in OffsetsAt(Top.m, pc)
  BY DEF OffsetsAt
<1>2. TableAt \in Int /\ Len(Code) \in Nat
  <2>1. ASSUME NEW p \in Nat PROVE p + ((-p) % 4) \in Int
    BY SMT
  <2> QED  BY <2>1 DEF TableAt, align4
<1>3. CASE Op = 170
  <2>1. TableAt + 4 * 3 <= Len(Code)
    BY <1>3 DEF HasTable, HasHeader, Header
  <2>2. Word(1) \in Int /\ Word(2) \in Int
    BY <1>2, <2>1, SwitchWords
  <2>3. CASE x < Word(1) \/ x > Word(2)
    BY <1>0, <1>1, <1>3, <2>3 DEF TableTarget
  <2>4. CASE ~ (x < Word(1) \/ x > Word(2))
    <3>1. 3 + x - Word(1) \in 3 .. 3 + Word(2) - Word(1)
      BY <2>2, <2>4
    <3>2. 3 + x - Word(1) \in OffsetsAt(Top.m, pc)
      BY <1>0, <1>3, <3>1 DEF OffsetsAt
    <3> QED  BY <1>0, <1>3, <2>4, <3>2 DEF TableTarget
  <2> QED  BY <2>3, <2>4
<1>4. CASE Op = 171
  <2>1. TableAt + 4 * 2 <= Len(Code) /\ Entries = Word(1)
    BY <1>4 DEF HasTable, HasHeader, Header, Entries
  <2>2. Word(1) \in Int
    BY <1>2, <2>1, SwitchWords
  <2>3. CASE Matches(x) = {}
    BY <1>0, <1>1, <1>4, <2>3 DEF LookupTarget
  <2>4. CASE Matches(x) # {}
    <3> DEFINE i == CHOOSE k \in Matches(x) : \A j \in Matches(x) : k <= j
    <3>1. Matches(x) \in SUBSET Nat
      BY <2>1, <2>2 DEF Matches
    <3>2. \E k \in Matches(x) : \A j \in Matches(x) : k <= j
      BY <2>4, <3>1, LeastNat
    <3>3. i \in Matches(x)
      BY <3>2
    <3>4. i \in 0 .. Word(1) - 1
      BY <2>1, <3>3 DEF Matches
    <3> HIDE DEF i
    <3>5. 3 + 2 * i \in OffsetsAt(Top.m, pc)
      BY <1>0, <1>4, <3>4 DEF OffsetsAt
    <3>6. LookupTarget(x) = Word(3 + 2 * i)
      BY <2>4 DEF LookupTarget, i
    <3> QED  BY <1>0, <1>4, <3>5, <3>6
  <2> QED  BY <2>3, <2>4
<1> QED  BY <1>3, <1>4 DEF SwitchOps

LEMMA SwitchMapped ==
  ASSUME Inv, Mapped, UNCHANGED call, MapsVerified, Switch
  PROVE  Mapped'
<1> DEFINE to(x) == IF Op = 170 THEN TableTarget(x) ELSE LookupTarget(x)
           ks    == <<"i">>
<1>1. /\ Fetch(SwitchOps) /\ Len(Ops) >= Pops(Op) /\ HasTable
      /\ \E x \in LastOperand(ks) : Continue(Drop(Ops, 1), pc + to(x))
  BY DEF Switch, Ready
<1>2. frames # <<>> /\ pc < Len(Code) /\ Op \in SwitchOps /\ Op \in Byte /\ pc \in Nat
  BY <1>1, FetchFacts
<1>3. ks \in Seq(Kind) /\ Len(ks) \in {1, 2} /\ ks[Len(ks)] = "i" /\ Slots(ks) = 1
  BY DEF Kind, Slots, Width
<1>4. Pops(Op) = 1
  BY <1>2, PopsOf
<1>5. Ops \in Seq(Slot) /\ Code \in Seq(Byte)
  BY <1>2, TopFacts DEF Inv
<1> HIDE DEF ks
<1>6. PICK x \in LastOperand(ks) : Continue(Drop(Ops, 1), pc + to(x))
  BY <1>1
<1>7. x \in Int
  <2>1. x \in Values(ks[Len(ks)])
    BY <1>1, <1>2, <1>3, <1>4, OperandValues
  <2> QED  BY <1>3, <2>1, ValuesAreInts DEF Kind
<1>8. PICK n \in OffsetsAt(Top.m, pc) : WordAt(Top.m, pc, n) = to(x)
  BY <1>1, <1>2, <1>5, <1>7, SwitchInTable
<1> HIDE DEF to
<1>9. <<pc + to(x), Drop(KindsOf(Ops), 1)>> \in StackMap[Top.m]
  <2>1. FlowsOn(Top.m, pc, KindsOf(Ops)) /\ Op = OpAt(Top.m, pc)
    BY <1>1, AsVerified, InstructionIsMapped
  <2>2. <<pc + WordAt(Top.m, pc, n), Drop(KindsOf(Ops), 1)>> \in StackMap[Top.m]
    BY <1>2, <1>4, <2>1 DEF FlowsOn
  <2> QED  BY <1>8, <2>2
<1>10. KindsOf(Drop(Ops, 1)) = Drop(KindsOf(Ops), 1)
  <2>1. 1 \in 0 .. Len(Ops)
    BY <1>1, <1>4, <1>5
  <2> QED  BY <1>5, <2>1, KindsDrop
<1> QED  BY <1>2, <1>6, <1>9, <1>10, ContinueMapped

-----------------------------------------------------------------------------
(* Returns and calls *)

(* The frame below goes on with the result where the map says it does.     *)
LEMMA LeaveMapped ==
  ASSUME Inv, Mapped, UNCHANGED call, frames # <<>>, pc < Len(Code), NEW words \in Seq(Slot), Leave(words),
         KindsOf(words) = ResultKinds(Top.m)
  PROVE  Mapped'
<1> DEFINE rest == Drop(frames, 1)
           n    == Len(rest)
<1>1. Len(frames) \in Nat \ {0} /\ frames \in Seq(Frame)
  BY TopFacts DEF TypeOK, Inv
<1>2. /\ rest \in Seq(Frame) /\ n = Len(frames) - 1 /\ n \in Nat
      /\ \A i \in 1 .. n : rest[i] = frames[i]
  BY <1>1, DropProperties
<1>3. Top = frames[n + 1]
  BY <1>1, <1>2 DEF Top
<1> HIDE DEF rest
<1>4. CASE n = 0
  <2>1. frames' = rest
    BY <1>4 DEF Leave, rest
  <2>2. rest = <<>>
    BY <1>2, <1>4
  <2>3. ~call.host
    BY <1>2, <1>4, NotTheHost
  <2> QED  BY <2>1, <2>2, <2>3 DEF Mapped
<1>5. CASE n # 0
  <2> DEFINE f == [rest[n] EXCEPT !.ops = @ \o words]
  <2>1. frames' = [rest EXCEPT ![n] = f] /\ pc' = rest[n].callerPC
    BY <1>5 DEF Leave, rest
  <2>2. n \in 1 .. n /\ rest[n] \in Frame /\ rest[n] = frames[n]
    BY <1>2, <1>5
  <2>3. f.m = frames[n].m /\ f.ops = frames[n].ops \o words /\ frames[n].ops \in Seq(Slot)
    BY <2>2 DEF Frame
  <2> HIDE DEF f
  <2>4. /\ Len(frames') = n
        /\ \A i \in 1 .. n : frames'[i] = IF i = n THEN f ELSE frames[i]
    BY <1>2, <2>1
  <2>5. \A i \in 1 .. n : frames'[i].m = frames[i].m
    BY <2>3, <2>4
  <2>6. \A i \in 1 .. n : frames'[i].m \in Compiled
    BY <1>1, <1>2, <2>5 DEF Mapped
  <2>7. ASSUME NEW i \in 1 .. n - 1 PROVE WaitsAsMapped(i)'
    <3>1. /\ i \in 1 .. n /\ i + 1 \in 1 .. n /\ i # n /\ 1 \in 1 .. n /\ 1 # n
          /\ i \in 1 .. Len(frames) - 1
      <4>1. \A k \in Nat : \A j \in 1 .. k - 1 :
              j \in 1 .. k /\ j + 1 \in 1 .. k /\ j # k /\ 1 \in 1 .. k /\ 1 # k
        OBVIOUS
      <4> QED  BY <1>2, <4>1
    <3>2. frames'[i] = frames[i] /\ frames'[i + 1].m = frames[i + 1].m /\ frames'[1] = frames[1]
      BY <2>4, <2>5, <3>1
    <3>3. WaitsAsMapped(i)
      BY <3>1 DEF Mapped
    <3> QED  BY <3>2, <3>3 DEF WaitsAsMapped, IsHost
  <2>8. RunsAsMapped'
    <3>1. Top' = f
      BY <2>2, <2>4 DEF Top
    <3>2. WaitsAsMapped(n)
      BY <1>2, <2>2 DEF Mapped
    <3>3. CASE n = 1 /\ call.host
      <4>1. IsHost(frames[1]) /\ frames[1].m = call.method /\ Top.m = call.method
        BY <1>3, <3>2, <3>3 DEF WaitsAsMapped
      <4>2. f.m = call.method /\ f.ops = words /\ rest[n].callerPC = Len(Prog[f.m].code)
        BY <2>2, <2>3, <3>3, <4>1 DEF IsHost
      <4>3. tpc' = pc'
        BY <1>5, <2>1 DEF Leave, rest
      <4> QED  BY <2>1, <2>4, <3>1, <3>3, <4>1, <4>2, <4>3 DEF RunsAsMapped, Code, Ops
    <3>4. CASE ~ (n = 1 /\ call.host)
      <4>1. KindsOf(f.ops) = KindsOf(frames[n].ops) \o ResultKinds(frames[n + 1].m)
        BY <1>3, <2>3, KindsConcat
      <4>2. <<frames[n].callerPC, KindsOf(f.ops)>> \in StackMap[frames[n].m]
        BY <3>2, <3>4, <4>1 DEF WaitsAsMapped
      <4> QED  BY <2>1, <2>2, <2>3, <2>4, <3>1, <3>4, <4>2 DEF RunsAsMapped, Ops
    <3> QED  BY <3>3, <3>4
  <2>9. frames' # <<>>
    BY <1>2, <1>5, <2>4
  <2> QED  BY <2>4, <2>6, <2>7, <2>8, <2>9 DEF Mapped
<1> QED  BY <1>4, <1>5

LEMMA ReturnMapped ==
  ASSUME Inv, Mapped, UNCHANGED call, MapsVerified, ReturnValue \/ ReturnVoid
  PROVE  Mapped'
<1>1. CASE ReturnValue
  <2> DEFINE k  == Kinds[Op - 171]
             ks == <<k>>
  <2>1. /\ Fetch(ReturnOps) /\ Len(Ops) >= Pops(Op)
        /\ \E x \in LastOperand(ks) : Leave(Words(k, x))
    BY <1>1 DEF ReturnValue, Ready
  <2>2. frames # <<>> /\ pc < Len(Code) /\ Op \in ReturnOps /\ Op \in Byte
    BY <2>1, FetchFacts
  <2>3. k \in Kind /\ Pops(Op) = Width(k)
    BY <2>2, ReturnKinds, PopsOf
  <2>4. PushedKinds(k) = ResultKinds(Top.m)
    <3>1. FlowsOn(Top.m, pc, KindsOf(Ops)) /\ Op = OpAt(Top.m, pc)
      BY <2>1, AsVerified, InstructionIsMapped
    <3> QED  BY <2>2, <3>1 DEF FlowsOn
  <2> HIDE DEF k
  <2>5. ks \in Seq(Kind) /\ Len(ks) = 1 /\ ks[Len(ks)] = k /\ Slots(ks) = Width(k)
    BY <2>3 DEF Slots
  <2> HIDE DEF ks
  <2>6. \A x \in LastOperand(ks) : x \in Values(k)
    <3>1. Len(ks) \in {1, 2} /\ Len(Ops) >= Slots(ks)
      BY <2>1, <2>3, <2>5
    <3> QED  BY <2>2, <2>5, <3>1, OperandValues
  <2>7. PICK x \in LastOperand(ks) : Leave(Words(k, x))
    BY <2>1
  <2>8. Words(k, x) \in Seq(Slot)
    BY <2>3, <2>6, WordsSlots
  <2>9. KindsOf(Words(k, x)) = ResultKinds(Top.m)
    BY <2>4, KindsWords
  <2> QED  BY <2>2, <2>7, <2>8, <2>9, LeaveMapped
<1>2. CASE ReturnVoid
  <2>1. Fetch({177})
    BY <1>2 DEF ReturnVoid
  <2>2. Op = 177 /\ Op = OpAt(Top.m, pc) /\ FlowsOn(Top.m, pc, KindsOf(Ops))
    BY <2>1, FetchFacts, AsVerified, InstructionIsMapped
  <2> QED  BY <2>2 DEF FlowsOn
<1> QED  BY <1>1, <1>2

(* A call leaves its frame to wait for the callee's result, and starts the *)
(* callee where its map starts.                                            *)
LEMMA InvokeMapped ==
  ASSUME Inv, Mapped, UNCHANGED call, MapsVerified, InvokeStatic
  PROVE  Mapped'
<1> DEFINE n == Len(frames)
           locals == [i \in 1 .. Prog[Callee].maxLocals |->
                        IF i <= ArgSlots THEN Ops[Len(Ops) - ArgSlots + i] ELSE ZeroSlot]
           caller == [Top EXCEPT !.ops = Drop(Ops, ArgSlots), !.callerPC = After]
           callee == NewFrame(Callee, locals)
<1>1. /\ Fetch({178, 179, 184}) /\ Op = 184 /\ Len(Ops) >= ArgSlots
      /\ Entry.tag = "method" /\ PoolIndex \in DOMAIN Prog[Top.m].pool
      /\ EnterCallee(After)
  BY MethodInPool DEF InvokeStatic, TakesArguments, CallsStatic, Resolves
<1>2. frames # <<>> /\ pc < Len(Code) /\ Op = OpAt(Top.m, pc) /\ After = NextAt(Top.m, pc)
      /\ Entry = EntryAt(Top.m, pc) /\ ArgSlots = ArgsAt(Top.m, pc)
  BY <1>1, FetchFacts, AsVerified
<1>3. n \in Nat \ {0} /\ frames \in Seq(Frame) /\ Top \in Frame /\ Ops \in Seq(Slot)
  BY <1>2, TopFacts DEF Inv, TypeOK
<1>4. ArgSlots \in 0 .. Len(Ops)
  <2>1. Callee \in Method
    BY <1>1, <1>2, TopFacts DEF Inv, IsPoolEntry, Entry, Callee
  <2>2. ArgSlots \in Nat
    BY <2>1, ProgAssumption DEF ProgAssumption, ArgSlots
  <2> QED  BY <1>1, <1>3, <2>2
<1>5. FlowsOn(Top.m, pc, KindsOf(Ops)) /\ Top.m \in Compiled
  BY <1>1, InstructionIsMapped
<1>6. /\ Callee \in Compiled
      /\ <<After, Drop(KindsOf(Ops), ArgSlots) \o ResultKinds(Callee)>> \in StackMap[Top.m]
  BY <1>1, <1>2, <1>5 DEF FlowsOn, Callee
<1>7. frames' = Append(SetTop(caller), callee) /\ pc' = 0
  BY <1>1 DEF EnterCallee
<1>8. /\ caller.m = Top.m /\ caller.ops = Drop(Ops, ArgSlots) /\ caller.callerPC = After
      /\ callee.m = Callee /\ callee.ops = <<>>
  <2>1. callee.m = Callee /\ callee.ops = <<>>
    BY DEF NewFrame
  <2> DEFINE Suspended(g, ops, p) == [g EXCEPT !.ops = ops, !.callerPC = p]
  <2>2. ASSUME NEW g \in Frame, NEW ops, NEW p
        PROVE  /\ Suspended(g, ops, p).m = g.m /\ Suspended(g, ops, p).ops = ops
               /\ Suspended(g, ops, p).callerPC = p
    BY DEF Frame
  <2>3. Top \in Frame /\ caller = Suspended(Top, Drop(Ops, ArgSlots), After)
    BY <1>3
  <2> HIDE DEF callee, caller, Suspended
  <2>4. /\ caller.m = Top.m /\ caller.ops = Drop(Ops, ArgSlots) /\ caller.callerPC = After
    BY <2>2, <2>3
  <2> QED  BY <2>1, <2>4
<1> HIDE DEF caller, callee
<1>9. /\ Len(frames') = n + 1
      /\ \A i \in 1 .. n + 1 : frames'[i] = IF i = n + 1 THEN callee
                                            ELSE IF i = n THEN caller ELSE frames[i]
  BY <1>3, <1>7 DEF SetTop
<1>10. Top = frames[n]
  BY DEF Top
<1>11. ~ (n = 1 /\ call.host)
  BY <1>1, FetchFacts, NotTheHost
<1> HIDE DEF n
<1>12. ASSUME NEW i \in 1 .. n + 1 PROVE frames'[i].m \in Compiled
  <2>1. frames'[i] \in {callee, caller} \/ (frames'[i] = frames[i] /\ i \in 1 .. n)
    BY <1>3, <1>9
  <2>2. \A j \in 1 .. n : frames[j].m \in Compiled
    BY DEF Mapped, n
  <2> QED  BY <1>5, <1>6, <1>8, <2>1, <2>2
<1>13. ASSUME NEW i \in 1 .. n PROVE WaitsAsMapped(i)'
  <2>1. CASE i = n
    <3>1. frames'[n] = caller /\ frames'[n + 1] = callee
      BY <1>3, <1>9
    <3>2. KindsOf(Drop(Ops, ArgSlots)) = Drop(KindsOf(Ops), ArgSlots)
      BY <1>3, <1>4, KindsDrop
    <3> QED  BY <1>6, <1>8, <1>11, <2>1, <3>1, <3>2 DEF WaitsAsMapped
  <2>2. CASE i # n
    <3>1. /\ i \in 1 .. n - 1 /\ i # n /\ i # n + 1 /\ i + 1 # n + 1 /\ 1 # n /\ 1 # n + 1
          /\ i \in 1 .. n + 1 /\ i + 1 \in 1 .. n + 1 /\ 1 \in 1 .. n + 1
      BY <1>3, <2>2
    <3>2. frames'[i] = frames[i] /\ frames'[1] = frames[1]
      BY <1>9, <3>1
    <3>3. frames'[i + 1].m = frames[i + 1].m
      <4>1. frames'[i + 1] = IF i + 1 = n THEN caller ELSE frames[i + 1]
        BY <1>9, <3>1
      <4> QED  BY <1>8, <1>10, <4>1
    <3>4. WaitsAsMapped(i)
      BY <3>1 DEF Mapped, n
    <3> QED  BY <3>2, <3>3, <3>4 DEF WaitsAsMapped, IsHost
  <2> QED  BY <2>1, <2>2
<1>14. RunsAsMapped'
  <2>1. Top' = callee
    BY <1>3, <1>9 DEF Top
  <2>2. KindsOf(<<>>) = <<>>
    BY DEF KindsOf
  <2>3. <<0, <<>>>> \in StackMap[Callee]
    BY <1>6 DEF MapsVerified, Verified
  <2>4. Len(frames') # 1
    BY <1>3, <1>9
  <2> QED  BY <1>7, <1>8, <2>1, <2>2, <2>3, <2>4 DEF RunsAsMapped, Ops
<1>15. Len(frames') - 1 = n /\ frames' # <<>>
  BY <1>3, <1>9
<1> QED  BY <1>9, <1>12, <1>13, <1>14, <1>15 DEF Mapped

-----------------------------------------------------------------------------
(* The map is followed from the embedder's call on *)

Following == RunsCompiled /\ status = "running" => Mapped

LEMMA StartsMapped ==
  ASSUME MapsVerified, VInit
  PROVE  Inv /\ Following
<1>0. call \in Calls /\ Start(call)
  BY DEF VInit
<1>1. Inv
  BY <1>0, StartsWell DEF Init
<1>2. ASSUME call.method \in Compiled PROVE Mapped
  <2> DEFINE host  == [NewFrame(call.method, Zeroed(call.method)) EXCEPT
                         !.callerPC = Len(Prog[call.method].code)]
             first == NewFrame(call.method, call.locals)
  <2>1. frames = (IF call.host THEN <<host>> ELSE <<>>) \o <<first>> /\ pc = 0
    BY <1>0 DEF Start
  <2>2. host.m = call.method /\ IsHost(host)
    BY DEF NewFrame, IsHost
  <2>3. first.m = call.method /\ first.ops = <<>>
    BY DEF NewFrame
  <2>4. <<0, KindsOf(first.ops)>> \in StackMap[call.method]
    <3>1. KindsOf(<<>>) = <<>>
      BY DEF KindsOf
    <3> QED  BY <1>2, <2>3, <3>1 DEF MapsVerified, Verified
  <2> HIDE DEF host, first
  <2>5. CASE call.host
    <3>1. frames = <<host>> \o <<first>>
      BY <2>1, <2>5, Zenon
    <3>2. Len(frames) = 2 /\ frames[1] = host /\ frames[2] = first
      BY <3>1
    <3>3. \A i \in 1 .. 2 : i = 1 \/ i = 2
      OBVIOUS
    <3>4. Len(frames) - 1 = 1 /\ \A i \in 1 .. 1 : i = 1
      BY <3>2
    <3>5. WaitsAsMapped(1)
      BY <2>2, <2>3, <2>5, <3>2 DEF WaitsAsMapped
    <3>6. RunsAsMapped
      BY <2>1, <2>3, <2>4, <3>2 DEF RunsAsMapped, Top, Ops
    <3> QED  BY <1>2, <2>2, <2>3, <3>2, <3>3, <3>4, <3>5, <3>6 DEF Mapped
  <2>6. CASE ~ call.host
    <3>1. frames = <<>> \o <<first>>
      BY <2>1, <2>6, Zenon
    <3>2. Len(frames) = 1 /\ frames[1] = first
      BY <3>1
    <3>3. Len(frames) - 1 = 0 /\ (\A i \in 1 .. 1 : i = 1) /\ 1 .. 0 = {}
      BY <3>2
    <3>4. RunsAsMapped
      BY <2>1, <2>3, <2>4, <3>2 DEF RunsAsMapped, Top, Ops
    <3> QED  BY <1>2, <2>3, <3>2, <3>3, <3>4 DEF Mapped
  <2> QED  BY <2>5, <2>6
<1> QED  BY <1>1, <1>2 DEF Following, RunsCompiled

(* The other instructions end interpret(). *)
LEMMA OthersEnd ==
  ASSUME \/ PoolOverrun \/ LocalOutOfBounds \/ DivideByZero \/ DivideTrap \/ SwitchBadLength
         \/ InvokeBadArguments \/ ResolutionThrows \/ UnsafeMember \/ Underflow
         \/ CodeOverrun \/ InvalidOpcode \/ EndOfThread \/ EndOfCode
  PROVE  status' # "running"
BY DEF PoolOverrun, LocalOutOfBounds, DivideByZero, DivideTrap, SwitchBadLength,
       InvokeBadArguments, ResolutionThrows, UnsafeMember, Underflow, CodeOverrun,
       InvalidOpcode, EndOfThread, EndOfCode, End, Throw

LEMMA NextRuns == Next => status = "running"
BY DEF Next, Ignore, PushConst, PushImmediate, LoadConstant, PoolOverrun, Load, Store, Stores,
       Increment, LocalOutOfBounds, ShuffleStack, Compute, DivideByZero, DivideTrap, Branch,
       Goto, Switch, SwitchBadLength, ReturnValue, ReturnVoid, InvokeStatic, TakesArguments,
       CallsStatic, Resolves, InvokeBadArguments, ResolutionThrows, UnsafeMember, Underflow,
       CodeOverrun, InvalidOpcode, EndOfThread, EndOfCode, Ready, Fetch, AtInstruction

LEMMA StepMapped ==
  ASSUME MapsVerified, Inv, Following, [VNext]_vvars
  PROVE  Following'
<1>1. CASE VNext
  <2>1. Next /\ call' = call /\ status = "running"
    BY <1>1, NextRuns DEF VNext
  <2>2. SUFFICES ASSUME RunsCompiled, status' = "running" PROVE Mapped'
    BY <2>1 DEF Following, RunsCompiled
  <2>3. Mapped
    BY <2>1, <2>2 DEF Following
  <2> QED BY <2>1, <2>2, <2>3, PushMapped, LoadConstantMapped, LocalsMapped, ShuffleMapped,
             ComputeMapped, JumpMapped, SwitchMapped, ReturnMapped, InvokeMapped, OthersEnd
          DEF Next
<1>2. CASE UNCHANGED vvars
  BY <1>2 DEF vvars, vars, Following, RunsCompiled, Mapped, WaitsAsMapped, RunsAsMapped,
              IsHost, Top, Ops, Code
<1> QED  BY <1>1, <1>2

LEMMA MappedFollows ==
  ASSUME Inv, Following
  PROVE  FollowsStackMap
<1>1. SUFFICES ASSUME RunsCompiled, status = "running", NEW i \in DOMAIN frames
               PROVE IF i = Len(frames)
                     THEN RunsAsMapped ELSE WaitsAsMapped(i)
  BY DEF FollowsStackMap, WaitsAsMapped, RunsAsMapped, Top, Ops
<1>2. frames \in Seq(Frame) /\ Len(frames) \in Nat /\ i \in 1 .. Len(frames) /\ frames # <<>>
  BY <1>1 DEF Inv, TypeOK
<1>3. Mapped
  BY <1>1 DEF Following
<1>4. CASE i = Len(frames)
  BY <1>2, <1>3, <1>4 DEF Mapped, RunsAsMapped, Top, Ops
<1>5. CASE i # Len(frames)
  <2>1. i \in 1 .. Len(frames) - 1
    BY <1>2, <1>5
  <2>2. WaitsAsMapped(i)
    BY <1>3, <2>1 DEF Mapped
  <2> QED  BY <1>5, <2>2
<1> QED  BY <1>4, <1>5

(* Verified code keeps to its stack map on this interpreter: every         *)
(* instruction of every frame starts where the map has one, on an operand  *)
(* stack of its kinds, and a suspended frame will go on so, through calls  *)
(* of any depth (the pops, pushes, operand bytes and offsets of            *)
(* interpreter.cpp against those of the instruction set).                  *)
THEOREM VerifiedCodeFollowsItsMap ==
  ASSUME \A m \in Compiled : Verified(m)
  PROVE  VSpec => []FollowsStackMap
<1>0. MapsVerified
  BY DEF MapsVerified
<1>1. VInit => Inv /\ Following
  BY <1>0, StartsMapped
<1>2. Inv /\ Following /\ [VNext]_vvars => (Inv /\ Following)'
  <2>1. ASSUME [VNext]_vvars PROVE [Next]_vars
    BY <2>1 DEF VNext, vvars, vars
  <2> QED  BY <1>0, <2>1, StepKeeps, StepMapped
<1>3. Inv /\ Following => FollowsStackMap
  BY MappedFollows
<1> QED  BY <1>1, <1>2, <1>3, PTL DEF VSpec

-----------------------------------------------------------------------------
(* Local variables are read as they were written *)

LocalsVerifiedToo ==
  /\ MapsVerified
  /\ \A m \in Compiled : LocalsVerified(m)

(* Each local the frame's method uses anywhere has the kind it is used as, *)
(* or nothing has written it.                                              *)
KeepsKinds(f) ==
  \A a \in LocalUses(f.m) : f.locals[LocalAt(f.m, a) + 1].k \in {"z", UsedAs(f.m, a)}

Kept == \A i \in 1 .. Len(frames) : KeepsKinds(frames[i])

KeepingKinds == RunsCompiled /\ status = "running" => Kept

LEMMA SetTopKept ==
  ASSUME Inv, Kept, frames # <<>>, NEW f, frames' = SetTop(f), KeepsKinds(f)
  PROVE  Kept'
<1>1. Len(frames) \in Nat \ {0} /\ frames \in Seq(Frame)
  BY TopFacts DEF TypeOK, Inv
<1>2. /\ Len(frames') = Len(frames)
      /\ \A i \in 1 .. Len(frames) : frames'[i] = IF i = Len(frames) THEN f ELSE frames[i]
  BY <1>1 DEF SetTop
<1> QED  BY <1>2 DEF Kept

LEMMA ContinueKept ==
  ASSUME Inv, Kept, frames # <<>>, NEW ops, NEW p, Continue(ops, p)
  PROVE  Kept'
<1> DEFINE f == [Top EXCEPT !.ops = ops]
<1>1. f.m = Top.m /\ f.locals = Top.locals
  BY TopFacts DEF Inv, Frame
<1>2. frames' = SetTop(f)
  BY DEF Continue
<1>3. KeepsKinds(Top)
  <2>1. Len(frames) \in 1 .. Len(frames)
    BY TopFacts DEF Inv
  <2> QED  BY <2>1 DEF Kept, Top
<1> HIDE DEF f
<1>4. KeepsKinds(f)
  BY <1>1, <1>3 DEF KeepsKinds
<1> QED  BY <1>2, <1>4, SetTopKept

(* A local is set as the kind the method always uses it as. *)
LEMMA SetLocalKept ==
  ASSUME Inv, Kept, LocalsVerifiedToo, frames # <<>>, Top.m \in Compiled,
         pc \in LocalUses(Top.m),
         NEW slot, slot.k = UsedAs(Top.m, pc), NEW ops, SetLocal(slot, ops)
  PROVE  Kept'
<1> DEFINE f == [Top EXCEPT !.locals[LocalIndex(Op) + 1] = slot, !.ops = ops]
           n == LocalAt(Top.m, pc) + 1
<1>0. LocalIndex(Op) = LocalAt(Top.m, pc)
  BY AsVerified
<1>1. f.m = Top.m /\ f.locals = [Top.locals EXCEPT ![n] = slot]
  BY <1>0, TopFacts DEF Inv, Frame
<1>2. frames' = SetTop(f)
  BY DEF SetLocal
<1>3. KeepsKinds(Top)
  <2>1. Len(frames) \in 1 .. Len(frames)
    BY TopFacts DEF Inv
  <2> QED  BY <2>1 DEF Kept, Top
<1> HIDE DEF f
<1>4. ASSUME NEW a \in LocalUses(Top.m)
      PROVE  f.locals[LocalAt(Top.m, a) + 1].k \in {"z", UsedAs(Top.m, a)}
  <2>1. LocalAt(Top.m, a) \in Locals(Top.m) /\ LocalAt(Top.m, pc) \in Locals(Top.m)
        /\ (LocalAt(Top.m, a) = LocalAt(Top.m, pc) => UsedAs(Top.m, a) = UsedAs(Top.m, pc))
    BY DEF LocalsVerifiedToo, LocalsVerified
  <2>2. LocalAt(Top.m, a) + 1 \in DOMAIN Top.locals /\ LocalAt(Top.m, a) \in Int
        /\ LocalAt(Top.m, pc) \in Int
    BY <2>1, TopFacts DEF Inv, Locals
  <2>3. CASE LocalAt(Top.m, a) = LocalAt(Top.m, pc)
    BY <1>1, <2>1, <2>2, <2>3
  <2>4. CASE LocalAt(Top.m, a) # LocalAt(Top.m, pc)
    <3>1. f.locals[LocalAt(Top.m, a) + 1] = Top.locals[LocalAt(Top.m, a) + 1]
      BY <1>1, <2>2, <2>4
    <3> QED  BY <1>3, <3>1 DEF KeepsKinds
  <2> QED  BY <2>3, <2>4
<1>5. KeepsKinds(f)
  BY <1>1, <1>4 DEF KeepsKinds
<1> QED  BY <1>2, <1>5, SetTopKept

LEMMA SettingKept ==
  ASSUME Inv, Mapped, Kept, LocalsVerifiedToo, Store \/ Increment
  PROVE  Kept'
<1>0. Op = OpAt(Top.m, pc)
  BY AsVerified
<1>1. CASE Store
  <2>1. PICK x, ops : Fetch(StoreOps) /\ SetLocal(Of(LocalKind(Op), x), ops)
    BY <1>1 DEF Store, Stores, Ready
  <2>2. frames # <<>> /\ Op \in StoreOps
    BY <2>1, FetchFacts
  <2>3. Top.m \in Compiled /\ <<pc, KindsOf(Ops)>> \in StackMap[Top.m]
    BY <2>1, InstructionIsMapped DEF LocalsVerifiedToo
  <2>4. pc \in LocalUses(Top.m)
    BY <1>0, <2>2, <2>3 DEF LocalUses
  <2>5. Of(LocalKind(Op), x).k = UsedAs(Top.m, pc)
    <3>1. Op # 132
      BY <2>2 DEF StoreOps
    <3> QED  BY <1>0, <3>1 DEF UsedAs, Of
  <2> QED  BY <2>1, <2>2, <2>3, <2>4, <2>5, SetLocalKept
<1>2. CASE Increment
  <2>1. PICK x, ops : Fetch({132}) /\ SetLocal(Of("i", x), ops)
    BY <1>2 DEF Increment
  <2>2. frames # <<>> /\ Op = 132
    BY <2>1, FetchFacts
  <2>3. Top.m \in Compiled /\ <<pc, KindsOf(Ops)>> \in StackMap[Top.m]
    BY <2>1, InstructionIsMapped DEF LocalsVerifiedToo
  <2>4. pc \in LocalUses(Top.m)
    <3>1. OpAt(Top.m, pc) \in LoadOps \cup StoreOps \cup {132}
      BY <1>0, <2>2
    <3> QED  BY <2>3, <3>1 DEF LocalUses
  <2>5. Of("i", x).k = UsedAs(Top.m, pc)
    BY <1>0, <2>2 DEF UsedAs, Of
  <2> QED  BY <2>1, <2>2, <2>3, <2>4, <2>5, SetLocalKept
<1> QED  BY <1>1, <1>2

LEMMA ContinuingKept ==
  ASSUME Inv, Kept,
         \/ Ignore \/ PushConst \/ PushImmediate \/ LoadConstant \/ Load
         \/ ShuffleStack \/ Compute \/ Branch \/ Goto \/ Switch
  PROVE  Kept'
<1>1. frames # <<>> /\ \E ops, p : Continue(ops, p)
  BY DEF Ignore, PushConst, PushImmediate, LoadConstant, Load, ShuffleStack, Compute,
         Branch, Goto, Switch, Ready, Fetch, AtInstruction
<1> QED  BY <1>1, ContinueKept

(* Returning changes no local of the frames that stay. *)
LEMMA ReturningKept ==
  ASSUME Inv, Kept, ReturnValue \/ ReturnVoid
  PROVE  Kept'
<1>1. frames # <<>> /\ \E words : Leave(words)
  BY DEF ReturnValue, ReturnVoid, Ready, Fetch, AtInstruction
<1>2. PICK words : Leave(words)
  BY <1>1
<1> DEFINE rest == Drop(frames, 1)
           n    == Len(rest)
<1>3. Len(frames) \in Nat \ {0} /\ frames \in Seq(Frame)
  BY <1>1, TopFacts DEF TypeOK, Inv
<1>4. /\ rest \in Seq(Frame) /\ n = Len(frames) - 1 /\ n \in Nat
      /\ \A i \in 1 .. n : rest[i] = frames[i]
  BY <1>3, DropProperties
<1> HIDE DEF rest
<1>5. CASE n = 0
  <2>1. frames' = rest /\ rest = <<>>
    BY <1>2, <1>4, <1>5 DEF Leave, rest
  <2> QED  BY <2>1 DEF Kept
<1>6. CASE n # 0
  <2> DEFINE f == [rest[n] EXCEPT !.ops = @ \o words]
  <2>1. frames' = [rest EXCEPT ![n] = f]
    BY <1>2, <1>6 DEF Leave, rest
  <2>2. f.m = frames[n].m /\ f.locals = frames[n].locals
    <3>1. n \in 1 .. n /\ rest[n] \in Frame /\ rest[n] = frames[n]
      BY <1>4, <1>6
    <3> QED  BY <3>1 DEF Frame
  <2> HIDE DEF f
  <2>3. /\ Len(frames') = n
        /\ \A i \in 1 .. n : frames'[i] = IF i = n THEN f ELSE frames[i]
    BY <1>4, <2>1
  <2>4. \A i \in 1 .. n : KeepsKinds(frames[i])
    BY <1>3, <1>4 DEF Kept
  <2> QED  BY <1>4, <2>2, <2>3, <2>4 DEF Kept, KeepsKinds
<1> QED  BY <1>5, <1>6

(* A call passes arguments of the kinds its callee uses. *)
LEMMA InvokeKept ==
  ASSUME Inv, Mapped, Kept, LocalsVerifiedToo, InvokeStatic
  PROVE  Kept'
<1> DEFINE n == Len(frames)
           base == Len(Ops) - ArgSlots
           locals == [i \in 1 .. Prog[Callee].maxLocals |->
                        IF i <= ArgSlots THEN Ops[base + i] ELSE ZeroSlot]
           caller == [Top EXCEPT !.ops = Drop(Ops, ArgSlots), !.callerPC = After]
           callee == NewFrame(Callee, locals)
<1>1. /\ Fetch({178, 179, 184}) /\ Op = 184 /\ Len(Ops) >= ArgSlots
      /\ Entry.tag = "method" /\ PoolIndex \in DOMAIN Prog[Top.m].pool
      /\ EnterCallee(After)
  BY MethodInPool DEF InvokeStatic, TakesArguments, CallsStatic, Resolves
<1>2. frames # <<>> /\ Op = OpAt(Top.m, pc) /\ Entry = EntryAt(Top.m, pc)
      /\ ArgSlots = ArgsAt(Top.m, pc)
  BY <1>1, FetchFacts, AsVerified
<1>3. /\ n \in Nat \ {0} /\ frames \in Seq(Frame) /\ Top \in Frame /\ Ops \in Seq(Slot)
  BY <1>2, TopFacts DEF Inv, TypeOK
<1>4. Callee \in Method /\ ArgSlots \in 0 .. Len(Ops) /\ Prog[Callee].maxLocals \in Nat
  <2>1. Callee \in Method
    BY <1>1, <1>2, TopFacts DEF Inv, IsPoolEntry, Entry, Callee
  <2>2. ArgSlots \in Nat /\ Prog[Callee].maxLocals \in Nat
    BY <2>1, ProgAssumption DEF ProgAssumption, ArgSlots
  <2> QED  BY <1>1, <1>3, <2>1, <2>2
<1>5. /\ Top.m \in Compiled /\ <<pc, KindsOf(Ops)>> \in StackMap[Top.m]
      /\ Callee \in Compiled
  <2>1. /\ Top.m \in Compiled /\ <<pc, KindsOf(Ops)>> \in StackMap[Top.m]
        /\ FlowsOn(Top.m, pc, KindsOf(Ops))
    BY <1>1, InstructionIsMapped DEF LocalsVerifiedToo
  <2> QED  BY <1>1, <1>2, <2>1 DEF FlowsOn, Callee
<1>6. KindsOf(Ops) \in Seq({s.k : s \in Slot}) /\ Len(KindsOf(Ops)) = Len(Ops)
      /\ \A i \in 1 .. Len(Ops) : KindsOf(Ops)[i] = Ops[i].k
  BY <1>3, KindsTyped
<1> DEFINE args == SubSeq(KindsOf(Ops), base + 1, Len(Ops))
<1>7. Accepts(Callee, args)
  <2> DEFINE e == <<pc, KindsOf(Ops)>>
  <2>1. LocalsVerified(Top.m) /\ e \in StackMap[Top.m] /\ e[1] = pc /\ e[2] = KindsOf(Ops)
    BY <1>5 DEF LocalsVerifiedToo
  <2> HIDE DEF e
  <2>2. OpAt(Top.m, e[1]) = 184
    BY <1>1, <1>2, <2>1
  <2>3. Accepts(EntryAt(Top.m, e[1]).v,
                SubSeq(e[2], Len(e[2]) - ArgsAt(Top.m, e[1]) + 1, Len(e[2])))
    BY <2>1, <2>2 DEF LocalsVerified
  <2> QED  BY <1>2, <1>6, <2>1, <2>3 DEF Callee
<1>8. /\ Len(args) = ArgSlots
      /\ \A j \in 1 .. ArgSlots : args[j] = Ops[base + j].k
  <2> DEFINE ks == KindsOf(Ops)
  <2>1. base \in Nat /\ base + ArgSlots = Len(Ops) /\ ArgSlots \in Nat
    BY <1>3, <1>4
  <2>2. \A j \in 1 .. ArgSlots : base + j \in 1 .. Len(Ops) /\ base + 1 + j - 1 = base + j
    BY <2>1
  <2>3. args \in Seq({s.k : s \in Slot}) /\ Len(args) = ArgSlots
        /\ \A j \in 1 .. ArgSlots : args[j] = ks[base + j]
    <3> DEFINE R == {s.k : s \in Slot}
    <3>1. ASSUME NEW t \in Seq(R), NEW b \in Nat, NEW l \in Nat, b + l = Len(t)
          PROVE  /\ SubSeq(t, b + 1, Len(t)) \in Seq(R) /\ Len(SubSeq(t, b + 1, Len(t))) = l
                 /\ \A j \in 1 .. l : SubSeq(t, b + 1, Len(t))[j] = t[b + j]
      <4> HIDE DEF R
      <4> QED  BY <3>1
    <3> HIDE DEF R
    <3>2. ks \in Seq(R) /\ Len(ks) = Len(Ops)
      BY <1>6 DEF R
    <3> HIDE DEF ks
    <3>3. /\ SubSeq(ks, base + 1, Len(ks)) \in Seq(R) /\ Len(SubSeq(ks, base + 1, Len(ks))) = ArgSlots
          /\ \A j \in 1 .. ArgSlots : SubSeq(ks, base + 1, Len(ks))[j] = ks[base + j]
      BY <2>1, <3>1, <3>2
    <3> QED  BY <3>2, <3>3 DEF R, ks
  <2> QED  BY <1>6, <2>2, <2>3
<1> HIDE DEF args
<1>9. frames' = Append(SetTop(caller), callee)
  BY <1>1 DEF EnterCallee
<1>10. caller.m = Top.m /\ caller.locals = Top.locals
  BY <1>3 DEF Frame
<1>11. callee.m = Callee /\ callee.locals = locals
  BY DEF NewFrame
<1>12. KeepsKinds(callee)
  <2>1. SUFFICES ASSUME NEW a \in LocalUses(Callee)
                 PROVE  locals[LocalAt(Callee, a) + 1].k \in {"z", UsedAs(Callee, a)}
    BY <1>11 DEF KeepsKinds
  <2>2. LocalAt(Callee, a) \in 0 .. Prog[Callee].maxLocals - 1
    BY <1>5 DEF LocalsVerifiedToo, LocalsVerified, Locals
  <2>3. LocalAt(Callee, a) + 1 \in 1 .. Prog[Callee].maxLocals
    BY <1>4, <2>2
  <2>4. CASE LocalAt(Callee, a) < ArgSlots
    <3>1. LocalAt(Callee, a) + 1 \in 1 .. ArgSlots
      BY <1>4, <2>2, <2>4
    <3>2. args[LocalAt(Callee, a) + 1] \in {"z", UsedAs(Callee, a)}
      BY <1>7, <1>8, <2>4 DEF Accepts
    <3>3. locals[LocalAt(Callee, a) + 1] = Ops[base + (LocalAt(Callee, a) + 1)]
      BY <2>3, <3>1
    <3> QED  BY <1>8, <3>1, <3>2, <3>3
  <2>5. CASE ~ (LocalAt(Callee, a) < ArgSlots)
    <3>1. ~ (LocalAt(Callee, a) + 1 <= ArgSlots)
      BY <1>4, <2>2, <2>5
    <3>2. locals[LocalAt(Callee, a) + 1] = ZeroSlot
      BY <2>3, <3>1
    <3> QED  BY <3>2 DEF ZeroSlot
  <2> QED  BY <2>4, <2>5
<1> HIDE DEF caller, callee
<1>13. /\ Len(frames') = n + 1
       /\ \A i \in 1 .. n + 1 : frames'[i] = IF i = n + 1 THEN callee
                                             ELSE IF i = n THEN caller ELSE frames[i]
  BY <1>3, <1>9 DEF SetTop
<1>14. KeepsKinds(caller)
  <2>1. KeepsKinds(Top)
    BY <1>3 DEF Kept, Top
  <2> QED  BY <1>10, <2>1 DEF KeepsKinds
<1>15. ASSUME NEW i \in 1 .. n + 1 PROVE KeepsKinds(frames'[i])
  <2>1. CASE i = n + 1 \/ i = n
    BY <1>12, <1>13, <1>14, <2>1
  <2>2. CASE i # n + 1 /\ i # n
    <3>1. i \in 1 .. Len(frames)
      BY <1>3, <2>2
    <3> QED  BY <1>13, <2>2, <3>1 DEF Kept
  <2> QED  BY <2>1, <2>2
<1> HIDE DEF n
<1> QED  BY <1>13, <1>15 DEF Kept

LEMMA StartsKept ==
  ASSUME LocalsVerifiedToo, VInit,
         \A c \in Calls : c.method \in Compiled => Accepts(c.method, KindsOf(c.locals))
  PROVE  KeepingKinds
<1>0. call \in Calls /\ Start(call)
  BY DEF VInit
<1>1. SUFFICES ASSUME call.method \in Compiled PROVE Kept
  BY DEF KeepingKinds, RunsCompiled
<1> DEFINE m     == call.method
           host  == [NewFrame(m, Zeroed(m)) EXCEPT !.callerPC = Len(Prog[m].code)]
           first == NewFrame(m, call.locals)
<1>2. frames = (IF call.host THEN <<host>> ELSE <<>>) \o <<first>>
  BY <1>0 DEF Start
<1>3. host.m = m /\ host.locals = Zeroed(m) /\ first.m = m /\ first.locals = call.locals
  BY DEF NewFrame
<1>4. m \in Method /\ call.locals \in Seq(Slot) /\ Len(call.locals) = Prog[m].maxLocals
      /\ Prog[m].maxLocals \in Nat
  BY <1>0, CallsAssumption, ProgAssumption DEF CallsAssumption, ProgAssumption
<1>5. Accepts(m, KindsOf(call.locals)) /\ LocalsVerified(m)
  BY <1>0, <1>1 DEF LocalsVerifiedToo
<1> HIDE DEF host, first, m
<1>6. \A a \in LocalUses(m) : /\ LocalAt(m, a) + 1 \in 1 .. Prog[m].maxLocals
                              /\ LocalAt(m, a) < Prog[m].maxLocals
  <2>1. \A a \in LocalUses(m) : LocalAt(m, a) \in 0 .. Prog[m].maxLocals - 1
    BY <1>5 DEF LocalsVerified, Locals
  <2> QED  BY <1>4, <2>1
<1>7. KeepsKinds(host)
  <2>1. \A a \in LocalUses(m) : Zeroed(m)[LocalAt(m, a) + 1] = ZeroSlot
    BY <1>6 DEF Zeroed
  <2> QED  BY <1>3, <2>1 DEF KeepsKinds, ZeroSlot
<1>8. KeepsKinds(first)
  <2>1. /\ Len(KindsOf(call.locals)) = Prog[m].maxLocals
        /\ \A i \in 1 .. Prog[m].maxLocals : KindsOf(call.locals)[i] = call.locals[i].k
    BY <1>4, KindsTyped
  <2>2. \A a \in LocalUses(m) : call.locals[LocalAt(m, a) + 1].k \in {"z", UsedAs(m, a)}
    BY <1>5, <1>6, <2>1 DEF Accepts
  <2> QED  BY <1>3, <2>2 DEF KeepsKinds
<1>9. CASE call.host
  <2>1. frames = <<host>> \o <<first>>
    BY <1>2, <1>9, Zenon
  <2>2. Len(frames) = 2 /\ frames[1] = host /\ frames[2] = first
    BY <2>1
  <2> QED  BY <1>7, <1>8, <2>2 DEF Kept
<1>10. CASE ~ call.host
  <2>1. frames = <<>> \o <<first>>
    BY <1>2, <1>10, Zenon
  <2>2. Len(frames) = 1 /\ frames[1] = first
    BY <2>1
  <2> QED  BY <1>8, <2>2 DEF Kept
<1> QED  BY <1>9, <1>10

LEMMA StepKept ==
  ASSUME LocalsVerifiedToo, Inv, Following, KeepingKinds, [VNext]_vvars
  PROVE  KeepingKinds'
<1>1. CASE VNext
  <2>1. Next /\ call' = call /\ status = "running"
    BY <1>1, NextRuns DEF VNext
  <2>2. SUFFICES ASSUME RunsCompiled, status' = "running" PROVE Kept'
    BY <2>1 DEF KeepingKinds, RunsCompiled
  <2>3. Mapped /\ Kept
    BY <2>1, <2>2 DEF Following, KeepingKinds
  <2> QED BY <2>1, <2>2, <2>3, ContinuingKept, SettingKept, ReturningKept, InvokeKept, OthersEnd
          DEF Next
<1>2. CASE UNCHANGED vvars
  BY <1>2 DEF vvars, vars, KeepingKinds, RunsCompiled, Kept
<1> QED  BY <1>1, <1>2

LEMMA KeptIsRead ==
  ASSUME LocalsVerifiedToo, Inv, Mapped, Kept, AtInstruction, Op \in LoadOps \cup {132}
  PROVE  Top.locals[LocalIndex(Op) + 1].k \in {"z", IF Op = 132 THEN "i" ELSE LocalKind(Op)}
<1>1. frames # <<>> /\ pc < Len(Code)
  <2>1. frames # <<>> /\ pc + 0 < Len(Code)
    BY DEF AtInstruction, InCode
  <2> QED  BY <2>1, TopFacts DEF Inv
<1>2. Len(frames) \in Nat \ {0}
  BY <1>1, TopFacts DEF Inv
<1>3. <<pc, KindsOf(Ops)>> \in StackMap[Top.m]
  BY <1>1, NotTheHost DEF Mapped, RunsAsMapped
<1>4. Op = OpAt(Top.m, pc) /\ LocalIndex(Op) = LocalAt(Top.m, pc)
  BY AsVerified
<1>5. pc \in LocalUses(Top.m)
  <2>1. OpAt(Top.m, pc) \in LoadOps \cup StoreOps \cup {132}
    BY <1>4
  <2> QED  BY <1>3, <2>1 DEF LocalUses
<1>6. KeepsKinds(Top)
  BY <1>2 DEF Kept, Top
<1> QED  BY <1>4, <1>5, <1>6 DEF KeepsKinds, UsedAs

-----------------------------------------------------------------------------
(* An instruction finds what it needs *)

AllVerified == \A m \in Compiled : Verified(m) /\ LocalsVerified(m) /\ OperandsVerified(m)

LEMMA FindsItsOperands ==
  ASSUME Inv, Mapped, AllVerified, frames # <<>>, ~ (Len(frames) = 1 /\ call.host)
  PROVE  /\ Top.m \in Compiled
         /\ <<pc, KindsOf(Ops)>> \in StackMap[Top.m]
         /\ FlowsOn(Top.m, pc, KindsOf(Ops))
         /\ FindsOperands(Top.m, pc, KindsOf(Ops))
<1>1. Len(frames) \in Nat \ {0}
  BY TopFacts DEF Inv
<1>2. Top.m \in Compiled /\ <<pc, KindsOf(Ops)>> \in StackMap[Top.m]
  BY <1>1 DEF Mapped, RunsAsMapped, Top
<1>3. \A e \in StackMap[Top.m] : FlowsOn(Top.m, e[1], e[2]) /\ FindsOperands(Top.m, e[1], e[2])
  BY <1>2 DEF AllVerified, Verified, OperandsVerified
<1> DEFINE e == <<pc, KindsOf(Ops)>>
<1>4. e[1] = pc /\ e[2] = KindsOf(Ops) /\ e \in StackMap[Top.m]
  BY <1>2
<1> HIDE DEF e
<1>5. FlowsOn(Top.m, e[1], e[2]) /\ FindsOperands(Top.m, e[1], e[2])
  BY <1>3, <1>4
<1> QED  BY <1>2, <1>4, <1>5

LEMMA PopsTaken ==
  ASSUME NEW op \in Byte
  PROVE  /\ op \in TypedOps => Pops(op) = Slots(KindsTaken(op))
         /\ op \notin TypedOps \cup StackOps => Pops(op) = 0
<1> AluOps = 96 .. 131 \cup 133 .. 152
  BY DEF AluOps, ArithOps, ShiftOps, BitOps, ConvertOps, CompareOps
<1>0. \A k : Slots(<<k>>) = Width(k)
  BY DEF Slots
<1>1. op \in StoreOps => /\ op \notin AluOps /\ op \notin BranchOps
                         /\ op \notin SwitchOps /\ op \notin ReturnOps
  BY DEF StoreOps, BranchOps, SwitchOps, ReturnOps
<1>2. op \in AluOps => /\ op \notin StoreOps /\ op \notin BranchOps
                       /\ op \notin SwitchOps /\ op \notin ReturnOps
  BY DEF StoreOps, BranchOps, SwitchOps, ReturnOps
<1>3. op \in BranchOps => /\ op \notin StoreOps /\ op \notin AluOps
                          /\ op \notin SwitchOps /\ op \notin ReturnOps
  BY DEF StoreOps, BranchOps, SwitchOps, ReturnOps
<1>4. op \in SwitchOps => /\ op \notin StoreOps /\ op \notin AluOps
                          /\ op \notin BranchOps /\ op \notin ReturnOps
  BY DEF StoreOps, BranchOps, SwitchOps, ReturnOps
<1>5. op \in ReturnOps => /\ op \notin StoreOps /\ op \notin AluOps
                          /\ op \notin BranchOps /\ op \notin SwitchOps
  BY DEF StoreOps, BranchOps, SwitchOps, ReturnOps
<1>6. CASE op \in StoreOps
  <2>1. KindsTaken(op) = <<LocalKind(op)>>
    BY <1>1, <1>6 DEF KindsTaken
  <2> QED  BY <1>0, <1>6, <2>1, PopsOf DEF TypedOps
<1>7. CASE op \in AluOps
  <2>1. KindsTaken(op) = AluIn(op)
    BY <1>2, <1>7 DEF KindsTaken
  <2> QED  BY <1>7, <2>1, PopsOf DEF TypedOps
<1>8. CASE op \in BranchOps
  <2>1. KindsTaken(op) = BranchIn(op)
    BY <1>3, <1>8 DEF KindsTaken
  <2> QED  BY <1>8, <2>1, PopsOf DEF TypedOps
<1>9. CASE op \in SwitchOps
  <2>1. KindsTaken(op) = <<"i">>
    BY <1>4, <1>9 DEF KindsTaken
  <2>2. Width("i") = 1
    BY DEF Width
  <2> QED  BY <1>0, <1>9, <2>1, <2>2, PopsOf DEF TypedOps
<1>10. CASE op \in ReturnOps
  <2>1. KindsTaken(op) = <<Kinds[op - 171]>>
    BY <1>5, <1>10 DEF KindsTaken
  <2> QED  BY <1>0, <1>10, <2>1, PopsOf DEF TypedOps
<1>11. CASE op \notin TypedOps
  <2>1. /\ op \notin StoreOps /\ op \notin AluOps /\ op \notin BranchOps
        /\ op \notin SwitchOps /\ op \notin ReturnOps
    BY <1>11 DEF TypedOps
  <2>2. op \notin StackOps => Pops(op) = 0
    BY <2>1 DEF Pops
  <2> QED  BY <1>11, <2>2
<1> QED  BY <1>6, <1>7, <1>8, <1>9, <1>10, <1>11 DEF TypedOps

LEMMA MaxJintIsNat == MaxJint \in Nat
BY SMT DEF MaxJint

(* A table that fits the code is one that the interpreter reads whole.     *)
LEMMA TableInCode ==
  ASSUME Code \in Seq(Byte), pc \in Nat, Op \in SwitchOps, TableFits(Top.m, pc)
  PROVE  HasTable
<1>0. /\ Op = OpAt(Top.m, pc)
      /\ \A n : Word(n) = WordAt(Top.m, pc, n)
  BY AsVerified
<1>1. TableAt \in Nat /\ Len(Code) \in Nat /\ TableAt = align4(pc + 1) /\ Code = Prog[Top.m].code
  <2>1. ASSUME NEW p \in Nat PROVE p + ((-p) % 4) \in Nat
    BY SMT
  <2> QED  BY <2>1 DEF TableAt, align4, Code
<1>2. CASE Op = 170
  <2>1. /\ TableAt + 4 * 3 <= Len(Code) /\ Word(2) - Word(1) + 1 \in 0 .. MaxJint
        /\ TableAt + 4 * (3 + (Word(2) - Word(1) + 1)) <= Len(Code)
    BY <1>0, <1>1, <1>2 DEF TableFits
  <2>2. Word(1) \in Int /\ Word(2) \in Int
    <3>1. TableAt + 4 * 3 <= Len(Code)
      BY <2>1
    <3> QED  BY <1>1, <3>1, SwitchWords
  <2>3. ~Overflow
    <3>1. ASSUME NEW low \in Int, NEW high \in Int, NEW m \in Nat, high - low + 1 \in 0 .. m
          PROVE  ~(high >= low + m) /\ ~(high < (low - m) - 1)
      BY <3>1
    <3>2. Word(2) - Word(1) + 1 \in 0 .. MaxJint
      BY <2>1
    <3>3. ~(Word(2) >= Word(1) + MaxJint) /\ ~(Word(2) < (Word(1) - MaxJint) - 1)
      BY <2>2, <3>1, <3>2, MaxJintIsNat, Zenon
    <3> QED  BY <3>3, Zenon DEF Overflow
  <2>4. Word(2) - Word(1) + 1 >= 0
    BY <2>1, <2>2, MaxJintIsNat
  <2> QED  BY <1>2, <2>1, <2>2, <2>3, <2>4 DEF HasTable, HasHeader, Header, Entries, TableSize
<1>3. CASE Op = 171
  <2>1. /\ TableAt + 4 * 2 <= Len(Code) /\ 2 * Word(1) \in 0 .. MaxJint
        /\ TableAt + 4 * (2 + 2 * Word(1)) <= Len(Code)
    BY <1>0, <1>1, <1>3 DEF TableFits
  <2>2. Word(1) \in Int
    BY <1>1, <2>1, SwitchWords
  <2>3. ~Overflow
    BY <1>3 DEF Overflow
  <2>4. Word(1) >= 0
    BY <2>1, <2>2, MaxJintIsNat
  <2> QED  BY <1>3, <2>1, <2>2, <2>3, <2>4 DEF HasTable, HasHeader, Header, Entries, TableSize
<1> QED  BY <1>2, <1>3 DEF SwitchOps

(* Every condition under which an instruction throws or reads outside its  *)
(* code, its pool, its stack or its locals is false.                       *)
LEMMA NothingIsMissing ==
  ASSUME Inv, Mapped, AllVerified, AtInstruction
  PROVE  /\ frames # <<>> /\ Op \in Byte
         /\ InCode(Operands(Op)) /\ Len(Ops) >= Pops(Op)
         /\ Op \notin {177, 178, 179} \cup (202 .. 255)
         /\ Op \in TypedOps => EndsWith(KindsOf(Ops), KindsTaken(Op))
         /\ Op \in SwitchOps => HasTable
         /\ Op \in {18, 19, 20, 184} => PoolIndex \in DOMAIN Prog[Top.m].pool
         /\ Op \in LoadOps \cup StoreOps \cup {132} => LocalIndex(Op) \in Locals(Top.m)
         /\ Op = 184 => /\ Entry.tag = "method" /\ Prog[Callee].static
                        /\ ArgSlots <= Len(Ops) /\ ArgSlots <= Prog[Callee].maxLocals
<1>1. frames # <<>> /\ pc >= 0 /\ pc + 0 < Len(Code)
  BY DEF AtInstruction, InCode
<1>2. pc \in Nat /\ pc < Len(Code) /\ Code \in Seq(Byte) /\ Ops \in Seq(Slot)
  BY <1>1, TopFacts DEF Inv
<1>3. Op \in Byte
  <2>1. pc + 1 \in 1 .. Len(Code)
    BY <1>2
  <2> QED  BY <1>2, <2>1 DEF Op, readU1
<1>4. /\ Top.m \in Compiled
      /\ <<pc, KindsOf(Ops)>> \in StackMap[Top.m]
      /\ FlowsOn(Top.m, pc, KindsOf(Ops))
      /\ FindsOperands(Top.m, pc, KindsOf(Ops))
  BY <1>1, <1>2, NotTheHost, FindsItsOperands
<1>5. /\ Op = OpAt(Top.m, pc) /\ After = NextAt(Top.m, pc)
      /\ LocalIndex(Op) = LocalAt(Top.m, pc)
      /\ PoolIndex = IndexAt(Top.m, pc) /\ Entry = EntryAt(Top.m, pc)
      /\ ArgSlots = ArgsAt(Top.m, pc) /\ Code = Prog[Top.m].code
  BY AsVerified DEF Code
<1>6. Len(KindsOf(Ops)) = Len(Ops)
  BY <1>2, KindsTyped
<1>7. InCode(Operands(Op))
  <2>1. After <= Len(Code) /\ After = pc + 1 + Operands(Op)
    BY <1>4, <1>5 DEF FindsOperands, After
  <2>2. Operands(Op) \in Nat
    BY DEF Operands
  <2> QED  BY <1>2, <2>1, <2>2 DEF InCode
<1>8. /\ Op \notin {177, 178, 179} \cup (202 .. 255)
  BY <1>4, <1>5 DEF FindsOperands, FlowsOn
<1>9. Op \in TypedOps => EndsWith(KindsOf(Ops), KindsTaken(Op))
  BY <1>4, <1>5 DEF FindsOperands
<1>10. Op \in SwitchOps => HasTable
  BY <1>2, <1>4, <1>5, TableInCode DEF FindsOperands
<1>11. Op \in {18, 19, 20, 184} => PoolIndex \in DOMAIN Prog[Top.m].pool
  BY <1>4, <1>5 DEF FindsOperands
<1>12. Op \in LoadOps \cup StoreOps \cup {132} => LocalIndex(Op) \in Locals(Top.m)
  <2>1. SUFFICES ASSUME Op \in LoadOps \cup StoreOps \cup {132}
                 PROVE  LocalIndex(Op) \in Locals(Top.m)
    OBVIOUS
  <2>2. pc \in LocalUses(Top.m)
    <3>1. OpAt(Top.m, pc) \in LoadOps \cup StoreOps \cup {132}
      BY <1>5, <2>1
    <3> QED  BY <1>4, <3>1 DEF LocalUses
  <2>3. LocalsVerified(Top.m)
    BY <1>4 DEF AllVerified
  <2> QED  BY <1>5, <2>2, <2>3 DEF LocalsVerified
<1>13. Op = 184 => /\ Entry.tag = "method" /\ Prog[Callee].static
                   /\ ArgSlots <= Len(Ops) /\ ArgSlots <= Prog[Callee].maxLocals
  <2>1. Op = 184 => Entry.tag = "method"
    BY <1>4, <1>5 DEF FlowsOn
  <2>2. Op = 184 => /\ Prog[Callee].static
                    /\ ArgSlots <= Len(KindsOf(Ops)) /\ ArgSlots <= Prog[Callee].maxLocals
    BY <1>4, <1>5 DEF FindsOperands, Callee
  <2> QED  BY <1>6, <2>1, <2>2
<1>14. Len(Ops) >= Pops(Op)
  <2>1. CASE Op \in TypedOps
    BY <1>3, <1>6, <1>9, <2>1, PopsTaken DEF EndsWith
  <2>2. CASE Op \in StackOps
    BY <1>4, <1>5, <1>6, <2>2 DEF FindsOperands
  <2>3. CASE Op \notin TypedOps \cup StackOps
    BY <1>2, <1>3, <2>3, PopsTaken
  <2> QED  BY <2>1, <2>2, <2>3
<1> QED  BY <1>1, <1>3, <1>7, <1>8, <1>9, <1>10, <1>11, <1>12, <1>13, <1>14

LEMMA FoundIsRead ==
  ASSUME AllVerified, Inv, Following, KeepingKinds
  PROVE  ReadsAsWritten
<1>1. SUFFICES ASSUME RunsCompiled, AtInstruction
               PROVE  /\ Op \in LoadOps \cup {132} =>
                           Top.locals[LocalIndex(Op) + 1].k \in
                             {"z", IF Op = 132 THEN "i" ELSE LocalKind(Op)}
                      /\ Op \in TypedOps => EndsWith(KindsOf(Ops), KindsTaken(Op))
  BY DEF ReadsAsWritten
<1>2. Mapped /\ Kept
  BY <1>1 DEF AtInstruction, Following, KeepingKinds
<1>3. LocalsVerifiedToo
  BY DEF AllVerified, LocalsVerifiedToo, MapsVerified
<1> QED  BY <1>1, <1>2, <1>3, KeptIsRead, NothingIsMissing

(* Verified code reads every local variable through the union member it    *)
(* was last written through, by itself or by its caller's arguments, and   *)
(* every operand through the one it was pushed through (local_variables.h, *)
(* operand_stack.h, slot.h).                                               *)
THEOREM VerifiedCodeReadsAsWritten ==
  ASSUME \A m \in Compiled : Verified(m) /\ LocalsVerified(m) /\ OperandsVerified(m),
         \A c \in Calls : c.method \in Compiled => Accepts(c.method, KindsOf(c.locals))
  PROVE  VSpec => []ReadsAsWritten
<1>0. LocalsVerifiedToo /\ MapsVerified /\ AllVerified
  BY DEF LocalsVerifiedToo, MapsVerified, AllVerified
<1> DEFINE I == Inv /\ Following /\ KeepingKinds
<1>1. VInit => I
  BY <1>0, StartsMapped, StartsKept
<1>2. I /\ [VNext]_vvars => I'
  <2>1. ASSUME [VNext]_vvars PROVE [Next]_vars
    BY <2>1 DEF VNext, vvars, vars
  <2> QED  BY <1>0, <2>1, StepKeeps, StepMapped, StepKept
<1>3. I => ReadsAsWritten
  BY <1>0, FoundIsRead
<1> QED  BY <1>1, <1>2, <1>3, PTL DEF VSpec

-----------------------------------------------------------------------------
(* Verified code returns *)

(* Of all that ends interpret(), only a division happens at an instruction *)
(* of verified code.                                                       *)
LEMMA OnlyDivisionsEnd ==
  ASSUME Inv, Mapped, AllVerified, AtInstruction
  PROVE  /\ ~PoolOverrun /\ ~LocalOutOfBounds /\ ~SwitchBadLength /\ ~InvokeBadArguments
         /\ ~ResolutionThrows /\ ~UnsafeMember /\ ~Underflow /\ ~CodeOverrun
         /\ ~InvalidOpcode /\ ~ReturnVoid
<1>0. /\ InCode(Operands(Op)) /\ Len(Ops) >= Pops(Op)
      /\ Op \notin {177, 178, 179} \cup (202 .. 255)
      /\ Op \in SwitchOps => HasTable
      /\ Op \in {18, 19, 20, 184} => PoolIndex \in DOMAIN Prog[Top.m].pool
      /\ Op \in LoadOps \cup StoreOps \cup {132} => LocalIndex(Op) \in Locals(Top.m)
      /\ Op = 184 => /\ Entry.tag = "method" /\ Prog[Callee].static
                     /\ ArgSlots <= Len(Ops) /\ ArgSlots <= Prog[Callee].maxLocals
      /\ frames # <<>> /\ Op \in Byte
  BY NothingIsMissing
<1>1. Ops \in Seq(Slot) /\ Len(Ops) \in Nat
  BY <1>0, TopFacts DEF Inv
<1>2. Pops(Op) \in Nat
  BY <1>0, PopsOf
<1>3. ~PoolOverrun
  BY <1>0 DEF PoolOverrun, Fetch, HasEntry
<1>4. ~LocalOutOfBounds
  BY <1>0 DEF LocalOutOfBounds, Ready, Fetch
<1>5. ~SwitchBadLength
  <2>1. SUFFICES ASSUME SwitchBadLength PROVE FALSE
    OBVIOUS
  <2>2. Op \in SwitchOps /\ Entries < 0 /\ HasTable
    BY <1>0, <2>1 DEF SwitchBadLength, Fetch
  <2>3. Entries \in Int
    <3>1. Code \in Seq(Byte) /\ pc \in Nat
      BY <1>0, TopFacts DEF Inv, AtInstruction
    <3>2. Op = 170 \/ Op = 171
      BY <2>2 DEF SwitchOps
    <3>3. TableAt \in Int /\ Len(Code) \in Nat
      <4>1. ASSUME NEW p \in Nat PROVE p + ((-p) % 4) \in Int
        BY SMT
      <4> QED  BY <3>1, <4>1 DEF TableAt, align4
    <3>4. /\ Op = 170 => TableAt + 4 * 3 <= Len(Code)
          /\ Op = 171 => TableAt + 4 * 2 <= Len(Code)
      BY <2>2, <3>2 DEF HasTable, HasHeader, Header
    <3>5. Word(1) \in Int /\ (Op = 170 => Word(2) \in Int)
      BY <3>1, <3>2, <3>3, <3>4, SwitchWords
    <3> QED  BY <3>2, <3>5 DEF Entries
  <2>4. Entries >= 0
    BY <2>2 DEF HasTable
  <2> QED  BY <2>2, <2>3, <2>4
<1>6. ~InvokeBadArguments
  <2>1. SUFFICES ASSUME InvokeBadArguments PROVE FALSE
    OBVIOUS
  <2>2. Op = 184 /\ (Len(Ops) < ArgSlots \/ ArgSlots > Prog[Callee].maxLocals)
    BY <2>1 DEF InvokeBadArguments, CallsStatic
  <2>3. Callee \in Method
    <3>1. PoolIndex \in DOMAIN Prog[Top.m].pool /\ Entry.tag = "method"
      BY <1>0, <2>2
    <3>2. IsPoolEntry(Entry)
      BY <1>0, <3>1, TopFacts DEF Inv, Entry
    <3> QED  BY <3>1, <3>2 DEF IsPoolEntry, Callee
  <2>4. ArgSlots \in Nat /\ Prog[Callee].maxLocals \in Nat
    BY <2>3, ProgAssumption DEF ProgAssumption, ArgSlots
  <2> QED  BY <1>0, <1>1, <2>2, <2>4
<1>7. ~ResolutionThrows
  BY <1>0 DEF ResolutionThrows, Resolves, Fetch
<1>8. ~UnsafeMember
  BY <1>0 DEF UnsafeMember, Resolves, Fetch
<1>9. ~Underflow
  <2>1. Underflow => Len(Ops) < Pops(Op)
    BY DEF Underflow
  <2>2. \A n, p \in Nat : n >= p => ~ (n < p)
    OBVIOUS
  <2>3. Len(Ops) >= Pops(Op)
    BY <1>0, Zenon
  <2> QED  BY <1>1, <1>2, <2>1, <2>2, <2>3
<1>10. ~CodeOverrun
  <2>1. Op \in BranchOps => Operands(Op) = 2
    BY DEF BranchOps, Operands
  <2> QED  BY <1>0, <2>1 DEF CodeOverrun
<1>11. ~InvalidOpcode /\ ~ReturnVoid
  BY <1>0 DEF InvalidOpcode, ReturnVoid, Fetch
<1> QED  BY <1>3, <1>4, <1>5, <1>6, <1>7, <1>8, <1>9, <1>10, <1>11

LEMMA DivisionsEnd ==
  ASSUME Inv, DivideByZero \/ DivideTrap
  PROVE  status' # "returned" /\ frames' # <<>> /\ DividesInts(Op)'
<1>1. Fetch(AluOps) /\ DividesInts(Op) /\ status' # "returned"
      /\ \/ frames' = frames
         \/ \E ops : frames' = SetTop([Top EXCEPT !.ops = ops])
      /\ pc' = pc
  BY DEF DivideByZero, DivideTrap, Ready, ThrowsDivide, Traps, Throw, End
<1>2. frames # <<>>
  BY <1>1, FetchFacts
<1>3. Len(frames) \in Nat \ {0} /\ frames \in Seq(Frame) /\ Top \in Frame
  BY <1>2, TopFacts DEF TypeOK, Inv
<1>4. frames' # <<>> /\ Top'.m = Top.m
  <2>1. CASE frames' = frames
    BY <1>2, <2>1 DEF Top
  <2>2. ASSUME NEW ops, frames' = SetTop([Top EXCEPT !.ops = ops]) PROVE frames' # <<>> /\ Top'.m = Top.m
    <3> DEFINE f == [Top EXCEPT !.ops = ops]
    <3>1. f.m = Top.m
      BY <1>3 DEF Frame
    <3> HIDE DEF f
    <3>2. frames' = [frames EXCEPT ![Len(frames)] = f]
      BY <2>2 DEF SetTop, f
    <3>3. Len(frames') = Len(frames) /\ frames'[Len(frames)] = f
      BY <1>3, <3>2
    <3> QED  BY <1>3, <3>1, <3>3 DEF Top
  <2> QED  BY <1>1, <2>1, <2>2
<1>5. Op' = Op
  BY <1>1, <1>4 DEF Op, Code
<1> QED  BY <1>1, <1>4, <1>5 DEF DividesInts

LEMMA StepReturns ==
  ASSUME AllVerified, Inv, Following, ReturnsAsDeclared, [VNext]_vvars
  PROVE  ReturnsAsDeclared'
<1>1. CASE VNext
  <2>1. Next /\ call' = call /\ status = "running"
    BY <1>1, NextRuns DEF VNext
  <2>2. SUFFICES ASSUME RunsCompiled, status' # "running" PROVE ReturnsAsDeclared'
    BY <2>1 DEF ReturnsAsDeclared, RunsCompiled
  <2>3. Mapped
    BY <2>1, <2>2 DEF Following
  <2>4. CASE AtInstruction
    <3>1. DivideByZero \/ DivideTrap
      <4>1. ~EndOfThread /\ ~EndOfCode
        BY <2>4 DEF EndOfThread, EndOfCode, AtInstruction
      <4>2. ASSUME \/ Ignore \/ PushConst \/ PushImmediate \/ LoadConstant \/ Load \/ Store
                   \/ Increment \/ ShuffleStack \/ Compute \/ Branch \/ Goto \/ Switch
                   \/ ReturnValue \/ InvokeStatic
            PROVE  status' = status
        BY <4>2 DEF Ignore, PushConst, PushImmediate, LoadConstant, Load, Store, Increment,
                    ShuffleStack, Compute, Branch, Goto, Switch, ReturnValue, InvokeStatic,
                    Continue, SetLocal, EnterCallee
      <4> QED  BY <2>1, <2>2, <2>3, <2>4, <4>1, <4>2, OnlyDivisionsEnd DEF Next
    <3> QED  BY <3>1, DivisionsEnd DEF ReturnsAsDeclared
  <2>5. CASE ~AtInstruction
    <3>1. EndOfThread \/ EndOfCode
      BY <2>1, <2>5 DEF AtInstruction, EndOfThread, EndOfCode, Next, Ignore, PushConst,
         PushImmediate, LoadConstant, PoolOverrun, Load, Store, Stores, Increment,
         LocalOutOfBounds, ShuffleStack, Compute, DivideByZero, DivideTrap, Branch, Goto,
         Switch, SwitchBadLength, ReturnValue, ReturnVoid, InvokeStatic, TakesArguments,
         CallsStatic, Resolves, InvokeBadArguments, ResolutionThrows, UnsafeMember,
         Underflow, CodeOverrun, InvalidOpcode, Ready, Fetch
    <3>2. status' = "returned" /\ frames' = frames /\ pc' = pc /\ tpc' = tpc
      BY <3>1 DEF EndOfThread, EndOfCode, End
    <3>3. CASE frames = <<>>
      <4>1. ~call.host
        BY <2>3, <3>3 DEF Mapped
      <4> QED  BY <2>1, <3>2, <3>3, <4>1 DEF ReturnsAsDeclared
    <3>4. CASE frames # <<>>
      <4>1. Len(frames) = 1 /\ call.host
        <5>1. SUFFICES ASSUME ~ (Len(frames) = 1 /\ call.host) PROVE FALSE
          OBVIOUS
        <5>2. FindsOperands(Top.m, pc, KindsOf(Ops))
          BY <2>3, <3>4, <5>1, FindsItsOperands
        <5>3. pc >= 0 /\ pc + 1 + Operands(OpAt(Top.m, pc)) <= Len(Code)
          BY <5>2 DEF FindsOperands, NextAt, Code
        <5>4. Operands(OpAt(Top.m, pc)) \in Nat
          BY DEF Operands
        <5>5. pc \in Int /\ Len(Code) \in Nat
          BY <3>4, TopFacts DEF Inv
        <5>6. pc >= 0 /\ InCode(0)
          BY <5>3, <5>4, <5>5 DEF InCode
        <5> QED  BY <2>1, <2>5, <3>4, <5>6 DEF AtInstruction
      <4>2. /\ Top.m = call.method /\ pc = Len(Code) /\ tpc = pc
            /\ KindsOf(Ops) = ResultKinds(call.method)
        BY <2>3, <3>4, <4>1 DEF Mapped, RunsAsMapped
      <4> QED  BY <2>1, <3>2, <4>1, <4>2 DEF ReturnsAsDeclared, Top, Ops, Code
    <3> QED  BY <3>3, <3>4
  <2> QED  BY <2>4, <2>5
<1>2. CASE UNCHANGED vvars
  BY <1>2 DEF vvars, vars, ReturnsAsDeclared, RunsCompiled, Top, Ops, Code, Op
<1> QED  BY <1>1, <1>2

(* A call of verified code throws nothing, reads nothing outside its code, *)
(* its pool, its operand stack and its locals, and comes back to the       *)
(* embedder with a result of the declared kind, unless it ends in an       *)
(* integer division (interpreter.cpp from the first instruction to the     *)
(* return into the embedder's frame).                                      *)
THEOREM VerifiedCodeReturns ==
  ASSUME \A m \in Compiled : Verified(m) /\ LocalsVerified(m) /\ OperandsVerified(m)
  PROVE  VSpec => []ReturnsAsDeclared
<1>0. MapsVerified /\ AllVerified
  BY DEF MapsVerified, AllVerified
<1> DEFINE I == Inv /\ Following /\ ReturnsAsDeclared
<1>1. VInit => I
  <2>1. VInit => status = "running"
    BY DEF VInit, Start
  <2> QED  BY <1>0, <2>1, StartsMapped DEF ReturnsAsDeclared
<1>2. I /\ [VNext]_vvars => I'
  <2>1. ASSUME [VNext]_vvars PROVE [Next]_vars
    BY <2>1 DEF VNext, vvars, vars
  <2> QED  BY <1>0, <2>1, StepKeeps, StepMapped, StepReturns
<1>3. I => ReturnsAsDeclared
  OBVIOUS
<1> QED  BY <1>1, <1>2, <1>3, PTL DEF VSpec
=============================================================================
