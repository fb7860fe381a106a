------------------------- MODULE Interpreter_proofs -------------------------
(***************************************************************************)
(* The interpreter's type invariant and the chain of calls, for every      *)
(* program, every width and every depth: no instruction, verified or not,  *)
(* leaves an ill-typed frame or a suspended frame that would go on         *)
(* anywhere but after the call of the method above it.  From the invariant *)
(* follows that computing instructions leave on the stack what they mean.  *)
(***************************************************************************)
EXTENDS Interpreter, Alu_proofs, SequenceTheorems

Inv == TypeOK /\ CallChain

Status == {"running", "returned", "threw", "undefined"}

-----------------------------------------------------------------------------
(* Sequences *)

LEMMA DropProperties ==
  ASSUME NEW S, NEW s \in Seq(S), NEW n \in 0 .. Len(s)
  PROVE  /\ Drop(s, n) \in Seq(S)
         /\ Len(Drop(s, n)) = Len(s) - n
         /\ \A i \in 1 .. Len(s) - n : Drop(s, n)[i] = s[i]
<1>1. Len(s) \in Nat /\ \A i \in 1 .. Len(s) - n : s[i] \in S
  OBVIOUS
<1>2. /\ SubSeq(s, 1, Len(s) - n) \in Seq(S)
      /\ Len(SubSeq(s, 1, Len(s) - n)) = IF 1 <= Len(s) - n THEN Len(s) - n - 1 + 1 ELSE 0
      /\ \A i \in 1 .. (Len(s) - n) - 1 + 1 : SubSeq(s, 1, Len(s) - n)[i] = s[1 + i - 1]
  BY <1>1, SubSeqProperties
<1> QED BY <1>1, <1>2 DEF Drop

-----------------------------------------------------------------------------
(* The current frame *)

LEMMA TopFacts ==
  ASSUME TypeOK, frames # <<>>
  PROVE  /\ Len(frames) \in Nat \ {0}
         /\ Top \in Frame
         /\ Top.m \in Method
         /\ Ops \in Seq(Slot)
         /\ Top.locals \in Seq(Slot) /\ Len(Top.locals) = Prog[Top.m].maxLocals
         /\ Prog[Top.m].maxLocals \in Nat
         /\ Code \in Seq(Byte)
         /\ pc \in Int /\ tpc \in Int
         /\ IsPoolEntry(Entry)
<1>1. Len(frames) \in Nat \ {0} /\ Top \in Frame
  BY DEF TypeOK, Top
<1>2. Len(Top.locals) = Prog[Top.m].maxLocals
  BY <1>1 DEF TypeOK, Top
<1>3. Top.m \in Method /\ Ops \in Seq(Slot) /\ Top.locals \in Seq(Slot)
  BY <1>1 DEF Frame, Ops
<1>4. IsPoolEntry(Entry)
  BY <1>3, ProgAssumption DEF ProgAssumption, Entry, EntryOf, EmptyEntry, IsPoolEntry
<1> QED BY <1>1, <1>2, <1>3, <1>4, ProgAssumption DEF ProgAssumption, TypeOK, Code

(* An entry that is a method is in the pool. *)
LEMMA MethodInPool ==
  ASSUME Entry.tag = "method"
  PROVE  /\ PoolIndex \in DOMAIN Prog[Top.m].pool
         /\ Entry = Prog[Top.m].pool[PoolIndex]
BY DEF Entry, EntryOf, EmptyEntry

(* Whatever an instruction does to its own frame. *)
LEMMA SetTopKeeps ==
  ASSUME Inv, frames # <<>>,
         NEW f \in Frame, f.m = Top.m, Len(f.locals) = Prog[f.m].maxLocals,
         frames' = SetTop(f),
         pc' \in Int, tpc' \in Int, status' \in Status
  PROVE  Inv'
<1> USE DEF Inv
<1>1. Len(frames) \in Nat \ {0} /\ frames \in Seq(Frame)
  BY TopFacts DEF TypeOK
<1>2. /\ frames' \in Seq(Frame) /\ Len(frames') = Len(frames)
      /\ \A i \in 1 .. Len(frames) : frames'[i] = IF i = Len(frames) THEN f ELSE frames[i]
  BY <1>1 DEF SetTop
<1>3. TypeOK'
  BY <1>1, <1>2 DEF TypeOK, Status
<1>4. ASSUME NEW i \in 1 .. Len(frames) - 1
      PROVE  /\ frames'[i] = frames[i] /\ frames'[i + 1].m = frames[i + 1].m
             /\ frames'[1] = frames[1]
  BY <1>1, <1>2 DEF Top
<1>5. CallChain'
  <2> SUFFICES ASSUME NEW i \in 1 .. Len(frames) - 1
               PROVE  (WaitsForNext(i) \/ (i = 1 /\ IsHost(frames[1])))'
    BY <1>2 DEF CallChain
  <2>1. WaitsForNext(i) \/ (i = 1 /\ IsHost(frames[1]))
    BY DEF CallChain
  <2> QED BY <1>4, <2>1 DEF WaitsForNext, IsHost
<1> QED BY <1>3, <1>5

LEMMA ContinueKeeps ==
  ASSUME Inv, frames # <<>>, NEW ops \in Seq(Slot), NEW p \in Int, Continue(ops, p)
  PROVE  Inv'
<1> DEFINE f == [Top EXCEPT !.ops = ops]
<1>1. f \in Frame /\ f.m = Top.m /\ Len(f.locals) = Prog[f.m].maxLocals
  BY TopFacts DEF Inv, Frame
<1>2. frames' = SetTop(f) /\ pc' \in Int /\ tpc' \in Int /\ status' \in Status
  BY DEF Continue, Inv, TypeOK, Status
<1> QED BY <1>1, <1>2, SetTopKeeps

LEMMA ThrowKeeps ==
  ASSUME Inv, frames # <<>>, NEW ops \in Seq(Slot), Throw(ops)
  PROVE  Inv'
<1> DEFINE f == [Top EXCEPT !.ops = ops]
<1>1. f \in Frame /\ f.m = Top.m /\ Len(f.locals) = Prog[f.m].maxLocals
  BY TopFacts DEF Inv, Frame
<1>2. frames' = SetTop(f) /\ pc' \in Int /\ tpc' \in Int /\ status' \in Status
  BY DEF Throw, Inv, TypeOK, Status
<1> QED BY <1>1, <1>2, SetTopKeeps

LEMMA SetLocalKeeps ==
  ASSUME Inv, frames # <<>>, NEW slot \in Slot, NEW ops \in Seq(Slot),
         LocalIndex(Op) \in Locals(Top.m), After \in Int, SetLocal(slot, ops)
  PROVE  Inv'
<1> DEFINE f == [Top EXCEPT !.locals[LocalIndex(Op) + 1] = slot, !.ops = ops]
<1>1. LocalIndex(Op) + 1 \in 1 .. Len(Top.locals)
  BY TopFacts DEF Inv, Locals
<1>2. f \in Frame /\ f.m = Top.m /\ Len(f.locals) = Prog[f.m].maxLocals
  <2>1. /\ [Top.locals EXCEPT ![LocalIndex(Op) + 1] = slot] \in Seq(Slot)
        /\ Len([Top.locals EXCEPT ![LocalIndex(Op) + 1] = slot]) = Len(Top.locals)
    BY <1>1, TopFacts DEF Inv
  <2> QED BY <2>1, TopFacts DEF Inv, Frame
<1>3. frames' = SetTop(f) /\ pc' \in Int /\ tpc' \in Int /\ status' \in Status
  BY DEF SetLocal, Inv, TypeOK, Status
<1> QED BY <1>2, <1>3, SetTopKeeps

LEMMA EndKeeps ==
  ASSUME Inv, NEW how \in Status, End(how)
  PROVE  Inv'
BY DEF Inv, TypeOK, CallChain, WaitsForNext, IsHost, End, Status

(* A return pops a frame: the chain below it is the chain there was.       *)
LEMMA LeaveKeeps ==
  ASSUME Inv, frames # <<>>, NEW words \in Seq(Slot), Leave(words), status' \in Status
  PROVE  Inv'
<1> DEFINE rest == Drop(frames, 1)
           n    == Len(rest)
<1>1. Len(frames) \in Nat \ {0} /\ frames \in Seq(Frame) /\ pc \in Int /\ tpc \in Int
  BY TopFacts DEF TypeOK, Inv
<1>2. /\ rest \in Seq(Frame) /\ n = Len(frames) - 1
      /\ \A i \in 1 .. n : rest[i] = frames[i]
  BY <1>1, DropProperties
<1>3. \A i \in 1 .. n : Len(frames[i].locals) = Prog[frames[i].m].maxLocals
  BY <1>1, <1>2 DEF TypeOK, Inv
<1>4. \A i \in 1 .. n - 1 : WaitsForNext(i) \/ (i = 1 /\ IsHost(frames[1]))
  BY <1>1, <1>2 DEF CallChain, Inv
<1> HIDE DEF rest
<1>5. CASE n = 0
  <2>1. frames' = rest /\ pc' = pc /\ tpc' = tpc
    BY <1>5 DEF Leave, rest
  <2> QED BY <1>1, <1>2, <1>5, <2>1 DEF Inv, TypeOK, CallChain, Status
<1>6. CASE n # 0
  <2> DEFINE f == [rest[n] EXCEPT !.ops = @ \o words]
  <2>1. frames' = [rest EXCEPT ![n] = f] /\ pc' = rest[n].callerPC /\ tpc' = rest[n].callerPC
    BY <1>6 DEF Leave, rest
  <2>2. rest[n] \in Frame
    BY <1>2, <1>6
  <2>3. f \in Frame /\ f.m = frames[n].m /\ f.locals = frames[n].locals
    <3>1. rest[n].ops \o words \in Seq(Slot)
      BY <2>2, ConcatProperties DEF Frame
    <3>2. f \in Frame /\ f.m = rest[n].m /\ f.locals = rest[n].locals
      BY <2>2, <3>1 DEF Frame
    <3>3. rest[n] = frames[n]
      BY <1>1, <1>2, <1>6
    <3> QED BY <3>2, <3>3
  <2>4. pc' \in Int /\ tpc' \in Int
    BY <2>1, <2>2 DEF Frame
  <2> HIDE DEF f
  <2>5. /\ frames' \in Seq(Frame) /\ Len(frames') = n
        /\ \A i \in 1 .. n : frames'[i] = IF i = n THEN f ELSE frames[i]
    BY <1>1, <1>2, <1>6, <2>1, <2>3
  <2>6. TypeOK'
    BY <1>1, <1>2, <1>3, <2>3, <2>4, <2>5 DEF TypeOK, Status
  <2>7. ASSUME NEW i \in 1 .. n - 1
        PROVE  /\ frames'[i] = frames[i] /\ frames'[i + 1].m = frames[i + 1].m
               /\ frames'[1] = frames[1]
    <3>1. /\ n \in Nat /\ i \in 1 .. n /\ i + 1 \in 1 .. n /\ 1 \in 1 .. n
          /\ i # n /\ 1 # n
      BY <1>1, <1>2
    <3>2. frames'[i] = frames[i] /\ frames'[1] = frames[1]
      BY <2>5, <3>1
    <3>3. frames'[i + 1] = IF i + 1 = n THEN f ELSE frames[i + 1]
      BY <2>5, <3>1
    <3> QED BY <2>3, <3>2, <3>3
  <2>8. CallChain'
    <3> SUFFICES ASSUME NEW i \in 1 .. n - 1
                 PROVE  (WaitsForNext(i) \/ (i = 1 /\ IsHost(frames[1])))'
      BY <2>5 DEF CallChain
    <3>1. WaitsForNext(i) \/ (i = 1 /\ IsHost(frames[1]))
      BY <1>4
    <3> QED BY <2>7, <3>1 DEF WaitsForNext, IsHost
  <2> QED BY <2>6, <2>8 DEF Inv
<1> QED BY <1>5, <1>6

(* A call adds a frame above one that waits just after it. *)
LEMMA EnterKeeps ==
  ASSUME Inv, frames # <<>>, TakesArguments, After = pc + 3, EnterCallee(After)
  PROVE  Inv'
<1> DEFINE base   == Len(Ops) - ArgSlots
           locals == [i \in 1 .. Prog[Callee].maxLocals |->
                        IF i <= ArgSlots THEN Ops[base + i] ELSE ZeroSlot]
           caller == [Top EXCEPT !.ops = Drop(Ops, ArgSlots), !.callerPC = After]
           callee == NewFrame(Callee, locals)
           n      == Len(frames)
<1>1. /\ n \in Nat \ {0} /\ frames \in Seq(Frame) /\ Top \in Frame /\ Top.m \in Method
      /\ Ops \in Seq(Slot) /\ Len(Top.locals) = Prog[Top.m].maxLocals
      /\ Code \in Seq(Byte) /\ pc \in Int
  BY TopFacts DEF TypeOK, Inv
<1>2. /\ Op = 184 /\ Entry.tag = "method" /\ PoolIndex \in DOMAIN Prog[Top.m].pool
      /\ Len(Ops) >= ArgSlots /\ ArgSlots <= Prog[Callee].maxLocals
      /\ pc >= 0 /\ After <= Len(Code)
  <2>1. pc >= 0 /\ pc + Operands(Op) < Len(Code) /\ Op = 184
    BY DEF TakesArguments, CallsStatic, Resolves, Fetch, AtInstruction, InCode
  <2>2. Operands(Op) \in Int /\ After = pc + 1 + Operands(Op)
    BY <2>1 DEF Operands, After
  <2> QED BY <1>1, <2>1, <2>2, MethodInPool DEF TakesArguments, CallsStatic
<1>3. Callee \in Method
  BY <1>2, TopFacts DEF Inv, IsPoolEntry, Callee
<1>4. ArgSlots \in Nat /\ Prog[Callee].maxLocals \in Nat
  BY <1>3, ProgAssumption DEF ProgAssumption, ArgSlots
<1>5. ZeroSlot \in Slot
  BY DEF ZeroSlot, Slot
<1>6. locals \in Seq(Slot) /\ Len(locals) = Prog[Callee].maxLocals
  <2>1. \A i \in 1 .. Prog[Callee].maxLocals : i <= ArgSlots => base + i \in 1 .. Len(Ops)
    BY <1>1, <1>2, <1>4
  <2>2. \A i \in 1 .. Prog[Callee].maxLocals :
          (IF i <= ArgSlots THEN Ops[base + i] ELSE ZeroSlot) \in Slot
    BY <1>1, <1>5, <2>1
  <2> QED BY <1>4, <2>2
<1>7. callee \in Frame /\ callee.m = Callee /\ callee.locals = locals
  BY <1>3, <1>6 DEF NewFrame, Frame
<1>8. /\ caller \in Frame /\ caller.m = Top.m /\ caller.locals = Top.locals
      /\ caller.callerPC = pc + 3
  <2>1. Drop(Ops, ArgSlots) \in Seq(Slot)
    BY <1>1, <1>2, <1>4, DropProperties
  <2>2. After \in Int
    BY <1>1
  <2>3. ASSUME NEW g \in Frame, NEW ops \in Seq(Slot), NEW p \in Int
        PROVE  LET h == [g EXCEPT !.ops = ops, !.callerPC = p]
               IN  h \in Frame /\ h.m = g.m /\ h.locals = g.locals /\ h.callerPC = p
    BY DEF Frame
  <2>4. Top \in Frame
    BY <1>1
  <2>5. /\ caller \in Frame /\ caller.m = Top.m /\ caller.locals = Top.locals
        /\ caller.callerPC = After
    BY <2>1, <2>2, <2>3, <2>4, Zenon
  <2> QED BY <2>5, Zenon
<1>9. frames' = Append(SetTop(caller), callee) /\ pc' = 0 /\ tpc' = 0 /\ status' = status
  BY DEF EnterCallee
<1> HIDE DEF caller, callee, locals
<1>10. /\ frames' \in Seq(Frame) /\ Len(frames') = n + 1
       /\ \A i \in 1 .. n + 1 : frames'[i] = IF i = n + 1 THEN callee
                                             ELSE IF i = n THEN caller ELSE frames[i]
  BY <1>1, <1>7, <1>8, <1>9 DEF SetTop
<1>11. TypeOK'
  <2>1. ASSUME NEW i \in 1 .. n + 1
        PROVE  Len(frames'[i].locals) = Prog[frames'[i].m].maxLocals
    <3>1. CASE i = n + 1
      BY <1>6, <1>7, <1>10, <3>1
    <3>2. CASE i = n
      BY <1>1, <1>8, <1>10, <3>2
    <3>3. CASE i # n + 1 /\ i # n
      BY <1>1, <1>10, <3>3 DEF Inv, TypeOK
    <3> QED BY <3>1, <3>2, <3>3
  <2> QED BY <1>9, <1>10, <2>1 DEF TypeOK, Inv
<1>12. CallChain'
  <2> SUFFICES ASSUME NEW i \in 1 .. n
               PROVE  (WaitsForNext(i) \/ (i = 1 /\ IsHost(frames[1])))'
    BY <1>1, <1>10 DEF CallChain
  <2>1. CASE i = n
    <3>1. frames'[i] = caller /\ frames'[i + 1] = callee
      BY <1>1, <1>10, <2>1
    <3>2. Prog[caller.m].code = Code /\ Prog[caller.m].pool = Prog[Top.m].pool
          /\ caller.callerPC - 3 = pc
      BY <1>1, <1>8 DEF Code
    <3>3. readU1(Code, pc) = 184 /\ caller.callerPC <= Len(Code) /\ pc >= 0
      BY <1>2, <1>8 DEF Op
    <3>4. PoolIndex = readU2(Code, pc + 1)
      BY <1>2 DEF PoolIndex
    <3>5. /\ readU2(Code, pc + 1) \in DOMAIN Prog[Top.m].pool
          /\ Prog[Top.m].pool[readU2(Code, pc + 1)].tag = "method"
          /\ Prog[Top.m].pool[readU2(Code, pc + 1)].v = callee.m
      BY <1>2, <1>7, <3>4, MethodInPool DEF Callee
    <3> QED BY <3>1, <3>2, <3>3, <3>5 DEF WaitsForNext
  <2>2. CASE i # n
    <3>1. i \in 1 .. n - 1
      BY <1>1, <2>2
    <3>2. WaitsForNext(i) \/ (i = 1 /\ IsHost(frames[1]))
      BY <3>1 DEF CallChain, Inv
    <3>3. /\ frames'[i] = frames[i] /\ frames'[i + 1].m = frames[i + 1].m
          /\ i = 1 => frames'[1] = frames[1]
      <4>1. /\ i \in 1 .. n + 1 /\ i + 1 \in 1 .. n + 1 /\ 1 \in 1 .. n + 1
            /\ i # n /\ i # n + 1 /\ i + 1 # n + 1
            /\ (i = 1 => 1 # n /\ 1 # n + 1)
        <5>1. n \in Nat
          BY <1>1
        <5> HIDE DEF n
        <5> QED BY <3>1, <5>1
      <4>2. frames'[i] = frames[i]
        BY <1>10, <4>1
      <4>3. frames'[i + 1] = IF i + 1 = n THEN caller ELSE frames[i + 1]
        BY <1>10, <4>1
      <4>4. i + 1 = n => caller.m = frames[i + 1].m
        BY <1>8 DEF Top
      <4> QED BY <4>2, <4>3, <4>4
    <3> QED BY <3>2, <3>3 DEF WaitsForNext, IsHost
  <2> QED BY <2>1, <2>2
<1> QED BY <1>11, <1>12 DEF Inv

-----------------------------------------------------------------------------
(* Reading the code *)

LEMMA FetchFacts ==
  ASSUME Inv, NEW S, Fetch(S)
  PROVE  /\ frames # <<>> /\ Op \in S /\ Op \in Byte
         /\ pc \in Nat /\ pc < Len(Code)
         /\ Operands(Op) \in {0, 1, 2, 4} /\ pc + Operands(Op) < Len(Code)
         /\ After = pc + 1 + Operands(Op) /\ After \in Int
<1>1. /\ frames # <<>> /\ Op \in S /\ pc >= 0 /\ pc + 0 < Len(Code)
      /\ pc + Operands(Op) < Len(Code)
  BY DEF Fetch, AtInstruction, InCode
<1>2. pc \in Int /\ Code \in Seq(Byte)
  BY <1>1, TopFacts DEF Inv
<1>3. Op \in Byte
  <2>1. pc + 1 \in 1 .. Len(Code)
    BY <1>1, <1>2
  <2>2. Code[pc + 1] \in Byte
    BY <1>2, <2>1
  <2> QED BY <2>2 DEF Op, readU1
<1>4. Operands(Op) \in {0, 1, 2, 4}
  BY DEF Operands
<1> QED BY <1>1, <1>2, <1>3, <1>4 DEF After

LEMMA CodeBytes ==
  ASSUME NEW c \in Seq(Byte), NEW p \in Nat
  PROVE  /\ p < Len(c) => readU1(c, p) \in Int /\ readSU1(c, p) \in Int
         /\ p + 1 < Len(c) => readU2(c, p) \in Int /\ readSU2(c, p) \in Int
         /\ p + 3 < Len(c) => readSU4(c, p) \in Int
<1>1. ASSUME NEW q \in Nat, q < Len(c) PROVE c[q + 1] \in Int
  <2>1. q + 1 \in 1 .. Len(c)
    BY <1>1
  <2>2. c[q + 1] \in Byte
    BY <2>1
  <2>3. \A b \in Byte : b \in Int
    BY DEF Byte
  <2> QED BY <2>2, <2>3, Zenon
<1>2. ASSUME NEW q \in Nat, q + 1 < Len(c) PROVE readU2(c, q) \in Int /\ readSU2(c, q) \in Int
  <2>1. c[q + 1] \in Int /\ c[q + 2] \in Int
    <3>1. q + 1 \in Nat /\ (q + 1) + 1 = q + 2 /\ q < Len(c)
      BY <1>2
    <3> QED BY <1>1, <1>2, <3>1
  <2> QED BY <2>1 DEF readU2, readSU2, Signed
<1>3. ASSUME p + 3 < Len(c) PROVE readSU4(c, p) \in Int
  <2>1. p + 1 < Len(c) /\ (p + 2) + 1 < Len(c) /\ p + 2 \in Nat
    BY <1>3
  <2>2. readSU2(c, p) \in Int /\ readU2(c, p + 2) \in Int
    BY <1>2, <2>1
  <2> QED BY <2>2 DEF readSU4
<1> QED BY <1>1, <1>2, <1>3 DEF readU1, readSU1, Signed

LEMMA KindsAreKinds ==
  /\ Kinds \in Seq(Kind) /\ Len(Kinds) = 5
  /\ \A n \in 1 .. 5 : Kinds[n] \in Kind
BY DEF Kinds, Kind

LEMMA LocalKinds ==
  ASSUME NEW op \in LoadOps \cup StoreOps
  PROVE  LocalKind(op) \in Kind
<1>1. op - Base(op) \in 0 .. 24
  BY DEF LoadOps, StoreOps, Base
<1>2. op - Base(op) < 5 => op - Base(op) + 1 \in 1 .. 5
  BY <1>1
<1>3. ASSUME NEW d \in 0 .. 24, ~(d < 5) PROVE ((d - 5) \div 4) + 1 \in 1 .. 5
  BY <1>3, SMT
<1> QED BY <1>1, <1>2, <1>3, KindsAreKinds DEF LocalKind

LEMMA ReturnKinds ==
  ASSUME NEW op \in ReturnOps
  PROVE  Kinds[op - 171] \in Kind
<1>1. op - 171 \in 1 .. 5
  BY DEF ReturnOps
<1> QED BY <1>1, KindsAreKinds

LEMMA BranchKinds ==
  ASSUME NEW op \in BranchOps
  PROVE  LET ks == BranchIn(op) IN ks \in Seq(Kind) /\ Len(ks) \in {1, 2}
<1> DEFINE Typed(ks) == ks \in Seq(Kind) /\ Len(ks) \in {1, 2}
<1>1. Typed(<<"i">>) /\ Typed(<<"i", "i">>) /\ Typed(<<"a", "a">>) /\ Typed(<<"a">>)
  BY DEF Kind
<1>2. BranchIn(op) \in {<<"i">>, <<"i", "i">>, <<"a", "a">>, <<"a">>}
  BY DEF BranchOps, BranchIn
<1> QED BY <1>1, <1>2

LEMMA WidthSlots ==
  ASSUME NEW ks \in Seq(Kind), Len(ks) \in {1, 2}
  PROVE  /\ ks[1] \in Kind /\ ks[Len(ks)] \in Kind
         /\ Width(ks[1]) \in {1, 2} /\ Slots(ks) \in 1 .. 4 /\ Width(ks[1]) <= Slots(ks)
BY DEF Slots, Width

(* What each family pops. *)
LEMMA PopsOf ==
  ASSUME NEW op \in Byte
  PROVE  /\ Pops(op) \in Nat
         /\ op \in StoreOps  => Pops(op) = Width(LocalKind(op))
         /\ op \in StackOps  => Pops(op) = Popped[op - 86]
         /\ op \in AluOps    => Pops(op) = Slots(AluIn(op))
         /\ op \in BranchOps => Pops(op) = Slots(BranchIn(op))
         /\ op \in SwitchOps => Pops(op) = 1
         /\ op \in ReturnOps => Pops(op) = Width(Kinds[op - 171])
<1> AluOps = 96 .. 131 \cup 133 .. 152
  BY DEF AluOps, ArithOps, ShiftOps, BitOps, ConvertOps, CompareOps
<1> USE DEF StoreOps, StackOps, BranchOps, SwitchOps, ReturnOps
<1>1. CASE op \in StoreOps
  BY <1>1, op \notin StackOps, op \notin AluOps, op \notin BranchOps,
     op \notin SwitchOps, op \notin ReturnOps DEF Pops, Width
<1>2. CASE op \in StackOps
  <2>1. Popped[op - 86] \in Nat
    <3>1. op - 86 \in 1 .. 9
      BY <1>2
    <3>2. \A n \in 1 .. 9 : Popped[n] \in Nat
      BY DEF Popped
    <3> QED BY <3>1, <3>2
  <2> QED BY <1>2, <2>1, op \notin StoreOps, op \notin AluOps, op \notin BranchOps,
             op \notin SwitchOps, op \notin ReturnOps DEF Pops
<1>3. CASE op \in AluOps
  <2>1. Slots(AluIn(op)) \in Nat
    <3>1. AluIn(op) \in Seq(Kind) /\ Len(AluIn(op)) \in {1, 2}
      BY <1>3, AluOperands
    <3>2. Slots(AluIn(op)) \in 1 .. 4
      BY <3>1, WidthSlots
    <3> QED BY <3>2
  <2> QED BY <1>3, <2>1, op \notin StoreOps, op \notin StackOps, op \notin BranchOps,
             op \notin SwitchOps, op \notin ReturnOps DEF Pops
<1>4. CASE op \in BranchOps
  <2>1. Slots(BranchIn(op)) \in Nat
    <3>1. BranchIn(op) \in Seq(Kind) /\ Len(BranchIn(op)) \in {1, 2}
      BY <1>4, BranchKinds
    <3>2. Slots(BranchIn(op)) \in 1 .. 4
      BY <3>1, WidthSlots
    <3> QED BY <3>2
  <2> QED BY <1>4, <2>1, op \notin StoreOps, op \notin StackOps, op \notin AluOps,
             op \notin SwitchOps, op \notin ReturnOps DEF Pops
<1>5. CASE op \in SwitchOps
  BY <1>5, op \notin StoreOps, op \notin StackOps, op \notin AluOps, op \notin BranchOps,
     op \notin ReturnOps DEF Pops
<1>6. CASE op \in ReturnOps
  BY <1>6, op \notin StoreOps, op \notin StackOps, op \notin AluOps, op \notin BranchOps,
     op \notin SwitchOps DEF Pops, Width
<1>7. CASE op \notin StoreOps \cup StackOps \cup AluOps \cup BranchOps \cup SwitchOps \cup ReturnOps
  BY <1>7 DEF Pops
<1> QED BY <1>1, <1>2, <1>3, <1>4, <1>5, <1>6, <1>7

(* The operands on the stack have the kinds they are read as. *)
LEMMA OperandValues ==
  ASSUME Inv, frames # <<>>, NEW ks \in Seq(Kind), Len(ks) \in {1, 2},
         Len(Ops) >= Slots(ks)
  PROVE  /\ \A x \in FirstOperand(ks) : x \in Values(ks[1])
         /\ \A y \in LastOperand(ks) : y \in Values(ks[Len(ks)])
         /\ Drop(Ops, Slots(ks)) \in Seq(Slot)
<1>1. Ops \in Seq(Slot) /\ Len(Ops) \in Nat
  BY TopFacts DEF Inv
<1>2. /\ ks[1] \in Kind /\ ks[Len(ks)] \in Kind
      /\ Width(ks[1]) \in {1, 2} /\ Slots(ks) \in 1 .. 4 /\ Width(ks[1]) <= Slots(ks)
  BY WidthSlots
<1>3. /\ Len(Ops) \in 1 .. Len(Ops)
      /\ Len(Ops) - (Slots(ks) - Width(ks[1])) \in 1 .. Len(Ops)
      /\ Slots(ks) \in 0 .. Len(Ops)
  BY <1>1, <1>2
<1>4. Ops[Len(Ops)] \in Slot /\ Ops[Len(Ops) - (Slots(ks) - Width(ks[1]))] \in Slot
  BY <1>1, <1>3
<1> QED BY <1>1, <1>2, <1>3, <1>4, ReadValue, DropProperties DEF FirstOperand, LastOperand

(* What an instruction pushes on what it left. *)
LEMMA PushWords ==
  ASSUME NEW ops \in Seq(Slot), NEW k \in Kind, NEW x \in Values(k)
  PROVE  ops \o Words(k, x) \in Seq(Slot)
<1>1. Words(k, x) \in Seq(Slot)
  BY WordsSlots
<1> QED BY <1>1, ConcatProperties

-----------------------------------------------------------------------------
(* Constants, loads and stores *)

LEMMA SmallValues ==
  /\ \A x \in -1 .. 5 : x \in Values("i")
  /\ 0 \in Values("l") /\ 1 \in Values("l")
  /\ \A x \in 0 .. 4 : x \in Values("f") /\ x \in Values("d")
  /\ 0 \in Values("a")
<1>1. /\ Values("i") = -HalfOf(IntBits) .. HalfOf(IntBits) - 1
      /\ Values("l") = -HalfOf(LongBits) .. HalfOf(LongBits) - 1
      /\ Values("f") = -(FMax + 2) .. FMax + 3 /\ Values("d") = -(FMax + 2) .. FMax + 3
      /\ Values("a") = Strings \cup {0}
  BY DEF Values, Bits, Infinity, NaN
<1>2. /\ HalfOf(IntBits) \in Nat /\ HalfOf(LongBits) \in Nat
      /\ 8 <= HalfOf(IntBits) /\ 8 <= HalfOf(LongBits)
  BY PowersAssumption DEF PowersAssumption
<1>3. FMax \in Nat /\ FMax >= 4
  BY FMaxAssumption DEF FMaxAssumption
<1>4. \A x \in -1 .. 5 : x \in Values("i")
  BY <1>1, <1>2
<1>5. 0 \in Values("l") /\ 1 \in Values("l") /\ 0 \in Values("a")
  BY <1>1, <1>2
<1>6. \A x \in 0 .. 4 : x \in Values("f") /\ x \in Values("d")
  BY <1>1, <1>3
<1> QED BY <1>4, <1>5, <1>6

LEMMA ConstantWords ==
  ASSUME NEW op \in 1 .. 15
  PROVE  Constants[op] \in Seq(Slot)
<1> DEFINE ints  == [n \in 1 .. 7 |-> Words("i", n - 2)]
           null  == <<Words("a", 0)>>
           rest  == <<Words("l", 0), Words("l", 1), Words("f", 0), Words("f", 2),
                      Words("f", 4), Words("d", 0), Words("d", 2)>>
<1>1. /\ \A x \in -1 .. 5 : Words("i", x) \in Seq(Slot)
      /\ Words("a", 0) \in Seq(Slot)
      /\ Words("l", 0) \in Seq(Slot) /\ Words("l", 1) \in Seq(Slot)
      /\ Words("f", 0) \in Seq(Slot) /\ Words("f", 2) \in Seq(Slot) /\ Words("f", 4) \in Seq(Slot)
      /\ Words("d", 0) \in Seq(Slot) /\ Words("d", 2) \in Seq(Slot)
  BY SmallValues, WordsSlots DEF Kind
<1>2. null \in Seq(Seq(Slot)) /\ Len(null) = 1
  BY <1>1
<1>3. ints \in Seq(Seq(Slot)) /\ Len(ints) = 7
  <2>1. \A n \in 1 .. 7 : n - 2 \in -1 .. 5
    OBVIOUS
  <2> QED BY <1>1, <2>1
<1>4. rest \in Seq(Seq(Slot)) /\ Len(rest) = 7
  BY <1>1
<1>5. Constants = null \o ints \o rest
  BY DEF Constants
<1> HIDE DEF null, ints, rest
<1>6. ASSUME NEW S, NEW s \in Seq(S), NEW t \in Seq(S), NEW u \in Seq(S),
             Len(s) = 1, Len(t) = 7, Len(u) = 7
      PROVE  (s \o t \o u)[op] \in S
  <2>1. s \o t \in Seq(S) /\ Len(s \o t) = Len(s) + Len(t)
    BY ConcatProperties, Zenon
  <2>2. (s \o t) \o u \in Seq(S) /\ Len((s \o t) \o u) = Len(s \o t) + Len(u)
    BY <2>1, ConcatProperties, Zenon
  <2>3. Len((s \o t) \o u) = 15
    BY <1>6, <2>1, <2>2
  <2>4. op \in 1 .. Len((s \o t) \o u)
    BY <2>3
  <2>5. ASSUME NEW w \in Seq(S), op \in 1 .. Len(w) PROVE w[op] \in S
    BY <2>5
  <2> QED BY <2>2, <2>4, <2>5, Zenon
<1> QED BY <1>2, <1>3, <1>4, <1>5, <1>6, Zenon

LEMMA PushingKeeps ==
  ASSUME Inv, Ignore \/ PushConst \/ PushImmediate
  PROVE  Inv'
<1>1. CASE Ignore
  BY <1>1, FetchFacts, TopFacts, ContinueKeeps DEF Ignore, Inv
<1>2. CASE PushConst
  <2>1. Fetch(1 .. 15) /\ Continue(Ops \o Constants[Op], After)
    BY <1>2 DEF PushConst
  <2>2. frames # <<>> /\ Op \in 1 .. 15 /\ After \in Int
    BY <2>1, FetchFacts
  <2>3. Ops \o Constants[Op] \in Seq(Slot)
    BY <2>2, ConstantWords, TopFacts, ConcatProperties DEF Inv
  <2> QED BY <2>1, <2>2, <2>3, ContinueKeeps
<1>3. CASE PushImmediate
  <2> DEFINE x == IF Op = 16 THEN readU1(Code, pc + 1) ELSE readU2(Code, pc + 1)
  <2>1. Fetch({16, 17}) /\ Continue(Ops \o Words("i", Wrap("i", x)), After)
    BY <1>3 DEF PushImmediate
  <2>2. /\ frames # <<>> /\ Op \in {16, 17} /\ After \in Int /\ pc \in Nat
        /\ pc + Operands(Op) < Len(Code)
    BY <2>1, FetchFacts
  <2>3. Operands(16) = 1 /\ Operands(17) = 2
    BY DEF Operands
  <2>4. Code \in Seq(Byte) /\ Ops \in Seq(Slot)
    BY <2>2, TopFacts DEF Inv
  <2>5. x \in Int
    <3>1. pc + 1 \in Nat /\ pc + 1 < Len(Code) /\ (Op # 16 => (pc + 1) + 1 < Len(Code))
      BY <2>2, <2>3, <2>4
    <3> QED BY <2>4, <3>1, CodeBytes
  <2>6. Wrap("i", x) \in Values("i")
    BY <2>5, WrapValue
  <2>7. Ops \o Words("i", Wrap("i", x)) \in Seq(Slot)
    BY <2>4, <2>6, PushWords DEF Kind
  <2> QED BY <2>1, <2>2, <2>7, ContinueKeeps
<1> QED BY <1>1, <1>2, <1>3

LEMMA LoadConstantKeeps ==
  ASSUME Inv, LoadConstant
  PROVE  Inv'
<1>1. /\ Fetch({18, 19, 20})
      /\ \E w \in LoadedWords : Continue(Ops \o w, After)
  BY DEF LoadConstant
<1>2. frames # <<>> /\ After \in Int
  BY <1>1, FetchFacts
<1>3. IsPoolEntry(Entry) /\ Ops \in Seq(Slot)
  BY <1>1, <1>2, TopFacts DEF Inv
<1>4. ASSUME NEW w \in LoadedWords PROVE w \in Seq(Slot)
  <2>1. \/ /\ Entry.tag \in {"i", "l", "f", "d"} /\ Entry.v \in Values(Entry.tag)
           /\ w = Words(Entry.tag, Entry.v)
        \/ \E s \in Strings \cup {0} : w = Words("a", s)
        \/ w = <<>>
    BY <1>3, <1>4 DEF LoadedWords, IsPoolEntry
  <2>2. \A s \in Strings \cup {0} : s \in Values("a")
    BY DEF Values
  <2>3. CASE Entry.tag \in {"i", "l", "f", "d"} /\ Entry.v \in Values(Entry.tag)
             /\ w = Words(Entry.tag, Entry.v)
    <3>1. Entry.tag \in Kind
      BY <2>3 DEF Kind
    <3> QED BY <2>3, <3>1, WordsSlots
  <2>4. CASE \E s \in Strings \cup {0} : w = Words("a", s)
    <3>1. PICK s \in Strings \cup {0} : w = Words("a", s)
      BY <2>4
    <3>2. s \in Values("a") /\ "a" \in Kind
      BY <2>2 DEF Kind
    <3> QED BY <3>1, <3>2, WordsSlots
  <2>5. CASE w = <<>>
    BY <2>5
  <2> QED BY <2>1, <2>3, <2>4, <2>5
<1>5. PICK w \in LoadedWords : Continue(Ops \o w, After)
  BY <1>1
<1>6. Ops \o w \in Seq(Slot)
  BY <1>3, <1>4, ConcatProperties
<1> QED BY <1>2, <1>5, <1>6, ContinueKeeps

LEMMA LoadKeeps ==
  ASSUME Inv, Load
  PROVE  Inv'
<1> DEFINE slot == Top.locals[LocalIndex(Op) + 1]
<1>1. /\ Fetch(LoadOps) /\ LocalIndex(Op) \in Locals(Top.m)
      /\ \E x \in Read(LocalKind(Op), slot) : Continue(Ops \o Words(LocalKind(Op), x), After)
  BY DEF Load
<1>2. frames # <<>> /\ Op \in LoadOps /\ After \in Int
  BY <1>1, FetchFacts
<1>3. slot \in Slot /\ Ops \in Seq(Slot)
  <2>1. /\ Top.locals \in Seq(Slot) /\ Len(Top.locals) = Prog[Top.m].maxLocals
        /\ Prog[Top.m].maxLocals \in Nat /\ Ops \in Seq(Slot)
    BY <1>2, TopFacts DEF Inv
  <2>2. LocalIndex(Op) + 1 \in 1 .. Len(Top.locals)
    BY <1>1, <2>1 DEF Locals
  <2> QED BY <2>1, <2>2
<1>4. LocalKind(Op) \in Kind
  BY <1>2, LocalKinds
<1>5. PICK x \in Read(LocalKind(Op), slot) : Continue(Ops \o Words(LocalKind(Op), x), After)
  BY <1>1
<1>6. x \in Values(LocalKind(Op))
  BY <1>3, <1>4, ReadValue
<1>7. Ops \o Words(LocalKind(Op), x) \in Seq(Slot)
  BY <1>3, <1>4, <1>6, PushWords
<1> QED BY <1>2, <1>5, <1>7, ContinueKeeps

LEMMA StoreKeeps ==
  ASSUME Inv, Store
  PROVE  Inv'
<1> DEFINE ks == <<LocalKind(Op)>>
<1>1. /\ Fetch(StoreOps) /\ Len(Ops) >= Pops(Op) /\ LocalIndex(Op) \in Locals(Top.m)
      /\ \E x \in LastOperand(ks) : SetLocal(Of(LocalKind(Op), x), Drop(Ops, Pops(Op)))
  BY DEF Store, Stores, Ready
<1>2. frames # <<>> /\ Op \in StoreOps /\ Op \in Byte /\ After \in Int
  BY <1>1, FetchFacts
<1>3. LocalKind(Op) \in Kind
  BY <1>2, LocalKinds
<1>4. ks \in Seq(Kind) /\ Len(ks) = 1 /\ ks[Len(ks)] = LocalKind(Op)
  BY <1>3
<1>5. Pops(Op) = Slots(ks)
  BY <1>2, <1>4, PopsOf DEF Slots
<1> HIDE DEF ks
<1>6. /\ \A x \in LastOperand(ks) : x \in Values(LocalKind(Op))
      /\ Drop(Ops, Pops(Op)) \in Seq(Slot)
  BY <1>1, <1>2, <1>4, <1>5, OperandValues
<1>7. PICK x \in LastOperand(ks) : SetLocal(Of(LocalKind(Op), x), Drop(Ops, Pops(Op)))
  BY <1>1 DEF ks
<1>8. Of(LocalKind(Op), x) \in Slot
  BY <1>3, <1>6, OfSlot
<1> QED BY <1>1, <1>2, <1>6, <1>7, <1>8, SetLocalKeeps

LEMMA IncrementKeeps ==
  ASSUME Inv, Increment
  PROVE  Inv'
<1> DEFINE slot == Top.locals[LocalIndex(Op) + 1]
<1>1. /\ Fetch({132}) /\ LocalIndex(Op) \in Locals(Top.m)
      /\ \E x \in Read("i", slot) :
           SetLocal(Of("i", Wrap("i", x + readSU1(Code, pc + 2))), Ops)
  BY DEF Increment
<1>2. /\ frames # <<>> /\ Op = 132 /\ After \in Int /\ pc \in Nat
      /\ pc + Operands(Op) < Len(Code)
  BY <1>1, FetchFacts
<1>3. /\ Top.locals \in Seq(Slot) /\ Len(Top.locals) = Prog[Top.m].maxLocals
      /\ Prog[Top.m].maxLocals \in Nat /\ Ops \in Seq(Slot) /\ Code \in Seq(Byte)
  BY <1>2, TopFacts DEF Inv
<1>4. slot \in Slot
  <2>1. LocalIndex(Op) + 1 \in 1 .. Len(Top.locals)
    BY <1>1, <1>3 DEF Locals
  <2> QED BY <1>3, <2>1
<1>5. readSU1(Code, pc + 2) \in Int
  <2>1. Operands(132) = 2
    BY DEF Operands
  <2>2. pc + 2 \in Nat /\ pc + 2 < Len(Code)
    BY <1>2, <2>1
  <2> QED BY <1>3, <2>2, CodeBytes
<1>6. PICK x \in Read("i", slot) :
        SetLocal(Of("i", Wrap("i", x + readSU1(Code, pc + 2))), Ops)
  BY <1>1
<1>7. x \in Int
  BY <1>4, ReadValue, ValuesAreInts DEF Kind
<1>8. Wrap("i", x + readSU1(Code, pc + 2)) \in Values("i")
  BY <1>5, <1>7, WrapValue
<1>9. Of("i", Wrap("i", x + readSU1(Code, pc + 2))) \in Slot
  BY <1>8, OfSlot DEF Kind
<1> QED BY <1>1, <1>2, <1>3, <1>6, <1>9, SetLocalKeeps

(* An exception leaves a frame with fewer operands. *)
LEMMA DropOpsThrowKeeps ==
  ASSUME Inv, frames # <<>>, NEW n \in Nat, Len(Ops) >= n, Throw(Drop(Ops, n))
  PROVE  Inv'
<1>1. Ops \in Seq(Slot) /\ n \in 0 .. Len(Ops)
  BY TopFacts DEF Inv
<1>2. Drop(Ops, n) \in Seq(Slot)
  BY <1>1, DropProperties
<1> QED BY <1>2, ThrowKeeps

LEMMA LocalOutOfBoundsKeeps ==
  ASSUME Inv, LocalOutOfBounds
  PROVE  Inv'
<1>1. /\ Fetch(LoadOps \cup StoreOps \cup {132}) /\ Len(Ops) >= Pops(Op)
      /\ Throw(Drop(Ops, Pops(Op)))
  BY DEF LocalOutOfBounds, Ready
<1>2. frames # <<>> /\ Op \in Byte
  BY <1>1, FetchFacts
<1>3. Pops(Op) \in Nat
  BY <1>2, PopsOf
<1> QED BY <1>1, <1>2, <1>3, DropOpsThrowKeeps

-----------------------------------------------------------------------------
(* The operand stack and the arithmetic *)

LEMMA ShufflePositions ==
  ASSUME NEW n \in 1 .. 9
  PROVE  \A i \in 1 .. Len(Pushed[n]) : Pushed[n][i] \in 1 .. Popped[n]
<1>1. n \in {1, 2, 3, 4, 5, 6, 7, 8, 9}
  OBVIOUS
<1>2. CASE n = 1
  BY <1>2 DEF Pushed, Popped
<1>3. CASE n = 2
  BY <1>3 DEF Pushed, Popped
<1>4. CASE n = 3
  BY <1>4 DEF Pushed, Popped
<1>5. CASE n = 4
  BY <1>5 DEF Pushed, Popped
<1>6. CASE n = 5
  BY <1>6 DEF Pushed, Popped
<1>7. CASE n = 6
  BY <1>7 DEF Pushed, Popped
<1>8. CASE n = 7
  BY <1>8 DEF Pushed, Popped
<1>9. CASE n = 8
  BY <1>9 DEF Pushed, Popped
<1>10. CASE n = 9
  BY <1>10 DEF Pushed, Popped
<1> QED BY <1>1, <1>2, <1>3, <1>4, <1>5, <1>6, <1>7, <1>8, <1>9, <1>10

LEMMA ShuffleStackKeeps ==
  ASSUME Inv, ShuffleStack
  PROVE  Inv'
<1> DEFINE new   == Pushed[Op - 86]
           moved == [i \in 1 .. Len(new) |-> Ops[Len(Ops) + 1 - new[i]]]
<1>1. /\ Fetch(StackOps) /\ Len(Ops) >= Pops(Op)
      /\ Continue(Drop(Ops, Pops(Op)) \o moved, After)
  BY DEF ShuffleStack, Ready
<1>2. frames # <<>> /\ Op \in StackOps /\ Op \in Byte /\ After \in Int
  BY <1>1, FetchFacts
<1>3. Ops \in Seq(Slot) /\ Len(Ops) \in Nat
  BY <1>2, TopFacts DEF Inv
<1>4. Op - 86 \in 1 .. 9 /\ Pops(Op) = Popped[Op - 86] /\ Pops(Op) \in Nat
  BY <1>2, PopsOf DEF StackOps
<1>5. \A i \in 1 .. Len(new) : new[i] \in 1 .. Pops(Op)
  BY <1>4, ShufflePositions
<1>6. Len(new) \in Nat
  BY <1>4 DEF Pushed
<1> HIDE DEF new
<1>7. moved \in Seq(Slot)
  <2>1. ASSUME NEW i \in 1 .. Len(new) PROVE Ops[Len(Ops) + 1 - new[i]] \in Slot
    <3>1. new[i] \in 1 .. Pops(Op)
      BY <1>5
    <3>2. Len(Ops) + 1 - new[i] \in 1 .. Len(Ops)
      BY <1>1, <1>3, <1>4, <3>1
    <3> QED BY <1>3, <3>2
  <2> QED BY <1>6, <2>1
<1>8. Drop(Ops, Pops(Op)) \in Seq(Slot)
  BY <1>1, <1>3, <1>4, DropProperties
<1>9. Drop(Ops, Pops(Op)) \o moved \in Seq(Slot)
  BY <1>7, <1>8, ConcatProperties
<1>10. Continue(Drop(Ops, Pops(Op)) \o moved, After)
  BY <1>1 DEF new
<1> QED BY <1>2, <1>9, <1>10, ContinueKeeps

LEMMA ComputeKeeps ==
  ASSUME Inv, Compute
  PROVE  Inv'
<1> DEFINE ks == AluIn(Op)
<1>1. /\ Fetch(AluOps) /\ Len(Ops) >= Pops(Op)
      /\ \E x \in FirstOperand(ks), y \in LastOperand(ks) :
           /\ ~ThrowsDivide(Op, y)
           /\ \E r \in AluResult(Op, x, y) :
                Continue(Drop(Ops, Pops(Op)) \o Words(AluOut(Op), r), After)
  BY DEF Compute, Ready
<1>2. frames # <<>> /\ Op \in AluOps /\ Op \in Byte /\ After \in Int
  BY <1>1, FetchFacts
<1>3. ks \in Seq(Kind) /\ Len(ks) \in {1, 2} /\ AluOut(Op) \in Kind
  BY <1>2, AluOperands
<1>4. Pops(Op) = Slots(ks)
  BY <1>2, PopsOf
<1>5. /\ \A x \in FirstOperand(ks) : x \in Values(ks[1])
      /\ \A y \in LastOperand(ks) : y \in Values(ks[Len(ks)])
      /\ Drop(Ops, Pops(Op)) \in Seq(Slot)
  <2> HIDE DEF ks
  <2> QED BY <1>1, <1>2, <1>3, <1>4, OperandValues
<1>6. PICK x \in FirstOperand(ks), y \in LastOperand(ks) :
        /\ ~ThrowsDivide(Op, y)
        /\ \E r \in AluResult(Op, x, y) :
             Continue(Drop(Ops, Pops(Op)) \o Words(AluOut(Op), r), After)
  BY <1>1
<1>7. PICK r \in AluResult(Op, x, y) :
        Continue(Drop(Ops, Pops(Op)) \o Words(AluOut(Op), r), After)
  BY <1>6
<1>8. r \in Values(AluOut(Op))
  BY <1>2, <1>5, <1>6, AluResultTyped
<1>9. Drop(Ops, Pops(Op)) \o Words(AluOut(Op), r) \in Seq(Slot)
  BY <1>3, <1>5, <1>8, PushWords
<1> QED BY <1>2, <1>7, <1>9, ContinueKeeps

LEMMA DivideKeeps ==
  ASSUME Inv, DivideByZero \/ DivideTrap
  PROVE  Inv'
<1>1. CASE DivideByZero
  <2>1. Fetch(AluOps) /\ Len(Ops) >= Pops(Op) /\ Throw(Drop(Ops, Pops(Op)))
    BY <1>1 DEF DivideByZero, Ready
  <2>2. frames # <<>> /\ Op \in Byte
    BY <2>1, FetchFacts
  <2>3. Pops(Op) \in Nat
    BY <2>2, PopsOf
  <2> QED BY <2>1, <2>2, <2>3, DropOpsThrowKeeps
<1>2. CASE DivideTrap
  BY <1>2, EndKeeps DEF DivideTrap, Status
<1> QED BY <1>1, <1>2

-----------------------------------------------------------------------------
(* Control flow *)

LEMMA BranchKeeps ==
  ASSUME Inv, Branch
  PROVE  Inv'
<1> DEFINE ks == BranchIn(Op)
           to(x, y) == IF Taken(Op, x, y) THEN pc + readSU2(Code, pc + 1) ELSE After
<1>1. /\ Fetch(BranchOps) /\ Len(Ops) >= Pops(Op)
      /\ \E x \in FirstOperand(ks), y \in LastOperand(ks) :
           Continue(Drop(Ops, Pops(Op)), to(x, y))
  BY DEF Branch, Ready
<1>2. /\ frames # <<>> /\ Op \in BranchOps /\ Op \in Byte /\ After \in Int
      /\ pc \in Nat /\ pc + Operands(Op) < Len(Code)
  BY <1>1, FetchFacts
<1>3. ks \in Seq(Kind) /\ Len(ks) \in {1, 2}
  BY <1>2, BranchKinds
<1>4. Pops(Op) = Slots(ks)
  BY <1>2, PopsOf
<1>5. Drop(Ops, Pops(Op)) \in Seq(Slot)
  <2> HIDE DEF ks
  <2> QED BY <1>1, <1>2, <1>3, <1>4, OperandValues
<1>6. readSU2(Code, pc + 1) \in Int
  <2>1. Operands(Op) = 2
    BY <1>2 DEF Operands, BranchOps
  <2>2. Code \in Seq(Byte)
    BY <1>2, TopFacts DEF Inv
  <2>3. pc + 1 \in Nat /\ (pc + 1) + 1 < Len(Code)
    BY <1>2, <2>1
  <2> QED BY <2>2, <2>3, CodeBytes
<1>7. PICK x \in FirstOperand(ks), y \in LastOperand(ks) :
        Continue(Drop(Ops, Pops(Op)), to(x, y))
  BY <1>1
<1>8. to(x, y) \in Int
  BY <1>2, <1>6
<1> QED BY <1>2, <1>5, <1>7, <1>8, ContinueKeeps

LEMMA GotoKeeps ==
  ASSUME Inv, Goto
  PROVE  Inv'
<1> DEFINE offset == IF Op = 167 THEN readSU2(Code, pc + 1) ELSE readSU4(Code, pc + 1)
<1>1. Fetch({167, 200}) /\ Continue(Ops, pc + offset)
  BY DEF Goto
<1>2. /\ frames # <<>> /\ Op \in {167, 200} /\ pc \in Nat
      /\ pc + Operands(Op) < Len(Code)
  BY <1>1, FetchFacts
<1>3. Operands(167) = 2 /\ Operands(200) = 4
  BY DEF Operands
<1>4. Code \in Seq(Byte) /\ Ops \in Seq(Slot)
  BY <1>2, TopFacts DEF Inv
<1>5. offset \in Int
  <2>1. pc + 1 \in Nat /\ (pc + 1) + 1 < Len(Code) /\ (Op = 200 => (pc + 1) + 3 < Len(Code))
    BY <1>2, <1>3, <1>4
  <2> QED BY <1>2, <1>4, <2>1, CodeBytes
<1>6. pc + offset \in Int
  BY <1>2, <1>5
<1> QED BY <1>1, <1>2, <1>4, <1>6, ContinueKeeps

(* Every word of a switch whose table is in the code is an integer. *)
LEMMA SwitchWords ==
  ASSUME Code \in Seq(Byte), pc \in Nat, NEW n \in Nat, TableAt + 4 * (n + 1) <= Len(Code)
  PROVE  Word(n) \in Int
<1>1. TableAt \in Nat
  <2>1. ASSUME NEW p \in Nat PROVE p + ((-p) % 4) \in Nat
    BY SMT
  <2> QED BY <2>1 DEF TableAt, align4
<1>2. TableAt + 4 * n \in Nat /\ (TableAt + 4 * n) + 3 < Len(Code)
  BY <1>1
<1> QED BY <1>2, CodeBytes DEF Word

LEMMA SwitchTarget ==
  ASSUME Code \in Seq(Byte), pc \in Nat, HasTable, NEW x \in Int
  PROVE  /\ Op = 170 => TableTarget(x) \in Int
         /\ Op = 171 => LookupTarget(x) \in Int
<1>0. TableAt \in Int /\ Len(Code) \in Nat
  <2>1. ASSUME NEW p \in Nat PROVE p + ((-p) % 4) \in Int
    BY SMT
  <2> QED BY <2>1 DEF TableAt, align4
<1>1. CASE Op = 170
  <2>1. TableAt + 4 * 3 <= Len(Code)
    BY <1>1 DEF HasTable, HasHeader, Header
  <2>2. Word(0) \in Int /\ Word(1) \in Int /\ Word(2) \in Int
    BY <1>0, <2>1, SwitchWords
  <2>3. TableAt + 4 * (3 + (Word(2) - Word(1) + 1)) <= Len(Code)
    BY <1>1 DEF HasTable, Header, TableSize, Entries
  <2>4. CASE x < Word(1) \/ x > Word(2)
    BY <1>1, <2>2, <2>4 DEF TableTarget
  <2>5. CASE ~(x < Word(1) \/ x > Word(2))
    <3> DEFINE n == 3 + x - Word(1)
    <3>1. n \in Nat /\ TableAt + 4 * (n + 1) <= Len(Code)
      <4>1. ASSUME NEW at \in Int, NEW low \in Int, NEW high \in Int, NEW size \in Nat,
                   at + 4 * (3 + (high - low + 1)) <= size, ~(x < low \/ x > high)
            PROVE  3 + x - low \in Nat /\ at + 4 * ((3 + x - low) + 1) <= size
        BY <4>1
      <4> QED BY <1>0, <2>2, <2>3, <2>5, <4>1, Zenon
    <3>2. Word(n) \in Int
      BY <3>1, SwitchWords
    <3> QED BY <1>1, <2>5, <3>2 DEF TableTarget
  <2> QED BY <1>1, <2>4, <2>5
<1>2. CASE Op = 171
  <2>1. TableAt + 4 * 2 <= Len(Code) /\ Entries >= 0
    BY <1>2 DEF HasTable, HasHeader, Header
  <2>2. Word(0) \in Int /\ Word(1) \in Int
    BY <1>0, <2>1, SwitchWords
  <2>3. Entries = Word(1) /\ TableAt + 4 * (2 + 2 * Word(1)) <= Len(Code)
    BY <1>2 DEF HasTable, Header, TableSize, Entries
  <2>4. CASE Matches(x) = {}
    BY <2>2, <2>4, <1>2 DEF LookupTarget
  <2>5. CASE Matches(x) # {}
    <3> DEFINE i == CHOOSE k \in Matches(x) : \A j \in Matches(x) : k <= j
    <3>1. Matches(x) \in SUBSET Nat
      BY <2>2, <2>3 DEF Matches
    <3>2. \E k \in Matches(x) : \A j \in Matches(x) : k <= j
      BY <2>5, <3>1, LeastNat
    <3>3. i \in Matches(x)
      BY <3>2
    <3>4. i \in 0 .. Word(1) - 1
      BY <2>3, <3>3 DEF Matches
    <3> HIDE DEF i
    <3>5. 3 + 2 * i \in Nat /\ TableAt + 4 * ((3 + 2 * i) + 1) <= Len(Code)
      BY <1>0, <2>2, <2>3, <3>4
    <3>6. Word(3 + 2 * i) \in Int
      BY <3>5, SwitchWords
    <3> QED BY <1>2, <2>5, <3>6 DEF LookupTarget, i
  <2> QED BY <1>2, <2>4, <2>5
<1> QED BY <1>1, <1>2

LEMMA SwitchKeeps ==
  ASSUME Inv, Switch
  PROVE  Inv'
<1> DEFINE to(x) == IF Op = 170 THEN TableTarget(x) ELSE LookupTarget(x)
           ks    == <<"i">>
<1>1. /\ Fetch(SwitchOps) /\ Len(Ops) >= Pops(Op) /\ HasTable
      /\ \E x \in LastOperand(ks) : Continue(Drop(Ops, 1), pc + to(x))
  BY DEF Switch, Ready
<1>2. frames # <<>> /\ Op \in {170, 171} /\ Op \in Byte /\ pc \in Nat
  BY <1>1, FetchFacts DEF SwitchOps
<1>3. ks \in Seq(Kind) /\ Len(ks) = 1 /\ ks[Len(ks)] = "i" /\ Slots(ks) = 1
  BY DEF Kind, Slots, Width
<1>4. Pops(Op) = 1
  BY <1>2, PopsOf DEF SwitchOps
<1> HIDE DEF ks
<1>5. (\A x \in LastOperand(ks) : x \in Values("i")) /\ Drop(Ops, 1) \in Seq(Slot)
  <2>1. ks \in Seq(Kind) /\ Len(ks) \in {1, 2} /\ Len(Ops) >= Slots(ks) /\ frames # <<>>
    BY <1>1, <1>2, <1>3, <1>4
  <2>2. (\A x \in LastOperand(ks) : x \in Values(ks[Len(ks)])) /\ Drop(Ops, Slots(ks)) \in Seq(Slot)
    BY <2>1, OperandValues
  <2> QED BY <1>3, <2>2
<1>6. PICK x \in LastOperand(ks) : Continue(Drop(Ops, 1), pc + to(x))
  BY <1>1
<1>7. x \in Int
  BY <1>5, ValuesAreInts DEF Kind
<1>8. to(x) \in Int
  <2>1. Code \in Seq(Byte)
    BY <1>2, TopFacts DEF Inv
  <2> QED BY <1>1, <1>2, <1>7, <2>1, SwitchTarget
<1>9. pc + to(x) \in Int
  BY <1>2, <1>8
<1> QED BY <1>2, <1>5, <1>6, <1>9, ContinueKeeps

-----------------------------------------------------------------------------
(* Calls, returns, and the instructions that end the run *)

LEMMA ReturnKeeps ==
  ASSUME Inv, ReturnValue \/ ReturnVoid
  PROVE  Inv'
<1>1. CASE ReturnValue
  <2> DEFINE k  == Kinds[Op - 171]
             ks == <<k>>
  <2>1. /\ Fetch(ReturnOps) /\ Len(Ops) >= Pops(Op)
        /\ \E x \in LastOperand(ks) : Leave(Words(k, x))
        /\ status' = status
    BY <1>1 DEF ReturnValue, Ready
  <2>2. frames # <<>> /\ Op \in ReturnOps /\ Op \in Byte
    BY <2>1, FetchFacts
  <2>3. k \in Kind
    BY <2>2, ReturnKinds
  <2>4. Pops(Op) = Width(k)
    BY <2>2, PopsOf
  <2> HIDE DEF k
  <2>5. ks \in Seq(Kind) /\ Len(ks) = 1 /\ ks[Len(ks)] = k /\ Slots(ks) = Width(k)
    BY <2>3 DEF Slots
  <2> HIDE DEF ks
  <2>6. \A x \in LastOperand(ks) : x \in Values(k)
    <3>1. Len(ks) \in {1, 2} /\ Len(Ops) >= Slots(ks)
      BY <2>1, <2>4, <2>5
    <3> QED BY <2>2, <2>5, <3>1, OperandValues
  <2>7. PICK x \in LastOperand(ks) : Leave(Words(k, x))
    BY <2>1
  <2>8. Words(k, x) \in Seq(Slot)
    BY <2>3, <2>6, WordsSlots
  <2>9. status' \in Status
    BY <2>1 DEF Inv, TypeOK, Status
  <2> QED BY <2>2, <2>7, <2>8, <2>9, LeaveKeeps
<1>2. CASE ReturnVoid
  <2>1. Fetch({177}) /\ Leave(<<>>) /\ status' \in Status
    BY <1>2 DEF ReturnVoid, Inv, TypeOK, Status
  <2>2. frames # <<>>
    BY <2>1, FetchFacts
  <2>3. <<>> \in Seq(Slot)
    OBVIOUS
  <2> QED BY <2>1, <2>2, <2>3, LeaveKeeps
<1> QED BY <1>1, <1>2

LEMMA InvokeStaticKeeps ==
  ASSUME Inv, InvokeStatic
  PROVE  Inv'
<1>1. TakesArguments /\ EnterCallee(After)
  BY DEF InvokeStatic
<1>2. Fetch({178, 179, 184}) /\ Op = 184
  BY <1>1 DEF TakesArguments, CallsStatic, Resolves
<1>3. frames # <<>> /\ After = pc + 1 + Operands(Op) /\ pc \in Nat
  BY <1>2, FetchFacts
<1>4. Operands(184) = 2
  BY DEF Operands
<1>5. After = pc + 3
  BY <1>2, <1>3, <1>4
<1> QED BY <1>1, <1>3, <1>5, EnterKeeps

LEMMA InvokeBadArgumentsKeeps ==
  ASSUME Inv, InvokeBadArguments
  PROVE  Inv'
<1>1. /\ Fetch({178, 179, 184})
      /\ Throw(<<>>) \/ Throw(IF Ops = <<>> THEN Ops ELSE Drop(Ops, 1))
  BY DEF InvokeBadArguments, CallsStatic, Resolves
<1>2. frames # <<>>
  BY <1>1, FetchFacts
<1>3. Ops \in Seq(Slot)
  BY <1>2, TopFacts DEF Inv
<1>4. (IF Ops = <<>> THEN Ops ELSE Drop(Ops, 1)) \in Seq(Slot)
  <2>1. ASSUME Ops # <<>> PROVE Drop(Ops, 1) \in Seq(Slot)
    <3>1. 1 \in 0 .. Len(Ops)
      BY <1>3, <2>1
    <3> QED BY <1>3, <3>1, DropProperties
  <2> QED BY <1>3, <2>1
<1>5. <<>> \in Seq(Slot)
  OBVIOUS
<1> QED BY <1>1, <1>2, <1>4, <1>5, ThrowKeeps

(* The exceptions that leave the operand stack as it is, or empty. *)
LEMMA ThrowingKeeps ==
  ASSUME Inv, SwitchBadLength \/ ResolutionThrows \/ Underflow \/ InvalidOpcode
  PROVE  Inv'
<1>1. frames # <<>> /\ (Throw(Ops) \/ Throw(<<>>))
  BY DEF SwitchBadLength, ResolutionThrows, Resolves, Underflow, InvalidOpcode, Fetch,
         AtInstruction
<1>2. Ops \in Seq(Slot) /\ <<>> \in Seq(Slot)
  BY <1>1, TopFacts DEF Inv
<1> QED BY <1>1, <1>2, ThrowKeeps

LEMMA EndingKeeps ==
  ASSUME Inv, PoolOverrun \/ UnsafeMember \/ CodeOverrun \/ EndOfThread \/ EndOfCode
  PROVE  Inv'
<1>1. CASE UnsafeMember /\ Throw(Ops)
  <2>1. frames # <<>>
    BY <1>1 DEF UnsafeMember, Resolves, Fetch, AtInstruction
  <2>2. Ops \in Seq(Slot)
    BY <2>1, TopFacts DEF Inv
  <2> QED BY <1>1, <2>1, <2>2, ThrowKeeps
<1>2. CASE End("undefined") \/ End("returned")
  BY <1>2, EndKeeps DEF Status
<1> QED BY <1>1, <1>2 DEF PoolOverrun, UnsafeMember, CodeOverrun, EndOfThread, EndOfCode

-----------------------------------------------------------------------------
(* The invariant *)

LEMMA StartsWell ==
  ASSUME Init
  PROVE  Inv
<1>1. PICK c \in Calls : Start(c)
  BY DEF Init
<1> DEFINE host  == [NewFrame(c.method, Zeroed(c.method)) EXCEPT
                       !.callerPC = Len(Prog[c.method].code)]
           first == NewFrame(c.method, c.locals)
<1>2. /\ c.method \in Method /\ c.locals \in Seq(Slot) /\ c.host \in BOOLEAN
      /\ Len(c.locals) = Prog[c.method].maxLocals
  BY CallsAssumption DEF CallsAssumption
<1>3. Prog[c.method].maxLocals \in Nat /\ Prog[c.method].code \in Seq(Byte)
  BY <1>2, ProgAssumption DEF ProgAssumption
<1>4. Zeroed(c.method) \in Seq(Slot) /\ Len(Zeroed(c.method)) = Prog[c.method].maxLocals
  <2>1. ZeroSlot \in Slot
    BY DEF ZeroSlot, Slot
  <2> QED BY <1>3, <2>1 DEF Zeroed
<1>5. /\ host \in Frame /\ host.m = c.method /\ host.locals = Zeroed(c.method)
      /\ host.ops = <<>> /\ host.callerPC = Len(Prog[c.method].code)
  <2>1. host = [m |-> c.method, locals |-> Zeroed(c.method), ops |-> <<>>,
                callerPC |-> Len(Prog[c.method].code)]
    BY DEF NewFrame
  <2>2. Len(Prog[c.method].code) \in Int /\ <<>> \in Seq(Slot)
    BY <1>3
  <2> HIDE DEF host
  <2> QED BY <1>2, <1>4, <2>1, <2>2 DEF Frame
<1>6. first \in Frame /\ first.m = c.method /\ first.locals = c.locals
  BY <1>2 DEF NewFrame, Frame
<1>7. /\ frames = (IF c.host THEN <<host>> ELSE <<>>) \o <<first>>
      /\ pc = 0 /\ tpc = 0 /\ status = "running"
  BY <1>1 DEF Start
<1>8. IsHost(host)
  BY <1>5 DEF IsHost
<1> HIDE DEF host, first
<1>9. CASE c.host = TRUE
  <2>1. frames = <<host>> \o <<first>>
    BY <1>7, <1>9, Zenon
  <2>2. /\ frames \in Seq(Frame) /\ Len(frames) = 2
        /\ frames[1] = host /\ frames[2] = first
    BY <1>5, <1>6, <2>1, ConcatProperties
  <2>3. \A i \in 1 .. Len(frames) : i = 1 \/ i = 2
    BY <2>2
  <2>4. TypeOK
    BY <1>2, <1>4, <1>5, <1>6, <1>7, <2>2, <2>3 DEF TypeOK
  <2>5. CallChain
    BY <1>8, <2>2 DEF CallChain
  <2> QED BY <2>4, <2>5 DEF Inv
<1>10. CASE c.host = FALSE
  <2>1. frames = <<>> \o <<first>>
    BY <1>7, <1>10, Zenon
  <2>2. frames \in Seq(Frame) /\ Len(frames) = 1 /\ frames[1] = first
    BY <1>6, <2>1, ConcatProperties
  <2>3. TypeOK
    BY <1>2, <1>6, <1>7, <2>2 DEF TypeOK
  <2>4. CallChain
    BY <2>2 DEF CallChain
  <2> QED BY <2>3, <2>4 DEF Inv
<1> QED BY <1>2, <1>9, <1>10

LEMMA StepKeeps ==
  ASSUME Inv, [Next]_vars
  PROVE  Inv'
<1>1. CASE Ignore \/ PushConst \/ PushImmediate
  BY <1>1, PushingKeeps
<1>2. CASE LoadConstant
  BY <1>2, LoadConstantKeeps
<1>3. CASE Load
  BY <1>3, LoadKeeps
<1>4. CASE Store
  BY <1>4, StoreKeeps
<1>5. CASE Increment
  BY <1>5, IncrementKeeps
<1>6. CASE LocalOutOfBounds
  BY <1>6, LocalOutOfBoundsKeeps
<1>7. CASE ShuffleStack
  BY <1>7, ShuffleStackKeeps
<1>8. CASE Compute
  BY <1>8, ComputeKeeps
<1>9. CASE DivideByZero \/ DivideTrap
  BY <1>9, DivideKeeps
<1>10. CASE Branch
  BY <1>10, BranchKeeps
<1>11. CASE Goto
  BY <1>11, GotoKeeps
<1>12. CASE Switch
  BY <1>12, SwitchKeeps
<1>13. CASE ReturnValue \/ ReturnVoid
  BY <1>13, ReturnKeeps
<1>14. CASE InvokeStatic
  BY <1>14, InvokeStaticKeeps
<1>15. CASE InvokeBadArguments
  BY <1>15, InvokeBadArgumentsKeeps
<1>16. CASE SwitchBadLength \/ ResolutionThrows \/ Underflow \/ InvalidOpcode
  BY <1>16, ThrowingKeeps
<1>17. CASE PoolOverrun \/ UnsafeMember \/ CodeOverrun \/ EndOfThread \/ EndOfCode
  BY <1>17, EndingKeeps
<1>18. CASE UNCHANGED vars
  BY <1>18 DEF vars, Inv, TypeOK, CallChain, WaitsForNext, IsHost
<1> QED BY <1>1, <1>2, <1>3, <1>4, <1>5, <1>6, <1>7, <1>8, <1>9, <1>10, <1>11, <1>12,
           <1>13, <1>14, <1>15, <1>16, <1>17, <1>18 DEF Next

(* Whatever code runs, from any embedder's call: frames stay well typed,   *)
(* every slot's value within the union member it was written through       *)
(* (operand_stack.h, local_variables.h, slot.h).                           *)
THEOREM SlotsTyped == Spec => []TypeOK
<1>1. Init => Inv
  BY StartsWell
<1>2. Inv /\ [Next]_vars => Inv'
  BY StepKeeps
<1>3. Inv => TypeOK
  BY DEF Inv
<1> QED BY <1>1, <1>2, <1>3, PTL DEF Spec

(* Whatever code runs: a suspended frame goes on just after the call of    *)
(* the method above it (setCallerPC in INVOKESTATIC, the returns).         *)
THEOREM FramesAreACallChain == Spec => []CallChain
<1>1. Init => Inv
  BY StartsWell
<1>2. Inv /\ [Next]_vars => Inv'
  BY StepKeeps
<1>3. Inv => CallChain
  BY DEF Inv
<1> QED BY <1>1, <1>2, <1>3, PTL DEF Spec

-----------------------------------------------------------------------------
(* What the instructions compute *)

(* An instruction that computes on operands of its kinds leaves, on top of *)
(* the stack, one of its results for them, and neither throws nor traps.   *)
LEMMA ComputeMeans ==
  ASSUME Inv, NEW S \in SUBSET AluOps, Executes(S)
  PROVE  /\ Op \in S /\ Op \in AluOps
         /\ First.v \in Values(AluIn(Op)[1])
         /\ Last.v \in Values(AluIn(Op)[Len(AluIn(Op))])
         /\ ~ThrowsDivide(Op, Last.v) /\ ~Traps(Op, First.v, Last.v)
         /\ \E r \in AluResult(Op, First.v, Last.v) :
              r \in Values(AluOut(Op)) /\ Out = Of(AluOut(Op), r)
<1> DEFINE ks == AluIn(Op)
<1>1. /\ Fetch(AluOps) /\ Len(Ops) >= Pops(Op)
      /\ \E x \in FirstOperand(ks), y \in LastOperand(ks) :
           /\ ~ThrowsDivide(Op, y) /\ ~Traps(Op, x, y)
           /\ \E r \in AluResult(Op, x, y) :
                Continue(Drop(Ops, Pops(Op)) \o Words(AluOut(Op), r), After)
      /\ Op \in S /\ First.k = ks[1] /\ Last.k = ks[Len(ks)]
  BY DEF Executes, Takes, Compute, Ready
<1>2. frames # <<>> /\ Op \in AluOps /\ Op \in Byte /\ After \in Int
  BY <1>1, FetchFacts
<1>3. ks \in Seq(Kind) /\ Len(ks) \in {1, 2} /\ AluOut(Op) \in Kind
  BY <1>2, AluOperands
<1>4. Pops(Op) = Slots(ks)
  BY <1>2, PopsOf
<1>5. FirstOperand(ks) = {First.v} /\ LastOperand(ks) = {Last.v}
  BY <1>1 DEF FirstOperand, LastOperand, First, Last, Read
<1>6. /\ \A x \in FirstOperand(ks) : x \in Values(ks[1])
      /\ \A y \in LastOperand(ks) : y \in Values(ks[Len(ks)])
      /\ Drop(Ops, Pops(Op)) \in Seq(Slot)
  <2> HIDE DEF ks
  <2> QED BY <1>1, <1>2, <1>3, <1>4, OperandValues
<1>7. First.v \in Values(ks[1]) /\ Last.v \in Values(ks[Len(ks)])
  BY <1>5, <1>6
<1>8. /\ ~ThrowsDivide(Op, Last.v) /\ ~Traps(Op, First.v, Last.v)
      /\ \E r \in AluResult(Op, First.v, Last.v) :
           Continue(Drop(Ops, Pops(Op)) \o Words(AluOut(Op), r), After)
  BY <1>1, <1>5
<1>9. PICK r \in AluResult(Op, First.v, Last.v) :
        Continue(Drop(Ops, Pops(Op)) \o Words(AluOut(Op), r), After)
  BY <1>8
<1>10. r \in Values(AluOut(Op))
  BY <1>2, <1>7, <1>8, AluResultTyped
<1> DEFINE left == Drop(Ops, Pops(Op)) \o Words(AluOut(Op), r)
<1>11. left[Len(left)] = Of(AluOut(Op), r) /\ left \in Seq(Slot)
  <2>1. left \in Seq(Slot)
    BY <1>3, <1>6, <1>10, PushWords
  <2>2. /\ Words(AluOut(Op), r) \in Seq(Slot) /\ Len(Words(AluOut(Op), r)) \in {1, 2}
        /\ Words(AluOut(Op), r)[Len(Words(AluOut(Op), r))] = Of(AluOut(Op), r)
    BY <1>3, <1>10, WordsSlots DEF Words
  <2> QED BY <1>6, <2>1, <2>2
<1>12. Out = left[Len(left)]
  <2>1. frames' = SetTop([Top EXCEPT !.ops = left])
    BY <1>9 DEF Continue
  <2>2. frames \in Seq(Frame) /\ Len(frames) \in Nat \ {0} /\ Top \in Frame
    BY <1>2, TopFacts DEF Inv, TypeOK
  <2> HIDE DEF left
  <2>3. Len(frames') = Len(frames) /\ frames'[Len(frames)] = [Top EXCEPT !.ops = left]
    BY <2>1, <2>2 DEF SetTop
  <2>4. [Top EXCEPT !.ops = left].ops = left
    BY <2>2 DEF Frame
  <2> QED BY <2>3, <2>4 DEF Out
<1> QED BY <1>1, <1>2, <1>7, <1>8, <1>9, <1>10, <1>11, <1>12

(* Integer arithmetic divides where the opcode says so. *)
LEMMA QuotientsDivide ==
  ASSUME NEW k \in {"i", "l"}, NEW op \in IntArith(k)
  PROVE  (op \in Quotients) <=> DividesInts(op)
BY DEF IntArith, Quotients, ArithName, ArithKind, ArithNames, Kinds, ArithOps, DividesInts

(* IADD .. LNEG that compute leave the result of the operation on          *)
(* unbounded integers, up to the width, and do not divide by zero or the   *)
(* least value by -1.                                                      *)
LEMMA ComputedArithmetic ==
  ASSUME Inv, NEW k \in {"i", "l"}, Executes(IntArith(k))
  PROVE  /\ ~(Op \in Quotients /\ Last.v = 0) /\ ~LeastByMinusOne(k)
         /\ Out.k = k /\ Out.v \in Values(k)
         /\ ArithmeticLaw(ArithName(Op), Bits(k), First.v, Last.v, Out.v)
<1> DEFINE f == ArithName(Op)
           x == First.v
           y == Last.v
<1>1. IntArith(k) \in SUBSET AluOps
  BY DEF IntArith, AluOps
<1>2. /\ Op \in IntArith(k) /\ Op \in AluOps
      /\ x \in Values(AluIn(Op)[1]) /\ y \in Values(AluIn(Op)[Len(AluIn(Op))])
      /\ ~ThrowsDivide(Op, y) /\ ~Traps(Op, x, y)
      /\ \E r \in AluResult(Op, x, y) :
           r \in Values(AluOut(Op)) /\ Out = Of(AluOut(Op), r)
  BY <1>1, ComputeMeans
<1>3. /\ Op \in ArithOps /\ ArithKind(Op) = k
      /\ f \in {"add", "sub", "mul", "div", "rem", "neg"}
  BY <1>2, ArithKinds DEF IntArith
<1>4. /\ AluOut(Op) = k
      /\ AluIn(Op)[1] = k /\ AluIn(Op)[Len(AluIn(Op))] = k
      /\ AluResult(Op, x, y) = {Arith(f, k, x, y)}
  <2> HIDE DEF x, y
  <2>1. /\ Op \notin ShiftOps /\ Op \notin BitOps
        /\ Op \notin ConvertOps /\ Op \notin CompareOps
    BY <1>3 DEF ArithOps, ShiftOps, BitOps, ConvertOps, CompareOps
  <2>2. AluOut(Op) = k
    BY <1>3, <2>1 DEF AluOut
  <2>3. AluIn(Op) = IF f = "neg" THEN <<k>> ELSE <<k, k>>
    BY <1>3, <2>1 DEF AluIn
  <2>4. AluResult(Op, x, y) = {Arith(f, k, x, y)}
    BY <1>3, <2>1 DEF AluResult, Integral, Floating
  <2> QED  BY <2>2, <2>3, <2>4
<1>5. Op \in Quotients => y # 0 /\ ~(x = -HalfOf(Bits(k)) /\ y = -1)
  <2>1. Op \in Quotients => DividesInts(Op)
    BY <1>2, QuotientsDivide
  <2> QED  BY <1>2, <1>3, <2>1 DEF ThrowsDivide, Traps
<1>6. ArithmeticLaw(f, Bits(k), x, y, Arith(f, k, x, y))
  BY <1>2, <1>3, <1>4, <1>5, ArithmeticIsRight DEF Quotients
<1>7. Out.k = k /\ Out.v = Arith(f, k, x, y) /\ Out.v \in Values(k)
  BY <1>2, <1>4 DEF Of
<1> QED  BY <1>5, <1>6, <1>7 DEF LeastByMinusOne

(* A division that throws or traps has the operands that it does so for.   *)
LEMMA DivisionsMean ==
  ASSUME NEW S, Takes(S), DivideByZero \/ DivideTrap
  PROVE  \/ ThrowsDivide(Op, Last.v) /\ status' = "threw"
         \/ Traps(Op, First.v, Last.v) /\ status' = "undefined"
<1> DEFINE ks == AluIn(Op)
<1>1. FirstOperand(ks) = {First.v} /\ LastOperand(ks) = {Last.v}
  BY DEF Takes, FirstOperand, LastOperand, First, Last, Read
<1> QED  BY <1>1 DEF DivideByZero, DivideTrap, Throw, End

(* IADD .. LNEG throw for a division by zero, trap for the least value     *)
(* divided by -1, and otherwise leave the result.                          *)
LEMMA ArithmeticIsTrue ==
  ASSUME Inv
  PROVE  ArithmeticStep
<1> SUFFICES ASSUME Inv, NEW k \in {"i", "l"}, Runs(IntArith(k))
             PROVE  IF Op \in Quotients /\ Last.v = 0 THEN status' = "threw"
                    ELSE IF LeastByMinusOne(k) THEN status' = "undefined"
                    ELSE /\ Out.k = k /\ Out.v \in Values(k)
                         /\ ArithmeticLaw(ArithName(Op), Bits(k), First.v, Last.v, Out.v)
  BY DEF ArithmeticStep
<1>1. Takes(IntArith(k)) /\ Op \in IntArith(k) /\ ArithKind(Op) = k
  BY DEF Runs, Takes, IntArith
<1>2. (Op \in Quotients) <=> DividesInts(Op)
  BY <1>1, QuotientsDivide
<1>3. CASE Compute
  BY <1>1, <1>3, ComputedArithmetic DEF Executes
<1>4. CASE DivideByZero \/ DivideTrap
  <2>1. CASE ThrowsDivide(Op, Last.v) /\ status' = "threw"
    BY <1>2, <2>1 DEF ThrowsDivide
  <2>2. CASE Traps(Op, First.v, Last.v) /\ status' = "undefined"
    BY <1>1, <1>2, <2>2 DEF Traps, LeastByMinusOne
  <2> QED  BY <1>1, <1>4, <2>1, <2>2, DivisionsMean
<1> QED  BY <1>3, <1>4 DEF Runs

(* IAND .. LXOR leave the operation on all the bits. *)
LEMMA BitwiseIsTrue ==
  ASSUME Inv
  PROVE  BitwiseStep
<1> SUFFICES ASSUME Inv, Executes(BitOps)
             PROVE  /\ Out.k = ShiftKind(Op) /\ Out.v \in Values(Out.k)
                    /\ BitLaw(Op, Bits(ShiftKind(Op)), First.v, Last.v, Out.v)
  BY DEF BitwiseStep
<1>1. /\ Op \in BitOps
      /\ First.v \in Values(AluIn(Op)[1])
      /\ Last.v \in Values(AluIn(Op)[Len(AluIn(Op))])
  BY ComputeMeans DEF AluOps
<1>2. PICK r \in AluResult(Op, First.v, Last.v) :
             r \in Values(AluOut(Op)) /\ Out = Of(AluOut(Op), r)
  BY ComputeMeans DEF AluOps
<1>3. /\ ShiftKind(Op) \in {"i", "l"}
      /\ Op \notin ArithOps /\ Op \notin ShiftOps
      /\ Op \notin ConvertOps /\ Op \notin CompareOps
  <2>1. ShiftKind(Op) \in {"i", "l"}
    BY <1>1, ShiftKinds
  <2> QED  BY <1>1, <2>1 DEF BitOps, ArithOps, ShiftOps, ConvertOps, CompareOps
<1>4. /\ AluOut(Op) = ShiftKind(Op)
      /\ AluIn(Op) = <<ShiftKind(Op), ShiftKind(Op)>>
  BY <1>1, <1>3 DEF AluOut, AluIn
<1>5. First.v \in Int /\ Last.v \in Int
  BY <1>1, <1>3, <1>4, ValuesAreInts DEF Kind
<1>6. BitLaw(Op, Bits(ShiftKind(Op)), First.v, Last.v, r)
  BY <1>1, <1>2, <1>5, BitsAreRight
<1> QED  BY <1>2, <1>4, <1>6 DEF Of

(* Whatever code runs, for integers of any width and all operands: a       *)
(* division by zero throws, the least value divided by -1 traps, and every *)
(* other arithmetic or bitwise instruction leaves the result of its        *)
(* operation (interpreter.cpp, "Arithmetic").                              *)
THEOREM IntegersAreTrue == Spec => IntegerArithmetic
<1>1. Init => Inv
  BY StartsWell
<1>2. Inv /\ [Next]_vars => Inv'
  BY StepKeeps
<1>3. Inv => [ArithmeticStep /\ BitwiseStep]_vars
  BY ArithmeticIsTrue, BitwiseIsTrue
<1> QED  BY <1>1, <1>2, <1>3, PTL DEF Spec, IntegerArithmetic

(* Whatever code runs: LCMP .. DCMPG leave the order of their operands.    *)
THEOREM ComparisonsAreTrue == Spec => Comparisons
<1> DEFINE Right ==
      Executes(CompareOps) =>
        /\ Out.k = "i" /\ Out.v \in {-1, 0, 1}
        /\ ComparisonLaw(Op, First.v, Last.v, Out.v)
<1>1. Init => Inv
  BY StartsWell
<1>2. Inv /\ [Next]_vars => Inv'
  BY StepKeeps
<1>3. Inv => Right
  <2> SUFFICES ASSUME Inv, Executes(CompareOps)
               PROVE  /\ Out.k = "i" /\ Out.v \in {-1, 0, 1}
                      /\ ComparisonLaw(Op, First.v, Last.v, Out.v)
    OBVIOUS
  <2>1. /\ Op \in CompareOps /\ Op \in AluOps
        /\ First.v \in Values(AluIn(Op)[1])
        /\ Last.v \in Values(AluIn(Op)[Len(AluIn(Op))])
    BY ComputeMeans DEF AluOps
  <2>2. PICK r \in AluResult(Op, First.v, Last.v) :
               r \in Values(AluOut(Op)) /\ Out = Of(AluOut(Op), r)
    BY ComputeMeans DEF AluOps
  <2>3. /\ Op \notin ArithOps /\ Op \notin ShiftOps
        /\ Op \notin BitOps /\ Op \notin ConvertOps
    BY <2>1 DEF BitOps, ArithOps, ShiftOps, ConvertOps, CompareOps
  <2>4. AluOut(Op) = "i" /\ AluResult(Op, First.v, Last.v) = Compare(Op, First.v, Last.v)
    BY <2>1, <2>3 DEF AluOut, AluResult
  <2>5. First.v \in Int /\ Last.v \in Int
    <3>1. AluIn(Op) \in Seq(Kind) /\ Len(AluIn(Op)) \in {1, 2}
      BY <2>1, AluOperands
    <3>2. AluIn(Op)[1] \in Kind /\ AluIn(Op)[Len(AluIn(Op))] \in Kind
      BY <3>1
    <3> QED  BY <2>1, <3>2, ValuesAreInts
  <2>6. ComparisonLaw(Op, First.v, Last.v, r)
    BY <2>1, <2>2, <2>4, <2>5, CompareIsRight
  <2>7. r \in {-1, 0, 1}
    <3>1. Sign(First.v - Last.v) \in {-1, 0, 1}
      BY <2>5 DEF Sign
    <3> QED  BY <2>2, <2>4, <3>1 DEF Compare
  <2> QED  BY <2>2, <2>4, <2>6, <2>7 DEF Of
<1>4. Inv => [Right]_vars
  BY <1>3
<1> QED  BY <1>1, <1>2, <1>4, PTL DEF Spec, Comparisons

(* Whatever code runs: I2L .. I2S leave the operand as the target's kind   *)
(* represents it; of NaN, an infinity or a float beyond an integer's       *)
(* range, 0 or what the cast gives, which is not the end of the range that *)
(* the JVM specification asks for (interpreter.cpp, "Conversions").        *)
THEOREM ConversionsAreTrue == Spec => NumericConversions
<1> DEFINE Right ==
      Executes(ConvertOps) =>
        /\ Out.k = AluOut(Op) /\ Out.v \in Values(Out.k)
        /\ ConversionLaw(Op, First.v, Out.v)
<1>1. Init => Inv
  BY StartsWell
<1>2. Inv /\ [Next]_vars => Inv'
  BY StepKeeps
<1>3. Inv => Right
  <2> SUFFICES ASSUME Inv, Executes(ConvertOps)
               PROVE  /\ Out.k = AluOut(Op) /\ Out.v \in Values(Out.k)
                      /\ ConversionLaw(Op, First.v, Out.v)
    OBVIOUS
  <2>1. Op \in ConvertOps /\ First.v \in Values(AluIn(Op)[1])
    BY ComputeMeans DEF AluOps
  <2>2. PICK r \in AluResult(Op, First.v, Last.v) :
               r \in Values(AluOut(Op)) /\ Out = Of(AluOut(Op), r)
    BY ComputeMeans DEF AluOps
  <2>3. /\ Op \notin ArithOps /\ Op \notin ShiftOps
        /\ Op \notin BitOps /\ Op \notin CompareOps
    BY <2>1 DEF BitOps, ArithOps, ShiftOps, ConvertOps, CompareOps
  <2>4. /\ AluIn(Op) = <<Conversion(Op)[1]>>
        /\ AluResult(Op, First.v, Last.v) = Convert(Op, First.v)
    BY <2>1, <2>3 DEF AluIn, AluResult
  <2>5. ConversionLaw(Op, First.v, r)
    BY <2>1, <2>2, <2>4, ConvertIsRight
  <2> QED  BY <2>2, <2>5 DEF Of
<1>4. Inv => [Right]_vars
  BY <1>3
<1> QED  BY <1>1, <1>2, <1>4, PTL DEF Spec, NumericConversions

(* Whatever code runs: ISHL .. LUSHR leave the operand times or divided by *)
(* the power of two that the low bits of the count name, for integers of   *)
(* any width (interpreter.cpp, the shift cases).                           *)
THEOREM ShiftsAreTrue == Spec => Shifts
<1> DEFINE Right ==
      Executes(ShiftOps) =>
        /\ Out.k = ShiftKind(Op) /\ Out.v \in Values(Out.k)
        /\ ShiftLaw(Op, Bits(ShiftKind(Op)), First.v, Last.v, Out.v)
<1>1. Init => Inv
  BY StartsWell
<1>2. Inv /\ [Next]_vars => Inv'
  BY StepKeeps
<1>3. Inv => Right
  <2> SUFFICES ASSUME Inv, Executes(ShiftOps)
               PROVE  /\ Out.k = ShiftKind(Op) /\ Out.v \in Values(Out.k)
                      /\ ShiftLaw(Op, Bits(ShiftKind(Op)), First.v, Last.v, Out.v)
    OBVIOUS
  <2>1. /\ Op \in ShiftOps
        /\ First.v \in Values(AluIn(Op)[1])
        /\ Last.v \in Values(AluIn(Op)[Len(AluIn(Op))])
    BY ComputeMeans DEF AluOps
  <2>2. PICK r \in AluResult(Op, First.v, Last.v) :
               r \in Values(AluOut(Op)) /\ Out = Of(AluOut(Op), r)
    BY ComputeMeans DEF AluOps
  <2>3. /\ ShiftKind(Op) \in {"i", "l"}
        /\ Op \notin ArithOps /\ Op \notin BitOps
        /\ Op \notin ConvertOps /\ Op \notin CompareOps
    <3>1. ShiftKind(Op) \in {"i", "l"}
      BY <2>1, ShiftKinds
    <3> QED  BY <2>1, <3>1 DEF BitOps, ArithOps, ShiftOps, ConvertOps, CompareOps
  <2>4. AluOut(Op) = ShiftKind(Op) /\ AluIn(Op) = <<ShiftKind(Op), "i">>
    BY <2>1, <2>3 DEF AluOut, AluIn
  <2>5. First.v \in Values(ShiftKind(Op)) /\ Last.v \in Int
    BY <2>1, <2>3, <2>4, ValuesAreInts DEF Kind
  <2>6. ShiftLaw(Op, Bits(ShiftKind(Op)), First.v, Last.v, r)
    BY <2>1, <2>2, <2>5, ShiftsAreRight
  <2> QED  BY <2>2, <2>4, <2>6 DEF Of
<1>4. Inv => [Right]_vars
  BY <1>3
<1> QED  BY <1>1, <1>2, <1>4, PTL DEF Spec, Shifts
=============================================================================
