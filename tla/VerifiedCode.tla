---------------------------- MODULE VerifiedCode ----------------------------
(***************************************************************************)
(* The interpreter on methods some of which a Java compiler produced, each *)
(* of these with what its class file promises of it: the shape of the      *)
(* operand stack at each instruction (a stack map), and the result its     *)
(* source computes.                                                        *)
(***************************************************************************)
EXTENDS Interpreter

CONSTANTS Compiled,      \* the methods a compiler produced; they call no others
          StackMap,      \* of each of them, pairs <<address, slot kinds>>
          ReturnKind,    \* of each of them, the kind it returns
          Parameters,    \* of each of them, pairs <<first local, kind>>
          Expected(_)    \* of a call, <<what its source computes>>, or <<>>:
                         \* it divides by zero

ASSUME CompiledAssumption == Compiled \subseteq Method

VARIABLE call            \* the call the thread was started with
vvars == <<vars, call>>

VInit == call \in Calls /\ Start(call)
VNext == Next /\ UNCHANGED call
VSpec == VInit /\ [][VNext]_vvars

RunsCompiled == call.method \in Compiled
VFairSpec    == VSpec /\ WF_vvars(RunsCompiled /\ VNext)

-----------------------------------------------------------------------------
(* Verification: what a verifier asks of a method and its stack map before *)
(* it runs, instruction by instruction.                                    *)

KindsOf(ops)   == [i \in DOMAIN ops |-> ops[i].k]
PushedKinds(k) == KindsOf(Words(k, 0))
ResultKinds(m) == PushedKinds(ReturnKind[m])

(* The instruction of method m at address a. *)
OpAt(m, a)    == readU1(Prog[m].code, a)
NextAt(m, a)  == a + 1 + Operands(OpAt(m, a))
IndexAt(m, a) == IF OpAt(m, a) = 18 THEN readU1(Prog[m].code, a + 1)
                 ELSE readU2(Prog[m].code, a + 1)
EntryAt(m, a) == EntryOf(m, IndexAt(m, a))
ArgsAt(m, a)  == calculateArgSlotCount(Prog[EntryAt(m, a).v].descriptor)
WordAt(m, a, n) == readSU4(Prog[m].code, align4(a + 1) + 4 * n)

(* The words of a switch that hold an offset. *)
OffsetsAt(m, a) ==
  {0} \cup IF OpAt(m, a) = 170 THEN 3 .. 3 + WordAt(m, a, 2) - WordAt(m, a, 1)
           ELSE {3 + 2 * i : i \in 0 .. WordAt(m, a, 1) - 1}

(* From each instruction with operands of kinds ks, every way on leads to  *)
(* an entry of the map; a call is of a verified method, and a return of    *)
(* the method's kind.                                                      *)
FlowsOn(m, a, ks) ==
  LET op       == OpAt(m, a)
      to(b, r) == <<b, r>> \in StackMap[m]
      on(r)    == to(NextAt(m, a), r)
      left     == Drop(ks, Pops(op))
      entry    == EntryAt(m, a)
  IN  /\ op \in Ignored \cup {132} => on(ks)
      /\ op \in 1 .. 15   => on(ks \o KindsOf(Constants[op]))
      /\ op \in {16, 17}  => on(ks \o <<"i">>)
      /\ op \in {18, 19} /\ entry.tag \in {"i", "f"} => on(ks \o PushedKinds(entry.tag))
      /\ op \in {18, 19} /\ entry.tag = "string"     => on(ks \o <<"a">>)
      /\ op = 20 /\ entry.tag \in {"l", "d"}         => on(ks \o PushedKinds(entry.tag))
      /\ op \in {18, 19, 20} => entry.tag \in IF op = 20 THEN {"l", "d"} ELSE {"i", "f", "string"}
      /\ op \in LoadOps   => on(ks \o PushedKinds(LocalKind(op)))
      /\ op \in StoreOps  => on(left)
      /\ op \in StackOps  =>
           LET new == Pushed[op - 86]
           IN  on(left \o [i \in 1 .. Len(new) |-> ks[Len(ks) + 1 - new[i]]])
      /\ op \in AluOps    => on(left \o PushedKinds(AluOut(op)))
      /\ op \in BranchOps => on(left) /\ to(a + readSU2(Prog[m].code, a + 1), left)
      /\ op = 167         => to(a + readSU2(Prog[m].code, a + 1), ks)
      /\ op = 200         => to(a + readSU4(Prog[m].code, a + 1), ks)
      /\ op \in SwitchOps => \A n \in OffsetsAt(m, a) : to(a + WordAt(m, a, n), left)
      /\ op \in ReturnOps => PushedKinds(Kinds[op - 171]) = ResultKinds(m)
      /\ op # 177
      /\ op = 184         => /\ entry.tag = "method" /\ entry.v \in Compiled
                             /\ on(Drop(ks, ArgsAt(m, a)) \o ResultKinds(entry.v))

Verified(m) ==
  /\ <<0, <<>>>> \in StackMap[m]
  /\ \A e \in StackMap[m] : FlowsOn(m, e[1], e[2])

(* The kinds of the values an instruction pops, the deepest first. *)
TypedOps == StoreOps \cup AluOps \cup BranchOps \cup SwitchOps \cup ReturnOps
KindsTaken(op) ==
  CASE op \in StoreOps  -> <<LocalKind(op)>>
    [] op \in AluOps    -> AluIn(op)
    [] op \in BranchOps -> BranchIn(op)
    [] op \in SwitchOps -> <<"i">>
    [] op \in ReturnOps -> <<Kinds[op - 171]>>

(* Slots of kinds ks end in values of kinds in: where a value's last word  *)
(* is, it has the value's kind.                                            *)
EndsWith(ks, in) ==
  /\ Len(ks) >= Slots(in)
  /\ ks[Len(ks)] = in[Len(in)]
  /\ ks[Len(ks) - (Slots(in) - Width(in[1]))] = in[1]

(* The table of a switch is in the code. *)
TableFits(m, a) ==
  LET header   == IF OpAt(m, a) = 170 THEN 3 ELSE 2
      size     == IF OpAt(m, a) = 170 THEN WordAt(m, a, 2) - WordAt(m, a, 1) + 1
                  ELSE 2 * WordAt(m, a, 1)
      fits(n)  == align4(a + 1) + 4 * n <= Len(Prog[m].code)
  IN  fits(header) /\ size \in 0 .. MaxJint /\ fits(header + size)

(* What the instruction at a needs is there: its operand bytes, a constant *)
(* or a static method of this many arguments, and values of its kinds.     *)
FindsOperands(m, a, ks) ==
  LET op     == OpAt(m, a)
      callee == Prog[EntryAt(m, a).v]
  IN  /\ a >= 0 /\ NextAt(m, a) <= Len(Prog[m].code)
      /\ op \notin {178, 179} \cup (202 .. 255)
      /\ op \in StackOps  => Len(ks) >= Pops(op)
      /\ op \in TypedOps  => EndsWith(ks, KindsTaken(op))
      /\ op \in SwitchOps => TableFits(m, a)
      /\ op \in {18, 19, 20, 184} => IndexAt(m, a) \in DOMAIN Prog[m].pool
      /\ op = 184 => /\ callee.static
                     /\ ArgsAt(m, a) <= Len(ks) /\ ArgsAt(m, a) <= callee.maxLocals

OperandsVerified(m) == \A e \in StackMap[m] : FindsOperands(m, e[1], e[2])

(* Where a method reads or writes a local variable, and as what. *)
LocalUses(m) == {e[1] : e \in {d \in StackMap[m] : OpAt(m, d[1]) \in LoadOps \cup StoreOps \cup {132}}}
LocalAt(m, a) ==
  LET op == OpAt(m, a)
  IN  IF op = 132 \/ op - Base(op) < 5 THEN readU1(Prog[m].code, a + 1)
      ELSE (op - Base(op) - 5) % 4
UsedAs(m, a) == IF OpAt(m, a) = 132 THEN "i" ELSE LocalKind(OpAt(m, a))

(* The method never uses a local as another kind than one of ks at its     *)
(* position, if there is one.                                              *)
Accepts(m, ks) ==
  \A a \in LocalUses(m) : LocalAt(m, a) < Len(ks) =>
                             ks[LocalAt(m, a) + 1] \in {"z", UsedAs(m, a)}

(* A local has one kind throughout a method, and a method gets from its    *)
(* callers what it uses.                                                   *)
LocalsVerified(m) ==
  /\ \A a \in LocalUses(m) : LocalAt(m, a) \in Locals(m)
  /\ \A a, b \in LocalUses(m) : LocalAt(m, a) = LocalAt(m, b) => UsedAs(m, a) = UsedAs(m, b)
  /\ \A e \in StackMap[m] :
       OpAt(m, e[1]) = 184 =>
         LET n == Len(e[2]) - ArgsAt(m, e[1])
         IN  Accepts(EntryAt(m, e[1]).v, SubSeq(e[2], n + 1, Len(e[2])))

-----------------------------------------------------------------------------
(* Properties *)

(* Every instruction of every frame starts where the compiler put one and  *)
(* finds the operand stack the compiler left it: the current frame's at    *)
(* pc, and a suspended frame's, once its callee's result is on it, at the  *)
(* address it goes on at.  Operand bytes, branch offsets, switch padding,  *)
(* pops and pushes, and the two words of a long all have to agree.         *)
FollowsStackMap ==
  RunsCompiled /\ status = "running" =>
    \A i \in DOMAIN frames :
      LET f == frames[i]
      IN  IF i = 1 /\ call.host
          THEN IF i = Len(frames) THEN pc = Len(Code) ELSE IsHost(f)
          ELSE IF i = Len(frames)
          THEN <<pc, KindsOf(f.ops)>> \in StackMap[f.m]
          ELSE <<f.callerPC, KindsOf(f.ops) \o ResultKinds(frames[i + 1].m)>>
                 \in StackMap[f.m]

(* Compiled code comes back to the embedder as it was declared, whatever   *)
(* it computes: interpret() returns with the embedder's frame alone on the *)
(* thread, holding a result of the method's kind, and both program         *)
(* counters past the code; only a division can end it otherwise (the       *)
(* throws and the unchecked accesses of interpreter.cpp).                  *)
ReturnsAsDeclared ==
  RunsCompiled /\ status # "running" =>
    \/ /\ status = "returned"
       /\ IF call.host
          THEN /\ Len(frames) = 1 /\ Top.m = call.method
               /\ KindsOf(Ops) = ResultKinds(call.method)
               /\ pc = Len(Code) /\ tpc = Len(Code)
          ELSE frames = <<>>
    \/ status # "returned" /\ frames # <<>> /\ DividesInts(Op)

(* Compiled code returns what its source computes, which the embedder pops *)
(* from its own frame (interpreter_test_base.h), and throws where its      *)
(* source does.                                                            *)
ReturnsWhatSourceComputes ==
  RunsCompiled /\ status # "running" =>
    IF Expected(call) = <<>> THEN status = "threw"
    ELSE status = "returned" /\ Ops = Words(ReturnKind[Top.m], Expected(call)[1])

(* A local variable is read through the union member it was last written   *)
(* through, unless nothing wrote it yet, and an operand through the one it *)
(* was pushed through (slot.h).                                            *)
ReadsAsWritten ==
  RunsCompiled /\ AtInstruction =>
    /\ Op \in LoadOps \cup {132} =>
         Top.locals[LocalIndex(Op) + 1].k \in
           {"z", IF Op = 132 THEN "i" ELSE LocalKind(Op)}
    /\ Op \in TypedOps => EndsWith(KindsOf(Ops), KindsTaken(Op))

(* A method starts with each argument in the first local of its            *)
(* parameter, where the harness puts it (interpreter_test_base.h) and the  *)
(* method's loads look for it.                                             *)
ArgumentsInFirstLocals ==
  RunsCompiled /\ AtInstruction /\ pc = 0 /\ Ops = <<>> =>
    \A p \in Parameters[Top.m] : Top.locals[p[1] + 1].k = p[2]

(* interpret() comes back from a call of a method whose loops all end.     *)
ComesBack == RunsCompiled ~> status # "running"
=============================================================================
