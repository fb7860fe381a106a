---------------------------- MODULE Interpreter ----------------------------
(***************************************************************************)
(* The bytecode interpreter (engine/interpreter.cpp) on one thread: the    *)
(* loop of Interpreter::interpret, one action per family of instructions,  *)
(* over the thread's stack of frames (thread.h, stack.h, frame.h,          *)
(* operand_stack.h, local_variables.h).                                    *)
(*                                                                         *)
(* A method is given by what Klass prepared of it: its code, the size of   *)
(* its locals, its descriptor, and the run-time constant pool of its       *)
(* class, each entry with the outcome of resolving it.                     *)
(***************************************************************************)
EXTENDS Alu, BytecodeReader, Descriptors

CONSTANTS Method,      \* the methods
          Prog,        \* what each of them consists of
          Calls,       \* the calls an embedder may start a thread with
          MaxFrames    \* bound on the depth of the thread's stack

(* Run-time constant pool entries: a literal, a string, a reference that   *)
(* resolves to a method or a field, one that resolves to no member (null), *)
(* and one whose resolution throws.                                        *)
IsPoolEntry(e) == \/ e.tag \in {"i", "l", "f", "d"} /\ e.v \in Values(e.tag)
                  \/ e.tag = "method" /\ e.v \in Method
                  \/ e.tag \in {"string", "field", "null", "throws"}

(* The element at index 0 stays empty: loading it pushes nothing, and      *)
(* resolving it throws.                                                    *)
EmptyEntry == [tag |-> "throws"]
EntryOf(m, n) == IF n \in DOMAIN Prog[m].pool THEN Prog[m].pool[n] ELSE EmptyEntry

ProgAssumption ==
  \A m \in Method : /\ Prog[m].code \in Seq(Byte)
                    /\ Prog[m].maxLocals \in Nat
                    /\ Prog[m].static \in BOOLEAN
                    /\ \A x \in DOMAIN Prog[m].pool : IsPoolEntry(Prog[m].pool[x])
                    /\ calculateArgSlotCount(Prog[m].descriptor) \in Nat
ASSUME ProgAssumption

MaxFramesAssumption == MaxFrames \in Nat
ASSUME MaxFramesAssumption

(* The slot of local variable n is the vector's element n. *)
Locals(m) == 0 .. Prog[m].maxLocals - 1
Zeroed(m) == [i \in 1 .. Prog[m].maxLocals |-> ZeroSlot]

(* A call: the method, the typed arguments at the first of their slots,    *)
(* and whether the embedder pushes a frame of its own to receive the       *)
(* result, as the test harness does.                                       *)
CallsAssumption ==
  \A c \in Calls : /\ c.method \in Method
                   /\ c.host \in BOOLEAN
                   /\ c.locals \in Seq(Slot)
                   /\ Len(c.locals) = Prog[c.method].maxLocals
ASSUME CallsAssumption

VARIABLES frames,   \* the thread's stack of frames, the current one last
          pc,       \* interpret()'s own program counter; < 0: a wrapped size_t
          tpc,      \* Thread::pc_
          status    \* "running", or how interpret() ended
vars == <<frames, pc, tpc, status>>

Top  == frames[Len(frames)]
Code == Prog[Top.m].code
Ops  == Top.ops
Op   == readU1(Code, pc)

NewFrame(m, locals) == [m |-> m, locals |-> locals, ops |-> <<>>, callerPC |-> 0]

-----------------------------------------------------------------------------
(* Instruction formats *)

(* The bytes that follow the opcode (of a switch, none that are fixed). *)
Operands(op) ==
  CASE op \in {16, 18} \cup (21 .. 25) \cup (54 .. 58)                     -> 1
    [] op \in {17, 19, 20, 132, 178, 179, 184} \cup (153 .. 167)
              \cup {198, 199}                                              -> 2
    [] op = 200                                                            -> 4
    [] OTHER                                                               -> 0

LoadOps   == 21 .. 45        \* ILOAD .. ALOAD, ILOAD_0 .. ALOAD_3
StoreOps  == 54 .. 78        \* ISTORE .. ASTORE, ISTORE_0 .. ASTORE_3
StackOps  == 87 .. 95        \* POP .. SWAP
SwitchOps == {170, 171}      \* TABLESWITCH, LOOKUPSWITCH
ReturnOps == 172 .. 176      \* IRETURN .. ARETURN

(* Loads and stores come in one form per kind with an index operand, and   *)
(* in four per kind without.                                               *)
Base(op) == IF op \in LoadOps THEN 21 ELSE 54
LocalKind(op) == IF op - Base(op) < 5 THEN Kinds[op - Base(op) + 1]
                 ELSE Kinds[((op - Base(op) - 5) \div 4) + 1]
LocalIndex(op) == IF op = 132 \/ op - Base(op) < 5 THEN readU1(Code, pc + 1)
                  ELSE (op - Base(op) - 5) % 4

(* What POP .. SWAP pop, and push back: positions from the top. *)
Popped == <<1, 2, 1, 2, 3, 2, 3, 4, 2>>
Pushed == <<<<>>, <<>>, <<1, 1>>, <<1, 2, 1>>, <<1, 3, 2, 1>>, <<2, 1, 2, 1>>,
            <<2, 1, 3, 2, 1>>, <<2, 1, 4, 3, 2, 1>>, <<1, 2>>>>

(* The slots that values of one or two kinds take. *)
Slots(ks) == IF Len(ks) = 1 THEN Width(ks[1]) ELSE Width(ks[1]) + Width(ks[2])

(* The slots an instruction pops before it does anything else that shows. *)
Pops(op) == CASE op \in StoreOps  -> Width(LocalKind(op))
              [] op \in StackOps  -> Popped[op - 86]
              [] op \in AluOps    -> Slots(AluIn(op))
              [] op \in BranchOps -> Slots(BranchIn(op))
              [] op \in SwitchOps -> 1
              [] op \in ReturnOps -> Width(Kinds[op - 171])
              [] OTHER            -> 0

Drop(s, n) == SubSeq(s, 1, Len(s) - n)

(* The values the top of the stack may read as: the last operand's slot is *)
(* the top one, the one before it is below all the words of the last.      *)
LastOperand(ks) == Read(ks[Len(ks)], Ops[Len(Ops)])
FirstOperand(ks) == Read(ks[1], Ops[Len(Ops) - (Slots(ks) - Width(ks[1]))])

-----------------------------------------------------------------------------
(* How an instruction ends *)

SetTop(f) == [frames EXCEPT ![Len(frames)] = f]

(* The next instruction, with ops on the operand stack. *)
Continue(ops, p) ==
  /\ frames' = SetTop([Top EXCEPT !.ops = ops])
  /\ pc' = p
  /\ UNCHANGED <<tpc, status>>

(* interpret() ends: it returns, or an exception leaves it, or what the    *)
(* build does next is undefined.                                           *)
End(how) == status' = how /\ UNCHANGED <<frames, pc, tpc>>
Throw(ops) ==
  /\ frames' = SetTop([Top EXCEPT !.ops = ops])
  /\ status' = "threw"
  /\ UNCHANGED <<pc, tpc>>

InCode(n) == pc + n < Len(Code)
AtInstruction == status = "running" /\ frames # <<>> /\ pc >= 0 /\ InCode(0)

(* The instruction at pc is one of S, and its operands are in the code. *)
Fetch(S) == AtInstruction /\ Op \in S /\ InCode(Operands(Op))
Ready(S) == Fetch(S) /\ Len(Ops) >= Pops(Op)
After    == pc + 1 + Operands(Op)

-----------------------------------------------------------------------------
(* Constants, loads and stores *)

(* NOP, and the instructions whose case does nothing: it does not skip     *)
(* their operand bytes either.                                             *)
ArrayLoads  == 46 .. 53                   \* IALOAD .. SALOAD
ArrayStores == 79 .. 86                   \* IASTORE .. SASTORE
Subroutines == {168, 169, 201}            \* JSR, RET, JSR_W
ObjectOps   == (180 .. 183) \cup (185 .. 197)   \* GETFIELD .. MULTIANEWARRAY
Ignored == {0} \cup ArrayLoads \cup ArrayStores \cup Subroutines \cup ObjectOps
Ignore == Fetch(Ignored) /\ Continue(Ops, After)

(* ACONST_NULL, ICONST_M1 .. ICONST_5, LCONST, FCONST, DCONST: a float's   *)
(* code is twice its value.                                                *)
Constants == <<Words("a", 0)>> \o [n \in 1 .. 7 |-> Words("i", n - 2)]
             \o <<Words("l", 0), Words("l", 1), Words("f", 0), Words("f", 2),
                  Words("f", 4), Words("d", 0), Words("d", 2)>>
PushConst == Fetch(1 .. 15) /\ Continue(Ops \o Constants[Op], After)

(* BIPUSH and SIPUSH read their immediate unsigned. *)
PushImmediate ==
  /\ Fetch({16, 17})
  /\ LET x == IF Op = 16 THEN readU1(Code, pc + 1) ELSE readU2(Code, pc + 1)
     IN  Continue(Ops \o Words("i", Wrap("i", x)), After)

(* LDC, LDC_W and LDC2_W push literals of their own kinds and nothing for  *)
(* another entry.  LDC pushes the address of a copy of a string, which is  *)
(* gone when the case ends; LDC_W pushes null.                             *)
PoolIndex == IF Op = 18 THEN readU1(Code, pc + 1) ELSE readU2(Code, pc + 1)
Entry     == EntryOf(Top.m, PoolIndex)
HasEntry  == PoolIndex \in {0} \cup DOMAIN Prog[Top.m].pool
LoadedWords ==
  CASE Op = 20 /\ Entry.tag \in {"l", "d"} -> {Words(Entry.tag, Entry.v)}
    [] Op # 20 /\ Entry.tag \in {"i", "f"} -> {Words(Entry.tag, Entry.v)}
    [] Op = 18 /\ Entry.tag = "string"     -> {Words("a", s) : s \in Strings}
    [] Op = 19 /\ Entry.tag = "string"     -> {Words("a", 0)}
    [] OTHER                               -> {<<>>}
LoadConstant ==
  /\ Fetch({18, 19, 20}) /\ HasEntry
  /\ \E w \in LoadedWords : Continue(Ops \o w, After)

(* The pool's vector is not bounds-checked. *)
PoolOverrun ==
  /\ Fetch({18, 19, 20, 178, 179, 184}) /\ ~HasEntry
  /\ End("undefined")

Load ==
  /\ Fetch(LoadOps)
  /\ LocalIndex(Op) \in Locals(Top.m)
  /\ \E x \in Read(LocalKind(Op), Top.locals[LocalIndex(Op) + 1]) :
       Continue(Ops \o Words(LocalKind(Op), x), After)

(* The next instruction, with a local set and ops on the operand stack. *)
SetLocal(slot, ops) ==
  /\ frames' = SetTop([Top EXCEPT !.locals[LocalIndex(Op) + 1] = slot, !.ops = ops])
  /\ pc' = After
  /\ UNCHANGED <<tpc, status>>

Stores == Ready(StoreOps) /\ LocalIndex(Op) \in Locals(Top.m)

(* Mutants: a wide store that pops one word; stores that all use setInt. *)
StorePopsOne ==
  Stores /\ \E x \in LastOperand(<<LocalKind(Op)>>) :
              SetLocal(Of(LocalKind(Op), x), Drop(Ops, 1))
StoreAsInt ==
  Stores /\ \E x \in LastOperand(<<LocalKind(Op)>>) :
              SetLocal(Of("i", Wrap("i", x)), Drop(Ops, Pops(Op)))

Store ==
  Stores /\ \E x \in LastOperand(<<LocalKind(Op)>>) :
              SetLocal(Of(LocalKind(Op), x), Drop(Ops, Pops(Op)))

(* A mutant: the sum is not written back. *)
IncrementForgets == Fetch({132}) /\ LocalIndex(Op) \in Locals(Top.m) /\ Continue(Ops, After)

(* IINC adds a signed byte. *)
Increment ==
  /\ Fetch({132})
  /\ LocalIndex(Op) \in Locals(Top.m)
  /\ \E x \in Read("i", Top.locals[LocalIndex(Op) + 1]) :
       SetLocal(Of("i", Wrap("i", x + readSU1(Code, pc + 2))), Ops)

(* LocalVariables::checkBounds throws; a store has popped its value. *)
LocalOutOfBounds ==
  /\ Ready(LoadOps \cup StoreOps \cup {132})
  /\ LocalIndex(Op) \notin Locals(Top.m)
  /\ Throw(Drop(Ops, Pops(Op)))

-----------------------------------------------------------------------------
(* The operand stack and the arithmetic *)

ShuffleStack ==
  /\ Ready(StackOps)
  /\ LET new == Pushed[Op - 86]
     IN  Continue(Drop(Ops, Pops(Op))
                  \o [i \in 1 .. Len(new) |-> Ops[Len(Ops) + 1 - new[i]]], After)

Compute ==
  /\ Ready(AluOps)
  /\ \E x \in FirstOperand(AluIn(Op)), y \in LastOperand(AluIn(Op)) :
       /\ ~ThrowsDivide(Op, y) /\ ~Traps(Op, x, y)
       /\ \E r \in AluResult(Op, x, y) :
            Continue(Drop(Ops, Pops(Op)) \o Words(AluOut(Op), r), After)

DivideByZero ==
  /\ Ready(AluOps)
  /\ \E y \in LastOperand(AluIn(Op)) : ThrowsDivide(Op, y)
  /\ Throw(Drop(Ops, Pops(Op)))

(* The quotient of the least value by -1 is undefined; the hardware traps. *)
DivideTrap ==
  /\ Ready(AluOps)
  /\ \E x \in FirstOperand(AluIn(Op)), y \in LastOperand(AluIn(Op)) : Traps(Op, x, y)
  /\ End("undefined")

-----------------------------------------------------------------------------
(* Control flow *)

(* Offsets count from the opcode.  A branch reads its offset only after it *)
(* has popped its operands.                                                *)
Branch ==
  /\ Ready(BranchOps)
  /\ \E x \in FirstOperand(BranchIn(Op)), y \in LastOperand(BranchIn(Op)) :
       Continue(Drop(Ops, Pops(Op)),
                IF Taken(Op, x, y) THEN pc + readSU2(Code, pc + 1) ELSE After)

Goto ==
  /\ Fetch({167, 200})
  /\ Continue(Ops, pc + IF Op = 167 THEN readSU2(Code, pc + 1)
                        ELSE readSU4(Code, pc + 1))

(* The two switches: default offset, then low and high or the number of    *)
(* pairs, then the table, all four-byte words at an aligned address.       *)
TableAt   == align4(pc + 1)
Word(n)   == readSU4(Code, TableAt + 4 * n)
Header    == IF Op = 170 THEN 3 ELSE 2
HasHeader == TableAt + 4 * Header <= Len(Code)
Entries   == IF Op = 170 THEN Word(2) - Word(1) + 1 ELSE Word(1)
TableSize == IF Op = 170 THEN Entries ELSE 2 * Entries

(* high - low or high - low + 1 does not fit a Jint. *)
MaxJint  == 2147483647
Overflow == /\ Op = 170
            /\ \/ Word(1) < 0 /\ Word(2) >= Word(1) + MaxJint
               \/ Word(1) > 0 /\ Word(2) < (Word(1) - MaxJint) - 1

HasTable == /\ HasHeader /\ ~Overflow /\ Entries >= 0
            /\ TableAt + 4 * (Header + TableSize) <= Len(Code)

TableTarget(x) == IF x < Word(1) \/ x > Word(2) THEN Word(0)
                  ELSE Word(3 + x - Word(1))

Matches(x) == {i \in 0 .. Entries - 1 : Word(2 + 2 * i) = x}
LookupTarget(x) ==
  IF Matches(x) = {} THEN Word(0)
  ELSE Word(3 + 2 * (CHOOSE i \in Matches(x) : \A j \in Matches(x) : i <= j))

Switch ==
  /\ Ready(SwitchOps) /\ HasTable
  /\ \E x \in LastOperand(<<"i">>) :
       Continue(Drop(Ops, 1),
                pc + IF Op = 170 THEN TableTarget(x) ELSE LookupTarget(x))

(* A vector of a negative size: std::length_error, before anything is popped. *)
SwitchBadLength ==
  /\ Fetch(SwitchOps) /\ HasHeader /\ ~Overflow /\ Entries < 0
  /\ Throw(Ops)

-----------------------------------------------------------------------------
(* Methods and fields *)

(* A mutant: the address to go on at is taken from the frame popped. *)
LeaveByOwnAddress(words) ==
  LET rest == Drop(frames, 1)
      n    == Len(rest)
  IN  IF n = 0
      THEN frames' = rest /\ UNCHANGED <<pc, tpc>>
      ELSE /\ frames' = [rest EXCEPT ![n].ops = @ \o words]
           /\ pc' = Top.callerPC
           /\ tpc' = Top.callerPC

(* Pop the frame; the frame below it, if there is one, gets the result and *)
(* goes on where it left off.                                              *)
Leave(words) ==
  LET rest == Drop(frames, 1)
      n    == Len(rest)
  IN  IF n = 0
      THEN /\ frames' = rest
           /\ UNCHANGED <<pc, tpc>>
      ELSE /\ frames' = [rest EXCEPT ![n].ops = @ \o words]
           /\ pc' = rest[n].callerPC
           /\ tpc' = rest[n].callerPC

ReturnValue ==
  /\ Ready(ReturnOps)
  /\ LET k == Kinds[Op - 171]
     IN  \E x \in LastOperand(<<k>>) : Leave(Words(k, x))
  /\ UNCHANGED status

(* RETURN of the last frame leaves interpret() at once. *)
ReturnVoid ==
  /\ Fetch({177})
  /\ Leave(<<>>)
  /\ status' = IF Len(frames) = 1 THEN "returned" ELSE status

Resolves  == Fetch({178, 179, 184}) /\ HasEntry
Callee    == Entry.v
ArgSlots  == calculateArgSlotCount(Prog[Callee].descriptor)
CallsStatic == Resolves /\ Op = 184 /\ Entry.tag = "method" /\ Prog[Callee].static

(* The popped slots become the callee's first locals, the last one first;  *)
(* the caller's frame keeps the address where it goes on.                  *)
EnterCallee(resume) ==
  /\ LET base   == Len(Ops) - ArgSlots
         locals == [i \in 1 .. Prog[Callee].maxLocals |->
                      IF i <= ArgSlots THEN Ops[base + i] ELSE ZeroSlot]
     IN  frames' = Append(SetTop([Top EXCEPT !.ops = Drop(Ops, ArgSlots),
                                             !.callerPC = resume]),
                          NewFrame(Callee, locals))
  /\ pc' = 0
  /\ tpc' = 0
  /\ UNCHANGED status

TakesArguments == /\ CallsStatic
                  /\ Len(Ops) >= ArgSlots /\ ArgSlots <= Prog[Callee].maxLocals
                  /\ Len(frames) < MaxFrames

(* A mutant: the frame keeps the address of the call itself. *)
InvokeResumesAtCall == TakesArguments /\ EnterCallee(pc)

InvokeStatic == TakesArguments /\ EnterCallee(After)

(* The argument loop throws when a slot has no local to go to, at the      *)
(* first one it pops, or when the stack runs out.                          *)
InvokeBadArguments ==
  /\ CallsStatic
  /\ \/ Len(Ops) < ArgSlots /\ ArgSlots <= Prog[Callee].maxLocals /\ Throw(<<>>)
     \/ /\ ArgSlots > Prog[Callee].maxLocals
        /\ Throw(IF Ops = <<>> THEN Ops ELSE Drop(Ops, 1))

(* Resolution throws, or the entry is of another tag; so does a method     *)
(* that is not static.                                                     *)
ResolutionThrows ==
  /\ Resolves
  /\ \/ Entry.tag \notin {IF Op = 184 THEN "method" ELSE "field", "null"}
     \/ Op = 184 /\ Entry.tag = "method" /\ ~Prog[Callee].static
  /\ Throw(Ops)

(* A member that was not found is a null pointer, used unchecked; and no   *)
(* Klass ever gives its statics_ vector a size, so that every access to a  *)
(* static field is outside it.  PUTSTATIC pops before it assigns.          *)
UnsafeMember ==
  /\ Resolves
  /\ Entry.tag = "null" \/ (Entry.tag = "field" /\ Op # 184)
  /\ IF Op = 179 /\ Ops = <<>> THEN Throw(Ops) ELSE End("undefined")

-----------------------------------------------------------------------------
(* The rest of the loop *)

(* popSlot on an empty stack throws, and has emptied it by then.  Branches *)
(* pop before they read their offset, the others read first.               *)
Underflow ==
  /\ AtInstruction /\ Len(Ops) < Pops(Op)
  /\ \/ Op \in BranchOps
     \/ Op \in SwitchOps /\ HasTable
     \/ Op \notin SwitchOps \cup BranchOps /\ InCode(Operands(Op))
  /\ Throw(<<>>)

(* Operands past the end of the code: the vector is read out of bounds;    *)
(* and a table whose length overflows.                                     *)
CodeOverrun ==
  /\ AtInstruction
  /\ \/ Op \in SwitchOps /\ (HasHeader /\ ~Overflow => Entries >= 0) /\ ~HasTable
     \/ Op \in BranchOps /\ Len(Ops) >= Pops(Op) /\ ~InCode(2)
     \/ Op \notin BranchOps /\ ~InCode(Operands(Op))
  /\ End("undefined")

(* 202 .. 255 have no case. *)
InvalidOpcode == Fetch(202 .. 255) /\ Throw(Ops)

(* No frame, or an address that is not in the method's code. *)
EndOfThread == status = "running" /\ frames = <<>> /\ End("returned")
EndOfCode   == /\ status = "running" /\ frames # <<>>
               /\ ~(pc >= 0 /\ InCode(0))
               /\ End("returned")

(* An embedder's call: Interpreter::interpret on a thread with the frame   *)
(* of the method, above one of its own whose caller pc is past the code.   *)
Start(c) ==
  /\ LET host == [NewFrame(c.method, Zeroed(c.method)) EXCEPT
                     !.callerPC = Len(Prog[c.method].code)]
     IN  frames = (IF c.host THEN <<host>> ELSE <<>>)
                  \o <<NewFrame(c.method, c.locals)>>
  /\ pc = 0
  /\ tpc = 0
  /\ status = "running"

Init == \E c \in Calls : Start(c)

Next ==
  \/ Ignore \/ PushConst \/ PushImmediate \/ LoadConstant \/ PoolOverrun
  \/ Load \/ Store \/ Increment \/ LocalOutOfBounds
  \/ ShuffleStack \/ Compute \/ DivideByZero \/ DivideTrap
  \/ Branch \/ Goto \/ Switch \/ SwitchBadLength
  \/ ReturnValue \/ ReturnVoid
  \/ InvokeStatic \/ InvokeBadArguments \/ ResolutionThrows \/ UnsafeMember
  \/ Underflow \/ CodeOverrun \/ InvalidOpcode \/ EndOfThread \/ EndOfCode

Spec == Init /\ [][Next]_vars

-----------------------------------------------------------------------------
(* Properties *)

Frame == [m : Method, locals : Seq(Slot), ops : Seq(Slot), callerPC : Int]

(* Types: every slot holds a value in the range of the union member it was *)
(* written through, and a frame has as many locals as its method asks for  *)
(* (Frame's constructor, operand_stack.h, local_variables.h).              *)
TypeOK ==
  /\ frames \in Seq(Frame)
  /\ \A i \in 1 .. Len(frames) :
       Len(frames[i].locals) = Prog[frames[i].m].maxLocals
  /\ pc \in Int
  /\ tpc \in Int
  /\ status \in {"running", "returned", "threw", "undefined"}

(* Frame i waits for the frame above it: the three bytes before the        *)
(* address it goes on at are an INVOKESTATIC of the method above.          *)
WaitsForNext(i) ==
  LET f    == frames[i]
      code == Prog[f.m].code
      at   == f.callerPC - 3
  IN  /\ at >= 0 /\ f.callerPC <= Len(code)
      /\ readU1(code, at) = 184
      /\ readU2(code, at + 1) \in DOMAIN Prog[f.m].pool
      /\ Prog[f.m].pool[readU2(code, at + 1)].tag = "method"
      /\ Prog[f.m].pool[readU2(code, at + 1)].v = frames[i + 1].m

(* The embedder's frame below the first call goes on past its code, so     *)
(* that interpret() stops there.                                           *)
IsHost(f) == f.callerPC = Len(Prog[f.m].code) /\ f.ops = <<>>

(* The stack of frames is a chain of calls: whichever instruction runs,    *)
(* whatever is returned or thrown, each suspended frame resumes just after *)
(* the call of the method above it (setCallerPC and the returns).          *)
CallChain ==
  \A i \in 1 .. Len(frames) - 1 :
    WaitsForNext(i) \/ (i = 1 /\ IsHost(frames[1]))
=============================================================================
