-------------------------- MODULE KlassPreparation --------------------------
(***************************************************************************)
(* From the bytes of a file to a prepared Klass, as defineClass and        *)
(* loadClass chain them: the parser, then on its result the constructor of *)
(* Klass and the three phases of klass.cpp, one turn of a loop at a time.  *)
(* stage is the phase, or how the preparation ended: an exception, or a    *)
(* write past the end of infos_, which C++ leaves undefined.  The tag of a *)
(* null constant is undefined too; a behaviour that got there would have   *)
(* no next step.                                                           *)
(***************************************************************************)
EXTENDS ClassFileParser

VARIABLES
  stage,
  x,        \* the loop variable of the phase
  infos,    \* RuntimeConstantPool::infos_
  methods,  \* methods_
  fields,   \* fields_
  slots     \* static_slot_count and instance_slot_count

prepVars   == <<stage, x, infos, methods, fields, slots>>
cursorVars == <<data, pos, at, i, tables, status>>
klassVars  == <<vars, prepVars>>

Phase == {"construct", "pool", "methods", "fields"}
Ended == {"prepared", "thrown", "out_of_bounds"}

-----------------------------------------------------------------------------
(* The class file's pool; a bad index throws. *)

IsClassName(n) == n # 0 /\ n \in DOMAIN pool /\ pool[n].tag = 7 /\ IsUtf8(pool[n].index[1])

(* AccessFlags::has. *)
Has(flags, bit) == (flags \div bit) % 2 = 1
STATIC   == 8
NATIVE   == 256
ABSTRACT == 1024

(* The entries of the run-time pool.  Names, types, strings of bytes and   *)
(* the constants of dynamic languages leave theirs empty.                  *)
RuntimeKind ==
  [t \in ConstantTag |->
     CASE t = 3  -> "Jint"         [] t = 4  -> "Jfloat"
       [] t = 5  -> "Jlong"        [] t = 6  -> "Jdouble"
       [] t = 7  -> "SymRef_Class" [] t = 8  -> "string"
       [] t = 9  -> "SymRef_Field" [] t = 10 -> "SymRef_Method"
       [] t = 11 -> "SymRef_InterfaceMethod"
       [] OTHER  -> "monostate"]
Info(kind, index, value) == [kind |-> kind, index |-> index, value |-> value]
Empty == Info("monostate", <<>>, <<>>)

RuntimeInfo(c) ==
  CASE RuntimeKind[c.tag] = "monostate" -> Empty
    [] c.tag = 8                        -> Info("string", <<>>, Utf8At(c.index[1]))
    [] OTHER                            -> Info(RuntimeKind[c.tag], c.index, c.bytes)

-----------------------------------------------------------------------------
Unprepared ==
  /\ stage = "construct" /\ x = 0
  /\ infos = <<>> /\ methods = <<>> /\ fields = <<>>
  /\ slots = [static |-> 0, instance |-> 0]

Stop(how) == stage' = how /\ UNCHANGED <<pool, file, x, infos, methods, fields, slots>>

(* Klass::Klass: getClassName(this_class_index).  A pool without a first   *)
(* entry goes no further, so infos_[0] exists below.                       *)
Construct ==
  /\ stage = "construct" /\ IsClassName(file.this_class_index)
  /\ stage' = "pool" /\ x' = 1
  /\ infos' = [n \in DOMAIN pool |-> Empty]
  /\ UNCHANGED <<pool, file, methods, fields, slots>>

NoClassName ==
  /\ stage = "construct" /\ ~IsClassName(file.this_class_index)
  /\ Stop("thrown")

(* One turn of the loop of prepareRuntimeConstantPool. *)
AtConstant == stage = "pool" /\ x \in DOMAIN pool

StringThrows ==
  /\ AtConstant /\ pool[x].tag = 8 /\ ~IsUtf8(pool[x].index[1])
  /\ Stop("thrown")

PrepareConstant ==
  /\ AtConstant /\ pool[x].tag \in ConstantTag \ EightBytes
  /\ pool[x].tag = 8 => IsUtf8(pool[x].index[1])
  /\ infos' = [infos EXCEPT ![x] = RuntimeInfo(pool[x])]
  /\ x' = x + 1
  /\ UNCHANGED <<pool, file, stage, methods, fields, slots>>

(* Mutant: the loop does not step over the second entry. *)
WideTakesOneStep ==
  /\ AtConstant /\ pool[x].tag \in EightBytes /\ x + 1 \in DOMAIN pool
  /\ infos' = [infos EXCEPT ![x] = RuntimeInfo(pool[x])]
  /\ x' = x + 1
  /\ UNCHANGED <<pool, file, stage, methods, fields, slots>>

(* Mutant: the value goes to the second entry. *)
WideInSecondEntry ==
  /\ AtConstant /\ pool[x].tag \in EightBytes /\ x + 1 \in DOMAIN pool
  /\ infos' = [infos EXCEPT ![x] = Empty, ![x + 1] = RuntimeInfo(pool[x])]
  /\ x' = x + 2
  /\ UNCHANGED <<pool, file, stage, methods, fields, slots>>

(* A long or a double sets the next entry as well. *)
PrepareWideConstant ==
  /\ AtConstant /\ pool[x].tag \in EightBytes /\ x + 1 \in DOMAIN pool
  /\ infos' = [infos EXCEPT ![x] = RuntimeInfo(pool[x]), ![x + 1] = Empty]
  /\ x' = x + 2
  /\ UNCHANGED <<pool, file, stage, methods, fields, slots>>

WideConstantAtEnd ==
  /\ AtConstant /\ pool[x].tag \in EightBytes /\ x + 1 \notin DOMAIN pool
  /\ Stop("out_of_bounds")

EndPool ==
  /\ stage = "pool" /\ x \notin DOMAIN pool
  /\ stage' = "methods" /\ x' = 1
  /\ UNCHANGED <<pool, file, infos, methods, fields, slots>>

(* Mutant: the search stops at a null element. *)
CodesBeforeNull(m) ==
  {n \in DOMAIN m.attributes : /\ m.attributes[n].kind = "Code"
                               /\ \A k \in 1 .. n : m.attributes[k].kind # "null"}

(* One turn of the loop of prepareMethods.  getAttribute skips the null    *)
(* elements the parser leaves in a table.                                  *)
CodesOf(m) == {n \in DOMAIN m.attributes : m.attributes[n].kind = "Code"}
FirstCode(m) == CHOOSE n \in CodesOf(m) : \A k \in CodesOf(m) : n <= k

Named(m)     == IsUtf8(m.name_index) /\ IsUtf8(m.descriptor_index)
NeedsCode(m) == ~Has(m.access_flags, NATIVE) /\ ~Has(m.access_flags, ABSTRACT)
AtMethod     == stage = "methods" /\ x \in DOMAIN file.methods

(* Mutant: stack and locals are swapped. *)
MethodSwapped(m, stack, locals, code) ==
  [access_flags |-> m.access_flags, name |-> Utf8At(m.name_index),
   descriptor |-> Utf8At(m.descriptor_index),
   max_stack |-> locals, max_locals |-> stack, code |-> code]

Method(m, stack, locals, code) ==
  [access_flags |-> m.access_flags, name |-> Utf8At(m.name_index),
   descriptor |-> Utf8At(m.descriptor_index),
   max_stack |-> stack, max_locals |-> locals, code |-> code]

MethodThrows ==
  /\ AtMethod
  /\ LET m == file.methods[x] IN ~Named(m) \/ (NeedsCode(m) /\ CodesOf(m) = {})
  /\ Stop("thrown")

(* The code is moved out of the class file. *)
PrepareMethod ==
  /\ AtMethod
  /\ LET m == file.methods[x] IN
       /\ Named(m) /\ NeedsCode(m) /\ CodesOf(m) # {}
       /\ LET c == m.attributes[FirstCode(m)]
          IN  methods' = Append(methods, Method(m, c.max_stack, c.max_locals, c.code))
       /\ file' = [file EXCEPT !.methods[x].attributes[FirstCode(m)].code = <<>>]
  /\ x' = x + 1
  /\ UNCHANGED <<pool, stage, infos, fields, slots>>

PrepareMethodWithoutCode ==
  /\ AtMethod
  /\ LET m == file.methods[x] IN
       /\ Named(m) /\ ~NeedsCode(m)
       /\ methods' = Append(methods, Method(m, 0, 0, <<>>))
  /\ x' = x + 1
  /\ UNCHANGED <<pool, file, stage, infos, fields, slots>>

EndMethods ==
  /\ stage = "methods" /\ x \notin DOMAIN file.methods
  /\ stage' = "fields" /\ x' = 1
  /\ UNCHANGED <<pool, file, infos, methods, fields, slots>>

(* One turn of the loop of prepareFieldsAndStatics.  Instance fields are   *)
(* numbered from 0 whatever the superclass has.                            *)
Storage(flags)    == IF Has(flags, STATIC) THEN "static" ELSE "instance"
SlotWidth(descriptor) == IF descriptor \in {<<74>>, <<68>>} THEN 2 ELSE 1   \* "J", "D"
AtField           == stage = "fields" /\ x \in DOMAIN file.fields

FieldThrows == AtField /\ ~Named(file.fields[x]) /\ Stop("thrown")

(* Mutant: every field takes one slot. *)
PrepareFieldNarrow ==
  /\ AtField
  /\ LET f  == file.fields[x]
         st == Storage(f.access_flags)
     IN  /\ Named(f)
         /\ fields' = Append(fields, [storage |-> st, name |-> Utf8At(f.name_index),
                                      descriptor |-> Utf8At(f.descriptor_index),
                                      slot_index |-> slots[st]])
         /\ slots' = [slots EXCEPT ![st] = @ + 1]
  /\ x' = x + 1
  /\ UNCHANGED <<pool, file, stage, infos, methods>>

PrepareField ==
  /\ AtField
  /\ LET f  == file.fields[x]
         st == Storage(f.access_flags)
     IN  /\ Named(f)
         /\ fields' = Append(fields, [storage |-> st, name |-> Utf8At(f.name_index),
                                      descriptor |-> Utf8At(f.descriptor_index),
                                      slot_index |-> slots[st]])
         /\ slots' = [slots EXCEPT ![st] = @ + SlotWidth(Utf8At(f.descriptor_index))]
  /\ x' = x + 1
  /\ UNCHANGED <<pool, file, stage, infos, methods>>

EndFields ==
  /\ stage = "fields" /\ x \notin DOMAIN file.fields
  /\ stage' = "prepared"
  /\ UNCHANGED <<pool, file, x, infos, methods, fields, slots>>

prepare ==
  \/ Construct \/ NoClassName
  \/ PrepareConstant \/ PrepareWideConstant \/ StringThrows \/ WideConstantAtEnd
  \/ EndPool
  \/ PrepareMethod \/ PrepareMethodWithoutCode \/ MethodThrows \/ EndMethods
  \/ PrepareField \/ FieldThrows \/ EndFields

(* defineClass hands the result of parse() to the preparation. *)
parseClass   == parse /\ UNCHANGED prepVars
prepareClass == status = "returned" /\ prepare /\ UNCHANGED cursorVars

define    == parseClass \/ prepareClass
KlassSpec == Init /\ Unprepared /\ [][define]_klassVars /\ WF_klassVars(define)

-----------------------------------------------------------------------------
(* Properties. *)

FieldObject ==
  [storage : {"static", "instance"}, name : Seq(Byte), descriptor : Seq(Byte), slot_index : Nat]

KlassTypeOK ==
  /\ stage \in Phase \cup Ended
  /\ x \in Nat
  /\ fields \in Seq(FieldObject)
  /\ slots \in [static : Nat, instance : Nat]

Width(f) == SlotWidth(f.descriptor)

(* Fields of one class that are stored together never overlap, in the      *)
(* order of the file, and the counts the Klass reports have room for all.  *)
SlotsDisjoint ==
  \A a, b \in DOMAIN fields :
    fields[a].storage = fields[b].storage /\ a < b
      => fields[a].slot_index + Width(fields[a]) <= fields[b].slot_index
SlotsFit ==
  \A a \in DOMAIN fields : fields[a].slot_index + Width(fields[a]) <= slots[fields[a].storage]

(* No slot is wasted: each one counted belongs to a field. *)
SlotsUsed ==
  \A st \in {"static", "instance"} : \A s \in 0 .. slots[st] - 1 :
    \E a \in DOMAIN fields :
      /\ fields[a].storage = st
      /\ fields[a].slot_index <= s /\ s < fields[a].slot_index + Width(fields[a])

FieldLayout == SlotsDisjoint /\ SlotsFit /\ SlotsUsed

(* Whatever bytes the parser accepts, the loop over the pool that prepares *)
(* it steps over exactly the entries the parser's own loop left null: it   *)
(* never asks a null constant for its tag.                                 *)
NoNullConstant == stage = "pool" /\ x \in DOMAIN pool => pool[x].tag # 0

(* Any file is read and prepared, or rejected, in the end: parse() and the *)
(* phases return or throw for any bytes.                                   *)
DefinitionEnds == <>(status = "thrown" \/ stage \in Ended)

(* getStaticSlot(slot_index) is an element of statics_ for every static    *)
(* field of a prepared class; no phase ever gives statics_ a size.         *)
statics == <<>>
StaticsHaveRoom ==
  stage = "prepared" =>
    \A a \in DOMAIN fields :
      fields[a].storage = "static" => fields[a].slot_index + Width(fields[a]) <= Len(statics)
=============================================================================
