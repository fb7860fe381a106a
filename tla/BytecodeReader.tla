--------------------------- MODULE BytecodeReader ---------------------------
(***************************************************************************)
(* Reading a method's code (bytecode_reader.h).  An address counts from 0; *)
(* the vector's elements are the sequence's.  The reads are not checked    *)
(* against the vector's size: they are defined only inside the code.       *)
(***************************************************************************)
EXTENDS Integers, Sequences

Byte == 0 .. 255

readU1(c, p) == c[p + 1]
readU2(c, p) == 256 * c[p + 1] + c[p + 2]

(* The casts to Jbyte, Jshort and Jint reinterpret the sign bit. *)
Signed(half, x) == IF x >= half THEN x - 2 * half ELSE x
readSU1(c, p) == Signed(128, readU1(c, p))
readSU2(c, p) == Signed(32768, readU2(c, p))
readSU4(c, p) == readSU2(c, p) * 65536 + readU2(c, p + 2)

(* The first multiple of 4 from p on. *)
align4(p) == p + ((-p) % 4)
=============================================================================
