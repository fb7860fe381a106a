---------------------------- MODULE Descriptors ----------------------------
(***************************************************************************)
(* The argument slots of a method descriptor, as calculateArgSlotCount     *)
(* (interpreter.cpp) scans it.  A descriptor is the sequence of its        *)
(* characters; a class name between L and ; may be any characters.         *)
(***************************************************************************)
EXTENDS Integers, Sequences

(* The position of the first ; from i on: the loops that skip a class name *)
(* have no other end, and a descriptor without one runs off the string.    *)
SemicolonFrom(d, i) ==
  CHOOSE j \in i .. Len(d) : d[j] = ";" /\ \A n \in i .. j - 1 : d[n] # ";"

(* The last [ of the brackets that start at i. *)
LastBracket(d, i) ==
  CHOOSE j \in i .. Len(d) : (\A n \in i .. j : d[n] = "[") /\ d[j + 1] # "["

(* The last character of the parameter that starts at i. *)
ParameterEnd(d, i) ==
  CASE d[i] = "L" -> SemicolonFrom(d, i)
    [] d[i] = "[" -> LET b == LastBracket(d, i)
                     IN  IF d[b + 1] = "L" THEN SemicolonFrom(d, b + 1) ELSE b + 1
    [] OTHER      -> i

calculateArgSlotCount(d) ==
  LET from[i \in 2 .. Len(d) + 1] ==
        IF i > Len(d) \/ d[i] = ")" THEN 0
        ELSE (IF d[i] \in {"J", "D"} THEN 2 ELSE 1) + from[ParameterEnd(d, i) + 1]
  IN  from[2] % 65536
=============================================================================
