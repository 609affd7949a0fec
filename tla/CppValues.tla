------------------------------ MODULE CppValues ------------------------------
(***************************************************************************)
(* The C++ values that debby:: stores and reads: their ranges, their bytes  *)
(* (src/fixed_packer.hpp) and the casts between them.                       *)
(*                                                                          *)
(* An integer is a number, a real number is the pattern of its bits (the    *)
(* two zeros have one pattern here), a string is its bytes.  Bytes are a    *)
(* length and, as one number, what they hold.  Sizes are those of the usual *)
(* 64-bit platforms; char is a signed char there, long an int64, and a time *)
(* point (time_affinity.hpp) is stored as the int64 that counts its         *)
(* milliseconds.                                                            *)
(***************************************************************************)
EXTENDS Integers

CONSTANTS
    Half,       \* half the number of integers of s bytes, 2^(8s - 1)
    Widened,    \* the double that a float is equal to
    Narrowed,   \* the float nearest to a double
    NaNs,       \* the doubles that are not a number
    Strings     \* the strings in use

Sizes == {1, 2, 4, 8}

ASSUME HalfAssumption ==
    /\ Half \in [Sizes -> Nat \ {0, 1}]
    /\ \A s, t \in Sizes : s < t => 2 * Half[s] <= Half[t]

Bytes == [size : Nat, bits : Nat]

ASSUME StringsAssumption == Strings \subseteq Bytes

Signed   == {"int8", "int16", "int32", "int64", "time"}
Unsigned == {"uint8", "uint16", "uint32", "uint64"}
Integral == {"bool"} \cup Signed \cup Unsigned
Real     == {"float", "double"}
CppTypes == Integral \cup Real \cup {"string"}

SizeOf ==
    [bool |-> 1, int8 |-> 1, int16 |-> 2, int32 |-> 4, int64 |-> 8, time |-> 8,
     uint8 |-> 1, uint16 |-> 2, uint32 |-> 4, uint64 |-> 8,
     float |-> 4, double |-> 8]

ValuesOf(T) ==
    CASE T = "bool" -> 0 .. 1
      [] T \in Signed -> -Half[SizeOf[T]] .. Half[SizeOf[T]] - 1
      [] T \in Unsigned \cup Real -> 0 .. 2 * Half[SizeOf[T]] - 1
      [] T = "string" -> Strings

ASSUME WidenedAssumption ==
    /\ Widened \in [ValuesOf("float") -> ValuesOf("double")]
    /\ Narrowed \in [ValuesOf("double") -> ValuesOf("float")]
    /\ \A f \in ValuesOf("float") : Narrowed[Widened[f]] = f

-----------------------------------------------------------------------------
(* The number that the bits of an integer of s bytes are in two's           *)
(* complement.                                                              *)
AsSigned(bits, s) == IF bits < Half[s] THEN bits ELSE bits - 2 * Half[s]

(* static_cast<T> of an int64.                                              *)
Cast(T, x) ==
    CASE T = "bool" -> IF x = 0 THEN 0 ELSE 1
      [] T \in Unsigned -> x % (2 * Half[SizeOf[T]])
      [] T \in Signed -> AsSigned(x % (2 * Half[SizeOf[T]]), SizeOf[T])

(* A real number given for a parameter of type double.                      *)
AsDouble(T, v) == IF T = "float" THEN Widened[v] ELSE v

(* static_cast<T> of a double.                                              *)
CastReal(T, d) == IF T = "float" THEN Narrowed[d] ELSE d

(* The bytes of a value: of a number those of a fixed_packer.               *)
Packed(T, v) ==
    IF T = "string" THEN v
    ELSE [size |-> SizeOf[T],
          bits |-> IF v < 0 THEN v + 2 * Half[SizeOf[T]] ELSE v]

(* What a typed read of a column returns: a value, nullopt for a NULL, or   *)
(* an error.                                                                *)
Got(v)   == [is |-> "value", val |-> v]
Nullopt  == [is |-> "nullopt"]
BadValue == [is |-> "bad_value"]

(* A value of T that is one of U too: the same integer, a float read as the *)
(* double that it equals, or U is T.                                        *)
Holds(U, T, v) ==
    \/ U = T
    \/ T \in Integral /\ U \in Integral /\ v \in ValuesOf(U)
    \/ T = "float" /\ U = "double"

AsValueOf(U, T, v) == IF T = "float" /\ U = "double" THEN Widened[v] ELSE v
=============================================================================
