----------------------------- MODULE PsqlValues -----------------------------
(***************************************************************************)
(* How the PostgreSQL engine of debby:: writes C++ values to columns and    *)
(* reads them back: bind of src/psql/statement_impl.hpp, get of             *)
(* src/psql/result.cpp, the declared types of                               *)
(* src/psql/data_definition.cpp.  A column has a type, the server converts  *)
(* what it is sent to that type or refuses it, and get is given text.       *)
(* get's test for a NULL looks at the column after the one that it reads.   *)
(***************************************************************************)
EXTENDS CppValues

CONSTANTS
    Rounded,    \* the double that the six decimals of std::to_string stand for
    Shown       \* the double that the shortest text of a float stands for

ASSUME TextsAssumption ==
    /\ Rounded \in [ValuesOf("double") -> ValuesOf("double")]
    /\ Shown \in [ValuesOf("float") -> ValuesOf("double")]
    /\ \A f \in ValuesOf("float") : Narrowed[Shown[f]] = f

-----------------------------------------------------------------------------
(* Writing.                                                                 *)

(* What exec sends: the text of an integer, of a real number or of a        *)
(* string, or bytes; nothing of no length is sent, but a NULL.              *)
Sending(kind, val) == [kind |-> kind, val |-> val]
SendingNull        == [kind |-> "null"]

(* Mutant of TextOf: integers are formatted as int.                         *)
TextOfInt(T, v) ==
    CASE T \in Integral -> Sending("integer", AsSigned(v % (2 * Half[4]), 4))
      [] T \in Real -> Sending("real", Rounded[AsDouble(T, v)])
      [] T = "string" -> IF v.size = 0 THEN SendingNull ELSE Sending("string", v)

(* bind_arithmetic and bind_string.                                         *)
TextOf(T, v) ==
    CASE T \in Integral -> Sending("integer", v)
      [] T \in Real -> Sending("real", Rounded[AsDouble(T, v)])
      [] T = "string" -> IF v.size = 0 THEN SendingNull ELSE Sending("string", v)

(* bind_blob, of what set of the key-value database is given.               *)
BytesOf(T, v) ==
    LET bytes == Packed(T, v) IN
    IF bytes.size = 0 THEN SendingNull ELSE Sending("bytes", bytes)

(* Mutant of ColumnType: uint32 is given the column of two bytes.            *)
ColumnTypeNarrow(T) ==
    CASE T = "bool" -> "BOOLEAN"
      [] T \in {"int8", "uint8", "int16", "uint16", "uint32"} -> "SMALLINT"
      [] T \in {"int32", "time"} -> "INTEGER"
      [] T \in {"int64", "uint64"} -> "BIGINT"
      [] T = "float" -> "REAL"
      [] T = "double" -> "DOUBLE PRECISION"
      [] T = "string" -> "TEXT"

(* column_type_affinity.                                                    *)
ColumnType(T) ==
    CASE T = "bool" -> "BOOLEAN"
      [] T \in {"int8", "uint8", "int16", "uint16"} -> "SMALLINT"
      [] T \in {"int32", "uint32", "time"} -> "INTEGER"
      [] T \in {"int64", "uint64"} -> "BIGINT"
      [] T = "float" -> "REAL"
      [] T = "double" -> "DOUBLE PRECISION"
      [] T = "string" -> "TEXT"

IntegerColumns == {"SMALLINT", "INTEGER", "BIGINT"}
RealColumns    == {"REAL", "DOUBLE PRECISION"}

RangeOf(decl) ==
    CASE decl = "SMALLINT" -> ValuesOf("int16")
      [] decl = "INTEGER" -> ValuesOf("int32")
      [] decl = "BIGINT" -> ValuesOf("int64")
      [] decl = "BOOLEAN" -> ValuesOf("bool")

Cell(decl, val)  == [type |-> decl, val |-> val]
NullCell         == [type |-> "NULL"]
Rejected         == [type |-> "rejected"]

(* The server: an integer has to be in the range of its column, and the     *)
(* strings in use are no numbers.  What becomes of an integer in a column   *)
(* of real numbers does not matter here.                                    *)
Kept(decl, sent) ==
    CASE sent.kind = "null" -> NullCell
      [] sent.kind = "integer" /\ decl \in IntegerColumns \cup {"BOOLEAN"} ->
            IF sent.val \in RangeOf(decl) THEN Cell(decl, sent.val) ELSE Rejected
      [] sent.kind = "real" /\ decl = "REAL" -> Cell(decl, Narrowed[sent.val])
      [] \/ sent.kind = "bytes" /\ decl = "BYTEA"
         \/ sent.kind = "real" /\ decl = "DOUBLE PRECISION"
         \/ sent.kind = "integer" /\ decl \in RealColumns
         \/ sent.kind \in {"integer", "real", "string"} /\ decl = "TEXT" ->
            Cell(decl, sent.val)
      [] OTHER -> Rejected

-----------------------------------------------------------------------------
(* Reading.                                                                 *)

(* The digits of the bytes are taken for those of an uint64, the first byte *)
(* for its highest, and the bytes of that are reversed: fewer than eight    *)
(* end up as the highest.  A string of another length is no number.         *)
FromBytes(bytes) == bytes.bits * (Half[8] \div Half[bytes.size])

ReadInt64(cell) ==
    CASE cell.type = "NULL" -> Nullopt
      [] cell.type \in IntegerColumns \cup {"BOOLEAN"} -> Got(cell.val)
      [] cell.type = "BYTEA" /\ cell.val.size \in Sizes ->
            Got(AsSigned(FromBytes(cell.val), 8))
      [] OTHER -> BadValue

ReadDouble(cell) ==
    CASE cell.type = "NULL" -> Nullopt
      [] cell.type = "REAL" -> Got(Shown[cell.val])
      [] cell.type = "DOUBLE PRECISION" -> Got(cell.val)
      [] cell.type = "BYTEA" /\ cell.val.size \in Sizes -> Got(FromBytes(cell.val))
      [] OTHER -> BadValue

(* Every column has a text.                                                 *)
ReadString(cell) == IF cell.type = "NULL" THEN Nullopt ELSE Got(cell.val)

(* get of a column that is not taken for a NULL.                            *)
ReadCell(U, cell) ==
    CASE U = "string" -> ReadString(cell)
      [] U \in Real ->
            LET got == ReadDouble(cell) IN
            IF got.is = "value" THEN Got(CastReal(U, got.val)) ELSE got
      [] U \in Integral ->
            LET got == ReadInt64(cell) IN
            IF got.is = "value" THEN Got(Cast(U, got.val)) ELSE got

(* The test for a NULL takes the column's number, which counts from 1, for  *)
(* an index, which counts from 0: it is made of the column after it, and    *)
(* there is a NULL where there is no such column.                           *)
Read(U, cell, after) == IF after = "value" THEN ReadCell(U, cell) ELSE Nullopt

-----------------------------------------------------------------------------
(* The numbers that a column of their own type refuses: the upper half of   *)
(* the unsigned ones, but for uint8, and times later than 2^31 milliseconds *)
(* after 1970, or as much before it.                                        *)
TooLarge(T, v) ==
    \/ T \in Unsigned \ {"uint8"} /\ v >= Half[SizeOf[T]]
    \/ T = "time" /\ v \notin ValuesOf("int32")

(* The real number that is read where v was written: of a double there are  *)
(* its six decimals (of 1e-7 there is 0), and of a float the text of the    *)
(* float that is nearest to them.                                           *)
RealRead(U, T, v) ==
    LET d == Rounded[AsDouble(T, v)] IN
    CASE T = "double" -> d
      [] T = "float" /\ U = "float" -> Narrowed[d]
      [] T = "float" /\ U = "double" -> Shown[Narrowed[d]]

(* What a read of a value that was written returns, when a column that is   *)
(* no NULL follows: of a string of no length there is only a NULL.          *)
Expected(U, T, v) ==
    CASE T = "string" /\ v.size = 0 -> Nullopt
      [] T \in Real -> Got(RealRead(U, T, v))
      [] OTHER -> Got(v)
=============================================================================
