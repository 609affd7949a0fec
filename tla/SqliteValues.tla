---------------------------- MODULE SqliteValues ----------------------------
(***************************************************************************)
(* How the SQLite engine of debby:: writes C++ values to columns and reads  *)
(* them back: bind of src/sqlite3/statement.cpp, get of                     *)
(* src/sqlite3/result.cpp, the declared types of                            *)
(* src/sqlite3/data_definition.cpp.  A column value has a storage class of  *)
(* its own, whatever the type of the column.                                *)
(***************************************************************************)
EXTENDS CppValues

CONSTANT Whole  \* the doubles that are equal to an int64

Column(class, val) == [class |-> class, val |-> val]
NullColumn         == [class |-> "NULL"]

-----------------------------------------------------------------------------
(* Writing.                                                                 *)

(* SQLite keeps a NaN as a NULL.                                            *)
IsNaN(T, v) == T \in Real /\ AsDouble(T, v) \in NaNs

(* bind of a number or a string.                                            *)
Bound(T, v) ==
    CASE T \in Integral -> Column("INTEGER", Cast("int64", v))
      [] T \in Real -> IF IsNaN(T, v) THEN NullColumn
                       ELSE Column("FLOAT", AsDouble(T, v))
      [] T = "string" -> Column("TEXT", v)

(* bind of a pointer and a length.                                          *)
BoundBytes(bytes) == Column("BLOB", bytes)

(* set of the key-value database.                                           *)
Record(T, v) == BoundBytes(Packed(T, v))

(* Mutant of Declared: numbers are kept in one type of column.              *)
DeclaredNumeric(T) == IF T = "string" THEN "TEXT" ELSE "INTEGER"

(* column_type_affinity.                                                    *)
Declared(T) ==
    CASE T \in Integral -> "INTEGER"
      [] T \in Real -> "REAL"
      [] T = "string" -> "TEXT"

(* SQLite converts a number to the affinity of the column; the strings in   *)
(* use do not look like numbers.  A conversion changes the class; what it   *)
(* does to the number does not matter here.                                 *)
Stored(decl, column) ==
    CASE decl = "INTEGER" /\ column.class = "FLOAT" /\ column.val \in Whole ->
            Column("INTEGER", column.val)
      [] decl = "REAL" /\ column.class = "INTEGER" -> Column("FLOAT", column.val)
      [] decl = "TEXT" /\ column.class \in {"INTEGER", "FLOAT"} ->
            Column("TEXT", column.val)
      [] OTHER -> column

-----------------------------------------------------------------------------
(* Reading.                                                                 *)

(* Mutant of GetInt64: the bytes of a number are read as unsigned.          *)
GetInt64Unsigned(column) ==
    CASE column.class = "INTEGER" -> Got(column.val)
      [] column.class = "NULL" -> Nullopt
      [] column.class = "BLOB" /\ column.val.size \in Sizes -> Got(column.val.bits)
      [] OTHER -> BadValue

GetInt64(column) ==
    CASE column.class = "INTEGER" -> Got(column.val)
      [] column.class = "NULL" -> Nullopt
      [] column.class = "BLOB" /\ column.val.size \in Sizes ->
            Got(AsSigned(column.val.bits, column.val.size))
      [] OTHER -> BadValue

(* Four bytes are those of a float, and eight those of a double.            *)
GetDouble(column) ==
    CASE column.class = "FLOAT" -> Got(column.val)
      [] column.class = "NULL" -> Nullopt
      [] column.class = "BLOB" /\ column.val.size = SizeOf["float"] ->
            Got(Widened[column.val.bits])
      [] column.class = "BLOB" /\ column.val.size = SizeOf["double"] ->
            Got(column.val.bits)
      [] OTHER -> BadValue

(* The text of a number is not modelled further.                            *)
GetString(column) ==
    CASE column.class \in {"TEXT", "BLOB"} -> Got(column.val)
      [] column.class \in {"INTEGER", "FLOAT"} -> Got([shown |-> column.val])
      [] column.class = "NULL" -> Nullopt

(* Mutant of Get: the int64 is returned as it is.                           *)
GetUncast(U, column) ==
    CASE U = "string" -> GetString(column)
      [] U \in Real ->
            LET got == GetDouble(column) IN
            IF got.is = "value" THEN Got(CastReal(U, got.val)) ELSE got
      [] U \in Integral -> GetInt64(column)

Get(U, column) ==
    CASE U = "string" -> GetString(column)
      [] U \in Real ->
            LET got == GetDouble(column) IN
            IF got.is = "value" THEN Got(CastReal(U, got.val)) ELSE got
      [] U \in Integral ->
            LET got == GetInt64(column) IN
            IF got.is = "value" THEN Got(Cast(U, got.val)) ELSE got

-----------------------------------------------------------------------------
(* What a read of a value that was written is to return.                    *)
Original(U, T, v) ==
    IF IsNaN(T, v) THEN Nullopt ELSE Got(AsValueOf(U, T, v))
=============================================================================
