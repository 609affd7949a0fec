------------------------------- MODULE Columns -------------------------------
(***************************************************************************)
(* A column of a table, of either engine: declared by add_column<T> of a    *)
(* data definition or by the key-value database, written by a statement     *)
(* that has bound a value, and read by get of a result, in which another    *)
(* column may follow.  What the steps do to a value is in SqliteValues and  *)
(* PsqlValues.                                                              *)
(***************************************************************************)
EXTENDS SqliteValues, PsqlValues

VARIABLES
    engine,     \* the engine of the database, when one has been opened
    declared,   \* the type given to add_column, "record" in the key-value table
    nullable,   \* the column takes a NULL
    after,      \* what the column after it holds: "nothing" (there is none),
                \* "null" or "value"
    given,      \* the value that an INSERT has bound, and its type
    refused,    \* the INSERT failed
    content     \* what the column holds in the row that it made

columnVars == <<engine, declared, nullable, after, given, refused, content>>

NoEngine == "none"
NoTable  == "none"
NoValue  == [type |-> "none"]
NoRow    == [class |-> "no row"]

ColumnsInit ==
    /\ engine = NoEngine
    /\ declared = NoTable
    /\ nullable = FALSE
    /\ after = "nothing"
    /\ given = NoValue
    /\ refused = FALSE
    /\ content = NoRow

(* add_column<T> and the query of the table's text: a column is NOT NULL     *)
(* unless nullable() was called.                                            *)
CreateTable ==
    /\ declared = NoTable
    /\ engine' \in {"sqlite3", "psql"}
    /\ declared' \in CppTypes
    /\ nullable' \in BOOLEAN
    /\ after' \in {"nothing", "null", "value"}
    /\ UNCHANGED <<given, refused, content>>

(* make_kv: the values of the key-value table may be NULL, and its get      *)
(* selects them alone.                                                      *)
MakeKv ==
    /\ declared = NoTable
    /\ engine' \in {"sqlite3", "psql"}
    /\ declared' = "record"
    /\ nullable' = TRUE
    /\ after' = "nothing"
    /\ UNCHANGED <<given, refused, content>>

(* What SQLite makes of a value: every column takes it.                     *)
SqliteRow(T, v) ==
    IF declared = "record" THEN Record(T, v)
    ELSE Stored(Declared(declared), Bound(T, v))

SqliteInsert(T, v) ==
    /\ engine = "sqlite3"
    /\ refused' = (SqliteRow(T, v) = NullColumn /\ ~nullable)
    /\ content' = IF refused' THEN NoRow ELSE SqliteRow(T, v)

(* What the server makes of it, or Rejected.                                *)
PsqlRow(T, v) ==
    IF declared = "record" THEN Kept("BYTEA", BytesOf(T, v))
    ELSE Kept(ColumnType(declared), TextOf(T, v))

PsqlInsert(T, v) ==
    /\ engine = "psql"
    /\ refused' = \/ PsqlRow(T, v) = Rejected
                  \/ PsqlRow(T, v) = NullCell /\ ~nullable
    /\ content' = IF refused' THEN NoRow ELSE PsqlRow(T, v)

(* The table's row, whose column is bound to a value of whatever type.      *)
InsertRow ==
    /\ declared # NoTable
    /\ given = NoValue
    /\ \E T \in CppTypes : \E v \in ValuesOf(T) :
         /\ given' = [type |-> T, val |-> v]
         /\ SqliteInsert(T, v) \/ PsqlInsert(T, v)
    /\ UNCHANGED <<engine, declared, nullable, after>>

(* clear(table).                                                            *)
ClearTable ==
    /\ given # NoValue
    /\ given' = NoValue
    /\ refused' = FALSE
    /\ content' = NoRow
    /\ UNCHANGED <<engine, declared, nullable, after>>

ColumnsNext == CreateTable \/ MakeKv \/ InsertRow \/ ClearTable

ColumnsSpec == ColumnsInit /\ [][ColumnsNext]_columnVars

-----------------------------------------------------------------------------
Wrote(e) == engine = e /\ given # NoValue

(* The types that have the value that was written.                          *)
Readers == {U \in CppTypes : Holds(U, given.type, given.val)}

(* SQLite: what is written as a T to a column that add_column<T> declared   *)
(* is read back, as a T or as another type that has the value, at every     *)
(* limit of the types: the unsigned numbers that become negative in         *)
(* SQLite's signed integers too.  Of a NaN there is only a NULL, and it     *)
(* alone is refused by a column that takes none.                            *)
DeclaredColumnReads ==
    Wrote("sqlite3") /\ declared = given.type =>
        /\ refused <=> ~nullable /\ IsNaN(given.type, given.val)
        /\ ~refused =>
             \A U \in Readers :
                 Get(U, content) = Original(U, given.type, given.val)

(* SQLite: in a column that was declared for another type a number is       *)
(* either still read as itself, or not at all: get reports bad_value, and   *)
(* never returns another number.                                            *)
NoOtherNumber ==
    Wrote("sqlite3") /\ declared \in CppTypes =>
        refused \/ \A U \in Readers \ {"string"} :
                       Get(U, content) \in {Original(U, given.type, given.val), BadValue}

(* A number that was unsigned, is taken for a negative one of its size, and *)
(* read as another size.                                                    *)
Misread(U, T, v) ==
    T \in Unsigned /\ SizeOf[U] # SizeOf[T] /\ v >= Half[SizeOf[T]]

(* SQLite: a number that set of the key-value database wrote is read as the *)
(* same number by a get of another type that has it, but for Misread.       *)
RecordReads ==
    Wrote("sqlite3") /\ declared = "record" =>
        /\ ~refused
        /\ \A U \in Readers :
             ~Misread(U, given.type, given.val) =>
                 Get(U, content) = Got(AsValueOf(U, given.type, given.val))

IsEmpty(T, v) == T = "string" /\ v.size = 0

(* PostgreSQL: of what is written as a T to a column that add_column<T>     *)
(* declared nothing is refused but the numbers that are too large for the   *)
(* column, and an empty string where it takes no NULL; and what is kept is  *)
(* read back, as a T or as another type that has the value, if a column     *)
(* that is no NULL follows, and as a NULL if not.  Of a real number there   *)
(* is what its six decimals stand for.  (NaNs are left out.)                *)
ColumnKeepsOrRefuses ==
    /\ Wrote("psql")
    /\ declared = given.type
    /\ ~IsNaN(given.type, given.val)
    => IF refused
       THEN \/ TooLarge(given.type, given.val)
            \/ ~nullable /\ IsEmpty(given.type, given.val)
       ELSE \A U \in Readers :
              Read(U, content, after) =
                  IF after = "value" THEN Expected(U, given.type, given.val)
                  ELSE Nullopt

(* PostgreSQL: in a column that was declared for whatever type an integer   *)
(* is read as itself, or it was refused, or get reports bad_value or, if no *)
(* column that is filled follows, a NULL: no integer type that has the      *)
(* number gets another one.                                                 *)
NoOtherInteger ==
    Wrote("psql") /\ declared \in CppTypes /\ given.type \in Integral =>
        refused \/ \A U \in Readers \cap Integral :
                       Read(U, content, after) \in
                           IF after = "value" THEN {Got(given.val), BadValue}
                           ELSE {Nullopt}
=============================================================================
