--------------------------- MODULE PsqlStatements ---------------------------
(***************************************************************************)
(* The prepared statements and results of the PostgreSQL engine of debby::  *)
(* src/psql/relational_database_impl.hpp (prepare), statement_impl.hpp,     *)
(* statement.cpp, result_impl.hpp and result.cpp.                           *)
(*                                                                          *)
(* The server keeps the prepared statements of a session by name, and a     *)
(* statement object keeps the name, which is its SQL text, and the          *)
(* parameters that it sends with every exec.  A result object has the rows  *)
(* for itself.  A request that the server refuses aborts the transaction    *)
(* that is open.                                                            *)
(***************************************************************************)
EXTENDS Naturals, Sequences

CONSTANTS
    Sqls,           \* SQL texts
    Names,          \* what the server tells apart of the names of statements
    Name,           \* the name of a text: the server keeps its first bytes
    Stmts,          \* statement objects of the program
    Results,        \* result objects of the program
    Texts,          \* texts that are not empty: parameters, and what columns hold
    ParamsCount,    \* parameters of a statement
    ColumnsCount,   \* columns of a result
    MaxRows,        \* bound: rows of a result
    CachedOnly,     \* the program prepares new texts by prepare_cached only
    None

Null    == "null"       \* SQL's NULL, and nullopt
Empty   == "empty"      \* the text of no characters
Garbage == "garbage"    \* what freed memory holds
Unnamed == "unnamed"    \* the statement whose name is empty

ASSUME ConstantsAssumption ==
    /\ Name \in [Sqls -> Names]
    /\ Unnamed \notin Names
    /\ None \notin Sqls
    /\ {Null, Empty, Garbage} \cap Texts = {}
    /\ ParamsCount \in Nat
    /\ ColumnsCount \in Nat \ {0}
    /\ MaxRows \in Nat
    /\ CachedOnly \in BOOLEAN

Values == Texts \cup {Empty}

(* transient: the copy that the statement holds; sized: its length is not   *)
(* zero; pointer: what exec left in _param_values: nothing, the copy, or    *)
(* memory that was the copy's; last: what the program bound last.           *)
Param == [transient : Values, sized : BOOLEAN,
          pointer : {"none", "copy", "stale"}, last : Values \cup {Null}]

VARIABLES
    session,    \* of the database object: "none", "up", "lost"
    tx,         \* the transaction of the session: "none", "open", "aborted"
    reported,   \* a call has reported an error since the last BEGIN
    prepared,   \* the statements of the session, by name
    stmts,      \* the statement objects: their text and parameters
    results     \* the result objects: their rows, and the row they are on

vars == <<session, tx, reported, prepared, stmts, results>>

Columns == 1 .. ColumnsCount
Rows    == [Columns -> Values \cup {Null}]

TypeOK ==
    /\ session \in {"none", "up", "lost"}
    /\ tx \in {"none", "open", "aborted"}
    /\ reported \in BOOLEAN
    /\ prepared \in [Names \cup {Unnamed} -> Sqls \cup {None}]
    /\ stmts \in [Stmts -> [sql : Sqls, params : Seq(Param)] \cup {None}]
    /\ results \in [Results -> [rows : Seq(Rows), row_index : Nat] \cup {None}]
    /\ \A s \in Stmts : stmts[s] # None => Len(stmts[s].params) <= ParamsCount
    /\ \A r \in Results : results[r] # None =>
          results[r].row_index <= Len(results[r].rows)

NothingPrepared == [n \in Names \cup {Unnamed} |-> None]

Init ==
    /\ session = "none"
    /\ tx = "none"
    /\ reported = FALSE
    /\ prepared = NothingPrepared
    /\ stmts = [s \in Stmts |-> None]
    /\ results = [r \in Results |-> None]

-----------------------------------------------------------------------------
(* The session.                                                             *)

Connect ==
    /\ session = "none"
    /\ session' = "up"
    /\ UNCHANGED <<tx, reported, prepared, stmts, results>>

EndSession(state) ==
    /\ session' = state
    /\ tx' = "none"
    /\ prepared' = NothingPrepared
    /\ UNCHANGED <<reported, stmts, results>>

(* The program destroys the statements of a database before the database.   *)
Close ==
    /\ session # "none"
    /\ \A s \in Stmts : stmts[s] = None
    /\ EndSession("none")

ConnectionLost ==
    /\ session = "up"
    /\ EndSession("lost")

Begin ==
    /\ session = "up"
    /\ tx = "none"
    /\ tx' = "open"
    /\ reported' = FALSE
    /\ UNCHANGED <<session, prepared, stmts, results>>

(* COMMIT or ROLLBACK.  Prepared statements are not part of a transaction.  *)
End ==
    /\ tx # "none"
    /\ tx' = "none"
    /\ UNCHANGED <<session, reported, prepared, stmts, results>>

(* The server refuses a request, or there is no server, and the call reports.*)
Refused ==
    /\ tx' = IF tx = "open" THEN "aborted" ELSE tx
    /\ reported' = TRUE
    /\ UNCHANGED <<session, prepared>>

QueryFails ==
    /\ session # "none"
    /\ Refused
    /\ UNCHANGED <<stmts, results>>

-----------------------------------------------------------------------------
(* Statements.                                                              *)

(* The session has a statement of that name, which is taken for the text.   *)
PrepareFound(s, sql) ==
    /\ session = "up"
    /\ prepared[Name[sql]] # None
    /\ stmts' = [stmts EXCEPT ![s] = [sql |-> sql, params |-> << >>]]
    /\ UNCHANGED <<session, tx, reported, prepared, results>>

(* Mutant of PrepareNew: cached texts, too, are prepared without a name.    *)
PrepareNewUnnamed(s, sql, cached) ==
    /\ session = "up"
    /\ tx = "none"
    /\ prepared[Name[sql]] = None
    /\ CachedOnly => cached
    /\ prepared' = [prepared EXCEPT ![Unnamed] = sql]
    /\ stmts' = [stmts EXCEPT ![s] = [sql |-> sql, params |-> << >>]]
    /\ UNCHANGED <<session, tx, reported, results>>

(* The object executes the name of the text, whichever name it is given.    *)
PrepareNew(s, sql, cached) ==
    /\ session = "up"
    /\ tx = "none"
    /\ prepared[Name[sql]] = None
    /\ CachedOnly => cached
    /\ prepared' = [prepared EXCEPT ![IF cached THEN Name[sql] ELSE Unnamed] = sql]
    /\ stmts' = [stmts EXCEPT ![s] = [sql |-> sql, params |-> << >>]]
    /\ UNCHANGED <<session, tx, reported, results>>

(* Mutant of PrepareFails: an error that only the describe met is dropped.  *)
PrepareFailsQuietly(sql) ==
    /\ session # "none"
    /\ prepared[Name[sql]] = None \/ tx = "aborted"
    /\ tx' = IF tx = "open" THEN "aborted" ELSE tx
    /\ UNCHANGED <<session, reported, prepared, stmts, results>>

(* To ask for a name that the session does not have is an error: it aborts  *)
(* the transaction that is open, and then the text cannot be prepared.      *)
PrepareFails(sql) ==
    /\ session # "none"
    /\ prepared[Name[sql]] = None \/ tx = "aborted"
    /\ Refused
    /\ UNCHANGED <<stmts, results>>

Prepare(s, sql) ==
    /\ stmts[s] = None
    /\ \/ PrepareFound(s, sql)
       \/ \E cached \in BOOLEAN : PrepareNew(s, sql, cached)
       \/ PrepareFails(sql)

(* The parameters with room for index more: the copies move as they grow.   *)
EnsureCapacity(params, index) ==
    [i \in 1 .. (IF index > Len(params) THEN index ELSE Len(params)) |->
        IF i > Len(params)
        THEN [transient |-> Empty, sized |-> FALSE, pointer |-> "none", last |-> Null]
        ELSE IF index > Len(params) /\ params[i].pointer = "copy"
        THEN [params[i] EXCEPT !.pointer = "stale"]
        ELSE params[i]]

(* Mutant of BindValue: the pointer of an earlier exec stays.               *)
BindValueStale(param, value) ==
    [transient |-> value, sized |-> value # Empty, last |-> value,
     pointer |-> IF param.pointer = "copy" THEN "stale" ELSE param.pointer]

(* bind_arithmetic, bind_string and bind_blob copy the value.               *)
BindValue(param, value) ==
    [transient |-> value, sized |-> value # Empty, last |-> value,
     pointer |-> "none"]

(* bind_null leaves the copy of the value that was bound before.            *)
BindNull(param) ==
    [param EXCEPT !.sized = FALSE, !.pointer = "none", !.last = Null]

Bind(s, index) ==
    /\ stmts[s] # None
    /\ LET params == EnsureCapacity(stmts[s].params, index) IN
       \E param \in {BindValue(params[index], value) : value \in Values}
                    \cup {BindNull(params[index])} :
          stmts' = [stmts EXCEPT ![s].params = [params EXCEPT ![index] = param]]
    /\ UNCHANGED <<session, tx, reported, prepared, results>>

(* exec points at the copies, of the parameters that have a length.         *)
Pointed(param) ==
    [param EXCEPT !.pointer =
        IF ~param.sized THEN "none" ELSE IF @ = "none" THEN "copy" ELSE @]

(* A request has all of its parameters: the program binds them before the   *)
(* first exec.                                                              *)
Exec(s, r) ==
    /\ stmts[s] # None
    /\ Len(stmts[s].params) = ParamsCount
    /\ results[r] = None
    /\ stmts' = [stmts EXCEPT ![s].params =
                    [i \in 1 .. ParamsCount |-> Pointed(@[i])]]
    /\ \/ /\ session = "up"
          /\ tx # "aborted"
          /\ prepared[Name[stmts[s].sql]] # None
          /\ \E n \in 0 .. MaxRows : \E rows \in [1 .. n -> Rows] :
                results' = [results EXCEPT ![r] = [rows |-> rows, row_index |-> 0]]
          /\ UNCHANGED <<session, tx, reported, prepared>>
       \/ Refused /\ UNCHANGED results

Destroy(s) ==
    /\ stmts[s] # None
    /\ stmts' = [stmts EXCEPT ![s] = None]
    /\ UNCHANGED <<session, tx, reported, prepared, results>>

-----------------------------------------------------------------------------
(* Results.                                                                 *)

HasMore(r) == results[r].row_index < Len(results[r].rows)

(* Mutant of NextRow: the end of the rows is not looked for.                *)
NextRowUnchecked(r) ==
    /\ results[r] # None
    /\ results' = [results EXCEPT ![r].row_index = @ + 1]
    /\ UNCHANGED <<session, tx, reported, prepared, stmts>>

(* next of a result that has no more rows throws, and changes nothing.      *)
NextRow(r) ==
    /\ results[r] # None
    /\ HasMore(r)
    /\ results' = [results EXCEPT ![r].row_index = @ + 1]
    /\ UNCHANGED <<session, tx, reported, prepared, stmts>>

DestroyResult(r) ==
    /\ results[r] # None
    /\ results' = [results EXCEPT ![r] = None]
    /\ UNCHANGED <<session, tx, reported, prepared, stmts>>

Content(r, column) == results[r].rows[results[r].row_index + 1][column]

(* PQgetisnull, whose columns start from 0, is given the column of get,     *)
(* which starts from 1; of a column that is not there it is true.           *)
IsNull(r, column) ==
    column + 1 \notin Columns \/ Content(r, column + 1) = Null

(* PQgetlength is 0 of an empty text and of a NULL.                         *)
HasLength(r, column) == Content(r, column) \notin {Empty, Null}

(* PQgetvalue gives the text of no characters for a NULL.                   *)
GetValue(r, column) ==
    IF Content(r, column) = Null THEN Empty ELSE Content(r, column)

Get(r, column) ==
    IF IsNull(r, column) \/ ~HasLength(r, column) THEN Null ELSE GetValue(r, column)

-----------------------------------------------------------------------------
Next ==
    \/ Connect \/ Close \/ ConnectionLost
    \/ Begin \/ End \/ QueryFails
    \/ \E s \in Stmts, sql \in Sqls : Prepare(s, sql)
    \/ \E s \in Stmts, index \in 1 .. ParamsCount : Bind(s, index)
    \/ \E s \in Stmts, r \in Results : Exec(s, r)
    \/ \E s \in Stmts : Destroy(s)
    \/ \E r \in Results : NextRow(r) \/ DestroyResult(r)

Spec == Init /\ [][Next]_vars
-----------------------------------------------------------------------------
(* A statement that prepare has returned can be executed, and executes its  *)
(* own text: the session has, under the name that exec uses, that text, and *)
(* keeps it through other prepares, errors and transactions.                *)
Executable ==
    session = "up" =>
        \A s \in Stmts : stmts[s] # None => prepared[Name[stmts[s].sql]] = stmts[s].sql

(* What the server would be sent for a parameter.                           *)
Sent(param) ==
    IF ~param.sized THEN Null
    ELSE IF param.pointer = "stale" THEN Garbage ELSE param.transient

(* Through any order of binds and execs, exec sends what was last bound to  *)
(* each parameter (an empty text becomes a NULL), and reads no memory that  *)
(* a later bind has freed.                                                  *)
ParamsAreSent ==
    \A s \in Stmts : stmts[s] # None =>
        \A i \in DOMAIN stmts[s].params :
            LET param == stmts[s].params[i] IN
            Sent(param) = IF param.last = Empty THEN Null ELSE param.last

(* A transaction is not aborted in silence, to be rolled back by COMMIT: a  *)
(* call since its BEGIN has reported an error.                              *)
AbortIsReported == tx = "aborted" => reported

(* get returns the text that a column has ("Column content or nullopt if    *)
(* column contains null value", include/pfs/debby/result.hpp).              *)
GetReturnsContent ==
    \A r \in Results : results[r] # None /\ HasMore(r) =>
        \A column \in Columns :
            Content(r, column) \in Texts => Get(r, column) = Content(r, column)
=============================================================================
