---------------------------- MODULE RelationalKv ----------------------------
(***************************************************************************)
(* The key-value database over a table of SQLite,                           *)
(* src/keyvalue_relational_database_impl.hpp with src/sqlite3: each thread  *)
(* has a database object, a connection, of its own, and the connections     *)
(* share the file.  put and get reuse two prepared statements of the        *)
(* connection; remove prepares one for itself; clear is a query.            *)
(*                                                                          *)
(* SQLite is modelled by what this code meets in it.  Each statement runs   *)
(* in a transaction of its own.  A statement that stands on a row keeps its *)
(* read transaction: with a rollback journal no other connection can write  *)
(* then; in WAL mode the connection itself cannot, if another has written   *)
(* since.  A statement whose last run failed reports that failure again     *)
(* when it is reset.                                                        *)
(*                                                                          *)
(* The table holds bytes without their type (SqliteValues): a key is        *)
(* written and read as the one type that the program uses it with.          *)
(***************************************************************************)
EXTENDS KvInterface, SqliteValues

CONSTANTS
    KeyType,    \* the type that each key is used with
    Faults      \* where SQLite fails by itself: among "prepare" and "exec"

ASSUME FaultsAssumption == Faults \subseteq {"prepare", "exec"}

ASSUME TypedValuesAssumption ==
    \A v \in Values : /\ v = [type |-> v.type, val |-> v.val]
                      /\ v.type \in CppTypes
                      /\ v.val \in ValuesOf(v.type)

ASSUME TypedKeysAssumption ==
    /\ KeyType \in [Keys -> CppTypes]
    /\ \A r \in Requests :
          /\ r.op = "get" => r.type = KeyType[r.key]
          /\ r.op = "set" => r.val.type = KeyType[r.key]

(* What the table can hold for a key.                                       *)
RecordOf(v) == Record(v.type, v.val)
Records     == {RecordOf(v) : v \in Values} \cup {NullColumn}

ASSUME AbsentRecordAssumption == Absent \notin Records

VARIABLES
    journal,    \* "delete" (the default preset) or "wal" (CONCURRENCY_PRESET)
    table,      \* the committed table
    open,       \* the threads whose connection is open
    getStmt,    \* each connection's _get_stmt: "reset", "row" or "failed"
    putStmt,    \* each connection's _put_stmt: "reset" or "failed"
    behind,     \* connections that stand on a row of an older table (WAL)
    pc,         \* where each thread is in its call
    call,       \* the request of each thread that is in a call
    answer,     \* the answer to it
    spurious    \* calls in a row that failed for the failure of an earlier one

stmts == <<getStmt, putStmt, behind>>
vars == <<journal, table, open, stmts, pc, call, answer, spurious>>

Statements == {"get", "put"}

TypeOK ==
    /\ journal \in {"delete", "wal"}
    /\ table \in [Keys -> Records \cup {Absent}]
    /\ open \in SUBSET Clients
    /\ getStmt \in [Clients -> {"reset", "row", "failed"}]
    /\ putStmt \in [Clients -> {"reset", "failed"}]
    /\ behind \in SUBSET Clients
    /\ pc \in [Clients -> {"idle", "select", "delete", "reset",
                           "insert", "done"}]
    /\ call \in [Clients -> Requests \cup {NoCall}]
    /\ answer \in [Clients -> Answers \cup {NoAnswer}]
    /\ spurious \in [Clients -> [Statements -> 0..2]]

None == [s \in Statements |-> 0]

Init ==
    /\ journal \in {"delete", "wal"}
    /\ table = EmptyStore
    /\ open = {}
    /\ getStmt = [c \in Clients |-> "reset"]
    /\ putStmt = [c \in Clients |-> "reset"]
    /\ behind = {}
    /\ pc = [c \in Clients |-> "idle"]
    /\ call = [c \in Clients |-> NoCall]
    /\ answer = [c \in Clients |-> NoAnswer]
    /\ spurious = [c \in Clients |-> None]

-----------------------------------------------------------------------------
(* make_kv creates the table if it is missing and prepares both statements. *)
Open(c) ==
    /\ c \notin open
    /\ open' = open \cup {c}
    /\ UNCHANGED <<journal, table, stmts, pc, call, answer, spurious>>

(* The database object is destroyed, its statements before the connection.  *)
Close(c) ==
    /\ c \in open
    /\ pc[c] = "idle"
    /\ open' = open \ {c}
    /\ getStmt' = [getStmt EXCEPT ![c] = "reset"]
    /\ putStmt' = [putStmt EXCEPT ![c] = "reset"]
    /\ behind' = behind \ {c}
    /\ spurious' = [spurious EXCEPT ![c] = None]
    /\ UNCHANGED <<journal, table, pc, call, answer>>

(* The process goes down with all its threads.                              *)
Crash ==
    /\ open' = {}
    /\ getStmt' = [c \in Clients |-> "reset"]
    /\ putStmt' = [c \in Clients |-> "reset"]
    /\ behind' = {}
    /\ pc' = [c \in Clients |-> "idle"]
    /\ call' = [c \in Clients |-> NoCall]
    /\ answer' = [c \in Clients |-> NoAnswer]
    /\ spurious' = [c \in Clients |-> None]
    /\ UNCHANGED <<journal, table>>

(* wipe removes the file, or fails.                                         *)
Wipe ==
    /\ open = {}
    /\ table' \in {table, EmptyStore}
    /\ UNCHANGED <<journal, open, stmts, pc, call, answer, spurious>>

-----------------------------------------------------------------------------
Goto(c, label) == pc' = [pc EXCEPT ![c] = label]

Answered(c, a) == answer' = [answer EXCEPT ![c] = a]

Reply(c, a) == Answered(c, a) /\ Goto(c, "done")

(* put of a null pointer calls remove, and then goes on with the NULL.      *)
Invoke(c) ==
    /\ c \in open
    /\ pc[c] = "idle"
    /\ \E r \in Requests :
         /\ call' = [call EXCEPT ![c] = r]
         /\ Goto(c, IF r.op \in {"get", "set"} THEN "reset" ELSE "delete")
    /\ UNCHANGED <<journal, table, open, stmts, answer, spurious>>

(* Mutant of ResetGet: the row of the get before is not let go of.          *)
ResetGetOmitted(c) ==
    /\ pc[c] = "reset"
    /\ call[c].op = "get"
    /\ getStmt[c] # "failed"
    /\ Goto(c, "select")
    /\ UNCHANGED <<journal, table, open, stmts, call, answer, spurious>>

(* statement::reset of _get_stmt or _put_stmt before it is used again.      *)
ResetGet(c) ==
    /\ pc[c] = "reset"
    /\ call[c].op = "get"
    /\ getStmt[c] # "failed"
    /\ getStmt' = [getStmt EXCEPT ![c] = "reset"]
    /\ behind' = behind \ {c}
    /\ Goto(c, "select")
    /\ UNCHANGED <<journal, table, open, putStmt, call, answer, spurious>>

ResetPut(c) ==
    /\ pc[c] = "reset"
    /\ call[c].op # "get"
    /\ putStmt[c] # "failed"
    /\ Goto(c, "insert")
    /\ UNCHANGED <<journal, table, open, stmts, call, answer, spurious>>

Counted(c, s) == spurious' = [spurious EXCEPT ![c][s] = IF @ < 2 THEN @ + 1 ELSE 2]

(* Mutant of ResetPutFails: the statement is left as it was.                *)
ResetPutStuck(c) ==
    /\ pc[c] = "reset"
    /\ call[c].op # "get"
    /\ putStmt[c] = "failed"
    /\ Counted(c, "put")
    /\ Reply(c, Fail("backend_error"))
    /\ UNCHANGED <<journal, table, open, stmts, call>>

(* The failure of the run before is reported, though the reset is done.     *)
ResetPutFails(c) ==
    /\ pc[c] = "reset"
    /\ call[c].op # "get"
    /\ putStmt[c] = "failed"
    /\ putStmt' = [putStmt EXCEPT ![c] = "reset"]
    /\ Counted(c, "put")
    /\ Reply(c, Fail("backend_error"))
    /\ UNCHANGED <<journal, table, open, getStmt, behind, call>>

ResetGetFails(c) ==
    /\ pc[c] = "reset"
    /\ call[c].op = "get"
    /\ getStmt[c] = "failed"
    /\ getStmt' = [getStmt EXCEPT ![c] = "reset"]
    /\ Counted(c, "get")
    /\ Reply(c, Fail("backend_error"))
    /\ UNCHANGED <<journal, table, open, putStmt, behind, call>>

-----------------------------------------------------------------------------
(* A NULL is bad_value to a read of a number, and an empty string to one of *)
(* a string.                                                                *)
ReadAs(type, column) ==
    LET got == Get(type, column) IN
    CASE got.is = "value" -> Found([type |-> type, val |-> got.val])
      [] got.is = "nullopt" /\ type = "string" -> Ok
      [] OTHER -> Fail("bad_value")

(* _get_stmt is left standing on the row that it found.  A statement that   *)
(* stood on a row before would step past it, to no row.                     *)
Select(c) ==
    /\ pc[c] = "select"
    /\ LET k == call[c].key
           row == getStmt[c] = "reset" /\ table[k] # Absent
       IN  /\ getStmt' = [getStmt EXCEPT ![c] = IF row THEN "row" ELSE "reset"]
           /\ Reply(c, IF ~row THEN Fail("key_not_found")
                       ELSE ReadAs(call[c].type, table[k]))
    /\ spurious' = [spurious EXCEPT ![c]["get"] = 0]
    /\ UNCHANGED <<journal, table, open, putStmt, behind, call>>

SelectFails(c) ==
    /\ pc[c] = "select"
    /\ "exec" \in Faults
    /\ getStmt' = [getStmt EXCEPT ![c] = "failed"]
    /\ spurious' = [spurious EXCEPT ![c]["get"] = 0]
    /\ Reply(c, Fail("backend_error"))
    /\ UNCHANGED <<journal, table, open, putStmt, behind, call>>

(* SQLITE_BUSY, after MAX_BUSY_TIMEOUT, or at once SQLITE_BUSY_SNAPSHOT.    *)
Busy(c) ==
    \/ journal = "delete" /\ \E d \in Clients \ {c} : getStmt[d] = "row"
    \/ c \in behind

Written(c) ==
    behind' = IF journal = "wal"
              THEN behind \cup {d \in Clients \ {c} : getStmt[d] = "row"}
              ELSE behind

(* The DELETE of remove, of one key or, for clear, of all.  One that finds  *)
(* nothing to delete has nothing to commit, and no reader hinders it.       *)
Delete(c) ==
    /\ pc[c] = "delete"
    /\ \/ ~Busy(c)
       \/ journal = "delete" /\ After(table, call[c]) = table
    /\ table' = After(table, call[c])
    /\ Written(c)
    /\ IF call[c].op = "setnull" THEN Goto(c, "reset") /\ UNCHANGED answer
       ELSE Reply(c, Ok)
    /\ UNCHANGED <<journal, open, getStmt, putStmt, call, spurious>>

(* Mutant of DeleteFails: the engine's own code is reported.                *)
DeleteFailsRaw(c) ==
    /\ pc[c] = "delete"
    /\ Busy(c) \/ "exec" \in Faults
    /\ Reply(c, Fail("SQLITE_BUSY"))
    /\ UNCHANGED <<journal, table, open, stmts, call, spurious>>

(* The DELETE is refused or fails; put of a null pointer goes on with the   *)
(* error in *perr.  remove drops the error of a prepare.                    *)
DeleteFails(c) ==
    /\ pc[c] = "delete"
    /\ \E fault \in Faults \cup (IF Busy(c) THEN {"busy"} ELSE {}) :
         Answered(c, IF fault = "prepare" /\ call[c].op # "clear" THEN Ok
                     ELSE Fail("backend_error"))
    /\ Goto(c, IF call[c].op = "setnull" THEN "reset" ELSE "done")
    /\ UNCHANGED <<journal, table, open, stmts, call, spurious>>

(* INSERT OR REPLACE.                                                       *)
Insert(c) ==
    /\ pc[c] = "insert"
    /\ ~Busy(c)
    /\ table' = [table EXCEPT ![call[c].key] =
                    IF call[c].op = "setnull" THEN NullColumn
                    ELSE RecordOf(call[c].val)]
    /\ Written(c)
    /\ spurious' = [spurious EXCEPT ![c]["put"] = 0]
    /\ Reply(c, IF answer[c] = Fail("backend_error") THEN answer[c] ELSE Ok)
    /\ UNCHANGED <<journal, open, getStmt, putStmt, call>>

(* Mutant of InsertFails: the result of the run is not looked at.           *)
InsertUnchecked(c) ==
    /\ pc[c] = "insert"
    /\ Busy(c) \/ "exec" \in Faults
    /\ putStmt' = [putStmt EXCEPT ![c] = "failed"]
    /\ spurious' = [spurious EXCEPT ![c]["put"] = 0]
    /\ Reply(c, Ok)
    /\ UNCHANGED <<journal, table, open, getStmt, behind, call>>

InsertFails(c) ==
    /\ pc[c] = "insert"
    /\ Busy(c) \/ "exec" \in Faults
    /\ putStmt' = [putStmt EXCEPT ![c] = "failed"]
    /\ spurious' = [spurious EXCEPT ![c]["put"] = 0]
    /\ Reply(c, Fail("backend_error"))
    /\ UNCHANGED <<journal, table, open, getStmt, behind, call>>

-----------------------------------------------------------------------------
Return(c) ==
    /\ pc[c] = "done"
    /\ Goto(c, "idle")
    /\ call' = [call EXCEPT ![c] = NoCall]
    /\ Answered(c, NoAnswer)
    /\ UNCHANGED <<journal, table, open, stmts, spurious>>

Next ==
    \/ Crash \/ Wipe
    \/ \E c \in Clients :
         \/ Open(c) \/ Close(c) \/ Invoke(c)
         \/ ResetGet(c) \/ ResetGetFails(c) \/ ResetPut(c) \/ ResetPutFails(c)
         \/ Select(c) \/ SelectFails(c) \/ Delete(c) \/ DeleteFails(c)
         \/ Insert(c) \/ InsertFails(c) \/ Return(c)

Spec == Init /\ [][Next]_vars

-----------------------------------------------------------------------------
(* A call that fails for the failure of the one before it clears it away:   *)
(* no two calls in a row fail so.                                           *)
FailsOnceMore == \A c \in Clients, s \in Statements : spurious[c][s] <= 1

(* What makes SQLite refuse a connection's writes for its old view of the   *)
(* table (SQLITE_BUSY_SNAPSHOT) is gone with the row that its last get      *)
(* found: the next get makes the connection able to write again.            *)
BehindOnARow ==
    \A c \in behind : journal = "wal" /\ getStmt[c] = "row"

(* "Attempt to write `null` data interpreted as delete operation for key"   *)
(* (src/keyvalue_relational_database_impl.hpp:78): a put of a null pointer  *)
(* that succeeded leaves no record with a NULL.                             *)
NullDeletes ==
    \A c \in Clients :
        pc[c] = "done" /\ call[c].op = "setnull" /\ answer[c] = Ok
            => table[call[c].key] # NullColumn

(* A call takes effect when its statement runs.                             *)
Phase ==
    [c \in Clients |->
        CASE pc[c] = "idle" -> "idle"
          [] pc[c] = "done" -> "answered"
          [] OTHER -> "called"]

(* What the bytes of each key stand for.                                    *)
Contents ==
    [k \in Keys |->
        IF table[k] = Absent THEN Absent ELSE ReadAs(KeyType[k], table[k]).val]

KV == INSTANCE KeyValue
        WITH MayFail <- TRUE, Persistent <- TRUE,
             store <- Contents, phase <- Phase

(* The connections together implement keyvalue_database for the clients     *)
(* that write no null pointer: a get finds what the last put that succeeded *)
(* wrote, whichever connection it was made on and whatever failed between.  *)
Linearizable == KV!Spec
=============================================================================
