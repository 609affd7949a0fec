----------------------------- MODULE KvInterface -----------------------------
(***************************************************************************)
(* The calls of debby::keyvalue_database and what each of them means        *)
(* (include/pfs/debby/keyvalue_database.hpp), shared by the specification   *)
(* of the promise (KeyValue) and by the models of the backends.             *)
(*                                                                          *)
(* A value is a record with a "type" field, the C++ type it was stored      *)
(* with; what else it holds only has to tell values apart.                  *)
(***************************************************************************)

CONSTANTS
    Clients,    \* callers that share the database
    Keys,       \* keys in use
    Values,     \* records with a "type" field
    Absent,     \* marks a key that is not in the database
    Requests    \* the calls that the clients make

ASSUME AbsentAssumption == Absent \notin Values

Types == {v.type : v \in Values}

SetRequests    == [op : {"set"}, key : Keys, val : Values]
NullRequests   == [op : {"setnull"}, key : Keys]
RemoveRequests == [op : {"remove"}, key : Keys]
ClearRequests  == [op : {"clear"}]
GetRequests    == [op : {"get"}, key : Keys, type : Types]

(* Every call of the interface; "setnull" is set() of a null pointer.       *)
AllRequests == SetRequests \cup NullRequests \cup RemoveRequests
                 \cup ClearRequests \cup GetRequests

ASSUME RequestsAssumption == Requests \subseteq AllRequests

IsWrite(r) == r.op # "get"

(* errc; "backend_error" is a failure of the storage engine.                *)
Errors  == {"success", "key_not_found", "bad_value", "backend_error"}
Answers == [err : Errors, val : Values \cup {Absent}]

Found(v) == [err |-> "success", val |-> v]
Fail(e)  == [err |-> e, val |-> Absent]
Ok       == Fail("success")

Stores     == [Keys -> Values \cup {Absent}]
EmptyStore == [k \in Keys |-> Absent]

(* The database after a call.  Writing a null pointer deletes the key.      *)
After(s, r) ==
    CASE r.op = "set"                   -> [s EXCEPT ![r.key] = r.val]
      [] r.op \in {"setnull", "remove"} -> [s EXCEPT ![r.key] = Absent]
      [] r.op = "clear"                 -> EmptyStore
      [] OTHER                          -> s

(* What a typed read of a key answers.                                      *)
Lookup(s, k, type) ==
    IF s[k] = Absent THEN Fail("key_not_found")
    ELSE IF s[k].type = type THEN Found(s[k]) ELSE Fail("bad_value")

Answer(s, r) == IF r.op = "get" THEN Lookup(s, r.key, r.type) ELSE Ok

(* Stand for the call of a client that is in none, and for its answer.      *)
NoCall   == [op |-> "none"]
NoAnswer == [err |-> "none", val |-> Absent]
=============================================================================
