------------------------------- MODULE RocksDb -------------------------------
(***************************************************************************)
(* The RocksDB backend, src/rocksdb/keyvalue_database.cpp.  The records are *)
(* in a column family of their own, reached through _handles[1]; clear      *)
(* drops the family, destroys the handle and creates both again.            *)
(*                                                                          *)
(* The object has no lock of its own: the program calls it from one thread  *)
(* at a time, and reads a key as the type it wrote (the engine keeps bytes  *)
(* without their type).  Of the engine the model keeps what the program     *)
(* relies on: an operation happens or fails as a whole; opening creates a   *)
(* missing family; a handle of a dropped family reads what was in it and    *)
(* writes nothing; a write outlives the process, and the loss of power if   *)
(* it, or one after it, was made with WriteOptions::sync.                   *)
(***************************************************************************)
EXTENDS KvInterface

ASSUME TypedKeysAssumption ==
    \A r, w \in Requests :
        r.op = "get" /\ w.op = "set" /\ r.key = w.key => r.type = w.val.type

VARIABLES
    throws,      \* whether the program takes errors as exceptions (no perr)
    object,      \* the database object: "none", "open", "failed" (_dbh null)
    handle,      \* _handles[1]: "null", "valid" or "dangling" (destroyed)
    family,      \* the column family: "live" or "gone"
    contents,    \* the records of the family
    recoverable, \* what the records may be after a loss of power
    pc,          \* where the program is: "idle", or in a call
    call,        \* the call that the program is in
    answer,      \* the answer to it
    believed,    \* what the database holds by the answers of its calls
    warned       \* an error of clear or make_kv was reported for this object

engine == <<family, contents, recoverable>>
client == <<believed, warned>>
vars == <<throws, object, handle, engine, pc, call, answer, client>>

TypeOK ==
    /\ throws \in BOOLEAN
    /\ object \in {"none", "open", "failed"}
    /\ handle \in {"null", "valid", "dangling"}
    /\ family \in {"live", "gone"}
    /\ contents \in Stores
    /\ recoverable \in SUBSET Stores
    /\ recoverable # {}
    /\ pc \in {"idle", "start", "destroy", "create", "done"}
    /\ call \in Requests \cup {NoCall}
    /\ answer \in Answers \cup {NoAnswer}
    /\ believed \in Stores
    /\ warned \in BOOLEAN

Init ==
    /\ throws \in BOOLEAN
    /\ object = "none"
    /\ handle = "null"
    /\ family = "live"
    /\ contents = EmptyStore
    /\ recoverable = {EmptyStore}
    /\ pc = "idle"
    /\ call = NoCall
    /\ answer = NoAnswer
    /\ believed = EmptyStore
    /\ warned = FALSE

-----------------------------------------------------------------------------
(* make_kv.  A missing database that is not to be created, or an error of   *)
(* the engine, leaves an object whose _dbh is null, or no object if the     *)
(* error was thrown.                                                        *)
Open ==
    /\ object = "none"
    /\ object' = "open"
    /\ handle' = "valid"
    /\ UNCHANGED <<throws, engine, pc, call, answer, client>>

OpenFails ==
    /\ object = "none"
    /\ ~throws
    /\ object' = "failed"
    /\ warned' = TRUE
    /\ UNCHANGED <<throws, handle, engine, pc, call, answer, believed>>

(* The database object is no more.  What is on the disk is known again to a *)
(* program that has been warned, and of a call under way what it wrote.     *)
Touched(k) ==
    \/ call.op = "clear"
    \/ call.op \in {"set", "setnull", "remove"} /\ call.key = k

Gone ==
    /\ object' = "none"
    /\ handle' = "null"
    /\ family' = "live"
    /\ pc' = "idle"
    /\ call' = NoCall
    /\ answer' = NoAnswer
    /\ warned' = FALSE
    /\ UNCHANGED throws

OnDisk == IF family = "live" THEN contents ELSE EmptyStore

Left ==
    /\ Gone
    /\ contents' = OnDisk
    /\ believed' = [k \in Keys |->
                       IF warned \/ Touched(k) THEN OnDisk[k] ELSE believed[k]]
    /\ UNCHANGED recoverable

Close ==
    /\ object # "none"
    /\ pc = "idle"
    /\ Left

Crash ==
    /\ object # "none"
    /\ Left

PowerLoss ==
    /\ Gone
    /\ contents' \in recoverable
    /\ recoverable' = {contents'}
    /\ believed' = contents'

(* wipe removes the directory, or fails.                                    *)
Wipe ==
    /\ object = "none"
    /\ contents' \in {contents, EmptyStore}
    /\ recoverable' = {contents'}
    /\ believed' = contents'
    /\ UNCHANGED <<throws, object, handle, family, pc, call, answer, warned>>

-----------------------------------------------------------------------------
Invoke ==
    /\ object # "none"
    /\ pc = "idle"
    /\ call' \in Requests
    /\ pc' = "start"
    /\ UNCHANGED <<throws, object, handle, engine, answer, client>>

Reply(a) ==
    /\ answer' = a
    /\ pc' = "done"

Ready == pc = "start" /\ object = "open" /\ handle = "valid"

(* clear, remove and put do nothing, and report nothing, when there is no   *)
(* database or no handle; get brings the process down (PFS__TERMINATE).     *)
Unusable == pc = "start" /\ (object = "failed" \/ handle = "null")

Ignored ==
    /\ Unusable
    /\ IsWrite(call)
    /\ Reply(Ok)
    /\ UNCHANGED <<throws, object, handle, engine, call, client>>

Terminate ==
    /\ Unusable
    /\ ~IsWrite(call)
    /\ Left

(* Mutant of Delete: the deletion is not synchronised either.               *)
DeleteUnsynced ==
    /\ Ready
    /\ call.op \in {"remove", "setnull"}
    /\ family = "live"
    /\ contents' = After(contents, call)
    /\ recoverable' = recoverable \cup {contents'}
    /\ Reply(Ok)
    /\ UNCHANGED <<throws, object, handle, family, call, client>>

(* remove, and put of a null pointer, which calls it; the write is sync.    *)
Delete ==
    /\ Ready
    /\ call.op \in {"remove", "setnull"}
    /\ family = "live"
    /\ contents' = After(contents, call)
    /\ recoverable' = {contents'}
    /\ Reply(Ok)
    /\ UNCHANGED <<throws, object, handle, family, call, client>>

(* put of a value; the write is not sync.                                   *)
Put ==
    /\ Ready
    /\ call.op = "set"
    /\ family = "live"
    /\ contents' = After(contents, call)
    /\ recoverable' = recoverable \cup {contents'}
    /\ Reply(Ok)
    /\ UNCHANGED <<throws, object, handle, family, call, client>>

Get ==
    /\ Ready
    /\ call.op = "get"
    /\ Reply(Answer(contents, call))
    /\ UNCHANGED <<throws, object, handle, engine, call, client>>

(* Mutant of EngineFails: the engine's own code is reported.                *)
EngineFailsRaw ==
    /\ Ready
    /\ Reply(Fail("IOError"))
    /\ UNCHANGED <<throws, object, handle, engine, call, client>>

(* Delete, Put, Get or DropColumnFamily fails.                              *)
EngineFails ==
    /\ Ready
    /\ Reply(Fail("backend_error"))
    /\ warned' = (warned \/ call.op = "clear")
    /\ UNCHANGED <<throws, object, handle, engine, call, believed>>

(* The destroyed handle that a clear which threw left behind is used: the   *)
(* behaviour is undefined, and Crash is another of its outcomes.  The       *)
(* family is gone, so nothing of it reaches the disk.                       *)
UseDangling ==
    /\ pc = "start"
    /\ handle = "dangling"
    /\ contents' \in Stores
    /\ \E a \in Answers : Reply(a)
    /\ UNCHANGED <<throws, object, handle, family, recoverable, call, client>>

-----------------------------------------------------------------------------
(* The three steps of clear.                                                *)
Drop ==
    /\ Ready
    /\ call.op = "clear"
    /\ family = "live"
    /\ family' = "gone"
    /\ recoverable' = {EmptyStore}
    /\ pc' = "destroy"
    /\ UNCHANGED <<throws, object, handle, contents, call, answer, client>>

Destroy ==
    /\ pc = "destroy"
    /\ handle' = "dangling"
    /\ contents' = EmptyStore
    /\ pc' = "create"
    /\ UNCHANGED <<throws, object, family, recoverable, call, answer, client>>

DestroyFails ==
    /\ pc = "destroy"
    /\ Reply(Fail("backend_error"))
    /\ warned' = TRUE
    /\ UNCHANGED <<throws, object, handle, engine, call, believed>>

(* Mutant of Create: the new handle is not stored.                          *)
CreateDiscarded ==
    /\ pc = "create"
    /\ family' = "live"
    /\ Reply(Ok)
    /\ UNCHANGED <<throws, object, handle, contents, recoverable, call, client>>

Create ==
    /\ pc = "create"
    /\ family' = "live"
    /\ handle' = "valid"
    /\ Reply(Ok)
    /\ UNCHANGED <<throws, object, contents, recoverable, call, client>>

(* Mutant of CreateFails: the error is dropped.                             *)
CreateFailsUnreported ==
    /\ pc = "create"
    /\ handle' = "null"
    /\ Reply(Ok)
    /\ UNCHANGED <<throws, object, engine, call, client>>

(* create_column_family returns null, which clear assigns, or throws, and   *)
(* then nothing is assigned.                                                *)
CreateFails ==
    /\ pc = "create"
    /\ handle' = IF throws THEN "dangling" ELSE "null"
    /\ Reply(Fail("backend_error"))
    /\ warned' = TRUE
    /\ UNCHANGED <<throws, object, engine, call, believed>>

-----------------------------------------------------------------------------
(* The program takes a call that reported no error for done.                *)
Return ==
    /\ pc = "done"
    /\ pc' = "idle"
    /\ believed' = IF answer.err = "success" THEN After(believed, call)
                   ELSE believed
    /\ call' = NoCall
    /\ answer' = NoAnswer
    /\ UNCHANGED <<throws, object, handle, engine, warned>>

Next ==
    \/ Open \/ OpenFails \/ Close \/ Crash \/ PowerLoss \/ Wipe
    \/ Invoke \/ Ignored \/ Terminate \/ Delete \/ Put \/ Get \/ EngineFails
    \/ UseDangling
    \/ Drop \/ Destroy \/ DestroyFails \/ Create \/ CreateFails
    \/ Return

Spec == Init /\ [][Next]_vars

-----------------------------------------------------------------------------
(* The database holds what the answers say, across calls, crashes of the    *)
(* process and reopening, unless an error of clear or make_kv was reported  *)
(* for the object: only then are writes ignored without an error.           *)
NoSilentLoss ==
    pc = "idle" /\ ~warned => contents = believed

(* A key that was removed, or cleared, is absent even after a loss of power *)
(* (remove is the one write with sync), though a value may be lost.         *)
RemovedStaysRemoved ==
    pc = "idle" /\ object # "failed" =>
        \A s \in recoverable, k \in Keys : believed[k] = Absent => s[k] = Absent

(* Between calls _handles[1] refers to a live handle or to none: the        *)
(* destroyed one is left there only by a clear whose error was thrown.      *)
HandleSound ==
    pc \in {"idle", "start"} /\ handle = "dangling" => throws /\ warned

-----------------------------------------------------------------------------
(* The object as a database on a disk.  A clear takes effect when it drops  *)
(* the family, and is taken to succeed until a later step of it fails.      *)
Clearing == pc \in {"destroy", "create"}

Phase == IF Clearing \/ pc = "done" THEN "answered"
         ELSE IF pc = "start" THEN "called" ELSE "idle"

Durable == INSTANCE DurableStore WITH
    store    <- OnDisk,
    durable  <- recoverable,
    phase    <- Phase,
    answer   <- IF Clearing THEN Ok ELSE answer,
    degraded <- warned

(* Every call is atomic and outlives the process, through the three steps   *)
(* of clear and the handles they leave; only after a reported error of      *)
(* clear or make_kv is a call answered without being done, and even then    *)
(* nothing of it reaches the disk.                                          *)
AtomicUnlessDegraded == Durable!Spec
=============================================================================
