------------------------------ MODULE EnvStore ------------------------------
(***************************************************************************)
(* The LMDB and libmdbx backends, src/lmdb/keyvalue_database.cpp and        *)
(* src/libmdbx/keyvalue_database.cpp, which are one program over two        *)
(* engines: every call of the database is a transaction of its own          *)
(* (perform_transaction), begun, filled, and committed or aborted.          *)
(*                                                                          *)
(* The engine is modelled by what the program relies on: one writer at a    *)
(* time, readers that see the database as it was when they began, a commit  *)
(* that is durable and takes effect at once, and any step of a transaction  *)
(* able to fail.  A commit that fails has ended its transaction; the        *)
(* program aborts it again, which may do nothing or bring the process down. *)
(*                                                                          *)
(* The threads of one process use the database while it is open: a program  *)
(* that goes on after make_kv reported an error is not modelled, nor one    *)
(* that reads a key as another type than the one it stored (the engines     *)
(* keep bytes without their type).                                          *)
(***************************************************************************)
EXTENDS KvInterface

CONSTANT NoClient   \* the owner of a free writer lock

ASSUME NoClientAssumption == NoClient \notin Clients

(* Reads ask for the type that the key is written with.                     *)
ASSUME TypedKeysAssumption ==
    \A r, w \in Requests :
        r.op = "get" /\ w.op = "set" /\ r.key = w.key => r.type = w.val.type

VARIABLES
    db,         \* the database object: "none", "open", or "failed" (_env null)
    committed,  \* what is on the disk
    writer,     \* the thread in a write transaction, or NoClient
    txn,        \* each thread's handle: "none", "live" or "ended"
    view,       \* what each thread's transaction sees: snapshot and own writes
    pc,         \* where each thread is in its call
    call,       \* the request of each thread that is in a call
    answer      \* the answer to it

vars == <<db, committed, writer, txn, view, pc, call, answer>>

TypeOK ==
    /\ db \in {"none", "open", "failed"}
    /\ committed \in Stores
    /\ writer \in Clients \cup {NoClient}
    /\ txn \in [Clients -> {"none", "live", "ended"}]
    /\ view \in [Clients -> Stores]
    /\ pc \in [Clients -> {"idle", "begin", "body", "commit", "abort", "done"}]
    /\ call \in [Clients -> Requests \cup {NoCall}]
    /\ answer \in [Clients -> Answers \cup {NoAnswer}]

Init ==
    /\ db = "none"
    /\ committed = EmptyStore
    /\ writer = NoClient
    /\ txn = [c \in Clients |-> "none"]
    /\ view = [c \in Clients |-> EmptyStore]
    /\ pc = [c \in Clients |-> "idle"]
    /\ call = [c \in Clients |-> NoCall]
    /\ answer = [c \in Clients |-> NoAnswer]

Idle == \A c \in Clients : pc[c] = "idle"

-----------------------------------------------------------------------------
(* make_kv: the object it returns is one that is open, or one whose _env    *)
(* stayed null because a step of the opening failed.                        *)
Open ==
    /\ db # "open"
    /\ db' \in {"open", "failed"}
    /\ UNCHANGED <<committed, writer, txn, view, pc, call, answer>>

(* The object is destroyed, or assigned another.                            *)
Close ==
    /\ Idle
    /\ db # "none"
    /\ db' = "none"
    /\ UNCHANGED <<committed, writer, txn, view, pc, call, answer>>

(* wipe removes the data file and the lock file, or fails before or after   *)
(* the first.                                                               *)
Wipe ==
    /\ db = "none"
    /\ committed' \in {committed, EmptyStore}
    /\ UNCHANGED <<db, writer, txn, view, pc, call, answer>>

-----------------------------------------------------------------------------
Invoke(c) ==
    /\ db = "open"
    /\ pc[c] = "idle"
    /\ \E r \in Requests : call' = [call EXCEPT ![c] = r]
    /\ pc' = [pc EXCEPT ![c] = "begin"]
    /\ UNCHANGED <<db, committed, writer, txn, view, answer>>

Answered(c, a) == answer' = [answer EXCEPT ![c] = a]

Goto(c, label) == pc' = [pc EXCEPT ![c] = label]

(* Mutant of Begin: the engine's writer lock is not taken (MDB_NOLOCK).      *)
BeginNoLock(c) ==
    /\ pc[c] = "begin"
    /\ IF IsWrite(call[c]) THEN writer' = c ELSE UNCHANGED writer
    /\ txn' = [txn EXCEPT ![c] = "live"]
    /\ view' = [view EXCEPT ![c] = committed]
    /\ Goto(c, "body")
    /\ UNCHANGED <<db, committed, call, answer>>

(* txn_begin: a writer waits for the one before it; a get is MDB_RDONLY.    *)
Begin(c) ==
    /\ pc[c] = "begin"
    /\ IF IsWrite(call[c]) THEN writer = NoClient /\ writer' = c
       ELSE UNCHANGED writer
    /\ txn' = [txn EXCEPT ![c] = "live"]
    /\ view' = [view EXCEPT ![c] = committed]
    /\ Goto(c, "body")
    /\ UNCHANGED <<db, committed, call, answer>>

BeginFails(c) ==
    /\ pc[c] = "begin"
    /\ Answered(c, Fail("backend_error"))
    /\ Goto(c, "done")
    /\ UNCHANGED <<db, committed, writer, txn, view, call>>

(* The function that perform_transaction runs: drop, del, put or get.       *)
(* Deleting a key that is not there is an error of the engine              *)
(* (MDB_NOTFOUND), which remove reports as any other.                       *)
Missing(c) ==
    call[c].op \in {"remove", "setnull"} /\ view[c][call[c].key] = Absent

(* The value is copied out of the engine's memory inside the transaction.   *)
Body(c) ==
    /\ pc[c] = "body"
    /\ ~Missing(c)
    /\ view' = [view EXCEPT ![c] = After(@, call[c])]
    /\ Answered(c, Answer(view[c], call[c]))
    /\ Goto(c, IF call[c].op = "get" /\ view[c][call[c].key] = Absent
               THEN "abort" ELSE "commit")
    /\ UNCHANGED <<db, committed, writer, txn, call>>

(* Mutant of BodyFails: the engine's own code is reported.                  *)
BodyFailsRaw(c) ==
    /\ pc[c] = "body"
    /\ Answered(c, Fail("MDB_NOTFOUND"))
    /\ Goto(c, "abort")
    /\ UNCHANGED <<db, committed, writer, txn, view, call>>

(* Any of them can fail, and del does when the key is missing.              *)
BodyFails(c) ==
    /\ pc[c] = "body"
    /\ Answered(c, Fail("backend_error"))
    /\ Goto(c, "abort")
    /\ UNCHANGED <<db, committed, writer, txn, view, call>>

(* The engine ends the transaction of c, which frees the writer lock.       *)
EndTxn(c, handle) ==
    /\ writer' = IF writer = c THEN NoClient ELSE writer
    /\ txn' = [txn EXCEPT ![c] = handle]
    /\ view' = [view EXCEPT ![c] = EmptyStore]

Commit(c) ==
    /\ pc[c] = "commit"
    /\ committed' = IF IsWrite(call[c]) THEN view[c] ELSE committed
    /\ EndTxn(c, "none")
    /\ Goto(c, "done")
    /\ UNCHANGED <<db, call, answer>>

(* Mutant of CommitFails: the result of the commit is not looked at.        *)
CommitUnchecked(c) ==
    /\ pc[c] = "commit"
    /\ EndTxn(c, "none")
    /\ Goto(c, "done")
    /\ UNCHANGED <<db, committed, call, answer>>

(* The engine has ended the transaction; the program still holds its handle.*)
CommitFails(c) ==
    /\ pc[c] = "commit"
    /\ EndTxn(c, "ended")
    /\ Answered(c, Fail("backend_error"))
    /\ Goto(c, "abort")
    /\ UNCHANGED <<db, committed, call>>

(* Mutant of Abort: the transaction of a failed call is left to itself.     *)
AbortOmitted(c) ==
    /\ pc[c] = "abort"
    /\ Goto(c, "done")
    /\ UNCHANGED <<db, committed, writer, txn, view, call, answer>>

Abort(c) ==
    /\ pc[c] = "abort"
    /\ EndTxn(c, "none")
    /\ Goto(c, "done")
    /\ UNCHANGED <<db, committed, call, answer>>

Return(c) ==
    /\ pc[c] = "done"
    /\ Goto(c, "idle")
    /\ call' = [call EXCEPT ![c] = NoCall]
    /\ Answered(c, NoAnswer)
    /\ UNCHANGED <<db, committed, writer, txn, view>>

(* The process goes down, of itself or by aborting a transaction twice: the *)
(* engine drops what was not committed and frees the writer lock.           *)
Crash ==
    /\ db' = "none"
    /\ writer' = NoClient
    /\ txn' = [c \in Clients |-> "none"]
    /\ view' = [c \in Clients |-> EmptyStore]
    /\ pc' = [c \in Clients |-> "idle"]
    /\ call' = [c \in Clients |-> NoCall]
    /\ answer' = [c \in Clients |-> NoAnswer]
    /\ UNCHANGED committed

Step(c) ==
    \/ Begin(c) \/ BeginFails(c) \/ Body(c) \/ BodyFails(c)
    \/ Commit(c) \/ CommitFails(c) \/ Abort(c) \/ Return(c)

Next ==
    \/ Open \/ Close \/ Wipe \/ Crash
    \/ \E c \in Clients : Invoke(c) \/ Step(c)

Spec == Init /\ [][Next]_vars

(* A thread that can go on does.                                            *)
Fairness == \A c \in Clients : WF_vars(Step(c))

FairSpec == Spec /\ Fairness

-----------------------------------------------------------------------------
(* The writer lock and the live write transactions go together: while one   *)
(* thread writes no other does, what it sees is the committed database and  *)
(* its own writes, and no lock outlives its transaction.                    *)
OneWriter ==
    \A c \in Clients :
        writer = c <=> txn[c] = "live" /\ IsWrite(call[c])

WriterSeesAll ==
    \A c \in Clients :
        /\ writer = c /\ pc[c] = "body"   => view[c] = committed
        /\ writer = c /\ pc[c] = "commit" => view[c] = After(committed, call[c])

(* No call leaves its transaction open.                                     *)
EveryTxnEnds ==
    \A c \in Clients : txn[c] = "live" ~> txn[c] # "live"

(* Where a thread is in its call, and what its handle is there.             *)
HandleInv ==
    \A c \in Clients :
        /\ pc[c] \in {"body", "commit"}       => txn[c] = "live"
        /\ pc[c] = "abort"                    => txn[c] \in {"live", "ended"}
        /\ pc[c] \in {"idle", "begin", "done"} => txn[c] = "none"

(* A write takes effect when it commits, a read when it begins.             *)
Reading(c) == call[c].op = "get" /\ pc[c] \in {"body", "commit", "abort"}

Phase ==
    [c \in Clients |->
        CASE pc[c] = "idle" -> "idle"
          [] pc[c] = "done" \/ Reading(c) -> "answered"
          [] OTHER -> "called"]

Promised ==
    [c \in Clients |->
        IF Phase[c] # "answered" THEN NoAnswer
        ELSE IF pc[c] = "body" THEN Answer(view[c], call[c])
        ELSE answer[c]]

KV == INSTANCE KeyValue
        WITH MayFail <- TRUE, Persistent <- TRUE,
             store <- committed, phase <- Phase, answer <- Promised

(* The backend implements keyvalue_database through failures of the engine  *)
(* and crashes: a call that answered success took effect, once and whole,   *)
(* and its effect survives; one that failed or was lost left no part of it  *)
(* behind, unless it was lost after its commit.                             *)
AtomicAndDurable == KV!Spec
=============================================================================
