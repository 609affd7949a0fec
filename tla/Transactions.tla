---------------------------- MODULE Transactions ----------------------------
(***************************************************************************)
(* Transactions of debby::relational_database over one connection:          *)
(* transaction() of include/pfs/debby/relational_database.hpp, remove() of  *)
(* src/sqlite3 and src/psql/relational_database.cpp, and query, begin,      *)
(* commit and rollback, which both are made of.                             *)
(*                                                                          *)
(* A database is the set of its items: an item is a table, or a row, that   *)
(* one query makes and remove drops.  The engines differ in what a          *)
(* statement that fails does to an open transaction (SQLite undoes the      *)
(* statement or, out of space or I/O, rolls the transaction back; the       *)
(* server aborts it, and refuses everything until it ends), in BEGIN inside *)
(* a transaction (an error, a warning), in COMMIT and ROLLBACK outside one  *)
(* (an error, a warning), in COMMIT of an aborted one (the server rolls it  *)
(* back and reports success) and in that the connection to a server may be  *)
(* lost, with the answer to a COMMIT that was made.                         *)
(*                                                                          *)
(* A transaction body may call transaction() and remove() itself.  Those    *)
(* calls are the same as outside it: on SQLite one begins only after the    *)
(* transaction of the body was rolled back, on PostgreSQL its BEGIN is a    *)
(* warning and its COMMIT commits what the body has made so far.            *)
(***************************************************************************)
EXTENDS Naturals, Sequences

CONSTANTS
    Items,      \* what the queries of the program make and drop
    Usages,     \* the ways the database is used, see below
    MaxDepth    \* bound: how deep calls are made in the bodies of others

(* A usage is an engine; whether the program calls transaction() or         *)
(* remove() while it is in a transaction, of its own begin() or of          *)
(* transaction(); and whether a transaction body goes on, and may succeed,  *)
(* after a query or a call in it has failed.                                *)
ASSUME UsagesAssumption ==
    /\ Usages \subseteq [engine : {"sqlite3", "psql"}, nests : BOOLEAN,
                         ignores : BOOLEAN]
    /\ MaxDepth \in Nat

VARIABLES
    usage,      \* the usage
    tx,         \* "none", "open", "aborted" (psql), "lost" (psql connection)
    committed,  \* the items that other connections see
    work,       \* the items that this connection sees
    pc,         \* where the program is: "idle", or in transaction() or remove()
    op,         \* which of the two calls it is in
    base,       \* committed when the call was made
    made,       \* items that the bodies made, by what they were answered;
                \* of remove(), its tables
    callers,    \* base and made of the bodies whose call this is, inmost last
    todo,       \* tables that remove() has still to drop
    outcome,    \* of the call: "success", "failure" or "threw"
    explicit,   \* begin() was called, with no commit() or rollback() since
    threw       \* a call threw, with no successful begin since

data == <<tx, committed, work>>
vars == <<usage, data, pc, op, base, made, callers, todo, outcome, explicit,
          threw>>

Callers == [base : SUBSET Items, made : SUBSET Items]

TypeOK ==
    /\ usage \in Usages
    /\ tx \in {"none", "open", "aborted", "lost"}
    /\ usage.engine = "sqlite3" => tx \in {"none", "open"}
    /\ committed \in SUBSET Items
    /\ work \in SUBSET Items
    /\ pc \in {"idle", "body", "drop", "commit", "rollback", "done"}
    /\ op \in {"none", "transaction", "remove"}
    /\ base \in SUBSET Items
    /\ made \in SUBSET Items
    /\ callers \in Seq(Callers) /\ Len(callers) <= MaxDepth
    /\ todo \in SUBSET Items
    /\ outcome \in {"none", "success", "failure", "threw"}
    /\ explicit \in BOOLEAN
    /\ threw \in BOOLEAN

Init ==
    /\ usage \in Usages
    /\ tx = "none"
    /\ committed = {}
    /\ work = {}
    /\ pc = "idle"
    /\ op = "none"
    /\ base = {}
    /\ made = {}
    /\ callers = <<>>
    /\ todo = {}
    /\ outcome = "none"
    /\ explicit = FALSE
    /\ threw = FALSE

Sqlite == usage.engine = "sqlite3"
Psql   == usage.engine = "psql"

-----------------------------------------------------------------------------
(* What the engine does with one statement.                                 *)

(* A query that leaves the items in view as items: kept by the transaction, *)
(* or committed by itself.                                                  *)
QueryDone(items) ==
    /\ tx \in {"none", "open"}
    /\ work' = items
    /\ committed' = IF tx = "none" THEN items ELSE committed
    /\ UNCHANGED tx

RolledBack ==
    /\ tx' = "none"
    /\ work' = committed
    /\ UNCHANGED committed

ConnectionLost ==
    /\ Psql
    /\ tx' = "lost"
    /\ work' = committed
    /\ UNCHANGED committed

(* Mutant of QueryFails: SQLite, too, aborts a transaction.                 *)
QueryFailsAborts ==
    \/ tx # "open" /\ UNCHANGED data
    \/ Sqlite /\ tx = "open" /\ (UNCHANGED data \/ RolledBack)
    \/ /\ tx = "open"
       /\ tx' = "aborted"
       /\ UNCHANGED <<committed, work>>
    \/ ConnectionLost

QueryFails ==
    \/ tx # "open" /\ UNCHANGED data
    \/ Sqlite /\ tx = "open" /\ (UNCHANGED data \/ RolledBack)
    \/ /\ Psql
       /\ tx = "open"
       /\ tx' = "aborted"
       /\ UNCHANGED <<committed, work>>
    \/ ConnectionLost

BeginDone ==
    /\ tx = "none" \/ (Psql /\ tx = "open")
    /\ tx' = "open"
    /\ UNCHANGED <<committed, work>>

(* BEGIN that fails: there is a transaction already, or none starts; the    *)
(* server treats it as any statement that fails.                            *)
BeginFails ==
    \/ Sqlite /\ UNCHANGED data
    \/ Psql /\ QueryFails

CommitDone ==
    \/ /\ tx = "open"
       /\ tx' = "none"
       /\ committed' = work
       /\ UNCHANGED work
    \/ Psql /\ tx = "aborted" /\ RolledBack
    \/ Psql /\ tx = "none" /\ UNCHANGED data

(* SQLite is busy, and the transaction stays, or the commit is undone.  A   *)
(* commit whose answer was lost with the connection may have been made.     *)
CommitFails ==
    \/ Sqlite /\ (UNCHANGED data \/ RolledBack)
    \/ Psql /\ tx = "open" /\ RolledBack
    \/ Psql /\ tx = "lost" /\ UNCHANGED data
    \/ /\ Psql
       /\ tx' = "lost"
       /\ committed' \in {committed, IF tx = "open" THEN work ELSE committed}
       /\ work' = committed'

RollbackDone ==
    /\ tx \in {"open", "aborted"} \/ (Psql /\ tx = "none")
    /\ RolledBack

RollbackFails ==
    \/ tx \in {"none", "lost"} /\ UNCHANGED data
    \/ ConnectionLost

-----------------------------------------------------------------------------
(* The program outside transaction() and remove().                          *)
Frame == UNCHANGED <<usage, pc, op, base, made, callers, todo, outcome>>

Query ==
    /\ pc = "idle"
    /\ \/ \E i \in Items : QueryDone(work \cup {i})
       \/ QueryFails
    /\ UNCHANGED <<explicit, threw>>
    /\ Frame

(* clear(table): one query deletes the rows of it, whichever they are.      *)
Clear ==
    /\ pc = "idle"
    /\ \E rows \in SUBSET work \ {{}} : QueryDone(work \ rows)
    /\ UNCHANGED <<explicit, threw>>
    /\ Frame

Begin ==
    /\ pc = "idle"
    /\ \/ BeginDone /\ explicit' = TRUE /\ threw' = FALSE
       \/ BeginFails /\ UNCHANGED <<explicit, threw>>
    /\ Frame

Commit ==
    /\ pc = "idle"
    /\ \/ CommitDone /\ explicit' = FALSE
       \/ CommitFails /\ UNCHANGED explicit
    /\ UNCHANGED threw
    /\ Frame

Rollback ==
    /\ pc = "idle"
    /\ RollbackDone \/ RollbackFails
    /\ explicit' = FALSE
    /\ UNCHANGED threw
    /\ Frame

(* The object is destroyed, or the process dies, and another connects.      *)
Reconnect ==
    /\ tx' = "none"
    /\ work' = committed
    /\ pc' = "idle"
    /\ op' = "none"
    /\ made' = {}
    /\ callers' = <<>>
    /\ todo' = {}
    /\ outcome' = "none"
    /\ explicit' = FALSE
    /\ threw' = FALSE
    /\ UNCHANGED <<usage, committed, base>>

-----------------------------------------------------------------------------
(* A call of transaction() or remove(), by the program or by a body.        *)
CallByProgram ==
    /\ pc = "idle"
    /\ usage.nests \/ ~explicit
    /\ UNCHANGED callers

CallByBody ==
    /\ pc = "body"
    /\ usage.nests
    /\ Len(callers) < MaxDepth
    /\ callers' = Append(callers, [base |-> base, made |-> made])

Call(which) ==
    /\ CallByProgram \/ CallByBody
    /\ op' = which
    /\ base' = committed

Finish(how) == outcome' = how /\ pc' = "done"

(* transaction(func).  What a body has made so far its calls can undo, and  *)
(* commit.                                                                  *)
Transaction ==
    /\ Call("transaction")
    /\ UNCHANGED made
    /\ \/ BeginDone /\ threw' = FALSE /\ pc' = "body" /\ UNCHANGED outcome
       \/ BeginFails /\ UNCHANGED threw /\ Finish("failure")
    /\ UNCHANGED <<usage, todo, explicit>>

Rest == UNCHANGED <<usage, op, base, callers, todo, explicit, threw>>

BodyQuery ==
    /\ pc = "body"
    /\ \E i \in Items :
         QueryDone(work \cup {i}) /\ made' = made \cup {i}
    /\ UNCHANGED <<pc, outcome>>
    /\ Rest

BodyClear ==
    /\ pc = "body"
    /\ \E rows \in SUBSET work \ {{}} :
         QueryDone(work \ rows) /\ made' = made \ rows
    /\ UNCHANGED <<pc, outcome>>
    /\ Rest

(* After an error the body returns the failure, or throws, or maybe goes on.*)
AfterError ==
    \/ pc' = "rollback" /\ outcome' = "none"
    \/ usage.ignores /\ pc' = "body" /\ outcome' = "none"
    \/ Finish("threw")

BodyQueryFails ==
    /\ pc = "body"
    /\ QueryFails
    /\ AfterError
    /\ UNCHANGED made
    /\ Rest

BodyReturns ==
    /\ pc = "body"
    /\ pc' \in {"commit", "rollback"}
    /\ UNCHANGED <<data, made, outcome>>
    /\ Rest

(* Mutant of BodyThrows: the exception is taken for a failure.              *)
BodyThrowsCaught ==
    /\ pc = "body"
    /\ Finish("failure")
    /\ UNCHANGED <<data, made>>
    /\ Rest

(* An exception of the body passes through transaction(), which does not    *)
(* roll back.                                                               *)
BodyThrows ==
    /\ pc = "body"
    /\ Finish("threw")
    /\ UNCHANGED <<data, made>>
    /\ Rest

(* Mutant of BodyCommit: the error of the commit is not looked at.          *)
BodyCommitUnchecked ==
    /\ pc = "commit"
    /\ op = "transaction"
    /\ CommitDone \/ CommitFails
    /\ Finish("success")
    /\ UNCHANGED made
    /\ Rest

BodyCommit ==
    /\ pc = "commit"
    /\ op = "transaction"
    /\ \/ CommitDone /\ Finish("success")
       \/ CommitFails /\ Finish("threw")
    /\ UNCHANGED made
    /\ Rest

(* Mutant of BodyRollback: a failed body is committed.                      *)
BodyRollbackCommits ==
    /\ pc = "rollback"
    /\ op = "transaction"
    /\ \/ CommitDone /\ Finish("failure")
       \/ CommitFails /\ Finish("threw")
    /\ UNCHANGED made
    /\ Rest

BodyRollback ==
    /\ pc = "rollback"
    /\ op = "transaction"
    /\ \/ RollbackDone /\ Finish("failure")
       \/ RollbackFails /\ Finish("threw")
    /\ UNCHANGED made
    /\ Rest

-----------------------------------------------------------------------------
(* remove(tables), of one table at least.                                   *)
RemoveThese(tables) ==
    /\ Call("remove")
    /\ todo' = tables
    /\ made' = tables
    /\ \/ BeginDone /\ threw' = FALSE /\ pc' = "drop"
       \/ BeginFails /\ UNCHANGED threw /\ pc' = "rollback"
    /\ UNCHANGED <<usage, outcome, explicit>>

Remove == \E tables \in SUBSET Items \ {{}} : RemoveThese(tables)

(* remove_all(): the tables are listed before the transaction begins, and   *)
(* when there is none nothing begins.  An error of the list in the middle   *)
(* of it is thrown; one at its start ends the program (tables() asks        *)
(* is_done of no result), as Reconnect does.                                *)
RemoveAll ==
    /\ tx \in {"none", "open"}
    /\ work # {}
    /\ RemoveThese(work)

RemoveAllOfNone ==
    /\ Call("remove")
    /\ todo' = {}
    /\ made' = {}
    /\ \/ tx \in {"none", "open"} /\ work = {} /\ UNCHANGED data
             /\ Finish("success")
       \/ QueryFails /\ Sqlite /\ Finish("threw")
    /\ UNCHANGED <<usage, explicit, threw>>

Going == UNCHANGED <<usage, op, base, made, callers, explicit, threw>>

(* DROP TABLE IF EXISTS of one table after the other, in whatever order; for *)
(* PostgreSQL after an ALTER TABLE, which fails of a table that is missing.  *)
Drop ==
    /\ pc = "drop"
    /\ \E i \in todo :
         /\ todo' = todo \ {i}
         /\ \/ /\ Sqlite \/ i \in work
               /\ QueryDone(work \ {i})
               /\ UNCHANGED pc
            \/ QueryFails /\ pc' = "rollback"
    /\ UNCHANGED outcome
    /\ Going

(* Mutant of RemoveCommit: the commit comes before the last table is dropped.*)
RemoveCommitEarly ==
    /\ pc = "drop"
    /\ CommitDone
    /\ Finish("success")
    /\ UNCHANGED todo
    /\ Going

RemoveCommit ==
    /\ pc = "drop"
    /\ todo = {}
    /\ \/ CommitDone /\ Finish("success")
       \/ CommitFails /\ pc' = "rollback" /\ UNCHANGED outcome
    /\ UNCHANGED todo
    /\ Going

(* In the handler of the error: an error of the rollback is thrown from it, *)
(* whether the caller gave a perr or not.                                   *)
RemoveRollback ==
    /\ pc = "rollback"
    /\ op = "remove"
    /\ \/ RollbackDone /\ Finish("failure")
       \/ RollbackFails /\ Finish("threw")
    /\ todo' = {}
    /\ Going

-----------------------------------------------------------------------------
Return ==
    /\ pc = "done"
    /\ callers = <<>>
    /\ threw' = (threw \/ outcome = "threw")
    /\ pc' = "idle"
    /\ op' = "none"
    /\ made' = {}
    /\ todo' = {}
    /\ outcome' = "none"
    /\ UNCHANGED <<usage, data, base, callers, explicit>>

Caller == callers[Len(callers)]

(* What the body that has made a call takes for made, by what it answered.  *)
MadeAfter ==
    CASE outcome # "success" -> Caller.made
      [] outcome = "success" /\ op = "transaction" -> made
      [] outcome = "success" /\ op = "remove" -> Caller.made \ made

(* A call returns to the body that made it, which goes on, or has an error. *)
ReturnToBody ==
    /\ pc = "done"
    /\ callers # <<>>
    /\ callers' = SubSeq(callers, 1, Len(callers) - 1)
    /\ op' = "transaction"
    /\ base' = Caller.base
    /\ made' = MadeAfter
    /\ todo' = {}
    /\ threw' = (threw \/ outcome = "threw")
    /\ \/ outcome = "success" /\ pc' = "body" /\ outcome' = "none"
       \/ outcome # "success" /\ AfterError
    /\ UNCHANGED <<usage, data, explicit>>

Next ==
    \/ Query \/ Clear \/ Begin \/ Commit \/ Rollback \/ Reconnect
    \/ Transaction \/ BodyQuery \/ BodyClear \/ BodyQueryFails
    \/ BodyReturns \/ BodyThrows \/ BodyCommit \/ BodyRollback
    \/ Remove \/ RemoveAll \/ RemoveAllOfNone \/ Drop \/ RemoveCommit \/ RemoveRollback
    \/ Return \/ ReturnToBody

Spec == Init /\ [][Next]_vars

-----------------------------------------------------------------------------
Answers(call, how) == pc = "done" /\ op = call /\ outcome = how

(* A body counts on what it is answered: it stops at its first error, or it *)
(* goes on, on SQLite, and makes no calls.  (An aborted transaction of the  *)
(* server is a success of COMMIT; and what an error of SQLite has rolled    *)
(* back is not noticed once a call in the body has begun another.)          *)
Attentive == ~usage.ignores \/ (Sqlite /\ ~usage.nests)

(* transaction() that returns no failure has committed all that its body,   *)
(* and the bodies that it was called from, were told they made.             *)
SuccessCommits ==
    Attentive /\ Answers("transaction", "success") => made \subseteq committed

(* Nothing but the end of a call commits what is done in it: its body makes *)
(* no calls, or, on SQLite, makes them while its own transaction lasts,     *)
(* where they cannot begin.  (The COMMIT of a call in a body on PostgreSQL  *)
(* commits what the body has made.)                                         *)
Undivided == ~usage.nests \/ (Sqlite /\ ~usage.ignores)

(* transaction() that returns a failure has left the database as it was.    *)
FailureUndoes ==
    Undivided /\ Answers("transaction", "failure") => committed = base

(* remove() drops all of its tables or, if it reports an error, none.       *)
RemovesAllOrNone ==
    /\ Answers("remove", "success") => committed \cap made = {}
    /\ Answers("remove", "failure") => committed = base

(* A transaction is left open behind the program's back, to take in what    *)
(* its queries write from then on, only by a call that threw.               *)
LeftOpenByThrowOnly ==
    pc = "idle" /\ tx \in {"open", "aborted"} => explicit \/ threw
=============================================================================
