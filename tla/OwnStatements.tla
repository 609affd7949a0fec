---------------------------- MODULE OwnStatements ----------------------------
(***************************************************************************)
(* Prepared statements and results as a program wants them: a statement has *)
(* its state of execution and its parameters for itself, a result has the   *)
(* row it is on for itself, and what is done with one object changes no     *)
(* other.                                                                   *)
(*                                                                          *)
(* There are two exceptions, and they name what preparing a text again does *)
(* to the object that had it: that object is superseded, and when it is     *)
(* destroyed it may reset a statement, one that no result reads.            *)
(***************************************************************************)
CONSTANTS
    Stmts,      \* statement objects of the program
    Results,    \* result objects of the program
    None

VARIABLES
    open,       \* there is a database object
    stmts,      \* the statements: their state, and whether a parameter is bound
    results     \* the results: their state, and whose row they are on

vars == <<open, stmts, results>>

Statement == [state : {"ready", "row", "failed", "superseded"}, bound : BOOLEAN]

(* of: the statement that lent the row, none for a result of the database,  *)
(* or for one that is not on a row.                                         *)
Result == [state : {"ROW", "DONE", "FAILURE"}, of : SUBSET Stmts]

TypeOK ==
    /\ open \in BOOLEAN
    /\ stmts \in [Stmts -> Statement \cup {None}]
    /\ results \in [Results -> Result \cup {None}]

Init ==
    /\ open = FALSE
    /\ stmts = [s \in Stmts |-> None]
    /\ results = [r \in Results |-> None]

Ready      == [state |-> "ready", bound |-> FALSE]
Superseded == [state |-> "superseded", bound |-> FALSE]

Usable(s) == stmts[s] # None /\ stmts[s].state # "superseded"

Unread(s) == \A r \in Results : results[r] # None => s \notin results[r].of

-----------------------------------------------------------------------------
Open ==
    /\ ~open
    /\ open' = TRUE
    /\ UNCHANGED <<stmts, results>>

Close ==
    /\ open
    /\ open' = FALSE
    /\ UNCHANGED <<stmts, results>>

PrepareNew(s) ==
    /\ open
    /\ stmts[s] = None
    /\ stmts' = [stmts EXCEPT ![s] = Ready]
    /\ UNCHANGED <<open, results>>

PrepareAgain(s, old) ==
    /\ open
    /\ stmts[s] = None
    /\ Usable(old) /\ Unread(old)
    /\ stmts' = [stmts EXCEPT ![s] = Ready, ![old] = Superseded]
    /\ UNCHANGED <<open, results>>

Bind(s) ==
    /\ stmts[s] # None
    /\ stmts[s].state = "ready"
    /\ stmts' = [stmts EXCEPT ![s].bound = TRUE]
    /\ UNCHANGED <<open, results>>

Reset(s) ==
    /\ Usable(s) /\ Unread(s)
    /\ stmts' = [stmts EXCEPT ![s] = Ready]
    /\ UNCHANGED <<open, results>>

Exec(s, r) ==
    /\ Usable(s)
    /\ stmts[s].state # "row"
    /\ results[r] = None
    /\ \/ /\ stmts' = [stmts EXCEPT ![s].state = "row"]
          /\ results' = [results EXCEPT ![r] = [state |-> "ROW", of |-> {s}]]
       \/ /\ stmts' = [stmts EXCEPT ![s].state = "ready"]
          /\ results' = [results EXCEPT ![r] = [state |-> "DONE", of |-> {}]]
       \/ /\ stmts' = [stmts EXCEPT ![s].state = "failed"]
          /\ UNCHANGED results
    /\ UNCHANGED open

ExecSql(r) ==
    /\ open
    /\ results[r] = None
    /\ \E state \in {"ROW", "DONE"} :
          results' = [results EXCEPT ![r] = [state |-> state, of |-> {}]]
    /\ UNCHANGED <<open, stmts>>

(* The statements without s, and with the one that s may reset.             *)
Without(s) ==
    {[stmts EXCEPT ![s] = None]} \cup
    {[stmts EXCEPT ![s] = None, ![q].state = "ready"] :
        q \in {q \in Stmts \ {s} : ~Usable(s) /\ Usable(q) /\ Unread(q)}}

Destroy(s) ==
    /\ stmts[s] # None
    /\ Unread(s)
    /\ stmts' \in Without(s)
    /\ UNCHANGED <<open, results>>

(* The rows that other lent are rows of s from now on.                      *)
Assign(s, other) ==
    /\ s # other
    /\ stmts[other] # None
    /\ Unread(s)
    /\ \E rest \in Without(s) :
          stmts' = [rest EXCEPT ![s] = rest[other], ![other] = None]
    /\ results' = [r \in Results |->
          IF results[r] # None /\ other \in results[r].of
          THEN [results[r] EXCEPT !.of = {s}] ELSE results[r]]
    /\ UNCHANGED open

(* The last row of a result was read, or the next one could not be.         *)
Ends(r, state, left) ==
    /\ results' = [results EXCEPT ![r] = [state |-> state, of |-> {}]]
    /\ stmts' = [s \in Stmts |->
          IF s \in results[r].of THEN [stmts[s] EXCEPT !.state = left] ELSE stmts[s]]

NextRow(r) ==
    /\ results[r] # None
    /\ results[r].state = "ROW"
    /\ Ends(r, "DONE", "ready") \/ Ends(r, "FAILURE", "failed")
    /\ UNCHANGED open

MoveResult(r, other) ==
    /\ results[r] = None
    /\ results[other] # None
    /\ results' = [results EXCEPT ![r] = results[other], ![other] = None]
    /\ UNCHANGED <<open, stmts>>

DestroyResult(r) ==
    /\ results[r] # None
    /\ results' = [results EXCEPT ![r] = None]
    /\ UNCHANGED <<open, stmts>>

Next ==
    \/ Open \/ Close
    \/ \E s \in Stmts : PrepareNew(s) \/ Bind(s) \/ Reset(s) \/ Destroy(s)
    \/ \E s, other \in Stmts : PrepareAgain(s, other) \/ Assign(s, other)
    \/ \E s \in Stmts, r \in Results : Exec(s, r)
    \/ \E r \in Results : ExecSql(r) \/ NextRow(r) \/ DestroyResult(r)
    \/ \E r, other \in Results : MoveResult(r, other)

Spec == Init /\ [][Next]_vars
=============================================================================
