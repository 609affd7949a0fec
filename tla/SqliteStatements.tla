-------------------------- MODULE SqliteStatements --------------------------
(***************************************************************************)
(* The prepared statements and results of the SQLite engine of debby::      *)
(* src/sqlite3/relational_database_impl.hpp (the cache of statements, exec  *)
(* and prepare), statement_impl.hpp, statement.cpp, result_impl.hpp and     *)
(* result.cpp.                                                              *)
(*                                                                          *)
(* A handle is a sqlite3_stmt.  The database keeps the handles of the       *)
(* cached statements, a statement object has one of its own or shares one   *)
(* of the cache, and a result object borrows the handle of its statement    *)
(* or, when exec of the database made it, owns one.  No object knows of the *)
(* others: the program has to keep to what Unread and Usable say below.     *)
(* A prepare that fails leaves nothing behind and is left out.              *)
(***************************************************************************)
CONSTANTS
    Texts,      \* SQL texts
    Handles,    \* addresses of sqlite3_stmt objects
    Stmts,      \* statement objects of the program
    Results,    \* result objects of the program
    None

VARIABLES
    open,       \* there is a database object, with a connection
    cache,      \* its prepared statements
    native,     \* the state of the handles
    bound,      \* the handles with parameters that were bound
    stmts,      \* the statement objects
    results     \* the result objects

vars == <<open, cache, native, bound, stmts, results>>

(* superseded: the text has been prepared again, into another object.       *)
Stmt == [sth : Handles, cached : BOOLEAN, superseded : BOOLEAN]

Result == [sth : Handles, state : {"ROW", "DONE", "FAILURE"}, owned : BOOLEAN]

ASSUME NoneAssumption == None \notin Handles \cup Stmt \cup Result

TypeOK ==
    /\ open \in BOOLEAN
    /\ cache \in [Texts -> Handles \cup {None}]
    /\ native \in [Handles -> {"free", "ready", "row", "failed"}]
    /\ bound \in SUBSET Handles
    /\ stmts \in [Stmts -> Stmt \cup {None}]
    /\ results \in [Results -> Result \cup {None}]
    /\ ~open => \A t \in Texts : cache[t] = None

Init ==
    /\ open = FALSE
    /\ cache = [t \in Texts |-> None]
    /\ native = [h \in Handles |-> "free"]
    /\ bound = {}
    /\ stmts = [s \in Stmts |-> None]
    /\ results = [r \in Results |-> None]

Cached == {cache[t] : t \in Texts} \ {None}

StmtsOf(h) == {s \in Stmts : stmts[s] # None /\ stmts[s].sth = h}

-----------------------------------------------------------------------------
(* What the program keeps to.                                               *)

(* No result is on a row of the handle: the program has read its results to *)
(* the end, or destroyed them, before it prepares, resets, executes or      *)
(* destroys their statement.                                                *)
Unread(h) == \A r \in Results :
    results[r] # None => ~(results[r].sth = h /\ results[r].state = "ROW")

(* A statement whose text was prepared again is only destroyed.             *)
Usable(s) == stmts[s] # None /\ ~stmts[s].superseded

-----------------------------------------------------------------------------
(* The database.                                                            *)

Open ==
    /\ ~open
    /\ open' = TRUE
    /\ UNCHANGED <<cache, native, bound, stmts, results>>

(* Mutant of Close: the cache is not emptied.                               *)
CloseKeepsCache ==
    /\ open
    /\ \A h \in Cached : Unread(h) /\ StmtsOf(h) = {}
    /\ open' = FALSE
    /\ native' = [h \in Handles |-> IF h \in Cached THEN "free" ELSE native[h]]
    /\ bound' = bound \ Cached
    /\ UNCHANGED <<cache, stmts, results>>

(* The cached statements are finalized; other statements, and results with  *)
(* a handle of their own, go on with the connection that close_v2 keeps.    *)
Close ==
    /\ open
    /\ \A h \in Cached : Unread(h) /\ StmtsOf(h) = {}
    /\ open' = FALSE
    /\ cache' = [t \in Texts |-> None]
    /\ native' = [h \in Handles |-> IF h \in Cached THEN "free" ELSE native[h]]
    /\ bound' = bound \ Cached
    /\ UNCHANGED <<stmts, results>>

Constructed(h, cached) ==
    [sth |-> h, cached |-> cached, superseded |-> FALSE]

(* Mutant of PrepareHit: the parameters stay bound.                         *)
PrepareHitBound(s, t) ==
    /\ open
    /\ cache[t] # None
    /\ Unread(cache[t])
    /\ native' = [native EXCEPT ![cache[t]] = "ready"]
    /\ stmts' = [q \in Stmts |->
          IF q = s THEN Constructed(cache[t], TRUE)
          ELSE IF q \in StmtsOf(cache[t]) THEN [stmts[q] EXCEPT !.superseded = TRUE]
          ELSE stmts[q]]
    /\ UNCHANGED <<open, cache, bound, results>>

(* The text is in the cache: its handle is reset and shared.                *)
PrepareHit(s, t) ==
    /\ open
    /\ cache[t] # None
    /\ Unread(cache[t])
    /\ native' = [native EXCEPT ![cache[t]] = "ready"]
    /\ bound' = bound \ {cache[t]}
    /\ stmts' = [q \in Stmts |->
          IF q = s THEN Constructed(cache[t], TRUE)
          ELSE IF q \in StmtsOf(cache[t]) THEN [stmts[q] EXCEPT !.superseded = TRUE]
          ELSE stmts[q]]
    /\ UNCHANGED <<open, cache, results>>

PrepareMiss(s, t, h, cache_it) ==
    /\ open
    /\ cache[t] = None
    /\ native[h] = "free"
    /\ native' = [native EXCEPT ![h] = "ready"]
    /\ cache' = IF cache_it THEN [cache EXCEPT ![t] = h] ELSE cache
    /\ stmts' = [stmts EXCEPT ![s] = Constructed(h, cache_it)]
    /\ UNCHANGED <<open, bound, results>>

Prepare(s, t) ==
    /\ stmts[s] = None
    /\ \/ PrepareHit(s, t)
       \/ \E h \in Handles, cache_it \in BOOLEAN : PrepareMiss(s, t, h, cache_it)

Borrowed(h, state) == [sth |-> h, state |-> state, owned |-> FALSE]
Owned(h, state)    == [sth |-> h, state |-> state, owned |-> TRUE]

(* Mutant of ExecSqlFails: the handle is finalized by no one.               *)
ExecSqlFailsLeaks(h) ==
    /\ native' = [native EXCEPT ![h] = "failed"]
    /\ UNCHANGED results

(* The temporary statement still has the handle, and finalizes it.          *)
ExecSqlFails(h) ==
    UNCHANGED <<native, results>>

(* exec of the database: the result takes the handle from the temporary     *)
(* statement.                                                               *)
ExecSql(r) ==
    /\ open
    /\ results[r] = None
    /\ \E h \in Handles :
          /\ native[h] = "free"
          /\ \/ /\ native' = [native EXCEPT ![h] = "row"]
                /\ results' = [results EXCEPT ![r] = Owned(h, "ROW")]
             \/ /\ native' = [native EXCEPT ![h] = "ready"]
                /\ results' = [results EXCEPT ![r] = Owned(h, "DONE")]
             \/ ExecSqlFails(h)
    /\ UNCHANGED <<open, cache, bound, stmts>>

-----------------------------------------------------------------------------
(* The statements.                                                          *)

(* A parameter can be bound where the handle was reset; elsewhere bind      *)
(* reports SQLITE_MISUSE and changes nothing.                               *)
Bind(s) ==
    /\ Usable(s)
    /\ native[stmts[s].sth] = "ready"
    /\ bound' = bound \cup {stmts[s].sth}
    /\ UNCHANGED <<open, cache, native, stmts, results>>

(* The handle is reset even where reset reports that its last step failed.  *)
Reset(s) ==
    /\ Usable(s)
    /\ Unread(stmts[s].sth)
    /\ bound' = bound \ {stmts[s].sth}
    /\ native' = [native EXCEPT ![stmts[s].sth] = "ready"]
    /\ UNCHANGED <<open, cache, stmts, results>>

(* A handle that is on a row would go on to the next one.  A step that      *)
(* failed leaves the handle as it is, and returns no result.                *)
Exec(s, r) ==
    /\ Usable(s)
    /\ results[r] = None
    /\ native[stmts[s].sth] # "row"
    /\ LET h == stmts[s].sth IN
          \/ /\ native' = [native EXCEPT ![h] = "row"]
             /\ results' = [results EXCEPT ![r] = Borrowed(h, "ROW")]
          \/ /\ native' = [native EXCEPT ![h] = "ready"]
             /\ results' = [results EXCEPT ![r] = Borrowed(h, "DONE")]
          \/ /\ native' = [native EXCEPT ![h] = "failed"]
             /\ UNCHANGED results
    /\ UNCHANGED <<open, cache, bound, stmts>>

(* Mutant of Destructor: a cached handle is left as it is.                  *)
DestructorKeeps(s) ==
    /\ Unread(stmts[s].sth)
    /\ native' = IF stmts[s].cached THEN native
                 ELSE [native EXCEPT ![stmts[s].sth] = "free"]
    /\ bound' = IF stmts[s].cached THEN bound ELSE bound \ {stmts[s].sth}

(* The handle is reset and, unless it is the cache's, finalized.            *)
Destructor(s) ==
    /\ Unread(stmts[s].sth)
    /\ native' = [native EXCEPT ![stmts[s].sth] =
                     IF stmts[s].cached THEN "ready" ELSE "free"]
    /\ bound' = IF stmts[s].cached THEN bound ELSE bound \ {stmts[s].sth}

Destroy(s) ==
    /\ stmts[s] # None
    /\ Destructor(s)
    /\ stmts' = [stmts EXCEPT ![s] = None]
    /\ UNCHANGED <<open, cache, results>>

(* operator =: what the object held is destroyed before it takes the other. *)
Assign(s, other) ==
    /\ s # other
    /\ stmts[other] # None
    /\ IF stmts[s] # None THEN Destructor(s) ELSE UNCHANGED <<native, bound>>
    /\ stmts' = [stmts EXCEPT ![s] = stmts[other], ![other] = None]
    /\ UNCHANGED <<open, cache, results>>

-----------------------------------------------------------------------------
(* The results.                                                             *)

(* Mutant of NextDone: the result stays on the row it had.                  *)
NextDoneUnmarked(r) ==
    /\ native' = [native EXCEPT ![results[r].sth] = "ready"]
    /\ UNCHANGED results

NextDone(r) ==
    /\ native' = [native EXCEPT ![results[r].sth] = "ready"]
    /\ results' = [results EXCEPT ![r].state = "DONE"]

NextFails(r) ==
    /\ native' = [native EXCEPT ![results[r].sth] = "failed"]
    /\ results' = [results EXCEPT ![r].state = "FAILURE"]

(* next of a result that is not on a row would run the statement again.     *)
NextRow(r) ==
    /\ results[r] # None
    /\ results[r].state = "ROW"
    /\ \/ UNCHANGED <<native, results>>
       \/ NextDone(r)
       \/ NextFails(r)
    /\ UNCHANGED <<open, cache, bound, stmts>>

MoveResult(r, other) ==
    /\ results[r] = None
    /\ results[other] # None
    /\ results' = [results EXCEPT ![r] = results[other], ![other] = None]
    /\ UNCHANGED <<open, cache, native, bound, stmts>>

DestroyResult(r) ==
    /\ results[r] # None
    /\ native' = IF results[r].owned
                 THEN [native EXCEPT ![results[r].sth] = "free"] ELSE native
    /\ results' = [results EXCEPT ![r] = None]
    /\ UNCHANGED <<open, cache, bound, stmts>>

-----------------------------------------------------------------------------
Next ==
    \/ Open \/ Close
    \/ \E s \in Stmts, t \in Texts : Prepare(s, t)
    \/ \E s \in Stmts : Bind(s) \/ Reset(s) \/ Destroy(s)
    \/ \E s, other \in Stmts : Assign(s, other)
    \/ \E s \in Stmts, r \in Results : Exec(s, r)
    \/ \E r \in Results : ExecSql(r) \/ NextRow(r) \/ DestroyResult(r)
    \/ \E r, other \in Results : MoveResult(r, other)

Spec == Init /\ [][Next]_vars

-----------------------------------------------------------------------------
(* Who has to finalize a handle: the cache, a statement or a result.        *)
Owners(h) ==
    {<<"cache", t>> : t \in {t \in Texts : cache[t] = h}}
    \cup {<<"statement", s>> : s \in {s \in StmtsOf(h) : ~stmts[s].cached}}
    \cup {<<"result", r>> : r \in {r \in Results :
              results[r] # None /\ results[r].sth = h /\ results[r].owned}}

(* Every handle is finalized exactly once: a handle that is in use has      *)
(* exactly one owner among the cache, the statements and the results of     *)
(* exec, through every move, failure and close, a finalized one has none,   *)
(* and the statements that share a handle share one that the cache has.     *)
HandlesOwned ==
    /\ \A h \in Handles :
          IF native[h] = "free" THEN Owners(h) = {}
          ELSE \E owner \in Owners(h) : Owners(h) = {owner}
    /\ \A s \in Stmts : stmts[s] # None /\ stmts[s].cached => stmts[s].sth \in Cached

(* A result with has_more reads a row of its own: its handle is on a row,   *)
(* and no other result reads it, whatever became of other objects with the  *)
(* same handle since.                                                       *)
RowsAreOwn ==
    \A r \in Results : results[r] # None /\ results[r].state = "ROW" =>
       /\ native[results[r].sth] = "row"
       /\ \A q \in Results \ {r} : results[q] # None =>
             ~(results[q].sth = results[r].sth /\ results[q].state = "ROW")

(* No handle is left on a row, which would keep a read transaction open, or *)
(* with a failure still to be reported, out of the reach of the program: it *)
(* still has a statement with the handle, or a result that owns it.         *)
NothingLeftRunning ==
    \A h \in Handles : native[h] \in {"row", "failed"} =>
       \/ StmtsOf(h) # {}
       \/ \E r \in Results : results[r] # None /\ results[r].sth = h /\ results[r].owned

-----------------------------------------------------------------------------
(* What a statement shows, with its handle in a state and with parameters.  *)
Shown(stmt, states, params) ==
    IF stmt = None THEN None
    ELSE IF stmt.superseded THEN [state |-> "superseded", bound |-> FALSE]
    ELSE [state |-> states[stmt.sth], bound |-> stmt.sth \in params]

OwnStmts == [s \in Stmts |-> Shown(stmts[s], native, bound)]

(* The statements whose row the result is on.                               *)
Lenders(result) ==
    {s \in Stmts : result.state = "ROW" /\ Usable(s) /\ stmts[s].sth = result.sth}

OwnResults ==
    [r \in Results |->
        IF results[r] = None THEN None
        ELSE [state |-> results[r].state, of |-> Lenders(results[r])]]

Own == INSTANCE OwnStatements WITH stmts <- OwnStmts, results <- OwnResults

ASSUME NoneShownAssumption == None \notin Own!Statement \cup Own!Result

(* The cache cannot be told from statements that share nothing: a statement *)
(* executes with the parameters that were bound through it, and no others,  *)
(* its state changes only by what is done with it and with the result that  *)
(* it lent its row, and a result goes on to the rows of its own statement,  *)
(* although others have, had or will have the same handle.                  *)
SharesNothing == Own!Spec
=============================================================================
