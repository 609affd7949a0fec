----------------------------- MODULE DurableStore -----------------------------
(***************************************************************************)
(* What a database on a disk promises to a program that calls it from one   *)
(* thread: every call takes effect at one point, or fails and has none.     *)
(* What has been written outlives the process; a loss of power may undo the *)
(* writes that were made since the last synchronised one, or some of them,  *)
(* and never a removal.                                                     *)
(*                                                                          *)
(* The promise ends with an error of clear or of opening the database.      *)
(* From then on the object is degraded: a call may be answered in any way   *)
(* and do nothing.  What is on the disk stays as it is, and the database is *)
(* itself again when it has been opened anew.                               *)
(***************************************************************************)
EXTENDS KvInterface

VARIABLES
    store,      \* the contents of the database
    durable,    \* what it may hold after a loss of power
    phase,      \* where the program is: "idle", "called" or "answered"
    call,       \* the call that it is in
    answer,     \* the answer to it, once there is one
    degraded    \* an error of clear or of opening was reported

vars == <<store, durable, phase, call, answer, degraded>>

TypeOK ==
    /\ store \in Stores
    /\ durable \in SUBSET Stores
    /\ phase \in {"idle", "called", "answered"}
    /\ call \in Requests \cup {NoCall}
    /\ answer \in Answers \cup {NoAnswer}
    /\ degraded \in BOOLEAN

Init ==
    /\ store = EmptyStore
    /\ durable = {EmptyStore}
    /\ phase = "idle"
    /\ call = NoCall
    /\ answer = NoAnswer
    /\ degraded = FALSE

-----------------------------------------------------------------------------
OpenFails ==
    /\ phase = "idle"
    /\ degraded' = TRUE
    /\ UNCHANGED <<store, durable, phase, call, answer>>

(* The database is closed, or the process dies; the call under way is lost. *)
Gone ==
    /\ phase' = "idle"
    /\ call' = NoCall
    /\ answer' = NoAnswer
    /\ degraded' = FALSE

Restart ==
    /\ Gone
    /\ UNCHANGED <<store, durable>>

PowerLoss ==
    /\ Gone
    /\ store' \in durable
    /\ durable' = {store'}

Wipe ==
    /\ phase = "idle"
    /\ store' \in {store, EmptyStore}
    /\ durable' = {store'}
    /\ UNCHANGED <<phase, call, answer, degraded>>

-----------------------------------------------------------------------------
Invoke ==
    /\ phase = "idle"
    /\ \E r \in Requests : call' = r
    /\ phase' = "called"
    /\ UNCHANGED <<store, durable, answer, degraded>>

Reply(a) ==
    /\ phase' = "answered"
    /\ answer' = a
    /\ UNCHANGED call

(* A removal is synchronised with the disk, and a value that is set is not. *)
Do ==
    /\ phase = "called"
    /\ store' = After(store, call)
    /\ durable' = CASE call.op = "set" -> durable \cup {store'}
                    [] call.op = "get" -> durable
                    [] OTHER           -> {store'}
    /\ Reply(Answer(store, call))
    /\ UNCHANGED degraded

(* A clear may still fail when the contents are gone.                       *)
DoFail ==
    /\ \/ phase = "called"
       \/ phase = "answered" /\ call.op = "clear"
    /\ Reply(Fail("backend_error"))
    /\ degraded' = (degraded \/ call.op = "clear")
    /\ UNCHANGED <<store, durable>>

DoNothing ==
    /\ phase = "called"
    /\ degraded
    /\ \E a \in Answers : Reply(a)
    /\ UNCHANGED <<store, durable, degraded>>

Return ==
    /\ phase = "answered"
    /\ phase' = "idle"
    /\ call' = NoCall
    /\ answer' = NoAnswer
    /\ UNCHANGED <<store, durable, degraded>>

Next ==
    \/ OpenFails \/ Restart \/ PowerLoss \/ Wipe
    \/ Invoke \/ Do \/ DoFail \/ DoNothing \/ Return

Spec == Init /\ [][Next]_vars
=============================================================================
