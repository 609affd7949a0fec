------------------------------ MODULE KeyValue ------------------------------
(***************************************************************************)
(* What debby::keyvalue_database promises to the clients that share it: a   *)
(* map from keys to typed values on which every call takes effect at one    *)
(* point between its invocation and its return, and get tells an absent     *)
(* key (errc::key_not_found) from a value of another type                   *)
(* (errc::bad_value).                                                       *)
(*                                                                          *)
(* Where MayFail holds a call may also fail with errc::backend_error, and   *)
(* then leaves the database as it was.  Where Persistent holds the process  *)
(* may crash: the calls under way are lost, what the database held is not,  *)
(* until wipe removes it.                                                   *)
(*                                                                          *)
(* A call is Invoke (the arguments are handed over), Do (the effect and the *)
(* answer are fixed together) and Return.                                   *)
(***************************************************************************)
EXTENDS KvInterface

CONSTANTS
    MayFail,    \* whether the storage engine can fail
    Persistent  \* whether the database outlives the process

VARIABLES
    store,      \* the contents of the database
    phase,      \* where each client is: "idle", "called" or "answered"
    call,       \* the request of each client that is in a call
    answer      \* the answer to it, once there is one

vars == <<store, phase, call, answer>>

TypeOK ==
    /\ store \in Stores
    /\ phase \in [Clients -> {"idle", "called", "answered"}]
    /\ call \in [Clients -> Requests \cup {NoCall}]
    /\ answer \in [Clients -> Answers \cup {NoAnswer}]

Init ==
    /\ store = EmptyStore
    /\ phase = [c \in Clients |-> "idle"]
    /\ call = [c \in Clients |-> NoCall]
    /\ answer = [c \in Clients |-> NoAnswer]

Invoke(c) ==
    /\ phase[c] = "idle"
    /\ \E r \in Requests : call' = [call EXCEPT ![c] = r]
    /\ phase' = [phase EXCEPT ![c] = "called"]
    /\ UNCHANGED <<store, answer>>

Do(c) ==
    /\ phase[c] = "called"
    /\ store' = After(store, call[c])
    /\ answer' = [answer EXCEPT ![c] = Answer(store, call[c])]
    /\ phase' = [phase EXCEPT ![c] = "answered"]
    /\ UNCHANGED call

DoFail(c) ==
    /\ MayFail
    /\ \/ phase[c] = "called"
       \/ phase[c] = "answered" /\ call[c].op = "get"
    /\ answer' = [answer EXCEPT ![c] = Fail("backend_error")]
    /\ phase' = [phase EXCEPT ![c] = "answered"]
    /\ UNCHANGED <<store, call>>

Return(c) ==
    /\ phase[c] = "answered"
    /\ phase' = [phase EXCEPT ![c] = "idle"]
    /\ call' = [call EXCEPT ![c] = NoCall]
    /\ answer' = [answer EXCEPT ![c] = NoAnswer]
    /\ UNCHANGED store

Crash ==
    /\ Persistent
    /\ phase' = [c \in Clients |-> "idle"]
    /\ call' = [c \in Clients |-> NoCall]
    /\ answer' = [c \in Clients |-> NoAnswer]
    /\ UNCHANGED store

Wipe ==
    /\ Persistent
    /\ \A c \in Clients : phase[c] = "idle"
    /\ store' = EmptyStore
    /\ UNCHANGED <<phase, call, answer>>

Next ==
    \/ \E c \in Clients : Invoke(c) \/ Do(c) \/ DoFail(c) \/ Return(c)
    \/ Crash
    \/ Wipe

Spec == Init /\ [][Next]_vars
=============================================================================
