------------------------------ MODULE Settings ------------------------------
(***************************************************************************)
(* debby::settings over a keyvalue_database that several threads share      *)
(* (include/pfs/debby/settings.hpp).  Each call of the database is one step *)
(* here, as KeyValue promises; a take is up to three of them (get, set,     *)
(* get_or), and other threads run in between.                               *)
(***************************************************************************)
EXTENDS SettingsInterface

CONSTANT Uses   \* for each use of the settings, the calls of each thread

ASSUME UsesAssumption == Uses \subseteq [Clients -> SUBSET SettingsRequests]

VARIABLES
    use,        \* the calls of each thread
    store,      \* what the database holds
    pc,         \* where each thread is in its call
    call,       \* the request of each thread that is in a call
    answer      \* the answer to it

vars == <<use, store, pc, call, answer>>

TypeOK ==
    /\ use \in Uses
    /\ store \in Stores
    /\ pc \in [Clients -> {"idle", "called", "take_set", "take_get_or",
                           "answered"}]
    /\ call \in [Clients -> SettingsRequests \cup {NoCall}]
    /\ \A c \in Clients : pc[c] # "idle" => call[c] \in use[c]
    /\ \A c \in Clients :
          pc[c] \in {"take_set", "take_get_or"} => call[c].op = "take"
    /\ answer \in [Clients -> Answers \cup {NoAnswer}]

Init ==
    /\ use \in Uses
    /\ store = EmptyStore
    /\ pc = [c \in Clients |-> "idle"]
    /\ call = [c \in Clients |-> NoCall]
    /\ answer = [c \in Clients |-> NoAnswer]

Invoke(c) ==
    /\ pc[c] = "idle"
    /\ \E r \in use[c] : call' = [call EXCEPT ![c] = r]
    /\ pc' = [pc EXCEPT ![c] = "called"]
    /\ UNCHANGED <<use, store, answer>>

AnswerWith(c, a) ==
    /\ answer' = [answer EXCEPT ![c] = a]
    /\ pc' = [pc EXCEPT ![c] = "answered"]

(* set and remove forward to the database.                                  *)
Set(c) ==
    /\ pc[c] = "called"
    /\ call[c].op = "set"
    /\ store' = [store EXCEPT ![call[c].key] = call[c].val]
    /\ AnswerWith(c, Ok)
    /\ UNCHANGED <<use, call>>

Remove(c) ==
    /\ pc[c] = "called"
    /\ call[c].op = "remove"
    /\ store' = [store EXCEPT ![call[c].key] = Absent]
    /\ AnswerWith(c, Ok)
    /\ UNCHANGED <<use, call>>

(* keyvalue_database::get_or asks get, and answers its default if the key   *)
(* was not found.                                                           *)
GetOr(k, default) ==
    LET a == Lookup(store, k, default.type)
    IN  IF a.err = "key_not_found" THEN Found(default) ELSE a

Get(c) ==
    /\ pc[c] = "called"
    /\ call[c].op = "get"
    /\ AnswerWith(c, GetOr(call[c].key, call[c].val))
    /\ UNCHANGED <<use, store, call>>

(* Mutant of Take: get stores its default too.                              *)
TakeOrGet(c) ==
    /\ pc[c] = "called"
    /\ call[c].op \in {"take", "get"}
    /\ LET a == Lookup(store, call[c].key, call[c].val.type)
       IN  IF a.err = "key_not_found"
           THEN /\ pc' = [pc EXCEPT ![c] = "take_set"]
                /\ UNCHANGED answer
           ELSE AnswerWith(c, a)
    /\ UNCHANGED <<use, store, call>>

(* Mutant of Take: any error of the first read makes take store the default. *)
TakeOnAnyError(c) ==
    /\ pc[c] = "called"
    /\ call[c].op = "take"
    /\ LET a == Lookup(store, call[c].key, call[c].val.type)
       IN  IF a.err # "success"
           THEN /\ pc' = [pc EXCEPT ![c] = "take_set"]
                /\ UNCHANGED answer
           ELSE AnswerWith(c, a)
    /\ UNCHANGED <<use, store, call>>

(* take reads the key with get, and goes on only if it was not found.       *)
Take(c) ==
    /\ pc[c] = "called"
    /\ call[c].op = "take"
    /\ LET a == Lookup(store, call[c].key, call[c].val.type)
       IN  IF a.err = "key_not_found"
           THEN /\ pc' = [pc EXCEPT ![c] = "take_set"]
                /\ UNCHANGED answer
           ELSE AnswerWith(c, a)
    /\ UNCHANGED <<use, store, call>>

(* Mutant of TakeSet: the default is answered but not stored.               *)
TakeSetNothing(c) ==
    /\ pc[c] = "take_set"
    /\ pc' = [pc EXCEPT ![c] = "take_get_or"]
    /\ UNCHANGED <<use, store, call, answer>>

(* It stores the default, whatever the key holds by then ...                *)
TakeSet(c) ==
    /\ pc[c] = "take_set"
    /\ store' = [store EXCEPT ![call[c].key] = call[c].val]
    /\ pc' = [pc EXCEPT ![c] = "take_get_or"]
    /\ UNCHANGED <<use, call, answer>>

(* ... and answers what get makes of the key then.                          *)
TakeGetOr(c) ==
    /\ pc[c] = "take_get_or"
    /\ AnswerWith(c, GetOr(call[c].key, call[c].val))
    /\ UNCHANGED <<use, store, call>>

(* The database call that is due fails, and with it the call of settings.   *)
DbFails(c) ==
    /\ MayFail
    /\ pc[c] \in {"called", "take_set", "take_get_or"}
    /\ AnswerWith(c, Fail("backend_error"))
    /\ UNCHANGED <<use, store, call>>

Return(c) ==
    /\ pc[c] = "answered"
    /\ pc' = [pc EXCEPT ![c] = "idle"]
    /\ call' = [call EXCEPT ![c] = NoCall]
    /\ answer' = [answer EXCEPT ![c] = NoAnswer]
    /\ UNCHANGED <<use, store>>

Next ==
    \E c \in Clients :
        \/ Invoke(c) \/ Set(c) \/ Remove(c) \/ Get(c)
        \/ Take(c) \/ TakeSet(c) \/ TakeGetOr(c) \/ DbFails(c) \/ Return(c)

Spec == Init /\ [][Next]_vars

-----------------------------------------------------------------------------
(* While a thread takes a key, no other thread gives the key another value. *)
(* Removing it, and taking it with the same default, are harmless.          *)
Compatible(u) ==
    \A c, d \in Clients : c # d =>
        \A r \in u[c], q \in u[d] :
            /\ r.op = "take"
            /\ q.op \in {"set", "take"}
            /\ q.key = r.key
            => q.val = r.val

(* A take that found no value takes effect when it stores its default, and  *)
(* has its answer from then on.                                             *)
Phase ==
    [c \in Clients |-> CASE pc[c] = "take_set"    -> "called"
                         [] pc[c] = "take_get_or" -> "answered"
                         [] OTHER                 -> pc[c]]

Decided ==
    [c \in Clients |-> IF pc[c] = "take_get_or" THEN Found(call[c].val)
                       ELSE answer[c]]

AS == INSTANCE AtomicSettings WITH phase <- Phase, answer <- Decided

(* In a compatible use every call of settings, take included, is atomic: no *)
(* thread loses a value it set or reads a value that was never current.     *)
TakeIsAtomic == AS!Spec

(* What a thread in the middle of a take can count on.                      *)
TakeInv ==
    \A c \in Clients :
        pc[c] \in {"take_set", "take_get_or"}
            => store[call[c].key] \in {Absent, call[c].val}
=============================================================================
