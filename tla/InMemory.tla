------------------------------ MODULE InMemory ------------------------------
(***************************************************************************)
(* The in-memory backend, src/in_memory/keyvalue_database.cpp: a std::map   *)
(* or std::unordered_map of variants behind a mutex.  The map_mt and         *)
(* unordered_map_mt variants lock it with std::lock_guard; in the _st        *)
(* variants the guard is lock_guard_stub and locks nothing.                 *)
(*                                                                          *)
(* Being inside the container takes time: a call enters it in one step and  *)
(* leaves it, its effect done, in another (Access).  Two calls inside at    *)
(* once, one of them writing, are a data race, and what they leave behind   *)
(* and answer is anything of the right shape.  std::mutex is not recursive: *)
(* a thread that locks a mutex it owns waits for itself, which is what the  *)
(* default mutex of the platform does.                                      *)
(***************************************************************************)
EXTENDS KvInterface, Naturals

CONSTANTS
    Deployments,    \* the ways the database is used, see below
    NoClient,       \* the owner of a free mutex
    MaxCalls        \* bound: the calls that each thread makes

(* A deployment is a variant (mt: whether it is one of the _mt ones), the   *)
(* threads that use the database and the calls that they make.              *)
ASSUME DeploymentsAssumption ==
    Deployments \subseteq [mt : BOOLEAN, users : SUBSET Clients,
                           requests : SUBSET Requests]
ASSUME NoClientAssumption == NoClient \notin Clients
ASSUME MaxCallsAssumption == MaxCalls \in Nat

VARIABLES
    dep,        \* the deployment
    mtx,        \* owner of _mtx, or NoClient
    dbh,        \* _dbh: a function from the stored keys to their values
    pc,         \* where each thread is in its call
    call,       \* the request of each thread that is in a call
    answer,     \* the answer to it
    raced,      \* threads whose stay in the container overlapped a conflict
    left        \* calls each thread has still to make

vars == <<dep, mtx, dbh, pc, call, answer, raced, left>>

(* A map node holds one alternative of unified_value_t; a key without a     *)
(* node is outside the domain.                                              *)
Maps == UNION {[D -> Values] : D \in SUBSET Keys}

TypeOK ==
    /\ dep \in Deployments
    /\ mtx \in Clients \cup {NoClient}
    /\ dbh \in Maps
    /\ pc \in [Clients -> {"idle", "enter", "relock", "inside", "unlock"}]
    /\ call \in [Clients -> Requests \cup {NoCall}]
    /\ \A c \in Clients :
          pc[c] # "idle" => c \in dep.users /\ call[c] \in dep.requests
    /\ answer \in [Clients -> Answers \cup {NoAnswer}]
    /\ raced \subseteq Clients
    /\ left \in [Clients -> 0..MaxCalls]
    /\ \A c \in Clients : left[c] > 0 => c \in dep.users

Init ==
    /\ dep \in Deployments
    /\ mtx = NoClient
    /\ dbh \in [{} -> Values]
    /\ pc = [c \in Clients |-> "idle"]
    /\ call = [c \in Clients |-> NoCall]
    /\ answer = [c \in Clients |-> NoAnswer]
    /\ raced = {}
    /\ left = [c \in Clients |-> IF c \in dep.users THEN MaxCalls ELSE 0]

(* A thread calls the facade, which forwards to the implementation.         *)
Invoke(c) ==
    /\ pc[c] = "idle"
    /\ left[c] > 0
    /\ \E r \in dep.requests : call' = [call EXCEPT ![c] = r]
    /\ pc' = [pc EXCEPT ![c] = "enter"]
    /\ left' = [left EXCEPT ![c] = @ - 1]
    /\ UNCHANGED <<dep, mtx, dbh, answer, raced>>

(* Construction of a lock_guard on _mtx.                                    *)
LockGuard(c) ==
    IF dep.mt THEN mtx = NoClient /\ mtx' = c ELSE UNCHANGED mtx

(* The threads inside the container that a call of c would conflict with.   *)
Conflicts(c) ==
    {d \in Clients \ {c} : /\ pc[d] = "inside"
                           /\ IsWrite(call[c]) \/ IsWrite(call[d])}

EnterContainer(c) ==
    /\ pc' = [pc EXCEPT ![c] = "inside"]
    /\ raced' = IF Conflicts(c) = {} THEN raced
                ELSE raced \cup Conflicts(c) \cup {c}

(* Mutant of Lock: the guard is left out.                                   *)
LockOmitted(c) ==
    /\ pc[c] = "enter"
    /\ call[c].op \in {"set", "remove", "get"}
    /\ EnterContainer(c)
    /\ UNCHANGED <<dep, mtx, dbh, call, answer, left>>

(* remove, get, and set of a value lock the mutex and use the container.    *)
Lock(c) ==
    /\ pc[c] = "enter"
    /\ call[c].op \in {"set", "remove", "get"}
    /\ LockGuard(c)
    /\ EnterContainer(c)
    /\ UNCHANGED <<dep, dbh, call, answer, left>>

(* set of a null pointer locks the mutex, and calls remove ...              *)
LockNull(c) ==
    /\ pc[c] = "enter"
    /\ call[c].op = "setnull"
    /\ LockGuard(c)
    /\ pc' = [pc EXCEPT ![c] = "relock"]
    /\ UNCHANGED <<dep, dbh, call, answer, raced, left>>

(* ... which locks it again.                                                *)
Relock(c) ==
    /\ pc[c] = "relock"
    /\ LockGuard(c)
    /\ EnterContainer(c)
    /\ UNCHANGED <<dep, dbh, call, answer, left>>

(* clear does not lock.                                                     *)
EnterClear(c) ==
    /\ pc[c] = "enter"
    /\ call[c].op = "clear"
    /\ EnterContainer(c)
    /\ UNCHANGED <<dep, mtx, dbh, call, answer, left>>

(* Mutant of Assign: emplace, which keeps a value that is there.            *)
AssignIfNew(m, k, v) ==
    [x \in DOMAIN m \cup {k} |-> IF x \in DOMAIN m THEN m[x] ELSE v]

(* operator[] followed by an assignment: inserts or overwrites.             *)
Assign(m, k, v) == [x \in DOMAIN m \cup {k} |-> IF x = k THEN v ELSE m[x]]

(* Mutant of Erase: the node stays, emptied.                                *)
EraseValue(m, k) ==
    [x \in DOMAIN m |-> IF x = k THEN Absent ELSE m[x]]

Erase(m, k) == [x \in DOMAIN m \ {k} |-> m[x]]

Contents(r) ==
    CASE r.op = "set"                   -> Assign(dbh, r.key, r.val)
      [] r.op \in {"setnull", "remove"} -> Erase(dbh, r.key)
      [] r.op = "clear"                 -> [x \in {} |-> Absent]
      [] OTHER                          -> dbh

(* find, then holds_alternative<T>.                                         *)
Reply(r) ==
    IF r.op # "get" THEN Ok
    ELSE IF r.key \notin DOMAIN dbh THEN Fail("key_not_found")
    ELSE IF dbh[r.key].type = r.type THEN Found(dbh[r.key])
    ELSE Fail("bad_value")

Access(c) ==
    /\ pc[c] = "inside"
    /\ IF c \in raced
       THEN /\ dbh' \in Maps
            /\ \E a \in Answers : answer' = [answer EXCEPT ![c] = a]
       ELSE /\ dbh' = Contents(call[c])
            /\ answer' = [answer EXCEPT ![c] = Reply(call[c])]
    /\ pc' = [pc EXCEPT ![c] = "unlock"]
    /\ raced' = raced \ {c}
    /\ UNCHANGED <<dep, mtx, call, left>>

(* Mutant of Unlock: a failed get leaves without unlocking.                 *)
UnlockOnSuccess(c) ==
    /\ pc[c] = "unlock"
    /\ mtx' = IF mtx = c /\ answer[c].err = "success" THEN NoClient ELSE mtx
    /\ pc' = [pc EXCEPT ![c] = "idle"]
    /\ call' = [call EXCEPT ![c] = NoCall]
    /\ answer' = [answer EXCEPT ![c] = NoAnswer]
    /\ UNCHANGED <<dep, dbh, raced, left>>

(* The guard's destructor, and the return to the caller.                    *)
Unlock(c) ==
    /\ pc[c] = "unlock"
    /\ mtx' = IF mtx = c THEN NoClient ELSE mtx
    /\ pc' = [pc EXCEPT ![c] = "idle"]
    /\ call' = [call EXCEPT ![c] = NoCall]
    /\ answer' = [answer EXCEPT ![c] = NoAnswer]
    /\ UNCHANGED <<dep, dbh, raced, left>>

Step(c) ==
    \/ Lock(c) \/ LockNull(c) \/ Relock(c) \/ EnterClear(c)
    \/ Access(c) \/ Unlock(c)

(* Every thread has made its calls.                                         *)
Done ==
    /\ \A c \in Clients : pc[c] = "idle" /\ left[c] = 0
    /\ UNCHANGED vars

Next == (\E c \in Clients : Invoke(c) \/ Step(c)) \/ Done

Spec == Init /\ [][Next]_vars

(* The scheduler runs every thread that can run.                            *)
Fairness == \A c \in Clients : WF_vars(Invoke(c)) /\ WF_vars(Step(c))

FairSpec == Spec /\ Fairness

-----------------------------------------------------------------------------
(* What serializes the calls of a deployment: the mutex, when it is a real  *)
(* one and no call goes around it (clear) or into it twice (a null          *)
(* pointer), or else the caller, by being alone.                            *)
LockingRequests == SetRequests \cup RemoveRequests \cup GetRequests

Locked(d) == d.mt /\ d.requests \subseteq LockingRequests

Serialized(d) == Locked(d) \/ \A c, e \in d.users : c = e

(* No two threads are inside the container while one of them writes: what   *)
(* the mutex of the _mt variants is for.                                    *)
NoDataRace ==
    \A c, d \in Clients :
        c # d /\ pc[c] = "inside" /\ pc[d] = "inside"
            => ~IsWrite(call[c]) /\ ~IsWrite(call[d])

(* Every call returns in the end: the mutex is never left locked, and no    *)
(* thread waits for itself or for a thread that waits for it.               *)
EveryCallReturns == <>[](\A c \in Clients : pc[c] = "idle" /\ left[c] = 0)

(* A call takes effect at one point between its invocation and its return:  *)
(* the point where it is in the container.                                  *)
Visible == [k \in Keys |-> IF k \in DOMAIN dbh THEN dbh[k] ELSE Absent]

Phase ==
    [c \in Clients |-> CASE pc[c] = "idle"   -> "idle"
                         [] pc[c] = "unlock" -> "answered"
                         [] OTHER            -> "called"]

KV == INSTANCE KeyValue
        WITH MayFail <- FALSE, Persistent <- FALSE,
             store <- Visible, phase <- Phase

(* The backend implements the promise of keyvalue_database.                 *)
Linearizable == KV!Spec
=============================================================================
