--------------------------- MODULE InMemoryProofs ---------------------------
(***************************************************************************)
(* Theorems about InMemory for every set of threads, keys, values and       *)
(* calls: types, mutual exclusion, and that the backend implements          *)
(* KeyValue when its calls are serialized.                                  *)
(***************************************************************************)
EXTENDS InMemory, TLAPS

(* A thread in the container, or about to leave, owns the mutex.            *)
Owned == \A c \in Clients : pc[c] \in {"inside", "unlock"} => mtx = c

IInv ==
    /\ TypeOK
    /\ raced = {}
    /\ Serialized(dep)
    /\ Locked(dep) => Owned

-----------------------------------------------------------------------------
(* Lemmas about the container and the calls.                                *)

(* A map is a function on its own domain, which holds keys in use only.     *)
LEMMA MapsDef ==
    ASSUME NEW m
    PROVE  m \in Maps <=> DOMAIN m \subseteq Keys /\ m \in [DOMAIN m -> Values]
  BY DEF Maps

(* The operations of the container map maps to maps.                        *)
LEMMA MapsClosed ==
    ASSUME NEW m \in Maps, NEW k \in Keys, NEW v \in Values
    PROVE  Assign(m, k, v) \in Maps /\ Erase(m, k) \in Maps
  <1>1. DOMAIN m \subseteq Keys /\ m \in [DOMAIN m -> Values]
    BY MapsDef
  <1>2. /\ DOMAIN Assign(m, k, v) = DOMAIN m \cup {k}
        /\ Assign(m, k, v) \in [DOMAIN m \cup {k} -> Values]
    BY <1>1 DEF Assign
  <1>3. /\ DOMAIN Erase(m, k) = DOMAIN m \ {k}
        /\ Erase(m, k) \in [DOMAIN m \ {k} -> Values]
    BY <1>1 DEF Erase
  <1> QED
    BY <1>1, <1>2, <1>3, MapsDef

(* Erasing needs no value to exist.                                         *)
LEMMA EraseClosed ==
    ASSUME NEW m \in Maps, NEW k
    PROVE  Erase(m, k) \in Maps
  <1>1. DOMAIN m \subseteq Keys /\ m \in [DOMAIN m -> Values]
    BY MapsDef
  <1>2. /\ DOMAIN Erase(m, k) = DOMAIN m \ {k}
        /\ Erase(m, k) \in [DOMAIN m \ {k} -> Values]
    BY <1>1 DEF Erase
  <1> QED
    BY <1>1, <1>2, MapsDef

LEMMA EmptyMap == [x \in {} |-> Absent] \in Maps
  BY MapsDef

(* Every request is of one of the five kinds, with the fields of its kind.  *)
LEMMA RequestKinds ==
    ASSUME NEW r \in Requests
    PROVE  \/ r.op = "set" /\ r.key \in Keys /\ r.val \in Values
           \/ r.op \in {"setnull", "remove"} /\ r.key \in Keys
           \/ r.op = "clear"
           \/ r.op = "get" /\ r.key \in Keys
  BY RequestsAssumption
  DEF AllRequests, SetRequests, NullRequests, RemoveRequests, ClearRequests,
      GetRequests

(* The contents after a call are a map, and its reply is an answer.         *)
LEMMA EffectType ==
    ASSUME TypeOK, NEW r \in Requests
    PROVE  Contents(r) \in Maps /\ Reply(r) \in Answers
  <1>1. dbh \in Maps
    BY DEF TypeOK
  <1>2. Contents(r) \in Maps
    BY <1>1, RequestKinds, MapsClosed, EraseClosed, EmptyMap DEF Contents
  <1>3. r.op = "get" /\ r.key \in DOMAIN dbh => dbh[r.key] \in Values
    BY <1>1, MapsDef
  <1>4. Reply(r) \in Answers
    BY <1>3 DEF Reply, Answers, Errors, Found, Fail, Ok
  <1> QED
    BY <1>2, <1>4

-----------------------------------------------------------------------------
(* The parts of a deployment.                                               *)
LEMMA DeploymentParts ==
    ASSUME NEW d \in Deployments
    PROVE  d.mt \in BOOLEAN /\ d.users \subseteq Clients /\ d.requests \subseteq Requests
  BY DeploymentsAssumption

(* A thread that is in a call makes one of the calls of the interface.      *)
LEMMA CallType ==
    ASSUME TypeOK, NEW c \in Clients, pc[c] # "idle"
    PROVE  c \in dep.users /\ call[c] \in dep.requests /\ call[c] \in Requests
  BY DeploymentParts DEF TypeOK

(* Inside the container there is no conflict: two threads there would both  *)
(* own the mutex, or be the same thread.                                    *)
LEMMA NoConflict ==
    ASSUME IInv, NEW c \in dep.users, dep.mt => mtx = NoClient
    PROVE  Conflicts(c) = {}
  <1> SUFFICES ASSUME NEW d \in Clients, d # c, pc[d] = "inside"
               PROVE  FALSE
    BY DEF Conflicts
  <1>1. d \in dep.users
    BY DEF IInv, TypeOK
  <1>2. CASE Locked(dep)
    BY <1>2, NoClientAssumption DEF IInv, Owned, Locked
  <1>3. CASE ~Locked(dep)
    BY <1>1, <1>3 DEF IInv, Serialized
  <1> QED
    BY <1>2, <1>3

LEMMA TypeInit == Init => TypeOK
  <1> SUFFICES ASSUME Init PROVE TypeOK
    OBVIOUS
  <1>1. dbh \in Maps
    BY MapsDef DEF Init
  <1> QED
    BY <1>1, MaxCallsAssumption, DeploymentsAssumption DEF Init, TypeOK

(* The initial states satisfy the inductive invariant.                      *)
LEMMA IInvInit ==
    ASSUME \A d \in Deployments : Serialized(d)
    PROVE  Init => IInv
  BY TypeInit DEF Init, IInv, Owned

(* Every step preserves the types, whatever the calls are.                  *)
LEMMA TypeStep == TypeOK /\ [Next]_vars => TypeOK'
  <1> SUFFICES ASSUME TypeOK, [Next]_vars
               PROVE  TypeOK'
    OBVIOUS
  <1> USE DEF TypeOK
  <1>1. ASSUME NEW c \in Clients, Invoke(c)
        PROVE  TypeOK'
    BY <1>1, MaxCallsAssumption, DeploymentParts DEF Invoke
  <1>2. ASSUME NEW c \in Clients, Lock(c)
        PROVE  TypeOK'
    BY <1>2 DEF Lock, LockGuard, EnterContainer, Conflicts
  <1>3. ASSUME NEW c \in Clients, LockNull(c)
        PROVE  TypeOK'
    BY <1>3 DEF LockNull, LockGuard
  <1>4. ASSUME NEW c \in Clients, Relock(c)
        PROVE  TypeOK'
    BY <1>4 DEF Relock, LockGuard, EnterContainer, Conflicts
  <1>5. ASSUME NEW c \in Clients, EnterClear(c)
        PROVE  TypeOK'
    BY <1>5 DEF EnterClear, EnterContainer, Conflicts
  <1>6. ASSUME NEW c \in Clients, Access(c)
        PROVE  TypeOK'
    <2>1. Contents(call[c]) \in Maps /\ Reply(call[c]) \in Answers
      BY <1>6, EffectType, CallType DEF Access
    <2> QED
      BY <1>6, <2>1 DEF Access
  <1>7. ASSUME NEW c \in Clients, Unlock(c)
        PROVE  TypeOK'
    BY <1>7 DEF Unlock
  <1>8. CASE Done \/ UNCHANGED vars
    BY <1>8 DEF Done, vars
  <1> QED
    BY <1>1, <1>2, <1>3, <1>4, <1>5, <1>6, <1>7, <1>8 DEF Next, Step

(* Type correctness, for both kinds of variant and every set of calls.      *)
THEOREM TypeCorrect == Spec => []TypeOK
  BY TypeInit, TypeStep, PTL DEF Spec

(* Serialized calls preserve the inductive invariant.                       *)
LEMMA IInvStep == IInv /\ [Next]_vars => IInv'
  <1> SUFFICES ASSUME IInv, [Next]_vars
               PROVE  IInv'
    OBVIOUS
  <1>0. TypeOK /\ TypeOK'
    BY TypeStep DEF IInv
  <1>dep. dep' = dep
    BY DEF Next, Step, Invoke, Lock, LockNull, Relock, EnterClear, Access,
           Unlock, Done, vars
  <1> SUFFICES raced' = {} /\ (Locked(dep) => Owned')
    BY <1>0, <1>dep DEF IInv
  <1> USE <1>0 DEF IInv, TypeOK, Owned
  <1>1. ASSUME NEW c \in Clients, Invoke(c)
        PROVE  raced' = {} /\ (Locked(dep) => Owned')
    BY <1>1 DEF Invoke
  <1>2. ASSUME NEW c \in Clients, Lock(c)
        PROVE  raced' = {} /\ (Locked(dep) => Owned')
    <2>1. Conflicts(c) = {}
      BY <1>2, NoConflict DEF Lock, LockGuard
    <2> QED
      BY <1>2, <2>1, NoClientAssumption
      DEF Lock, LockGuard, EnterContainer, Locked
  <1>3. ASSUME NEW c \in Clients, LockNull(c)
        PROVE  raced' = {} /\ (Locked(dep) => Owned')
    BY <1>3, NoClientAssumption DEF LockNull, LockGuard, Locked
  <1>4. ASSUME NEW c \in Clients, Relock(c)
        PROVE  raced' = {} /\ (Locked(dep) => Owned')
    <2>1. Conflicts(c) = {}
      BY <1>4, NoConflict DEF Relock, LockGuard
    <2> QED
      BY <1>4, <2>1, NoClientAssumption
      DEF Relock, LockGuard, EnterContainer, Locked
  <1>5. ASSUME NEW c \in Clients, EnterClear(c)
        PROVE  raced' = {} /\ (Locked(dep) => Owned')
    <2>1. ~Locked(dep)
      BY <1>5 DEF EnterClear, Locked, LockingRequests, SetRequests,
                  RemoveRequests, GetRequests
    <2>2. Conflicts(c) = {}
      BY <1>5, <2>1 DEF EnterClear, Serialized, Conflicts
    <2> QED
      BY <1>5, <2>1, <2>2 DEF EnterClear, EnterContainer
  <1>6. ASSUME NEW c \in Clients, Access(c)
        PROVE  raced' = {} /\ (Locked(dep) => Owned')
    BY <1>6 DEF Access
  <1>7. ASSUME NEW c \in Clients, Unlock(c)
        PROVE  raced' = {} /\ (Locked(dep) => Owned')
    BY <1>7 DEF Unlock
  <1>8. CASE Done \/ UNCHANGED vars
    BY <1>8 DEF Done, vars
  <1> QED
    BY <1>1, <1>2, <1>3, <1>4, <1>5, <1>6, <1>7, <1>8 DEF Next, Step

(* A mutex that no call goes around keeps writers alone in the container.   *)
THEOREM MutualExclusion ==
    ASSUME \A d \in Deployments : Serialized(d)
    PROVE  Spec => []NoDataRace
  <1>1. IInv => NoDataRace
    BY DEF IInv, TypeOK, NoDataRace, Owned, Serialized
  <1> QED
    BY <1>1, IInvInit, IInvStep, PTL DEF Spec
-----------------------------------------------------------------------------
(* Lemmas about what the clients see of the container (Visible).            *)

(* A map's image among the stores of the promise.                           *)
Seen(m) == [k \in Keys |-> IF k \in DOMAIN m THEN m[k] ELSE Absent]

LEMMA SeenAssign ==
    ASSUME NEW m \in Maps, NEW k \in Keys, NEW v \in Values
    PROVE  Seen(Assign(m, k, v)) = [Seen(m) EXCEPT ![k] = v]
  BY DEF Seen, Assign

LEMMA SeenErase ==
    ASSUME NEW m \in Maps, NEW k \in Keys
    PROVE  Seen(Erase(m, k)) = [Seen(m) EXCEPT ![k] = Absent]
  BY DEF Seen, Erase

LEMMA SeenEmpty == Seen([x \in {} |-> Absent]) = EmptyStore
  BY DEF Seen, EmptyStore

(* The effect and the reply of a call on the container are those that the   *)
(* promise gives it on what the clients see.                                *)
LEMMA EffectSeen ==
    ASSUME TypeOK, NEW r \in Requests
    PROVE  /\ Seen(Contents(r)) = After(Visible, r)
           /\ Reply(r) = Answer(Visible, r)
  <1>0. dbh \in Maps /\ Visible = Seen(dbh)
    BY DEF TypeOK, Visible, Seen
  <1>1. CASE r.op = "set"
    BY <1>0, <1>1, RequestKinds, SeenAssign
    DEF Contents, After, Reply, Answer
  <1>2. CASE r.op \in {"setnull", "remove"}
    BY <1>0, <1>2, RequestKinds, SeenErase
    DEF Contents, After, Reply, Answer
  <1>3. CASE r.op = "clear"
    BY <1>0, <1>3, SeenEmpty DEF Contents, After, Reply, Answer
  <1>4. CASE r.op = "get"
    <2>1. r.key \in Keys
      BY <1>4, RequestKinds
    <2>2. Contents(r) = dbh /\ After(Visible, r) = Visible
      BY <1>4 DEF Contents, After
    <2>3. r.key \in DOMAIN dbh => dbh[r.key] \in Values
      BY <1>0, MapsDef
    <2>4. Reply(r) = Answer(Visible, r)
      BY <1>4, <2>1, <2>3, AbsentAssumption
      DEF Reply, Answer, Lookup, Visible
    <2> QED
      BY <1>0, <2>2, <2>4
  <1> QED
    BY <1>1, <1>2, <1>3, <1>4, RequestKinds

-----------------------------------------------------------------------------
(* The refinement.                                                          *)

LEMMA RefineInit == Init => KV!Init
  <1> SUFFICES ASSUME Init PROVE KV!Init
    OBVIOUS
  <1>1. Visible = EmptyStore
    BY DEF Init, Visible, EmptyStore
  <1>2. Phase = [c \in Clients |-> "idle"]
    BY DEF Init, Phase
  <1> QED
    BY <1>1, <1>2 DEF Init, KV!Init, KV!EmptyStore, EmptyStore, KV!NoCall,
                      NoCall, KV!NoAnswer, NoAnswer, KV!Fail, Fail

(* While calls are serialized, a call that takes a lock or waits for one is *)
(* invisible; entering, the access and the return are Invoke, Do, Return.   *)
LEMMA RefineStep ==
    ASSUME IInv, [Next]_vars
    PROVE  [KV!Next]_(KV!vars)
  <1> USE DEF IInv, TypeOK
  <1>1. ASSUME NEW c \in Clients, Invoke(c)
        PROVE  KV!Invoke(c)
    <2>1. Phase' = [Phase EXCEPT ![c] = "called"] /\ Phase[c] = "idle"
      BY <1>1 DEF Invoke, Phase
    <2>2. Visible' = Visible
      BY <1>1 DEF Invoke, Visible
    <2> QED
      BY <1>1, <2>1, <2>2, DeploymentParts DEF Invoke, KV!Invoke
  <1>2. ASSUME NEW c \in Clients,
               Lock(c) \/ LockNull(c) \/ Relock(c) \/ EnterClear(c)
        PROVE  UNCHANGED KV!vars
    <2>1. UNCHANGED <<dbh, call, answer>>
      BY <1>2 DEF Lock, LockNull, Relock, EnterClear
    <2>2. Phase' = Phase
      BY <1>2 DEF Lock, LockNull, Relock, EnterClear, EnterContainer, Phase
    <2> QED
      BY <2>1, <2>2 DEF KV!vars, Visible
  <1>3. ASSUME NEW c \in Clients, Access(c)
        PROVE  KV!Do(c)
    <2>1. /\ dbh' = Contents(call[c])
          /\ answer' = [answer EXCEPT ![c] = Reply(call[c])]
      BY <1>3 DEF Access
    <2>2. /\ Visible' = After(Visible, call[c])
          /\ Reply(call[c]) = Answer(Visible, call[c])
      BY <1>3, <2>1, EffectSeen, CallType DEF Access, Visible, Seen
    <2>3. Phase' = [Phase EXCEPT ![c] = "answered"] /\ Phase[c] = "called"
      BY <1>3 DEF Access, Phase
    <2> QED
      BY <1>3, <2>1, <2>2, <2>3
      DEF Access, KV!Do, KV!After, After, KV!Answer, Answer, KV!Lookup,
          Lookup, KV!EmptyStore, EmptyStore, KV!Fail, Fail, KV!Found, Found,
          KV!Ok, Ok
  <1>4. ASSUME NEW c \in Clients, Unlock(c)
        PROVE  KV!Return(c)
    <2>1. Phase' = [Phase EXCEPT ![c] = "idle"] /\ Phase[c] = "answered"
      BY <1>4 DEF Unlock, Phase
    <2>2. Visible' = Visible
      BY <1>4 DEF Unlock, Visible
    <2> QED
      BY <1>4, <2>1, <2>2
      DEF Unlock, KV!Return, KV!NoCall, NoCall, KV!NoAnswer, NoAnswer
  <1>5. CASE Done \/ UNCHANGED vars
    <2>1. UNCHANGED vars
      BY <1>5 DEF Done
    <2> QED
      BY <2>1 DEF vars, KV!vars, Visible, Phase
  <1> QED
    BY <1>1, <1>2, <1>3, <1>4, <1>5 DEF Next, Step, KV!Next

(* The in-memory backend implements the promise of keyvalue_database for    *)
(* any number of threads that only set values, remove and get, when it is   *)
(* one of the _mt variants, and for a single thread otherwise.              *)
THEOREM InMemoryImplementsKeyValue ==
    ASSUME \A d \in Deployments : Serialized(d)
    PROVE  Spec => Linearizable
  <1>1. IInv /\ [Next]_vars => [KV!Next]_(KV!vars)
    BY RefineStep
  <1> QED
    BY <1>1, RefineInit, IInvInit, IInvStep, PTL DEF Spec, KV!Spec, Linearizable

-----------------------------------------------------------------------------
(* Waiting.  A call waits where it constructs a lock_guard on a mutex that  *)
(* is owned, and nowhere else.                                              *)
CanMove(c) ==
    \/ pc[c] \in {"inside", "unlock"}
    \/ /\ pc[c] \in {"enter", "relock"}
       /\ ~dep.mt \/ mtx = NoClient \/ call[c].op = "clear"

(* A call can go on, or waits for another thread, one that can: nobody      *)
(* waits for itself or for a thread that waits.                             *)
NobodyStuck ==
    \A c \in Clients : pc[c] # "idle" =>
        CanMove(c) \/ \E d \in Clients \ {c} : mtx = d /\ CanMove(d)

(* A thread that set a null pointer and has come to the second lock of the  *)
(* mutex that it owns.                                                      *)
SelfLocked(c) == dep.mt /\ pc[c] = "relock" /\ mtx = c

(* Who owns the mutex: a thread between the construction of its guard and   *)
(* the destruction.                                                         *)
OwnerInv ==
    /\ ~dep.mt => mtx = NoClient
    /\ mtx # NoClient => pc[mtx] \in {"relock", "inside", "unlock"}
    /\ \A c \in Clients : pc[c] = "relock" =>
          /\ call[c].op = "setnull"
          /\ dep.mt => mtx = c

LEMMA OwnerStep == TypeOK /\ OwnerInv /\ [Next]_vars => OwnerInv'
  <1> SUFFICES ASSUME TypeOK, OwnerInv, [Next]_vars
               PROVE  OwnerInv'
    OBVIOUS
  <1> USE NoClientAssumption DEF TypeOK, OwnerInv
  <1>1. ASSUME NEW c \in Clients, Invoke(c)
        PROVE  OwnerInv'
    BY <1>1 DEF Invoke
  <1>2. ASSUME NEW c \in Clients, Lock(c)
        PROVE  OwnerInv'
    BY <1>2 DEF Lock, LockGuard, EnterContainer
  <1>3. ASSUME NEW c \in Clients, LockNull(c)
        PROVE  OwnerInv'
    BY <1>3 DEF LockNull, LockGuard
  <1>4. ASSUME NEW c \in Clients, Relock(c)
        PROVE  OwnerInv'
    BY <1>4 DEF Relock, LockGuard, EnterContainer
  <1>5. ASSUME NEW c \in Clients, EnterClear(c)
        PROVE  OwnerInv'
    BY <1>5 DEF EnterClear, EnterContainer
  <1>6. ASSUME NEW c \in Clients, Access(c)
        PROVE  OwnerInv'
    BY <1>6 DEF Access
  <1>7. ASSUME NEW c \in Clients, Unlock(c)
        PROVE  OwnerInv'
    BY <1>7 DEF Unlock
  <1>8. CASE Done \/ UNCHANGED vars
    BY <1>8 DEF Done, vars
  <1> QED
    BY <1>1, <1>2, <1>3, <1>4, <1>5, <1>6, <1>7, <1>8 DEF Next, Step

LEMMA OwnerInvariant == Spec => [](TypeOK /\ OwnerInv)
  <1>1. Init => TypeOK /\ OwnerInv
    BY TypeInit DEF Init, OwnerInv
  <1> QED
    BY <1>1, TypeStep, OwnerStep, PTL DEF Spec

(* Where null pointers are not set on an _mt database, no call is ever      *)
(* stuck, with any number of threads, clears beside other calls included:   *)
(* what is left to "every call returns" is the fairness of the scheduler.   *)
THEOREM NoCallIsStuck ==
    ASSUME \A d \in Deployments : d.mt => d.requests \cap NullRequests = {}
    PROVE  Spec => []NobodyStuck
  <1>1. TypeOK /\ OwnerInv => NobodyStuck
    <2> SUFFICES ASSUME TypeOK, OwnerInv, NEW c \in Clients, pc[c] # "idle",
                        ~CanMove(c)
                 PROVE  \E d \in Clients \ {c} : mtx = d /\ CanMove(d)
      BY DEF NobodyStuck
    <2>1. pc[c] \in {"enter", "relock"} /\ dep.mt /\ mtx # NoClient
      BY DEF CanMove, TypeOK
    <2>2. \A d \in Clients : pc[d] # "relock"
      <3> SUFFICES ASSUME NEW d \in Clients, pc[d] = "relock" PROVE FALSE
        OBVIOUS
      <3>1. call[d] \in Requests /\ call[d] \in dep.requests /\ call[d].op = "setnull"
        BY CallType DEF OwnerInv
      <3>2. call[d] \in NullRequests
        BY <3>1, RequestsAssumption
           DEF AllRequests, SetRequests, RemoveRequests, ClearRequests,
               GetRequests
      <3> QED
        BY <2>1, <3>1, <3>2 DEF TypeOK
    <2>3. mtx \in Clients /\ pc[mtx] \in {"inside", "unlock"}
      BY <2>1, <2>2 DEF TypeOK, OwnerInv
    <2> QED
      BY <2>1, <2>2, <2>3 DEF CanMove
  <1> QED
    BY <1>1, OwnerInvariant, PTL

(* A thread of an _mt database that sets a null pointer owns the mutex when *)
(* it comes to lock it again, and stays there, with the mutex, for ever.    *)
THEOREM NullPointerStaysLocked ==
    Spec => /\ [](\A c \in Clients : dep.mt /\ pc[c] = "relock" => SelfLocked(c))
            /\ [][\A c \in Clients : SelfLocked(c) => SelfLocked(c)']_vars
  <1>1. OwnerInv => \A c \in Clients : dep.mt /\ pc[c] = "relock" => SelfLocked(c)
    BY DEF OwnerInv, SelfLocked
  <1>2. TypeOK /\ OwnerInv /\ [Next]_vars =>
            [\A c \in Clients : SelfLocked(c) => SelfLocked(c)']_vars
    <2> SUFFICES ASSUME TypeOK, OwnerInv, Next, NEW c \in Clients, SelfLocked(c)
                 PROVE  SelfLocked(c)'
      BY DEF vars
    <2> USE NoClientAssumption DEF TypeOK, OwnerInv, SelfLocked
    <2>1. ASSUME NEW d \in Clients, Invoke(d) \/ Access(d) \/ Unlock(d)
          PROVE  SelfLocked(c)'
      BY <2>1 DEF Invoke, Access, Unlock
    <2>2. ASSUME NEW d \in Clients, Lock(d) \/ LockNull(d) \/ Relock(d) \/ EnterClear(d)
          PROVE  SelfLocked(c)'
      BY <2>2 DEF Lock, LockNull, Relock, EnterClear, LockGuard, EnterContainer
    <2>3. CASE Done
      BY <2>3 DEF Done, vars
    <2> QED
      BY <2>1, <2>2, <2>3 DEF Next, Step
  <1> QED
    BY <1>1, <1>2, OwnerInvariant, PTL DEF Spec
=============================================================================
