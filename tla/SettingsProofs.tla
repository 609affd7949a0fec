--------------------------- MODULE SettingsProofs ---------------------------
(***************************************************************************)
(* Theorems about Settings for every set of threads, keys, values and       *)
(* compatible uses: types, and that every call, take included, is atomic.   *)
(***************************************************************************)
EXTENDS Settings, TLAPS

(* While a take is under way its key holds the default or nothing: that is  *)
(* what TakeGetOr needs to answer what TakeSet decided, and it rests on the *)
(* use being compatible.                                                    *)
IInv == TypeOK /\ Compatible(use) /\ TakeInv

-----------------------------------------------------------------------------
(* Lemmas about requests and lookups.                                       *)

(* Every request has a key, and all but remove a value.                     *)
LEMMA RequestParts ==
    ASSUME NEW r \in SettingsRequests
    PROVE  /\ r.op \in {"set", "get", "take", "remove"}
           /\ r.key \in Keys
           /\ r.op # "remove" => r.val \in Values
  BY SettingsRequestsAssumption DEF AllSettingsRequests

(* The call of a thread that is in one.                                     *)
LEMMA CallParts ==
    ASSUME TypeOK, NEW c \in Clients, pc[c] # "idle"
    PROVE  /\ call[c] \in use[c] /\ call[c] \in SettingsRequests
           /\ call[c].op \in {"set", "get", "take", "remove"}
           /\ call[c].key \in Keys
           /\ call[c].op # "remove" => call[c].val \in Values
  <1>1. call[c] \in use[c] /\ call[c] \in SettingsRequests
    BY UsesAssumption DEF TypeOK
  <1> QED
    BY <1>1, RequestParts

(* A read answers a value or one of the errors, and get_or no absence.      *)
LEMMA LookupType ==
    ASSUME store \in Stores, NEW k \in Keys, NEW v \in Values
    PROVE  /\ Lookup(store, k, v.type) \in Answers
           /\ GetOr(k, v) \in Answers
           /\ store[k] = Absent => /\ Lookup(store, k, v.type).err = "key_not_found"
                                   /\ GetOr(k, v) = Found(v)
           /\ store[k] = v => GetOr(k, v) = Found(v)
           /\ store[k] # Absent => /\ GetOr(k, v) = Lookup(store, k, v.type)
                                   /\ Lookup(store, k, v.type).err # "key_not_found"
  BY AbsentAssumption
  DEF Stores, Lookup, GetOr, Answers, Errors, Found, Fail

-----------------------------------------------------------------------------
(* Type correctness and the invariant.                                      *)

LEMMA TypeStep == TypeOK /\ [Next]_vars => TypeOK'
  <1> SUFFICES ASSUME TypeOK, [Next]_vars
               PROVE  TypeOK'
    OBVIOUS
  <1> USE DEF TypeOK, Stores
  <1>0. Ok \in Answers /\ \A e \in Errors : Fail(e) \in Answers
    BY DEF Ok, Fail, Answers, Errors
  <1>1. ASSUME NEW c \in Clients, Invoke(c)
        PROVE  TypeOK'
    BY <1>1, UsesAssumption DEF Invoke
  <1>2. ASSUME NEW c \in Clients, Set(c) \/ Remove(c)
        PROVE  TypeOK'
    BY <1>0, <1>2, CallParts DEF Set, Remove, AnswerWith
  <1>3. ASSUME NEW c \in Clients, Get(c) \/ TakeGetOr(c)
        PROVE  TypeOK'
    <2>1. GetOr(call[c].key, call[c].val) \in Answers
      BY <1>3, CallParts, LookupType DEF Get, TakeGetOr
    <2> QED
      BY <1>3, <2>1 DEF Get, TakeGetOr, AnswerWith
  <1>4. ASSUME NEW c \in Clients, Take(c)
        PROVE  TypeOK'
    <2>1. Lookup(store, call[c].key, call[c].val.type) \in Answers
      BY <1>4, CallParts, LookupType DEF Take
    <2> QED
      BY <1>4, <2>1 DEF Take, AnswerWith
  <1>5. ASSUME NEW c \in Clients, TakeSet(c)
        PROVE  TypeOK'
    BY <1>5, CallParts DEF TakeSet
  <1>6. ASSUME NEW c \in Clients, DbFails(c) \/ Return(c)
        PROVE  TypeOK'
    BY <1>0, <1>6 DEF DbFails, Return, AnswerWith, Errors
  <1>7. CASE UNCHANGED vars
    BY <1>7 DEF vars
  <1> QED
    BY <1>1, <1>2, <1>3, <1>4, <1>5, <1>6, <1>7 DEF Next

LEMMA TypeInit == Init => TypeOK
  BY DEF Init, TypeOK, Stores, EmptyStore

(* Type correctness, for every use, compatible or not.                      *)
THEOREM TypeCorrect == Spec => []TypeOK
  BY TypeInit, TypeStep, PTL DEF Spec

LEMMA IInvInit ==
    ASSUME \A u \in Uses : Compatible(u)
    PROVE  Init => IInv
  BY TypeInit DEF Init, IInv, TakeInv

(* Another thread's set or take gives the key of a take under way the value *)
(* of its default.                                                          *)
LEMMA OthersAgree ==
    ASSUME IInv, NEW c \in Clients, NEW d \in Clients, c # d,
           pc[c] \in {"take_set", "take_get_or"}, pc[d] # "idle",
           call[d].op \in {"set", "take"}, call[d].key = call[c].key
    PROVE  call[d].val = call[c].val
  <1>1. call[c] \in use[c] /\ call[d] \in use[d] /\ call[c].op = "take"
    BY DEF IInv, TypeOK
  <1> QED
    BY <1>1 DEF IInv, Compatible

LEMMA IInvStep == IInv /\ [Next]_vars => IInv'
  <1> SUFFICES ASSUME IInv, [Next]_vars
               PROVE  IInv'
    OBVIOUS
  <1>0. TypeOK /\ TypeOK' /\ TakeInv
    BY TypeStep DEF IInv
  <1>use. use' = use
    BY DEF Next, Invoke, Set, Remove, Get, Take, TakeSet, TakeGetOr, DbFails,
           Return, AnswerWith, vars
  <1> SUFFICES ASSUME NEW c \in Clients,
                      pc'[c] \in {"take_set", "take_get_or"}
               PROVE  store'[call'[c].key] \in {Absent, call'[c].val}
    BY <1>0, <1>use DEF IInv, TakeInv
  <1> USE <1>0 DEF TypeOK, Stores
  <1>1. ASSUME NEW d \in Clients,
               Invoke(d) \/ Get(d) \/ TakeGetOr(d) \/ DbFails(d) \/ Return(d)
        PROVE  store'[call'[c].key] \in {Absent, call'[c].val}
    <2>1. c # d /\ call'[c] = call[c] /\ pc'[c] = pc[c] /\ store' = store
      BY <1>1 DEF Invoke, Get, TakeGetOr, DbFails, Return, AnswerWith
    <2> QED
      BY <2>1 DEF TakeInv
  <1>2. ASSUME NEW d \in Clients, Set(d)
        PROVE  store'[call'[c].key] \in {Absent, call'[c].val}
    <2>1. c # d /\ call' = call /\ pc'[c] = pc[c]
      BY <1>2 DEF Set, AnswerWith
    <2>2. call[c].key \in Keys
      BY <2>1, CallParts
    <2>3. call[d].key = call[c].key => call[d].val = call[c].val
      BY <1>2, <2>1, OthersAgree DEF Set
    <2> QED
      BY <1>2, <2>1, <2>2, <2>3 DEF Set, TakeInv
  <1>3. ASSUME NEW d \in Clients, Remove(d)
        PROVE  store'[call'[c].key] \in {Absent, call'[c].val}
    <2>1. c # d /\ call' = call /\ pc'[c] = pc[c]
      BY <1>3 DEF Remove, AnswerWith
    <2>2. call[c].key \in Keys
      BY <2>1, CallParts
    <2> QED
      BY <1>3, <2>1, <2>2 DEF Remove, TakeInv
  <1>4. ASSUME NEW d \in Clients, Take(d)
        PROVE  store'[call'[c].key] \in {Absent, call'[c].val}
    <2>1. call' = call /\ store' = store
      BY <1>4 DEF Take
    <2>2. CASE c = d
      <3>1. Lookup(store, call[c].key, call[c].val.type).err = "key_not_found"
        BY <1>4, <2>2 DEF Take, AnswerWith
      <3>2. call[c].key \in Keys /\ call[c].val \in Values
        BY <1>4, <2>2, CallParts DEF Take
      <3>3. store[call[c].key] = Absent
        BY <3>1, <3>2, LookupType
      <3> QED
        BY <2>1, <3>3
    <2>3. CASE c # d
      <3>1. pc'[c] = pc[c]
        BY <1>4, <2>3 DEF Take, AnswerWith
      <3> QED
        BY <2>1, <3>1 DEF TakeInv
    <2> QED
      BY <2>2, <2>3
  <1>5. ASSUME NEW d \in Clients, TakeSet(d)
        PROVE  store'[call'[c].key] \in {Absent, call'[c].val}
    <2>1. call' = call /\ pc[c] \in {"take_set", "take_get_or"}
      BY <1>5 DEF TakeSet
    <2>2. call[c].key \in Keys /\ call[d].key \in Keys
      BY <1>5, <2>1, CallParts DEF TakeSet
    <2>3. call[d].key = call[c].key => call[d].val = call[c].val
      BY <1>5, <2>1, OthersAgree DEF TakeSet
    <2> QED
      BY <1>5, <2>1, <2>2, <2>3 DEF TakeSet, TakeInv
  <1>6. CASE UNCHANGED vars
    BY <1>6 DEF vars, TakeInv
  <1> QED
    BY <1>1, <1>2, <1>3, <1>4, <1>5, <1>6 DEF Next

(* In a compatible use a thread in the middle of a take finds its key as    *)
(* the take left it, or removed.                                            *)
THEOREM TakeUndisturbed ==
    ASSUME \A u \in Uses : Compatible(u)
    PROVE  Spec => []TakeInv
  <1>1. IInv => TakeInv
    BY DEF IInv
  <1> QED
    BY <1>1, IInvInit, IInvStep, PTL DEF Spec

-----------------------------------------------------------------------------
(* The refinement.                                                          *)

LEMMA RefineInit == Init => AS!Init
  <1> SUFFICES ASSUME Init PROVE AS!Init
    OBVIOUS
  <1>1. Phase = [c \in Clients |-> "idle"]
    BY DEF Init, Phase
  <1>2. Decided = [c \in Clients |-> NoAnswer]
    BY DEF Init, Decided
  <1> QED
    BY <1>1, <1>2 DEF Init, AS!Init, AS!EmptyStore, EmptyStore, AS!NoCall,
                      NoCall, AS!NoAnswer, NoAnswer

(* The two get_or are the same.                                             *)
LEMMA SameGetOr ==
    ASSUME store \in Stores, NEW k \in Keys, NEW v \in Values
    PROVE  AS!GetOr(store, k, v) = GetOr(k, v)
  BY DEF AS!GetOr, GetOr, AS!Lookup, Lookup, AS!Found, Found, AS!Fail, Fail

LEMMA RefineStep ==
    ASSUME IInv, [Next]_vars
    PROVE  [AS!Next]_(AS!vars)
  <1> USE DEF IInv, TypeOK, Stores
  <1>1. ASSUME NEW c \in Clients, Invoke(c)
        PROVE  AS!Invoke(c)
    <2>1. Phase' = [Phase EXCEPT ![c] = "called"] /\ Phase[c] = "idle"
      BY <1>1 DEF Invoke, Phase
    <2>2. Decided' = Decided
      BY <1>1 DEF Invoke, Decided
    <2> QED
      BY <1>1, <2>1, <2>2, UsesAssumption DEF Invoke, AS!Invoke
  <1>2. ASSUME NEW c \in Clients, NEW a, pc[c] = "called", AnswerWith(c, a),
               UNCHANGED call,
               a = AS!Told(store, call[c]),
               store' = AS!Settled(store, call[c])
        PROVE  AS!Do(c)
    <2>1. Phase' = [Phase EXCEPT ![c] = "answered"] /\ Phase[c] = "called"
      BY <1>2 DEF AnswerWith, Phase
    <2>2. Decided' = [Decided EXCEPT ![c] = a]
      BY <1>2 DEF AnswerWith, Decided
    <2> QED
      BY <1>2, <2>1, <2>2 DEF AS!Do
  <1>3. ASSUME NEW c \in Clients, Set(c) \/ Remove(c)
        PROVE  AS!Do(c)
    <2>1. AS!Told(store, call[c]) = Ok
      BY <1>3 DEF Set, Remove, AS!Told, AS!Ok, Ok, AS!Fail, Fail
    <2>2. store' = AS!Settled(store, call[c])
      BY <1>3 DEF Set, Remove, AS!Settled
    <2> QED
      BY <1>2, <1>3, <2>1, <2>2 DEF Set, Remove
  <1>4. ASSUME NEW c \in Clients, Get(c)
        PROVE  AS!Do(c)
    <2>1. AS!Told(store, call[c]) = GetOr(call[c].key, call[c].val)
      BY <1>4, CallParts, SameGetOr DEF Get, AS!Told
    <2>2. store' = AS!Settled(store, call[c])
      BY <1>4 DEF Get, AS!Settled
    <2> QED
      BY <1>2, <1>4, <2>1, <2>2 DEF Get
  <1>5. ASSUME NEW c \in Clients, Take(c)
        PROVE  AS!Do(c) \/ UNCHANGED AS!vars
    <2> DEFINE a == Lookup(store, call[c].key, call[c].val.type)
    <2>0. /\ call[c].op = "take" /\ call[c].key \in Keys
          /\ call[c].val \in Values
      BY <1>5, CallParts DEF Take
    <2>1. CASE a.err = "key_not_found"
      <3>1. Phase' = Phase /\ Decided' = Decided
        BY <1>5, <2>1 DEF Take, Phase, Decided
      <3> QED
        BY <1>5, <3>1 DEF Take, AS!vars
    <2>2. CASE a.err # "key_not_found"
      <3>1. store[call[c].key] # Absent
        BY <2>0, <2>2, LookupType
      <3>2. AS!Told(store, call[c]) = a
        BY <2>0, <3>1, LookupType, SameGetOr DEF AS!Told
      <3>3. store' = AS!Settled(store, call[c])
        BY <1>5, <2>0, <3>1 DEF Take, AS!Settled
      <3> QED
        BY <1>2, <1>5, <2>2, <3>2, <3>3 DEF Take
    <2> QED
      BY <2>1, <2>2
  <1>6. ASSUME NEW c \in Clients, TakeSet(c)
        PROVE  AS!Do(c)
    <2>0. /\ call[c].op = "take" /\ call[c].key \in Keys
          /\ call[c].val \in Values
          /\ store[call[c].key] \in {Absent, call[c].val}
      BY <1>6, CallParts DEF TakeSet, TakeInv
    <2>1. AS!Told(store, call[c]) = Found(call[c].val)
      BY <2>0, LookupType, SameGetOr DEF AS!Told
    <2>2. store' = AS!Settled(store, call[c])
      BY <1>6, <2>0 DEF TakeSet, AS!Settled
    <2>3. Phase' = [Phase EXCEPT ![c] = "answered"] /\ Phase[c] = "called"
      BY <1>6 DEF TakeSet, Phase
    <2>4. Decided' = [Decided EXCEPT ![c] = Found(call[c].val)]
      BY <1>6 DEF TakeSet, Decided
    <2> QED
      BY <1>6, <2>1, <2>2, <2>3, <2>4 DEF TakeSet, AS!Do
  <1>7. ASSUME NEW c \in Clients, TakeGetOr(c)
        PROVE  UNCHANGED AS!vars
    <2>0. /\ call[c].key \in Keys /\ call[c].val \in Values
          /\ store[call[c].key] \in {Absent, call[c].val}
      BY <1>7, CallParts DEF TakeGetOr, TakeInv
    <2>1. GetOr(call[c].key, call[c].val) = Found(call[c].val)
      BY <2>0, LookupType
    <2>2. Phase' = Phase /\ Decided' = Decided
      BY <1>7, <2>1 DEF TakeGetOr, AnswerWith, Phase, Decided
    <2> QED
      BY <1>7, <2>2 DEF TakeGetOr, AS!vars
  <1>8. ASSUME NEW c \in Clients, DbFails(c)
        PROVE  AS!DoFail(c)
    <2>1. Phase' = [Phase EXCEPT ![c] = "answered"]
      BY <1>8 DEF DbFails, AnswerWith, Phase
    <2>2. \/ Phase[c] = "called"
          \/ Phase[c] = "answered" /\ call[c].op = "take"
      BY <1>8 DEF DbFails, Phase
    <2>3. Decided' = [Decided EXCEPT ![c] = Fail("backend_error")]
      BY <1>8 DEF DbFails, AnswerWith, Decided
    <2> QED
      BY <1>8, <2>1, <2>2, <2>3 DEF DbFails, AS!DoFail, AS!Fail, Fail
  <1>9. ASSUME NEW c \in Clients, Return(c)
        PROVE  AS!Return(c)
    <2>1. Phase' = [Phase EXCEPT ![c] = "idle"] /\ Phase[c] = "answered"
      BY <1>9 DEF Return, Phase
    <2>2. Decided' = [Decided EXCEPT ![c] = NoAnswer]
      BY <1>9 DEF Return, Decided
    <2> QED
      BY <1>9, <2>1, <2>2
      DEF Return, AS!Return, AS!NoCall, NoCall, AS!NoAnswer, NoAnswer
  <1>10. CASE UNCHANGED vars
    BY <1>10 DEF vars, AS!vars, Phase, Decided
  <1> QED
    BY <1>1, <1>3, <1>4, <1>5, <1>6, <1>7, <1>8, <1>9, <1>10
    DEF Next, AS!Next

(* Settings shared in a compatible way make every call atomic: a take reads *)
(* or stores its default in one instant, although it is three calls of the  *)
(* database.                                                                *)
THEOREM TakeAtomic ==
    ASSUME \A u \in Uses : Compatible(u)
    PROVE  Spec => TakeIsAtomic
  <1>1. IInv /\ [Next]_vars => [AS!Next]_(AS!vars)
    BY RefineStep
  <1> QED
    BY <1>1, RefineInit, IInvInit, IInvStep, PTL DEF Spec, AS!Spec, TakeIsAtomic
=============================================================================
