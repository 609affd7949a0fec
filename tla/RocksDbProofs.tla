---------------------------- MODULE RocksDbProofs ----------------------------
(***************************************************************************)
(* Theorems about RocksDb for every set of keys, values and calls that      *)
(* reads a key as the type it is written with.  The invariant follows the   *)
(* column family and its handle through clear: unless an error was          *)
(* reported, a call finds both; and while there is a family the database    *)
(* holds what the answers say, but for the call that has just ended.        *)
(***************************************************************************)
EXTENDS RocksDb, TLAPS

(* Nothing that was absent comes back with a loss of power; a family that   *)
(* was dropped comes back empty.                                            *)
PowerInv ==
    /\ family = "gone" => recoverable = {EmptyStore} /\ object = "open"
    /\ family = "live" =>
           \A s \in recoverable, k \in Keys :
               contents[k] = Absent => s[k] = Absent

(* Where a call finds the family and its handle.                            *)
HandleInv ==
    /\ object = "none" => pc = "idle" /\ handle = "null" /\ ~warned
    /\ object = "failed" => /\ pc \in {"idle", "start", "done"}
                            /\ handle = "null"
                            /\ warned
    /\ object = "open" /\ pc \in {"idle", "start", "done"} =>
           \/ handle = "valid" /\ family = "live"
           \/ /\ warned
              /\ family = "gone"
              /\ handle = "dangling" => throws
    /\ pc = "destroy" => handle = "valid" /\ family = "gone"
    /\ pc = "create" => /\ handle = "dangling"
                        /\ family = "gone"
                        /\ contents = EmptyStore

CallInv ==
    /\ pc \in {"start", "destroy", "create", "done"} => call \in Requests
    /\ pc \in {"destroy", "create"} => call.op = "clear"
    /\ pc = "done" => answer \in Answers

(* The answers and the database.                                            *)
BeliefInv ==
    object # "failed" /\ family = "live" =>
        /\ pc \in {"idle", "start"} => contents = believed
        /\ pc = "done" => contents = IF answer.err = "success"
                                     THEN After(believed, call) ELSE believed

IInv ==
    /\ TypeOK
    /\ PowerInv
    /\ HandleInv
    /\ CallInv
    /\ BeliefInv

-----------------------------------------------------------------------------
(* Lemmas about calls.                                                      *)

(* The database after a call is a store, and only the keys that the call    *)
(* touches differ.                                                          *)
LEMMA AfterType ==
    ASSUME NEW s \in Stores, NEW r \in Requests
    PROVE  After(s, r) \in Stores
<1>1. \/ r.op = "set" /\ r.key \in Keys /\ r.val \in Values
      \/ r.op \in {"setnull", "remove"} /\ r.key \in Keys
      \/ r.op \in {"clear", "get"}
  BY RequestsAssumption
     DEF AllRequests, SetRequests, NullRequests, RemoveRequests, ClearRequests,
         GetRequests
<1> QED
  BY <1>1 DEF After, Stores, EmptyStore

LEMMA AfterTouches ==
    ASSUME NEW s \in Stores, call \in Requests, NEW k \in Keys, ~Touched(k)
    PROVE  After(s, call)[k] = s[k]
  BY DEF After, Touched, Stores

(* Nothing but a deletion makes a key absent.                               *)
LEMMA AfterSet ==
    ASSUME NEW s \in Stores, NEW r \in Requests, r.op = "set",
           NEW k \in Keys, After(s, r)[k] = Absent
    PROVE  s[k] = Absent
<1>1. r.key \in Keys /\ r.val \in Values
  BY RequestsAssumption
     DEF AllRequests, SetRequests, NullRequests, RemoveRequests, ClearRequests,
         GetRequests
<1> QED
  BY <1>1, AbsentAssumption DEF After, Stores

LEMMA AnswerTypes ==
    /\ Ok \in Answers
    /\ Fail("backend_error") \in Answers
    /\ Ok.err = "success"
    /\ Fail("backend_error").err # "success"
    /\ \A s \in Stores, r \in Requests : Answer(s, r) \in Answers
<1>1. ASSUME NEW s \in Stores, NEW r \in Requests, r.op = "get"
      PROVE  r.key \in Keys
  BY <1>1, RequestsAssumption
     DEF AllRequests, SetRequests, NullRequests, RemoveRequests, ClearRequests,
         GetRequests
<1> QED
  BY <1>1 DEF Ok, Fail, Answers, Errors, Answer, Lookup, Found, Stores

LEMMA EmptyIsStore == EmptyStore \in Stores /\ \A k \in Keys : EmptyStore[k] = Absent
  BY DEF EmptyStore, Stores

-----------------------------------------------------------------------------
(* The object and the process go: the program knows what is on the disk.    *)
LEMMA LeftStep ==
    ASSUME IInv, Left
    PROVE  IInv'
<1> USE DEF IInv, TypeOK, Left, Gone, OnDisk
<1>1. OnDisk \in Stores
  BY EmptyIsStore
<1>2. contents' = OnDisk /\ recoverable' = recoverable /\ family' = "live"
  OBVIOUS
<1>3. believed' = OnDisk
  <2> SUFFICES ASSUME NEW k \in Keys, ~warned, ~Touched(k)
               PROVE  believed[k] = OnDisk[k]
    BY <1>1 DEF Stores
  <2>1. CASE family = "gone"
    BY <2>1 DEF PowerInv, HandleInv, CallInv, Touched
  <2>2. CASE family = "live"
    <3>1. object # "failed" /\ pc \in {"idle", "start", "done"}
      BY <2>2 DEF HandleInv
    <3>2. contents[k] = believed[k]
      BY <2>2, <3>1, AfterTouches DEF BeliefInv, CallInv
    <3> QED
      BY <2>2, <3>2
  <2> QED
    BY <2>1, <2>2
<1>4. TypeOK'
  BY <1>1, <1>3
<1>5. PowerInv'
  <2>1. CASE family = "gone"
    BY <2>1, EmptyIsStore DEF PowerInv
  <2>2. CASE family = "live"
    BY <2>2 DEF PowerInv
  <2> QED
    BY <2>1, <2>2
<1> QED
  BY <1>2, <1>3, <1>4, <1>5 DEF HandleInv, CallInv, BeliefInv

-----------------------------------------------------------------------------
(* Nothing is stored, and no object is there, at the start.                 *)
LEMMA InitInv == Init => IInv
  BY EmptyIsStore
     DEF Init, IInv, TypeOK, PowerInv, HandleInv, CallInv, BeliefInv

(* Opening, closing, crashes, the loss of power and wipe.                   *)
LEMMA LifeStep ==
    ASSUME IInv, Open \/ OpenFails \/ Close \/ Crash \/ PowerLoss \/ Wipe
    PROVE  IInv'
<1> USE DEF IInv, TypeOK, PowerInv, HandleInv, CallInv, BeliefInv
<1>1. CASE Open
  BY <1>1 DEF Open, engine, client
<1>2. CASE OpenFails
  BY <1>2 DEF OpenFails, engine
<1>3. CASE Close \/ Crash
  BY <1>3, LeftStep DEF Close, Crash
<1>4. CASE PowerLoss
  BY <1>4, EmptyIsStore DEF PowerLoss, Gone
<1>5. CASE Wipe
  BY <1>5, EmptyIsStore DEF Wipe
<1> QED
  BY <1>1, <1>2, <1>3, <1>4, <1>5

(* The calls that are one operation of the engine, or none.                 *)
LEMMA CallStep ==
    ASSUME IInv,
           Invoke \/ Ignored \/ Terminate \/ Delete \/ Put \/ Get
              \/ EngineFails \/ UseDangling \/ Return
    PROVE  IInv'
<1> USE DEF IInv, TypeOK, PowerInv, HandleInv, CallInv, BeliefInv, Reply,
            Ready, Unusable, engine, client
<1>1. CASE Invoke
  BY <1>1 DEF Invoke
<1>2. CASE Ignored
  BY <1>2, AnswerTypes DEF Ignored
<1>3. CASE Terminate
  BY <1>3, LeftStep DEF Terminate
<1>4. CASE Delete
  <2>1. After(contents, call) \in Stores
    BY <1>4, AfterType DEF Delete
  <2> QED
    BY <1>4, <2>1, AnswerTypes DEF Delete
<1>5. CASE Put
  <2>1. /\ call \in Requests
        /\ call.op = "set"
        /\ contents' = After(contents, call)
        /\ recoverable' = recoverable \cup {contents'}
        /\ contents = believed
    BY <1>5 DEF Put
  <2>2. contents' \in Stores
    BY <2>1, AfterType
  <2>3. \A k \in Keys : contents'[k] = Absent => contents[k] = Absent
    BY <2>1, AfterSet
  <2> QED
    BY <1>5, <2>1, <2>2, <2>3, AnswerTypes DEF Put
<1>6. CASE Get
  <2>1. Answer(contents, call) \in Answers /\ After(believed, call) = believed
    BY <1>6, AnswerTypes DEF Get, After
  <2> QED
    BY <1>6, <2>1 DEF Get
<1>7. CASE EngineFails
  BY <1>7, AnswerTypes DEF EngineFails
<1>8. CASE UseDangling
  BY <1>8 DEF UseDangling
<1>9. CASE Return
  <2>1. After(believed, call) \in Stores
    BY <1>9, AfterType DEF Return
  <2> QED
    BY <1>9, <2>1 DEF Return
<1> QED
  BY <1>1, <1>2, <1>3, <1>4, <1>5, <1>6, <1>7, <1>8, <1>9

(* The three steps of clear.                                                *)
LEMMA ClearStep ==
    ASSUME IInv, Drop \/ Destroy \/ DestroyFails \/ Create \/ CreateFails
    PROVE  IInv'
<1> USE DEF IInv, TypeOK, PowerInv, HandleInv, CallInv, BeliefInv, Reply,
            Ready, engine, client
<1>1. CASE Drop
  BY <1>1, EmptyIsStore DEF Drop
<1>2. CASE Destroy
  BY <1>2, EmptyIsStore DEF Destroy
<1>3. CASE DestroyFails
  BY <1>3, AnswerTypes DEF DestroyFails
<1>4. CASE Create
  <2>1. After(believed, call) = EmptyStore
    BY <1>4 DEF Create, After
  <2> QED
    BY <1>4, <2>1, AnswerTypes, EmptyIsStore DEF Create
<1>5. CASE CreateFails
  BY <1>5, AnswerTypes DEF CreateFails
<1> QED
  BY <1>1, <1>2, <1>3, <1>4, <1>5

(* The invariant is inductive.                                              *)
LEMMA Invariance == Spec => []IInv
<1>1. IInv /\ [Next]_vars => IInv'
  <2> SUFFICES ASSUME IInv, [Next]_vars
               PROVE  IInv'
    OBVIOUS
  <2>1. CASE UNCHANGED vars
    BY <2>1 DEF vars, engine, client, IInv, TypeOK, PowerInv, HandleInv,
                CallInv, BeliefInv
  <2> QED
    BY <2>1, LifeStep, CallStep, ClearStep DEF Next
<1> QED
  BY InitInv, <1>1, PTL DEF Spec

-----------------------------------------------------------------------------
(* The state of the RocksDB backend keeps its types.                        *)
THEOREM TypeCorrect == Spec => []TypeOK
  BY Invariance, PTL DEF IInv

(* No write that was answered without an error is lost, but by a loss of    *)
(* power or after an error of clear or make_kv was reported.                *)
THEOREM NothingLostSilently == Spec => []NoSilentLoss
<1>1. IInv => NoSilentLoss
  BY DEF IInv, TypeOK, HandleInv, BeliefInv, PowerInv, NoSilentLoss
<1> QED
  BY Invariance, <1>1, PTL

(* A key that was removed or cleared does not come back with a loss of      *)
(* power, though remove alone is a synchronised write.                      *)
THEOREM RemovedForGood == Spec => []RemovedStaysRemoved
<1>1. IInv => RemovedStaysRemoved
  BY EmptyIsStore
     DEF IInv, TypeOK, BeliefInv, PowerInv, RemovedStaysRemoved
<1> QED
  BY Invariance, <1>1, PTL

(* _handles[1] is left destroyed only by a clear whose error was thrown.    *)
THEOREM HandleIsSound == Spec => []HandleSound
<1>1. IInv => HandleSound
  BY DEF IInv, TypeOK, HandleInv, HandleSound
<1> QED
  BY Invariance, <1>1, PTL

-----------------------------------------------------------------------------
(* The refinement: what the abstract database does at each step.            *)


(* The operators of KvInterface that DurableStore sees are the same.        *)
LEMMA SameInterface ==
    /\ \A s, r : Durable!After(s, r) = After(s, r)
    /\ \A s, r : Durable!Answer(s, r) = Answer(s, r)
    /\ \A e : Durable!Fail(e) = Fail(e)
    /\ Durable!Answers = Answers
    /\ Durable!EmptyStore = EmptyStore
    /\ Durable!NoCall = NoCall /\ Durable!NoAnswer = NoAnswer
  BY DEF Durable!After, After, Durable!Answer, Answer, Durable!Lookup, Lookup,
         Durable!EmptyStore, EmptyStore, Durable!NoCall, NoCall,
         Durable!NoAnswer, NoAnswer, Durable!Fail, Fail, Durable!Found, Found,
         Durable!Ok, Ok, Durable!Answers, Answers, Durable!Errors, Errors

LEMMA InitRefines == Init => Durable!Init
  BY SameInterface DEF Init, Durable!Init, OnDisk, Phase, Clearing

(* The object and the process go: a restart.                                *)
LEMMA LeftRefines ==
    ASSUME IInv, Left
    PROVE  Durable!Restart
  BY SameInterface
     DEF Left, Gone, OnDisk, Phase, Clearing, Durable!Restart, Durable!Gone

(* Opening, closing, crashes, the loss of power and wipe.                   *)
LEMMA LifeRefines ==
    ASSUME IInv, Open \/ OpenFails \/ Close \/ Crash \/ PowerLoss \/ Wipe
    PROVE  Durable!Next \/ UNCHANGED Durable!vars
<1> USE DEF OnDisk, Phase, Clearing
<1>1. CASE Open
  BY <1>1 DEF Open, engine, client, Durable!vars
<1>2. CASE OpenFails
  <2>1. Durable!OpenFails
    BY <1>2 DEF OpenFails, engine, IInv, HandleInv, Durable!OpenFails
  <2> QED
    BY <2>1 DEF Durable!Next
<1>3. CASE Close \/ Crash
  BY <1>3, LeftRefines DEF Close, Crash, Durable!Next
<1>4. CASE PowerLoss
  <2>1. Durable!PowerLoss
    BY <1>4, SameInterface DEF PowerLoss, Gone, Durable!PowerLoss, Durable!Gone
  <2> QED
    BY <2>1 DEF Durable!Next
<1>5. CASE Wipe
  <2>1. family = "live" /\ pc = "idle"
    BY <1>5 DEF Wipe, IInv, TypeOK, HandleInv, PowerInv
  <2>2. Durable!Wipe
    BY <1>5, <2>1, SameInterface DEF Wipe, Durable!Wipe
  <2> QED
    BY <2>2 DEF Durable!Next
<1> QED
  BY <1>1, <1>2, <1>3, <1>4, <1>5

(* A call that the engine does, or clear from its first step, takes effect; *)
(* one that it refuses fails; one that finds no handle does nothing, and    *)
(* then an error was reported before.                                       *)
LEMMA CallRefines ==
    ASSUME IInv,
           Invoke \/ Ignored \/ Terminate \/ Delete \/ Put \/ Get
              \/ EngineFails \/ UseDangling \/ Return
    PROVE  Durable!Next
<1> USE DEF OnDisk, Phase, Clearing, Ready, Unusable, Reply, engine, client
<1>1. CASE Invoke
  <2>1. Durable!Invoke
    BY <1>1, SameInterface DEF Invoke, Durable!Invoke
  <2> QED
    BY <2>1 DEF Durable!Next
<1>2. CASE Ignored
  <2>1. warned
    BY <1>2 DEF Ignored, IInv, TypeOK, HandleInv
  <2>2. Durable!DoNothing
    BY <1>2, <2>1, AnswerTypes, SameInterface
       DEF Ignored, Durable!DoNothing, Durable!Reply
  <2> QED
    BY <2>2 DEF Durable!Next
<1>3. CASE Terminate
  BY <1>3, LeftRefines DEF Terminate, Durable!Next
<1>4. CASE Delete
  <2>1. call.op # "set" /\ call.op # "get"
    BY <1>4 DEF Delete
  <2>2. Durable!Do
    BY <1>4, <2>1, SameInterface DEF Delete, Answer, Durable!Do, Durable!Reply
  <2> QED
    BY <2>2 DEF Durable!Next
<1>5. CASE Put
  <2>1. Durable!Do
    BY <1>5, SameInterface DEF Put, Answer, Durable!Do, Durable!Reply
  <2> QED
    BY <2>1 DEF Durable!Next
<1>6. CASE Get
  <2>1. CASE family = "live"
    <3>1. After(contents, call) = contents
      BY <1>6 DEF Get, After
    <3>2. Durable!Do
      BY <1>6, <2>1, <3>1, SameInterface DEF Get, Durable!Do, Durable!Reply
    <3> QED
      BY <3>2 DEF Durable!Next
  <2>2. CASE family = "gone"
    <3>1. warned
      BY <1>6, <2>2 DEF Get, IInv, TypeOK, HandleInv
    <3>2. Answer(contents, call) \in Answers
      BY <1>6, AnswerTypes DEF Get, IInv, TypeOK, CallInv
    <3>3. Durable!DoNothing
      BY <1>6, <3>1, <3>2, SameInterface
         DEF Get, Durable!DoNothing, Durable!Reply
    <3> QED
      BY <3>3 DEF Durable!Next
  <2> QED
    BY <2>1, <2>2 DEF IInv, TypeOK
<1>7. CASE EngineFails
  <2>1. Durable!DoFail
    BY <1>7, SameInterface DEF EngineFails, Durable!DoFail, Durable!Reply
  <2> QED
    BY <2>1 DEF Durable!Next
<1>8. CASE UseDangling
  <2>1. warned /\ family = "gone"
    BY <1>8 DEF UseDangling, IInv, TypeOK, HandleInv
  <2>2. Durable!DoNothing
    BY <1>8, <2>1, SameInterface
       DEF UseDangling, Durable!DoNothing, Durable!Reply
  <2> QED
    BY <2>2 DEF Durable!Next
<1>9. CASE Return
  <2>1. Durable!Return
    BY <1>9, SameInterface DEF Return, Durable!Return
  <2> QED
    BY <2>1 DEF Durable!Next
<1> QED
  BY <1>1, <1>2, <1>3, <1>4, <1>5, <1>6, <1>7, <1>8, <1>9

(* clear takes effect when it drops the family; its later steps change      *)
(* nothing, or report its failure.                                          *)
LEMMA ClearRefines ==
    ASSUME IInv, Drop \/ Destroy \/ DestroyFails \/ Create \/ CreateFails
    PROVE  Durable!Next \/ UNCHANGED Durable!vars
<1> USE DEF OnDisk, Phase, Clearing, Ready, Reply, engine, client
<1>1. CASE Drop
  <2>1. call.op = "clear" /\ After(contents, call) = EmptyStore
    BY <1>1 DEF Drop, After
  <2>2. Durable!Do
    BY <1>1, <2>1, SameInterface DEF Drop, Answer, Durable!Do, Durable!Reply
  <2> QED
    BY <2>2 DEF Durable!Next
<1>2. CASE Destroy
  BY <1>2 DEF Destroy, IInv, HandleInv, Durable!vars
<1>3. CASE DestroyFails
  <2>1. Durable!DoFail
    BY <1>3, SameInterface
       DEF DestroyFails, IInv, CallInv, Durable!DoFail, Durable!Reply
  <2> QED
    BY <2>1 DEF Durable!Next
<1>4. CASE Create
  BY <1>4 DEF Create, IInv, HandleInv, Durable!vars
<1>5. CASE CreateFails
  <2>1. Durable!DoFail
    BY <1>5, SameInterface
       DEF CreateFails, IInv, CallInv, Durable!DoFail, Durable!Reply
  <2> QED
    BY <2>1 DEF Durable!Next
<1> QED
  BY <1>1, <1>2, <1>3, <1>4, <1>5

(* The backend implements the database on a disk: every call is atomic and  *)
(* durable, clear and its failures included, and a call is answered without *)
(* being done only after an error of clear or make_kv was reported.         *)
THEOREM RocksDbImplementsDurableStore == Spec => AtomicUnlessDegraded
<1>1. IInv /\ [Next]_vars => [Durable!Next]_(Durable!vars)
  <2> SUFFICES ASSUME IInv, [Next]_vars
               PROVE  Durable!Next \/ UNCHANGED Durable!vars
    OBVIOUS
  <2>1. CASE UNCHANGED vars
    BY <2>1 DEF vars, engine, client, OnDisk, Phase, Clearing, Durable!vars
  <2> QED
    BY <2>1, LifeRefines, CallRefines, ClearRefines DEF Next
<1> QED
  BY InitRefines, <1>1, Invariance, PTL
     DEF Spec, Durable!Spec, AtomicUnlessDegraded
=============================================================================
