--------------------------- MODULE EnvStoreProofs ---------------------------
(***************************************************************************)
(* Theorems about EnvStore for every set of threads, keys, values and calls *)
(* that reads a key as the type it is written with: types, the discipline   *)
(* of the writer lock, and atomicity and durability through failures and    *)
(* crashes.                                                                 *)
(***************************************************************************)
EXTENDS EnvStore, Naturals, TLAPS

(* What a call has decided to answer while its transaction is still open.   *)
AnswerInv ==
    \A c \in Clients :
        IsWrite(call[c]) =>
            /\ pc[c] = "commit" => answer[c] = Ok
            /\ pc[c] = "abort"  => answer[c] = Fail("backend_error")

(* Threads are in calls only while the database is open.                    *)
OpenInv ==
    \A c \in Clients : pc[c] # "idle" => db = "open" /\ call[c] \in Requests

IInv ==
    /\ TypeOK
    /\ HandleInv
    /\ OneWriter
    /\ WriterSeesAll
    /\ AnswerInv
    /\ OpenInv

-----------------------------------------------------------------------------
(* Lemmas about requests.                                                   *)

(* Every request is of one of the five kinds, with the fields of its kind.  *)
LEMMA RequestKinds ==
    ASSUME NEW r \in Requests
    PROVE  \/ r.op = "set" /\ r.key \in Keys /\ r.val \in Values
           \/ r.op \in {"setnull", "remove"} /\ r.key \in Keys
           \/ r.op = "clear"
           \/ r.op = "get" /\ r.key \in Keys
  BY RequestsAssumption
  DEF AllRequests, SetRequests, NullRequests, RemoveRequests, ClearRequests,
      GetRequests

(* The promised effect of a call is a store, and its answer is an answer.   *)
LEMMA EffectType ==
    ASSUME NEW s \in Stores, NEW r \in Requests
    PROVE  /\ After(s, r) \in Stores
           /\ Answer(s, r) \in Answers
           /\ IsWrite(r) => Answer(s, r) = Ok
           /\ ~IsWrite(r) => After(s, r) = s
  <1>1. EmptyStore \in Stores
    BY DEF EmptyStore, Stores
  <1>2. After(s, r) \in Stores
    BY <1>1, RequestKinds DEF After, Stores
  <1>3. Answer(s, r) \in Answers
    BY RequestKinds DEF Answer, Lookup, Answers, Errors, Found, Fail, Ok, Stores
  <1>4. IsWrite(r) => Answer(s, r) = Ok
    BY DEF IsWrite, Answer
  <1>5. ~IsWrite(r) => After(s, r) = s
    BY DEF IsWrite, After
  <1> QED
    BY <1>2, <1>3, <1>4, <1>5

(* No call is a write that nobody makes.                                    *)
LEMMA NoCallIsWrite == IsWrite(NoCall)
  BY DEF IsWrite, NoCall

-----------------------------------------------------------------------------
(* The invariant.                                                           *)

LEMMA IInvInit == Init => IInv
  BY NoClientAssumption
     DEF Init, IInv, TypeOK, HandleInv, OneWriter, WriterSeesAll, AnswerInv,
         OpenInv, EmptyStore, Stores

LEMMA TypeStep == IInv /\ [Next]_vars => TypeOK'
  <1> SUFFICES ASSUME IInv, [Next]_vars
               PROVE  TypeOK'
    OBVIOUS
  <1> USE DEF IInv, TypeOK, Goto, Answered, EndTxn
  <1>0. /\ EmptyStore \in Stores
        /\ Fail("backend_error") \in Answers
    BY DEF EmptyStore, Stores, Fail, Answers, Errors
  <1>1. CASE Open \/ Close \/ Wipe \/ Crash
    BY <1>0, <1>1 DEF Open, Close, Wipe, Crash
  <1>2. ASSUME NEW c \in Clients, Invoke(c) \/ Begin(c) \/ BeginFails(c)
        PROVE  TypeOK'
    BY <1>0, <1>2 DEF Invoke, Begin, BeginFails
  <1>3. ASSUME NEW c \in Clients, Body(c)
        PROVE  TypeOK'
    <2>1. call[c] \in Requests
      BY <1>3 DEF Body, OpenInv
    <2>2. /\ After(view[c], call[c]) \in Stores
          /\ Answer(view[c], call[c]) \in Answers
      BY <2>1, EffectType
    <2> QED
      BY <1>3, <2>2 DEF Body
  <1>4. ASSUME NEW c \in Clients,
               \/ BodyFails(c) \/ Commit(c) \/ CommitFails(c) \/ Abort(c)
               \/ Return(c)
        PROVE  TypeOK'
    BY <1>0, <1>4 DEF BodyFails, Commit, CommitFails, Abort, Return
  <1>5. CASE UNCHANGED vars
    BY <1>5 DEF vars
  <1> QED
    BY <1>1, <1>2, <1>3, <1>4, <1>5 DEF Next, Step

(* A step of c moves only c, and ends or begins only its transaction.       *)
LEMMA IInvStep == IInv /\ [Next]_vars => IInv'
  <1> SUFFICES ASSUME IInv, [Next]_vars
               PROVE  IInv'
    OBVIOUS
  <1>0. TypeOK /\ TypeOK'
    BY TypeStep DEF IInv
  <1> USE <1>0 DEF IInv, TypeOK, Goto, Answered, EndTxn, HandleInv, OneWriter,
                   AnswerInv, OpenInv
  <1>1. CASE Open
    BY <1>1 DEF Open, WriterSeesAll
  <1>2. CASE Close
    BY <1>2 DEF Close, Idle, WriterSeesAll
  <1>3. CASE Wipe
    <2>1. writer = NoClient \/ writer \notin Clients
      BY <1>3 DEF Wipe
    <2> QED
      BY <1>3, <2>1, NoClientAssumption DEF Wipe, WriterSeesAll
  <1>4. CASE Crash
    BY <1>4, NoClientAssumption, NoCallIsWrite DEF Crash, WriterSeesAll
  <1>5. ASSUME NEW c \in Clients, Invoke(c)
        PROVE  IInv'
    BY <1>5 DEF Invoke, WriterSeesAll
  <1>6. ASSUME NEW c \in Clients, Begin(c)
        PROVE  IInv'
    BY <1>6, NoClientAssumption DEF Begin, WriterSeesAll
  <1>7. ASSUME NEW c \in Clients, BeginFails(c)
        PROVE  IInv'
    BY <1>7 DEF BeginFails, WriterSeesAll
  <1>8. ASSUME NEW c \in Clients, Body(c)
        PROVE  IInv'
    <2>1. call[c] \in Requests
      BY <1>8 DEF Body
    <2>2. IsWrite(call[c]) => /\ Answer(view[c], call[c]) = Ok
                             /\ pc'[c] = "commit"
      BY <1>8, <2>1, EffectType DEF Body, IsWrite
    <2>3. WriterSeesAll'
      BY <1>8 DEF Body, WriterSeesAll
    <2> QED
      BY <1>8, <2>2, <2>3 DEF Body
  <1>9. ASSUME NEW c \in Clients, BodyFails(c)
        PROVE  IInv'
    BY <1>9 DEF BodyFails, WriterSeesAll
  <1>10. ASSUME NEW c \in Clients, Commit(c)
         PROVE  IInv'
    <2>1. WriterSeesAll'
      <3>1. IsWrite(call[c]) => writer = c /\ writer' = NoClient
        BY <1>10 DEF Commit
      <3>2. ~IsWrite(call[c]) => committed' = committed /\ writer # c
        BY <1>10 DEF Commit
      <3> QED
        BY <1>10, <3>1, <3>2, NoClientAssumption DEF Commit, WriterSeesAll
    <2> QED
      BY <1>10, <2>1, NoClientAssumption DEF Commit
  <1>11. ASSUME NEW c \in Clients, CommitFails(c)
         PROVE  IInv'
    BY <1>11, NoClientAssumption DEF CommitFails, WriterSeesAll
  <1>12. ASSUME NEW c \in Clients, Abort(c)
         PROVE  IInv'
    BY <1>12, NoClientAssumption DEF Abort, WriterSeesAll
  <1>13. ASSUME NEW c \in Clients, Return(c)
         PROVE  IInv'
    BY <1>13 DEF Return, WriterSeesAll
  <1>14. CASE UNCHANGED vars
    BY <1>14 DEF vars, WriterSeesAll
  <1> QED
    BY <1>1, <1>2, <1>3, <1>4, <1>5, <1>6, <1>7, <1>8, <1>9, <1>10, <1>11,
       <1>12, <1>13, <1>14 DEF Next, Step

LEMMA Invariance == Spec => []IInv
  BY IInvInit, IInvStep, PTL DEF Spec

(* Type correctness.                                                        *)
THEOREM TypeCorrect == Spec => []TypeOK
  <1>1. IInv => TypeOK
    BY DEF IInv
  <1> QED
    BY <1>1, Invariance, PTL

(* The writer lock is held by the one live write transaction, if there is   *)
(* one, and by nobody else.                                                 *)
THEOREM WriterExclusion == Spec => []OneWriter
  <1>1. IInv => OneWriter
    BY DEF IInv
  <1> QED
    BY <1>1, Invariance, PTL

(* A write transaction works on the latest committed database.              *)
THEOREM WriterUpToDate == Spec => []WriterSeesAll
  <1>1. IInv => WriterSeesAll
    BY DEF IInv
  <1> QED
    BY <1>1, Invariance, PTL

-----------------------------------------------------------------------------
(* The refinement.                                                          *)

(* The operators of KvInterface that KeyValue sees are the same.            *)
LEMMA SameInterface ==
    /\ \A s, r : KV!After(s, r) = After(s, r) /\ KV!Answer(s, r) = Answer(s, r)
    /\ KV!EmptyStore = EmptyStore
    /\ KV!NoCall = NoCall /\ KV!NoAnswer = NoAnswer
    /\ \A e : KV!Fail(e) = Fail(e)
  BY DEF KV!After, After, KV!Answer, Answer, KV!Lookup, Lookup, KV!EmptyStore,
         EmptyStore, KV!NoCall, NoCall, KV!NoAnswer, NoAnswer, KV!Fail, Fail,
         KV!Found, Found, KV!Ok, Ok

LEMMA RefineInit == Init => KV!Init
  <1> SUFFICES ASSUME Init PROVE KV!Init
    OBVIOUS
  <1>1. Phase = [c \in Clients |-> "idle"]
    BY DEF Init, Phase, Reading
  <1>2. \A c \in Clients : Phase[c] # "answered"
    BY <1>1
  <1>3. Promised = [c \in Clients |-> NoAnswer]
    BY <1>2 DEF Promised
  <1> QED
    BY <1>1, <1>3, SameInterface DEF Init, KV!Init

LEMMA RefineStep ==
    ASSUME IInv, [Next]_vars
    PROVE  [KV!Next]_(KV!vars)
  <1> USE DEF IInv, TypeOK, Goto, Answered, EndTxn
  <1>1. CASE Open
    <2>1. Phase' = Phase /\ Promised' = Promised
      BY <1>1 DEF Open, Phase, Promised, Reading
    <2> QED
      BY <1>1, <2>1 DEF Open, KV!vars
  <1>2. CASE Close
    <2>1. Phase' = Phase /\ Promised' = Promised
      BY <1>2 DEF Close, Phase, Promised, Reading
    <2> QED
      BY <1>2, <2>1 DEF Close, KV!vars
  <1>3. CASE Wipe
    <2>1. Phase' = Phase /\ Promised' = Promised
      BY <1>3 DEF Wipe, Phase, Promised, Reading
    <2>2. \A c \in Clients : Phase[c] = "idle"
      BY <1>3 DEF Wipe, OpenInv, Phase, Reading
    <2> QED
      BY <1>3, <2>1, <2>2, SameInterface DEF Wipe, KV!vars, KV!Wipe, KV!Next
  <1>4. CASE Crash
    <2>1. Phase' = [c \in Clients |-> "idle"]
      BY <1>4 DEF Crash, Phase, Reading
    <2>2. \A c \in Clients : Phase'[c] # "answered"
      BY <2>1
    <2>3. Promised' = [c \in Clients |-> NoAnswer]
      BY <2>2 DEF Promised
    <2> QED
      BY <1>4, <2>1, <2>3, SameInterface DEF Crash, KV!Crash, KV!Next
  <1>5. ASSUME NEW c \in Clients, Invoke(c)
        PROVE  KV!Invoke(c)
    <2>1. Phase' = [Phase EXCEPT ![c] = "called"] /\ Phase[c] = "idle"
      BY <1>5, ZenonT(30) DEF Invoke, Phase, Reading
    <2>2. Promised' = Promised
      BY <1>5, <2>1 DEF Invoke, Promised, Phase, Reading
    <2> QED
      BY <1>5, <2>1, <2>2 DEF Invoke, KV!Invoke
  <1>6. ASSUME NEW c \in Clients, Begin(c)
        PROVE  KV!Do(c) \/ UNCHANGED KV!vars
    <2>0. call[c] \in Requests
      BY <1>6 DEF Begin, OpenInv
    <2>1. CASE IsWrite(call[c])
      <3>1. Phase' = Phase
        BY <1>6, <2>1 DEF Begin, Phase, Reading, IsWrite
      <3>2. Promised' = Promised
        BY <1>6, <2>1, <3>1 DEF Begin, Promised, Phase, Reading, IsWrite
      <3> QED
        BY <1>6, <3>1, <3>2 DEF Begin, KV!vars
    <2>2. CASE ~IsWrite(call[c])
      <3>1. Phase' = [Phase EXCEPT ![c] = "answered"] /\ Phase[c] = "called"
        BY <1>6, <2>2 DEF Begin, Phase, Reading, IsWrite
      <3>2. Promised' = [Promised EXCEPT ![c] = Answer(committed, call[c])]
        BY <1>6, <2>2, <3>1 DEF Begin, Promised, Phase, Reading, IsWrite
      <3>3. After(committed, call[c]) = committed
        BY <2>0, <2>2, EffectType
      <3> QED
        BY <1>6, <3>1, <3>2, <3>3, SameInterface DEF Begin, KV!Do
    <2> QED
      BY <2>1, <2>2
  <1>7. ASSUME NEW c \in Clients, BeginFails(c)
        PROVE  KV!DoFail(c)
    <2>1. Phase' = [Phase EXCEPT ![c] = "answered"] /\ Phase[c] = "called"
      BY <1>7 DEF BeginFails, Phase, Reading
    <2>2. Promised' = [Promised EXCEPT ![c] = Fail("backend_error")]
      BY <1>7, <2>1 DEF BeginFails, Promised, Phase, Reading
    <2> QED
      BY <1>7, <2>1, <2>2, SameInterface DEF BeginFails, KV!DoFail
  <1>8. ASSUME NEW c \in Clients, Body(c)
        PROVE  UNCHANGED KV!vars
    <2>1. Phase' = Phase
      BY <1>8 DEF Body, Phase, Reading
    <2>2. Promised' = Promised
      BY <1>8, <2>1 DEF Body, Promised, Phase, Reading
    <2> QED
      BY <1>8, <2>1, <2>2 DEF Body, KV!vars
  <1>9. ASSUME NEW c \in Clients, BodyFails(c)
        PROVE  KV!DoFail(c) \/ UNCHANGED KV!vars
    <2>1. Phase' = Phase
      BY <1>9 DEF BodyFails, Phase, Reading
    <2>2. CASE call[c].op = "get"
      <3>1. Phase[c] = "answered"
        BY <1>9, <2>2 DEF BodyFails, Phase, Reading
      <3>2. Promised' = [Promised EXCEPT ![c] = Fail("backend_error")]
        BY <1>9, <2>1, <3>1 DEF BodyFails, Promised
      <3>3. Phase' = [Phase EXCEPT ![c] = "answered"]
        BY <2>1, <3>1 DEF Phase
      <3> QED
        BY <1>9, <2>2, <3>1, <3>2, <3>3, SameInterface
        DEF BodyFails, KV!DoFail
    <2>3. CASE call[c].op # "get"
      <3>1. Promised' = Promised
        BY <1>9, <2>1, <2>3 DEF BodyFails, Promised, Phase, Reading
      <3> QED
        BY <1>9, <2>1, <3>1 DEF BodyFails, KV!vars
    <2> QED
      BY <2>2, <2>3
  <1>10. ASSUME NEW c \in Clients, Commit(c)
         PROVE  KV!Do(c) \/ UNCHANGED KV!vars
    <2>0. call[c] \in Requests
      BY <1>10 DEF Commit, OpenInv
    <2>1. CASE IsWrite(call[c])
      <3>1. /\ view[c] = After(committed, call[c])
            /\ answer[c] = Answer(committed, call[c])
        BY <1>10, <2>0, <2>1, EffectType
        DEF Commit, WriterSeesAll, OneWriter, HandleInv, AnswerInv
      <3>2. Phase' = [Phase EXCEPT ![c] = "answered"] /\ Phase[c] = "called"
        BY <1>10, <2>1 DEF Commit, Phase, Reading, IsWrite
      <3>3. Promised' = [Promised EXCEPT ![c] = answer[c]]
        BY <1>10, <2>1, <3>2 DEF Commit, Promised, Phase, Reading, IsWrite
      <3> QED
        BY <1>10, <2>1, <3>1, <3>2, <3>3, SameInterface DEF Commit, KV!Do
    <2>2. CASE ~IsWrite(call[c])
      <3>1. Phase' = Phase
        BY <1>10, <2>2 DEF Commit, Phase, Reading, IsWrite
      <3>2. Promised' = Promised
        BY <1>10, <2>2, <3>1 DEF Commit, Promised, Phase, Reading, IsWrite
      <3> QED
        BY <1>10, <2>2, <3>1, <3>2 DEF Commit, KV!vars
    <2> QED
      BY <2>1, <2>2
  <1>11. ASSUME NEW c \in Clients, CommitFails(c)
         PROVE  KV!DoFail(c) \/ UNCHANGED KV!vars
    <2>1. Phase' = Phase
      BY <1>11 DEF CommitFails, Phase, Reading
    <2>2. CASE call[c].op = "get"
      <3>1. Phase[c] = "answered"
        BY <1>11, <2>2 DEF CommitFails, Phase, Reading
      <3>2. Promised' = [Promised EXCEPT ![c] = Fail("backend_error")]
        BY <1>11, <2>1, <3>1 DEF CommitFails, Promised
      <3>3. Phase' = [Phase EXCEPT ![c] = "answered"]
        BY <2>1, <3>1 DEF Phase
      <3> QED
        BY <1>11, <2>2, <3>1, <3>2, <3>3, SameInterface
        DEF CommitFails, KV!DoFail
    <2>3. CASE call[c].op # "get"
      <3>1. Promised' = Promised
        BY <1>11, <2>1, <2>3 DEF CommitFails, Promised, Phase, Reading
      <3> QED
        BY <1>11, <2>1, <3>1 DEF CommitFails, KV!vars
    <2> QED
      BY <2>2, <2>3
  <1>12. ASSUME NEW c \in Clients, Abort(c)
         PROVE  KV!DoFail(c) \/ UNCHANGED KV!vars
    <2>1. CASE IsWrite(call[c])
      <3>1. answer[c] = Fail("backend_error")
        BY <1>12, <2>1 DEF Abort, AnswerInv
      <3>2. Phase' = [Phase EXCEPT ![c] = "answered"] /\ Phase[c] = "called"
        BY <1>12, <2>1 DEF Abort, Phase, Reading, IsWrite
      <3>3. Promised' = [Promised EXCEPT ![c] = answer[c]]
        BY <1>12, <2>1, <3>2 DEF Abort, Promised, Phase, Reading, IsWrite
      <3> QED
        BY <1>12, <3>1, <3>2, <3>3, SameInterface DEF Abort, KV!DoFail
    <2>2. CASE ~IsWrite(call[c])
      <3>1. Phase' = Phase
        BY <1>12, <2>2 DEF Abort, Phase, Reading, IsWrite
      <3>2. Promised' = Promised
        BY <1>12, <2>2, <3>1 DEF Abort, Promised, Phase, Reading, IsWrite
      <3> QED
        BY <1>12, <3>1, <3>2 DEF Abort, KV!vars
    <2> QED
      BY <2>1, <2>2
  <1>13. ASSUME NEW c \in Clients, Return(c)
         PROVE  KV!Return(c)
    <2>1. Phase' = [Phase EXCEPT ![c] = "idle"] /\ Phase[c] = "answered"
      BY <1>13 DEF Return, Phase, Reading
    <2>2. Promised' = [Promised EXCEPT ![c] = NoAnswer]
      BY <1>13, <2>1 DEF Return, Promised, Phase, Reading
    <2> QED
      BY <1>13, <2>1, <2>2, SameInterface DEF Return, KV!Return
  <1>14. CASE UNCHANGED vars
    BY <1>14 DEF vars, KV!vars, Phase, Promised, Reading
  <1> QED
    BY <1>1, <1>2, <1>3, <1>4, <1>5, <1>6, <1>7, <1>8, <1>9, <1>10, <1>11,
       <1>12, <1>13, <1>14 DEF Next, Step, KV!Next

(* Both engines' backends implement keyvalue_database through failures and  *)
(* crashes, for any number of threads, keys and values.                     *)
THEOREM EnvStoreImplementsKeyValue == Spec => AtomicAndDurable
  <1>1. IInv /\ [Next]_vars => [KV!Next]_(KV!vars)
    BY RefineStep
  <1> QED
    BY <1>1, RefineInit, Invariance, PTL DEF Spec, KV!Spec, AtomicAndDurable

-----------------------------------------------------------------------------
(* The steps that a call with a live transaction has left before it ends.   *)
StepsLeft(c) ==
    IF pc[c] = "body" THEN 3 ELSE IF pc[c] = "commit" THEN 2
    ELSE IF pc[c] = "abort" THEN 1 ELSE 0

(* What of EveryTxnEnds is safety: a thread with a live transaction, and so *)
(* whoever has the writer lock, is on its way to the end of it, at a place  *)
(* where a step of it is possible whatever the other threads do.            *)
OnItsWay(c) == pc[c] \in {"body", "commit", "abort"}

LiveIsOnItsWay ==
    /\ \A c \in Clients : txn[c] = "live" => OnItsWay(c)
    /\ writer # NoClient => writer \in Clients /\ OnItsWay(writer)

(* Each step of the thread brings it nearer, errors of the engine included; *)
(* steps of other threads leave it where it is.                             *)
EndComesNearer ==
    [][\A c \in Clients : txn[c] = "live" =>
          \/ UNCHANGED <<txn[c], pc[c]>> /\ ~Step(c)
          \/ txn'[c] = "live" /\ StepsLeft(c)' < StepsLeft(c)
          \/ txn'[c] # "live"]_vars

(* No thread waits in a transaction, and nobody waits for the writer lock   *)
(* of a thread that is not in one: from any state the holder ends its       *)
(* transaction within three steps of its own.                               *)
THEOREM TransactionsComeToAnEnd ==
    Spec => []LiveIsOnItsWay /\ EndComesNearer
  <1>1. IInv => LiveIsOnItsWay
    <2> SUFFICES ASSUME IInv PROVE LiveIsOnItsWay
      OBVIOUS
    <2>1. ASSUME NEW c \in Clients, txn[c] = "live" PROVE OnItsWay(c)
      <3>1. pc[c] \in {"body", "commit", "abort"}
        BY <2>1 DEF IInv, TypeOK, HandleInv
      <3> QED
        BY <3>1 DEF OnItsWay
    <2>2. ASSUME writer # NoClient
          PROVE  writer \in Clients /\ txn[writer] = "live"
      BY <2>2 DEF IInv, TypeOK, OneWriter
    <2> QED
      BY <2>1, <2>2 DEF LiveIsOnItsWay
  <1>2. ASSUME IInv, [Next]_vars, NEW c \in Clients, txn[c] = "live"
        PROVE  \/ UNCHANGED <<txn[c], pc[c]>> /\ ~Step(c)
               \/ txn'[c] = "live" /\ StepsLeft(c)' < StepsLeft(c)
               \/ txn'[c] # "live"
    <2>0. /\ pc[c] \in {"body", "commit", "abort"}
          /\ txn \in [Clients -> {"none", "live", "ended"}]
          /\ pc \in [Clients -> {"idle", "begin", "body", "commit", "abort", "done"}]
      BY <1>2 DEF IInv, TypeOK, HandleInv
    <2> USE DEF Goto, EndTxn, StepsLeft
    <2>1. CASE Step(c)
      <3>1. CASE Body(c) \/ BodyFails(c)
        BY <2>0, <3>1, <1>2 DEF Body, BodyFails
      <3>2. CASE Commit(c) \/ CommitFails(c) \/ Abort(c)
        BY <2>0, <3>2 DEF Commit, CommitFails, Abort
      <3> QED
        BY <2>0, <2>1, <3>1, <3>2 DEF Step, Begin, BeginFails, Return
    <2>2. CASE ~Step(c)
      <3>1. ASSUME NEW d \in Clients, Invoke(d) \/ Step(d)
            PROVE  UNCHANGED <<txn[c], pc[c]>>
        <4>1. d # c
          BY <2>0, <2>2, <3>1 DEF Invoke
        <4> QED
          BY <2>0, <3>1, <4>1
          DEF Invoke, Step, Begin, BeginFails, Body, BodyFails, Commit,
              CommitFails, Abort, Return
      <3>2. CASE Crash
        BY <3>2 DEF Crash
      <3>3. CASE Open \/ Close \/ Wipe \/ UNCHANGED vars
        BY <2>2, <3>3 DEF Open, Close, Wipe, vars
      <3>4. CASE \E d \in Clients : Invoke(d) \/ Step(d)
        BY <2>2, <3>1, <3>4
      <3> QED
        BY <1>2, <3>2, <3>3, <3>4 DEF Next
    <2> QED
      BY <2>1, <2>2
  <1>3. IInv /\ [Next]_vars =>
          \A c \in Clients : txn[c] = "live" =>
              \/ UNCHANGED <<txn[c], pc[c]>> /\ ~Step(c)
              \/ txn'[c] = "live" /\ StepsLeft(c)' < StepsLeft(c)
              \/ txn'[c] # "live"
    BY <1>2
  <1> QED
    BY <1>1, <1>3, Invariance, PTL DEF Spec, EndComesNearer
=============================================================================
