-------------------------- MODULE TransactionsProofs --------------------------
(***************************************************************************)
(* What transaction() and remove() answer is so, for any items, and which   *)
(* usages it is so for.  The invariant says what the answers rest on: what  *)
(* the connection sees outside a transaction is what is committed; what a   *)
(* body counts on is in its work; where nothing but the end of a call       *)
(* commits, committed stays what it was at the call, and a call that was    *)
(* made in a body has not begun; and remove() drops in a transaction that   *)
(* it ends, whoever has begun it.                                           *)
(***************************************************************************)
EXTENDS Transactions, TLAPS

(* Outside a transaction there is nothing that is not committed.            *)
NothingPending == tx \in {"none", "lost"} => work = committed

(* Which call the program is in, where it is.                               *)
CallMatches ==
    /\ pc = "idle" => op = "none" /\ made = {} /\ callers = <<>>
    /\ pc \in {"body", "commit"} => op = "transaction"
    /\ pc = "drop" => op = "remove"
    /\ pc \in {"rollback", "done"} => op \in {"transaction", "remove"}
    /\ callers # <<>> => usage.nests

InBody == pc \in {"body", "commit"}

(* A body that stops at its first error is in no aborted transaction, and   *)
(* what it was told it made is in its work; so it is, while the transaction *)
(* lasts, where a body goes on.                                             *)
BodyCounts ==
    Attentive /\ InBody =>
        /\ ~usage.ignores => tx \in {"none", "open"}
        /\ ~usage.ignores \/ tx = "open" => made \subseteq work

(* What the caller of remove() counts on is there, but for the tables.      *)
CallerCounts ==
    /\ callers # <<>> /\ op = "remove" /\ ~usage.ignores
    /\ pc = "drop" \/ Answers("remove", "success")
    => Caller.made \ made \subseteq work

(* The end of a call's transaction is the end of the transaction.           *)
SuccessEnds ==
    /\ Answers("transaction", "success") => tx = "none"
    /\ Answers("remove", "success") => tx \in {"none", "open"}

(* Where nothing but the end of a call commits, committed is what it was at *)
(* the call; on PostgreSQL the transaction never just ends; and a body that *)
(* stops at its first error is in its transaction.                          *)
OwnHolds ==
    Undivided /\ op = "transaction" /\ (InBody \/ pc = "rollback") =>
        /\ tx \in {"open", "aborted"} => committed = base
        /\ Psql => tx # "none"
        /\ ~usage.ignores /\ InBody => tx = "open"

(* There a call in a body has not begun, and leaves it as it was.           *)
InnerHolds ==
    Undivided /\ callers # <<>> =>
        /\ Len(callers) = 1
        /\ Caller.base = committed
        /\ pc \in {"rollback", "done"}
        /\ base = committed
        /\ pc = "done" /\ outcome = "success" => tx = "open"

(* remove() drops in its own transaction; an error leads to the rollback.   *)
RemoveHolds ==
    /\ pc = "drop" => /\ tx = "open"
                      /\ committed = base
                      /\ todo \subseteq made
                      /\ work \cap (made \ todo) = {}
    /\ pc = "rollback" /\ op = "remove" /\ tx # "lost" => committed = base

(* A transaction that nobody will end is known to the program.              *)
OpenIsKnown ==
    /\ pc = "idle" /\ tx \in {"open", "aborted"} => explicit \/ threw
    /\ pc = "done" /\ callers = <<>> /\ tx \in {"open", "aborted"}
            => explicit \/ threw \/ outcome = "threw"

AnswersHold == SuccessCommits /\ FailureUndoes /\ RemovesAllOrNone

IInv ==
    /\ TypeOK
    /\ NothingPending
    /\ CallMatches
    /\ BodyCounts
    /\ CallerCounts
    /\ SuccessEnds
    /\ OwnHolds
    /\ InnerHolds
    /\ RemoveHolds
    /\ OpenIsKnown
    /\ AnswersHold

-----------------------------------------------------------------------------
(* The stack of the callers, when a call is made and when it returns.       *)
LEMMA Pushed ==
    ASSUME NEW s \in Seq(Callers), NEW f \in Callers
    PROVE  LET t == Append(s, f) IN
           /\ t \in Seq(Callers)
           /\ Len(t) = Len(s) + 1
           /\ t # <<>>
           /\ t[Len(t)] = f
  OBVIOUS

LEMMA Popped ==
    ASSUME NEW s \in Seq(Callers), s # <<>>
    PROVE  /\ s[Len(s)] \in Callers
           /\ SubSeq(s, 1, Len(s) - 1) \in Seq(Callers)
           /\ Len(SubSeq(s, 1, Len(s) - 1)) = Len(s) - 1
           /\ Len(s) = 1 => SubSeq(s, 1, Len(s) - 1) = <<>>
<1>1. s[Len(s)] \in Callers /\ Len(s) \in Nat /\ Len(s) # 0
  OBVIOUS
<1>2. Len(s) = 1 => Len(SubSeq(s, 1, Len(s) - 1)) = 0
  OBVIOUS
<1>3. Len(s) = 1 => SubSeq(s, 1, Len(s) - 1) = <<>>
  OBVIOUS
<1>4. Len(s) > 1 => Len(SubSeq(s, 1, Len(s) - 1)) = Len(s) - 1
  OBVIOUS
<1>5. Len(s) > 1 => SubSeq(s, 1, Len(s) - 1) \in Seq(Callers)
  OBVIOUS
<1>6. <<>> \in Seq(Callers) /\ Len(<<>>) = 0
  OBVIOUS
<1>7. Len(s) = 1 \/ Len(s) > 1
  <2>1. \A n \in Nat : n # 0 => n = 1 \/ n > 1
    OBVIOUS
  <2> QED
    BY <1>1, <2>1, Zenon
<1>8. SubSeq(s, 1, Len(s) - 1) \in Seq(Callers)
  BY <1>3, <1>5, <1>6, <1>7, Zenon
<1>9. Len(SubSeq(s, 1, Len(s) - 1)) = Len(s) - 1
  <2>1. Len(s) = 1 => Len(s) - 1 = 0
    OBVIOUS
  <2> QED
    BY <1>2, <1>4, <1>7, <2>1, Zenon
<1> QED
  BY <1>1, <1>3, <1>8, <1>9, Zenon

USE DEF Sqlite, Psql, data, vars

(* Who has made a call, once it is made.                                    *)
LEMMA CallMade ==
    ASSUME TypeOK, CallMatches, NEW which, Call(which)
    PROVE  \/ pc = "idle" /\ callers = <<>> /\ callers' = <<>>
                /\ (usage.nests \/ ~explicit)
           \/ /\ pc = "body"
              /\ usage.nests
              /\ callers' \in Seq(Callers)
              /\ Len(callers') = Len(callers) + 1
              /\ Len(callers') <= MaxDepth
              /\ callers' # <<>>
              /\ Caller' = [base |-> base, made |-> made]
<1>1. CASE CallByProgram
  BY <1>1 DEF CallByProgram, CallMatches
<1>2. CASE CallByBody
  <2>1. [base |-> base, made |-> made] \in Callers
    BY DEF TypeOK, Callers
  <2>2. callers \in Seq(Callers) /\ Len(callers) \in Nat
    BY DEF TypeOK
  <2>3. callers' = Append(callers, [base |-> base, made |-> made])
    BY <1>2 DEF CallByBody
  <2>4. /\ callers' \in Seq(Callers)
        /\ Len(callers') = Len(callers) + 1
        /\ callers' # <<>>
        /\ callers'[Len(callers')] = [base |-> base, made |-> made]
    BY <2>1, <2>2, <2>3, Pushed
  <2> QED
    BY <1>2, <2>2, <2>4, UsagesAssumption DEF CallByBody, Caller
<1> QED
  BY <1>1, <1>2 DEF Call

(* The caller of a call that returns, and the callers that are left.        *)
LEMMA CallReturns ==
    ASSUME TypeOK, callers # <<>>
    PROVE  /\ Caller.base \in SUBSET Items
           /\ Caller.made \in SUBSET Items
           /\ SubSeq(callers, 1, Len(callers) - 1) \in Seq(Callers)
           /\ Len(SubSeq(callers, 1, Len(callers) - 1)) <= MaxDepth
           /\ Len(callers) = 1 => SubSeq(callers, 1, Len(callers) - 1) = <<>>
<1>1. callers \in Seq(Callers) /\ Len(callers) \in Nat /\ Len(callers) <= MaxDepth
  BY DEF TypeOK
<1>2. /\ Caller \in Callers
      /\ SubSeq(callers, 1, Len(callers) - 1) \in Seq(Callers)
      /\ Len(SubSeq(callers, 1, Len(callers) - 1)) = Len(callers) - 1
      /\ Len(callers) = 1 => SubSeq(callers, 1, Len(callers) - 1) = <<>>
  BY <1>1, Popped DEF Caller
<1>3. Caller.base \in SUBSET Items /\ Caller.made \in SUBSET Items
  BY <1>2 DEF Callers
<1> QED
  BY <1>1, <1>2, <1>3, UsagesAssumption

(* The connection starts with no transaction and nothing made.              *)
LEMMA InitInv == Init => IInv
<1> SUFFICES ASSUME Init PROVE IInv
  OBVIOUS
<1>1. callers \in Seq(Callers) /\ Len(callers) <= MaxDepth
  BY UsagesAssumption DEF Init
<1>2. TypeOK
  BY <1>1 DEF Init, TypeOK
<1>3. AnswersHold
  BY DEF Init, AnswersHold, SuccessCommits, FailureUndoes, RemovesAllOrNone,
         Answers
<1>4. /\ NothingPending
      /\ CallMatches
      /\ BodyCounts
      /\ CallerCounts
      /\ SuccessEnds
      /\ OwnHolds
      /\ InnerHolds
      /\ RemoveHolds
      /\ OpenIsKnown
  BY DEF Init, NothingPending, CallMatches, BodyCounts, InBody, CallerCounts,
         SuccessEnds, Answers, OwnHolds, InnerHolds, RemoveHolds, OpenIsKnown
<1> QED
  BY <1>2, <1>3, <1>4 DEF IInv

(* The parts of the invariant, opened together in the leaves below.         *)
Parts == NothingPending /\ CallMatches /\ BodyCounts /\ CallerCounts
             /\ SuccessEnds /\ OwnHolds /\ InnerHolds /\ RemoveHolds
             /\ OpenIsKnown /\ AnswersHold

(* Every step keeps the types.                                              *)
LEMMA TypeStep == IInv /\ [Next]_vars => TypeOK'
<1> SUFFICES ASSUME TypeOK, CallMatches, [Next]_vars PROVE TypeOK'
  BY DEF IInv
<1> DEFINE StackOK == callers' \in Seq(Callers) /\ Len(callers') <= MaxDepth
<1>a. ASSUME NEW which, Call(which) PROVE StackOK
  <2>1. callers' = <<>> => StackOK
    BY UsagesAssumption
  <2> QED
    BY <1>a, <2>1, CallMade
<1>b. callers # <<>> => /\ Caller.base \in SUBSET Items
                        /\ Caller.made \in SUBSET Items
  BY CallReturns
<1>c. callers # <<>> /\ callers' = SubSeq(callers, 1, Len(callers) - 1) => StackOK
  BY CallReturns
<1>d. callers' = callers => StackOK
  BY DEF TypeOK
<1> HIDE DEF StackOK
<1> USE DEF TypeOK
<1> DEFINE DataOK == /\ tx' \in {"none", "open", "aborted", "lost"}
                     /\ usage.engine = "sqlite3" => tx' \in {"none", "open"}
                     /\ committed' \in SUBSET Items
                     /\ work' \in SUBSET Items
<1>1. ASSUME NEW items \in SUBSET Items, QueryDone(items) PROVE DataOK
  BY <1>1 DEF QueryDone
<1>2. RolledBack => DataOK
  BY DEF RolledBack
<1>3. QueryFails => DataOK
  BY DEF QueryFails, RolledBack, ConnectionLost
<1>4. BeginDone \/ BeginFails => DataOK
  BY <1>3 DEF BeginDone, BeginFails
<1>5. CommitDone \/ CommitFails => DataOK
  BY DEF CommitDone, CommitFails, RolledBack
<1>6. RollbackDone \/ RollbackFails => DataOK
  BY DEF RollbackDone, RollbackFails, RolledBack, ConnectionLost
<1> HIDE DEF DataOK
<1> DEFINE CallOK == /\ pc' \in {"idle", "body", "drop", "commit", "rollback",
                                 "done"}
                     /\ op' \in {"none", "transaction", "remove"}
                     /\ base' \in SUBSET Items
                     /\ made' \in SUBSET Items
                     /\ todo' \in SUBSET Items
                     /\ outcome' \in {"none", "success", "failure", "threw"}
                     /\ explicit' \in BOOLEAN
                     /\ threw' \in BOOLEAN
<1>7. DataOK /\ CallOK /\ StackOK /\ usage' = usage => TypeOK'
  BY DEF DataOK, CallOK, StackOK
<1> HIDE DEF CallOK
<1>8. UNCHANGED <<pc, op, base, made, todo, outcome>>
        /\ explicit' \in BOOLEAN /\ threw' \in BOOLEAN => CallOK
  BY DEF CallOK
<1>9. CASE Query
  BY <1>1, <1>3, <1>7, <1>8, <1>9, <1>d DEF Query, Frame
<1>10. CASE Clear
  <2>1. PICK rows \in SUBSET work : QueryDone(work \ rows)
    BY <1>10 DEF Clear
  <2>2. DataOK
    BY <1>1, <2>1
  <2> QED
    BY <1>7, <1>8, <1>10, <1>d, <2>2 DEF Clear, Frame
<1>11. CASE Begin
  BY <1>4, <1>7, <1>8, <1>11, <1>d DEF Begin, Frame
<1>12. CASE Commit
  BY <1>5, <1>7, <1>8, <1>12, <1>d DEF Commit, Frame
<1>13. CASE Rollback
  BY <1>6, <1>7, <1>8, <1>13, <1>d DEF Rollback, Frame
<1>14. CASE Reconnect
  <2>1. DataOK /\ CallOK
    BY <1>14 DEF Reconnect, DataOK, CallOK
  <2>2. StackOK
    BY <1>14, UsagesAssumption DEF Reconnect, StackOK
  <2> QED
    BY <1>7, <1>14, <2>1, <2>2 DEF Reconnect
<1>15. CASE Transaction
  <2>1. Call("transaction") /\ op' = "transaction" /\ base' = committed
    BY <1>15 DEF Transaction, Call
  <2>2. CallOK
    BY <1>15, <2>1 DEF Transaction, Finish, CallOK
  <2> QED
    BY <1>4, <1>7, <1>15, <1>a, <2>1, <2>2 DEF Transaction
<1>16. ASSUME NEW tables \in SUBSET Items, RemoveThese(tables) PROVE TypeOK'
  <2>1. Call("remove") /\ op' = "remove" /\ base' = committed
    BY <1>16 DEF RemoveThese, Call
  <2>2. CallOK
    BY <1>16, <2>1 DEF RemoveThese, CallOK
  <2> QED
    BY <1>4, <1>7, <1>16, <1>a, <2>1, <2>2 DEF RemoveThese
<1>17. CASE Remove
  BY <1>16, <1>17 DEF Remove
<1>18. CASE RemoveAll
  BY <1>16, <1>18 DEF RemoveAll
<1>19. CASE RemoveAllOfNone
  <2>1. Call("remove") /\ op' = "remove" /\ base' = committed
    BY <1>19 DEF RemoveAllOfNone, Call
  <2>2. CallOK
    BY <1>19, <2>1 DEF RemoveAllOfNone, Finish, CallOK
  <2>3. DataOK
    BY <1>3, <1>19 DEF RemoveAllOfNone, DataOK
  <2> QED
    BY <1>7, <1>19, <1>a, <2>1, <2>2, <2>3 DEF RemoveAllOfNone
<1>20. CASE BodyQuery
  <2>1. PICK i \in Items : QueryDone(work \cup {i}) /\ made' = made \cup {i}
    BY <1>20 DEF BodyQuery
  <2>2. DataOK
    BY <1>1, <2>1
  <2> QED
    BY <1>7, <1>20, <1>d, <2>1, <2>2 DEF BodyQuery, Rest, CallOK
<1>21. CASE BodyClear
  <2>1. PICK rows \in SUBSET work :
           QueryDone(work \ rows) /\ made' = made \ rows
    BY <1>21 DEF BodyClear
  <2>2. DataOK
    BY <1>1, <2>1
  <2> QED
    BY <1>7, <1>21, <1>d, <2>1, <2>2 DEF BodyClear, Rest, CallOK
<1>22. CASE BodyQueryFails
  BY <1>3, <1>7, <1>22, <1>d
     DEF BodyQueryFails, AfterError, Finish, Rest, CallOK
<1>23. CASE BodyReturns
  BY <1>7, <1>23, <1>d DEF BodyReturns, Rest, DataOK, CallOK
<1>24. CASE BodyThrows
  BY <1>7, <1>24, <1>d DEF BodyThrows, Finish, Rest, DataOK, CallOK
<1>25. CASE BodyCommit
  BY <1>5, <1>7, <1>25, <1>d DEF BodyCommit, Finish, Rest, CallOK
<1>26. CASE BodyRollback
  BY <1>6, <1>7, <1>26, <1>d DEF BodyRollback, Finish, Rest, CallOK
<1>27. CASE Drop
  <2>1. PICK i \in todo :
           /\ todo' = todo \ {i}
           /\ \/ QueryDone(work \ {i}) /\ UNCHANGED pc
              \/ QueryFails /\ pc' = "rollback"
    BY <1>27 DEF Drop
  <2>2. DataOK
    BY <1>1, <1>3, <2>1
  <2> QED
    BY <1>7, <1>27, <1>d, <2>1, <2>2 DEF Drop, Going, CallOK
<1>28. CASE RemoveCommit
  BY <1>5, <1>7, <1>28, <1>d DEF RemoveCommit, Finish, Going, CallOK
<1>29. CASE RemoveRollback
  BY <1>6, <1>7, <1>29, <1>d DEF RemoveRollback, Finish, Going, CallOK
<1>30. CASE Return
  BY <1>7, <1>30, <1>d DEF Return, DataOK, CallOK
<1>31. CASE ReturnToBody
  <2>1. CallMatches
    OBVIOUS
  <2>2. op \in {"transaction", "remove"}
    BY <1>31 DEF ReturnToBody, CallMatches
  <2>3. made' \in SUBSET Items
    <3>1. CASE outcome # "success"
      BY <1>31, <1>b, <3>1 DEF ReturnToBody, MadeAfter
    <3>2. CASE outcome = "success" /\ op = "transaction"
      BY <1>31, <3>2 DEF ReturnToBody, MadeAfter
    <3>3. CASE outcome = "success" /\ op = "remove"
      BY <1>31, <1>b, <3>3 DEF ReturnToBody, MadeAfter
    <3> QED
      BY <2>2, <3>1, <3>2, <3>3
  <2> QED
    BY <1>7, <1>31, <1>b, <1>c, <2>3
       DEF ReturnToBody, AfterError, Finish, DataOK, CallOK
<1>32. CASE UNCHANGED vars
  BY <1>32
<1> QED
  BY <1>9, <1>10, <1>11, <1>12, <1>13, <1>14, <1>15, <1>17, <1>18, <1>19,
     <1>20, <1>21, <1>22, <1>23, <1>24, <1>25, <1>26, <1>27, <1>28, <1>29,
     <1>30, <1>31, <1>32
     DEF Next

(* A step that leaves the callers leaves the one whose call it is.          *)
LEMMA CallersAfter ==
    ASSUME callers' = callers PROVE Caller' = Caller
  BY DEF Caller

(* The rest of the invariant, action by action.                             *)
LEMMA PartsStep == IInv /\ [Next]_vars => Parts'
<1> SUFFICES ASSUME IInv, [Next]_vars PROVE Parts'
  OBVIOUS
<1>u. usage.engine \in {"sqlite3", "psql"} /\ usage.nests \in BOOLEAN
          /\ usage.ignores \in BOOLEAN
  BY UsagesAssumption DEF IInv, TypeOK
<1>m. TypeOK /\ CallMatches
  BY DEF IInv
<1>r. callers # <<>> => /\ Caller.made \in SUBSET Items
                        /\ Len(callers) = 1
                              => SubSeq(callers, 1, Len(callers) - 1) = <<>>
  BY <1>m, CallReturns
<1>t. /\ tx \in {"none", "open", "aborted", "lost"}
      /\ Sqlite => tx \in {"none", "open"}
      /\ committed \in SUBSET Items
      /\ work \in SUBSET Items
      /\ made \in SUBSET Items
      /\ op \in {"none", "transaction", "remove"}
      /\ outcome \in {"none", "success", "failure", "threw"}
      /\ explicit \in BOOLEAN
      /\ threw \in BOOLEAN
  BY <1>m DEF TypeOK
<1>p. Parts
  BY DEF IInv, Parts
<1> USE <1>u, <1>t, <1>p
<1> USE DEF Parts, NothingPending, CallMatches, BodyCounts, InBody, CallerCounts,
            SuccessEnds, OwnHolds, InnerHolds, RemoveHolds, OpenIsKnown,
            AnswersHold, Attentive, Undivided, SuccessCommits, FailureUndoes,
            RemovesAllOrNone, Answers
<1>1. CASE Query
  BY <1>1, CallersAfter
     DEF Query, Frame, QueryDone, QueryFails, RolledBack, ConnectionLost
<1>2. CASE Clear
  BY <1>2, CallersAfter DEF Clear, Frame, QueryDone
<1>3. CASE Begin
  BY <1>3, CallersAfter
     DEF Begin, Frame, BeginDone, BeginFails, QueryFails, RolledBack, ConnectionLost
<1>4. CASE Commit
  BY <1>4, CallersAfter DEF Commit, Frame, CommitDone, CommitFails, RolledBack
<1>5. CASE Rollback
  BY <1>5, CallersAfter
     DEF Rollback, Frame, RollbackDone, RollbackFails, RolledBack, ConnectionLost
<1>6. CASE Reconnect
  BY <1>6 DEF Reconnect
<1>7. CASE Transaction
  <2>1. Call("transaction") /\ op' = "transaction" /\ base' = committed
    BY <1>7 DEF Transaction, Call
  <2>2. \/ pc = "idle" /\ callers = <<>> /\ callers' = <<>>
             /\ (usage.nests \/ ~explicit)
        \/ /\ pc = "body"
           /\ usage.nests
           /\ Len(callers') = Len(callers) + 1
           /\ callers' # <<>>
           /\ Caller' = [base |-> base, made |-> made]
    BY <1>m, <2>1, CallMade
  <2>3. CASE pc = "idle"
    BY <1>7, <2>1, <2>2, <2>3
       DEF Transaction, Finish, BeginDone, BeginFails, QueryFails, RolledBack,
           ConnectionLost
  <2>4. CASE pc = "body" /\ BeginDone
    BY <1>7, <2>1, <2>2, <2>4 DEF Transaction, Finish, BeginDone, BeginFails
  <2>5. CASE pc = "body" /\ BeginFails
    BY <1>7, <2>1, <2>2, <2>5
       DEF Transaction, Finish, BeginDone, BeginFails, QueryFails, RolledBack,
           ConnectionLost
  <2> QED
    BY <1>7, <2>2, <2>3, <2>4, <2>5 DEF Transaction
<1>8. CASE BodyQuery
  BY <1>8, CallersAfter DEF BodyQuery, Rest, QueryDone
<1>9. CASE BodyClear
  BY <1>9, CallersAfter DEF BodyClear, Rest, QueryDone
<1>10. CASE BodyQueryFails
  BY <1>10, CallersAfter
     DEF BodyQueryFails, AfterError, Finish, Rest, QueryFails, RolledBack,
         ConnectionLost
<1>11. CASE BodyReturns
  BY <1>11, CallersAfter DEF BodyReturns, Rest
<1>12. CASE BodyThrows
  BY <1>12, CallersAfter DEF BodyThrows, Rest, Finish
<1>13. CASE BodyCommit
  BY <1>13, CallersAfter
     DEF BodyCommit, Rest, Finish, CommitDone, CommitFails, RolledBack
<1>14. CASE BodyRollback
  BY <1>14, CallersAfter
     DEF BodyRollback, Rest, Finish, RollbackDone, RollbackFails, RolledBack,
         ConnectionLost
<1>15. ASSUME NEW tables \in SUBSET Items, RemoveThese(tables) PROVE Parts'
  <2>1. Call("remove") /\ op' = "remove" /\ base' = committed
    BY <1>15 DEF RemoveThese, Call
  <2>2. \/ pc = "idle" /\ callers = <<>> /\ callers' = <<>>
             /\ (usage.nests \/ ~explicit)
        \/ /\ pc = "body"
           /\ usage.nests
           /\ Len(callers') = Len(callers) + 1
           /\ callers' # <<>>
           /\ Caller' = [base |-> base, made |-> made]
    BY <1>m, <2>1, CallMade
  <2>3. CASE pc = "idle"
    BY <1>15, <2>1, <2>2, <2>3
       DEF RemoveThese, BeginDone, BeginFails, QueryFails, RolledBack,
           ConnectionLost
  <2>4. CASE pc = "body" /\ BeginDone
    BY <1>15, <2>1, <2>2, <2>4 DEF RemoveThese, BeginDone, BeginFails
  <2>5. CASE pc = "body" /\ BeginFails
    BY <1>15, <2>1, <2>2, <2>5
       DEF RemoveThese, BeginDone, BeginFails, QueryFails, RolledBack,
           ConnectionLost
  <2> QED
    BY <1>15, <2>2, <2>3, <2>4, <2>5 DEF RemoveThese
<1>16. CASE Remove
  BY <1>15, <1>16 DEF Remove
<1>17. CASE RemoveAll
  BY <1>15, <1>17 DEF RemoveAll
<1>18. CASE RemoveAllOfNone
  <2>1. Call("remove") /\ op' = "remove" /\ base' = committed
    BY <1>18 DEF RemoveAllOfNone, Call
  <2>2. \/ pc = "idle" /\ callers = <<>> /\ callers' = <<>>
             /\ (usage.nests \/ ~explicit)
        \/ /\ pc = "body"
           /\ usage.nests
           /\ Len(callers') = Len(callers) + 1
           /\ callers' # <<>>
           /\ Caller' = [base |-> base, made |-> made]
    BY <1>m, <2>1, CallMade
  <2>3. CASE pc = "idle"
    BY <1>18, <2>1, <2>2, <2>3
       DEF RemoveAllOfNone, Finish, QueryFails, RolledBack, ConnectionLost
  <2>4. CASE pc = "body" /\ outcome' = "success"
    BY <1>18, <2>1, <2>2, <2>4 DEF RemoveAllOfNone, Finish
  <2>5. CASE pc = "body" /\ outcome' = "threw"
    BY <1>18, <2>1, <2>2, <2>5
       DEF RemoveAllOfNone, Finish, QueryFails, RolledBack, ConnectionLost
  <2> QED
    BY <1>18, <2>2, <2>3, <2>4, <2>5 DEF RemoveAllOfNone, Finish
<1>19. CASE Drop
  BY <1>19, CallersAfter
     DEF Drop, Going, QueryDone, QueryFails, RolledBack, ConnectionLost
<1>20. CASE RemoveCommit
  BY <1>20, CallersAfter
     DEF RemoveCommit, Going, Finish, CommitDone, CommitFails, RolledBack
<1>21. CASE RemoveRollback
  BY <1>21, CallersAfter
     DEF RemoveRollback, Going, Finish, RollbackDone, RollbackFails, RolledBack,
         ConnectionLost
<1>22. CASE Return
  BY <1>22 DEF Return
<1>23. CASE ReturnToBody
  BY <1>23, <1>r DEF ReturnToBody, MadeAfter, AfterError, Finish
<1>24. CASE UNCHANGED vars
  BY <1>24, CallersAfter
<1> QED
  BY <1>1, <1>2, <1>3, <1>4, <1>5, <1>6, <1>7, <1>8, <1>9, <1>10, <1>11,
     <1>12, <1>13, <1>14, <1>16, <1>17, <1>18, <1>19, <1>20, <1>21, <1>22,
     <1>23, <1>24
     DEF Next

(* The invariant is inductive.                                              *)
LEMMA Invariance == Spec => []IInv
<1>1. IInv /\ [Next]_vars => IInv'
  BY TypeStep, PartsStep DEF IInv, Parts
<1> QED
  BY InitInv, <1>1, PTL DEF Spec

-----------------------------------------------------------------------------
(* The state of the transactions keeps its types.                           *)
THEOREM TypeCorrect == Spec => []TypeOK
  BY Invariance, PTL DEF IInv

(* transaction() that reports success has committed what its body made, for *)
(* the usages that Attentive names: on either engine, with calls in the     *)
(* body or none, of a body that stops at its first error; and on SQLite of  *)
(* one that goes on and makes no calls.  Whatever fails.                    *)
THEOREM SuccessIsCommitted == Spec => []SuccessCommits
  BY Invariance, PTL DEF IInv, AnswersHold

(* transaction() that returns a failure has left the database as it was,    *)
(* for the usages that Undivided names: on either engine where a body makes *)
(* no calls, whether it stops at an error or goes on; and on SQLite with    *)
(* calls in a body that stops at its first error.                           *)
THEOREM FailureIsUndone == Spec => []FailureUndoes
  BY Invariance, PTL DEF IInv, AnswersHold

(* remove() drops all of its tables or, when it reports an error, none: on  *)
(* either engine, of every usage, in a body too.                            *)
THEOREM RemoveIsAtomic == Spec => []RemovesAllOrNone
  BY Invariance, PTL DEF IInv, AnswersHold

(* A transaction that the program did not begin is left open only by a call *)
(* that threw.                                                              *)
THEOREM OpenTransactionIsKnown == Spec => []LeftOpenByThrowOnly
<1>1. IInv => LeftOpenByThrowOnly
  BY DEF IInv, OpenIsKnown, LeftOpenByThrowOnly
<1> QED
  BY Invariance, <1>1, PTL

-----------------------------------------------------------------------------
(* What others see of a call.  While remove() runs, of every usage, and     *)
(* while transaction() runs, of the usages that Undivided names, the        *)
(* committed database changes once at most, from what it was at the call to *)
(* all that this connection has made of it, and that ends the transaction.  *)
(* The exception is a body on SQLite that goes on after an error which      *)
(* rolled its transaction back: its queries commit one by one from there.   *)
AtOnce ==
    /\ committed = base
    /\ committed' = work
    /\ tx = "open"
    /\ pc' \in {"done", "rollback"}

ByItself == Sqlite /\ usage.ignores /\ tx = "none" /\ pc = "body"

CommitsAtOnce ==
    pc # "idle" /\ committed' # committed /\ (op = "remove" \/ Undivided) =>
        AtOnce \/ ByItself

ChangesAtOnce == [][CommitsAtOnce]_vars

(* No other connection sees a part of what such a call does, but for such a *)
(* body.                                                                    *)
THEOREM CallsChangeAtOnce == Spec => ChangesAtOnce
<1>1. IInv /\ [Next]_vars => [CommitsAtOnce]_vars
  <2> SUFFICES ASSUME IInv, Next, pc # "idle", committed' # committed,
                      op = "remove" \/ Undivided
               PROVE  AtOnce \/ ByItself
    BY DEF CommitsAtOnce
  <2>u. (Sqlite \/ Psql) /\ usage.ignores \in BOOLEAN /\ usage.nests \in BOOLEAN
    BY UsagesAssumption DEF IInv, TypeOK
  <2> USE DEF IInv, CallMatches, OwnHolds, InnerHolds, InBody, RemoveHolds,
              Undivided, AtOnce, ByItself
  <2>1. CASE BodyQuery \/ BodyClear
    <3>1. pc = "body" /\ tx = "none"
      BY <2>1 DEF BodyQuery, BodyClear, QueryDone
    <3> QED
      BY <2>u, <3>1
  <2>2. CASE BodyCommit
    <3>1. pc = "commit" /\ op = "transaction" /\ pc' = "done"
      BY <2>2 DEF BodyCommit, Finish
    <3>2. tx = "open" /\ committed' = work
      BY <2>2 DEF BodyCommit, CommitDone, CommitFails, RolledBack
    <3> QED
      BY <3>1, <3>2
  <2>3. CASE RemoveCommit
    <3>1. pc = "drop" /\ pc' \in {"done", "rollback"}
      BY <2>3 DEF RemoveCommit, Finish
    <3>2. committed' = work
      BY <2>3 DEF RemoveCommit, CommitDone, CommitFails, RolledBack
    <3> QED
      BY <3>1, <3>2
  <2>4. CASE Drop
    BY <2>4 DEF Drop, QueryDone, QueryFails, RolledBack, ConnectionLost
  <2>5. CASE \/ Query \/ Clear \/ Begin \/ Commit \/ Rollback
    BY <2>5 DEF Query, Clear, Begin, Commit, Rollback
  <2>6. CASE Transaction \/ Remove \/ RemoveAll \/ RemoveAllOfNone
    BY <2>6
       DEF Transaction, Remove, RemoveAll, RemoveThese, RemoveAllOfNone, BeginDone,
           BeginFails, QueryFails, RolledBack, ConnectionLost
  <2>7. CASE \/ BodyQueryFails \/ BodyReturns \/ BodyThrows \/ BodyRollback
             \/ RemoveRollback \/ Return \/ ReturnToBody \/ Reconnect
    BY <2>7
       DEF BodyQueryFails, BodyReturns, BodyThrows, BodyRollback, RemoveRollback,
           Return, ReturnToBody, Reconnect, QueryFails, RollbackDone,
           RollbackFails, RolledBack, ConnectionLost
  <2> QED
    BY <2>1, <2>2, <2>3, <2>4, <2>5, <2>6, <2>7 DEF Next
<1> QED
  BY <1>1, Invariance, PTL DEF Spec, ChangesAtOnce
=============================================================================
