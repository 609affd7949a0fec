------------------------ MODULE PsqlStatementsProofs ------------------------
(***************************************************************************)
(* Theorems about PsqlStatements for any texts, objects and numbers of      *)
(* parameters, columns and rows.  The invariant adds what relates a         *)
(* parameter's copy, length and pointer to what was bound last, and that    *)
(* pointers are set in statements with all their parameters only.           *)
(***************************************************************************)
EXTENDS PsqlStatements, TLAPS

(* The pointer of a parameter, if exec has set it, is to its copy; and the  *)
(* copy, where it counts, is what was bound last.                           *)
ParamInv(param) ==
    /\ param.pointer # "stale"
    /\ param.sized => param.transient # Empty /\ param.last = param.transient
    /\ ~param.sized => param.last \in {Null, Empty} /\ param.pointer = "none"

ParamsInv(params) ==
    \A i \in 1 .. Len(params) :
        /\ ParamInv(params[i])
        /\ params[i].pointer = "copy" => Len(params) = ParamsCount

StmtsInv == \A s \in Stmts : stmts[s] # None => ParamsInv(stmts[s].params)

(* Statements are known to a session that is up, and objects live in one.   *)
SessionInv ==
    /\ session # "up" => prepared = NothingPrepared
    /\ session = "none" => \A s \in Stmts : stmts[s] = None

IInv == TypeOK /\ StmtsInv /\ SessionInv /\ AbortIsReported

-----------------------------------------------------------------------------
(* Room for another parameter leaves the others in place, and unset ones    *)
(* unset.                                                                   *)
LEMMA EnsureCapacityType ==
    ASSUME NEW params \in Seq(Param), Len(params) <= ParamsCount,
           ParamsInv(params), NEW index \in 1 .. ParamsCount
    PROVE  /\ EnsureCapacity(params, index) \in Seq(Param)
           /\ Len(EnsureCapacity(params, index)) \in index .. ParamsCount
           /\ ParamsInv(EnsureCapacity(params, index))
<1> DEFINE n == IF index > Len(params) THEN index ELSE Len(params)
           new == [transient |-> Empty, sized |-> FALSE, pointer |-> "none",
                   last |-> Null]
           more == EnsureCapacity(params, index)
<1>1. /\ Len(params) \in Nat /\ n \in Nat /\ n \in index .. ParamsCount
      /\ n >= Len(params)
      /\ ParamsCount \in Nat
  BY ConstantsAssumption
<1>2. new \in Param /\ ParamInv(new) /\ new.pointer = "none"
  BY DEF Param, Values, ParamInv
<1>3. ASSUME NEW i \in 1 .. n
      PROVE  /\ i > Len(params) => more[i] = new
             /\ i <= Len(params) => more[i] = params[i]
  <2>1. more[i] = IF i > Len(params) THEN new
                  ELSE IF index > Len(params) /\ params[i].pointer = "copy"
                  THEN [params[i] EXCEPT !.pointer = "stale"] ELSE params[i]
    BY DEF EnsureCapacity
  <2>2. CASE i > Len(params)
    BY <2>1, <2>2, <1>1
  <2>3. CASE i <= Len(params)
    <3>1. params[i].pointer = "copy" => Len(params) = ParamsCount
      BY <2>3, <1>1 DEF ParamsInv
    <3>2. ~(index > Len(params) /\ params[i].pointer = "copy")
      BY <3>1, <1>1
    <3> QED BY <2>1, <3>2, <2>3, <1>1
  <2> QED BY <2>2, <2>3, <1>1
<1>4. ASSUME NEW i \in 1 .. n PROVE more[i] \in Param
  <2> HIDE DEF new, more
  <2>1. CASE i > Len(params)
    BY <2>1, <1>2, <1>3
  <2>2. CASE i <= Len(params)
    BY <2>2, <1>1, <1>3
  <2> QED BY <2>1, <2>2, <1>1
<1>5. more \in [1 .. n -> Param]
  BY <1>4 DEF EnsureCapacity
<1>6. more \in Seq(Param) /\ Len(more) = n
  BY <1>5, <1>1
<1>7. ASSUME NEW i \in 1 .. n
      PROVE  ParamInv(more[i]) /\ (more[i].pointer = "copy" => n = ParamsCount)
  <2> HIDE DEF new, more
  <2>1. CASE i > Len(params)
    BY <2>1, <1>2, <1>3
  <2>2. CASE i <= Len(params)
    <3>1. more[i] = params[i] /\ i \in 1 .. Len(params)
      BY <2>2, <1>1, <1>3
    <3>2. ParamInv(params[i]) /\ (params[i].pointer = "copy" => Len(params) = ParamsCount)
      BY <3>1 DEF ParamsInv
    <3> QED BY <3>1, <3>2, <1>1
  <2> QED BY <2>1, <2>2, <1>1
<1> QED BY <1>1, <1>6, <1>7 DEF ParamsInv

(* What is bound is a parameter, of which exec knows nothing yet.           *)
LEMMA BindType ==
    ASSUME NEW param \in Param, ParamInv(param), NEW value \in Values
    PROVE  /\ BindValue(param, value) \in Param /\ ParamInv(BindValue(param, value))
           /\ BindValue(param, value).pointer = "none"
           /\ BindNull(param) \in Param /\ ParamInv(BindNull(param))
           /\ BindNull(param).pointer = "none"
<1>1. /\ BindValue(param, value) \in Param
      /\ BindValue(param, value).pointer = "none"
  BY DEF BindValue, Param
<1>2. ParamInv(BindValue(param, value))
  BY DEF BindValue, ParamInv
<1>3. /\ BindNull(param) \in Param
      /\ BindNull(param).pointer = "none"
  BY DEF BindNull, Param
<1>4. ParamInv(BindNull(param))
  BY DEF BindNull, ParamInv, Param
<1> QED BY <1>1, <1>2, <1>3, <1>4

LEMMA PointedType ==
    ASSUME NEW param \in Param, ParamInv(param)
    PROVE  Pointed(param) \in Param /\ ParamInv(Pointed(param))
<1>1. CASE ~param.sized
  BY <1>1 DEF Pointed, ParamInv, Param
<1>2. CASE param.sized /\ param.pointer = "none"
  BY <1>2 DEF Pointed, ParamInv, Param
<1>3. CASE param.sized /\ param.pointer # "none"
  BY <1>3 DEF Pointed, ParamInv, Param
<1> QED BY <1>1, <1>2, <1>3 DEF Param

-----------------------------------------------------------------------------
LEMMA InitInv == Init => IInv
BY ConstantsAssumption
DEF Init, IInv, TypeOK, StmtsInv, SessionInv, AbortIsReported, NothingPrepared

LEMMA BindStep ==
    ASSUME IInv, NEW s \in Stmts, NEW index \in 1 .. ParamsCount, Bind(s, index)
    PROVE  IInv'
<1> DEFINE params == EnsureCapacity(stmts[s].params, index)
<1>1. /\ stmts[s] # None
      /\ stmts[s].sql \in Sqls
      /\ stmts[s].params \in Seq(Param)
      /\ Len(stmts[s].params) <= ParamsCount
      /\ ParamsInv(stmts[s].params)
  BY DEF Bind, IInv, TypeOK, StmtsInv
<1>2. /\ params \in Seq(Param)
      /\ Len(params) \in index .. ParamsCount
      /\ ParamsInv(params)
      /\ ParamsCount \in Nat
  BY <1>1, EnsureCapacityType, ConstantsAssumption
<1>3. /\ index \in 1 .. Len(params)
      /\ params[index] \in Param
      /\ ParamInv(params[index])
  BY <1>2 DEF ParamsInv
<1>4. PICK param \in {BindValue(params[index], value) : value \in Values}
                     \cup {BindNull(params[index])} :
          stmts' = [stmts EXCEPT ![s].params = [params EXCEPT ![index] = param]]
  BY DEF Bind
<1>5. param \in Param /\ ParamInv(param) /\ param.pointer = "none"
  <2>1. CASE param = BindNull(params[index])
    <3>1. Empty \in Values
      BY DEF Values
    <3> QED BY <2>1, <3>1, <1>3, BindType
  <2>2. CASE \E value \in Values : param = BindValue(params[index], value)
    BY <2>2, <1>3, BindType
  <2> QED BY <1>4, <2>1, <2>2
<1> DEFINE bound == [params EXCEPT ![index] = param]
<1>6. /\ bound \in Seq(Param)
      /\ Len(bound) = Len(params)
      /\ \A i \in 1 .. Len(params) :
            bound[i] = IF i = index THEN param ELSE params[i]
  BY <1>2, <1>3, <1>5
<1>7. ParamsInv(bound)
  BY <1>2, <1>5, <1>6 DEF ParamsInv
<1>8. /\ stmts' \in [Stmts -> [sql : Sqls, params : Seq(Param)] \cup {None}]
      /\ stmts'[s].params = bound
      /\ \A q \in Stmts \ {s} : stmts'[q] = stmts[q]
  <2>1. [stmts[s] EXCEPT !.params = bound] \in [sql : Sqls, params : Seq(Param)]
    BY <1>1, <1>6 DEF IInv, TypeOK
  <2>2. stmts' = [stmts EXCEPT ![s] = [stmts[s] EXCEPT !.params = bound]]
    BY <1>4
  <2> QED BY <2>1, <2>2, <1>1 DEF IInv, TypeOK
<1>9. StmtsInv'
  BY <1>7, <1>8 DEF IInv, StmtsInv
<1>10. Len(bound) <= ParamsCount
  BY <1>2, <1>6
<1>11. TypeOK'
  BY <1>8, <1>10 DEF Bind, IInv, TypeOK
<1>12. SessionInv' /\ AbortIsReported'
  BY <1>1, <1>8 DEF Bind, IInv, SessionInv, AbortIsReported, NothingPrepared
<1> QED BY <1>9, <1>11, <1>12 DEF IInv
LEMMA ExecStep ==
    ASSUME IInv, NEW s \in Stmts, NEW r \in Results, Exec(s, r)
    PROVE  IInv'
<1> DEFINE params == stmts[s].params
           pointed == [i \in 1 .. ParamsCount |-> Pointed(params[i])]
<1>1. /\ stmts[s] # None
      /\ stmts[s].sql \in Sqls
      /\ params \in Seq(Param)
      /\ Len(params) = ParamsCount
      /\ ParamsInv(params)
      /\ ParamsCount \in Nat
  BY ConstantsAssumption DEF Exec, IInv, TypeOK, StmtsInv
<1>2. \A i \in 1 .. ParamsCount : pointed[i] \in Param /\ ParamInv(pointed[i])
  BY <1>1, PointedType DEF ParamsInv
<1>3. pointed \in Seq(Param) /\ Len(pointed) = ParamsCount
  BY <1>1, <1>2
<1>4. ParamsInv(pointed)
  BY <1>2, <1>3 DEF ParamsInv
<1>5. /\ stmts' \in [Stmts -> [sql : Sqls, params : Seq(Param)] \cup {None}]
      /\ stmts'[s].params = pointed
      /\ \A q \in Stmts \ {s} : stmts'[q] = stmts[q]
  <2> HIDE DEF pointed
  <2>1. [stmts[s] EXCEPT !.params = pointed] \in [sql : Sqls, params : Seq(Param)]
    BY <1>1, <1>3 DEF IInv, TypeOK
  <2>2. stmts' = [stmts EXCEPT ![s] = [stmts[s] EXCEPT !.params = pointed]]
    BY DEF Exec, pointed
  <2>3. /\ stmts'[s] = [stmts[s] EXCEPT !.params = pointed]
        /\ \A q \in Stmts \ {s} : stmts'[q] = stmts[q]
    BY <2>2 DEF IInv, TypeOK
  <2>4. [stmts[s] EXCEPT !.params = pointed].params = pointed
    BY <1>1 DEF IInv, TypeOK
  <2> QED BY <2>1, <2>2, <2>3, <2>4 DEF IInv, TypeOK
<1>6. /\ StmtsInv'
      /\ \A q \in Stmts : stmts'[q] # None => Len(stmts'[q].params) <= ParamsCount
  BY <1>1, <1>3, <1>4, <1>5 DEF IInv, StmtsInv, TypeOK
<1>7. /\ results' \in [Results -> [rows : Seq(Rows), row_index : Nat] \cup {None}]
      /\ \A q \in Results : results'[q] # None =>
            results'[q].row_index <= Len(results'[q].rows)
      /\ session' \in {"none", "up", "lost"}
      /\ tx' \in {"none", "open", "aborted"}
      /\ reported' \in BOOLEAN
      /\ prepared' = prepared
      /\ session' = session
      /\ AbortIsReported'
  <2>1. CASE Refused /\ UNCHANGED results
    BY <2>1 DEF Refused, IInv, TypeOK, AbortIsReported
  <2>2. CASE UNCHANGED <<session, tx, reported, prepared>> /\
             \E n \in 0 .. MaxRows : \E rows \in [1 .. n -> Rows] :
                results' = [results EXCEPT ![r] = [rows |-> rows, row_index |-> 0]]
    <3>n. PICK n \in 0 .. MaxRows : \E rows \in [1 .. n -> Rows] :
             results' = [results EXCEPT ![r] = [rows |-> rows, row_index |-> 0]]
      BY <2>2
    <3>1. PICK rows \in [1 .. n -> Rows] :
             results' = [results EXCEPT ![r] = [rows |-> rows, row_index |-> 0]]
      BY <3>n
    <3>2. rows \in Seq(Rows) /\ Len(rows) \in Nat
      BY <3>1, ConstantsAssumption
    <3> QED BY <2>2, <3>1, <3>2 DEF IInv, TypeOK, AbortIsReported
  <2> QED BY <2>1, <2>2 DEF Exec
<1> QED
  BY <1>1, <1>5, <1>6, <1>7 DEF IInv, TypeOK, SessionInv

LEMMA PrepareStep ==
    ASSUME IInv, NEW s \in Stmts, NEW sql \in Sqls, Prepare(s, sql)
    PROVE  IInv'
<1>1. /\ ParamsInv(<< >>)
      /\ << >> \in Seq(Param)
      /\ Len(<< >>) = 0
      /\ Name[sql] \in Names
      /\ ParamsCount \in Nat
  BY ConstantsAssumption DEF ParamsInv
<1>2. ASSUME /\ session = "up"
             /\ stmts' = [stmts EXCEPT ![s] = [sql |-> sql, params |-> << >>]]
             /\ UNCHANGED <<session, tx, reported, results>>
             /\ prepared' \in [Names \cup {Unnamed} -> Sqls \cup {None}]
      PROVE  IInv'
  <2>1. /\ stmts' \in [Stmts -> [sql : Sqls, params : Seq(Param)] \cup {None}]
        /\ stmts'[s].params = << >>
        /\ \A q \in Stmts \ {s} : stmts'[q] = stmts[q]
    BY <1>1, <1>2 DEF IInv, TypeOK
  <2>2. TypeOK' /\ StmtsInv'
    BY <1>1, <1>2, <2>1 DEF IInv, TypeOK, StmtsInv
  <2>3. SessionInv' /\ AbortIsReported'
    BY <1>2 DEF IInv, SessionInv, AbortIsReported
  <2> QED BY <2>2, <2>3 DEF IInv
<1>3. CASE PrepareFound(s, sql)
  BY <1>2, <1>3 DEF PrepareFound, IInv, TypeOK
<1>4. CASE \E cached \in BOOLEAN : PrepareNew(s, sql, cached)
  <2>1. PICK cached \in BOOLEAN : PrepareNew(s, sql, cached)
    BY <1>4
  <2>2. prepared' \in [Names \cup {Unnamed} -> Sqls \cup {None}]
    BY <1>1, <2>1 DEF PrepareNew, IInv, TypeOK
  <2> QED BY <1>2, <2>1, <2>2 DEF PrepareNew
<1>5. CASE PrepareFails(sql)
  BY <1>5
     DEF PrepareFails, Refused, IInv, TypeOK, StmtsInv, SessionInv,
         AbortIsReported
<1> QED BY <1>3, <1>4, <1>5 DEF Prepare

LEMMA ResultStep ==
    ASSUME IInv, NEW r \in Results, NextRow(r) \/ DestroyResult(r)
    PROVE  IInv'
<1>1. CASE NextRow(r)
  <2>1. /\ results[r] \in [rows : Seq(Rows), row_index : Nat]
        /\ results[r].row_index < Len(results[r].rows)
        /\ Len(results[r].rows) \in Nat
    BY <1>1 DEF NextRow, HasMore, IInv, TypeOK
  <2> DEFINE moved == [results[r] EXCEPT !.row_index = results[r].row_index + 1]
  <2>2. /\ moved \in [rows : Seq(Rows), row_index : Nat]
        /\ moved.row_index <= Len(moved.rows)
    BY <2>1
  <2>3. results' = [results EXCEPT ![r] = moved]
    BY <1>1 DEF NextRow
  <2> HIDE DEF moved
  <2>4. TypeOK'
    BY <1>1, <2>2, <2>3 DEF NextRow, IInv, TypeOK
  <2> QED
    BY <1>1, <2>4 DEF NextRow, IInv, StmtsInv, SessionInv, AbortIsReported
<1>2. CASE DestroyResult(r)
  BY <1>2 DEF DestroyResult, IInv, TypeOK, StmtsInv, SessionInv, AbortIsReported
<1> QED BY <1>1, <1>2

LEMMA NextInv == IInv /\ [Next]_vars => IInv'
<1> SUFFICES ASSUME IInv, [Next]_vars PROVE IInv'
  OBVIOUS
<1>1. CASE Connect \/ Begin \/ End \/ QueryFails
  BY <1>1
  DEF Connect, Begin, End, QueryFails, Refused, IInv, TypeOK, StmtsInv,
      SessionInv, AbortIsReported
<1>2. CASE Close \/ ConnectionLost
  <2>1. NothingPrepared \in [Names \cup {Unnamed} -> Sqls \cup {None}]
    BY DEF NothingPrepared
  <2> QED
    BY <1>2, <2>1
    DEF Close, ConnectionLost, EndSession, IInv, TypeOK, StmtsInv, SessionInv,
        AbortIsReported
<1>3. CASE \E s \in Stmts, sql \in Sqls : Prepare(s, sql)
  BY <1>3, PrepareStep
<1>4. CASE \E s \in Stmts, index \in 1 .. ParamsCount : Bind(s, index)
  BY <1>4, BindStep
<1>5. CASE \E s \in Stmts, r \in Results : Exec(s, r)
  BY <1>5, ExecStep
<1>6. CASE \E s \in Stmts : Destroy(s)
  BY <1>6 DEF Destroy, IInv, TypeOK, StmtsInv, SessionInv, AbortIsReported
<1>7. CASE \E r \in Results : NextRow(r) \/ DestroyResult(r)
  BY <1>7, ResultStep
<1>8. CASE UNCHANGED vars
  BY <1>8 DEF vars, IInv, TypeOK, StmtsInv, SessionInv, AbortIsReported
<1> QED
  BY <1>1, <1>2, <1>3, <1>4, <1>5, <1>6, <1>7, <1>8 DEF Next

LEMMA Invariant == Spec => []IInv
BY InitInv, NextInv, PTL DEF Spec

-----------------------------------------------------------------------------
(* Theorem: the state keeps its types; no cursor leaves its rows.           *)
THEOREM TypeCorrect == Spec => []TypeOK
<1>1. IInv => TypeOK
  BY DEF IInv
<1> QED BY <1>1, Invariant, PTL

(* Theorem: what exec sends is what was last bound, for any order of binds  *)
(* and execs of a statement that has all its parameters when it executes.   *)
THEOREM ParamsSent == Spec => []ParamsAreSent
<1>1. ASSUME NEW param \in Param, ParamInv(param)
      PROVE  Sent(param) = IF param.last = Empty THEN Null ELSE param.last
  <2>1. CASE param.sized
    BY <1>1, <2>1 DEF Sent, ParamInv, Param
  <2>2. CASE ~param.sized
    BY <1>1, <2>2 DEF Sent, ParamInv, Param
  <2> QED BY <2>1, <2>2
<1>2. IInv => ParamsAreSent
  <2> SUFFICES ASSUME IInv, NEW s \in Stmts, stmts[s] # None,
                      NEW i \in DOMAIN stmts[s].params
               PROVE  LET param == stmts[s].params[i] IN
                      Sent(param) = IF param.last = Empty THEN Null ELSE param.last
    BY DEF ParamsAreSent
  <2>1. stmts[s].params \in Seq(Param) /\ ParamsInv(stmts[s].params)
    BY DEF IInv, TypeOK, StmtsInv
  <2>2. i \in 1 .. Len(stmts[s].params) /\ stmts[s].params[i] \in Param
    BY <2>1
  <2>3. ParamInv(stmts[s].params[i])
    BY <2>1, <2>2 DEF ParamsInv
  <2> QED BY <1>1, <2>2, <2>3
<1> QED BY <1>2, Invariant, PTL

(* Theorem: no transaction is aborted without a call that reported an error.*)
THEOREM AbortReported == Spec => []AbortIsReported
<1>1. IInv => AbortIsReported
  BY DEF IInv
<1> QED BY <1>1, Invariant, PTL

-----------------------------------------------------------------------------
(* What the session has under the name of a statement is of that name, and  *)
(* it has the text of every statement object.                               *)
NamesInv ==
    /\ \A n \in Names : prepared[n] # None => Name[prepared[n]] = n
    /\ Executable

(* Theorem: where every text has a name of its own and new texts are        *)
(* prepared by prepare_cached, a statement executes its own text.           *)
THEOREM StatementsExecutable ==
    ASSUME CachedOnly,
           \A a, b \in Sqls : Name[a] = Name[b] => a = b
    PROVE  Spec => []Executable
<1>1. Init => NamesInv
  BY DEF Init, NamesInv, NothingPrepared, Executable
<1>2. IInv /\ NamesInv /\ [Next]_vars => NamesInv'
  <2> SUFFICES ASSUME IInv, NamesInv, [Next]_vars PROVE NamesInv'
    OBVIOUS
  <2>1. ASSUME NEW s \in Stmts, NEW sql \in Sqls, session = "up",
               stmts' = [stmts EXCEPT ![s] = [sql |-> sql, params |-> << >>]],
               session' = session,
               prepared'[Name[sql]] = sql,
               \A n \in Names \ {Name[sql]} : prepared'[n] = prepared[n]
        PROVE  NamesInv'
    <3>1. \A n \in Names : prepared'[n] # None => Name[prepared'[n]] = n
      BY <2>1 DEF NamesInv
    <3>2. ASSUME NEW q \in Stmts, stmts'[q] # None
          PROVE  prepared'[Name[stmts'[q].sql]] = stmts'[q].sql
      <4>1. CASE q = s
        BY <4>1, <2>1 DEF IInv, TypeOK
      <4>2. CASE q # s
        <5>1. stmts'[q] = stmts[q] /\ stmts[q] # None /\ stmts[q].sql \in Sqls
          BY <4>2, <3>2, <2>1 DEF IInv, TypeOK
        <5>2. prepared[Name[stmts[q].sql]] = stmts[q].sql
          BY <5>1, <2>1 DEF NamesInv, Executable
        <5>3. CASE Name[stmts[q].sql] = Name[sql]
          BY <5>1, <5>3, <2>1
        <5>4. CASE Name[stmts[q].sql] # Name[sql]
          BY <5>1, <5>2, <5>4, <2>1, ConstantsAssumption
        <5> QED BY <5>3, <5>4
      <4> QED BY <4>1, <4>2
    <3> QED BY <3>1, <3>2 DEF NamesInv, Executable
  <2>2. CASE \E s \in Stmts, sql \in Sqls : Prepare(s, sql)
    <3>1. PICK s \in Stmts, sql \in Sqls : Prepare(s, sql)
      BY <2>2
    <3>2. CASE PrepareFound(s, sql)
      <4>1. /\ Name[sql] \in Names
            /\ prepared[Name[sql]] \in Sqls
            /\ Name[prepared[Name[sql]]] = Name[sql]
        BY <3>2, ConstantsAssumption DEF PrepareFound, NamesInv, IInv, TypeOK
      <4>2. prepared[Name[sql]] = sql
        BY <4>1
      <4> QED BY <2>1, <3>2, <4>2 DEF PrepareFound
    <3>3. CASE \E cached \in BOOLEAN : PrepareNew(s, sql, cached)
      <4>1. PICK cached \in BOOLEAN : PrepareNew(s, sql, cached)
        BY <3>3
      <4>2. prepared' = [prepared EXCEPT ![Name[sql]] = sql]
        BY <4>1 DEF PrepareNew
      <4>3. /\ prepared'[Name[sql]] = sql
            /\ \A n \in Names \ {Name[sql]} : prepared'[n] = prepared[n]
        BY <4>2, ConstantsAssumption DEF IInv, TypeOK
      <4> QED BY <2>1, <4>1, <4>3 DEF PrepareNew
    <3>4. CASE PrepareFails(sql)
      BY <3>4 DEF PrepareFails, Refused, NamesInv, Executable
    <3> QED BY <3>1, <3>2, <3>3, <3>4 DEF Prepare
  <2>3. CASE \E s \in Stmts, index \in 1 .. ParamsCount : Bind(s, index)
    <3>1. PICK s \in Stmts, index \in 1 .. ParamsCount : Bind(s, index)
      BY <2>3
    <3>2. /\ UNCHANGED <<session, prepared>>
          /\ \E params :
                stmts' = [stmts EXCEPT ![s] = [stmts[s] EXCEPT !.params = params]]
          /\ stmts[s] \in [sql : Sqls, params : Seq(Param)]
          /\ stmts[s] # None
      BY <3>1 DEF Bind, IInv, TypeOK
    <3> QED BY <3>2 DEF NamesInv, Executable, IInv, TypeOK
  <2>4. CASE \E s \in Stmts, r \in Results : Exec(s, r)
    <3>1. PICK s \in Stmts, r \in Results : Exec(s, r)
      BY <2>4
    <3>2. UNCHANGED <<session, prepared>>
      BY <3>1 DEF Exec, Refused
    <3>3. /\ \E params :
                stmts' = [stmts EXCEPT ![s] = [stmts[s] EXCEPT !.params = params]]
          /\ stmts[s] \in [sql : Sqls, params : Seq(Param)]
          /\ stmts[s] # None
      BY <3>1 DEF Exec, IInv, TypeOK
    <3> QED BY <3>2, <3>3 DEF NamesInv, Executable, IInv, TypeOK
  <2>5. CASE \E s \in Stmts : Destroy(s)
    BY <2>5 DEF Destroy, NamesInv, Executable, IInv, TypeOK
  <2>6. CASE \E r \in Results : NextRow(r) \/ DestroyResult(r)
    BY <2>6 DEF NextRow, DestroyResult, NamesInv, Executable
  <2>7. CASE Connect
    BY <2>7 DEF Connect, NamesInv, Executable, IInv, SessionInv, NothingPrepared
  <2>8. CASE Close \/ ConnectionLost
    BY <2>8
       DEF Close, ConnectionLost, EndSession, NothingPrepared, NamesInv,
           Executable
  <2>9. CASE Begin \/ End \/ QueryFails
    BY <2>9 DEF Begin, End, QueryFails, Refused, NamesInv, Executable
  <2>10. CASE UNCHANGED vars
    BY <2>10 DEF vars, NamesInv, Executable
  <2> QED
    BY <2>2, <2>3, <2>4, <2>5, <2>6, <2>7, <2>8, <2>9, <2>10 DEF Next
<1>3. NamesInv => Executable
  BY DEF NamesInv
<1> QED BY <1>1, <1>2, <1>3, Invariant, PTL DEF Spec

-----------------------------------------------------------------------------
(* The session has no statement with a name: everything that was prepared   *)
(* so far was prepared by prepare (cached = FALSE).                         *)
NoneNamed == \A n \in Names : prepared[n] = None

(* prepare without the cache gives the statement no name on the server, and *)
(* exec executes the text's name: until prepare_cached has prepared a text  *)
(* no statement of the session gives a result.                              *)
UncachedGivesNothing ==
    [][NoneNamed =>
          /\ \A r \in Results : results[r] = None => results'[r] = None
          /\ NoneNamed' \/ \E s \in Stmts, sql \in Sqls : PrepareNew(s, sql, TRUE)]_vars

(* The finding of psql_prepare for every text, object and order of calls.   *)
THEOREM PlainPrepareIsUseless == Spec => UncachedGivesNothing
<1>1. ASSUME IInv, [Next]_vars, NoneNamed
      PROVE  /\ \A r \in Results : results[r] = None => results'[r] = None
             /\ \/ NoneNamed'
                \/ \E s \in Stmts, sql \in Sqls : PrepareNew(s, sql, TRUE)
  <2> USE DEF NoneNamed
  <2>0. /\ results \in [Results -> [rows : Seq(Rows), row_index : Nat] \cup {None}]
        /\ prepared \in [Names \cup {Unnamed} -> Sqls \cup {None}]
        /\ \A s \in Stmts : stmts[s] # None => Name[stmts[s].sql] \in Names
    BY <1>1, ConstantsAssumption DEF IInv, TypeOK
  <2>1. CASE Connect \/ Begin \/ End \/ QueryFails \/ UNCHANGED vars
    BY <1>1, <2>1 DEF Connect, Begin, End, QueryFails, Refused, vars
  <2>2. CASE Close \/ ConnectionLost
    BY <2>2 DEF Close, ConnectionLost, EndSession, NothingPrepared
  <2>3. ASSUME NEW s \in Stmts, NEW sql \in Sqls, Prepare(s, sql)
        PROVE  /\ \A r \in Results : results[r] = None => results'[r] = None
               /\ NoneNamed' \/ PrepareNew(s, sql, TRUE)
    <3>1. CASE PrepareFound(s, sql) \/ PrepareFails(sql)
      BY <1>1, <3>1 DEF PrepareFound, PrepareFails, Refused
    <3>2. CASE PrepareNew(s, sql, TRUE)
      BY <3>2 DEF PrepareNew
    <3>3. CASE PrepareNew(s, sql, FALSE)
      <4>1. prepared' = [prepared EXCEPT ![Unnamed] = sql] /\ UNCHANGED results
        BY <3>3 DEF PrepareNew
      <4> QED
        BY <1>1, <2>0, <4>1, ConstantsAssumption
    <3> QED
      BY <2>3, <3>1, <3>2, <3>3 DEF Prepare
  <2>4. ASSUME NEW s \in Stmts, NEW r \in Results, Exec(s, r)
        PROVE  UNCHANGED <<results, prepared>>
    BY <1>1, <2>0, <2>4 DEF Exec, Refused
  <2>5. ASSUME NEW s \in Stmts, NEW index \in 1 .. ParamsCount, Bind(s, index)
        PROVE  UNCHANGED <<results, prepared>>
    BY <2>5 DEF Bind
  <2>6. ASSUME NEW s \in Stmts, Destroy(s)
        PROVE  UNCHANGED <<results, prepared>>
    BY <2>6 DEF Destroy
  <2>7. ASSUME NEW r \in Results, NextRow(r) \/ DestroyResult(r)
        PROVE  /\ \A q \in Results : results[q] = None => results'[q] = None
               /\ UNCHANGED prepared
    BY <2>0, <2>7 DEF NextRow, DestroyResult
  <2> QED
    BY <1>1, <2>1, <2>2, <2>3, <2>4, <2>5, <2>6, <2>7 DEF Next
<1> QED
  BY <1>1, Invariant, PTL DEF Spec, UncachedGivesNothing
=============================================================================
