----------------------- MODULE SqliteStatementsProofs -----------------------
(***************************************************************************)
(* Theorems about SqliteStatements for any texts, handles and objects.      *)
(* The invariant says who shares a handle with whom: a handle of the cache  *)
(* with its cached statements and what they lent it to, any other handle    *)
(* with one statement or one result that owns it.                           *)
(***************************************************************************)
EXTENDS SqliteStatements, TLAPS

CacheHas(h)  == \E t \in Texts : cache[t] = h
Has(s, h)    == stmts[s] # None /\ stmts[s].sth = h
Uncached(s)  == stmts[s] # None /\ ~stmts[s].cached
Owns(r, h)   == results[r] # None /\ results[r].owned /\ results[r].sth = h
Reads(r, h)  == results[r] # None /\ results[r].state = "ROW" /\ results[r].sth = h

(* A handle in use is in the cache, of a statement of its own, or owned by  *)
(* a result; a handle of the cache is in use, and there once.               *)
CacheInv ==
    /\ \A t \in Texts : cache[t] # None => native[cache[t]] # "free"
    /\ \A t, u \in Texts : cache[t] # None /\ cache[t] = cache[u] => t = u

StmtInv ==
    \A s \in Stmts : stmts[s] # None =>
        /\ native[stmts[s].sth] # "free"
        /\ stmts[s].cached <=> CacheHas(stmts[s].sth)
        /\ ~stmts[s].cached =>
              \A q \in Stmts : Has(q, stmts[s].sth) => q = s

ResultInv ==
    \A r \in Results : results[r] # None /\ results[r].owned =>
        /\ native[results[r].sth] # "free"
        /\ ~CacheHas(results[r].sth)
        /\ \A s \in Stmts : ~Has(s, results[r].sth)
        /\ \A q \in Results : Owns(q, results[r].sth) => q = r

NoOrphans ==
    \A h \in Handles : native[h] # "free" =>
        \/ CacheHas(h)
        \/ \E s \in Stmts : Has(s, h) /\ ~stmts[s].cached
        \/ \E r \in Results : Owns(r, h)

(* A result on a row keeps its handle, and of the others with the handle    *)
(* no other is on a row; what it borrowed is owned by another.              *)
RowInv ==
    /\ \A r \in Results, h \in Handles : Reads(r, h) =>
          /\ native[h] = "row"
          /\ \A q \in Results : Reads(q, h) => q = r
          /\ ~results[r].owned => \A q \in Results : ~Owns(q, h)
    /\ \A h \in Handles : native[h] \in {"row", "failed"} =>
          \/ \E s \in Stmts : Has(s, h)
          \/ \E r \in Results : Owns(r, h)

(* Of the statements with a handle one at most can be used; a handle that   *)
(* has parameters is of the cache or of a statement.                        *)
ParamInv ==
    /\ \A s, q \in Stmts : Usable(s) /\ Usable(q) /\ stmts[s].sth = stmts[q].sth
                              => s = q
    /\ \A h \in bound : CacheHas(h) \/ \E s \in Stmts : Has(s, h)

IInv == TypeOK /\ CacheInv /\ StmtInv /\ ResultInv /\ NoOrphans /\ RowInv /\ ParamInv
-----------------------------------------------------------------------------
LEMMA InitInv == Init => IInv
BY NoneAssumption
DEF Init, IInv, TypeOK, CacheInv, StmtInv, ResultInv, NoOrphans, RowInv,
    ParamInv, CacheHas, Has, Owns, Reads, Usable

(* What the invariant says of a handle that is free: nothing refers to it.  *)
LEMMA FreeHandle ==
    ASSUME IInv, NEW h \in Handles, native[h] = "free"
    PROVE  /\ ~CacheHas(h)
           /\ \A s \in Stmts : ~Has(s, h)
           /\ \A r \in Results : ~Owns(r, h) /\ ~Reads(r, h)
           /\ h \notin bound
<1>1. ~CacheHas(h)
  BY NoneAssumption DEF IInv, CacheInv, CacheHas
<1>2. \A s \in Stmts : ~Has(s, h)
  BY DEF IInv, StmtInv, Has
<1>3. \A r \in Results : ~Owns(r, h) /\ ~Reads(r, h)
  BY DEF IInv, ResultInv, RowInv, Owns, Reads
<1> QED BY <1>1, <1>2, <1>3 DEF IInv, ParamInv

LEMMA UnreadHandle ==
    ASSUME NEW h \in Handles
    PROVE  Unread(h) <=> \A r \in Results : ~Reads(r, h)
BY DEF Unread, Reads

LEMMA CloseStep ==
    ASSUME IInv, Close PROVE IInv'
<1>1. \A h \in Handles : h \in Cached <=> CacheHas(h)
  BY NoneAssumption DEF Cached, CacheHas
<1>2. /\ \A h \in Handles : ~CacheHas(h)'
      /\ \A h \in Handles : CacheHas(h) =>
            /\ native'[h] = "free"
            /\ h \notin bound'
            /\ \A s \in Stmts : ~Has(s, h)
            /\ \A r \in Results : ~Reads(r, h)
      /\ \A h \in Handles : ~CacheHas(h) => native'[h] = native[h]
      /\ \A h \in bound' : h \in bound /\ ~CacheHas(h)
      /\ \A h \in bound : ~CacheHas(h) => h \in bound'
      /\ UNCHANGED <<stmts, results>>
  <2>1. \A h \in Handles : ~CacheHas(h)'
    BY NoneAssumption DEF Close, CacheHas
  <2>2. \A h \in Handles : CacheHas(h) =>
            /\ native'[h] = "free"
            /\ h \notin bound'
            /\ \A s \in Stmts : ~Has(s, h)
            /\ \A r \in Results : ~Reads(r, h)
    BY <1>1, UnreadHandle DEF Close, StmtsOf, Has
  <2> QED BY <1>1, <2>1, <2>2 DEF Close, IInv, TypeOK
<1>3. TypeOK'
  BY <1>1 DEF Close, IInv, TypeOK
<1>4. CacheInv'
  BY NoneAssumption DEF Close, CacheInv
<1>5. StmtInv'
  BY <1>2 DEF IInv, TypeOK, Stmt, StmtInv, Has
<1>6. ResultInv'
  BY <1>2 DEF IInv, TypeOK, Result, ResultInv, Has, Owns
<1>7. NoOrphans'
  BY <1>2 DEF IInv, NoOrphans, Has, Owns
<1>8. RowInv'
  BY <1>2 DEF IInv, RowInv, Has, Owns, Reads
<1>9. ParamInv'
  BY <1>2 DEF IInv, TypeOK, Stmt, ParamInv, Has, Usable
<1> QED BY <1>3, <1>4, <1>5, <1>6, <1>7, <1>8, <1>9 DEF IInv

(* The fields of a statement object that was superseded, and of a new one.  *)
LEMMA SupersededFields ==
    ASSUME NEW stmt \in Stmt
    PROVE  /\ [stmt EXCEPT !.superseded = TRUE] \in Stmt
           /\ [stmt EXCEPT !.superseded = TRUE].sth = stmt.sth
           /\ [stmt EXCEPT !.superseded = TRUE].cached = stmt.cached
           /\ [stmt EXCEPT !.superseded = TRUE].superseded
BY DEF Stmt

LEMMA ConstructedFields ==
    ASSUME NEW h \in Handles, NEW c \in BOOLEAN
    PROVE  /\ Constructed(h, c) \in Stmt
           /\ Constructed(h, c).sth = h
           /\ Constructed(h, c).cached = c
           /\ ~Constructed(h, c).superseded
BY DEF Stmt, Constructed

LEMMA PrepareHitStep ==
    ASSUME IInv, NEW s \in Stmts, NEW t \in Texts, stmts[s] = None,
           PrepareHit(s, t)
    PROVE  IInv'
<1>0. PICK h \in Handles : h = cache[t]
  BY NoneAssumption DEF PrepareHit, IInv, TypeOK
<1> DEFINE new == Constructed(h, TRUE)
<1>1. /\ CacheHas(h)
      /\ native[h] # "free"
      /\ \A r \in Results : ~Reads(r, h)
      /\ \A r \in Results : ~Owns(r, h)
  <2>1. CacheHas(h) /\ native[h] # "free"
    BY <1>0, NoneAssumption DEF IInv, TypeOK, CacheInv, CacheHas
  <2>2. \A r \in Results : ~Reads(r, h)
    BY <1>0, UnreadHandle DEF PrepareHit
  <2> QED BY <2>1, <2>2 DEF IInv, ResultInv, Owns
<1>2. /\ new \in Stmt /\ new # None
      /\ new.sth = h
      /\ new.cached /\ ~new.superseded
  BY <1>1, ConstructedFields, NoneAssumption
<1>3. /\ stmts'[s] = new
      /\ stmts' \in [Stmts -> Stmt \cup {None}]
      /\ \A q \in Stmts \ {s} :
            /\ stmts'[q] = None <=> stmts[q] = None
            /\ stmts[q] # None =>
                  /\ stmts'[q].sth = stmts[q].sth
                  /\ stmts'[q].cached = stmts[q].cached
                  /\ stmts[q].sth = h => stmts'[q].superseded
                  /\ stmts[q].sth # h => stmts'[q].superseded = stmts[q].superseded
  <2>1. /\ stmts' = [q \in Stmts |->
                IF q = s THEN new
                ELSE IF q \in StmtsOf(h) THEN [stmts[q] EXCEPT !.superseded = TRUE]
                ELSE stmts[q]]
        /\ stmts \in [Stmts -> Stmt \cup {None}]
        /\ TRUE \in BOOLEAN
    BY <1>0 DEF PrepareHit, IInv, TypeOK
  <2> HIDE DEF new
  <2>2. ASSUME NEW q \in Stmts \ {s}
        PROVE  /\ stmts'[q] \in Stmt \cup {None}
               /\ stmts'[q] = None <=> stmts[q] = None
               /\ stmts[q] # None =>
                  /\ stmts'[q].sth = stmts[q].sth
                  /\ stmts'[q].cached = stmts[q].cached
                  /\ stmts[q].sth = h => stmts'[q].superseded
                  /\ stmts[q].sth # h => stmts'[q].superseded = stmts[q].superseded
    <3>1. CASE q \in StmtsOf(h)
      <4>1. /\ stmts[q] \in Stmt /\ stmts[q].sth = h
            /\ stmts'[q] = [stmts[q] EXCEPT !.superseded = TRUE]
        BY <2>1, <3>1 DEF StmtsOf
      <4>2. [stmts[q] EXCEPT !.superseded = TRUE] \in Stmt
        BY <4>1, SupersededFields
      <4>3. stmts[q] # None /\ stmts'[q] # None
        BY <4>1, <4>2, NoneAssumption
      <4> QED BY <4>1, <4>2, <4>3, SupersededFields
    <3>2. CASE q \notin StmtsOf(h)
      <4>1. stmts'[q] = stmts[q] /\ (stmts[q] # None => stmts[q].sth # h)
        BY <2>1, <3>2 DEF StmtsOf
      <4> QED BY <4>1, <2>1
    <3> QED BY <3>1, <3>2
  <2> QED BY <2>1, <2>2, <1>2
<1>4. /\ native' = [native EXCEPT ![h] = "ready"]
      /\ bound' = bound \ {h}
      /\ UNCHANGED <<open, cache, results>>
  BY <1>0 DEF PrepareHit
<1>5. TypeOK'
  BY <1>1, <1>3, <1>4 DEF IInv, TypeOK
<1> HIDE DEF new
<1>6. /\ native'[h] = "ready"
      /\ \A g \in Handles \ {h} : native'[g] = native[g]
  BY <1>1, <1>4 DEF IInv, TypeOK
<1>7. /\ Has(s, h)'
      /\ \A g \in Handles : ~Has(s, g)
      /\ \A g \in Handles : Has(s, g)' <=> g = h
      /\ \A q \in Stmts \ {s}, g \in Handles : Has(q, g)' <=> Has(q, g)
  BY <1>2, <1>3 DEF Has
<1>8. CacheInv'
  BY <1>4, <1>6, NoneAssumption DEF IInv, TypeOK, CacheInv
<1>9. StmtInv'
  BY <1>1, <1>2, <1>3, <1>4, <1>6, <1>7 DEF IInv, TypeOK, StmtInv, Has, CacheHas
<1>10. ResultInv'
  BY <1>1, <1>4, <1>6, <1>7 DEF IInv, TypeOK, Result, ResultInv, Owns, CacheHas
<1>11. NoOrphans'
  BY <1>1, <1>3, <1>4, <1>6, <1>7 DEF IInv, NoOrphans, Owns, CacheHas
<1>12. RowInv'
  BY <1>1, <1>4, <1>6, <1>7 DEF IInv, RowInv, Owns, Reads
<1>13. ParamInv'
  BY <1>1, <1>2, <1>3, <1>4, <1>7 DEF IInv, TypeOK, ParamInv, Usable, Has, CacheHas
<1> QED BY <1>5, <1>8, <1>9, <1>10, <1>11, <1>12, <1>13 DEF IInv

LEMMA PrepareMissStep ==
    ASSUME IInv, NEW s \in Stmts, NEW t \in Texts, NEW h \in Handles,
           NEW cache_it \in BOOLEAN, stmts[s] = None,
           PrepareMiss(s, t, h, cache_it)
    PROVE  IInv'
<1> DEFINE new == Constructed(h, cache_it)
<1>1. /\ ~CacheHas(h)
      /\ \A q \in Stmts : ~Has(q, h)
      /\ \A r \in Results : ~Owns(r, h) /\ ~Reads(r, h)
      /\ h \notin bound
  BY FreeHandle DEF PrepareMiss
<1>2. /\ new \in Stmt /\ new # None /\ h # None
      /\ new.sth = h
      /\ new.cached = cache_it /\ ~new.superseded
  BY ConstructedFields, NoneAssumption
<1> HIDE DEF new
<1>3. /\ stmts'[s] = new
      /\ stmts' \in [Stmts -> Stmt \cup {None}]
      /\ \A q \in Stmts \ {s} : stmts'[q] = stmts[q]
  BY <1>2 DEF PrepareMiss, IInv, TypeOK, new
<1>4. /\ native'[h] = "ready"
      /\ \A g \in Handles \ {h} : native'[g] = native[g]
      /\ UNCHANGED <<open, bound, results>>
  BY DEF PrepareMiss, IInv, TypeOK
<1>5. /\ cache' \in [Texts -> Handles \cup {None}]
      /\ cache_it => cache'[t] = h /\ cache[t] = None
      /\ ~cache_it => cache' = cache
      /\ \A u \in Texts \ {t} : cache'[u] = cache[u]
  BY DEF PrepareMiss, IInv, TypeOK
<1>6. TypeOK'
  BY <1>3, <1>4, <1>5 DEF PrepareMiss, IInv, TypeOK
<1>7. /\ CacheHas(h)' <=> cache_it
      /\ \A g \in Handles \ {h} : CacheHas(g)' <=> CacheHas(g)
  BY <1>1, <1>2, <1>5, NoneAssumption DEF CacheHas
<1>8. /\ \A g \in Handles : ~Has(s, g)
      /\ \A g \in Handles : Has(s, g)' <=> g = h
      /\ \A q \in Stmts \ {s}, g \in Handles : Has(q, g)' <=> Has(q, g)
  BY <1>2, <1>3 DEF Has
<1>9. CacheInv'
  BY <1>1, <1>2, <1>4, <1>5 DEF IInv, TypeOK, CacheInv, CacheHas
<1>10. StmtInv'
  BY <1>1, <1>2, <1>3, <1>4, <1>7, <1>8 DEF IInv, TypeOK, Stmt, StmtInv, Has
<1>11. ResultInv'
  BY <1>1, <1>4, <1>7, <1>8 DEF IInv, TypeOK, Result, ResultInv, Owns
<1>12. NoOrphans'
  BY <1>2, <1>3, <1>4, <1>7, <1>8 DEF IInv, NoOrphans, Owns
<1>13. RowInv'
  BY <1>1, <1>4, <1>8 DEF IInv, RowInv, Owns, Reads
<1>14. ParamInv'
  <2>1. \A q \in Stmts \ {s} : Usable(q)' <=> Usable(q)
    BY <1>3 DEF Usable
  <2>2. \A q, u \in Stmts : Usable(q)' /\ Usable(u)'
                             /\ stmts'[q].sth = stmts'[u].sth => q = u
    BY <1>1, <1>2, <1>3, <1>4, <2>1 DEF IInv, ParamInv, Usable, Has
  <2>3. \A g \in bound' : CacheHas(g)' \/ \E q \in Stmts : Has(q, g)'
    BY <1>1, <1>4, <1>7, <1>8 DEF IInv, TypeOK, ParamInv
  <2> QED BY <2>2, <2>3 DEF ParamInv
<1> QED BY <1>6, <1>9, <1>10, <1>11, <1>12, <1>13, <1>14 DEF IInv

(* What binds or resets a statement: its own parameters, and the state of   *)
(* its handle, which no result reads.                                       *)
LEMMA OwnParams ==
    ASSUME IInv, NEW s \in Stmts, NEW b \in BOOLEAN, Usable(s),
           NEW h \in Handles, h = stmts[s].sth,
           \A r \in Results : ~Reads(r, h),
           native' = [native EXCEPT ![h] = "ready"],
           bound' = IF b THEN bound \cup {h} ELSE bound \ {h},
           UNCHANGED <<open, cache, stmts, results>>
    PROVE  IInv'
<1>1. native[h] # "free" /\ Has(s, h)
  BY DEF IInv, StmtInv, Usable, Has
<1>2. /\ native'[h] = "ready"
      /\ \A g \in Handles \ {h} : native'[g] = native[g]
  BY DEF IInv, TypeOK
<1>3. TypeOK'
  BY DEF IInv, TypeOK
<1>4. CacheInv'
  BY <1>2 DEF IInv, TypeOK, CacheInv
<1>5. StmtInv'
  BY <1>1, <1>2 DEF IInv, TypeOK, Stmt, StmtInv, CacheHas, Has
<1>6. ResultInv'
  BY <1>1, <1>2 DEF IInv, TypeOK, Result, ResultInv, Owns, CacheHas, Has
<1>7. NoOrphans'
  BY <1>1, <1>2 DEF IInv, NoOrphans, Owns, CacheHas, Has
<1>8. RowInv'
  BY <1>2 DEF IInv, RowInv, Owns, Reads, Has
<1>9. ParamInv'
  <2>1. \A q, u \in Stmts : Usable(q)' /\ Usable(u)'
                             /\ stmts'[q].sth = stmts'[u].sth => q = u
    BY DEF IInv, ParamInv, Usable
  <2>2. \A g \in bound' : CacheHas(g)' \/ \E q \in Stmts : Has(q, g)'
    BY <1>1 DEF IInv, TypeOK, ParamInv, CacheHas, Has
  <2> QED BY <2>1, <2>2 DEF ParamInv
<1> QED BY <1>3, <1>4, <1>5, <1>6, <1>7, <1>8, <1>9 DEF IInv

LEMMA BindStep ==
    ASSUME IInv, NEW s \in Stmts, Bind(s) PROVE IInv'
<1>1. PICK h \in Handles : h = stmts[s].sth
  BY DEF Bind, Usable, IInv, TypeOK, Stmt
<1>2. native' = [native EXCEPT ![h] = "ready"]
  BY <1>1 DEF Bind, IInv, TypeOK
<1>3. \A r \in Results : ~Reads(r, h)
  BY <1>1 DEF Bind, IInv, RowInv
<1>4. bound' = IF TRUE THEN bound \cup {h} ELSE bound \ {h}
  BY <1>1 DEF Bind
<1> QED BY <1>1, <1>2, <1>3, <1>4, OwnParams DEF Bind

LEMMA ResetStep ==
    ASSUME IInv, NEW s \in Stmts, Reset(s) PROVE IInv'
<1>1. PICK h \in Handles : h = stmts[s].sth
  BY DEF Reset, Usable, IInv, TypeOK, Stmt
<1>2. native' = [native EXCEPT ![h] = "ready"]
  BY <1>1 DEF Reset
<1>3. \A r \in Results : ~Reads(r, h)
  BY <1>1, UnreadHandle DEF Reset
<1>4. bound' = IF FALSE THEN bound \cup {h} ELSE bound \ {h}
  BY <1>1 DEF Reset
<1> QED BY <1>1, <1>2, <1>3, <1>4, OwnParams DEF Reset

-----------------------------------------------------------------------------
LEMMA StepUnchanged == IInv /\ UNCHANGED vars => IInv'
BY DEF vars, IInv, TypeOK, CacheInv, StmtInv, ResultInv, NoOrphans, RowInv,
       ParamInv, CacheHas, Has, Owns, Reads, Usable

LEMMA OpenStep == IInv /\ Open => IInv'
BY DEF Open, IInv, TypeOK, CacheInv, StmtInv, ResultInv, NoOrphans, RowInv,
       ParamInv, CacheHas, Has, Owns, Reads, Usable

(* A step that leaves the cache, the statements and the parameters alone,   *)
(* frees no handle and changes nothing of who owns what keeps all but the   *)
(* rows.                                                                    *)
LEMMA SameOwners ==
    ASSUME IInv, UNCHANGED <<open, cache, bound, stmts>>,
           native' \in [Handles -> {"free", "ready", "row", "failed"}],
           results' \in [Results -> Result \cup {None}],
           \A g \in Handles : native'[g] = "free" <=> native[g] = "free",
           \A q \in Results, g \in Handles : Owns(q, g)' <=> Owns(q, g)
    PROVE  TypeOK' /\ CacheInv' /\ StmtInv' /\ ResultInv' /\ NoOrphans' /\ ParamInv'
<1>1. TypeOK'
  BY DEF IInv, TypeOK
<1>2. CacheInv' /\ StmtInv'
  BY NoneAssumption DEF IInv, TypeOK, Stmt, CacheInv, StmtInv, CacheHas, Has
<1>3. ResultInv'
  <2> SUFFICES ASSUME NEW q \in Results, NEW g \in Handles, Owns(q, g)'
               PROVE  /\ native'[g] # "free"
                      /\ ~CacheHas(g)
                      /\ \A s \in Stmts : ~Has(s, g)
                      /\ \A r \in Results : Owns(r, g)' => r = q
    BY DEF ResultInv, Owns, Has, CacheHas, Result
  <2> QED BY DEF IInv, ResultInv, Owns
<1>4. NoOrphans'
  BY DEF IInv, NoOrphans, CacheHas, Has
<1>5. ParamInv'
  BY DEF IInv, ParamInv, Usable, CacheHas, Has
<1> QED BY <1>1, <1>2, <1>3, <1>4, <1>5

LEMMA ExecStep ==
    ASSUME IInv, NEW s \in Stmts, NEW r \in Results, Exec(s, r) PROVE IInv'
<1>1. PICK h \in Handles : h = stmts[s].sth
  BY DEF Exec, Usable, IInv, TypeOK, Stmt
<1>2. /\ native[h] # "free" /\ native[h] # "row"
      /\ Has(s, h)
      /\ \A q \in Results, g \in Handles : Owns(q, g) => g # h
      /\ \A q \in Results : ~Reads(q, h)
  BY <1>1 DEF Exec, Usable, Has, IInv, StmtInv, ResultInv, RowInv, Owns
<1>3. /\ \A g \in Handles \ {h} : native'[g] = native[g]
      /\ native'[h] \in {"ready", "row", "failed"}
      /\ native' \in [Handles -> {"free", "ready", "row", "failed"}]
  BY <1>1 DEF Exec, IInv, TypeOK
<1>4. /\ results' \in [Results -> Result \cup {None}]
      /\ \A q \in Results \ {r} : results'[q] = results[q]
      /\ results[r] = None
      /\ results'[r] # None => /\ ~results'[r].owned
                               /\ results'[r].sth = h
                               /\ results'[r].state = "ROW" => native'[h] = "row"
  <2>1. /\ results[r] = None
        /\ results \in [Results -> Result \cup {None}]
        /\ native \in [Handles -> {"free", "ready", "row", "failed"}]
    BY DEF Exec, IInv, TypeOK
  <2>2. /\ Borrowed(h, "ROW") \in Result /\ Borrowed(h, "DONE") \in Result
        /\ Borrowed(h, "ROW").sth = h /\ Borrowed(h, "DONE").sth = h
        /\ ~Borrowed(h, "ROW").owned /\ ~Borrowed(h, "DONE").owned
        /\ Borrowed(h, "DONE").state = "DONE"
    BY DEF Borrowed, Result
  <2>3. \/ /\ native' = [native EXCEPT ![h] = "row"]
           /\ results' = [results EXCEPT ![r] = Borrowed(h, "ROW")]
        \/ results' = [results EXCEPT ![r] = Borrowed(h, "DONE")]
        \/ UNCHANGED results
    BY <1>1 DEF Exec
  <2> QED BY <2>1, <2>2, <2>3
<1>5. /\ \A q \in Results, g \in Handles : Owns(q, g)' <=> Owns(q, g)
      /\ \A q \in Results, g \in Handles :
            Reads(q, g)' => \/ Reads(q, g) /\ q # r
                            \/ q = r /\ g = h /\ native'[h] = "row"
                                /\ ~results'[r].owned
  BY <1>4 DEF Owns, Reads
<1>6. UNCHANGED <<open, cache, bound, stmts>>
  BY DEF Exec
<1>7. TypeOK' /\ CacheInv' /\ StmtInv' /\ ResultInv' /\ NoOrphans' /\ ParamInv'
  BY <1>2, <1>3, <1>4, <1>5, <1>6, SameOwners
<1>8. \A q \in Results, g \in Handles : Reads(q, g)' =>
         /\ native'[g] = "row"
         /\ \A u \in Results : Reads(u, g)' => u = q
         /\ ~results'[q].owned => \A u \in Results : ~Owns(u, g)'
  BY <1>2, <1>3, <1>4, <1>5 DEF IInv, RowInv
<1>9. \A g \in Handles : native'[g] \in {"row", "failed"} =>
         \/ \E q \in Stmts : Has(q, g)'
         \/ \E q \in Results : Owns(q, g)'
  BY <1>2, <1>3, <1>5, <1>6 DEF IInv, RowInv, Has
<1>10. RowInv'
  BY <1>8, <1>9 DEF RowInv
<1> QED BY <1>7, <1>10 DEF IInv

LEMMA ExecSqlStep ==
    ASSUME IInv, NEW r \in Results, ExecSql(r) PROVE IInv'
<1>1. CASE UNCHANGED <<native, results>>
  BY <1>1, StepUnchanged DEF ExecSql, vars
<1>2. ASSUME NEW h \in Handles, native[h] = "free", NEW state \in {"ROW", "DONE"},
             native' = [native EXCEPT ![h] = IF state = "ROW" THEN "row" ELSE "ready"],
             results' = [results EXCEPT ![r] = Owned(h, state)]
      PROVE  IInv'
  <2>1. /\ ~CacheHas(h)
        /\ \A s \in Stmts : ~Has(s, h)
        /\ \A q \in Results : ~Owns(q, h) /\ ~Reads(q, h)
        /\ h \notin bound
    BY <1>2, FreeHandle
  <2>2. /\ UNCHANGED <<open, cache, bound, stmts>>
        /\ results[r] = None
    BY DEF ExecSql
  <2>3. /\ Owned(h, state) \in Result /\ Owned(h, state) # None
        /\ Owned(h, state).sth = h /\ Owned(h, state).owned
        /\ Owned(h, state).state = state
    <3>1. /\ Owned(h, state) \in Result
          /\ Owned(h, state).sth = h /\ Owned(h, state).owned
          /\ Owned(h, state).state = state
      BY DEF Owned, Result
    <3> QED BY <3>1, NoneAssumption
  <2>4. /\ results' \in [Results -> Result \cup {None}]
        /\ \A q \in Results \ {r} : results'[q] = results[q]
        /\ results'[r] = Owned(h, state)
    BY <1>2, <2>3 DEF IInv, TypeOK
  <2>5. /\ native' \in [Handles -> {"free", "ready", "row", "failed"}]
        /\ native'[h] = IF state = "ROW" THEN "row" ELSE "ready"
        /\ \A g \in Handles \ {h} : native'[g] = native[g]
    BY <1>2 DEF IInv, TypeOK
  <2>6. /\ \A g \in Handles : Owns(r, g)' <=> g = h
        /\ \A g \in Handles : ~Owns(r, g) /\ ~Reads(r, g)
        /\ \A q \in Results \ {r}, g \in Handles :
              /\ Owns(q, g)' <=> Owns(q, g)
              /\ Reads(q, g)' <=> Reads(q, g)
        /\ \A g \in Handles : Reads(r, g)' <=> (g = h /\ state = "ROW")
        /\ \A g \in Handles : CacheHas(g)' <=> CacheHas(g)
        /\ \A q \in Stmts, g \in Handles : Has(q, g)' <=> Has(q, g)
    BY <2>2, <2>3, <2>4 DEF Owns, Reads, CacheHas, Has
  <2>7. TypeOK'
    BY <2>2, <2>4, <2>5 DEF IInv, TypeOK
  <2>8. CacheInv'
    BY <1>2, <2>2, <2>5, NoneAssumption DEF IInv, TypeOK, CacheInv
  <2>9. StmtInv'
    BY <1>2, <2>2, <2>5, <2>6 DEF IInv, TypeOK, Stmt, StmtInv
  <2>10. ResultInv'
    <3> SUFFICES ASSUME NEW q \in Results, NEW g \in Handles, Owns(q, g)'
                 PROVE  /\ native'[g] # "free"
                        /\ ~CacheHas(g)'
                        /\ \A s \in Stmts : ~Has(s, g)'
                        /\ \A u \in Results : Owns(u, g)' => u = q
      BY <2>4 DEF ResultInv, Owns, Has, CacheHas, Result
    <3> QED BY <2>1, <2>5, <2>6 DEF IInv, ResultInv, Owns
  <2>11. NoOrphans'
    BY <2>2, <2>5, <2>6 DEF IInv, NoOrphans
  <2>12. RowInv'
    BY <2>1, <2>3, <2>4, <2>5, <2>6 DEF IInv, RowInv
  <2>13. ParamInv'
    BY <2>2 DEF IInv, ParamInv, Usable, CacheHas, Has
  <2> QED BY <2>7, <2>8, <2>9, <2>10, <2>11, <2>12, <2>13 DEF IInv
<1> QED BY <1>1, <1>2 DEF ExecSql, ExecSqlFails

LEMMA NextRowStep ==
    ASSUME IInv, NEW r \in Results, NextRow(r) PROVE IInv'
<1>1. CASE UNCHANGED <<native, results>>
  BY <1>1, StepUnchanged DEF NextRow, vars
<1>2. CASE NextDone(r) \/ NextFails(r)
  <2>1. PICK h \in Handles : h = results[r].sth
    BY DEF NextRow, IInv, TypeOK, Result
  <2>2. /\ Reads(r, h) /\ native[h] = "row"
        /\ \A q \in Results : Reads(q, h) => q = r
    BY <2>1 DEF NextRow, Reads, IInv, RowInv
  <2>3. /\ native' \in [Handles -> {"free", "ready", "row", "failed"}]
        /\ native'[h] \in {"ready", "failed"}
        /\ \A g \in Handles \ {h} : native'[g] = native[g]
    BY <1>2, <2>1 DEF NextDone, NextFails, IInv, TypeOK
  <2>4. /\ results' \in [Results -> Result \cup {None}]
        /\ \A q \in Results \ {r} : results'[q] = results[q]
        /\ results'[r] # None
        /\ results'[r].sth = h /\ results'[r].owned = results[r].owned
        /\ results'[r].state # "ROW"
    <3>1. PICK result \in Result : result = results[r]
      BY DEF NextRow, IInv, TypeOK
    <3>2. /\ [result EXCEPT !.state = "DONE"] \in Result
          /\ [result EXCEPT !.state = "DONE"].sth = result.sth
          /\ [result EXCEPT !.state = "DONE"].owned = result.owned
          /\ [result EXCEPT !.state = "DONE"].state = "DONE"
          /\ [result EXCEPT !.state = "FAILURE"] \in Result
          /\ [result EXCEPT !.state = "FAILURE"].sth = result.sth
          /\ [result EXCEPT !.state = "FAILURE"].owned = result.owned
          /\ [result EXCEPT !.state = "FAILURE"].state = "FAILURE"
      BY DEF Result
    <3>3. PICK changed \in {[result EXCEPT !.state = "DONE"],
                            [result EXCEPT !.state = "FAILURE"]} :
             results' = [results EXCEPT ![r] = changed]
      BY <1>2, <3>1 DEF NextDone, NextFails
    <3>4. /\ changed \in Result /\ changed # None
          /\ changed.sth = h /\ changed.owned = results[r].owned
          /\ changed.state # "ROW"
      BY <2>1, <3>1, <3>2, <3>3, NoneAssumption
    <3> QED BY <3>3, <3>4 DEF IInv, TypeOK
  <2>5. /\ \A q \in Results, g \in Handles : Owns(q, g)' <=> Owns(q, g)
        /\ \A q \in Results, g \in Handles :
              Reads(q, g)' => Reads(q, g) /\ q # r
    BY <2>1, <2>2, <2>4 DEF Owns, Reads
  <2>6. UNCHANGED <<open, cache, bound, stmts>>
    BY DEF NextRow
  <2>7. TypeOK' /\ CacheInv' /\ StmtInv' /\ ResultInv' /\ NoOrphans' /\ ParamInv'
    BY <2>2, <2>3, <2>4, <2>5, <2>6, SameOwners
  <2>8. RowInv'
    BY <2>2, <2>3, <2>4, <2>5, <2>6 DEF IInv, RowInv, Has
  <2> QED BY <2>7, <2>8 DEF IInv
<1> QED BY <1>1, <1>2 DEF NextRow

LEMMA MoveResultStep ==
    ASSUME IInv, NEW r \in Results, NEW other \in Results, MoveResult(r, other)
    PROVE  IInv'
<1>1. /\ r # other
      /\ results[r] = None /\ results[other] # None
      /\ results' \in [Results -> Result \cup {None}]
      /\ results'[r] = results[other] /\ results'[other] = None
      /\ \A q \in Results \ {r, other} : results'[q] = results[q]
      /\ UNCHANGED <<open, cache, native, bound, stmts>>
  BY DEF MoveResult, IInv, TypeOK
<1>2. /\ \A g \in Handles :
            /\ Owns(r, g)' <=> Owns(other, g)
            /\ Reads(r, g)' <=> Reads(other, g)
            /\ ~Owns(other, g)' /\ ~Reads(other, g)'
            /\ ~Owns(r, g) /\ ~Reads(r, g)
      /\ \A q \in Results \ {r, other}, g \in Handles :
            /\ Owns(q, g)' <=> Owns(q, g)
            /\ Reads(q, g)' <=> Reads(q, g)
      /\ \A g \in Handles : CacheHas(g)' <=> CacheHas(g)
      /\ \A q \in Stmts, g \in Handles : Has(q, g)' <=> Has(q, g)
  BY <1>1 DEF Owns, Reads, CacheHas, Has
<1>3. TypeOK' /\ CacheInv' /\ StmtInv' /\ ParamInv'
  BY <1>1 DEF IInv, TypeOK, CacheInv, StmtInv, ParamInv, Usable, CacheHas, Has
<1>4. ResultInv'
  <2> SUFFICES ASSUME NEW q \in Results, NEW g \in Handles, Owns(q, g)'
               PROVE  /\ native'[g] # "free"
                      /\ ~CacheHas(g)'
                      /\ \A s \in Stmts : ~Has(s, g)'
                      /\ \A u \in Results : Owns(u, g)' => u = q
    BY <1>1 DEF ResultInv, Owns, Has, CacheHas, Result
  <2> QED BY <1>1, <1>2 DEF IInv, ResultInv, Owns
<1>5. NoOrphans'
  BY <1>1, <1>2 DEF IInv, NoOrphans
<1>6. RowInv'
  <2>1. \A q \in Results, g \in Handles : Reads(q, g)' =>
           /\ native'[g] = "row"
           /\ \A u \in Results : Reads(u, g)' => u = q
           /\ ~results'[q].owned => \A u \in Results : ~Owns(u, g)'
    BY <1>1, <1>2 DEF IInv, RowInv
  <2>2. \A g \in Handles : native'[g] \in {"row", "failed"} =>
           \/ \E q \in Stmts : Has(q, g)'
           \/ \E q \in Results : Owns(q, g)'
    BY <1>1, <1>2 DEF IInv, RowInv
  <2> QED BY <2>1, <2>2 DEF RowInv
<1> QED BY <1>3, <1>4, <1>5, <1>6 DEF IInv

LEMMA DestroyResultStep ==
    ASSUME IInv, NEW r \in Results, DestroyResult(r) PROVE IInv'
<1>1. PICK h \in Handles : h = results[r].sth
  BY DEF DestroyResult, IInv, TypeOK, Result
<1>2. /\ results[r] # None
      /\ results' \in [Results -> Result \cup {None}]
      /\ results'[r] = None
      /\ \A q \in Results \ {r} : results'[q] = results[q]
      /\ native' \in [Handles -> {"free", "ready", "row", "failed"}]
      /\ \A g \in Handles \ {h} : native'[g] = native[g]
      /\ results[r].owned => native'[h] = "free"
      /\ ~results[r].owned => native'[h] = native[h]
      /\ UNCHANGED <<open, cache, bound, stmts>>
  BY <1>1 DEF DestroyResult, IInv, TypeOK
<1>3. /\ \A g \in Handles : ~Owns(r, g)' /\ ~Reads(r, g)'
      /\ \A g \in Handles : Owns(r, g) <=> results[r].owned /\ g = h
      /\ \A q \in Results \ {r}, g \in Handles :
            /\ Owns(q, g)' <=> Owns(q, g)
            /\ Reads(q, g)' <=> Reads(q, g)
      /\ \A g \in Handles : CacheHas(g)' <=> CacheHas(g)
      /\ \A q \in Stmts, g \in Handles : Has(q, g)' <=> Has(q, g)
  BY <1>1, <1>2 DEF Owns, Reads, CacheHas, Has
<1>4. results[r].owned =>
         /\ ~CacheHas(h)
         /\ \A s \in Stmts : ~Has(s, h)
         /\ \A q \in Results \ {r} : ~Owns(q, h) /\ ~Reads(q, h)
  <2> SUFFICES ASSUME Owns(r, h)
               PROVE  /\ ~CacheHas(h)
                      /\ \A s \in Stmts : ~Has(s, h)
                      /\ \A q \in Results \ {r} : ~Owns(q, h) /\ ~Reads(q, h)
    BY <1>3
  <2>1. /\ ~CacheHas(h)
        /\ \A s \in Stmts : ~Has(s, h)
        /\ \A q \in Results : Owns(q, h) => q = r
    BY DEF IInv, ResultInv, Owns
  <2>2. ASSUME NEW q \in Results \ {r} PROVE ~Reads(q, h)
    <3> SUFFICES ASSUME Reads(q, h) PROVE FALSE
      OBVIOUS
    <3>1. results[q].owned
      BY DEF IInv, RowInv
    <3>2. Owns(q, h)
      BY <3>1 DEF Reads, Owns
    <3> QED BY <2>1, <3>2
  <2> QED BY <2>1, <2>2
<1>5. TypeOK'
  BY <1>2 DEF IInv, TypeOK
<1>6. CacheInv'
  BY <1>2, <1>4, NoneAssumption DEF IInv, TypeOK, CacheInv, CacheHas
<1>7. StmtInv'
  BY <1>2, <1>3, <1>4 DEF IInv, TypeOK, Stmt, StmtInv, Has
<1>8. ResultInv'
  <2> SUFFICES ASSUME NEW q \in Results, NEW g \in Handles, Owns(q, g)'
               PROVE  /\ native'[g] # "free"
                      /\ ~CacheHas(g)'
                      /\ \A s \in Stmts : ~Has(s, g)'
                      /\ \A u \in Results : Owns(u, g)' => u = q
    BY <1>2 DEF ResultInv, Owns, Has, CacheHas, Result
  <2> QED BY <1>2, <1>3, <1>4 DEF IInv, ResultInv, Owns
<1>9. NoOrphans'
  BY <1>2, <1>3, <1>4 DEF IInv, NoOrphans
<1>10. RowInv'
  <2>1. \A q \in Results, g \in Handles : Reads(q, g)' =>
           /\ native'[g] = "row"
           /\ \A u \in Results : Reads(u, g)' => u = q
           /\ ~results'[q].owned => \A u \in Results : ~Owns(u, g)'
    BY <1>2, <1>3, <1>4 DEF IInv, RowInv
  <2>2. \A g \in Handles : native'[g] \in {"row", "failed"} =>
           \/ \E q \in Stmts : Has(q, g)'
           \/ \E q \in Results : Owns(q, g)'
    BY <1>2, <1>3 DEF IInv, RowInv
  <2> QED BY <2>1, <2>2 DEF RowInv
<1>11. ParamInv'
  BY <1>2 DEF IInv, ParamInv, Usable, CacheHas, Has
<1> QED BY <1>5, <1>6, <1>7, <1>8, <1>9, <1>10, <1>11 DEF IInv

-----------------------------------------------------------------------------
(* What the destructor of a statement leaves: a cached handle stays in use, *)
(* another one is free, and was of no other statement.                      *)
LEMMA DestructorEffect ==
    ASSUME IInv, NEW s \in Stmts, stmts[s] # None, Destructor(s),
           NEW h \in Handles, h = stmts[s].sth
    PROVE  /\ native' \in [Handles -> {"free", "ready", "row", "failed"}]
           /\ \A g \in Handles \ {h} : native'[g] = native[g]
           /\ native[h] # "free"
           /\ CacheHas(h) => native'[h] = "ready" /\ bound' = bound
           /\ ~CacheHas(h) => /\ native'[h] = "free" /\ bound' = bound \ {h}
                              /\ \A q \in Stmts \ {s} : ~Has(q, h)
           /\ \A r \in Results : ~Reads(r, h) /\ ~Owns(r, h)
<1>1. /\ native[h] # "free"
      /\ stmts[s].cached <=> CacheHas(h)
      /\ ~CacheHas(h) => \A q \in Stmts \ {s} : ~Has(q, h)
      /\ Has(s, h)
  BY DEF IInv, StmtInv, Has
<1>2. \A r \in Results : ~Reads(r, h) /\ ~Owns(r, h)
  BY <1>1, UnreadHandle DEF Destructor, IInv, ResultInv, Owns
<1>3. /\ native' = [native EXCEPT ![h] = IF stmts[s].cached THEN "ready" ELSE "free"]
      /\ bound' = IF stmts[s].cached THEN bound ELSE bound \ {h}
  BY DEF Destructor
<1> QED BY <1>1, <1>2, <1>3 DEF IInv, TypeOK

LEMMA DestroyStep ==
    ASSUME IInv, NEW s \in Stmts, Destroy(s) PROVE IInv'
<1>1. PICK h \in Handles : h = stmts[s].sth
  BY DEF Destroy, IInv, TypeOK, Stmt
<1>2. /\ native' \in [Handles -> {"free", "ready", "row", "failed"}]
      /\ \A g \in Handles \ {h} : native'[g] = native[g]
      /\ native[h] # "free"
      /\ CacheHas(h) => native'[h] = "ready" /\ bound' = bound
      /\ ~CacheHas(h) => /\ native'[h] = "free" /\ bound' = bound \ {h}
                         /\ \A q \in Stmts \ {s} : ~Has(q, h)
      /\ \A r \in Results : ~Reads(r, h) /\ ~Owns(r, h)
  BY <1>1, DestructorEffect DEF Destroy
<1>3. /\ stmts[s] # None
      /\ stmts' \in [Stmts -> Stmt \cup {None}]
      /\ stmts'[s] = None
      /\ \A q \in Stmts \ {s} : stmts'[q] = stmts[q]
      /\ UNCHANGED <<open, cache, results>>
  BY DEF Destroy, IInv, TypeOK
<1>4. /\ \A g \in Handles : Has(s, g) <=> g = h
      /\ \A g \in Handles : ~Has(s, g)'
      /\ \A q \in Stmts \ {s}, g \in Handles : Has(q, g)' <=> Has(q, g)
      /\ \A g \in Handles : CacheHas(g)' <=> CacheHas(g)
      /\ \A r \in Results, g \in Handles : /\ Owns(r, g)' <=> Owns(r, g)
                                           /\ Reads(r, g)' <=> Reads(r, g)
  BY <1>1, <1>3 DEF Has, CacheHas, Owns, Reads
<1>5. TypeOK'
  BY <1>2, <1>3 DEF IInv, TypeOK
<1>6. CacheInv'
  BY <1>2, <1>3, NoneAssumption DEF IInv, TypeOK, CacheInv, CacheHas
<1>7. StmtInv'
  BY <1>2, <1>3, <1>4 DEF IInv, TypeOK, Stmt, StmtInv, Has
<1>8. ResultInv'
  <2> SUFFICES ASSUME NEW q \in Results, NEW g \in Handles, Owns(q, g)'
               PROVE  /\ native'[g] # "free"
                      /\ ~CacheHas(g)'
                      /\ \A u \in Stmts : ~Has(u, g)'
                      /\ \A u \in Results : Owns(u, g)' => u = q
    BY <1>3 DEF ResultInv, Owns, Has, CacheHas, IInv, TypeOK, Result
  <2> QED BY <1>2, <1>4 DEF IInv, ResultInv, Owns
<1>9. NoOrphans'
  <2> SUFFICES ASSUME NEW g \in Handles, native'[g] # "free", ~CacheHas(g),
                      \A r \in Results : ~Owns(r, g)
               PROVE  \E q \in Stmts : Has(q, g)' /\ ~stmts'[q].cached
    BY <1>4 DEF NoOrphans
  <2>1. g # h
    BY <1>2
  <2>2. PICK q \in Stmts : Has(q, g) /\ ~stmts[q].cached
    BY <2>1, <1>2 DEF IInv, NoOrphans
  <2> QED BY <2>1, <2>2, <1>3, <1>4
<1>10. RowInv'
  <2>1. \A r \in Results, g \in Handles : Reads(r, g)' =>
           /\ native'[g] = "row"
           /\ \A u \in Results : Reads(u, g)' => u = r
           /\ ~results'[r].owned => \A u \in Results : ~Owns(u, g)'
    BY <1>2, <1>3, <1>4 DEF IInv, RowInv
  <2>2. \A g \in Handles : native'[g] \in {"row", "failed"} =>
           \/ \E q \in Stmts : Has(q, g)'
           \/ \E r \in Results : Owns(r, g)'
    BY <1>2, <1>4 DEF IInv, RowInv
  <2> QED BY <2>1, <2>2 DEF RowInv
<1>11. ParamInv'
  <2>1. /\ \A q \in Stmts : Usable(q)' => q # s /\ Usable(q) /\ stmts'[q] = stmts[q]
        /\ \A q \in Stmts : Usable(q) => stmts[q].sth \in Handles
    BY <1>3 DEF Usable, IInv, TypeOK, Stmt
  <2>2. \A q, u \in Stmts : Usable(q)' /\ Usable(u)'
                             /\ stmts'[q].sth = stmts'[u].sth => q = u
    BY <2>1 DEF IInv, ParamInv
  <2>3. \A g \in bound' : CacheHas(g)' \/ \E q \in Stmts : Has(q, g)'
    BY <1>2, <1>4 DEF IInv, TypeOK, ParamInv
  <2> QED BY <2>2, <2>3 DEF ParamInv
<1> QED BY <1>5, <1>6, <1>7, <1>8, <1>9, <1>10, <1>11 DEF IInv

(* Where the statements are after one was taken from another object.        *)
LEMMA TakenStatement ==
    ASSUME IInv, NEW s \in Stmts, NEW other \in Stmts, Assign(s, other)
    PROVE  /\ s # other /\ stmts[other] # None
           /\ stmts' \in [Stmts -> Stmt \cup {None}]
           /\ stmts'[s] = stmts[other] /\ stmts'[other] = None
           /\ \A q \in Stmts \ {s, other} : stmts'[q] = stmts[q]
           /\ \A g \in Handles : Has(s, g)' <=> Has(other, g)
           /\ \A g \in Handles : ~Has(other, g)'
           /\ \A q \in Stmts \ {s, other}, g \in Handles : Has(q, g)' <=> Has(q, g)
           /\ \A g \in Handles, q \in Stmts \ {s} :
                 Has(q, g) => \E u \in Stmts : Has(u, g)' /\ stmts'[u] = stmts[q]
<1>1. /\ s # other /\ stmts[other] # None
      /\ stmts' \in [Stmts -> Stmt \cup {None}]
      /\ stmts'[s] = stmts[other] /\ stmts'[other] = None
      /\ \A q \in Stmts \ {s, other} : stmts'[q] = stmts[q]
  BY DEF Assign, IInv, TypeOK
<1>2. \A g \in Handles : Has(s, g)' <=> Has(other, g)
  BY <1>1 DEF Has
<1>3. \A g \in Handles : ~Has(other, g)'
  BY <1>1 DEF Has
<1>4. \A q \in Stmts \ {s, other}, g \in Handles : Has(q, g)' <=> Has(q, g)
  BY <1>1 DEF Has
<1>5. ASSUME NEW g \in Handles, NEW q \in Stmts \ {s}, Has(q, g)
      PROVE  \E u \in Stmts : Has(u, g)' /\ stmts'[u] = stmts[q]
  <2>1. CASE q = other
    <3>1. Has(s, g)' /\ stmts'[s] = stmts[q]
      BY <2>1, <1>1, <1>2, <1>5
    <3> QED BY <3>1
  <2>2. CASE q # other
    <3>1. Has(q, g)' /\ stmts'[q] = stmts[q]
      BY <2>2, <1>1, <1>4, <1>5
    <3> QED BY <3>1
  <2> QED BY <2>1, <2>2
<1> QED BY <1>1, <1>2, <1>3, <1>4, <1>5

(* The other object's statement goes to an object that has none.            *)
LEMMA AssignEmptyStep ==
    ASSUME IInv, NEW s \in Stmts, NEW other \in Stmts, Assign(s, other),
           stmts[s] = None
    PROVE  IInv'
<1>1. /\ s # other /\ stmts[other] # None
      /\ stmts' \in [Stmts -> Stmt \cup {None}]
      /\ stmts'[s] = stmts[other] /\ stmts'[other] = None
      /\ \A q \in Stmts \ {s, other} : stmts'[q] = stmts[q]
      /\ \A g \in Handles : Has(s, g)' <=> Has(other, g)
      /\ \A g \in Handles : ~Has(other, g)'
      /\ \A q \in Stmts \ {s, other}, g \in Handles : Has(q, g)' <=> Has(q, g)
      /\ \A g \in Handles, q \in Stmts \ {s} :
            Has(q, g) => \E u \in Stmts : Has(u, g)' /\ stmts'[u] = stmts[q]
  BY TakenStatement
<1>2. /\ UNCHANGED <<open, cache, native, bound, results>>
      /\ \A g \in Handles : ~Has(s, g)
      /\ \A g \in Handles : CacheHas(g)' <=> CacheHas(g)
      /\ \A r \in Results, g \in Handles : /\ Owns(r, g)' <=> Owns(r, g)
                                           /\ Reads(r, g)' <=> Reads(r, g)
      /\ Usable(s)' <=> Usable(other)
      /\ ~Usable(other)' /\ ~Usable(s)
      /\ \A q \in Stmts \ {s, other} : Usable(q)' <=> Usable(q)
  BY <1>1 DEF Assign, Has, CacheHas, Owns, Reads, Usable
<1>3. TypeOK' /\ CacheInv'
  BY <1>1, <1>2 DEF IInv, TypeOK, CacheInv
<1>4. StmtInv'
  <2> SUFFICES ASSUME NEW q \in Stmts, stmts'[q] # None
               PROVE  /\ native'[stmts'[q].sth] # "free"
                      /\ stmts'[q].cached <=> CacheHas(stmts[q].sth)'
                      /\ ~stmts'[q].cached =>
                            \A u \in Stmts : Has(u, stmts[q].sth)' => u = q
    BY DEF StmtInv, Has, CacheHas
  <2>1. PICK v \in Stmts \ {s} : /\ stmts[v] = stmts'[q]
                                 /\ v = IF q = s THEN other ELSE q
    BY <1>1
  <2>2. PICK g \in Handles : g = stmts[v].sth
    BY <2>1 DEF IInv, TypeOK, Stmt
  <2>3. /\ native[g] # "free" /\ Has(v, g)
        /\ stmts[v].cached <=> CacheHas(g)
        /\ ~stmts[v].cached => \A u \in Stmts : Has(u, g) => u = v
    BY <2>1, <2>2 DEF IInv, StmtInv, Has
  <2>4. native'[g] # "free"
    BY <2>3, <1>2
  <2>5. ~stmts[v].cached => \A u \in Stmts : Has(u, g)' => u = q
    BY <2>1, <2>3, <1>1
  <2>6. CacheHas(g)' <=> CacheHas(g)
    BY <1>2
  <2>7. g = stmts'[q].sth /\ stmts[v].cached = stmts'[q].cached
    BY <2>1, <2>2
  <2> QED BY <2>3, <2>4, <2>5, <2>6, <2>7 DEF Has, CacheHas
<1>5. ResultInv'
  <2> SUFFICES ASSUME NEW q \in Results, NEW g \in Handles, Owns(q, g)'
               PROVE  /\ native'[g] # "free"
                      /\ ~CacheHas(g)'
                      /\ \A u \in Stmts : ~Has(u, g)'
                      /\ \A u \in Results : Owns(u, g)' => u = q
    BY <1>2 DEF ResultInv, Owns, Has, CacheHas, IInv, TypeOK, Result
  <2> QED BY <1>1, <1>2 DEF IInv, ResultInv, Owns
<1>6. NoOrphans'
  <2> SUFFICES ASSUME NEW g \in Handles, native[g] # "free", ~CacheHas(g),
                      \A r \in Results : ~Owns(r, g)
               PROVE  \E q \in Stmts : Has(q, g)' /\ ~stmts'[q].cached
    BY <1>2 DEF NoOrphans
  <2>1. PICK q \in Stmts \ {s} : Has(q, g) /\ ~stmts[q].cached
    BY <1>2 DEF IInv, NoOrphans
  <2> QED BY <2>1, <1>1
<1>7. RowInv'
  <2>1. \A r \in Results, g \in Handles : Reads(r, g)' =>
           /\ native'[g] = "row"
           /\ \A u \in Results : Reads(u, g)' => u = r
           /\ ~results'[r].owned => \A u \in Results : ~Owns(u, g)'
    BY <1>2 DEF IInv, RowInv
  <2>2. \A g \in Handles : native'[g] \in {"row", "failed"} =>
           \/ \E q \in Stmts : Has(q, g)'
           \/ \E r \in Results : Owns(r, g)'
    <3> SUFFICES ASSUME NEW g \in Handles, native[g] \in {"row", "failed"},
                        \A r \in Results : ~Owns(r, g)
                 PROVE  \E q \in Stmts : Has(q, g)'
      BY <1>2
    <3>1. PICK q \in Stmts \ {s} : Has(q, g)
      BY <1>2 DEF IInv, RowInv
    <3> QED BY <3>1, <1>1
  <2> QED BY <2>1, <2>2 DEF RowInv
<1>8. ParamInv'
  <2>1. \A q, u \in Stmts : Usable(q)' /\ Usable(u)'
                             /\ stmts'[q].sth = stmts'[u].sth => q = u
    BY <1>1, <1>2 DEF IInv, ParamInv
  <2>2. \A g \in bound' : CacheHas(g)' \/ \E q \in Stmts : Has(q, g)'
    <3> SUFFICES ASSUME NEW g \in Handles, g \in bound, ~CacheHas(g)
                 PROVE  \E q \in Stmts : Has(q, g)'
      BY <1>2 DEF IInv, TypeOK
    <3>1. PICK q \in Stmts \ {s} : Has(q, g)
      BY <1>2 DEF IInv, ParamInv
    <3> QED BY <3>1, <1>1
  <2> QED BY <2>1, <2>2 DEF ParamInv
<1> QED BY <1>3, <1>4, <1>5, <1>6, <1>7, <1>8 DEF IInv

(* The object's own statement is destroyed first.                           *)
LEMMA AssignStep ==
    ASSUME IInv, NEW s \in Stmts, NEW other \in Stmts, Assign(s, other),
           stmts[s] # None
    PROVE  IInv'
<1>1. PICK h \in Handles : h = stmts[s].sth
  BY DEF IInv, TypeOK, Stmt
<1>2. /\ native' \in [Handles -> {"free", "ready", "row", "failed"}]
      /\ \A g \in Handles \ {h} : native'[g] = native[g]
      /\ native[h] # "free"
      /\ CacheHas(h) => native'[h] = "ready" /\ bound' = bound
      /\ ~CacheHas(h) => /\ native'[h] = "free" /\ bound' = bound \ {h}
                         /\ \A q \in Stmts \ {s} : ~Has(q, h)
      /\ \A r \in Results : ~Reads(r, h) /\ ~Owns(r, h)
  BY <1>1, DestructorEffect DEF Assign
<1>3. /\ s # other /\ stmts[other] # None
      /\ stmts' \in [Stmts -> Stmt \cup {None}]
      /\ stmts'[s] = stmts[other] /\ stmts'[other] = None
      /\ \A q \in Stmts \ {s, other} : stmts'[q] = stmts[q]
      /\ \A g \in Handles : Has(s, g)' <=> Has(other, g)
      /\ \A g \in Handles : ~Has(other, g)'
      /\ \A q \in Stmts \ {s, other}, g \in Handles : Has(q, g)' <=> Has(q, g)
      /\ \A g \in Handles, q \in Stmts \ {s} :
            Has(q, g) => \E u \in Stmts : Has(u, g)' /\ stmts'[u] = stmts[q]
  BY TakenStatement
<1>4. /\ UNCHANGED <<open, cache, results>>
      /\ \A g \in Handles : Has(s, g) <=> g = h
      /\ \A g \in Handles : CacheHas(g)' <=> CacheHas(g)
      /\ \A r \in Results, g \in Handles : /\ Owns(r, g)' <=> Owns(r, g)
                                           /\ Reads(r, g)' <=> Reads(r, g)
  BY <1>1 DEF Assign, Has, CacheHas, Owns, Reads
<1>5. TypeOK'
  BY <1>2, <1>3, <1>4 DEF IInv, TypeOK
<1>6. CacheInv'
  BY <1>2, <1>4, NoneAssumption DEF IInv, TypeOK, CacheInv, CacheHas
<1>7. StmtInv'
  <2> SUFFICES ASSUME NEW q \in Stmts, stmts'[q] # None
               PROVE  /\ native'[stmts'[q].sth] # "free"
                      /\ stmts'[q].cached <=> CacheHas(stmts[q].sth)'
                      /\ ~stmts'[q].cached =>
                            \A u \in Stmts : Has(u, stmts[q].sth)' => u = q
    BY DEF StmtInv, Has, CacheHas
  <2>1. PICK v \in Stmts \ {s} : /\ stmts[v] = stmts'[q]
                                 /\ v = IF q = s THEN other ELSE q
    BY <1>3
  <2>2. PICK g \in Handles : g = stmts[v].sth
    BY <2>1 DEF IInv, TypeOK, Stmt
  <2>3. /\ native[g] # "free" /\ Has(v, g)
        /\ stmts[v].cached <=> CacheHas(g)
        /\ ~stmts[v].cached => \A u \in Stmts : Has(u, g) => u = v
    BY <2>1, <2>2 DEF IInv, StmtInv, Has
  <2>4. native'[g] # "free"
    BY <2>3, <1>2
  <2>5. ~stmts[v].cached => \A u \in Stmts : Has(u, g)' => u = q
    BY <2>1, <2>3, <1>3
  <2>6. CacheHas(g)' <=> CacheHas(g)
    BY <1>4
  <2>7. g = stmts'[q].sth /\ stmts[v].cached = stmts'[q].cached
    BY <2>1, <2>2
  <2> QED BY <2>3, <2>4, <2>5, <2>6, <2>7 DEF Has, CacheHas
<1>8. ResultInv'
  <2> SUFFICES ASSUME NEW q \in Results, NEW g \in Handles, Owns(q, g)'
               PROVE  /\ native'[g] # "free"
                      /\ ~CacheHas(g)'
                      /\ \A u \in Stmts : ~Has(u, g)'
                      /\ \A u \in Results : Owns(u, g)' => u = q
    BY <1>4 DEF ResultInv, Owns, Has, CacheHas, IInv, TypeOK, Result
  <2> QED BY <1>2, <1>3, <1>4 DEF IInv, ResultInv, Owns
<1>9. NoOrphans'
  <2> SUFFICES ASSUME NEW g \in Handles, native'[g] # "free", ~CacheHas(g),
                      \A r \in Results : ~Owns(r, g)
               PROVE  \E q \in Stmts : Has(q, g)' /\ ~stmts'[q].cached
    BY <1>4 DEF NoOrphans
  <2>1. g # h
    BY <1>2
  <2>2. PICK q \in Stmts \ {s} : Has(q, g) /\ ~stmts[q].cached
    BY <2>1, <1>2, <1>4 DEF IInv, NoOrphans
  <2> QED BY <2>2, <1>3
<1>10. RowInv'
  <2>1. \A r \in Results, g \in Handles : Reads(r, g)' =>
           /\ native'[g] = "row"
           /\ \A u \in Results : Reads(u, g)' => u = r
           /\ ~results'[r].owned => \A u \in Results : ~Owns(u, g)'
    BY <1>2, <1>3, <1>4 DEF IInv, RowInv
  <2>2. \A g \in Handles : native'[g] \in {"row", "failed"} =>
           \/ \E q \in Stmts : Has(q, g)'
           \/ \E r \in Results : Owns(r, g)'
    <3> SUFFICES ASSUME NEW g \in Handles, native'[g] \in {"row", "failed"},
                        \A r \in Results : ~Owns(r, g)
                 PROVE  \E q \in Stmts : Has(q, g)'
      BY <1>4
    <3>1. g # h /\ native'[g] = native[g]
      BY <1>2
    <3>2. PICK q \in Stmts \ {s} : Has(q, g)
      BY <3>1, <1>4 DEF IInv, RowInv
    <3> QED BY <3>2, <1>3
  <2> QED BY <2>1, <2>2 DEF RowInv
<1>11. ParamInv'
  <2> DEFINE from(q) == IF q = s THEN other ELSE q
  <2>1. \A q \in Stmts : Usable(q)' =>
           /\ from(q) \in Stmts \ {s} /\ Usable(from(q))
           /\ stmts'[q] = stmts[from(q)] /\ q # other
           /\ stmts[from(q)].sth \in Handles
           /\ Has(from(q), stmts[from(q)].sth)
    BY <1>3 DEF Usable, Has, IInv, TypeOK, Stmt
  <2>2. \A q, u \in Stmts : from(q) = from(u) /\ q # other /\ u # other => q = u
    OBVIOUS
  <2> HIDE DEF from
  <2>3. \A q, u \in Stmts : Usable(q)' /\ Usable(u)'
                             /\ stmts'[q].sth = stmts'[u].sth => q = u
    BY <2>1, <2>2 DEF IInv, ParamInv
  <2>4. \A g \in bound' : CacheHas(g)' \/ \E q \in Stmts : Has(q, g)'
    <3> SUFFICES ASSUME NEW g \in Handles, g \in bound', ~CacheHas(g)
                 PROVE  \E q \in Stmts : Has(q, g)'
      BY <1>2, <1>4 DEF IInv, TypeOK
    <3>1. g # h /\ g \in bound
      BY <1>2
    <3>2. PICK q \in Stmts \ {s} : Has(q, g)
      BY <3>1, <1>4 DEF IInv, ParamInv
    <3> QED BY <3>2, <1>3
  <2> QED BY <2>3, <2>4 DEF ParamInv
<1> QED BY <1>5, <1>6, <1>7, <1>8, <1>9, <1>10, <1>11 DEF IInv

-----------------------------------------------------------------------------
LEMMA NextInv == IInv /\ [Next]_vars => IInv'
<1> SUFFICES ASSUME IInv, [Next]_vars PROVE IInv'
  OBVIOUS
<1>1. CASE UNCHANGED vars
  BY <1>1, StepUnchanged
<1>2. CASE Open \/ Close
  BY <1>2, OpenStep, CloseStep
<1>3. CASE \E s \in Stmts, t \in Texts : Prepare(s, t)
  BY <1>3, PrepareHitStep, PrepareMissStep DEF Prepare
<1>4. CASE \E s \in Stmts : Bind(s) \/ Reset(s) \/ Destroy(s)
  BY <1>4, BindStep, ResetStep, DestroyStep
<1>5. CASE \E s, other \in Stmts : Assign(s, other)
  BY <1>5, AssignEmptyStep, AssignStep
<1>6. CASE \E s \in Stmts, r \in Results : Exec(s, r)
  BY <1>6, ExecStep
<1>7. CASE \E r \in Results : ExecSql(r) \/ NextRow(r) \/ DestroyResult(r)
  BY <1>7, ExecSqlStep, NextRowStep, DestroyResultStep
<1>8. CASE \E r, other \in Results : MoveResult(r, other)
  BY <1>8, MoveResultStep
<1> QED BY <1>1, <1>2, <1>3, <1>4, <1>5, <1>6, <1>7, <1>8 DEF Next

LEMMA Invariant == Spec => []IInv
BY InitInv, NextInv, PTL DEF Spec

(* Every reachable state has the types the source gives it.                 *)
THEOREM TypeCorrect == Spec => []TypeOK
<1>1. IInv => TypeOK
  BY DEF IInv
<1> QED BY <1>1, Invariant, PTL

(* Whatever is prepared, moved, executed or closed in whatever order, every *)
(* handle in use has exactly one owner, and a finalized one has none.       *)
THEOREM Ownership == Spec => []HandlesOwned
<1>1. IInv => HandlesOwned
  <2> SUFFICES ASSUME IInv PROVE HandlesOwned
    OBVIOUS
  <2>1. ASSUME NEW h \in Handles, native[h] = "free" PROVE Owners(h) = {}
    <3>1. /\ ~CacheHas(h)
          /\ \A s \in Stmts : ~Has(s, h)
          /\ \A r \in Results : ~Owns(r, h)
      BY <2>1, FreeHandle
    <3> QED BY <3>1 DEF Owners, StmtsOf, CacheHas, Has, Owns
  <2>2. ASSUME NEW h \in Handles, native[h] # "free"
        PROVE  \E owner \in Owners(h) : Owners(h) = {owner}
    <3>1. CASE CacheHas(h)
      <4>1. PICK t \in Texts : cache[t] = h
        BY <3>1 DEF CacheHas
      <4>2. \A u \in Texts : cache[u] = h <=> u = t
        BY <4>1, NoneAssumption DEF IInv, CacheInv
      <4>3. \A s \in StmtsOf(h) : stmts[s].cached
        BY <3>1 DEF IInv, StmtInv, StmtsOf
      <4>4. \A r \in Results :
               ~(results[r] # None /\ results[r].sth = h /\ results[r].owned)
        BY <3>1 DEF IInv, ResultInv
      <4>5. Owners(h) = {<<"cache", t>>}
        BY <4>2, <4>3, <4>4 DEF Owners
      <4> QED BY <4>5
    <3>2. CASE ~CacheHas(h) /\ \E s \in Stmts : Has(s, h) /\ ~stmts[s].cached
      <4>1. PICK s \in Stmts : Has(s, h) /\ ~stmts[s].cached
        BY <3>2
      <4>2. \A q \in Stmts : q \in StmtsOf(h) <=> q = s
        BY <4>1 DEF IInv, StmtInv, StmtsOf, Has
      <4>3. \A r \in Results :
               ~(results[r] # None /\ results[r].sth = h /\ results[r].owned)
        BY <4>1 DEF IInv, ResultInv, Has
      <4>4. \A t \in Texts : cache[t] # h
        BY <3>2 DEF CacheHas
      <4>5. Owners(h) = {<<"statement", s>>}
        BY <4>1, <4>2, <4>3, <4>4 DEF Owners, StmtsOf
      <4> QED BY <4>5
    <3>3. CASE ~CacheHas(h) /\ \E r \in Results : Owns(r, h)
      <4>1. PICK r \in Results : Owns(r, h)
        BY <3>3
      <4>2. \A q \in Results :
               (results[q] # None /\ results[q].sth = h /\ results[q].owned) <=> q = r
        BY <4>1 DEF IInv, ResultInv, Owns
      <4>3. StmtsOf(h) = {}
        BY <4>1 DEF IInv, ResultInv, Owns, Has, StmtsOf
      <4>4. \A t \in Texts : cache[t] # h
        BY <3>3 DEF CacheHas
      <4>5. Owners(h) = {<<"result", r>>}
        BY <4>2, <4>3, <4>4 DEF Owners
      <4> QED BY <4>5
    <3> QED BY <2>2, <3>1, <3>2, <3>3 DEF IInv, NoOrphans
  <2>3. ASSUME NEW s \in Stmts, stmts[s] # None, stmts[s].cached
        PROVE  stmts[s].sth \in Cached
    <3>1. stmts[s].sth \in Handles /\ CacheHas(stmts[s].sth)
      BY <2>3 DEF IInv, TypeOK, Stmt, StmtInv
    <3> QED BY <3>1, NoneAssumption DEF CacheHas, Cached
  <2> QED BY <2>1, <2>2, <2>3 DEF HandlesOwned
<1> QED BY <1>1, Invariant, PTL

(* A result that has a row reads its own one, which no other result, and    *)
(* nothing done to a statement with the same handle, takes from it.         *)
THEOREM Rows == Spec => []RowsAreOwn
<1>1. IInv => RowsAreOwn
  BY DEF IInv, TypeOK, Result, RowInv, Reads, RowsAreOwn
<1> QED BY <1>1, Invariant, PTL

(* A row or a failure that SQLite still has to give away can be reached     *)
(* through an object of the program.                                        *)
THEOREM Reachable == Spec => []NothingLeftRunning
<1>1. IInv => NothingLeftRunning
  BY DEF IInv, RowInv, Has, Owns, StmtsOf, NothingLeftRunning
<1> QED BY <1>1, Invariant, PTL

-----------------------------------------------------------------------------
(* The refinement of OwnStatements.                                         *)

(* What a statement shows, by what the program may do with it.              *)
LEMMA ShownFields ==
    ASSUME NEW stmt \in Stmt \cup {None}, NEW b \in SUBSET Handles,
           NEW n \in [Handles -> {"free", "ready", "row", "failed"}],
           stmt # None => n[stmt.sth] # "free"
    PROVE  /\ Shown(stmt, n, b) \in Own!Statement \cup {None}
           /\ Shown(stmt, n, b) = None <=> stmt = None
           /\ stmt # None /\ stmt.superseded => Shown(stmt, n, b) = Own!Superseded
           /\ stmt # None /\ ~stmt.superseded =>
                 /\ Shown(stmt, n, b).state = n[stmt.sth]
                 /\ Shown(stmt, n, b).state # "superseded"
                 /\ Shown(stmt, n, b).bound <=> stmt.sth \in b
<1>1. CASE stmt = None
  BY <1>1 DEF Shown
<1>2. CASE stmt # None /\ stmt.superseded
  <2>1. Shown(stmt, n, b) = Own!Superseded /\ Own!Superseded \in Own!Statement
    BY <1>2 DEF Shown, Own!Superseded, Own!Statement
  <2> QED BY <1>2, <2>1, NoneShownAssumption
<1>3. CASE stmt # None /\ ~stmt.superseded
  <2>1. PICK state \in {"ready", "row", "failed"} : state = n[stmt.sth]
    BY <1>3 DEF Stmt
  <2>2. PICK p \in BOOLEAN : p <=> stmt.sth \in b
    <3>1. CASE stmt.sth \in b
      BY <3>1
    <3>2. CASE stmt.sth \notin b
      BY <3>2
    <3> QED BY <3>1, <3>2
  <2>3. Shown(stmt, n, b) = [state |-> state, bound |-> p]
    BY <1>3, <2>1, <2>2 DEF Shown
  <2>4. [state |-> state, bound |-> p] \in Own!Statement
    BY DEF Own!Statement
  <2>5. Shown(stmt, n, b) # None
    BY <2>3, <2>4, NoneShownAssumption
  <2> QED BY <1>3, <2>1, <2>2, <2>3, <2>4, <2>5
<1> QED BY <1>1, <1>2, <1>3

(* The mapped state has the types of OwnStatements, and what a program may  *)
(* do with a statement is the same in both.                                 *)
LEMMA OwnTypes ==
    ASSUME IInv
    PROVE  /\ OwnStmts \in [Stmts -> Own!Statement \cup {None}]
           /\ \A s \in Stmts :
                 /\ OwnStmts[s] = Shown(stmts[s], native, bound)
                 /\ OwnStmts[s] = None <=> stmts[s] = None
                 /\ Own!Usable(s) <=> Usable(s)
                 /\ Usable(s) => /\ OwnStmts[s].state = native[stmts[s].sth]
                                 /\ OwnStmts[s].bound <=> stmts[s].sth \in bound
                 /\ stmts[s] # None /\ ~Usable(s) => OwnStmts[s] = Own!Superseded
           /\ OwnResults \in [Results -> Own!Result \cup {None}]
           /\ \A r \in Results :
                 /\ OwnResults[r] = None <=> results[r] = None
                 /\ results[r] # None =>
                       OwnResults[r] = [state |-> results[r].state,
                                        of |-> Lenders(results[r])]
<1>1. ASSUME NEW s \in Stmts
      PROVE  /\ OwnStmts[s] \in Own!Statement \cup {None}
             /\ OwnStmts[s] = Shown(stmts[s], native, bound)
             /\ OwnStmts[s] = None <=> stmts[s] = None
             /\ Own!Usable(s) <=> Usable(s)
             /\ Usable(s) => /\ OwnStmts[s].state = native[stmts[s].sth]
                             /\ OwnStmts[s].bound <=> stmts[s].sth \in bound
             /\ stmts[s] # None /\ ~Usable(s) => OwnStmts[s] = Own!Superseded
  <2>1. /\ stmts[s] \in Stmt \cup {None}
        /\ bound \in SUBSET Handles
        /\ native \in [Handles -> {"free", "ready", "row", "failed"}]
        /\ stmts[s] # None => native[stmts[s].sth] # "free"
    BY DEF IInv, TypeOK, StmtInv
  <2>2. OwnStmts[s] = Shown(stmts[s], native, bound)
    BY DEF OwnStmts
  <2>3. Own!Superseded.state = "superseded"
    BY DEF Own!Superseded
  <2>4. /\ OwnStmts[s] \in Own!Statement \cup {None}
        /\ OwnStmts[s] = None <=> stmts[s] = None
        /\ stmts[s] # None /\ stmts[s].superseded => OwnStmts[s] = Own!Superseded
        /\ stmts[s] # None /\ ~stmts[s].superseded =>
              /\ OwnStmts[s].state = native[stmts[s].sth]
              /\ OwnStmts[s].state # "superseded"
              /\ OwnStmts[s].bound <=> stmts[s].sth \in bound
    BY <2>1, <2>2, ShownFields
  <2>5. Own!Usable(s) <=> Usable(s)
    BY <2>3, <2>4 DEF Own!Usable, Usable
  <2> QED BY <2>2, <2>4, <2>5 DEF Usable
<1>2. ASSUME NEW r \in Results, results[r] # None
      PROVE  /\ OwnResults[r] = [state |-> results[r].state, of |-> Lenders(results[r])]
             /\ OwnResults[r] \in Own!Result
             /\ OwnResults[r] # None
  <2>1. results[r].state \in {"ROW", "DONE", "FAILURE"}
    BY <1>2 DEF IInv, TypeOK, Result
  <2>2. Lenders(results[r]) \in SUBSET Stmts
    BY DEF Lenders
  <2>3. OwnResults[r] = [state |-> results[r].state, of |-> Lenders(results[r])]
    BY <1>2 DEF OwnResults
  <2>4. OwnResults[r] \in Own!Result
    BY <2>1, <2>2, <2>3 DEF Own!Result
  <2> QED BY <2>3, <2>4, NoneShownAssumption
<1>3. \A r \in Results : results[r] = None => OwnResults[r] = None
  BY DEF OwnResults
<1> QED BY <1>1, <1>2, <1>3 DEF OwnStmts, OwnResults

LEMMA OwnUnread ==
    ASSUME IInv, NEW s \in Stmts
    PROVE  Own!Unread(s) <=> (Usable(s) => \A r \in Results : ~Reads(r, stmts[s].sth))
<1>1. \A r \in Results : results[r] # None =>
         (s \in OwnResults[r].of <=> Usable(s) /\ Reads(r, stmts[s].sth))
  BY OwnTypes DEF Lenders, Reads
<1>2. \A r \in Results : OwnResults[r] = None <=> results[r] = None
  BY OwnTypes
<1>3. \A r \in Results : Reads(r, stmts[s].sth) => results[r] # None
  BY DEF Reads
<1> QED BY <1>1, <1>2, <1>3 DEF Own!Unread

LEMMA SameShown ==
    ASSUME NEW stmt, NEW n, NEW b, NEW m, NEW c,
           stmt # None /\ ~stmt.superseded =>
              m[stmt.sth] = n[stmt.sth] /\ (stmt.sth \in c <=> stmt.sth \in b)
    PROVE  Shown(stmt, m, c) = Shown(stmt, n, b)
<1>1. CASE stmt = None \/ stmt.superseded
  BY <1>1 DEF Shown
<1>2. CASE stmt # None /\ ~stmt.superseded
  <2>1. PICK p \in BOOLEAN : p <=> stmt.sth \in b
    <3>1. CASE stmt.sth \in b
      BY <3>1
    <3>2. CASE stmt.sth \notin b
      BY <3>2
    <3> QED BY <3>1, <3>2
  <2>2. Shown(stmt, n, b) = [state |-> n[stmt.sth], bound |-> p]
    BY <1>2, <2>1 DEF Shown
  <2>3. Shown(stmt, m, c) = [state |-> n[stmt.sth], bound |-> p]
    BY <1>2, <2>1 DEF Shown
  <2> QED BY <2>2, <2>3
<1> QED BY <1>1, <1>2

(* What a step leaves of the mapped state: a statement that shows the same  *)
(* handle, and results whose lenders are the same.                          *)
LEMMA SameStatement ==
    ASSUME NEW s \in Stmts, stmts'[s] = stmts[s],
           Usable(s) => /\ native'[stmts[s].sth] = native[stmts[s].sth]
                        /\ stmts[s].sth \in bound' <=> stmts[s].sth \in bound
    PROVE  OwnStmts'[s] = OwnStmts[s]
<1>1. Shown(stmts[s], native', bound') = Shown(stmts[s], native, bound)
  BY SameShown DEF Usable
<1> QED BY <1>1 DEF OwnStmts

LEMMA SameResult ==
    ASSUME NEW r \in Results, results'[r] = results[r],
           \A s \in Stmts : results[r] # None /\ results[r].state = "ROW" =>
              (Usable(s)' /\ stmts'[s].sth = results[r].sth
                  <=> Usable(s) /\ stmts[s].sth = results[r].sth)
    PROVE  OwnResults'[r] = OwnResults[r]
<1>1. CASE results[r] = None
  BY <1>1 DEF OwnResults
<1>2. CASE results[r] # None
  <2>1. Lenders(results[r])' = Lenders(results[r])
    BY <1>2 DEF Lenders
  <2> QED BY <1>2, <2>1 DEF OwnResults
<1> QED BY <1>1, <1>2

LEMMA SameResults ==
    ASSUME UNCHANGED results,
           \A r \in Results, s \in Stmts : Reads(r, results[r].sth) =>
              (Usable(s)' /\ stmts'[s].sth = results[r].sth
                  <=> Usable(s) /\ stmts[s].sth = results[r].sth)
    PROVE  UNCHANGED OwnResults
<1>1. \A r \in Results : OwnResults'[r] = OwnResults[r]
  BY SameResult DEF Reads
<1> QED BY <1>1 DEF OwnResults

(* A step on the statement s, seen in OwnStatements: the others show what   *)
(* they showed.                                                             *)
LEMMA OneStatement ==
    ASSUME NEW s \in Stmts,
           \A q \in Stmts \ {s} : OwnStmts'[q] = OwnStmts[q]
    PROVE  OwnStmts' = [OwnStmts EXCEPT ![s] = OwnStmts'[s]]
BY DEF OwnStmts

LEMMA ShownUsable ==
    ASSUME NEW s \in Stmts, Usable(s), NEW p \in BOOLEAN,
           p <=> stmts[s].sth \in bound
    PROVE  OwnStmts[s] = [state |-> native[stmts[s].sth], bound |-> p]
BY DEF OwnStmts, Shown, Usable

LEMMA OpenRefines == Open => Own!Open
<1> SUFFICES ASSUME Open PROVE Own!Open
  OBVIOUS
<1>1. UNCHANGED <<OwnStmts, OwnResults>>
  BY DEF Open, OwnStmts, OwnResults, Lenders, Usable
<1> QED BY <1>1 DEF Open, Own!Open

LEMMA CloseRefines ==
    ASSUME IInv, Close PROVE Own!Close
<1>1. UNCHANGED <<stmts, results>>
  BY DEF Close
<1>2. UNCHANGED OwnResults
  BY <1>1 DEF OwnResults, Lenders, Usable
<1>3. ASSUME NEW s \in Stmts PROVE OwnStmts'[s] = OwnStmts[s]
  <2>1. ASSUME Usable(s)
        PROVE  stmts[s].sth \in Handles /\ stmts[s].sth \notin Cached
    BY <2>1 DEF Close, Usable, StmtsOf, Cached, IInv, TypeOK, Stmt
  <2>2. Usable(s) => /\ native'[stmts[s].sth] = native[stmts[s].sth]
                     /\ stmts[s].sth \in bound' <=> stmts[s].sth \in bound
    BY <2>1 DEF Close, IInv, TypeOK
  <2> QED BY <1>1, <2>2, SameStatement
<1>4. UNCHANGED OwnStmts
  BY <1>3 DEF OwnStmts
<1> QED BY <1>2, <1>4 DEF Close, Own!Close

LEMMA ShownRecord ==
    ASSUME NEW stmt, NEW n, NEW b, stmt # None, ~stmt.superseded,
           NEW p \in BOOLEAN, p <=> stmt.sth \in b
    PROVE  Shown(stmt, n, b) = [state |-> n[stmt.sth], bound |-> p]
BY DEF Shown

LEMMA RecordChanges ==
    ASSUME NEW state, NEW p, NEW v, NEW stmt, stmt = [state |-> state, bound |-> p]
    PROVE  /\ [stmt EXCEPT !.bound = v] = [state |-> state, bound |-> v]
           /\ [stmt EXCEPT !.state = v] = [state |-> v, bound |-> p]
OBVIOUS

(* The statement that had the handle of the cache is superseded.            *)
LEMMA PrepareHitRefines ==
    ASSUME IInv, NEW s \in Stmts, NEW t \in Texts, stmts[s] = None,
           PrepareHit(s, t)
    PROVE  Own!PrepareNew(s) \/ \E old \in Stmts : Own!PrepareAgain(s, old)
<1>0. PICK h \in Handles : h = cache[t]
  BY NoneAssumption DEF PrepareHit, IInv, TypeOK
<1>1. /\ native'[h] = "ready"
      /\ \A g \in Handles \ {h} : native'[g] = native[g]
      /\ bound' = bound \ {h}
      /\ open /\ UNCHANGED <<open, results>>
      /\ \A r \in Results : ~Reads(r, h)
  BY <1>0, UnreadHandle DEF PrepareHit, IInv, TypeOK
<1>2. /\ stmts'[s] = Constructed(h, TRUE)
      /\ \A q \in Stmts \ {s} :
            stmts'[q] = IF q \in StmtsOf(h) THEN [stmts[q] EXCEPT !.superseded = TRUE]
                        ELSE stmts[q]
      /\ stmts' = [q \in Stmts |-> stmts'[q]]
  BY <1>0 DEF PrepareHit
<1>3. OwnStmts'[s] = Own!Ready
  <2>1. /\ Constructed(h, TRUE) # None
        /\ Constructed(h, TRUE).sth = h /\ ~Constructed(h, TRUE).superseded
    BY ConstructedFields, NoneAssumption
  <2>2. FALSE \in BOOLEAN /\ (FALSE <=> h \in bound')
    BY <1>1
  <2>3. Shown(Constructed(h, TRUE), native', bound')
           = [state |-> native'[h], bound |-> FALSE]
    BY <2>1, <2>2, ShownRecord
  <2> QED BY <1>1, <1>2, <2>3 DEF OwnStmts, Own!Ready
<1>4. ASSUME NEW q \in Stmts \ {s}, ~(Usable(q) /\ stmts[q].sth = h)
      PROVE  OwnStmts'[q] = OwnStmts[q] /\ (Usable(q)' <=> Usable(q))
  <2>1. CASE q \in StmtsOf(h)
    <3>1. /\ stmts[q] # None /\ stmts[q] \in Stmt /\ stmts[q].superseded
          /\ stmts'[q] = [stmts[q] EXCEPT !.superseded = TRUE]
      BY <1>2, <1>4, <2>1 DEF StmtsOf, Usable, IInv, TypeOK
    <3>2. stmts'[q] # None /\ stmts'[q].superseded
      BY <3>1, SupersededFields, NoneAssumption
    <3> QED BY <3>1, <3>2 DEF OwnStmts, Shown, Usable
  <2>2. CASE q \notin StmtsOf(h)
    <3>1. stmts'[q] = stmts[q]
      BY <1>2, <2>2
    <3>2. Usable(q) => stmts[q].sth \in Handles \ {h}
      BY <1>4 DEF Usable, IInv, TypeOK, Stmt
    <3> QED BY <1>1, <3>1, <3>2, SameStatement DEF Usable
  <2> QED BY <2>1, <2>2
<1>5. ASSUME NEW q \in Stmts \ {s}, Usable(q), stmts[q].sth = h
      PROVE  OwnStmts'[q] = Own!Superseded /\ ~Usable(q)'
  <2>1. stmts[q] \in Stmt /\ stmts'[q] = [stmts[q] EXCEPT !.superseded = TRUE]
    BY <1>2, <1>5 DEF StmtsOf, Usable, IInv, TypeOK
  <2>2. stmts'[q] # None /\ stmts'[q].superseded
    BY <2>1, SupersededFields, NoneAssumption
  <2> QED BY <2>2 DEF OwnStmts, Shown, Usable, Own!Superseded
<1>6. UNCHANGED OwnResults
  <2> SUFFICES ASSUME NEW r \in Results, NEW q \in Stmts, Reads(r, results[r].sth)
               PROVE  Usable(q)' /\ stmts'[q].sth = results[r].sth
                         <=> Usable(q) /\ stmts[q].sth = results[r].sth
    BY <1>1, SameResults
  <2>1. results[r].sth \in Handles \ {h}
    BY <1>1 DEF Reads, IInv, TypeOK, Result
  <2>2. CASE q = s
    BY <1>2, <2>1, <2>2, ConstructedFields DEF Usable
  <2>3. CASE q # s /\ q \in StmtsOf(h)
    <3>1. Usable(q) => stmts[q].sth = h
      BY <2>3 DEF StmtsOf
    <3>2. ~Usable(q)'
      BY <1>4, <1>5, <2>3, <3>1
    <3> QED BY <2>1, <3>1, <3>2
  <2>4. CASE q # s /\ q \notin StmtsOf(h)
    BY <1>2, <2>4 DEF Usable
  <2> QED BY <2>2, <2>3, <2>4
<1>7. OwnStmts[s] = None
  BY OwnTypes
<1>8. CASE \E old \in Stmts : Usable(old) /\ stmts[old].sth = h
  <2>1. PICK old \in Stmts : Usable(old) /\ stmts[old].sth = h
    BY <1>8
  <2>2. old # s
    BY <2>1 DEF Usable
  <2>3. \A q \in Stmts \ {s, old} : OwnStmts'[q] = OwnStmts[q]
    BY <1>4, <2>1 DEF IInv, ParamInv
  <2>4. OwnStmts' = [OwnStmts EXCEPT ![s] = Own!Ready, ![old] = Own!Superseded]
    BY <1>3, <1>5, <2>1, <2>2, <2>3 DEF OwnStmts
  <2>5. Own!Usable(old) /\ Own!Unread(old)
    BY <1>1, <2>1, OwnTypes, OwnUnread
  <2> QED BY <1>1, <1>6, <1>7, <2>4, <2>5 DEF Own!PrepareAgain
<1>9. CASE ~ \E old \in Stmts : Usable(old) /\ stmts[old].sth = h
  <2>1. OwnStmts' = [OwnStmts EXCEPT ![s] = Own!Ready]
    BY <1>3, <1>4, <1>9, OneStatement
  <2> QED BY <1>1, <1>6, <1>7, <2>1 DEF Own!PrepareNew
<1> QED BY <1>8, <1>9

LEMMA PrepareMissRefines ==
    ASSUME IInv, NEW s \in Stmts, NEW t \in Texts, NEW h \in Handles,
           NEW cache_it \in BOOLEAN, stmts[s] = None,
           PrepareMiss(s, t, h, cache_it)
    PROVE  Own!PrepareNew(s)
<1>1. /\ \A q \in Stmts : ~Has(q, h)
      /\ \A r \in Results : ~Reads(r, h)
      /\ h \notin bound
  BY FreeHandle DEF PrepareMiss
<1>2. /\ native'[h] = "ready"
      /\ \A g \in Handles \ {h} : native'[g] = native[g]
      /\ stmts'[s] = Constructed(h, cache_it)
      /\ \A q \in Stmts \ {s} : stmts'[q] = stmts[q]
      /\ open /\ UNCHANGED <<open, bound, results>>
  BY DEF PrepareMiss, IInv, TypeOK
<1>3. /\ Constructed(h, cache_it) # None
      /\ Constructed(h, cache_it).sth = h /\ ~Constructed(h, cache_it).superseded
  BY ConstructedFields, NoneAssumption
<1>4. OwnStmts'[s] = Own!Ready
  <2>1. FALSE \in BOOLEAN /\ (FALSE <=> h \in bound')
    BY <1>1, <1>2
  <2>2. Shown(Constructed(h, cache_it), native', bound')
           = [state |-> native'[h], bound |-> FALSE]
    BY <1>3, <2>1, ShownRecord
  <2> QED BY <1>2, <2>2 DEF OwnStmts, Own!Ready
<1>5. ASSUME NEW q \in Stmts \ {s} PROVE OwnStmts'[q] = OwnStmts[q]
  <2>1. Usable(q) => stmts[q].sth \in Handles \ {h}
    BY <1>1 DEF Usable, Has, IInv, TypeOK, Stmt
  <2> QED BY <1>2, <2>1, SameStatement
<1>6. UNCHANGED OwnResults
  <2> SUFFICES ASSUME NEW r \in Results, NEW q \in Stmts, Reads(r, results[r].sth)
               PROVE  Usable(q)' /\ stmts'[q].sth = results[r].sth
                         <=> Usable(q) /\ stmts[q].sth = results[r].sth
    BY <1>2, SameResults
  <2>1. results[r].sth # h
    BY <1>1
  <2> QED BY <1>2, <1>3, <2>1 DEF Usable
<1>7. OwnStmts[s] = None
  BY OwnTypes
<1>8. OwnStmts' = [OwnStmts EXCEPT ![s] = Own!Ready]
  BY <1>4, <1>5, OneStatement
<1> QED BY <1>2, <1>6, <1>7, <1>8 DEF Own!PrepareNew

(* No other statement that can be used has the handle.                      *)
LEMMA OthersShow ==
    ASSUME IInv, NEW s \in Stmts, Usable(s), UNCHANGED stmts,
           \A g \in Handles \ {stmts[s].sth} :
              native'[g] = native[g] /\ (g \in bound' <=> g \in bound)
    PROVE  OwnStmts' = [OwnStmts EXCEPT ![s] = OwnStmts'[s]]
<1>1. ASSUME NEW q \in Stmts \ {s} PROVE OwnStmts'[q] = OwnStmts[q]
  <2>1. Usable(q) => stmts[q].sth \in Handles \ {stmts[s].sth}
    BY DEF IInv, ParamInv, TypeOK, Stmt, Usable
  <2> QED BY <2>1, SameStatement
<1> QED BY <1>1, OneStatement

LEMMA ResultsStay ==
    ASSUME UNCHANGED <<stmts, results>> PROVE UNCHANGED OwnResults
BY DEF OwnResults, Lenders, Usable

LEMMA BindRefines ==
    ASSUME IInv, NEW s \in Stmts, Bind(s) PROVE Own!Bind(s)
<1>1. PICK h \in Handles : h = stmts[s].sth
  BY DEF Bind, Usable, IInv, TypeOK, Stmt
<1>2. /\ Usable(s)
      /\ native[h] = "ready" /\ native'[h] = "ready"
      /\ bound' = bound \cup {h}
      /\ UNCHANGED <<open, native, stmts, results>>
  BY <1>1 DEF Bind
<1>3. OwnStmts' = [OwnStmts EXCEPT ![s] = OwnStmts'[s]]
  BY <1>1, <1>2, OthersShow
<1>4. PICK p \in BOOLEAN : p <=> h \in bound
  <2>1. CASE h \in bound
    BY <2>1
  <2>2. CASE h \notin bound
    BY <2>2
  <2> QED BY <2>1, <2>2
<1>5. OwnStmts[s] = [state |-> "ready", bound |-> p]
  BY <1>1, <1>2, <1>4, ShownUsable
<1>6. OwnStmts'[s] = [state |-> "ready", bound |-> TRUE]
  <2>1. TRUE \in BOOLEAN /\ (TRUE <=> stmts[s].sth \in bound')
    BY <1>1, <1>2
  <2>2. Shown(stmts[s], native', bound') = [state |-> native'[stmts[s].sth], bound |-> TRUE]
    BY <1>2, <2>1, ShownRecord DEF Usable
  <2> QED BY <1>1, <1>2, <2>2 DEF OwnStmts
<1>7. OwnStmts' = [OwnStmts EXCEPT ![s].bound = TRUE]
  <2>1. [OwnStmts[s] EXCEPT !.bound = TRUE] = [state |-> "ready", bound |-> TRUE]
    <3>1. PICK v \in BOOLEAN : v
      OBVIOUS
    <3>2. PICK shown : shown = OwnStmts[s]
      OBVIOUS
    <3>3. [shown EXCEPT !.bound = v] = [state |-> "ready", bound |-> v]
      BY <1>5, <3>2, RecordChanges
    <3>4. v = TRUE
      BY <3>1
    <3> QED BY <3>2, <3>3, <3>4, Zenon
  <2> QED BY <1>3, <1>6, <2>1
<1>8. OwnStmts[s] # None /\ OwnStmts[s].state = "ready"
  BY <1>1, <1>2, OwnTypes DEF Usable
<1> QED BY <1>2, <1>7, <1>8, ResultsStay DEF Own!Bind

LEMMA ResetRefines ==
    ASSUME IInv, NEW s \in Stmts, Reset(s) PROVE Own!Reset(s)
<1>1. PICK h \in Handles : h = stmts[s].sth
  BY DEF Reset, Usable, IInv, TypeOK, Stmt
<1>2. /\ Usable(s)
      /\ \A r \in Results : ~Reads(r, h)
      /\ native'[h] = "ready"
      /\ \A g \in Handles \ {h} : native'[g] = native[g]
      /\ bound' = bound \ {h}
      /\ UNCHANGED <<open, stmts, results>>
  BY <1>1, UnreadHandle DEF Reset, IInv, TypeOK
<1>3. OwnStmts' = [OwnStmts EXCEPT ![s] = OwnStmts'[s]]
  BY <1>1, <1>2, OthersShow
<1>4. OwnStmts'[s] = Own!Ready
  <2>1. FALSE \in BOOLEAN /\ (FALSE <=> stmts[s].sth \in bound')
    BY <1>1, <1>2
  <2>2. Shown(stmts[s], native', bound') = [state |-> native'[stmts[s].sth], bound |-> FALSE]
    BY <1>2, <2>1, ShownRecord DEF Usable
  <2> QED BY <1>1, <1>2, <2>2 DEF OwnStmts, Own!Ready
<1>5. Own!Usable(s) /\ Own!Unread(s)
  BY <1>1, <1>2, OwnTypes, OwnUnread
<1> QED BY <1>2, <1>3, <1>4, <1>5, ResultsStay DEF Own!Reset

LEMMA StateShown ==
    ASSUME NEW s \in Stmts, Usable(s), UNCHANGED <<bound, stmts>>
    PROVE  OwnStmts'[s] = [OwnStmts[s] EXCEPT !.state = native'[stmts[s].sth]]
<1>1. PICK p \in BOOLEAN : p <=> stmts[s].sth \in bound
  <2>1. CASE stmts[s].sth \in bound
    BY <2>1
  <2>2. CASE stmts[s].sth \notin bound
    BY <2>2
  <2> QED BY <2>1, <2>2
<1>2. OwnStmts[s] = [state |-> native[stmts[s].sth], bound |-> p]
  BY <1>1, ShownUsable
<1>3. OwnStmts'[s] = [state |-> native'[stmts[s].sth], bound |-> p]
  <2>1. Shown(stmts[s], native', bound') = [state |-> native'[stmts[s].sth], bound |-> p]
    BY <1>1, ShownRecord DEF Usable
  <2> QED BY <2>1 DEF OwnStmts
<1> QED BY <1>2, <1>3, RecordChanges

LEMMA OneResult ==
    ASSUME NEW r \in Results,
           \A q \in Results \ {r} : OwnResults'[q] = OwnResults[q]
    PROVE  OwnResults' = [OwnResults EXCEPT ![r] = OwnResults'[r]]
BY DEF OwnResults

LEMMA OtherResults ==
    ASSUME NEW r \in Results, UNCHANGED stmts,
           \A q \in Results \ {r} : results'[q] = results[q]
    PROVE  OwnResults' = [OwnResults EXCEPT ![r] = OwnResults'[r]]
<1>1. \A q \in Results \ {r} : OwnResults'[q] = OwnResults[q]
  BY SameResult DEF Usable
<1> QED BY <1>1, OneResult

LEMMA ExecRefines ==
    ASSUME IInv, NEW s \in Stmts, NEW r \in Results, Exec(s, r)
    PROVE  Own!Exec(s, r)
<1>1. PICK h \in Handles : h = stmts[s].sth
  BY DEF Exec, Usable, IInv, TypeOK, Stmt
<1>2. /\ Usable(s)
      /\ results[r] = None
      /\ native[h] # "row"
      /\ UNCHANGED <<open, cache, bound, stmts>>
      /\ \A g \in Handles \ {h} : native'[g] = native[g]
      /\ native \in [Handles -> {"free", "ready", "row", "failed"}]
      /\ results \in [Results -> Result \cup {None}]
  BY <1>1 DEF Exec, IInv, TypeOK
<1>3. /\ Own!Usable(s)
      /\ OwnStmts[s].state # "row"
      /\ OwnResults[r] = None
  BY <1>1, <1>2, OwnTypes
<1>4. OwnStmts' = [OwnStmts EXCEPT ![s].state = native'[h]]
  <2>1. OwnStmts' = [OwnStmts EXCEPT ![s] = OwnStmts'[s]]
    BY <1>1, <1>2, OthersShow
  <2>2. OwnStmts'[s] = [OwnStmts[s] EXCEPT !.state = native'[h]]
    BY <1>1, <1>2, StateShown
  <2> QED BY <2>1, <2>2
<1>5. CASE /\ native' = [native EXCEPT ![h] = "row"]
           /\ results' = [results EXCEPT ![r] = Borrowed(h, "ROW")]
  <2>1. /\ Borrowed(h, "ROW") # None
        /\ Borrowed(h, "ROW").state = "ROW" /\ Borrowed(h, "ROW").sth = h
    <3>1. /\ Borrowed(h, "ROW") \in Result
          /\ Borrowed(h, "ROW").state = "ROW" /\ Borrowed(h, "ROW").sth = h
      BY DEF Borrowed, Result
    <3> QED BY <3>1, NoneAssumption
  <2>2. results'[r] = Borrowed(h, "ROW") /\ native'[h] = "row"
    BY <1>2, <1>5
  <2>3. Lenders(results[r])' = {s}
    <3>1. \A q \in Stmts : Usable(q) /\ stmts[q].sth = h <=> q = s
      BY <1>1, <1>2 DEF IInv, ParamInv
    <3>2. Lenders(results[r])' = {q \in Stmts : Usable(q) /\ stmts[q].sth = h}
      BY <1>2, <2>1, <2>2 DEF Lenders, Usable
    <3> QED BY <3>1, <3>2
  <2>4. OwnResults'[r] = [state |-> "ROW", of |-> {s}]
    BY <2>1, <2>2, <2>3 DEF OwnResults
  <2>5. OwnResults' = [OwnResults EXCEPT ![r] = [state |-> "ROW", of |-> {s}]]
    BY <1>2, <1>5, <2>4, OtherResults
  <2> QED BY <1>2, <1>3, <1>4, <2>2, <2>5 DEF Own!Exec
<1>6. CASE /\ native' = [native EXCEPT ![h] = "ready"]
           /\ results' = [results EXCEPT ![r] = Borrowed(h, "DONE")]
  <2>1. Borrowed(h, "DONE") # None /\ Borrowed(h, "DONE").state = "DONE"
    <3>1. Borrowed(h, "DONE") \in Result /\ Borrowed(h, "DONE").state = "DONE"
      BY DEF Borrowed, Result
    <3> QED BY <3>1, NoneAssumption
  <2>2. results'[r] = Borrowed(h, "DONE") /\ native'[h] = "ready"
    BY <1>2, <1>6
  <2>3. Lenders(results[r])' = {}
    BY <2>1, <2>2 DEF Lenders
  <2>4. OwnResults'[r] = [state |-> "DONE", of |-> {}]
    BY <2>1, <2>2, <2>3 DEF OwnResults
  <2>5. OwnResults' = [OwnResults EXCEPT ![r] = [state |-> "DONE", of |-> {}]]
    BY <1>2, <1>6, <2>4, OtherResults
  <2> QED BY <1>2, <1>3, <1>4, <2>2, <2>5 DEF Own!Exec
<1>7. CASE native' = [native EXCEPT ![h] = "failed"] /\ UNCHANGED results
  <2>1. native'[h] = "failed" /\ UNCHANGED OwnResults
    BY <1>2, <1>7, ResultsStay
  <2> QED BY <1>2, <1>3, <1>4, <2>1 DEF Own!Exec
<1> QED BY <1>1, <1>5, <1>6, <1>7 DEF Exec

(* A result of the database has a handle that no statement has.             *)
LEMMA ExecSqlRefines ==
    ASSUME IInv, NEW r \in Results, ExecSql(r)
    PROVE  Own!ExecSql(r) \/ UNCHANGED Own!vars
<1>1. CASE UNCHANGED <<native, results>>
  BY <1>1, ResultsStay DEF ExecSql, OwnStmts, Own!vars
<1>2. ASSUME NEW h \in Handles, native[h] = "free", NEW state \in {"ROW", "DONE"},
             native' = [native EXCEPT ![h] = IF state = "ROW" THEN "row" ELSE "ready"],
             results' = [results EXCEPT ![r] = Owned(h, state)]
      PROVE  Own!ExecSql(r)
  <2>1. /\ open /\ results[r] = None
        /\ UNCHANGED <<open, bound, stmts>>
        /\ results'[r] = Owned(h, state)
        /\ \A q \in Results \ {r} : results'[q] = results[q]
        /\ \A g \in Handles \ {h} : native'[g] = native[g]
        /\ \A s \in Stmts : ~Has(s, h)
    BY <1>2, FreeHandle DEF ExecSql, IInv, TypeOK
  <2>2. /\ Owned(h, state) # None
        /\ Owned(h, state).state = state /\ Owned(h, state).sth = h
    <3>1. /\ Owned(h, state) \in Result
          /\ Owned(h, state).state = state /\ Owned(h, state).sth = h
      BY DEF Owned, Result
    <3> QED BY <3>1, NoneAssumption
  <2>3. Lenders(results[r])' = {}
    BY <2>1, <2>2 DEF Lenders, Usable, Has
  <2>4. OwnResults'[r] = [state |-> state, of |-> {}]
    BY <2>1, <2>2, <2>3 DEF OwnResults
  <2>5. OwnResults' = [OwnResults EXCEPT ![r] = [state |-> state, of |-> {}]]
    BY <2>1, <2>4, OtherResults
  <2>6. ASSUME NEW s \in Stmts PROVE OwnStmts'[s] = OwnStmts[s]
    <3>1. Usable(s) => stmts[s].sth \in Handles \ {h}
      BY <2>1 DEF Usable, Has, IInv, TypeOK, Stmt
    <3> QED BY <2>1, <3>1, SameStatement
  <2>7. UNCHANGED OwnStmts
    BY <2>6 DEF OwnStmts
  <2>8. OwnResults[r] = None
    BY <2>1, OwnTypes
  <2> QED BY <2>1, <2>5, <2>7, <2>8 DEF Own!ExecSql
<1> QED BY <1>1, <1>2 DEF ExecSql, ExecSqlFails

LEMMA NextRowRefines ==
    ASSUME IInv, NEW r \in Results, NextRow(r)
    PROVE  Own!NextRow(r) \/ UNCHANGED Own!vars
<1>1. CASE UNCHANGED <<native, results>>
  BY <1>1, ResultsStay DEF NextRow, OwnStmts, Own!vars
<1>2. ASSUME NEW state \in {"DONE", "FAILURE"}, NEW left \in {"ready", "failed"},
             native' = [native EXCEPT ![results[r].sth] = left],
             results' = [results EXCEPT ![r].state = state]
      PROVE  Own!Ends(r, state, left)
  <2>1. PICK result \in Result : result = results[r] /\ result.state = "ROW"
    BY DEF NextRow, IInv, TypeOK
  <2>2. PICK h \in Handles : h = result.sth
    BY <2>1 DEF Result
  <2>3. /\ native'[h] = left
        /\ \A g \in Handles \ {h} : native'[g] = native[g]
        /\ \A q \in Results \ {r} : results'[q] = results[q]
        /\ results'[r] = [result EXCEPT !.state = state]
        /\ UNCHANGED <<bound, stmts>>
    BY <1>2, <2>1, <2>2 DEF NextRow, IInv, TypeOK
  <2>4. results'[r] # None /\ results'[r].state = state
    <3>1. /\ [result EXCEPT !.state = state] \in Result
          /\ [result EXCEPT !.state = state].state = state
      BY DEF Result
    <3> QED BY <2>3, <3>1, NoneAssumption
  <2>5. Lenders(results[r])' = {}
    BY <2>4 DEF Lenders
  <2>6. OwnResults'[r] = [state |-> state, of |-> {}]
    BY <2>4, <2>5 DEF OwnResults
  <2>7. OwnResults' = [OwnResults EXCEPT ![r] = [state |-> state, of |-> {}]]
    BY <2>3, <2>6, OtherResults
  <2>8. \A s \in Stmts : s \in OwnResults[r].of <=> Usable(s) /\ stmts[s].sth = h
    <3>1. OwnResults[r] = [state |-> "ROW", of |-> Lenders(result)]
      BY <2>1, OwnTypes DEF NextRow
    <3> QED BY <2>1, <2>2, <3>1 DEF Lenders
  <2>9. ASSUME NEW s \in Stmts
        PROVE  OwnStmts'[s] = IF s \in OwnResults[r].of
                              THEN [OwnStmts[s] EXCEPT !.state = left] ELSE OwnStmts[s]
    <3>1. CASE Usable(s) /\ stmts[s].sth = h
      BY <2>3, <2>8, <3>1, StateShown
    <3>2. CASE ~(Usable(s) /\ stmts[s].sth = h)
      <4>1. Usable(s) => stmts[s].sth \in Handles \ {h}
        BY <3>2 DEF Usable, IInv, TypeOK, Stmt
      <4>2. OwnStmts'[s] = OwnStmts[s]
        BY <2>3, <4>1, SameStatement
      <4> QED BY <2>8, <3>2, <4>2
    <3> QED BY <3>1, <3>2
  <2>10. OwnStmts' = [s \in Stmts |-> IF s \in OwnResults[r].of
                         THEN [OwnStmts[s] EXCEPT !.state = left] ELSE OwnStmts[s]]
    BY <2>9 DEF OwnStmts
  <2> QED BY <2>7, <2>10 DEF Own!Ends
<1>3. CASE NextDone(r)
  <2>1. Own!Ends(r, "DONE", "ready")
    BY <1>2, <1>3 DEF NextDone
  <2> QED BY <2>1, OwnTypes DEF NextRow, Own!NextRow
<1>4. CASE NextFails(r)
  <2>1. Own!Ends(r, "FAILURE", "failed")
    BY <1>2, <1>4 DEF NextFails
  <2> QED BY <2>1, OwnTypes DEF NextRow, Own!NextRow
<1> QED BY <1>1, <1>3, <1>4 DEF NextRow

LEMMA MoveResultRefines ==
    ASSUME IInv, NEW r \in Results, NEW other \in Results, MoveResult(r, other)
    PROVE  Own!MoveResult(r, other)
<1>1. /\ r # other
      /\ results[r] = None /\ results[other] # None
      /\ results'[r] = results[other] /\ results'[other] = None
      /\ \A q \in Results \ {r, other} : results'[q] = results[q]
      /\ UNCHANGED <<open, native, bound, stmts>>
  BY DEF MoveResult, IInv, TypeOK
<1>2. UNCHANGED OwnStmts
  BY <1>1 DEF OwnStmts
<1>3. \A q \in Results \ {r, other} : OwnResults'[q] = OwnResults[q]
  BY <1>1, SameResult DEF Usable
<1>4. OwnResults'[other] = None
  BY <1>1 DEF OwnResults
<1>5. OwnResults'[r] = OwnResults[other]
  BY <1>1 DEF OwnResults, Lenders, Usable
<1>6. OwnResults' = [OwnResults EXCEPT ![r] = OwnResults[other], ![other] = None]
  BY <1>1, <1>3, <1>4, <1>5 DEF OwnResults
<1>7. OwnResults[r] = None /\ OwnResults[other] # None
  BY <1>1, OwnTypes
<1> QED BY <1>1, <1>2, <1>6, <1>7 DEF Own!MoveResult

LEMMA DestroyResultRefines ==
    ASSUME IInv, NEW r \in Results, DestroyResult(r) PROVE Own!DestroyResult(r)
<1>1. PICK h \in Handles : h = results[r].sth
  BY DEF DestroyResult, IInv, TypeOK, Result
<1>2. /\ results[r] # None
      /\ results'[r] = None
      /\ \A q \in Results \ {r} : results'[q] = results[q]
      /\ \A g \in Handles \ {h} : native'[g] = native[g]
      /\ ~results[r].owned => native'[h] = native[h]
      /\ UNCHANGED <<open, bound, stmts>>
  BY <1>1 DEF DestroyResult, IInv, TypeOK
<1>3. ASSUME NEW s \in Stmts PROVE OwnStmts'[s] = OwnStmts[s]
  <2>1. Usable(s) => stmts[s].sth \in Handles
    BY DEF Usable, IInv, TypeOK, Stmt
  <2>2. Usable(s) /\ results[r].owned => stmts[s].sth # h
    BY <1>1, <1>2 DEF Usable, Has, IInv, ResultInv
  <2> QED BY <1>2, <2>1, <2>2, SameStatement
<1>4. UNCHANGED OwnStmts
  BY <1>3 DEF OwnStmts
<1>5. OwnResults'[r] = None
  BY <1>2 DEF OwnResults
<1>6. OwnResults' = [OwnResults EXCEPT ![r] = None]
  BY <1>2, <1>5, OtherResults
<1>7. OwnResults[r] # None
  BY <1>2, OwnTypes
<1> QED BY <1>2, <1>4, <1>6, <1>7 DEF Own!DestroyResult

(* What is left when the statement of an object is destroyed: the others    *)
(* show what they showed but for one, of the same handle, which is reset.   *)
LEMMA DestructorRefines ==
    ASSUME IInv, NEW s \in Stmts, stmts[s] # None, Destructor(s)
    PROVE  /\ [q \in Stmts |-> IF q = s THEN None ELSE Shown(stmts[q], native', bound')]
                 \in Own!Without(s)
           /\ Own!Unread(s)
<1> DEFINE rest == [q \in Stmts |->
                       IF q = s THEN None ELSE Shown(stmts[q], native', bound')]
<1>1. PICK h \in Handles : h = stmts[s].sth
  BY DEF IInv, TypeOK, Stmt
<1>2. /\ \A g \in Handles \ {h} : native'[g] = native[g]
      /\ CacheHas(h) => native'[h] = "ready" /\ bound' = bound
      /\ ~CacheHas(h) => /\ bound' = bound \ {h}
                         /\ \A q \in Stmts \ {s} : ~Has(q, h)
      /\ \A r \in Results : ~Reads(r, h)
  BY <1>1, DestructorEffect
<1>3. ASSUME NEW q \in Stmts \ {s}, ~(Usable(q) /\ stmts[q].sth = h)
      PROVE  rest[q] = OwnStmts[q]
  <2>1. Usable(q) => stmts[q].sth \in Handles \ {h}
    BY <1>3 DEF Usable, IInv, TypeOK, Stmt
  <2>2. Shown(stmts[q], native', bound') = Shown(stmts[q], native, bound)
    BY <1>2, <2>1, SameShown DEF Usable
  <2> QED BY <2>2 DEF OwnStmts
<1>4. Own!Unread(s)
  BY <1>1, <1>2, OwnUnread
<1>5. CASE \E q \in Stmts \ {s} : Usable(q) /\ stmts[q].sth = h
  <2>1. PICK q \in Stmts \ {s} : Usable(q) /\ stmts[q].sth = h
    BY <1>5
  <2>2. CacheHas(h)
    BY <1>2, <2>1 DEF Usable, Has
  <2>3. ~Usable(s)
    BY <1>1, <2>1 DEF IInv, ParamInv
  <2>4. PICK p \in BOOLEAN : p <=> h \in bound
    <3>1. CASE h \in bound
      BY <3>1
    <3>2. CASE h \notin bound
      BY <3>2
    <3> QED BY <3>1, <3>2
  <2>5. OwnStmts[q] = [state |-> native[h], bound |-> p]
    BY <2>1, <2>4, ShownUsable
  <2>6. Shown(stmts[q], native', bound') = [state |-> "ready", bound |-> p]
    BY <1>2, <2>1, <2>2, <2>4, ShownRecord DEF Usable
  <2>7. rest[q] = [OwnStmts[q] EXCEPT !.state = "ready"]
    BY <2>5, <2>6, RecordChanges
  <2>8. \A u \in Stmts \ {s, q} : rest[u] = OwnStmts[u]
    BY <1>3, <2>1 DEF IInv, ParamInv
  <2>9. rest[s] = None
    OBVIOUS
  <2> HIDE DEF rest
  <2>10. DOMAIN rest = Stmts /\ DOMAIN OwnStmts = Stmts
    BY DEF rest, OwnStmts
  <2>11. rest = [u \in Stmts |-> rest[u]]
    BY DEF rest
  <2>12. rest = [OwnStmts EXCEPT ![s] = None, ![q].state = "ready"]
    BY <2>7, <2>8, <2>9, <2>10, <2>11
  <2>13. ~Own!Usable(s) /\ Own!Usable(q) /\ Own!Unread(q)
    BY <1>2, <2>1, <2>3, OwnTypes, OwnUnread
  <2>14. rest \in Own!Without(s)
    BY <2>12, <2>13 DEF Own!Without
  <2> QED BY <1>4, <2>14 DEF rest
<1>6. CASE ~ \E q \in Stmts \ {s} : Usable(q) /\ stmts[q].sth = h
  <2>1. \A q \in Stmts \ {s} : rest[q] = OwnStmts[q]
    BY <1>3, <1>6
  <2>2. rest[s] = None
    OBVIOUS
  <2> HIDE DEF rest
  <2>3. rest = [u \in Stmts |-> rest[u]] /\ DOMAIN OwnStmts = Stmts
    BY DEF rest, OwnStmts
  <2>4. rest = [OwnStmts EXCEPT ![s] = None]
    BY <2>1, <2>2, <2>3
  <2>5. rest \in Own!Without(s)
    BY <2>4 DEF Own!Without
  <2> QED BY <1>4, <2>5 DEF rest
<1> QED BY <1>5, <1>6

LEMMA DestroyRefines ==
    ASSUME IInv, NEW s \in Stmts, Destroy(s) PROVE Own!Destroy(s)
<1>1. PICK h \in Handles : h = stmts[s].sth
  BY DEF Destroy, IInv, TypeOK, Stmt
<1>2. /\ stmts[s] # None /\ Destructor(s)
      /\ stmts' = [stmts EXCEPT ![s] = None]
      /\ stmts'[s] = None
      /\ \A q \in Stmts \ {s} : stmts'[q] = stmts[q]
      /\ UNCHANGED <<open, results>>
  BY DEF Destroy, IInv, TypeOK
<1>3. OwnStmts' = [q \in Stmts |->
                      IF q = s THEN None ELSE Shown(stmts[q], native', bound')]
  BY <1>2 DEF OwnStmts, Shown
<1>4. \A r \in Results : ~Reads(r, h)
  BY <1>1, <1>2, DestructorEffect
<1>5. UNCHANGED OwnResults
  <2>1. \A r \in Results : Reads(r, results[r].sth) => results[r].sth # h
    BY <1>4
  <2> QED BY <1>1, <1>2, <2>1, SameResults DEF Usable
<1>6. OwnStmts[s] # None
  BY <1>2, OwnTypes
<1> QED BY <1>2, <1>3, <1>5, <1>6, DestructorRefines DEF Own!Destroy

(* The rows that the other object lent have gone to the one that took its   *)
(* statement.                                                               *)
LEMMA AssignRefines ==
    ASSUME IInv, NEW s \in Stmts, NEW other \in Stmts, Assign(s, other)
    PROVE  Own!Assign(s, other)
<1> DEFINE rest == [q \in Stmts |->
                       IF q = s THEN None ELSE Shown(stmts[q], native', bound')]
<1>1. /\ s # other /\ stmts[other] # None
      /\ stmts'[s] = stmts[other] /\ stmts'[other] = None
      /\ \A q \in Stmts \ {s, other} : stmts'[q] = stmts[q]
      /\ UNCHANGED <<open, results>>
  BY TakenStatement DEF Assign
<1>2. rest \in Own!Without(s) /\ Own!Unread(s)
  <2>1. CASE stmts[s] # None
    BY <2>1, DestructorRefines DEF Assign
  <2>2. CASE stmts[s] = None
    <3>1. UNCHANGED <<native, bound>>
      BY <2>2 DEF Assign
    <3>2. rest = [OwnStmts EXCEPT ![s] = None]
      BY <3>1 DEF OwnStmts
    <3>3. Own!Unread(s)
      BY <2>2, OwnUnread DEF Usable
    <3> QED BY <3>2, <3>3 DEF Own!Without
  <2> QED BY <2>1, <2>2
<1>3. OwnStmts' = [rest EXCEPT ![s] = rest[other], ![other] = None]
  <2>1. \A q \in Stmts : OwnStmts'[q] = Shown(stmts'[q], native', bound')
    BY DEF OwnStmts
  <2>2. /\ \A q \in Stmts \ {s, other} : OwnStmts'[q] = rest[q]
        /\ OwnStmts'[s] = rest[other]
    BY <1>1, <2>1
  <2>3. OwnStmts'[other] = None
    BY <1>1, <2>1 DEF Shown
  <2>4. DOMAIN OwnStmts' = Stmts /\ OwnStmts' = [q \in Stmts |-> OwnStmts'[q]]
    BY DEF OwnStmts
  <2>5. DOMAIN rest = Stmts
    OBVIOUS
  <2> HIDE DEF rest
  <2> QED BY <1>1, <2>2, <2>3, <2>4, <2>5
<1>4. ASSUME NEW r \in Results
      PROVE  OwnResults'[r] = IF OwnResults[r] # None /\ other \in OwnResults[r].of
                              THEN [OwnResults[r] EXCEPT !.of = {s}] ELSE OwnResults[r]
  <2>1. CASE results[r] = None
    <3>1. OwnResults[r] = None /\ OwnResults'[r] = None
      BY <1>1, <2>1 DEF OwnResults
    <3> QED BY <3>1
  <2>2. CASE results[r] # None
    <3>1. PICK result : result = results[r] /\ result # None
      BY <2>2
    <3>2. /\ OwnResults[r] = [state |-> result.state, of |-> Lenders(result)]
          /\ OwnResults[r] # None
      BY <3>1, OwnTypes
    <3>3. OwnResults'[r] = [state |-> result.state, of |-> Lenders(result)']
      BY <1>1, <3>1 DEF OwnResults
    <3>4. s \notin Lenders(result)
      BY <1>2, <3>1, <3>2 DEF Own!Unread
    <3>5. CASE other \in Lenders(result)
      <4>1. \A q \in Stmts : Usable(q) /\ stmts[q].sth = result.sth <=> q = other
        BY <3>5 DEF Lenders, IInv, ParamInv
      <4>2. \A q \in Stmts : Usable(q)' /\ stmts'[q].sth = result.sth <=> q = s
        BY <1>1, <4>1 DEF Usable
      <4>3. Lenders(result)' = {s}
        BY <3>5, <4>2 DEF Lenders
      <4>4. [OwnResults[r] EXCEPT !.of = {s}] = [state |-> result.state, of |-> {s}]
        BY <3>2
      <4> QED BY <3>2, <3>3, <3>5, <4>3, <4>4
    <3>6. CASE other \notin Lenders(result)
      <4>1. Lenders(result)' = Lenders(result)
        BY <1>1, <3>4, <3>6 DEF Lenders, Usable
      <4> QED BY <3>2, <3>3, <3>6, <4>1
    <3> QED BY <3>5, <3>6
  <2> QED BY <2>1, <2>2
<1>5. OwnResults' = [r \in Results |->
         IF OwnResults[r] # None /\ other \in OwnResults[r].of
         THEN [OwnResults[r] EXCEPT !.of = {s}] ELSE OwnResults[r]]
  BY <1>4 DEF OwnResults
<1>6. OwnStmts[other] # None
  BY <1>1, OwnTypes
<1> HIDE DEF rest
<1> QED BY <1>1, <1>2, <1>3, <1>5, <1>6 DEF Own!Assign

LEMMA NextRefines == IInv /\ [Next]_vars => [Own!Next]_(Own!vars)
<1> SUFFICES ASSUME IInv, [Next]_vars PROVE [Own!Next]_(Own!vars)
  OBVIOUS
<1>1. CASE UNCHANGED vars
  <2>1. UNCHANGED <<open, native, bound, stmts, results>>
    BY <1>1 DEF vars
  <2> QED BY <2>1, ResultsStay DEF Own!vars, OwnStmts
<1>2. CASE Open
  BY <1>2, OpenRefines DEF Own!Next
<1>3. CASE Close
  BY <1>3, CloseRefines DEF Own!Next
<1>4. CASE \E s \in Stmts, t \in Texts : Prepare(s, t)
  BY <1>4, PrepareHitRefines, PrepareMissRefines DEF Prepare, Own!Next
<1>5. CASE \E s \in Stmts : Bind(s) \/ Reset(s) \/ Destroy(s)
  BY <1>5, BindRefines, ResetRefines, DestroyRefines DEF Own!Next
<1>6. CASE \E s, other \in Stmts : Assign(s, other)
  BY <1>6, AssignRefines DEF Own!Next
<1>7. CASE \E s \in Stmts, r \in Results : Exec(s, r)
  BY <1>7, ExecRefines DEF Own!Next
<1>8. CASE \E r \in Results : ExecSql(r) \/ NextRow(r) \/ DestroyResult(r)
  BY <1>8, ExecSqlRefines, NextRowRefines, DestroyResultRefines DEF Own!Next
<1>9. CASE \E r, other \in Results : MoveResult(r, other)
  BY <1>9, MoveResultRefines DEF Own!Next
<1> QED BY <1>1, <1>2, <1>3, <1>4, <1>5, <1>6, <1>7, <1>8, <1>9 DEF Next

(* Whatever texts are prepared and however objects are moved, executed and  *)
(* destroyed, the program sees statements and results that share nothing,   *)
(* but for what becomes of one whose text is prepared again.                *)
THEOREM StatementsShareNothing == Spec => SharesNothing
<1>1. Init => Own!Init
  BY DEF Init, Own!Init, OwnStmts, OwnResults, Shown
<1>2. IInv /\ [Next]_vars => [Own!Next]_(Own!vars)
  BY NextRefines
<1> QED BY <1>1, <1>2, Invariant, PTL DEF Spec, Own!Spec, SharesNothing
=============================================================================
