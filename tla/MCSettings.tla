----------------------------- MODULE MCSettings -----------------------------
(* Instances of Settings for TLC: two threads, two keys, three values of two *)
(* types, and an engine that may fail.                                       *)
EXTENDS Settings, TLC

CONSTANTS c1, c2, k1, k2

MCInt(n) == [type |-> "int", val |-> n]
MCString == [type |-> "string", val |-> 0]
MCValues == {MCInt(1), MCInt(2), MCString}

MCRequests == {}

MCCalls == [op : {"set", "get", "take"}, key : Keys, val : MCValues]
             \cup [op : {"remove"}, key : Keys]

(* Each thread has a key of its own and makes every call on it.              *)
MCOwnKeys ==
    c1 :> {r \in MCCalls : r.key = k1} @@ c2 :> {r \in MCCalls : r.key = k2}

(* The threads share a key: both take it with one default, read it as either *)
(* type and remove it, and set it to that default only.                      *)
MCShared ==
    LET calls == [op : {"take", "set"}, key : {k1}, val : {MCInt(1)}]
                   \cup [op : {"get"}, key : {k1}, val : MCValues]
                   \cup [op : {"remove"}, key : {k1}]
    IN  c1 :> calls @@ c2 :> calls

MCUses == {MCOwnKeys, MCShared}
=============================================================================
