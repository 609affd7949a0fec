----------------------------- MODULE MCEnvStore -----------------------------
(* Instances of EnvStore for TLC: two threads; a key that holds integers and *)
(* a key that holds strings.                                                 *)
EXTENDS EnvStore

CONSTANTS k1, k2

MCInt(n) == [type |-> "int", val |-> n]
MCString == [type |-> "string", val |-> 0]
MCValues == {MCInt(1), MCInt(2), MCString}

MCTyped(k) == IF k = k1 THEN {MCInt(1), MCInt(2)} ELSE {MCString}

MCRequests ==
    UNION {[op : {"set"}, key : {k}, val : MCTyped(k)] : k \in Keys}
        \cup UNION {[op : {"get"}, key : {k}, type : {v.type : v \in MCTyped(k)}] :
                      k \in Keys}
        \cup [op : {"setnull", "remove"}, key : Keys]
        \cup ClearRequests
=============================================================================
