----------------------------- MODULE MCInMemory -----------------------------
(* Instances of InMemory for TLC: two keys, a value of each of two types.    *)
EXTENDS InMemory

MCValues == {[type |-> "int", val |-> 1], [type |-> "string", val |-> 1]}

MCRequests == AllRequests

(* Threads sharing an _mt variant, and one thread on its own with an _st one *)
(* making every call of the interface.                                       *)
MCSerialized ==
    {[mt |-> TRUE, users |-> Clients, requests |-> LockingRequests]}
        \cup {[mt |-> FALSE, users |-> {c}, requests |-> AllRequests] :
                c \in Clients}

(* Threads sharing an _mt variant, one of which may write a null pointer.    *)
MCWithNull ==
    {[mt |-> TRUE, users |-> Clients,
      requests |-> SetRequests \cup NullRequests]}
=============================================================================
