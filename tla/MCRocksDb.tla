------------------------------ MODULE MCRocksDb ------------------------------
(* Instances of RocksDb for TLC: two keys, two values of one type, every call *)
(* of the interface.                                                          *)
EXTENDS RocksDb

MCValues == {[type |-> "int", val |-> 1], [type |-> "int", val |-> 2]}

MCRequests == AllRequests
=============================================================================
