--------------------------- MODULE MCTransactions ---------------------------
(* Instances of Transactions for TLC: every usage of both engines, with the  *)
(* calls of the program and those of its transaction bodies.                 *)
EXTENDS Transactions

MCUsages == [engine : {"sqlite3", "psql"}, nests : BOOLEAN, ignores : BOOLEAN]
=============================================================================
