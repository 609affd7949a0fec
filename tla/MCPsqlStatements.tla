-------------------------- MODULE MCPsqlStatements --------------------------
(* Small instances of PsqlStatements for TLC.                                *)
EXTENDS PsqlStatements, TLC

(* Every text has a name of its own.                                         *)
MCName == [sql \in Sqls |-> sql]

Symmetry == Permutations(Sqls) \cup Permutations(Stmts)
=============================================================================
