------------------------- MODULE MCSqliteStatements -------------------------
(* Small instances of SqliteStatements for TLC.                              *)
EXTENDS SqliteStatements, TLC

(* The actions treat the addresses alike, and the texts, and the objects.    *)
Symmetry == Permutations(Texts) \cup Permutations(Handles)
            \cup Permutations(Stmts) \cup Permutations(Results)
=============================================================================
