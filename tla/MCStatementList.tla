---------------------------- MODULE MCStatementList ----------------------------
(* StatementList for TLC.  Threads are alike, and so are statements.        *)
EXTENDS StatementList, TLC

Symmetry == Permutations(Threads) \cup Permutations(Stmts)
=============================================================================
