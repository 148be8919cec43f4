--------------------------- MODULE MCStatementCache ---------------------------
(* StatementCache for TLC.  The check of liveness forbids symmetry. *)
EXTENDS StatementCache
=============================================================================
