----------------------------- MODULE MCPageFiles -----------------------------
(* PageFiles for TLC: the main file and a temporary one, and writes within a  *)
(* page, of a whole page and across a page boundary.                          *)
EXTENDS PageFiles

\* What the last operation returned has no effect on the next one.
WithoutOut == <<store, files, spoiled, writes>>

MCData == {<<1>>, <<2>>, <<1, 2>>, <<2, 1, 1>>}
=============================================================================
