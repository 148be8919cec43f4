----------------------------- MODULE MCWritePath -----------------------------
(* WritePath for TLC.  Calls are interchangeable, and so are the rows of one *)
(* kind; symmetry is used only by runs without liveness properties.          *)
EXTENDS WritePath, TLC

Symmetry == Permutations(Calls) \cup Permutations(Remotes)

\* Where calls are made one after the other and liveness rules symmetry out:
\* of the orders of the calls, those that begin with a given one.  No fairness
\* is about making a call, so leaving the mirror images out hides nothing.
First == CHOOSE c \in Calls : TRUE
OneOrder == (\E c \in Calls : pc[c] # "idle") => pc[First] # "idle"
=============================================================================
