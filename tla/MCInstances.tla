------------------------------ MODULE MCInstances ------------------------------
(* Instances for TLC.  The check of liveness forbids symmetry. *)
EXTENDS Instances

\* A property excepts up to three kinds of mishap; every two of the four meet
\* here, and no fairness obliges anybody to bring about a third.
FewMishaps == Cardinality(mishaps) <= 2
=============================================================================
