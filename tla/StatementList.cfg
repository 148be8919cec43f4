SPECIFICATION Spec
CONSTANTS
  Threads = {t1, t2}
  Stmts = {s1, s2, s3}
  NULL = NULL
CHECK_DEADLOCK FALSE
SYMMETRY Symmetry
INVARIANTS ListIntact NoUseAfterFree FinalizedOnce
