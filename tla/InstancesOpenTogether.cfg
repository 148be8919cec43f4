SPECIFICATION Spec
CONSTANTS
  Inst = {a, b}
  MaxOps = 0
  MaxReopens = 0
  NULL = NULL
CHECK_DEADLOCK FALSE
INVARIANTS OwnVfs
