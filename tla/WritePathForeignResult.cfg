SPECIFICATION Spec
CONSTANTS
  Calls = {c1}
  Remotes = {r1}
  Params = {p}
  BadParams = {}
  Compressed = FALSE
  Sequential = TRUE
  Faults = {}
  WriterOps = {}
  MaxQueue = 0
  MaxGroup = 1
  MaxDirect = 0
  NULL = NULL
  THREW = THREW
CHECK_DEADLOCK FALSE
INVARIANTS ResultIsOwn
