SPECIFICATION FairSpec
CONSTANTS
  Calls = {c1, c2}
  Remotes = {r1}
  Params = {p, bad}
  BadParams = {bad}
  Compressed = FALSE
  Sequential = TRUE
  Faults = {}
  WriterOps = {"WRITER_ADD"}
  MaxQueue = 2
  MaxGroup = 1
  MaxDirect = 0
  NULL = NULL
  THREW = THREW
CHECK_DEADLOCK FALSE
CONSTRAINT OneOrder
INVARIANTS TypeOK ResultIsOwnAlone FlushTotals NoRowLost ViewIsReplay
PROPERTIES CallsReturn
