SPECIFICATION Spec
CONSTANTS
  Calls = {c1, c2}
  Remotes = {r1}
  Params = {p}
  BadParams = {}
  Compressed = TRUE
  Sequential = FALSE
  Faults = {"open", "stmt", "del"}
  WriterOps = {"WRITER_ADD", "WRITER_DEL"}
  MaxQueue = 1
  MaxGroup = 2
  MaxDirect = 1
  NULL = NULL
  THREW = THREW
CHECK_DEADLOCK FALSE
SYMMETRY Symmetry
PROPERTIES AckedAfterApply
