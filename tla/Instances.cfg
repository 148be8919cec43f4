SPECIFICATION FairSpec
CONSTANTS
  Inst = {a, b}
  MaxOps = 2
  MaxReopens = 1
  NULL = NULL
CHECK_DEADLOCK FALSE
CONSTRAINT FewMishaps
INVARIANTS TypeOK OwnVfsOneByOne AppliedIsStored NoDeadVfs NoNullHandle
PROPERTIES OpensAndCloses
