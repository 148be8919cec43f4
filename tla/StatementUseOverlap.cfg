SPECIFICATION Spec
CONSTANTS
  Readers = {app}
  Runners = {apply}
  Uses <- SharedUses
  Shared <- MCShared
  MaxRows = 1
  NULL = NULL
CHECK_DEADLOCK FALSE
PROPERTIES AppliedAsLogged
