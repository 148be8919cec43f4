SPECIFICATION FairSpec
CONSTANTS
  Readers = {app}
  Runners = {apply}
  Uses <- MCUses
  Shared <- MCShared
  MaxRows = 2
  NULL = NULL
CHECK_DEADLOCK FALSE
INVARIANTS TypeOK BindsExactly OwnOutcome PointersLive CleanWhenIdle
PROPERTIES CallsReturn
