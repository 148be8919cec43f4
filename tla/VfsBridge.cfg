SPECIFICATION FairSpec
CONSTANTS
  r1 = r1
  r2 = r2
  r3 = r3
  d1 = d1
  d2 = d2
  v1 = v1
  v2 = v2
  Reqs <- MCReqs
  Conns = {d1, d2}
  Vfses = {v1, v2}
  ConnOf <- MCConnOf
  VfsOf <- MCVfsOf
  PoolSize = 4
  PooledFns = {"read", "write", "truncate"}
  MaxApis = 1
  MaxIos = 1
  NoReq = NoReq
INVARIANTS TypeOK OwnCompletion CallerWaits OneOutstanding
PROPERTIES EveryRequestSettles
