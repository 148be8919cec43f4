SPECIFICATION FairSpec
CONSTANTS
  r1 = r1
  r2 = r2
  r3 = r3
  d1 = d1
  d2 = d2
  v1 = v1
  v2 = v2
  Reqs <- MCPair
  Conns = {d1}
  Vfses = {v1}
  ConnOf <- MCPairConnOf
  VfsOf <- MCPairVfsOf
  PoolSize = 2
  PooledFns = {"read", "write", "truncate"}
  MaxApis = 2
  MaxIos = 2
  NoReq = NoReq
PROPERTIES EveryRequestSettles
CHECK_DEADLOCK FALSE
