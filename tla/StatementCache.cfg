SPECIFICATION FairSpec
CONSTANTS
  Callers = {app, apply}
  Sqls = {a, b, c}
  Stmts = {s1, s2, s3}
  cacheSize = 2
  NULL = NULL
CHECK_DEADLOCK FALSE
INVARIANTS TypeOK CacheBound OneLivePerSql AllFinalized LeastRecentFirst HitsAreLive
PROPERTIES ReturnsOpen CallsReturn
