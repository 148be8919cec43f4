SPECIFICATION Spec
CONSTANTS
  Files = {main, journal}
  Main = main
  PAGE_SIZE = 2
  MaxPages = 2
  Data <- MCData
  MaxWrites = 2
  Encrypted = TRUE
  Compressed = TRUE
  Disciplined = {main}
  NULL = NULL
  DELETED = DELETED
INVARIANTS TypeOK PagesProtected
PROPERTIES ImplementsByteFile BytesKept
VIEW WithoutOut
