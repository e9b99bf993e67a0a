SPECIFICATION Spec
CONSTANTS
  Users = {u}
  Flushers = {f}
  MAX_CACHE_SECTORS = 2
  Sectors = {s1, s2, s3}
  a = a
  b = b
  Parts = {a}
  Values = {0, 1}
  Zero = 0
  Writes <- WholeSectors
  EntryCount = 3
  NULL = NULL
SYMMETRY Symmetry
INVARIANTS TypeOK OneCopy FlushComplete
PROPERTY StoreSpec
