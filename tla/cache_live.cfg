SPECIFICATION FairSpec
CONSTANTS
  Users = {u}
  Flushers = {f}
  MAX_CACHE_SECTORS = 2
  Sectors = {s1, s2, s3}
  a = a
  b = b
  Parts = {a}
  Values = {0}
  Zero = 0
  Writes <- WholeSectors
  EntryCount = 3
  NULL = NULL
PROPERTY CallsReturn
