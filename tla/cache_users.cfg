SPECIFICATION Spec
CONSTANTS
  Users = {u, v, w}
  Flushers = {}
  MAX_CACHE_SECTORS = 2
  Sectors = {s1, s2, s3}
  a = a
  b = b
  Parts = {a}
  Values = {0}
  Zero = 0
  Writes = {}
  EntryCount = 7
  NULL = NULL
SYMMETRY Symmetry
INVARIANT ReplacesOwnSlot
CHECK_DEADLOCK FALSE
