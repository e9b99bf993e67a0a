SPECIFICATION Spec
CONSTANTS
  Users = {u}
  Flushers = {}
  MAX_CACHE_SECTORS = 1
  Sectors = {s1, s2}
  a = a
  b = b
  Parts = {a, b}
  Values = {0, 1}
  Zero = 0
  Writes <- AnyPart
  EntryCount = 3
  NULL = NULL
SYMMETRY Symmetry
PROPERTY StoreSpec
