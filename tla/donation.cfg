SPECIFICATION MCSpec
CONSTANTS
  main = t0 idle = idle NULL = NULL
  l1 = l1 l2 = l2 tid_lock = tid_lock
  Threads = {t0, t1, t2}
  Semas = {}
  Locks = {l1, tid_lock}
  Conds = {}
  CondLock <- OneCond
  Nesting <- Ordered
  PRI_MAX = 1
  PRI_DEFAULT = 1
  TIME_SLICE = 1
  Sleeps <- NoSleep
  MaxTicks = 0
  MaxValue = 0
  Calls = {"lock_acquire", "lock_release", "thread_create", "thread_set_priority"}
  Chosen = {"donation"}
SYMMETRY Symmetry
INVARIANT DonationReaches
