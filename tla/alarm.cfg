SPECIFICATION MCFairSpec
CONSTANTS
  main = t0 idle = idle NULL = NULL
  l1 = l1 l2 = l2 tid_lock = tid_lock
  Threads = {t0, t1}
  Semas = {}
  Locks = {tid_lock}
  Conds = {}
  CondLock <- OneCond
  Nesting <- Ordered
  PRI_MAX = 1
  PRI_DEFAULT = 1
  TIME_SLICE = 2
  Sleeps <- SleepArgs
  MaxTicks = 2
  MaxValue = 0
  Calls = {"thread_sleep", "thread_set_priority", "thread_yield", "thread_create", "thread_exit"}
  Chosen = {"alarm"}
INVARIANTS TypeOK OneList
PROPERTIES AlarmExact HigherRuns SleepersWake
