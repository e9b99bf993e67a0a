SPECIFICATION MCSpec
CONSTANTS
  main = t0 idle = idle NULL = NULL
  l1 = l1 l2 = l2 tid_lock = tid_lock
  Threads = {t0, t1, t2}
  Semas = {s1}
  Locks = {l1, l2, tid_lock}
  Conds = {c1}
  CondLock <- OneCond
  Nesting <- Ordered
  PRI_MAX = 2
  PRI_DEFAULT = 1
  TIME_SLICE = 1
  Sleeps <- NoSleep
  MaxTicks = 0
  MaxValue = 2
  Calls = {"lock_acquire", "lock_try_acquire", "lock_release", "sema_down", "sema_try_down", "sema_up", "cond_wait", "cond_signal", "cond_broadcast", "thread_create", "thread_exit", "interrupt"}
  Chosen = {"locks", "sync", "conds"}
SYMMETRY Symmetry
INVARIANTS MutualExclusion OwnPriority OneList NoLostWakeup SignalNotLost
PROPERTY LockProtectsCond
