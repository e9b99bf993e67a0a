----------------------------- MODULE MCThreads -----------------------------
(***************************************************************************)
(* Instances of Threads for TLC.  A behaviour begins with the choice of a  *)
(* workload, which says what the clients call, which locks they acquire    *)
(* and which priorities they give to threads.                              *)
(***************************************************************************)
EXTENDS Threads, TLC

CONSTANTS l1, l2,
  Chosen    \* the names of the workloads of a run

VARIABLE workload

OneCond == [c \in Conds |-> l1]
Ordered == {<<l1, l2>>}

\* Arguments of timer_sleep(): in the past, and one and two ticks ahead.
SleepArgs == {-1, 1, 2}
NoSleep == {}

\* The pages other than the initial thread's are interchangeable.
Symmetry == Permutations(Threads \ {main})

Load(calls, locks, gives) == [calls |-> calls, locks |-> locks, gives |-> gives]

Workloads ==
  [locks |-> Load({"lock_acquire", "lock_try_acquire", "lock_release", "thread_create"},
                  {l1, l2}, 0..2),
   sync  |-> Load({"sema_down", "sema_try_down", "sema_up", "thread_create", "thread_exit",
                   "interrupt"}, {}, 0..1),
   conds |-> Load({"lock_acquire", "lock_release", "cond_wait", "cond_signal",
                   "cond_broadcast", "thread_create"}, {l1}, 0..1),
   alarm |-> Load({"thread_sleep", "thread_set_priority", "thread_yield", "thread_create",
                   "thread_exit"}, {}, 0..1),
   inversion |-> Load({"lock_acquire", "lock_release", "thread_create"}, {l1}, 0..2),
   donation |-> Load({"lock_acquire", "lock_release", "thread_create",
                      "thread_set_priority"}, {l1}, 0..1)]

W == Workloads[workload]

\* A call that clients of the workload make.
Made(f) ==
  /\ f.op \in W.calls
  /\ f.op \in {"lock_acquire", "lock_try_acquire"} => f.arg \in W.locks
  /\ f.op \in {"thread_create", "thread_set_priority"} => f.arg \in W.gives

MCInit == /\ Init /\ workload \in Chosen
          /\ "sema_up" \notin W.calls => \A s \in Semas : value[s] = 0

MCClientCall == ClientCall /\ Made(Head(stack'[cur]))

MCNext == /\ Kernel \/ MCClientCall \/ TimerInterrupt
             \/ ("interrupt" \in W.calls /\ DeviceInterrupt)
          /\ UNCHANGED workload

MCSpec == MCInit /\ [][MCNext]_<<vars, workload>>

MCFairSpec == MCSpec /\ Fairness

MCReleasingSpec == MCFairSpec /\ Releasing
=============================================================================
