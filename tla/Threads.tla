------------------------------ MODULE Threads ------------------------------
(***************************************************************************)
(* The kernel threads of Pintos: priority scheduler, semaphores, locks     *)
(* with priority donation, Mesa condition variables and the alarm clock    *)
(* (threads/thread.c, threads/synch.c, devices/timer.c,                    *)
(* threads/interrupt.c).                                                   *)
(*                                                                         *)
(* The machine has one processor.  Every step is taken by the running      *)
(* thread `cur' or by an interrupt that arrives while interrupts are on.   *)
(* A section of code that runs with interrupts off is one action, up to    *)
(* the point where it switches threads.  stack[t] is what thread t still   *)
(* has to execute inside the kernel: a sequence of frames, innermost call  *)
(* first.  A thread whose stack is empty is in client code and may make    *)
(* any call that the assertions of the callee allow.                       *)
(***************************************************************************)
EXTENDS Integers, Sequences, FiniteSets, FiniteSetsExt, Functions

CONSTANTS
  Threads,      \* pages that can hold a thread other than the idle thread
  main,         \* initial_thread
  idle,         \* idle_thread
  Semas,        \* semaphores that clients use
  Locks,        \* locks, tid_lock among them
  tid_lock,     \* the lock of allocate_tid()
  Conds,        \* condition variables
  CondLock,     \* the one lock that each condition variable goes with
  Nesting,      \* pairs <<m, l>>: clients acquire l while they hold m
  PRI_MAX, PRI_DEFAULT,
  TIME_SLICE,
  Sleeps,       \* arguments that clients pass to timer_sleep()
  Calls,        \* the calls that clients make
  NULL,
  MaxTicks,     \* horizon: ticks is counted up to here
  MaxValue      \* bound on the value of a client semaphore

PRI_MIN == 0

All == Threads \cup {idle}

\* One semaphore per client semaphore, one inside every lock, and the one
\* that a thread puts on its own stack while it is in cond_wait().
SemaIds == Semas \cup Locks \cup Threads

ASSUME ThreadsAssumption ==
  /\ main \in Threads /\ idle \notin Threads /\ tid_lock \in Locks
  /\ NULL \notin All \cup SemaIds
  /\ Semas \cap Locks = {} /\ Semas \cap All = {} /\ Locks \cap All = {}
  /\ CondLock \in [Conds -> Locks \ {tid_lock}]
  /\ PRI_MAX \in Nat /\ PRI_DEFAULT \in PRI_MIN..PRI_MAX
  /\ TIME_SLICE \in Nat \ {0} /\ MaxTicks \in Nat /\ MaxValue \in Nat
  /\ Sleeps \subseteq Int

VARIABLES
  cur,           \* the running thread
  status,        \* enum thread_status; "free" is a page that holds no thread
  ready,         \* ready_list
  thread_ticks,  \* timer ticks since the last thread switch
  stack,         \* what each thread has left to do inside the kernel
  priority, instrinsic, lock_list, waiting_lock,   \* struct thread
  value, waiters,                                  \* struct semaphore
  holder, max_priority,                            \* struct lock
  cond_waiters, waiter_priority,                   \* condition, semaphore_elem
  ticks, sleep_list, wakeup_time                   \* the alarm clock

schedVars == <<cur, status, ready, thread_ticks>>
priVars   == <<priority, instrinsic>>
lockVars  == <<lock_list, waiting_lock, holder, max_priority>>
semaVars  == <<value, waiters>>
condVars  == <<cond_waiters, waiter_priority>>
timeVars  == <<ticks, sleep_list, wakeup_time>>
vars == <<schedVars, stack, priVars, lockVars, semaVars, condVars, timeVars>>

Priorities == PRI_MIN..PRI_MAX

-----------------------------------------------------------------------------
(* Frames *)

Frame(op, arg) == [op |-> op, arg |-> arg]

Top(t) == Head(stack[t])

\* The running thread is about to execute operation `op' with argument `x'.
Doing(op, x) == stack[cur] # <<>> /\ Top(cur) = Frame(op, x)

\* The stack of the running thread once its innermost frame is replaced.
Replace(frames) == [stack EXCEPT ![cur] = frames \o Tail(@)]

Return == Replace(<<>>)

\* Frames at whose start interrupts are on.  The others continue a section
\* that turned them off: the inside of lock_acquire(), a sema_down() that
\* has slept, the part of lock_release() behind the yield in sema_up().
IntrOnOps == {"lock_acquire", "lock_try_acquire", "lock_release", "sema_down",
              "sema_try_down", "sema_up", "cond_wait", "cond_signal",
              "cond_broadcast", "thread_yield", "thread_set_priority",
              "thread_sleep", "thread_create", "thread_start",
              "thread_exit", "idle", "hlt"}

IntrOn == stack[cur] # <<>> => Top(cur).op \in IntrOnOps

-----------------------------------------------------------------------------
(* Lists *)

\* As in SequencesExt, which would put all its definitions into the context of
\* every proof.
RemoveAt(s, i) == SubSeq(s, 1, i - 1) \o SubSeq(s, i + 1, Len(s))

InsertAt(s, i, e) == SubSeq(s, 1, i - 1) \o <<e>> \o SubSeq(s, i, Len(s))

\* (mutant: the comparison is the wrong way round)
ListMax_Least(list, key) ==
  CHOOSE i \in DOMAIN list :
    /\ \A j \in DOMAIN list : key[list[j]] >= key[list[i]]
    /\ \A j \in 1..(i-1) : key[list[j]] > key[list[i]]

\* list_max(): the first of the greatest elements.
ListMax(list, key) ==
  CHOOSE i \in DOMAIN list :
    /\ \A j \in DOMAIN list : key[list[j]] <= key[list[i]]
    /\ \A j \in 1..(i-1) : key[list[j]] < key[list[i]]

\* (mutant: the new element goes to the end)
InsertOrdered_Back(list, key, e) == Append(list, e)

\* list_insert_ordered(): in front of the first greater element.
InsertOrdered(list, key, e) ==
  LET after == {i \in DOMAIN list : key[e] < key[list[i]]}
  IN  InsertAt(list, IF after = {} THEN Len(list) + 1 ELSE Min(after), e)

-----------------------------------------------------------------------------
(* Scheduling *)

\* (mutant: the next thread stays on the ready list)
Schedule_NoPop(list, st, pri) ==
  LET next == IF list = <<>> THEN idle ELSE list[ListMax(list, pri)]
  IN  /\ cur' = next
      /\ ready' = list
      /\ status' = [st EXCEPT ![next] = "running"]
      /\ thread_ticks' = 0

\* schedule(), next_thread_to_run() and thread_schedule_tail(), with `list',
\* `st' and `pri' the ready list, status and priorities at the call.
Schedule(list, st, pri) ==
  LET i    == ListMax(list, pri)
      next == IF list = <<>> THEN idle ELSE list[i]
  IN  /\ cur' = next
      /\ ready' = IF list = <<>> THEN list ELSE RemoveAt(list, i)
      /\ status' = [st EXCEPT ![next] = "running"]
      /\ thread_ticks' = 0

\* thread_yield()
Yield(list, st, pri) ==
  Schedule(IF cur = idle THEN list ELSE Append(list, cur),
           [st EXCEPT ![cur] = "ready"], pri)

\* thread_block()
Block == Schedule(ready, [status EXCEPT ![cur] = "blocked"], priority)

-----------------------------------------------------------------------------
(* Priority donation *)

\* (mutant: donations are ignored)
AdjustPriority_OwnOnly(t, own, held, maxp) == own

\* (mutant: a thread keeps what was donated to it)
AdjustPriority_Sticky(t, own, held, maxp) ==
  Max({own, priority[t]} \cup {maxp[l] : l \in held})

\* adjust_priority(): the priority of t, whose own priority is `own', when it
\* holds the locks `held'.  A thread that still holds locks keeps the priority
\* it has unless one of the locks brings more than its own priority.
AdjustPriority(t, own, held, maxp) ==
  IF held = {}
  THEN own
  ELSE LET m == Max({maxp[l] : l \in held})
       IN  IF own < m THEN m ELSE priority[t]

\* One call of flush_priority(); the recursive call is the next step.
FlushPriority ==
  \E t \in Threads :
    /\ Doing("flush_priority", t)
    /\ LET l == waiting_lock[t] IN
       IF l # NULL /\ priority[t] > max_priority[l]
       THEN LET maxp == [max_priority EXCEPT ![l] = priority[t]]
                h    == holder[l]
            IN  /\ max_priority' = maxp
                /\ IF h # NULL
                   THEN /\ priority' = [priority EXCEPT ![h] =
                                          AdjustPriority(h, instrinsic[h], lock_list[h], maxp)]
                        /\ stack' = Replace(<<Frame("flush_priority", h)>>)
                   ELSE /\ stack' = Return
                        /\ UNCHANGED priority
       ELSE /\ stack' = Return
            /\ UNCHANGED <<max_priority, priority>>
    /\ UNCHANGED <<schedVars, instrinsic, lock_list, waiting_lock, holder,
                   semaVars, condVars, timeVars>>

\* flush_lock_priority()
FlushLockPriority(l) ==
  IF waiters[l] = <<>> THEN PRI_MIN
  ELSE priority[waiters[l][ListMax(waiters[l], priority)]]

-----------------------------------------------------------------------------
(* Semaphores *)

\* (mutant: only the up that makes the value positive wakes a waiter)
Woken_OnlyFromZero(s) == IF waiters[s] = <<>> \/ value[s] > 0 THEN <<>>
                         ELSE <<waiters[s][ListMax(waiters[s], priority)]>>

\* The effect of sema_up() up to its thread_yield(): the waiter with the
\* greatest priority, if there is one, becomes ready.
Woken(s) == IF waiters[s] = <<>> THEN <<>>
            ELSE <<waiters[s][ListMax(waiters[s], priority)]>>

WokenStatus(s) == [t \in All |-> IF t \in Range(Woken(s)) THEN "ready"
                                                          ELSE status[t]]

\* (mutant: the woken thread stays on the list of waiters)
Up_NoRemove(s) ==
  /\ value' = [value EXCEPT ![s] = @ + 1]
  /\ UNCHANGED waiters

Up(s) ==
  /\ value' = [value EXCEPT ![s] = @ + 1]
  /\ waiters' = IF waiters[s] = <<>> THEN waiters
                ELSE [waiters EXCEPT ![s] = RemoveAt(@, ListMax(@, priority))]

\* sema_down(): the first test of the value and, once the thread has slept,
\* the test it makes when it is scheduled again.
SemaDown ==
  \E s \in SemaIds :
    /\ Doing("sema_down", s) \/ Doing("sema_sleep", s)
    /\ IF value[s] = 0
       THEN /\ waiters' = [waiters EXCEPT ![s] = Append(@, cur)]
            /\ stack' = Replace(<<Frame("sema_sleep", s)>>)
            /\ Block
            /\ UNCHANGED value
       ELSE /\ value' = [value EXCEPT ![s] = @ - 1]
            /\ stack' = Return
            /\ UNCHANGED <<waiters, schedVars>>
    /\ UNCHANGED <<priVars, lockVars, condVars, timeVars>>

\* (mutant: the value is not tested)
CanDown_Untested(s) == TRUE

\* The test of sema_try_down().
CanDown(s) == value[s] > 0

SemaTryDown ==
  \E s \in Semas :
    /\ Doing("sema_try_down", s)
    /\ value' = IF CanDown(s) THEN [value EXCEPT ![s] = @ - 1] ELSE value
    /\ stack' = Return
    /\ UNCHANGED <<schedVars, waiters, priVars, lockVars, condVars, timeVars>>

SemaUp ==
  \E s \in SemaIds :
    /\ Doing("sema_up", s)
    /\ Up(s)
    /\ ready' = ready \o Woken(s)
    /\ status' = WokenStatus(s)
    /\ stack' = Replace(<<Frame("thread_yield", NULL)>>)
    /\ UNCHANGED <<cur, thread_ticks, priVars, lockVars, condVars, timeVars>>

-----------------------------------------------------------------------------
(* Locks *)

\* lock_acquire() up to its sema_down(): interrupts go off.
LockAcquire ==
  \E l \in Locks :
    /\ Doing("lock_acquire", l)
    /\ waiting_lock' = [waiting_lock EXCEPT ![cur] = l]
    /\ stack' = Replace(<<Frame("flush_priority", cur), Frame("lock_down", l)>>)
    /\ UNCHANGED <<schedVars, priVars, lock_list, holder, max_priority,
                   semaVars, condVars, timeVars>>

\* The running thread becomes the holder of l.
Hold(l) ==
  /\ holder' = [holder EXCEPT ![l] = cur]
  /\ lock_list' = [lock_list EXCEPT ![cur] = @ \cup {l}]
  /\ priority' = [priority EXCEPT ![cur] =
                    AdjustPriority(cur, instrinsic[cur], lock_list[cur] \cup {l},
                                   max_priority)]

\* The sema_down() inside lock_acquire(), and the rest of lock_acquire() once
\* it succeeds.
LockDown ==
  \E l \in Locks :
    /\ Doing("lock_down", l)
    /\ IF value[l] = 0
       THEN /\ waiters' = [waiters EXCEPT ![l] = Append(@, cur)]
            /\ Block
            /\ UNCHANGED <<stack, value, priority, lockVars>>
       ELSE /\ value' = [value EXCEPT ![l] = @ - 1]
            /\ Hold(l)
            /\ waiting_lock' = [waiting_lock EXCEPT ![cur] = NULL]
            /\ stack' = Return
            /\ UNCHANGED <<schedVars, waiters, max_priority>>
    /\ UNCHANGED <<instrinsic, condVars, timeVars>>

LockTryAcquire ==
  \E l \in Locks :
    /\ Doing("lock_try_acquire", l)
    /\ IF CanDown(l)
       THEN value' = [value EXCEPT ![l] = @ - 1] /\ Hold(l)
       ELSE UNCHANGED <<value, holder, lock_list, priority>>
    /\ stack' = Return
    /\ UNCHANGED <<schedVars, instrinsic, waiting_lock, max_priority, waiters,
                   condVars, timeVars>>

\* lock_release() up to the thread_yield() at the end of its sema_up(), which
\* runs with interrupts off.
LockRelease ==
  \E l \in Locks :
    /\ Doing("lock_release", l)
    /\ LET pri == [priority EXCEPT ![cur] =
                     AdjustPriority(cur, instrinsic[cur], lock_list[cur] \ {l},
                                    max_priority)]
       IN  /\ priority' = pri
           /\ Yield(ready \o Woken(l), WokenStatus(l), pri)
    /\ holder' = [holder EXCEPT ![l] = NULL]
    /\ lock_list' = [lock_list EXCEPT ![cur] = @ \ {l}]
    /\ Up(l)
    /\ stack' = Replace(<<Frame("release_tail", l)>>)
    /\ UNCHANGED <<instrinsic, waiting_lock, max_priority, condVars, timeVars>>

\* The end of lock_release(): flush_lock_priority(), interrupts go on again
\* and the thread yields once more.
ReleaseTail ==
  \E l \in Locks :
    /\ Doing("release_tail", l)
    /\ max_priority' = [max_priority EXCEPT ![l] = FlushLockPriority(l)]
    /\ stack' = Replace(<<Frame("thread_yield", NULL)>>)
    /\ UNCHANGED <<schedVars, priVars, lock_list, waiting_lock, holder,
                   semaVars, condVars, timeVars>>

-----------------------------------------------------------------------------
(* Condition variables *)

\* (mutant: the semaphore of the waiter starts at 1, like that of a lock)
WaiterInit_One == 1

\* The initial value of the semaphore of a waiter.
WaiterInit == 0

\* cond_wait(): the semaphore_elem goes on the list; then the thread releases
\* the lock, waits on the semaphore and acquires the lock again.
CondWait ==
  \E c \in Conds :
    /\ Doing("cond_wait", c)
    /\ value' = [value EXCEPT ![cur] = WaiterInit]
    /\ waiters' = [waiters EXCEPT ![cur] = <<>>]
    /\ waiter_priority' = [waiter_priority EXCEPT ![cur] =
                             max_priority[CondLock[c]]]
    /\ cond_waiters' = [cond_waiters EXCEPT ![c] = Append(@, cur)]
    /\ stack' = Replace(<<Frame("lock_release", CondLock[c]),
                          Frame("sema_down", cur),
                          Frame("lock_acquire", CondLock[c])>>)
    /\ UNCHANGED <<schedVars, priVars, lockVars, timeVars>>

\* cond_signal(), and one round of the loop of cond_broadcast(), up to the
\* sema_up() of the waiter taken off the list.
CondSignal ==
  \E c \in Conds, again \in BOOLEAN :
    /\ IF again THEN Doing("cond_broadcast", c) ELSE Doing("cond_signal", c)
    /\ IF cond_waiters[c] = <<>>
       THEN /\ stack' = Return
            /\ UNCHANGED cond_waiters
       ELSE LET i == ListMax(cond_waiters[c], waiter_priority)
            IN  /\ cond_waiters' = [cond_waiters EXCEPT ![c] = RemoveAt(@, i)]
                /\ stack' = Replace(<<Frame("sema_up", cond_waiters[c][i])>> \o
                              (IF again THEN <<Top(cur)>> ELSE <<>>))
    /\ UNCHANGED <<schedVars, priVars, lockVars, semaVars, waiter_priority,
                   timeVars>>

-----------------------------------------------------------------------------
(* Threads *)

ThreadYield ==
  /\ Doing("thread_yield", NULL)
  /\ Yield(ready, status, priority)
  /\ stack' = Return
  /\ UNCHANGED <<priVars, lockVars, semaVars, condVars, timeVars>>

ThreadSetPriority ==
  \E p \in Priorities :
    /\ Doing("thread_set_priority", p)
    /\ instrinsic' = [instrinsic EXCEPT ![cur] = p]
    /\ priority' = [priority EXCEPT ![cur] =
                      AdjustPriority(cur, p, lock_list[cur], max_priority)]
    /\ stack' = Replace(<<Frame("thread_yield", NULL)>>)
    /\ UNCHANGED <<schedVars, lockVars, semaVars, condVars, timeVars>>

\* thread_create() up to the thread_unblock(): a page is taken, init_thread()
\* fills it and allocate_tid() passes through tid_lock.
ThreadCreate ==
  \E p \in Priorities :
    /\ Doing("thread_create", p)
    /\ \/ /\ \A c \in Threads : status[c] # "free"
          /\ stack' = Return
          /\ UNCHANGED <<status, priVars, lock_list, waiting_lock, wakeup_time>>
       \/ \E c \in Threads :
            /\ status[c] = "free"
            /\ status' = [status EXCEPT ![c] = "blocked"]
            /\ instrinsic' = [instrinsic EXCEPT ![c] = p]
            /\ priority' = [priority EXCEPT ![c] = p]
            /\ lock_list' = [lock_list EXCEPT ![c] = {}]
            /\ waiting_lock' = [waiting_lock EXCEPT ![c] = NULL]
            /\ wakeup_time' = [wakeup_time EXCEPT ![c] = 0]
            /\ stack' = Replace(<<Frame("lock_acquire", tid_lock),
                                  Frame("lock_release", tid_lock),
                                  Frame("thread_start", c)>>)
    /\ UNCHANGED <<cur, ready, thread_ticks, holder, max_priority, semaVars,
                   condVars, ticks, sleep_list>>

\* The end of thread_create(): thread_unblock() and a yield.
ThreadStart ==
  \E c \in Threads :
    /\ Doing("thread_start", c)
    /\ ready' = Append(ready, c)
    /\ status' = [status EXCEPT ![c] = "ready"]
    /\ stack' = Replace(<<Frame("thread_yield", NULL)>>)
    /\ UNCHANGED <<cur, thread_ticks, priVars, lockVars, semaVars, condVars,
                   timeVars>>

\* thread_exit(): the thread that runs next frees the page, except that of
\* the initial thread.
ThreadExit ==
  /\ Doing("thread_exit", NULL)
  /\ Schedule(ready,
              [status EXCEPT ![cur] = IF cur = main THEN "dying" ELSE "free"],
              priority)
  /\ stack' = Return
  /\ UNCHANGED <<priVars, lockVars, semaVars, condVars, timeVars>>

\* idle(): give up the processor, then wait for the next interrupt.
IdleLoop ==
  /\ Doing("idle", NULL)
  /\ Block
  /\ stack' = Replace(<<Frame("hlt", NULL)>>)
  /\ UNCHANGED <<priVars, lockVars, semaVars, condVars, timeVars>>

-----------------------------------------------------------------------------
(* The alarm clock and the interrupts *)

\* thread_sleep(), with the wakeup time that timer_sleep() computed.
ThreadSleep ==
  /\ stack[cur] # <<>> /\ Top(cur).op = "thread_sleep"
  /\ wakeup_time' = [wakeup_time EXCEPT ![cur] = Top(cur).arg]
  /\ sleep_list' = InsertOrdered(sleep_list, wakeup_time', cur)
  /\ Block
  /\ stack' = Return
  /\ UNCHANGED <<priVars, lockVars, semaVars, condVars, ticks>>

\* An interrupt ends the hlt of the idle thread.
Interrupted == IF cur = idle THEN Replace(<<Frame("idle", NULL)>>) ELSE stack

\* (mutant: a sleeper is due only in the tick of its wakeup time)
Due_Equal(now) == CHOOSE n \in 0..Len(sleep_list) :
              /\ \A i \in 1..n : wakeup_time[sleep_list[i]] = now
              /\ n < Len(sleep_list) => wakeup_time[sleep_list[n + 1]] # now

\* thread_alarm() stops at the first sleeper that is not due.
Due(now) == CHOOSE n \in 0..Len(sleep_list) :
              /\ \A i \in 1..n : wakeup_time[sleep_list[i]] <= now
              /\ n < Len(sleep_list) => wakeup_time[sleep_list[n + 1]] > now

\* (mutant: the slice ends a tick late)
SliceOver_Late == thread_ticks + 1 > TIME_SLICE

\* thread_tick(): the time slice is used up.
SliceOver == thread_ticks + 1 >= TIME_SLICE

\* timer_interrupt(): thread_alarm(), thread_tick() and the yield on return
\* from the interrupt.
TimerInterrupt ==
  /\ IntrOn
  /\ ticks' = Min({ticks + 1, MaxTicks})
  /\ sleep_list' = SubSeq(sleep_list, Due(ticks') + 1, Len(sleep_list))
  /\ LET up == SubSeq(sleep_list, 1, Due(ticks'))
         st == [t \in All |-> IF t \in Range(up) THEN "ready" ELSE status[t]]
     IN  IF SliceOver
         THEN Yield(ready \o up, st, priority)
         ELSE /\ ready' = ready \o up
              /\ status' = st
              /\ thread_ticks' = thread_ticks + 1
              /\ UNCHANGED cur
  /\ stack' = Interrupted
  /\ UNCHANGED <<priVars, lockVars, semaVars, condVars, wakeup_time>>

\* The interrupt handler of a device ups a semaphore; nobody yields.
DeviceInterrupt ==
  \E s \in Semas :
    /\ "interrupt" \in Calls /\ IntrOn
    /\ value[s] < MaxValue
    /\ Up(s)
    /\ ready' = ready \o Woken(s)
    /\ status' = WokenStatus(s)
    /\ stack' = Interrupted
    /\ UNCHANGED <<cur, thread_ticks, priVars, lockVars, condVars, timeVars>>

-----------------------------------------------------------------------------
(* Client code *)

Request(op, args) == IF op \in Calls THEN {Frame(op, x) : x \in args} ELSE {}

\* The locks that t may acquire: not one it holds (an assertion of
\* lock_acquire()), and in an order that Nesting allows.
Acquirable(t) == {l \in Locks \ (lock_list[t] \cup {tid_lock}) :
                    \A m \in lock_list[t] : <<m, l>> \in Nesting}

\* (mutant: the assertion that the lock is held is dropped)
Usable_Any(t) == Conds

\* The condition variables whose lock t holds.
Usable(t) == {c \in Conds : CondLock[c] \in lock_list[t]}

\* What client code may do next.  timer_sleep() reads the time here and
\* passes it on to thread_sleep().  Nobody exits holding a lock.
Requests(t) ==
  UNION {Request("sema_down", Semas),
         Request("sema_try_down", Semas),
         Request("sema_up", {s \in Semas : value[s] < MaxValue}),
         Request("lock_acquire", Acquirable(t)),
         Request("lock_try_acquire", Acquirable(t)),
         Request("lock_release", lock_list[t]),
         Request("cond_wait", Usable(t)),
         Request("cond_signal", Usable(t)),
         Request("cond_broadcast", Usable(t)),
         Request("thread_yield", {NULL}),
         Request("thread_set_priority", Priorities),
         Request("thread_sleep", {w \in {ticks + n : n \in Sleeps} :
                                   w <= MaxTicks}),
         Request("thread_create", Priorities),
         Request("thread_exit", IF lock_list[t] = {} THEN {NULL} ELSE {})}

ClientCall ==
  /\ cur \in Threads /\ stack[cur] = <<>>
  /\ \E f \in Requests(cur) : stack' = [stack EXCEPT ![cur] = <<f>>]
  /\ UNCHANGED <<schedVars, priVars, lockVars, semaVars, condVars, timeVars>>

-----------------------------------------------------------------------------
(* The specification *)

\* main() once the boot is over and yields are enabled: one thread runs, the
\* idle thread has blocked in its loop.
Init ==
  /\ cur = main
  /\ status = [t \in All |-> CASE t = main -> "running"
                               [] t = idle -> "blocked"
                               [] OTHER -> "free"]
  /\ ready = <<>>
  /\ thread_ticks = 0
  /\ stack = [t \in All |-> IF t = idle THEN <<Frame("hlt", NULL)>> ELSE <<>>]
  /\ priority = [t \in All |-> IF t = main THEN PRI_DEFAULT ELSE PRI_MIN]
  /\ instrinsic = priority
  /\ lock_list = [t \in All |-> {}]
  /\ waiting_lock = [t \in All |-> NULL]
  /\ value \in {v \in [SemaIds -> 0..1] : /\ \A l \in Locks : v[l] = 1
                                          /\ \A t \in Threads : v[t] = 0}
  /\ waiters = [s \in SemaIds |-> <<>>]
  /\ holder = [l \in Locks |-> NULL]
  /\ max_priority = [l \in Locks |-> PRI_MIN]
  /\ cond_waiters = [c \in Conds |-> <<>>]
  /\ waiter_priority = [t \in Threads |-> PRI_MIN]
  /\ ticks = 0
  /\ sleep_list = <<>>
  /\ wakeup_time = [t \in All |-> 0]

Interrupts == TimerInterrupt \/ DeviceInterrupt

Kernel == \/ FlushPriority \/ LockAcquire \/ LockDown \/ LockTryAcquire
          \/ LockRelease \/ ReleaseTail
          \/ SemaDown \/ SemaTryDown \/ SemaUp
          \/ CondWait \/ CondSignal
          \/ ThreadYield \/ ThreadSetPriority \/ ThreadCreate \/ ThreadStart
          \/ ThreadExit \/ ThreadSleep \/ IdleLoop

Next == Kernel \/ ClientCall \/ Interrupts

Spec == Init /\ [][Next]_vars

\* Fairness.  A time slice is long enough for a thread that is scheduled again
\* and again to get on with its kernel call; a timer interrupt that arrives
\* while interrupts are off is latched by the interrupt controller and
\* delivered when they are on again.  Client code need not do anything.
Fairness == /\ \A t \in All : SF_vars(cur = t /\ Kernel)
            /\ SF_vars(TimerInterrupt)

\* Critical sections end: a thread that gets to run with a lock releases it.
Releases(t, l) == ClientCall /\ cur = t /\ stack'[t] = <<Frame("lock_release", l)>>

Releasing == \A t \in Threads, l \in Locks \ {tid_lock} : SF_vars(Releases(t, l))

-----------------------------------------------------------------------------
(* Properties *)

Frames ==
       [op : {"sema_down", "sema_sleep", "sema_try_down", "sema_up"},
        arg : Semas \cup Threads]
  \cup [op : {"lock_acquire", "lock_down", "lock_try_acquire", "lock_release",
              "release_tail"}, arg : Locks]
  \cup [op : {"flush_priority", "thread_start"}, arg : Threads]
  \cup [op : {"cond_wait", "cond_signal", "cond_broadcast"}, arg : Conds]
  \cup [op : {"thread_set_priority", "thread_create"}, arg : Priorities]
  \cup [op : {"thread_yield", "thread_exit", "idle", "hlt"}, arg : {NULL}]
  \cup [op : {"thread_sleep"}, arg : Int]

\* The types of the variables.  thread_ticks never reaches TIME_SLICE: the
\* tick that would do so switches threads.
TypeOK ==
  /\ cur \in All
  /\ status \in [All -> {"running", "ready", "blocked", "dying", "free"}]
  /\ ready \in Seq(Threads)
  /\ thread_ticks \in 0..(TIME_SLICE - 1)
  /\ stack \in [All -> Seq(Frames)]
  /\ priority \in [All -> Priorities]
  /\ instrinsic \in [All -> Priorities]
  /\ lock_list \in [All -> SUBSET Locks]
  /\ waiting_lock \in [All -> Locks \cup {NULL}]
  /\ value \in [SemaIds -> Nat]
  /\ waiters \in [SemaIds -> Seq(Threads)]
  /\ holder \in [Locks -> Threads \cup {NULL}]
  /\ max_priority \in [Locks -> Priorities]
  /\ cond_waiters \in [Conds -> Seq(Threads)]
  /\ waiter_priority \in [Threads -> Priorities]
  /\ ticks \in 0..MaxTicks
  /\ sleep_list \in Seq(Threads)
  /\ wakeup_time \in [All -> Int]

\* A lock is held by at most one thread: the semaphore inside it is 0 exactly
\* while it has a holder, and it is on the lock_list of its holder and of
\* nobody else (lock_acquire(), lock_try_acquire(), lock_release()).
MutualExclusion ==
  \A l \in Locks :
    /\ value[l] = IF holder[l] = NULL THEN 1 ELSE 0
    /\ \A t \in All : l \in lock_list[t] <=> holder[l] = t

Positions(list, t) == {i \in DOMAIN list : list[i] = t}

\* The thread has a page and waits for the end of its thread_create().
New(t) == \E u \in Threads : Frame("thread_start", t) \in Range(stack[u])

\* struct thread has one list element for the ready list, the sleep list and
\* the waiters of a semaphore (thread.h: "only because they are mutually
\* exclusive").  It is in one of them, once, if the thread is ready or
\* blocked, in none otherwise; and the status says which.
OneList ==
  \A t \in Threads :
    LET onReady   == Cardinality(Positions(ready, t))
        onSleep   == Cardinality(Positions(sleep_list, t))
        onWaiters == [s \in SemaIds |-> Cardinality(Positions(waiters[s], t))]
        blocked   == status[t] = "blocked" /\ ~New(t)
        waits     == \E s \in SemaIds : onWaiters[s] = 1
    IN  /\ onReady = IF status[t] = "ready" THEN 1 ELSE 0
        /\ onSleep = IF blocked /\ ~waits THEN 1 ELSE 0
        /\ \A s \in SemaIds : onWaiters[s] # 0 =>
             /\ blocked /\ onWaiters[s] = 1
             /\ \A r \in SemaIds \ {s} : onWaiters[r] = 0
        /\ status[t] = "running" <=> t = cur

\* The threads that sema_up() has woken and that have not tested the value of
\* the semaphore again.
InFlight(s) ==
  {t \in Threads : /\ stack[t] # <<>>
                   /\ Top(t) \in {Frame("sema_sleep", s), Frame("lock_down", s)}
                   /\ status[t] \in {"ready", "running"}}

\* No wakeup is lost: while threads wait on a semaphore, every unit of its
\* value is matched by a woken thread that will come and take it.
NoLostWakeup ==
  \A s \in SemaIds :
    waiters[s] # <<>> => Cardinality(InFlight(s)) >= value[s]

\* threads.texi has H "donate its priority to L while L is holding the lock":
\* outside the sections that update priorities, the holder of a lock has at
\* least the priority of every thread that waits for it.  flush_priority() and
\* adjust_priority() do not keep this when the holder sets its own priority.
DonationReaches ==
  IntrOn => \A l \in Locks : holder[l] # NULL =>
              \A t \in Range(waiters[l]) : priority[t] <= priority[holder[l]]

\* threads.texi: "recall the donation once L releases (and thus H acquires)
\* the lock": a thread all of whose locks nobody waits for runs at its own
\* priority.
DonationRecalled ==
  IntrOn => \A t \in Threads :
    (status[t] # "free" /\ \A l \in lock_list[t] : waiters[l] = <<>>)
      => priority[t] = instrinsic[t]

\* A thread that has let go of its last lock is back at its own priority,
\* whatever was donated to it through whichever locks, and in whatever order
\* the waiters and the releases came (lock_release(), thread_set_priority()).
OwnPriority ==
  \A t \in Threads : status[t] # "free" /\ lock_list[t] = {} => priority[t] = instrinsic[t]

\* A ready thread of higher priority than the running one gets its turn (or
\* stops being one): at the latest the end of the time slice preempts.
HigherRuns ==
  \A t \in Threads : (t \in Range(ready) /\ priority[t] > priority[cur])
                       ~> ~(t \in Range(ready) /\ priority[t] > priority[cur])

\* Priority inversion is resolved: a thread that holds a lock for which a
\* thread of the greatest priority waits lets go of it, even if it is of the
\* least priority and a thread between the two never gives up the processor
\* (flush_priority()).  Threads here use one lock at a time and do not set
\* their priority.
InversionResolved ==
  \A h \in Threads, l \in Locks \ {tid_lock} :
    (holder[l] = h /\ \E t \in Threads : waiting_lock[t] = l /\ instrinsic[t] = PRI_MAX)
      ~> holder[l] # h

\* A timer interrupt wakes exactly the sleepers that are due, although
\* thread_alarm() stops at the first one that is not: the list is sorted, also
\* when a wakeup time has passed before the thread gets on the list.
AlarmExact ==
  [][TimerInterrupt => \A t \in Range(sleep_list) :
       t \in Range(sleep_list') <=> wakeup_time[t] > ticks']_vars

\* Every sleeper is woken.
SleepersWake == \A t \in Threads : t \in Range(sleep_list) ~> t \notin Range(sleep_list)

\* The list of a condition variable is changed with interrupts on; only the
\* holder of the lock that goes with it does so.
LockProtectsCond ==
  [][\A c \in Conds : cond_waiters'[c] # cond_waiters[c]
       => holder[CondLock[c]] = cur]_vars

\* t is in cond_wait(), behind the point where it entered the list.
Waiting(t) == Range(stack[t]) \cap {Frame("sema_down", t), Frame("sema_sleep", t)} # {}

\* The semaphore_elem is in the stack frame of cond_wait(): it is on the list
\* only while that call lasts.  A waiter off the list has been signalled: its
\* semaphore is up, or a thread is about to up it, or it has been woken.
SignalNotLost ==
  \A t \in Threads :
    LET listed == \E c \in Conds : t \in Range(cond_waiters[c])
    IN  /\ listed => Waiting(t) /\ value[t] = 0
        /\ Waiting(t) /\ ~listed =>
             \/ value[t] = 1
             \/ \E u \in Threads : Frame("sema_up", t) \in Range(stack[u])
=============================================================================
