--------------------------- MODULE ThreadsProofs ---------------------------
(***************************************************************************)
(* Type correctness of module Threads, for any number of threads, locks,   *)
(* semaphores and condition variables.                                     *)
(***************************************************************************)
EXTENDS Threads, TLAPS, WellFoundedInduction, SequenceTheorems

\* A nonempty set of naturals has a least element.
LEMMA Least ==
  ASSUME NEW S \in SUBSET Nat, S # {}
  PROVE  \E x \in S : \A y \in S : x <= y
<1> DEFINE R == OpToRel(<, Nat)
<1>1. IsWellFoundedOn(R, Nat)
  BY NatLessThanWellFounded, Zenon
<1>2. R = {ss \in Nat \X Nat : ss[1] < ss[2]}
  BY DEF OpToRel
<1> HIDE DEF R
<1>3. \E x \in S : \A y \in S : ~(<<y, x>> \in R)
  BY <1>1, WFMin, Zenon
<1>4. \A x, y \in Nat : y < x => <<y, x>> \in R
  BY <1>2
<1>5. PICK x \in S : \A y \in S : ~(<<y, x>> \in R)
  BY <1>3
<1>6. \A y \in S : x \in Nat /\ y \in Nat /\ ~(y < x)
  BY <1>4, <1>5, Zenon
<1>7. \A y \in S : x <= y
  BY <1>6
<1> QED BY <1>7

\* A nonempty set of naturals below a bound has a greatest element.
LEMMA Greatest ==
  ASSUME NEW n \in Nat, NEW S \in SUBSET (0..n), S # {}
  PROVE  \E x \in S : \A y \in S : x >= y
<1> DEFINE D == {n - x : x \in S}
<1>1. D \in SUBSET Nat /\ D # {}
  <2>1. \A x \in S : n - x \in Nat
    OBVIOUS
  <2>2. D # {}
    OBVIOUS
  <2> QED BY <2>1, <2>2
<1>2. PICK d \in D : \A e \in D : d <= e
  <2> HIDE DEF D
  <2> QED BY <1>1, Least
<1>3. PICK x \in S : d = n - x
  BY <1>2
<1>4. \A y \in S : n - y \in D
  OBVIOUS
<1>5. \A y \in S : n - x <= n - y
  BY <1>2, <1>3, <1>4
<1> QED BY <1>5

\* Max of a nonempty set of priorities is one of them.
LEMMA MaxOfPriorities ==
  ASSUME NEW S \in SUBSET Priorities, S # {}
  PROVE  Max(S) \in S /\ \A y \in S : Max(S) >= y
<1>1. \E x \in S : \A y \in S : x >= y
  BY Greatest, ThreadsAssumption, Zenon DEF Priorities, PRI_MIN
<1> QED BY <1>1 DEF Max

\* list_max() of a list that is not empty is a position of the list, and no
\* element has a greater key.
LEMMA ListMaxProperties ==
  ASSUME NEW T, NEW list \in Seq(T), list # <<>>, NEW key, \A t \in T : key[t] \in Priorities
  PROVE  /\ ListMax(list, key) \in 1..Len(list)
         /\ \A j \in 1..Len(list) : key[list[j]] <= key[list[ListMax(list, key)]]
<1> DEFINE S == {key[list[j]] : j \in 1..Len(list)}
<1>1. S \in SUBSET Priorities /\ S # {}
  BY ElementOfSeq, EmptySeq
<1>2. PICK m \in S : \A y \in S : m >= y
  <2> HIDE DEF S
  <2> QED BY <1>1, Greatest, ThreadsAssumption, Zenon DEF Priorities, PRI_MIN
<1> DEFINE I == {j \in 1..Len(list) : key[list[j]] = m}
<1>3. I \in SUBSET Nat /\ I # {}
  BY <1>2, LenProperties
<1>4. PICK i \in I : \A j \in I : i <= j
  <2> HIDE DEF I
  <2> QED BY <1>3, Least
<1>5. i \in 1..Len(list) /\ key[list[i]] = m
  BY <1>4
<1>6. \A j \in 1..Len(list) : key[list[j]] \in Priorities /\ key[list[j]] <= m
  BY <1>1, <1>2 DEF Priorities, PRI_MIN
<1>7. ASSUME NEW j \in 1..(i-1)
      PROVE  key[list[j]] < key[list[i]]
  <2>1. j \in 1..Len(list) /\ j \notin I
    BY <1>4, <1>5, <1>7, LenProperties
  <2>2. key[list[j]] # m
    BY <2>1
  <2>3. key[list[j]] \in Nat /\ m \in Nat
    BY <2>1, <1>5, <1>6, ThreadsAssumption DEF Priorities, PRI_MIN
  <2> QED BY <2>1, <2>2, <2>3, <1>5, <1>6
<1>8. DOMAIN list = 1..Len(list)
  BY LenProperties
<1> HIDE DEF S, I
<1> DEFINE P(k) == /\ \A j \in DOMAIN list : key[list[j]] <= key[list[k]]
                   /\ \A j \in 1..(k-1) : key[list[j]] < key[list[k]]
<1>9. \E k \in DOMAIN list : P(k)
  BY <1>5, <1>6, <1>7, <1>8
<1>10. ListMax(list, key) = CHOOSE k \in DOMAIN list : P(k)
  BY DEF ListMax
<1>11. ListMax(list, key) \in DOMAIN list /\ P(ListMax(list, key))
  <2> HIDE DEF P
  <2> QED BY <1>9, <1>10
<1> QED BY <1>8, <1>11

\* list_remove() leaves a list of the same elements.
LEMMA RemoveAtProperties ==
  ASSUME NEW T, NEW list \in Seq(T), NEW i \in 1..Len(list)
  PROVE  RemoveAt(list, i) \in Seq(T)
<1>1. Len(list) \in Nat /\ \A j \in 1..Len(list) : list[j] \in T
  BY LenProperties, ElementOfSeq
<1>2. SubSeq(list, 1, i - 1) \in Seq(T) 
  BY <1>1, SubSeqProperties
<1>3. SubSeq(list, i + 1, Len(list)) \in Seq(T) 
  BY <1>1, SubSeqProperties
<1> QED BY <1>2, <1>3, ConcatProperties DEF RemoveAt

-----------------------------------------------------------------------------
(* Types *)

Statuses == {"running", "ready", "blocked", "dying", "free"}

\* The idle thread is in its loop and makes no call of the other operations.
IdleStack == stack[idle] \in {<<Frame("idle", NULL)>>, <<Frame("hlt", NULL)>>}

TypeInv == TypeOK /\ IdleStack

\* schedule() picks a thread and makes it the running one; it frees no page.
LEMMA ScheduleProperties ==
  ASSUME NEW list \in Seq(Threads), NEW st \in [All -> Statuses],
         NEW pri \in [All -> Priorities], Schedule(list, st, pri)
  PROVE  /\ cur' \in All
         /\ ready' \in Seq(Threads)
         /\ status' \in [All -> Statuses]
         /\ thread_ticks' \in 0..(TIME_SLICE - 1)
         /\ status'[cur'] = "running"
         /\ \A t \in All : status'[t] = "free" => st[t] = "free"
<1> DEFINE i == ListMax(list, pri)
           next == IF list = <<>> THEN idle ELSE list[i]
<1>1. list # <<>> => i \in 1..Len(list)
  <2>1. \A t \in Threads : pri[t] \in Priorities
    BY DEF All
  <2> QED BY <2>1, ListMaxProperties
<1>2. next \in All
  BY <1>1, ElementOfSeq DEF All
<1>3. ready' \in Seq(Threads)
  BY <1>1, RemoveAtProperties DEF Schedule
<1>4. cur' = next /\ status' = [st EXCEPT ![next] = "running"] /\ thread_ticks' = 0
  BY DEF Schedule
<1> HIDE DEF next
<1>5. 0 \in 0..(TIME_SLICE - 1)
  BY ThreadsAssumption
<1> QED BY <1>2, <1>3, <1>4, <1>5 DEF Statuses

\* thread_yield() keeps every thread.
LEMMA YieldProperties ==
  ASSUME cur \in All, NEW list \in Seq(Threads), NEW st \in [All -> Statuses],
         NEW pri \in [All -> Priorities], Yield(list, st, pri)
  PROVE  /\ cur' \in All
         /\ ready' \in Seq(Threads)
         /\ status' \in [All -> Statuses]
         /\ thread_ticks' \in 0..(TIME_SLICE - 1)
         /\ status'[cur'] = "running"
         /\ \A t \in All : status'[t] = "free" => st[t] = "free"
<1> DEFINE list2 == IF cur = idle THEN list ELSE Append(list, cur)
           st2 == [st EXCEPT ![cur] = "ready"]
<1>1. list2 \in Seq(Threads)
  BY DEF All
<1>2. st2 \in [All -> Statuses]
  BY DEF Statuses
<1>3. Schedule(list2, st2, pri)
  BY DEF Yield
<1>4. \A t \in All : st2[t] = "free" => st[t] = "free"
  OBVIOUS
<1> HIDE DEF list2, st2
<1> QED BY <1>1, <1>2, <1>3, <1>4, ScheduleProperties

\* thread_block() keeps every thread.
LEMMA BlockProperties ==
  ASSUME TypeOK, Block
  PROVE  /\ cur' \in All
         /\ ready' \in Seq(Threads)
         /\ status' \in [All -> Statuses]
         /\ thread_ticks' \in 0..(TIME_SLICE - 1)
         /\ status'[cur'] = "running"
         /\ \A t \in All : status'[t] = "free" => status[t] = "free"
<1> DEFINE st2 == [status EXCEPT ![cur] = "blocked"]
<1>2. st2 \in [All -> Statuses] /\ priority \in [All -> Priorities] /\ ready \in Seq(Threads)
  BY DEF Statuses, TypeOK
<1>3. Schedule(ready, st2, priority)
  BY DEF Block
<1>4. \A t \in All : st2[t] = "free" => status[t] = "free"
  BY DEF TypeOK
<1> HIDE DEF st2
<1> QED BY <1>2, <1>3, <1>4, ScheduleProperties

\* adjust_priority() yields a priority.
LEMMA AdjustPriorityType ==
  ASSUME TypeOK, NEW t \in All, NEW own \in Priorities, NEW held \in SUBSET Locks,
         NEW maxp \in [Locks -> Priorities]
  PROVE  AdjustPriority(t, own, held, maxp) \in Priorities
<1> DEFINE S == {maxp[l] : l \in held}
<1>1. CASE held # {}
  <2>1. S \in SUBSET Priorities /\ S # {}
    BY <1>1
  <2>2. Max(S) \in Priorities
    <3> HIDE DEF S
    <3> QED BY <2>1, MaxOfPriorities
  <2> QED BY <2>2, <1>1 DEF AdjustPriority, TypeOK
<1> QED BY <1>1 DEF AdjustPriority

\* sema_up() makes ready a thread that waits.
LEMMA WokenProperties ==
  ASSUME TypeOK, NEW s \in SemaIds
  PROVE  /\ Woken(s) \in Seq(Threads)
         /\ WokenStatus(s) \in [All -> Statuses]
         /\ \A t \in All : WokenStatus(s)[t] = "free" => status[t] = "free"
<1>1. waiters[s] \in Seq(Threads) /\ \A t \in Threads : priority[t] \in Priorities
  BY DEF TypeOK, All
<1>2. waiters[s] # <<>> => waiters[s][ListMax(waiters[s], priority)] \in Threads
  BY <1>1, ListMaxProperties, ElementOfSeq
<1>3. Woken(s) \in Seq(Threads)
  BY <1>2 DEF Woken
<1>4. WokenStatus(s) \in [All -> Statuses]
  BY DEF WokenStatus, TypeOK, Statuses
<1>5. \A t \in All : WokenStatus(s)[t] = "free" => status[t] = "free"
  BY DEF WokenStatus
<1> QED BY <1>3, <1>4, <1>5

\* sema_up() keeps the types of the semaphores.
LEMMA UpType ==
  ASSUME TypeOK, NEW s \in SemaIds, Up(s)
  PROVE  /\ value' \in [SemaIds -> Nat]
         /\ waiters' \in [SemaIds -> Seq(Threads)]
<1>1. waiters[s] \in Seq(Threads) /\ \A t \in Threads : priority[t] \in Priorities
  BY DEF TypeOK, All
<1>2. waiters[s] # <<>> => RemoveAt(waiters[s], ListMax(waiters[s], priority)) \in Seq(Threads)
  BY <1>1, ListMaxProperties, RemoveAtProperties
<1>3. waiters' \in [SemaIds -> Seq(Threads)]
  BY <1>2 DEF Up, TypeOK
<1> QED BY <1>3 DEF Up, TypeOK

\* Replacing the innermost frame by frames gives a stack.
LEMMA ReplaceType ==
  ASSUME TypeOK, stack[cur] # <<>>, NEW fs \in Seq(Frames)
  PROVE  Replace(fs) \in [All -> Seq(Frames)]
<1>1. Tail(stack[cur]) \in Seq(Frames)
  BY HeadTailProperties DEF TypeOK
<1>2. fs \o Tail(stack[cur]) \in Seq(Frames)
  BY <1>1, ConcatProperties
<1> QED BY <1>2 DEF Replace, TypeOK

\* Only the loop of the idle thread runs on the idle thread.
LEMMA NotIdle ==
  ASSUME TypeInv, stack[cur] # <<>>, Top(cur).op \notin {"idle", "hlt"}
  PROVE  cur \in Threads
BY DEF TypeInv, TypeOK, IdleStack, Top, Frame, All


\* The thread that does something other than idle is not the idle thread.
LEMMA DoingProperties ==
  ASSUME TypeInv, NEW op, NEW x, Doing(op, x), op \notin {"idle", "hlt"}
  PROVE  /\ cur \in Threads
         /\ stack[cur] # <<>>
         /\ Top(cur) = Frame(op, x)
         /\ Frame(op, x) \in Frames
<1>1. stack[cur] # <<>> /\ Top(cur) = Frame(op, x)
  BY DEF Doing
<1>2. Top(cur).op = op
  BY <1>1 DEF Frame
<1>3. Top(cur) \in Frames
  BY <1>1, HeadTailProperties DEF TypeInv, TypeOK, Top
<1> QED BY <1>1, <1>2, <1>3, NotIdle

\* A step of another thread leaves the idle thread where it is.
LEMMA IdleStays ==
  ASSUME TypeInv, cur \in Threads, NEW fs, stack' = Replace(fs)
  PROVE  IdleStack'
<1>1. stack'[idle] = stack[idle]
  BY ThreadsAssumption DEF Replace, TypeInv, TypeOK, All
<1> QED BY <1>1 DEF TypeInv, IdleStack, Frame

\* Frames of the right types, by the kind of their argument.
LEMMA FrameTypes ==
  /\ \A s \in Semas \cup Threads : \A op \in {"sema_down", "sema_sleep", "sema_try_down", "sema_up"} :
       Frame(op, s) \in Frames
  /\ \A l \in Locks : \A op \in {"lock_acquire", "lock_down", "lock_try_acquire",
                                 "lock_release", "release_tail"} :
       Frame(op, l) \in Frames
  /\ \A t \in Threads : \A op \in {"flush_priority", "thread_start"} :
       Frame(op, t) \in Frames
  /\ \A c \in Conds : \A op \in {"cond_wait", "cond_signal", "cond_broadcast"} :
       Frame(op, c) \in Frames
  /\ \A p \in Priorities : \A op \in {"thread_set_priority", "thread_create"} :
       Frame(op, p) \in Frames
  /\ \A op \in {"thread_yield", "thread_exit", "idle", "hlt"} : Frame(op, NULL) \in Frames
  /\ \A w \in Int : Frame("thread_sleep", w) \in Frames
BY DEF Frame, Frames

\* A step of a thread that ends in further calls.
LEMMA ReplaceStack ==
  ASSUME TypeInv, cur \in Threads, stack[cur] # <<>>, NEW fs \in Seq(Frames),
         stack' = Replace(fs)
  PROVE  stack' \in [All -> Seq(Frames)] /\ IdleStack'
BY ReplaceType, IdleStays DEF TypeInv

\* A step of a thread that ends its call.
LEMMA ReturnStack ==
  ASSUME TypeInv, cur \in Threads, stack[cur] # <<>>, stack' = Return
  PROVE  stack' \in [All -> Seq(Frames)] /\ IdleStack'
<1>1. <<>> \in Seq(Frames) /\ stack' = Replace(<<>>)
  BY DEF Return
<1> QED BY <1>1, ReplaceStack, Zenon

\* FlushPriority keeps the types.
LEMMA TypeFlushPriority ==
  ASSUME TypeInv, FlushPriority
  PROVE  TypeInv'
<1>1. PICK t \in Threads : FlushPriority!(t)
  BY Zenon DEF FlushPriority
<1>2. cur \in Threads /\ stack[cur] # <<>>
  BY <1>1, DoingProperties
<1> DEFINE l == waiting_lock[t]
           h == holder[l]
           maxp == [max_priority EXCEPT ![l] = priority[t]]
<1>3. CASE l # NULL /\ priority[t] > max_priority[l] /\ h # NULL
  <2>1. l \in Locks /\ h \in Threads /\ maxp \in [Locks -> Priorities]
    BY <1>3 DEF TypeInv, TypeOK, All
  <2>2. AdjustPriority(h, instrinsic[h], lock_list[h], maxp) \in Priorities
    <3> HIDE DEF h, maxp
    <3> QED BY <2>1, AdjustPriorityType, Zenon DEF TypeInv, TypeOK, All
  <2>3. priority' \in [All -> Priorities] /\ max_priority' \in [Locks -> Priorities]
    BY <1>1, <1>3, <2>1, <2>2, Zenon DEF TypeInv, TypeOK
  <2>4. stack' = Replace(<<Frame("flush_priority", h)>>)
    BY <1>1, <1>3
  <2>5. <<Frame("flush_priority", h)>> \in Seq(Frames)
    BY <2>1, FrameTypes
  <2>6. stack' \in [All -> Seq(Frames)] /\ IdleStack'
    BY <1>2, <2>4, <2>5, ReplaceStack, Zenon
  <2> QED BY <1>1, <2>3, <2>6 DEF TypeInv, TypeOK, schedVars, semaVars, condVars, timeVars
<1>4. CASE ~(l # NULL /\ priority[t] > max_priority[l] /\ h # NULL)
  <2>1. stack' = Return
    BY <1>1, <1>4
  <2>2. stack' \in [All -> Seq(Frames)] /\ IdleStack'
    BY <1>2, <2>1, ReturnStack
  <2>3. max_priority' \in [Locks -> Priorities] /\ priority' = priority
    BY <1>1, <1>4, Zenon DEF TypeInv, TypeOK, All
  <2> QED BY <1>1, <2>2, <2>3 DEF TypeInv, TypeOK, schedVars, semaVars, condVars, timeVars
<1> QED BY <1>3, <1>4

\* A down keeps the type of the values: it is taken from a positive one.
LEMMA DownType ==
  ASSUME TypeInv, NEW s \in SemaIds, value[s] # 0,
         value' = [value EXCEPT ![s] = @ - 1]
  PROVE  value' \in [SemaIds -> Nat]
<1>1. value \in [SemaIds -> Nat]
  BY DEF TypeInv, TypeOK
<1>2. value[s] \in Nat
  BY <1>1
<1>3. value[s] - 1 \in Nat
  BY <1>2
<1> QED BY <1>1, <1>3

\* A thread joins the waiters of a semaphore.
LEMMA WaitType ==
  ASSUME TypeInv, cur \in Threads, NEW s \in SemaIds,
         waiters' = [waiters EXCEPT ![s] = Append(@, cur)]
  PROVE  waiters' \in [SemaIds -> Seq(Threads)]
<1>1. waiters \in [SemaIds -> Seq(Threads)]
  BY DEF TypeInv, TypeOK
<1>2. Append(waiters[s], cur) \in Seq(Threads)
  BY <1>1, AppendProperties
<1> QED BY <1>1, <1>2

\* SemaDown keeps the types.
LEMMA TypeSemaDown ==
  ASSUME TypeInv, SemaDown
  PROVE  TypeInv'
<1>1. PICK s \in SemaIds : SemaDown!(s)
  BY DEF SemaDown
<1>2. cur \in Threads /\ stack[cur] # <<>>
  BY <1>1, DoingProperties
<1>3. CASE value[s] = 0
  <2>1. <<Frame("sema_sleep", s)>> \in Seq(Frames)
    <3>1. s \in Semas \cup Threads
      BY <1>1, DoingProperties DEF Frames, Frame
    <3> QED BY <3>1, FrameTypes
  <2>2. stack' \in [All -> Seq(Frames)] /\ IdleStack'
    BY <1>1, <1>2, <1>3, <2>1, ReplaceStack, Zenon
  <2>3. waiters' \in [SemaIds -> Seq(Threads)] /\ value' = value /\ Block
    BY <1>1, <1>2, <1>3, WaitType
  <2> QED BY <1>1, <2>2, <2>3, BlockProperties, Zenon
          DEF TypeInv, TypeOK, Statuses, priVars, lockVars, condVars, timeVars
<1>4. CASE value[s] # 0
  <2>1. stack' \in [All -> Seq(Frames)] /\ IdleStack'
    BY <1>1, <1>2, <1>4, ReturnStack
  <2>2. value' \in [SemaIds -> Nat]
    BY <1>1, <1>4, DownType
  <2> QED BY <1>1, <1>4, <2>1, <2>2
          DEF TypeInv, TypeOK, schedVars, priVars, lockVars, condVars, timeVars
<1> QED BY <1>3, <1>4

\* SemaTryDown keeps the types.
LEMMA TypeSemaTryDown ==
  ASSUME TypeInv, SemaTryDown
  PROVE  TypeInv'
<1>1. PICK s \in Semas : SemaTryDown!(s)
  BY DEF SemaTryDown
<1>2. cur \in Threads /\ stack[cur] # <<>>
  BY <1>1, DoingProperties
<1>3. stack' \in [All -> Seq(Frames)] /\ IdleStack'
  BY <1>1, <1>2, ReturnStack
<1>4. value' \in [SemaIds -> Nat]
  <2>1. s \in SemaIds /\ value[s] \in Nat
    BY DEF SemaIds, TypeInv, TypeOK
  <2>2. CASE CanDown(s)
    BY <1>1, <2>1, <2>2, DownType DEF CanDown
  <2>3. CASE ~CanDown(s)
    BY <1>1, <2>3 DEF TypeInv, TypeOK
  <2> QED BY <2>2, <2>3
<1> QED BY <1>1, <1>3, <1>4
        DEF TypeInv, TypeOK, schedVars, priVars, lockVars, condVars, timeVars

\* The yield that follows a call.
LEMMA ThenYields ==
  ASSUME TypeInv, cur \in Threads, stack[cur] # <<>>,
         stack' = Replace(<<Frame("thread_yield", NULL)>>)
  PROVE  stack' \in [All -> Seq(Frames)] /\ IdleStack'
<1>1. <<Frame("thread_yield", NULL)>> \in Seq(Frames)
  BY FrameTypes
<1> QED BY <1>1, ReplaceStack, Zenon

\* SemaUp keeps the types.
LEMMA TypeSemaUp ==
  ASSUME TypeInv, SemaUp
  PROVE  TypeInv'
<1>1. PICK s \in SemaIds : SemaUp!(s)
  BY DEF SemaUp
<1>2. cur \in Threads /\ stack[cur] # <<>>
  BY <1>1, DoingProperties
<1>3. stack' \in [All -> Seq(Frames)] /\ IdleStack'
  BY <1>1, <1>2, ThenYields
<1>4. value' \in [SemaIds -> Nat] /\ waiters' \in [SemaIds -> Seq(Threads)]
  BY <1>1, UpType DEF TypeInv
<1>5. ready' \in Seq(Threads) /\ status' \in [All -> Statuses]
  BY <1>1, WokenProperties, ConcatProperties DEF TypeInv, TypeOK
<1> QED BY <1>1, <1>3, <1>4, <1>5, Zenon
        DEF TypeInv, TypeOK, Statuses, priVars, lockVars, condVars, timeVars

\* LockAcquire keeps the types.
LEMMA TypeLockAcquire ==
  ASSUME TypeInv, LockAcquire
  PROVE  TypeInv'
<1>1. PICK l \in Locks : LockAcquire!(l)
  BY Zenon DEF LockAcquire
<1>2. cur \in Threads /\ stack[cur] # <<>>
  BY <1>1, DoingProperties
<1>3. <<Frame("flush_priority", cur), Frame("lock_down", l)>> \in Seq(Frames)
  BY <1>2, FrameTypes
<1>4. stack' \in [All -> Seq(Frames)] /\ IdleStack'
  BY <1>1, <1>2, <1>3, ReplaceStack, Zenon
<1> QED BY <1>1, <1>2, <1>4, Zenon DEF TypeInv, TypeOK, schedVars, priVars, semaVars, condVars, timeVars

\* The new holder of a lock keeps the types.
LEMMA HoldType ==
  ASSUME TypeInv, cur \in Threads, NEW l \in Locks, Hold(l)
  PROVE  /\ holder' \in [Locks -> Threads \cup {NULL}]
         /\ lock_list' \in [All -> SUBSET Locks]
         /\ priority' \in [All -> Priorities]
<1>1. lock_list[cur] \cup {l} \in SUBSET Locks /\ cur \in All
      /\ instrinsic[cur] \in Priorities /\ max_priority \in [Locks -> Priorities]
  BY DEF TypeInv, TypeOK, All
<1>2. AdjustPriority(cur, instrinsic[cur], lock_list[cur] \cup {l}, max_priority) \in Priorities
  BY <1>1, AdjustPriorityType DEF TypeInv
<1> QED BY <1>1, <1>2 DEF Hold, TypeInv, TypeOK

\* LockDown keeps the types.
LEMMA TypeLockDown ==
  ASSUME TypeInv, LockDown
  PROVE  TypeInv'
<1>1. PICK l \in Locks : LockDown!(l)
  BY DEF LockDown
<1>2. cur \in Threads /\ stack[cur] # <<>>
  BY <1>1, DoingProperties
<1>3. CASE value[l] = 0
  <2>1. waiters' \in [SemaIds -> Seq(Threads)] /\ Block
    BY <1>1, <1>2, <1>3, WaitType, Zenon DEF SemaIds
  <2>2. IdleStack'
    BY <1>1, <1>3 DEF TypeInv, IdleStack, Frame
  <2> QED BY <1>1, <1>3, <2>1, <2>2, BlockProperties
          DEF TypeInv, TypeOK, Statuses, lockVars, condVars, timeVars
<1>4. CASE value[l] # 0
  <2>1. stack' \in [All -> Seq(Frames)] /\ IdleStack'
    BY <1>1, <1>2, <1>4, ReturnStack
  <2>2. value' \in [SemaIds -> Nat]
    BY <1>1, <1>4, DownType, Zenon DEF SemaIds
  <2>3. waiting_lock' \in [All -> Locks \cup {NULL}]
    BY <1>1, <1>4, Zenon DEF TypeInv, TypeOK
  <2> QED BY <1>1, <1>2, <1>4, <2>1, <2>2, <2>3, HoldType
          DEF TypeInv, TypeOK, schedVars, condVars, timeVars
<1> QED BY <1>3, <1>4

\* LockTryAcquire keeps the types.
LEMMA TypeLockTryAcquire ==
  ASSUME TypeInv, LockTryAcquire
  PROVE  TypeInv'
<1>1. PICK l \in Locks : LockTryAcquire!(l)
  BY DEF LockTryAcquire
<1>2. cur \in Threads /\ stack[cur] # <<>>
  BY <1>1, DoingProperties
<1>3. stack' \in [All -> Seq(Frames)] /\ IdleStack'
  BY <1>1, <1>2, ReturnStack
<1>4. l \in SemaIds /\ value[l] \in Nat
  BY DEF SemaIds, TypeInv, TypeOK
<1>5. CASE CanDown(l)
  <2>1. value' \in [SemaIds -> Nat]
    BY <1>1, <1>4, <1>5, DownType DEF CanDown
  <2> QED BY <1>1, <1>2, <1>3, <1>5, <2>1, HoldType
          DEF TypeInv, TypeOK, schedVars, condVars, timeVars
<1>6. CASE ~CanDown(l)
  BY <1>1, <1>3, <1>6 DEF TypeInv, TypeOK, schedVars, condVars, timeVars
<1> QED BY <1>5, <1>6

\* LockRelease keeps the types.
LEMMA TypeLockRelease ==
  ASSUME TypeInv, LockRelease
  PROVE  TypeInv'
<1>1. PICK l \in Locks : LockRelease!(l)
  BY Zenon DEF LockRelease
<1>2. cur \in Threads /\ stack[cur] # <<>>
  BY <1>1, DoingProperties
<1>3. <<Frame("release_tail", l)>> \in Seq(Frames)
  BY FrameTypes
<1>4. stack' \in [All -> Seq(Frames)] /\ IdleStack'
  BY <1>1, <1>2, <1>3, ReplaceStack, Zenon
<1> DEFINE p == AdjustPriority(cur, instrinsic[cur], lock_list[cur] \ {l}, max_priority)
           pri == [priority EXCEPT ![cur] = p]
<1>5. p \in Priorities
  <2>1. lock_list[cur] \ {l} \in SUBSET Locks /\ cur \in All
        /\ instrinsic[cur] \in Priorities /\ max_priority \in [Locks -> Priorities]
    BY <1>2 DEF TypeInv, TypeOK, All
  <2> QED BY <2>1, AdjustPriorityType DEF TypeInv
<1>6. priority' = pri /\ Yield(ready \o Woken(l), WokenStatus(l), pri)
  BY <1>1
<1>7. pri \in [All -> Priorities]
  <2> HIDE DEF p
  <2> QED BY <1>5 DEF TypeInv, TypeOK
<1>8. l \in SemaIds
  BY DEF SemaIds
<1>9. ready \o Woken(l) \in Seq(Threads) /\ WokenStatus(l) \in [All -> Statuses]
  BY <1>8, WokenProperties, ConcatProperties DEF TypeInv, TypeOK
<1> HIDE DEF pri
<1>10. /\ cur' \in All
       /\ ready' \in Seq(Threads)
       /\ status' \in [All -> Statuses]
       /\ thread_ticks' \in 0..(TIME_SLICE - 1)
  BY <1>6, <1>7, <1>9, YieldProperties, Zenon DEF TypeInv, TypeOK
<1>11. value' \in [SemaIds -> Nat] /\ waiters' \in [SemaIds -> Seq(Threads)]
  BY <1>1, <1>8, UpType DEF TypeInv
<1>12. holder' \in [Locks -> Threads \cup {NULL}] /\ lock_list' \in [All -> SUBSET Locks]
  BY <1>1 DEF TypeInv, TypeOK
<1> QED BY <1>1, <1>4, <1>6, <1>7, <1>10, <1>11, <1>12, Zenon
        DEF TypeInv, TypeOK, Statuses, condVars, timeVars

\* ReleaseTail keeps the types.
LEMMA TypeReleaseTail ==
  ASSUME TypeInv, ReleaseTail
  PROVE  TypeInv'
<1>1. PICK l \in Locks : ReleaseTail!(l)
  BY Zenon DEF ReleaseTail
<1>2. cur \in Threads /\ stack[cur] # <<>>
  BY <1>1, DoingProperties
<1>3. stack' \in [All -> Seq(Frames)] /\ IdleStack'
  BY <1>1, <1>2, ThenYields
<1>4. waiters[l] \in Seq(Threads) /\ \A t \in Threads : priority[t] \in Priorities
  BY DEF TypeInv, TypeOK, All, SemaIds
<1>5. FlushLockPriority(l) \in Priorities
  <2>1. CASE waiters[l] = <<>>
    BY <2>1, ThreadsAssumption DEF FlushLockPriority, Priorities, PRI_MIN
  <2>2. CASE waiters[l] # <<>>
    <3>1. waiters[l][ListMax(waiters[l], priority)] \in Threads
      BY <1>4, <2>2, ListMaxProperties, ElementOfSeq
    <3> QED BY <1>4, <2>2, <3>1 DEF FlushLockPriority
  <2> QED BY <2>1, <2>2
<1>6. max_priority' \in [Locks -> Priorities]
  BY <1>1, <1>5 DEF TypeInv, TypeOK
<1> QED BY <1>1, <1>3, <1>6, Zenon DEF TypeInv, TypeOK, schedVars, priVars, semaVars, condVars, timeVars

\* CondWait keeps the types.
LEMMA TypeCondWait ==
  ASSUME TypeInv, CondWait
  PROVE  TypeInv'
<1>1. PICK c \in Conds : CondWait!(c)
  BY Zenon DEF CondWait
<1>2. cur \in Threads /\ stack[cur] # <<>>
  BY <1>1, DoingProperties
<1>3. CondLock[c] \in Locks /\ cur \in SemaIds
  BY <1>2, ThreadsAssumption DEF SemaIds
<1>4. <<Frame("lock_release", CondLock[c]), Frame("sema_down", cur),
        Frame("lock_acquire", CondLock[c])>> \in Seq(Frames)
  BY <1>2, <1>3, FrameTypes
<1>5. stack' \in [All -> Seq(Frames)] /\ IdleStack'
  BY <1>1, <1>2, <1>4, ReplaceStack, Zenon
<1>6. value' \in [SemaIds -> Nat] /\ waiters' \in [SemaIds -> Seq(Threads)]
  <2>1. <<>> \in Seq(Threads) /\ WaiterInit \in Nat
    BY DEF WaiterInit
  <2> QED BY <1>1, <2>1, Zenon DEF TypeInv, TypeOK
<1>7. cond_waiters' \in [Conds -> Seq(Threads)]
  <2>1. Append(cond_waiters[c], cur) \in Seq(Threads)
    BY <1>2, AppendProperties DEF TypeInv, TypeOK
  <2> QED BY <1>1, <2>1 DEF TypeInv, TypeOK
<1>8. waiter_priority' \in [Threads -> Priorities]
  BY <1>1, <1>3, Zenon DEF TypeInv, TypeOK
<1> QED BY <1>1, <1>5, <1>6, <1>7, <1>8, Zenon
        DEF TypeInv, TypeOK, schedVars, priVars, lockVars, timeVars

\* CondSignal keeps the types.
LEMMA TypeCondSignal ==
  ASSUME TypeInv, CondSignal
  PROVE  TypeInv'
<1>1. PICK c \in Conds, again \in BOOLEAN : CondSignal!(c, again)
  BY DEF CondSignal
<1>2. cur \in Threads /\ stack[cur] # <<>> /\ Top(cur) \in Frames
  BY <1>1, DoingProperties
<1>3. CASE cond_waiters[c] = <<>>
  <2>1. stack' \in [All -> Seq(Frames)] /\ IdleStack'
    BY <1>1, <1>2, <1>3, ReturnStack
  <2> QED BY <1>1, <1>3, <2>1
          DEF TypeInv, TypeOK, schedVars, priVars, lockVars, semaVars, timeVars
<1>4. CASE cond_waiters[c] # <<>>
  <2> DEFINE i == ListMax(cond_waiters[c], waiter_priority)
             fs == <<Frame("sema_up", cond_waiters[c][i])>> \o
                     (IF again THEN <<Top(cur)>> ELSE <<>>)
  <2>1. cond_waiters[c] \in Seq(Threads) /\ \A t \in Threads : waiter_priority[t] \in Priorities
    BY DEF TypeInv, TypeOK
  <2>2. i \in 1..Len(cond_waiters[c])
    BY <1>4, <2>1, ListMaxProperties
  <2>3. cond_waiters[c][i] \in Threads /\ RemoveAt(cond_waiters[c], i) \in Seq(Threads)
    BY <2>1, <2>2, ElementOfSeq, RemoveAtProperties
  <2>4. cond_waiters' = [cond_waiters EXCEPT ![c] = RemoveAt(@, i)] /\ stack' = Replace(fs)
    BY <1>1, <1>4
  <2> HIDE DEF i
  <2>5. Frame("sema_up", cond_waiters[c][i]) \in Frames
    BY <2>3, FrameTypes
  <2>6. fs \in Seq(Frames)
    BY <1>2, <2>5
  <2> HIDE DEF fs
  <2>7. stack' \in [All -> Seq(Frames)] /\ IdleStack'
    BY <1>2, <2>4, <2>6, ReplaceStack
  <2>8. cond_waiters' \in [Conds -> Seq(Threads)]
    BY <2>3, <2>4 DEF TypeInv, TypeOK
  <2> QED BY <1>1, <2>7, <2>8
          DEF TypeInv, TypeOK, schedVars, priVars, lockVars, semaVars, timeVars
<1> QED BY <1>3, <1>4

\* ThreadYield keeps the types.
LEMMA TypeThreadYield ==
  ASSUME TypeInv, ThreadYield
  PROVE  TypeInv'
<1>1. cur \in Threads /\ stack[cur] # <<>>
  BY DoingProperties DEF ThreadYield
<1>2. stack' \in [All -> Seq(Frames)] /\ IdleStack'
  BY <1>1, ReturnStack DEF ThreadYield
<1>3. ready \in Seq(Threads) /\ status \in [All -> Statuses] /\ cur \in All
      /\ priority \in [All -> Priorities]
  BY DEF TypeInv, TypeOK, Statuses
<1>4. Yield(ready, status, priority)
  BY DEF ThreadYield
<1> QED BY <1>2, <1>3, <1>4, YieldProperties, Zenon
        DEF ThreadYield, TypeInv, TypeOK, Statuses, priVars, lockVars, semaVars, condVars, timeVars

\* ThreadSetPriority keeps the types.
LEMMA TypeThreadSetPriority ==
  ASSUME TypeInv, ThreadSetPriority
  PROVE  TypeInv'
<1>1. PICK p \in Priorities : ThreadSetPriority!(p)
  BY Zenon DEF ThreadSetPriority
<1>2. cur \in Threads /\ stack[cur] # <<>>
  BY <1>1, DoingProperties
<1>3. stack' \in [All -> Seq(Frames)] /\ IdleStack'
  BY <1>1, <1>2, ThenYields
<1>4. lock_list[cur] \in SUBSET Locks /\ cur \in All /\ max_priority \in [Locks -> Priorities]
  BY <1>2 DEF TypeInv, TypeOK, All
<1>5. AdjustPriority(cur, p, lock_list[cur], max_priority) \in Priorities
  BY <1>4, AdjustPriorityType DEF TypeInv
<1>6. priority' \in [All -> Priorities] /\ instrinsic' \in [All -> Priorities]
  BY <1>1, <1>5 DEF TypeInv, TypeOK
<1> QED BY <1>1, <1>3, <1>6, Zenon
        DEF TypeInv, TypeOK, schedVars, lockVars, semaVars, condVars, timeVars

\* ThreadCreate keeps the types.
LEMMA TypeThreadCreate ==
  ASSUME TypeInv, ThreadCreate
  PROVE  TypeInv'
<1>1. PICK p \in Priorities : ThreadCreate!(p)
  BY Zenon DEF ThreadCreate
<1>2. cur \in Threads /\ stack[cur] # <<>>
  BY <1>1, DoingProperties
<1>3. CASE stack' = Return /\ UNCHANGED <<status, priVars, lock_list, waiting_lock, wakeup_time>>
  <2>1. stack' \in [All -> Seq(Frames)] /\ IdleStack'
    BY <1>2, <1>3, ReturnStack
  <2> QED BY <1>1, <1>3, <2>1 DEF TypeInv, TypeOK, priVars, semaVars, condVars
<1>4. ASSUME NEW c \in Threads, ThreadCreate!(p)!2!2!(c)
      PROVE  TypeInv'
  <2>1. <<Frame("lock_acquire", tid_lock), Frame("lock_release", tid_lock),
          Frame("thread_start", c)>> \in Seq(Frames)
    BY FrameTypes, ThreadsAssumption
  <2>2. stack' \in [All -> Seq(Frames)] /\ IdleStack'
    BY <1>2, <1>4, <2>1, ReplaceStack, Zenon
  <2>3. /\ priority' \in [All -> Priorities] /\ instrinsic' \in [All -> Priorities]
        /\ lock_list' \in [All -> SUBSET Locks]
        /\ waiting_lock' \in [All -> Locks \cup {NULL}]
        /\ wakeup_time' \in [All -> Int]
    <3>1. {} \in SUBSET Locks /\ 0 \in Int
      OBVIOUS
    <3> QED BY <1>4, <3>1, Zenon DEF TypeInv, TypeOK
  <2>4. status' \in [All -> Statuses]
    BY <1>4, Zenon DEF TypeInv, TypeOK, Statuses
  <2> QED BY <1>1, <2>2, <2>3, <2>4, Zenon DEF TypeInv, TypeOK, Statuses, semaVars, condVars
<1> QED BY <1>1, <1>3, <1>4, Zenon

\* ThreadStart keeps the types.
LEMMA TypeThreadStart ==
  ASSUME TypeInv, ThreadStart
  PROVE  TypeInv'
<1>1. PICK c \in Threads : ThreadStart!(c)
  BY Zenon DEF ThreadStart
<1>2. cur \in Threads /\ stack[cur] # <<>>
  BY <1>1, DoingProperties
<1>3. stack' \in [All -> Seq(Frames)] /\ IdleStack'
  BY <1>1, <1>2, ThenYields
<1>4. ready' \in Seq(Threads) /\ status' \in [All -> Statuses]
  BY <1>1, AppendProperties, Zenon DEF TypeInv, TypeOK, Statuses
<1> QED BY <1>1, <1>3, <1>4, Zenon
        DEF TypeInv, TypeOK, Statuses, priVars, lockVars, semaVars, condVars, timeVars

\* ThreadExit keeps the types.
LEMMA TypeThreadExit ==
  ASSUME TypeInv, ThreadExit
  PROVE  TypeInv'
<1>1. cur \in Threads /\ stack[cur] # <<>>
  BY DoingProperties DEF ThreadExit
<1>2. stack' \in [All -> Seq(Frames)] /\ IdleStack'
  BY <1>1, ReturnStack DEF ThreadExit
<1> DEFINE st == [status EXCEPT ![cur] = IF cur = main THEN "dying" ELSE "free"]
<1>3. ready \in Seq(Threads) /\ st \in [All -> Statuses] /\ priority \in [All -> Priorities]
  BY DEF TypeInv, TypeOK, Statuses
<1>4. Schedule(ready, st, priority)
  BY DEF ThreadExit
<1> HIDE DEF st
<1> QED BY <1>2, <1>3, <1>4, ScheduleProperties, Zenon
        DEF ThreadExit, TypeInv, TypeOK, Statuses, priVars, lockVars, semaVars, condVars, timeVars

\* list_insert_ordered() yields a list.
LEMMA InsertOrderedType ==
  ASSUME NEW list \in Seq(Threads), NEW key, NEW e \in Threads
  PROVE  InsertOrdered(list, key, e) \in Seq(Threads)
<1> DEFINE after == {i \in DOMAIN list : key[e] < key[list[i]]}
           k == IF after = {} THEN Len(list) + 1 ELSE Min(after)
<1>1. DOMAIN list = 1..Len(list) /\ Len(list) \in Nat
      /\ \A j \in 1..Len(list) : list[j] \in Threads
  BY LenProperties, ElementOfSeq
<1>2. k \in 1..(Len(list) + 1)
  <2>1. CASE after = {}
    BY <1>1, <2>1
  <2>2. CASE after # {}
    <3>1. after \in SUBSET Nat /\ after \subseteq 1..Len(list)
      BY <1>1
    <3> HIDE DEF after
    <3>2. \E x \in after : \A y \in after : x <= y
      BY <2>2, <3>1, Least
    <3>3. Min(after) \in after
      BY <3>2 DEF Min
    <3>4. k = Min(after)
      BY <2>2
    <3>5. k \in 1..Len(list)
      BY <3>1, <3>3, <3>4, Zenon
    <3> QED BY <1>1, <3>5
  <2> QED BY <2>1, <2>2
<1>3. InsertOrdered(list, key, e) = SubSeq(list, 1, k - 1) \o <<e>> \o SubSeq(list, k, Len(list))
  BY DEF InsertOrdered, InsertAt
<1> HIDE DEF k
<1>4. SubSeq(list, 1, k - 1) \in Seq(Threads) /\ SubSeq(list, k, Len(list)) \in Seq(Threads)
  BY <1>1, <1>2, SubSeqProperties
<1>5. <<e>> \in Seq(Threads)
  OBVIOUS
<1> QED BY <1>3, <1>4, <1>5, ConcatProperties

\* ThreadSleep keeps the types.
LEMMA TypeThreadSleep ==
  ASSUME TypeInv, ThreadSleep
  PROVE  TypeInv'
<1>1. stack[cur] # <<>> /\ Top(cur).op = "thread_sleep"
  BY DEF ThreadSleep
<1>2. cur \in Threads
  BY <1>1, NotIdle
<1>3. Top(cur) \in Frames
  BY <1>1, HeadTailProperties DEF TypeInv, TypeOK, Top
<1>4. Top(cur).arg \in Int
  BY <1>1, <1>3 DEF Frames
<1>5. stack' \in [All -> Seq(Frames)] /\ IdleStack'
  BY <1>1, <1>2, ReturnStack DEF ThreadSleep
<1>6. wakeup_time' \in [All -> Int]
  BY <1>4 DEF ThreadSleep, TypeInv, TypeOK
<1>7. sleep_list' \in Seq(Threads)
  BY <1>2, InsertOrderedType DEF ThreadSleep, TypeInv, TypeOK
<1>8. Block
  BY DEF ThreadSleep
<1> QED BY <1>5, <1>6, <1>7, <1>8, BlockProperties, Zenon
        DEF ThreadSleep, TypeInv, TypeOK, Statuses, priVars, lockVars, semaVars, condVars

\* The idle thread between two of its loops.
LEMMA IdleReplaces ==
  ASSUME TypeInv, cur = idle, NEW f \in {Frame("idle", NULL), Frame("hlt", NULL)},
         stack' = Replace(<<f>>)
  PROVE  stack' \in [All -> Seq(Frames)] /\ IdleStack'
<1>1. PICK g : stack[idle] = <<g>>
  BY DEF TypeInv, IdleStack
<1>2. Tail(stack[idle]) = <<>>
  <2>1. Tail(<<g>>) = <<>>
    OBVIOUS
  <2> QED BY <1>1, <2>1
<1>3. f \in Frames
  BY FrameTypes
<1>4. <<f>> \o Tail(stack[idle]) = <<f>>
  <2>1. <<f>> \in Seq(Frames)
    BY <1>3
  <2> QED BY <1>2, <2>1, ConcatEmptySeq, Zenon
<1>5. stack' = [stack EXCEPT ![idle] = <<f>>]
  BY <1>4, Zenon DEF Replace
<1>6. <<f>> \in Seq(Frames) /\ idle \in All
  BY <1>3 DEF All
<1>7. stack' \in [All -> Seq(Frames)] /\ stack'[idle] = <<f>>
  BY <1>5, <1>6, Zenon DEF TypeInv, TypeOK
<1> QED BY <1>7 DEF IdleStack, Frame

\* IdleLoop keeps the types.
LEMMA TypeIdleLoop ==
  ASSUME TypeInv, IdleLoop
  PROVE  TypeInv'
<1>1. stack[cur] # <<>> /\ Top(cur) = Frame("idle", NULL) /\ Block
      /\ stack' = Replace(<<Frame("hlt", NULL)>>)
  BY DEF IdleLoop, Doing
<1>2. stack' \in [All -> Seq(Frames)] /\ IdleStack'
  <2>1. CASE cur = idle
    BY <1>1, <2>1, IdleReplaces
  <2>2. CASE cur # idle
    <3>1. <<Frame("hlt", NULL)>> \in Seq(Frames) /\ cur \in Threads
      BY <2>2, FrameTypes DEF TypeInv, TypeOK, All
    <3> QED BY <1>1, <3>1, ReplaceStack, Zenon
  <2> QED BY <2>1, <2>2
<1> QED BY <1>1, <1>2, BlockProperties, Zenon
        DEF IdleLoop, TypeInv, TypeOK, Statuses, priVars, lockVars, semaVars, condVars, timeVars

\* An interrupt changes at most the stack of the idle thread.
LEMMA InterruptedType ==
  ASSUME TypeInv, stack' = Interrupted
  PROVE  stack' \in [All -> Seq(Frames)] /\ IdleStack'
<1>1. CASE cur = idle
  BY <1>1, IdleReplaces DEF Interrupted
<1>2. CASE cur # idle
  BY <1>2 DEF Interrupted, TypeInv, TypeOK, IdleStack, Frame
<1> QED BY <1>1, <1>2

\* DeviceInterrupt keeps the types.
LEMMA TypeDeviceInterrupt ==
  ASSUME TypeInv, DeviceInterrupt
  PROVE  TypeInv'
<1>1. PICK s \in Semas : DeviceInterrupt!(s)
  BY DEF DeviceInterrupt
<1>2. s \in SemaIds
  BY DEF SemaIds
<1>3. stack' \in [All -> Seq(Frames)] /\ IdleStack'
  BY <1>1, InterruptedType
<1>4. value' \in [SemaIds -> Nat] /\ waiters' \in [SemaIds -> Seq(Threads)]
  BY <1>1, <1>2, UpType DEF TypeInv
<1>5. ready' \in Seq(Threads) /\ status' \in [All -> Statuses]
  BY <1>1, <1>2, WokenProperties, ConcatProperties DEF TypeInv, TypeOK
<1> QED BY <1>1, <1>3, <1>4, <1>5, Zenon
        DEF TypeInv, TypeOK, Statuses, priVars, lockVars, condVars, timeVars

\* thread_alarm() takes a prefix of the sleep list.
LEMMA DueProperties ==
  ASSUME TypeOK, NEW now \in Int
  PROVE  /\ Due(now) \in 0..Len(sleep_list)
         /\ \A i \in 1..Due(now) : wakeup_time[sleep_list[i]] <= now
         /\ Due(now) < Len(sleep_list) => wakeup_time[sleep_list[Due(now) + 1]] > now
<1> DEFINE w(i) == wakeup_time[sleep_list[i]]
           S == {n \in 0..Len(sleep_list) : \A i \in 1..n : w(i) <= now}
           P(n) == /\ \A i \in 1..n : w(i) <= now
                   /\ n < Len(sleep_list) => w(n + 1) > now
<1>1. Len(sleep_list) \in Nat /\ \A i \in 1..Len(sleep_list) : w(i) \in Int
  BY LenProperties, ElementOfSeq DEF TypeOK, All
<1> HIDE DEF w
<1>2. 0 \in S
  BY <1>1
<1>3. S \in SUBSET (0..Len(sleep_list)) /\ S # {}
  BY <1>2
<1>4. PICK n \in S : \A k \in S : n >= k
  <2> HIDE DEF S
  <2> QED BY <1>1, <1>3, Greatest, Zenon
<1>5. n \in 0..Len(sleep_list) /\ \A i \in 1..n : w(i) <= now
  BY <1>4
<1>6. ASSUME n < Len(sleep_list), ~(w(n + 1) > now)
      PROVE  FALSE
  <2>1. n + 1 \in 0..Len(sleep_list) /\ n + 1 \in 1..Len(sleep_list)
    BY <1>1, <1>5, <1>6
  <2>2. w(n + 1) <= now
    BY <1>1, <1>6, <2>1
  <2>3. \A i \in 1..(n + 1) : w(i) <= now
    BY <1>5, <2>1, <2>2
  <2>4. n + 1 \in S
    BY <2>1, <2>3
  <2> QED BY <1>4, <1>5, <2>4
<1>7. P(n)
  BY <1>5, <1>6
<1>8. Due(now) = CHOOSE k \in 0..Len(sleep_list) : P(k)
  BY DEF Due, w
<1>9. Due(now) \in 0..Len(sleep_list) /\ P(Due(now))
  <2> HIDE DEF P, S
  <2> QED BY <1>5, <1>7, <1>8
<1> QED BY <1>9 DEF w

\* TimerInterrupt keeps the types.
LEMMA TypeTimerInterrupt ==
  ASSUME TypeInv, TimerInterrupt
  PROVE  TypeInv'
<1> DEFINE n == Due(ticks')
           up == SubSeq(sleep_list, 1, n)
           st == [t \in All |-> IF t \in Range(up) THEN "ready" ELSE status[t]]
<1>1. stack' \in [All -> Seq(Frames)] /\ IdleStack'
  BY InterruptedType DEF TimerInterrupt
<1>2. ticks' \in 0..MaxTicks
  <2>1. ticks + 1 \in Nat /\ MaxTicks \in Nat /\ ticks \in 0..MaxTicks
    BY ThreadsAssumption DEF TypeInv, TypeOK
  <2>2. Min({ticks + 1, MaxTicks}) \in {ticks + 1, MaxTicks}
        /\ Min({ticks + 1, MaxTicks}) <= MaxTicks
    <3>1. \E x \in {ticks + 1, MaxTicks} : \A y \in {ticks + 1, MaxTicks} : x <= y
      BY <2>1
    <3> QED BY <3>1 DEF Min
  <2> QED BY <2>1, <2>2 DEF TimerInterrupt
<1>3. n \in 0..Len(sleep_list)
  BY <1>2, DueProperties DEF TypeInv
<1>4. Len(sleep_list) \in Nat /\ \A i \in 1..Len(sleep_list) : sleep_list[i] \in Threads
  BY LenProperties, ElementOfSeq DEF TypeInv, TypeOK
<1>5. sleep_list' = SubSeq(sleep_list, n + 1, Len(sleep_list))
  BY DEF TimerInterrupt
<1>6. IF SliceOver THEN Yield(ready \o up, st, priority)
      ELSE /\ ready' = ready \o up
           /\ status' = st
           /\ thread_ticks' = thread_ticks + 1
           /\ UNCHANGED cur
  BY Zenon DEF TimerInterrupt
<1> HIDE DEF n
<1>7. up \in Seq(Threads) /\ sleep_list' \in Seq(Threads)
  BY <1>3, <1>4, <1>5, SubSeqProperties
<1>8. st \in [All -> Statuses]
  BY DEF TypeInv, TypeOK, Statuses
<1> HIDE DEF up, st
<1>9. ready \o up \in Seq(Threads) /\ priority \in [All -> Priorities]
  BY <1>7, ConcatProperties DEF TypeInv, TypeOK
<1>10. /\ cur' \in All
       /\ ready' \in Seq(Threads)
       /\ status' \in [All -> Statuses]
       /\ thread_ticks' \in 0..(TIME_SLICE - 1)
  <2>1. CASE SliceOver
    BY <1>6, <1>8, <1>9, <2>1, YieldProperties, Zenon DEF TypeInv, TypeOK
  <2>2. CASE ~SliceOver
    <3>1. thread_ticks' \in 0..(TIME_SLICE - 1)
      BY <1>6, <2>2, ThreadsAssumption DEF SliceOver, TypeInv, TypeOK
    <3> QED BY <1>6, <1>8, <1>9, <2>2, <3>1, Zenon DEF TypeInv, TypeOK
  <2> QED BY <2>1, <2>2
<1> QED BY <1>1, <1>2, <1>7, <1>10, Zenon
        DEF TimerInterrupt, TypeInv, TypeOK, Statuses, priVars, lockVars, semaVars, condVars

\* Client code makes calls only.
LEMMA RequestsAreFrames ==
  ASSUME TypeOK, NEW t \in Threads
  PROVE  Requests(t) \subseteq Frames
<1>1. ticks \in Int /\ Sleeps \subseteq Int
  BY ThreadsAssumption DEF TypeOK
<1>2. lock_list[t] \subseteq Locks /\ Acquirable(t) \subseteq Locks
      /\ Usable(t) \subseteq Conds
  BY DEF TypeOK, All, Acquirable, Usable
<1>3. SUFFICES ASSUME NEW f \in Requests(t) PROVE f \in Frames
  OBVIOUS
<1>4. CASE f \in Request("thread_sleep", {w \in {ticks + k : k \in Sleeps} : w <= MaxTicks})
  BY <1>1, <1>4, FrameTypes DEF Request
<1>5. CASE \/ f \in Request("sema_down", Semas)
           \/ f \in Request("sema_try_down", Semas)
           \/ f \in Request("sema_up", {s \in Semas : value[s] < MaxValue})
  BY <1>2, <1>5, FrameTypes DEF Request
<1>6. CASE \/ f \in Request("lock_acquire", Acquirable(t))
           \/ f \in Request("lock_try_acquire", Acquirable(t))
           \/ f \in Request("lock_release", lock_list[t])
  BY <1>2, <1>6, FrameTypes DEF Request
<1>7. CASE \/ f \in Request("cond_wait", Usable(t))
           \/ f \in Request("cond_signal", Usable(t))
           \/ f \in Request("cond_broadcast", Usable(t))
  BY <1>2, <1>7, FrameTypes DEF Request
<1>8. CASE \/ f \in Request("thread_yield", {NULL})
           \/ f \in Request("thread_exit", IF lock_list[t] = {} THEN {NULL} ELSE {})
  BY <1>8, FrameTypes DEF Request
<1>9. CASE \/ f \in Request("thread_set_priority", Priorities)
           \/ f \in Request("thread_create", Priorities)
  BY <1>9, FrameTypes DEF Request
<1> QED BY <1>3, <1>4, <1>5, <1>6, <1>7, <1>8, <1>9 DEF Requests

\* ClientCall keeps the types.
LEMMA TypeClientCall ==
  ASSUME TypeInv, ClientCall
  PROVE  TypeInv'
<1>1. cur \in Threads
  BY DEF ClientCall
<1>2. PICK f \in Requests(cur) : stack' = [stack EXCEPT ![cur] = <<f>>]
  BY Zenon DEF ClientCall
<1>3. <<f>> \in Seq(Frames)
  BY <1>1, <1>2, RequestsAreFrames DEF TypeInv
<1>4. stack' \in [All -> Seq(Frames)] /\ stack'[idle] = stack[idle]
  BY <1>1, <1>2, <1>3, ThreadsAssumption DEF TypeInv, TypeOK, All
<1>5. IdleStack'
  BY <1>4 DEF TypeInv, IdleStack, Frame
<1> QED BY <1>4, <1>5
        DEF ClientCall, TypeInv, TypeOK, schedVars, priVars, lockVars, semaVars, condVars, timeVars

\* The types hold when the boot is over.
LEMMA TypeInit ==
  ASSUME Init
  PROVE  TypeInv
<1>1. /\ cur \in All /\ status \in [All -> Statuses]
      /\ ready \in Seq(Threads) /\ thread_ticks \in 0..(TIME_SLICE - 1)
  BY ThreadsAssumption DEF Init, All, Statuses
<1>2. stack \in [All -> Seq(Frames)] /\ IdleStack
  <2>1. <<Frame("hlt", NULL)>> \in Seq(Frames) /\ <<>> \in Seq(Frames)
    BY FrameTypes
  <2> QED BY <2>1 DEF Init, IdleStack, All
<1>3. priority \in [All -> Priorities] /\ instrinsic \in [All -> Priorities]
  BY ThreadsAssumption DEF Init, Priorities, PRI_MIN
<1>4. /\ lock_list \in [All -> SUBSET Locks]
      /\ waiting_lock \in [All -> Locks \cup {NULL}]
      /\ holder \in [Locks -> Threads \cup {NULL}]
      /\ max_priority \in [Locks -> Priorities]
      /\ waiter_priority \in [Threads -> Priorities]
  BY ThreadsAssumption DEF Init, Priorities, PRI_MIN
<1>5. value \in [SemaIds -> Nat] /\ waiters \in [SemaIds -> Seq(Threads)]
      /\ cond_waiters \in [Conds -> Seq(Threads)]
  <2>1. value \in [SemaIds -> 0..1] /\ <<>> \in Seq(Threads)
    BY DEF Init
  <2> QED BY <2>1 DEF Init
<1>6. ticks \in 0..MaxTicks /\ sleep_list \in Seq(Threads) /\ wakeup_time \in [All -> Int]
  BY ThreadsAssumption DEF Init
<1> QED BY <1>1, <1>2, <1>3, <1>4, <1>5, <1>6 DEF TypeInv, TypeOK, Statuses

\* Every step keeps the types.
LEMMA TypeStep ==
  ASSUME TypeInv, [Next]_vars
  PROVE  TypeInv'
<1>1. CASE UNCHANGED vars
  BY <1>1 DEF vars, schedVars, priVars, lockVars, semaVars, condVars, timeVars,
              TypeInv, TypeOK, IdleStack, Frame
<1>2. CASE Kernel
  BY <1>2, TypeFlushPriority, TypeLockAcquire, TypeLockDown, TypeLockTryAcquire,
     TypeLockRelease, TypeReleaseTail, TypeSemaDown, TypeSemaTryDown, TypeSemaUp,
     TypeCondWait, TypeCondSignal, TypeThreadYield, TypeThreadSetPriority,
     TypeThreadCreate, TypeThreadStart, TypeThreadExit, TypeThreadSleep, TypeIdleLoop
     DEF Kernel
<1> QED BY <1>1, <1>2, TypeClientCall, TypeTimerInterrupt, TypeDeviceInterrupt
        DEF Next, Interrupts

\* Every variable keeps its type, for any number of threads, locks, semaphores
\* and condition variables: thread_tick() never counts up to TIME_SLICE, the
\* semaphores never go below 0, and the idle thread is never on a list
\* (schedule(), thread_tick(), sema_down(), thread_yield()).
THEOREM TypeCorrect == Spec => []TypeOK
<1>1. Init => TypeInv
  BY TypeInit
<1>2. TypeInv /\ [Next]_vars => TypeInv'
  BY TypeStep
<1>3. TypeInv => TypeOK
  BY DEF TypeInv
<1> QED BY <1>1, <1>2, <1>3, PTL DEF Spec

====
