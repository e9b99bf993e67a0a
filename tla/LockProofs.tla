----------------------------- MODULE LockProofs -----------------------------
(***************************************************************************)
(* Proofs about the locks and condition variables of module Threads, for   *)
(* any number of threads, locks and condition variables.                   *)
(***************************************************************************)
EXTENDS LockSteps

\* LockRelease keeps the invariant.
LEMMA LockLockRelease ==
  ASSUME LockInv, TypeInv', LockRelease
  PROVE  LockInv'
<1>1. PICK l \in Locks : LockRelease!(l)
  BY Zenon DEF LockRelease
<1>2. cur \in Threads /\ stack[cur] # <<>> /\ Top(cur) = Frame("lock_release", l)
  BY <1>1, DoingProperties DEF LockInv
<1> DEFINE s == stack[cur]
           fs == <<Frame("release_tail", l)>>
           held == lock_list[cur] \ {l}
<1>3. /\ s \in Seq(Frames) /\ s # <<>> /\ WellFormed(s, lock_list[cur])
      /\ s[1] = Frame("lock_release", l) /\ 1 \in 1..Len(s)
  BY <1>2, CurrentStack
<1>4. l \in lock_list[cur]
  BY <1>3 DEF WellFormed
<1>5. /\ holder' = [holder EXCEPT ![l] = NULL]
      /\ lock_list' = [lock_list EXCEPT ![cur] = held]
      /\ value' = [value EXCEPT ![l] = value[l] + 1]
      /\ stack' = Replace(fs)
  BY <1>1 DEF Up
<1>6. /\ value \in [SemaIds -> Nat] /\ holder \in [Locks -> Threads \cup {NULL}]
      /\ lock_list \in [All -> SUBSET Locks] /\ l \in SemaIds /\ cur \in All
      /\ Locks \subseteq SemaIds /\ Threads \subseteq All
  BY Zenon DEF LockInv, TypeInv, TypeOK, SemaIds, All
<1>7. /\ \A k \in Locks : holder'[k] = (IF k = l THEN NULL ELSE holder[k])
                          /\ value'[k] = (IF k = l THEN value[l] + 1 ELSE value[k])
      /\ \A t \in All : lock_list'[t] = (IF t = cur THEN held ELSE lock_list[t])
  BY <1>5, <1>6
<1>8. MutualExclusion'
  <2>1. ASSUME NEW k \in Locks
        PROVE  /\ value'[k] = IF holder'[k] = NULL THEN 1 ELSE 0
               /\ \A t \in All : k \in lock_list'[t] <=> holder'[k] = t
    <3>1. /\ value[k] = IF holder[k] = NULL THEN 1 ELSE 0
          /\ \A t \in All : k \in lock_list[t] <=> holder[k] = t
      BY DEF LockInv, MutualExclusion
    <3>2. CASE k = l
      <4>1. holder[l] = cur /\ NULL \notin All
        BY <1>4, <1>6, <3>1, <3>2, ThreadsAssumption
      <4>2. value[l] = 0
        BY <1>6, <3>1, <3>2, <4>1
      <4> QED BY <1>6, <1>7, <3>1, <3>2, <4>1, <4>2
    <3>3. CASE k # l
      BY <1>7, <3>1, <3>3
    <3> QED BY <3>2, <3>3
  <2> QED BY <2>1 DEF MutualExclusion
<1>9. WellFormed(fs \o Tail(s), held)
  <2>1. /\ fs \in Seq(Frames) /\ Len(fs) = 1
        /\ \A i \in 1..Len(fs) : fs[i] = Frame("release_tail", l)
    BY FrameTypes
  <2> HIDE DEF fs, s, held
  <2>2. \A i \in 1..Len(fs) : fs[i].op = "release_tail"
    BY <2>1, FrameOp
  <2>3. s[1].op \notin CondOps \cup {"lock_acquire", "lock_down"}
    BY <1>3, FrameOp DEF CondOps
  <2>4. /\ \A k \in Locks : ~(Len(s) > 1 /\ s[2] = Frame("lock_release", k))
        /\ \A c \in Conds : \A i \in 2..Len(s) :
             s[i] \notin {Frame("cond_signal", c), Frame("cond_broadcast", c)}
    BY <1>3, <2>3, BelowTop
  <2>5. /\ \A i \in 1..Len(fs) : \A k \in Locks : fs[i] # Frame("lock_release", k)
        /\ \A i \in 1..Len(fs) : fs[i].op \notin {"thread_exit", "cond_wait"}
        /\ \A c \in Conds : \A i \in 1..Len(fs) :
             fs[i] \notin {Frame("cond_signal", c), Frame("cond_broadcast", c)}
    BY <2>2, FrameOp
  <2>6. Fits(fs, s, held)
    BY <2>4, <2>5, Zenon DEF Fits
  <2> QED BY <1>3, <2>1, <2>6, ReplaceWellFormed
<1>10. stack' = [stack EXCEPT ![cur] = fs \o Tail(s)]
  BY <1>5 DEF Replace
<1> HIDE DEF fs, s, held
<1>11. \A t \in Threads \ {cur} : lock_list'[t] = lock_list[t]
  BY <1>6, <1>7
<1>12. StackInv' /\ \A t \in Threads \ {cur} : stack'[t] = stack[t]
  BY <1>2, <1>6, <1>7, <1>9, <1>10, <1>11, StackInvStep, Zenon
<1>13. status'[cur'] # "free" /\ \A t \in All : status'[t] = "free" => status[t] = "free"
  <2>1. PICK pri : priority' = pri /\ Yield(ready \o Woken(l), WokenStatus(l), pri)
    BY <1>1, Zenon
  <2>2. pri \in [All -> Priorities] /\ cur \in All
    BY <2>1 DEF TypeInv, TypeOK, LockInv
  <2>3. ready \o Woken(l) \in Seq(Threads) /\ WokenStatus(l) \in [All -> Statuses]
        /\ \A t \in All : WokenStatus(l)[t] = "free" => status[t] = "free"
    BY <1>6, WokenProperties, ConcatProperties, Zenon DEF LockInv, TypeInv, TypeOK
  <2> QED BY <2>1, <2>2, <2>3, YieldProperties, Zenon
<1>14. FreePages'
  BY <1>11, <1>12, <1>13, FreePagesKept
<1> QED BY <1>8, <1>12, <1>14 DEF LockInv

\* CondWait keeps the invariant.
LEMMA LockCondWait ==
  ASSUME LockInv, TypeInv', CondWait
  PROVE  LockInv'
<1>1. PICK c \in Conds : CondWait!(c)
  BY Zenon DEF CondWait
<1>2. cur \in Threads /\ stack[cur] # <<>> /\ Top(cur) = Frame("cond_wait", c)
  BY <1>1, DoingProperties DEF LockInv
<1> DEFINE s == stack[cur]
           l == CondLock[c]
           fs == <<Frame("lock_release", l), Frame("sema_down", cur), Frame("lock_acquire", l)>>
<1>3. /\ s \in Seq(Frames) /\ s # <<>> /\ WellFormed(s, lock_list[cur])
      /\ s[1] = Frame("cond_wait", c) /\ 1 \in 1..Len(s)
  BY <1>2, CurrentStack
<1>4. Len(s) = 1 /\ l \in lock_list[cur] /\ l \in Locks
  BY <1>3, ThreadsAssumption DEF WellFormed
<1>5. WellFormed(fs \o Tail(s), lock_list[cur])
  <2>1. /\ Frame("lock_release", l) \in Frames /\ Frame("sema_down", cur) \in Frames
        /\ Frame("lock_acquire", l) \in Frames
    BY <1>2, <1>4, FrameTypes
  <2>2. /\ fs \in Seq(Frames) /\ Len(fs) = 3 /\ fs[1] = Frame("lock_release", l)
        /\ fs[2] = Frame("sema_down", cur) /\ fs[3] = Frame("lock_acquire", l)
    BY <2>1
  <2> HIDE DEF fs, s
  <2>3. /\ \A i \in 1..Len(fs) : fs[i].op \in {"lock_release", "sema_down", "lock_acquire"}
        /\ \A i \in 2..Len(fs) : fs[i].op # "lock_release"
    BY <2>2, FrameOp
  <2>4. \A i \in 1..Len(fs) : \A k \in Locks : fs[i] = Frame("lock_release", k) =>
          IF i = 1 THEN k \in lock_list[cur] ELSE fs[i - 1] \in Acquiring(k)
    <3>1. SUFFICES ASSUME NEW i \in 1..Len(fs), NEW k \in Locks,
                          fs[i] = Frame("lock_release", k)
          PROVE  i = 1 /\ k \in lock_list[cur]
      OBVIOUS
    <3>2. i = 1
      BY <2>2, <2>3, <3>1, FrameOp
    <3>3. k = l
      BY <2>2, <3>1, <3>2 DEF Frame
    <3> QED BY <1>4, <3>2, <3>3
  <2>5. /\ \A i \in 1..Len(fs) : fs[i].op \notin {"thread_exit", "cond_wait"}
        /\ \A d \in Conds : \A i \in 1..Len(fs) :
             fs[i] \notin {Frame("cond_signal", d), Frame("cond_broadcast", d)}
    BY <2>3, FrameOp
  <2>6. ~(Len(s) > 1) /\ 2..Len(s) = {}
    BY <1>4
  <2>7. Fits(fs, s, lock_list[cur])
    BY <2>4, <2>5, <2>6 DEF Fits
  <2> QED BY <1>3, <2>2, <2>7, ReplaceWellFormed
<1>6. /\ stack' = [stack EXCEPT ![cur] = fs \o Tail(s)]
      /\ value' = [value EXCEPT ![cur] = WaiterInit]
      /\ UNCHANGED <<schedVars, lockVars>>
  BY <1>1 DEF Replace
<1> HIDE DEF fs, s
<1>7. holder' = holder /\ lock_list' = lock_list /\ \A k \in Locks : value'[k] = value[k]
  <2>1. \A k \in Locks : k # cur /\ k \in SemaIds
    BY <1>2, ThreadsAssumption DEF SemaIds, All
  <2>2. value \in [SemaIds -> Nat]
    BY DEF LockInv, TypeInv, TypeOK
  <2> QED BY <1>6, <2>1, <2>2 DEF lockVars
<1>8. MutualExclusion'
  BY <1>7, MutualExclusionKept DEF LockInv
<1>9. StackInv' /\ \A t \in Threads \ {cur} : stack'[t] = stack[t]
  BY <1>2, <1>5, <1>6, <1>7, StackInvStep
<1>10. FreePages'
  BY <1>6, <1>7, <1>9, NoSwitch, FreePagesKept
<1> QED BY <1>8, <1>9, <1>10 DEF LockInv

\* CondSignal keeps the invariant.
LEMMA LockCondSignal ==
  ASSUME LockInv, TypeInv', CondSignal
  PROVE  LockInv'
<1>1. PICK c \in Conds, again \in BOOLEAN : CondSignal!(c, again)
  BY Zenon DEF CondSignal
<1> DEFINE s == stack[cur]
           w == cond_waiters[c][ListMax(cond_waiters[c], waiter_priority)]
           fs == <<Frame("sema_up", w)>> \o (IF again THEN <<Top(cur)>> ELSE <<>>)
<1>2. /\ cur \in Threads /\ s # <<>>
      /\ Top(cur) \in {Frame("cond_signal", c), Frame("cond_broadcast", c)}
  BY <1>1, DoingProperties DEF LockInv
<1>3. /\ s \in Seq(Frames) /\ WellFormed(s, lock_list[cur])
      /\ s[1] \in {Frame("cond_signal", c), Frame("cond_broadcast", c)} /\ 1 \in 1..Len(s)
      /\ Top(cur) = s[1]
  BY <1>2, CurrentStack DEF Top
<1>4. Top(cur).op \in {"cond_signal", "cond_broadcast"}
  BY <1>2, FrameOp
<1>5. holder' = holder /\ lock_list' = lock_list /\ \A k \in Locks : value'[k] = value[k]
  BY <1>1 DEF lockVars, semaVars
<1>6. CASE cond_waiters[c] = <<>>
  <2>1. stack' = Return /\ UNCHANGED schedVars
    BY <1>1, <1>6
  <2> QED BY <1>2, <1>4, <1>5, <2>1, NoSwitch, PlainReturn
<1>7. CASE cond_waiters[c] # <<>>
  <2>1. w \in Threads
    <3>1. cond_waiters[c] \in Seq(Threads) /\ \A t \in Threads : waiter_priority[t] \in Priorities
      BY DEF LockInv, TypeInv, TypeOK
    <3>2. ListMax(cond_waiters[c], waiter_priority) \in 1..Len(cond_waiters[c])
      BY <1>7, <3>1, ListMaxProperties
    <3> QED BY <3>1, <3>2, ElementOfSeq
  <2>2. stack' = [stack EXCEPT ![cur] = fs \o Tail(s)] /\ UNCHANGED schedVars
    BY <1>1, <1>7 DEF Replace
  <2>3. CondLock[c] \in lock_list[cur] /\ \A j \in 1..Len(s) : s[j].op \in CondOps
    BY <1>3 DEF WellFormed
  <2>4. Frame("sema_up", w) \in Frames /\ Top(cur) \in Frames
    BY <1>2, <2>1, FrameTypes
  <2> HIDE DEF w
  <2>5. /\ fs \in Seq(Frames)
        /\ \A i \in 1..Len(fs) : fs[i] = Frame("sema_up", w) \/ fs[i] = Top(cur)
        /\ Len(fs) \in Nat /\ Len(fs) > 0
    <3>1. CASE again
      <4> DEFINE p == <<Frame("sema_up", w)>>
                 q == <<Top(cur)>>
      <4>1. fs = p \o q
        BY <3>1
      <4>2. /\ p \in Seq(Frames) /\ Len(p) = 1 /\ p[1] = Frame("sema_up", w)
            /\ q \in Seq(Frames) /\ Len(q) = 1 /\ q[1] = Top(cur)
        BY <2>4
      <4> HIDE DEF p, q, fs
      <4>3. /\ p \o q \in Seq(Frames) /\ Len(p \o q) = Len(p) + Len(q)
            /\ \A i \in 1 .. Len(p) + Len(q) :
                 (p \o q)[i] = IF i <= Len(p) THEN p[i] ELSE q[i - Len(p)]
        BY <4>2, ConcatProperties, Zenon
      <4>4. Len(fs) = 2 /\ \A i \in 1..2 : fs[i] = IF i <= 1 THEN p[i] ELSE q[i - 1]
        BY <4>1, <4>2, <4>3
      <4>5. fs[1] = Frame("sema_up", w) /\ fs[2] = Top(cur)
        BY <4>2, <4>4
      <4>6. \A i \in 1..Len(fs) : i = 1 \/ i = 2
        BY <4>4
      <4>7. fs \in Seq(Frames)
        BY <4>1, <4>3
      <4>8. Len(fs) \in Nat /\ Len(fs) > 0
        BY <4>4
      <4> QED BY <4>5, <4>6, <4>7, <4>8
    <3>2. CASE ~again
      <4>1. fs = <<Frame("sema_up", w)>>
        BY <3>2
      <4> QED BY <2>4, <4>1
    <3> QED BY <3>1, <3>2
  <2> HIDE DEF fs
  <2>6. \A i \in 1..Len(fs) : fs[i].op \in {"sema_up", "cond_signal", "cond_broadcast"}
    BY <1>4, <2>5, FrameOp
  <2>7. WellFormed(fs \o Tail(s), lock_list[cur])
    <3>1. \A i \in 1..Len(fs) : \A k \in Locks : fs[i] # Frame("lock_release", k)
      BY <2>6, FrameOp
    <3>2. \A i \in 1..Len(fs) : fs[i].op \notin {"thread_exit", "cond_wait"}
      BY <2>6
    <3>3. \A k \in Locks : ~(Len(s) > 1 /\ s[2] = Frame("lock_release", k))
      <4>1. SUFFICES ASSUME NEW k \in Locks, Len(s) > 1, s[2] = Frame("lock_release", k)
            PROVE  FALSE
        OBVIOUS
      <4>2. 2 \in 1..Len(s)
        BY <1>3, <4>1, LenProperties
      <4> QED BY <2>3, <4>1, <4>2, FrameOp DEF CondOps
    <3>4. \A d \in Conds :
            (\/ \E i \in 1..Len(fs) : fs[i] \in {Frame("cond_signal", d), Frame("cond_broadcast", d)}
             \/ \E i \in 2..Len(s) : s[i] \in {Frame("cond_signal", d), Frame("cond_broadcast", d)})
            => CondLock[d] \in lock_list[cur]
      <4>1. SUFFICES ASSUME NEW d \in Conds,
               \/ \E i \in 1..Len(fs) : fs[i] \in {Frame("cond_signal", d), Frame("cond_broadcast", d)}
               \/ \E i \in 2..Len(s) : s[i] \in {Frame("cond_signal", d), Frame("cond_broadcast", d)}
            PROVE  CondLock[d] \in lock_list[cur]
        OBVIOUS
      <4>2. CASE \E i \in 1..Len(fs) : fs[i] \in {Frame("cond_signal", d), Frame("cond_broadcast", d)}
        <5>1. s[1] \in {Frame("cond_signal", d), Frame("cond_broadcast", d)}
          <6>1. PICK i \in 1..Len(fs) : fs[i] \in {Frame("cond_signal", d), Frame("cond_broadcast", d)}
            BY <4>2
          <6>2. fs[i] = Frame("sema_up", w) \/ fs[i] = Top(cur)
            BY <2>5
          <6>3. fs[i] # Frame("sema_up", w)
            BY <6>1, FrameOp
          <6>4. Top(cur) = s[1]
            BY <1>3 DEF Top
          <6> QED BY <6>1, <6>2, <6>3, <6>4, Zenon
        <5> QED BY <1>3, <5>1 DEF WellFormed
      <4>3. CASE \E i \in 2..Len(s) : s[i] \in {Frame("cond_signal", d), Frame("cond_broadcast", d)}
        <5>1. PICK i \in 2..Len(s) : s[i] \in {Frame("cond_signal", d), Frame("cond_broadcast", d)}
          BY <4>3
        <5>2. i \in 1..Len(s)
          BY <1>3, LenProperties
        <5> QED BY <1>3, <5>1, <5>2 DEF WellFormed
      <4> QED BY <4>1, <4>2, <4>3
    <3>5. \A j \in 1..Len(fs) : fs[j].op \in CondOps
      BY <2>6 DEF CondOps
    <3>6. \A j \in 2..Len(s) : s[j].op \in CondOps
      <4>1. Len(s) \in Nat
        BY <1>3, LenProperties
      <4>2. \A j \in 2..Len(s) : j \in 1..Len(s)
        BY <4>1
      <4> QED BY <2>3, <4>2, Zenon
    <3>7. Fits(fs, s, lock_list[cur])
      BY <3>1, <3>2, <3>3, <3>4, <3>5, <3>6, Zenon DEF Fits
    <3> QED BY <1>2, <1>3, <2>5, <3>7, ReplaceWellFormed
  <2> HIDE DEF s
  <2>8. MutualExclusion'
    BY <1>5, MutualExclusionKept DEF LockInv
  <2>9. StackInv' /\ \A t \in Threads \ {cur} : stack'[t] = stack[t]
    BY <1>2, <1>5, <2>2, <2>7, StackInvStep
  <2>10. FreePages'
    BY <1>5, <2>2, <2>9, NoSwitch, FreePagesKept
  <2> QED BY <2>8, <2>9, <2>10 DEF LockInv
<1> QED BY <1>6, <1>7

\* ThreadCreate keeps the invariant.
LEMMA LockThreadCreate ==
  ASSUME LockInv, TypeInv', ThreadCreate
  PROVE  LockInv'
<1>1. PICK p \in Priorities : ThreadCreate!(p)
  BY Zenon DEF ThreadCreate
<1>2. cur \in Threads /\ stack[cur] # <<>> /\ Top(cur).op = "thread_create"
  <2>1. Doing("thread_create", p)
    BY <1>1
  <2>2. cur \in Threads /\ stack[cur] # <<>> /\ Top(cur) = Frame("thread_create", p)
    BY <2>1, DoingProperties DEF LockInv
  <2> QED BY <2>2, FrameOp
<1>3. CASE stack' = Return /\ UNCHANGED <<status, priVars, lock_list, waiting_lock, wakeup_time>>
  <2>1. /\ holder' = holder /\ lock_list' = lock_list
        /\ \A l \in Locks : value'[l] = value[l]
    BY <1>1, <1>3 DEF semaVars
  <2>2. UNCHANGED schedVars
    BY <1>1, <1>3 DEF schedVars
  <2> QED BY <1>2, <1>3, <2>1, <2>2, NoSwitch, PlainReturn
<1>4. ASSUME NEW c \in Threads, status[c] = "free",
             status' = [status EXCEPT ![c] = "blocked"],
             lock_list' = [lock_list EXCEPT ![c] = {}],
             stack' = Replace(<<Frame("lock_acquire", tid_lock),
                                Frame("lock_release", tid_lock), Frame("thread_start", c)>>)
      PROVE  LockInv'
  <2> DEFINE s == stack[cur]
             fs == <<Frame("lock_acquire", tid_lock), Frame("lock_release", tid_lock),
                     Frame("thread_start", c)>>
  <2>1. /\ s \in Seq(Frames) /\ s # <<>> /\ WellFormed(s, lock_list[cur])
        /\ s[1].op = "thread_create" /\ 1 \in 1..Len(s)
    BY <1>2, CurrentStack
  <2>2. lock_list' = lock_list
    BY <1>4 DEF LockInv, FreePages, TypeInv, TypeOK
  <2>3. holder' = holder /\ \A l \in Locks : value'[l] = value[l]
    BY <1>1 DEF semaVars
  <2>4. MutualExclusion'
    BY <2>2, <2>3, MutualExclusionKept DEF LockInv
  <2>5. WellFormed(fs \o Tail(s), lock_list[cur])
    <3>1. /\ Frame("lock_acquire", tid_lock) \in Frames /\ Frame("lock_release", tid_lock) \in Frames
          /\ Frame("thread_start", c) \in Frames
      BY FrameTypes, ThreadsAssumption
    <3>2. /\ fs \in Seq(Frames) /\ Len(fs) = 3 /\ fs[1] = Frame("lock_acquire", tid_lock)
          /\ fs[2] = Frame("lock_release", tid_lock) /\ fs[3] = Frame("thread_start", c)
      BY <3>1
    <3> HIDE DEF fs, s
    <3>3. /\ fs[1].op = "lock_acquire" /\ fs[2].op = "lock_release" /\ fs[3].op = "thread_start"
          /\ \A i \in 1..Len(fs) : fs[i].op \in {"lock_acquire", "lock_release", "thread_start"}
      <4>1. fs[1].op = "lock_acquire" /\ fs[2].op = "lock_release" /\ fs[3].op = "thread_start"
        BY <3>2, FrameOp
      <4>2. \A i \in 1..Len(fs) : i = 1 \/ i = 2 \/ i = 3
        BY <3>2
      <4> QED BY <4>1, <4>2
    <3>4. \A i \in 1..Len(fs) : \A k \in Locks : fs[i] = Frame("lock_release", k) =>
            IF i = 1 THEN k \in lock_list[cur] ELSE fs[i - 1] \in Acquiring(k)
      <4>1. SUFFICES ASSUME NEW i \in 1..Len(fs), NEW k \in Locks,
                            fs[i] = Frame("lock_release", k)
            PROVE  i # 1 /\ fs[i - 1] \in Acquiring(k)
        OBVIOUS
      <4>2. i = 2
        <5>1. fs[i].op = "lock_release" /\ i \in {1, 2, 3}
          BY <3>2, <4>1, FrameOp
        <5> QED BY <3>3, <5>1
      <4>3. k = tid_lock
        BY <3>2, <4>1, <4>2 DEF Frame
      <4> QED BY <3>2, <4>2, <4>3 DEF Acquiring
    <3>5. /\ \A i \in 1..Len(fs) : fs[i].op \notin {"thread_exit", "cond_wait"}
          /\ \A d \in Conds : \A i \in 1..Len(fs) :
               fs[i] \notin {Frame("cond_signal", d), Frame("cond_broadcast", d)}
      BY <3>3, FrameOp
    <3>6. s[1].op \notin CondOps \cup {"lock_acquire", "lock_down"}
      BY <2>1 DEF CondOps
    <3>7. /\ \A k \in Locks : ~(Len(s) > 1 /\ s[2] = Frame("lock_release", k))
          /\ \A d \in Conds : \A i \in 2..Len(s) :
               s[i] \notin {Frame("cond_signal", d), Frame("cond_broadcast", d)}
      BY <2>1, <3>6, BelowTop
    <3>8. Fits(fs, s, lock_list[cur])
      BY <3>4, <3>5, <3>7, Zenon DEF Fits
    <3> QED BY <2>1, <3>2, <3>8, ReplaceWellFormed
  <2>6. stack' = [stack EXCEPT ![cur] = fs \o Tail(s)]
    BY <1>4 DEF Replace
  <2> HIDE DEF fs, s
  <2>7. StackInv' /\ \A t \in Threads \ {cur} : stack'[t] = stack[t]
    BY <1>2, <2>2, <2>5, <2>6, StackInvStep
  <2>8. status'[cur'] # "free" /\ \A t \in All : status'[t] = "free" => status[t] = "free"
    BY <1>1, <1>4 DEF LockInv, FreePages, TypeInv, TypeOK
  <2>9. FreePages'
    BY <2>2, <2>7, <2>8, FreePagesKept
  <2> QED BY <2>4, <2>7, <2>9 DEF LockInv
<1> QED BY <1>1, <1>3, <1>4, Zenon

\* ThreadExit keeps the invariant.
LEMMA LockThreadExit ==
  ASSUME LockInv, TypeInv', ThreadExit
  PROVE  LockInv'
<1>1. /\ cur \in Threads /\ stack[cur] # <<>> /\ Top(cur).op = "thread_exit"
  <2>1. Doing("thread_exit", NULL)
    BY DEF ThreadExit
  <2>2. cur \in Threads /\ stack[cur] # <<>> /\ Top(cur) = Frame("thread_exit", NULL)
    BY <2>1, DoingProperties DEF LockInv
  <2> QED BY <2>2, FrameOp
<1>2. /\ stack[cur] \in Seq(Frames) /\ WellFormed(stack[cur], lock_list[cur])
      /\ Top(cur) = stack[cur][1] /\ 1 \in 1..Len(stack[cur])
  BY <1>1, CurrentStack
<1>3. Len(stack[cur]) = 1 /\ lock_list[cur] = {}
  BY <1>1, <1>2 DEF WellFormed
<1>4. stack' = [stack EXCEPT ![cur] = <<>>]
  <2>1. Tail(stack[cur]) \in Seq(Frames) /\ Len(Tail(stack[cur])) = 0
    BY <1>1, <1>2, <1>3, HeadTailProperties
  <2>2. Tail(stack[cur]) = <<>>
    BY <2>1, EmptySeq
  <2>3. <<>> \o <<>> = <<>>
    BY EmptySeq, ConcatEmptySeq
  <2> QED BY <2>2, <2>3 DEF ThreadExit, Return, Replace
<1>5. /\ holder' = holder /\ lock_list' = lock_list /\ \A l \in Locks : value'[l] = value[l]
  BY DEF ThreadExit, lockVars, semaVars
<1>6. MutualExclusion'
  BY <1>5, MutualExclusionKept DEF LockInv
<1>7. WellFormed(<<>>, lock_list'[cur])
  BY EmptyWellFormed
<1>8. StackInv' /\ \A t \in Threads \ {cur} : stack'[t] = stack[t]
  BY <1>1, <1>4, <1>5, <1>7, StackInvStep
<1> DEFINE st == [status EXCEPT ![cur] = IF cur = main THEN "dying" ELSE "free"]
<1>9. ready \in Seq(Threads) /\ st \in [All -> Statuses] /\ priority \in [All -> Priorities]
  BY DEF LockInv, TypeInv, TypeOK, Statuses
<1>10. Schedule(ready, st, priority)
  BY DEF ThreadExit
<1>11. \A t \in Threads \ {cur} : st[t] = status[t]
  BY DEF LockInv, TypeInv, TypeOK, All
<1> HIDE DEF st
<1>12. status'[cur'] = "running" /\ \A t \in All : status'[t] = "free" => st[t] = "free"
  BY <1>9, <1>10, ScheduleProperties
<1>13. stack'[cur] = <<>>
  BY <1>1, <1>4 DEF LockInv, TypeInv, TypeOK, All
<1>14. FreePages'
  <2>1. ASSUME NEW t \in Threads, status'[t] = "free"
        PROVE  stack'[t] = <<>> /\ lock_list'[t] = {}
    <3>1. CASE t = cur
      BY <1>3, <1>5, <1>13, <3>1
    <3>2. CASE t # cur
      <4>1. status[t] = "free" /\ stack'[t] = stack[t]
        BY <1>8, <1>11, <1>12, <2>1, <3>2 DEF All
      <4> QED BY <1>5, <4>1 DEF LockInv, FreePages
    <3> QED BY <3>1, <3>2
  <2> QED BY <1>12, <2>1 DEF FreePages
<1> QED BY <1>6, <1>8, <1>14 DEF LockInv

\* What the assertions of the callees ask of client code.
LEMMA RequestsAllowed ==
  ASSUME NEW t \in Threads, NEW f \in Requests(t)
  PROVE  /\ \A l : f = Frame("lock_release", l) => l \in lock_list[t]
         /\ f.op = "thread_exit" => lock_list[t] = {}
         /\ \A c : f \in {Frame("cond_wait", c), Frame("cond_signal", c), Frame("cond_broadcast", c)}
                     => CondLock[c] \in lock_list[t]
<1>1. PICK op, args :
        /\ f \in Request(op, args)
        /\ op = "lock_release" => args = lock_list[t]
        /\ op = "thread_exit" => args = IF lock_list[t] = {} THEN {NULL} ELSE {}
        /\ op \in {"cond_wait", "cond_signal", "cond_broadcast"} => args = Usable(t)
  <2>1. CASE f \in Request("sema_down", Semas)
    BY <2>1
  <2>2. CASE f \in Request("sema_try_down", Semas)
    BY <2>2
  <2>3. CASE f \in Request("sema_up", {s \in Semas : value[s] < MaxValue})
    BY <2>3
  <2>4. CASE f \in Request("lock_acquire", Acquirable(t))
    BY <2>4
  <2>5. CASE f \in Request("lock_try_acquire", Acquirable(t))
    BY <2>5
  <2>6. CASE f \in Request("lock_release", lock_list[t])
    BY <2>6
  <2>7. CASE f \in Request("cond_wait", Usable(t))
    BY <2>7
  <2>8. CASE f \in Request("cond_signal", Usable(t))
    BY <2>8
  <2>9. CASE f \in Request("cond_broadcast", Usable(t))
    BY <2>9
  <2>10. CASE f \in Request("thread_yield", {NULL})
    BY <2>10
  <2>11. CASE f \in Request("thread_set_priority", Priorities)
    BY <2>11
  <2>12. CASE f \in Request("thread_create", Priorities)
    BY <2>12
  <2>13. CASE f \in Request("thread_sleep", {w \in {ticks + k : k \in Sleeps} : w <= MaxTicks})
    BY <2>13
  <2>14. CASE f \in Request("thread_exit", IF lock_list[t] = {} THEN {NULL} ELSE {})
    BY <2>14
  <2>15. \/ f \in Request("sema_down", Semas)
         \/ f \in Request("sema_try_down", Semas)
         \/ f \in Request("sema_up", {s \in Semas : value[s] < MaxValue})
         \/ f \in Request("lock_acquire", Acquirable(t))
         \/ f \in Request("lock_try_acquire", Acquirable(t))
         \/ f \in Request("lock_release", lock_list[t])
         \/ f \in Request("cond_wait", Usable(t))
         \/ f \in Request("cond_signal", Usable(t))
         \/ f \in Request("cond_broadcast", Usable(t))
         \/ f \in Request("thread_yield", {NULL})
         \/ f \in Request("thread_set_priority", Priorities)
         \/ f \in Request("thread_create", Priorities)
         \/ f \in Request("thread_sleep", {w \in {ticks + k : k \in Sleeps} : w <= MaxTicks})
         \/ f \in Request("thread_exit", IF lock_list[t] = {} THEN {NULL} ELSE {})
    BY Zenon DEF Requests
  <2> QED BY <2>1, <2>2, <2>3, <2>4, <2>5, <2>6, <2>7, <2>8, <2>9, <2>10, <2>11, <2>12, <2>13,
             <2>14, <2>15, Zenon
<1>2. PICK x \in args : f = Frame(op, x)
  BY <1>1 DEF Request
<1>3. f.op = op
  BY <1>2, FrameOp
<1>4. ASSUME NEW l, f = Frame("lock_release", l) PROVE l \in lock_list[t]
  <2>1. op = "lock_release" /\ x = l
    BY <1>2, <1>4 DEF Frame
  <2> QED BY <1>1, <1>2, <2>1
<1>5. ASSUME NEW c, f \in {Frame("cond_wait", c), Frame("cond_signal", c), Frame("cond_broadcast", c)}
      PROVE  CondLock[c] \in lock_list[t]
  <2>1. op \in {"cond_wait", "cond_signal", "cond_broadcast"} /\ x = c
    BY <1>2, <1>5 DEF Frame
  <2> QED BY <1>1, <1>2, <2>1 DEF Usable
<1>6. ASSUME f.op = "thread_exit" PROVE lock_list[t] = {}
  BY <1>1, <1>2, <1>3, <1>6
<1> QED BY <1>4, <1>5, <1>6

\* ClientCall keeps the invariant.
LEMMA LockClientCall ==
  ASSUME LockInv, TypeInv', ClientCall
  PROVE  LockInv'
<1>1. cur \in Threads
  BY DEF ClientCall
<1>2. PICK f \in Requests(cur) : stack' = [stack EXCEPT ![cur] = <<f>>]
  BY Zenon DEF ClientCall
<1> DEFINE s == <<f>>
           held == lock_list[cur]
<1>3. Len(s) = 1 /\ s[1] = f /\ 1..Len(s) = {1}
  OBVIOUS
<1>4. /\ \A l : f = Frame("lock_release", l) => l \in held
      /\ f.op = "thread_exit" => held = {}
      /\ \A c : f \in {Frame("cond_wait", c), Frame("cond_signal", c), Frame("cond_broadcast", c)}
                  => CondLock[c] \in held
  BY <1>1, RequestsAllowed
<1> HIDE DEF s, held
<1>5. \A c : f \in {Frame("cond_signal", c), Frame("cond_broadcast", c)} => f.op \in CondOps
  BY FrameOp DEF CondOps
<1>6. WellFormed(s, held)
  <2>1. SUFFICES ASSUME NEW i \in 1..Len(s)
        PROVE  /\ \A l \in Locks : f = Frame("lock_release", l) => l \in held
               /\ f.op = "thread_exit" => held = {}
               /\ \A c \in Conds : f = Frame("cond_wait", c) => CondLock[c] \in held
               /\ \A c \in Conds : f \in {Frame("cond_signal", c), Frame("cond_broadcast", c)}
                    => CondLock[c] \in held /\ f.op \in CondOps
    BY <1>3 DEF WellFormed
  <2> QED BY <1>4, <1>5
<1>7. /\ holder' = holder /\ lock_list' = lock_list /\ \A l \in Locks : value'[l] = value[l]
      /\ UNCHANGED schedVars
  BY DEF ClientCall, lockVars, semaVars
<1>8. MutualExclusion'
  BY <1>7, MutualExclusionKept DEF LockInv
<1>9. StackInv' /\ \A t \in Threads \ {cur} : stack'[t] = stack[t]
  BY <1>1, <1>2, <1>6, <1>7, StackInvStep DEF s, held
<1>10. FreePages'
  BY <1>7, <1>9, NoSwitch, FreePagesKept
<1> QED BY <1>8, <1>9, <1>10 DEF LockInv

-----------------------------------------------------------------------------
(* The theorems *)

\* No lock is held and every stack is empty when the boot is over.
LEMMA LockInit ==
  ASSUME Init
  PROVE  LockInv
<1>1. TypeInv
  BY TypeInit
<1>2. Threads \subseteq All /\ main \in Threads /\ idle \notin Threads /\ NULL \notin All
  BY ThreadsAssumption DEF All
<1>3. MutualExclusion
  BY <1>2 DEF Init, MutualExclusion
<1>4. FreePages
  BY <1>2 DEF Init, FreePages
<1>5. \A t \in Threads : stack[t] = <<>>
  BY <1>2 DEF Init
<1>6. \A held : WellFormed(<<>>, held)
  BY EmptyWellFormed
<1>7. StackInv
  BY <1>5, <1>6 DEF StackInv
<1> QED BY <1>1, <1>3, <1>4, <1>7 DEF LockInv

\* Every step keeps the invariant: one lemma above for each action.
LEMMA LockStep ==
  ASSUME LockInv, [Next]_vars
  PROVE  LockInv'
<1>1. TypeInv'
  BY TypeStep DEF LockInv
<1>2. CASE UNCHANGED vars
  <2>1. MutualExclusion'
    BY <1>2 DEF vars, schedVars, lockVars, semaVars, LockInv, MutualExclusion
  <2>2. FreePages'
    BY <1>2 DEF vars, schedVars, lockVars, semaVars, LockInv, FreePages
  <2>3. StackInv'
    BY <1>2 DEF vars, schedVars, lockVars, semaVars, LockInv, StackInv
  <2> QED BY <1>1, <2>1, <2>2, <2>3 DEF LockInv
<1>3. CASE Kernel
  <2>1. CASE FlushPriority \/ LockAcquire \/ LockDown \/ LockTryAcquire \/ LockRelease
             \/ ReleaseTail \/ SemaDown \/ SemaTryDown \/ SemaUp
    BY <1>1, <2>1, LockFlushPriority, LockLockAcquire, LockLockDown, LockLockTryAcquire,
       LockLockRelease, LockReleaseTail, LockSemaDown, LockSemaTryDown, LockSemaUp
  <2>2. CASE CondWait \/ CondSignal \/ ThreadYield \/ ThreadSetPriority \/ ThreadCreate
             \/ ThreadStart \/ ThreadExit \/ ThreadSleep \/ IdleLoop
    BY <1>1, <2>2, LockCondWait, LockCondSignal, LockThreadYield, LockThreadSetPriority,
       LockThreadCreate, LockThreadStart, LockThreadExit, LockThreadSleep, LockIdleLoop
  <2> QED BY <1>3, <2>1, <2>2 DEF Kernel
<1> QED BY <1>1, <1>2, <1>3, LockClientCall, LockTimerInterrupt, LockDeviceInterrupt
        DEF Next, Interrupts

\* At most one thread holds a lock, its semaphore says whether it is held and
\* the lock_list of the holder has it: for any number of threads, locks,
\* semaphores and condition variables and any sequence of calls that respects
\* the assertions of lock_acquire(), lock_release() and cond_wait().
THEOREM LocksExclude == Spec => []MutualExclusion
<1>1. Init => LockInv
  BY LockInit
<1>2. LockInv /\ [Next]_vars => LockInv'
  BY LockStep
<1>3. LockInv => MutualExclusion
  BY DEF LockInv
<1> QED BY <1>1, <1>2, <1>3, PTL DEF Spec

\* The action of LockProtectsCond.
CondStep == \A c \in Conds : cond_waiters'[c] # cond_waiters[c] => holder[CondLock[c]] = cur

\* A step of cond_wait() or cond_signal() is taken by the holder of the lock;
\* no other step touches the list of a condition variable.
LEMMA CondStepHolds ==
  ASSUME LockInv, [Next]_vars
  PROVE  [CondStep]_vars
<1>1. \A c \in Conds : CondLock[c] \in lock_list[cur] => holder[CondLock[c]] = cur
  BY ThreadsAssumption DEF LockInv, MutualExclusion, TypeInv, TypeOK
<1>2. CASE UNCHANGED cond_waiters
  BY <1>2 DEF CondStep
<1>3. ASSUME NEW c \in Conds, cur \in Threads, stack[cur] # <<>>,
             Top(cur) \in {Frame("cond_wait", c), Frame("cond_signal", c), Frame("cond_broadcast", c)},
             NEW n, cond_waiters' = [cond_waiters EXCEPT ![c] = n]
      PROVE  CondStep
  <2>1. CondLock[c] \in lock_list[cur]
    BY <1>3, CurrentStack DEF WellFormed
  <2>2. \A d \in Conds : d # c => cond_waiters'[d] = cond_waiters[d]
    BY <1>3 DEF LockInv, TypeInv, TypeOK
  <2> QED BY <1>1, <2>1, <2>2 DEF CondStep
<1>4. CASE CondWait
  <2>1. PICK c \in Conds : CondWait!(c)
    BY <1>4, Zenon DEF CondWait
  <2>2. cur \in Threads /\ stack[cur] # <<>> /\ Top(cur) = Frame("cond_wait", c)
    BY <2>1, DoingProperties DEF LockInv
  <2>3. cond_waiters' = [cond_waiters EXCEPT ![c] = Append(cond_waiters[c], cur)]
    BY <2>1
  <2> QED BY <1>3, <2>2, <2>3
<1>5. CASE CondSignal
  <2>1. PICK c \in Conds, again \in BOOLEAN : CondSignal!(c, again)
    BY <1>5, Zenon DEF CondSignal
  <2>2. /\ cur \in Threads /\ stack[cur] # <<>>
        /\ Top(cur) \in {Frame("cond_signal", c), Frame("cond_broadcast", c)}
    BY <2>1, DoingProperties DEF LockInv
  <2>3. CASE cond_waiters[c] = <<>>
    BY <1>2, <2>1, <2>3
  <2>4. CASE cond_waiters[c] # <<>>
    <3>1. cond_waiters' = [cond_waiters EXCEPT ![c] =
            RemoveAt(cond_waiters[c], ListMax(cond_waiters[c], waiter_priority))]
      BY <2>1, <2>4
    <3> QED BY <1>3, <2>2, <3>1
  <2> QED BY <2>3, <2>4
<1>6. CASE UNCHANGED vars
  BY <1>6
<1>7. CASE FlushPriority \/ LockAcquire \/ LockDown \/ LockTryAcquire \/ LockRelease
           \/ ReleaseTail \/ SemaDown \/ SemaTryDown \/ SemaUp
  BY <1>2, <1>7 DEF FlushPriority, LockAcquire, LockDown, LockTryAcquire, LockRelease,
     ReleaseTail, SemaDown, SemaTryDown, SemaUp, condVars
<1>8. CASE ThreadYield \/ ThreadSetPriority \/ ThreadCreate \/ ThreadStart \/ ThreadExit
           \/ ThreadSleep \/ IdleLoop
  BY <1>2, <1>8 DEF ThreadYield, ThreadSetPriority, ThreadCreate, ThreadStart, ThreadExit,
     ThreadSleep, IdleLoop, condVars
<1>9. CASE ClientCall \/ TimerInterrupt \/ DeviceInterrupt
  BY <1>2, <1>9 DEF ClientCall, TimerInterrupt, DeviceInterrupt, condVars
<1> QED BY <1>4, <1>5, <1>6, <1>7, <1>8, <1>9 DEF Next, Kernel, Interrupts

\* cond_wait() and cond_signal() change the list of waiters with interrupts on.
\* The lock that goes with the condition variable protects it: only its holder
\* does so, at every step and for every value of the constants.
THEOREM CondListsProtected == Spec => LockProtectsCond
<1>1. Init => LockInv
  BY LockInit
<1>2. LockInv /\ [Next]_vars => LockInv'
  BY LockStep
<1>3. LockInv /\ [Next]_vars => [CondStep]_vars
  BY CondStepHolds
<1>4. Spec => [][CondStep]_vars
  BY <1>1, <1>2, <1>3, PTL DEF Spec
<1> QED BY <1>4 DEF LockProtectsCond, CondStep

====
