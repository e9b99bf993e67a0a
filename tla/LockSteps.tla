----------------------------- MODULE LockSteps ------------------------------
(***************************************************************************)
(* The inductive invariant of the locks of module Threads, lemmas about    *)
(* stacks, and the actions that keep the invariant for simple reasons.     *)
(* Module LockProofs has the others and the theorems.                      *)
(***************************************************************************)
EXTENDS ThreadsProofs

-----------------------------------------------------------------------------
(* The inductive invariant *)

Acquiring(l) == {Frame("lock_acquire", l), Frame("lock_down", l)}

\* The calls that cond_signal() and cond_broadcast() are made of.
CondOps == {"sema_up", "thread_yield", "cond_signal", "cond_broadcast"}

\* What a thread that holds the locks `held' may have on its stack `s': it
\* releases a lock only if it holds it, or if the frame before acquires it; it
\* exits, and it waits for a condition, in a call made directly by client code;
\* and it signals a condition with the lock held throughout.
WellFormed(s, held) ==
  \A i \in 1..Len(s) :
    /\ \A l \in Locks : s[i] = Frame("lock_release", l) =>
         IF i = 1 THEN l \in held ELSE s[i - 1] \in Acquiring(l)
    /\ s[i].op = "thread_exit" => Len(s) = 1 /\ held = {}
    /\ \A c \in Conds : s[i] = Frame("cond_wait", c) =>
         Len(s) = 1 /\ CondLock[c] \in held
    /\ \A c \in Conds : s[i] \in {Frame("cond_signal", c), Frame("cond_broadcast", c)} =>
         CondLock[c] \in held /\ \A j \in 1..Len(s) : s[j].op \in CondOps

\* A page that holds no thread: nothing to do and no locks.
FreePages ==
  /\ status[cur] # "free"
  /\ \A t \in Threads : status[t] = "free" => stack[t] = <<>> /\ lock_list[t] = {}

StackInv == \A t \in Threads : WellFormed(stack[t], lock_list[t])

LockInv == TypeInv /\ MutualExclusion /\ FreePages /\ StackInv

-----------------------------------------------------------------------------
(* Stacks *)

\* The frames `fs' may take the place of the innermost frame of `s' in a thread
\* that then holds the locks `held'.
Fits(fs, s, held) ==
  /\ \A i \in 1..Len(fs) : \A l \in Locks : fs[i] = Frame("lock_release", l) =>
       IF i = 1 THEN l \in held ELSE fs[i - 1] \in Acquiring(l)
  /\ \A l \in Locks : Len(s) > 1 /\ s[2] = Frame("lock_release", l) =>
       IF Len(fs) = 0 THEN l \in held ELSE fs[Len(fs)] \in Acquiring(l)
  /\ \A i \in 1..Len(fs) : fs[i].op \notin {"thread_exit", "cond_wait"}
  /\ \A c \in Conds :
       (\/ \E i \in 1..Len(fs) : fs[i] \in {Frame("cond_signal", c), Frame("cond_broadcast", c)}
        \/ \E i \in 2..Len(s) : s[i] \in {Frame("cond_signal", c), Frame("cond_broadcast", c)})
       => /\ CondLock[c] \in held
          /\ \A j \in 1..Len(fs) : fs[j].op \in CondOps
          /\ \A j \in 2..Len(s) : s[j].op \in CondOps

\* What becomes of a well-formed stack when its innermost frame is replaced.
LEMMA ReplaceWellFormed ==
  ASSUME NEW s \in Seq(Frames), s # <<>>, NEW held, NEW held2, NEW fs \in Seq(Frames),
         WellFormed(s, held), Fits(fs, s, held2)
  PROVE  WellFormed(fs \o Tail(s), held2)
<1> DEFINE n == fs \o Tail(s)
           k == Len(fs)
<1>1. /\ Len(s) \in Nat /\ Len(s) > 0 /\ k \in Nat
      /\ Tail(s) \in Seq(Frames) /\ Len(Tail(s)) = Len(s) - 1
      /\ \A i \in 1..(Len(s) - 1) : Tail(s)[i] = s[i + 1]
  BY HeadTailProperties, LenProperties, EmptySeq
<1>2. /\ Len(n) = k + Len(s) - 1
      /\ \A i \in 1..Len(n) : n[i] = IF i <= k THEN fs[i] ELSE Tail(s)[i - k]
  BY <1>1, ConcatProperties
<1> HIDE DEF n, k
<1>3. \A i \in 1..k : n[i] = fs[i] /\ i \in 1..Len(n)
  BY <1>1, <1>2
<1>4. \A i \in (k + 1)..Len(n) : n[i] = s[i - k + 1] /\ i - k + 1 \in 2..Len(s)
                                 /\ i - k + 1 \in 1..Len(s)
  BY <1>1, <1>2
<1>5. SUFFICES ASSUME NEW i \in 1..Len(n)
      PROVE  /\ \A l \in Locks : n[i] = Frame("lock_release", l) =>
                  IF i = 1 THEN l \in held2 ELSE n[i - 1] \in Acquiring(l)
             /\ n[i].op = "thread_exit" => Len(n) = 1 /\ held2 = {}
             /\ \A c \in Conds : n[i] = Frame("cond_wait", c) =>
                  Len(n) = 1 /\ CondLock[c] \in held2
             /\ \A c \in Conds : n[i] \in {Frame("cond_signal", c), Frame("cond_broadcast", c)} =>
                  CondLock[c] \in held2 /\ \A j \in 1..Len(n) : n[j].op \in CondOps
  BY DEF WellFormed, n
<1>6. i \in 1..k \/ i \in (k + 1)..Len(n)
  BY <1>1, <1>2, <1>5
<1>7. ASSUME NEW l \in Locks, n[i] = Frame("lock_release", l)
      PROVE  IF i = 1 THEN l \in held2 ELSE n[i - 1] \in Acquiring(l)
  <2>1. CASE i \in 1..k
    <3>1. IF i = 1 THEN l \in held2 ELSE fs[i - 1] \in Acquiring(l)
      BY <1>3, <1>7, <2>1 DEF k, Fits
    <3>2. i # 1 => i - 1 \in 1..k
      BY <1>1, <2>1
    <3> QED BY <1>3, <3>1, <3>2
  <2>2. CASE i = k + 1
    <3>0. i \in (k + 1)..Len(n) /\ i - k + 1 = 2 /\ Len(s) > 1
      BY <1>1, <1>2, <1>5, <2>2
    <3>1. s[2] = Frame("lock_release", l) /\ Len(s) > 1
      BY <1>4, <1>7, <3>0
    <3>2. IF k = 0 THEN l \in held2 ELSE fs[k] \in Acquiring(l)
      BY <3>1 DEF k, Fits
    <3>3. k # 0 => k \in 1..k /\ n[k] = fs[k]
      BY <1>1, <1>3
    <3> QED BY <1>1, <2>2, <3>2, <3>3
  <2>3. CASE i > k + 1
    <3> DEFINE j == i - 1
               m == i - k + 1
    <3>1. i \in (k + 1)..Len(n) /\ j \in (k + 1)..Len(n) /\ i # 1
      BY <1>1, <1>2, <1>5, <2>3
    <3>2. m # 1 /\ j - k + 1 = m - 1
      BY <1>1, <1>2, <1>5, <2>3
    <3>3. m \in 1..Len(s) /\ s[m] = Frame("lock_release", l)
      BY <1>4, <1>7, <3>1
    <3> HIDE DEF m, j
    <3>4. n[j] = s[m - 1]
      BY <1>4, <3>1, <3>2
    <3>5. s[m - 1] \in Acquiring(l)
      BY <3>2, <3>3 DEF WellFormed
    <3> QED BY <3>1, <3>4, <3>5 DEF j
  <2> QED BY <1>1, <1>2, <1>6, <2>1, <2>2, <2>3
<1>8. ASSUME \/ n[i].op = "thread_exit"
             \/ \E c \in Conds : n[i] = Frame("cond_wait", c)
      PROVE  FALSE
  <2>1. n[i].op \in {"thread_exit", "cond_wait"}
    <3>1. \A c : Frame("cond_wait", c).op = "cond_wait"
      BY DEF Frame
    <3> QED BY <1>8, <3>1
  <2>2. i \in (k + 1)..Len(n)
    BY <1>3, <1>6, <2>1 DEF k, Fits
  <2>3. n[i] = s[i - k + 1] /\ i - k + 1 \in 2..Len(s) /\ i - k + 1 \in 1..Len(s)
    BY <1>4, <2>2
  <2>4. Len(s) = 1
    BY <1>8, <2>3 DEF WellFormed
  <2> QED BY <2>3, <2>4
<1>9. ASSUME NEW c \in Conds, n[i] \in {Frame("cond_signal", c), Frame("cond_broadcast", c)}
      PROVE  CondLock[c] \in held2 /\ \A j \in 1..Len(n) : n[j].op \in CondOps
  <2>1. \/ \E j \in 1..k : fs[j] \in {Frame("cond_signal", c), Frame("cond_broadcast", c)}
        \/ \E j \in 2..Len(s) : s[j] \in {Frame("cond_signal", c), Frame("cond_broadcast", c)}
    BY <1>3, <1>4, <1>6, <1>9
  <2>2. /\ CondLock[c] \in held2
        /\ \A j \in 1..k : fs[j].op \in CondOps
        /\ \A j \in 2..Len(s) : s[j].op \in CondOps
    BY <2>1 DEF k, Fits
  <2>3. ASSUME NEW j \in 1..Len(n)
        PROVE  n[j].op \in CondOps
    <3>1. j \in 1..k \/ j \in (k + 1)..Len(n)
      BY <1>1, <1>2, <2>3
    <3> QED BY <1>3, <1>4, <2>2, <3>1
  <2> QED BY <2>2, <2>3
<1> QED BY <1>7, <1>8, <1>9


\* The frames that are left once a call returns: as before, with the locks
\* that the call acquired.
LEMMA ReturnWellFormed ==
  ASSUME NEW s \in Seq(Frames), s # <<>>, NEW held, NEW held2, held \subseteq held2,
         WellFormed(s, held),
         Head(s).op # "lock_release",
         \A l \in Locks : Head(s) \in Acquiring(l) => l \in held2
  PROVE  WellFormed(Tail(s), held2)
<1>1. <<>> \in Seq(Frames) /\ Len(<<>>) = 0
  OBVIOUS
<1>2. Head(s) = s[1] /\ Len(s) \in Nat /\ Len(s) > 0
  BY LenProperties, EmptySeq
<1>3. \A l \in Locks : Len(s) > 1 /\ s[2] = Frame("lock_release", l) => l \in held2
  <2>1. SUFFICES ASSUME NEW l \in Locks, Len(s) > 1, s[2] = Frame("lock_release", l)
        PROVE  l \in held2
    OBVIOUS
  <2>2. 2 \in 1..Len(s) /\ 2 # 1 /\ 2 - 1 = 1
    BY <1>2, <2>1
  <2>3. s[1] \in Acquiring(l)
    BY <2>1, <2>2 DEF WellFormed
  <2> QED BY <1>2, <2>3
<1>4. \A c \in Conds :
        (\E i \in 2..Len(s) : s[i] \in {Frame("cond_signal", c), Frame("cond_broadcast", c)})
           => /\ CondLock[c] \in held2
              /\ \A j \in 2..Len(s) : s[j].op \in CondOps
  <2>1. 2..Len(s) \subseteq 1..Len(s)
    BY <1>2
  <2> QED BY <2>1 DEF WellFormed
<1>5. WellFormed(<<>> \o Tail(s), held2)
  <2> DEFINE fs == <<>>
  <2>1. fs \in Seq(Frames) /\ Len(fs) = 0 /\ 1..Len(fs) = {}
    BY <1>1
  <2> HIDE DEF fs
  <2>2. \A i \in 1..Len(fs) : FALSE
    BY <2>1
  <2>3. Fits(fs, s, held2)
    BY <1>3, <1>4, <2>1, <2>2 DEF Fits
  <2>4. WellFormed(fs \o Tail(s), held2)
    BY <2>1, <2>3, ReplaceWellFormed, Zenon
  <2> QED BY <2>4 DEF fs
<1>6. <<>> \o Tail(s) = Tail(s)
  BY HeadTailProperties, ConcatEmptySeq
<1> QED BY <1>5, <1>6

\* One frame in place of another that acquires and releases nothing.
LEMMA StepWellFormed ==
  ASSUME NEW s \in Seq(Frames), s # <<>>, NEW held, NEW f \in Frames,
         WellFormed(s, held),
         Head(s).op \notin {"lock_acquire", "lock_down"},
         f.op \notin {"lock_release", "thread_exit", "cond_wait", "cond_signal", "cond_broadcast"},
         Head(s).op \in CondOps => f.op \in CondOps
  PROVE  WellFormed(<<f>> \o Tail(s), held)
<1> DEFINE fs == <<f>>
<1>1. fs \in Seq(Frames) /\ Len(fs) = 1 /\ fs[1] = f /\ \A i \in 1..Len(fs) : fs[i] = f
  OBVIOUS
<1> HIDE DEF fs
<1>2. Head(s) = s[1] /\ Len(s) \in Nat /\ Len(s) > 0
  BY LenProperties, EmptySeq
<1>0. \A op, x : Frame(op, x).op = op
  BY DEF Frame
<1>3. \A l \in Locks : f # Frame("lock_release", l)
  BY <1>0
<1>4. \A l \in Locks : ~(Len(s) > 1 /\ s[2] = Frame("lock_release", l))
  <2>1. SUFFICES ASSUME NEW l \in Locks, Len(s) > 1, s[2] = Frame("lock_release", l)
        PROVE  FALSE
    OBVIOUS
  <2>2. 2 \in 1..Len(s) /\ 2 # 1 /\ 2 - 1 = 1
    BY <1>2, <2>1
  <2>3. s[1] \in Acquiring(l)
    BY <2>1, <2>2 DEF WellFormed
  <2> QED BY <1>2, <2>3 DEF Acquiring, Frame
<1>5. \A c \in Conds : f \notin {Frame("cond_signal", c), Frame("cond_broadcast", c)}
  BY <1>0
<1>6. \A c \in Conds :
        (\E i \in 2..Len(s) : s[i] \in {Frame("cond_signal", c), Frame("cond_broadcast", c)})
           => /\ CondLock[c] \in held
              /\ f.op \in CondOps
              /\ \A j \in 2..Len(s) : s[j].op \in CondOps
  <2>1. 2..Len(s) \subseteq 1..Len(s) /\ 1 \in 1..Len(s)
    BY <1>2
  <2>2. SUFFICES ASSUME NEW c \in Conds, NEW i \in 2..Len(s),
                        s[i] \in {Frame("cond_signal", c), Frame("cond_broadcast", c)}
        PROVE  /\ CondLock[c] \in held
               /\ f.op \in CondOps
               /\ \A j \in 2..Len(s) : s[j].op \in CondOps
    OBVIOUS
  <2>3. CondLock[c] \in held /\ \A j \in 1..Len(s) : s[j].op \in CondOps
    BY <2>1, <2>2 DEF WellFormed
  <2> QED BY <1>2, <2>1, <2>3
<1>7. \A i \in 1..Len(fs) : fs[i].op \notin {"thread_exit", "cond_wait"}
  BY <1>1
<1>8. \A i \in 1..Len(fs) : \A l \in Locks : fs[i] = Frame("lock_release", l) =>
           IF i = 1 THEN l \in held ELSE fs[i - 1] \in Acquiring(l)
  BY <1>1, <1>3
<1>9. \A c \in Conds :
           (\/ \E i \in 1..Len(fs) : fs[i] \in {Frame("cond_signal", c), Frame("cond_broadcast", c)}
            \/ \E i \in 2..Len(s) : s[i] \in {Frame("cond_signal", c), Frame("cond_broadcast", c)})
           => /\ CondLock[c] \in held
              /\ \A j \in 1..Len(fs) : fs[j].op \in CondOps
              /\ \A j \in 2..Len(s) : s[j].op \in CondOps
  BY <1>1, <1>5, <1>6
<1>10. Fits(fs, s, held)
  BY <1>4, <1>7, <1>8, <1>9, Zenon DEF Fits
<1> QED BY <1>1, <1>10, ReplaceWellFormed, Zenon DEF fs

-----------------------------------------------------------------------------
(* Steps *)

\* No page becomes free, and only the running thread changes its stack.
LEMMA FreePagesKept ==
  ASSUME LockInv, status'[cur'] # "free",
         \A t \in All : status'[t] = "free" => status[t] = "free",
         \A t \in Threads \ {cur} : stack'[t] = stack[t] /\ lock_list'[t] = lock_list[t]
  PROVE  FreePages'
BY DEF LockInv, FreePages, All

\* Nothing happens to a lock.
LEMMA MutualExclusionKept ==
  ASSUME LockInv, holder' = holder, lock_list' = lock_list,
         \A l \in Locks : value'[l] = value[l]
  PROVE  MutualExclusion'
BY DEF LockInv, MutualExclusion

\* The stack and the locks of the running thread change.
LEMMA StackInvStep ==
  ASSUME LockInv, cur \in Threads, NEW n, stack' = [stack EXCEPT ![cur] = n],
         \A t \in Threads \ {cur} : lock_list'[t] = lock_list[t],
         WellFormed(n, lock_list'[cur])
  PROVE  /\ StackInv'
         /\ \A t \in Threads \ {cur} : stack'[t] = stack[t]
<1>1. stack \in [All -> Seq(Frames)] /\ Threads \subseteq All
  BY DEF LockInv, TypeInv, TypeOK, All
<1>2. stack'[cur] = n /\ \A t \in Threads \ {cur} : stack'[t] = stack[t]
  BY <1>1
<1>3. \A t \in Threads : WellFormed(stack'[t], lock_list'[t])
  BY <1>2 DEF LockInv, StackInv
<1> QED BY <1>2, <1>3 DEF StackInv

\* The stack of the running thread, on which its innermost call is on top.
LEMMA CurrentStack ==
  ASSUME LockInv, cur \in Threads, stack[cur] # <<>>
  PROVE  /\ stack[cur] \in Seq(Frames)
         /\ WellFormed(stack[cur], lock_list[cur])
         /\ Top(cur) = stack[cur][1]
         /\ 1 \in 1..Len(stack[cur])
<1>1. stack[cur] \in Seq(Frames)
  BY DEF LockInv, TypeInv, TypeOK, All
<1>2. Len(stack[cur]) \in Nat /\ Len(stack[cur]) > 0
  BY <1>1, EmptySeq, LenProperties
<1> QED BY <1>1, <1>2 DEF LockInv, StackInv, Top

\* A frame is replaced by one that acquires and releases nothing.
LEMMA PlainStep ==
  ASSUME LockInv, TypeInv', cur \in Threads, stack[cur] # <<>>,
         NEW f \in Frames, stack' = Replace(<<f>>),
         Top(cur).op \notin {"lock_acquire", "lock_down"},
         f.op \notin {"lock_release", "thread_exit", "cond_wait", "cond_signal", "cond_broadcast"},
         Top(cur).op \in CondOps => f.op \in CondOps,
         holder' = holder, lock_list' = lock_list, \A l \in Locks : value'[l] = value[l],
         status'[cur'] # "free", \A t \in All : status'[t] = "free" => status[t] = "free"
  PROVE  LockInv'
<1>1. WellFormed(<<f>> \o Tail(stack[cur]), lock_list[cur])
  BY CurrentStack, StepWellFormed DEF Top
<1>2. stack' = [stack EXCEPT ![cur] = <<f>> \o Tail(stack[cur])]
  BY DEF Replace
<1>3. StackInv' /\ \A t \in Threads \ {cur} : stack'[t] = stack[t]
  BY <1>1, <1>2, StackInvStep, Zenon
<1>4. FreePages'
  BY <1>3, FreePagesKept
<1>5. MutualExclusion'
  BY MutualExclusionKept
<1> QED BY <1>3, <1>4, <1>5 DEF LockInv

\* A call returns that acquires and releases nothing.
LEMMA PlainReturn ==
  ASSUME LockInv, TypeInv', cur \in Threads, stack[cur] # <<>>, stack' = Return,
         Top(cur).op \notin {"lock_acquire", "lock_down", "lock_release"},
         holder' = holder, lock_list' = lock_list, \A l \in Locks : value'[l] = value[l],
         status'[cur'] # "free", \A t \in All : status'[t] = "free" => status[t] = "free"
  PROVE  LockInv'
<1>1. \A l \in Locks : Top(cur) \notin Acquiring(l)
  BY DEF Acquiring, Frame
<1>2. WellFormed(Tail(stack[cur]), lock_list[cur])
  BY <1>1, CurrentStack, ReturnWellFormed DEF Top
<1>3. stack' = [stack EXCEPT ![cur] = Tail(stack[cur])]
  <2>1. <<>> \o Tail(stack[cur]) = Tail(stack[cur])
    BY CurrentStack, HeadTailProperties, ConcatEmptySeq
  <2> QED BY <2>1 DEF Return, Replace
<1>4. StackInv' /\ \A t \in Threads \ {cur} : stack'[t] = stack[t]
  BY <1>2, <1>3, StackInvStep, Zenon
<1>5. FreePages'
  BY <1>4, FreePagesKept
<1>6. MutualExclusion'
  BY MutualExclusionKept
<1> QED BY <1>4, <1>5, <1>6 DEF LockInv

\* No thread but the idle thread moves on in its code.
LEMMA NoMove ==
  ASSUME LockInv, TypeInv', \A t \in Threads : stack'[t] = stack[t],
         holder' = holder, lock_list' = lock_list, \A l \in Locks : value'[l] = value[l],
         status'[cur'] # "free", \A t \in All : status'[t] = "free" => status[t] = "free"
  PROVE  LockInv'
<1>1. StackInv'
  BY DEF LockInv, StackInv
<1>2. FreePages'
  BY FreePagesKept
<1>3. MutualExclusion'
  BY MutualExclusionKept
<1> QED BY <1>1, <1>2, <1>3 DEF LockInv

\* The processor stays with the running thread.
LEMMA NoSwitch ==
  ASSUME LockInv, UNCHANGED schedVars
  PROVE  status'[cur'] # "free" /\ \A t \in All : status'[t] = "free" => status[t] = "free"
BY DEF LockInv, FreePages, schedVars

\* A step on another semaphore leaves those of the locks alone.
LEMMA NotALock ==
  ASSUME NEW s \in Semas \cup Threads
  PROVE  s \notin Locks
BY ThreadsAssumption DEF All

\* A thread that is in client code may do anything with the locks it holds.
LEMMA EmptyWellFormed == \A held : WellFormed(<<>>, held)
<1> DEFINE e == <<>>
<1>1. \A i \in 1..Len(e) : FALSE
  OBVIOUS
<1> HIDE DEF e
<1>2. \A held : WellFormed(e, held)
  BY <1>1, Zenon DEF WellFormed
<1> QED BY <1>2 DEF e

\* The operation of a frame.
LEMMA FrameOp ==
  \A op, x : Frame(op, x).op = op /\ Frame(op, x).arg = x
BY DEF Frame

\* FlushPriority keeps the invariant.
LEMMA LockFlushPriority ==
  ASSUME LockInv, TypeInv', FlushPriority
  PROVE  LockInv'
<1>1. PICK t \in Threads : FlushPriority!(t)
  BY Zenon DEF FlushPriority
<1>2. cur \in Threads /\ stack[cur] # <<>> /\ Top(cur) = Frame("flush_priority", t)
  BY <1>1, DoingProperties DEF LockInv
<1>3. /\ holder' = holder /\ lock_list' = lock_list
      /\ \A l \in Locks : value'[l] = value[l]
      /\ UNCHANGED schedVars
  BY <1>1 DEF semaVars
<1>4. Top(cur).op = "flush_priority"
  BY <1>2, FrameOp
<1> DEFINE h == holder[waiting_lock[t]]
<1>5. CASE stack' = Return
  BY <1>2, <1>3, <1>4, <1>5, NoSwitch, PlainReturn
<1>6. CASE /\ waiting_lock[t] # NULL /\ h # NULL
           /\ stack' = Replace(<<Frame("flush_priority", h)>>)
  <2>1. waiting_lock[t] \in Locks \cup {NULL} /\ holder \in [Locks -> Threads \cup {NULL}]
    BY Zenon DEF LockInv, TypeInv, TypeOK, All
  <2>2. h \in Threads
    BY <1>6, <2>1
  <2>3. Frame("flush_priority", h) \in Frames /\ Frame("flush_priority", h).op = "flush_priority"
    BY <2>2, FrameTypes, FrameOp
  <2> HIDE DEF h
  <2> QED BY <1>2, <1>3, <1>4, <1>6, <2>3, NoSwitch, PlainStep DEF CondOps
<1> QED BY <1>1, <1>5, <1>6

\* SemaDown keeps the invariant.
LEMMA LockSemaDown ==
  ASSUME LockInv, TypeInv', SemaDown
  PROVE  LockInv'
<1>1. PICK s \in SemaIds : SemaDown!(s)
  BY Zenon DEF SemaDown
<1>2. /\ cur \in Threads /\ stack[cur] # <<>>
      /\ Top(cur) \in {Frame("sema_down", s), Frame("sema_sleep", s)}
      /\ Top(cur) \in Frames
  BY <1>1, DoingProperties DEF LockInv
<1>3. s \in Semas \cup Threads /\ Top(cur).op \in {"sema_down", "sema_sleep"}
  BY <1>2 DEF Frames, Frame
<1>4. holder' = holder /\ lock_list' = lock_list /\ \A l \in Locks : value'[l] = value[l]
  BY <1>1, <1>3, NotALock, Zenon DEF lockVars, LockInv, TypeInv, TypeOK, SemaIds
<1>5. CASE value[s] = 0
  <2>1. stack' = Replace(<<Frame("sema_sleep", s)>>) /\ Block
    BY <1>1, <1>5
  <2>2. Frame("sema_sleep", s) \in Frames /\ Frame("sema_sleep", s).op = "sema_sleep"
    BY <1>3, FrameTypes, FrameOp
  <2>3. status'[cur'] # "free" /\ \A t \in All : status'[t] = "free" => status[t] = "free"
    BY <2>1, BlockProperties DEF LockInv, TypeInv
  <2> QED BY <1>2, <1>3, <1>4, <2>1, <2>2, <2>3, PlainStep DEF CondOps
<1>6. CASE value[s] # 0
  <2>1. stack' = Return /\ UNCHANGED schedVars
    BY <1>1, <1>6
  <2> QED BY <1>2, <1>3, <1>4, <2>1, NoSwitch, PlainReturn
<1> QED BY <1>5, <1>6

\* SemaTryDown keeps the invariant.
LEMMA LockSemaTryDown ==
  ASSUME LockInv, TypeInv', SemaTryDown
  PROVE  LockInv'
<1>1. PICK s \in Semas : SemaTryDown!(s)
  BY Zenon DEF SemaTryDown
<1>2. cur \in Threads /\ stack[cur] # <<>> /\ Top(cur).op = "sema_try_down"
  BY <1>1, DoingProperties, FrameOp DEF LockInv
<1>3. holder' = holder /\ lock_list' = lock_list /\ UNCHANGED schedVars /\ stack' = Return
  BY <1>1 DEF lockVars
<1>4. \A l \in Locks : value'[l] = value[l]
  BY <1>1, NotALock DEF LockInv, TypeInv, TypeOK, SemaIds
<1> QED BY <1>2, <1>3, <1>4, NoSwitch, PlainReturn

\* SemaUp keeps the invariant.
LEMMA LockSemaUp ==
  ASSUME LockInv, TypeInv', SemaUp
  PROVE  LockInv'
<1>1. PICK s \in SemaIds : SemaUp!(s)
  BY Zenon DEF SemaUp
<1>2. /\ cur \in Threads /\ stack[cur] # <<>> /\ Top(cur) = Frame("sema_up", s)
      /\ Top(cur) \in Frames
  BY <1>1, DoingProperties DEF LockInv
<1>3. s \in Semas \cup Threads /\ Top(cur).op = "sema_up"
  BY <1>2 DEF Frames, Frame
<1>4. holder' = holder /\ lock_list' = lock_list /\ \A l \in Locks : value'[l] = value[l]
  BY <1>1, <1>3, NotALock DEF Up, lockVars, LockInv, TypeInv, TypeOK, SemaIds
<1>5. \A t \in All : status'[t] = "free" => status[t] = "free"
  BY <1>1, WokenProperties DEF LockInv, TypeInv
<1>6. status'[cur'] # "free"
  BY <1>1, <1>5 DEF LockInv, FreePages, TypeInv, TypeOK
<1>7. Frame("thread_yield", NULL) \in Frames /\ Frame("thread_yield", NULL).op = "thread_yield"
  BY FrameTypes, FrameOp
<1> QED BY <1>1, <1>2, <1>3, <1>4, <1>5, <1>6, <1>7, PlainStep DEF CondOps

\* ReleaseTail keeps the invariant.
LEMMA LockReleaseTail ==
  ASSUME LockInv, TypeInv', ReleaseTail
  PROVE  LockInv'
<1>1. PICK l \in Locks : ReleaseTail!(l)
  BY Zenon DEF ReleaseTail
<1>2. cur \in Threads /\ stack[cur] # <<>> /\ Top(cur).op = "release_tail"
  BY <1>1, DoingProperties, FrameOp DEF LockInv
<1>3. Frame("thread_yield", NULL) \in Frames /\ Frame("thread_yield", NULL).op = "thread_yield"
  BY FrameTypes, FrameOp
<1>4. /\ holder' = holder /\ lock_list' = lock_list /\ UNCHANGED schedVars
      /\ \A k \in Locks : value'[k] = value[k]
      /\ stack' = Replace(<<Frame("thread_yield", NULL)>>)
  BY <1>1 DEF semaVars
<1> QED BY <1>2, <1>3, <1>4, NoSwitch, PlainStep DEF CondOps

\* ThreadYield keeps the invariant.
LEMMA LockThreadYield ==
  ASSUME LockInv, TypeInv', ThreadYield
  PROVE  LockInv'
<1>1. cur \in Threads /\ stack[cur] # <<>> /\ Top(cur).op = "thread_yield"
  BY DoingProperties, FrameOp DEF ThreadYield, LockInv
<1>2. ready \in Seq(Threads) /\ status \in [All -> Statuses] /\ cur \in All
      /\ priority \in [All -> Priorities]
  BY DEF LockInv, TypeInv, TypeOK, Statuses
<1>3. status'[cur'] # "free" /\ \A t \in All : status'[t] = "free" => status[t] = "free"
  BY <1>2, YieldProperties DEF ThreadYield
<1>4. /\ holder' = holder /\ lock_list' = lock_list /\ stack' = Return
      /\ \A l \in Locks : value'[l] = value[l]
  BY DEF ThreadYield, lockVars, semaVars
<1> QED BY <1>1, <1>3, <1>4, PlainReturn

\* ThreadSetPriority keeps the invariant.
LEMMA LockThreadSetPriority ==
  ASSUME LockInv, TypeInv', ThreadSetPriority
  PROVE  LockInv'
<1>1. PICK p \in Priorities : ThreadSetPriority!(p)
  BY Zenon DEF ThreadSetPriority
<1>2. cur \in Threads /\ stack[cur] # <<>> /\ Top(cur).op = "thread_set_priority"
  BY <1>1, DoingProperties, FrameOp DEF LockInv
<1>3. Frame("thread_yield", NULL) \in Frames /\ Frame("thread_yield", NULL).op = "thread_yield"
  BY FrameTypes, FrameOp
<1>4. /\ holder' = holder /\ lock_list' = lock_list /\ UNCHANGED schedVars
      /\ \A l \in Locks : value'[l] = value[l]
      /\ stack' = Replace(<<Frame("thread_yield", NULL)>>)
  BY <1>1 DEF semaVars, lockVars
<1> QED BY <1>2, <1>3, <1>4, NoSwitch, PlainStep DEF CondOps

\* ThreadStart keeps the invariant.
LEMMA LockThreadStart ==
  ASSUME LockInv, TypeInv', ThreadStart
  PROVE  LockInv'
<1>1. PICK c \in Threads : ThreadStart!(c)
  BY Zenon DEF ThreadStart
<1>2. cur \in Threads /\ stack[cur] # <<>> /\ Top(cur).op = "thread_start"
  BY <1>1, DoingProperties, FrameOp DEF LockInv
<1>3. Frame("thread_yield", NULL) \in Frames /\ Frame("thread_yield", NULL).op = "thread_yield"
  BY FrameTypes, FrameOp
<1>4. /\ holder' = holder /\ lock_list' = lock_list
      /\ \A l \in Locks : value'[l] = value[l]
      /\ stack' = Replace(<<Frame("thread_yield", NULL)>>)
  BY <1>1 DEF semaVars, lockVars
<1>5. status'[cur'] # "free" /\ \A t \in All : status'[t] = "free" => status[t] = "free"
  BY <1>1 DEF LockInv, FreePages, TypeInv, TypeOK
<1> QED BY <1>2, <1>3, <1>4, <1>5, PlainStep DEF CondOps

\* ThreadSleep keeps the invariant.
LEMMA LockThreadSleep ==
  ASSUME LockInv, TypeInv', ThreadSleep
  PROVE  LockInv'
<1>1. stack[cur] # <<>> /\ Top(cur).op = "thread_sleep"
  BY DEF ThreadSleep
<1>2. cur \in Threads
  BY <1>1, NotIdle DEF LockInv
<1>3. status'[cur'] # "free" /\ \A t \in All : status'[t] = "free" => status[t] = "free"
  BY BlockProperties DEF ThreadSleep, LockInv, TypeInv
<1>4. /\ holder' = holder /\ lock_list' = lock_list /\ stack' = Return
      /\ \A l \in Locks : value'[l] = value[l]
  BY DEF ThreadSleep, lockVars, semaVars
<1> QED BY <1>1, <1>2, <1>3, <1>4, PlainReturn

\* The idle thread goes round its loop.
LEMMA IdleMoves ==
  ASSUME LockInv, cur = idle, NEW fs, stack' = Replace(fs)
  PROVE  \A t \in Threads : stack'[t] = stack[t]
BY ThreadsAssumption DEF Replace, LockInv, TypeInv, TypeOK, All

\* IdleLoop keeps the invariant.
LEMMA LockIdleLoop ==
  ASSUME LockInv, TypeInv', IdleLoop
  PROVE  LockInv'
<1>1. stack[cur] # <<>> /\ Top(cur).op = "idle"
  BY FrameOp DEF IdleLoop, Doing
<1>2. status'[cur'] # "free" /\ \A t \in All : status'[t] = "free" => status[t] = "free"
  BY BlockProperties DEF IdleLoop, LockInv, TypeInv
<1>3. /\ holder' = holder /\ lock_list' = lock_list /\ stack' = Replace(<<Frame("hlt", NULL)>>)
      /\ \A l \in Locks : value'[l] = value[l]
  BY DEF IdleLoop, lockVars, semaVars
<1>4. CASE cur = idle
  BY <1>2, <1>3, <1>4, IdleMoves, NoMove
<1>5. CASE cur \in Threads
  <2>1. Frame("hlt", NULL) \in Frames /\ Frame("hlt", NULL).op = "hlt"
    BY FrameTypes, FrameOp
  <2> QED BY <1>1, <1>2, <1>3, <1>5, <2>1, PlainStep DEF CondOps
<1> QED BY <1>4, <1>5, Zenon DEF LockInv, TypeInv, TypeOK, All

\* An interrupt leaves the threads other than the idle thread where they are.
LEMMA InterruptedStacks ==
  ASSUME LockInv, stack' = Interrupted
  PROVE  \A t \in Threads : stack'[t] = stack[t]
BY IdleMoves DEF Interrupted

\* TimerInterrupt keeps the invariant.
LEMMA LockTimerInterrupt ==
  ASSUME LockInv, TypeInv', TimerInterrupt
  PROVE  LockInv'
<1> DEFINE up == SubSeq(sleep_list, 1, Due(ticks'))
           st == [t \in All |-> IF t \in Range(up) THEN "ready" ELSE status[t]]
<1>1. /\ holder' = holder /\ lock_list' = lock_list
      /\ \A l \in Locks : value'[l] = value[l]
      /\ \A t \in Threads : stack'[t] = stack[t]
  BY InterruptedStacks DEF TimerInterrupt, lockVars, semaVars
<1>2. IF SliceOver THEN Yield(ready \o up, st, priority)
      ELSE status' = st /\ UNCHANGED cur
  BY Zenon DEF TimerInterrupt
<1>3. st \in [All -> Statuses] /\ \A t \in All : st[t] = "free" => status[t] = "free"
  BY DEF LockInv, TypeInv, TypeOK, Statuses
<1>4. ready \o up \in Seq(Threads) /\ priority \in [All -> Priorities] /\ cur \in All
  <2>1. sleep_list \in Seq(Threads) /\ ready \in Seq(Threads)
    BY DEF LockInv, TypeInv, TypeOK
  <2>2. ticks' \in Int
    BY DEF TypeInv, TypeOK
  <2>3. Due(ticks') \in 0..Len(sleep_list)
    BY <2>2, DueProperties DEF LockInv, TypeInv
  <2>4. Len(sleep_list) \in Nat /\ \A i \in 1..Len(sleep_list) : sleep_list[i] \in Threads
    BY <2>1, LenProperties, ElementOfSeq
  <2>5. up \in Seq(Threads)
    BY <2>3, <2>4, SubSeqProperties
  <2> HIDE DEF up
  <2> QED BY <2>1, <2>5, ConcatProperties DEF LockInv, TypeInv, TypeOK
<1> HIDE DEF up, st
<1>5. status'[cur'] # "free" /\ \A t \in All : status'[t] = "free" => status[t] = "free"
  <2>1. CASE SliceOver
    BY <1>2, <1>3, <1>4, <2>1, YieldProperties, Zenon
  <2>2. CASE ~SliceOver
    BY <1>2, <1>3, <1>4, <2>2 DEF LockInv, FreePages
  <2> QED BY <2>1, <2>2
<1> QED BY <1>1, <1>5, NoMove

\* DeviceInterrupt keeps the invariant.
LEMMA LockDeviceInterrupt ==
  ASSUME LockInv, TypeInv', DeviceInterrupt
  PROVE  LockInv'
<1>1. PICK s \in Semas : DeviceInterrupt!(s)
  BY Zenon DEF DeviceInterrupt
<1>2. /\ holder' = holder /\ lock_list' = lock_list
      /\ \A t \in Threads : stack'[t] = stack[t]
  BY <1>1, InterruptedStacks DEF lockVars
<1>3. \A l \in Locks : value'[l] = value[l]
  <2>1. value' = [value EXCEPT ![s] = @ + 1]
    BY <1>1 DEF Up
  <2>2. s \notin Locks
    BY NotALock
  <2>3. \A l \in Locks : l \in DOMAIN value
    BY DEF LockInv, TypeInv, TypeOK, SemaIds
  <2> QED BY <2>1, <2>2, <2>3
<1>4. \A t \in All : status'[t] = "free" => status[t] = "free"
  BY <1>1, WokenProperties DEF LockInv, TypeInv, SemaIds
<1>5. status'[cur'] # "free"
  BY <1>1, <1>4 DEF LockInv, FreePages, TypeInv, TypeOK
<1> QED BY <1>2, <1>3, <1>4, <1>5, NoMove

\* LockAcquire keeps the invariant.
LEMMA LockLockAcquire ==
  ASSUME LockInv, TypeInv', LockAcquire
  PROVE  LockInv'
<1>1. PICK l \in Locks : LockAcquire!(l)
  BY Zenon DEF LockAcquire
<1>2. cur \in Threads /\ stack[cur] # <<>> /\ Top(cur) = Frame("lock_acquire", l)
  BY <1>1, DoingProperties DEF LockInv
<1> DEFINE s == stack[cur]
           held == lock_list[cur]
           fs == <<Frame("flush_priority", cur), Frame("lock_down", l)>>
<1>3. /\ holder' = holder /\ lock_list' = lock_list /\ UNCHANGED schedVars
      /\ \A k \in Locks : value'[k] = value[k]
      /\ stack' = Replace(fs)
  BY <1>1 DEF semaVars
<1>4. /\ s \in Seq(Frames) /\ WellFormed(s, held) /\ s[1] = Frame("lock_acquire", l)
      /\ Len(s) \in Nat /\ 1 \in 1..Len(s)
  BY <1>2, CurrentStack, LenProperties
<1>5. /\ fs \in Seq(Frames) /\ Len(fs) = 2
      /\ fs[1] = Frame("flush_priority", cur) /\ fs[2] = Frame("lock_down", l)
      /\ \A i \in 1..Len(fs) : i = 1 \/ i = 2
  BY <1>2, FrameTypes
<1> HIDE DEF fs, s, held
<1>6. \A i \in 1..Len(fs) : fs[i].op \in {"flush_priority", "lock_down"}
  <2>1. fs[1].op = "flush_priority" /\ fs[2].op = "lock_down"
    BY <1>5, FrameOp
  <2> QED BY <1>5, <2>1
<1>7. \A i \in 1..Len(fs) : \A k \in Locks : fs[i] # Frame("lock_release", k)
  BY <1>6, FrameOp
<1>8. \A k \in Locks : Len(s) > 1 /\ s[2] = Frame("lock_release", k) => fs[Len(fs)] \in Acquiring(k)
  <2>1. SUFFICES ASSUME NEW k \in Locks, Len(s) > 1, s[2] = Frame("lock_release", k)
        PROVE  fs[Len(fs)] \in Acquiring(k)
    OBVIOUS
  <2>2. 2 \in 1..Len(s) /\ 2 # 1 /\ 2 - 1 = 1
    BY <1>4, <2>1
  <2>3. s[1] \in Acquiring(k)
    BY <1>4, <2>1, <2>2 DEF WellFormed
  <2>4. k = l
    BY <1>4, <2>3, FrameOp DEF Acquiring
  <2> QED BY <1>5, <2>4 DEF Acquiring
<1>9. \A c \in Conds :
        /\ \A i \in 1..Len(fs) : fs[i] \notin {Frame("cond_signal", c), Frame("cond_broadcast", c)}
        /\ \A i \in 2..Len(s) : s[i] \notin {Frame("cond_signal", c), Frame("cond_broadcast", c)}
  <2>1. ASSUME NEW c \in Conds, NEW i \in 1..Len(fs),
               fs[i] \in {Frame("cond_signal", c), Frame("cond_broadcast", c)}
        PROVE  FALSE
    BY <1>6, <2>1, FrameOp
  <2>2. ASSUME NEW c \in Conds, NEW i \in 2..Len(s),
               s[i] \in {Frame("cond_signal", c), Frame("cond_broadcast", c)}
        PROVE  FALSE
    <3>1. i \in 1..Len(s)
      BY <1>4, <2>2
    <3>2. s[1].op \in CondOps
      BY <1>4, <2>2, <3>1 DEF WellFormed
    <3> QED BY <1>4, <3>2, FrameOp DEF CondOps
  <2> QED BY <2>1, <2>2
<1>10. WellFormed(fs \o Tail(s), held)
  <2>1. s # <<>>
    BY <1>2 DEF s
  <2>2. \A i \in 1..Len(fs) : fs[i].op \notin {"thread_exit", "cond_wait"}
    BY <1>6
  <2>3. Len(fs) # 0
    BY <1>5
  <2>4. Fits(fs, s, held)
    BY <1>7, <1>8, <1>9, <2>2, <2>3, Zenon DEF Fits
  <2> QED BY <1>4, <1>5, <2>1, <2>4, ReplaceWellFormed
<1>11. stack' = [stack EXCEPT ![cur] = fs \o Tail(s)]
  BY <1>3 DEF Replace, s
<1>12. StackInv' /\ \A t \in Threads \ {cur} : stack'[t] = stack[t]
  BY <1>2, <1>3, <1>10, <1>11, StackInvStep, Zenon DEF held
<1>13. FreePages'
  BY <1>3, <1>12, NoSwitch, FreePagesKept
<1>14. MutualExclusion'
  BY <1>3, MutualExclusionKept
<1> QED BY <1>12, <1>13, <1>14 DEF LockInv

\* The lock goes to the running thread.
LEMMA HoldStep ==
  ASSUME LockInv, cur \in Threads, NEW l \in Locks, value[l] # 0,
         value' = [value EXCEPT ![l] = @ - 1], Hold(l)
  PROVE  /\ MutualExclusion'
         /\ lock_list'[cur] = lock_list[cur] \cup {l}
         /\ \A t \in Threads \ {cur} : lock_list'[t] = lock_list[t]
<1>1. /\ value \in [SemaIds -> Nat] /\ holder \in [Locks -> Threads \cup {NULL}]
      /\ lock_list \in [All -> SUBSET Locks] /\ Locks \subseteq SemaIds /\ cur \in All
  BY DEF LockInv, TypeInv, TypeOK, SemaIds, All
<1>2. NULL \notin All
  BY ThreadsAssumption
<1>3. holder[l] = NULL /\ value[l] = 1
  BY DEF LockInv, MutualExclusion
<1>4. /\ holder' = [holder EXCEPT ![l] = cur]
      /\ lock_list' = [lock_list EXCEPT ![cur] = @ \cup {l}]
  BY DEF Hold
<1>5. \A k \in Locks : holder'[k] = (IF k = l THEN cur ELSE holder[k])
                       /\ value'[k] = (IF k = l THEN 0 ELSE value[k])
  BY <1>1, <1>3, <1>4
<1>6. \A t \in All : lock_list'[t] = (IF t = cur THEN lock_list[t] \cup {l} ELSE lock_list[t])
  BY <1>1, <1>4, Zenon
<1>7. ASSUME NEW k \in Locks
      PROVE  /\ value'[k] = IF holder'[k] = NULL THEN 1 ELSE 0
             /\ \A t \in All : k \in lock_list'[t] <=> holder'[k] = t
  <2>1. /\ value[k] = IF holder[k] = NULL THEN 1 ELSE 0
        /\ \A t \in All : k \in lock_list[t] <=> holder[k] = t
    BY DEF LockInv, MutualExclusion
  <2>2. CASE k = l
    <3>1. holder'[k] = cur /\ value'[k] = 0 /\ cur # NULL
      BY <1>1, <1>2, <1>5, <2>2
    <3>2. \A t \in All : k \notin lock_list[t]
      BY <1>2, <1>3, <2>1, <2>2
    <3>3. \A t \in All : k \in lock_list'[t] <=> cur = t
      BY <1>6, <2>2, <3>2
    <3> QED BY <3>1, <3>3
  <2>3. CASE k # l
    <3>1. holder'[k] = holder[k] /\ value'[k] = value[k]
      BY <1>5, <2>3
    <3>2. \A t \in All : k \in lock_list'[t] <=> k \in lock_list[t]
      BY <1>6, <2>3
    <3> QED BY <2>1, <3>1, <3>2
  <2> QED BY <2>2, <2>3
<1> QED BY <1>1, <1>6, <1>7, Zenon DEF MutualExclusion, All

\* LockDown keeps the invariant.
LEMMA LockLockDown ==
  ASSUME LockInv, TypeInv', LockDown
  PROVE  LockInv'
<1>1. PICK l \in Locks : LockDown!(l)
  BY Zenon DEF LockDown
<1>2. cur \in Threads /\ stack[cur] # <<>> /\ Top(cur) = Frame("lock_down", l)
  BY <1>1, DoingProperties DEF LockInv
<1>3. CASE value[l] = 0
  <2>1. Block /\ UNCHANGED <<stack, value, lockVars>>
    BY <1>1, <1>3
  <2>2. status'[cur'] # "free" /\ \A t \in All : status'[t] = "free" => status[t] = "free"
    BY <2>1, BlockProperties DEF LockInv, TypeInv
  <2> QED BY <2>1, <2>2, NoMove DEF lockVars
<1>4. CASE value[l] # 0
  <2>1. /\ value' = [value EXCEPT ![l] = @ - 1] /\ Hold(l)
        /\ stack' = Return /\ UNCHANGED schedVars
    BY <1>1, <1>4
  <2>2. /\ MutualExclusion'
        /\ lock_list'[cur] = lock_list[cur] \cup {l}
        /\ \A t \in Threads \ {cur} : lock_list'[t] = lock_list[t]
    BY <1>2, <1>4, <2>1, HoldStep, Zenon
  <2>3. Top(cur).op # "lock_release" /\ \A k \in Locks : Top(cur) \in Acquiring(k) => k = l
    BY <1>2, FrameOp DEF Acquiring
  <2>4. stack[cur] \in Seq(Frames) /\ WellFormed(stack[cur], lock_list[cur])
    BY <1>2, CurrentStack
  <2>5. WellFormed(Tail(stack[cur]), lock_list'[cur])
    BY <1>2, <2>2, <2>3, <2>4, ReturnWellFormed DEF Top
  <2>6. stack' = [stack EXCEPT ![cur] = Tail(stack[cur])]
    <3>1. <<>> \o Tail(stack[cur]) = Tail(stack[cur])
      BY <1>2, <2>4, HeadTailProperties, ConcatEmptySeq
    <3> QED BY <2>1, <3>1 DEF Return, Replace
  <2>7. StackInv' /\ \A t \in Threads \ {cur} : stack'[t] = stack[t]
    BY <1>2, <2>2, <2>5, <2>6, StackInvStep, Zenon
  <2>8. FreePages'
    BY <2>1, <2>2, <2>7, NoSwitch, FreePagesKept
  <2> QED BY <2>2, <2>7, <2>8 DEF LockInv
<1> QED BY <1>3, <1>4

\* LockTryAcquire keeps the invariant.
LEMMA LockLockTryAcquire ==
  ASSUME LockInv, TypeInv', LockTryAcquire
  PROVE  LockInv'
<1>1. PICK l \in Locks : LockTryAcquire!(l)
  BY Zenon DEF LockTryAcquire
<1>2. cur \in Threads /\ stack[cur] # <<>> /\ Top(cur).op = "lock_try_acquire"
  <2>1. Doing("lock_try_acquire", l)
    BY <1>1
  <2>2. cur \in Threads /\ stack[cur] # <<>> /\ Top(cur) = Frame("lock_try_acquire", l)
    BY <2>1, DoingProperties DEF LockInv
  <2> QED BY <2>2, FrameOp
<1>3. stack' = Return /\ UNCHANGED schedVars
  BY <1>1
<1>4. CASE ~CanDown(l)
  <2>1. holder' = holder /\ lock_list' = lock_list /\ \A k \in Locks : value'[k] = value[k]
    BY <1>1, <1>4
  <2> QED BY <1>2, <1>3, <2>1, NoSwitch, PlainReturn
<1>5. CASE CanDown(l)
  <2>1. value' = [value EXCEPT ![l] = @ - 1] /\ Hold(l) /\ value[l] # 0
    BY <1>1, <1>5 DEF CanDown
  <2>2. /\ MutualExclusion'
        /\ lock_list'[cur] = lock_list[cur] \cup {l}
        /\ \A t \in Threads \ {cur} : lock_list'[t] = lock_list[t]
    BY <1>2, <2>1, HoldStep, Zenon
  <2>3. \A k \in Locks : Top(cur) \notin Acquiring(k)
    BY <1>2, FrameOp DEF Acquiring
  <2>4. stack[cur] \in Seq(Frames) /\ WellFormed(stack[cur], lock_list[cur])
    BY <1>2, CurrentStack
  <2>5. WellFormed(Tail(stack[cur]), lock_list'[cur])
    BY <1>2, <2>2, <2>3, <2>4, ReturnWellFormed DEF Top
  <2>6. stack' = [stack EXCEPT ![cur] = Tail(stack[cur])]
    <3>1. <<>> \o Tail(stack[cur]) = Tail(stack[cur])
      BY <1>2, <2>4, HeadTailProperties, ConcatEmptySeq
    <3> QED BY <1>3, <3>1 DEF Return, Replace
  <2>7. StackInv' /\ \A t \in Threads \ {cur} : stack'[t] = stack[t]
    BY <1>2, <2>2, <2>5, <2>6, StackInvStep, Zenon
  <2>8. FreePages'
    BY <1>3, <2>2, <2>7, NoSwitch, FreePagesKept
  <2> QED BY <2>2, <2>7, <2>8 DEF LockInv
<1> QED BY <1>4, <1>5

\* Below a call that acquires nothing there is no release, and below one that
\* is not part of a signal there is no signal.
LEMMA BelowTop ==
  ASSUME NEW s \in Seq(Frames), s # <<>>, NEW held, WellFormed(s, held),
         s[1].op \notin CondOps \cup {"lock_acquire", "lock_down"}
  PROVE  /\ \A l \in Locks : ~(Len(s) > 1 /\ s[2] = Frame("lock_release", l))
         /\ \A c \in Conds : \A i \in 2..Len(s) :
              s[i] \notin {Frame("cond_signal", c), Frame("cond_broadcast", c)}
<1>1. Len(s) \in Nat /\ Len(s) > 0
  BY EmptySeq, LenProperties
<1>2. ASSUME NEW l \in Locks, Len(s) > 1, s[2] = Frame("lock_release", l)
      PROVE  FALSE
  <2>1. 2 \in 1..Len(s) /\ 2 # 1 /\ 2 - 1 = 1
    BY <1>1, <1>2
  <2>2. s[1] \in Acquiring(l)
    BY <1>2, <2>1 DEF WellFormed
  <2> QED BY <2>2, FrameOp DEF Acquiring
<1>3. ASSUME NEW c \in Conds, NEW i \in 2..Len(s),
             s[i] \in {Frame("cond_signal", c), Frame("cond_broadcast", c)}
      PROVE  FALSE
  <2>1. i \in 1..Len(s) /\ 1 \in 1..Len(s)
    BY <1>1, <1>3
  <2>2. s[1].op \in CondOps
    BY <1>3, <2>1 DEF WellFormed
  <2> QED BY <2>2
<1> QED BY <1>2, <1>3
=============================================================================
