# Verification of the CS 162 Pintos kernel

The repository holds a Pintos teaching kernel (`group/pintos/src`) that was
completed by its authors, and homework programs (`personal/`). These TLA+
modules model the concurrent core of the kernel: threads, priorities and
synchronization; the buffer cache of the file system; processes and their
parents. TLC checks them on small instances; TLAPS proves the central
properties of the synchronization for every instance. Paths below are relative
to `src/group/pintos/src`.

## Inventory

| Part | State | Operations | What is hard |
|---|---|---|---|
| Scheduler (`threads/thread.c`) | ready list, running thread, status, base and effective priority, time slice | create, yield, block, unblock, exit, set priority, tick | preemption between any two steps; donation through chains; starvation |
| Synchronization (`threads/synch.c`) | semaphore values and waiters, lock holders, each thread's locks, `max_priority`, condition lists | down, try, up, acquire, release, wait, signal, broadcast | lost wakeups, a shared list element, donation and its recall |
| Alarm (`devices/timer.c`) | ticks, sleep list | sleep, timer interrupt | equal and past deadlines, wakeups in an interrupt |
| Buffer cache (`filesys/cache.c`) | slots, entries, hash table, reference bits, clock hand, a lock per slot | read, write, evict, flush | entries freed under a waiter, reads of slots being filled, loss of data |
| Processes (`userprog/process.c`, `syscall.c`) | pnodes shared by parent and child | exec, wait, exit, kill | the order of parent's and child's end, byte-wide arguments, failed loads |
| File calls (`userprog/syscall.c`) | descriptor lists, per-file locks | open, close, read, write, seek, chdir, mkdir, readdir | locks held at exit, shared inodes |
| Inodes, free map (`filesys/inode.c`, `free-map.c`) | open inodes, on-disk inodes, bitmap | create, open, close, remove, read, write, extend | growth not written back, leaks, no locking |
| Directories (`filesys/directory.c`, `filesys.c`) | entries | lookup, add, remove, read, path resolution | removal of directories in use |
| Allocators (`threads/malloc.c`, `palloc.c`) | bitmaps, arenas | allocate, free | arenas returned while in use |
| Devices (`devices/ide.c`, `intq.c`, ...) | channel locks, ring buffers | read, write, interrupt, getc, putc | an interrupt before the wait |
| Homework (`personal/hw2`, `hw4`, `hw5`, `hw8`) | work queue, heap, two-phase commit | | crashes of leader and followers in `hw8` |

How they interact: the synchronization calls the scheduler in every blocking
operation; the cache and the processes use locks and semaphores as the
synchronization provides them; the inode layer calls the cache for every access
to the disk. `PROJECT.json` lists all parts, the hazards at their lines and the
properties that cover them.

## Modules

**Threads** models `thread.c`, `synch.c`, the alarm and interrupts together,
because they call each other within interrupts-off sections. The kernel runs on
one processor. Each thread has a stack of calls in progress (`stack[t]`, frames
of operation and argument); a section that runs with interrupts off is one
action, and the thread can be preempted between actions. `cur` is the running
thread. Client code (`ClientCall`) makes any call whose preconditions, which are
the code's assertions, hold. `TimerInterrupt` and `DeviceInterrupt` come between
actions whenever interrupts are on. `MCThreads` has the instances: a behaviour
begins with the choice of a *workload*, which says what clients call, which locks
they acquire and which priorities they give to threads.

**BufferCache** cuts `buffer_cache_read()`, `buffer_cache_write()` and
`buffer_cache_flush()` into steps (`pc[t]` names the step): at each lock
operation, transfer, lookup and `memcpy()`, between the parts of an eviction, and
wherever a thread uses an entry that others may have freed. One operation of the
hash table or of `malloc()` is one step; the table itself is unprotected in the
code, and what a preemption inside `hash_insert()` would do to it is not
modelled. Transfers of the block device are atomic.

Entries are blocks of the heap. `free()` puts a block in front of the free list
of its size, `malloc()` takes the first one, so a block that a thread still points
to becomes the entry of another slot. Every lookup allocates a key that it never
frees, which also takes a block off that list. (Other users of blocks of that size
are left out; they would only take and return more of them.) A free block holds
list links where an entry has its `clock_idx`: using it as an index of a lock
faults, after which the thread never gets further (`"fault"`); `bitmap_set()`,
`lock_release()` and the block device assert instead, which stops the machine
(`"panic"`).

A sector consists of parts, so that partial writes can be told from whole ones;
`cache_partial` has two parts, the other cache runs one, as their question does
not depend on it. **SectorStore** is what the cache promises: every call takes
effect once between its beginning and its end, and nothing else changes a sector.
The refinement mapping takes the contents of a sector from its slot, or from the
disk if it is not cached or still being read in; a call takes effect in the step
before it releases the lock.

**Processes** models the pnode that parent and child share, `exec`, `wait` and
`exit` with the byte that `get_user_byte()` takes of each argument, `kill()`, and
a failing `load()`. The initial thread runs tasks one after another as
`run_task()` does; every other process may start children, wait for any pid and
exit or be killed at any time, before or after its children. pnodes are heap
blocks as well: `free()` clears a block and puts it in front of the free list, and
the next `exec` gets it at once, also when an orphan still points to it. The orphan
then writes its status and ups the semaphore in the pnode of another process; if
the block is still free, the `sema_up()` follows the cleared list of waiters and
the thread is lost (`"faulting"`). A page fault in user code is not an action:
`page_fault()` resumes the program at the address in `eax`, so it stays in user
mode. The copy of the arguments after a failed load faults in the kernel and is
resumed at no code: that thread is lost too. `orphaned` records that a process has
exited before one of its children; two properties hold until then.

## Runs

| Run | Shows |
|---|---|
| `threads` | three workloads (two nested locks; a semaphore with interrupt handlers; a condition variable): locks exclude, a thread without locks has its own priority, a list element is on one list, no wakeup and no signal is lost, condition lists change only under the lock |
| `alarm` | a tick wakes exactly the threads that are due; all sleepers wake; a more important ready thread gets its turn; the sleep list shares no element with another list |
| `inversion` | the holder of a lock that a thread of the greatest priority waits for lets go of it, if critical sections end, although a thread between the two never yields |
| `cache`, `cache_live` | with one client and a concurrent flush the cache implements the store, its indexes agree, a flush is complete, calls return |
| `process` | pnodes are on one list and freed once, waits return; while no parent exits before its child, a process has its own pnode and its status arrives |

Six runs exhibit a disagreement between the code and its comments or
documentation; the findings in `PROJECT.json` quote the lines:

* `recall`: a donated priority stays after the lock is released, if the thread
  holds another one (`adjust_priority()`);
* `donation`: a thread that raises its priority while it holds a lock stays where
  it was, and a waiter of the same priority then donates nothing;
* `cache_race`: with two clients, a write goes to a slot that the other client is
  still filling, and is lost (the second lookup finds the slot, but the lock held
  is another slot's);
* `cache_users`: with three clients, an entry found before `lock_acquire()` has
  become the entry of another slot behind it, and that slot is replaced without
  its lock;
* `cache_partial`: a write that misses loses the part of the sector that it does
  not cover;
* `process_own`: a parent that exits frees the pnode of a child that still runs.

So the positive results about the cache are about one client, and the results
about donation are what is left of it: `OwnPriority`, and `InversionResolved` for
threads that take one lock at a time and do not set their priority.
`InversionResolved` speaks of the holder, not of a particular waiter: another
thread of the greatest priority may take the lock first, again and again.

Other departures from the documentation (`personal/hw6/hw6-pintos-starter/doc`)
are plain from the code and have no run:

* threads woken in an interrupt do not preempt at once (`threads.texi:476-478`);
  `HigherRuns` is what holds;
* `cond_wait()` records the lock's `max_priority` as the waiter's;
* exit statuses and pids are cut to a byte, while `userprog.texi:608-612` has
  `wait` return the status that `exit` was given; `StatusDelivered` is about statuses
  of one byte, and about -1 for killed processes;
* a failed `load()` never ends, so `wait` for it does not return.

### Bounds

Three threads and two nested locks are the smallest chain of donations: a waiter,
a holder that waits, and its holder. In `inversion` the three are the holder, the
waiter and the thread between them; `alarm` has two threads, which share ticks and
deadlines. `MaxTicks` saturates the clock, `MaxValue` bounds semaphores,
`TIME_SLICE` is one or two ticks. The cache has two slots and three sectors, so
that every sector can be evicted and come back, and `EntryCount` blocks, which is
enough that `malloc()` never fails. `cache_live` has one value, as control does not
depend on contents. Processes have two pages, three tids and three pnodes, so that
pages and pnodes are used again and a parent has two children on its list; a
process can be a parent, a child and an orphan. Exit statuses are two that fit a
byte and one that does not. `MaxTid` ends a behaviour, so `process` does not check
for deadlock. Symmetry is used for interchangeable threads and sectors, never in
runs with liveness.

### Fairness

Kernel steps of each thread, while it runs, and timer interrupts are strongly fair.
Strong, because another thread's turn or a disabled interrupt comes between again
and again: a thread that is given the processor over and over executes its next
step in the end, and a timer that is held off over and over is not held off for
ever. Whether a thread is given the processor is not assumed; the model's scheduler
decides. `inversion` also assumes that a thread that runs, over and over, while it
holds a lock releases it. The cache assumes strong fairness of each thread's steps:
`sema_up()` wakes a waiter at every release. Processes assume weak fairness of the
kernel's part; user code need not do anything.

## Proofs

`ThreadsProofs` proves `TypeCorrect`; `LockSteps` states the inductive invariant
of the locks with its lemmas about stacks and the first actions, and `LockProofs`
has the remaining actions and proves `LocksExclude` and `CondListsProtected`. All
use `ThreadsAssumption` only: any threads, locks, semaphores, conditions and
priorities.

* `TypeInv` is `TypeOK` with the fact that the stack of the idle thread holds
  only its loop; one lemma per action.
* `MutualExclusion` is not inductive: `lock_release()` and `lock_acquire()` take
  several steps, so it matters that a call that is in progress has the right to
  go on. `LockInv` adds `StackInv` (every stack is well formed: a frame that
  releases a lock belongs to its holder, a frame that signals belongs to the
  holder of the condition's lock) and `FreePages` (a page without a thread holds
  no lock). `CondListsProtected` follows from the same invariant.

Only model-checked: liveness and fairness (outside the prover's reach), the other
invariants of `Threads`, the refinement of the cache, and the processes. No
recursive definition is used where a theorem depends on it.

## Not modelled, and the plan

1. `Inode` and `FreeMap` over `SectorStore`: open counts, removal, growth,
   direct and indirect sectors; then `Directory` and path resolution.
2. Descriptors and the file calls, composed with `Processes`.
3. `intq` and the IDE channel (interrupt against thread); `palloc`, `malloc`.
4. `hw8` (two-phase commit with journal and crashes), the `hw4` work queue, the
   `hw5` allocator.
5. Proofs: `OneList`, `NoLostWakeup` and `OwnPriority`; the refinement of
   `SectorStore` for one client and whole sectors; `NodesListed` and `OwnNode`.

Left out for good: formatting and console output, boot and descriptor tables,
port I/O, the ELF loader, the page tables and the tests.
