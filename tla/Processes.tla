----------------------------- MODULE Processes -----------------------------
(***************************************************************************)
(* User processes and their parents (userprog/process.c, the system calls  *)
(* exec, wait and exit of userprog/syscall.c, and the part of              *)
(* thread_create() that makes a pnode).                                    *)
(*                                                                         *)
(* A pnode is the record that parent and child share.  The parent has it   *)
(* on its child_list; the child has a pointer to it.  Processes run        *)
(* concurrently, and every action is a step that others can come between.  *)
(*                                                                         *)
(* pnodes are blocks of malloc(): a freed block is given out again at      *)
(* once, also while a process still points to it.                          *)
(***************************************************************************)
EXTENDS Integers, Sequences, FiniteSets, Functions

CONSTANTS
  Procs,           \* pages that can hold a process
  main,            \* the initial thread, which runs the tasks
  NodeCount,       \* bound: the heap blocks for struct pnode
  FirstTid,        \* the next tid when the model starts
  MaxTid,          \* bound: the last tid given out
  Statuses,        \* arguments of exit()
  NULL

All == Procs \cup {main}
Nodes == 1..NodeCount
Tids == FirstTid..MaxTid

ASSUME ProcessesAssumption ==
  /\ main \notin Procs /\ NULL \notin All \cup Int
  /\ NodeCount \in Nat
  /\ FirstTid \in Nat \ {0, 1} /\ MaxTid \in Nat
  /\ Statuses \subseteq Int

VARIABLES
  pc,          \* what each thread is doing
  tid, pn,     \* members of struct thread
  child_list,  \* the pnodes of the children, oldest first
  heap,        \* what each block holds, read as a struct pnode
  free_list,   \* the free list of malloc(), next block first
  next_tid,
  waiting,     \* the pnode that a thread in process_wait() has found
  answer,      \* the pid and the status of the child that the last wait() of a
               \* thread was for, NULL if it was refused
  outcome,     \* history: how each process ended
  parent,      \* history: the tid of the parent of each process
  orphaned     \* history: a process has exited before one of its children

memVars  == <<child_list, heap, free_list>>
threadVars == <<tid, pn, next_tid, parent>>
history  == <<outcome, orphaned>>
vars == <<pc, memVars, threadVars, waiting, answer, history>>

Go(t, where) == pc' = [pc EXCEPT ![t] = where]

\* free() fills a block with 0xcc: no pid, no status, no semaphore.
Poison == [pid |-> NULL, exit_status |-> NULL, sema |-> NULL]

\* An access through a bad pointer inside the kernel: page_fault() resumes the
\* thread at the address in eax, which is no code, over and over.
Fault(t) ==
  /\ Go(t, "faulting")
  /\ UNCHANGED <<memVars, threadVars, waiting, answer, history>>

-----------------------------------------------------------------------------
(* The heap *)

\* free(): the block is cleared and goes to the front of its free list.
Release(b) ==
  /\ heap' = [heap EXCEPT ![b] = Poison]
  /\ free_list' = <<b>> \o free_list

\* malloc() takes the block at the front of the list and leaves in it what it
\* holds; `node' is what the caller then writes there.
Take(node) ==
  /\ heap' = [heap EXCEPT ![Head(free_list)] = node]
  /\ free_list' = Tail(free_list)

-----------------------------------------------------------------------------
(* exec *)

\* run_task() waits for one task before it starts the next.
CanExec(p) == pc[p] = "user" /\ (p = main => child_list[p] = <<>>)

\* (mutant: the semaphore is not initialized)
NewNode_NoInit(pid) == [pid |-> pid, exit_status |-> -1, sema |-> heap[Head(free_list)].sema]

\* The pnode of a new process.
NewNode(pid) == [pid |-> pid, exit_status |-> -1, sema |-> 0]

\* (mutant: the pnode goes on the list of the child)
Exec_OwnList(p) ==
  /\ CanExec(p) /\ next_tid <= MaxTid /\ free_list # <<>>
  /\ \E c \in Procs :
       /\ pc[c] = "free"
       /\ pc' = [pc EXCEPT ![c] = "load"]
       /\ tid' = [tid EXCEPT ![c] = next_tid]
       /\ parent' = [parent EXCEPT ![c] = tid[p]]
       /\ pn' = [pn EXCEPT ![c] = Head(free_list)]
       /\ child_list' = [child_list EXCEPT ![c] = <<Head(free_list)>>]
  /\ Take(NewNode(next_tid))
  /\ next_tid' = next_tid + 1
  /\ UNCHANGED <<waiting, answer, history>>

\* process_execute() and thread_create(): the child is runnable and the call
\* returns its tid.
Exec(p) ==
  /\ CanExec(p) /\ next_tid <= MaxTid /\ free_list # <<>>
  /\ \E c \in Procs :
       /\ pc[c] = "free"
       /\ pc' = [pc EXCEPT ![c] = "load"]
       /\ tid' = [tid EXCEPT ![c] = next_tid]
       /\ parent' = [parent EXCEPT ![c] = tid[p]]
       /\ pn' = [pn EXCEPT ![c] = Head(free_list)]
       /\ child_list' = [child_list EXCEPT ![p] = Append(@, Head(free_list)), ![c] = <<>>]
  /\ Take(NewNode(next_tid))
  /\ next_tid' = next_tid + 1
  /\ UNCHANGED <<waiting, answer, history>>

\* start_process() with a program that loads.
Load(c) ==
  /\ pc[c] = "load"
  /\ Go(c, "user")
  /\ UNCHANGED <<memVars, threadVars, waiting, answer, history>>

\* load() fails and leaves esp 0.  start_process() copies the arguments below
\* esp before it looks at the result.
LoadFails(c) ==
  /\ pc[c] = "load"
  /\ Fault(c)

-----------------------------------------------------------------------------
(* exit *)

\* get_user_byte() reads the first byte of an argument.
Byte(x) == x % 256

\* How a process ends: the status that it passes to exit(), or killed.
Ends == [killed : {FALSE}, status : Statuses] \cup [killed : {TRUE}, status : {-1}]

\* sys_exit() and error(), up to thread_exit(); the status is written through
\* the pointer to the pnode, wherever it points.
Exit(c) ==
  /\ c # main /\ pc[c] = "user"
  /\ \E e \in Ends :
       /\ heap' = [heap EXCEPT ![pn[c]].exit_status =
                     IF e.killed THEN -1 ELSE Byte(e.status)]
       /\ outcome' = [outcome EXCEPT ![tid[c]] = e]
  /\ Go(c, "freeing")
  /\ UNCHANGED <<child_list, free_list, threadVars, waiting, answer, orphaned>>

\* kill(): an exception other than a page fault; the pnode still has -1.
Kill(c) ==
  /\ c # main /\ pc[c] = "user"
  /\ outcome' = [outcome EXCEPT ![tid[c]] = [killed |-> TRUE, status |-> -1]]
  /\ Go(c, "freeing")
  /\ UNCHANGED <<memVars, threadVars, waiting, answer, orphaned>>

\* A process whose end is still to come, and that will go through process_exit().
Runs(c) == pc[c] \in {"load", "user", "wait", "reap", "freeing", "up"}

\* process_exit(): one round of free_child_list(), or its end.
FreeChildList(c) ==
  /\ pc[c] = "freeing"
  /\ IF child_list[c] = <<>>
     THEN Go(c, "up") /\ UNCHANGED <<memVars, orphaned>>
     ELSE LET n == Head(child_list[c]) IN
          /\ Release(n)
          /\ child_list' = [child_list EXCEPT ![c] = Tail(@)]
          /\ orphaned' = (orphaned \/ \E d \in Procs : Runs(d) /\ pn[d] = n)
          /\ UNCHANGED pc
  /\ UNCHANGED <<threadVars, waiting, answer, outcome>>

\* (mutant: the parent is not told)
ProcessExit_Silent(c) ==
  /\ pc[c] = "up"
  /\ Go(c, "dying")
  /\ UNCHANGED <<memVars, threadVars, waiting, answer, history>>

\* process_exit(): the sema_up() at its end.  In a block that is free, the list
\* of waiters is two bad pointers.
ProcessExit(c) ==
  /\ pc[c] = "up"
  /\ \/ heap[pn[c]].sema = NULL /\ Fault(c)
     \/ /\ heap[pn[c]].sema # NULL
        /\ heap' = [heap EXCEPT ![pn[c]].sema = @ + 1]
        /\ Go(c, "dying")
        /\ UNCHANGED <<child_list, free_list, threadVars, waiting, answer, history>>

\* The thread that runs next frees the page.
ScheduleTail(c) ==
  /\ pc[c] = "dying"
  /\ Go(c, "free")
  /\ tid' = [tid EXCEPT ![c] = 0]
  /\ parent' = [parent EXCEPT ![c] = 0]
  /\ pn' = [pn EXCEPT ![c] = NULL]
  /\ answer' = [answer EXCEPT ![c] = NULL]
  /\ UNCHANGED <<memVars, next_tid, waiting, history>>

-----------------------------------------------------------------------------
(* wait *)

\* The pid that process_wait() gets: run_task() passes it on, sys_wait() reads
\* a byte.
Argument(p, pid) == IF p = main THEN pid ELSE Byte(pid)

\* find_child_pnode()
FindChild(p, pid) == {n \in Range(child_list[p]) : heap[n].pid = pid}

\* process_wait() up to its sema_down().
Wait(p) ==
  /\ pc[p] = "user"
  /\ \E pid \in FirstTid..(next_tid - 1) :
       LET found == FindChild(p, Argument(p, pid)) IN
       /\ p = main => found # {}
       /\ IF found = {}
          THEN /\ answer' = [answer EXCEPT ![p] = NULL]
               /\ UNCHANGED <<pc, waiting>>
          ELSE /\ \E n \in found : waiting' = [waiting EXCEPT ![p] = n]
               /\ Go(p, "wait")
               /\ UNCHANGED answer
  /\ UNCHANGED <<memVars, threadVars, history>>

\* (mutant: the semaphore is not waited for)
WaitDown_Early(p) ==
  /\ pc[p] = "wait"
  /\ Go(p, "reap")
  /\ UNCHANGED <<memVars, threadVars, waiting, answer, history>>

\* The sema_down() of process_wait() succeeds.
WaitDown(p) ==
  /\ pc[p] = "wait" /\ heap[waiting[p]].sema > 0
  /\ heap' = [heap EXCEPT ![waiting[p]].sema = @ - 1]
  /\ Go(p, "reap")
  /\ UNCHANGED <<child_list, free_list, threadVars, waiting, answer, history>>

\* (mutant: the pnode is not freed)
WaitReturn_Keeps(p) ==
  /\ pc[p] = "reap"
  /\ answer' = [answer EXCEPT ![p] = [pid |-> heap[waiting[p]].pid,
                                      status |-> heap[waiting[p]].exit_status]]
  /\ child_list' = [child_list EXCEPT ![p] = SelectSeq(@, LAMBDA n : n # waiting[p])]
  /\ waiting' = [waiting EXCEPT ![p] = NULL]
  /\ Go(p, "user")
  /\ UNCHANGED <<heap, free_list, threadVars, history>>

\* The rest of process_wait(): the status is read, and the pnode taken off the
\* list and freed.
WaitReturn(p) ==
  /\ pc[p] = "reap"
  /\ answer' = [answer EXCEPT ![p] = [pid |-> heap[waiting[p]].pid,
                                      status |-> heap[waiting[p]].exit_status]]
  /\ child_list' = [child_list EXCEPT ![p] = SelectSeq(@, LAMBDA n : n # waiting[p])]
  /\ Release(waiting[p])
  /\ waiting' = [waiting EXCEPT ![p] = NULL]
  /\ Go(p, "user")
  /\ UNCHANGED <<threadVars, history>>

-----------------------------------------------------------------------------
(* The specification *)

\* The initial thread before its first task, after FirstTid - 1 threads; the
\* blocks of the arena are on the free list in their order.
Init ==
  /\ pc = [t \in All |-> IF t = main THEN "user" ELSE "free"]
  /\ tid = [t \in All |-> IF t = main THEN 1 ELSE 0]
  /\ parent = [t \in All |-> 0]
  /\ pn = [t \in All |-> NULL]
  /\ child_list = [t \in All |-> <<>>]
  /\ heap = [n \in Nodes |-> Poison]
  /\ free_list = [n \in Nodes |-> n]
  /\ next_tid = FirstTid
  /\ waiting = [t \in All |-> NULL]
  /\ answer = [t \in All |-> NULL]
  /\ outcome = [k \in Tids |-> NULL]
  /\ orphaned = FALSE

\* What a process does once user code has called the kernel.
Steps(t) == \/ Load(t) \/ FreeChildList(t) \/ ProcessExit(t) \/ ScheduleTail(t)
            \/ WaitDown(t) \/ WaitReturn(t)

Next == \E t \in All : Exec(t) \/ LoadFails(t) \/ Exit(t) \/ Kill(t) \/ Wait(t) \/ Steps(t)

Spec == Init /\ [][Next]_vars

\* A thread that can go on is scheduled; user code need not call the kernel.
FairSpec == Spec /\ \A t \in All : WF_vars(Steps(t))

-----------------------------------------------------------------------------
(* Properties *)

\* The types of the variables.  A pnode on a list of children is initialized:
\* thread_create() fills it before anyone can find it.
TypeOK ==
  /\ pc \in [All -> {"free", "load", "user", "wait", "reap", "freeing", "up", "dying",
                     "faulting"}]
  /\ tid \in [All -> Tids \cup {0, 1}] /\ parent \in [All -> Tids \cup {0, 1}]
  /\ pn \in [All -> Nodes \cup {NULL}]
  /\ child_list \in [All -> Seq(Nodes)] /\ free_list \in Seq(Nodes)
  /\ DOMAIN heap = Nodes
  /\ \A p \in All, n \in Nodes : n \in Range(child_list[p]) =>
       heap[n] \in [pid : Tids, exit_status : Int, sema : Nat]
  /\ next_tid \in FirstTid..(MaxTid + 1)
  /\ waiting \in [All -> Nodes \cup {NULL}]
  /\ answer \in [All -> [pid : Tids, status : Int] \cup {NULL}]
  /\ outcome \in [Tids -> Ends \cup {NULL}]
  /\ orphaned \in BOOLEAN

\* As long as no process has exited before one of its children, every process
\* has a pnode of its own until it has upped the semaphore in it: it bears its
\* tid, nobody else points to it, and it is on the list of the parent
\* (thread_create(), process_exit(), process_wait()).  Without the condition it
\* is false: see NodeOutlives.
OwnNode ==
  ~orphaned => \A c \in Procs : Runs(c) =>
    /\ heap[pn[c]].pid = tid[c]
    /\ \A d \in Procs \ {c} : Runs(d) => pn[d] # pn[c]
    /\ \E p \in All : tid[p] = parent[c] /\ pn[c] \in Range(child_list[p])

\* userprog.texi, wait: processes "may even exit without having waited for some
\* or all of their children", so a process has its pnode until it has exited
\* itself (process_exit() frees the pnodes of the children).
NodeOutlives == \A c \in Procs : Runs(c) => pn[c] \notin Range(free_list)

\* Whoever exits first, and also when an orphan ups a semaphore that is not its
\* own: a pnode is on the list of one thread, once, or on the free list, once;
\* none is lost and none is freed twice (free_child_list(), process_wait()).
NodesListed ==
  \A n \in Nodes :
    LET on(list) == Cardinality({i \in DOMAIN list : list[i] = n}) IN
    \/ on(free_list) = 1 /\ \A p \in All : on(child_list[p]) = 0
    \/ /\ on(free_list) = 0
       /\ \E p \in All : /\ on(child_list[p]) = 1
                         /\ \A q \in All \ {p} : on(child_list[q]) = 0

\* The status that userprog.texi has wait() return for a process that ended so.
Promised(o) == IF o.killed THEN -1 ELSE o.status

\* As long as no process has exited before one of its children, wait() returns
\* only when the child has ended, with -1 if the kernel killed it and with the
\* status that it passed to exit() if that is one byte (process_wait(),
\* sys_exit(), which keeps one byte of it).
StatusDelivered ==
  ~orphaned => \A p \in All : answer[p] # NULL =>
    LET o == outcome[answer[p].pid] IN
    /\ o # NULL
    /\ o.killed \/ o.status \in 0..255 => answer[p].status = Promised(o)

\* A parent that waits for a child that exits or is killed gets its answer,
\* whatever other processes do (process_exit() ups the semaphore last).
WaitReturns ==
  \A p \in All :
    (pc[p] = "wait" /\ outcome[heap[waiting[p]].pid] # NULL) ~> pc[p] # "wait"
=============================================================================
