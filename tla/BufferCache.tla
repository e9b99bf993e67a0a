---------------------------- MODULE BufferCache ----------------------------
(***************************************************************************)
(* The buffer cache of the file system (filesys/cache.c).                  *)
(*                                                                         *)
(* A call is cut into steps where the thread can be preempted with an      *)
(* effect that others see, or where it sleeps: at the locks, at the block  *)
(* device, between the lookups, and wherever it uses an entry that others  *)
(* may have freed.  One operation of the hash table, or of malloc(), is    *)
(* one step.  A sector is a few parts, so that a write can cover it or not.*)
(*                                                                         *)
(* The entries are blocks of the heap of threads/malloc.c: free() puts a   *)
(* block in front of the list of its size and malloc() takes the first one *)
(* of the list.  A block that is freed keeps the links of that list where  *)
(* an entry has its clock_idx.                                             *)
(***************************************************************************)
EXTENDS Integers, Sequences, FiniteSetsExt

CONSTANTS
  Users, Flushers,     \* threads that read and write, and that flush
  MAX_CACHE_SECTORS,
  Sectors,
  Parts, Values,       \* a sector is a function from Parts to Values
  Zero,                \* the value that memset() leaves
  Writes,              \* the sets of parts that a write covers
  EntryCount,          \* bound: the heap has that many blocks
  NULL

Threads == Users \cup Flushers
Slots == 0..(MAX_CACHE_SECTORS - 1)
Contents == [Parts -> Values]
Entries == 1..EntryCount

ASSUME BufferCacheAssumption ==
  /\ MAX_CACHE_SECTORS \in Nat \ {0} /\ EntryCount \in Nat
  /\ Zero \in Values
  /\ Writes \subseteq SUBSET Parts
  /\ NULL \notin Threads \cup Entries \cup Sectors

VARIABLES
  disk,            \* what the block device holds
  buffer,          \* the memory at buffer_base, a sector for each slot
  buffer_cache,    \* the hash table, from sector to entry
  cache_sectors,   \* the entry of each slot
  heap,            \* struct cache_sector by address, NULL where there is none
  free_list,       \* the blocks that were freed, the last one first
  refbits, clock_idx,
  holder,          \* sector_locks
  pc, call,        \* where each thread is, and in what call
  entry, hand,     \* its variables `entry' and `clock_hand'
  inner, to_evict, \* `entry' and `to_evict' of the function that it calls
  start,           \* the slot that its `sector_start' points to
  result           \* the buffer that it reads into

tableVars == <<buffer_cache, cache_sectors>>
heapVars  == <<heap, free_list>>
clockVars == <<refbits, clock_idx>>
innerVars == <<inner, to_evict, start>>
callVars  == <<call, entry, result>>
vars == <<disk, buffer, tableVars, heapVars, clockVars, holder, pc, hand, innerVars,
          callVars>>

\* `parts' of the contents `old' are overwritten.
Merge(old, parts, v) == [x \in Parts |-> IF x \in parts THEN v ELSE old[x]]

Go(t, where) == pc' = [pc EXCEPT ![t] = where]

\* The block holds no entry: it is free, or it is the key of a lookup.
Stale(e) == heap[e] = NULL

\* The thread follows NULL, or the clock_idx of a block that holds no entry,
\* to an address that is not mapped: "fault", it never gets further.  Or it
\* fails an assertion: "panic", the machine stops.
Stop(t, how) ==
  /\ Go(t, how)
  /\ UNCHANGED <<disk, buffer, tableVars, heapVars, clockVars, holder, hand, innerVars,
                 callVars>>

\* Every lookup allocates a key, which is never freed: the list of free blocks
\* loses its first one.
Lookup == free_list' = IF free_list = <<>> THEN <<>> ELSE Tail(free_list)

-----------------------------------------------------------------------------
(* Reading and writing *)

Requests == [op : {"read"}, sector : Sectors, parts : {Parts}, value : {Zero}]
       \cup [op : {"write"}, sector : Sectors, parts : Writes, value : Values]

\* buffer_cache_read() and buffer_cache_write() begin with a lookup.
Call(t) ==
  /\ t \in Users /\ pc[t] = "out"
  /\ \E r \in Requests :
       /\ call' = [call EXCEPT ![t] = r]
       /\ entry' = [entry EXCEPT ![t] = buffer_cache[r.sector]]
       /\ Go(t, IF buffer_cache[r.sector] = NULL THEN "clock" ELSE "slot")
  /\ Lookup
  /\ UNCHANGED <<disk, buffer, tableVars, heap, clockVars, holder, hand, innerVars, result>>

\* A hit: which lock to take.
Slot(t) ==
  /\ pc[t] = "slot"
  /\ IF Stale(entry[t]) THEN Stop(t, "fault")
     ELSE /\ hand' = [hand EXCEPT ![t] = heap[entry[t]].clock_idx]
          /\ Go(t, "lock")
          /\ UNCHANGED <<disk, buffer, tableVars, heapVars, clockVars, holder, innerVars,
                         callVars>>

\* (mutant: the hand does not move off a slot that is in use)
Clock_Spins(t) ==
  /\ pc[t] = "clock"
  /\ Go(t, IF refbits[clock_idx] THEN "clock" ELSE "hand")
  /\ UNCHANGED <<disk, buffer, tableVars, heapVars, clockVars, holder, hand, innerVars,
                 callVars>>

\* (mutant: the hand moves beyond the last slot)
Clock_NoWrap(t) ==
  /\ pc[t] = "clock"
  /\ clock_idx' = IF refbits[clock_idx] THEN clock_idx + 1 ELSE clock_idx
  /\ Go(t, "hand")
  /\ UNCHANGED <<disk, buffer, tableVars, heapVars, refbits, holder, hand, innerVars,
                 callVars>>

\* A miss: update_clock_idx() moves on by at most one slot.
Clock(t) ==
  /\ pc[t] = "clock"
  /\ IF \A i \in Slots : refbits[i]
     THEN refbits' = [i \in Slots |-> FALSE] /\ clock_idx' = 0
     ELSE /\ clock_idx' = IF refbits[clock_idx]
                          THEN (clock_idx + 1) % MAX_CACHE_SECTORS ELSE clock_idx
          /\ UNCHANGED refbits
  /\ Go(t, "hand")
  /\ UNCHANGED <<disk, buffer, tableVars, heapVars, holder, hand, innerVars, callVars>>

Hand(t) ==
  /\ pc[t] = "hand"
  /\ hand' = [hand EXCEPT ![t] = clock_idx]
  /\ Go(t, "lock")
  /\ UNCHANGED <<disk, buffer, tableVars, heapVars, clockVars, holder, innerVars, callVars>>

Acquire(t) ==
  /\ pc[t] = "lock" /\ holder[hand[t]] = NULL
  /\ holder' = [holder EXCEPT ![hand[t]] = t]
  /\ Go(t, "again")
  /\ UNCHANGED <<disk, buffer, tableVars, heapVars, clockVars, hand, innerVars, callVars>>

\* The second lookup, with the lock.  A call that had found an entry passes
\* its clock_idx on, which it reads again.
Again(t) ==
  LET found == buffer_cache[call[t].sector] # NULL IN
  /\ pc[t] = "again"
  /\ IF ~found /\ entry[t] # NULL /\ Stale(entry[t]) THEN Stop(t, "fault")
     ELSE /\ hand' = IF found \/ entry[t] = NULL THEN hand
                     ELSE [hand EXCEPT ![t] = heap[entry[t]].clock_idx]
          /\ Lookup
          /\ Go(t, IF found THEN "find" ELSE "alloc")
          /\ UNCHANGED <<disk, buffer, tableVars, heap, clockVars, holder, innerVars,
                         callVars>>

\* read_from_buffer() and write_exist_buffer(): the third lookup, ...
Find(t) ==
  /\ pc[t] = "find"
  /\ inner' = [inner EXCEPT ![t] = buffer_cache[call[t].sector]]
  /\ Lookup
  /\ Go(t, "mark")
  /\ UNCHANGED <<disk, buffer, tableVars, heap, clockVars, holder, hand, to_evict, start,
                 callVars>>

\* (mutant: a write to a cached sector does not make it dirty)
Mark_NotDirty(t) ==
  /\ pc[t] = "mark"
  /\ refbits' = [refbits EXCEPT ![heap[inner[t]].clock_idx] = TRUE]
  /\ start' = [start EXCEPT ![t] = heap[inner[t]].clock_idx]
  /\ Go(t, "copy")
  /\ UNCHANGED <<disk, buffer, tableVars, heapVars, clock_idx, holder, hand, inner,
                 to_evict, callVars>>

\* ... the bits of the entry, where bitmap_set() asserts that there is such a
\* slot, ...
Mark(t) ==
  /\ pc[t] = "mark"
  /\ IF inner[t] = NULL THEN Stop(t, "fault")
     ELSE IF Stale(inner[t]) THEN Stop(t, "panic")
     ELSE LET i == heap[inner[t]].clock_idx IN
          /\ heap' = IF call[t].op = "write" THEN [heap EXCEPT ![inner[t]].dirty = TRUE]
                     ELSE heap
          /\ refbits' = [refbits EXCEPT ![i] = TRUE]
          /\ start' = [start EXCEPT ![t] = i]
          /\ Go(t, "copy")
          /\ UNCHANGED <<disk, buffer, tableVars, free_list, clock_idx, holder, hand, inner,
                         to_evict, callVars>>

\* ... and the memcpy().
Copy(t) ==
  /\ pc[t] = "copy"
  /\ IF call[t].op = "read"
     THEN result' = [result EXCEPT ![t] = buffer[start[t]]] /\ UNCHANGED buffer
     ELSE /\ buffer' = [buffer EXCEPT ![start[t]] =
                                        Merge(@, call[t].parts, call[t].value)]
          /\ UNCHANGED result
  /\ Go(t, "unlock")
  /\ UNCHANGED <<disk, tableVars, heapVars, clockVars, holder, hand, innerVars, call, entry>>

-----------------------------------------------------------------------------
(* Replacing a sector: read_from_disk() and write_new_buffer() *)

\* A block that was never freed: nothing refers to it.
Fresh == {e \in Entries : /\ heap[e] = NULL
                          /\ \A i \in DOMAIN free_list : free_list[i] # e
                          /\ \A t \in Threads : e \notin {entry[t], inner[t], to_evict[t]}}

\* malloc() takes the first free block; without one it cuts up a new page.
CanTake == free_list # <<>> \/ Fresh # {}
Block == IF free_list # <<>> THEN Head(free_list) ELSE Min(Fresh)

\* The new entry, which is allocated and set up before the old one is evicted.
Alloc(t) ==
  /\ pc[t] = "alloc" /\ CanTake
  /\ heap' = [heap EXCEPT ![Block] = [sector_idx |-> call[t].sector,
                                      clock_idx |-> hand[t],
                                      dirty |-> call[t].op = "write"]]
  /\ inner' = [inner EXCEPT ![t] = Block]
  /\ Lookup
  /\ Go(t, "evict")
  /\ UNCHANGED <<disk, buffer, tableVars, clockVars, holder, hand, to_evict, start, callVars>>

\* buffer_cache_evict() up to the block_write(), during which others run.
\* The block device stops the machine when there is no such sector.
Evict(t) ==
  LET old == cache_sectors[hand[t]] IN
  /\ pc[t] = "evict"
  /\ IF old # NULL /\ Stale(old) THEN Stop(t, "panic")
     ELSE /\ to_evict' = [to_evict EXCEPT ![t] = old]
          /\ start' = [start EXCEPT ![t] = IF old = NULL THEN @ ELSE heap[old].clock_idx]
          /\ disk' = IF old # NULL /\ heap[old].dirty
                     THEN [disk EXCEPT ![heap[old].sector_idx] = buffer[start'[t]]]
                     ELSE disk
          /\ Go(t, IF old = NULL THEN "insert" ELSE "delete")
          /\ UNCHANGED <<buffer, tableVars, heapVars, clockVars, holder, hand, inner,
                         callVars>>

\* hash_delete() removes the entry with the sector that it finds in the block.
Delete(t) ==
  LET old == to_evict[t] IN
  /\ pc[t] = "delete"
  /\ buffer_cache' = IF Stale(old) THEN buffer_cache
                     ELSE [buffer_cache EXCEPT ![heap[old].sector_idx] = NULL]
  /\ Go(t, "free")
  /\ UNCHANGED <<disk, buffer, cache_sectors, heapVars, clockVars, holder, hand, innerVars,
                 callVars>>

\* free() of the entry that the array has by now.  A block that is in the list
\* already is linked to itself.
Release(t) ==
  LET e == cache_sectors[start[t]] IN
  /\ pc[t] = "free"
  /\ IF \E i \in DOMAIN free_list : free_list[i] = e THEN Stop(t, "fault")
     ELSE /\ heap' = IF e = NULL THEN heap ELSE [heap EXCEPT ![e] = NULL]
          /\ free_list' = IF e = NULL THEN free_list ELSE <<e>> \o free_list
          /\ Go(t, "clear")
          /\ UNCHANGED <<disk, buffer, tableVars, clockVars, holder, hand, innerVars,
                         callVars>>

\* The rest of buffer_cache_evict().
Clear(t) ==
  /\ pc[t] = "clear"
  /\ cache_sectors' = [cache_sectors EXCEPT ![start[t]] = NULL]
  /\ buffer' = [buffer EXCEPT ![start[t]] = [x \in Parts |-> Zero]]
  /\ Go(t, "insert")
  /\ UNCHANGED <<disk, buffer_cache, heapVars, clockVars, holder, hand, innerVars, callVars>>

\* (mutant: the array does not get the entry)
Insert_NoArray(t) ==
  LET e == inner[t] IN
  /\ pc[t] = "insert"
  /\ buffer_cache' = [buffer_cache EXCEPT ![heap[e].sector_idx] = e]
  /\ refbits' = [refbits EXCEPT ![heap[e].clock_idx] = TRUE]
  /\ Go(t, "fill")
  /\ UNCHANGED <<disk, buffer, cache_sectors, heapVars, clock_idx, holder, hand, innerVars,
                 callVars>>

\* buffer_cache_insert(), where bitmap_set() asserts that there is such a slot.
Insert(t) ==
  LET e == inner[t] IN
  /\ pc[t] = "insert"
  /\ IF Stale(e) THEN Stop(t, "panic")
     ELSE /\ buffer_cache' = [buffer_cache EXCEPT ![heap[e].sector_idx] = e]
          /\ refbits' = [refbits EXCEPT ![heap[e].clock_idx] = TRUE]
          /\ cache_sectors' = [cache_sectors EXCEPT ![heap[e].clock_idx] = e]
          /\ Go(t, "fill")
          /\ UNCHANGED <<disk, buffer, heapVars, clock_idx, holder, hand, innerVars,
                         callVars>>

\* A read fetches the sector; a write copies its data over what is there.
Fill(t) ==
  LET new == IF call[t].op = "read" THEN disk[call[t].sector]
             ELSE Merge(buffer[hand[t]], call[t].parts, call[t].value)
  IN
  /\ pc[t] = "fill"
  /\ buffer' = [buffer EXCEPT ![hand[t]] = new]
  /\ Go(t, IF call[t].op = "read" THEN "deliver" ELSE "unlock")
  /\ UNCHANGED <<disk, tableVars, heapVars, clockVars, holder, hand, innerVars, callVars>>

\* The memcpy() behind the block_read().
Deliver(t) ==
  /\ pc[t] = "deliver"
  /\ result' = [result EXCEPT ![t] = buffer[hand[t]]]
  /\ Go(t, "unlock")
  /\ UNCHANGED <<disk, buffer, tableVars, heapVars, clockVars, holder, hand, innerVars, call,
                 entry>>

\* The lock of the slot that `entry' names by now, or of the slot at
\* clock_hand.  lock_release() asserts that the thread holds the lock.
Unlock(t) ==
  LET i == IF entry[t] = NULL THEN hand[t] ELSE heap[entry[t]].clock_idx IN
  /\ pc[t] = "unlock"
  /\ IF entry[t] # NULL /\ Stale(entry[t]) THEN Stop(t, "fault")
     ELSE IF holder[i] # t THEN Stop(t, "panic")
     ELSE /\ holder' = [holder EXCEPT ![i] = NULL]
          /\ call' = [call EXCEPT ![t] = NULL]
          /\ entry' = [entry EXCEPT ![t] = NULL]
          /\ inner' = [inner EXCEPT ![t] = NULL]
          /\ to_evict' = [to_evict EXCEPT ![t] = NULL]
          /\ start' = [start EXCEPT ![t] = 0]
          /\ hand' = [hand EXCEPT ![t] = 0]
          /\ Go(t, "out")
          /\ UNCHANGED <<disk, buffer, tableVars, heapVars, clockVars, result>>

-----------------------------------------------------------------------------
(* buffer_cache_flush() *)

Flush(t) ==
  /\ t \in Flushers /\ pc[t] = "out"
  /\ hand' = [hand EXCEPT ![t] = 0]
  /\ Go(t, "flush_lock")
  /\ UNCHANGED <<disk, buffer, tableVars, heapVars, clockVars, holder, innerVars, callVars>>

\* The next round of a loop over the slots, or what comes behind the loop.
Loop(t, body, next) ==
  IF hand[t] + 1 \in Slots
  THEN hand' = [hand EXCEPT ![t] = @ + 1] /\ Go(t, body)
  ELSE hand' = [hand EXCEPT ![t] = 0] /\ Go(t, next)

\* (mutant: the flush takes no locks)
FlushLock_None(t) ==
  /\ pc[t] = "flush_lock"
  /\ Loop(t, "flush_lock", "flush_write")
  /\ UNCHANGED <<disk, buffer, tableVars, heapVars, clockVars, holder, innerVars, callVars>>

FlushLock(t) ==
  /\ pc[t] = "flush_lock" /\ holder[hand[t]] = NULL
  /\ holder' = [holder EXCEPT ![hand[t]] = t]
  /\ Loop(t, "flush_lock", "flush_write")
  /\ UNCHANGED <<disk, buffer, tableVars, heapVars, clockVars, innerVars, callVars>>

\* The block device stops the machine when there is no such sector.
FlushWrite(t) ==
  LET e == cache_sectors[hand[t]] IN
  /\ pc[t] = "flush_write"
  /\ IF e # NULL /\ Stale(e) THEN Stop(t, "panic")
     ELSE /\ disk' = IF e # NULL /\ heap[e].dirty
                     THEN [disk EXCEPT ![heap[e].sector_idx] = buffer[hand[t]]] ELSE disk
          /\ Loop(t, "flush_write", "flush_unlock")
          /\ UNCHANGED <<buffer, tableVars, heapVars, clockVars, holder, innerVars, callVars>>

FlushUnlock(t) ==
  /\ pc[t] = "flush_unlock"
  /\ holder' = [holder EXCEPT ![hand[t]] = NULL]
  /\ Loop(t, "flush_unlock", "out")
  /\ UNCHANGED <<disk, buffer, tableVars, heapVars, clockVars, innerVars, callVars>>

-----------------------------------------------------------------------------
(* The specification *)

\* buffer_cache_init(); nobody clears the memory of the buffers.
Init ==
  /\ disk \in [Sectors -> Contents]
  /\ buffer \in [Slots -> Contents]
  /\ buffer_cache = [s \in Sectors |-> NULL]
  /\ cache_sectors = [i \in Slots |-> NULL]
  /\ heap = [e \in Entries |-> NULL]
  /\ free_list = <<>>
  /\ refbits = [i \in Slots |-> FALSE]
  /\ clock_idx = 0
  /\ holder = [i \in Slots |-> NULL]
  /\ pc = [t \in Threads |-> "out"]
  /\ call = [t \in Threads |-> NULL]
  /\ entry = [t \in Threads |-> NULL]
  /\ hand = [t \in Threads |-> 0]
  /\ inner = [t \in Threads |-> NULL]
  /\ to_evict = [t \in Threads |-> NULL]
  /\ start = [t \in Threads |-> 0]
  /\ result = [t \in Threads |-> [x \in Parts |-> Zero]]

Steps(t) == \/ Slot(t) \/ Clock(t) \/ Hand(t) \/ Acquire(t) \/ Again(t)
            \/ Find(t) \/ Mark(t) \/ Copy(t)
            \/ Alloc(t) \/ Evict(t) \/ Delete(t) \/ Release(t) \/ Clear(t)
            \/ Insert(t) \/ Fill(t) \/ Deliver(t) \/ Unlock(t)
            \/ FlushLock(t) \/ FlushWrite(t) \/ FlushUnlock(t)

\* After a panic nothing runs.
Running == \A t \in Threads : pc[t] # "panic"

Next == Running /\ \E t \in Threads : Call(t) \/ Flush(t) \/ Steps(t)

Spec == Init /\ [][Next]_vars

\* A thread in a call is scheduled again and again, and a lock that is free
\* again and again goes to a thread that waits for it: sema_up() wakes a
\* waiter each time the lock is released.
FairSpec == Spec /\ \A t \in Threads : SF_vars(Running /\ Steps(t))

-----------------------------------------------------------------------------
(* Properties *)

Locations == {"out", "slot", "clock", "hand", "lock", "again", "find", "mark", "copy",
              "alloc", "evict", "delete", "free", "clear", "insert", "fill", "deliver",
              "unlock", "fault", "panic", "flush_lock", "flush_write", "flush_unlock"}

\* The types of the variables; the hand of the clock stays on a slot.
TypeOK ==
  /\ disk \in [Sectors -> Contents] /\ buffer \in [Slots -> Contents]
  /\ buffer_cache \in [Sectors -> Entries \cup {NULL}]
  /\ cache_sectors \in [Slots -> Entries \cup {NULL}]
  /\ heap \in [Entries -> [sector_idx : Sectors, clock_idx : Slots, dirty : BOOLEAN]
                          \cup {NULL}]
  /\ \A i \in DOMAIN free_list : free_list[i] \in Entries
  /\ refbits \in [Slots -> BOOLEAN] /\ clock_idx \in Slots
  /\ holder \in [Slots -> Threads \cup {NULL}]
  /\ pc \in [Threads -> Locations] /\ call \in [Threads -> Requests \cup {NULL}]
  /\ \A t \in Threads : {entry[t], inner[t], to_evict[t]} \subseteq Entries \cup {NULL}
  /\ hand \in [Threads -> Slots] /\ start \in [Threads -> Slots]
  /\ result \in [Threads -> Contents]

\* The sector s has an entry, but its slot does not hold the sector yet.
Filling(s) == \E t \in Threads : pc[t] = "fill" /\ call[t].sector = s

\* What the cache and the disk together hold.
Stored == [s \in Sectors |-> LET e == buffer_cache[s] IN
             IF e = NULL THEN disk[s]
             ELSE IF heap[e] = NULL \/ Filling(s) THEN disk[s]
             ELSE buffer[heap[e].clock_idx]]

\* A call takes effect in the step before it releases the lock.
Phase == [t \in Threads |-> IF call[t] = NULL THEN "idle"
                            ELSE IF pc[t] = "unlock" THEN "answered" ELSE "asked"]

Store == INSTANCE SectorStore
         WITH contents <- Stored, request <- call, phase <- Phase, reply <- result

\* The cache implements a store of sectors: a read returns what was written
\* last, a write takes effect once, and nothing else changes a sector: neither
\* an eviction, nor a fetch, nor a flush that runs at the same time
\* (buffer_cache_read(), buffer_cache_write(), buffer_cache_evict()).
StoreSpec == Store!Spec

\* The slot is given to another sector, by a thread that has its lock.
Replacing(i) == \E t \in Threads : pc[t] \in {"free", "clear"} /\ start[t] = i /\ holder[i] = t

\* The hash table and the array of entries agree: a sector is in at most one
\* slot, under the entry that the hash table has for it, and but for a slot
\* that is being replaced under its lock, no slot keeps an entry that the hash
\* table has lost (buffer_cache_insert(), buffer_cache_evict()).
OneCopy ==
  /\ \A s \in Sectors : LET e == buffer_cache[s] IN
       e # NULL => /\ heap[e] # NULL /\ heap[e].sector_idx = s
                   /\ cache_sectors[heap[e].clock_idx] = e
  /\ \A i \in Slots : LET e == cache_sectors[i] IN
       e # NULL /\ ~Replacing(i) => /\ heap[e] # NULL /\ heap[e].clock_idx = i
                                   /\ buffer_cache[heap[e].sector_idx] = e

\* When buffer_cache_flush() has been through all slots and still holds their
\* locks, the disk is up to date: nothing is lost if the machine stops then.
FlushComplete ==
  \A t \in Flushers : (pc[t] = "flush_unlock" /\ hand[t] = 0) => disk = Stored

\* However many threads read and write at once, a slot is replaced by one
\* thread at a time, which has its lock (the second lookup passes on the
\* clock_idx of an entry that it found before it had the lock).
ReplacesOwnSlot ==
  \A t \in Threads : pc[t] \in {"alloc", "evict", "delete", "free", "clear", "insert",
                                "fill", "deliver"} => holder[hand[t]] = t

\* Every call returns, although a flush takes all the locks.
CallsReturn == \A t \in Threads : pc[t] # "out" ~> pc[t] = "out"
=============================================================================
