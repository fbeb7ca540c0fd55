----------------------- MODULE ScReadWriteLock_proofs -----------------------
(***************************************************************************)
(* Theorems about ScReadWriteLock, for any number of locks, threads and    *)
(* blocks.                                                                 *)
(***************************************************************************)
EXTENDS ScReadWriteLock, FiniteSetTheorems, TLAPS

-----------------------------------------------------------------------------
(* The inductive invariant.                                                *)

\* The fields of a pointer value go together.
WellFormed(p) ==
  /\ p.kind = "block" <=> p.block \in Blocks
  /\ p.kind = "read" <=> p.n > 0

PointersOK ==
  /\ \A l \in Locks : WellFormed(d_ptr[l])
  /\ \A t \in Threads : WellFormed(d[t])

\* What a thread knows at each place: a waiting thread, and one that is about to
\* unlock a block, still look at the block of their lock; a block in hand has the
\* counts of the state it is to replace.
LocalOK ==
  \A t \in Threads :
    /\ pc[t] # "idle" => lock[t] \in Locks
    /\ pc[t] = "waiting" => d[t].kind = "block" /\ d_ptr[lock[t]] = d[t]
    /\ pc[t] = "unlocking" /\ d[t].kind = "block" => d_ptr[lock[t]] = d[t]
    /\ pc[t] = "unlocking" => d[t].kind # "null"
    /\ pc[t] = "inflating" =>
         /\ val[t] \in Blocks
         /\ d[t].kind \in {"read", "write"}
         /\ readerCount[val[t]] = IF d[t].kind = "read" THEN d[t].n ELSE 0
         /\ writerCount[val[t]] = IF d[t].kind = "write" THEN 1 ELSE 0

\* A block is in the hands of one thread, or serves one lock, or is free.
BlocksApart ==
  /\ \A t \in Threads : pc[t] = "inflating" =>
       /\ val[t] \notin freelist
       /\ \A l \in Locks : d_ptr[l].block # val[t]
       /\ \A u \in Threads : pc[u] = "inflating" /\ val[u] = val[t] => u = t
  /\ \A l \in Locks : d_ptr[l].kind = "block" =>
       /\ d_ptr[l].block \notin freelist
       /\ \A m \in Locks : d_ptr[m].block = d_ptr[l].block => m = l

\* Who sleeps on a condition variable is a waiter of that block.
SleepersWait ==
  \A b \in Blocks :
    /\ readerCond[b] \subseteq Waiters(b, "read")
    /\ writerCond[b] \subseteq Waiters(b, "write")

BlockWaitersCounted ==
  \A b \in Blocks :
    /\ waitingReaders[b] = Cardinality(Waiters(b, "read"))
    /\ waitingWriters[b] = Cardinality(Waiters(b, "write"))

IInv ==
  /\ TypeOK
  /\ PointersOK
  /\ LocalOK
  /\ BlocksApart
  /\ MutualExclusion
  /\ HoldsCounted
  /\ BlockWaitersCounted
  /\ SleepersWait
  /\ FreeBlockClean

-----------------------------------------------------------------------------
(* Sets of threads and their size.                                         *)

LEMMA ThreadSets ==
  ASSUME NEW S \in SUBSET Threads
  PROVE  /\ Cardinality(S) \in Nat
         /\ Cardinality(S) = 0 <=> S = {}
         /\ \A t \in Threads : t \notin S => Cardinality(S \cup {t}) = Cardinality(S) + 1
         /\ \A t \in Threads : t \in S => Cardinality(S \ {t}) = Cardinality(S) - 1
  <1>1. IsFiniteSet(S)
    BY LockAssumption, FS_Subset
  <1> QED
    BY <1>1, FS_CardinalityType, FS_EmptySet, FS_AddElement, FS_RemoveElement

\* The holders of a lock are finitely many.
LEMMA HoldersAreThreads ==
  \A l, m : /\ Holders(l, m) \in SUBSET Threads
            /\ Cardinality(Holders(l, m)) \in Nat
            /\ Cardinality(Holders(l, m)) = 0 <=> Holders(l, m) = {}
  <1> SUFFICES ASSUME NEW l, NEW m
               PROVE  /\ Holders(l, m) \in SUBSET Threads
                      /\ Cardinality(Holders(l, m)) \in Nat
                      /\ Cardinality(Holders(l, m)) = 0 <=> Holders(l, m) = {}
    OBVIOUS
  <1>1. Holders(l, m) \in SUBSET Threads
    BY DEF Holders
  <1> QED
    BY <1>1, ThreadSets

\* So are the threads that wait in a block.
LEMMA WaitersAreThreads ==
  \A b, m : /\ Waiters(b, m) \in SUBSET Threads
            /\ Cardinality(Waiters(b, m)) \in Nat
            /\ Cardinality(Waiters(b, m)) = 0 <=> Waiters(b, m) = {}
  <1> SUFFICES ASSUME NEW b, NEW m
               PROVE  /\ Waiters(b, m) \in SUBSET Threads
                      /\ Cardinality(Waiters(b, m)) \in Nat
                      /\ Cardinality(Waiters(b, m)) = 0 <=> Waiters(b, m) = {}
    OBVIOUS
  <1>1. Waiters(b, m) \in SUBSET Threads
    BY DEF Waiters
  <1> QED
    BY <1>1, ThreadSets

\* The constructor establishes the inductive invariant: no lock is held.
LEMMA InitIInv == Init => IInv
  <1> SUFFICES ASSUME Init PROVE IInv
    OBVIOUS
  <1> USE LockAssumption
  <1>1. \A l, m : Holders(l, m) = {}
    BY DEF Init, Holders
  <1>2. \A b, m : Waiters(b, m) = {}
    BY DEF Init, Waiters
  <1>3. TypeOK
    BY DEF Init, TypeOK, Pointer, State, Timeout, Null
  <1>4. PointersOK /\ LocalOK /\ BlocksApart
    BY DEF Init, PointersOK, WellFormed, LocalOK, BlocksApart, Null
  <1>5. MutualExclusion /\ HoldsCounted
    <2>1. \A l \in Locks : d_ptr[l].kind = "null"
      BY DEF Init, Null
    <2> QED
      BY <1>1, <2>1, HoldersAreThreads DEF MutualExclusion, HoldsCounted
  <1>6. BlockWaitersCounted /\ SleepersWait /\ FreeBlockClean
    BY <1>2, WaitersAreThreads DEF Init, BlockWaitersCounted, SleepersWait, FreeBlockClean
  <1> QED
    BY <1>3, <1>4, <1>5, <1>6 DEF IInv

-----------------------------------------------------------------------------
(* Who holds a lock and who waits in a block, from one state to the next.  *)

\* Holding a lock, in the sense of Holders.
Held == {"holding", "leaving", "unlocking"}

\* Who holds what changes only with pc, lock and mode.
LEMMA SameHolders ==
  ASSUME \A u \in Threads :
           /\ pc'[u] \in Held <=> pc[u] \in Held
           /\ pc[u] \in Held => lock'[u] = lock[u] /\ mode'[u] = mode[u]
  PROVE  \A l, m : Holders(l, m)' = Holders(l, m)
  BY DEF Holders, Held

\* Who waits where changes only with pc, d and mode.
LEMMA SameWaiters ==
  ASSUME \A u \in Threads :
           /\ pc'[u] = "waiting" <=> pc[u] = "waiting"
           /\ pc[u] = "waiting" => d'[u] = d[u] /\ mode'[u] = mode[u]
  PROVE  \A b, m : Waiters(b, m)' = Waiters(b, m)
  BY DEF Waiters

\* A thread that goes to "holding" joins the holders of its lock.
LEMMA JoinHolders ==
  ASSUME TypeOK, NEW t \in Threads, NEW l, NEW m, l = lock[t], m = mode[t],
         pc[t] \notin Held, Goto(t, "holding"), UNCHANGED <<lock, mode>>
  PROVE  /\ Holders(l, m)' = Holders(l, m) \cup {t}
         /\ Cardinality(Holders(l, m)') = Cardinality(Holders(l, m)) + 1
         /\ \A k, n : k # l \/ n # m => Holders(k, n)' = Holders(k, n)
  <1>1. /\ Holders(l, m)' = Holders(l, m) \cup {t}
        /\ \A k, n : k # l \/ n # m => Holders(k, n)' = Holders(k, n)
        /\ t \notin Holders(l, m)
    BY DEF TypeOK, Goto, Held, Holders
  <1> QED
    BY <1>1, ThreadSets, HoldersAreThreads

\* A thread that returns from unlock() leaves them.
LEMMA LeaveHolders ==
  ASSUME TypeOK, NEW t \in Threads, NEW l, NEW m, l = lock[t], m = mode[t],
         pc[t] \in Held, Release(t)
  PROVE  /\ t \in Holders(l, m)
         /\ Holders(l, m)' = Holders(l, m) \ {t}
         /\ Cardinality(Holders(l, m)') = Cardinality(Holders(l, m)) - 1
         /\ \A k, n : k # l \/ n # m => Holders(k, n)' = Holders(k, n)
  <1>1. /\ t \in Holders(l, m)
        /\ Holders(l, m)' = Holders(l, m) \ {t}
        /\ \A k, n : k # l \/ n # m => Holders(k, n)' = Holders(k, n)
    BY DEF TypeOK, Goto, Release, Held, Holders
  <1> QED
    BY <1>1, ThreadSets, HoldersAreThreads

\* A step that changes no shared state, and moves nobody in or out.
LEMMA SharedUnchanged ==
  ASSUME IInv, UNCHANGED <<d_ptr, counts, waits, freelist>>,
         \A l, m : Holders(l, m)' = Holders(l, m),
         \A b, m : Waiters(b, m)' = Waiters(b, m)
  PROVE  /\ MutualExclusion' /\ HoldsCounted'
         /\ BlockWaitersCounted' /\ SleepersWait' /\ FreeBlockClean'
  BY DEF IInv, MutualExclusion, HoldsCounted, BlockWaitersCounted, SleepersWait,
         FreeBlockClean, counts, waits

-----------------------------------------------------------------------------
(* Every action keeps the inductive invariant.                             *)

\* The call of lockForRead, lockForWrite, or one of the try functions.
LEMMA CallIInv ==
  ASSUME IInv, NEW t \in Threads, NEW l \in Locks, NEW m \in {"read", "write"},
         NEW tm \in Timeouts, Call(t, l, m, tm)
  PROVE  IInv'
  <1> USE DEF IInv
  <1>1. /\ \A k, n : Holders(k, n)' = Holders(k, n)
        /\ \A b, n : Waiters(b, n)' = Waiters(b, n)
    BY SameHolders, SameWaiters DEF Call, Goto, TypeOK, Held
  <1>2. TypeOK'
    BY LockAssumption DEF Call, Goto, TypeOK, counts, waits, Timeout, Pointer, Null, State
  <1>3. PointersOK'
    BY LockAssumption DEF Call, Goto, TypeOK, PointersOK, WellFormed, Null
  <1>4. LocalOK' /\ BlocksApart'
    BY DEF Call, Goto, TypeOK, LocalOK, BlocksApart, counts
  <1> QED
    BY <1>1, <1>2, <1>3, <1>4, SharedUnchanged DEF Call

\* The steps that only move the thread, or load d_ptr.
LEMMA PrivateStepIInv ==
  ASSUME IInv, NEW t \in Threads,
         \/ GiveUpUncontended(t)
         \/ Stale(t)
         \/ LoadAgain(t)
         \/ Leave(t)
         \/ LoadForUnlock(t)
  PROVE  IInv'
  <1> USE DEF IInv
  <1> USE DEF GiveUpUncontended, MustInflate, Fail, Stale, LoadAgain, Leave, LoadForUnlock, Goto
  <1>1. /\ \A k, n : Holders(k, n)' = Holders(k, n)
        /\ \A b, n : Waiters(b, n)' = Waiters(b, n)
    BY SameHolders, SameWaiters DEF TypeOK, Held, call
  <1>2. TypeOK'
    BY DEF TypeOK, LocalOK, counts, waits, call, State
  <1>3. PointersOK'
    BY DEF TypeOK, LocalOK, PointersOK
  <1>4. pc[t] = "leaving" => d_ptr[lock[t]].kind # "null"
    <2> SUFFICES ASSUME pc[t] = "leaving" PROVE d_ptr[lock[t]].kind # "null"
      OBVIOUS
    <2>1. lock[t] \in Locks /\ t \in Holders(lock[t], mode[t]) /\ mode[t] \in {"read", "write"}
      BY DEF TypeOK, LocalOK, Holders
    <2> QED
      BY <2>1, HoldersAreThreads DEF HoldsCounted
  <1>5. LocalOK'
    BY <1>4 DEF TypeOK, LocalOK, BlocksApart, counts, call
  <1>6. BlocksApart'
    BY <1>4 DEF TypeOK, LocalOK, BlocksApart, counts, call
  <1> QED
    BY <1>1, <1>2, <1>3, <1>5, <1>6, SharedUnchanged

\* A step that changes d_ptr only, and only where no block is.
LEMMA BlocksUnchanged ==
  ASSUME IInv, UNCHANGED <<counts, waits, freelist>>,
         \A b, m : Waiters(b, m)' = Waiters(b, m)
  PROVE  BlockWaitersCounted' /\ SleepersWait' /\ FreeBlockClean'
  BY DEF IInv, BlockWaitersCounted, SleepersWait, FreeBlockClean, counts, waits

\* A CAS that fails and is tried again with what it loaded.
LEMMA ReloadIInv ==
  ASSUME IInv, NEW t \in Threads, pc[t] \in {"trying", "unlocking"}, Reload(t),
         UNCHANGED <<d_ptr, pc, counts, waits, freelist, call, val>>
  PROVE  IInv'
  <1> USE DEF IInv, Reload, call
  <1>1. /\ \A k, n : Holders(k, n)' = Holders(k, n)
        /\ \A b, n : Waiters(b, n)' = Waiters(b, n)
    BY SameHolders, SameWaiters DEF TypeOK, Held
  <1>2. TypeOK' /\ PointersOK'
    BY DEF TypeOK, LocalOK, PointersOK, WellFormed, counts, waits
  <1>3. pc[t] = "unlocking" => d_ptr[lock[t]].kind # "null"
    <2> SUFFICES ASSUME pc[t] = "unlocking" PROVE d_ptr[lock[t]].kind # "null"
      OBVIOUS
    <2>1. lock[t] \in Locks /\ t \in Holders(lock[t], mode[t]) /\ mode[t] \in {"read", "write"}
      BY DEF TypeOK, LocalOK, Holders
    <2> QED
      BY <2>1, HoldersAreThreads DEF HoldsCounted
  <1>4. LocalOK' /\ BlocksApart'
    BY <1>3 DEF TypeOK, LocalOK, BlocksApart, counts
  <1> QED
    BY <1>1, <1>2, <1>4, SharedUnchanged

\* The CAS that takes the lock (lines 103-122, 161-172).
LEMMA TakeUncontendedIInv ==
  ASSUME IInv, NEW t \in Threads, TakeUncontended(t)
  PROVE  IInv'
  <1> USE DEF IInv
  <1>1. CASE Reload(t) /\ UNCHANGED <<d_ptr, pc>>
    BY <1>1, ReloadIInv DEF TakeUncontended
  <1>2. CASE Swap(t, Taken(mode[t], d[t])) /\ Goto(t, "holding")
    <2>0. PICK l \in Locks, m \in {"read", "write"} : l = lock[t] /\ m = mode[t]
      BY DEF TakeUncontended, TypeOK, LocalOK
    <2>1. /\ l = lock[t] /\ m = mode[t]
          /\ d_ptr[l] = d[t] /\ CanTake(m, d_ptr[l])
          /\ d_ptr' = [d_ptr EXCEPT ![l] = Taken(m, d_ptr[l])]
          /\ d_ptr[l] \in Pointer /\ WellFormed(d_ptr[l])
          /\ pc[t] = "trying"
      BY <1>2, <2>0 DEF TakeUncontended, Swap, TypeOK, PointersOK
    <2>2. /\ UNCHANGED <<counts, waits, freelist, lock, mode, timeout, d, val>>
          /\ Goto(t, "holding")
      BY <1>2 DEF TakeUncontended, Swap, call
    <2>3. d_ptr[l].kind \in {"null", "read"} /\ d_ptr[l].block \notin Blocks
      BY <2>1 DEF CanTake, WellFormed
    <2>4. /\ Taken(m, d_ptr[l]) \in Pointer /\ WellFormed(Taken(m, d_ptr[l]))
          /\ Taken(m, d_ptr[l]).block = NoBlock
          /\ Taken(m, d_ptr[l]).kind = m
          /\ m = "read" => Taken(m, d_ptr[l]).n = d_ptr[l].n + 1
      BY <2>1, LockAssumption DEF Taken, Writing, Reading, Pointer, WellFormed
    <2>5. \A b, n : Waiters(b, n)' = Waiters(b, n)
      BY <2>1, <2>2, SameWaiters DEF TypeOK, Goto
    <2>6. TypeOK' /\ PointersOK'
      BY <2>1, <2>2, <2>4 DEF TypeOK, PointersOK, counts, waits, Goto, State
    <2>7. LocalOK'
      BY <2>1, <2>2, <2>3, <2>4 DEF TypeOK, LocalOK, Goto, counts
    <2>8. BlocksApart'
      BY <2>1, <2>2, <2>3, <2>4, LockAssumption DEF TypeOK, BlocksApart, PointersOK, WellFormed, LocalOK, Goto
    <2>9. /\ Holders(l, m)' = Holders(l, m) \cup {t}
          /\ Cardinality(Holders(l, m)') = Cardinality(Holders(l, m)) + 1
          /\ \A k, n : k # l \/ n # m => Holders(k, n)' = Holders(k, n)
      BY <2>1, <2>2, JoinHolders DEF Held
    <2>10. /\ m = "read" => Holders(l, "write") = {}
           /\ m = "write" => Holders(l, "read") = {} /\ Holders(l, "write") = {}
      BY <2>1, <2>3, HoldersAreThreads DEF HoldsCounted, CanTake
    <2>11. MutualExclusion'
      BY <2>1, <2>9, <2>10 DEF MutualExclusion
    <2>12. HoldsCounted'
      <3>1. \A n : Holders(l, n) = {} => Cardinality(Holders(l, n)) = 0
        BY HoldersAreThreads
      <3>2. d_ptr[l].kind = "null" => d_ptr[l].n = 0
        BY <2>1 DEF WellFormed, Pointer
      <3>3. /\ Cardinality(Holders(l, "read")) \in Nat
            /\ m = "read" => Cardinality(Holders(l, "read")) = d_ptr[l].n
        BY <2>1, <2>3, <3>2, HoldersAreThreads DEF HoldsCounted
      <3>4. /\ m = "read" => /\ Cardinality(Holders(l, "read")') = d_ptr[l].n + 1
                              /\ Cardinality(Holders(l, "write")') = 0
            /\ m = "write" => /\ Cardinality(Holders(l, "read")') = 0
                               /\ Cardinality(Holders(l, "write")') = 1
        BY <2>9, <2>10, <3>1, <3>3
      <3>5. d_ptr'[l] = Taken(m, d_ptr[l]) /\ \A k \in Locks \ {l} : d_ptr'[k] = d_ptr[k]
        BY <2>1 DEF TypeOK
      <3> QED
        BY <2>1, <2>2, <2>4, <2>9, <3>3, <3>4, <3>5 DEF HoldsCounted, counts
    <2> QED
      BY <2>2, <2>5, <2>6, <2>7, <2>8, <2>11, <2>12, BlocksUnchanged
  <1> QED
    BY <1>1, <1>2 DEF TakeUncontended

\* A block from the free list is not in use elsewhere (lines 124-130, 174-185).
LEMMA InflateIInv ==
  ASSUME IInv, NEW t \in Threads, Inflate(t)
  PROVE  IInv'
  <1> USE DEF IInv
  <1>1. PICK b \in freelist :
          /\ freelist' = freelist \ {b}
          /\ val' = [val EXCEPT ![t] = b]
          /\ writerCount' = [writerCount EXCEPT ![b] = IF d[t].kind = "write" THEN 1 ELSE 0]
          /\ readerCount' = [readerCount EXCEPT ![b] = IF d[t].kind = "read" THEN d[t].n ELSE 0]
    BY DEF Inflate
  <1>2. /\ pc[t] = "trying" /\ d[t].kind \in {"read", "write"} /\ lock[t] \in Locks
        /\ Goto(t, "inflating")
        /\ UNCHANGED <<d_ptr, waits, call, d>>
        /\ b \in Blocks
    BY DEF Inflate, MustInflate, TypeOK, LocalOK
  <1>3. /\ \A k, n : Holders(k, n)' = Holders(k, n)
        /\ \A c, n : Waiters(c, n)' = Waiters(c, n)
    BY <1>2, SameHolders, SameWaiters DEF Goto, TypeOK, Held, call
  <1>4. TypeOK' /\ PointersOK'
    BY <1>1, <1>2 DEF TypeOK, PointersOK, Goto, waits, call, Pointer, State
  <1>5. LocalOK'
    BY <1>1, <1>2 DEF TypeOK, LocalOK, BlocksApart, Goto, call
  <1>6. BlocksApart'
    BY <1>1, <1>2 DEF TypeOK, LocalOK, BlocksApart, PointersOK, WellFormed, Goto, call
  <1>7. MutualExclusion'
    BY <1>3 DEF MutualExclusion
  <1>8. HoldsCounted'
    BY <1>1, <1>2, <1>3 DEF HoldsCounted, BlocksApart, TypeOK, PointersOK, WellFormed
  <1>9. BlockWaitersCounted' /\ SleepersWait' /\ FreeBlockClean'
    BY <1>1, <1>2, <1>3 DEF BlockWaitersCounted, SleepersWait, FreeBlockClean, TypeOK, waits
  <1> QED
    BY <1>4, <1>5, <1>6, <1>7, <1>8, <1>9

\* The counts of the block are those of the state it replaces, if the CAS
\* succeeds (lines 131, 186).
LEMMA PublishIInv ==
  ASSUME IInv, NEW t \in Threads, Publish(t)
  PROVE  IInv'
  <1> USE DEF IInv
  <1> DEFINE l == lock[t]
             b == val[t]
  <1>1. /\ pc[t] = "inflating" /\ l \in Locks /\ b \in Blocks /\ d_ptr[l] = d[t]
        /\ d[t].kind \in {"read", "write"}
        /\ d_ptr' = [d_ptr EXCEPT ![l] = Contended(b)]
        /\ d' = [d EXCEPT ![t] = Contended(b)]
        /\ val' = [val EXCEPT ![t] = NoBlock]
        /\ Goto(t, "trying")
        /\ UNCHANGED <<counts, waits, freelist, call>>
    BY DEF Publish, LocalOK
  <1>2. /\ Contended(b) \in Pointer /\ WellFormed(Contended(b))
        /\ Contended(b).kind = "block" /\ Contended(b).block = b
    BY <1>1 DEF Contended, Pointer, WellFormed
  <1>3. /\ \A k, n : Holders(k, n)' = Holders(k, n)
        /\ \A c, n : Waiters(c, n)' = Waiters(c, n)
    BY <1>1, SameHolders, SameWaiters DEF Goto, TypeOK, Held, call
  <1>4. TypeOK' /\ PointersOK'
    BY <1>1, <1>2 DEF TypeOK, PointersOK, Goto, counts, waits, call, State
  <1>5. LocalOK'
    BY <1>1, <1>2 DEF TypeOK, LocalOK, BlocksApart, Goto, call, counts
  <1>6. BlocksApart'
    BY <1>1, <1>2 DEF TypeOK, LocalOK, BlocksApart, Goto, call
  <1>7. MutualExclusion'
    BY <1>3 DEF MutualExclusion
  <1>8. readerCount[b] = Cardinality(Holders(l, "read")) /\ writerCount[b] = Cardinality(Holders(l, "write"))
    BY <1>1 DEF HoldsCounted, LocalOK
  <1>9. HoldsCounted'
    BY <1>1, <1>2, <1>3, <1>8 DEF HoldsCounted, TypeOK, counts
  <1> QED
    BY <1>1, <1>3, <1>4, <1>5, <1>6, <1>7, <1>9, BlocksUnchanged

\* The block goes back unused, if the CAS fails (lines 132-137, 187-192).
LEMMA RetractIInv ==
  ASSUME IInv, NEW t \in Threads, Retract(t)
  PROVE  IInv'
  <1> USE DEF IInv
  <1> DEFINE b == val[t]
  <1>1. /\ pc[t] = "inflating" /\ lock[t] \in Locks /\ b \in Blocks
        /\ d' = [d EXCEPT ![t] = d_ptr[lock[t]]]
        /\ writerCount' = [writerCount EXCEPT ![b] = 0]
        /\ readerCount' = [readerCount EXCEPT ![b] = 0]
        /\ freelist' = freelist \cup {b}
        /\ val' = [val EXCEPT ![t] = NoBlock]
        /\ Goto(t, "trying")
        /\ UNCHANGED <<d_ptr, waits, call>>
    BY DEF Retract, Reload, LocalOK
  <1>2. /\ b \notin freelist
        /\ \A k \in Locks : d_ptr[k].block # b
        /\ \A u \in Threads : pc[u] = "inflating" /\ val[u] = b => u = t
    BY <1>1 DEF BlocksApart
  <1> HIDE DEF b
  <1>3. /\ \A k, n : Holders(k, n)' = Holders(k, n)
        /\ \A c, n : Waiters(c, n)' = Waiters(c, n)
    BY <1>1, SameHolders, SameWaiters DEF Goto, TypeOK, Held, call
  <1>4. TypeOK' /\ PointersOK'
    BY <1>1 DEF TypeOK, PointersOK, Goto, waits, call, State
  <1>5. LocalOK'
    BY <1>1, <1>2 DEF TypeOK, LocalOK, Goto, call
  <1>6. BlocksApart'
    BY <1>1, <1>2 DEF TypeOK, BlocksApart, Goto, call
  <1>7. MutualExclusion'
    BY <1>3 DEF MutualExclusion
  <1>8. HoldsCounted'
    BY <1>1, <1>2, <1>3 DEF HoldsCounted, TypeOK, PointersOK, WellFormed
  <1>9. \A n : Waiters(b, n) = {}
    BY <1>1, <1>2 DEF Waiters, LocalOK
  <1>10. BlockWaitersCounted' /\ SleepersWait'
    BY <1>1, <1>3 DEF BlockWaitersCounted, SleepersWait, waits
  <1>11. FreeBlockClean'
    BY <1>1, <1>9, WaitersAreThreads DEF BlockWaitersCounted, SleepersWait, FreeBlockClean, TypeOK, waits
  <1> QED
    BY <1>4, <1>5, <1>6, <1>7, <1>8, <1>10, <1>11

\* A wait that ends takes the thread off the condition variable, and no more.
LEMMA StopWaitingIInv ==
  ASSUME IInv, NEW t \in Threads, StopWaiting(t)
  PROVE  IInv'
  <1> USE DEF IInv
  <1>1. /\ UNCHANGED <<d_ptr, counts, waitingReaders, waitingWriters, freelist, pc, call, d, val>>
        /\ d[t].block \in Blocks
        /\ readerCond' = [readerCond EXCEPT ![d[t].block] = @ \ {t}]
        /\ writerCond' = [writerCond EXCEPT ![d[t].block] = @ \ {t}]
    BY DEF StopWaiting, LocalOK, PointersOK, WellFormed
  <1>2. /\ \A k, n : Holders(k, n)' = Holders(k, n)
        /\ \A b, n : Waiters(b, n)' = Waiters(b, n)
    BY <1>1, SameHolders, SameWaiters DEF call
  <1>3. TypeOK'
    BY <1>1 DEF TypeOK, counts, call
  <1>4. PointersOK' /\ LocalOK' /\ BlocksApart'
    BY <1>1 DEF PointersOK, LocalOK, BlocksApart, counts, call
  <1>5. MutualExclusion' /\ HoldsCounted' /\ BlockWaitersCounted'
    BY <1>1, <1>2 DEF MutualExclusion, HoldsCounted, BlockWaitersCounted, counts
  <1>6. SleepersWait' /\ FreeBlockClean'
    BY <1>1, <1>2 DEF SleepersWait, FreeBlockClean, TypeOK, counts
  <1> QED
    BY <1>3, <1>4, <1>5, <1>6

\* How many others wait.
LEMMA WithoutThread ==
  \A t \in Threads : \A b, n :
    Cardinality(Waiters(b, n) \ {t}) =
      IF t \in Waiters(b, n) THEN Cardinality(Waiters(b, n)) - 1
                            ELSE Cardinality(Waiters(b, n))
  <1> SUFFICES ASSUME NEW t \in Threads, NEW b, NEW n
               PROVE  Cardinality(Waiters(b, n) \ {t}) =
                        IF t \in Waiters(b, n) THEN Cardinality(Waiters(b, n)) - 1
                                              ELSE Cardinality(Waiters(b, n))
    OBVIOUS
  <1>1. CASE t \in Waiters(b, n)
    BY <1>1, ThreadSets, WaitersAreThreads
  <1>2. CASE t \notin Waiters(b, n)
    <2>1. Waiters(b, n) \ {t} = Waiters(b, n)
      BY <1>2
    <2> QED
      BY <1>2, <2>1
  <1> QED
    BY <1>1, <1>2

\* A critical section of ScReadWriteLockPrivate::lockForRead or lockForWrite
\* whose counts of waiting threads leave the caller out.
LEMMA LockBlockIInv ==
  ASSUME IInv, NEW t \in Threads, NEW b \in Blocks,
         pc[t] \in {"trying", "waiting"},
         d[t].kind = "block", d[t].block = b, d[t] = d_ptr[lock[t]],
         t \notin readerCond[b], t \notin writerCond[b],
         NEW wr, NEW ww,
         wr = Cardinality(Waiters(b, "read") \ {t}),
         ww = Cardinality(Waiters(b, "write") \ {t}),
         LockBlock(t, b, wr, ww)
  PROVE  IInv'
  <1> USE DEF IInv
  <1>1. PICK l \in Locks, m \in {"read", "write"} : l = lock[t] /\ m = mode[t]
    BY DEF TypeOK, LocalOK
  <1>2. /\ wr \in Nat /\ ww \in Nat
        /\ UNCHANGED <<d_ptr, freelist, d, val>>
    BY ThreadSets, WaitersAreThreads DEF LockBlock
  <1>3. /\ d_ptr[l].kind = "block" /\ d_ptr[l].block = b
        /\ b \notin freelist
        /\ \A k \in Locks : d_ptr[k].block = b => k = l
        /\ \A u \in Threads : pc[u] = "inflating" => val[u] # b
        /\ readerCount[b] = Cardinality(Holders(l, "read"))
        /\ writerCount[b] = Cardinality(Holders(l, "write"))
        /\ \A c, n : c # b => t \notin Waiters(c, n)
        /\ \A c, n : n # m => t \notin Waiters(c, n)
        /\ \A k, n : t \notin Holders(k, n)
    <2>1. d_ptr[l].kind = "block" /\ d_ptr[l].block = b
      BY <1>1
    <2>2. /\ b \notin freelist
          /\ \A k \in Locks : d_ptr[k].block = b => k = l
          /\ \A u \in Threads : pc[u] = "inflating" => val[u] # b
      BY <2>1 DEF BlocksApart
    <2>3. /\ readerCount[b] = Cardinality(Holders(l, "read"))
          /\ writerCount[b] = Cardinality(Holders(l, "write"))
      BY <2>1 DEF HoldsCounted
    <2> QED
      BY <1>1, <2>1, <2>2, <2>3 DEF Holders, Waiters
  <1>4. /\ wr = IF t \in Waiters(b, "read") THEN waitingReaders[b] - 1 ELSE waitingReaders[b]
        /\ ww = IF t \in Waiters(b, "write") THEN waitingWriters[b] - 1 ELSE waitingWriters[b]
    BY WithoutThread DEF BlockWaitersCounted
  \* What every alternative has in common.
  <1>5. ASSUME pc' \in [Threads -> State],
               \A u \in Threads \ {t} : pc'[u] = pc[u] /\ lock'[u] = lock[u],
               pc'[t] \in {"idle", "waiting", "holding"},
               pc'[t] # "idle" => lock'[t] = l,
               lock' \in [Threads -> Locks \cup {NoLock}],
               UNCHANGED <<mode, timeout>>,
               readerCount' \in [Blocks -> Nat], writerCount' \in [Blocks -> Nat],
               waitingReaders' \in [Blocks -> Int], waitingWriters' \in [Blocks -> Int],
               readerCond' \in [Blocks -> SUBSET Threads],
               writerCond' \in [Blocks -> SUBSET Threads],
               \A c \in Blocks \ {b} :
                 /\ readerCount'[c] = readerCount[c]
                 /\ writerCount'[c] = writerCount[c]
                 /\ waitingReaders'[c] = waitingReaders[c]
                 /\ waitingWriters'[c] = waitingWriters[c]
                 /\ readerCond'[c] = readerCond[c]
                 /\ writerCond'[c] = writerCond[c],
               waitingReaders'[b] = IF m = "read" /\ pc'[t] = "waiting" THEN wr + 1 ELSE wr,
               waitingWriters'[b] = IF m = "write" /\ pc'[t] = "waiting" THEN ww + 1 ELSE ww,
               readerCond'[b] \subseteq
                 readerCond[b] \cup (IF m = "read" /\ pc'[t] = "waiting" THEN {t} ELSE {}),
               writerCond'[b] \subseteq
                 writerCond[b] \cup (IF m = "write" /\ pc'[t] = "waiting" THEN {t} ELSE {})
        PROVE  /\ TypeOK' /\ PointersOK' /\ LocalOK' /\ BlocksApart'
               /\ BlockWaitersCounted' /\ SleepersWait' /\ FreeBlockClean'
    <2>1. TypeOK' /\ PointersOK'
      BY <1>2, <1>5 DEF TypeOK, PointersOK
    <2>2. LocalOK'
      BY <1>1, <1>2, <1>3, <1>5 DEF LocalOK
    <2>3. BlocksApart'
      BY <1>2, <1>5 DEF BlocksApart
    <2>4. \A c \in Blocks : \A n : Waiters(c, n)' =
            IF c = b /\ n = m /\ pc'[t] = "waiting"
            THEN (Waiters(c, n) \ {t}) \cup {t}
            ELSE Waiters(c, n) \ {t}
      BY <1>1, <1>2, <1>5 DEF Waiters
    <2>5. /\ \A c \in Blocks \ {b} : \A n : Waiters(c, n)' = Waiters(c, n)
          /\ \A n : n # m \/ pc'[t] # "waiting" => Waiters(b, n)' = Waiters(b, n) \ {t}
          /\ pc'[t] = "waiting" => Waiters(b, m)' = (Waiters(b, m) \ {t}) \cup {t}
      BY <1>3, <2>4
    <2>6. /\ Cardinality((Waiters(b, "read") \ {t}) \cup {t}) = wr + 1
          /\ Cardinality((Waiters(b, "write") \ {t}) \cup {t}) = ww + 1
      <3>1. \A n : Waiters(b, n) \ {t} \in SUBSET Threads /\ t \notin Waiters(b, n) \ {t}
        BY WaitersAreThreads
      <3> QED
        BY <3>1, ThreadSets
    <2>7. /\ waitingReaders'[b] = Cardinality(Waiters(b, "read")')
          /\ waitingWriters'[b] = Cardinality(Waiters(b, "write")')
      BY <1>1, <1>5, <2>5, <2>6
    <2>8. BlockWaitersCounted'
      BY <1>5, <2>5, <2>7 DEF BlockWaitersCounted
    <2>9. SleepersWait'
      <3>1. \A c \in Blocks \ {b} : /\ readerCond'[c] \subseteq Waiters(c, "read")'
                                    /\ writerCond'[c] \subseteq Waiters(c, "write")'
        BY <1>5, <2>5 DEF SleepersWait
      <3>2. /\ readerCond[b] \subseteq Waiters(b, "read") \ {t}
            /\ writerCond[b] \subseteq Waiters(b, "write") \ {t}
        BY DEF SleepersWait
      <3>3. /\ readerCond'[b] \subseteq Waiters(b, "read")'
            /\ writerCond'[b] \subseteq Waiters(b, "write")'
        <4>1. CASE pc'[t] = "waiting"
          <5>1. /\ m = "read" => readerCond'[b] \subseteq readerCond[b] \cup {t}
                                /\ writerCond'[b] \subseteq writerCond[b]
                /\ m = "write" => writerCond'[b] \subseteq writerCond[b] \cup {t}
                                 /\ readerCond'[b] \subseteq readerCond[b]
            BY <1>5, <4>1
          <5>2. \A n : Waiters(b, n) \ {t} \subseteq Waiters(b, n)'
            BY <2>5, <4>1
          <5>3. t \in Waiters(b, m)'
            BY <2>5, <4>1
          <5> QED
            BY <1>1, <3>2, <5>1, <5>2, <5>3
        <4>2. CASE pc'[t] # "waiting"
          <5>1. readerCond'[b] \subseteq readerCond[b] /\ writerCond'[b] \subseteq writerCond[b]
            BY <1>5, <4>2
          <5> QED
            BY <2>5, <3>2, <4>2, <5>1
        <4> QED
          BY <4>1, <4>2
      <3> QED
        BY <3>1, <3>3 DEF SleepersWait
    <2>10. FreeBlockClean'
      BY <1>2, <1>3, <1>5 DEF FreeBlockClean, TypeOK
    <2> QED
      BY <2>1, <2>2, <2>3, <2>8, <2>9, <2>10
  <1>6. CASE AcquireRead(t, b, wr, ww) \/ AcquireWrite(t, b, wr, ww)
    <2>1. /\ Goto(t, "holding")
          /\ UNCHANGED <<lock, mode, timeout, readerCond, writerCond>>
          /\ m = "read" => /\ readerCount' = [readerCount EXCEPT ![b] = @ + 1]
                           /\ waitingReaders' = [waitingReaders EXCEPT ![b] = wr]
                           /\ UNCHANGED <<writerCount, waitingWriters>>
                           /\ writerCount[b] = 0
          /\ m = "write" => /\ writerCount' = [writerCount EXCEPT ![b] = 1]
                            /\ waitingWriters' = [waitingWriters EXCEPT ![b] = ww]
                            /\ UNCHANGED <<readerCount, waitingReaders>>
                            /\ writerCount[b] = 0 /\ readerCount[b] = 0
      BY <1>1, <1>6 DEF AcquireRead, AcquireWrite, ReadBlocked, WriteBlocked, call
    <2>2. /\ TypeOK' /\ PointersOK' /\ LocalOK' /\ BlocksApart'
          /\ BlockWaitersCounted' /\ SleepersWait' /\ FreeBlockClean'
      <3>1. m = "read" => waitingWriters[b] = ww
        BY <1>3, <1>4
      <3>2. m = "write" => waitingReaders[b] = wr
        BY <1>3, <1>4
      <3> QED
        BY <1>1, <1>2, <1>5, <2>1, <3>1, <3>2 DEF TypeOK, Goto, State
    <2>3. /\ Holders(l, m)' = Holders(l, m) \cup {t}
          /\ Cardinality(Holders(l, m)') = Cardinality(Holders(l, m)) + 1
          /\ \A k, n : k # l \/ n # m => Holders(k, n)' = Holders(k, n)
      BY <1>1, <2>1, JoinHolders DEF Held
    <2>4. /\ Holders(l, "write") = {}
          /\ m = "write" => Holders(l, "read") = {}
      BY <1>1, <1>3, <2>1, HoldersAreThreads
    <2>5. MutualExclusion'
      BY <1>1, <2>3, <2>4 DEF MutualExclusion
    <2>6. /\ readerCount'[b] = Cardinality(Holders(l, "read")')
          /\ writerCount'[b] = Cardinality(Holders(l, "write")')
      <3>1. \A n : n # m => Cardinality(Holders(l, n)') = Cardinality(Holders(l, n))
        BY <2>3
      <3>2. m = "write" => Cardinality(Holders(l, "write")) = 0
        BY <1>3, <2>1
      <3>3. CASE m = "read"
        <4>1. readerCount'[b] = readerCount[b] + 1 /\ writerCount'[b] = writerCount[b]
          BY <2>1, <3>3 DEF TypeOK
        <4> QED
          BY <1>3, <2>3, <3>1, <3>3, <4>1
      <3>4. CASE m = "write"
        <4>1. writerCount'[b] = 1 /\ readerCount'[b] = readerCount[b]
          BY <2>1, <3>4 DEF TypeOK
        <4>2. Cardinality(Holders(l, "write")') = Cardinality(Holders(l, "write")) + 1
          BY <2>3, <3>4
        <4>3. Cardinality(Holders(l, "read")') = Cardinality(Holders(l, "read"))
          BY <3>1, <3>4
        <4> QED
          BY <1>3, <3>2, <3>4, <4>1, <4>2, <4>3
      <3> QED
        BY <1>1, <3>3, <3>4
    <2>7. \A k \in Locks \ {l} : d_ptr[k].kind = "block" =>
            /\ readerCount'[d_ptr[k].block] = readerCount[d_ptr[k].block]
            /\ writerCount'[d_ptr[k].block] = writerCount[d_ptr[k].block]
      BY <1>3, <2>1 DEF TypeOK, PointersOK, WellFormed
    <2>8. HoldsCounted'
      BY <1>2, <1>3, <2>3, <2>6, <2>7 DEF HoldsCounted
    <2> QED
      BY <2>2, <2>5, <2>8
  <1>7. CASE \/ SleepRead(t, b, wr, ww) \/ SleepWrite(t, b, wr, ww)
             \/ FailRead(t, b, wr, ww)  \/ FailWrite(t, b, wr, ww)
    <2>1. /\ \/ pc' = [pc EXCEPT ![t] = "waiting"] /\ lock' = lock
             \/ pc' = [pc EXCEPT ![t] = "idle"] /\ lock' = [lock EXCEPT ![t] = NoLock]
          /\ UNCHANGED <<mode, timeout, counts>>
      <3>1. CASE SleepRead(t, b, wr, ww) \/ SleepWrite(t, b, wr, ww)
        <4>1. Goto(t, "waiting") /\ UNCHANGED <<counts, call>>
          BY <3>1 DEF SleepRead, SleepWrite
        <4> QED
          BY <4>1 DEF Goto, call
      <3>2. CASE FailRead(t, b, wr, ww) \/ FailWrite(t, b, wr, ww)
        BY <3>2 DEF FailRead, FailWrite, Fail, Goto
      <3> QED
        BY <1>7, <3>1, <3>2
    <2>2. /\ TypeOK' /\ PointersOK' /\ LocalOK' /\ BlocksApart'
          /\ BlockWaitersCounted' /\ SleepersWait' /\ FreeBlockClean'
      <3>1. m = "read" => waitingWriters[b] = ww
        BY <1>3, <1>4
      <3>2. m = "write" => waitingReaders[b] = wr
        BY <1>3, <1>4
      <3> USE <1>1, <1>2, <1>5, <2>1, <3>1, <3>2
      <3> USE DEF TypeOK, Goto, State, call, counts
      <3>3. CASE SleepRead(t, b, wr, ww)
        BY <3>3 DEF SleepRead
      <3>4. CASE SleepWrite(t, b, wr, ww)
        BY <3>4 DEF SleepWrite
      <3>5. CASE FailRead(t, b, wr, ww)
        BY <3>5 DEF FailRead, Fail
      <3>6. CASE FailWrite(t, b, wr, ww)
        BY <3>6 DEF FailWrite, Fail
      <3> QED
        BY <1>7, <3>3, <3>4, <3>5, <3>6
    <2>3. \A k, n : Holders(k, n)' = Holders(k, n)
      BY <2>1, SameHolders DEF TypeOK, Held
    <2>4. MutualExclusion' /\ HoldsCounted'
      BY <1>2, <2>1, <2>3 DEF MutualExclusion, HoldsCounted, counts
    <2> QED
      BY <2>2, <2>4
  <1> QED
    BY <1>6, <1>7 DEF LockBlock

\* Thread t is in a critical section of block b where wr readers and ww writers
\* wait besides it.
InSection(t, b, wr, ww) ==
  /\ pc[t] \in {"trying", "waiting"}
  /\ d[t].kind = "block" /\ d[t].block = b /\ d[t] = d_ptr[lock[t]]
  /\ t \notin readerCond[b] /\ t \notin writerCond[b]
  /\ wr = Cardinality(Waiters(b, "read") \ {t})
  /\ ww = Cardinality(Waiters(b, "write") \ {t})
  /\ LockBlock(t, b, wr, ww)

\* The first critical section of a call (lines 141-151, 195-206), and those after
\* a wait (lines 269-344), leave the caller out of the numbers they look at.
LEMMA CriticalSection ==
  ASSUME IInv, NEW t \in Threads, EnterBlock(t) \/ WakeUp(t)
  PROVE  \E b \in Blocks, wr \in Nat, ww \in Nat : InSection(t, b, wr, ww)
  <1> USE DEF IInv
  <1>1. PICK b \in Blocks : b = d[t].block
    BY DEF EnterBlock, WakeUp, LocalOK, PointersOK, WellFormed
  <1>2. /\ waitingReaders[b] = Cardinality(Waiters(b, "read"))
        /\ waitingWriters[b] = Cardinality(Waiters(b, "write"))
        /\ waitingReaders[b] \in Nat /\ waitingWriters[b] \in Nat
        /\ Cardinality(Waiters(b, "read") \ {t}) \in Nat
        /\ Cardinality(Waiters(b, "write") \ {t}) \in Nat
    <2>1. \A n : Waiters(b, n) \ {t} \in SUBSET Threads
      BY WaitersAreThreads
    <2> QED
      BY <2>1, ThreadSets, WaitersAreThreads DEF BlockWaitersCounted
  <1>3. CASE EnterBlock(t)
    <2>1. /\ pc[t] = "trying" /\ d[t].kind = "block" /\ d[t] = d_ptr[lock[t]]
          /\ LockBlock(t, b, waitingReaders[b], waitingWriters[b])
      BY <1>1, <1>3 DEF EnterBlock
    <2>2. \A n : Waiters(b, n) \ {t} = Waiters(b, n)
      BY <2>1 DEF Waiters
    <2>3. t \notin readerCond[b] /\ t \notin writerCond[b]
      BY <2>2 DEF SleepersWait
    <2>4. InSection(t, b, waitingReaders[b], waitingWriters[b])
      BY <1>1, <1>2, <2>1, <2>2, <2>3 DEF InSection
    <2> QED
      BY <1>2, <2>4
  <1>4. CASE WakeUp(t)
    <2> DEFINE wr == waitingReaders[b] - (IF mode[t] = "read" THEN 1 ELSE 0)
               ww == waitingWriters[b] - (IF mode[t] = "write" THEN 1 ELSE 0)
    <2>1. /\ pc[t] = "waiting" /\ d[t].kind = "block" /\ d[t] = d_ptr[lock[t]]
          /\ mode[t] \in {"read", "write"}
      BY <1>4 DEF WakeUp, LocalOK, TypeOK
    <2>2. LockBlock(t, b, wr, ww) /\ t \notin readerCond[b] /\ t \notin writerCond[b]
      BY <1>1, <1>4 DEF WakeUp, Asleep
    <2>3. \A n : t \in Waiters(b, n) <=> n = mode[t]
      BY <1>1, <2>1 DEF Waiters
    <2>4. /\ wr = Cardinality(Waiters(b, "read") \ {t})
          /\ ww = Cardinality(Waiters(b, "write") \ {t})
      <3>1. CASE mode[t] = "read"
        BY <1>2, <2>3, <3>1, WithoutThread
      <3>2. CASE mode[t] = "write"
        BY <1>2, <2>3, <3>2, WithoutThread
      <3> QED
        BY <2>1, <3>1, <3>2
    <2>5. wr \in Nat /\ ww \in Nat
      BY <1>2, <2>4
    <2> HIDE DEF wr, ww
    <2>6. InSection(t, b, wr, ww)
      BY <1>1, <2>1, <2>2, <2>4 DEF InSection
    <2> QED
      BY <2>5, <2>6
  <1> QED
    BY <1>3, <1>4

\* They keep the inductive invariant.
LEMMA CriticalSectionIInv ==
  ASSUME IInv, NEW t \in Threads, EnterBlock(t) \/ WakeUp(t)
  PROVE  IInv'
  <1>1. PICK b \in Blocks, wr \in Nat, ww \in Nat : InSection(t, b, wr, ww)
    BY CriticalSection
  <1> QED
    BY <1>1, LockBlockIInv DEF InSection

\* The CAS of unlock() (lines 216-230).
LEMMA UnlockUncontendedIInv ==
  ASSUME IInv, NEW t \in Threads, UnlockUncontended(t)
  PROVE  IInv'
  <1> USE DEF IInv
  <1>1. CASE Reload(t) /\ UNCHANGED <<d_ptr, pc, call>>
    BY <1>1, ReloadIInv DEF UnlockUncontended
  <1>2. CASE /\ Swap(t, IF d[t].kind = "read" /\ d[t].n > 1 THEN Reading(d[t].n - 1) ELSE Null)
             /\ Release(t)
    <2>1. PICK l \in Locks, m \in {"read", "write"} : l = lock[t] /\ m = mode[t]
      BY DEF UnlockUncontended, TypeOK, LocalOK
    <2>2. PICK p :
            /\ p = IF d_ptr[l].kind = "read" /\ d_ptr[l].n > 1
                   THEN Reading(d_ptr[l].n - 1) ELSE Null
            /\ d_ptr' = [d_ptr EXCEPT ![l] = p]
      BY <1>2, <2>1 DEF Swap
    <2>3. /\ d_ptr[l] = d[t] /\ d_ptr[l].kind \in {"read", "write"}
          /\ d_ptr[l] \in Pointer /\ WellFormed(d_ptr[l])
          /\ pc[t] = "unlocking"
          /\ Release(t)
          /\ UNCHANGED <<counts, waits, freelist, d, val>>
      BY <1>2, <2>1 DEF UnlockUncontended, Swap, TypeOK, PointersOK
    <2>4. p \in Pointer /\ WellFormed(p) /\ p.block = NoBlock /\ p.kind \in {"null", "read"}
      BY <2>2, <2>3, LockAssumption DEF Reading, Null, Pointer, WellFormed
    <2>5. /\ pc' = [pc EXCEPT ![t] = "idle"] /\ lock' = [lock EXCEPT ![t] = NoLock]
          /\ UNCHANGED <<mode, timeout>>
      BY <2>3 DEF Release, Goto
    <2>6. \A b, n : Waiters(b, n)' = Waiters(b, n)
      BY <2>3, <2>5, SameWaiters DEF TypeOK
    <2>7. TypeOK' /\ PointersOK'
      BY <2>2, <2>3, <2>4, <2>5 DEF TypeOK, PointersOK, counts, waits, State
    <2>8. LocalOK'
      BY <2>1, <2>2, <2>3, <2>5 DEF TypeOK, LocalOK, counts
    <2>9. BlocksApart'
      BY <2>1, <2>2, <2>3, <2>4, <2>5, LockAssumption
         DEF TypeOK, BlocksApart, PointersOK, WellFormed, LocalOK
    <2>10. /\ t \in Holders(l, m)
           /\ Holders(l, m)' = Holders(l, m) \ {t}
           /\ Cardinality(Holders(l, m)') = Cardinality(Holders(l, m)) - 1
           /\ \A k, n : k # l \/ n # m => Holders(k, n)' = Holders(k, n)
      BY <2>1, <2>3, LeaveHolders DEF Held
    <2>11. MutualExclusion'
      BY <2>10 DEF MutualExclusion
    <2>12. HoldsCounted'
      <3>1. m = d_ptr[l].kind
        BY <2>1, <2>3, <2>10, HoldersAreThreads DEF HoldsCounted
      <3>2. \A n \in {"read", "write"} : n # m => Cardinality(Holders(l, n)') = 0
        BY <2>1, <2>3, <2>10, <3>1 DEF HoldsCounted
      <3>3. Cardinality(Holders(l, m)') = IF m = "read" THEN d_ptr[l].n - 1 ELSE 0
        BY <2>1, <2>3, <2>10, <3>1 DEF HoldsCounted
      <3>4. p = IF m = "read" /\ d_ptr[l].n > 1 THEN Reading(d_ptr[l].n - 1) ELSE Null
        BY <2>2, <3>1
      <3>5. m = "read" => d_ptr[l].n \in Nat /\ d_ptr[l].n > 0
        BY <2>3, <3>1 DEF WellFormed, Pointer
      <3>6. d_ptr'[l] = p /\ \A k \in Locks \ {l} : d_ptr'[k] = d_ptr[k]
        BY <2>2 DEF TypeOK
      <3>7. /\ p.kind = "null"  => /\ Cardinality(Holders(l, "read")') = 0
                                   /\ Cardinality(Holders(l, "write")') = 0
            /\ p.kind = "read"  => /\ Cardinality(Holders(l, "read")') = p.n
                                   /\ p.n > 0
                                   /\ Cardinality(Holders(l, "write")') = 0
        BY <3>2, <3>3, <3>4, <3>5 DEF Reading, Null
      <3> QED
        BY <2>3, <2>4, <2>10, <3>6, <3>7 DEF HoldsCounted, counts
    <2> QED
      BY <2>3, <2>6, <2>7, <2>8, <2>9, <2>11, <2>12, BlocksUnchanged
  <1> QED
    BY <1>1, <1>2 DEF UnlockUncontended

\* The critical section of unlock() (lines 240-265).
LEMMA UnlockBlockIInv ==
  ASSUME IInv, NEW t \in Threads, UnlockBlock(t)
  PROVE  IInv'
  <1> USE DEF IInv
  <1>1. PICK l \in Locks, m \in {"read", "write"}, b \in Blocks :
          l = lock[t] /\ m = mode[t] /\ b = d[t].block
    BY DEF UnlockBlock, TypeOK, LocalOK, PointersOK, WellFormed
  <1>2. /\ pc[t] = "unlocking" /\ d[t] = d_ptr[l]
        /\ d_ptr[l].kind = "block" /\ d_ptr[l].block = b
        /\ Release(t)
        /\ UNCHANGED <<waitingReaders, waitingWriters, d, val>>
    BY <1>1 DEF UnlockBlock, LocalOK
  <1>3. /\ b \notin freelist
        /\ \A k \in Locks : d_ptr[k].block = b => k = l
        /\ \A u \in Threads : pc[u] = "inflating" => val[u] # b
    BY <1>2 DEF BlocksApart
  <1>4. /\ readerCount[b] = Cardinality(Holders(l, "read"))
        /\ writerCount[b] = Cardinality(Holders(l, "write"))
    BY <1>2 DEF HoldsCounted
  <1>5. /\ t \in Holders(l, m)
        /\ Holders(l, m)' = Holders(l, m) \ {t}
        /\ Cardinality(Holders(l, m)') = Cardinality(Holders(l, m)) - 1
        /\ \A k, n : k # l \/ n # m => Holders(k, n)' = Holders(k, n)
    BY <1>1, <1>2, LeaveHolders DEF Held
  \* The counts with and without the caller's hold.
  <1>6. /\ m = "write" => writerCount[b] = 1 /\ readerCount[b] = 0
        /\ m = "read" => writerCount[b] = 0 /\ readerCount[b] > 0
    <2>1. m = "write" => Holders(l, "write") = {t} /\ Holders(l, "read") = {}
      BY <1>5, HoldersAreThreads DEF MutualExclusion
    <2>2. m = "read" => Holders(l, "write") = {}
      BY <1>5 DEF MutualExclusion
    <2>3. Cardinality({t}) = 1
      BY FS_Singleton
    <2>4. \A n : t \in Holders(l, n) => Cardinality(Holders(l, n)) > 0
      BY HoldersAreThreads
    <2>5. \A n : Holders(l, n) = {} => Cardinality(Holders(l, n)) = 0
      BY HoldersAreThreads
    <2> QED
      BY <1>4, <1>5, <2>1, <2>2, <2>3, <2>4, <2>5
  <1>7. /\ m = "write" => /\ writerCount' = [writerCount EXCEPT ![b] = 0]
                          /\ readerCount' = readerCount
        /\ m = "read" => /\ readerCount' = [readerCount EXCEPT ![b] = @ - 1]
                         /\ writerCount' = writerCount
    BY <1>1, <1>6 DEF UnlockBlock, DropHold
  <1>8. /\ pc' = [pc EXCEPT ![t] = "idle"] /\ lock' = [lock EXCEPT ![t] = NoLock]
        /\ UNCHANGED <<mode, timeout>>
    BY <1>2 DEF Release, Goto
  <1>9. /\ readerCount'[b] = Cardinality(Holders(l, "read")')
        /\ writerCount'[b] = Cardinality(Holders(l, "write")')
        /\ readerCount' \in [Blocks -> Nat] /\ writerCount' \in [Blocks -> Nat]
        /\ \A c \in Blocks \ {b} : readerCount'[c] = readerCount[c] /\ writerCount'[c] = writerCount[c]
    <2>1. \A n : n # m => Cardinality(Holders(l, n)') = Cardinality(Holders(l, n))
      BY <1>5
    <2>2. CASE m = "read"
      <3>1. readerCount' = [readerCount EXCEPT ![b] = @ - 1] /\ writerCount' = writerCount
        BY <1>7, <2>2
      <3>2. readerCount'[b] = readerCount[b] - 1 /\ readerCount[b] - 1 \in Nat
        BY <1>6, <2>2, <3>1 DEF TypeOK
      <3> QED
        BY <1>4, <1>5, <2>1, <2>2, <3>1, <3>2 DEF TypeOK
    <2>3. CASE m = "write"
      <3>1. writerCount' = [writerCount EXCEPT ![b] = 0] /\ readerCount' = readerCount
        BY <1>7, <2>3
      <3>2. writerCount'[b] = writerCount[b] - 1
        BY <1>6, <2>3, <3>1 DEF TypeOK
      <3> QED
        BY <1>4, <1>5, <2>1, <2>3, <3>1, <3>2 DEF TypeOK
    <2> QED
      BY <2>2, <2>3
  <1>10. \A c, n : Waiters(c, n)' = Waiters(c, n)
    BY <1>2, <1>8, SameWaiters DEF TypeOK
  <1>11. MutualExclusion'
    BY <1>5 DEF MutualExclusion
  <1>12. /\ \A c \in Blocks : /\ readerCond'[c] \subseteq readerCond[c]
                              /\ writerCond'[c] \subseteq writerCond[c]
         /\ readerCond' \in [Blocks -> SUBSET Threads]
         /\ writerCond' \in [Blocks -> SUBSET Threads]
    BY <1>1 DEF UnlockBlock, Notify, TypeOK
  <1>13. BlockWaitersCounted' /\ SleepersWait'
    BY <1>2, <1>10, <1>12 DEF BlockWaitersCounted, SleepersWait
  \* The block stays, or it goes back to the free list.
  <1>14. CASE UNCHANGED <<d_ptr, freelist>>
    <2>1. TypeOK' /\ PointersOK'
      BY <1>2, <1>8, <1>9, <1>12, <1>14 DEF TypeOK, PointersOK, State
    <2>2. LocalOK'
      BY <1>2, <1>3, <1>8, <1>9, <1>14 DEF TypeOK, LocalOK
    <2>3. BlocksApart'
      BY <1>2, <1>8, <1>14 DEF TypeOK, BlocksApart
    <2>4. HoldsCounted'
      BY <1>2, <1>3, <1>5, <1>9, <1>14 DEF HoldsCounted, PointersOK, WellFormed
    <2>5. FreeBlockClean'
      BY <1>2, <1>3, <1>9, <1>12, <1>14 DEF FreeBlockClean, TypeOK
    <2> QED
      BY <1>11, <1>13, <2>1, <2>2, <2>3, <2>4, <2>5
  <1>15. CASE /\ ~StillRead(b) /\ NoWaiters(b)
              /\ d_ptr' = [d_ptr EXCEPT ![l] = Null]
              /\ freelist' = freelist \cup {b}
    <2>1. readerCount'[b] = 0 /\ writerCount'[b] = 0
      BY <1>6, <1>7, <1>15 DEF StillRead, TypeOK
    <2>2. Holders(l, "read")' = {} /\ Holders(l, "write")' = {}
      <3>1. \A n : /\ Holders(l, n)' \in SUBSET Threads
                   /\ Cardinality(Holders(l, n)') = 0 => Holders(l, n)' = {}
        BY HoldersAreThreads, <1>5, ThreadSets
      <3> QED
        BY <1>9, <2>1, <3>1
    <2>3. \A n \in {"read", "write"} : Waiters(b, n) = {}
      BY <1>15, WaitersAreThreads DEF NoWaiters, BlockWaitersCounted
    <2>4. TypeOK' /\ PointersOK'
      BY <1>2, <1>8, <1>9, <1>12, <1>15, LockAssumption
         DEF TypeOK, PointersOK, WellFormed, State, Null, Pointer
    <2>5. \A u \in Threads : pc'[u] \in {"waiting", "unlocking"} /\ d[u].kind = "block" => lock[u] # l
      <3> SUFFICES ASSUME NEW u \in Threads, pc'[u] \in {"waiting", "unlocking"}, lock[u] = l
                   PROVE  FALSE
        OBVIOUS
      <3>1. u # t /\ pc[u] = pc'[u] /\ lock'[u] = l /\ mode'[u] = mode[u] /\ mode[u] \in {"read", "write"}
        BY <1>8 DEF TypeOK
      <3>2. CASE pc[u] = "waiting"
        BY <1>2, <2>3, <3>1, <3>2 DEF LocalOK, Waiters
      <3>3. CASE pc[u] = "unlocking"
        BY <2>2, <3>1, <3>3 DEF Holders
      <3> QED
        BY <3>1, <3>2, <3>3
    <2>6. LocalOK'
      BY <1>2, <1>3, <1>8, <1>9, <1>15, <2>5 DEF TypeOK, LocalOK
    <2>7. BlocksApart'
      BY <1>2, <1>3, <1>8, <1>15, LockAssumption DEF TypeOK, BlocksApart, LocalOK, PointersOK, WellFormed, Null
    <2>8. HoldsCounted'
      <3>1. d_ptr'[l] = Null /\ \A k \in Locks \ {l} : d_ptr'[k] = d_ptr[k]
        BY <1>15 DEF TypeOK
      <3>2. Cardinality(Holders(l, "read")') = 0 /\ Cardinality(Holders(l, "write")') = 0
        BY <1>9, <2>1
      <3> QED
        BY <1>3, <1>5, <1>9, <3>1, <3>2 DEF HoldsCounted, PointersOK, WellFormed, Null
    <2>9. readerCond'[b] = {} /\ writerCond'[b] = {}
      BY <1>12, <2>3 DEF SleepersWait
    <2>10. waitingReaders'[b] = 0 /\ waitingWriters'[b] = 0
      BY <1>2, <1>15 DEF NoWaiters
    <2>11. FreeBlockClean'
      BY <1>2, <1>9, <1>12, <1>15, <2>1, <2>9, <2>10 DEF FreeBlockClean, TypeOK
    <2> QED
      BY <1>11, <1>13, <2>4, <2>6, <2>7, <2>8, <2>11
  <1> QED
    BY <1>1, <1>14, <1>15 DEF UnlockBlock

-----------------------------------------------------------------------------
(* The theorems.                                                           *)

\* Every step keeps the inductive invariant.
LEMMA NextIInv == IInv /\ [Next]_vars => IInv'
  <1> SUFFICES ASSUME IInv, [Next]_vars PROVE IInv'
    OBVIOUS
  <1>1. CASE UNCHANGED vars
    <2>1. UNCHANGED <<d_ptr, counts, waits, freelist, pc, call, d, val>>
      BY <1>1 DEF vars
    <2>2. /\ \A l, m : Holders(l, m)' = Holders(l, m)
          /\ \A b, m : Waiters(b, m)' = Waiters(b, m)
      BY <2>1, SameHolders, SameWaiters DEF call
    <2>3. TypeOK' /\ PointersOK' /\ LocalOK' /\ BlocksApart'
      BY <2>1 DEF IInv, TypeOK, PointersOK, LocalOK, BlocksApart, counts, waits, call
    <2> QED
      BY <2>1, <2>2, <2>3, SharedUnchanged DEF IInv
  <1>2. CASE Next
    <2>1. PICK t \in Threads :
            \/ \E l \in Locks, m \in {"read", "write"}, tm \in Timeouts : Call(t, l, m, tm)
            \/ Locking(t) \/ StopWaiting(t) \/ Leave(t) \/ Unlocking(t)
      BY <1>2 DEF Next
    <2>2. CASE \E l \in Locks, m \in {"read", "write"}, tm \in Timeouts : Call(t, l, m, tm)
      BY <2>2, CallIInv
    <2>3. CASE Locking(t)
      BY <2>3, TakeUncontendedIInv, PrivateStepIInv, InflateIInv, PublishIInv, RetractIInv,
         CriticalSectionIInv DEF Locking
    <2>4. CASE StopWaiting(t)
      BY <2>4, StopWaitingIInv
    <2>5. CASE Leave(t)
      BY <2>5, PrivateStepIInv
    <2>6. CASE Unlocking(t)
      BY <2>6, PrivateStepIInv, UnlockUncontendedIInv, UnlockBlockIInv DEF Unlocking
    <2> QED
      BY <2>1, <2>2, <2>3, <2>4, <2>5, <2>6
  <1> QED
    BY <1>1, <1>2

\* The inductive invariant holds of every reachable state.
THEOREM Invariant == Spec => []IInv
  BY InitIInv, NextIInv, PTL DEF Spec

\* Every variable of the lock keeps its type; in particular unlock() never
\* counts a reader below zero (screadwritelock.cpp 246-250).
THEOREM TypeCorrect == Spec => []TypeOK
  <1>1. IInv => TypeOK
    BY DEF IInv
  <1> QED
    BY <1>1, Invariant, PTL

\* A writer holds its lock alone, for any number of threads, locks and blocks
\* (screadwritelock.cpp 100-267).
THEOREM Exclusive == Spec => []MutualExclusion
  <1>1. IInv => MutualExclusion
    BY DEF IInv
  <1> QED
    BY <1>1, Invariant, PTL

\* d_ptr, or the block it points to, counts the holders of the lock exactly: the
\* assertions of unlock() and of the two lock functions never fail
\* (screadwritelock.cpp 214, 225, 243-249).
THEOREM Counted == Spec => []HoldsCounted
  <1>1. IInv => HoldsCounted
    BY DEF IInv
  <1> QED
    BY <1>1, Invariant, PTL

\* A block comes back to the free list clean: the assertions of allocate() and
\* release() never fail (screadwritelock.cpp 430-445).
THEOREM FreeClean == Spec => []FreeBlockClean
  <1>1. IInv => FreeBlockClean
    BY DEF IInv
  <1> QED
    BY <1>1, Invariant, PTL

\* A thread that waits is counted, and its block is not returned or given to
\* another lock under it (screadwritelock.cpp 255-263, 269-344).
THEOREM Waiting == Spec => []WaitersCounted
  <1>1. IInv => WaitersCounted
    BY DEF IInv, BlockWaitersCounted, LocalOK, WaitersCounted
  <1> QED
    BY <1>1, Invariant, PTL

\* Every block is free, in the hands of a thread, or serves a lock.
NoBlockLost ==
  \A b \in Blocks :
    \/ b \in freelist
    \/ \E t \in Threads : pc[t] = "inflating" /\ val[t] = b
    \/ \E l \in Locks : d_ptr[l] = Contended(b)

\* No step loses a block: it moves from the list to a thread, from there to a
\* lock, and back (screadwritelock.cpp 124-138, 174-192, 240-263).
LEMMA NoBlockLostStep == IInv /\ NoBlockLost /\ [Next]_vars => NoBlockLost'
  <1> SUFFICES ASSUME IInv, NoBlockLost, [Next]_vars, NEW b \in Blocks
               PROVE  \/ b \in freelist'
                      \/ \E u \in Threads : pc'[u] = "inflating" /\ val'[u] = b
                      \/ \E l \in Locks : d_ptr'[l] = Contended(b)
    BY DEF NoBlockLost
  <1>1. CASE UNCHANGED vars
    BY <1>1 DEF vars, NoBlockLost
  <1>2. CASE Next
    <2>1. PICK t \in Threads :
            \/ \E l \in Locks, m \in {"read", "write"}, tm \in Timeouts : Call(t, l, m, tm)
            \/ Locking(t) \/ StopWaiting(t) \/ Leave(t) \/ Unlocking(t)
      BY <1>2 DEF Next
    <2>2. /\ pc \in [Threads -> State] /\ val \in [Threads -> Blocks \cup {NoBlock}]
          /\ d_ptr \in [Locks -> Pointer] /\ lock[t] \in Locks \cup {NoLock}
          /\ pc[t] # "idle" => lock[t] \in Locks
      BY DEF IInv, TypeOK, LocalOK
    \* The steps that leave the lock, the list and the thread's block alone.
    <2>3. ASSUME UNCHANGED <<d_ptr, freelist, val>>, pc[t] # "inflating",
                 \/ UNCHANGED pc
                 \/ \E s \in State : pc' = [pc EXCEPT ![t] = s]
          PROVE  \/ b \in freelist'
                 \/ \E u \in Threads : pc'[u] = "inflating" /\ val'[u] = b
                 \/ \E l \in Locks : d_ptr'[l] = Contended(b)
      BY <2>2, <2>3 DEF NoBlockLost
    <2>4. CASE \E l \in Locks, m \in {"read", "write"}, tm \in Timeouts : Call(t, l, m, tm)
      BY <2>3, <2>4 DEF Call, Goto, State
    \* The steps that change the pointer of an uncontended lock.
    <2>5. ASSUME UNCHANGED <<freelist, val>>, pc[t] # "inflating",
                 \E s \in State : pc' = [pc EXCEPT ![t] = s],
                 pc[t] # "idle",
                 d_ptr[lock[t]].kind # "block",
                 \E p : d_ptr' = [d_ptr EXCEPT ![lock[t]] = p]
          PROVE  \/ b \in freelist'
                 \/ \E u \in Threads : pc'[u] = "inflating" /\ val'[u] = b
                 \/ \E l \in Locks : d_ptr'[l] = Contended(b)
      BY <2>2, <2>5 DEF NoBlockLost, Contended
    <2>6. CASE TakeUncontended(t)
      <3>1. CASE UNCHANGED <<d_ptr, pc>>
        BY <2>3, <2>6, <3>1 DEF TakeUncontended
      <3>2. CASE Swap(t, Taken(mode[t], d[t])) /\ Goto(t, "holding")
        BY <2>5, <2>6, <3>2 DEF TakeUncontended, Swap, Goto, CanTake, State
      <3> QED
        BY <2>6, <3>1, <3>2 DEF TakeUncontended
    <2>7. CASE GiveUpUncontended(t)
      BY <2>3, <2>7 DEF GiveUpUncontended, MustInflate, Fail, Goto, State
    <2>8. CASE Inflate(t)
      <3>1. PICK c \in freelist : freelist' = freelist \ {c} /\ val' = [val EXCEPT ![t] = c]
        BY <2>8 DEF Inflate
      <3> QED
        BY <2>2, <2>8, <3>1 DEF Inflate, MustInflate, Goto, NoBlockLost
    <2>9. CASE Publish(t)
      <3>1. d_ptr[lock[t]].kind # "block"
        BY <2>9 DEF Publish, IInv, LocalOK
      <3>2. CASE b = val[t]
        BY <2>2, <2>9, <3>2 DEF Publish
      <3>3. CASE b # val[t]
        BY <2>2, <2>9, <3>1, <3>3 DEF Publish, Goto, NoBlockLost, Contended
      <3> QED
        BY <3>2, <3>3
    <2>10. CASE Retract(t)
      BY <2>2, <2>10 DEF Retract, Goto, NoBlockLost
    <2>11. CASE Stale(t) \/ LoadAgain(t) \/ StopWaiting(t) \/ Leave(t) \/ LoadForUnlock(t)
      BY <2>3, <2>11 DEF Stale, LoadAgain, StopWaiting, Leave, LoadForUnlock, Goto, State
    <2>12. CASE EnterBlock(t) \/ WakeUp(t)
      <3>1. pc[t] # "inflating" /\ UNCHANGED <<d_ptr, freelist, val>>
        BY <2>12 DEF EnterBlock, WakeUp, LockBlock
      <3>2. \E s \in State : pc' = [pc EXCEPT ![t] = s]
        BY <2>12 DEF EnterBlock, WakeUp, LockBlock, AcquireRead, AcquireWrite, SleepRead, SleepWrite,
                     FailRead, FailWrite, Fail, Goto, State
      <3> QED
        BY <2>3, <3>1, <3>2
    <2>13. CASE UnlockUncontended(t)
      <3>1. CASE UNCHANGED <<d_ptr, pc>>
        BY <2>3, <2>13, <3>1 DEF UnlockUncontended
      <3>2. CASE d_ptr[lock[t]] = d[t] /\ Release(t) /\ \E p : d_ptr' = [d_ptr EXCEPT ![lock[t]] = p]
        BY <2>5, <2>13, <3>2 DEF UnlockUncontended, Release, Goto, State
      <3> QED
        BY <2>13, <3>1, <3>2 DEF UnlockUncontended, Swap
    <2>14. CASE UnlockBlock(t)
      <3>1. pc[t] # "inflating" /\ UNCHANGED val /\ pc' = [pc EXCEPT ![t] = "idle"]
        BY <2>14 DEF UnlockBlock, Release, Goto
      <3>2. CASE UNCHANGED <<d_ptr, freelist>>
        BY <2>3, <3>1, <3>2 DEF State
      <3>3. CASE /\ d_ptr' = [d_ptr EXCEPT ![lock[t]] = Null]
                 /\ freelist' = freelist \cup {d[t].block}
        <4>1. d_ptr[lock[t]] = d[t]
          BY <2>14 DEF UnlockBlock, IInv, LocalOK
        <4>2. CASE b = d[t].block
          BY <3>3, <4>2
        <4>3. CASE b # d[t].block
          BY <2>2, <3>1, <3>3, <4>1, <4>3 DEF NoBlockLost, Contended
        <4> QED
          BY <4>2, <4>3
      <3> QED
        BY <2>14, <3>2, <3>3 DEF UnlockBlock
    <2> QED
      BY <2>1, <2>4, <2>6, <2>7, <2>8, <2>9, <2>10, <2>11, <2>12, <2>13, <2>14 DEF Locking, Unlocking
  <1> QED
    BY <1>1, <1>2

\* A set in which all are equal has at most one element.
LEMMA AtMostOne ==
  ASSUME NEW S, \A x, y \in S : x = y
  PROVE  Cardinality(S) = IF S = {} THEN 0 ELSE 1
  <1>1. CASE S = {}
    BY <1>1, FS_EmptySet
  <1>2. ASSUME S # {} PROVE Cardinality(S) = 1
    <2>1. PICK x : x \in S
      BY <1>2
    <2>2. S = {x}
      BY <2>1
    <2> QED
      BY <2>2, FS_Singleton
  <1> QED
    BY <1>1, <1>2

\* All the counts are exact, and every block of the free list that the locks
\* share has exactly one use (screadwritelock.cpp 100-267, 430-445).
THEOREM CountsAreExact == Spec => []CountsExact
  <1>1. Init => NoBlockLost
    BY DEF Init, NoBlockLost
  <1>2. IInv /\ NoBlockLost => BlockHasOneUse
    <2> SUFFICES ASSUME IInv, NoBlockLost, NEW b \in Blocks
                 PROVE  Cardinality({t \in Threads : pc[t] = "inflating" /\ val[t] = b})
                          + Cardinality({l \in Locks : d_ptr[l] = Contended(b)})
                          + (IF b \in freelist THEN 1 ELSE 0) = 1
      BY DEF BlockHasOneUse
    <2> DEFINE T == {t \in Threads : pc[t] = "inflating" /\ val[t] = b}
               L == {l \in Locks : d_ptr[l] = Contended(b)}
    <2>1. BlocksApart
      BY DEF IInv
    <2>2. \A x, y \in T : x = y
      BY <2>1 DEF BlocksApart
    <2>3. \A x, y \in L : x = y
      BY <2>1 DEF BlocksApart, Contended
    <2>4. /\ T # {} => L = {} /\ b \notin freelist
          /\ L # {} => b \notin freelist
      BY <2>1 DEF BlocksApart, Contended
    <2>5. b \in freelist \/ T # {} \/ L # {}
      BY DEF NoBlockLost
    <2>6. /\ Cardinality(T) = IF T = {} THEN 0 ELSE 1
          /\ Cardinality(L) = IF L = {} THEN 0 ELSE 1
      <3> HIDE DEF T, L
      <3> QED
        BY <2>2, <2>3, AtMostOne
    <2>7. Cardinality(T) + Cardinality(L) + (IF b \in freelist THEN 1 ELSE 0) = 1
      <3> HIDE DEF T, L
      <3> QED
        BY <2>4, <2>5, <2>6
    <2> QED
      BY <2>7
  <1>3. IInv => HoldsCounted /\ FreeBlockClean /\ WaitersCounted
    BY DEF IInv, BlockWaitersCounted, LocalOK, WaitersCounted
  <1>4. IInv /\ NoBlockLost => CountsExact
    BY <1>2, <1>3 DEF CountsExact
  <1> QED
    BY <1>1, <1>4, InitIInv, NextIInv, NoBlockLostStep, PTL DEF Spec

-----------------------------------------------------------------------------
(* Wake-ups.                                                               *)

\* A thread waits only if its call has a time limit, or none to keep to.
WaitersMayWait == \A t \in Threads : pc[t] = "waiting" => timeout[t] # "none"

WakeInv == NoLostWakeUp /\ WaitersMayWait

\* Every step leaves a thread waiting only in a call that may wait.
LEMMA MayWaitStep == IInv /\ WaitersMayWait /\ [Next]_vars => WaitersMayWait'
  <1> SUFFICES ASSUME IInv, WaitersMayWait, [Next]_vars PROVE WaitersMayWait'
    OBVIOUS
  <1>1. pc \in [Threads -> State] /\ timeout \in [Threads -> Timeout]
    BY DEF IInv, TypeOK
  <1>2. ASSUME NEW t \in Threads, NEW s, Goto(t, s), s = "waiting" => timeout[t] # "none",
               UNCHANGED timeout
        PROVE  WaitersMayWait'
    BY <1>1, <1>2 DEF WaitersMayWait, Goto
  <1>3. CASE UNCHANGED <<pc, timeout>>
    BY <1>3 DEF WaitersMayWait
  <1>4. CASE Next
    <2>1. PICK t \in Threads :
            \/ \E l \in Locks, m \in {"read", "write"}, tm \in Timeouts : Call(t, l, m, tm)
            \/ Locking(t) \/ StopWaiting(t) \/ Leave(t) \/ Unlocking(t)
      BY <1>4 DEF Next
    <2>2. CASE \E l \in Locks, m \in {"read", "write"}, tm \in Timeouts : Call(t, l, m, tm)
      BY <1>1, <2>2 DEF Call, Goto, WaitersMayWait
    <2>3. CASE TakeUncontended(t)
      BY <1>2, <1>3, <2>3 DEF TakeUncontended, call
    <2>4. CASE GiveUpUncontended(t) \/ Inflate(t) \/ Publish(t) \/ Retract(t) \/ Stale(t)
               \/ LoadAgain(t) \/ StopWaiting(t) \/ Leave(t) \/ LoadForUnlock(t)
      BY <1>2, <1>3, <2>4 DEF GiveUpUncontended, Inflate, Publish, Retract, Stale, LoadAgain,
                              StopWaiting, Leave, LoadForUnlock, Fail, call
    <2>5. ASSUME NEW b, NEW wr, NEW ww, LockBlock(t, b, wr, ww) PROVE WaitersMayWait'
      <3>1. CASE AcquireRead(t, b, wr, ww) \/ AcquireWrite(t, b, wr, ww)
        BY <1>2, <3>1 DEF AcquireRead, AcquireWrite, call
      <3>2. CASE SleepRead(t, b, wr, ww) \/ SleepWrite(t, b, wr, ww)
        BY <1>2, <3>2 DEF SleepRead, SleepWrite, call
      <3>3. CASE FailRead(t, b, wr, ww) \/ FailWrite(t, b, wr, ww)
        BY <1>2, <3>3 DEF FailRead, FailWrite, Fail
      <3> QED
        BY <2>5, <3>1, <3>2, <3>3 DEF LockBlock
    <2>6. CASE EnterBlock(t) \/ WakeUp(t)
      BY <2>5, <2>6 DEF EnterBlock, WakeUp
    <2>7. CASE UnlockUncontended(t) \/ UnlockBlock(t)
      BY <1>2, <1>3, <2>7 DEF UnlockUncontended, UnlockBlock, Release, call
    <2> QED
      BY <2>1, <2>2, <2>3, <2>4, <2>6, <2>7 DEF Locking, Unlocking
  <1> QED
    BY <1>3, <1>4 DEF vars, call

\* Nothing is lost in a step that leaves waiting threads alone, and the counts of
\* the blocks where threads sleep.
LEMMA NobodyWoken ==
  ASSUME IInv, NoLostWakeUp, UNCHANGED waits,
         \A b, m : Waiters(b, m)' = Waiters(b, m),
         \A u \in Threads : pc[u] = "waiting" => d'[u] = d[u],
         \A b \in Blocks : readerCond[b] # {} \/ writerCond[b] # {} =>
           readerCount'[b] = readerCount[b] /\ writerCount'[b] = writerCount[b]
  PROVE  NoLostWakeUp'
  <1> SUFFICES ASSUME NEW b \in Blocks
               PROVE  /\ readerCond'[b] # {} => waitingWriters'[b] # 0 \/ writerCount'[b] # 0
                      /\ writerCond'[b] # {} => \/ WriteBlocked(b)'
                                                \/ \E t \in Waiters(b, "write")' : ~Asleep(t)'
    BY DEF NoLostWakeUp
  <1>1. readerCond'[b] # {} => waitingWriters'[b] # 0 \/ writerCount'[b] # 0
    BY DEF NoLostWakeUp, waits
  <1>2. ASSUME writerCond'[b] # {}
        PROVE  WriteBlocked(b)' \/ \E t \in Waiters(b, "write")' : ~Asleep(t)'
    <2>1. writerCond[b] # {} /\ readerCount'[b] = readerCount[b] /\ writerCount'[b] = writerCount[b]
      BY <1>2 DEF waits
    <2>2. CASE WriteBlocked(b)
      BY <2>1, <2>2 DEF WriteBlocked
    <2>3. ASSUME NEW t \in Waiters(b, "write"), ~Asleep(t)
          PROVE  t \in Waiters(b, "write")' /\ ~Asleep(t)'
      BY <2>3 DEF Asleep, Waiters, waits
    <2> QED
      BY <2>1, <2>2, <2>3 DEF NoLostWakeUp
  <1> QED
    BY <1>1, <1>2

\* Nor in a critical section of lockForRead or lockForWrite: who finds a sleeper
\* on leaving it was blocked, or holds the lock now (lines 269-344).
LEMMA LockBlockWakes ==
  ASSUME IInv, WakeInv, NEW t \in Threads, NEW b \in Blocks,
         pc[t] \in {"trying", "waiting"},
         d[t].kind = "block", d[t].block = b,
         t \notin readerCond[b], t \notin writerCond[b],
         NEW wr, NEW ww,
         wr = Cardinality(Waiters(b, "read") \ {t}),
         ww = Cardinality(Waiters(b, "write") \ {t}),
         LockBlock(t, b, wr, ww)
  PROVE  NoLostWakeUp'
  <1> USE DEF IInv
  <1>1. /\ UNCHANGED <<d, mode>>
        /\ \A u \in Threads \ {t} : pc'[u] = pc[u]
        /\ \A c \in Blocks \ {b} : /\ readerCount'[c] = readerCount[c]
                                   /\ writerCount'[c] = writerCount[c]
                                   /\ waitingWriters'[c] = waitingWriters[c]
                                   /\ readerCond'[c] = readerCond[c]
                                   /\ writerCond'[c] = writerCond[c]
    <2>1. UNCHANGED d
      BY DEF LockBlock
    <2> USE DEF TypeOK, Goto, call, counts
    <2>2. CASE AcquireRead(t, b, wr, ww) \/ AcquireWrite(t, b, wr, ww)
      BY <2>1, <2>2 DEF AcquireRead, AcquireWrite
    <2>3. CASE SleepRead(t, b, wr, ww) \/ SleepWrite(t, b, wr, ww)
      BY <2>1, <2>3 DEF SleepRead, SleepWrite
    <2>4. CASE FailRead(t, b, wr, ww) \/ FailWrite(t, b, wr, ww)
      BY <2>1, <2>4 DEF FailRead, FailWrite, Fail
    <2> QED
      BY <2>2, <2>3, <2>4 DEF LockBlock
  <1>2. ASSUME NEW c \in Blocks \ {b}
        PROVE  /\ readerCond'[c] # {} => waitingWriters'[c] # 0 \/ writerCount'[c] # 0
               /\ writerCond'[c] # {} => \/ WriteBlocked(c)'
                                         \/ \E u \in Waiters(c, "write")' : ~Asleep(u)'
    <2>1. \A u \in Waiters(c, "write") : ~Asleep(u) => u \in Waiters(c, "write")' /\ ~Asleep(u)'
      BY <1>1, <1>2 DEF Waiters, Asleep
    <2>2. WriteBlocked(c)' <=> WriteBlocked(c)
      BY <1>1, <1>2 DEF WriteBlocked
    <2> QED
      BY <1>1, <1>2, <2>1, <2>2 DEF WakeInv, NoLostWakeUp
  \* What held of b before, and the numbers that leave the caller out.
  <1>3. /\ readerCond[b] # {} => waitingWriters[b] # 0 \/ writerCount[b] # 0
        /\ writerCond[b] # {} => \/ WriteBlocked(b)
                                \/ \E u \in Waiters(b, "write") : ~Asleep(u)
    BY DEF WakeInv, NoLostWakeUp
  <1>4. /\ t \notin Waiters(b, "write") => ww = waitingWriters[b]
        /\ readerCond[b] # {} => wr # 0
        /\ ww \in Nat
    <2>1. t \notin Waiters(b, "write") => ww = waitingWriters[b]
      BY WithoutThread DEF BlockWaitersCounted
    <2>2. Waiters(b, "read") \ {t} \in SUBSET Threads /\ Waiters(b, "write") \ {t} \in SUBSET Threads
      BY WaitersAreThreads
    <2>3. readerCond[b] \subseteq Waiters(b, "read") \ {t}
      BY DEF SleepersWait
    <2> QED
      BY <2>1, <2>2, <2>3, ThreadSets
  <1>5. mode[t] = "read" => t \notin Waiters(b, "write")
    BY DEF Waiters
  \* A waiting writer is on its way still, if the caller is a reader.
  <1>6. ASSUME mode[t] = "read", UNCHANGED writerCond, readerCond'[b] \subseteq readerCond[b] \cup {t}
        PROVE  \A u \in Waiters(b, "write") : ~Asleep(u) => u \in Waiters(b, "write")' /\ ~Asleep(u)'
    BY <1>1, <1>5, <1>6 DEF Waiters, Asleep
  <1>7. /\ readerCond'[b] # {} => waitingWriters'[b] # 0 \/ writerCount'[b] # 0
        /\ writerCond'[b] # {} => \/ WriteBlocked(b)'
                                  \/ \E u \in Waiters(b, "write")' : ~Asleep(u)'
    <2>0. /\ readerCount \in [Blocks -> Nat] /\ writerCount \in [Blocks -> Nat]
          /\ waitingWriters \in [Blocks -> Int]
          /\ readerCond \in [Blocks -> SUBSET Threads]
      BY DEF TypeOK
    <2>1. CASE AcquireRead(t, b, wr, ww)
      <3>1. readerCond'[b] = {}
        BY <1>3, <1>4, <1>5, <2>1 DEF AcquireRead, ReadBlocked
      <3>2. readerCount'[b] # 0
        BY <2>0, <2>1 DEF AcquireRead
      <3> QED
        BY <3>1, <3>2 DEF WriteBlocked
    <2>2. CASE AcquireWrite(t, b, wr, ww)
      BY <2>0, <2>2 DEF AcquireWrite, WriteBlocked
    <2>3. CASE SleepRead(t, b, wr, ww)
      <3>1. waitingWriters'[b] # 0 \/ writerCount'[b] # 0
        BY <1>4, <1>5, <2>3 DEF SleepRead, ReadBlocked, counts
      <3>2. readerCond'[b] = readerCond[b] \cup {t} /\ UNCHANGED <<readerCount, writerCount, writerCond>>
        BY <2>0, <2>3 DEF SleepRead, counts
      <3>3. mode[t] = "read"
        BY <2>3 DEF SleepRead
      <3>4. WriteBlocked(b)' <=> WriteBlocked(b)
        BY <3>2 DEF WriteBlocked
      <3> QED
        BY <1>3, <1>6, <3>1, <3>2, <3>3, <3>4
    <2>4. CASE SleepWrite(t, b, wr, ww)
      BY <1>4, <2>0, <2>4 DEF SleepWrite, WriteBlocked, counts
    <2>5. CASE FailRead(t, b, wr, ww)
      <3>1. /\ UNCHANGED <<readerCount, writerCount, waitingWriters, readerCond, writerCond>>
            /\ mode[t] = "read"
        BY <2>5 DEF FailRead, counts
      <3>2. WriteBlocked(b)' <=> WriteBlocked(b)
        BY <3>1 DEF WriteBlocked
      <3> QED
        BY <1>3, <1>6, <3>1, <3>2
    <2>6. CASE FailWrite(t, b, wr, ww)
      <3>1. WriteBlocked(b)' /\ writerCount' = writerCount
        BY <2>6 DEF FailWrite, WriteBlocked, counts
      <3>2. waitingWriters'[b] = ww
        BY <2>0, <2>6 DEF FailWrite
      <3>3. ASSUME readerCond'[b] # {} PROVE waitingWriters'[b] # 0 \/ writerCount'[b] # 0
        <4>1. readerCond[b] # {}
          BY <2>0, <2>6, <3>3 DEF FailWrite
        <4>2. CASE timeout[t] = "some"
          <5>1. ~(wr # 0 /\ ww = 0 /\ writerCount[b] = 0)
            BY <2>0, <2>6, <3>3, <4>2 DEF FailWrite
          <5> QED
            BY <1>4, <3>1, <3>2, <4>1, <5>1
        <4>3. CASE timeout[t] # "some"
          <5>1. timeout[t] = "none"
            BY <2>6, <4>3 DEF FailWrite, TypeOK, Timeout
          <5>2. t \notin Waiters(b, "write")
            BY <5>1 DEF WakeInv, WaitersMayWait, Waiters
          <5> QED
            BY <1>3, <1>4, <3>1, <3>2, <4>1, <5>2
        <4> QED
          BY <4>2, <4>3
      <3> QED
        BY <3>1, <3>3
    <2> QED
      BY <2>1, <2>2, <2>3, <2>4, <2>5, <2>6 DEF LockBlock
  <1> QED
    BY <1>2, <1>7 DEF NoLostWakeUp

\* A wait that ends takes a thread off the sleepers, and adds to those on their
\* way (lines 280-285, 309-314).
LEMMA StopWaitingWakes ==
  ASSUME IInv, NoLostWakeUp, NEW t \in Threads, StopWaiting(t)
  PROVE  NoLostWakeUp'
  <1> USE DEF IInv
  <1>1. /\ UNCHANGED <<counts, waitingWriters, pc, mode, d>>
        /\ \A c \in Blocks : readerCond'[c] \subseteq readerCond[c] /\ writerCond'[c] \subseteq writerCond[c]
    BY DEF StopWaiting, TypeOK, call
  <1>2. d \in [Threads -> Pointer] /\ \A u \in Threads : pc[u] = "waiting" => d[u].block \in Blocks
    BY DEF TypeOK, LocalOK, PointersOK, WellFormed
  <1>3. \A b \in Blocks : \A u \in Waiters(b, "write") :
          ~Asleep(u) => u \in Waiters(b, "write")' /\ ~Asleep(u)'
    BY <1>1, <1>2 DEF Waiters, Asleep
  <1>4. \A b \in Blocks : WriteBlocked(b)' <=> WriteBlocked(b)
    BY <1>1 DEF WriteBlocked, counts
  <1> QED
    BY <1>1, <1>3, <1>4 DEF NoLostWakeUp, counts

\* unlock() wakes a writer, or all the readers, or there is nobody to wake, or
\* readers still hold the lock (lines 240-265, 346-353).
LEMMA UnlockBlockWakes ==
  ASSUME IInv, NoLostWakeUp, NEW t \in Threads, UnlockBlock(t)
  PROVE  NoLostWakeUp'
  <1> USE DEF IInv
  <1>0. /\ readerCount \in [Blocks -> Nat] /\ writerCount \in [Blocks -> Nat]
        /\ readerCond \in [Blocks -> SUBSET Threads] /\ writerCond \in [Blocks -> SUBSET Threads]
        /\ pc \in [Threads -> State]
    BY DEF TypeOK
  <1>1. PICK b \in Blocks : b = d[t].block /\ DropHold(b)
    BY DEF UnlockBlock, PointersOK, WellFormed
  <1>2. /\ UNCHANGED <<waitingReaders, waitingWriters, d, mode>>
        /\ \A u \in Threads : pc[u] = "waiting" <=> pc'[u] = "waiting"
    BY <1>0 DEF UnlockBlock, Release, Goto
  <1>3. \A c, n : Waiters(c, n)' = Waiters(c, n)
    BY <1>2, SameWaiters
  <1>4. /\ \A c \in Blocks \ {b} : /\ readerCount'[c] = readerCount[c]
                                   /\ writerCount'[c] = writerCount[c]
                                   /\ readerCond'[c] = readerCond[c]
                                   /\ writerCond'[c] = writerCond[c]
    <2>1. \A c \in Blocks \ {b} : readerCount'[c] = readerCount[c] /\ writerCount'[c] = writerCount[c]
      BY <1>0, <1>1 DEF DropHold
    <2>2. \A c \in Blocks \ {b} : readerCond'[c] = readerCond[c] /\ writerCond'[c] = writerCond[c]
      <3>1. Notify(b) \/ UNCHANGED <<readerCond, writerCond>>
        BY <1>1 DEF UnlockBlock
      <3> QED
        BY <1>0, <3>1 DEF Notify
    <2> QED
      BY <2>1, <2>2
  <1>5. ASSUME NEW c \in Blocks \ {b}
        PROVE  /\ readerCond'[c] # {} => waitingWriters'[c] # 0 \/ writerCount'[c] # 0
               /\ writerCond'[c] # {} => \/ WriteBlocked(c)'
                                         \/ \E u \in Waiters(c, "write")' : ~Asleep(u)'
    <2>1. \A u \in Waiters(c, "write") : ~Asleep(u) => u \in Waiters(c, "write")' /\ ~Asleep(u)'
      BY <1>2, <1>3, <1>4, <1>5 DEF Waiters, Asleep
    <2>2. WriteBlocked(c)' <=> WriteBlocked(c)
      BY <1>4, <1>5 DEF WriteBlocked
    <2> QED
      BY <1>2, <1>4, <1>5, <2>1, <2>2 DEF NoLostWakeUp
  \* Without waiters of a kind there are no sleepers of it.
  <1>6. /\ waitingReaders[b] = 0 => readerCond[b] = {}
        /\ waitingWriters[b] = 0 => writerCond[b] = {}
    BY WaitersAreThreads DEF BlockWaitersCounted, SleepersWait
  <1>7. /\ readerCond'[b] # {} => waitingWriters'[b] # 0 \/ writerCount'[b] # 0
        /\ writerCond'[b] # {} => \/ WriteBlocked(b)'
                                  \/ \E u \in Waiters(b, "write")' : ~Asleep(u)'
    <2>1. CASE StillRead(b) /\ UNCHANGED <<readerCond, writerCond>>
      <3>1. writerCount[b] = 0 /\ readerCount'[b] # 0
        BY <1>0, <1>1, <2>1 DEF DropHold, StillRead
      <3> QED
        BY <1>2, <2>1, <3>1 DEF NoLostWakeUp, WriteBlocked
    <2>2. CASE NoWaiters(b) /\ UNCHANGED <<readerCond, writerCond>>
      BY <1>6, <2>2 DEF NoWaiters
    <2>3. CASE waitingWriters[b] = 0 /\ readerCond' = [readerCond EXCEPT ![b] = {}] /\ UNCHANGED writerCond
      BY <1>0, <1>6, <2>3
    <2>4. CASE waitingWriters[b] # 0 /\ writerCond[b] = {} /\ UNCHANGED writerCond
      BY <1>2, <2>4
    <2>5. ASSUME waitingWriters[b] # 0, UNCHANGED readerCond, NEW u \in writerCond[b],
                 writerCond' = [writerCond EXCEPT ![b] = @ \ {u}]
          PROVE  /\ waitingWriters'[b] # 0
                 /\ \E v \in Waiters(b, "write")' : ~Asleep(v)'
      <3>1. u \in Waiters(b, "write") /\ u \notin readerCond[b]
        BY <2>5 DEF SleepersWait, Waiters
      <3>2. d'[u].block = b
        BY <1>2, <3>1 DEF Waiters
      <3>3. ~Asleep(u)'
        BY <1>0, <2>5, <3>1, <3>2 DEF Asleep
      <3> QED
        BY <1>2, <1>3, <2>5, <3>1, <3>3
    <2> QED
      BY <1>1, <2>1, <2>2, <2>3, <2>4, <2>5 DEF UnlockBlock, Notify
  <1> QED
    BY <1>5, <1>7 DEF NoLostWakeUp

\* Every step keeps the invariant of the wake-ups.
LEMMA WakeInvStep == IInv /\ WakeInv /\ [Next]_vars => WakeInv'
  <1> SUFFICES ASSUME IInv, WakeInv, [Next]_vars PROVE NoLostWakeUp'
    BY MayWaitStep DEF WakeInv
  <1> USE DEF IInv
  <1>1. NoLostWakeUp
    BY DEF WakeInv
  <1>2. CASE UNCHANGED vars
    <2>1. UNCHANGED <<counts, waits, pc, mode, d>>
      BY <1>2 DEF vars, call
    <2>2. \A b, m : Waiters(b, m)' = Waiters(b, m)
      BY <2>1, SameWaiters
    <2> QED
      BY <1>1, <2>1, <2>2, NobodyWoken DEF counts
  <1>3. CASE Next
    <2>1. PICK t \in Threads :
            \/ \E l \in Locks, m \in {"read", "write"}, tm \in Timeouts : Call(t, l, m, tm)
            \/ Locking(t) \/ StopWaiting(t) \/ Leave(t) \/ Unlocking(t)
      BY <1>3 DEF Next
    \* The steps of a thread that does not wait, outside the critical sections.
    <2>2. ASSUME UNCHANGED waits, pc[t] # "waiting", pc'[t] # "waiting",
                 \A u \in Threads \ {t} : pc'[u] = pc[u] /\ d'[u] = d[u] /\ mode'[u] = mode[u],
                 \A b \in Blocks : readerCond[b] # {} \/ writerCond[b] # {} =>
                   readerCount'[b] = readerCount[b] /\ writerCount'[b] = writerCount[b]
          PROVE  NoLostWakeUp'
      <3>1. \A b, m : Waiters(b, m)' = Waiters(b, m)
        BY <2>2, SameWaiters
      <3> QED
        BY <1>1, <2>2, <3>1, NobodyWoken
    <2>3. CASE \E l \in Locks, m \in {"read", "write"}, tm \in Timeouts : Call(t, l, m, tm)
      BY <2>2, <2>3 DEF Call, Goto, TypeOK, counts
    <2>4. CASE TakeUncontended(t) \/ GiveUpUncontended(t) \/ Stale(t) \/ LoadAgain(t)
      BY <2>2, <2>4 DEF TakeUncontended, GiveUpUncontended, MustInflate, Fail, Stale, LoadAgain,
                        Swap, Reload, Goto, TypeOK, counts, call
    <2>5. CASE Publish(t)
      BY <2>2, <2>5 DEF Publish, Goto, TypeOK, counts, call
    <2>6. CASE Leave(t) \/ LoadForUnlock(t) \/ UnlockUncontended(t)
      BY <2>2, <2>6 DEF Leave, LoadForUnlock, UnlockUncontended, Release, Swap, Reload, Goto,
                        TypeOK, counts, call
    <2>7. CASE Inflate(t)
      <3>1. PICK b \in freelist :
              /\ writerCount' = [writerCount EXCEPT ![b] = IF d[t].kind = "write" THEN 1 ELSE 0]
              /\ readerCount' = [readerCount EXCEPT ![b] = IF d[t].kind = "read" THEN d[t].n ELSE 0]
        BY <2>7 DEF Inflate
      <3>2. readerCond[b] = {} /\ writerCond[b] = {}
        BY DEF FreeBlockClean
      <3>3. \A c \in Blocks : readerCond[c] # {} \/ writerCond[c] # {} =>
              readerCount'[c] = readerCount[c] /\ writerCount'[c] = writerCount[c]
        BY <3>1, <3>2 DEF TypeOK
      <3> QED
        BY <2>2, <2>7, <3>3 DEF Inflate, MustInflate, Goto, TypeOK, call
    <2>8. CASE Retract(t)
      <3>1. readerCond[val[t]] = {} /\ writerCond[val[t]] = {}
        <4>1. val[t] \in Blocks /\ \A n : Waiters(val[t], n) = {}
          BY <2>8 DEF Retract, Waiters, LocalOK, BlocksApart
        <4> QED
          BY <4>1 DEF SleepersWait
      <3>2. \A c \in Blocks : readerCond[c] # {} \/ writerCond[c] # {} =>
              readerCount'[c] = readerCount[c] /\ writerCount'[c] = writerCount[c]
        BY <2>8, <3>1 DEF Retract, TypeOK
      <3> QED
        BY <2>2, <2>8, <3>2 DEF Retract, Reload, Goto, TypeOK, call
    <2>9. CASE EnterBlock(t) \/ WakeUp(t)
      BY <2>9, CriticalSection, LockBlockWakes DEF InSection
    <2>10. CASE StopWaiting(t)
      BY <1>1, <2>10, StopWaitingWakes
    <2>11. CASE UnlockBlock(t)
      BY <1>1, <2>11, UnlockBlockWakes
    <2> QED
      BY <2>1, <2>3, <2>4, <2>5, <2>6, <2>7, <2>8, <2>9, <2>10, <2>11 DEF Locking, Unlocking
  <1> QED
    BY <1>2, <1>3

\* Readers sleep only while a writer holds the lock or waits for it, and writers
\* only while somebody holds it or a writer is on its way: whoever leaves wakes
\* whom the lock is free for (screadwritelock.cpp 240-265, 269-353).
THEOREM WakeUps == Spec => []NoLostWakeUp
  <1>1. Init => WakeInv
    BY DEF Init, WakeInv, NoLostWakeUp, WaitersMayWait
  <1>2. WakeInv => NoLostWakeUp
    BY DEF WakeInv
  <1> QED
    BY <1>1, <1>2, Invariant, WakeInvStep, PTL DEF Spec

\* While a writer waits in the block of a lock, nobody becomes a reader of it:
\* a new reader is told to wait, and one that was waiting goes on waiting
\* (screadwritelock.cpp 115-122, 269-276, 319).
THEOREM WritersHoldBackReaders == Spec => WaitingWriterHoldsBackReaders
  <1>1. IInv /\ [Next]_vars =>
          \A l \in Locks : /\ d_ptr[l].kind = "block"
                           /\ waitingWriters[d_ptr[l].block] # 0
                           => Holders(l, "read")' \subseteq Holders(l, "read")
    <2> SUFFICES ASSUME IInv, [Next]_vars, NEW l \in Locks,
                        d_ptr[l].kind = "block", waitingWriters[d_ptr[l].block] # 0,
                        NEW u \in Holders(l, "read")', u \notin Holders(l, "read")
                 PROVE  FALSE
      OBVIOUS
    <2> USE DEF IInv
    <2>1. u \in Threads /\ pc'[u] \in Held /\ lock'[u] = l /\ mode'[u] = "read"
      BY DEF Holders, Held
    <2>2. ~(pc[u] \in Held /\ lock[u] = l /\ mode[u] = "read")
      BY <2>1 DEF Holders, Held
    <2>3. CASE UNCHANGED vars
      BY <2>1, <2>2, <2>3 DEF vars, call
    <2>4. CASE Next
      <3>1. PICK t \in Threads :
              \/ \E k \in Locks, m \in {"read", "write"}, tm \in Timeouts : Call(t, k, m, tm)
              \/ Locking(t) \/ StopWaiting(t) \/ Leave(t) \/ Unlocking(t)
        BY <2>4 DEF Next
      <3>2. CASE \E k \in Locks, m \in {"read", "write"}, tm \in Timeouts : Call(t, k, m, tm)
        BY <2>1, <2>2, <3>2 DEF Call, Goto, TypeOK, Held
      <3>3. CASE TakeUncontended(t)
        <4>1. CASE UNCHANGED pc
          BY <2>1, <2>2, <3>3, <4>1 DEF TakeUncontended, call
        <4>2. CASE Swap(t, Taken(mode[t], d[t])) /\ Goto(t, "holding")
          <5>1. u = t /\ lock[t] = l
            BY <2>1, <2>2, <3>3, <4>2 DEF TakeUncontended, Goto, TypeOK, call
          <5> QED
            BY <3>3, <4>2, <5>1 DEF TakeUncontended, Swap, CanTake
        <4> QED
          BY <3>3, <4>1, <4>2 DEF TakeUncontended
      <3>4. CASE GiveUpUncontended(t) \/ Inflate(t) \/ Publish(t) \/ Retract(t) \/ Stale(t)
                 \/ LoadAgain(t) \/ StopWaiting(t)
        BY <2>1, <2>2, <3>4 DEF GiveUpUncontended, Inflate, Publish, Retract, Stale, LoadAgain,
                                StopWaiting, Fail, Goto, TypeOK, Held, call
      <3>5. CASE EnterBlock(t) \/ WakeUp(t)
        <4>1. PICK b \in Blocks, wr \in Nat, ww \in Nat : InSection(t, b, wr, ww)
          BY <3>5, CriticalSection
        <4>2. CASE AcquireRead(t, b, wr, ww)
          <5>1. u = t /\ lock[t] = l /\ mode[t] = "read" /\ ww = 0
            BY <2>1, <2>2, <4>2 DEF AcquireRead, ReadBlocked, Goto, TypeOK, Held, call
          <5>2. b = d_ptr[l].block
            BY <4>1, <5>1 DEF InSection
          <5>3. t \notin Waiters(b, "write")
            BY <5>1 DEF Waiters
          <5>4. ww = waitingWriters[b]
            BY <4>1, <5>3, WithoutThread DEF InSection, BlockWaitersCounted
          <5> QED
            BY <5>1, <5>2, <5>4
        <4>3. CASE AcquireWrite(t, b, wr, ww)
          BY <2>1, <2>2, <4>3 DEF AcquireWrite, Goto, TypeOK, call
        <4>4. CASE SleepRead(t, b, wr, ww) \/ SleepWrite(t, b, wr, ww)
          BY <2>1, <2>2, <4>4 DEF SleepRead, SleepWrite, Goto, TypeOK, Held, call
        <4>5. CASE FailRead(t, b, wr, ww) \/ FailWrite(t, b, wr, ww)
          BY <2>1, <2>2, <4>5 DEF FailRead, FailWrite, Fail, Goto, TypeOK, Held
        <4> QED
          BY <4>1, <4>2, <4>3, <4>4, <4>5 DEF InSection, LockBlock
      <3>6. CASE Leave(t) \/ LoadForUnlock(t)
        BY <2>1, <2>2, <3>6 DEF Leave, LoadForUnlock, Goto, TypeOK, Held, call
      <3>7. CASE UnlockUncontended(t) \/ UnlockBlock(t)
        BY <2>1, <2>2, <3>7 DEF UnlockUncontended, UnlockBlock, Release, Goto, TypeOK, Held, call
      <3> QED
        BY <3>1, <3>2, <3>3, <3>4, <3>5, <3>6, <3>7 DEF Locking, Unlocking
    <2> QED
      BY <2>3, <2>4
  <1> QED
    BY <1>1, Invariant, PTL DEF Spec, WaitingWriterHoldsBackReaders

-----------------------------------------------------------------------------
(* The refinement.                                                         *)

\* A step gives a lock to one thread, takes it from one, or does neither.
LEMMA HoldersStep ==
  ASSUME IInv, [Next]_vars
  PROVE  \/ \A l, m : Holders(l, m)' = Holders(l, m)
         \/ \E t \in Threads, l \in Locks, m \in {"read", "write"} :
              /\ \/ t \notin Holders(l, m) /\ Holders(l, m)' = Holders(l, m) \cup {t}
                 \/ t \in Holders(l, m) /\ Holders(l, m)' = Holders(l, m) \ {t}
              /\ \A k, n : k # l \/ n # m => Holders(k, n)' = Holders(k, n)
  <1> DEFINE Goal ==
        \/ \A l, m : Holders(l, m)' = Holders(l, m)
        \/ \E t \in Threads, l \in Locks, m \in {"read", "write"} :
             /\ \/ t \notin Holders(l, m) /\ Holders(l, m)' = Holders(l, m) \cup {t}
                \/ t \in Holders(l, m) /\ Holders(l, m)' = Holders(l, m) \ {t}
             /\ \A k, n : k # l \/ n # m => Holders(k, n)' = Holders(k, n)
  <1> USE DEF IInv
  <1>1. CASE UNCHANGED vars
    BY <1>1, SameHolders DEF vars, call
  <1>2. ASSUME NEW t \in Threads, pc[t] # "idle",
               \/ /\ pc[t] \notin Held /\ Goto(t, "holding") /\ UNCHANGED <<lock, mode>>
               \/ /\ pc[t] \in Held /\ Release(t)
        PROVE  Goal
    <2>1. PICK l \in Locks, m \in {"read", "write"} : l = lock[t] /\ m = mode[t]
      BY <1>2 DEF TypeOK, LocalOK
    <2>2. CASE pc[t] \notin Held /\ Goto(t, "holding") /\ UNCHANGED <<lock, mode>>
      <3>1. t \notin Holders(l, m)
        BY <2>2 DEF Holders, Held
      <3> QED
        BY <2>1, <2>2, <3>1, JoinHolders
    <2>3. CASE pc[t] \in Held /\ Release(t)
      BY <2>1, <2>3, LeaveHolders
    <2> QED
      BY <1>2, <2>2, <2>3
  <1>3. CASE Next
    <2>1. PICK t \in Threads :
            \/ \E l \in Locks, m \in {"read", "write"}, tm \in Timeouts : Call(t, l, m, tm)
            \/ Locking(t) \/ StopWaiting(t) \/ Leave(t) \/ Unlocking(t)
      BY <1>3 DEF Next
    <2>2. CASE \E l \in Locks, m \in {"read", "write"}, tm \in Timeouts : Call(t, l, m, tm)
      BY <2>2, SameHolders DEF Call, Goto, TypeOK, Held
    <2>3. CASE TakeUncontended(t)
      <3>1. CASE Goto(t, "holding")
        BY <1>2, <2>3, <3>1 DEF TakeUncontended, Held, call
      <3>2. CASE UNCHANGED pc
        BY <2>3, <3>2, SameHolders DEF TakeUncontended, call
      <3> QED
        BY <2>3, <3>1, <3>2 DEF TakeUncontended
    <2>4. CASE GiveUpUncontended(t) \/ Inflate(t) \/ Publish(t) \/ Retract(t) \/ Stale(t) \/ LoadAgain(t)
      BY <2>4, SameHolders
         DEF TypeOK, GiveUpUncontended, Inflate, MustInflate, Publish, Retract, Stale, LoadAgain,
             Fail, Goto, Held, call
    <2>5. ASSUME NEW b, NEW wr, NEW ww, pc[t] \in {"trying", "waiting"}, LockBlock(t, b, wr, ww)
          PROVE  Goal
      <3>1. CASE AcquireRead(t, b, wr, ww) \/ AcquireWrite(t, b, wr, ww)
        BY <1>2, <2>5, <3>1 DEF AcquireRead, AcquireWrite, Held, call
      <3>2. CASE SleepRead(t, b, wr, ww) \/ SleepWrite(t, b, wr, ww)
        BY <2>5, <3>2, SameHolders DEF SleepRead, SleepWrite, TypeOK, Goto, Held, call
      <3>3. CASE FailRead(t, b, wr, ww) \/ FailWrite(t, b, wr, ww)
        BY <2>5, <3>3, SameHolders DEF FailRead, FailWrite, Fail, TypeOK, Goto, Held
      <3> QED
        BY <2>5, <3>1, <3>2, <3>3 DEF LockBlock
    <2>6. CASE EnterBlock(t)
      BY <2>5, <2>6 DEF EnterBlock
    <2>7. CASE WakeUp(t)
      BY <2>5, <2>7 DEF WakeUp
    <2>8. CASE StopWaiting(t)
      BY <2>8, SameHolders DEF StopWaiting, call
    <2>9. CASE Leave(t) \/ LoadForUnlock(t)
      BY <2>9, SameHolders DEF Leave, LoadForUnlock, TypeOK, Goto, Held, call
    <2>10. CASE UnlockUncontended(t)
      <3>1. CASE Release(t)
        BY <1>2, <2>10, <3>1 DEF UnlockUncontended, Held
      <3>2. CASE UNCHANGED <<pc, call>>
        BY <3>2, SameHolders DEF call
      <3> QED
        BY <2>10, <3>1, <3>2 DEF UnlockUncontended
    <2>11. CASE UnlockBlock(t)
      BY <1>2, <2>11 DEF UnlockBlock, Held
    <2> QED
      BY <2>1, <2>2, <2>3, <2>4, <2>6, <2>7, <2>8, <2>9, <2>10, <2>11 DEF Locking, Unlocking
  <1> QED
    BY <1>1, <1>3

\* The lock is a ReadWriteLock: whatever its threads do, its callers see it
\* given to a reader when no writer holds it, to a writer when nobody does, and
\* taken back by its holder (screadwritelock.cpp 100-267).
THEOREM Refinement == Spec => ImplementsReadWriteLock
  <1> DEFINE readers == [l \in Locks |-> Holders(l, "read")]
             writers == [l \in Locks |-> Holders(l, "write")]
  <1>1. Init => Abstract!Init
    BY DEF Init, Abstract!Init, Holders
  <1>2. IInv /\ IInv' /\ [Next]_vars => [Abstract!Next]_<<readers, writers>>
    <2> SUFFICES ASSUME IInv, IInv', [Next]_vars
                 PROVE  Abstract!Next \/ UNCHANGED <<readers, writers>>
      OBVIOUS
    <2>1. CASE \A l, m : Holders(l, m)' = Holders(l, m)
      BY <2>1
    <2>2. ASSUME NEW t \in Threads, NEW l \in Locks, NEW m \in {"read", "write"},
                 \/ t \notin Holders(l, m) /\ Holders(l, m)' = Holders(l, m) \cup {t}
                 \/ t \in Holders(l, m) /\ Holders(l, m)' = Holders(l, m) \ {t},
                 \A k, n : k # l \/ n # m => Holders(k, n)' = Holders(k, n)
          PROVE  Abstract!Next
      <3>1. MutualExclusion /\ MutualExclusion'
        BY DEF IInv
      <3>2. CASE m = "read" /\ t \notin Holders(l, m) /\ Holders(l, m)' = Holders(l, m) \cup {t}
        <4>1. Holders(l, "write") = {}
          BY <2>2, <3>1, <3>2 DEF MutualExclusion
        <4>2. Abstract!LockForRead(t, l)
          BY <2>2, <3>2, <4>1 DEF Abstract!LockForRead
        <4> QED
          BY <4>2 DEF Abstract!Next
      <3>3. CASE m = "write" /\ t \notin Holders(l, m) /\ Holders(l, m)' = Holders(l, m) \cup {t}
        <4>1. Holders(l, "read") = {}
          BY <2>2, <3>1, <3>3 DEF MutualExclusion
        <4>2. Holders(l, "write") = {}
          BY <3>1, <3>3 DEF MutualExclusion
        <4>3. Abstract!LockForWrite(t, l)
          BY <2>2, <3>3, <4>1, <4>2 DEF Abstract!LockForWrite
        <4> QED
          BY <4>3 DEF Abstract!Next
      <3>4. CASE t \in Holders(l, m) /\ Holders(l, m)' = Holders(l, m) \ {t}
        <4>1. \A n \in {"read", "write"} : n # m => t \notin Holders(l, n)
          BY <3>4 DEF Holders
        <4>2. \A k \in Locks, n \in {"read", "write"} :
                Holders(k, n)' = IF k = l THEN Holders(k, n) \ {t} ELSE Holders(k, n)
          <5>1. \A n \in {"read", "write"} : n # m => Holders(l, n) = Holders(l, n) \ {t}
            BY <4>1
          <5> QED
            BY <2>2, <3>4, <5>1
        <4>3. /\ readers' = [readers EXCEPT ![l] = @ \ {t}]
              /\ writers' = [writers EXCEPT ![l] = @ \ {t}]
          BY <4>2
        <4>4. t \in readers[l] \cup writers[l]
          BY <3>4
        <4>5. Abstract!Unlock(t, l)
          BY <4>3, <4>4 DEF Abstract!Unlock
        <4> QED
          BY <4>5 DEF Abstract!Next
      <3> QED
        BY <2>2, <3>2, <3>3, <3>4
    <2> QED
      BY <2>1, <2>2, HoldersStep
  <1> QED
    BY <1>1, <1>2, Invariant, PTL DEF Spec, ImplementsReadWriteLock, Abstract!Spec

=============================================================================
