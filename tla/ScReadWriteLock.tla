-------------------------- MODULE ScReadWriteLock --------------------------
(***************************************************************************)
(* The non-recursive ScReadWriteLock, from                                 *)
(*   src/src/ScUtils/src/thread/screadwritelock.cpp                        *)
(*                                                                         *)
(* A lock is one atomic pointer d_ptr.  While nobody has to wait it holds  *)
(* a tagged number: null, n readers, or one writer, changed by CAS.  A     *)
(* thread that has to wait replaces it by a ScReadWriteLockPrivate (here:  *)
(* a block) taken from a free list all locks share, whose counts a mutex   *)
(* guards; the last unlock nobody waits behind puts null back and returns  *)
(* the block.  A thread that read d_ptr may find, when it gets the block's *)
(* mutex, that the block has been returned, or serves another lock, or the *)
(* same lock again.                                                        *)
(*                                                                         *)
(* One atomic operation on d_ptr is one action, and so is a critical       *)
(* section of a block's mutex.                                             *)
(***************************************************************************)
EXTENDS Integers, FiniteSets

CONSTANTS
  Locks,     \* the ScReadWriteLock objects
  Threads,
  Blocks,    \* the ScReadWriteLockPrivate objects of the free list
  NoBlock,   \* nullptr
  NoLock,
  Timeouts   \* the timeouts clients use: "none" (0), "some" (> 0), "forever" (-1)

\* The free list has 65535 entries; a thread has at most one block in hand and
\* keeps at most one lock contended, so one per thread is enough.
ASSUME LockAssumption ==
  /\ NoBlock \notin Blocks
  /\ NoLock \notin Locks
  /\ IsFiniteSet(Threads)
  /\ Timeouts \subseteq {"none", "some", "forever"}

VARIABLES
  d_ptr,                           \* per lock
  readerCount, writerCount,        \* per block
  waitingReaders, waitingWriters,
  readerCond, writerCond,          \* threads asleep on the condition variables
  freelist,                        \* the blocks next() may return
  pc, lock, mode, timeout,         \* per thread: the call it is in
  d, val                           \* its locals

counts  == <<readerCount, writerCount>>
waits   == <<waitingReaders, waitingWriters, readerCond, writerCond>>
call    == <<lock, mode, timeout>>
vars == <<d_ptr, counts, waits, freelist, pc, call, d, val>>

-----------------------------------------------------------------------------
(* The values of d_ptr.                                                    *)

Null       == [kind |-> "null",  n |-> 0, block |-> NoBlock]
Reading(n) == [kind |-> "read",  n |-> n, block |-> NoBlock]
Writing    == [kind |-> "write", n |-> 0, block |-> NoBlock]
Contended(b) == [kind |-> "block", n |-> 0, block |-> b]

Pointer == [kind : {"null", "read", "write", "block"}, n : Nat,
            block : Blocks \cup {NoBlock}]

\* idle       outside the lock
\* trying     in the loop of tryLockForRead / tryLockForWrite, with d
\* inflating  has a block val that stands for what d says, before the CAS
\* reloading  found d stale under the mutex, before it loads d_ptr again
\* waiting    in readerCond / writerCond .wait or .wait_for
\* holding    holds the lock
\* leaving    called unlock(), has not loaded d_ptr yet
\* unlocking  in the loop of unlock(), with d
State == {"idle", "trying", "inflating", "reloading", "waiting", "holding",
          "leaving", "unlocking"}

\* The argument of tryLockFor...: 0, positive, or -1.
Timeout == {"none", "some", "forever"}

\* Every variable keeps its type: no count of readers or waiters falls below zero.
TypeOK ==
  /\ d_ptr \in [Locks -> Pointer]
  /\ readerCount \in [Blocks -> Nat]
  /\ writerCount \in [Blocks -> Nat]
  /\ waitingReaders \in [Blocks -> Int]
  /\ waitingWriters \in [Blocks -> Int]
  /\ readerCond \in [Blocks -> SUBSET Threads]
  /\ writerCond \in [Blocks -> SUBSET Threads]
  /\ freelist \subseteq Blocks
  /\ pc \in [Threads -> State]
  /\ lock \in [Threads -> Locks \cup {NoLock}]
  /\ mode \in [Threads -> {"read", "write"}]
  /\ timeout \in [Threads -> Timeout]
  /\ d \in [Threads -> Pointer]
  /\ val \in [Threads -> Blocks \cup {NoBlock}]

Init ==
  /\ d_ptr = [l \in Locks |-> Null]
  /\ readerCount = [b \in Blocks |-> 0]
  /\ writerCount = [b \in Blocks |-> 0]
  /\ waitingReaders = [b \in Blocks |-> 0]
  /\ waitingWriters = [b \in Blocks |-> 0]
  /\ readerCond = [b \in Blocks |-> {}]
  /\ writerCond = [b \in Blocks |-> {}]
  /\ freelist = Blocks
  /\ pc = [t \in Threads |-> "idle"]
  /\ lock = [t \in Threads |-> NoLock]
  /\ mode = [t \in Threads |-> "read"]
  /\ timeout = [t \in Threads |-> "none"]
  /\ d = [t \in Threads |-> Null]
  /\ val = [t \in Threads |-> NoBlock]

-----------------------------------------------------------------------------
(* Steps of one thread.                                                    *)

Goto(t, state) == pc' = [pc EXCEPT ![t] = state]

\* What a CAS on the lock that t works on does when it fails: it loads d.
Reload(t) ==
  /\ d_ptr[lock[t]] # d[t]
  /\ d' = [d EXCEPT ![t] = d_ptr[lock[t]]]

\* A CAS of d_ptr from d to p that succeeds.
Swap(t, p) ==
  /\ d_ptr[lock[t]] = d[t]
  /\ d_ptr' = [d_ptr EXCEPT ![lock[t]] = p]
  /\ UNCHANGED d

\* lockForRead() and lockForWrite() are the try functions with timeout -1.  The
\* first CAS of both expects null.
Call(t, l, m, tm) ==
  /\ pc[t] = "idle"
  /\ Goto(t, "trying")
  /\ lock' = [lock EXCEPT ![t] = l]
  /\ mode' = [mode EXCEPT ![t] = m]
  /\ timeout' = [timeout EXCEPT ![t] = tm]
  /\ d' = [d EXCEPT ![t] = Null]
  /\ UNCHANGED <<d_ptr, counts, waits, freelist, val>>

\* What an uncontended lock in state p becomes when a thread takes it.
Taken(m, p) ==
  IF m = "write" THEN Writing ELSE Reading(p.n + 1)

CanTake(m, p) == p.kind = "null" \/ (m = "read" /\ p.kind = "read")

TakeUncontended(t) ==
  /\ pc[t] = "trying"
  /\ CanTake(mode[t], d[t])
  /\ \/ Swap(t, Taken(mode[t], d[t])) /\ Goto(t, "holding")
     \/ Reload(t) /\ UNCHANGED <<d_ptr, pc>>
  /\ UNCHANGED <<counts, waits, freelist, call, val>>

\* The lock is taken in a way that excludes this call, and uncontended.
MustInflate(t) ==
  /\ pc[t] = "trying"
  /\ d[t].kind \in {"read", "write"}
  /\ ~CanTake(mode[t], d[t])

\* The call returns false.
Fail(t) ==
  /\ Goto(t, "idle")
  /\ lock' = [lock EXCEPT ![t] = NoLock]
  /\ UNCHANGED <<mode, timeout>>

GiveUpUncontended(t) ==
  /\ MustInflate(t)
  /\ timeout[t] = "none"
  /\ Fail(t)
  /\ UNCHANGED <<d_ptr, counts, waits, freelist, d, val>>

\* Definitions named ...Fault are plausible mistakes in the definition that
\* follows; no specification uses them, see "seeded faults" in README.md.
InflateFault(t) ==                             \* one reader too few
  /\ MustInflate(t)
  /\ timeout[t] # "none"
  /\ \E b \in freelist :
       /\ freelist' = freelist \ {b}
       /\ val' = [val EXCEPT ![t] = b]
       /\ writerCount' = [writerCount EXCEPT ![b] = IF d[t].kind = "write" THEN 1 ELSE 0]
       /\ readerCount' = [readerCount EXCEPT ![b] = IF d[t].kind = "read" THEN d[t].n - 1 ELSE 0]
  /\ Goto(t, "inflating")
  /\ UNCHANGED <<d_ptr, waits, call, d>>

\* allocate(), and the counts that say what d says.
Inflate(t) ==
  /\ MustInflate(t)
  /\ timeout[t] # "none"
  /\ \E b \in freelist :
       /\ freelist' = freelist \ {b}
       /\ val' = [val EXCEPT ![t] = b]
       /\ writerCount' = [writerCount EXCEPT ![b] = IF d[t].kind = "write" THEN 1 ELSE 0]
       /\ readerCount' = [readerCount EXCEPT ![b] = IF d[t].kind = "read" THEN d[t].n ELSE 0]
  /\ Goto(t, "inflating")
  /\ UNCHANGED <<d_ptr, waits, call, d>>

Publish(t) ==
  /\ pc[t] = "inflating"
  /\ d_ptr[lock[t]] = d[t]
  /\ d_ptr' = [d_ptr EXCEPT ![lock[t]] = Contended(val[t])]
  /\ d' = [d EXCEPT ![t] = Contended(val[t])]
  /\ val' = [val EXCEPT ![t] = NoBlock]
  /\ Goto(t, "trying")
  /\ UNCHANGED <<counts, waits, freelist, call>>

\* The CAS fails: zero the counts again and release the block.
Retract(t) ==
  /\ pc[t] = "inflating"
  /\ Reload(t)
  /\ writerCount' = [writerCount EXCEPT ![val[t]] = 0]
  /\ readerCount' = [readerCount EXCEPT ![val[t]] = 0]
  /\ freelist' = freelist \cup {val[t]}
  /\ val' = [val EXCEPT ![t] = NoBlock]
  /\ Goto(t, "trying")
  /\ UNCHANGED <<d_ptr, waits, call>>

\* Under the mutex of the block d: is it still the lock's?
Stale(t) ==
  /\ pc[t] = "trying"
  /\ d[t].kind = "block"
  /\ d[t] # d_ptr[lock[t]]
  /\ Goto(t, "reloading")
  /\ UNCHANGED <<d_ptr, counts, waits, freelist, call, d, val>>

LoadAgain(t) ==
  /\ pc[t] = "reloading"
  /\ d' = [d EXCEPT ![t] = d_ptr[lock[t]]]
  /\ Goto(t, "trying")
  /\ UNCHANGED <<d_ptr, counts, waits, freelist, call, val>>

-----------------------------------------------------------------------------
(* ScReadWriteLockPrivate::lockForRead and lockForWrite, with the mutex.   *)
(* wr and ww are the numbers of waiting readers and writers, less the      *)
(* caller's own when it comes back from waiting.                           *)

ReadBlockedFault(b, ww) == writerCount[b] # 0  \* no regard for waiting writers
ReadBlocked(b, ww) == ww # 0 \/ writerCount[b] # 0
WriteBlockedFault(b) == writerCount[b] # 0     \* no regard for readers
WriteBlocked(b)    == readerCount[b] # 0 \/ writerCount[b] # 0

AcquireRead(t, b, wr, ww) ==
  /\ mode[t] = "read"
  /\ ~ReadBlocked(b, ww)
  /\ readerCount' = [readerCount EXCEPT ![b] = @ + 1]
  /\ waitingReaders' = [waitingReaders EXCEPT ![b] = wr]
  /\ Goto(t, "holding")
  /\ UNCHANGED <<writerCount, waitingWriters, readerCond, writerCond, call>>

AcquireWrite(t, b, wr, ww) ==
  /\ mode[t] = "write"
  /\ ~WriteBlocked(b)
  /\ writerCount' = [writerCount EXCEPT ![b] = 1]
  /\ waitingWriters' = [waitingWriters EXCEPT ![b] = ww]
  /\ Goto(t, "holding")
  /\ UNCHANGED <<readerCount, waitingReaders, readerCond, writerCond, call>>

SleepRead(t, b, wr, ww) ==
  /\ mode[t] = "read"
  /\ ReadBlocked(b, ww)
  /\ timeout[t] # "none"
  /\ waitingReaders' = [waitingReaders EXCEPT ![b] = wr + 1]
  /\ readerCond' = [readerCond EXCEPT ![b] = @ \cup {t}]
  /\ Goto(t, "waiting")
  /\ UNCHANGED <<counts, waitingWriters, writerCond, call>>

SleepWrite(t, b, wr, ww) ==
  /\ mode[t] = "write"
  /\ WriteBlocked(b)
  /\ timeout[t] # "none"
  /\ waitingWriters' = [waitingWriters EXCEPT ![b] = ww + 1]
  /\ writerCond' = [writerCond EXCEPT ![b] = @ \cup {t}]
  /\ Goto(t, "waiting")
  /\ UNCHANGED <<counts, waitingReaders, readerCond, call>>

\* Return false: at once without a timeout, and whenever a finite one has
\* elapsed.
FailRead(t, b, wr, ww) ==
  /\ mode[t] = "read"
  /\ ReadBlocked(b, ww)
  /\ timeout[t] # "forever"
  /\ waitingReaders' = [waitingReaders EXCEPT ![b] = wr]
  /\ Fail(t)
  /\ UNCHANGED <<counts, waitingWriters, readerCond, writerCond>>

FailWriteFault(t, b, wr, ww) ==                \* readers not notified
  /\ mode[t] = "write"
  /\ WriteBlocked(b)
  /\ timeout[t] # "forever"
  /\ waitingWriters' = [waitingWriters EXCEPT ![b] = ww]
  /\ Fail(t)
  /\ UNCHANGED <<counts, waitingReaders, readerCond, writerCond>>

\* A writer that times out may have been all that held readers back.
FailWrite(t, b, wr, ww) ==
  /\ mode[t] = "write"
  /\ WriteBlocked(b)
  /\ timeout[t] # "forever"
  /\ waitingWriters' = [waitingWriters EXCEPT ![b] = ww]
  /\ readerCond' = IF timeout[t] = "some" /\ wr # 0 /\ ww = 0 /\ writerCount[b] = 0
                   THEN [readerCond EXCEPT ![b] = {}] ELSE readerCond
  /\ Fail(t)
  /\ UNCHANGED <<counts, waitingReaders, writerCond>>

LockBlock(t, b, wr, ww) ==
  /\ \/ AcquireRead(t, b, wr, ww) \/ AcquireWrite(t, b, wr, ww)
     \/ SleepRead(t, b, wr, ww)   \/ SleepWrite(t, b, wr, ww)
     \/ FailRead(t, b, wr, ww)    \/ FailWrite(t, b, wr, ww)
  /\ UNCHANGED <<d_ptr, freelist, d, val>>

EnterBlockFault(t) ==                          \* d not compared with d_ptr
  /\ pc[t] = "trying"
  /\ d[t].kind = "block"
  /\ LockBlock(t, d[t].block, waitingReaders[d[t].block], waitingWriters[d[t].block])

EnterBlock(t) ==
  /\ pc[t] = "trying"
  /\ d[t].kind = "block"
  /\ d[t] = d_ptr[lock[t]]
  /\ LockBlock(t, d[t].block, waitingReaders[d[t].block], waitingWriters[d[t].block])

Asleep(t) == t \in readerCond[d[t].block] \cup writerCond[d[t].block]

\* wait() and wait_for() end spuriously, or wait_for() by its timeout: from now
\* on a notification does not reach the thread, and it has to get the mutex.
StopWaiting(t) ==
  /\ pc[t] = "waiting"
  /\ Asleep(t)
  /\ readerCond' = [readerCond EXCEPT ![d[t].block] = @ \ {t}]
  /\ writerCond' = [writerCond EXCEPT ![d[t].block] = @ \ {t}]
  /\ UNCHANGED <<d_ptr, counts, waitingReaders, waitingWriters, freelist, pc,
                 call, d, val>>

WakeUp(t) ==
  /\ pc[t] = "waiting"
  /\ ~Asleep(t)
  /\ LET b == d[t].block
     IN  LockBlock(t, b,
           waitingReaders[b] - (IF mode[t] = "read" THEN 1 ELSE 0),
           waitingWriters[b] - (IF mode[t] = "write" THEN 1 ELSE 0))

-----------------------------------------------------------------------------
(* unlock.                                                                 *)

Leave(t) ==
  /\ pc[t] = "holding"
  /\ Goto(t, "leaving")
  /\ UNCHANGED <<d_ptr, counts, waits, freelist, call, d, val>>

LoadForUnlock(t) ==
  /\ pc[t] = "leaving"
  /\ d' = [d EXCEPT ![t] = d_ptr[lock[t]]]
  /\ Goto(t, "unlocking")
  /\ UNCHANGED <<d_ptr, counts, waits, freelist, call, val>>

\* The lock is no longer t's.
Release(t) ==
  /\ Goto(t, "idle")
  /\ lock' = [lock EXCEPT ![t] = NoLock]
  /\ UNCHANGED <<mode, timeout>>

UnlockUncontended(t) ==
  /\ pc[t] = "unlocking"
  /\ d[t].kind \in {"read", "write"}
  /\ \/ /\ Swap(t, IF d[t].kind = "read" /\ d[t].n > 1 THEN Reading(d[t].n - 1) ELSE Null)
        /\ Release(t)
     \/ Reload(t) /\ UNCHANGED <<d_ptr, pc, call>>
  /\ UNCHANGED <<counts, waits, freelist, val>>

\* The counts without the caller's hold.
DropHold(b) ==
  IF writerCount[b] # 0
  THEN /\ writerCount' = [writerCount EXCEPT ![b] = 0]
       /\ UNCHANGED readerCount
  ELSE /\ readerCount' = [readerCount EXCEPT ![b] = @ - 1]
       /\ UNCHANGED writerCount

NoWaiters(b)  == waitingReaders[b] = 0 /\ waitingWriters[b] = 0
StillRead(b)  == writerCount[b] = 0 /\ readerCount[b] > 1
NotifyFault(b) ==                              \* readers before writers
  \/ /\ waitingReaders[b] = 0
     /\ IF writerCond[b] = {} THEN UNCHANGED writerCond
        ELSE \E u \in writerCond[b] :
               writerCond' = [writerCond EXCEPT ![b] = @ \ {u}]
     /\ UNCHANGED readerCond
  \/ /\ waitingReaders[b] # 0
     /\ readerCond' = [readerCond EXCEPT ![b] = {}]
     /\ UNCHANGED writerCond

\* ScReadWriteLockPrivate::unlock: one writer is notified, or else all readers.
Notify(b) ==
  \/ /\ waitingWriters[b] # 0
     /\ IF writerCond[b] = {} THEN UNCHANGED writerCond
        ELSE \E u \in writerCond[b] :
               writerCond' = [writerCond EXCEPT ![b] = @ \ {u}]
     /\ UNCHANGED readerCond
  \/ /\ waitingWriters[b] = 0
     /\ readerCond' = [readerCond EXCEPT ![b] = {}]
     /\ UNCHANGED writerCond

UnlockBlock(t) ==
  /\ pc[t] = "unlocking"
  /\ d[t].kind = "block"
  /\ LET b == d[t].block
     IN  /\ DropHold(b)
         /\ \/ /\ StillRead(b)
               /\ UNCHANGED <<d_ptr, freelist, readerCond, writerCond>>
            \/ /\ ~StillRead(b)
               /\ ~NoWaiters(b)
               /\ Notify(b)
               /\ UNCHANGED <<d_ptr, freelist>>
            \/ /\ ~StillRead(b)
               /\ NoWaiters(b)
               /\ d_ptr' = [d_ptr EXCEPT ![lock[t]] = Null]
               /\ freelist' = freelist \cup {b}
               /\ UNCHANGED <<readerCond, writerCond>>
  /\ Release(t)
  /\ UNCHANGED <<waitingReaders, waitingWriters, d, val>>

-----------------------------------------------------------------------------

Locking(t) ==
  \/ TakeUncontended(t) \/ GiveUpUncontended(t)
  \/ Inflate(t) \/ Publish(t) \/ Retract(t)
  \/ Stale(t) \/ LoadAgain(t) \/ EnterBlock(t) \/ WakeUp(t)

Unlocking(t) == LoadForUnlock(t) \/ UnlockUncontended(t) \/ UnlockBlock(t)

Next ==
  \E t \in Threads :
    \/ \E l \in Locks, m \in {"read", "write"}, tm \in Timeouts : Call(t, l, m, tm)
    \/ Locking(t) \/ StopWaiting(t) \/ Leave(t) \/ Unlocking(t)

Spec == Init /\ [][Next]_vars

\* Threads run, and who holds a lock unlocks it some time; nothing is promised
\* of a timeout or of a client's calls.
Fairness ==
  \A t \in Threads : WF_vars(Locking(t)) /\ WF_vars(Leave(t)) /\ WF_vars(Unlocking(t))

FairSpec == Spec /\ Fairness

-----------------------------------------------------------------------------
(* Properties.                                                             *)

Holders(l, m) ==
  {t \in Threads : /\ pc[t] \in {"holding", "leaving", "unlocking"}
                   /\ lock[t] = l
                   /\ mode[t] = m}

Waiters(b, m) ==
  {t \in Threads : pc[t] = "waiting" /\ d[t].block = b /\ mode[t] = m}

\* A writer holds a lock alone, however the lock was inflated, handed over,
\* deflated and its block reused meanwhile.
MutualExclusion ==
  \A l \in Locks :
    /\ Holders(l, "write") # {} => Holders(l, "read") = {}
    /\ \A t, u \in Holders(l, "write") : t = u

\* Every step of a thread is one of ReadWriteLock's, or none of its callers'
\* business.
Abstract == INSTANCE ReadWriteLock WITH
  readers <- [l \in Locks |-> Holders(l, "read")],
  writers <- [l \in Locks |-> Holders(l, "write")]

ImplementsReadWriteLock == Abstract!Spec

\* d_ptr, or the counts of the block it points to, say exactly who holds the
\* lock.  It is what SC_ASSERT in unlock() and lockFor...() rely on (lines 214,
\* 225, 243-249, 304-305, 342).
HoldsCounted ==
  \A l \in Locks :
    LET p == d_ptr[l]
        r == Cardinality(Holders(l, "read"))
        w == Cardinality(Holders(l, "write"))
    IN  /\ p.kind = "null"  => r = 0 /\ w = 0
        /\ p.kind = "read"  => r = p.n /\ r > 0 /\ w = 0
        /\ p.kind = "write" => r = 0 /\ w = 1
        /\ p.kind = "block" => r = readerCount[p.block] /\ w = writerCount[p.block]

\* A block is in the free list, or in the hands of one thread that is about to
\* publish it, or serves one lock; never two of these (lines 129-137, 179-192,
\* 262-263, 430-445).
BlockHasOneUse ==
  \A b \in Blocks :
    Cardinality({t \in Threads : pc[t] = "inflating" /\ val[t] = b})
      + Cardinality({l \in Locks : d_ptr[l] = Contended(b)})
      + (IF b \in freelist THEN 1 ELSE 0) = 1

\* The assertion of release() and allocate() (lines 433, 443): a block in the
\* free list has no counts left, and nobody sleeps in it.
FreeBlockClean ==
  \A b \in freelist :
    /\ readerCount[b] = 0 /\ writerCount[b] = 0
    /\ waitingReaders[b] = 0 /\ waitingWriters[b] = 0
    /\ readerCond[b] = {} /\ writerCond[b] = {}

\* A thread that waits is counted, and its block stays the block of its lock: it
\* wakes to a block that nobody returned or reused under it.
WaitersCounted ==
  /\ \A b \in Blocks :
       /\ waitingReaders[b] = Cardinality(Waiters(b, "read"))
       /\ waitingWriters[b] = Cardinality(Waiters(b, "write"))
  /\ \A t \in Threads : pc[t] = "waiting" => d_ptr[lock[t]] = d[t]

\* All the counts and the use of every block, which the code relies on and never
\* checks in a release build (lines 100-267).
CountsExact == HoldsCounted /\ WaitersCounted /\ BlockHasOneUse /\ FreeBlockClean

\* No wake-up is lost: readers sleep only while a writer holds or waits, and
\* writers only while somebody holds the lock or a writer that was notified, or
\* timed out, is on its way to the mutex (lines 255-258, 287-292, 346-353).
NoLostWakeUp ==
  \A b \in Blocks :
    /\ readerCond[b] # {} => waitingWriters[b] # 0 \/ writerCount[b] # 0
    /\ writerCond[b] # {} => \/ WriteBlocked(b)
                            \/ \E t \in Waiters(b, "write") : ~Asleep(t)

\* A writer that waits keeps new readers out: the readers of a lock do not
\* become more while a writer waits in its block (lines 319, 115-122).
WaitingWriterHoldsBackReaders ==
  [][\A l \in Locks :
       /\ d_ptr[l].kind = "block"
       /\ waitingWriters[d_ptr[l].block] # 0
       => Holders(l, "read")' \subseteq Holders(l, "read")]_vars

\* A lock that threads wait for, with no time limit, does not stay free: one of
\* them, or another thread, comes to hold it.
FreeLockIsTaken ==
  \A l \in Locks :
    (\E t \in Threads : pc[t] = "waiting" /\ lock[t] = l /\ timeout[t] = "forever")
      ~> Holders(l, "read") \cup Holders(l, "write") # {}

\* Threads, blocks and locks are interchangeable.
Bijections(S) == {f \in [S -> S] : \A x, y \in S : f[x] = f[y] => x = y}
Symmetry == {f : f \in Bijections(Threads) \cup Bijections(Blocks) \cup Bijections(Locks)}
=============================================================================
