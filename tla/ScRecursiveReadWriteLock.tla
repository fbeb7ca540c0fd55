---------------------- MODULE ScRecursiveReadWriteLock ----------------------
(***************************************************************************)
(* A ScReadWriteLock made with the mode Recursive, from                    *)
(*   src/src/ScUtils/src/thread/screadwritelock.cpp                        *)
(*                                                                         *)
(* Its d_ptr is one block from beginning to end, so that all of a call but *)
(* its sleep is one critical section of the block's mutex. A thread that   *)
(* has the lock gets it again, and gives it up by as many calls of         *)
(* unlock().                                                               *)
(*                                                                         *)
(* As with the lock this one is modelled on, a thread may not change the   *)
(* kind of its hold: a writer that asks for reading, or a reader that asks *)
(* for writing, would wait for itself (lines 382-399, 364-380).            *)
(***************************************************************************)
EXTENDS Integers, FiniteSets

CONSTANTS Threads,
          Nobody,        \* std::thread::id()
          MaxDepth       \* locks of one thread at a time

ASSUME RecursiveAssumption ==
  IsFiniteSet(Threads) /\ Nobody \notin Threads /\ MaxDepth \in Nat \ {0}

VARIABLES readerCount, writerCount, waitingReaders, waitingWriters,
          currentWriter, currentReaders,
          readerCond, writerCond,  \* the threads asleep in them
          pc,            \* where each thread is
          held           \* history: the locks each thread was given and has yet

counts == <<readerCount, writerCount, currentWriter, currentReaders, held>>
vars == <<counts, waitingReaders, waitingWriters, readerCond, writerCond, pc>>

\* Timeouts: return at once, after a while, or never.
Timeouts == {"none", "some", "forever"}

\* A thread in lockForRead() or lockForWrite() waits, or wants the mutex back.
Place == [kind : {"read", "write"}, timeout : {"some", "forever"}]
Idle == [kind |-> "idle", timeout |-> "none"]

\* Every variable has its type (screadwritelock.cpp:29-41).
TypeOK ==
  /\ readerCount \in Int /\ writerCount \in Int
  /\ waitingReaders \in Nat /\ waitingWriters \in Nat
  /\ currentWriter \in Threads \cup {Nobody}
  /\ currentReaders \in [Threads -> 0..MaxDepth]      \* 0: not in the map
  /\ readerCond \subseteq Threads /\ writerCond \subseteq Threads
  /\ pc \in [Threads -> Place \cup {Idle}]
  /\ held \in [Threads -> 0..MaxDepth]

Init ==
  /\ readerCount = 0 /\ writerCount = 0 /\ waitingReaders = 0 /\ waitingWriters = 0
  /\ currentWriter = Nobody
  /\ currentReaders = [t \in Threads |-> 0]
  /\ readerCond = {} /\ writerCond = {}
  /\ pc = [t \in Threads |-> Idle]
  /\ held = [t \in Threads |-> 0]

-----------------------------------------------------------------------------
(* Locking                                                                  *)

ReadBlocked == waitingWriters # 0 \/ writerCount # 0
WriteBlocked == readerCount # 0 \/ writerCount # 0

HeldMore(t) == held' = [held EXCEPT ![t] = @ + 1]

\* The thread has the lock for the first time.
GetRead(t) ==
  /\ readerCount' = readerCount + 1
  /\ currentReaders' = [currentReaders EXCEPT ![t] = 1]
  /\ HeldMore(t)
  /\ UNCHANGED <<writerCount, currentWriter>>

GetWrite(t) ==
  /\ writerCount' = 1
  /\ currentWriter' = t
  /\ HeldMore(t)
  /\ UNCHANGED <<readerCount, currentReaders>>

Sleep(t, kind, timeout) ==
  /\ timeout # "none"
  /\ pc' = [pc EXCEPT ![t] = [kind |-> kind, timeout |-> timeout]]

\* recursiveLockForRead(), up to its end or its first sleep.
AgainRead(t) ==
  /\ currentReaders' = [currentReaders EXCEPT ![t] = @ + 1]
  /\ HeldMore(t)
  /\ UNCHANGED <<readerCount, writerCount, currentWriter>>

LockForRead(t, timeout) ==
  /\ pc[t] = Idle /\ currentWriter # t /\ held[t] < MaxDepth
  /\ \/ /\ currentReaders[t] > 0
        /\ AgainRead(t)
        /\ UNCHANGED <<waitingReaders, readerCond, pc>>
     \/ /\ currentReaders[t] = 0 /\ ~ReadBlocked
        /\ GetRead(t)
        /\ UNCHANGED <<waitingReaders, readerCond, pc>>
     \/ /\ currentReaders[t] = 0 /\ ReadBlocked
        /\ Sleep(t, "read", timeout)
        /\ waitingReaders' = waitingReaders + 1
        /\ readerCond' = readerCond \cup {t}
        /\ UNCHANGED counts
  /\ UNCHANGED <<waitingWriters, writerCond>>

AgainWrite(t) ==
  /\ writerCount' = writerCount + 1
  /\ HeldMore(t)
  /\ UNCHANGED <<readerCount, currentWriter, currentReaders>>

LockForWrite(t, timeout) ==
  /\ pc[t] = Idle /\ currentReaders[t] = 0 /\ held[t] < MaxDepth
  /\ \/ /\ currentWriter = t
        /\ AgainWrite(t)
        /\ UNCHANGED <<waitingWriters, writerCond, pc>>
     \/ /\ currentWriter # t /\ ~WriteBlocked
        /\ GetWrite(t)
        /\ UNCHANGED <<waitingWriters, writerCond, pc>>
     \/ /\ currentWriter # t /\ WriteBlocked
        /\ Sleep(t, "write", timeout)
        /\ waitingWriters' = waitingWriters + 1
        /\ writerCond' = writerCond \cup {t}
        /\ UNCHANGED counts
  /\ UNCHANGED <<waitingReaders, readerCond>>

Asleep(t) == t \in readerCond \cup writerCond

\* A sleep ends by itself, spuriously or by its time.
StopWaiting(t) ==
  /\ Asleep(t)
  /\ readerCond' = readerCond \ {t} /\ writerCond' = writerCond \ {t}
  /\ UNCHANGED <<counts, waitingReaders, waitingWriters, pc>>

\* The thread has the mutex again: it gets the lock, sleeps on, or gives up.
WakeRead(t) ==
  /\ pc[t].kind = "read" /\ ~Asleep(t)
  /\ \/ /\ ReadBlocked
        /\ readerCond' = readerCond \cup {t}
        /\ UNCHANGED <<counts, waitingReaders, pc>>
     \/ /\ ReadBlocked /\ pc[t].timeout = "some"
        /\ waitingReaders' = waitingReaders - 1
        /\ pc' = [pc EXCEPT ![t] = Idle]
        /\ UNCHANGED <<counts, readerCond>>
     \/ /\ ~ReadBlocked
        /\ GetRead(t)
        /\ waitingReaders' = waitingReaders - 1
        /\ pc' = [pc EXCEPT ![t] = Idle]
        /\ UNCHANGED readerCond
  /\ UNCHANGED <<waitingWriters, writerCond>>

\* The last writer to give up wakes the readers that waited behind it.
GiveUpFault(t) ==
  /\ waitingWriters' = waitingWriters - 1
  /\ UNCHANGED readerCond

GiveUp(t) ==
  /\ waitingWriters' = waitingWriters - 1
  /\ readerCond' = IF waitingReaders # 0 /\ waitingWriters' = 0 /\ writerCount = 0 THEN {} ELSE readerCond

WakeWrite(t) ==
  /\ pc[t].kind = "write" /\ ~Asleep(t)
  /\ \/ /\ WriteBlocked
        /\ writerCond' = writerCond \cup {t}
        /\ UNCHANGED <<counts, waitingWriters, readerCond, pc>>
     \/ /\ WriteBlocked /\ pc[t].timeout = "some"
        /\ GiveUp(t)
        /\ pc' = [pc EXCEPT ![t] = Idle]
        /\ UNCHANGED <<counts, writerCond>>
     \/ /\ ~WriteBlocked
        /\ GetWrite(t)
        /\ waitingWriters' = waitingWriters - 1
        /\ pc' = [pc EXCEPT ![t] = Idle]
        /\ UNCHANGED <<readerCond, writerCond>>
  /\ UNCHANGED waitingReaders

-----------------------------------------------------------------------------
(* Unlocking                                                                *)

\* unlock() of the block: one writer, or else all readers.
Notify ==
  \/ /\ waitingWriters # 0
     /\ \/ \E w \in writerCond : writerCond' = writerCond \ {w}
        \/ writerCond = {} /\ UNCHANGED writerCond
     /\ UNCHANGED readerCond
  \/ /\ waitingWriters = 0
     /\ readerCond' = IF waitingReaders # 0 THEN {} ELSE readerCond
     /\ UNCHANGED writerCond

\* What recursiveUnlock() does with a hold of its thread.
UnlockWriter(t) ==
  /\ writerCount' = writerCount - 1
  /\ currentWriter' = IF writerCount' > 0 THEN t ELSE Nobody
  /\ UNCHANGED <<readerCount, currentReaders>>

UnlockReaderFault(t) ==
  /\ currentReaders' = [currentReaders EXCEPT ![t] = @ - 1]
  /\ readerCount' = readerCount - 1
  /\ UNCHANGED <<writerCount, currentWriter>>

UnlockReader(t) ==
  /\ currentReaders' = [currentReaders EXCEPT ![t] = @ - 1]
  /\ readerCount' = IF currentReaders'[t] <= 0 THEN readerCount - 1 ELSE readerCount
  /\ UNCHANGED <<writerCount, currentWriter>>

Unlock(t) ==
  /\ pc[t] = Idle /\ held[t] > 0
  /\ IF currentWriter = t THEN UnlockWriter(t) ELSE UnlockReader(t)
  /\ held' = [held EXCEPT ![t] = @ - 1]
  /\ IF writerCount' > 0 \/ readerCount' # 0 THEN UNCHANGED <<readerCond, writerCond>> ELSE Notify
  /\ UNCHANGED <<waitingReaders, waitingWriters, pc>>

Next ==
  \E t \in Threads :
    \/ \E timeout \in Timeouts : LockForRead(t, timeout) \/ LockForWrite(t, timeout)
    \/ StopWaiting(t)
    \/ WakeRead(t)
    \/ WakeWrite(t)
    \/ Unlock(t)

Spec == Init /\ [][Next]_vars

-----------------------------------------------------------------------------
(* Properties                                                               *)

\* The counts say who has the lock and how often: one count of readers for
\* each thread that holds for reading however often it does, a count of the
\* writer's calls, never both, and as many unlock() to come as locks were
\* given (lines 356-428).
RecursionCounted ==
  /\ readerCount = Cardinality({t \in Threads : currentReaders[t] > 0})
  /\ writerCount > 0 <=> currentWriter # Nobody
  /\ readerCount = 0 \/ writerCount = 0
  /\ \A t \in Threads :
       held[t] = currentReaders[t] + (IF currentWriter = t THEN writerCount ELSE 0)

\* No wake-up is lost: readers sleep only while a writer holds or waits, and
\* writers only while somebody has the lock or a writer is on its way to the
\* mutex, whichever of them give up (lines 287-292, 346-353, 402-428).
NoLostWakeUp ==
  /\ readerCond # {} => ReadBlocked
  /\ writerCond # {} => WriteBlocked \/ \E t \in Threads : pc[t].kind = "write" /\ ~Asleep(t)

\* Nested holds are one hold to the outside: the lock is the one of module
\* ReadWriteLock, with steps of its own that change nothing there.
Holding(kind) ==
  [l \in {"lock"} |->
     IF kind = "read" THEN {t \in Threads : currentReaders[t] > 0} ELSE {currentWriter} \ {Nobody}]

Abstract == INSTANCE ReadWriteLock WITH
  Locks <- {"lock"}, readers <- Holding("read"), writers <- Holding("write")

ImplementsReadWriteLock == Abstract!Spec
=============================================================================
