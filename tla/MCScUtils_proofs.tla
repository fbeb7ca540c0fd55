-------------------------- MODULE MCScUtils_proofs --------------------------
(***************************************************************************)
(* Theorems about the parts that MCScUtils composes, for every value of    *)
(* the constants that it leaves open. Each part has an inductive           *)
(* invariant, and what the other parts do leaves it alone. The recursive   *)
(* lock, which MCScUtils extends, comes first.                             *)
(***************************************************************************)
EXTENDS MCScUtils, FiniteSetTheorems, SequenceTheorems, TLAPS

-----------------------------------------------------------------------------
(***************************************************************************)
(* The recursive lock, by itself, for any number of threads and any depth: *)
(* types, exact counts, no lost wake-up, and that the lock is the abstract *)
(* lock of ReadWriteLock.                                                  *)
(*                                                                         *)
(* The invariant has four parts: who holds (CountsOK), who waits           *)
(* (QueuesOK), that nobody does both (Apart), and NoLostWakeUp, which      *)
(* needs the counts of the waiting to be exact.                            *)
(***************************************************************************)

Readers == {t \in Threads : currentReaders[t] > 0}
Waiting(kind) == {t \in Threads : pc[t].kind = kind}

CountsOK ==
  /\ readerCount \in Nat /\ writerCount \in Nat
  /\ currentWriter \in Threads \cup {Nobody}
  /\ currentReaders \in [Threads -> 0..MaxDepth]
  /\ held \in [Threads -> 0..MaxDepth]
  /\ RecursionCounted

QueuesOK ==
  /\ pc \in [Threads -> Place \cup {Idle}]
  /\ waitingReaders = Cardinality(Waiting("read"))
  /\ waitingWriters = Cardinality(Waiting("write"))
  /\ readerCond \subseteq Waiting("read")
  /\ writerCond \subseteq Waiting("write")

\* Who waits holds nothing: nobody asks for a hold of the other kind.
Apart == \A t \in Threads : pc[t] # Idle => held[t] = 0

LockInv == CountsOK /\ QueuesOK /\ Apart /\ NoLostWakeUp

-----------------------------------------------------------------------------
(* Sets of threads and their sizes                                         *)

LEMMA SetsAreFinite == \A S \in SUBSET Threads : IsFiniteSet(S) /\ Cardinality(S) \in Nat
  BY RecursiveAssumption, FS_Subset, FS_CardinalityType DEF RecursiveAssumption

\* One more and one less.
LEMMA OneMore ==
  ASSUME NEW S \in SUBSET Threads, NEW t \in Threads \ S
  PROVE  Cardinality(S \cup {t}) = Cardinality(S) + 1
  BY SetsAreFinite, FS_AddElement

LEMMA OneLess ==
  ASSUME NEW S \in SUBSET Threads, NEW t \in S
  PROVE  Cardinality(S \ {t}) = Cardinality(S) - 1 /\ Cardinality(S) > 0
<1>1. S \ {t} \in SUBSET Threads /\ t \in Threads \ (S \ {t}) /\ (S \ {t}) \cup {t} = S
  OBVIOUS
<1>2. Cardinality(S) = Cardinality(S \ {t}) + 1
  BY <1>1, OneMore
<1> QED BY <1>1, <1>2, SetsAreFinite

LEMMA NoneIsZero ==
  ASSUME NEW S \in SUBSET Threads
  PROVE  Cardinality(S) = 0 <=> S = {}
  BY SetsAreFinite, FS_EmptySet

LEMMA MaxDepthIsPositive == MaxDepth \in Nat /\ MaxDepth > 0
  BY RecursiveAssumption DEF RecursiveAssumption

LEMMA NobodyIsNoThread == Nobody \notin Threads
  BY RecursiveAssumption DEF RecursiveAssumption

-----------------------------------------------------------------------------
(* Who holds                                                                *)

\* The first hold for reading (screadwritelock.cpp:341-343).
LEMMA GetReadCounts ==
  ASSUME CountsOK, NEW t \in Threads, held[t] = 0, writerCount = 0, GetRead(t)
  PROVE  CountsOK' /\ Readers' = Readers \cup {t} /\ t \notin Readers /\ readerCount' > 0
<1>1. currentReaders[t] = 0
  BY DEF CountsOK, RecursionCounted
<1>2. Readers' = Readers \cup {t} /\ t \notin Readers /\ Readers \in SUBSET Threads
  BY <1>1 DEF CountsOK, GetRead, Readers
<1>3. readerCount' = Cardinality(Readers')
  BY <1>2, OneMore DEF CountsOK, RecursionCounted, GetRead, Readers
<1>4. readerCount' \in Nat /\ readerCount' > 0
  BY DEF CountsOK, GetRead
<1>5. /\ currentReaders' \in [Threads -> 0..MaxDepth]
      /\ held' \in [Threads -> 0..MaxDepth]
  BY MaxDepthIsPositive DEF CountsOK, GetRead, HeldMore
<1>6. \A u \in Threads :
        held'[u] = currentReaders'[u] + (IF currentWriter' = u THEN writerCount' ELSE 0)
  BY <1>1 DEF CountsOK, RecursionCounted, GetRead, HeldMore
<1>7. RecursionCounted'
  BY <1>3, <1>6 DEF CountsOK, RecursionCounted, GetRead, Readers
<1> QED BY <1>2, <1>4, <1>5, <1>7 DEF CountsOK, GetRead

\* The first hold for writing (screadwritelock.cpp:304-307).
LEMMA GetWriteCounts ==
  ASSUME CountsOK, NEW t \in Threads, held[t] = 0, ~WriteBlocked, GetWrite(t)
  PROVE  CountsOK' /\ Readers' = Readers /\ Readers = {} /\ currentWriter = Nobody
<1>1. readerCount = 0 /\ writerCount = 0 /\ currentWriter = Nobody
  BY DEF WriteBlocked, CountsOK, RecursionCounted
<1>2. Readers' = Readers /\ Readers = {}
  BY <1>1, NoneIsZero DEF CountsOK, RecursionCounted, GetWrite, Readers
<1>3. held' \in [Threads -> 0..MaxDepth]
  BY MaxDepthIsPositive DEF CountsOK, GetWrite, HeldMore
<1>4. \A u \in Threads :
        held'[u] = currentReaders'[u] + (IF currentWriter' = u THEN writerCount' ELSE 0)
  BY <1>1, NobodyIsNoThread DEF CountsOK, RecursionCounted, GetWrite, HeldMore
<1>5. RecursionCounted'
  BY <1>1, <1>2, <1>4, NobodyIsNoThread DEF CountsOK, RecursionCounted, GetWrite, Readers
<1> QED BY <1>1, <1>2, <1>3, <1>5 DEF CountsOK, GetWrite

\* A further hold of a reader (screadwritelock.cpp:388-393).
LEMMA AgainReadCounts ==
  ASSUME CountsOK, NEW t \in Threads, currentReaders[t] > 0, currentWriter # t,
         held[t] < MaxDepth, AgainRead(t)
  PROVE  CountsOK' /\ Readers' = Readers
<1>1. held[t] = currentReaders[t]
  BY DEF CountsOK, RecursionCounted
<1>2. Readers' = Readers
  BY DEF CountsOK, AgainRead, Readers
<1>3. /\ currentReaders' \in [Threads -> 0..MaxDepth]
      /\ held' \in [Threads -> 0..MaxDepth]
  BY <1>1, MaxDepthIsPositive DEF CountsOK, AgainRead, HeldMore
<1>4. \A u \in Threads :
        held'[u] = currentReaders'[u] + (IF currentWriter' = u THEN writerCount' ELSE 0)
  BY <1>1 DEF CountsOK, RecursionCounted, AgainRead, HeldMore
<1>5. RecursionCounted'
  BY <1>2, <1>4 DEF CountsOK, RecursionCounted, AgainRead, Readers
<1> QED BY <1>2, <1>3, <1>5 DEF CountsOK, AgainRead

\* A further hold of the writer (screadwritelock.cpp:361-366).
LEMMA AgainWriteCounts ==
  ASSUME CountsOK, NEW t \in Threads, currentWriter = t, held[t] < MaxDepth, AgainWrite(t)
  PROVE  CountsOK' /\ Readers' = Readers /\ writerCount' > 0
<1>1. Readers' = Readers /\ writerCount > 0
  BY NobodyIsNoThread DEF CountsOK, RecursionCounted, AgainWrite, Readers
<1>2. held' \in [Threads -> 0..MaxDepth]
  BY MaxDepthIsPositive DEF CountsOK, AgainWrite, HeldMore
<1>3. \A u \in Threads :
        held'[u] = currentReaders'[u] + (IF currentWriter' = u THEN writerCount' ELSE 0)
  BY DEF CountsOK, RecursionCounted, AgainWrite, HeldMore
<1>4. RecursionCounted'
  BY <1>1, <1>3 DEF CountsOK, RecursionCounted, AgainWrite, Readers
<1> QED BY <1>1, <1>2, <1>4 DEF CountsOK, AgainWrite

\* One hold less of a writer (screadwritelock.cpp:408-412).
LEMMA UnlockWriterCounts ==
  ASSUME CountsOK, NEW t \in Threads, held[t] > 0, currentWriter = t, UnlockWriter(t),
         held' = [held EXCEPT ![t] = @ - 1]
  PROVE  CountsOK' /\ Readers' = Readers /\ readerCount = 0
<1>1. writerCount > 0 /\ readerCount = 0 /\ Readers' = Readers
  BY NobodyIsNoThread DEF CountsOK, RecursionCounted, UnlockWriter, Readers
<1>2. /\ writerCount' \in Nat /\ currentWriter' \in Threads \cup {Nobody}
      /\ held' \in [Threads -> 0..MaxDepth]
  BY <1>1, MaxDepthIsPositive DEF CountsOK, UnlockWriter
<1>3. \A u \in Threads :
        held'[u] = currentReaders'[u] + (IF currentWriter' = u THEN writerCount' ELSE 0)
  BY <1>1, NobodyIsNoThread DEF CountsOK, RecursionCounted, UnlockWriter
<1>4. RecursionCounted'
  BY <1>1, <1>2, <1>3, NobodyIsNoThread DEF CountsOK, RecursionCounted, UnlockWriter, Readers
<1> QED BY <1>1, <1>2, <1>4 DEF CountsOK, UnlockWriter

\* One hold less of a reader; the last one takes it off the readers
\* (screadwritelock.cpp:422-430).
LEMMA UnlockReaderCounts ==
  ASSUME CountsOK, NEW t \in Threads, held[t] > 0, currentWriter # t, UnlockReader(t),
         held' = [held EXCEPT ![t] = @ - 1]
  PROVE  CountsOK' /\ t \in Readers /\ Readers' \in {Readers, Readers \ {t}}
<1>1. currentReaders[t] > 0 /\ held[t] = currentReaders[t] /\ t \in Readers
  BY DEF CountsOK, RecursionCounted, Readers
<1>2. readerCount = Cardinality(Readers) /\ Readers \in SUBSET Threads
  BY DEF CountsOK, RecursionCounted, Readers
<1>3. /\ currentReaders' = [currentReaders EXCEPT ![t] = @ - 1]
      /\ currentReaders'[t] = currentReaders[t] - 1
      /\ writerCount' = writerCount /\ currentWriter' = currentWriter
  BY DEF CountsOK, UnlockReader
<1>4. readerCount' = Cardinality(Readers') /\ Readers' \in {Readers, Readers \ {t}}
      /\ readerCount' \in Nat /\ (readerCount = 0 => readerCount' = 0)
  <2>1. CASE currentReaders[t] = 1
    <3>1. Readers' = Readers \ {t}
      BY <1>3, <2>1 DEF CountsOK, Readers
    <3>2. readerCount' = readerCount - 1
      BY <1>3, <2>1 DEF UnlockReader
    <3> QED BY <1>1, <1>2, <3>1, <3>2, OneLess, SetsAreFinite DEF CountsOK
  <2>2. CASE currentReaders[t] # 1
    <3>1. Readers' = Readers
      BY <1>1, <1>3, <2>2 DEF CountsOK, Readers
    <3>2. readerCount' = readerCount
      BY <1>1, <1>3, <2>2 DEF UnlockReader, CountsOK
    <3> QED BY <1>2, <3>1, <3>2 DEF CountsOK
  <2> QED BY <2>1, <2>2
<1>5. /\ currentReaders' \in [Threads -> 0..MaxDepth]
      /\ held' \in [Threads -> 0..MaxDepth]
  BY <1>1, <1>3, MaxDepthIsPositive DEF CountsOK
<1>6. \A u \in Threads :
        held'[u] = currentReaders'[u] + (IF currentWriter' = u THEN writerCount' ELSE 0)
  BY <1>1, <1>3 DEF CountsOK, RecursionCounted
<1>7. readerCount' = 0 \/ writerCount' = 0
  <2>1. readerCount > 0
    BY <1>1, <1>2, OneLess
  <2> QED BY <1>3, <2>1 DEF CountsOK, RecursionCounted
<1>8. RecursionCounted'
  BY <1>3, <1>4, <1>6, <1>7 DEF CountsOK, RecursionCounted, Readers
<1> QED BY <1>1, <1>3, <1>4, <1>5, <1>8 DEF CountsOK

-----------------------------------------------------------------------------
(* Who waits                                                                *)

\* The kinds of places.
LEMMA Kinds ==
  ASSUME QueuesOK, NEW t \in Threads
  PROVE  /\ pc[t].kind \in {"read", "write", "idle"}
         /\ pc[t] = Idle <=> pc[t].kind = "idle"
  BY DEF QueuesOK, Place, Idle

LEMMA WaitingAreThreads == \A kind : Waiting(kind) \in SUBSET Threads
  BY DEF Waiting

\* A thread that is idle joins the waiting of one kind.
LEMMA Joins ==
  ASSUME QueuesOK, NEW t \in Threads, pc[t] = Idle,
         NEW kind \in {"read", "write"}, NEW timeout \in Timeouts, Sleep(t, kind, timeout)
  PROVE  /\ pc' \in [Threads -> Place \cup {Idle}]
         /\ pc'[t].kind = kind /\ pc'[t] # Idle
         /\ \A u \in Threads \ {t} : pc'[u] = pc[u]
         /\ t \notin Waiting("read") /\ t \notin Waiting("write")
         /\ Waiting(kind)' = Waiting(kind) \cup {t}
         /\ \A other \in {"read", "write"} \ {kind} : Waiting(other)' = Waiting(other)
         /\ Cardinality(Waiting(kind)') = Cardinality(Waiting(kind)) + 1
<1>1. [kind |-> kind, timeout |-> timeout] \in Place
  BY DEF Place, Timeouts, Sleep
<1>2. /\ pc'[t] = [kind |-> kind, timeout |-> timeout]
      /\ \A u \in Threads \ {t} : pc'[u] = pc[u]
      /\ pc' \in [Threads -> Place \cup {Idle}]
  BY <1>1 DEF Sleep, QueuesOK
<1>3. pc'[t].kind = kind /\ pc'[t] # Idle /\ pc[t].kind = "idle"
  BY <1>2 DEF Idle
<1>4. /\ t \notin Waiting("read") /\ t \notin Waiting("write")
      /\ Waiting(kind)' = Waiting(kind) \cup {t}
      /\ \A other \in {"read", "write"} \ {kind} : Waiting(other)' = Waiting(other)
  BY <1>2, <1>3 DEF Waiting
<1>5. Cardinality(Waiting(kind)') = Cardinality(Waiting(kind)) + 1
  BY <1>4, OneMore, WaitingAreThreads
<1> QED BY <1>2, <1>3, <1>4, <1>5

\* A waiting thread becomes idle.
LEMMA Leaves ==
  ASSUME QueuesOK, NEW t \in Threads, NEW kind \in {"read", "write"}, pc[t].kind = kind,
         pc' = [pc EXCEPT ![t] = Idle]
  PROVE  /\ pc' \in [Threads -> Place \cup {Idle}]
         /\ pc'[t] = Idle
         /\ \A u \in Threads \ {t} : pc'[u] = pc[u]
         /\ t \in Waiting(kind)
         /\ Waiting(kind)' = Waiting(kind) \ {t}
         /\ \A other \in {"read", "write"} \ {kind} : Waiting(other)' = Waiting(other)
         /\ Cardinality(Waiting(kind)') = Cardinality(Waiting(kind)) - 1
<1>1. /\ pc'[t] = Idle
      /\ \A u \in Threads \ {t} : pc'[u] = pc[u]
      /\ pc' \in [Threads -> Place \cup {Idle}]
  BY DEF QueuesOK
<1>2. pc'[t].kind = "idle"
  BY <1>1 DEF Idle
<1>3. /\ t \in Waiting(kind)
      /\ Waiting(kind)' = Waiting(kind) \ {t}
      /\ \A other \in {"read", "write"} \ {kind} : Waiting(other)' = Waiting(other)
  BY <1>1, <1>2 DEF Waiting
<1>4. Cardinality(Waiting(kind)') = Cardinality(Waiting(kind)) - 1
  BY <1>3, OneLess, WaitingAreThreads
<1> QED BY <1>1, <1>3, <1>4

\* Nobody waits if the count says so.
LEMMA NobodyWaits ==
  ASSUME QueuesOK
  PROVE  /\ waitingReaders = 0 => Waiting("read") = {} /\ readerCond = {}
         /\ waitingWriters = 0 => Waiting("write") = {} /\ writerCond = {}
         /\ waitingReaders \in Nat /\ waitingWriters \in Nat
<1>1. /\ waitingReaders = 0 => Waiting("read") = {}
      /\ waitingWriters = 0 => Waiting("write") = {}
  BY NoneIsZero, WaitingAreThreads DEF QueuesOK
<1> QED BY <1>1, SetsAreFinite, WaitingAreThreads DEF QueuesOK

LEMMA WaitingApart == Waiting("read") \cap Waiting("write") = {}
  BY DEF Waiting

-----------------------------------------------------------------------------
(* The steps                                                                *)

\* Nothing is held and nobody waits at first (screadwritelock.cpp:29-41).
LEMMA LockStart == Init => LockInv
<1> SUFFICES ASSUME Init PROVE LockInv
  OBVIOUS
<1>1. Waiting("read") = {} /\ Waiting("write") = {} /\ {t \in Threads : currentReaders[t] > 0} = {}
  BY DEF Init, Waiting, Idle
<1>2. Cardinality({}) = 0
  BY FS_EmptySet
<1>3. RecursionCounted
  BY <1>1, <1>2, NobodyIsNoThread DEF Init, RecursionCounted
<1>4. CountsOK
  BY <1>3, MaxDepthIsPositive DEF Init, CountsOK
<1>5. QueuesOK
  BY <1>1, <1>2 DEF Init, QueuesOK
<1> QED BY <1>4, <1>5 DEF Init, LockInv, Apart, NoLostWakeUp

\* An asleep writer that was woken by a step stays so by the others' steps:
\* what a step of t must leave as it is for NoLostWakeUp.
LEMMA StillAwake ==
  ASSUME NEW t \in Threads, LockInv, pc[t].kind # "write",
         \A u \in Threads \ {t} : pc'[u] = pc[u],
         readerCond' \subseteq readerCond \cup {t}, writerCond' \subseteq writerCond,
         writerCond' # {}, ~WriteBlocked
  PROVE  \E u \in Threads : pc'[u].kind = "write" /\ u \notin readerCond' \cup writerCond'
<1>1. PICK u \in Threads : pc[u].kind = "write" /\ ~Asleep(u)
  BY DEF LockInv, NoLostWakeUp
<1> QED BY <1>1 DEF Asleep

\* recursiveLockForRead() (screadwritelock.cpp:382-400).
LEMMA LockForReadKeeps ==
  ASSUME LockInv, NEW t \in Threads, NEW timeout \in Timeouts, LockForRead(t, timeout)
  PROVE  LockInv'
<1> USE DEF LockInv
<1>1. pc[t] = Idle /\ currentWriter # t /\ held[t] < MaxDepth /\ pc[t].kind = "idle"
      /\ UNCHANGED <<waitingWriters, writerCond>>
  BY DEF LockForRead, Idle
<1>2. held[t] = currentReaders[t]
  BY <1>1 DEF CountsOK, RecursionCounted
<1>3. CASE currentReaders[t] > 0 /\ AgainRead(t) /\ UNCHANGED <<waitingReaders, readerCond, pc>>
  <2>1. CountsOK'
    BY <1>1, <1>3, AgainReadCounts
  <2>2. QueuesOK' /\ NoLostWakeUp'
    BY <1>1, <1>3 DEF QueuesOK, Waiting, NoLostWakeUp, AgainRead, ReadBlocked, WriteBlocked, Asleep
  <2>3. Apart'
    BY <1>1, <1>3 DEF Apart, AgainRead, HeldMore, CountsOK
  <2> QED BY <2>1, <2>2, <2>3
<1>4. CASE currentReaders[t] = 0 /\ ~ReadBlocked /\ GetRead(t) /\ UNCHANGED <<waitingReaders, readerCond, pc>>
  <2>1. CountsOK' /\ readerCount' > 0
    BY <1>2, <1>4, GetReadCounts DEF ReadBlocked
  <2>2. QueuesOK'
    BY <1>1, <1>4 DEF QueuesOK, Waiting
  <2>3. NoLostWakeUp'
    BY <1>1, <1>4, <2>1 DEF NoLostWakeUp, GetRead, ReadBlocked, WriteBlocked
  <2>4. Apart'
    BY <1>1, <1>4 DEF Apart, GetRead, HeldMore, CountsOK
  <2> QED BY <2>1, <2>2, <2>3, <2>4
<1>5. CASE /\ currentReaders[t] = 0 /\ ReadBlocked
           /\ Sleep(t, "read", timeout)
           /\ waitingReaders' = waitingReaders + 1
           /\ readerCond' = readerCond \cup {t}
           /\ UNCHANGED counts
  <2>1. CountsOK'
    BY <1>5 DEF counts, CountsOK, RecursionCounted
  <2>2. QueuesOK'
    BY <1>1, <1>5, Joins DEF QueuesOK
  <2>3. Apart'
    BY <1>1, <1>2, <1>5, Joins DEF Apart, counts
  <2>4. NoLostWakeUp'
    <3>1. ReadBlocked' /\ (WriteBlocked' <=> WriteBlocked)
      BY <1>1, <1>5 DEF ReadBlocked, WriteBlocked, counts
    <3>2. CASE WriteBlocked
      BY <3>1, <3>2 DEF NoLostWakeUp
    <3>3. CASE ~WriteBlocked
      BY <1>1, <1>5, <3>1, <3>3, Joins, StillAwake DEF NoLostWakeUp, Asleep
    <3> QED BY <3>2, <3>3
  <2> QED BY <2>1, <2>2, <2>3, <2>4
<1> QED BY <1>3, <1>4, <1>5 DEF LockForRead

\* recursiveLockForWrite() (screadwritelock.cpp:356-373).
LEMMA LockForWriteKeeps ==
  ASSUME LockInv, NEW t \in Threads, NEW timeout \in Timeouts, LockForWrite(t, timeout)
  PROVE  LockInv'
<1> USE DEF LockInv
<1>1. pc[t] = Idle /\ currentReaders[t] = 0 /\ held[t] < MaxDepth /\ pc[t].kind = "idle"
      /\ UNCHANGED <<waitingReaders, readerCond>>
  BY DEF LockForWrite, Idle
<1>2. CASE currentWriter = t /\ AgainWrite(t) /\ UNCHANGED <<waitingWriters, writerCond, pc>>
  <2>1. CountsOK' /\ writerCount' > 0
    BY <1>1, <1>2, AgainWriteCounts
  <2>2. QueuesOK' /\ NoLostWakeUp'
    BY <1>1, <1>2, <2>1 DEF QueuesOK, Waiting, NoLostWakeUp, ReadBlocked, WriteBlocked
  <2>3. Apart'
    BY <1>1, <1>2 DEF Apart, AgainWrite, HeldMore, CountsOK
  <2> QED BY <2>1, <2>2, <2>3
<1>3. CASE currentWriter # t /\ ~WriteBlocked /\ GetWrite(t) /\ UNCHANGED <<waitingWriters, writerCond, pc>>
  <2>1. held[t] = 0
    BY <1>1, <1>3 DEF CountsOK, RecursionCounted
  <2>2. CountsOK'
    BY <1>3, <2>1, GetWriteCounts
  <2>3. QueuesOK' /\ NoLostWakeUp'
    BY <1>1, <1>3 DEF QueuesOK, Waiting, NoLostWakeUp, ReadBlocked, WriteBlocked, GetWrite
  <2>4. Apart'
    BY <1>1, <1>3 DEF Apart, GetWrite, HeldMore, CountsOK
  <2> QED BY <2>2, <2>3, <2>4
<1>4. CASE /\ currentWriter # t /\ WriteBlocked
           /\ Sleep(t, "write", timeout)
           /\ waitingWriters' = waitingWriters + 1
           /\ writerCond' = writerCond \cup {t}
           /\ UNCHANGED counts
  <2>1. CountsOK'
    BY <1>4 DEF counts, CountsOK, RecursionCounted
  <2>2. QueuesOK'
    BY <1>1, <1>4, Joins DEF QueuesOK
  <2>3. held[t] = 0
    BY <1>1, <1>4 DEF CountsOK, RecursionCounted
  <2>4. Apart'
    BY <1>1, <1>4, <2>3, Joins DEF Apart, counts
  <2>5. NoLostWakeUp'
    BY <1>4, NobodyWaits DEF NoLostWakeUp, ReadBlocked, WriteBlocked, counts
  <2> QED BY <2>1, <2>2, <2>4, <2>5
<1> QED BY <1>2, <1>3, <1>4 DEF LockForWrite

\* A sleep that ends by itself takes nobody's wake-up.
LEMMA StopWaitingKeeps ==
  ASSUME LockInv, NEW t \in Threads, StopWaiting(t)
  PROVE  LockInv'
<1> USE DEF LockInv
<1>1. CountsOK' /\ QueuesOK' /\ Apart'
  BY DEF StopWaiting, counts, CountsOK, RecursionCounted, QueuesOK, Waiting, Apart
<1>2. NoLostWakeUp'
  BY DEF StopWaiting, counts, NoLostWakeUp, ReadBlocked, WriteBlocked, Asleep
<1> QED BY <1>1, <1>2

\* The end of a reader's sleep (screadwritelock.cpp:319-344).
LEMMA WakeReadKeeps ==
  ASSUME LockInv, NEW t \in Threads, WakeRead(t)
  PROVE  LockInv'
<1> USE DEF LockInv
<1>1. pc[t].kind = "read" /\ ~Asleep(t) /\ pc[t] # Idle /\ held[t] = 0
      /\ UNCHANGED <<waitingWriters, writerCond>>
  BY DEF WakeRead, Idle, Apart
<1>2. CASE ReadBlocked /\ readerCond' = readerCond \cup {t} /\ UNCHANGED <<counts, waitingReaders, pc>>
  <2>1. CountsOK' /\ QueuesOK' /\ Apart'
    BY <1>1, <1>2 DEF counts, CountsOK, RecursionCounted, QueuesOK, Waiting, Apart
  <2>2. NoLostWakeUp'
    <3>1. ReadBlocked' /\ (WriteBlocked' <=> WriteBlocked)
      BY <1>1, <1>2 DEF ReadBlocked, WriteBlocked, counts
    <3>2. CASE WriteBlocked
      BY <3>1, <3>2 DEF NoLostWakeUp
    <3>3. CASE ~WriteBlocked
      BY <1>1, <1>2, <3>1, <3>3, StillAwake DEF NoLostWakeUp, Asleep
    <3> QED BY <3>2, <3>3
  <2> QED BY <2>1, <2>2
<1>3. CASE /\ ReadBlocked
           /\ waitingReaders' = waitingReaders - 1
           /\ pc' = [pc EXCEPT ![t] = Idle]
           /\ UNCHANGED <<counts, readerCond>>
  <2>1. CountsOK'
    BY <1>3 DEF counts, CountsOK, RecursionCounted
  <2>2. QueuesOK'
    BY <1>1, <1>3, Leaves DEF QueuesOK, Asleep
  <2>3. Apart'
    BY <1>1, <1>3, Leaves DEF Apart, counts
  <2>4. NoLostWakeUp'
    <3>1. (ReadBlocked' <=> ReadBlocked) /\ (WriteBlocked' <=> WriteBlocked)
      BY <1>1, <1>3 DEF ReadBlocked, WriteBlocked, counts
    <3>2. CASE WriteBlocked
      BY <1>3, <3>1, <3>2 DEF NoLostWakeUp
    <3>3. CASE ~WriteBlocked
      BY <1>1, <1>3, <3>1, <3>3, Leaves, StillAwake DEF NoLostWakeUp, Asleep
    <3> QED BY <3>2, <3>3
  <2> QED BY <2>1, <2>2, <2>3, <2>4
<1>4. CASE /\ ~ReadBlocked /\ GetRead(t)
           /\ waitingReaders' = waitingReaders - 1
           /\ pc' = [pc EXCEPT ![t] = Idle]
           /\ UNCHANGED readerCond
  <2>1. CountsOK' /\ readerCount' > 0
    BY <1>1, <1>4, GetReadCounts DEF ReadBlocked
  <2>2. QueuesOK'
    BY <1>1, <1>4, Leaves DEF QueuesOK, Asleep
  <2>3. Apart'
    BY <1>1, <1>4, Leaves DEF Apart, GetRead, HeldMore, CountsOK
  <2>4. NoLostWakeUp'
    BY <1>1, <1>4, <2>1 DEF NoLostWakeUp, GetRead, ReadBlocked, WriteBlocked
  <2> QED BY <2>1, <2>2, <2>3, <2>4
<1> QED BY <1>2, <1>3, <1>4 DEF WakeRead

\* The end of a writer's sleep; the last writer that gives up wakes the readers
\* (screadwritelock.cpp:269-308).
LEMMA WakeWriteKeeps ==
  ASSUME LockInv, NEW t \in Threads, WakeWrite(t)
  PROVE  LockInv'
<1> USE DEF LockInv
<1>1. pc[t].kind = "write" /\ ~Asleep(t) /\ pc[t] # Idle /\ held[t] = 0
      /\ UNCHANGED waitingReaders
  BY DEF WakeWrite, Idle, Apart
<1>2. CASE /\ WriteBlocked
           /\ writerCond' = writerCond \cup {t}
           /\ UNCHANGED <<counts, waitingWriters, readerCond, pc>>
  BY <1>1, <1>2
     DEF counts, CountsOK, RecursionCounted, QueuesOK, Waiting, Apart,
         NoLostWakeUp, ReadBlocked, WriteBlocked
<1>3. CASE /\ WriteBlocked /\ GiveUp(t)
           /\ pc' = [pc EXCEPT ![t] = Idle]
           /\ UNCHANGED <<counts, writerCond>>
  <2>1. CountsOK'
    BY <1>3 DEF counts, CountsOK, RecursionCounted
  <2>2. readerCond' \subseteq readerCond
    BY <1>3 DEF GiveUp
  <2>3. QueuesOK'
    <3>1. /\ t \in Waiting("write")
          /\ Waiting("write")' = Waiting("write") \ {t}
          /\ Waiting("read")' = Waiting("read")
          /\ Cardinality(Waiting("write")') = Cardinality(Waiting("write")) - 1
          /\ pc' \in [Threads -> Place \cup {Idle}]
      BY <1>1, <1>3, Leaves
    <3> QED BY <1>1, <1>3, <2>2, <3>1 DEF QueuesOK, Asleep, GiveUp
  <2>4. Apart'
    BY <1>1, <1>3, Leaves DEF Apart, counts
  <2>5. NoLostWakeUp'
    BY <1>1, <1>3, NobodyWaits DEF NoLostWakeUp, GiveUp, ReadBlocked, WriteBlocked, counts
  <2> QED BY <2>1, <2>3, <2>4, <2>5
<1>4. CASE /\ ~WriteBlocked /\ GetWrite(t)
           /\ waitingWriters' = waitingWriters - 1
           /\ pc' = [pc EXCEPT ![t] = Idle]
           /\ UNCHANGED <<readerCond, writerCond>>
  <2>1. CountsOK'
    BY <1>1, <1>4, GetWriteCounts
  <2>2. QueuesOK'
    <3>1. /\ t \in Waiting("write")
          /\ Waiting("write")' = Waiting("write") \ {t}
          /\ Waiting("read")' = Waiting("read")
          /\ Cardinality(Waiting("write")') = Cardinality(Waiting("write")) - 1
          /\ pc' \in [Threads -> Place \cup {Idle}]
      BY <1>1, <1>4, Leaves
    <3> QED BY <1>1, <1>4, <3>1 DEF QueuesOK, Asleep
  <2>3. Apart'
    BY <1>1, <1>4, Leaves DEF Apart, GetWrite, HeldMore, CountsOK
  <2>4. NoLostWakeUp'
    BY <1>4 DEF NoLostWakeUp, GetWrite, ReadBlocked, WriteBlocked
  <2> QED BY <2>1, <2>2, <2>3, <2>4
<1> QED BY <1>2, <1>3, <1>4 DEF WakeWrite

\* recursiveUnlock() and the notification of the block (screadwritelock.cpp:346-353,
\* 402-437).
LEMMA UnlockKeeps ==
  ASSUME LockInv, NEW t \in Threads, Unlock(t)
  PROVE  LockInv'
<1> USE DEF LockInv
<1>1. /\ pc[t] = Idle /\ held[t] > 0 /\ held' = [held EXCEPT ![t] = @ - 1]
      /\ UNCHANGED <<waitingReaders, waitingWriters, pc>>
  BY DEF Unlock
<1>2. CountsOK' /\ (readerCount' # 0 => writerCount' = writerCount)
  <2>1. CASE currentWriter = t
    BY <1>1, <2>1, UnlockWriterCounts DEF Unlock, UnlockWriter
  <2>2. CASE currentWriter # t
    BY <1>1, <2>2, UnlockReaderCounts DEF Unlock, UnlockReader
  <2> QED BY <2>1, <2>2
<1>3. Apart'
  BY <1>1 DEF Apart, CountsOK
<1>4. readerCond' \subseteq readerCond /\ writerCond' \subseteq writerCond
  BY DEF Unlock, Notify
<1>5. QueuesOK'
  BY <1>1, <1>4 DEF QueuesOK, Waiting
<1>6. NoLostWakeUp'
  <2>1. CASE writerCount' > 0 \/ readerCount' # 0
    BY <1>1, <1>2, <2>1 DEF Unlock, NoLostWakeUp, ReadBlocked, WriteBlocked, CountsOK
  <2>2. CASE Notify /\ waitingWriters # 0
    <3>1. readerCond' # {} => ReadBlocked'
      BY <1>1, <2>2 DEF ReadBlocked
    <3>2. ASSUME writerCond' # {}
          PROVE  \E u \in Threads : pc'[u].kind = "write" /\ u \notin readerCond' \cup writerCond'
      <4>1. PICK w \in writerCond : writerCond' = writerCond \ {w}
        BY <2>2, <3>2 DEF Notify
      <4>2. w \in Waiting("write") /\ w \notin readerCond /\ w \in Threads
        BY WaitingApart DEF QueuesOK, Waiting
      <4> QED BY <1>1, <1>4, <4>1, <4>2 DEF Waiting
    <3> QED BY <3>1, <3>2 DEF NoLostWakeUp, Asleep
  <2>3. CASE Notify /\ waitingWriters = 0
    BY <2>3, <1>4, NobodyWaits DEF Notify, NoLostWakeUp
  <2> QED BY <2>1, <2>2, <2>3 DEF Unlock
<1> QED BY <1>2, <1>3, <1>5, <1>6

LEMMA LockSteps == LockInv /\ [Next]_vars => LockInv'
<1> SUFFICES ASSUME LockInv, [Next]_vars PROVE LockInv'
  OBVIOUS
<1>1. CASE UNCHANGED vars
  BY <1>1 DEF vars, counts, LockInv, CountsOK, RecursionCounted, QueuesOK, Waiting, Apart,
              NoLostWakeUp, ReadBlocked, WriteBlocked, Asleep
<1>2. CASE Next
  <2>1. PICK t \in Threads :
          \/ \E timeout \in Timeouts : LockForRead(t, timeout) \/ LockForWrite(t, timeout)
          \/ StopWaiting(t) \/ WakeRead(t) \/ WakeWrite(t) \/ Unlock(t)
    BY <1>2 DEF Next
  <2> QED BY <2>1, LockForReadKeeps, LockForWriteKeeps, StopWaitingKeeps, WakeReadKeeps,
             WakeWriteKeeps, UnlockKeeps
<1> QED BY <1>1, <1>2

-----------------------------------------------------------------------------
(* Its theorems.                                                           *)

\* The strengthened invariant.
THEOREM LockInvariance == Spec => []LockInv
<1>1. LockInv /\ [Next]_vars => LockInv'
  BY LockSteps
<1> QED BY LockStart, <1>1, PTL DEF Spec

\* No count falls below zero or above what it counts (screadwritelock.cpp:29-41).
THEOREM LockTypes == Spec => []TypeOK
<1>1. LockInv => TypeOK
  BY NobodyWaits, WaitingAreThreads DEF LockInv, CountsOK, QueuesOK, TypeOK
<1> QED BY LockInvariance, <1>1, PTL

\* The counts of holders are exact at any depth (screadwritelock.cpp:356-428).
THEOREM CountedAtAnyDepth == Spec => []RecursionCounted
<1>1. LockInv => RecursionCounted
  BY DEF LockInv, CountsOK
<1> QED BY LockInvariance, <1>1, PTL

\* No wake-up is lost, whoever gives up (screadwritelock.cpp:287-292, 346-353).
THEOREM WakeUpsKept == Spec => []NoLostWakeUp
<1>1. LockInv => NoLostWakeUp
  BY DEF LockInv
<1> QED BY LockInvariance, <1>1, PTL

\* The first and the last hold of a thread are the abstract lock's steps, and
\* everything else changes nothing there.
LEMMA StepsAreAbstract == LockInv /\ [Next]_vars => [Abstract!Next]_<<Holding("read"), Holding("write")>>
<1> SUFFICES ASSUME LockInv, [Next]_vars
             PROVE  Abstract!Next \/ UNCHANGED <<Holding("read"), Holding("write")>>
  OBVIOUS
<1> DEFINE Writer == {currentWriter} \ {Nobody}
<1>0. /\ Holding("read") = [l \in {"lock"} |-> Readers]
      /\ Holding("write") = [l \in {"lock"} |-> Writer]
      /\ Holding("read")' = [l \in {"lock"} |-> Readers']
      /\ Holding("write")' = [l \in {"lock"} |-> Writer']
  BY DEF Holding, Readers
<1>1. ASSUME UNCHANGED <<currentWriter, currentReaders>>
      PROVE  UNCHANGED <<Holding("read"), Holding("write")>>
  BY <1>1 DEF Holding
<1>2. ASSUME NEW t \in Threads, held[t] = 0, ~ReadBlocked, GetRead(t)
      PROVE  Abstract!Next
  <2>1. Readers' = Readers \cup {t} /\ t \notin Readers
    BY <1>2, GetReadCounts DEF LockInv, ReadBlocked
  <2>2. Writer = {} /\ Writer' = {}
    BY <1>2 DEF ReadBlocked, GetRead, LockInv, CountsOK, RecursionCounted
  <2>3. Abstract!LockForRead(t, "lock")
    BY <1>0, <2>1, <2>2 DEF Abstract!LockForRead
  <2> QED BY <2>3 DEF Abstract!Next
<1>3. ASSUME NEW t \in Threads, held[t] = 0, ~WriteBlocked, GetWrite(t)
      PROVE  Abstract!Next
  <2>1. Readers' = Readers /\ Readers = {} /\ Writer = {}
    BY <1>3, GetWriteCounts DEF LockInv
  <2>2. Writer' = {t}
    BY <1>3, NobodyIsNoThread DEF GetWrite
  <2>3. Abstract!LockForWrite(t, "lock")
    BY <1>0, <2>1, <2>2 DEF Abstract!LockForWrite
  <2> QED BY <2>3 DEF Abstract!Next
<1>3a. ASSUME NEW t \in Threads, t \in Readers \cup Writer,
              Readers' = Readers \ {t}, Writer' = Writer \ {t}
       PROVE  Abstract!Next
  <2> HIDE DEF Writer
  <2>1. /\ Holding("read")' = [Holding("read") EXCEPT !["lock"] = @ \ {t}]
        /\ Holding("write")' = [Holding("write") EXCEPT !["lock"] = @ \ {t}]
        /\ t \in Holding("read")["lock"] \cup Holding("write")["lock"]
    BY <1>0, <1>3a
  <2>2. Abstract!Unlock(t, "lock")
    BY <2>1 DEF Abstract!Unlock
  <2> QED BY <2>2 DEF Abstract!Next
<1>4. ASSUME NEW t \in Threads, NEW timeout \in Timeouts, LockForRead(t, timeout)
      PROVE  Abstract!Next \/ UNCHANGED <<Holding("read"), Holding("write")>>
  <2>1. CASE AgainRead(t) /\ currentReaders[t] > 0
    <3>1. Readers' = Readers /\ Writer' = Writer
      BY <1>4, <2>1, AgainReadCounts DEF LockForRead, LockInv, AgainRead
    <3> QED BY <1>0, <3>1
  <2>2. CASE GetRead(t) /\ currentReaders[t] = 0 /\ ~ReadBlocked
    <3>1. held[t] = 0
      BY <1>4, <2>2 DEF LockForRead, LockInv, CountsOK, RecursionCounted
    <3> QED BY <2>2, <3>1, <1>2
  <2>3. CASE UNCHANGED counts
    BY <2>3, <1>1 DEF counts
  <2> QED BY <1>4, <2>1, <2>2, <2>3 DEF LockForRead
<1>5. ASSUME NEW t \in Threads, NEW timeout \in Timeouts, LockForWrite(t, timeout)
      PROVE  Abstract!Next \/ UNCHANGED <<Holding("read"), Holding("write")>>
  <2>1. CASE AgainWrite(t)
    BY <2>1, <1>1 DEF AgainWrite
  <2>2. CASE GetWrite(t) /\ currentWriter # t /\ ~WriteBlocked
    <3>1. held[t] = 0
      BY <1>5, <2>2 DEF LockForWrite, LockInv, CountsOK, RecursionCounted
    <3> QED BY <2>2, <3>1, <1>3
  <2>3. CASE UNCHANGED counts
    BY <2>3, <1>1 DEF counts
  <2> QED BY <1>5, <2>1, <2>2, <2>3 DEF LockForWrite
<1>6. ASSUME NEW t \in Threads, StopWaiting(t)
      PROVE  Abstract!Next \/ UNCHANGED <<Holding("read"), Holding("write")>>
  BY <1>1, <1>6 DEF StopWaiting, counts
<1>7. ASSUME NEW t \in Threads, WakeRead(t)
      PROVE  Abstract!Next \/ UNCHANGED <<Holding("read"), Holding("write")>>
  <2>1. held[t] = 0
    BY <1>7 DEF WakeRead, Idle, LockInv, Apart
  <2>2. CASE GetRead(t) /\ ~ReadBlocked
    BY <2>1, <2>2, <1>2
  <2>3. CASE UNCHANGED counts
    BY <2>3, <1>1 DEF counts
  <2> QED BY <1>7, <2>2, <2>3 DEF WakeRead
<1>8. ASSUME NEW t \in Threads, WakeWrite(t)
      PROVE  Abstract!Next \/ UNCHANGED <<Holding("read"), Holding("write")>>
  <2>1. held[t] = 0
    BY <1>8 DEF WakeWrite, Idle, LockInv, Apart
  <2>2. CASE GetWrite(t) /\ ~WriteBlocked
    BY <2>1, <2>2, <1>3
  <2>3. CASE UNCHANGED counts
    BY <2>3, <1>1 DEF counts
  <2> QED BY <1>8, <2>2, <2>3 DEF WakeWrite
<1>9. ASSUME NEW t \in Threads, Unlock(t)
      PROVE  Abstract!Next \/ UNCHANGED <<Holding("read"), Holding("write")>>
  <2>1. held[t] > 0 /\ held' = [held EXCEPT ![t] = @ - 1] /\ CountsOK
    BY <1>9 DEF Unlock, LockInv
  <2>2. CASE currentWriter = t
    <3>1. Readers' = Readers /\ Readers = {}
      BY <1>9, <2>1, <2>2, UnlockWriterCounts, NoneIsZero
         DEF Unlock, CountsOK, RecursionCounted, Readers
    <3>2. Writer = {t} /\ Writer' \in {{t}, {}}
      BY <1>9, <2>2, NobodyIsNoThread DEF Unlock, UnlockWriter
    <3>3. CASE Writer' = {t}
      BY <1>0, <3>1, <3>2, <3>3
    <3>4. CASE Writer' = {}
      BY <1>3a, <3>1, <3>2, <3>4
    <3> QED BY <3>2, <3>3, <3>4
  <2>3. CASE currentWriter # t
    <3>1. t \in Readers /\ Readers' \in {Readers, Readers \ {t}} /\ Writer' = Writer
          /\ t \notin Writer
      BY <1>9, <2>1, <2>3, UnlockReaderCounts DEF Unlock, UnlockReader
    <3>2. CASE Readers' = Readers
      BY <1>0, <3>1, <3>2
    <3>3. CASE Readers' = Readers \ {t}
      BY <1>3a, <3>1, <3>3
    <3> QED BY <3>1, <3>2, <3>3
  <2> QED BY <2>2, <2>3
<1>10. CASE UNCHANGED vars
  BY <1>10, <1>1 DEF vars, counts
<1> QED BY <1>4, <1>5, <1>6, <1>7, <1>8, <1>9, <1>10 DEF Next

\* To its callers a recursive lock is a lock: it goes to a reader only when no
\* writer has it, and to a writer only when nobody has it, however deep the
\* holds are nested (screadwritelock.cpp:356-437).
THEOREM LockIsReadWriteLock == Spec => ImplementsReadWriteLock
<1>1. Init => Abstract!Init
  BY NobodyIsNoThread DEF Init, Abstract!Init, Holding
<1>2. LockInv /\ [Next]_vars => [Abstract!Next]_<<Holding("read"), Holding("write")>>
  BY StepsAreAbstract
<1> QED BY LockInvariance, <1>1, <1>2, PTL DEF Spec, ImplementsReadWriteLock, Abstract!Spec

-----------------------------------------------------------------------------
(* The two-way map.                                                        *)

\* Each map is inverse to the other.
EachInverse ==
  /\ \A k \in DOMAIN hash : hash[k] \in DOMAIN inverted /\ inverted[hash[k]] = k
  /\ \A v \in DOMAIN inverted : inverted[v] \in DOMAIN hash /\ hash[inverted[v]] = v

\* The maps are functions between the sets of their types, and inverse unless a partner
\* was replaced.
MapInv ==
  /\ DOMAIN hash \subseteq Keys /\ hash \in [DOMAIN hash -> Vals]
  /\ DOMAIN inverted \subseteq Vals /\ inverted \in [DOMAIN inverted -> Keys]
  /\ replaced \in BOOLEAN
  /\ ~replaced => EachInverse

\* The maps after pairs were added of which none has a partner elsewhere: S are their
\* keys, g their inverse.
LEMMA AddedPairs ==
  ASSUME MapInv, NEW other, NEW g, DOMAIN other \subseteq Keys, other \in [DOMAIN other -> Vals],
         DOMAIN g \subseteq Vals, g \in [DOMAIN g -> Keys],
         hash' = BiHash!With(hash, other), inverted' = BiHash!With(inverted, g),
         replaced' \in BOOLEAN,
         \A v \in DOMAIN g : g[v] \in DOMAIN other /\ other[g[v]] = v,
         \A k \in DOMAIN other : other[k] \in DOMAIN g,
         ~replaced' => /\ ~replaced
                       /\ \A k \in DOMAIN other : ~BiHash!Replaces(k, other[k]) /\ g[other[k]] = k
  PROVE  MapInv'
  <1>1. /\ DOMAIN hash' = DOMAIN hash \cup DOMAIN other
        /\ DOMAIN hash' \subseteq Keys /\ hash' \in [DOMAIN hash' -> Vals]
        /\ \A z \in DOMAIN other : hash'[z] = other[z]
        /\ \A z \in DOMAIN hash : z \notin DOMAIN other => hash'[z] = hash[z]
    BY DEF MapInv, BiHash!With
  <1>2. /\ DOMAIN inverted' = DOMAIN inverted \cup DOMAIN g
        /\ DOMAIN inverted' \subseteq Vals /\ inverted' \in [DOMAIN inverted' -> Keys]
        /\ \A z \in DOMAIN g : inverted'[z] = g[z]
        /\ \A z \in DOMAIN inverted : z \notin DOMAIN g => inverted'[z] = inverted[z]
    BY DEF MapInv, BiHash!With
  <1>3. ASSUME ~replaced' PROVE EachInverse'
    <2>1. EachInverse
      BY <1>3 DEF MapInv
    <2>2. \A k \in DOMAIN other :
            /\ g[other[k]] = k
            /\ k \in DOMAIN hash => hash[k] = other[k]
            /\ other[k] \in DOMAIN inverted => inverted[other[k]] = k
      BY <1>3 DEF BiHash!Replaces, BiHash!ContainsKey, BiHash!ContainsValue
    <2>3. ASSUME NEW k \in DOMAIN hash' PROVE hash'[k] \in DOMAIN inverted' /\ inverted'[hash'[k]] = k
      <3>1. CASE k \in DOMAIN other
        BY <1>1, <1>2, <2>2, <3>1
      <3>2. CASE k \notin DOMAIN other
        <4>1. k \in DOMAIN hash /\ hash'[k] = hash[k]
          BY <1>1, <2>3, <3>2
        <4>2. hash[k] \in DOMAIN inverted /\ inverted[hash[k]] = k
          BY <2>1, <4>1 DEF EachInverse
        <4>3. hash[k] \notin DOMAIN g
          BY <2>2, <3>2, <4>2
        <4> QED
          BY <1>2, <4>1, <4>2, <4>3
      <3> QED
        BY <3>1, <3>2
    <2>4. ASSUME NEW v \in DOMAIN inverted' PROVE inverted'[v] \in DOMAIN hash' /\ hash'[inverted'[v]] = v
      <3>1. CASE v \in DOMAIN g
        BY <1>1, <1>2, <3>1
      <3>2. CASE v \notin DOMAIN g
        <4>1. v \in DOMAIN inverted /\ inverted'[v] = inverted[v]
          BY <1>2, <2>4, <3>2
        <4>2. inverted[v] \in DOMAIN hash /\ hash[inverted[v]] = v
          BY <2>1, <4>1 DEF EachInverse
        <4>3. inverted[v] \notin DOMAIN other
          BY <2>2, <3>2, <4>2
        <4> QED
          BY <1>1, <4>1, <4>2, <4>3
      <3> QED
        BY <3>1, <3>2
    <2> QED
      BY <2>3, <2>4 DEF EachInverse
  <1> QED
    BY <1>1, <1>2, <1>3 DEF MapInv

LEMMA InsertMap ==
  ASSUME MapInv, NEW k \in Keys, NEW v \in Vals, BiHash!Insert(k, v)
  PROVE  MapInv'
  <1> DEFINE other == [x \in {k} |-> v]
             g == [x \in {v} |-> k]
  <1>1. /\ DOMAIN other = {k} /\ other[k] = v /\ other \in [DOMAIN other -> Vals]
        /\ DOMAIN g = {v} /\ g[v] = k /\ g \in [DOMAIN g -> Keys]
    OBVIOUS
  <1>2. /\ hash' = BiHash!With(hash, other) /\ inverted' = BiHash!With(inverted, g)
        /\ replaced' = (replaced \/ BiHash!Replaces(k, v))
    BY DEF BiHash!Insert
  <1>3. replaced' \in BOOLEAN
    BY <1>2
  <1> HIDE DEF other, g
  <1> QED
    BY <1>1, <1>2, <1>3, AddedPairs

\* Whichever side it is named by, a pair goes from both maps; and the types stay.
LEMMA RemoveMap ==
  ASSUME MapInv, NEW k, NEW v, UNCHANGED replaced,
         hash' = [z \in DOMAIN hash \ {k} |-> hash[z]],
         inverted' = [z \in DOMAIN inverted \ {v} |-> inverted[z]],
         ~replaced => k \in DOMAIN hash /\ v = hash[k]
  PROVE  MapInv'
  <1>1. DOMAIN hash' = DOMAIN hash \ {k} /\ DOMAIN inverted' = DOMAIN inverted \ {v}
    OBVIOUS
  <1>2. /\ \A z \in DOMAIN hash' : hash'[z] = hash[z]
        /\ \A z \in DOMAIN inverted' : inverted'[z] = inverted[z]
    OBVIOUS
  <1>3. hash' \in [DOMAIN hash' -> Vals] /\ inverted' \in [DOMAIN inverted' -> Keys]
    BY <1>1 DEF MapInv
  <1>4. ~replaced' => EachInverse'
    BY <1>1, <1>2 DEF MapInv, EachInverse
  <1> QED
    BY <1>1, <1>3, <1>4 DEF MapInv

LEMMA UniteMap ==
  ASSUME MapInv, NEW other \in BiHash!Maps, BiHash!Unite(other)
  PROVE  MapInv'
  <1>1. DOMAIN other \subseteq Keys /\ other \in [DOMAIN other -> Vals]
    BY DEF BiHash!Maps
  <1>2. PICK g \in BiHash!Lasts(other) : inverted' = BiHash!With(inverted, g)
    BY DEF BiHash!Unite
  <1>3. hash' = BiHash!With(hash, other)
    BY DEF BiHash!Unite
  <1>4. replaced' = (\/ replaced \/ ~BiHash!IsInjective(other)
                     \/ \E k \in DOMAIN other : BiHash!Replaces(k, other[k]))
    BY DEF BiHash!Unite
  <1>5. replaced' \in BOOLEAN
    BY <1>4
  <1>6. \A k \in DOMAIN other : other[k] \in BiHash!Range(other)
    BY DEF BiHash!Range
  <1>7. BiHash!Range(other) \subseteq Vals
    BY <1>1 DEF BiHash!Range
  <1>8. /\ DOMAIN g = BiHash!Range(other) /\ g \in [DOMAIN g -> Keys]
        /\ \A v \in DOMAIN g : g[v] \in DOMAIN other /\ other[g[v]] = v
    BY <1>1, <1>2 DEF BiHash!Lasts
  <1>9. ASSUME ~replaced', NEW k \in DOMAIN other
        PROVE  ~replaced /\ ~BiHash!Replaces(k, other[k]) /\ g[other[k]] = k
    <2>1. BiHash!IsInjective(other)
      BY <1>4, <1>9
    <2>2. g[other[k]] \in DOMAIN other /\ other[g[other[k]]] = other[k]
      BY <1>6, <1>8
    <2> QED
      BY <1>4, <1>9, <2>1, <2>2 DEF BiHash!IsInjective
  <1>10. ~replaced' => ~replaced
    BY <1>4
  <1> QED
    BY <1>1, <1>2, <1>3, <1>5, <1>6, <1>7, <1>8, <1>9, <1>10, AddedPairs

LEMMA MapStep == MapInv /\ [BiHash!Next]_mapVars => MapInv'
  <1> SUFFICES ASSUME MapInv, [BiHash!Next]_mapVars PROVE MapInv'
    OBVIOUS
  <1>1. ASSUME NEW k \in Keys, BiHash!RemoveKey(k) PROVE MapInv'
    <2>1. k \in DOMAIN hash /\ UNCHANGED replaced
      BY <1>1 DEF BiHash!RemoveKey, BiHash!ContainsKey
    <2>2. /\ hash' = [z \in DOMAIN hash \ {k} |-> hash[z]]
          /\ inverted' = [z \in DOMAIN inverted \ {hash[k]} |-> inverted[z]]
      <3>1. DOMAIN hash \cap (DOMAIN hash \ {k}) = DOMAIN hash \ {k}
        OBVIOUS
      <3>2. DOMAIN inverted \cap (DOMAIN inverted \ {hash[k]}) = DOMAIN inverted \ {hash[k]}
        OBVIOUS
      <3> QED
        BY <1>1, <3>1, <3>2 DEF BiHash!RemoveKey, BiHash!Erase, BiHash!Restrict, BiHash!ValueOf
    <2> QED
      BY <2>1, <2>2, RemoveMap
  <1>2. ASSUME NEW v \in Vals, BiHash!RemoveValue(v) PROVE MapInv'
    <2>1. v \in DOMAIN inverted /\ UNCHANGED replaced
      BY <1>2 DEF BiHash!RemoveValue, BiHash!ContainsValue
    <2>2. /\ hash' = [z \in DOMAIN hash \ {inverted[v]} |-> hash[z]]
          /\ inverted' = [z \in DOMAIN inverted \ {v} |-> inverted[z]]
      BY <1>2 DEF BiHash!RemoveValue, BiHash!Erase, BiHash!Restrict
    <2>3. ~replaced => inverted[v] \in DOMAIN hash /\ v = hash[inverted[v]]
      BY <2>1 DEF MapInv, EachInverse
    <2> QED
      BY <2>1, <2>2, <2>3, RemoveMap
  <1>3. CASE BiHash!Clear
    BY <1>3 DEF BiHash!Clear, BiHash!Empty, MapInv, EachInverse
  <1>4. CASE UNCHANGED mapVars
    BY <1>4 DEF mapVars, MapInv, EachInverse
  <1> QED
    BY <1>1, <1>2, <1>3, <1>4, InsertMap, UniteMap DEF BiHash!Next

-----------------------------------------------------------------------------

\* Every instance counts sets with a copy of the same operators.
LEMMA SameFinite == \A S : Atomic!IsFiniteSet(S) <=> IsFiniteSet(S)
  BY DEF Atomic!IsFiniteSet, IsFiniteSet

LEMMA SameCount ==
  \A S : /\ Atomic!Cardinality(S) = Cardinality(S)
         /\ Locker!Cardinality(S) = Cardinality(S)
         /\ Logger!Cardinality(S) = Cardinality(S)
         /\ String!Cardinality(S) = Cardinality(S)
  BY DEF Atomic!Cardinality, Locker!Cardinality, Logger!Cardinality, String!Cardinality, Cardinality,
         Atomic!IsFiniteSet, Locker!IsFiniteSet, Logger!IsFiniteSet, String!IsFiniteSet, IsFiniteSet

-----------------------------------------------------------------------------
(* Lockers.                                                                *)

TaggedOf(S) == {l \in S : q_val[l].tag = 1}

\* A locker that does not exist has no lock; and as many lockers have it as say so.
LockerInv ==
  /\ q_val \in [Locker!Lockers -> [lock : {0, 1}, tag : {0, 1}, exists : BOOLEAN]]
  /\ \A l \in Locker!Lockers : q_val[l].tag = 1 => q_val[l].exists /\ q_val[l].lock = 1
  /\ IsFiniteSet(TaggedOf(ReadLockers)) /\ reading = Cardinality(TaggedOf(ReadLockers))
  /\ IsFiniteSet(TaggedOf(WriteLockers)) /\ writing = Cardinality(TaggedOf(WriteLockers))
  /\ writing = 0 \/ writing + reading = 1

\* A locker that changes its tag enters or leaves the set of its kind.
LEMMA TaggedBy ==
  ASSUME LockerInv, NEW l \in Locker!Lockers, NEW q, q_val' = [q_val EXCEPT ![l] = q]
  PROVE  \A S \in {ReadLockers, WriteLockers} :
           TaggedOf(S)' = IF l \in S /\ q.tag = 1 THEN TaggedOf(S) \cup {l} ELSE TaggedOf(S) \ {l}
  BY DEF LockerInv, TaggedOf, Locker!Lockers

LEMMA TaggedCount ==
  ASSUME LockerInv, NEW S \in {ReadLockers, WriteLockers}, NEW l
  PROVE  /\ Cardinality(TaggedOf(S)) \in Nat
         /\ IsFiniteSet(TaggedOf(S) \cup {l}) /\ IsFiniteSet(TaggedOf(S) \ {l})
         /\ Cardinality(TaggedOf(S) \cup {l})
              = IF l \in TaggedOf(S) THEN Cardinality(TaggedOf(S)) ELSE Cardinality(TaggedOf(S)) + 1
         /\ Cardinality(TaggedOf(S) \ {l})
              = IF l \in TaggedOf(S) THEN Cardinality(TaggedOf(S)) - 1 ELSE Cardinality(TaggedOf(S))
  <1>1. IsFiniteSet(TaggedOf(S))
    BY DEF LockerInv
  <1> QED
    BY <1>1, FS_CardinalityType, FS_AddElement, FS_RemoveElement

\* Whoever takes a lock that it has not yet is counted.
LEMMA TakeLocker ==
  ASSUME LockerInv, NEW l \in Locker!Lockers,
         NEW q \in [lock : {0, 1}, tag : {0, 1}, exists : {TRUE}],
         q.tag = q_val[l].tag, q.tag = 1 => q.lock = 1, Locker!Take(l, q)
  PROVE  LockerInv'
  <1>1. l \in ReadLockers \/ l \in WriteLockers
    BY DEF Locker!Lockers
  <1>2. ~(l \in ReadLockers /\ l \in WriteLockers)
    BY PartAssumption DEF Locker!LockerAssumption
  <1>3. CASE q.lock = 1 /\ q.tag = 0
    <2> DEFINE p == [q EXCEPT !.tag = 1]
    <2>1. q_val' = [q_val EXCEPT ![l] = p] /\ Locker!Lock(l)
      BY <1>3 DEF Locker!Take
    <2>2. p.tag = 1 /\ p.lock = 1 /\ p.exists = TRUE
          /\ p \in [lock : {0, 1}, tag : {0, 1}, exists : BOOLEAN]
      BY <1>3
    <2> HIDE DEF p
    <2>3. /\ TaggedOf(ReadLockers)' = IF l \in ReadLockers THEN TaggedOf(ReadLockers) \cup {l}
                                      ELSE TaggedOf(ReadLockers) \ {l}
          /\ TaggedOf(WriteLockers)' = IF l \in WriteLockers THEN TaggedOf(WriteLockers) \cup {l}
                                       ELSE TaggedOf(WriteLockers) \ {l}
      BY <2>1, <2>2, TaggedBy
    <2>4. l \notin TaggedOf(ReadLockers) /\ l \notin TaggedOf(WriteLockers)
      <3>1. q_val[l].tag # 1
        BY <1>3
      <3> QED
        BY <3>1 DEF TaggedOf
    <2>5. /\ q_val' \in [Locker!Lockers -> [lock : {0, 1}, tag : {0, 1}, exists : BOOLEAN]]
          /\ \A u \in Locker!Lockers : q_val'[u].tag = 1 => q_val'[u].exists /\ q_val'[u].lock = 1
      BY <2>1, <2>2 DEF LockerInv
    <2>6. /\ reading = Cardinality(TaggedOf(ReadLockers)) /\ reading \in Nat
          /\ writing = Cardinality(TaggedOf(WriteLockers)) /\ writing \in Nat
      BY TaggedCount DEF LockerInv
    <2>7. CASE l \in ReadLockers
      <3>1. writing = 0 /\ reading' = reading + 1 /\ writing' = writing
        BY <2>1, <2>7 DEF Locker!Lock
      <3>2. /\ IsFiniteSet(TaggedOf(ReadLockers)') /\ Cardinality(TaggedOf(ReadLockers)') = reading + 1
            /\ TaggedOf(WriteLockers)' = TaggedOf(WriteLockers)
        BY <1>2, <2>3, <2>4, <2>6, <2>7, TaggedCount
      <3> QED
        BY <2>5, <2>6, <3>1, <3>2 DEF LockerInv
    <2>8. CASE l \in WriteLockers
      <3>1. writing = 0 /\ reading = 0 /\ writing' = 1 /\ reading' = reading
        BY <1>2, <2>1, <2>8 DEF Locker!Lock
      <3>2. /\ IsFiniteSet(TaggedOf(WriteLockers)') /\ Cardinality(TaggedOf(WriteLockers)') = writing + 1
            /\ TaggedOf(ReadLockers)' = TaggedOf(ReadLockers)
        BY <1>2, <2>3, <2>4, <2>6, <2>8, TaggedCount
      <3>3. Cardinality(TaggedOf(WriteLockers)') = writing' /\ writing' + reading' = 1
        BY <3>1, <3>2
      <3> QED
        BY <2>5, <2>6, <3>1, <3>2, <3>3 DEF LockerInv
    <2> QED
      BY <1>1, <2>7, <2>8
  <1>4. CASE ~(q.lock = 1 /\ q.tag = 0)
    <2>1. q_val' = [q_val EXCEPT ![l] = q] /\ UNCHANGED <<reading, writing>>
      BY <1>4 DEF Locker!Take
    <2>2. TaggedOf(ReadLockers)' = TaggedOf(ReadLockers) /\ TaggedOf(WriteLockers)' = TaggedOf(WriteLockers)
      BY <2>1 DEF TaggedOf, LockerInv, Locker!Lockers
    <2>3. /\ q_val' \in [Locker!Lockers -> [lock : {0, 1}, tag : {0, 1}, exists : BOOLEAN]]
          /\ \A u \in Locker!Lockers : q_val'[u].tag = 1 => q_val'[u].exists /\ q_val'[u].lock = 1
      BY <2>1 DEF LockerInv
    <2> QED
      BY <2>1, <2>2, <2>3 DEF LockerInv
  <1> QED
    BY <1>3, <1>4

\* The lock that is given back is the one that was taken.
LEMMA GiveBackLocker ==
  ASSUME LockerInv, NEW l \in Locker!Lockers,
         NEW q \in [lock : {0, 1}, tag : {0}, exists : BOOLEAN], Locker!GiveBack(l, q)
  PROVE  LockerInv'
  <1>1. l \in ReadLockers \/ l \in WriteLockers
    BY DEF Locker!Lockers
  <1>2. ~(l \in ReadLockers /\ l \in WriteLockers)
    BY PartAssumption DEF Locker!LockerAssumption
  <1>3. q_val' = [q_val EXCEPT ![l] = q] /\ q.tag # 1
    BY DEF Locker!GiveBack
  <1>4. /\ TaggedOf(ReadLockers)' = TaggedOf(ReadLockers) \ {l}
        /\ TaggedOf(WriteLockers)' = TaggedOf(WriteLockers) \ {l}
    BY <1>3, TaggedBy
  <1>5. /\ q_val' \in [Locker!Lockers -> [lock : {0, 1}, tag : {0, 1}, exists : BOOLEAN]]
        /\ \A u \in Locker!Lockers : q_val'[u].tag = 1 => q_val'[u].exists /\ q_val'[u].lock = 1
    BY <1>3 DEF LockerInv
  <1>6. /\ reading = Cardinality(TaggedOf(ReadLockers)) /\ reading \in Nat
        /\ writing = Cardinality(TaggedOf(WriteLockers)) /\ writing \in Nat
        /\ writing = 0 \/ writing + reading = 1
    BY TaggedCount DEF LockerInv
  <1>7. CASE q_val[l].tag = 1
    <2>1. Locker!UnlockLock
      BY <1>7 DEF Locker!GiveBack, LockerInv
    <2>2. CASE l \in ReadLockers
      <3>1. l \in TaggedOf(ReadLockers) /\ l \notin TaggedOf(WriteLockers)
        BY <1>2, <1>7, <2>2 DEF TaggedOf
      <3>2. /\ IsFiniteSet(TaggedOf(ReadLockers)') /\ Cardinality(TaggedOf(ReadLockers)') = reading - 1
            /\ TaggedOf(WriteLockers)' = TaggedOf(WriteLockers)
        BY <1>4, <1>6, <3>1, TaggedCount
      <3>3. reading # 0
        BY <1>4, <1>6, <3>1, FS_EmptySet DEF LockerInv
      <3>4. writing = 0
        BY <1>6, <3>3
      <3>5. reading' = reading - 1 /\ writing' = writing
        BY <2>1, <3>4 DEF Locker!UnlockLock
      <3> QED
        BY <1>5, <1>6, <3>2, <3>4, <3>5 DEF LockerInv
    <2>3. CASE l \in WriteLockers
      <3>1. l \in TaggedOf(WriteLockers) /\ l \notin TaggedOf(ReadLockers)
        BY <1>2, <1>7, <2>3 DEF TaggedOf
      <3>2. /\ IsFiniteSet(TaggedOf(WriteLockers)') /\ Cardinality(TaggedOf(WriteLockers)') = writing - 1
            /\ TaggedOf(ReadLockers)' = TaggedOf(ReadLockers)
        BY <1>4, <1>6, <3>1, TaggedCount
      <3>3. writing # 0
        BY <1>4, <1>6, <3>1, FS_EmptySet DEF LockerInv
      <3>4. writing = 1 /\ reading = 0
        BY <1>6, <3>3
      <3>5. reading' = reading /\ writing' = 0
        BY <2>1, <3>4 DEF Locker!UnlockLock
      <3> QED
        BY <1>5, <1>6, <3>2, <3>4, <3>5 DEF LockerInv
    <2> QED
      BY <1>1, <2>2, <2>3
  <1>8. CASE q_val[l].tag # 1
    <2>1. UNCHANGED <<reading, writing>>
      BY <1>8 DEF Locker!GiveBack
    <2>2. TaggedOf(ReadLockers)' = TaggedOf(ReadLockers) /\ TaggedOf(WriteLockers)' = TaggedOf(WriteLockers)
      BY <1>4, <1>8 DEF TaggedOf
    <2> QED
      BY <1>5, <2>1, <2>2 DEF LockerInv
  <1> QED
    BY <1>7, <1>8

LEMMA LockerStep == LockerInv /\ [Locker!Next]_lockerVars => LockerInv'
  <1> SUFFICES ASSUME LockerInv, [Locker!Next]_lockerVars PROVE LockerInv'
    OBVIOUS
  <1>1. CASE UNCHANGED lockerVars
    BY <1>1 DEF lockerVars, LockerInv, TaggedOf
  <1>2. ASSUME NEW l \in Locker!Lockers, Locker!Construct(l) PROVE LockerInv'
    <2>1. PICK lock \in {0, 1} : Locker!Take(l, [lock |-> lock, tag |-> 0, exists |-> TRUE])
      BY <1>2 DEF Locker!Construct
    <2>2. q_val[l].tag = 0
      BY <1>2 DEF Locker!Construct, LockerInv
    <2> DEFINE q == [lock |-> lock, tag |-> 0, exists |-> TRUE]
    <2>3. q \in [lock : {0, 1}, tag : {0, 1}, exists : {TRUE}] /\ q.tag = 0 /\ Locker!Take(l, q)
      BY <2>1
    <2> HIDE DEF q
    <2> QED
      BY <2>2, <2>3, TakeLocker
  <1>3. ASSUME NEW l \in Locker!Lockers, Locker!Relock(l) PROVE LockerInv'
    <2>1. /\ Locker!Take(l, q_val[l]) /\ q_val[l] \in [lock : {0, 1}, tag : {0, 1}, exists : {TRUE}]
          /\ q_val[l].tag = 1 => q_val[l].lock = 1
      BY <1>3 DEF Locker!Relock, LockerInv
    <2> QED
      BY <2>1, TakeLocker
  <1>4. ASSUME NEW l \in Locker!Lockers, Locker!Unlock(l) PROVE LockerInv'
    <2> DEFINE q == IF q_val[l].tag = 1 THEN Locker!Untagged(q_val[l]) ELSE q_val[l]
    <2>1. Locker!GiveBack(l, q)
      BY <1>4 DEF Locker!Unlock
    <2>2. q \in [lock : {0, 1}, tag : {0}, exists : BOOLEAN]
      <3>1. q_val[l] \in [lock : {0, 1}, tag : {0, 1}, exists : BOOLEAN]
        BY DEF LockerInv
      <3> QED
        BY <3>1 DEF Locker!Untagged
    <2> HIDE DEF q
    <2> QED
      BY <2>1, <2>2, GiveBackLocker
  <1>5. ASSUME NEW l \in Locker!Lockers, Locker!Destroy(l) PROVE LockerInv'
    <2>1. Locker!GiveBack(l, Locker!NoLocker)
      BY <1>5 DEF Locker!Destroy
    <2>2. Locker!NoLocker \in [lock : {0, 1}, tag : {0}, exists : BOOLEAN]
      BY DEF Locker!NoLocker
    <2> QED
      BY <2>1, <2>2, GiveBackLocker
  <1> QED
    BY <1>1, <1>2, <1>3, <1>4, <1>5 DEF Locker!Next

-----------------------------------------------------------------------------
(* Global statics.                                                         *)

\* Before the guard is set the object is absent, or one thread is making it; after
\* that it is whole until it is gone. Nobody waits who came too late.
StaticInv ==
  /\ Static!TypeOK
  /\ threadsafeStatics \in BOOLEAN /\ initialized \in BOOLEAN /\ late \in [Workers -> BOOLEAN]
  /\ initialized <=> guard # 0
  /\ \A t \in Workers : maker = t <=> spot[t] \in {"making", "made"}
  /\ \A t \in Workers : spot[t] = "making" => object = "half" /\ constructions = 0 /\ guard = 0
  /\ \A t \in Workers : spot[t] = "made" => object = "whole" /\ constructions = 1 /\ guard = 0
  /\ maker = None /\ guard = 0 => object = "absent" /\ constructions = 0
  /\ guard = -1 => object \in {"whole", "gone"} /\ constructions = 1
  /\ guard = -2 => object = "gone" /\ constructions = 1
  /\ \A t \in Workers : /\ answer[t] # "half"
                        /\ object # "gone" => answer[t] \in {None, "whole"}
                        /\ late[t] => answer[t] = "null" /\ spot[t] = "idle"

LEMMA StaticStep == StaticInv /\ [Static!Next]_staticVars => StaticInv'
  <1> SUFFICES ASSUME StaticInv, [Static!Next]_staticVars PROVE StaticInv'
    OBVIOUS
  <1> USE DEF Static!Destroyed, Static!Initialized, Static!Uninitialized, Static!isDestroyed, Static!At,
              Static!Return
  <1>1. None \notin Workers /\ None # "half"
    BY PartAssumption DEF Static!StaticAssumption
  <1>2. guard \in {-2, -1, 0}
    BY DEF StaticInv, Static!TypeOK
  <1>3. CASE UNCHANGED staticVars
    BY <1>3 DEF staticVars, StaticInv, Static!TypeOK
  <1>4. ASSUME NEW t \in Workers, Static!Call(t) PROVE StaticInv'
    <2>1. CASE guard = -2
      BY <1>1, <1>4, <2>1 DEF Static!Call, StaticInv, Static!TypeOK
    <2>2. CASE guard # -2
      <3>1. ~(guard <= -2)
        BY <1>2, <2>2
      <3>2. /\ spot' = [spot EXCEPT ![t] = "called"] /\ spot[t] = "idle"
            /\ answer' = [answer EXCEPT ![t] = None] /\ late' = [late EXCEPT ![t] = FALSE]
            /\ UNCHANGED <<threadsafeStatics, guard, object, constructions, initialized, maker>>
        BY <1>4, <2>2, <3>1 DEF Static!Call
      <3> QED
        BY <1>1, <3>2 DEF StaticInv, Static!TypeOK
    <2> QED
      BY <2>1, <2>2
  <1>5. ASSUME NEW t \in Workers, Static!Look(t) PROVE StaticInv'
    <2>1. CASE IF threadsafeStatics THEN initialized ELSE guard < 0
      <3>1. guard # 0 /\ object \in {"whole", "gone"}
        BY <1>2, <2>1 DEF StaticInv
      <3> QED
        BY <1>1, <1>2, <1>5, <2>1, <3>1 DEF Static!Look, StaticInv, Static!TypeOK
    <2>2. CASE ~(IF threadsafeStatics THEN initialized ELSE guard < 0)
      BY <1>1, <1>2, <1>5, <2>2 DEF Static!Look, StaticInv, Static!TypeOK
    <2> QED
      BY <2>1, <2>2
  <1>6. ASSUME NEW t \in Workers, Static!Lock(t) PROVE StaticInv'
    <2>1. maker = None
      BY <1>6 DEF Static!Lock
    <2>2. CASE Static!Needed
      <3>1. guard = 0
        BY <2>2 DEF Static!Needed, StaticInv
      <3> QED
        BY <1>1, <1>6, <2>1, <2>2, <3>1 DEF Static!Lock, StaticInv, Static!TypeOK
    <2>3. CASE ~Static!Needed
      <3>1. guard # 0 /\ object \in {"whole", "gone"}
        BY <1>2, <2>3 DEF Static!Needed, StaticInv
      <3> QED
        BY <1>1, <1>2, <1>6, <2>1, <2>3, <3>1 DEF Static!Lock, StaticInv, Static!TypeOK
    <2> QED
      BY <2>2, <2>3
  <1>7. ASSUME NEW t \in Workers, Static!Construct(t) PROVE StaticInv'
    <2>1. constructions = 0 /\ guard = 0 /\ maker = t
      BY <1>7 DEF Static!Construct, StaticInv
    <2> QED
      BY <1>1, <1>7, <2>1 DEF Static!Construct, StaticInv, Static!TypeOK
  <1>8. ASSUME NEW t \in Workers, Static!Publish(t) PROVE StaticInv'
    <2>1. constructions = 1 /\ guard = 0 /\ maker = t /\ object = "whole"
      BY <1>8 DEF Static!Publish, StaticInv
    <2> QED
      BY <1>1, <1>8, <2>1 DEF Static!Publish, StaticInv, Static!TypeOK
  <1>9. CASE Static!Delete
    BY <1>1, <1>2, <1>9 DEF Static!Delete, StaticInv, Static!TypeOK
  <1>10. CASE Static!EndOfDelete
    BY <1>1, <1>10 DEF Static!EndOfDelete, StaticInv, Static!TypeOK
  <1> QED
    BY <1>3, <1>4, <1>5, <1>6, <1>7, <1>8, <1>9, <1>10 DEF Static!Next

-----------------------------------------------------------------------------
(* Loggers.                                                                *)

\* A builder has the data it made until it gives it to the factory or, with the
\* mutex, to the default logger; whatever has been given away has its formatter, or its
\* builder is about to set it up.
DataInv ==
  /\ g_factory \in Threads \cup {None} /\ g_factoryData \in Threads \cup {Own, None}
  /\ formatter \subseteq Threads \cup {Own} /\ deleted \in [Threads \cup {Own} -> {0, 1}]
  /\ d \in [Threads -> Threads \cup {None}] /\ built \in [Threads -> BOOLEAN]
  /\ step \in [Threads -> Logger!Places] /\ factoryMutex \in Threads \cup {None}
  /\ deleted[Own] = 0 /\ unformatted = FALSE
  /\ \A t \in Threads :
       /\ d[t] \in {t, None}
       /\ factoryMutex = t <=> step[t] = "adopting"
       /\ step[t] = "adopting" => d[t] = t /\ g_factoryData = t
       /\ step[t] \in {"building", "buildingDefault"} => d[t] = t
       /\ step[t] = "logger" => g_factory # None
       /\ ~built[t] => d[t] = None /\ deleted[t] = 0 /\ g_factory # t /\ g_factoryData # t
       /\ d[t] = t => deleted[t] = 0 /\ g_factory # t /\ (g_factoryData = t => step[t] = "adopting")
       /\ deleted[t] = 1 => g_factory # t /\ g_factoryData # t
       /\ g_factory = t => t \in formatter /\ g_factoryData # t
       /\ g_factoryData = t => t \in formatter \/ step[t] = "adopting"

\* A name has a logger, the first, or it has none, or a thread with the mutex is about to
\* assign it.
NamesInv ==
  /\ map \in [Logger!AllNames -> {0, 1, 100}] /\ made \in [Logger!AllNames -> {0, 1}]
  /\ returned \in [Logger!AllNames -> SUBSET {1, 100}]
  /\ step \in [Threads -> Logger!Places] /\ arg \in [Threads -> Names \cup {None}]
  /\ loggerMapMutex \in Threads \cup {None}
  /\ \A n \in Logger!AllNames : /\ map[n] = 0 <=> made[n] = 0
                                /\ map[n] = 100 => loggerMapMutex # None /\ arg[loggerMapMutex] = n
  /\ map[Default] # 100 /\ 100 \notin returned[Default]
  /\ \A t \in Threads : /\ loggerMapMutex = t <=> step[t] = "assigning"
                        /\ step[t] \in {"logger", "assigning"} => arg[t] \in Names
                        /\ step[t] = "assigning" => map[arg[t]] = 100

LEMMA LoggerConstants ==
  /\ Own \notin Threads /\ Default \notin Names /\ None \notin Threads /\ None \notin Names /\ None # Own
  /\ Names \subseteq Logger!AllNames /\ Default \in Logger!AllNames
  /\ Logger!Absent = 0 /\ Logger!Null = 100 /\ Logger!Datas = Threads \cup {Own}
  BY PartAssumption DEF Logger!LoggerAssumption, Logger!AllNames, Logger!Absent, Logger!Null, Logger!Datas

LEMMA DataStep == DataInv /\ NamesInv /\ [Logger!Next]_loggerVars => DataInv'
  <1> SUFFICES ASSUME DataInv, NamesInv, [Logger!Next]_loggerVars PROVE DataInv'
    OBVIOUS
  <1> USE LoggerConstants DEF Logger!Goto, Logger!statics, Logger!history, Logger!Places
  <1>1. CASE UNCHANGED loggerVars
    BY <1>1 DEF loggerVars, DataInv
  <1>2. ASSUME NEW t \in Threads, Logger!Builder(t) PROVE DataInv'
    BY <1>2 DEF Logger!Builder, DataInv
  <1>3. ASSUME NEW t \in Threads, Logger!DestroyBuilder(t) PROVE DataInv'
    BY <1>3 DEF Logger!DestroyBuilder, Logger!Delete, DataInv
  <1>4. ASSUME NEW t \in Threads, Logger!Build(t) PROVE DataInv'
    BY <1>4 DEF Logger!Build, DataInv
  <1>5. ASSUME NEW t \in Threads, Logger!BuildLocked(t) PROVE DataInv'
    BY <1>5 DEF Logger!BuildLocked, Logger!Released, DataInv
  <1>6. ASSUME NEW t \in Threads, Logger!BuildDefault(t) PROVE DataInv'
    BY <1>6 DEF Logger!BuildDefault, DataInv
  <1>7. ASSUME NEW t \in Threads, Logger!BuildDefaultLocked(t) PROVE DataInv'
    BY <1>7 DEF Logger!BuildDefaultLocked, DataInv
  <1>8. ASSUME NEW t \in Threads, Logger!Adopt(t) PROVE DataInv'
    <2>1. d[t] = t /\ g_factoryData = t /\ factoryMutex = t /\ g_factory # t
      BY <1>8 DEF Logger!Adopt, DataInv
    <2>2. /\ formatter' = formatter \cup {t} /\ d' = [d EXCEPT ![t] = None] /\ factoryMutex' = None
          /\ step' = [step EXCEPT ![t] = "idle"]
          /\ UNCHANGED <<g_factory, g_factoryData, built, deleted, unformatted>>
      BY <1>8, <2>1 DEF Logger!Adopt, Logger!Released
    <2> QED
      BY <2>1, <2>2 DEF DataInv
  <1>9. ASSUME NEW t \in Threads, Logger!DefaultLogger(t) PROVE DataInv'
    BY <1>9 DEF Logger!DefaultLogger, DataInv
  <1>10. ASSUME NEW t \in Threads, Logger!DefaultLoggerLocked(t) PROVE DataInv'
    <2>1. /\ factoryMutex = None /\ step[t] = "defaultLogger" /\ step' = [step EXCEPT ![t] = "idle"]
          /\ UNCHANGED <<g_factory, d, built, formatter, deleted, factoryMutex>>
      BY <1>10 DEF Logger!DefaultLoggerLocked, Logger!MutexFree
    <2>2. CASE map[Default] = 0
      <3>1. /\ g_factoryData' = IF g_factoryData = None THEN Own ELSE g_factoryData
            /\ unformatted' = (unformatted \/ g_factoryData' \notin formatter \cup {Own})
        BY <1>10, <2>2 DEF Logger!DefaultLoggerLocked, Logger!Create
      <3>2. \A u \in Threads : step[u] # "adopting"
        BY <2>1 DEF DataInv
      <3>3. g_factoryData' \in formatter \cup {Own}
        BY <3>1, <3>2 DEF DataInv
      <3>4. unformatted' = FALSE
        BY <3>1, <3>3 DEF DataInv
      <3>5. g_factoryData' = g_factoryData \/ g_factoryData' = Own
        BY <3>1
      <3>6. g_factoryData' \in Threads \cup {Own, None}
        BY <3>5 DEF DataInv
      <3>7. \A u \in Threads : g_factoryData' = u => g_factoryData = u
        BY <3>5
      <3> QED
        BY <2>1, <3>2, <3>4, <3>6, <3>7 DEF DataInv
    <2>3. CASE map[Default] # 0
      <3>1. UNCHANGED <<g_factoryData, unformatted>>
        BY <1>10, <2>3 DEF Logger!DefaultLoggerLocked
      <3> QED
        BY <2>1, <3>1 DEF DataInv
    <2> QED
      BY <2>2, <2>3
  <1>11. ASSUME NEW t \in Threads, NEW n \in Names, Logger!Logger(t, n) PROVE DataInv'
    BY <1>11 DEF Logger!Logger, DataInv
  <1>12. ASSUME NEW t \in Threads, Logger!LoggerLocked(t) PROVE DataInv'
    <2>1. g_factory \in formatter
      BY <1>12 DEF Logger!LoggerLocked, DataInv
    <2>2. unformatted' = FALSE
      BY <1>12, <2>1 DEF Logger!LoggerLocked, Logger!Create, DataInv
    <2>3. PICK s \in {"idle", "assigning"} : step' = [step EXCEPT ![t] = s]
      BY <1>12 DEF Logger!LoggerLocked
    <2>4. /\ step[t] = "logger"
          /\ UNCHANGED <<g_factory, g_factoryData, d, built, formatter, deleted, factoryMutex>>
      BY <1>12 DEF Logger!LoggerLocked
    <2> QED
      BY <2>2, <2>3, <2>4 DEF DataInv
  <1>13. ASSUME NEW t \in Threads, Logger!Assign(t) PROVE DataInv'
    BY <1>13 DEF Logger!Assign, DataInv
  <1>14. CASE Logger!Clearup
    BY <1>14 DEF Logger!Clearup, Logger!Delete, DataInv
  <1> QED
    BY <1>1, <1>2, <1>3, <1>4, <1>5, <1>6, <1>7, <1>8, <1>9, <1>10, <1>11, <1>12, <1>13, <1>14
    DEF Logger!Next

LEMMA NamesStep == DataInv /\ NamesInv /\ [Logger!Next]_loggerVars => NamesInv'
  <1> SUFFICES ASSUME DataInv, NamesInv, [Logger!Next]_loggerVars PROVE NamesInv'
    OBVIOUS
  <1> USE LoggerConstants DEF Logger!Goto, Logger!statics, Logger!history, Logger!Places, Logger!Return
  <1>1. CASE UNCHANGED loggerVars
    BY <1>1 DEF loggerVars, NamesInv
  <1>2. ASSUME NEW t \in Threads, Logger!Builder(t) \/ Logger!DestroyBuilder(t) PROVE NamesInv'
    BY <1>2 DEF Logger!Builder, Logger!DestroyBuilder, NamesInv
  <1>3. ASSUME NEW t \in Threads, \/ Logger!Build(t) \/ Logger!BuildLocked(t)
                                  \/ Logger!BuildDefault(t) \/ Logger!BuildDefaultLocked(t) \/ Logger!Adopt(t)
        PROVE  NamesInv'
    <2>1. PICK s \in Logger!Places \ {"logger", "assigning"} :
            step' = [step EXCEPT ![t] = s] \/ UNCHANGED step
      BY <1>3 DEF Logger!Build, Logger!BuildLocked, Logger!BuildDefault, Logger!BuildDefaultLocked, Logger!Adopt
    <2>2. step[t] # "assigning" /\ UNCHANGED <<map, loggerMapMutex, arg, made, returned>>
      BY <1>3 DEF Logger!Build, Logger!BuildLocked, Logger!BuildDefault, Logger!BuildDefaultLocked, Logger!Adopt
    <2> QED
      BY <2>1, <2>2 DEF NamesInv
  <1>4. ASSUME NEW t \in Threads, Logger!DefaultLogger(t) PROVE NamesInv'
    BY <1>4 DEF Logger!DefaultLogger, NamesInv
  <1>5. ASSUME NEW t \in Threads, Logger!DefaultLoggerLocked(t) PROVE NamesInv'
    BY <1>5 DEF Logger!DefaultLoggerLocked, Logger!Create, NamesInv
  <1>6. ASSUME NEW t \in Threads, NEW n \in Names, Logger!Logger(t, n) PROVE NamesInv'
    BY <1>6 DEF Logger!Logger, NamesInv
  <1>7. ASSUME NEW t \in Threads, Logger!LoggerLocked(t) PROVE NamesInv'
    BY <1>7 DEF Logger!LoggerLocked, Logger!Create, Logger!Missing, NamesInv
  <1>8. ASSUME NEW t \in Threads, Logger!Assign(t) PROVE NamesInv'
    BY <1>8 DEF Logger!Assign, NamesInv
  <1>9. CASE Logger!Clearup
    BY <1>9 DEF Logger!Clearup, NamesInv
  <1> QED
    BY <1>1, <1>2, <1>3, <1>4, <1>5, <1>6, <1>7, <1>8, <1>9 DEF Logger!Next

-----------------------------------------------------------------------------
(* Atomic integers: what is seen.                                          *)

AStore == [value : Atomic!Values, seen : SUBSET Workers, due : SUBSET Workers]

\* A thread sees its own writes, and it sees, and publishes with a store, at least
\* what it was promised.
SeenInv ==
  /\ counting \in BOOLEAN
  /\ _q_value \in [Cells -> Seq(AStore)]
  /\ \A c \in Cells : /\ Len(_q_value[c]) \in 1 .. Atomic!Bound + 1
                      /\ \A i \in 1 .. Len(_q_value[c]) : _q_value[c][i].due \subseteq _q_value[c][i].seen
  /\ newest \in [Workers -> [Cells -> Nat]]
  /\ \A t \in Workers, c \in Cells : newest[t][c] \in 1 .. Len(_q_value[c])
  /\ seen \in [Workers -> SUBSET Workers] /\ due \in [Workers -> SUBSET Workers]
  /\ \A t \in Workers : t \in seen[t] /\ due[t] \subseteq seen[t]

LEMMA AtomicConstants ==
  /\ IsFiniteSet(Workers) /\ Workers # {} /\ Modulus \in Nat /\ Atomic!Bound \in Nat
  /\ Cardinality(Workers) \in Nat \ {0} /\ Cardinality(Workers) + Atomic!Bound < Modulus
  /\ Atomic!Values = 0 .. Modulus - 1 /\ 0 \in Atomic!Values /\ 1 \in Atomic!Values
  <1>1. /\ IsFiniteSet(Workers) /\ Workers # {} /\ Modulus \in Nat /\ MaxStores \in Nat
        /\ 2 * Cardinality(Workers) + MaxStores < Modulus
    BY PartAssumption, SameFinite, SameCount DEF Atomic!AtomicAssumption
  <1>2. Cardinality(Workers) \in Nat \ {0}
    BY <1>1, FS_CardinalityType, FS_EmptySet
  <1>3. Atomic!Bound = IF counting THEN Cardinality(Workers) + MaxStores ELSE MaxStores
    BY SameCount DEF Atomic!Bound
  <1> QED
    BY <1>1, <1>2, <1>3 DEF Atomic!Values

LEMMA BoundKept == UNCHANGED counting => Atomic!Bound' = Atomic!Bound
  BY DEF Atomic!Bound

\* A store that is found gives the thread that finds it what it is due, if the order
\* acquires wherever the name says so.
LEMMA FoundIsSeen ==
  ASSUME SeenInv, NEW t \in Workers, NEW c \in Cells, NEW i \in 1 .. Len(_q_value[c]), NEW name, NEW order,
         Atomic!Collects(name) => Atomic!Acquires(order), Atomic!Find(t, c, i, name, order)
  PROVE  /\ seen' \in [Workers -> SUBSET Workers] /\ due' \in [Workers -> SUBSET Workers]
         /\ \A u \in Workers : u \in seen'[u] /\ due'[u] \subseteq seen'[u] /\ seen[u] \subseteq seen'[u]
         /\ \A u \in Workers : u # t => seen'[u] = seen[u]
         /\ Atomic!Acquires(order) => seen'[t] = seen[t] \cup _q_value[c][i].seen
  <1> DEFINE found == _q_value[c][i]
  <1>1. found.seen \subseteq Workers /\ found.due \subseteq found.seen
    <2>1. found \in AStore
      BY ElementOfSeq DEF SeenInv
    <2> QED
      BY <2>1 DEF SeenInv, AStore
  <1>2. /\ seen' = [seen EXCEPT ![t] = @ \cup IF Atomic!Acquires(order) THEN found.seen ELSE {}]
        /\ due' = [due EXCEPT ![t] = @ \cup IF Atomic!Collects(name) THEN found.due ELSE {}]
    BY DEF Atomic!Find
  <1> HIDE DEF found
  <1>3. /\ seen' \in [Workers -> SUBSET Workers] /\ due' \in [Workers -> SUBSET Workers]
        /\ \A u \in Workers : seen[u] \subseteq seen'[u] /\ (u # t => seen'[u] = seen[u] /\ due'[u] = due[u])
        /\ seen'[t] = seen[t] \cup IF Atomic!Acquires(order) THEN found.seen ELSE {}
        /\ due'[t] = due[t] \cup IF Atomic!Collects(name) THEN found.due ELSE {}
    BY <1>1, <1>2 DEF SeenInv
  <1>4. due'[t] \subseteq seen'[t]
    BY <1>1, <1>3 DEF SeenInv
  <1>5. \A u \in Workers : u \in seen'[u] /\ due'[u] \subseteq seen'[u]
    BY <1>3, <1>4 DEF SeenInv
  <1>6. Atomic!Acquires(order) => seen'[t] = seen[t] \cup found.seen
    BY <1>3
  <1> QED
    BY <1>3, <1>5, <1>6 DEF found

\* A load, whatever it finds.
LEMMA LoadSees ==
  ASSUME SeenInv, NEW t \in Workers, NEW c \in Cells, NEW i \in Atomic!Visible(t, c), NEW name, NEW order,
         Atomic!Collects(name) => Atomic!Acquires(order), Atomic!Find(t, c, i, name, order),
         newest' = [newest EXCEPT ![t][c] = i], UNCHANGED <<_q_value, counting>>
  PROVE  SeenInv'
  <1>1. i \in 1 .. Len(_q_value[c])
    BY DEF SeenInv, Atomic!Visible
  <1>2. /\ seen' \in [Workers -> SUBSET Workers] /\ due' \in [Workers -> SUBSET Workers]
        /\ \A u \in Workers : u \in seen'[u] /\ due'[u] \subseteq seen'[u]
    BY <1>1, FoundIsSeen
  <1>3. /\ newest' \in [Workers -> [Cells -> Nat]]
        /\ \A u \in Workers, e \in Cells : newest'[u][e] \in 1 .. Len(_q_value[e])
    BY <1>1 DEF SeenInv
  <1> QED
    BY <1>2, <1>3, BoundKept DEF SeenInv

\* A cell gets one more store, of a promise that is seen.
LEMMA OneMoreStore ==
  ASSUME SeenInv, NEW c \in Cells, NEW store \in AStore, store.due \subseteq store.seen,
         Len(_q_value[c]) <= Atomic!Bound, _q_value' = [_q_value EXCEPT ![c] = Append(@, store)]
  PROVE  /\ _q_value' \in [Cells -> Seq(AStore)]
         /\ \A e \in Cells :
              /\ Len(_q_value'[e]) = IF e = c THEN Len(_q_value[e]) + 1 ELSE Len(_q_value[e])
              /\ Len(_q_value'[e]) \in 1 .. Atomic!Bound + 1
              /\ \A i \in 1 .. Len(_q_value'[e]) : _q_value'[e][i].due \subseteq _q_value'[e][i].seen
         /\ _q_value'[c][Len(_q_value'[c])] = store
  <1> USE AtomicConstants
  <1>1. _q_value[c] \in Seq(AStore) /\ Len(_q_value[c]) \in 1 .. Atomic!Bound + 1
    BY DEF SeenInv
  <1>2. /\ Append(_q_value[c], store) \in Seq(AStore)
        /\ Len(Append(_q_value[c], store)) = Len(_q_value[c]) + 1
        /\ \A i \in 1 .. Len(_q_value[c]) : Append(_q_value[c], store)[i] = _q_value[c][i]
        /\ Append(_q_value[c], store)[Len(_q_value[c]) + 1] = store
    BY <1>1, AppendProperties
  <1>3. /\ _q_value' \in [Cells -> Seq(AStore)] /\ _q_value'[c] = Append(_q_value[c], store)
        /\ \A e \in Cells \ {c} : _q_value'[e] = _q_value[e]
    BY <1>2 DEF SeenInv
  <1>4. ASSUME NEW i \in 1 .. Len(_q_value'[c]) PROVE _q_value'[c][i].due \subseteq _q_value'[c][i].seen
    <2>1. CASE i \in 1 .. Len(_q_value[c])
      BY <1>2, <1>3, <2>1 DEF SeenInv
    <2>2. CASE i = Len(_q_value[c]) + 1
      BY <1>2, <1>3, <2>2
    <2> QED
      BY <1>1, <1>2, <1>3, <2>1, <2>2
  <1>5. Len(_q_value'[c]) = Len(_q_value[c]) + 1 /\ Len(_q_value'[c]) \in 1 .. Atomic!Bound + 1
    BY <1>1, <1>2, <1>3
  <1>6. ASSUME NEW e \in Cells \ {c}
        PROVE  /\ Len(_q_value'[e]) = Len(_q_value[e]) /\ Len(_q_value'[e]) \in 1 .. Atomic!Bound + 1
               /\ \A i \in 1 .. Len(_q_value'[e]) : _q_value'[e][i].due \subseteq _q_value'[e][i].seen
    BY <1>3 DEF SeenInv
  <1> QED
    BY <1>2, <1>3, <1>4, <1>5, <1>6

\* A thread knows of the store that it adds itself.
LEMMA KnowsItsStore ==
  ASSUME SeenInv, NEW t \in Workers, NEW c \in Cells,
         \A e \in Cells :
           Len(_q_value'[e]) = IF e = c THEN Len(_q_value[e]) + 1 ELSE Len(_q_value[e]),
         newest' = [newest EXCEPT ![t][c] = Len(_q_value[c]) + 1]
  PROVE  /\ newest' \in [Workers -> [Cells -> Nat]]
         /\ \A u \in Workers, e \in Cells : newest'[u][e] \in 1 .. Len(_q_value'[e])
  <1>1. Len(_q_value[c]) \in Nat
    BY DEF SeenInv
  <1>2. newest' \in [Workers -> [Cells -> Nat]]
    BY <1>1 DEF SeenInv
  <1>3. ASSUME NEW u \in Workers, NEW e \in Cells PROVE newest'[u][e] \in 1 .. Len(_q_value'[e])
    <2>1. newest[u][e] \in 1 .. Len(_q_value[e]) /\ Len(_q_value[e]) \in Nat
      BY DEF SeenInv
    <2>2. newest'[u][e] = IF u = t /\ e = c THEN Len(_q_value[c]) + 1 ELSE newest[u][e]
      BY DEF SeenInv
    <2>3. CASE e = c
      BY <1>1, <2>1, <2>2, <2>3
    <2>4. CASE e # c
      BY <2>1, <2>2, <2>4
    <2> QED
      BY <2>3, <2>4
  <1> QED
    BY <1>2, <1>3

\* A read-modify-write hands on what the store before it published, and adds its own.
LEMMA ModifySees ==
  ASSUME SeenInv, NEW t \in Workers, NEW c \in Cells, NEW amount \in Atomic!Values, NEW name, NEW order,
         Atomic!Collects(name) => Atomic!Acquires(order), Atomic!Publishes(name) => Atomic!Releases(order),
         Atomic!Modify(t, c, amount, name, order), UNCHANGED counting
  PROVE  /\ SeenInv'
         /\ \A u \in Workers : seen[u] \subseteq seen'[u]
         /\ Atomic!Acquires(order) => Atomic!Newest(c).seen \subseteq seen'[t]
         /\ Atomic!Newest(c)'.value = amount
         /\ Atomic!Newest(c).seen \subseteq Atomic!Newest(c)'.seen
         /\ Atomic!Releases(order) => seen'[t] \subseteq Atomic!Newest(c)'.seen
         /\ Len(_q_value[c]) <= Atomic!Bound /\ Len(_q_value'[c]) = Len(_q_value[c]) + 1
         /\ \A e \in Cells \ {c} : _q_value'[e] = _q_value[e]
  <1> USE AtomicConstants
  <1> DEFINE size == Len(_q_value[c])
             before == Atomic!Newest(c)
             store == [value |-> amount,
                       seen |-> before.seen \cup IF Atomic!Releases(order) THEN seen'[t] ELSE {},
                       due |-> before.due \cup IF Atomic!Publishes(name) THEN due'[t] ELSE {}]
  <1>1. size \in 1 .. Atomic!Bound + 1 /\ before = _q_value[c][size]
    BY DEF SeenInv, Atomic!Newest
  <1>2. before \in AStore /\ before.due \subseteq before.seen
    <2>1. _q_value[c] \in Seq(AStore) /\ size \in 1 .. Len(_q_value[c])
      BY <1>1 DEF SeenInv
    <2>2. _q_value[c][size] \in AStore
      BY <2>1, ElementOfSeq
    <2> QED
      BY <1>1, <2>1, <2>2 DEF SeenInv
  <1>3. /\ Atomic!Find(t, c, size, name, order) /\ size <= Atomic!Bound
        /\ _q_value' = [_q_value EXCEPT ![c] = Append(@, store)]
        /\ newest' = [newest EXCEPT ![t][c] = size + 1]
    BY DEF Atomic!Modify, Atomic!Add, Atomic!Store
  <1>4. /\ seen' \in [Workers -> SUBSET Workers] /\ due' \in [Workers -> SUBSET Workers]
        /\ \A u \in Workers : u \in seen'[u] /\ due'[u] \subseteq seen'[u] /\ seen[u] \subseteq seen'[u]
        /\ Atomic!Acquires(order) => seen'[t] = seen[t] \cup before.seen
    <2>1. size \in 1 .. Len(_q_value[c])
      BY <1>1
    <2> QED
      BY <1>1, <1>3, <2>1, FoundIsSeen
  <1>5. store \in AStore /\ store.due \subseteq store.seen
    <2> HIDE DEF before
    <2>1. before.seen \subseteq Workers /\ before.due \subseteq Workers
      BY <1>2 DEF AStore
    <2>2. seen'[t] \subseteq Workers /\ due'[t] \subseteq seen'[t]
      BY <1>4
    <2> QED
      BY <1>2, <2>1, <2>2 DEF AStore
  <1>6. /\ store.value = amount /\ before.seen \subseteq store.seen
        /\ Atomic!Releases(order) => seen'[t] \subseteq store.seen
    OBVIOUS
  <1> HIDE DEF store
  <1>7. /\ _q_value' \in [Cells -> Seq(AStore)]
        /\ \A e \in Cells :
             /\ Len(_q_value'[e]) = IF e = c THEN Len(_q_value[e]) + 1 ELSE Len(_q_value[e])
             /\ Len(_q_value'[e]) \in 1 .. Atomic!Bound + 1
             /\ \A i \in 1 .. Len(_q_value'[e]) : _q_value'[e][i].due \subseteq _q_value'[e][i].seen
        /\ _q_value'[c][Len(_q_value'[c])] = store
    BY <1>3, <1>5, OneMoreStore
  <1>8. /\ newest' \in [Workers -> [Cells -> Nat]]
        /\ \A u \in Workers, e \in Cells : newest'[u][e] \in 1 .. Len(_q_value'[e])
    BY <1>3, <1>7, KnowsItsStore
  <1>9. SeenInv'
    BY <1>4, <1>7, <1>8, BoundKept DEF SeenInv
  <1>10. Atomic!Newest(c)' = store
    BY <1>7 DEF Atomic!Newest
  <1>11. \A e \in Cells \ {c} : _q_value'[e] = _q_value[e]
    BY <1>3 DEF SeenInv
  <1> QED
    BY <1>3, <1>4, <1>6, <1>7, <1>9, <1>10, <1>11

LEMMA StoreSees ==
  ASSUME SeenInv, NEW t \in Workers, NEW c \in Cells, NEW name \in {"Relaxed", "Release"},
         Atomic!StoreValue(t, c, 1, name), UNCHANGED counting
  PROVE  SeenInv'
  <1> USE AtomicConstants
  <1> DEFINE size == Len(_q_value[c])
             store == [value |-> 1,
                       seen |-> {} \cup IF Atomic!Releases(Atomic!StoreOrder(name)) THEN seen'[t] ELSE {},
                       due |-> {} \cup IF Atomic!Publishes(name) THEN due'[t] ELSE {}]
  <1>1. /\ UNCHANGED <<seen, due>> /\ size <= Atomic!Bound
        /\ _q_value' = [_q_value EXCEPT ![c] = Append(@, store)]
        /\ newest' = [newest EXCEPT ![t][c] = size + 1]
    BY DEF Atomic!StoreValue, Atomic!Add, Atomic!Store, Atomic!NoSequence
  <1>2. store \in AStore /\ store.due \subseteq store.seen
    <2>1. seen'[t] \subseteq Workers /\ due'[t] \subseteq seen'[t]
      BY <1>1 DEF SeenInv
    <2>2. Atomic!Publishes(name) => Atomic!Releases(Atomic!StoreOrder(name))
      BY DEF Atomic!Publishes, Atomic!Releases, Atomic!StoreOrder
    <2> QED
      BY <2>1, <2>2 DEF AStore
  <1> HIDE DEF store
  <1>3. /\ _q_value' \in [Cells -> Seq(AStore)]
        /\ \A e \in Cells :
             /\ Len(_q_value'[e]) = IF e = c THEN Len(_q_value[e]) + 1 ELSE Len(_q_value[e])
             /\ Len(_q_value'[e]) \in 1 .. Atomic!Bound + 1
             /\ \A i \in 1 .. Len(_q_value'[e]) : _q_value'[e][i].due \subseteq _q_value'[e][i].seen
    BY <1>1, <1>2, OneMoreStore
  <1>4. /\ newest' \in [Workers -> [Cells -> Nat]]
        /\ \A u \in Workers, e \in Cells : newest'[u][e] \in 1 .. Len(_q_value'[e])
    BY <1>1, <1>3, KnowsItsStore
  <1> QED
    BY <1>1, <1>3, <1>4, BoundKept DEF SeenInv

LEMMA AssignSees ==
  ASSUME SeenInv, NEW t \in Workers, NEW c \in Cells, NEW other \in Cells,
         Atomic!Assign(t, c, other), UNCHANGED counting
  PROVE  SeenInv'
  <1> USE AtomicConstants
  <1>1. PICK i \in Atomic!Visible(t, other) :
          /\ Atomic!Find(t, other, i, "Acquire", Atomic!LoadOrder("Acquire"))
          /\ Len(_q_value[c]) <= Atomic!Bound
          /\ _q_value' = [_q_value EXCEPT ![c] =
               Append(@, Atomic!Store(_q_value[other][i].value,
                                      IF Atomic!Releases(Atomic!StoreOrder("Release")) THEN seen'[t] ELSE {},
                                      due'[t]))]
          /\ newest' = [newest EXCEPT ![t] = [@ EXCEPT ![other] = i, ![c] = Len(_q_value[c]) + 1]]
    BY DEF Atomic!Assign
  <1> DEFINE size == Len(_q_value[c])
             store == [value |-> _q_value[other][i].value, seen |-> seen'[t], due |-> due'[t]]
  <1>2. i \in 1 .. Len(_q_value[other])
    BY DEF SeenInv, Atomic!Visible
  <1>3. _q_value' = [_q_value EXCEPT ![c] = Append(@, store)]
    BY <1>1 DEF Atomic!Store, Atomic!Releases, Atomic!StoreOrder
  <1>4. Atomic!Acquires(Atomic!LoadOrder("Acquire"))
    BY DEF Atomic!Acquires, Atomic!LoadOrder
  <1>5. /\ seen' \in [Workers -> SUBSET Workers] /\ due' \in [Workers -> SUBSET Workers]
        /\ \A u \in Workers : u \in seen'[u] /\ due'[u] \subseteq seen'[u]
    BY <1>1, <1>2, <1>4, FoundIsSeen
  <1>6. store \in AStore /\ store.due \subseteq store.seen
    <2>1. _q_value[other][i] \in AStore
      BY <1>2, ElementOfSeq DEF SeenInv
    <2> QED
      BY <1>5, <2>1 DEF AStore
  <1> HIDE DEF store
  <1>7. /\ _q_value' \in [Cells -> Seq(AStore)]
        /\ \A e \in Cells :
             /\ Len(_q_value'[e]) = IF e = c THEN Len(_q_value[e]) + 1 ELSE Len(_q_value[e])
             /\ Len(_q_value'[e]) \in 1 .. Atomic!Bound + 1
             /\ \A j \in 1 .. Len(_q_value'[e]) : _q_value'[e][j].due \subseteq _q_value'[e][j].seen
    BY <1>1, <1>3, <1>6, OneMoreStore
  <1>8. newest' \in [Workers -> [Cells -> Nat]]
    <2>1. i \in Nat
      BY <1>2
    <2>2. size + 1 \in Nat
      <3>1. _q_value[c] \in Seq(AStore)
        BY DEF SeenInv
      <3> QED
        BY <3>1, LenProperties
    <2>3. newest \in [Workers -> [Cells -> Nat]]
      BY DEF SeenInv
    <2> HIDE DEF size
    <2>4. newest' = [newest EXCEPT ![t] = [@ EXCEPT ![other] = i, ![c] = size + 1]]
      BY <1>1 DEF size
    <2> QED
      BY <2>1, <2>2, <2>3, <2>4
  <1>9. ASSUME NEW u \in Workers, NEW e \in Cells PROVE newest'[u][e] \in 1 .. Len(_q_value'[e])
    <2>1. /\ newest[u][e] \in 1 .. Len(_q_value[e]) /\ Len(_q_value[e]) \in Nat
          /\ Len(_q_value[other]) \in Nat
      <3>1. newest[u][e] \in 1 .. Len(_q_value[e])
        BY DEF SeenInv
      <3>2. _q_value[e] \in Seq(AStore) /\ _q_value[other] \in Seq(AStore)
        BY DEF SeenInv
      <3> QED
        BY <3>1, <3>2, LenProperties
    <2>2. newest'[u][e] = IF u = t /\ e = c THEN size + 1
                          ELSE IF u = t /\ e = other THEN i ELSE newest[u][e]
      BY <1>1 DEF SeenInv
    <2>3. Len(_q_value'[e]) = IF e = c THEN Len(_q_value[e]) + 1 ELSE Len(_q_value[e])
      BY <1>7
    <2>4. CASE e = c
      BY <2>1, <2>2, <2>3, <2>4
    <2>5. CASE e # c
      BY <1>2, <2>1, <2>2, <2>3, <2>5
    <2> QED
      BY <2>4, <2>5
  <1> QED
    BY <1>5, <1>7, <1>8, <1>9, BoundKept DEF SeenInv

\* The orders that the functions pass on give what their names promise.
LEMMA OrdersSuffice ==
  /\ \A name \in {"Relaxed", "Acquire"} : Atomic!Collects(name) => Atomic!Acquires(Atomic!LoadOrder(name))
  /\ \A name \in Atomic!OrderNames :
       /\ Atomic!Collects(name) => /\ Atomic!Acquires(Atomic!FetchOrder(name))
                                   /\ Atomic!Acquires(Atomic!FailureOrder(name))
       /\ Atomic!Publishes(name) => Atomic!Releases(Atomic!FetchOrder(name))
  /\ Atomic!Acquires(Atomic!CountOrder) /\ Atomic!Releases(Atomic!CountOrder)
  BY DEF Atomic!OrderNames, Atomic!Collects, Atomic!Publishes, Atomic!Acquires, Atomic!Releases,
         Atomic!LoadOrder, Atomic!FetchOrder, Atomic!FailureOrder, Atomic!CountOrder

\* A amount modulo Modulus, for the fetches and for counting.
LEMMA NewestValue ==
  ASSUME SeenInv, NEW c \in Cells
  PROVE  /\ Atomic!Newest(c).value \in Atomic!Values
         /\ (Atomic!Newest(c).value + 1) % Modulus \in Atomic!Values
         /\ (Atomic!Newest(c).value + Modulus - 1) % Modulus \in Atomic!Values
  <1> USE AtomicConstants
  <1>1. _q_value[c] \in Seq(AStore) /\ Len(_q_value[c]) \in 1 .. Len(_q_value[c])
    BY DEF SeenInv
  <1>2. Atomic!Newest(c) \in AStore
    BY <1>1, ElementOfSeq DEF Atomic!Newest
  <1>3. Atomic!Newest(c).value \in 0 .. Modulus - 1
    BY <1>2 DEF AStore
  <1> DEFINE n == Atomic!Newest(c).value
  <1> HIDE DEF n
  <1>4. (n + 1) % Modulus \in 0 .. Modulus - 1 /\ (n + Modulus - 1) % Modulus \in 0 .. Modulus - 1
    BY <1>3 DEF n
  <1> QED
    BY <1>3, <1>4 DEF n

\* What a thread sees and is due, after any step.
LEMMA SeenStep == SeenInv /\ [Atomic!Next]_atomicVars => SeenInv'
  <1> SUFFICES ASSUME SeenInv, [Atomic!Next]_atomicVars PROVE SeenInv'
    OBVIOUS
  <1> USE AtomicConstants
  <1>1. CASE UNCHANGED atomicVars
    BY <1>1, BoundKept DEF atomicVars, SeenInv
  <1>2. CASE Atomic!Next
    <2>1. UNCHANGED counting
      BY <1>2 DEF Atomic!Next
    <2>2. ASSUME NEW t \in Workers, NEW c \in Cells, Atomic!Ref(t, c) PROVE SeenInv'
      BY <2>1, <2>2, ModifySees, OrdersSuffice, NewestValue DEF Atomic!Ref
    <2>3. ASSUME NEW t \in Workers, NEW c \in Cells, Atomic!Deref(t, c) PROVE SeenInv'
      BY <2>1, <2>3, ModifySees, OrdersSuffice, NewestValue DEF Atomic!Deref
    <2>4. ASSUME NEW t \in Workers, NEW c \in Cells, NEW name \in {"Relaxed", "Acquire"},
                 Atomic!Load(t, c, name)
          PROVE  SeenInv'
      <3>1. PICK i \in Atomic!Visible(t, c) :
              Atomic!Find(t, c, i, name, Atomic!LoadOrder(name)) /\ newest' = [newest EXCEPT ![t][c] = i]
        BY <2>4 DEF Atomic!Load
      <3>2. UNCHANGED <<_q_value, counting>>
        BY <2>1, <2>4 DEF Atomic!Load
      <3> QED
        BY <3>1, <3>2, LoadSees, OrdersSuffice
    <2>5. ASSUME NEW t \in Workers, NEW c \in Cells, NEW name \in {"Relaxed", "Release"},
                 Atomic!StoreValue(t, c, 1, name)
          PROVE  SeenInv'
      BY <2>1, <2>5, StoreSees
    <2>6. ASSUME NEW t \in Workers, NEW c \in Cells, NEW name \in Atomic!OrderNames,
                 Atomic!FetchAndAdd(t, c, 1, name) \/ Atomic!FetchAndSub(t, c, 1, name)
          PROVE  SeenInv'
      <3>1. PICK amount \in Atomic!Values : Atomic!Modify(t, c, amount, name, Atomic!FetchOrder(name))
        BY <2>6, NewestValue DEF Atomic!FetchAndAdd, Atomic!FetchAndSub
      <3> QED
        BY <2>1, <3>1, ModifySees, OrdersSuffice
    <2>7. ASSUME NEW t \in Workers, NEW c \in Cells, NEW name \in Atomic!OrderNames, NEW e \in {0, 1},
                 Atomic!TestAndSet(t, c, e, 1, name)
          PROVE  SeenInv'
      <3>1. CASE Atomic!Modify(t, c, 1, name, Atomic!FetchOrder(name))
        BY <2>1, <3>1, ModifySees, OrdersSuffice
      <3>2. ASSUME NEW i \in Atomic!Visible(t, c),
                   Atomic!Find(t, c, i, name, Atomic!FailureOrder(name)),
                   newest' = [newest EXCEPT ![t][c] = i], UNCHANGED _q_value
            PROVE  SeenInv'
        <4>1. UNCHANGED <<_q_value, counting>>
          BY <2>1, <3>2
        <4> QED
          BY <3>2, <4>1, LoadSees, OrdersSuffice
      <3> QED
        BY <2>7, <3>1, <3>2 DEF Atomic!TestAndSet
    <2>8. ASSUME NEW t \in Workers, NEW c \in Cells, NEW other \in Cells, Atomic!Assign(t, c, other)
          PROVE  SeenInv'
      BY <2>1, <2>8, AssignSees
    <2> QED
      BY <1>2, <2>2, <2>3, <2>4, <2>5, <2>6, <2>7, <2>8 DEF Atomic!Next
  <1> QED
    BY <1>1, <1>2

-----------------------------------------------------------------------------
(* Atomic integers: counting references.                                   *)

\* The references to a cell, each a thread and a number below the count of its own.
Tokens(c) == {x \in Workers \X Nat : x[2] < references[x[1]][c]}

\* The amount counts the references that the threads have; a thread that dropped
\* its own has published all it saw; and who dropped the last of all sees all.
Counted(c) ==
  /\ IsFiniteSet(Tokens(c)) /\ Atomic!Newest(c).value = Cardinality(Tokens(c))
  /\ Cardinality(Tokens(c)) < Cardinality(Workers) + Len(_q_value[c])
  /\ \A t \in Workers : references[t][c] = 0 => t \in Atomic!Newest(c).seen
  /\ Tokens(c) # {} => last[c] = {}
  /\ Tokens(c) = {} => \E t \in Workers : last[c] = {t} /\ seen[t] = Workers

CountInv ==
  /\ references \in [Workers -> [Cells -> Nat]] /\ last \in [Cells -> SUBSET Workers]
  /\ \A t \in Workers, c \in Cells : references[t][c] <= Len(_q_value[c])
  /\ ~counting => \A c \in Cells : last[c] = {} /\ \A t \in Workers : references[t][c] = 0
  /\ counting => \A c \in Cells : Counted(c)

LEMMA NoTokens ==
  ASSUME CountInv, NEW c \in Cells
  PROVE  Tokens(c) = {} <=> \A t \in Workers : references[t][c] = 0
  <1>1. ASSUME NEW t \in Workers, references[t][c] # 0 PROVE <<t, 0>> \in Tokens(c)
    <2>1. references[t][c] \in Nat
      BY DEF CountInv
    <2>2. 0 < references[t][c]
      BY <1>1, <2>1
    <2> QED
      BY <2>2 DEF Tokens
  <1>2. ASSUME \A t \in Workers : references[t][c] = 0 PROVE Tokens(c) = {}
    BY <1>2 DEF Tokens
  <1> QED
    BY <1>1, <1>2

\* One reference more is one token more, one less one less.
LEMMA TokenTaken ==
  ASSUME CountInv, NEW t \in Workers, NEW c \in Cells,
         references' = [references EXCEPT ![t][c] = @ + 1]
  PROVE  /\ Tokens(c)' = Tokens(c) \cup {<<t, references[t][c]>>} /\ <<t, references[t][c]>> \notin Tokens(c)
         /\ \A e \in Cells \ {c} : Tokens(e)' = Tokens(e)
  <1>1. \A u \in Workers, e \in Cells :
          /\ references[u][e] \in Nat
          /\ references'[u][e] = IF u = t /\ e = c THEN references[u][e] + 1 ELSE references[u][e]
    BY DEF CountInv
  <1> DEFINE r == references[t][c]
  <1>2. \A k \in Nat : k < references'[t][c] <=> k < r \/ k = r
    BY <1>1
  <1>3. ~(r < r) /\ r \in Nat
    BY <1>1
  <1> HIDE DEF r
  <1>4. \A x \in Workers \X Nat : x[2] < references'[x[1]][c] <=> x[2] < references[x[1]][c] \/ x = <<t, r>>
    <2> TAKE x \in Workers \X Nat
    <2>1. CASE x[1] = t
      BY <1>2, <2>1 DEF r
    <2>2. CASE x[1] # t
      BY <1>1, <2>2
    <2> QED
      BY <2>1, <2>2
  <1>5. Tokens(c)' = Tokens(c) \cup {<<t, r>>}
    BY <1>3, <1>4 DEF Tokens
  <1>6. <<t, r>> \notin Tokens(c)
    BY <1>3 DEF Tokens, r
  <1>7. \A e \in Cells \ {c} : Tokens(e)' = Tokens(e)
    BY <1>1 DEF Tokens
  <1> QED
    BY <1>5, <1>6, <1>7 DEF r

LEMMA TokenGiven ==
  ASSUME CountInv, NEW t \in Workers, NEW c \in Cells, references[t][c] > 0,
         references' = [references EXCEPT ![t][c] = @ - 1]
  PROVE  /\ Tokens(c)' = Tokens(c) \ {<<t, references[t][c] - 1>>} /\ <<t, references[t][c] - 1>> \in Tokens(c)
         /\ \A e \in Cells \ {c} : Tokens(e)' = Tokens(e)
  <1>1. \A u \in Workers, e \in Cells :
          /\ references[u][e] \in Nat
          /\ references'[u][e] = IF u = t /\ e = c THEN references[u][e] - 1 ELSE references[u][e]
    BY DEF CountInv
  <1> DEFINE r == references[t][c] - 1
  <1>2. /\ \A k \in Nat : k < references'[t][c] <=> k < references[t][c] /\ k # r
        /\ r \in Nat /\ r < references[t][c]
    BY <1>1
  <1> HIDE DEF r
  <1>4. \A x \in Workers \X Nat : x[2] < references'[x[1]][c] <=> x[2] < references[x[1]][c] /\ x # <<t, r>>
    <2> TAKE x \in Workers \X Nat
    <2>1. CASE x[1] = t
      BY <1>2, <2>1
    <2>2. CASE x[1] # t
      BY <1>1, <2>2
    <2> QED
      BY <2>1, <2>2
  <1>5. Tokens(c)' = Tokens(c) \ {<<t, r>>}
    BY <1>4 DEF Tokens
  <1>6. <<t, r>> \in Tokens(c)
    BY <1>2 DEF Tokens
  <1>7. \A e \in Cells \ {c} : Tokens(e)' = Tokens(e)
    BY <1>1 DEF Tokens
  <1> QED
    BY <1>5, <1>6, <1>7 DEF r

\* A counter does not wrap, however many references there are.
LEMMA CountFits ==
  ASSUME SeenInv, CountInv, counting, NEW c \in Cells, Len(_q_value[c]) <= Atomic!Bound
  PROVE  /\ Atomic!Newest(c).value = Cardinality(Tokens(c)) /\ Cardinality(Tokens(c)) \in Nat
         /\ (Atomic!Newest(c).value + 1) % Modulus = Cardinality(Tokens(c)) + 1
         /\ Tokens(c) # {} =>
              /\ Cardinality(Tokens(c)) > 0
              /\ (Atomic!Newest(c).value + Modulus - 1) % Modulus = Cardinality(Tokens(c)) - 1
  <1> DEFINE n == Cardinality(Tokens(c))
             w == Cardinality(Workers)
             size == Len(_q_value[c])
  <1>1. Atomic!Newest(c).value = n /\ n < w + size /\ IsFiniteSet(Tokens(c))
    BY DEF CountInv, Counted
  <1>2. n \in Nat /\ (Tokens(c) # {} => n # 0)
    BY <1>1, FS_CardinalityType, FS_EmptySet
  <1>3. size \in Nat /\ w \in Nat /\ Modulus \in Nat /\ Atomic!Bound \in Nat /\ w + Atomic!Bound < Modulus
    BY AtomicConstants DEF SeenInv
  <1> HIDE DEF n, w, size
  <1>4. size <= Atomic!Bound
    BY DEF size
  <1>5. n + 1 < Modulus
    BY <1>1, <1>2, <1>3, <1>4
  <1>6. (n + 1) % Modulus = n + 1
    BY <1>2, <1>3, <1>5
  <1>7. n # 0 => (n + Modulus - 1) % Modulus = n - 1
    <2>1. SUFFICES ASSUME n # 0 PROVE (n + Modulus - 1) % Modulus = n - 1
      OBVIOUS
    <2>2. n - 1 \in 0 .. Modulus - 1
      BY <1>2, <1>3, <1>5, <2>1
    <2>3. n + Modulus - 1 = (n - 1) + 1 * Modulus
      BY <1>2, <1>3
    <2> QED
      BY <1>2, <1>3, <2>2, <2>3
  <1> QED
    BY <1>1, <1>2, <1>6, <1>7 DEF n

\* What Ref and Deref have in common.
LEMMA CountModifies ==
  ASSUME SeenInv, UNCHANGED counting, NEW t \in Workers, NEW c \in Cells, NEW amount \in Atomic!Values,
         Atomic!Modify(t, c, amount, "Ordered", Atomic!CountOrder)
  PROVE  /\ SeenInv' /\ \A u \in Workers : seen[u] \subseteq seen'[u]
         /\ Atomic!Newest(c).seen \cup seen'[t] \subseteq Atomic!Newest(c)'.seen
         /\ Atomic!Newest(c).seen \subseteq seen'[t]
         /\ Atomic!Newest(c)'.value = amount
         /\ Len(_q_value[c]) <= Atomic!Bound /\ Len(_q_value'[c]) = Len(_q_value[c]) + 1
         /\ \A e \in Cells \ {c} : _q_value'[e] = _q_value[e]
         /\ \A u \in Workers : seen[u] = Workers => seen'[u] = Workers
  <1>1. /\ Atomic!Acquires(Atomic!CountOrder) /\ Atomic!Releases(Atomic!CountOrder)
    BY OrdersSuffice
  <1>2. /\ SeenInv' /\ \A u \in Workers : seen[u] \subseteq seen'[u]
        /\ Atomic!Newest(c).seen \subseteq Atomic!Newest(c)'.seen
        /\ seen'[t] \subseteq Atomic!Newest(c)'.seen
        /\ Atomic!Newest(c).seen \subseteq seen'[t]
        /\ Atomic!Newest(c)'.value = amount
        /\ Len(_q_value[c]) <= Atomic!Bound /\ Len(_q_value'[c]) = Len(_q_value[c]) + 1
        /\ \A e \in Cells \ {c} : _q_value'[e] = _q_value[e]
    BY <1>1, ModifySees
  <1>3. \A u \in Workers : seen'[u] \subseteq Workers
    BY <1>2 DEF SeenInv
  <1> QED
    BY <1>2, <1>3

\* A cell that the step leaves alone.
LEMMA StillCounted ==
  ASSUME NEW e \in Cells, Counted(e), _q_value'[e] = _q_value[e], last'[e] = last[e],
         \A u \in Workers : references'[u][e] = references[u][e],
         \A u \in Workers : seen[u] = Workers => seen'[u] = Workers
  PROVE  Counted(e)'
  <1>1. Atomic!Newest(e)' = Atomic!Newest(e) /\ Tokens(e)' = Tokens(e)
    BY DEF Atomic!Newest, Tokens
  <1> QED
    BY <1>1 DEF Counted

\* A count is no larger than the sequence of stores, as a step adds one to both at most.
LEMMA CountBounded ==
  ASSUME SeenInv, CountInv, NEW c \in Cells, Len(_q_value'[c]) = Len(_q_value[c]) + 1,
         \A e \in Cells \ {c} : _q_value'[e] = _q_value[e],
         \A u \in Workers, e \in Cells :
           /\ references'[u][e] <= references[u][e] + 1
           /\ e # c => references'[u][e] = references[u][e],
         references' \in [Workers -> [Cells -> Nat]]
  PROVE  \A u \in Workers, e \in Cells : references'[u][e] <= Len(_q_value'[e])
  <1> TAKE u \in Workers, e \in Cells
  <1>1. /\ references[u][e] \in Nat /\ references'[u][e] \in Nat
        /\ references[u][e] <= Len(_q_value[e]) /\ Len(_q_value[e]) \in Nat
    BY DEF CountInv, SeenInv
  <1>2. CASE e = c
    <2>1. references'[u][e] <= references[u][e] + 1 /\ Len(_q_value'[e]) = Len(_q_value[e]) + 1
      BY <1>2
    <2> QED
      BY <1>1, <2>1
  <1>3. CASE e # c
    BY <1>1, <1>3
  <1> QED
    BY <1>2, <1>3

\* One reference more.
LEMMA RefCounts ==
  ASSUME SeenInv, CountInv, counting, UNCHANGED counting,
         NEW t \in Workers, NEW c \in Cells, Atomic!Ref(t, c)
  PROVE  CountInv'
  <1> DEFINE amount == (Atomic!Newest(c).value + 1) % Modulus
             token == <<t, references[t][c]>>
  <1>1. /\ references[t][c] > 0 /\ Atomic!Modify(t, c, amount, "Ordered", Atomic!CountOrder)
        /\ references' = [references EXCEPT ![t][c] = @ + 1] /\ last' = last
    BY DEF Atomic!Ref
  <1>2. amount \in Atomic!Values
    BY NewestValue
  <1>3. /\ Tokens(c)' = Tokens(c) \cup {token} /\ token \notin Tokens(c)
        /\ \A e \in Cells \ {c} : Tokens(e)' = Tokens(e)
    BY <1>1, TokenTaken
  <1>4. Len(_q_value[c]) <= Atomic!Bound
    BY <1>1 DEF Atomic!Modify, Atomic!Add
  <1>5. amount = Cardinality(Tokens(c)) + 1 /\ Cardinality(Tokens(c)) \in Nat
    BY <1>4, CountFits
  <1>6. IsFiniteSet(Tokens(c)')/\ Cardinality(Tokens(c)') = Cardinality(Tokens(c)) + 1
    <2>1. IsFiniteSet(Tokens(c))
      BY DEF CountInv, Counted
    <2> HIDE DEF token
    <2> QED
      BY <1>3, <2>1, FS_AddElement
  <1>7. \A u \in Workers, e \in Cells :
          /\ references[u][e] \in Nat
          /\ references'[u][e] = IF u = t /\ e = c THEN references[u][e] + 1 ELSE references[u][e]
    BY <1>1 DEF CountInv
  <1> HIDE DEF amount, token
  <1>8. /\ SeenInv' /\ Atomic!Newest(c).seen \subseteq Atomic!Newest(c)'.seen
        /\ Atomic!Newest(c)'.value = amount /\ Len(_q_value'[c]) = Len(_q_value[c]) + 1
        /\ \A e \in Cells \ {c} : _q_value'[e] = _q_value[e]
        /\ \A u \in Workers : seen[u] = Workers => seen'[u] = Workers
    BY <1>1, <1>2, CountModifies
  <1>9. references' \in [Workers -> [Cells -> Nat]] /\ last' \in [Cells -> SUBSET Workers]
    BY <1>1 DEF CountInv
  <1>10. \A u \in Workers, e \in Cells : references'[u][e] <= Len(_q_value'[e])
    <2>1. \A u \in Workers, e \in Cells :
            /\ references'[u][e] <= references[u][e] + 1
            /\ e # c => references'[u][e] = references[u][e]
      BY <1>7
    <2> QED
      BY <1>8, <1>9, <2>1, CountBounded
  <1>11. Counted(c)'
    <2>1. references[t][c] # 0
      BY <1>1, <1>7
    <2>2. Tokens(c) # {}
      BY <2>1, NoTokens
    <2>3. last'[c] = {} /\ Tokens(c)' # {}
      BY <1>1, <1>3, <2>2 DEF CountInv, Counted
    <2>4. Cardinality(Tokens(c)') < Cardinality(Workers) + Len(_q_value'[c])
      <3>1. /\ Cardinality(Tokens(c)) < Cardinality(Workers) + Len(_q_value[c])
            /\ Cardinality(Workers) \in Nat /\ Len(_q_value[c]) \in Nat
        BY AtomicConstants DEF CountInv, Counted, SeenInv
      <3> QED
        BY <1>5, <1>6, <1>8, <3>1
    <2>5. \A u \in Workers : references'[u][c] = 0 => u \in Atomic!Newest(c)'.seen
      <3>1. \A u \in Workers : references'[u][c] = 0 => references[u][c] = 0
        BY <1>7
      <3> QED
        BY <1>8, <3>1 DEF CountInv, Counted
    <2> QED
      BY <1>5, <1>6, <1>8, <2>3, <2>4, <2>5 DEF Counted
  <1>12. ASSUME NEW e \in Cells \ {c} PROVE Counted(e)'
    <2>1. Counted(e) /\ last'[e] = last[e] /\ _q_value'[e] = _q_value[e]
      BY <1>1, <1>8 DEF CountInv
    <2>2. \A u \in Workers : references'[u][e] = references[u][e]
      BY <1>7
    <2> QED
      BY <1>8, <2>1, <2>2, StillCounted
  <1> QED
    BY <1>9, <1>10, <1>11, <1>12 DEF CountInv

\* One less; when it was the last, all have dropped theirs, and the thread that did sees
\* what each of them published when it dropped its last.
LEMMA DerefCounts ==
  ASSUME SeenInv, CountInv, counting, UNCHANGED counting,
         NEW t \in Workers, NEW c \in Cells, Atomic!Deref(t, c)
  PROVE  CountInv'
  <1> DEFINE amount == (Atomic!Newest(c).value + Modulus - 1) % Modulus
             token == <<t, references[t][c] - 1>>
  <1>1. /\ references[t][c] > 0 /\ Atomic!Modify(t, c, amount, "Ordered", Atomic!CountOrder)
        /\ references' = [references EXCEPT ![t][c] = @ - 1]
        /\ last' = [last EXCEPT ![c] = IF amount # 0 THEN @ ELSE @ \cup {t}]
    BY DEF Atomic!Deref
  <1>2. amount \in Atomic!Values
    BY NewestValue
  <1>3. /\ Tokens(c)' = Tokens(c) \ {token} /\ token \in Tokens(c)
        /\ \A e \in Cells \ {c} : Tokens(e)' = Tokens(e)
    BY <1>1, TokenGiven
  <1>4. Len(_q_value[c]) <= Atomic!Bound
    BY <1>1 DEF Atomic!Modify, Atomic!Add
  <1>5. amount = Cardinality(Tokens(c)) - 1 /\ Cardinality(Tokens(c)) \in Nat
    BY <1>3, <1>4, CountFits
  <1>6. IsFiniteSet(Tokens(c)') /\ Cardinality(Tokens(c)') = Cardinality(Tokens(c)) - 1
    <2>1. IsFiniteSet(Tokens(c))
      BY DEF CountInv, Counted
    <2> HIDE DEF token
    <2> QED
      BY <1>3, <2>1, FS_RemoveElement
  <1>7. \A u \in Workers, e \in Cells :
          /\ references[u][e] \in Nat
          /\ references'[u][e] = IF u = t /\ e = c THEN references[u][e] - 1 ELSE references[u][e]
    BY <1>1 DEF CountInv
  <1> HIDE DEF amount
  <1>8. /\ SeenInv' /\ Atomic!Newest(c).seen \cup seen'[t] \subseteq Atomic!Newest(c)'.seen
        /\ Atomic!Newest(c).seen \subseteq seen'[t]
        /\ Atomic!Newest(c)'.value = amount /\ Len(_q_value'[c]) = Len(_q_value[c]) + 1
        /\ \A e \in Cells \ {c} : _q_value'[e] = _q_value[e]
        /\ \A u \in Workers : seen[u] = Workers => seen'[u] = Workers
    BY <1>1, <1>2, CountModifies
  <1>9. references' \in [Workers -> [Cells -> Nat]] /\ last' \in [Cells -> SUBSET Workers]
    <2>1. last[c] \cup {t} \subseteq Workers
      BY DEF CountInv
    <2>2. references[t][c] - 1 \in Nat
      BY <1>1, <1>7
    <2> QED
      BY <1>1, <2>1, <2>2 DEF CountInv
  <1> HIDE DEF token
  <1>10. \A u \in Workers, e \in Cells : references'[u][e] <= Len(_q_value'[e])
    <2>1. \A u \in Workers, e \in Cells :
            /\ references'[u][e] <= references[u][e] + 1
            /\ e # c => references'[u][e] = references[u][e]
      BY <1>7
    <2> QED
      BY <1>8, <1>9, <2>1, CountBounded
  <1>11. Counted(c)'
    <2>1. last[c] = {}
      BY <1>3 DEF CountInv, Counted
    <2>2. Cardinality(Tokens(c)') < Cardinality(Workers) + Len(_q_value'[c])
      <3>1. /\ Cardinality(Tokens(c)) < Cardinality(Workers) + Len(_q_value[c])
            /\ Cardinality(Workers) \in Nat /\ Len(_q_value[c]) \in Nat
        BY AtomicConstants DEF CountInv, Counted, SeenInv
      <3> QED
        BY <1>5, <1>6, <1>8, <3>1
    <2>3. \A u \in Workers \ {t} : references'[u][c] = 0 => u \in Atomic!Newest(c).seen
      BY <1>7 DEF CountInv, Counted
    <2>4. t \in seen'[t] /\ seen'[t] \subseteq Workers
      BY <1>8 DEF SeenInv
    <2>5. \A u \in Workers : references'[u][c] = 0 => u \in Atomic!Newest(c)'.seen
      BY <1>8, <2>3, <2>4
    <2>6. amount = Cardinality(Tokens(c)')
      BY <1>5, <1>6
    <2>7. amount = 0 <=> Tokens(c)' = {}
      BY <1>6, <2>6, FS_EmptySet
    <2>8. last'[c] = IF amount # 0 THEN {} ELSE {t}
      BY <1>1, <2>1 DEF CountInv
    <2>9. ASSUME Tokens(c)' = {} PROVE seen'[t] = Workers
      <3>1. \A u \in Workers : references'[u][c] = 0
        <4> SUFFICES ASSUME NEW u \in Workers, references'[u][c] # 0 PROVE FALSE
          OBVIOUS
        <4>1. references'[u][c] \in Nat
          BY <1>9
        <4>2. 0 < references'[u][c]
          BY <4>1
        <4>3. <<u, 0>> \in Tokens(c)'
          BY <4>2 DEF Tokens
        <4> QED
          BY <2>9, <4>3
      <3> QED
        BY <1>8, <2>3, <2>4, <3>1
    <2> QED
      BY <1>6, <1>8, <2>2, <2>5, <2>6, <2>7, <2>8, <2>9 DEF Counted
  <1>12. ASSUME NEW e \in Cells \ {c} PROVE Counted(e)'
    <2>1. Counted(e) /\ last'[e] = last[e] /\ _q_value'[e] = _q_value[e]
      BY <1>1, <1>8 DEF CountInv
    <2>2. \A u \in Workers : references'[u][e] = references[u][e]
      BY <1>7
    <2> QED
      BY <1>8, <2>1, <2>2, StillCounted
  <1> QED
    BY <1>9, <1>10, <1>11, <1>12 DEF CountInv

\* Calls that count nothing have cells that count nothing.
LEMMA CountStep == SeenInv /\ CountInv /\ [Atomic!Next]_atomicVars => CountInv'
  <1> SUFFICES ASSUME SeenInv, CountInv, [Atomic!Next]_atomicVars PROVE CountInv'
    OBVIOUS
  <1>1. CASE UNCHANGED atomicVars
    <2>1. UNCHANGED <<_q_value, seen, counting, references, last>>
      BY <1>1 DEF atomicVars
    <2>2. \A e \in Cells : Counted(e) => Counted(e)'
      BY <2>1 DEF Counted, Tokens, Atomic!Newest
    <2> QED
      BY <2>1, <2>2 DEF CountInv
  <1>2. CASE Atomic!Next /\ counting
    <2>1. UNCHANGED counting
      BY <1>2 DEF Atomic!Next
    <2>2. PICK t \in Workers, c \in Cells : Atomic!Ref(t, c) \/ Atomic!Deref(t, c)
      BY <1>2 DEF Atomic!Next
    <2> QED
      BY <1>2, <2>1, <2>2, RefCounts, DerefCounts
  <1>3. CASE Atomic!Next /\ ~counting
    <2>1. UNCHANGED <<counting, references, last>>
      BY <1>3 DEF Atomic!Next, Atomic!Load, Atomic!StoreValue, Atomic!FetchAndAdd, Atomic!FetchAndSub,
                  Atomic!TestAndSet, Atomic!Assign
    <2>2. SeenInv'
      BY SeenStep
    <2>3. ASSUME NEW t \in Workers, NEW c \in Cells PROVE references'[t][c] <= Len(_q_value'[c])
      <3>1. references[t][c] = 0 /\ Len(_q_value'[c]) \in 1 .. Atomic!Bound + 1
        BY <1>3, <2>1, <2>2, BoundKept DEF CountInv, SeenInv
      <3> QED
        BY <2>1, <3>1, AtomicConstants
    <2> QED
      BY <1>3, <2>1, <2>3 DEF CountInv
  <1> QED
    BY <1>1, <1>2, <1>3
-----------------------------------------------------------------------------
(* What the invariants say of each part.                                   *)

LEMMA AtomicInit == Atomic!Init => SeenInv /\ CountInv
  <1> SUFFICES ASSUME Atomic!Init PROVE SeenInv /\ CountInv
    OBVIOUS
  <1> USE AtomicConstants
  <1> DEFINE count == IF counting THEN Cardinality(Workers) ELSE 0
             first == [value |-> count, seen |-> {}, due |-> {}]
  <1>1. /\ counting \in BOOLEAN /\ _q_value = [c \in Cells |-> <<first>>]
        /\ newest = [t \in Workers |-> [c \in Cells |-> 1]]
        /\ seen = [t \in Workers |-> {t}] /\ due = [t \in Workers |-> {t}]
        /\ references = [t \in Workers |-> [c \in Cells |-> IF counting THEN 1 ELSE 0]]
        /\ last = [c \in Cells |-> {}]
    BY SameCount DEF Atomic!Init, Atomic!Store
  <1>2. count \in Atomic!Values
    OBVIOUS
  <1>3. first \in AStore /\ first.value = count /\ first.due \subseteq first.seen
    BY <1>2 DEF AStore
  <1> HIDE DEF first
  <1>4. <<first>> \in Seq(AStore) /\ Len(<<first>>) = 1 /\ <<first>>[1] = first
    BY <1>3
  <1>5. SeenInv
    BY <1>1, <1>3, <1>4 DEF SeenInv
  <1>6. \A c \in Cells : Len(_q_value[c]) = 1 /\ Atomic!Newest(c).value = count
    BY <1>1, <1>3, <1>4 DEF Atomic!Newest
  <1> HIDE DEF count
  <1>7. ASSUME counting, NEW c \in Cells PROVE Counted(c)
    <2>1. \A t \in Workers : references[t][c] = 1
      BY <1>1, <1>7
    <2>2. Tokens(c) = Workers \X {0}
      BY <2>1 DEF Tokens
    <2>3. IsFiniteSet({0}) /\ Cardinality({0}) = 1
      BY FS_Singleton
    <2>4. IsFiniteSet(Workers \X {0}) /\ Cardinality(Workers \X {0}) = Cardinality(Workers) * 1
      BY <2>3, FS_Product
    <2>5. Workers \X {0} # {} /\ count = Cardinality(Workers)
      <3>1. PICK t \in Workers : TRUE
        OBVIOUS
      <3>2. <<t, 0>> \in Workers \X {0}
        OBVIOUS
      <3>3. count = Cardinality(Workers)
        BY <1>7 DEF count
      <3> QED
        BY <3>2, <3>3
    <2> QED
      BY <1>1, <1>6, <2>1, <2>2, <2>4, <2>5 DEF Counted
  <1> QED
    BY <1>1, <1>5, <1>6, <1>7 DEF CountInv

LEMMA AtomicPromises ==
  SeenInv /\ CountInv => Atomic!TypeOK /\ Atomic!PublishedIsSeen /\ Atomic!LastDropsAll
  <1> SUFFICES ASSUME SeenInv, CountInv
               PROVE  Atomic!TypeOK /\ Atomic!PublishedIsSeen /\ Atomic!LastDropsAll
    OBVIOUS
  <1>1. Atomic!TypeOK
    <2>1. ASSUME NEW c \in Cells, NEW i \in DOMAIN _q_value[c]
          PROVE  _q_value[c][i] \in [value : Atomic!Values, seen : SUBSET Workers, due : SUBSET Workers]
      <3>1. _q_value[c] \in Seq(AStore) /\ i \in 1 .. Len(_q_value[c])
        BY DEF SeenInv
      <3> QED
        BY <3>1, ElementOfSeq DEF AStore
    <2>2. ASSUME NEW t \in Workers, NEW c \in Cells
          PROVE  newest[t][c] \in DOMAIN _q_value[c] /\ references[t][c] \in 0 .. Atomic!Bound + 1
      <3>1. /\ DOMAIN _q_value[c] = 1 .. Len(_q_value[c]) /\ newest[t][c] \in 1 .. Len(_q_value[c])
            /\ Len(_q_value[c]) \in 1 .. Atomic!Bound + 1
        BY DEF SeenInv
      <3>2. references[t][c] \in Nat /\ references[t][c] <= Len(_q_value[c])
        BY DEF CountInv
      <3> QED
        BY <3>1, <3>2, AtomicConstants
    <2> QED
      BY <2>1, <2>2 DEF Atomic!TypeOK, SeenInv, CountInv
  <1>2. Atomic!PublishedIsSeen
    BY DEF SeenInv, Atomic!PublishedIsSeen
  <1>3. Atomic!LastDropsAll
    <2> SUFFICES ASSUME counting, NEW c \in Cells
                 PROVE  /\ Cardinality(last[c]) = IF \A t \in Workers : references[t][c] = 0 THEN 1 ELSE 0
                        /\ \A t \in last[c] : seen[t] = Workers
      BY SameCount DEF Atomic!LastDropsAll
    <2>1. Counted(c)
      BY DEF CountInv
    <2>2. CASE Tokens(c) = {}
      <3>1. PICK t \in Workers : last[c] = {t} /\ seen[t] = Workers
        BY <2>1, <2>2 DEF Counted
      <3> QED
        BY <2>2, <3>1, NoTokens, FS_Singleton
    <2>3. CASE Tokens(c) # {}
      BY <2>1, <2>3, NoTokens, FS_EmptySet DEF Counted
    <2> QED
      BY <2>2, <2>3
  <1> QED
    BY <1>1, <1>2, <1>3

LEMMA LockerInit == Locker!Init => LockerInv
  <1> SUFFICES ASSUME Locker!Init PROVE LockerInv
    OBVIOUS
  <1>1. /\ q_val = [l \in Locker!Lockers |-> [lock |-> 0, tag |-> 0, exists |-> FALSE]]
        /\ reading = 0 /\ writing = 0
    BY DEF Locker!Init, Locker!NoLocker
  <1>2. TaggedOf(ReadLockers) = {} /\ TaggedOf(WriteLockers) = {}
    BY <1>1 DEF TaggedOf, Locker!Lockers
  <1> QED
    BY <1>1, <1>2, FS_EmptySet DEF LockerInv

LEMMA LockerPromises == LockerInv => Locker!HeldByTagged
  <1> SUFFICES ASSUME LockerInv PROVE Locker!HeldByTagged
    OBVIOUS
  <1>1. Locker!Tagged(ReadLockers) = reading /\ Locker!Tagged(WriteLockers) = writing
    BY SameCount DEF Locker!Tagged, TaggedOf, LockerInv
  <1>2. ASSUME NEW l \in Locker!Lockers PROVE q_val[l].tag <= q_val[l].lock
    <2>1. q_val[l].tag \in {0, 1} /\ q_val[l].lock \in {0, 1} /\ (q_val[l].tag = 1 => q_val[l].lock = 1)
      BY DEF LockerInv
    <2> QED
      BY <2>1
  <1> QED
    BY <1>1, <1>2 DEF Locker!HeldByTagged, LockerInv

LEMMA StaticInit == Static!Init => StaticInv
  <1> SUFFICES ASSUME Static!Init PROVE StaticInv
    OBVIOUS
  <1>1. None \notin Workers /\ None # "half"
    BY PartAssumption DEF Static!StaticAssumption
  <1>2. Static!TypeOK
    BY DEF Static!Init, Static!TypeOK, Static!Destroyed, Static!Uninitialized
  <1>3. \A t \in Workers : spot[t] = "idle" /\ answer[t] = None /\ late[t] = FALSE
    BY DEF Static!Init
  <1>4. /\ guard = 0 /\ object = "absent" /\ constructions = 0 /\ initialized = FALSE /\ maker = None
        /\ threadsafeStatics \in BOOLEAN /\ late \in [Workers -> BOOLEAN]
    BY DEF Static!Init, Static!Uninitialized
  <1>5. initialized <=> guard # 0
    BY <1>4
  <1>6. ASSUME NEW t \in Workers
        PROVE  /\ maker = t <=> spot[t] \in {"making", "made"}
               /\ spot[t] # "making" /\ spot[t] # "made" /\ answer[t] # "half" /\ ~late[t]
               /\ answer[t] = None
    BY <1>1, <1>3, <1>4
  <1>7. guard # -1 /\ guard # -2
    BY <1>4
  <1> QED
    BY <1>2, <1>4, <1>5, <1>6, <1>7 DEF StaticInv

LEMMA StaticPromises == StaticInv => Static!TypeOK /\ Static!MadeOnce
  <1> SUFFICES ASSUME StaticInv PROVE Static!TypeOK /\ Static!MadeOnce
    OBVIOUS
  <1>1. Static!TypeOK
    BY DEF StaticInv
  <1>2. guard \in {0, -1, -2}
    BY <1>1 DEF Static!TypeOK, Static!Uninitialized, Static!Destroyed
  <1>3. constructions \in {0, 1}
    <2>1. CASE guard # 0
      BY <1>2, <2>1 DEF StaticInv
    <2>2. CASE guard = 0 /\ maker = None
      BY <2>2 DEF StaticInv
    <2>3. CASE guard = 0 /\ maker # None
      BY <1>1, <2>3 DEF StaticInv, Static!TypeOK
    <2> QED
      BY <2>1, <2>2, <2>3
  <1>4. /\ guard = -1 => object \in {"whole", "gone"}
        /\ guard = -2 => object = "gone"
        /\ \A t \in Workers : /\ answer[t] # "half" /\ (late[t] => answer[t] = "null")
                              /\ object # "gone" => answer[t] \in {None, "whole"}
    BY DEF StaticInv
  <1> QED
    BY <1>1, <1>3, <1>4 DEF Static!MadeOnce, Static!Initialized, Static!Destroyed

LEMMA LoggerInit == Logger!Init => DataInv /\ NamesInv
  <1> SUFFICES ASSUME Logger!Init PROVE DataInv /\ NamesInv
    OBVIOUS
  <1> USE LoggerConstants
  <1>1. DataInv
    BY DEF Logger!Init, DataInv, Logger!Places
  <1>2. NamesInv
    BY DEF Logger!Init, NamesInv, Logger!Places
  <1> QED
    BY <1>1, <1>2

LEMMA LoggerPromises == DataInv /\ NamesInv => Logger!TypeOK /\ Logger!OneOfEach
  <1> SUFFICES ASSUME DataInv, NamesInv PROVE Logger!TypeOK /\ Logger!OneOfEach
    OBVIOUS
  <1> USE LoggerConstants
  <1>1. 1 \in Logger!Loggers
    <2>1. IsFiniteSet(Threads) /\ Threads # {}
      BY RecursiveAssumption, PartAssumption DEF Logger!LoggerAssumption
    <2>2. Cardinality(Threads) \in Nat \ {0}
      BY <2>1, FS_CardinalityType, FS_EmptySet
    <2> QED
      BY <2>2, SameCount DEF Logger!Loggers
  <1>2. Logger!TypeOK
    <2>1. map \in [Logger!AllNames -> Logger!Loggers \cup {0, 100}]
      BY <1>1 DEF NamesInv
    <2>2. returned \in [Logger!AllNames -> SUBSET (Logger!Loggers \cup {100})]
      BY <1>1 DEF NamesInv
    <2>3. made \in [Logger!AllNames -> Nat] /\ deleted \in [Threads \cup {Own} -> Nat]
      BY DEF NamesInv, DataInv
    <2> QED
      BY <2>1, <2>2, <2>3 DEF Logger!TypeOK, DataInv, NamesInv
  <1>3. Logger!OneLoggerPerName
    <2>1. ASSUME NEW n \in Logger!AllNames PROVE made[n] <= 1 /\ Logger!Cardinality(returned[n] \ {100}) <= 1
      <3>1. made[n] \in {0, 1} /\ (returned[n] \ {100} = {} \/ returned[n] \ {100} = {1})
        BY DEF NamesInv
      <3>2. Cardinality({}) = 0 /\ Cardinality({1}) = 1
        BY FS_EmptySet, FS_Singleton
      <3> QED
        BY <3>1, <3>2, SameCount
    <2> QED
      BY <2>1 DEF Logger!OneLoggerPerName, NamesInv
  <1>4. Logger!DataHasOneOwner
    <2> DEFINE builders(x) == {t \in Threads : d[t] = x /\ step[t] # "adopting"}
    <2>1. ASSUME NEW x \in Threads \cup {Own}
          PROVE  /\ deleted[x] <= 1
                 /\ deleted[x] = 1 => x # g_factory /\ x # g_factoryData
                 /\ Logger!Cardinality(builders(x))
                    + (IF g_factory = x THEN 1 ELSE 0) + (IF g_factoryData = x THEN 1 ELSE 0) <= 1
      <3>1. deleted[x] \in {0, 1} /\ (deleted[x] = 1 => x # g_factory /\ x # g_factoryData)
        BY DEF DataInv
      <3>2. Logger!Cardinality({}) = 0 /\ Logger!Cardinality({x}) = 1
        BY SameCount, FS_EmptySet, FS_Singleton
      <3>3. CASE x \in Threads /\ d[x] = x /\ step[x] # "adopting"
        <4>1. builders(x) = {x} /\ g_factory # x /\ g_factoryData # x
          BY <3>3 DEF DataInv
        <4> HIDE DEF builders
        <4> QED
          BY <3>1, <3>2, <4>1
      <3>4. CASE ~(x \in Threads /\ d[x] = x /\ step[x] # "adopting")
        <4>1. builders(x) = {} /\ ~(g_factory = x /\ g_factoryData = x)
          BY <3>4 DEF DataInv
        <4> HIDE DEF builders
        <4> QED
          BY <3>1, <3>2, <4>1
      <3> QED
        BY <3>3, <3>4
    <2> QED
      BY <2>1 DEF Logger!DataHasOneOwner, DataInv
  <1> QED
    BY <1>2, <1>3, <1>4 DEF Logger!OneOfEach

LEMMA MapInit == BiHash!Init => MapInv
  BY DEF BiHash!Init, BiHash!Empty, MapInv, EachInverse

LEMMA MapPromises == MapInv => BiHash!TypeOK /\ BiHash!MapsAreInverse
  BY DEF MapInv, EachInverse, BiHash!MapsAreInverse, BiHash!TypeOK, BiHash!Range
-----------------------------------------------------------------------------
(* The free list. Its theorems are those of ScFreeList.                     *)

\* No wrap of the serial: fewer releases than it has values fall into one next().
FewReleases == MaxLag < SerialCount

LEMMA ListConstants == FewReleases => FreeList!NoWrap
  BY PartAssumption DEF FewReleases, FreeList!NoWrap

-----------------------------------------------------------------------------
(* Strings that share their buffers.                                       *)

Users(n) == {s \in Strings : str[s] # None /\ str[s].data = n}
Makers(n) == {t \in StringThreads : work[t].new # None /\ work[t].new.data = n}

\* A string that fits its text; a large one its buffer.
Fits(x) ==
  /\ x \in String!String
  /\ IF x.cat = "Large" THEN x.data \in Buffers /\ Len(heap[x.data].chars) = x.size
     ELSE x.data = None /\ Len(x.chars) = x.size

StringOK(s) ==
  str[s] # None => Fits(str[s]) /\ (~String!InWork(s) => String!TextOf(str[s]) = value[s])

Works == [s : Strings \cup {None}, op : String!Operation \cup {None},
          at : {"idle", "load", "reserve", "unshare", "deref", "write"}, min : Nat,
          new : String!String \cup {None}]

\* A call has its string to itself, and the text it changes; a copy it has made is its own,
\* and so is the buffer that it writes to.
WorkOK(t) ==
  LET w == work[t]
  IN  /\ w.at = "idle" => w = String!Idle
      /\ w.at # "idle" =>
           /\ w.s \in Strings /\ owner[w.s] = t /\ str[w.s] # None /\ str[w.s].cat = "Large"
           /\ w.op \in String!Operation /\ String!Allowed(str[w.s].size, w.op)
           /\ value[w.s] = String!Result(String!TextOf(str[w.s]), w.op)
      /\ w.at = "reserve" => w.op.kind = "append"
      /\ w.at # "deref" => w.new = None
      /\ w.at = "write" => Users(str[w.s].data) = {w.s} /\ Makers(str[w.s].data) = {}
      /\ w.at = "deref" =>
           /\ w.new # None /\ Fits(w.new)
           /\ w.new.cat = "Large" => Users(w.new.data) = {} /\ Makers(w.new.data) = {t}
           /\ IF w.op.kind = "shrink" THEN String!TextOf(w.new) = value[w.s]
              ELSE /\ w.new.cat = "Large" /\ w.new.size = str[w.s].size
                   /\ String!TextOf(w.new) = String!TextOf(str[w.s])

Counts(n) == heap[n].ref = Cardinality(Users(n)) + Cardinality(Makers(n))

StringTypes ==
  /\ str \in [Strings -> String!String \cup {None}]
  /\ heap \in [Buffers -> [ref : Nat, chars : String!Text]]
  /\ owner \in [Strings -> StringThreads]
  /\ work \in [StringThreads -> Works]
  /\ value \in [Strings -> String!Text]

StringInv ==
  /\ StringTypes
  /\ \A s \in Strings : StringOK(s)
  /\ \A t \in StringThreads : WorkOK(t)
  /\ \A n \in Buffers : Counts(n)

LEMMA StringConstants ==
  /\ IsFiniteSet(StringThreads) /\ IsFiniteSet(Strings) /\ IsFiniteSet(Buffers) /\ Buffers \subseteq Nat
  /\ 2 * Cardinality(Strings) <= Cardinality(Buffers)
  /\ None \notin StringThreads /\ None \notin Strings /\ None \notin Buffers /\ None \notin String!String
  /\ kMaxSmallSize \in Nat /\ kMaxMediumSize \in Nat /\ MaxSize \in Nat
  /\ {<<a, a, a>>, <<a>>} \subseteq String!Text
  BY PartAssumption, SameCount DEF String!StringAssumption, String!IsFiniteSet, IsFiniteSet

LEMMA TextIs == \A x : x \in String!Text <=> x \in Seq({a, b}) /\ Len(x) <= MaxSize
  <1> USE StringConstants
  <1>1. ASSUME NEW x \in String!Text PROVE x \in Seq({a, b}) /\ Len(x) <= MaxSize
    <2>1. PICK n \in 0 .. MaxSize : x \in [1 .. n -> {a, b}]
      BY DEF String!Text
    <2> QED
      BY <2>1
  <1>2. ASSUME NEW x \in Seq({a, b}), Len(x) <= MaxSize PROVE x \in String!Text
    <2>1. Len(x) \in 0 .. MaxSize /\ x \in [1 .. Len(x) -> {a, b}]
      BY <1>2
    <2> QED
      BY <2>1 DEF String!Text
  <1> QED
    BY <1>1, <1>2

\* An allowed change of a text gives a text.
LEMMA Changed ==
  ASSUME NEW x \in String!Text, NEW op \in String!Operation, String!Allowed(Len(x), op)
  PROVE  String!Result(x, op) \in String!Text
  <1> USE StringConstants
  <1>1. x \in Seq({a, b}) /\ Len(x) <= MaxSize /\ Len(x) \in Nat
    BY TextIs
  <1>2. /\ op.kind \in {"append", "set", "shrink"}
        /\ op.kind # "shrink" => op.arg \in {a, b}
        /\ op.kind = "shrink" => op.arg = 2
    BY DEF String!Operation
  <1>3. CASE op.kind = "append"
    <2>1. String!Result(x, op) = Append(x, op.arg) /\ Len(x) < MaxSize
      BY <1>3 DEF String!Result, String!Allowed
    <2>2. op.arg \in {a, b}
      BY <1>2, <1>3
    <2> DEFINE y == Append(x, op.arg)
    <2>3. y \in Seq({a, b}) /\ Len(y) = Len(x) + 1
      BY <1>1, <2>2, AppendProperties
    <2> HIDE DEF y
    <2>4. Len(y) <= MaxSize
      BY <1>1, <2>1, <2>3
    <2>5. y \in String!Text
      BY <2>3, <2>4, TextIs
    <2> QED
      BY <2>1, <2>5 DEF y
  <1>4. CASE op.kind = "set"
    <2>1. String!Result(x, op) = [x EXCEPT ![1] = op.arg]
      BY <1>4 DEF String!Result
    <2>2. op.arg \in {a, b} /\ 0 < Len(x)
      BY <1>2, <1>4 DEF String!Allowed
    <2>3. 1 \in 1 .. Len(x)
      BY <1>1, <2>2
    <2> DEFINE y == [x EXCEPT ![1] = op.arg]
    <2>4. y \in Seq({a, b}) /\ Len(y) = Len(x)
      BY <1>1, <2>2, <2>3, ExceptSeq
    <2> HIDE DEF y
    <2>5. y \in String!Text
      BY <1>1, <2>4, TextIs
    <2> QED
      BY <2>1, <2>5 DEF y
  <1>5. CASE op.kind = "shrink"
    <2>1. String!Result(x, op) = SubSeq(x, 1, Len(x) - 2) /\ 2 <= Len(x)
      BY <1>2, <1>5 DEF String!Result, String!Allowed
    <2> DEFINE n == Len(x) - 2
    <2>2. n \in 0 .. Len(x) /\ n \in Int /\ 1 \in Int
      <3>1. \A k \in Nat : 2 <= k => k - 2 \in 0 .. k /\ k - 2 \in Int
        OBVIOUS
      <3> QED
        BY <1>1, <2>1, <3>1
    <2> DEFINE y == SubSeq(x, 1, n)
    <2> HIDE DEF n
    <2>3. \A i \in 1 .. n : x[i] \in {a, b}
      BY <1>1, <2>2
    <2>4. y \in Seq({a, b})
      BY <2>2, <2>3, SubSeqProperties
    <2>5. Len(y) = IF 1 <= n THEN n - 1 + 1 ELSE 0
      BY <2>2, <2>3, SubSeqProperties
    <2> HIDE DEF y
    <2>6. Len(y) <= MaxSize
      BY <1>1, <2>2, <2>5
    <2>7. y \in String!Text
      BY <2>4, <2>6, TextIs
    <2> QED
      BY <2>1, <2>7 DEF y, n
  <1> QED
    BY <1>2, <1>3, <1>4, <1>5

\* What a string shows that fits.
LEMMA Shown ==
  ASSUME StringTypes, NEW x, Fits(x)
  PROVE  /\ String!TextOf(x) = IF x.cat = "Large" THEN heap[x.data].chars ELSE x.chars
         /\ String!TextOf(x) \in String!Text /\ Len(String!TextOf(x)) = x.size
  <1>1. CASE x.cat = "Large"
    <2>1. heap[x.data].chars \in String!Text /\ Len(heap[x.data].chars) = x.size
      BY <1>1 DEF StringTypes, Fits
    <2>2. heap[x.data].chars \in Seq({a, b})
      BY <2>1, TextIs
    <2>3. SubSeq(heap[x.data].chars, 1, Len(heap[x.data].chars)) = heap[x.data].chars
      BY <2>2, SubSeqFull
    <2> QED
      BY <1>1, <2>1, <2>3 DEF String!TextOf
  <1>2. CASE x.cat # "Large"
    BY <1>2 DEF String!TextOf, Fits, String!String
  <1> QED
    BY <1>1, <1>2

LEMMA SizesGood ==
  ASSUME NEW n \in Nat, NEW m \in Nat
  PROVE  String!GoodSize(n) \in Nat /\ String!Grown(n, m) \in Nat /\ String!Larger(n, m) \in Nat
  <1>1. (n + 1) \div 2 \in Nat /\ (m * 3) \div 2 \in Nat
    OBVIOUS
  <1> QED
    BY <1>1 DEF String!GoodSize, String!Grown, String!Larger

LEMMA EmptyText == <<>> \in String!Text
  <1> DEFINE e == <<>>
  <1>1. e \in Seq({a, b}) /\ Len(e) <= MaxSize
    BY EmptySeq, StringConstants
  <1> HIDE DEF e
  <1>2. e \in String!Text
    BY <1>1, TextIs
  <1> QED
    BY <1>2 DEF e

\* A string that is made.
LEMMA MadeString ==
  ASSUME NEW x \in String!Text, NEW n \in Nat, NEW cat \in String!Categories, String!NewBuffer \in Buffers
  PROVE  LET new == String!Made(x, n, cat)
         IN  /\ new \in String!String /\ new # None /\ new.size = Len(x) /\ new.cat = cat
             /\ cat = "Large" => new.data = String!NewBuffer
             /\ cat # "Large" => new.data = None /\ new.chars = x
  <1> USE StringConstants
  <1>1. Len(x) \in 0 .. MaxSize
    BY TextIs
  <1>2. (IF cat = "Small" THEN kMaxSmallSize ELSE String!GoodSize(n)) \in Nat
    BY SizesGood
  <1> QED
    BY <1>1, <1>2, EmptyText DEF String!Made, String!String

LEMMA NobodyThere ==
  ASSUME StringInv, NEW n \in Buffers
  PROVE  /\ IsFiniteSet(Users(n)) /\ IsFiniteSet(Makers(n))
         /\ heap[n].ref = 0 <=> Users(n) = {} /\ Makers(n) = {}
  <1>1. /\ IsFiniteSet(Strings) /\ Users(n) \subseteq Strings
        /\ IsFiniteSet(StringThreads) /\ Makers(n) \subseteq StringThreads
    BY StringConstants DEF Users, Makers
  <1>2. IsFiniteSet(Users(n)) /\ IsFiniteSet(Makers(n))
    BY <1>1, FS_Subset
  <1>3. Cardinality(Users(n)) \in Nat /\ Cardinality(Makers(n)) \in Nat
    BY <1>2, FS_CardinalityType
  <1>4. /\ Cardinality(Users(n)) = 0 <=> Users(n) = {}
        /\ Cardinality(Makers(n)) = 0 <=> Makers(n) = {}
    BY <1>2, FS_EmptySet
  <1>5. heap[n].ref = Cardinality(Users(n)) + Cardinality(Makers(n))
    BY DEF StringInv, Counts
  <1>6. heap[n].ref = 0 <=> Cardinality(Users(n)) = 0 /\ Cardinality(Makers(n)) = 0
    BY <1>3, <1>5
  <1> QED
    BY <1>2, <1>4, <1>6

\* The strings that have a buffer, and those of them for whom one is being made.
Sharers == {s \in Strings : str[s] # None /\ str[s].cat = "Large"}
Remade == {s \in Strings : work[owner[s]].s = s /\ work[owner[s]].new # None}

LEMMA RemadeShares ==
  ASSUME StringInv
  PROVE  /\ Remade \subseteq Sharers
         /\ \A n \in Buffers : Users(n) # {} => \E s \in Sharers : n = str[s].data
         /\ \A n \in Buffers : Makers(n) # {} => \E s \in Remade : n = work[owner[s]].new.data
  <1>1. ASSUME NEW s \in Remade PROVE s \in Sharers
    <2>1. owner[s] \in StringThreads /\ s # None
      BY StringConstants DEF StringInv, StringTypes, Remade
    <2>2. WorkOK(owner[s]) /\ work[owner[s]].at # "idle"
      BY <2>1 DEF StringInv, WorkOK, String!Idle, Remade
    <2> QED
      BY <2>2 DEF WorkOK, Remade, Sharers
  <1>2. ASSUME NEW n \in Buffers, NEW s \in Users(n) PROVE s \in Sharers /\ n = str[s].data
    <2>1. s \in Strings /\ str[s] # None /\ str[s].data = n /\ Fits(str[s]) /\ n # None
      BY StringConstants DEF StringInv, StringOK, Users
    <2> QED
      BY <2>1 DEF Fits, Sharers
  <1>3. ASSUME NEW n \in Buffers, NEW t \in Makers(n) PROVE \E s \in Remade : n = work[owner[s]].new.data
    <2>1. t \in StringThreads /\ work[t].new # None /\ work[t].new.data = n /\ WorkOK(t)
      BY DEF StringInv, Makers
    <2>2. work[t].at # "idle"
      BY <2>1 DEF WorkOK, String!Idle
    <2>3. work[t].s \in Strings /\ owner[work[t].s] = t
      BY <2>1, <2>2 DEF WorkOK
    <2> QED
      BY <2>1, <2>3 DEF Remade
  <1> QED
    BY <1>1, <1>2, <1>3

\* There is a buffer for a string that has none, or that is not remade.
LEMMA FreeBuffer ==
  ASSUME StringInv, NEW s \in Strings, s \notin Sharers \/ s \notin Remade
  PROVE  \E n \in Buffers : heap[n].ref = 0
  <1> SUFFICES ASSUME \A n \in Buffers : heap[n].ref # 0 PROVE FALSE
    OBVIOUS
  <1> DEFINE D == {str[r].data : r \in Sharers}
             E == {work[owner[r]].new.data : r \in Remade}
             k == Cardinality(Strings)
  <1>1. Buffers \subseteq D \cup E
    <2> SUFFICES ASSUME NEW n \in Buffers PROVE n \in D \cup E
      OBVIOUS
    <2>1. Users(n) # {} \/ Makers(n) # {}
      BY NobodyThere
    <2> QED
      BY <2>1, RemadeShares
  <1>2. IsFiniteSet(Strings) /\ k \in Nat
    BY StringConstants, FS_CardinalityType
  <1>3. /\ Sharers \subseteq Strings /\ Remade \subseteq Strings /\ Remade \subseteq Sharers
        /\ s \notin Remade
    BY RemadeShares DEF Sharers, Remade
  <1>4. /\ IsFiniteSet(Sharers) /\ Cardinality(Sharers) \in Nat /\ Cardinality(Sharers) <= k
        /\ Cardinality(Sharers) = k => Sharers = Strings
    BY <1>2, <1>3, FS_Subset, FS_CardinalityType
  <1>5. IsFiniteSet(Remade) /\ Cardinality(Remade) \in Nat /\ Cardinality(Remade) < k
    BY <1>2, <1>3, FS_Subset, FS_CardinalityType
  <1>6. IsFiniteSet(D) /\ Cardinality(D) \in Nat /\ Cardinality(D) <= Cardinality(Sharers)
    <2> DEFINE f == [r \in Sharers |-> str[r].data]
    <2> HIDE DEF Sharers
    <2>1. f \in Surjection(Sharers, D)
      BY DEF Surjection
    <2> HIDE DEF f, D
    <2>2. IsFiniteSet(D) /\ Cardinality(D) <= Cardinality(Sharers)
      BY <1>4, <2>1, FS_Surjection
    <2> QED
      BY <2>2, FS_CardinalityType
  <1>7. IsFiniteSet(E) /\ Cardinality(E) \in Nat /\ Cardinality(E) <= Cardinality(Remade)
    <2> DEFINE f == [r \in Remade |-> work[owner[r]].new.data]
    <2> HIDE DEF Remade
    <2>1. f \in Surjection(Remade, E)
      BY DEF Surjection
    <2> HIDE DEF f, E
    <2>2. IsFiniteSet(E) /\ Cardinality(E) <= Cardinality(Remade)
      BY <1>5, <2>1, FS_Surjection
    <2> QED
      BY <2>2, FS_CardinalityType
  <1> HIDE DEF D, E, k
  <1>8. IsFiniteSet(D \cup E) /\ Cardinality(D \cup E) \in Nat
    BY <1>6, <1>7, FS_Union, FS_CardinalityType
  <1>9. Cardinality(D \cup E) <= Cardinality(D) + Cardinality(E)
    <2>1. /\ Cardinality(D \cup E) = Cardinality(D) + Cardinality(E) - Cardinality(D \cap E)
          /\ IsFiniteSet(D \cap E)
      BY <1>6, <1>7, FS_Union, FS_Intersection
    <2>2. Cardinality(D \cap E) \in Nat
      BY <2>1, FS_CardinalityType
    <2> QED
      BY <1>6, <1>7, <2>1, <2>2
  <1>10. Cardinality(Buffers) <= Cardinality(D \cup E) /\ Cardinality(Buffers) \in Nat
    BY <1>1, <1>8, FS_Subset, FS_CardinalityType
  <1>11. 2 * k <= Cardinality(Buffers)
    BY StringConstants DEF k
  <1> QED
    BY <1>2, <1>4, <1>5, <1>6, <1>7, <1>8, <1>9, <1>10, <1>11

LEMMA NewBufferFree ==
  ASSUME StringInv, NEW s \in Strings, s \notin Sharers \/ s \notin Remade
  PROVE  /\ String!NewBuffer \in Buffers
         /\ Users(String!NewBuffer) = {} /\ Makers(String!NewBuffer) = {}
  <1> DEFINE T == {n \in Buffers : heap[n].ref = 0}
  <1>1. T # {} /\ T \in SUBSET Nat
    BY FreeBuffer, StringConstants
  <1> HIDE DEF T
  <1>2. PICK least \in T : \A n \in T : least <= n
    BY <1>1, FreeList!Least
  <1>3. least \in Buffers /\ heap[least].ref = 0 /\ \A n \in Buffers : heap[n].ref = 0 => least <= n
    BY <1>2 DEF T
  <1>4. String!NewBuffer \in Buffers /\ heap[String!NewBuffer].ref = 0
    BY <1>3 DEF String!NewBuffer
  <1> QED
    BY <1>4, NobodyThere

\* Buffers that a call of this thread may touch: those of its strings, the one it is
\* making, and those that nobody has.
Near(t, n) ==
  \/ \E r \in Users(n) : owner[r] = t
  \/ t \in Makers(n)
  \/ Users(n) = {} /\ Makers(n) = {}

\* A step of a thread and one of its strings, which leaves what others look at alone.
OnlyHere(t, s) ==
  /\ owner[s] = t /\ work[t].s \in {None, s} /\ UNCHANGED owner
  /\ \A r \in Strings : r # s => str'[r] = str[r] /\ value'[r] = value[r]
  /\ \A u \in StringThreads : u # t => work'[u] = work[u]
  /\ \A n \in Buffers : ~Near(t, n) => /\ heap'[n] = heap[n]
                                       /\ Users(n)' = Users(n) /\ Makers(n)' = Makers(n)
  /\ \A n \in Buffers : Users(n) \subseteq {s} \/ heap'[n].chars = heap[n].chars

LEMMA OtherStrings ==
  ASSUME StringInv, StringTypes', NEW t \in StringThreads, NEW s \in Strings, OnlyHere(t, s)
  PROVE  \A r \in Strings : r # s => StringOK(r)'
  <1> SUFFICES ASSUME NEW r \in Strings, r # s PROVE StringOK(r)'
    OBVIOUS
  <1>1. str'[r] = str[r] /\ value'[r] = value[r] /\ StringOK(r)
    BY DEF OnlyHere, StringInv
  <1>2. ASSUME String!InWork(r) PROVE String!InWork(r)'
    <2>1. PICK u \in StringThreads : work[u].s = r
      BY <1>2 DEF String!InWork
    <2>2. u # t
      BY <2>1, StringConstants DEF OnlyHere
    <2>3. work'[u] = work[u]
      BY <2>2 DEF OnlyHere
    <2> QED
      BY <2>1, <2>3 DEF String!InWork
  <1>3. CASE str[r] # None
    <2>1. Fits(str[r]) /\ (~String!InWork(r) => String!TextOf(str[r]) = value[r])
      BY <1>1, <1>3 DEF StringOK
    <2>2. ASSUME str[r].cat = "Large"
          PROVE  heap'[str[r].data].chars = heap[str[r].data].chars
      <3>1. str[r].data \in Buffers /\ r \in Users(str[r].data)
        BY <1>3, <2>1, <2>2 DEF Fits, Users
      <3> QED
        BY <3>1 DEF OnlyHere
    <2>3. Fits(str[r])'
      BY <1>1, <2>1, <2>2 DEF Fits
    <2>4. String!TextOf(str[r])' = String!TextOf(str[r])
      BY <1>1, <2>2 DEF String!TextOf
    <2> QED
      BY <1>1, <1>2, <2>1, <2>3, <2>4 DEF StringOK
  <1>4. CASE str[r] = None
    BY <1>1, <1>4 DEF StringOK
  <1> QED
    BY <1>3, <1>4

LEMMA OtherCalls ==
  ASSUME StringInv, StringTypes', NEW t \in StringThreads, NEW s \in Strings, OnlyHere(t, s)
  PROVE  \A u \in StringThreads : u # t => WorkOK(u)'
  <1> SUFFICES ASSUME NEW u \in StringThreads, u # t PROVE WorkOK(u)'
    OBVIOUS
  <1> DEFINE w == work[u]
  <1>1. work'[u] = w /\ WorkOK(u)
    BY DEF OnlyHere, StringInv
  <1>2. CASE w.at = "idle"
    BY <1>1, <1>2 DEF WorkOK, String!Idle
  <1>3. CASE w.at # "idle"
    <2>1. /\ w.s \in Strings /\ owner[w.s] = u /\ str[w.s] # None /\ str[w.s].cat = "Large"
          /\ w.s # s
      BY <1>1, <1>3 DEF WorkOK, OnlyHere
    <2>2. str'[w.s] = str[w.s] /\ value'[w.s] = value[w.s] /\ owner'[w.s] = u
      BY <2>1 DEF OnlyHere
    <2>3. Fits(str[w.s]) /\ str[w.s].data \in Buffers /\ w.s \in Users(str[w.s].data)
      BY <2>1 DEF StringInv, StringOK, Fits, Users
    <2>4. heap'[str[w.s].data].chars = heap[str[w.s].data].chars
      BY <2>1, <2>3 DEF OnlyHere
    <2>5. String!TextOf(str[w.s])' = String!TextOf(str[w.s])
      BY <1>1, <2>2, <2>4 DEF String!TextOf
    <2>6. ASSUME w.at = "write"
          PROVE  Users(str[w.s].data)' = {w.s} /\ Makers(str[w.s].data)' = {}
      <3> DEFINE n == str[w.s].data
      <3>1. Users(n) = {w.s} /\ Makers(n) = {}
        BY <1>1, <2>6 DEF WorkOK
      <3>2. ~Near(t, n)
        BY <2>1, <3>1 DEF Near
      <3>3. \A k \in Buffers : k = n => Users(k)' = {w.s} /\ Makers(k)' = {}
        BY <3>1, <3>2 DEF OnlyHere
      <3>4. n \in Buffers /\ n = str'[w.s].data
        BY <2>2, <2>3
      <3> HIDE DEF n
      <3>5. PICK k \in Buffers : k = n
        BY <3>4
      <3>6. Users(k)' = {w.s} /\ Makers(k)' = {} /\ k = str'[w.s].data
        BY <3>3, <3>4, <3>5
      <3> QED
        BY <1>1, <3>6 DEF Users, Makers
    <2>7. ASSUME w.at = "deref"
          PROVE  /\ w.new # None /\ Fits(w.new)'
                 /\ String!TextOf(w.new)' = String!TextOf(w.new)
                 /\ w.new.cat = "Large" => Users(w.new.data)' = {} /\ Makers(w.new.data)' = {u}
      <3>1. w.new # None /\ Fits(w.new)
        BY <1>1, <2>7 DEF WorkOK
      <3>2. CASE w.new.cat # "Large"
        BY <1>1, <3>1, <3>2 DEF Fits, String!TextOf
      <3>3. CASE w.new.cat = "Large"
        <4> DEFINE n == w.new.data
        <4>1. n \in Buffers /\ Users(n) = {} /\ Makers(n) = {u}
          BY <1>1, <2>7, <3>1, <3>3 DEF WorkOK, Fits
        <4>2. ~Near(t, n)
          BY <4>1 DEF Near
        <4>3. \A k \in Buffers : k = n => Users(k)' = {} /\ Makers(k)' = {u}
          BY <4>1, <4>2 DEF OnlyHere
        <4>4. heap'[n] = heap[n]
          BY <4>1, <4>2 DEF OnlyHere
        <4>5. Fits(w.new)' /\ String!TextOf(w.new)' = String!TextOf(w.new)
          BY <1>1, <3>1, <3>3, <4>4 DEF Fits, String!TextOf
        <4>6. n = work'[u].new.data
          BY <1>1
        <4> HIDE DEF n
        <4>7. PICK k \in Buffers : k = n
          BY <4>1
        <4>8. Users(k)' = {} /\ Makers(k)' = {u} /\ k = work'[u].new.data
          BY <4>3, <4>6, <4>7
        <4>9. Users(work[u].new.data)' = {} /\ Makers(work[u].new.data)' = {u}
          BY <4>8 DEF Users, Makers
        <4> QED
          BY <3>1, <4>5, <4>9
      <3> QED
        BY <3>2, <3>3
    <2>8. WorkOK(u)'
      <3> HIDE DEF w
      <3>1. work'[u].at = w.at /\ work'[u] = work[u]
        BY <1>1 DEF w
      <3> QED
        BY <1>1, <1>3, <2>1, <2>2, <2>3, <2>4, <2>5, <2>6, <2>7 DEF WorkOK, w
    <2> QED
      BY <2>8
  <1> QED
    BY <1>2, <1>3

LEMMA UsersBy ==
  ASSUME StringTypes, NEW s \in Strings, NEW q, str' = [str EXCEPT ![s] = q], NEW n
  PROVE  Users(n)' = IF q # None /\ q.data = n THEN Users(n) \cup {s} ELSE Users(n) \ {s}
  <1>1. str'[s] = q /\ \A r \in Strings : r # s => str'[r] = str[r]
    BY DEF StringTypes
  <1> QED
    BY <1>1 DEF Users

LEMMA MakersBy ==
  ASSUME StringTypes, NEW t \in StringThreads, NEW w, work' = [work EXCEPT ![t] = w], NEW n
  PROVE  Makers(n)' = IF w.new # None /\ w.new.data = n THEN Makers(n) \cup {t} ELSE Makers(n) \ {t}
  <1>1. work'[t] = w /\ \A u \in StringThreads : u # t => work'[u] = work[u]
    BY DEF StringTypes
  <1> QED
    BY <1>1 DEF Makers

LEMMA CountBy ==
  ASSUME StringInv, NEW n \in Buffers, NEW x
  PROVE  /\ Cardinality(Users(n)) \in Nat /\ Cardinality(Makers(n)) \in Nat
         /\ x \notin Users(n) => Cardinality(Users(n) \cup {x}) = Cardinality(Users(n)) + 1
         /\ x \in Users(n) => Cardinality(Users(n) \ {x}) = Cardinality(Users(n)) - 1
         /\ x \in Makers(n) => Cardinality(Makers(n) \ {x}) = Cardinality(Makers(n)) - 1
         /\ x \in Users(n) => Cardinality(Users(n)) # 0
  <1>1. IsFiniteSet(Users(n)) /\ IsFiniteSet(Makers(n))
    BY NobodyThere
  <1> QED
    BY <1>1, FS_CardinalityType, FS_AddElement, FS_RemoveElement, FS_EmptySet

\* A string that has a text, and a buffer of its own if it is a large one.
NewString(q, text) ==
  /\ q \in String!String /\ q # None /\ text \in String!Text /\ q.size = Len(text)
  /\ IF q.cat = "Large" THEN q.data = String!NewBuffer ELSE q.data = None /\ q.chars = text

\* What shares no buffer may become a new string.
LEMMA PutNew ==
  ASSUME StringInv, NEW t \in StringThreads, NEW s \in Strings, String!Mine(t, s), s \notin Sharers,
         NEW q, NEW text, NewString(q, text), str' = [str EXCEPT ![s] = q],
         heap' = String!HeapWith(q, text), value' = [value EXCEPT ![s] = text],
         UNCHANGED <<owner, work>>
  PROVE  StringInv'
  <1>1. PICK n \in Buffers : n = String!NewBuffer /\ Users(n) = {} /\ Makers(n) = {}
    BY NewBufferFree
  <1>2. /\ q \in String!String /\ q # None /\ text \in String!Text /\ q.size = Len(text)
        /\ q.cat = "Large" => q.data = n
        /\ q.cat # "Large" => q.data = None /\ q.chars = text
    BY <1>1 DEF NewString
  <1>3. /\ q.cat = "Large" => heap' = [heap EXCEPT ![n] = [ref |-> 1, chars |-> text]]
        /\ q.cat # "Large" => heap' = heap
    BY <1>2 DEF String!HeapWith
  <1>4. \A k \in Buffers : s \notin Users(k)
    BY StringConstants DEF Users, Sharers, StringInv, StringOK, Fits
  <1>5. ASSUME NEW k \in Buffers
        PROVE  /\ Users(k)' = IF q.cat = "Large" /\ k = n THEN {s} ELSE Users(k)
               /\ Makers(k)' = Makers(k)
               /\ heap'[k] = IF q.cat = "Large" /\ k = n THEN [ref |-> 1, chars |-> text] ELSE heap[k]
    <2>1. Users(k)' = IF q # None /\ q.data = k THEN Users(k) \cup {s} ELSE Users(k) \ {s}
      BY UsersBy DEF StringInv
    <2>2. q # None /\ q.data = k <=> q.cat = "Large" /\ k = n
      BY <1>2, StringConstants
    <2>3. Users(k)' = IF q.cat = "Large" /\ k = n THEN {s} ELSE Users(k)
      BY <1>1, <1>4, <2>1, <2>2
    <2>4. Makers(k)' = Makers(k)
      BY DEF Makers
    <2>5. heap'[k] = IF q.cat = "Large" /\ k = n THEN [ref |-> 1, chars |-> text] ELSE heap[k]
      BY <1>3 DEF StringInv, StringTypes
    <2> QED
      BY <2>3, <2>4, <2>5
  <1>6. StringTypes'
    <2>1. str' \in [Strings -> String!String \cup {None}]
      BY <1>2 DEF StringInv, StringTypes
    <2>2. heap' \in [Buffers -> [ref : Nat, chars : String!Text]]
      <3> DEFINE own == [ref |-> 1, chars |-> text]
      <3>1. own \in [ref : Nat, chars : String!Text]
        BY <1>2
      <3> HIDE DEF own
      <3>2. heap' = [heap EXCEPT ![n] = own] \/ heap' = heap
        BY <1>3 DEF own
      <3>3. heap \in [Buffers -> [ref : Nat, chars : String!Text]]
        BY DEF StringInv, StringTypes
      <3> QED
        BY <3>1, <3>2, <3>3
    <2>3. value' \in [Strings -> String!Text]
      BY <1>2 DEF StringInv, StringTypes
    <2> QED
      BY <2>1, <2>2, <2>3 DEF StringInv, StringTypes
  <1>7. OnlyHere(t, s)
    <2>1. owner[s] = t /\ work[t].s = None
      BY DEF String!Mine, String!Idle
    <2>2. \A r \in Strings : r # s => str'[r] = str[r] /\ value'[r] = value[r]
      BY DEF StringInv, StringTypes
    <2>3. Near(t, n)
      BY <1>1 DEF Near
    <2> QED
      BY <1>1, <1>5, <2>1, <2>2, <2>3 DEF OnlyHere
  <1>8. StringOK(s)'
    <2>1. str'[s] = q /\ value'[s] = text
      BY DEF StringInv, StringTypes
    <2>2. Fits(str[s])'
      BY <1>1, <1>2, <1>5, <2>1 DEF Fits
    <2>3. String!TextOf(str[s])' = text
      <3>1. text \in Seq({a, b})
        BY <1>2, TextIs
      <3>2. SubSeq(text, 1, Len(text)) = text
        BY <3>1, SubSeqFull
      <3> QED
        BY <1>1, <1>2, <1>5, <2>1, <3>2 DEF String!TextOf
    <2> QED
      BY <2>1, <2>2, <2>3 DEF StringOK
  <1>9. WorkOK(t)'
    BY DEF WorkOK, String!Mine, String!Idle
  <1>10. ASSUME NEW k \in Buffers PROVE Counts(k)'
    <2>1. CASE q.cat = "Large" /\ k = n
      <3>1. heap'[k].ref = 1 /\ Users(k)' = {s} /\ Makers(k)' = {}
        BY <1>1, <1>5, <2>1
      <3>2. Cardinality({s}) = 1 /\ Cardinality({}) = 0
        BY FS_Singleton, FS_EmptySet
      <3> QED
        BY <3>1, <3>2 DEF Counts
    <2>2. CASE ~(q.cat = "Large" /\ k = n)
      <3>1. heap'[k] = heap[k] /\ Users(k)' = Users(k) /\ Makers(k)' = Makers(k)
        BY <1>5, <2>2
      <3> QED
        BY <3>1 DEF Counts, StringInv
    <2> QED
      BY <2>1, <2>2
  <1> QED
    BY <1>6, <1>7, <1>8, <1>9, <1>10, OtherStrings, OtherCalls DEF StringInv

\* The strings of a thread that is in no call show their texts.
LEMMA MineShows ==
  ASSUME StringInv, NEW t \in StringThreads, NEW s \in Strings, String!Mine(t, s), str[s] # None
  PROVE  /\ Fits(str[s]) /\ ~String!InWork(s) /\ String!TextOf(str[s]) = value[s]
         /\ str[s] \in String!String /\ value[s] \in String!Text
         /\ str[s].cat # "Large" => str[s].chars = value[s]
         /\ Len(value[s]) = str[s].size
  <1>1. Fits(str[s]) /\ value[s] \in String!Text
    BY DEF StringInv, StringOK, StringTypes
  <1>2. ASSUME NEW u \in StringThreads, work[u].s = s PROVE FALSE
    <2>1. work[u].at # "idle"
      BY <1>2, StringConstants DEF StringInv, WorkOK, String!Idle
    <2>2. u = t
      BY <1>2, <2>1 DEF StringInv, WorkOK, String!Mine
    <2> QED
      BY <2>1, <2>2 DEF String!Mine, String!Idle
  <1>3. String!TextOf(str[s]) = value[s]
    BY <1>2 DEF StringInv, StringOK, String!InWork
  <1>4. Len(String!TextOf(str[s])) = str[s].size
    BY <1>1, Shown DEF StringInv
  <1> QED
    BY <1>1, <1>2, <1>3, <1>4 DEF Fits, String!InWork, String!TextOf

LEMMA NewMade ==
  ASSUME StringInv, NEW s \in Strings, s \notin Sharers \/ s \notin Remade,
         NEW text \in String!Text, NEW n \in Nat, NEW cat \in String!Categories
  PROVE  /\ NewString(String!Made(text, n, cat), text)
         /\ String!Made(text, n, cat).cat = cat
  <1>1. String!NewBuffer \in Buffers
    BY NewBufferFree
  <1> DEFINE q == String!Made(text, n, cat)
  <1>2. /\ q \in String!String /\ q # None /\ q.size = Len(text) /\ q.cat = cat
        /\ cat = "Large" => q.data = String!NewBuffer
        /\ cat # "Large" => q.data = None /\ q.chars = text
    BY <1>1, MadeString
  <1> HIDE DEF q
  <1>3. NewString(q, text) /\ q.cat = cat
    BY <1>2 DEF NewString
  <1> QED
    BY <1>3 DEF q

LEMMA ConstructKeeps ==
  ASSUME StringInv, NEW t \in StringThreads, NEW s \in Strings, NEW text \in {<<a, a, a>>, <<a>>},
         String!Construct(t, s, text)
  PROVE  StringInv'
  <1> DEFINE q == String!Made(text, Len(text), String!CategoryFor(Len(text)))
  <1>1. text \in String!Text /\ Len(text) \in Nat
    BY StringConstants, TextIs
  <1>2. String!CategoryFor(Len(text)) \in String!Categories
    BY DEF String!CategoryFor, String!Categories
  <1>3. String!Mine(t, s) /\ s \notin Sharers
    BY DEF String!Construct, Sharers
  <1>4. NewString(q, text)
    BY <1>1, <1>2, <1>3, NewMade
  <1>5. /\ str' = [str EXCEPT ![s] = q] /\ heap' = String!HeapWith(q, text)
        /\ value' = [value EXCEPT ![s] = text] /\ UNCHANGED <<owner, work>>
    BY DEF String!Construct
  <1> HIDE DEF q
  <1> QED
    BY <1>3, <1>4, <1>5, PutNew

LEMMA CopyAlone ==
  ASSUME StringInv, NEW t \in StringThreads, NEW s \in Strings, NEW other \in Strings,
         String!Copy(t, s, other), str[other].cat # "Large"
  PROVE  StringInv'
  <1> DEFINE q == IF str[other].cat = "Medium" THEN String!Made(str[other].chars, str[other].size, "Medium")
                  ELSE str[other]
             text == value[other]
  <1>1. String!Mine(t, s) /\ String!Mine(t, other) /\ str[other] # None /\ s \notin Sharers
    BY DEF String!Copy, Sharers, String!Mine
  <1>2. /\ Fits(str[other]) /\ str[other] \in String!String /\ str[other].chars = text
        /\ text \in String!Text /\ Len(text) = str[other].size
    BY <1>1, MineShows
  <1>3. NewString(q, text) /\ q.cat # "Large"
    <2>1. CASE str[other].cat = "Medium"
      <3>1. Len(text) \in Nat /\ "Medium" \in String!Categories
        BY <1>2, TextIs DEF String!Categories
      <3>2. q = String!Made(text, Len(text), "Medium")
        BY <1>2, <2>1
      <3> HIDE DEF q, text
      <3>3. /\ NewString(String!Made(text, Len(text), "Medium"), text)
            /\ String!Made(text, Len(text), "Medium").cat = "Medium"
        BY <1>1, <1>2, <3>1, NewMade
      <3> QED
        BY <3>2, <3>3
    <2>2. CASE str[other].cat # "Medium"
      BY <1>1, <1>2, <2>2 DEF NewString, Fits
    <2> QED
      BY <2>1, <2>2
  <1>4. /\ str' = [str EXCEPT ![s] = q] /\ heap' = heap
        /\ value' = [value EXCEPT ![s] = text] /\ UNCHANGED <<owner, work>>
    BY DEF String!Copy
  <1> HIDE DEF q, text
  <1>5. heap' = String!HeapWith(q, text)
    BY <1>3, <1>4 DEF String!HeapWith
  <1> QED
    BY <1>1, <1>3, <1>4, <1>5, PutNew

\* A string that shares nothing is changed at once.
LEMMA ChangeAlone ==
  ASSUME StringInv, NEW t \in StringThreads, NEW s \in Strings, NEW op \in String!Operation,
         String!Change(t, s, op), str[s].cat # "Large"
  PROVE  StringInv'
  <1> DEFINE q == String!Unshared(str[s], op)
             text == String!Result(str[s].chars, op)
  <1>1. String!Mine(t, s) /\ str[s] # None /\ s \notin Sharers /\ String!Allowed(str[s].size, op)
    BY DEF String!Change, Sharers
  <1>2. /\ Fits(str[s]) /\ str[s] \in String!String /\ str[s].chars = value[s]
        /\ value[s] \in String!Text /\ Len(value[s]) = str[s].size
    BY <1>1, MineShows
  <1>3. text \in String!Text /\ Len(text) \in 0 .. MaxSize
    BY <1>1, <1>2, Changed, TextIs, StringConstants
  <1> DEFINE n == IF op.kind # "append" \/ Len(text) <= str[s].cap THEN 0
                  ELSE IF str[s].cat = "Small" THEN String!Larger(Len(text), 2 * kMaxSmallSize)
                  ELSE String!Grown(str[s].size, str[s].cap)
             cat == IF n <= kMaxMediumSize THEN "Medium" ELSE "Large"
  <1>4. q = IF n = 0 THEN [str[s] EXCEPT !.chars = text, !.size = Len(text)] ELSE String!Made(text, n, cat)
    BY DEF String!Unshared
  <1>5. n \in Nat
    <2>1. str[s].size \in Nat /\ str[s].cap \in Nat /\ 2 * kMaxSmallSize \in Nat /\ Len(text) \in Nat
      BY <1>2, <1>3, StringConstants DEF String!String
    <2> HIDE DEF text
    <2>2. String!Larger(Len(text), 2 * kMaxSmallSize) \in Nat /\ String!Grown(str[s].size, str[s].cap) \in Nat
      BY <2>1, SizesGood
    <2> QED
      BY <2>2
  <1>6. cat \in String!Categories
    BY DEF String!Categories
  <1>7. str' = [str EXCEPT ![s] = q] /\ heap' = String!HeapWith(q, text) /\ UNCHANGED <<owner, work>>
    BY DEF String!Change
  <1>8. value' = [value EXCEPT ![s] = text]
    BY <1>2 DEF String!Change
  <1> HIDE DEF n, cat, text, q
  <1>9. NewString(q, text)
    <2>1. CASE n = 0
      <3>1. q = [str[s] EXCEPT !.chars = text, !.size = Len(text)]
        BY <1>4, <2>1
      <3>2. /\ q \in String!String /\ q.chars = text /\ q.size = Len(text) /\ q.cat = str[s].cat
            /\ q.data = str[s].data
        BY <1>2, <1>3, <3>1 DEF String!String
      <3>3. q # None /\ q.data = None
        BY <1>2, <3>2, StringConstants DEF Fits
      <3> QED
        BY <1>3, <3>2, <3>3 DEF NewString
    <2>2. CASE n # 0
      <3>1. NewString(String!Made(text, n, cat), text)
        BY <1>1, <1>3, <1>5, <1>6, NewMade
      <3> QED
        BY <1>4, <2>2, <3>1
    <2> QED
      BY <2>1, <2>2
  <1> QED
    BY <1>1, <1>7, <1>8, <1>9, PutNew

\* A string alone with a count of one has its buffer to itself.
LEMMA SoleUser ==
  ASSUME StringInv, NEW n \in Buffers, NEW s \in Users(n)
  PROVE  /\ heap[n].ref \in Nat \ {0}
         /\ heap[n].ref <= 1 => Users(n) = {s} /\ Makers(n) = {}
  <1>1. heap[n].ref = Cardinality(Users(n)) + Cardinality(Makers(n))
    BY DEF StringInv, Counts
  <1>2. /\ Cardinality(Users(n)) \in Nat \ {0} /\ Cardinality(Makers(n)) \in Nat
        /\ Cardinality(Users(n) \ {s}) = Cardinality(Users(n)) - 1
    BY CountBy
  <1>3. IsFiniteSet(Users(n) \ {s}) /\ IsFiniteSet(Makers(n))
    BY NobodyThere, FS_Subset
  <1>4. ASSUME heap[n].ref <= 1 PROVE Cardinality(Users(n) \ {s}) = 0 /\ Cardinality(Makers(n)) = 0
    BY <1>1, <1>2, <1>4
  <1>5. ASSUME heap[n].ref <= 1 PROVE Users(n) \ {s} = {} /\ Makers(n) = {}
    BY <1>3, <1>4, <1>5, FS_EmptySet
  <1> QED
    BY <1>1, <1>2, <1>5

\* A buffer that a string leaves.
LEMMA DerefBuffer ==
  ASSUME StringInv, NEW n \in Buffers, NEW s \in Users(n), heap' = String!Deref(heap, n)
  PROVE  /\ heap' \in [Buffers -> [ref : Nat, chars : String!Text]]
         /\ heap'[n].ref = heap[n].ref - 1
         /\ Users(n) \subseteq {s} \/ heap'[n].chars = heap[n].chars
         /\ \A k \in Buffers : k # n => heap'[k] = heap[k]
  <1>1. heap[n].ref \in Nat \ {0} /\ (heap[n].ref = 1 => Users(n) = {s})
    BY SoleUser
  <1>2. heap \in [Buffers -> [ref : Nat, chars : String!Text]]
    BY DEF StringInv, StringTypes
  <1> DEFINE left == [ref |-> heap[n].ref - 1, chars |-> IF heap[n].ref = 1 THEN <<>> ELSE heap[n].chars]
  <1>3. left \in [ref : Nat, chars : String!Text] /\ left.ref = heap[n].ref - 1
    BY <1>1, <1>2, EmptyText
  <1>4. heap' = [heap EXCEPT ![n] = left]
    BY DEF String!Deref
  <1>5. Users(n) \subseteq {s} \/ left.chars = heap[n].chars
    BY <1>1
  <1> HIDE DEF left
  <1> QED
    BY <1>2, <1>3, <1>4, <1>5

LEMMA Together ==
  ASSUME StringInv, StringTypes', NEW t \in StringThreads, NEW s \in Strings, OnlyHere(t, s),
         StringOK(s)', WorkOK(t)', \A n \in Buffers : Counts(n)'
  PROVE  StringInv'
  BY OtherStrings, OtherCalls DEF StringInv

LEMMA CopyShared ==
  ASSUME StringInv, NEW t \in StringThreads, NEW s \in Strings, NEW other \in Strings,
         String!Copy(t, s, other), str[other].cat = "Large"
  PROVE  StringInv'
  <1>1. /\ String!Mine(t, s) /\ String!Mine(t, other) /\ str[other] # None /\ str[s] = None
        /\ other # s /\ owner[other] = t
    BY DEF String!Copy, String!Mine
  <1>2. /\ Fits(str[other]) /\ str[other] \in String!String /\ String!TextOf(str[other]) = value[other]
        /\ value[other] \in String!Text
    BY <1>1, MineShows
  <1>3. PICK n \in Buffers : n = str[other].data
    BY <1>2 DEF Fits
  <1>4. other \in Users(n) /\ \A k \in Buffers : s \notin Users(k)
    BY <1>1, <1>3 DEF Users
  <1>5. /\ str' = [str EXCEPT ![s] = str[other]] /\ value' = [value EXCEPT ![s] = value[other]]
        /\ heap' = [heap EXCEPT ![n].ref = @ + 1] /\ UNCHANGED <<owner, work>>
    BY <1>3 DEF String!Copy, String!Ref
  <1>6. ASSUME NEW k \in Buffers
        PROVE  /\ heap'[k].chars = heap[k].chars /\ Makers(k)' = Makers(k)
               /\ Users(k)' = IF k = n THEN Users(k) \cup {s} ELSE Users(k)
               /\ heap'[k].ref = IF k = n THEN heap[k].ref + 1 ELSE heap[k].ref
               /\ k # n => heap'[k] = heap[k]
    <2>1. Users(k)' = IF str[other] # None /\ str[other].data = k THEN Users(k) \cup {s} ELSE Users(k) \ {s}
      BY <1>5, UsersBy DEF StringInv
    <2>2. Users(k)' = IF k = n THEN Users(k) \cup {s} ELSE Users(k)
      BY <1>1, <1>3, <1>4, <2>1
    <2>3. Makers(k)' = Makers(k)
      BY <1>5 DEF Makers
    <2> QED
      BY <1>5, <2>2, <2>3 DEF StringInv, StringTypes
  <1>7. StringTypes'
    BY <1>2, <1>5 DEF StringInv, StringTypes
  <1>8. OnlyHere(t, s)
    <2>1. owner[s] = t /\ work[t].s = None
      BY <1>1 DEF String!Mine, String!Idle
    <2>2. \A r \in Strings : r # s => str'[r] = str[r] /\ value'[r] = value[r]
      BY <1>5 DEF StringInv, StringTypes
    <2>3. Near(t, n)
      BY <1>1, <1>4 DEF Near
    <2> QED
      BY <1>5, <1>6, <2>1, <2>2, <2>3 DEF OnlyHere
  <1>9. StringOK(s)'
    <2>1. str'[s] = str[other] /\ value'[s] = value[other]
      BY <1>5 DEF StringInv, StringTypes
    <2>2. heap'[str[other].data].chars = heap[str[other].data].chars
      BY <1>3, <1>6
    <2>3. Fits(str[s])'
      BY <1>2, <2>1, <2>2 DEF Fits
    <2>4. String!TextOf(str[s])' = value[other]
      BY <1>2, <2>1, <2>2 DEF String!TextOf
    <2> QED
      BY <2>1, <2>3, <2>4 DEF StringOK
  <1>10. WorkOK(t)'
    BY <1>1, <1>5 DEF WorkOK, String!Mine, String!Idle
  <1>11. ASSUME NEW k \in Buffers PROVE Counts(k)'
    <2>1. heap[k].ref = Cardinality(Users(k)) + Cardinality(Makers(k))
      BY DEF StringInv, Counts
    <2>2. /\ Cardinality(Users(k)) \in Nat /\ Cardinality(Makers(k)) \in Nat
          /\ Cardinality(Users(k) \cup {s}) = Cardinality(Users(k)) + 1
      BY <1>4, CountBy
    <2>3. Cardinality(Users(k))' = (IF k = n THEN Cardinality(Users(k)) + 1 ELSE Cardinality(Users(k)))
      BY <1>6, <2>2
    <2>4. Cardinality(Makers(k))' = Cardinality(Makers(k))
      BY <1>6
    <2> QED
      BY <1>6, <2>1, <2>2, <2>3, <2>4 DEF Counts
  <1> QED
    BY <1>7, <1>8, <1>9, <1>10, <1>11, Together

LEMMA DestroyKeeps ==
  ASSUME StringInv, NEW t \in StringThreads, NEW s \in Strings, String!Destroy(t, s)
  PROVE  StringInv'
  <1>1. /\ String!Mine(t, s) /\ str[s] # None /\ Fits(str[s]) /\ owner[s] = t
    BY DEF String!Destroy, String!Mine, StringInv, StringOK
  <1>2. /\ str' = [str EXCEPT ![s] = None] /\ value' = [value EXCEPT ![s] = <<>>]
        /\ UNCHANGED <<owner, work>>
    BY DEF String!Destroy
  <1>3. /\ str'[s] = None /\ \A r \in Strings : r # s => str'[r] = str[r] /\ value'[r] = value[r]
    BY <1>2 DEF StringInv, StringTypes
  <1>4. \A k \in Buffers : Users(k)' = Users(k) \ {s} /\ Makers(k)' = Makers(k)
    BY <1>2, UsersBy DEF Makers, StringInv
  <1>5. WorkOK(t)' /\ StringOK(s)' /\ work[t].s = None
    BY <1>1, <1>2, <1>3 DEF WorkOK, StringOK, String!Mine, String!Idle
  <1>6. CASE str[s].cat = "Large"
    <2>1. PICK n \in Buffers : n = str[s].data
      BY <1>1, <1>6 DEF Fits
    <2>2. s \in Users(n) /\ \A k \in Buffers : k # n => s \notin Users(k)
      BY <1>1, <2>1 DEF Users
    <2>3. heap' = String!Deref(heap, n)
      BY <1>6, <2>1 DEF String!Destroy
    <2>4. /\ heap' \in [Buffers -> [ref : Nat, chars : String!Text]]
          /\ heap'[n].ref = heap[n].ref - 1
          /\ Users(n) \subseteq {s} \/ heap'[n].chars = heap[n].chars
          /\ \A k \in Buffers : k # n => heap'[k] = heap[k]
      BY <2>2, <2>3, DerefBuffer
    <2>5. StringTypes'
      BY <1>2, <2>4, EmptyText DEF StringInv, StringTypes
    <2>6. Near(t, n)
      BY <1>1, <2>2 DEF Near
    <2>7. OnlyHere(t, s)
      <3>1. \A k \in Buffers : k # n => Users(k)' = Users(k) /\ Makers(k)' = Makers(k) /\ heap'[k] = heap[k]
        BY <1>4, <2>2, <2>4
      <3>2. \A k \in Buffers : Users(k) \subseteq {s} \/ heap'[k].chars = heap[k].chars
        BY <2>4
      <3> QED
        BY <1>1, <1>2, <1>3, <1>5, <2>6, <3>1, <3>2 DEF OnlyHere
    <2>8. ASSUME NEW k \in Buffers PROVE Counts(k)'
      <3>1. heap[k].ref = Cardinality(Users(k)) + Cardinality(Makers(k))
        BY DEF StringInv, Counts
      <3>2. /\ Cardinality(Users(k)) \in Nat /\ Cardinality(Makers(k)) \in Nat
            /\ k = n => Cardinality(Users(k) \ {s}) = Cardinality(Users(k)) - 1
        BY <2>2, CountBy
      <3>3. k # n => Users(k)' = Users(k)
        BY <1>4, <2>2
      <3>4. CASE k = n
        <4>1. Users(k)' = Users(k) \ {s} /\ Makers(k)' = Makers(k)
          BY <1>4
        <4>2. Cardinality(Users(k)') = Cardinality(Users(k)) - 1
          BY <3>2, <3>4, <4>1
        <4>3. heap'[k].ref = heap[k].ref - 1
          BY <2>4, <3>4
        <4>4. heap'[k].ref = Cardinality(Users(k)') + Cardinality(Makers(k)')
          BY <3>1, <3>2, <4>1, <4>2, <4>3
        <4> QED
          BY <4>4 DEF Counts
      <3>5. CASE k # n
        BY <1>4, <2>4, <3>1, <3>3, <3>5 DEF Counts
      <3> QED
        BY <3>4, <3>5
    <2> QED
      BY <1>5, <2>5, <2>7, <2>8, Together
  <1>7. CASE str[s].cat # "Large"
    <2>1. heap' = heap /\ \A k \in Buffers : s \notin Users(k)
      BY <1>1, <1>7, StringConstants DEF String!Destroy, Users, Fits
    <2>2. \A k \in Buffers : heap'[k] = heap[k] /\ Users(k)' = Users(k)
      BY <1>4, <2>1
    <2>3. StringTypes'
      BY <1>2, <2>1, EmptyText DEF StringInv, StringTypes
    <2>4. OnlyHere(t, s)
      BY <1>1, <1>2, <1>3, <1>4, <1>5, <2>1, <2>2 DEF OnlyHere
    <2>5. \A k \in Buffers : Counts(k)'
      BY <1>4, <2>2 DEF StringInv, Counts
    <2> QED
      BY <1>5, <2>3, <2>4, <2>5, Together
  <1> QED
    BY <1>6, <1>7

LEMMA HandKeeps ==
  ASSUME StringInv, NEW t \in StringThreads, NEW s \in Strings, NEW u \in StringThreads,
         String!Hand(t, s, u)
  PROVE  StringInv'
  <1>1. /\ String!Mine(t, s) /\ owner' = [owner EXCEPT ![s] = u] /\ UNCHANGED <<str, heap, work, value>>
    BY DEF String!Hand
  <1>2. StringTypes'
    BY <1>1 DEF StringInv, StringTypes
  <1>3. ASSUME NEW r \in Strings PROVE StringOK(r)'
    <2>1. StringOK(r)
      BY DEF StringInv
    <2> QED
      BY <1>1, <2>1 DEF StringOK, Fits, String!InWork, String!TextOf
  <1>4. ASSUME NEW x \in StringThreads PROVE WorkOK(x)'
    <2>1. WorkOK(x)
      BY DEF StringInv
    <2>2. ASSUME work[x].at # "idle" PROVE owner'[work[x].s] = x
      <3>1. work[x].s \in Strings /\ owner[work[x].s] = x /\ work[x].s # s
        BY <1>1, <2>1, <2>2 DEF WorkOK, String!Mine, String!Idle
      <3> QED
        BY <1>1, <3>1 DEF StringInv, StringTypes
    <2> QED
      BY <1>1, <2>1, <2>2 DEF WorkOK, Fits, String!TextOf, Users, Makers
  <1>5. ASSUME NEW n \in Buffers PROVE Counts(n)'
    BY <1>1 DEF StringInv, Counts, Users, Makers
  <1> QED
    BY <1>2, <1>3, <1>4, <1>5 DEF StringInv

\* A change of a string that shares begins.
LEMMA ChangeShared ==
  ASSUME StringInv, NEW t \in StringThreads, NEW s \in Strings, NEW op \in String!Operation,
         String!Change(t, s, op), str[s].cat = "Large"
  PROVE  StringInv'
  <1> DEFINE w == [s |-> s, op |-> op, at |-> "load", min |-> 0, new |-> None]
  <1>1. /\ String!Mine(t, s) /\ str[s] # None /\ String!Allowed(str[s].size, op)
        /\ work' = [work EXCEPT ![t] = w] /\ value' = [value EXCEPT ![s] = String!Result(value[s], op)]
        /\ UNCHANGED <<str, heap, owner>>
    BY DEF String!Change, String!Idle
  <1>2. /\ String!TextOf(str[s]) = value[s] /\ value[s] \in String!Text /\ Len(value[s]) = str[s].size
        /\ Fits(str[s])
    BY <1>1, MineShows
  <1>3. String!Result(value[s], op) \in String!Text
    BY <1>1, <1>2, Changed
  <1>4. w \in Works
    BY DEF Works
  <1>5. StringTypes'
    BY <1>1, <1>3, <1>4 DEF StringInv, StringTypes
  <1>6. /\ work'[t] = w /\ \A u \in StringThreads : u # t => work'[u] = work[u]
        /\ value'[s] = String!Result(value[s], op) /\ \A r \in Strings : r # s => value'[r] = value[r]
    BY <1>1 DEF StringInv, StringTypes
  <1>7. \A k \in Buffers : Users(k)' = Users(k) /\ Makers(k)' = Makers(k)
    <2>1. t \notin {u \in StringThreads : work[u].new # None} /\ w.new = None
      BY <1>1 DEF String!Mine, String!Idle
    <2> QED
      BY <1>1, <1>6, <2>1 DEF Users, Makers
  <1>8. OnlyHere(t, s)
    <2>1. owner[s] = t /\ work[t].s = None
      BY <1>1 DEF String!Mine, String!Idle
    <2> QED
      BY <1>1, <1>6, <1>7, <2>1 DEF OnlyHere
  <1>9. String!InWork(s)'
    BY <1>6 DEF String!InWork
  <1>10. StringOK(s)'
    BY <1>1, <1>2, <1>9 DEF StringOK, Fits
  <1>11. String!TextOf(str[s])' = value[s]
    BY <1>1, <1>2 DEF String!TextOf
  <1>12. WorkOK(t)'
    <2>1. owner'[s] = t /\ str'[s] = str[s] /\ work'[t] = w
      BY <1>1, <1>6 DEF String!Mine
    <2> QED
      BY <1>1, <1>6, <1>11, <2>1 DEF WorkOK
  <1>13. \A n \in Buffers : Counts(n)'
    BY <1>1, <1>7 DEF StringInv, Counts
  <1> QED
    BY <1>5, <1>8, <1>10, <1>12, <1>13, Together

\* What a thread has in a call.
LEMMA AtWork ==
  ASSUME StringInv, NEW t \in StringThreads, work[t].at # "idle"
  PROVE  /\ work[t].s \in Strings /\ owner[work[t].s] = t
         /\ str[work[t].s] # None /\ str[work[t].s].cat = "Large" /\ str[work[t].s] \in String!String
         /\ str[work[t].s].data \in Buffers /\ work[t].s \in Users(str[work[t].s].data)
         /\ Fits(str[work[t].s])
         /\ String!TextOf(str[work[t].s]) \in String!Text
         /\ Len(String!TextOf(str[work[t].s])) = str[work[t].s].size
         /\ String!TextOf(str[work[t].s]) = heap[str[work[t].s].data].chars
         /\ work[t] \in Works /\ work[t].op \in String!Operation
         /\ String!Allowed(str[work[t].s].size, work[t].op)
         /\ value[work[t].s] = String!Result(String!TextOf(str[work[t].s]), work[t].op)
  <1>1. /\ work[t].s \in Strings /\ owner[work[t].s] = t
        /\ str[work[t].s] # None /\ str[work[t].s].cat = "Large"
        /\ work[t].op \in String!Operation /\ String!Allowed(str[work[t].s].size, work[t].op)
        /\ value[work[t].s] = String!Result(String!TextOf(str[work[t].s]), work[t].op)
    BY DEF StringInv, WorkOK
  <1>2. Fits(str[work[t].s])
    BY <1>1 DEF StringInv, StringOK
  <1>3. /\ String!TextOf(str[work[t].s]) = heap[str[work[t].s].data].chars
        /\ String!TextOf(str[work[t].s]) \in String!Text
        /\ Len(String!TextOf(str[work[t].s])) = str[work[t].s].size
    BY <1>1, <1>2, Shown DEF StringInv
  <1>4. /\ str[work[t].s] \in String!String /\ str[work[t].s].data \in Buffers
        /\ work[t].s \in Users(str[work[t].s].data)
    BY <1>1, <1>2 DEF Fits, Users
  <1>5. work[t] \in Works
    BY DEF StringInv, StringTypes
  <1> QED
    BY <1>1, <1>2, <1>3, <1>4, <1>5

\* A call goes on and may have changed the capacity that its string remembers.
GoesOn(t, goal, n, cap) ==
  /\ work[t].at \in {"load", "reserve"} /\ goal \in {"reserve", "unshare", "write"}
  /\ n \in Nat /\ cap \in Nat
  /\ goal = "reserve" => work[t].op.kind = "append"
  /\ goal = "write" => heap[str[work[t].s].data].ref <= 1
  /\ work' = [work EXCEPT ![t] = [work[t] EXCEPT !.at = goal, !.min = n]]
  /\ str' = [str EXCEPT ![work[t].s] = [str[work[t].s] EXCEPT !.cap = cap]]
  /\ UNCHANGED <<heap, owner, value>>

LEMMA GoOn ==
  ASSUME StringInv, NEW t \in StringThreads, NEW goal, NEW n, NEW cap, GoesOn(t, goal, n, cap)
  PROVE  StringInv'
  <1> USE DEF GoesOn
  <1> DEFINE w == [work[t] EXCEPT !.at = goal, !.min = n]
             x == [str[work[t].s] EXCEPT !.cap = cap]
  <1>1. PICK s \in Strings : s = work[t].s
    BY AtWork
  <1>2. /\ owner[s] = t /\ str[s] # None /\ str[s].cat = "Large" /\ str[s] \in String!String
        /\ str[s].data \in Buffers /\ s \in Users(str[s].data) /\ Fits(str[s])
        /\ work[t] \in Works /\ work[t].op \in String!Operation
        /\ String!Allowed(str[s].size, work[t].op)
        /\ value[s] = String!Result(String!TextOf(str[s]), work[t].op)
    BY <1>1, AtWork
  <1>3. /\ x \in String!String /\ x.cat = "Large" /\ x.data = str[s].data /\ x.size = str[s].size
        /\ x # None
    BY <1>1, <1>2, StringConstants DEF String!String
  <1>4. /\ w \in Works /\ w.s = s /\ w.op = work[t].op /\ w.at = goal /\ w.new = work[t].new
    BY <1>1, <1>2 DEF Works
  <1>5. work[t].new = None
    BY DEF StringInv, WorkOK
  <1> HIDE DEF w, x, GoesOn
  <1>6. work' = [work EXCEPT ![t] = w] /\ str' = [str EXCEPT ![s] = x]
    BY <1>1 DEF w, x, GoesOn
  <1>7. /\ work'[t] = w /\ \A u \in StringThreads : u # t => work'[u] = work[u]
        /\ str'[s] = x /\ \A r \in Strings : r # s => str'[r] = str[r]
        /\ UNCHANGED <<heap, owner, value>>
    BY <1>6 DEF StringInv, StringTypes, GoesOn
  <1>8. StringTypes'
    <2>1. str' \in [Strings -> String!String \cup {None}]
      BY <1>3, <1>6 DEF StringInv, StringTypes
    <2>2. work' \in [StringThreads -> Works]
      BY <1>4, <1>6 DEF StringInv, StringTypes
    <2> QED
      BY <1>7, <2>1, <2>2 DEF StringInv, StringTypes
  <1>9. \A k \in Buffers : Users(k)' = Users(k) /\ Makers(k)' = Makers(k)
    <2>1. x.data = str[s].data /\ x # None /\ str[s] # None /\ w.new = work[t].new
      BY <1>2, <1>3, <1>4
    <2> QED
      BY <1>7, <2>1 DEF Users, Makers
  <1>10. OnlyHere(t, s)
    <2>1. owner[s] = t
      BY <1>2
    <2> QED
      BY <1>1, <1>7, <1>9, <2>1 DEF OnlyHere
  <1>11. String!InWork(s)'
    BY <1>4, <1>7 DEF String!InWork
  <1>12. StringOK(s)'
    <2>1. Fits(str[s]) /\ str[s].cat = "Large"
      BY <1>2
    <2>2. x.data \in Buffers /\ Len(heap[x.data].chars) = x.size
      BY <1>3, <2>1 DEF Fits
    <2>3. Fits(str[s])'
      BY <1>3, <1>7, <2>2 DEF Fits
    <2> QED
      BY <1>11, <2>3 DEF StringOK
  <1>13. String!TextOf(str[s])' = String!TextOf(str[s])
    <2>1. str'[s].cat = str[s].cat /\ str'[s].data = str[s].data /\ str'[s].size = str[s].size /\ heap' = heap
      BY <1>2, <1>3, <1>7
    <2>2. str[s].cat = "Large"
      BY <1>2
    <2>3. String!TextOf(str[s]) = SubSeq(heap[str[s].data].chars, 1, str[s].size)
      BY <2>2 DEF String!TextOf
    <2>4. String!TextOf(str[s])' = SubSeq(heap'[str'[s].data].chars, 1, str'[s].size)
      BY <2>1, <2>2 DEF String!TextOf
    <2> QED
      BY <2>1, <2>3, <2>4
  <1>14. ASSUME goal = "write" PROVE Users(str[s].data)' = {s} /\ Makers(str[s].data)' = {}
    <2>1. PICK k \in Buffers : k = str[s].data
      BY <1>2
    <2>2. Users(k) = {s} /\ Makers(k) = {}
      <3>1. s \in Users(k) /\ heap[k].ref <= 1
        BY <1>1, <1>2, <1>14, <2>1 DEF GoesOn
      <3> QED
        BY <3>1, SoleUser
    <2>3. Users(k)' = {s} /\ Makers(k)' = {} /\ str'[s].data = k
      BY <1>3, <1>7, <1>9, <2>1, <2>2
    <2> QED
      BY <2>3 DEF Users, Makers
  <1>15. WorkOK(t)'
    <2>1. owner'[s] = t /\ str'[s] = x /\ work'[t] = w /\ value'[s] = value[s]
      BY <1>2, <1>7
    <2>2. goal \in {"reserve", "unshare", "write"} /\ (goal = "reserve" => work[t].op.kind = "append")
      BY DEF GoesOn
    <2>3. x.size = str[s].size /\ x # None /\ x.cat = "Large" /\ w.s = s /\ w.op = work[t].op
          /\ w.at = goal /\ w.new = None
      BY <1>3, <1>4, <1>5
    <2>4. /\ work[t].op \in String!Operation /\ String!Allowed(x.size, work[t].op)
          /\ value'[s] = String!Result(String!TextOf(str[s])', work[t].op)
      BY <1>2, <1>13, <2>1, <2>3
    <2> QED
      BY <1>14, <2>1, <2>2, <2>3, <2>4 DEF WorkOK
  <1>16. \A k \in Buffers : Counts(k)'
    BY <1>7, <1>9 DEF StringInv, Counts
  <1> QED
    BY <1>8, <1>10, <1>12, <1>15, <1>16, Together

LEMMA LoadRefsKeeps ==
  ASSUME StringInv, NEW t \in StringThreads, String!LoadRefs(t)
  PROVE  StringInv'
  <1> DEFINE w == work[t]
             x == str[w.s]
             refs == heap[x.data].ref
             cap == IF String!Others(refs) THEN x.size ELSE x.cap
  <1>1. w.at = "load" /\ UNCHANGED <<str, heap, owner, value>>
    BY DEF String!LoadRefs
  <1>2. /\ w.s \in Strings /\ x \in String!String /\ x.data \in Buffers /\ w \in Works
        /\ w.op \in String!Operation
    BY <1>1, AtWork
  <1>3. refs \in Nat /\ x.cap \in Nat /\ x.size \in Nat /\ w.min \in Nat /\ cap \in Nat
    <2>1. x.cap \in Nat /\ x.size \in Nat
      BY <1>2, StringConstants DEF String!String
    <2>2. refs \in Nat
      BY <1>2 DEF StringInv, StringTypes
    <2>3. w.min \in Nat
      BY <1>2 DEF Works
    <2> QED
      BY <2>1, <2>2, <2>3
  <1>4. x = [x EXCEPT !.cap = x.cap]
    BY <1>2 DEF String!String
  <1>5. str' = [str EXCEPT ![w.s] = [x EXCEPT !.cap = x.cap]]
    BY <1>1, <1>2, <1>4 DEF StringInv, StringTypes
  <1>6. ASSUME NEW goal, String!Goto(t, goal) PROVE work' = [work EXCEPT ![t] = [w EXCEPT !.at = goal, !.min = w.min]]
    <2>1. [w EXCEPT !.at = goal] = [w EXCEPT !.at = goal, !.min = w.min]
      BY <1>2 DEF Works
    <2> QED
      BY <1>6, <2>1 DEF String!Goto
  <1>7. w.min \in Nat /\ x.cap \in Nat
    BY <1>3
  <1>8. CASE w.op.kind # "append"
    <2>1. CASE String!Others(refs)
      <3>1. String!Goto(t, "unshare")
        BY <1>8, <2>1 DEF String!LoadRefs
      <3>2. work' = [work EXCEPT ![t] = [w EXCEPT !.at = "unshare", !.min = w.min]]
        BY <1>6, <3>1
      <3>3. GoesOn(t, "unshare", w.min, x.cap)
        BY <1>1, <1>5, <1>7, <3>2 DEF GoesOn
      <3> QED
        BY <3>3, GoOn
    <2>2. CASE ~String!Others(refs)
      <3>1. String!Goto(t, "write")
        BY <1>8, <2>2 DEF String!LoadRefs
      <3>2. refs <= 1
        BY <1>3, <2>2 DEF String!Others
      <3>3. work' = [work EXCEPT ![t] = [w EXCEPT !.at = "write", !.min = w.min]]
        BY <1>6, <3>1
      <3>4. GoesOn(t, "write", w.min, x.cap)
        BY <1>1, <1>5, <1>7, <3>2, <3>3 DEF GoesOn
      <3> QED
        BY <3>4, GoOn
    <2> QED
      BY <2>1, <2>2
  <1>9. CASE w.op.kind = "append" /\ x.size + 1 > cap
    <2>1. work' = [work EXCEPT ![t].at = "reserve", ![t].min = String!Grown(x.size, cap)]
      BY <1>9 DEF String!LoadRefs
    <2>2. String!Grown(x.size, cap) \in Nat
      BY <1>3, SizesGood
    <2>3. work' = [work EXCEPT ![t] = [w EXCEPT !.at = "reserve", !.min = String!Grown(x.size, cap)]]
      BY <2>1 DEF StringInv, StringTypes
    <2>4. w.op.kind = "append"
      BY <1>9
    <2> HIDE DEF cap
    <2>5. GoesOn(t, "reserve", String!Grown(x.size, cap), x.cap)
      BY <1>1, <1>5, <1>7, <2>2, <2>3, <2>4 DEF GoesOn
    <2> QED
      BY <2>5, GoOn
  <1>10. CASE w.op.kind = "append" /\ ~(x.size + 1 > cap)
    <2>1. String!Goto(t, "write")
      BY <1>10 DEF String!LoadRefs
    <2>2. ~String!Others(refs)
      BY <1>3, <1>10
    <2>3. refs <= 1
      BY <1>3, <2>2 DEF String!Others
    <2>4. work' = [work EXCEPT ![t] = [w EXCEPT !.at = "write", !.min = w.min]]
      BY <1>6, <2>1
    <2>5. GoesOn(t, "write", w.min, x.cap)
      BY <1>1, <1>5, <1>7, <2>3, <2>4 DEF GoesOn
    <2> QED
      BY <2>5, GoOn
  <1> QED
    BY <1>8, <1>9, <1>10

LEMMA ReserveLargeKeeps ==
  ASSUME StringInv, NEW t \in StringThreads, String!ReserveLarge(t)
  PROVE  StringInv'
  <1> DEFINE w == work[t]
             x == str[w.s]
             refs == heap[x.data].ref
             cap == IF w.min > x.cap THEN String!GoodSize(w.min) ELSE x.cap
  <1>1. w.at = "reserve" /\ UNCHANGED <<heap, owner, value>>
    BY DEF String!ReserveLarge
  <1>2. /\ w.s \in Strings /\ x \in String!String /\ x.data \in Buffers /\ w \in Works
        /\ w.op \in String!Operation
    BY <1>1, AtWork
  <1>3. refs \in Nat /\ x.cap \in Nat /\ w.min \in Nat
    BY <1>2, StringConstants DEF StringInv, StringTypes, String!String, Works
  <1>4. cap \in Nat
    BY <1>3, SizesGood
  <1>5. ASSUME NEW goal, String!Goto(t, goal) PROVE work' = [work EXCEPT ![t] = [w EXCEPT !.at = goal, !.min = w.min]]
    <2>1. [w EXCEPT !.at = goal] = [w EXCEPT !.at = goal, !.min = w.min]
      BY <1>2 DEF Works
    <2> QED
      BY <1>5, <2>1 DEF String!Goto
  <1>6. CASE String!Others(refs)
    <2>1. String!Goto(t, "unshare") /\ str' = str
      BY <1>6 DEF String!ReserveLarge
    <2>2. x = [x EXCEPT !.cap = x.cap]
      BY <1>2 DEF String!String
    <2>3. str' = [str EXCEPT ![w.s] = [x EXCEPT !.cap = x.cap]]
      BY <1>2, <2>1, <2>2 DEF StringInv, StringTypes
    <2>4. work' = [work EXCEPT ![t] = [w EXCEPT !.at = "unshare", !.min = w.min]]
      BY <1>5, <2>1
    <2> HIDE DEF cap
    <2>5. GoesOn(t, "unshare", w.min, x.cap)
      BY <1>1, <1>3, <2>3, <2>4 DEF GoesOn
    <2> QED
      BY <2>5, GoOn
  <1>7. CASE ~String!Others(refs)
    <2>1. /\ String!Goto(t, "write")
          /\ str' = [str EXCEPT ![w.s].cap = IF w.min > @ THEN String!GoodSize(w.min) ELSE @]
      BY <1>7 DEF String!ReserveLarge
    <2>2. str' = [str EXCEPT ![w.s] = [x EXCEPT !.cap = cap]]
      BY <2>1
    <2>3. refs <= 1
      BY <1>3, <1>7 DEF String!Others
    <2>4. work' = [work EXCEPT ![t] = [w EXCEPT !.at = "write", !.min = w.min]]
      BY <1>5, <2>1
    <2> HIDE DEF cap
    <2>5. GoesOn(t, "write", w.min, cap)
      BY <1>1, <1>3, <1>4, <2>2, <2>3, <2>4 DEF GoesOn
    <2> QED
      BY <2>5, GoOn
  <1> QED
    BY <1>6, <1>7

\* Whoever writes has the buffer to itself.
LEMMA WriteKeeps ==
  ASSUME StringInv, NEW t \in StringThreads, String!Write(t)
  PROVE  StringInv'
  <1>1. work[t].at = "write"
    BY DEF String!Write
  <1>2. PICK s \in Strings : s = work[t].s
    BY <1>1, AtWork
  <1>3. PICK n \in Buffers : n = str[s].data
    BY <1>1, <1>2, AtWork
  <1> DEFINE text == String!Result(String!TextOf(str[s]), work[t].op)
  <1>4. /\ owner[s] = t /\ str[s] # None /\ str[s].cat = "Large" /\ str[s] \in String!String
        /\ s \in Users(n) /\ String!TextOf(str[s]) \in String!Text
        /\ Len(String!TextOf(str[s])) = str[s].size
        /\ work[t].op \in String!Operation /\ String!Allowed(str[s].size, work[t].op)
        /\ value[s] = text
    BY <1>1, <1>2, <1>3, AtWork
  <1>5. Users(n) = {s} /\ Makers(n) = {} /\ work[t].new = None
    BY <1>1, <1>2, <1>3 DEF StringInv, WorkOK
  <1>6. text \in String!Text
    BY <1>4, Changed
  <1>7. /\ heap' = [heap EXCEPT ![n].chars = text]
        /\ str' = [str EXCEPT ![s].size = Len(text)]
        /\ work' = [work EXCEPT ![t] = String!Idle] /\ UNCHANGED <<owner, value>>
    BY <1>2, <1>3 DEF String!Write
  <1> HIDE DEF text
  <1> DEFINE x == [str[s] EXCEPT !.size = Len(text)]
  <1>8. text \in Seq({a, b}) /\ Len(text) \in 0 .. MaxSize
    BY <1>6, TextIs, StringConstants
  <1>9. /\ x \in String!String /\ x # None /\ x.cat = "Large" /\ x.data = n /\ x.size = Len(text)
    <2>1. x \in String!String
      BY <1>4, <1>8 DEF String!String
    <2> QED
      BY <1>3, <1>4, <2>1, StringConstants DEF String!String
  <1>10. str' = [str EXCEPT ![s] = x]
    BY <1>7
  <1> HIDE DEF x
  <1>11. /\ str'[s] = x /\ \A r \in Strings : r # s => str'[r] = str[r]
         /\ work'[t] = String!Idle /\ \A u \in StringThreads : u # t => work'[u] = work[u]
         /\ heap'[n].chars = text /\ heap'[n].ref = heap[n].ref
         /\ \A k \in Buffers : k # n => heap'[k] = heap[k]
    BY <1>7, <1>10 DEF StringInv, StringTypes
  <1>12. StringTypes'
    <2>1. str' \in [Strings -> String!String \cup {None}]
      BY <1>9, <1>10 DEF StringInv, StringTypes
    <2>2. heap' \in [Buffers -> [ref : Nat, chars : String!Text]]
      BY <1>6, <1>7 DEF StringInv, StringTypes
    <2>3. String!Idle \in Works
      BY DEF Works, String!Idle
    <2>4. work' \in [StringThreads -> Works]
      BY <1>7, <2>3 DEF StringInv, StringTypes
    <2> QED
      BY <1>7, <2>1, <2>2, <2>4 DEF StringInv, StringTypes
  <1>13. \A k \in Buffers : Users(k)' = Users(k) /\ Makers(k)' = Makers(k)
    <2>1. x.data = str[s].data /\ x # None /\ str[s] # None
      BY <1>3, <1>4, <1>9
    <2>2. work'[t].new = None
      BY <1>11 DEF String!Idle
    <2> QED
      BY <1>5, <1>11, <2>1, <2>2 DEF Users, Makers
  <1>14. OnlyHere(t, s)
    <2>1. Near(t, n)
      BY <1>4 DEF Near
    <2>2. \A k \in Buffers : k # n => heap'[k] = heap[k]
      BY <1>11
    <2>3. \A k \in Buffers : Users(k) \subseteq {s} \/ heap'[k].chars = heap[k].chars
      BY <1>5, <2>2
    <2> QED
      BY <1>2, <1>4, <1>7, <1>11, <1>13, <2>1, <2>2, <2>3 DEF OnlyHere
  <1>15. Fits(str[s])'
    BY <1>9, <1>11 DEF Fits
  <1>16. String!TextOf(str[s])' = text
    <2>1. String!TextOf(str[s])' = SubSeq(heap'[n].chars, 1, Len(text))
      BY <1>9, <1>11 DEF String!TextOf
    <2> QED
      BY <1>8, <1>11, <2>1, SubSeqFull
  <1>17. StringOK(s)'
    BY <1>4, <1>7, <1>15, <1>16 DEF StringOK
  <1>18. WorkOK(t)'
    BY <1>11 DEF WorkOK, String!Idle
  <1>19. ASSUME NEW k \in Buffers PROVE Counts(k)'
    <2>1. heap'[k].ref = heap[k].ref
      BY <1>11
    <2> QED
      BY <1>13, <2>1 DEF StringInv, Counts
  <1> QED
    BY <1>12, <1>14, <1>17, <1>18, <1>19, Together

\* A copy of its own is made for a string that shares.
LEMMA UnshareKeeps ==
  ASSUME StringInv, NEW t \in StringThreads, String!Unshare(t)
  PROVE  StringInv'
  <1>1. work[t].at = "unshare" /\ UNCHANGED <<str, owner, value>>
    BY DEF String!Unshare
  <1>2. PICK s \in Strings : s = work[t].s
    BY <1>1, AtWork
  <1> DEFINE op == work[t].op
             shown == String!TextOf(str[s])
  <1>3. /\ owner[s] = t /\ str[s] # None /\ str[s].cat = "Large" /\ str[s] \in String!String
        /\ str[s].data \in Buffers /\ s \in Users(str[s].data) /\ Fits(str[s])
        /\ shown \in String!Text /\ Len(shown) = str[s].size
        /\ shown = heap[str[s].data].chars
        /\ work[t] \in Works /\ op \in String!Operation /\ String!Allowed(str[s].size, op)
        /\ value[s] = String!Result(shown, op)
    BY <1>1, <1>2, AtWork
  <1>4. work[t].new = None /\ s \notin Remade
    <2>1. WorkOK(t) /\ owner[s] = t
      BY <1>3 DEF StringInv
    <2>2. work[t].new = None
      BY <1>1, <2>1 DEF WorkOK
    <2> QED
      BY <2>1, <2>2 DEF Remade
  <1>5. PICK n \in Buffers : n = String!NewBuffer /\ Users(n) = {} /\ Makers(n) = {}
    BY <1>4, NewBufferFree
  <1> DEFINE text == IF op.kind = "shrink" THEN String!Result(shown, op) ELSE shown
             new == IF op.kind = "shrink" THEN String!Made(text, Len(text), String!CategoryFor(Len(text)))
                    ELSE String!Made(text, String!Larger(work[t].min, str[s].cap), "Large")
             w == [work[t] EXCEPT !.at = "deref", !.new = new]
  <1>6. heap' = String!HeapWith(new, text) /\ work' = [work EXCEPT ![t] = w]
    BY <1>2 DEF String!Unshare
  <1>7. text \in String!Text /\ Len(text) \in Nat
    <2> HIDE DEF shown, op
    <2>1. text \in String!Text
      BY <1>3, Changed
    <2> HIDE DEF text
    <2> QED
      BY <2>1, TextIs
  <1>8. /\ NewString(new, text)
        /\ op.kind # "shrink" => new.cat = "Large"
    <2>1. CASE op.kind = "shrink"
      <3>1. String!CategoryFor(Len(text)) \in String!Categories
        BY DEF String!CategoryFor, String!Categories
      <3> HIDE DEF text, op
      <3>2. NewString(String!Made(text, Len(text), String!CategoryFor(Len(text))), text)
        BY <1>4, <1>7, <3>1, NewMade
      <3> QED
        BY <2>1, <3>2
    <2>2. CASE op.kind # "shrink"
      <3>1. "Large" \in String!Categories
        BY DEF String!Categories
      <3>2. work[t].min \in Nat /\ str[s].cap \in Nat
        BY <1>3 DEF Works, String!String
      <3>3. String!Larger(work[t].min, str[s].cap) \in Nat
        BY <3>2, SizesGood
      <3> HIDE DEF text, op
      <3>4. /\ NewString(String!Made(text, String!Larger(work[t].min, str[s].cap), "Large"), text)
            /\ String!Made(text, String!Larger(work[t].min, str[s].cap), "Large").cat = "Large"
        BY <1>4, <1>7, <3>1, <3>3, NewMade
      <3> QED
        BY <2>2, <3>4
    <2> QED
      BY <2>1, <2>2
  <1>9. text = IF op.kind = "shrink" THEN value[s] ELSE shown
    BY <1>3
  <1> HIDE DEF text, new
  <1>10. /\ new \in String!String /\ new # None /\ new.size = Len(text)
         /\ new.cat = "Large" => new.data = n
         /\ new.cat # "Large" => new.data = None /\ new.chars = text
    BY <1>5, <1>8 DEF NewString
  <1>11. /\ w \in Works /\ w.s = s /\ w.op = op /\ w.at = "deref" /\ w.new = new
    BY <1>2, <1>3, <1>10 DEF Works
  <1> HIDE DEF w
  <1>12. /\ work'[t] = w /\ \A u \in StringThreads : u # t => work'[u] = work[u]
    BY <1>6 DEF StringInv, StringTypes
  <1>13. ASSUME NEW k \in Buffers
         PROVE  /\ Users(k)' = Users(k)
                /\ Makers(k)' = IF new.cat = "Large" /\ k = n THEN {t} ELSE Makers(k)
                /\ heap'[k] = IF new.cat = "Large" /\ k = n THEN [ref |-> 1, chars |-> text] ELSE heap[k]
    <2>1. Makers(k)' = IF w.new # None /\ w.new.data = k THEN Makers(k) \cup {t} ELSE Makers(k) \ {t}
      BY <1>6, MakersBy DEF StringInv
    <2>2. w.new # None /\ w.new.data = k <=> new.cat = "Large" /\ k = n
      BY <1>10, <1>11, StringConstants
    <2>3. t \notin Makers(k)
      BY <1>4 DEF Makers
    <2>4. Makers(k)' = IF new.cat = "Large" /\ k = n THEN {t} ELSE Makers(k)
      BY <1>5, <2>1, <2>2, <2>3
    <2>5. Users(k)' = Users(k)
      BY <1>1 DEF Users
    <2>6. heap'[k] = IF new.cat = "Large" /\ k = n THEN [ref |-> 1, chars |-> text] ELSE heap[k]
      BY <1>6, <1>10 DEF String!HeapWith, StringInv, StringTypes
    <2> QED
      BY <2>4, <2>5, <2>6
  <1>14. StringTypes'
    <2>1. heap' \in [Buffers -> [ref : Nat, chars : String!Text]]
      BY <1>5, <1>6, <1>7, <1>10 DEF String!HeapWith, StringInv, StringTypes
    <2>2. work' \in [StringThreads -> Works]
      BY <1>6, <1>11 DEF StringInv, StringTypes
    <2> QED
      BY <1>1, <2>1, <2>2 DEF StringInv, StringTypes
  <1>15. OnlyHere(t, s)
    <2>1. Near(t, n)
      BY <1>5 DEF Near
    <2>2. \A k \in Buffers : Users(k) \subseteq {s} \/ heap'[k].chars = heap[k].chars
      BY <1>5, <1>13
    <2> QED
      BY <1>1, <1>2, <1>3, <1>12, <1>13, <2>1, <2>2 DEF OnlyHere
  <1>16. heap'[str[s].data] = heap[str[s].data]
    BY <1>3, <1>5, <1>13
  <1>17. String!TextOf(str[s])' = shown
    <2>1. str'[s] = str[s]
      BY <1>1
    <2> QED
      BY <1>16, <2>1 DEF String!TextOf
  <1>18. StringOK(s)'
    <2>1. String!InWork(s)'
      BY <1>11, <1>12 DEF String!InWork
    <2> QED
      BY <1>1, <1>3, <1>16, <2>1 DEF StringOK, Fits
  <1>19. Fits(work[t].new)' /\ String!TextOf(work[t].new)' = text
    <2>1. work'[t].new = new
      BY <1>11, <1>12
    <2>2. text \in Seq({a, b})
      BY <1>7, TextIs
    <2>3. SubSeq(text, 1, Len(text)) = text
      BY <2>2, SubSeqFull
    <2>4. new.cat = "Large" => heap'[new.data].chars = text
      BY <1>10, <1>13
    <2>5. Fits(work[t].new)'
      BY <1>10, <2>1, <2>4 DEF Fits
    <2>6. String!TextOf(work[t].new)' = text
      BY <1>10, <2>1, <2>3, <2>4 DEF String!TextOf
    <2> QED
      BY <2>5, <2>6
  <1>20. ASSUME new.cat = "Large"
         PROVE  Users(work[t].new.data)' = {} /\ Makers(work[t].new.data)' = {t}
    <2>1. Users(n)' = {} /\ Makers(n)' = {t} /\ work'[t].new.data = n
      BY <1>5, <1>10, <1>11, <1>12, <1>13, <1>20
    <2> QED
      BY <2>1 DEF Users, Makers
  <1>21. WorkOK(t)'
    <2>1. /\ owner'[s] = t /\ str'[s] = str[s] /\ work'[t] = w /\ value'[s] = value[s]
          /\ op.kind # "shrink" => new.cat = "Large"
      BY <1>1, <1>3, <1>8, <1>12
    <2>2. op.kind # "shrink" => new.size = str[s].size /\ text = shown
      BY <1>3, <1>9, <1>10
    <2>3. op.kind = "shrink" => text = value[s]
      BY <1>9
    <2> HIDE DEF shown, op
    <2> QED
      BY <1>3, <1>10, <1>11, <1>17, <1>19, <1>20, <2>1, <2>2, <2>3 DEF WorkOK
  <1>22. ASSUME NEW k \in Buffers PROVE Counts(k)'
    <2>1. CASE new.cat = "Large" /\ k = n
      <3>1. heap'[k].ref = 1 /\ Users(k)' = {} /\ Makers(k)' = {t}
        BY <1>5, <1>13, <2>1
      <3>2. Cardinality({t}) = 1 /\ Cardinality({}) = 0
        BY FS_Singleton, FS_EmptySet
      <3> QED
        BY <3>1, <3>2 DEF Counts
    <2>2. CASE ~(new.cat = "Large" /\ k = n)
      <3>1. heap'[k] = heap[k] /\ Users(k)' = Users(k) /\ Makers(k)' = Makers(k)
        BY <1>13, <2>2
      <3> QED
        BY <3>1 DEF Counts, StringInv
    <2> QED
      BY <2>1, <2>2
  <1> QED
    BY <1>14, <1>15, <1>18, <1>21, <1>22, Together

\* The string takes its copy and leaves the buffer that it shared.
LEMMA DerefOldKeeps ==
  ASSUME StringInv, NEW t \in StringThreads, String!DerefOld(t)
  PROVE  StringInv'
  <1>1. work[t].at = "deref" /\ UNCHANGED <<owner, value>>
    BY DEF String!DerefOld
  <1>2. PICK s \in Strings : s = work[t].s
    BY <1>1, AtWork
  <1>3. PICK n \in Buffers : n = str[s].data
    BY <1>1, <1>2, AtWork
  <1> DEFINE new == work[t].new
             op == work[t].op
             w == IF op.kind = "shrink" THEN String!Idle ELSE [work[t] EXCEPT !.at = "write", !.new = None]
  <1>4. /\ owner[s] = t /\ str[s] # None /\ str[s].cat = "Large" /\ s \in Users(n)
        /\ work[t] \in Works /\ op \in String!Operation /\ String!Allowed(str[s].size, op)
        /\ value[s] = String!Result(String!TextOf(str[s]), op)
    BY <1>1, <1>2, <1>3, AtWork
  <1>5. /\ new # None /\ Fits(new) /\ new \in String!String
        /\ new.cat = "Large" => Users(new.data) = {} /\ Makers(new.data) = {t} /\ new.data \in Buffers
        /\ new.cat # "Large" => new.data = None
        /\ op.kind = "shrink" => String!TextOf(new) = value[s]
        /\ op.kind # "shrink" => /\ new.cat = "Large" /\ new.size = str[s].size
                                 /\ String!TextOf(new) = String!TextOf(str[s])
    <2>1. WorkOK(t)
      BY DEF StringInv
    <2> QED
      BY <1>1, <1>2, <2>1 DEF WorkOK, Fits
  <1>6. /\ heap' = String!Deref(heap, n) /\ str' = [str EXCEPT ![s] = new]
        /\ work' = [work EXCEPT ![t] = w]
    BY <1>2, <1>3 DEF String!DerefOld
  <1>7. /\ w \in Works /\ w.new = None
        /\ op.kind = "shrink" => w = String!Idle
        /\ op.kind # "shrink" => w.s = s /\ w.op = op /\ w.at = "write"
    <2>1. String!Idle \in Works /\ String!Idle.new = None
      BY DEF Works, String!Idle
    <2> QED
      BY <1>2, <1>4, <2>1 DEF Works
  <1> HIDE DEF w, new
  <1>8. /\ heap' \in [Buffers -> [ref : Nat, chars : String!Text]]
        /\ heap'[n].ref = heap[n].ref - 1
        /\ Users(n) \subseteq {s} \/ heap'[n].chars = heap[n].chars
        /\ \A k \in Buffers : k # n => heap'[k] = heap[k]
    BY <1>4, <1>6, DerefBuffer
  <1>9. /\ str'[s] = new /\ \A r \in Strings : r # s => str'[r] = str[r]
        /\ work'[t] = w /\ \A u \in StringThreads : u # t => work'[u] = work[u]
    BY <1>6 DEF StringInv, StringTypes
  <1>10. ASSUME NEW k \in Buffers
         PROVE  /\ k = n => Users(k)' = Users(k) \ {s} /\ Makers(k)' = Makers(k)
                /\ new.cat = "Large" /\ k = new.data =>
                     k # n /\ Users(k)' = {s} /\ Makers(k)' = {}
                /\ k # n /\ ~(new.cat = "Large" /\ k = new.data) =>
                     Users(k)' = Users(k) /\ Makers(k)' = Makers(k)
    <2>1. Users(k)' = IF new # None /\ new.data = k THEN Users(k) \cup {s} ELSE Users(k) \ {s}
      BY <1>6, UsersBy DEF StringInv
    <2>2. Makers(k)' = IF w.new # None /\ w.new.data = k THEN Makers(k) \cup {t} ELSE Makers(k) \ {t}
      BY <1>6, MakersBy DEF StringInv
    <2>3. new # None /\ new.data = k <=> new.cat = "Large" /\ k = new.data
      BY <1>5, StringConstants
    <2>4. t \in Makers(k) => new.cat = "Large" /\ k = new.data
      BY <2>3 DEF Makers, new
    <2>5. Makers(k)' = Makers(k) \ {t}
      BY <1>7, <2>2
    <2>6. s \in Users(k) => k = n
      BY <1>3 DEF Users
    <2>7. new.cat = "Large" /\ k = new.data => Users(k) = {} /\ Makers(k) = {t} /\ k # n
      BY <1>4, <1>5
    <2>8. ASSUME new.cat = "Large", k = new.data PROVE k # n /\ Users(k)' = {s} /\ Makers(k)' = {}
      BY <2>1, <2>3, <2>5, <2>7, <2>8
    <2>9. ASSUME ~(new.cat = "Large" /\ k = new.data)
          PROVE  Users(k)' = Users(k) \ {s} /\ Makers(k)' = Makers(k)
      BY <2>1, <2>3, <2>4, <2>5, <2>9
    <2>10. ASSUME k = n PROVE ~(new.cat = "Large" /\ k = new.data)
      BY <2>7, <2>10
    <2> QED
      BY <2>6, <2>8, <2>9, <2>10
  <1>11. StringTypes'
    <2>1. str' \in [Strings -> String!String \cup {None}]
      BY <1>5, <1>6 DEF StringInv, StringTypes
    <2>2. work' \in [StringThreads -> Works]
      BY <1>6, <1>7 DEF StringInv, StringTypes
    <2> QED
      BY <1>1, <1>8, <2>1, <2>2 DEF StringInv, StringTypes
  <1>12. OnlyHere(t, s)
    <2>1. Near(t, n)
      BY <1>4 DEF Near
    <2>2. ASSUME new.cat = "Large" PROVE Near(t, new.data)
      BY <1>5, <2>2 DEF Near
    <2>3. ASSUME NEW k \in Buffers, ~Near(t, k)
          PROVE  heap'[k] = heap[k] /\ Users(k)' = Users(k) /\ Makers(k)' = Makers(k)
      <3>1. k # n /\ ~(new.cat = "Large" /\ k = new.data)
        BY <2>1, <2>2, <2>3
      <3> QED
        BY <1>8, <1>10, <3>1
    <2>4. \A k \in Buffers : Users(k) \subseteq {s} \/ heap'[k].chars = heap[k].chars
      BY <1>8
    <2> QED
      BY <1>1, <1>2, <1>4, <1>9, <2>3, <2>4 DEF OnlyHere
  <1>13. new.cat = "Large" => heap'[new.data] = heap[new.data]
    <2>1. ASSUME new.cat = "Large" PROVE new.data # n
      BY <1>4, <1>5, <2>1
    <2> QED
      BY <1>5, <1>8, <2>1
  <1>14. Fits(str[s])'
    BY <1>5, <1>9, <1>13 DEF Fits
  <1>15. String!TextOf(str[s])' = String!TextOf(new)
    BY <1>9, <1>13 DEF String!TextOf
  <1>16. StringOK(s)'
    <2>1. CASE op.kind = "shrink"
      BY <1>1, <1>5, <1>14, <1>15, <2>1 DEF StringOK
    <2>2. CASE op.kind # "shrink"
      <3>1. String!InWork(s)'
        BY <1>7, <1>9, <2>2 DEF String!InWork
      <3> QED
        BY <1>14, <3>1 DEF StringOK
    <2> QED
      BY <2>1, <2>2
  <1>17. WorkOK(t)'
    <2>1. CASE op.kind = "shrink"
      BY <1>7, <1>9, <2>1 DEF WorkOK, String!Idle
    <2>2. CASE op.kind # "shrink"
      <3>1. PICK k \in Buffers : k = new.data
        BY <1>5, <2>2
      <3>2. Users(k)' = {s} /\ Makers(k)' = {} /\ str'[s].data = k
        BY <1>5, <1>9, <1>10, <2>2, <3>1
      <3>3. Users(str[s].data)' = {s} /\ Makers(str[s].data)' = {}
        BY <3>2 DEF Users, Makers
      <3>4. /\ owner'[s] = t /\ str'[s] = new /\ work'[t] = w /\ value'[s] = value[s]
            /\ new.size = str[s].size /\ new.cat = "Large" /\ new # None
        BY <1>1, <1>4, <1>5, <1>9, <2>2
      <3>5. value'[s] = String!Result(String!TextOf(str[s])', op)
        BY <1>4, <1>5, <1>15, <2>2, <3>4
      <3>6. w.s = s /\ w.op = op /\ w.at = "write" /\ w.new = None
        BY <1>7, <2>2
      <3>7. String!Allowed(new.size, op) /\ op \in String!Operation
        BY <1>4, <3>4
      <3> HIDE DEF op
      <3> QED
        BY <3>3, <3>4, <3>5, <3>6, <3>7 DEF WorkOK
    <2> QED
      BY <2>1, <2>2
  <1>18. ASSUME NEW k \in Buffers PROVE Counts(k)'
    <2>1. heap[k].ref = Cardinality(Users(k)) + Cardinality(Makers(k))
      BY DEF StringInv, Counts
    <2>2. CASE k = n
      <3>1. /\ Cardinality(Users(k)) \in Nat /\ Cardinality(Makers(k)) \in Nat
            /\ Cardinality(Users(k) \ {s}) = Cardinality(Users(k)) - 1
        BY <1>4, <2>2, CountBy
      <3>2. Users(k)' = Users(k) \ {s} /\ Makers(k)' = Makers(k)
        BY <1>10, <2>2
      <3>3. Cardinality(Users(k)') = Cardinality(Users(k)) - 1
        BY <3>1, <3>2
      <3>4. heap'[k].ref = heap[k].ref - 1
        BY <1>8, <2>2
      <3>5. heap'[k].ref = Cardinality(Users(k)') + Cardinality(Makers(k)')
        BY <2>1, <3>1, <3>2, <3>3, <3>4
      <3> QED
        BY <3>5 DEF Counts
    <2>3. CASE new.cat = "Large" /\ k = new.data
      <3>1. /\ Users(k) = {} /\ Makers(k) = {t} /\ Users(k)' = {s} /\ Makers(k)' = {}
            /\ heap'[k].ref = heap[k].ref
        BY <1>5, <1>10, <1>13, <2>3
      <3>2. Cardinality({s}) = 1 /\ Cardinality({t}) = 1 /\ Cardinality({}) = 0
        BY FS_Singleton, FS_EmptySet
      <3> QED
        BY <2>1, <3>1, <3>2 DEF Counts
    <2>4. CASE k # n /\ ~(new.cat = "Large" /\ k = new.data)
      <3>1. heap'[k] = heap[k] /\ Users(k)' = Users(k) /\ Makers(k)' = Makers(k)
        BY <1>8, <1>10, <2>4
      <3> QED
        BY <2>1, <3>1 DEF Counts
    <2> QED
      BY <2>2, <2>3, <2>4
  <1> QED
    BY <1>11, <1>12, <1>16, <1>17, <1>18, Together

-----------------------------------------------------------------------------

LEMMA StringStart == String!Init => StringInv
  <1> SUFFICES ASSUME String!Init PROVE StringInv
    OBVIOUS
  <1>1. StringTypes
    <2>1. String!Idle \in Works
      BY DEF Works, String!Idle
    <2> QED
      BY <2>1, EmptyText DEF String!Init, StringTypes
  <1>2. \A s \in Strings : StringOK(s)
    BY DEF String!Init, StringOK
  <1>3. \A t \in StringThreads : WorkOK(t)
    BY DEF String!Init, WorkOK, String!Idle
  <1>4. ASSUME NEW n \in Buffers PROVE Counts(n)
    <2>1. Users(n) = {} /\ Makers(n) = {} /\ heap[n].ref = 0
      BY DEF String!Init, Users, Makers, String!Idle
    <2>2. Cardinality({}) = 0
      BY FS_EmptySet
    <2> QED
      BY <2>1, <2>2 DEF Counts
  <1> QED
    BY <1>1, <1>2, <1>3, <1>4 DEF StringInv

LEMMA StringStep == StringInv /\ [String!Next]_stringVars => StringInv'
  <1> SUFFICES ASSUME StringInv, [String!Next]_stringVars PROVE StringInv'
    OBVIOUS
  <1>1. ASSUME NEW t \in StringThreads, NEW s \in Strings, NEW other \in Strings, String!Copy(t, s, other)
        PROVE  StringInv'
    BY <1>1, CopyAlone, CopyShared
  <1>2. ASSUME NEW t \in StringThreads, NEW s \in Strings, NEW op \in String!Operation, String!Change(t, s, op)
        PROVE  StringInv'
    BY <1>2, ChangeAlone, ChangeShared
  <1>3. CASE UNCHANGED stringVars
    <2>1. str' = str /\ heap' = heap /\ owner' = owner /\ work' = work /\ value' = value
      BY <1>3 DEF stringVars
    <2>2. StringTypes'
      BY <2>1 DEF StringInv, StringTypes
    <2>3. ASSUME NEW s \in Strings PROVE StringOK(s)'
      BY <2>1 DEF StringInv, StringOK, Fits, String!InWork, String!TextOf
    <2>4. ASSUME NEW t \in StringThreads PROVE WorkOK(t)'
      BY <2>1 DEF StringInv, WorkOK, Fits, Users, Makers, String!TextOf
    <2>5. ASSUME NEW n \in Buffers PROVE Counts(n)'
      BY <2>1 DEF StringInv, Counts, Users, Makers
    <2> QED
      BY <2>2, <2>3, <2>4, <2>5 DEF StringInv
  <1>4. CASE String!Next
    BY <1>1, <1>2, <1>4, ConstructKeeps, DestroyKeeps, HandKeeps, LoadRefsKeeps, ReserveLargeKeeps,
       UnshareKeeps, DerefOldKeeps, WriteKeeps
    DEF String!Next
  <1> QED
    BY <1>3, <1>4

LEMMA StringPromises == StringInv => String!TypeOK /\ String!SharingIsInvisible
  <1> SUFFICES ASSUME StringInv PROVE String!TypeOK /\ String!SharingIsInvisible
    OBVIOUS
  <1>1. ASSUME NEW s \in Strings, str[s] # None
        PROVE  str[s] \in String!String /\ (str[s].cat = "Large" <=> str[s].data # None)
    BY <1>1, StringConstants DEF StringInv, StringOK, Fits
  <1>2. ASSUME NEW n \in Buffers PROVE heap[n].ref \in 0 .. Cardinality(Strings) /\ heap[n].chars \in String!Text
    <2>1. heap[n].ref = Cardinality(Users(n)) + Cardinality(Makers(n)) /\ heap[n].chars \in String!Text
      BY DEF StringInv, StringTypes, Counts
    <2>2. IsFiniteSet(Strings) /\ Cardinality(Strings) \in Nat /\ Users(n) \subseteq Strings
      BY StringConstants, FS_CardinalityType DEF Users
    <2>3. Cardinality(Users(n)) \in Nat /\ Cardinality(Users(n)) <= Cardinality(Strings)
      BY <2>2, FS_Subset, FS_CardinalityType
    <2>4. CASE Makers(n) = {}
      <3>1. Cardinality(Makers(n)) = 0
        BY <2>4, FS_EmptySet
      <3> QED
        BY <2>1, <2>2, <2>3, <3>1
    <2>5. ASSUME NEW t \in Makers(n) PROVE heap[n].ref \in 0 .. Cardinality(Strings)
      <3>1. t \in StringThreads /\ work[t].new # None /\ work[t].new.data = n /\ WorkOK(t)
        BY DEF Makers, StringInv
      <3>2. work[t].at = "deref"
        BY <3>1 DEF WorkOK
      <3>3. Fits(work[t].new) /\ work[t].s \in Strings
        BY <3>1, <3>2 DEF WorkOK
      <3>4. work[t].new.cat = "Large"
        BY <3>1, <3>3, StringConstants DEF Fits
      <3>5. Users(n) = {} /\ Makers(n) = {t}
        BY <3>1, <3>2, <3>4 DEF WorkOK
      <3>6. Cardinality({t}) = 1 /\ Cardinality({}) = 0
        BY FS_Singleton, FS_EmptySet
      <3>7. Cardinality(Strings) # 0
        BY <2>2, <3>3, FS_EmptySet
      <3> QED
        BY <2>1, <2>2, <3>5, <3>6, <3>7
    <2> QED
      BY <2>1, <2>4, <2>5
  <1>3. String!TypeOK
    <2>1. \A n \in Buffers : heap[n].ref \in 0 .. String!Cardinality(Strings) /\ heap[n].chars \in String!Text
      BY <1>2, SameCount
    <2>2. \A t \in StringThreads : work[t].at \in {"idle", "load", "reserve", "unshare", "deref", "write"}
      BY DEF StringInv, StringTypes, Works
    <2> QED
      BY <1>1, <2>1, <2>2 DEF String!TypeOK, StringInv, StringTypes
  <1>4. String!CopiesAreSeparate
    BY DEF StringInv, StringOK, String!CopiesAreSeparate
  <1>5. ASSUME NEW n \in Buffers PROVE heap[n].ref = String!References(n)
    <2>1. heap[n].ref = Cardinality(Users(n)) + Cardinality(Makers(n))
      BY DEF StringInv, Counts
    <2>2. String!References(n) = Cardinality(Users(n)) + Cardinality(Makers(n))
      BY SameCount DEF String!References, Users, Makers
    <2> QED
      BY <2>1, <2>2
  <1> QED
    BY <1>3, <1>4, <1>5 DEF String!SharingIsInvisible, String!RefsAreExact

-----------------------------------------------------------------------------
(* The parts together: a step of one is a stutter of the others.           *)

LEMMA PartStart ==
  PartInit => /\ String!Init /\ Logger!Init /\ BiHash!Init /\ FreeList!Init /\ Atomic!Init /\ Locker!Init /\ Static!Init
  BY DEF PartInit

LEMMA PartStep ==
  [PartNext]_allVars =>
    /\ UNCHANGED part
    /\ [String!Next]_stringVars /\ [Logger!Next]_loggerVars
    /\ [BiHash!Next]_mapVars /\ [FreeList!Next]_listVars
    /\ [Atomic!Next]_atomicVars /\ [Locker!Next]_lockerVars /\ [Static!Next]_staticVars
  <1> SUFFICES ASSUME [PartNext]_allVars
               PROVE  /\ UNCHANGED part
                      /\ [String!Next]_stringVars /\ [Logger!Next]_loggerVars
                      /\ [BiHash!Next]_mapVars /\ [FreeList!Next]_listVars
                      /\ [Atomic!Next]_atomicVars /\ [Locker!Next]_lockerVars /\ [Static!Next]_staticVars
    OBVIOUS
  <1>1. CASE UNCHANGED allVars
    BY <1>1 DEF allVars
  <1>2. CASE PartNext
    BY <1>2 DEF PartNext
  <1> QED
    BY <1>1, <1>2

\* Every string has the text that its own calls gave it, whoever it shares a buffer with and
\* whatever other threads do to theirs meanwhile, and a buffer counts its users
\* (scstringdata.cpp:37-49, 204-242, 318-378).
THEOREM StringsAreSeparate == PartSpec => []SharingIsInvisible
  <1>1. PartInit => StringInv
    BY PartStart, StringStart
  <1>2. StringInv /\ [PartNext]_allVars => StringInv'
    BY PartStep, StringStep
  <1>3. StringInv => SharingIsInvisible
    BY StringPromises DEF SharingIsInvisible
  <1> QED
    BY <1>1, <1>2, <1>3, PTL DEF PartSpec

\* The names of all loggers and the data of all builders: there is one of each, with one
\* owner, in every interleaving of any number of threads; and a global static object is
\* made once, whoever gets it before the program's exit destroys it gets it whole, and who
\* asks after its guard was told of that gets null (scloggerfactory.cpp:23-55,
\* scloggerfactorybuilder.cpp:88-118, scglobalstatic.h:24-86).
THEOREM LoggersAndStatics == PartSpec => []OneOfEach
  <1> DEFINE Inv == DataInv /\ NamesInv /\ StaticInv
  <1>1. PartInit => Inv
    BY PartStart, LoggerInit, StaticInit
  <1>2. Inv /\ [PartNext]_allVars => Inv'
    BY PartStep, DataStep, NamesStep, StaticStep
  <1>3. Inv => OneOfEach
    BY LoggerPromises, StaticPromises DEF OneOfEach
  <1> HIDE DEF Inv
  <1> QED
    BY <1>1, <1>2, <1>3, PTL DEF PartSpec

\* What an atomic operation publishes by its name is seen by whoever collects it by its
\* name, the thread that drops the last reference sees what all wrote, and a lock is held
\* once for each locker that says so (scatomic.h:24-160, 247-300, screadwritelock.h:37-137).
THEOREM AtomicsAndLockers == PartSpec => []PublishedAndHeld
  <1> DEFINE Inv == SeenInv /\ CountInv /\ LockerInv
  <1>1. PartInit => Inv
    BY PartStart, AtomicInit, LockerInit
  <1>2. Inv /\ [PartNext]_allVars => Inv'
    BY PartStep, SeenStep, CountStep, LockerStep
  <1>3. Inv => PublishedAndHeld
    BY AtomicPromises, LockerPromises DEF PublishedAndHeld
  <1> HIDE DEF Inv
  <1> QED
    BY <1>1, <1>2, <1>3, PTL DEF PartSpec

\* The parts behave as the free list does.
LEMMA ListBehaves == PartSpec => FreeList!Spec
  <1>1. PartInit => FreeList!Init
    BY PartStart
  <1>2. [PartNext]_allVars => [FreeList!Next]_FreeList!vars
    <2> SUFFICES ASSUME [PartNext]_allVars PROVE [FreeList!Next]_FreeList!vars
      OBVIOUS
    <2>1. FreeList!Next \/ UNCHANGED listVars
      BY PartStep
    <2>2. UNCHANGED listVars => UNCHANGED FreeList!vars
      BY DEF listVars, FreeList!vars
    <2> QED
      BY <2>1, <2>2
  <1> QED
    BY <1>1, <1>2, PTL DEF PartSpec, FreeList!Spec

\* The two maps of a two-way map are inverse to each other after any calls in which
\* nothing inserted had another partner already, and the ids that nobody has are on the stack of the free list, once
\* (scbihash.h:71-173, scfreelist.h:82, 158-200).
THEOREM MapsAndStacks == FewReleases => (PartSpec => []StructuresAgree)
  <1> SUFFICES ASSUME FewReleases PROVE PartSpec => []StructuresAgree
    OBVIOUS
  <1>1. PartInit => MapInv
    BY PartStart, MapInit
  <1>2. MapInv /\ [PartNext]_allVars => MapInv'
    BY PartStep, MapStep
  <1>3. FreeList!NoWrap
    BY ListConstants
  <1>4. FreeList!Spec => []FreeList!TypeOK
    BY <1>3, FreeList!TypeCorrect
  <1>5. FreeList!Spec => []FreeList!StackIsFree
    BY <1>3, FreeList!FreeIdsAreStacked
  <1>6. MapInv /\ FreeList!TypeOK /\ FreeList!StackIsFree => StructuresAgree
    BY MapPromises DEF StructuresAgree
  <1> QED
    BY <1>1, <1>2, <1>4, <1>5, <1>6, ListBehaves, PTL DEF PartSpec

\* The free list is a pool: next() hands out an id that nobody has, and only release()
\* takes it back (scfreelist.h:162-199).
THEOREM ListIsPool == FewReleases => (PartSpec => ImplementsIdPool)
  <1> SUFFICES ASSUME FewReleases PROVE PartSpec => ImplementsIdPool
    OBVIOUS
  <1>1. FreeList!NoWrap
    BY ListConstants
  <1>2. FreeList!Spec => FreeList!ImplementsIdPool
    BY <1>1, FreeList!Refinement
  <1> QED
    BY <1>2, ListBehaves, PTL DEF ImplementsIdPool
=============================================================================
