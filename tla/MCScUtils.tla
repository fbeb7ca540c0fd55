----------------------------- MODULE MCScUtils -----------------------------
(***************************************************************************)
(* Small instances of the parts of ScUtils that several threads use, of    *)
(* the thread pool without calls of waitForDone, and of the two-way map.   *)
(* They keep no state in common: a behaviour uses one of them, part, and   *)
(* leaves the others as they began.                                        *)
(***************************************************************************)
EXTENDS ScRecursiveReadWriteLock, TLC

CONSTANTS StringThreads, Strings, a, b, Buffers,         \* strings
          kMaxSmallSize, kMaxMediumSize, MaxSize,
          Names, Default, Own,                           \* loggers
          Keys, Vals,                                    \* the two-way map
          Workers, SerialCount, MaxHeld, MaxLag,         \* the free list and atomic integers
          Cells, Modulus, MaxStores,                     \* atomic integers
          ReadLockers, WriteLockers,                     \* lockers
          Tasks, Priorities, ThreadLimits, MaxReserved, MaxPageSize,   \* the pool
          None

MCSymmetry ==
  Permutations(StringThreads) \cup Permutations(Strings) \cup Permutations(Workers)

VARIABLES
  part,
  str, heap, owner, work, value,
  g_factory, g_factoryData, map, d, built, formatter, deleted, factoryMutex,
  loggerMapMutex, step, arg, made, returned, unformatted,
  hash, inverted, replaced,
  _next, _v, element, place, id, at, newat, owned, lag,
  _q_value, newest, seen, due, counting, references, last,
  q_val, reading, writing,
  threadsafeStatics, guard, object, constructions, initialized, maker, spot, answer, late,
  maxThreadCount, reservedThreadNum, activeThreadNum, allThreads, waitingThreads,
  expiredThreads, queue, starting, worker, task, status, waiter

lockVars == <<counts, waitingReaders, waitingWriters, readerCond, writerCond, pc>>
stringVars == <<str, heap, owner, work, value>>
loggerVars == <<g_factory, g_factoryData, map, d, built, formatter, deleted, factoryMutex,
                loggerMapMutex, step, arg, made, returned, unformatted>>
mapVars == <<hash, inverted, replaced>>
listVars == <<_next, _v, element, place, id, at, newat, owned, lag>>
atomicVars == <<_q_value, newest, seen, due, counting, references, last>>
lockerVars == <<q_val, reading, writing>>
staticVars == <<threadsafeStatics, guard, object, constructions, initialized, maker, spot, answer, late>>
poolVars == <<maxThreadCount, reservedThreadNum, activeThreadNum, allThreads, waitingThreads,
              expiredThreads, queue, starting, worker, task, status, waiter>>
allVars == <<lockVars, stringVars, loggerVars, mapVars, listVars, atomicVars, lockerVars,
             staticVars, poolVars, part>>

String == INSTANCE ScStringData WITH
  Threads <- StringThreads, Chars <- {a, b}, Texts <- {<<a, a, a>>, <<a>>},
  Appends <- {a}, Writes <- {b}, Deltas <- {2}

Logger == INSTANCE ScLoggerFactory WITH pc <- step

BiHash == INSTANCE ScBiHash WITH
  DefaultKey <- CHOOSE k \in Keys : TRUE, DefaultVal <- CHOOSE v \in Vals : TRUE

\* One id in the first array, two in the second.
MCBlockFor == [x \in 0 .. 2 |-> IF x = 0 THEN 1 ELSE 2]

FreeList == INSTANCE ScFreeList WITH
  Threads <- Workers, Total <- 3, BlockFor <- MCBlockFor, pc <- place

Atomic == INSTANCE ScAtomic WITH
  Threads <- Workers, held <- references

Locker == INSTANCE ScLocker WITH Readers <- ReadLockers, Writers <- WriteLockers

Static == INSTANCE ScGlobalStatic WITH Threads <- Workers, owner <- maker

Pool == INSTANCE ScThreadPool WITH
  Waiters <- {}, WaitTimes <- {}, NoTask <- None, NoWorker <- None

ASSUME PartAssumption ==
  /\ String!StringAssumption /\ Logger!LoggerAssumption /\ FreeList!FreeListAssumption
  /\ Atomic!AtomicAssumption /\ Locker!LockerAssumption /\ Static!StaticAssumption
  /\ Pool!PoolAssumption

-----------------------------------------------------------------------------

PartInit ==
  /\ part \in {"lock", "string", "logger", "map", "list", "atomic", "locker", "static",
             "pool"}
  /\ Init /\ String!Init /\ Logger!Init /\ BiHash!Init /\ FreeList!Init
  /\ Atomic!Init /\ Locker!Init /\ Static!Init /\ Pool!Init
  /\ part = "atomic" \/ ~counting
  /\ part = "static" \/ threadsafeStatics
  /\ part = "pool" \/ \A n \in ThreadLimits : maxThreadCount <= n
  /\ part = "string" \/ \A r, s \in Strings : owner[r] = owner[s]

PartNext ==
  /\ UNCHANGED part
  /\ \/ /\ part = "lock" /\ Next
        /\ UNCHANGED <<stringVars, loggerVars, mapVars, listVars, atomicVars, lockerVars,
                       staticVars, poolVars>>
     \/ /\ part = "string" /\ String!Next
        /\ UNCHANGED <<lockVars, loggerVars, mapVars, listVars, atomicVars, lockerVars,
                       staticVars, poolVars>>
     \/ /\ part = "logger" /\ Logger!Next
        /\ UNCHANGED <<lockVars, stringVars, mapVars, listVars, atomicVars, lockerVars,
                       staticVars, poolVars>>
     \/ /\ part = "map" /\ BiHash!Next
        /\ UNCHANGED <<lockVars, stringVars, loggerVars, listVars, atomicVars, lockerVars,
                       staticVars, poolVars>>
     \/ /\ part = "list" /\ FreeList!Next
        /\ UNCHANGED <<lockVars, stringVars, loggerVars, mapVars, atomicVars, lockerVars,
                       staticVars, poolVars>>
     \/ /\ part = "atomic" /\ Atomic!Next
        /\ UNCHANGED <<lockVars, stringVars, loggerVars, mapVars, listVars, lockerVars, staticVars, poolVars>>
     \/ /\ part = "locker" /\ Locker!Next
        /\ UNCHANGED <<lockVars, stringVars, loggerVars, mapVars, listVars, atomicVars, staticVars, poolVars>>
     \/ /\ part = "static" /\ Static!Next
        /\ UNCHANGED <<lockVars, stringVars, loggerVars, mapVars, listVars, atomicVars, lockerVars, poolVars>>
     \/ /\ part = "pool" /\ Pool!Next
        /\ UNCHANGED <<lockVars, stringVars, loggerVars, mapVars, listVars, atomicVars, lockerVars,
                       staticVars>>

PartSpec == PartInit /\ [][PartNext]_allVars

-----------------------------------------------------------------------------
(* Properties                                                               *)

\* Whoever shares a buffer with whom, every string has the text its own calls gave it,
\* and a shared buffer counts its users (scstringdata.cpp:37-49, 204-378). Here and
\* below the variables have their types, too.
SharingIsInvisible == part = "string" => String!TypeOK /\ String!SharingIsInvisible

\* All who ask for a name get the same logger, and what a builder was told has
\* one owner and is complete before it is used (scloggerfactory.cpp:23-55,
\* scloggerfactorybuilder.cpp:88-118); and a global static object is made once, and
\* until the program's exit destroys it whoever gets it gets it whole (scglobalstatic.h:24-86).
OneOfEach ==
  /\ part = "logger" => Logger!TypeOK /\ Logger!OneOfEach
  /\ part = "static" => Static!TypeOK /\ Static!MadeOnce

\* The two maps of a two-way map are inverse to each other unless something inserted had a
\* partner already (scbihash.h:71-173); and the free list holds every id that nobody has,
\* once, and looks for no id beyond the last (scfreelist.h:82, 158-200).
StructuresAgree ==
  /\ part = "map" => BiHash!TypeOK /\ BiHash!MapsAreInverse
  /\ part = "list" => FreeList!TypeOK /\ FreeList!StackIsFree

\* What the memory orders of the atomic types promise by their names is seen, the last of
\* all references to be dropped sees all (scatomic.h:24-160, 247-300); and a lock is held
\* once for every locker that says so (screadwritelock.h:37-137).
PublishedAndHeld ==
  /\ part = "atomic" => Atomic!TypeOK /\ Atomic!PublishedIsSeen /\ Atomic!LastDropsAll
  /\ part = "locker" => Locker!HeldByTagged

\* The two counts of active threads agree with each other and with who has a task, every
\* task the pool accepted is in one place until it was run or cleared, the pages are in
\* order, and a queued task has a thread at work or on its way, with more threads, tasks
\* and priorities than in MCThreads (scthreadpool.cpp:218-303, 391-451).
PoolSound ==
  part = "pool" =>
    Pool!TypeOK /\ Pool!ThreadAccounting /\ Pool!QueueSound /\ Pool!NoStrandedTask

\* No step sets more threads to work than one above the limit (scthreadpool_p.h:108-112).
ConcurrencyBound == [][part = "pool" => Pool!BoundedStep]_allVars

\* The free list is a pool of ids, whatever the interleaving, as long as fewer
\* releases than the serial has values fall into one next() (scfreelist.h:162-199).
ImplementsIdPool == FreeList!ImplementsIdPool
=============================================================================
