---------------------------- MODULE ScThreadPool ----------------------------
(***************************************************************************)
(* ScThreadPool / ScThreadPoolPrivate / ScThreadPoolThread, from           *)
(*   src/src/ScUtils/src/thread/scthreadpool.cpp                           *)
(*   src/src/ScUtils/include/scutils/thread/scthreadpool_p.h               *)
(*                                                                         *)
(* Every field of the pool is guarded by the pool's mutex, so one critical *)
(* section is one action.  Two things are finer than that:                 *)
(*   - tryToStartMoreThreads() loops under the mutex: `starting' says that *)
(*     a caller is inside the loop (and holds the mutex), and StartMore is *)
(*     one iteration of it;                                                *)
(*   - waitForDone() leaves the mutex for good in reset() (line 206), and  *)
(*     what it does afterwards is a sequence of steps without the mutex.   *)
(*     Its unique_lock still unlocks that mutex in the end.  Here nobody   *)
(*     holds it at that moment, and the call does not go round again; what *)
(*     comes of it otherwise is in module ScThreadPoolUnlock.              *)
(* A worker thread leaves the mutex only to run a task and to sleep on     *)
(* its own condition variable runnableReady.                               *)
(***************************************************************************)
EXTENDS Integers, Sequences, FiniteSets

CONSTANTS
  Workers,       \* the ScThreadPoolThread objects the pool may create
  Tasks,         \* the ScRunnable objects handed to the pool, each at most once
  Waiters,       \* the client threads that call waitForDone
  NoTask,        \* nullptr where a ScRunnable* is expected
  NoWorker,      \* nullptr where a ScThreadPoolThread* is expected
  Priorities,    \* the priorities start() is called with
  ThreadLimits,  \* the values of maxThreadCount
  WaitTimes,     \* the arguments of waitForDone, in milliseconds
  MaxReserved,   \* bound: how many reserveThread() calls may be outstanding
  MaxPageSize    \* entries of a ScQueuePage (256 in the code)

ASSUME PoolAssumption ==
  /\ NoTask \notin Tasks
  /\ NoWorker \notin Workers
  /\ IsFiniteSet(Workers)
  /\ Priorities \subseteq Int
  /\ ThreadLimits \subseteq Int
  /\ ThreadLimits # {}
  /\ WaitTimes \subseteq Int
  /\ MaxReserved \in Nat
  /\ MaxPageSize \in Nat \ {0}

VARIABLES
  maxThreadCount, reservedThreadNum, activeThreadNum,
  allThreads,      \* unordered_set<ScThreadPoolThread*>
  waitingThreads,  \* deque: asleep on runnableReady, oldest first
  expiredThreads,  \* queue: finished threads whose objects may be reused
  queue,           \* vector<ScQueuePage*>
  starting,        \* a caller is inside tryToStartMoreThreads()
  worker,          \* what each thread is doing
  task,            \* the task handed to or run by a thread (`runnable', `r')
  status,          \* what became of each task (history)
  waiter           \* the calls of waitForDone in progress

lists    == <<allThreads, waitingThreads, expiredThreads>>
settings == <<maxThreadCount, reservedThreadNum>>
vars == <<settings, activeThreadNum, lists, queue, starting, worker, task,
          status, waiter>>

-----------------------------------------------------------------------------
(* Types.                                                                  *)

\* absent    the object does not exist yet
\* spawned   std::thread created, run() has not entered the mutex yet
\* running   inside r->run(), outside the mutex
\* parked    in runnableReady.wait_for()
\* signalled notified, but still to re-enter the mutex
\* finished  isFinished is set: run() is over
WorkerState ==
  {"absent", "spawned", "running", "parked", "signalled", "finished"}

\* entries: m_entries[m_firstIndex .. m_lastIndex]; pushed: m_lastIndex + 1,
\* which popping does not lower.
Page == [priority : Int, entries : Seq(Tasks), pushed : 0 .. MaxPageSize]

\* idle      not in waitForDone
\* waiting   evaluating or asleep in the lambda wait(), with the mutex
\* joining   in the loop of reset() over the threads it took, no mutex
\* joined    back from reset(), no mutex
Waiter ==
  [pc : {"idle", "waiting", "joining", "joined"},
   msecs   : WaitTimes \cup {-1},
   copy    : SUBSET Workers,              \* allThreadsCopy, still to visit
   current : Workers \cup {NoWorker},     \* the thread th->wait() is on
   owed    : SUBSET Tasks]                \* tasks pending at the call (history)

\* Every variable keeps its type: no path takes one thread off activeThreadNum
\* twice (incremented at lines 245, 281 and 451, decremented by
\* registerThreadInactive(), called at lines 396, 422, 429 and 434).
TypeOK ==
  /\ maxThreadCount \in ThreadLimits
  /\ reservedThreadNum \in 0 .. MaxReserved
  /\ activeThreadNum \in Nat
  /\ allThreads \subseteq Workers
  /\ waitingThreads \in Seq(Workers)
  /\ expiredThreads \in Seq(Workers)
  /\ queue \in Seq(Page)
  /\ starting \in BOOLEAN
  /\ worker \in [Workers -> WorkerState]
  /\ task \in [Workers -> Tasks \cup {NoTask}]
  /\ status \in [Tasks -> {"fresh", "pending", "done", "cleared"}]
  /\ waiter \in [Waiters -> Waiter]

NoCall == [pc |-> "idle", msecs |-> -1, copy |-> {}, current |-> NoWorker,
           owed |-> {}]

Init ==
  /\ maxThreadCount \in ThreadLimits
  /\ reservedThreadNum = 0
  /\ activeThreadNum = 0
  /\ allThreads = {}
  /\ waitingThreads = <<>>
  /\ expiredThreads = <<>>
  /\ queue = <<>>
  /\ starting = FALSE
  /\ worker = [w \in Workers |-> "absent"]
  /\ task = [w \in Workers |-> NoTask]
  /\ status = [t \in Tasks |-> "fresh"]
  /\ waiter = [c \in Waiters |-> NoCall]

-----------------------------------------------------------------------------
(* The queue of pages.                                                     *)

NewPage(t, p)  == [priority |-> p, entries |-> <<t>>, pushed |-> 1]
IsFull(page)   == page.pushed >= MaxPageSize
IsFinished(page) == page.entries = <<>>
Push(page, t)  == [page EXCEPT !.entries = Append(@, t), !.pushed = @ + 1]
Pop(page)      == [page EXCEPT !.entries = Tail(@)]

\* Definitions named ...Fault are plausible mistakes in the definition that
\* follows; no specification uses them, see "seeded faults" in README.md.
UpperBoundFault(q, p) == Len(q) + 1
\* The pages of priority p that have room, and where std::upper_bound puts
\* a new page of that priority: behind every page that is not below it.
Roomy(q, p)      == {i \in DOMAIN q : q[i].priority = p /\ ~IsFull(q[i])}
UpperBound(q, p) ==
  CHOOSE i \in 1 .. Len(q) + 1 :
    /\ i \in DOMAIN q => p > q[i].priority
    /\ \A j \in 1 .. i - 1 : ~(p > q[j].priority)

InsertPage(q, i, page) == SubSeq(q, 1, i - 1) \o <<page>> \o SubSeq(q, i, Len(q))

EnqueueTask(q, t, p) ==
  IF Roomy(q, p) # {}
  THEN LET i == CHOOSE i \in Roomy(q, p) : \A j \in Roomy(q, p) : i <= j
       IN  [q EXCEPT ![i] = Push(q[i], t)]
  ELSE InsertPage(q, UpperBound(q, p), NewPage(t, p))

PopPageFault(q, i) == q                        \* first() instead of pop()
\* page->pop() on the page at index i.  When that finishes the page the code
\* erases queue.begin(), whatever i is, and deletes the page.
PopPage(q, i) ==
  LET r == [q EXCEPT ![i] = Pop(q[i])]
  IN  IF IsFinished(r[i]) THEN Tail(r) ELSE r

FirstTask(q) == Head(q[1].entries)

\* The page that was at the front before a task was enqueued is second
\* afterwards iff a page was inserted before it.
FrontAfter(q, t, p) ==
  IF Roomy(q, p) = {} /\ UpperBound(q, p) = 1 THEN 2 ELSE 1

Queued(q) == UNION {{q[i].entries[j] : j \in DOMAIN q[i].entries} : i \in DOMAIN q}

-----------------------------------------------------------------------------
(* Counting threads.                                                       *)

ActiveThreadCount ==
  Cardinality(allThreads) - Len(waitingThreads) - Len(expiredThreads)
    + reservedThreadNum

AreAllThreadsActiveFault ==
  /\ ActiveThreadCount > maxThreadCount
  /\ ActiveThreadCount - reservedThreadNum > 1

AreAllThreadsActive ==
  /\ ActiveThreadCount > maxThreadCount
  /\ ActiveThreadCount - reservedThreadNum >= 1

IsTooManyThreadsActiveFault ==
  /\ ActiveThreadCount > maxThreadCount
  /\ ActiveThreadCount - reservedThreadNum >= 1

IsTooManyThreadsActive ==
  /\ ActiveThreadCount > maxThreadCount
  /\ ActiveThreadCount - reservedThreadNum > 1

-----------------------------------------------------------------------------
(* Handing a task to a thread: ScThreadPoolPrivate::tryStart.              *)

StartThread(t) ==
  \E w \in Workers :
    /\ worker[w] = "absent"
    /\ allThreads' = allThreads \cup {w}
    /\ activeThreadNum' = activeThreadNum + 1
    /\ task' = [task EXCEPT ![w] = t]
    /\ worker' = [worker EXCEPT ![w] = "spawned"]
    /\ UNCHANGED <<waitingThreads, expiredThreads>>

WakeWaitingThreadFault ==                      \* no pop_front()
  /\ waitingThreads # <<>>
  /\ worker' = [worker EXCEPT ![Head(waitingThreads)] = "signalled"]
  /\ UNCHANGED <<lists, activeThreadNum, task>>

\* runnableReady.notify_one() on the thread that has waited longest.
WakeWaitingThread ==
  LET w == Head(waitingThreads)
  IN  /\ waitingThreads # <<>>
      /\ worker' = [worker EXCEPT ![w] = IF @ = "parked" THEN "signalled" ELSE @]
      /\ waitingThreads' = Tail(waitingThreads)
      /\ UNCHANGED <<allThreads, expiredThreads, activeThreadNum, task>>

RestartUncountedFault(t) ==                    \* no ++activeThreadNum
  LET w == Head(expiredThreads)
  IN  /\ waitingThreads = <<>>
      /\ expiredThreads # <<>>
      /\ expiredThreads' = Tail(expiredThreads)
      /\ task' = [task EXCEPT ![w] = t]
      /\ worker' = [worker EXCEPT ![w] = "spawned"]
      /\ UNCHANGED <<allThreads, waitingThreads, activeThreadNum>>

\* thread->wait() and the join in thread->start() block, with the mutex held,
\* until the old run() is over.
RestartExpiredThread(t) ==
  LET w == Head(expiredThreads)
  IN  /\ waitingThreads = <<>>
      /\ expiredThreads # <<>>
      /\ worker[w] = "finished"
      /\ expiredThreads' = Tail(expiredThreads)
      /\ activeThreadNum' = activeThreadNum + 1
      /\ task' = [task EXCEPT ![w] = t]
      /\ worker' = [worker EXCEPT ![w] = "spawned"]
      /\ UNCHANGED <<allThreads, waitingThreads>>

CanStart == allThreads = {} \/ ~AreAllThreadsActive

\* handed: the queue when a thread gets t itself; parked: the queue when a
\* waiting thread is woken to find t in it.
TryStart(t, handed, parked) ==
  \/ /\ allThreads = {}
     /\ StartThread(t)
     /\ queue' = handed
  \/ /\ allThreads # {}
     /\ ~AreAllThreadsActive
     /\ \/ WakeWaitingThread /\ queue' = parked
        \/ RestartExpiredThread(t) /\ queue' = handed
        \/ /\ waitingThreads = <<>>
           /\ expiredThreads = <<>>
           /\ StartThread(t)
           /\ queue' = handed

-----------------------------------------------------------------------------
(* The public operations, each under the mutex.                            *)

\* Every start of a task goes through here; a waiting thread finds the task in
\* the queue at priority 0.
Accept(t) ==
  /\ ~starting
  /\ status[t] = "fresh"
  /\ status' = [status EXCEPT ![t] = "pending"]
  /\ UNCHANGED <<settings, starting, waiter>>

Start(t, p) ==
  /\ Accept(t)
  /\ \/ TryStart(t, queue, EnqueueTask(queue, t, 0))
     \/ /\ ~CanStart
        /\ queue' = EnqueueTask(queue, t, p)
        /\ UNCHANGED <<activeThreadNum, lists, worker, task>>

\* tryStart() returns false, and leaves the task to its caller, when all
\* threads are active: only the other case is a step.
TryStartTask(t) ==
  /\ Accept(t)
  /\ TryStart(t, queue, EnqueueTask(queue, t, 0))

SetMaxThreadCount(n) ==
  /\ ~starting
  /\ n # maxThreadCount
  /\ maxThreadCount' = n
  /\ starting' = TRUE
  /\ UNCHANGED <<reservedThreadNum, activeThreadNum, lists, queue, worker,
                 task, status, waiter>>

ReserveThread ==
  /\ ~starting
  /\ reservedThreadNum < MaxReserved
  /\ reservedThreadNum' = reservedThreadNum + 1
  /\ UNCHANGED <<maxThreadCount, activeThreadNum, lists, queue, starting,
                 worker, task, status, waiter>>

\* Clients release only what they reserved.
ReleaseThread ==
  /\ ~starting
  /\ reservedThreadNum > 0
  /\ reservedThreadNum' = reservedThreadNum - 1
  /\ starting' = TRUE
  /\ UNCHANGED <<maxThreadCount, activeThreadNum, lists, queue, worker, task,
                 status, waiter>>

\* One iteration of the loop of tryToStartMoreThreads(), or its end.  The page
\* popped is the one that was in front before tryStart() enqueued the task.
StartMore ==
  /\ starting
  /\ \/ /\ queue # <<>>
        /\ LET t == FirstTask(queue)
           IN  TryStart(t, PopPage(queue, 1),
                        PopPage(EnqueueTask(queue, t, 0), FrontAfter(queue, t, 0)))
        /\ UNCHANGED starting
     \/ /\ queue = <<>> \/ ~CanStart
        /\ starting' = FALSE
        /\ UNCHANGED <<activeThreadNum, lists, queue, worker, task>>
  /\ UNCHANGED <<settings, status, waiter>>

Clear ==
  /\ ~starting
  /\ status' = [t \in Tasks |-> IF t \in Queued(queue) THEN "cleared" ELSE status[t]]
  /\ queue' = <<>>
  /\ UNCHANGED <<settings, activeThreadNum, lists, starting, worker, task, waiter>>

-----------------------------------------------------------------------------
(* ScThreadPoolThread::run.                                                *)

\* From line 405 to the next point where the mutex is left; `active' is what
\* activeThreadNum is worth there.
TakeOrRest(w, active) ==
  LET tooMany == IsTooManyThreadsActive
      gone    == w \notin allThreads
  IN  \/ /\ ~tooMany
         /\ queue # <<>>
         /\ task' = [task EXCEPT ![w] = FirstTask(queue)]
         /\ queue' = PopPage(queue, 1)
         /\ worker' = [worker EXCEPT ![w] = "running"]
         /\ activeThreadNum' = active
         /\ UNCHANGED lists
      \/ /\ tooMany \/ queue = <<>>
         /\ task' = [task EXCEPT ![w] = NoTask]
         /\ activeThreadNum' = active - 1
         /\ worker' = [worker EXCEPT ![w] =
                         IF gone \/ tooMany THEN "finished" ELSE "parked"]
         /\ expiredThreads' = IF ~gone /\ tooMany
                              THEN Append(expiredThreads, w) ELSE expiredThreads
         /\ waitingThreads' = IF ~gone /\ ~tooMany
                              THEN Append(waitingThreads, w) ELSE waitingThreads
         /\ UNCHANGED <<allThreads, queue>>

BeginRun(w) ==
  /\ ~starting
  /\ worker[w] = "spawned"
  /\ worker' = [worker EXCEPT ![w] = "running"]
  /\ UNCHANGED <<settings, activeThreadNum, lists, queue, starting, task,
                 status, waiter>>

FinishTask(w) ==
  /\ ~starting
  /\ worker[w] = "running"
  /\ status' = [status EXCEPT ![task[w]] = "done"]
  /\ TakeOrRest(w, activeThreadNum)
  /\ UNCHANGED <<settings, starting, waiter>>

\* erase(find(begin(), end(), w)): the first w goes.
Without(s, w) ==
  LET i == CHOOSE i \in DOMAIN s : s[i] = w /\ \A j \in 1 .. i - 1 : s[j] # w
  IN  SubSeq(s, 1, i - 1) \o SubSeq(s, i + 1, Len(s))

\* wait_for() returns: notified, timed out (expiryTimeout) or spuriously.
WakeUp(w) ==
  /\ ~starting
  /\ worker[w] \in {"parked", "signalled"}
  /\ LET inWaiting == \E i \in DOMAIN waitingThreads : waitingThreads[i] = w
     IN  \/ /\ w \notin allThreads
            /\ worker' = [worker EXCEPT ![w] = "finished"]
            /\ UNCHANGED <<activeThreadNum, lists, queue, task>>
         \/ /\ w \in allThreads
            /\ inWaiting
            /\ waitingThreads' = Without(waitingThreads, w)
            /\ expiredThreads' = Append(expiredThreads, w)
            /\ worker' = [worker EXCEPT ![w] = "finished"]
            /\ UNCHANGED <<activeThreadNum, allThreads, queue, task>>
         \/ /\ w \in allThreads
            /\ ~inWaiting
            /\ TakeOrRest(w, activeThreadNum + 1)
  /\ UNCHANGED <<settings, starting, status, waiter>>

-----------------------------------------------------------------------------
(* waitForDone and reset.                                                  *)

PendingFault == queue # <<>>                   \* ignores what is running
Pending == queue # <<>> \/ activeThreadNum # 0

\* The outcomes of "elapsed >= msecs": always true for the default of -1.
Elapsed(c) == IF waiter[c].msecs <= 0 THEN {TRUE} ELSE BOOLEAN

WaitForDone(c, m) ==
  /\ ~starting
  /\ waiter[c].pc = "idle"
  /\ waiter' = [waiter EXCEPT ![c] =
       [NoCall EXCEPT !.pc = "waiting", !.msecs = m,
                      !.owed = {t \in Tasks : status[t] = "pending"}]]
  /\ UNCHANGED <<settings, activeThreadNum, lists, queue, starting, worker,
                 task, status>>

Return(c) == waiter' = [waiter EXCEPT ![c] = NoCall]
GoTo(c, pc) == waiter' = [waiter EXCEPT ![c].pc = pc]

\* reset(): take the threads, forget the lists, leave the mutex.
Reset(c) ==
  /\ waiter' = [waiter EXCEPT ![c].pc = "joining", ![c].copy = allThreads]
  /\ allThreads' = {}
  /\ waitingThreads' = <<>>
  /\ expiredThreads' = <<>>
  /\ UNCHANGED <<settings, activeThreadNum, queue, starting, worker, task, status>>

\* The first evaluation of wait(), and every one after wait_for() took the
\* mutex again.  While something is pending and time is left it sleeps on.
WaitAndReset(c) ==
  /\ ~starting
  /\ waiter[c].pc = "waiting"
  /\ ~Pending
  /\ Reset(c)

\* Steps of waitForDone that change nothing but the call's own state.
OnlyWaiter == UNCHANGED <<settings, activeThreadNum, lists, queue, starting,
                          worker, task, status>>

GiveUp(c) ==
  /\ ~starting
  /\ waiter[c].pc = "waiting"
  /\ Pending
  /\ TRUE \in Elapsed(c)
  /\ Return(c)
  /\ OnlyWaiter

VisitThreadFault(c) ==                         \* no notify_all()
  /\ waiter[c].pc = "joining"
  /\ waiter[c].current = NoWorker
  /\ \E w \in waiter[c].copy :
       waiter' = [waiter EXCEPT ![c].copy = @ \ {w},
                        ![c].current = IF worker[w] = "finished" THEN NoWorker ELSE w]
  /\ OnlyWaiter

\* The loop of reset() over allThreadsCopy, in the set's unspecified order:
\* visit a thread, wake it, and wait until it has finished.
VisitThread(c) ==
  /\ waiter[c].pc = "joining"
  /\ waiter[c].current = NoWorker
  /\ \E w \in waiter[c].copy :
       /\ waiter' = [waiter EXCEPT ![c].copy = @ \ {w},
                        ![c].current = IF worker[w] = "finished" THEN NoWorker ELSE w]
       /\ worker' = [worker EXCEPT ![w] = IF @ = "parked" THEN "signalled" ELSE @]
  /\ UNCHANGED <<settings, activeThreadNum, lists, queue, starting, task, status>>

JoinThread(c) ==
  /\ waiter[c].pc = "joining"
  /\ waiter[c].current # NoWorker
  /\ worker[waiter[c].current] = "finished"
  /\ waiter' = [waiter EXCEPT ![c].current = NoWorker]
  /\ OnlyWaiter

AllJoined(c) ==
  /\ waiter[c].pc = "joining"
  /\ waiter[c].current = NoWorker
  /\ waiter[c].copy = {}
  /\ GoTo(c, "joined")
  /\ OnlyWaiter

\* Lines 329-335: time is up, or nothing is pending: return what is seen now.
\* That unlocks the mutex which this call has not got, when nobody else has it.
AfterReset(c) ==
  /\ ~starting
  /\ waiter[c].pc = "joined"
  /\ \E elapsed \in Elapsed(c) : elapsed \/ ~Pending
  /\ Return(c)
  /\ OnlyWaiter

-----------------------------------------------------------------------------

Client ==
  \/ \E t \in Tasks, p \in Priorities : Start(t, p)
  \/ \E t \in Tasks : TryStartTask(t)
  \/ \E n \in ThreadLimits : SetMaxThreadCount(n)
  \/ ReserveThread
  \/ ReleaseThread
  \/ Clear
  \/ \E c \in Waiters, m \in WaitTimes : WaitForDone(c, m)

Waiting(c) ==
  \/ WaitAndReset(c) \/ GiveUp(c)
  \/ VisitThread(c) \/ JoinThread(c) \/ AllJoined(c)
  \/ AfterReset(c)

Working(w) == BeginRun(w) \/ FinishTask(w) \/ WakeUp(w)

Next ==
  \/ Client
  \/ StartMore
  \/ \E w \in Workers : Working(w)
  \/ \E c \in Waiters : Waiting(c)

Spec == Init /\ [][Next]_vars

\* Threads are scheduled, tasks come to an end, and a sleeping worker wakes when
\* it is notified; nothing is promised of a timeout or of a client's next call.
\* Fairness is strong because clients may take the mutex again and again: a
\* thread for which it is free infinitely often gets it some time.
Fairness ==
  /\ WF_vars(StartMore)
  /\ \A w \in Workers : SF_vars(worker[w] # "parked" /\ Working(w))
  /\ \A c \in Waiters : SF_vars(Waiting(c))

FairSpec == Spec /\ Fairness

-----------------------------------------------------------------------------
(* Properties.                                                             *)

Elements(s) == {s[i] : i \in DOMAIN s}
Busy   == {w \in Workers : worker[w] \in {"spawned", "running"}}
\* Taken off waitingThreads for a task, but still to re-enter the mutex.
Called == {w \in allThreads : worker[w] = "signalled"}

\* activeThreadNum, which waitForDone trusts, is kept by separate increments
\* and decrements on six paths: it always is the number of threads that have a
\* task (lines 245, 281, 451 and registerThreadInactive).
ActiveCountExact == activeThreadNum = Cardinality(Busy)

\* A thread to be reused has left run(): thread->wait() and the join in
\* thread->start(), which tryStart calls with the pool's mutex held while
\* run() needs that mutex to end, can never block (lines 241-249, 428-430).
ExpiredThreadsFinished ==
  \A i \in DOMAIN expiredThreads : worker[expiredThreads[i]] = "finished"

\* A thread is in waitingThreads iff it is asleep there as a member of the pool:
\* a thread that is called, timed out or retired never stays listed, so no task
\* is ever entrusted to a thread that has gone (lines 230-237, 433-449).
WaitingThreadsParked ==
  /\ \A w \in Workers : w \in Elements(waitingThreads) <=>
                          w \in allThreads /\ worker[w] = "parked"
  /\ Len(waitingThreads) = Cardinality(Elements(waitingThreads))

\* activeThreadCount(), computed from the sizes of the three containers, is
\* the other count, on which starting and retiring threads depends: it counts
\* the busy threads, those called but not awake yet, and the reserved ones. It
\* agrees with the first count, and with who is in each container.
ThreadAccounting ==
  /\ ActiveThreadCount = Cardinality(Busy) + Cardinality(Called) + reservedThreadNum
  /\ ActiveCountExact /\ ExpiredThreadsFinished /\ WaitingThreadsParked

\* A task the pool accepted is in exactly one place, a page of the queue or the
\* hands of one thread, until it has run or was cleared; then it is nowhere:
\* no task is run twice or used after it was deleted.
TaskInOnePlace ==
  \A t \in Tasks :
    Cardinality({w \in Workers : task[w] = t})
      + Cardinality({at \in (DOMAIN queue) \X (1 .. MaxPageSize) :
                       /\ at[2] \in DOMAIN queue[at[1]].entries
                       /\ queue[at[1]].entries[at[2]] = t})
    = IF status[t] = "pending" THEN 1 ELSE 0

\* The pages are in descending order of priority, none is empty and none was
\* filled beyond its array: what the worker takes from the front is the most
\* urgent entry (lines 289-302, 267-271, 411-417).
QueueOrdered ==
  /\ \A i, j \in DOMAIN queue : i < j => queue[i].priority >= queue[j].priority
  /\ \A i \in DOMAIN queue : ~IsFinished(queue[i]) /\ queue[i].pushed <= MaxPageSize

\* Both: what is queued is neither lost, doubled, nor out of order.
QueueSound == TaskInOnePlace /\ QueueOrdered

\* While a task is queued some thread of the pool is busy, or called and about
\* to wake: the queue cannot be left behind by threads that each believe that
\* too many are active (lines 405-417, 426-431).
NoStrandedTask ==
  queue # <<>> /\ ~starting =>
    \E w \in allThreads : w \in Busy \cup Called

\* A step that sets more threads to work leaves at most one more at work than the
\* limit allows, the bound that "> maxThreadCount" gives (lines 108-112, 218-255).
BoundedStep ==
  Cardinality(Busy' \cup Called') > Cardinality(Busy \cup Called)
    => Cardinality(Busy' \cup Called') <= maxThreadCount + 1

\* Every step is bounded in this way, however the limit, the reservations and the
\* expiries moved before.
ConcurrencyBound == [][BoundedStep]_vars

\* When waitForDone gets as far as reset(), every task accepted before the call
\* has run or was cleared (lines 312-320, 325-327).
ResetOnlyWhenDone ==
  \A c \in Waiters : waiter[c].pc = "joining" =>
    \A t \in waiter[c].owed : status[t] \in {"done", "cleared"}

\* Every accepted task is run, unless it is cleared.
EveryTaskSettles ==
  \A t \in Tasks : status[t] = "pending" ~> status[t] \in {"done", "cleared"}

\* SC_ASSERT(manager->queue.empty()), line 439: a thread that wakes to find it
\* was dropped from the pool finds no task queued.
AssertQueueEmpty ==
  [][\A w \in Workers :
       /\ worker[w] \in {"parked", "signalled"}
       /\ w \notin allThreads
       /\ worker'[w] = "finished"
       => queue = <<>>]_vars

\* SC_ASSERT(!isFinished()) in ScQueuePage::first and pop, scthreadpool_p.h
\* lines 49 and 59, which are only called on the page in front.
AssertPageNotFinished == queue # <<>> => ~IsFinished(queue[1])

-----------------------------------------------------------------------------
(* Instances.  A worker object is created only to be handed a task, and a   *)
(* task is handed over at most once: with as many workers as tasks,         *)
(* StartThread never lacks one.                                             *)

\* cfg files have no negative numbers.
DefaultWait  == {-1}
AnyWait      == {-1, 100}
WithNegative == {-1, 0}
=============================================================================
