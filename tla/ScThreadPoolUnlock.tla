------------------------- MODULE ScThreadPoolUnlock -------------------------
(***************************************************************************)
(* What becomes of a pool when waitForDone() unlocks a mutex it does not   *)
(* hold.  reset() calls mutex.unlock() (scthreadpool.cpp:206) behind the   *)
(* back of the unique_lock `locker' of waitForDone(), which goes on to     *)
(* believe that it owns the mutex.  So the destructor of locker (lines     *)
(* 326, 335), wait_for() of a second round (line 318) and a second reset() *)
(* unlock the mutex again, and the second round reads the pool and swaps   *)
(* its containers without it.  Unlocking a mutex that another thread holds *)
(* is undefined; here it frees the mutex, which is what the common         *)
(* implementations do.                                                     *)
(*                                                                         *)
(* The holder that is looked at is tryToStartMoreThreads(): an iteration   *)
(* of its loop is taken apart into the call of tryStart() and the pop()    *)
(* that follows.  `starting' says that somebody holds the mutex there, and *)
(* a stray unlock resets it while the loop goes on.                        *)
(***************************************************************************)
EXTENDS ScThreadPool

VARIABLES
  page,    \* the tasks on the page whose first() was handed out, before its pop()
  round    \* where a call of waitForDone() is after its first reset()

unlockVars == <<vars, page, round>>

UnlockInit == Init /\ page = {} /\ round = [c \in Waiters |-> "first"]

-----------------------------------------------------------------------------
(* tryToStartMoreThreads, in two steps.                                     *)

\* tryStart(page->first())
HandOut ==
  /\ starting
  /\ page = {}
  /\ queue # <<>>
  /\ TryStart(FirstTask(queue), queue, EnqueueTask(queue, FirstTask(queue), 0))
  /\ page' = {queue[1].entries[i] : i \in DOMAIN queue[1].entries}
  /\ UNCHANGED <<settings, starting, status, waiter, round>>

\* page->pop(), with or without the mutex by now.  What is left of the queue if
\* the page has gone is of no interest.
PopHandedOut ==
  /\ page # {}
  /\ page \cap Queued(queue) # {}
  /\ LET Holds(i) == Elements(queue[i].entries) \cap page # {}
         i == CHOOSE i \in DOMAIN queue : Holds(i) /\ \A j \in 1 .. i - 1 : ~Holds(j)
     IN  queue' = PopPage(queue, i)
  /\ page' = {}
  /\ UNCHANGED <<settings, activeThreadNum, lists, starting, worker, task, status, waiter, round>>

\* The end of the loop, and of the critical section around it.
LeaveStart ==
  /\ starting
  /\ page = {}
  /\ queue = <<>> \/ ~CanStart
  /\ starting' = FALSE
  /\ UNCHANGED <<settings, activeThreadNum, lists, queue, worker, task, status, waiter, page, round>>

-----------------------------------------------------------------------------
(* waitForDone() after its first reset(), without the mutex.                *)

\* What a stray unlock leaves: the mutex is free, whoever held it.
StrayUnlock == starting' = FALSE

Apart == UNCHANGED <<settings, activeThreadNum, queue, worker, task, status, page>>

GoToRound(c, r) == round' = [round EXCEPT ![c] = r]

\* Lines 329-335, and 326 in a second round: the call returns, and locker unlocks.
ReturnWithout(c) ==
  /\ \/ /\ waiter[c].pc = "joined" /\ round[c] = "first"
        /\ \E elapsed \in Elapsed(c) : elapsed \/ ~Pending
     \/ round[c] = "decide" /\ Pending
  /\ StrayUnlock
  /\ Return(c)
  /\ GoToRound(c, "first")
  /\ Apart /\ UNCHANGED lists

\* Lines 329-334, then 312: new tasks, and time for them: wait() is called again.
\* It sleeps in wait_for(), which unlocks the mutex and comes back with it, or
\* goes on to read the pool for its answer.
GoRound(c) ==
  /\ waiter[c].pc = "joined" /\ round[c] = "first"
  /\ FALSE \in Elapsed(c)
  /\ Pending
  /\ \/ /\ StrayUnlock
        /\ GoTo(c, "waiting")
        /\ UNCHANGED round
     \/ /\ GoToRound(c, "decide")
        /\ UNCHANGED <<starting, waiter>>
  /\ Apart /\ UNCHANGED lists

\* Line 327 without the mutex: allThreadsCopy.swap(allThreads), ...
SwapAgain(c) ==
  /\ round[c] = "decide"
  /\ ~Pending
  /\ waiter' = [waiter EXCEPT ![c].copy = allThreads]
  /\ allThreads' = {}
  /\ GoToRound(c, "swapped")
  /\ Apart /\ UNCHANGED <<waitingThreads, expiredThreads, starting>>

\* ... and the two other containers, and the unlock of line 206.
ForgetAgain(c) ==
  /\ round[c] = "swapped"
  /\ waitingThreads' = <<>>
  /\ expiredThreads' = <<>>
  /\ StrayUnlock
  /\ GoTo(c, "joining")
  /\ GoToRound(c, "first")
  /\ Apart /\ UNCHANGED allThreads

-----------------------------------------------------------------------------

\* The steps that are those of ScThreadPool: their critical sections stay whole.
WithMutex ==
  \/ Client
  \/ \E w \in Workers : Working(w)
  \/ \E c \in Waiters :
       WaitAndReset(c) \/ GiveUp(c) \/ VisitThread(c) \/ JoinThread(c) \/ AllJoined(c)

UnlockNext ==
  \/ WithMutex /\ UNCHANGED <<page, round>>
  \/ HandOut \/ PopHandedOut \/ LeaveStart
  \/ \E c \in Waiters : ReturnWithout(c) \/ GoRound(c) \/ SwapAgain(c) \/ ForgetAgain(c)

UnlockSpec == UnlockInit /\ [][UnlockNext]_unlockVars

-----------------------------------------------------------------------------
(* Properties.                                                              *)

\* SC_ASSERT(!isFinished()) in ScQueuePage::pop, scthreadpool_p.h line 49: the page
\* that tryToStartMoreThreads() has just handed a task out of still has entries
\* when it pops that task, for nobody else takes tasks meanwhile.
AssertPageLeft == page # {} => page \cap Queued(queue) # {}
=============================================================================
