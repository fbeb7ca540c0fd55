----------------------------- MODULE MCThreads -----------------------------
(***************************************************************************)
(* Small instances of two parts of ScUtils that own threads: the pool with *)
(* its calls of waitForDone ("reset"), and the detachable task ("task").   *)
(* They keep no state in common: a behaviour uses one of them, part. The   *)
(* pool without such calls is a part of MCScUtils.                         *)
(***************************************************************************)
EXTENDS ScThreadPool, TLAPS

CONSTANTS MaxRuns, NoOne    \* of the task, whose clients have the names of the workers

VARIABLES
  part,
  m_state, m_taskTh, m_value, m_mutex, m_waitCondi, pc, timed, made, run, terminated

taskVars == <<m_state, m_taskTh, m_value, m_mutex, m_waitCondi, pc, timed, made, run, terminated>>
allVars == <<part, vars, taskVars>>

Task == INSTANCE ScDetachableTask WITH Clients <- Workers, Careful <- TRUE

ASSUME PartsAssumption == Task!TaskAssumption /\ Workers = Waiters

-----------------------------------------------------------------------------

PartInit ==
  /\ Task!Init
  /\ Init
  /\ part \in {"reset", "task"}
  /\ part = "reset" \/ \A n \in ThreadLimits : maxThreadCount <= n

PartNext ==
  /\ UNCHANGED part
  /\ \/ part = "reset" /\ Next /\ UNCHANGED taskVars
     \/ part = "task" /\ Task!Next /\ UNCHANGED vars

PartSpec == PartInit /\ [][PartNext]_allVars

\* The fairness of the two modules. As part never changes, fairness of a step of the one
\* part and of a step of the other may be asked for in one formula, which is cheaper to
\* check: the clients of the task have the names of the workers and the waiters.
InReset(step) == part = "reset" /\ step /\ UNCHANGED taskVars
InTask(step) == part = "task" /\ ~terminated /\ step /\ UNCHANGED vars
bothVars == <<vars, taskVars>>

PartFairness ==
  /\ WF_bothVars(InReset(StartMore))
  /\ \A p \in Workers :
       /\ SF_bothVars(\/ InReset(worker[p] # "parked" /\ Working(p))
                      \/ InTask(Task!Lock(p)))
       /\ SF_bothVars(InReset(Waiting(p)) \/ InTask(Task!Timeout(p)))
       /\ WF_bothVars(InTask(Task!Advance(p)))
  /\ \A r \in 1 .. MaxRuns : /\ SF_bothVars(InTask(Task!Execute(r)))
                             /\ WF_bothVars(InTask(Task!Set(r) \/ Task!End(r)))

FairPartSpec == PartSpec /\ PartFairness

-----------------------------------------------------------------------------
(* Properties. Those of the pool are in ScThreadPool; in a behaviour of    *)
(* the task nothing happens to it.                                         *)

\* No joinable std::thread is assigned to or destroyed (scdetachabletask.h:73-89).
NeverTerminates == Task!TypeOK /\ Task!NeverTerminates

\* A result is that of the last run (scdetachabletask.h:68-71, 126-130).
ValueIsOfTheLastRun == Task!ValueIsOfTheLastRun

\* Who sleeps while the task does not run will be notified (scdetachabletask.h:91-94, 140).
NoSleepOnAStoppedTask == Task!NoSleepOnAStoppedTask

\* A stopped task stays stopped, and so does its result (scdetachabletask.h:91-139).
StopIsFinal == Task!StopIsFinal

\* waitForDone() comes back (scthreadpool.cpp:208-215, 437); and wait() of the task returns
\* when the task runs no more, or its time is up (scdetachabletask.h:97-119).
CallsReturn ==
  \A p \in Workers :
    \/ part = "reset" /\ waiter[p].pc # "idle"
    \/ part = "task" /\ Task!InWait(p) /\ (m_state # "Running" \/ timed[p])
    ~> waiter[p].pc = "idle" /\ ~Task!InWait(p) /\ ~Task!InStop(p)

-----------------------------------------------------------------------------
(* The theorems of ScDetachableTask, of the task in this composition.      *)

LEMMA TaskBehaves == PartSpec => Task!Spec
<1>1. PartInit => Task!Init
  BY DEF PartInit
<1>2. [PartNext]_allVars => [Task!Next]_Task!vars
  BY DEF PartNext, allVars, taskVars, Task!vars
<1> QED BY <1>1, <1>2, PTL DEF PartSpec, Task!Spec

\* For any number of careful clients and restarts, nobody destroys or assigns to a
\* joinable std::thread (scdetachabletask.h:73-74, 88-89).
THEOREM Survives == PartSpec => []NeverTerminates
<1>1. Task!Spec => []Task!TypeOK
  BY PartsAssumption, Task!TypeCorrect
<1>2. Task!Spec => []Task!NeverTerminates
  BY PartsAssumption, Task!Survives
<1>3. Task!TypeOK /\ Task!NeverTerminates => NeverTerminates
  BY DEF NeverTerminates
<1> QED BY <1>1, <1>2, <1>3, TaskBehaves, PTL

\* A result is never one of an earlier run, however stop(), wait() and the threads of any
\* number of runs interleave (scdetachabletask.h:68-71, 126-130).
THEOREM ValueIsNew == PartSpec => []ValueIsOfTheLastRun
<1>1. Task!Spec => []Task!ValueIsOfTheLastRun
  BY PartsAssumption, Task!ValueIsNew
<1>2. Task!ValueIsOfTheLastRun => ValueIsOfTheLastRun
  BY DEF ValueIsOfTheLastRun
<1> QED BY <1>1, <1>2, TaskBehaves, PTL

\* No wake-up is lost between the test and the sleep of a wait(), for any number of clients
\* (scdetachabletask.h:91-94, 140).
THEOREM NoLostWakeUp == PartSpec => []NoSleepOnAStoppedTask
<1>1. Task!Spec => []Task!NoSleepOnAStoppedTask
  BY PartsAssumption, Task!NoLostWakeUp
<1>2. Task!NoSleepOnAStoppedTask => NoSleepOnAStoppedTask
  BY DEF NoSleepOnAStoppedTask
<1> QED BY <1>1, <1>2, TaskBehaves, PTL

\* What stop() leaves behind stays as it is, for any clients and runs
\* (scdetachabletask.h:91-93, 127-129, 139).
THEOREM StoppedForGood == PartSpec => StopIsFinal
<1>1. Task!Spec => Task!StopIsFinal
  BY PartsAssumption, Task!StoppedForGood
<1> QED BY <1>1, TaskBehaves DEF StopIsFinal
=============================================================================
