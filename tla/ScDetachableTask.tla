-------------------------- MODULE ScDetachableTask --------------------------
(***************************************************************************)
(* ScDetachableTask, a task with a thread of its own that clients start,   *)
(* wait for, or leave to itself, from                                      *)
(*   src/src/ScUtils/include/scutils/thread/scdetachabletask.h             *)
(*                                                                         *)
(* m_state is atomic and is not guarded by m_mutex; m_value is; m_taskTh   *)
(* is guarded by neither.  Assigning to a joinable std::thread, and        *)
(* destroying one, ends the process.                                       *)
(***************************************************************************)
EXTENDS Naturals, FiniteSets, TLAPS

CONSTANTS
  Clients,       \* threads that call start, stop and wait
  MaxRuns,       \* how often the task is started, a bound
  NoOne,         \* the owner of a free mutex
  Careful        \* whether the clients keep to MayStart, MayCall and MayDrop

Runs == 1 .. MaxRuns    \* the threads that start() makes, in their order
NoRun == 0

TaskAssumption ==
  /\ MaxRuns \in Nat
  /\ Careful \in BOOLEAN
  /\ NoOne \notin Clients \cup Nat
  /\ Clients \cap Nat = {}

VARIABLES
  m_state, m_taskTh, m_value, m_mutex,
  m_waitCondi,   \* the clients asleep on it
  pc,            \* of each client
  timed,         \* the client's wait() has a time limit
  made,          \* the thread that the client's start() has made
  run,           \* where the thread of each run is
  terminated     \* std::terminate was called

vars == <<m_state, m_taskTh, m_value, m_mutex, m_waitCondi, pc, timed, made, run, terminated>>

\* start(): resetting, launching, assigning; stop(): stopping, detaching,
\* notifying; wait(): entering, testing, dozing (decided to sleep, has the mutex),
\* asleep, late (the time is up), deciding, joining; gone: dropped its reference.
Place == {"idle", "resetting", "launching", "assigning",
          "stopping", "detaching", "notifying",
          "entering", "testing", "dozing", "asleep", "late", "deciding", "joining",
          "gone"}

\* executed(): running is in run(); setting has the mutex and is to set m_value.
Phase == {"none", "running", "checking", "setting", "failing", "finishing", "ending", "ended"}

\* Every variable keeps its type, and the mutex belongs to somebody in a critical
\* section, never to a caller who has left wait() (lines 100-118, 127, 133).
TypeOK ==
  /\ m_state \in {"Idle", "Running", "Detached"}
  /\ m_taskTh \in Runs \cup {NoRun}
  /\ m_value \in Runs \cup {NoRun}
  /\ m_mutex \in {c \in Clients : pc[c] \in {"testing", "dozing", "deciding", "joining"}}
                \cup {r \in Runs : run[r] = "setting"} \cup {NoOne}
  /\ m_waitCondi \subseteq Clients
  /\ pc \in [Clients -> Place]
  /\ timed \in [Clients -> BOOLEAN]
  /\ made \in [Clients -> Runs \cup {NoRun}]
  /\ run \in [Runs -> Phase]
  /\ terminated \in BOOLEAN

Init ==
  /\ m_state = "Idle"
  /\ m_taskTh = NoRun
  /\ m_value = NoRun
  /\ m_mutex = NoOne
  /\ m_waitCondi = {}
  /\ pc = [c \in Clients |-> "idle"]
  /\ timed = [c \in Clients |-> FALSE]
  /\ made = [c \in Clients |-> NoRun]
  /\ run = [r \in Runs |-> "none"]
  /\ terminated = FALSE

Goto(c, place) == pc' = [pc EXCEPT ![c] = place]
Proceed(r, phase) == run' = [run EXCEPT ![r] = phase]

Launched == {r \in Runs : run[r] # "none"}

Starting == {"resetting", "launching", "assigning"}
Unused(c) == pc[c] \in {"idle", "gone"}

\* m_taskTh is not guarded: a client that starts the task has it for itself, ...
MayStart == (\A c \in Clients : Unused(c)) /\ m_taskTh = NoRun
MayCall == \A c \in Clients : pc[c] \notin Starting
\* ... and the last reference is dropped after a stop() that detached the
\* thread, or after a wait() that joined it.
MayDrop(c) ==
  /\ MayCall
  /\ m_state = "Running" \/ m_taskTh # NoRun =>
       m_state = "Detached" \/ \E d \in Clients \ {c} : pc[d] # "gone"

-----------------------------------------------------------------------------
(* start().                                                                *)

Start(c) ==
  /\ pc[c] = "idle"
  /\ Careful => MayStart
  /\ m_state = "Idle"
  /\ Launched # Runs                             \* the bound
  /\ m_state' = "Running"
  /\ Goto(c, "resetting")
  /\ UNCHANGED <<m_taskTh, m_value, m_mutex, m_waitCondi, timed, made, run, terminated>>

ResetValueFault(c) ==                          \* the old value is kept
  /\ pc[c] = "resetting"
  /\ m_mutex = NoOne
  /\ Goto(c, "launching")
  /\ UNCHANGED <<m_state, m_taskTh, m_value, m_mutex, m_waitCondi, timed, made, run, terminated>>

ResetValue(c) ==
  /\ pc[c] = "resetting"
  /\ m_mutex = NoOne
  /\ m_value' = NoRun
  /\ Goto(c, "launching")
  /\ UNCHANGED <<m_state, m_taskTh, m_mutex, m_waitCondi, timed, made, run, terminated>>

\* The constructor of std::thread starts the thread, or throws.
Launch(c) ==
  /\ pc[c] = "launching"
  /\ \/ /\ \E r \in Runs \ Launched :
             /\ \A q \in Runs \ Launched : r <= q
             /\ Proceed(r, "running")
             /\ made' = [made EXCEPT ![c] = r]
        /\ Goto(c, "assigning")
        /\ UNCHANGED m_state
     \/ /\ m_state' = "Idle"
        /\ Goto(c, "idle")
        /\ UNCHANGED <<made, run>>
  /\ UNCHANGED <<m_taskTh, m_value, m_mutex, m_waitCondi, timed, terminated>>

Assign(c) ==
  /\ pc[c] = "assigning"
  /\ terminated' = (m_taskTh # NoRun)
  /\ m_taskTh' = made[c]
  /\ Goto(c, "idle")
  /\ UNCHANGED <<m_state, m_value, m_mutex, m_waitCondi, timed, made, run>>

-----------------------------------------------------------------------------
(* stop().                                                                 *)

CallStop(c) ==
  /\ pc[c] = "idle"
  /\ Careful => MayCall
  /\ Goto(c, "stopping")
  /\ UNCHANGED <<m_state, m_taskTh, m_value, m_mutex, m_waitCondi, timed, made, run, terminated>>

Stop(c) ==
  /\ pc[c] = "stopping"
  /\ \/ /\ m_state = "Running"
        /\ m_state' = "Detached"
        /\ Goto(c, "detaching")
     \/ /\ m_state # "Running"
        /\ Goto(c, "idle")
        /\ UNCHANGED m_state
  /\ UNCHANGED <<m_taskTh, m_value, m_mutex, m_waitCondi, timed, made, run, terminated>>

DetachFault(c) ==                              \* the thread stays attached
  /\ pc[c] = "detaching"
  /\ Goto(c, "notifying")
  /\ UNCHANGED <<m_state, m_taskTh, m_value, m_mutex, m_waitCondi, timed, made, run, terminated>>

Detach(c) ==
  /\ pc[c] = "detaching"
  /\ m_taskTh' = NoRun
  /\ Goto(c, "notifying")
  /\ UNCHANGED <<m_state, m_value, m_mutex, m_waitCondi, timed, made, run, terminated>>

NotifyFault(c) ==                              \* without locking the mutex first
  /\ pc[c] = "notifying"
  /\ m_waitCondi' = {}
  /\ Goto(c, "idle")
  /\ UNCHANGED <<m_state, m_taskTh, m_value, m_mutex, timed, made, run, terminated>>

\* The critical section is empty; it waits for whoever has seen "Running" there.
Notify(c) ==
  /\ pc[c] = "notifying"
  /\ m_mutex = NoOne
  /\ m_waitCondi' = {}
  /\ Goto(c, "idle")
  /\ UNCHANGED <<m_state, m_taskTh, m_value, m_mutex, timed, made, run, terminated>>

-----------------------------------------------------------------------------
(* wait().                                                                 *)

CallWait(c, limited) ==
  /\ pc[c] = "idle"
  /\ Careful => MayCall
  /\ timed' = [timed EXCEPT ![c] = limited]
  /\ Goto(c, "entering")
  /\ UNCHANGED <<m_state, m_taskTh, m_value, m_mutex, m_waitCondi, made, run, terminated>>

Enter(c) ==
  /\ pc[c] = "entering"
  /\ m_mutex = NoOne
  /\ m_mutex' = c
  /\ Goto(c, "testing")
  /\ UNCHANGED <<m_state, m_taskTh, m_value, m_waitCondi, timed, made, run, terminated>>

Test(c) ==
  /\ pc[c] = "testing"
  /\ Goto(c, IF m_state = "Running" THEN "dozing" ELSE "deciding")
  /\ UNCHANGED <<m_state, m_taskTh, m_value, m_mutex, m_waitCondi, timed, made, run, terminated>>

Sleep(c) ==
  /\ pc[c] = "dozing"
  /\ m_mutex' = NoOne
  /\ m_waitCondi' = m_waitCondi \cup {c}
  /\ Goto(c, "asleep")
  /\ UNCHANGED <<m_state, m_taskTh, m_value, timed, made, run, terminated>>

WakeUp(c) ==
  /\ pc[c] = "asleep"
  /\ c \notin m_waitCondi
  /\ Goto(c, "entering")
  /\ UNCHANGED <<m_state, m_taskTh, m_value, m_mutex, m_waitCondi, timed, made, run, terminated>>

WakeSpuriously(c) ==
  /\ pc[c] = "asleep"
  /\ m_waitCondi' = m_waitCondi \ {c}
  /\ Goto(c, "entering")
  /\ UNCHANGED <<m_state, m_taskTh, m_value, m_mutex, timed, made, run, terminated>>

Timeout(c) ==
  /\ pc[c] = "asleep"
  /\ timed[c]
  /\ m_waitCondi' = m_waitCondi \ {c}
  /\ Goto(c, "late")
  /\ UNCHANGED <<m_state, m_taskTh, m_value, m_mutex, timed, made, run, terminated>>

\* wait_for() locks the mutex and returns what the predicate says now.
TestLate(c) ==
  /\ pc[c] = "late"
  /\ m_mutex = NoOne
  /\ \/ /\ m_state = "Running"                  \* unlock() and stop()
        /\ Goto(c, "stopping")
        /\ UNCHANGED m_mutex
     \/ /\ m_state # "Running"
        /\ m_mutex' = c
        /\ Goto(c, "deciding")
  /\ UNCHANGED <<m_state, m_taskTh, m_value, m_waitCondi, timed, made, run, terminated>>

Decide(c) ==
  /\ pc[c] = "deciding"
  /\ IF m_state = "Idle" /\ m_taskTh # NoRun
        THEN Goto(c, "joining") /\ UNCHANGED m_mutex
        ELSE Goto(c, "idle") /\ m_mutex' = NoOne
  /\ UNCHANGED <<m_state, m_taskTh, m_value, m_waitCondi, timed, made, run, terminated>>

\* join() returns when the thread has ended.  It has the mutex all the while.
Join(c) ==
  /\ pc[c] = "joining"
  /\ run[m_taskTh] = "ended"
  /\ m_taskTh' = NoRun
  /\ m_mutex' = NoOne
  /\ Goto(c, "idle")
  /\ UNCHANGED <<m_state, m_value, m_waitCondi, timed, made, run, terminated>>

-----------------------------------------------------------------------------
(* executed(), in the thread of run r.                                     *)

FinishRun(r) ==                                \* run() returns or throws
  /\ run[r] = "running"
  /\ \E phase \in {"checking", "failing"} : Proceed(r, phase)
  /\ UNCHANGED <<m_state, m_taskTh, m_value, m_mutex, m_waitCondi, pc, timed, made, terminated>>

Check(r) ==
  /\ run[r] = "checking"
  /\ m_mutex = NoOne
  /\ \/ /\ m_state = "Running"
        /\ m_mutex' = r
        /\ Proceed(r, "setting")
     \/ /\ m_state # "Running"
        /\ Proceed(r, "finishing")
        /\ UNCHANGED m_mutex
  /\ UNCHANGED <<m_state, m_taskTh, m_value, m_waitCondi, pc, timed, made, terminated>>

Set(r) ==
  /\ run[r] = "setting"
  /\ m_value' = r
  /\ m_mutex' = NoOne
  /\ Proceed(r, "finishing")
  /\ UNCHANGED <<m_state, m_taskTh, m_waitCondi, pc, timed, made, terminated>>

Fail(r) ==                                     \* the catch
  /\ run[r] = "failing"
  /\ m_mutex = NoOne
  /\ m_value' = NoRun
  /\ Proceed(r, "finishing")
  /\ UNCHANGED <<m_state, m_taskTh, m_mutex, m_waitCondi, pc, timed, made, terminated>>

FinishFault(r) ==                              \* a store, where the code has testAndSet
  /\ run[r] = "finishing"
  /\ m_mutex = NoOne
  /\ m_state' = "Idle"
  /\ m_waitCondi' = {}
  /\ Proceed(r, "ending")
  /\ UNCHANGED <<m_taskTh, m_value, m_mutex, pc, timed, made, terminated>>

Finish(r) ==
  /\ run[r] = "finishing"
  /\ m_mutex = NoOne
  /\ m_state' = IF m_state = "Running" THEN "Idle" ELSE m_state
  /\ m_waitCondi' = {}
  /\ Proceed(r, "ending")
  /\ UNCHANGED <<m_taskTh, m_value, m_mutex, pc, timed, made, terminated>>

-----------------------------------------------------------------------------
(* The references: one of each client, and "self" in the lambda of a thread. *)

Destroyed == (\A c \in Clients : pc'[c] = "gone") /\ (\A r \in Runs : run'[r] \in {"none", "ended"})

End(r) ==
  /\ run[r] = "ending"
  /\ Proceed(r, "ended")
  /\ UNCHANGED pc
  /\ terminated' = (Destroyed /\ m_taskTh # NoRun)
  /\ UNCHANGED <<m_state, m_taskTh, m_value, m_mutex, m_waitCondi, timed, made>>

Drop(c) ==
  /\ pc[c] = "idle"
  /\ Careful => MayDrop(c)
  /\ Goto(c, "gone")
  /\ UNCHANGED run
  /\ terminated' = (Destroyed /\ m_taskTh # NoRun)
  /\ UNCHANGED <<m_state, m_taskTh, m_value, m_mutex, m_waitCondi, timed, made>>

Done ==                                        \* an end that is no deadlock
  /\ \/ terminated
     \/ /\ \A c \in Clients : pc[c] = "gone"
        /\ \A r \in Runs : run[r] \in {"none", "ended"}
  /\ UNCHANGED vars

-----------------------------------------------------------------------------
Lock(c) == ResetValue(c) \/ Notify(c) \/ Enter(c) \/ TestLate(c)

Advance(c) ==
  \/ Launch(c) \/ Assign(c)
  \/ Stop(c) \/ Detach(c)
  \/ Test(c) \/ Sleep(c) \/ WakeUp(c) \/ Decide(c) \/ Join(c)

CallOf(c) ==
  \/ Start(c)
  \/ CallStop(c)
  \/ \E limited \in BOOLEAN : CallWait(c, limited)
  \/ Drop(c)

Execute(r) == Check(r) \/ Fail(r) \/ Finish(r)

Next ==
  \/ /\ ~terminated
     /\ \/ \E c \in Clients : Lock(c) \/ Advance(c) \/ CallOf(c) \/ Timeout(c) \/ WakeSpuriously(c)
        \/ \E r \in Runs : FinishRun(r) \/ Execute(r) \/ Set(r) \/ End(r)
  \/ Done

Spec == Init /\ [][Next]_vars

\* Threads run, and who wants the mutex gets it when it is free often enough.
\* The time limit is a point in time: waking spuriously does not put it off.
\* Nobody needs to call, and run() need not return.
FairSpec ==
  /\ Spec
  /\ \A c \in Clients : /\ SF_vars(~terminated /\ Lock(c))
                        /\ SF_vars(~terminated /\ Timeout(c))
                        /\ WF_vars(~terminated /\ Advance(c))
  /\ \A r \in Runs : /\ SF_vars(~terminated /\ Execute(r))
                     /\ WF_vars(~terminated /\ (Set(r) \/ End(r)))

-----------------------------------------------------------------------------
(* Properties.                                                             *)

InStop(c) == pc[c] \in {"detaching", "notifying"}
InWait(c) == pc[c] \in {"entering", "testing", "dozing", "asleep", "late", "deciding", "joining"}

\* No std::thread that is joinable is assigned to or destroyed, by whichever
\* client or thread the last reference goes (lines 73-74, 88-89).
NeverTerminates == ~terminated

\* A result is that of the last run started, never one left from a run before
\* (lines 68-71, 126-130).
ValueIsOfTheLastRun ==
  m_value # NoRun => \A r \in Launched : r <= m_value

\* No lost wake-up: who sleeps while the task does not run will be notified
\* (lines 91-94, 140).
NoSleepOnAStoppedTask ==
  m_waitCondi # {} /\ m_state # "Running" => \E c \in Clients : InStop(c)

\* A stopped task stays stopped: its old thread cannot make it startable while it
\* is still running; and when stop() has returned, the result does not change
\* any more: the thread in the background was made to see that it is detached,
\* or to be done before (lines 91-93, 127-129, 139).
StopIsFinal ==
  [][m_state = "Detached" =>
       /\ m_state' = "Detached"
       /\ (\A c \in Clients : ~InStop(c)) => m_value' = m_value]_vars

\* start() of an idle task starts its thread, it does not end the process
\* (lines 14 and 40 of the source, the code is line 74).
IdleCanBeStarted ==
  [][\A c \in Clients : pc[c] = "assigning" /\ pc'[c] = "idle" => ~terminated']_vars

-----------------------------------------------------------------------------
(***************************************************************************)
(* Theorems, for any number of clients and runs: the mutex and the types,  *)
(* and, for clients that keep to MayStart, MayCall and MayDrop, the safety *)
(* properties.                                                             *)
(*                                                                         *)
(* The invariant follows the argument. Who is in start() is alone, and no  *)
(* run is live before its thread is made (StartOK); so a live run is the   *)
(* last one, and Idle means that none is live (RunsOK). Whoever saw         *)
(* Running under the mutex can rely on a stop() that has still to take the *)
(* mutex (SleepOK, RunsOK). A detached task has let go of its thread, or   *)
(* is about to (DetachOK), and the last reference leaves no thread         *)
(* (GoneOK).                                                               *)
(***************************************************************************)

InCriticalSection(c) == pc[c] \in {"testing", "dozing", "deciding", "joining"}
Unset(r) == run[r] \in {"running", "checking", "setting", "failing"}
Live(r) == Unset(r) \/ run[r] = "finishing"
SomeoneStops == \E c \in Clients : InStop(c)

MutexOK ==
  /\ \A c \in Clients : InCriticalSection(c) => m_mutex = c
  /\ \A r \in Runs : run[r] = "setting" => m_mutex = r

StartOK ==
  \A c \in Clients : pc[c] \in Starting =>
    /\ m_state # "Detached" /\ m_taskTh = NoRun
    /\ \A d \in Clients \ {c} : Unused(d)
    /\ pc[c] # "assigning" => m_state = "Running" /\ \A r \in Runs : ~Live(r)
    /\ pc[c] = "launching" => m_value = NoRun

RunsOK ==
  /\ \A r \in Runs : Live(r) => m_state # "Idle" /\ \A q \in Runs : run[q] # "none" => q <= r
  /\ \A r \in Runs : Unset(r) => m_value = NoRun
  /\ \A q, r \in Runs : run[r] # "none" /\ q <= r => run[q] # "none"
  /\ m_value # NoRun => \A r \in Runs : run[r] # "none" => r <= m_value
  /\ \A r \in Runs : run[r] = "setting" /\ m_state # "Running" => SomeoneStops

SleepOK ==
  /\ \A c \in m_waitCondi : pc[c] = "asleep"
  /\ m_waitCondi # {} /\ m_state # "Running" => SomeoneStops
  /\ \A c \in Clients : pc[c] = "dozing" /\ m_state # "Running" => SomeoneStops

DetachOK == m_state = "Detached" /\ m_taskTh # NoRun => \E c \in Clients : pc[c] = "detaching"

GoneOK == (\A c \in Clients : pc[c] = "gone") => m_taskTh = NoRun

Mutex == TypeOK /\ MutexOK

IInv == Mutex /\ StartOK /\ RunsOK /\ SleepOK /\ DetachOK /\ GoneOK /\ NeverTerminates

-----------------------------------------------------------------------------

\* Nothing has happened yet (lines 27-35).
LEMMA InitIInv == TaskAssumption /\ Init => IInv
  BY DEF TaskAssumption, Init, IInv, Mutex, TypeOK, MutexOK, StartOK, RunsOK,
         SleepOK, DetachOK, GoneOK, NeverTerminates, Runs, NoRun, Place, Phase,
         InCriticalSection, Starting, Live, Unset, SomeoneStops

\* A client's step. What a lock, a test or a sleep of wait() does is seen in
\* MutexOK and SleepOK, what start() does in StartOK and RunsOK, and stop() and
\* the last reference in DetachOK and GoneOK.
LEMMA ClientStep ==
  ASSUME TaskAssumption, Careful, IInv, NEW c \in Clients,
         Lock(c) \/ Advance(c) \/ CallOf(c) \/ Timeout(c) \/ WakeSpuriously(c)
  PROVE  IInv'
<1> USE DEF TaskAssumption, IInv, Mutex, TypeOK, MutexOK, StartOK, RunsOK, SleepOK,
        DetachOK, GoneOK, NeverTerminates, Runs, NoRun, Place, Phase, InCriticalSection,
        Starting, Unused, Live, Unset, SomeoneStops, InStop, Goto
\* The client is alone, and Idle means that no run is live.
<1>1. CASE Start(c)
  BY <1>1 DEF Start, MayStart
\* No run is live that could set the value.
<1>2. CASE ResetValue(c)
  BY <1>2 DEF ResetValue
\* The new run is the last one; or there is none, and the client is idle again.
<1>3. CASE Launch(c)
  BY <1>3 DEF Launch, Proceed, Launched
\* The client is alone: nobody has set m_taskTh meanwhile.
<1>4. CASE Assign(c)
  BY <1>4 DEF Assign
\* Nobody is in start().
<1>5. CASE CallStop(c)
  BY <1>5 DEF CallStop, MayCall
\* Who has seen Running under the mutex can rely on this client, which is to take it.
<1>6. CASE Stop(c)
  BY <1>6 DEF Stop
\* The detached thread is let go of.
<1>7. CASE Detach(c)
  BY <1>7 DEF Detach
\* The mutex is free: nobody has seen Running and not acted on it.
<1>8. CASE Notify(c)
  BY <1>8 DEF Notify
\* The mutex was free.
<1>9. CASE Enter(c)
  BY <1>9 DEF Enter
\* Running was seen under the mutex.
<1>10. CASE Test(c)
  BY <1>10 DEF Test
\* What was true of the one about to sleep is true of the sleeper.
<1>11. CASE Sleep(c)
  BY <1>11 DEF Sleep
<1>12. CASE WakeUp(c)
  BY <1>12 DEF WakeUp
<1>13. CASE WakeSpuriously(c)
  BY <1>13 DEF WakeSpuriously
<1>14. CASE Timeout(c)
  BY <1>14 DEF Timeout
\* As Stop, or as Test.
<1>15. CASE TestLate(c)
  BY <1>15 DEF TestLate
<1>16. CASE Decide(c)
  BY <1>16 DEF Decide
\* The thread has ended and is no more.
<1>17. CASE Join(c)
  BY <1>17 DEF Join
\* The last reference goes when the thread was joined or let go of.
<1>18. CASE Drop(c)
  BY <1>18 DEF Drop, MayDrop, MayCall, Destroyed
<1>19. ASSUME NEW limited \in BOOLEAN, CallWait(c, limited) PROVE IInv'
  BY <1>19 DEF CallWait, MayCall
<1> QED
  BY <1>1, <1>2, <1>3, <1>4, <1>5, <1>6, <1>7, <1>8, <1>9, <1>10, <1>11, <1>12,
     <1>13, <1>14, <1>15, <1>16, <1>17, <1>18, <1>19 DEF Lock, Advance, CallOf

\* A step of the thread of a run.
LEMMA RunStep ==
  ASSUME TaskAssumption, IInv, NEW r \in Runs, FinishRun(r) \/ Execute(r) \/ Set(r) \/ End(r)
  PROVE  IInv'
<1> USE DEF TaskAssumption, IInv, Mutex, TypeOK, MutexOK, StartOK, RunsOK, SleepOK,
        DetachOK, GoneOK, NeverTerminates, Runs, NoRun, Place, Phase, InCriticalSection,
        Starting, Unused, Live, Unset, SomeoneStops, InStop, Proceed
<1>1. CASE FinishRun(r)
  BY <1>1 DEF FinishRun
\* Running is seen under the mutex.
<1>2. CASE Check(r)
  BY <1>2 DEF Check
\* The live run is the last one.
<1>3. CASE Set(r)
  BY <1>3 DEF Set
<1>4. CASE Fail(r)
  BY <1>4 DEF Fail
\* The last run is over; nobody has seen Running and not acted on it.
<1>5. CASE Finish(r)
  BY <1>5 DEF Finish
\* The last reference goes: clients that are gone left no thread.
<1>6. CASE End(r)
  BY <1>6 DEF End, Destroyed
<1> QED
  BY <1>1, <1>2, <1>3, <1>4, <1>5, <1>6 DEF Execute

LEMMA NextIInv == TaskAssumption /\ Careful /\ IInv /\ [Next]_vars => IInv'
<1> SUFFICES ASSUME TaskAssumption, Careful, IInv, [Next]_vars PROVE IInv'
  OBVIOUS
<1>1. CASE UNCHANGED vars
  BY <1>1 DEF vars, IInv, Mutex, TypeOK, MutexOK, InCriticalSection, StartOK, Unused,
     Live, Unset,
              RunsOK, SleepOK, SomeoneStops, InStop, DetachOK, GoneOK, NeverTerminates
<1>2. CASE Next
  BY <1>1, <1>2, ClientStep, RunStep DEF Next, Done
<1> QED BY <1>1, <1>2

\* What a step may not do to a stopped task.
LEMMA StoppedStep ==
  ASSUME Careful, IInv, Next, m_state = "Detached"
  PROVE  m_state' = "Detached" /\ (~SomeoneStops => m_value' = m_value)
<1> USE DEF IInv, Mutex
<1>1. ASSUME NEW c \in Clients, pc[c] \in Starting PROVE FALSE
  BY <1>1 DEF StartOK
<1>2. ASSUME NEW c \in Clients,
             Lock(c) \/ Advance(c) \/ CallOf(c) \/ Timeout(c) \/ WakeSpuriously(c)
      PROVE  m_state' = m_state /\ m_value' = m_value
  <2>1. pc[c] \notin {"resetting", "launching", "assigning"}
    BY <1>1 DEF Starting
  <2>2. CASE Lock(c)
    BY <2>1, <2>2 DEF Lock, ResetValue, Notify, Enter, TestLate
  <2>3. CASE Advance(c)
    BY <2>1, <2>3 DEF Advance, Launch, Assign, Stop, Detach, Test, Sleep, WakeUp,
       Decide, Join
  <2>4. CASE CallOf(c)
    BY <2>4 DEF CallOf, Start, CallStop, CallWait, Drop
  <2>5. CASE Timeout(c) \/ WakeSpuriously(c)
    BY <2>5 DEF Timeout, WakeSpuriously
  <2> QED BY <1>2, <2>2, <2>3, <2>4, <2>5
\* The failing run has set nothing, and one that has the mutex to set the value
\* holds up a stop().
<1>3. ASSUME NEW r \in Runs, FinishRun(r) \/ Execute(r) \/ Set(r) \/ End(r)
      PROVE  m_state' = m_state /\ (~SomeoneStops => m_value' = m_value)
  <2>1. CASE FinishRun(r) \/ End(r)
    BY <2>1 DEF FinishRun, End
  <2>2. CASE Check(r) \/ Finish(r)
    BY <2>2 DEF Check, Finish
  <2>3. CASE Fail(r)
    BY <2>3 DEF Fail, RunsOK, Unset
  <2>4. CASE Set(r)
    BY <2>4 DEF Set, RunsOK
  <2> QED BY <1>3, <2>1, <2>2, <2>3, <2>4 DEF Execute
<1>4. CASE Done
  BY <1>4 DEF Done, vars
<1> QED BY <1>2, <1>3, <1>4 DEF Next

-----------------------------------------------------------------------------
(* Theorems                                                                 *)

\* The strengthened invariant.
THEOREM Invariance == TaskAssumption /\ Careful /\ Spec => []IInv
<1>1. TaskAssumption /\ Careful /\ IInv /\ [Next]_vars => IInv'
  BY NextIInv
<1> SUFFICES ASSUME TaskAssumption, Careful PROVE Spec => []IInv
  OBVIOUS
<1>2. IInv /\ [Next]_vars => IInv'
  BY <1>1
<1> QED BY InitIInv, <1>2, PTL DEF Spec

\* The mutex belongs to whoever is in a critical section (lines 100-118, 127, 133).
THEOREM TypeCorrect == TaskAssumption /\ Careful /\ Spec => []TypeOK
<1>1. IInv => TypeOK
  BY DEF IInv, Mutex
<1> QED BY Invariance, <1>1, PTL

\* For any number of careful clients and restarts, nobody destroys or assigns to
\* a joinable std::thread (lines 73-74, 88-89).
THEOREM Survives == TaskAssumption /\ Careful /\ Spec => []NeverTerminates
<1>1. IInv => NeverTerminates
  BY DEF IInv
<1> QED BY Invariance, <1>1, PTL

\* A result is never one of an earlier run (lines 68-71, 126-130).
THEOREM ValueIsNew == TaskAssumption /\ Careful /\ Spec => []ValueIsOfTheLastRun
<1>1. IInv => ValueIsOfTheLastRun
  BY DEF IInv, RunsOK, ValueIsOfTheLastRun, Launched
<1> QED BY Invariance, <1>1, PTL

\* No wake-up is lost between the test and the sleep of a wait() (lines 91-94, 140).
THEOREM NoLostWakeUp == TaskAssumption /\ Careful /\ Spec => []NoSleepOnAStoppedTask
<1>1. IInv => NoSleepOnAStoppedTask
  BY DEF IInv, SleepOK, NoSleepOnAStoppedTask, SomeoneStops
<1> QED BY Invariance, <1>1, PTL

\* What stop() leaves behind stays as it is (lines 91-93, 127-129, 139).
THEOREM StoppedForGood == TaskAssumption /\ Careful /\ Spec => StopIsFinal
<1> SUFFICES ASSUME TaskAssumption, Careful PROVE Spec => StopIsFinal
  OBVIOUS
<1>1. IInv /\ [Next]_vars =>
        [m_state = "Detached" =>
           /\ m_state' = "Detached"
           /\ (\A c \in Clients : ~InStop(c)) => m_value' = m_value]_vars
  BY StoppedStep DEF SomeoneStops
<1>2. Spec => []IInv
  BY Invariance
<1> QED BY <1>1, <1>2, PTL DEF Spec, StopIsFinal
=============================================================================
