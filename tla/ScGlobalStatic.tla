--------------------------- MODULE ScGlobalStatic ---------------------------
(***************************************************************************)
(* An object that SC_GLOBAL_STATIC makes when it is first asked for, and   *)
(* that goes when the program exits, while threads may still ask for it.   *)
(* The compiler guards its making, or a mutex and the guard do.            *)
(***************************************************************************)
EXTENDS Integers

CONSTANTS Threads, None

StaticAssumption == None \notin Threads \cup {"half"}

VARIABLES threadsafeStatics, \* SC_COMPILER_THREADSAFE_STATICS is defined
          guard,             \* ScGuardValues
          object,            \* "absent", "half", "whole" or "gone"
          constructions,     \* how often the object was made
          initialized,       \* holder or cleanup is, and will be destroyed at exit
          owner,             \* the thread that has the mutex, or the compiler's guard
          spot,              \* of each thread
          answer,            \* what a thread got, None before
          late               \* history: the call began when the object was destroyed

vars == <<threadsafeStatics, guard, object, constructions, initialized, owner, spot, answer, late>>

Destroyed == -2
Initialized == -1
Uninitialized == 0

Init ==
  /\ threadsafeStatics \in BOOLEAN
  /\ guard = Uninitialized /\ object = "absent" /\ constructions = 0 /\ initialized = FALSE
  /\ owner = None
  /\ spot = [t \in Threads |-> "idle"] /\ answer = [t \in Threads |-> None]
  /\ late = [t \in Threads |-> FALSE]

At(t, here, there) == spot[t] = here /\ spot' = [spot EXCEPT ![t] = there]
isDestroyed == guard <= Destroyed

\* operator(), which asks the guard before it calls innerFunction().
Call(t) ==
  /\ At(t, "idle", IF isDestroyed THEN "idle" ELSE "called")
  /\ answer' = [answer EXCEPT ![t] = IF isDestroyed THEN "null" ELSE None]
  /\ late' = [late EXCEPT ![t] = guard = Destroyed]
  /\ UNCHANGED <<threadsafeStatics, guard, object, constructions, initialized, owner>>

Return(t) == answer' = [answer EXCEPT ![t] = object]

\* The look without the mutex.
Look(t) ==
  /\ IF IF threadsafeStatics THEN initialized ELSE guard < Uninitialized
     THEN At(t, "called", "idle") /\ Return(t)
     ELSE At(t, "called", "locking") /\ UNCHANGED answer
  /\ UNCHANGED <<threadsafeStatics, guard, object, constructions, initialized, owner, late>>

NeededFault == object # "half"

\* The look with it.
Needed == IF threadsafeStatics THEN ~initialized ELSE guard = Uninitialized

Lock(t) ==
  /\ owner = None
  /\ IF Needed
     THEN /\ At(t, "locking", "making") /\ owner' = t
          /\ object' = "half" /\ UNCHANGED answer
     ELSE /\ At(t, "locking", "idle") /\ Return(t)
          /\ UNCHANGED <<owner, object>>
  /\ UNCHANGED <<threadsafeStatics, guard, constructions, initialized, late>>

\* The constructor of Type ends.
Construct(t) ==
  /\ At(t, "making", "made")
  /\ object' = "whole" /\ constructions' = constructions + 1
  /\ UNCHANGED <<threadsafeStatics, guard, initialized, owner, answer, late>>

Publish(t) ==
  /\ At(t, "made", "idle")
  /\ guard' = Initialized /\ initialized' = TRUE /\ owner' = None
  /\ Return(t)
  /\ UNCHANGED <<threadsafeStatics, object, constructions, late>>

\* At exit the value is destroyed first; the guard is told afterwards, and who asks in
\* between gets an object that has gone.
Delete ==
  /\ initialized /\ object = "whole" /\ object' = "gone"
  /\ UNCHANGED <<threadsafeStatics, guard, constructions, initialized, owner, spot, answer, late>>

EndOfDelete ==
  /\ object = "gone" /\ guard = Initialized /\ guard' = Destroyed
  /\ UNCHANGED <<threadsafeStatics, object, constructions, initialized, owner, spot, answer, late>>

Next ==
  \/ \E t \in Threads : Call(t) \/ Look(t) \/ Lock(t) \/ Construct(t) \/ Publish(t)
  \/ Delete \/ EndOfDelete

-----------------------------------------------------------------------------
(* Properties                                                               *)

TypeOK ==
  /\ guard \in Destroyed .. Uninitialized /\ object \in {"absent", "half", "whole", "gone"}
  /\ owner \in Threads \cup {None} /\ spot \in [Threads -> {"idle", "called", "locking", "making", "made"}]
  /\ answer \in [Threads -> {None, "null", "half", "whole", "gone"}]

\* The object is made once; until the program's exit destroys it, whoever has got it
\* got it whole; it does not come back, and who asks after the guard was told gets null.
\* Between the end of the object and that (Delete and EndOfDelete) a call still gets it.
MadeOnce ==
  /\ constructions <= 1
  /\ \A t \in Threads : /\ answer[t] # "half"
                        /\ object # "gone" => answer[t] \in {None, "whole"}
                        /\ late[t] => answer[t] = "null"
  /\ guard = Initialized => object \in {"whole", "gone"}
  /\ guard = Destroyed => object = "gone"

=============================================================================
