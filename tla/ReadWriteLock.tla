--------------------------- MODULE ReadWriteLock ---------------------------
(***************************************************************************)
(* What a read-write lock promises to its callers: who holds which lock,   *)
(* and that a lock changes hands one call at a time, to a reader only when *)
(* no writer has it and to a writer only when nobody has it.               *)
(***************************************************************************)
CONSTANTS Locks, Threads

VARIABLES readers, writers      \* the threads that hold each lock

Init ==
  /\ readers = [l \in Locks |-> {}]
  /\ writers = [l \in Locks |-> {}]

LockForRead(t, l) ==
  /\ writers[l] = {}
  /\ t \notin readers[l]
  /\ readers' = [readers EXCEPT ![l] = @ \cup {t}]
  /\ UNCHANGED writers

LockForWrite(t, l) ==
  /\ readers[l] = {}
  /\ writers[l] = {}
  /\ writers' = [writers EXCEPT ![l] = {t}]
  /\ UNCHANGED readers

Unlock(t, l) ==
  /\ t \in readers[l] \cup writers[l]
  /\ readers' = [readers EXCEPT ![l] = @ \ {t}]
  /\ writers' = [writers EXCEPT ![l] = @ \ {t}]

Next ==
  \E t \in Threads, l \in Locks :
    LockForRead(t, l) \/ LockForWrite(t, l) \/ Unlock(t, l)

Spec == Init /\ [][Next]_<<readers, writers>>
=============================================================================
