------------------------------ MODULE ScLocker ------------------------------
(***************************************************************************)
(* ScReadLocker and ScWriteLocker: objects that take a lock when they are  *)
(* made and give it back when they go, and that may give it back and take  *)
(* it again in between. Whether a locker has its lock is the lowest bit of *)
(* the pointer to it. The lock is that of module ReadWriteLock.            *)
(***************************************************************************)
EXTENDS Integers, FiniteSets

CONSTANTS Readers, Writers     \* lockers, each of a scope of its own

LockerAssumption == Readers \cap Writers = {}

Lockers == Readers \cup Writers

VARIABLES q_val,   \* NoLocker, or the pointer (0 or 1 lock) and its tag
          reading, \* the calls of lockForRead() without their unlock()
          writing  \* the same of lockForWrite()

vars == <<q_val, reading, writing>>

NoLocker == [lock |-> 0, tag |-> 0, exists |-> FALSE]

Init ==
  /\ q_val = [l \in Lockers |-> NoLocker]
  /\ reading = 0 /\ writing = 0

\* lockForRead() and lockForWrite() of the lock, which block.
Lock(l) ==
  /\ writing = 0
  /\ IF l \in Readers
     THEN reading' = reading + 1 /\ UNCHANGED writing
     ELSE reading = 0 /\ writing' = 1 /\ UNCHANGED reading

\* unlock() of the lock gives back whatever it is locked for.
UnlockLock ==
  IF writing > 0 THEN writing' = 0 /\ UNCHANGED reading
  ELSE reading' = reading - 1 /\ UNCHANGED writing

Take(l, q) ==
  IF q.lock = 1 /\ q.tag = 0
  THEN Lock(l) /\ q_val' = [q_val EXCEPT ![l] = [q EXCEPT !.tag = 1]]
  ELSE q_val' = [q_val EXCEPT ![l] = q] /\ UNCHANGED <<reading, writing>>

UntaggedFault(q) == q
Untagged(q) == [q EXCEPT !.tag = 0]

GiveBack(l, after) ==
  /\ q_val' = [q_val EXCEPT ![l] = after]
  /\ IF q_val[l].lock = 1 /\ q_val[l].tag = 1 THEN UnlockLock ELSE UNCHANGED <<reading, writing>>

\* The constructor, with a lock or with none.
Construct(l) ==
  /\ ~q_val[l].exists
  /\ \E lock \in {0, 1} : Take(l, [lock |-> lock, tag |-> 0, exists |-> TRUE])

Relock(l) == q_val[l].exists /\ Take(l, q_val[l])

Unlock(l) ==
  /\ q_val[l].exists
  /\ GiveBack(l, IF q_val[l].tag = 1 THEN Untagged(q_val[l]) ELSE q_val[l])

Destroy(l) == q_val[l].exists /\ GiveBack(l, NoLocker)

Next == \E l \in Lockers : Construct(l) \/ Relock(l) \/ Unlock(l) \/ Destroy(l)

-----------------------------------------------------------------------------
(* Property                                                                 *)

Tagged(S) == Cardinality({l \in S : q_val[l].tag = 1})

\* However often they are unlocked and relocked, the lock is held once by every locker
\* whose pointer is tagged, and by nobody else: no writer beside another locker, and
\* nobody's hold is given back by another.
HeldByTagged ==
  /\ reading = Tagged(Readers) /\ writing = Tagged(Writers)
  /\ \A l \in Lockers : q_val[l].tag <= q_val[l].lock
  /\ writing = 0 \/ writing + reading = 1

=============================================================================
