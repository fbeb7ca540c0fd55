------------------------------ MODULE ScAtomic ------------------------------
(***************************************************************************)
(* ScAtomicInteger and ScAtomicPointer: what the operations do to a cell,  *)
(* and what the memory orders they pass to std::atomic let the threads see *)
(* of each other's ordinary writes.                                        *)
(*                                                                         *)
(* A cell is the sequence of its stores, the modification order. A load    *)
(* may find any store not older than the last the thread knows of; a       *)
(* read-modify-write follows the newest. Every thread has written its own  *)
(* part of memory before: `seen' are the threads whose part it sees.       *)
(***************************************************************************)
EXTENDS Naturals, Sequences, FiniteSets

CONSTANTS Threads, Cells,
          Modulus,     \* the values of an integer
          MaxStores    \* bounds the stores of a cell, beside those that drop the first references

AtomicAssumption ==
  /\ IsFiniteSet(Threads) /\ Threads # {}
  /\ Modulus \in Nat /\ MaxStores \in Nat /\ 2 * Cardinality(Threads) + MaxStores < Modulus

VARIABLES _q_value,   \* the stores of every cell
          newest,     \* the newest store of a cell that a thread knows of
          seen,       \* the threads whose writes a thread sees
          due,        \* history: those it was promised, by the names it called
          counting,   \* the cells are counters of references, one held by each thread
          held, last  \* the references of every thread, and who dropped the last one

vars == <<_q_value, newest, seen, due, counting, held, last>>

Values == 0 .. Modulus - 1
Store(value, visible, promised) == [value |-> value, seen |-> visible, due |-> promised]

Init ==
  /\ counting \in BOOLEAN
  /\ _q_value = [c \in Cells |-> <<Store(IF counting THEN Cardinality(Threads) ELSE 0, {}, {})>>]
  /\ newest = [t \in Threads |-> [c \in Cells |-> 1]]
  /\ seen = [t \in Threads |-> {t}] /\ due = [t \in Threads |-> {t}]
  /\ held = [t \in Threads |-> [c \in Cells |-> IF counting THEN 1 ELSE 0]]
  /\ last = [c \in Cells |-> {}]

-----------------------------------------------------------------------------
(* The orders that the functions pass to std::atomic                        *)

OrderNames == {"Relaxed", "Acquire", "Release", "Ordered"}

\* Of load and store; load() and store() themselves are relaxed.
LoadOrder(name) == IF name = "Acquire" THEN "acquire" ELSE "relaxed"
StoreOrder(name) == IF name = "Release" THEN "release" ELSE "relaxed"

FetchOrderFault(name) ==
  CASE name = "Relaxed" -> "relaxed" [] name = "Acquire" -> "acquire"
    [] name = "Release" -> "release" [] name = "Ordered" -> "acquire"

\* Of fetchAndAdd, fetchAndSub, and of testAndSet when it stores.
FetchOrder(name) ==
  CASE name = "Relaxed" -> "relaxed" [] name = "Acquire" -> "acquire"
    [] name = "Release" -> "release" [] name = "Ordered" -> "acq_rel"

\* Of testAndSet when it only loads.
FailureOrder(name) == IF name \in {"Acquire", "Ordered"} THEN "acquire" ELSE "relaxed"

CountOrderFault == "relaxed"

\* ref() and deref() are operators of std::atomic.
CountOrder == "seq_cst"

Acquires(order) == order \in {"acquire", "acq_rel", "seq_cst"}
Releases(order) == order \in {"release", "acq_rel", "seq_cst"}

\* What the names say.
Collects(name) == name \in {"Acquire", "Ordered"}
Publishes(name) == name \in {"Release", "Ordered"}

-----------------------------------------------------------------------------
(* Loads, stores and both at once, as std::atomic has them                  *)

\* How many stores a cell gets: enough for all to drop their references.
Bound == IF counting THEN Cardinality(Threads) + MaxStores ELSE MaxStores

Visible(t, c) == newest[t][c] .. Len(_q_value[c])
Newest(c) == _q_value[c][Len(_q_value[c])]

\* Thread t finds store i of cell c.
Find(t, c, i, name, order) ==
  LET found == _q_value[c][i]
  IN  /\ seen' = [seen EXCEPT ![t] = @ \cup IF Acquires(order) THEN found.seen ELSE {}]
      /\ due' = [due EXCEPT ![t] = @ \cup IF Collects(name) THEN found.due ELSE {}]

\* Thread t adds a store to cell c, which goes on with the release sequence `before'.
Add(t, c, value, before, name, order) ==
  /\ Len(_q_value[c]) <= Bound
  /\ _q_value' = [_q_value EXCEPT ![c] =
       Append(@, Store(value, before.seen \cup IF Releases(order) THEN seen'[t] ELSE {},
                              before.due \cup IF Publishes(name) THEN due'[t] ELSE {}))]
  /\ newest' = [newest EXCEPT ![t][c] = Len(_q_value[c]) + 1]

NoSequence == Store(0, {}, {})

Load(t, c, name) ==
  /\ \E i \in Visible(t, c) :
       Find(t, c, i, name, LoadOrder(name)) /\ newest' = [newest EXCEPT ![t][c] = i]
  /\ UNCHANGED <<_q_value, held, last>>

StoreValue(t, c, value, name) ==
  /\ UNCHANGED <<seen, due, held, last>>
  /\ Add(t, c, value, NoSequence, name, StoreOrder(name))

\* A copy: storeRelease(other.loadAcquire()).
Assign(t, c, other) ==
  /\ \E i \in Visible(t, other) :
       /\ Find(t, other, i, "Acquire", LoadOrder("Acquire"))
       /\ Len(_q_value[c]) <= Bound
       /\ _q_value' = [_q_value EXCEPT ![c] =
            Append(@, Store(_q_value[other][i].value,
                            IF Releases(StoreOrder("Release")) THEN seen'[t] ELSE {}, due'[t]))]
       /\ newest' = [newest EXCEPT ![t] = [@ EXCEPT ![other] = i, ![c] = Len(_q_value[c]) + 1]]
  /\ UNCHANGED <<held, last>>

\* Store what f makes of the newest value.
Modify(t, c, value, name, order) ==
  /\ Find(t, c, Len(_q_value[c]), name, order)
  /\ Add(t, c, value, Newest(c), name, order)

TestAndSet(t, c, expectedValue, newValue, name) ==
  /\ \/ /\ Newest(c).value = expectedValue
        /\ Modify(t, c, newValue, name, FetchOrder(name))
     \/ \E i \in Visible(t, c) :
          /\ _q_value[c][i].value # expectedValue
          /\ Find(t, c, i, name, FailureOrder(name)) /\ newest' = [newest EXCEPT ![t][c] = i]
          /\ UNCHANGED _q_value
  /\ UNCHANGED <<held, last>>

FetchAndAdd(t, c, valueToAdd, name) ==
  /\ Modify(t, c, (Newest(c).value + valueToAdd) % Modulus, name, FetchOrder(name))
  /\ UNCHANGED <<held, last>>

FetchAndSub(t, c, valueToAdd, name) ==
  /\ Modify(t, c, (Newest(c).value + Modulus - valueToAdd) % Modulus, name, FetchOrder(name))
  /\ UNCHANGED <<held, last>>

-----------------------------------------------------------------------------
(* Counting references: a thread that has one may take another, or drop it  *)

Ref(t, c) ==
  /\ held[t][c] > 0
  /\ Modify(t, c, (Newest(c).value + 1) % Modulus, "Ordered", CountOrder)
  /\ held' = [held EXCEPT ![t][c] = @ + 1]
  /\ UNCHANGED last

Deref(t, c) ==
  LET value == (Newest(c).value + Modulus - 1) % Modulus
  IN  /\ held[t][c] > 0
      /\ Modify(t, c, value, "Ordered", CountOrder)
      /\ held' = [held EXCEPT ![t][c] = @ - 1]
      /\ last' = [last EXCEPT ![c] = IF value # 0 THEN @ ELSE @ \cup {t}]

Next ==
  /\ UNCHANGED counting
  /\ IF counting
     THEN \E t \in Threads, c \in Cells : Ref(t, c) \/ Deref(t, c)
     ELSE \E t \in Threads, c \in Cells :
            \/ \E name \in {"Relaxed", "Acquire"} : Load(t, c, name)
            \/ \E name \in {"Relaxed", "Release"} : StoreValue(t, c, 1, name)
            \/ \E name \in OrderNames : \/ FetchAndAdd(t, c, 1, name) \/ FetchAndSub(t, c, 1, name)
                                   \/ \E e \in {0, 1} : TestAndSet(t, c, e, 1, name)
            \/ \E other \in Cells : Assign(t, c, other)

-----------------------------------------------------------------------------
(* Properties                                                               *)

TypeOK ==
  /\ \A c \in Cells : \A i \in DOMAIN _q_value[c] :
       _q_value[c][i] \in [value : Values, seen : SUBSET Threads, due : SUBSET Threads]
  /\ seen \in [Threads -> SUBSET Threads] /\ due \in [Threads -> SUBSET Threads]
  /\ \A t \in Threads, c \in Cells : newest[t][c] \in DOMAIN _q_value[c] /\ held[t][c] \in 0 .. Bound + 1
  /\ last \in [Cells -> SUBSET Threads]

\* Who takes a value over with a function named Acquire or Ordered, or as a reference,
\* sees what the thread had written that published it with one named Release or
\* Ordered, through whatever calls of other threads the value went.
PublishedIsSeen ==
  \A t \in Threads : due[t] \subseteq seen[t]

\* Of all who drop their references one learns that it was the last, when none is
\* left, and it sees what all of them wrote.
LastDropsAll ==
  counting => \A c \in Cells :
    /\ Cardinality(last[c]) = IF \A t \in Threads : held[t][c] = 0 THEN 1 ELSE 0
    /\ \A t \in last[c] : seen[t] = Threads

=============================================================================
