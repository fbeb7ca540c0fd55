----------------------------- MODULE ScFreeList -----------------------------
(***************************************************************************)
(* ScFreeList, the lock-free free list, from                               *)
(*   src/src/ScUtils/include/scutils/buffer/scfreelist.h                   *)
(*                                                                         *)
(* The free ids form a stack: _next holds the id on top, and element id    *)
(* holds the one below it.  The elements live in a few arrays that are     *)
(* allocated when they are first needed; a fresh array's elements point to *)
(* their successors.  _next also holds a serial number that release()      *)
(* increments and next() keeps, so that a CAS of next() fails when the top *)
(* was taken and came back; the serial has few bits and wraps.             *)
(*                                                                         *)
(* One atomic operation is one action. The theorems are at the end.        *)
(***************************************************************************)
EXTENDS Integers, FiniteSets, FiniteSetTheorems, FunctionTheorems, WellFoundedInduction, TLAPS

CONSTANTS
  Threads,
  Total,         \* how many ids there are, the sum of the sizes of the arrays
  BlockFor,      \* the array an id lies in
  SerialCount,   \* SerialMask / SerialCounter + 1, 128 in the code
  MaxHeld,       \* ids a thread has at a time
  MaxLag         \* releases between the load and the CAS of one next()

Ids == 0 .. Total - 1

FreeListAssumption ==
  /\ IsFiniteSet(Threads)
  /\ Total \in Nat \ {0}
  /\ BlockFor \in [Ids -> Nat]
  /\ \A x, y \in Ids : x <= y => BlockFor[x] <= BlockFor[y]
  /\ SerialCount \in Nat \ {0}
  /\ MaxHeld \in Nat /\ MaxLag \in Nat
  /\ MaxHeld * Cardinality(Threads) <= Total

VARIABLES
  _next,         \* [at |-> an id, or Total when none is left, serial |-> ...]
  _v,            \* which arrays are allocated
  element,       \* the field next of each element
  pc, id, at, newat, \* per thread: its place and its locals
  owned,         \* the ids a thread has got and not released
  lag            \* releases since t loaded _next in next()

vars == <<_next, _v, element, pc, id, at, newat, owned, lag>>

\* next():     looking     before it loads _next
\*             allocating  found no array for the id in _next
\*             linking     before it loads the id below
\*             taking      before its CAS
\* release():  returning   before it loads _next
\*             storing     before it links its element
\*             putting     before its CAS
State == {"idle", "looking", "allocating", "linking", "taking",
          "returning", "storing", "putting"}

Top == [at : 0 .. Total, serial : 0 .. SerialCount - 1]

\* Every variable keeps its type; the serial its width (line 99).
TypeOK ==
  /\ _next \in Top
  /\ _v \subseteq {BlockFor[x] : x \in Ids}
  /\ element \in [Ids -> 0 .. Total]
  /\ pc \in [Threads -> State]
  /\ id \in [Threads -> Top]
  /\ at \in [Threads -> 0 .. Total]
  /\ newat \in [Threads -> 0 .. Total]
  /\ owned \in [Threads -> SUBSET Ids]
  /\ lag \in [Threads -> 0 .. MaxLag]

-----------------------------------------------------------------------------

IncrementSerialFault(o) == o                   \* the serial stays
IncrementSerial(o) == (o + 1) % SerialCount

NoId == [at |-> 0, serial |-> 0]

Init ==
  /\ _next = NoId
  /\ _v = {}
  /\ element = [x \in Ids |-> 0]                 \* not allocated, never read
  /\ pc = [t \in Threads |-> "idle"]
  /\ id = [t \in Threads |-> NoId]
  /\ at = [t \in Threads |-> 0]
  /\ newat = [t \in Threads |-> 0]
  /\ owned = [t \in Threads |-> {}]
  /\ lag = [t \in Threads |-> 0]

Goto(t, state) == pc' = [pc EXCEPT ![t] = state]

\* t leaves the body of its loop: the locals are not read again.
Forget(t) ==
  /\ id' = [id EXCEPT ![t] = NoId]
  /\ newat' = [newat EXCEPT ![t] = 0]

-----------------------------------------------------------------------------
(* next().                                                                 *)

Call(t) ==
  /\ pc[t] = "idle"
  /\ Cardinality(owned[t]) < MaxHeld
  /\ Goto(t, "looking")
  /\ UNCHANGED <<_next, _v, element, id, at, newat, owned, lag>>

\* Load _next, and the array of its id.  The second load comes later, but an
\* array that is there stays there, and Allocate allows for one that is new.
Look(t) ==
  /\ pc[t] = "looking"
  /\ id' = [id EXCEPT ![t] = _next]
  /\ Goto(t, IF _next.at \in Ids /\ BlockFor[_next.at] \in _v THEN "linking" ELSE "allocating")
  /\ lag' = [lag EXCEPT ![t] = 0]
  /\ UNCHANGED <<_next, _v, element, at, newat, owned>>

\* allocate(), which makes each element point to its successor.
Fresh(i) == [x \in Ids |-> IF BlockFor[x] = i THEN x + 1 ELSE element[x]]

AllocateFault(t) ==                            \* store instead of CAS
  /\ pc[t] = "allocating"
  /\ id[t].at \in Ids
  /\ LET i == BlockFor[id[t].at]
     IN  /\ _v' = _v \cup {i}
         /\ element' = Fresh(i)
  /\ Goto(t, "linking")
  /\ UNCHANGED <<_next, id, at, newat, owned, lag>>

\* Only the first array is kept; who lost the race uses that.
Allocate(t) ==
  /\ pc[t] = "allocating"
  /\ id[t].at \in Ids                          \* else blockfor() fails, see InRange
  /\ LET i == BlockFor[id[t].at]
     IN  /\ _v' = _v \cup {i}
         /\ element' = IF i \in _v THEN element ELSE Fresh(i)
  /\ Goto(t, "linking")
  /\ UNCHANGED <<_next, id, at, newat, owned, lag>>

Link(t) ==
  /\ pc[t] = "linking"
  /\ newat' = [newat EXCEPT ![t] = element[id[t].at]]
  /\ Goto(t, "taking")
  /\ UNCHANGED <<_next, _v, element, id, at, owned, lag>>

Take(t) ==
  /\ pc[t] = "taking"
  /\ \/ /\ _next = id[t]
        /\ _next' = [id[t] EXCEPT !.at = newat[t]]
        /\ owned' = [owned EXCEPT ![t] = @ \cup {id[t].at}]
        /\ Goto(t, "idle")
     \/ /\ _next # id[t]
        /\ Goto(t, "looking")
        /\ UNCHANGED <<_next, owned>>
  /\ Forget(t)
  /\ lag' = [lag EXCEPT ![t] = 0]
  /\ UNCHANGED <<_v, element, at>>

-----------------------------------------------------------------------------
(* release().                                                              *)

CallRelease(t) ==
  /\ pc[t] = "idle"
  /\ \E x \in owned[t] : at' = [at EXCEPT ![t] = x]
  /\ Goto(t, "returning")
  /\ UNCHANGED <<_next, _v, element, id, newat, owned, lag>>

LookAgain(t) ==
  /\ pc[t] = "returning"
  /\ id' = [id EXCEPT ![t] = _next]
  /\ Goto(t, "storing")
  /\ UNCHANGED <<_next, _v, element, at, newat, owned, lag>>

Store(t) ==
  /\ pc[t] = "storing"
  /\ element' = [element EXCEPT ![at[t]] = id[t].at]
  /\ Goto(t, "putting")
  /\ UNCHANGED <<_next, _v, id, at, newat, owned, lag>>

\* Threads between the load and the CAS of next().
Looked == {u \in Threads : pc[u] \in {"allocating", "linking", "taking"}}

Put(t) ==
  /\ pc[t] = "putting"
  /\ \A u \in Looked : lag[u] < MaxLag         \* the bound, not the code
  /\ \/ /\ _next = id[t]
        /\ _next' = [at |-> at[t], serial |-> IncrementSerial(id[t].serial)]
        /\ owned' = [owned EXCEPT ![t] = @ \ {at[t]}]
        /\ lag' = [u \in Threads |-> IF u \in Looked THEN lag[u] + 1 ELSE lag[u]]
        /\ at' = [at EXCEPT ![t] = 0]
        /\ Goto(t, "idle")
     \/ /\ _next # id[t]
        /\ Goto(t, "returning")
        /\ UNCHANGED <<_next, owned, lag, at>>
  /\ Forget(t)
  /\ UNCHANGED <<_v, element>>

-----------------------------------------------------------------------------

TakeSteps(t) == Look(t) \/ Allocate(t) \/ Link(t) \/ Take(t)
PutSteps(t)  == LookAgain(t) \/ Store(t) \/ Put(t)

Next ==
  \E t \in Threads : Call(t) \/ TakeSteps(t) \/ CallRelease(t) \/ PutSteps(t)

Spec == Init /\ [][Next]_vars

-----------------------------------------------------------------------------
(* Properties.                                                             *)

\* No two threads have the same id: "Return the next free id" (line 119).
OneOwner == \A t, u \in Threads : t # u => owned[t] \cap owned[u] = {}

Abstract == INSTANCE IdPool

\* As long as fewer than SerialCount releases fall into one next() (MaxLag), the
\* list is a pool of ids, whatever the interleaving (lines 162-199).
ImplementsIdPool == Abstract!Spec

\* The stack from _next down.  An array that is not allocated yet stands for the
\* successors it will be filled with.
Below(x) == IF BlockFor[x] \in _v THEN element[x] ELSE x + 1

Stack ==
  LET down[n \in 0 .. Total] ==
        IF n = 0 THEN _next.at
        ELSE IF down[n - 1] \in Ids THEN Below(down[n - 1]) ELSE Total
  IN  down

\* The assertion of blockfor() (line 82): nobody looks for the array of an id
\* beyond the last, as long as the threads hold no more than there are.
InRange == \A t \in Looked : id[t].at \in Ids

\* The stack holds every id that nobody has, once: none is lost by a race, and
\* none is in the list twice or while it is in use (lines 166-181, 194-199); and no
\* other is asked for.
StackIsFree ==
  /\ {Stack[n] : n \in 0 .. Total} \cap Ids = Ids \ UNION {owned[t] : t \in Threads}
  /\ \A m, n \in 0 .. Total : Stack[m] = Stack[n] /\ Stack[m] \in Ids => m = n
  /\ InRange

\* The behaviours in which the serial wraps: one thread calls next() once, at serial 0,
\* and stalls before its CAS until MaxLag releases have passed.
Slow == CHOOSE t \in Threads : TRUE
OneArray == [x \in Ids |-> 1]
WrapSpec ==
  Init /\ [][ /\ Next
              /\ pc'[Slow] # pc[Slow] =>
                   /\ pc[Slow] = "idle" => _next.serial = 0 /\ owned[Slow] = {}
                   /\ pc[Slow] = "taking" => lag[Slow] = MaxLag ]_vars

-----------------------------------------------------------------------------
(***************************************************************************)
(* Theorems, for any number of threads, ids and arrays, under the          *)
(* assumption its users meet (FreeListAssumption), and as long as fewer    *)
(* releases than the serial has values fall into one next().               *)
(***************************************************************************)

\* Without it two threads may get the same id: see WrapSpec.
NoWrap == FreeListAssumption /\ MaxLag < SerialCount

-----------------------------------------------------------------------------
(* The inductive invariant.                                                *)

\* The free ids from the bottom of the stack, s[1], to its top, s[k]; s[0] stands
\* for none.
Lists(s, k) ==
  /\ k \in Nat
  /\ s \in [Nat -> 0 .. Total]
  /\ s[0] = Total
  /\ _next.at = s[k]
  /\ \A i \in 1 .. k : s[i] \in Ids /\ Below(s[i]) = s[i - 1]
  /\ \A i, j \in 1 .. k : s[i] = s[j] => i = j
  /\ \A x \in Ids : (\E i \in 1 .. k : s[i] = x) <=> (\A t \in Threads : x \notin owned[t])

StackOK == \E s, k : Lists(s, k)

\* Whoever has an id found its array, and whoever asks for one may have one more.
HeldOK ==
  \A t \in Threads :
    /\ Cardinality(owned[t]) <= MaxHeld
    /\ \A x \in owned[t] : BlockFor[x] \in _v
    /\ pc[t] \in {"looking", "allocating", "linking", "taking"} => Cardinality(owned[t]) < MaxHeld

\* A thread in release() has the id, and has linked it to what it loaded.
ReturnOK ==
  \A t \in Threads :
    /\ pc[t] \in {"returning", "storing", "putting"} => at[t] \in owned[t]
    /\ pc[t] = "putting" => element[at[t]] = id[t].at

\* A thread in next() is as many releases behind as the serials tell.  If it is
\* not behind, the id it looks at is still on top or somebody has it, and what
\* the thread takes for the id below is.
TakeOKFor(t) ==
  /\ pc[t] \in {"allocating", "linking", "taking"} =>
       /\ id[t].at \in Ids
       /\ \/ _next.serial - id[t].serial = lag[t]
          \/ _next.serial - id[t].serial = lag[t] - SerialCount
       /\ lag[t] = 0 => id[t].at = _next.at \/ \E u \in Threads : id[t].at \in owned[u]
  /\ pc[t] \in {"linking", "taking"} => BlockFor[id[t].at] \in _v
  /\ pc[t] = "taking" /\ lag[t] = 0 /\ id[t].at = _next.at => newat[t] = Below(id[t].at)

TakeOK == \A t \in Threads : TakeOKFor(t)

IInv == TypeOK /\ OneOwner /\ StackOK /\ HeldOK /\ ReturnOK /\ TakeOK

-----------------------------------------------------------------------------

\* The serial wraps at SerialCount.
LEMMA SerialStep ==
  ASSUME NoWrap, NEW o \in 0 .. SerialCount - 1
  PROVE  IncrementSerial(o) = IF o + 1 = SerialCount THEN 0 ELSE o + 1
  BY SMT DEF NoWrap, FreeListAssumption, IncrementSerial

\* g numbers the ids of u, and leaves a number over if u is t.
Numbers(u, g, t) ==
  /\ g \in [owned[u] -> 1 .. MaxHeld]
  /\ \A x, y \in owned[u] : g[x] = g[y] => x = y
  /\ u = t => \A x \in owned[u] : g[x] # MaxHeld

\* There are enough ids for whoever may ask for one more.
LEMMA Enough ==
  ASSUME NoWrap, TypeOK, HeldOK, NEW t \in Threads, Cardinality(owned[t]) < MaxHeld
  PROVE  \E x \in Ids : \A u \in Threads : x \notin owned[u]
  <1> SUFFICES ASSUME \A x \in Ids : \E u \in Threads : x \in owned[u]
               PROVE  FALSE
    OBVIOUS
  <1>1. /\ IsFiniteSet(Threads) /\ Total \in Nat \ {0} /\ MaxHeld \in Nat
        /\ MaxHeld * Cardinality(Threads) <= Total
        /\ owned \in [Threads -> SUBSET Ids]
    BY DEF NoWrap, FreeListAssumption, TypeOK
  <1>2. IsFiniteSet(Ids) /\ Cardinality(Ids) = Total
    BY <1>1, FS_Interval DEF Ids
  \* Each thread numbers its ids.
  <1>3. \A u \in Threads : \E g : Numbers(u, g, t)
    <2> SUFFICES ASSUME NEW u \in Threads PROVE \E g : Numbers(u, g, t)
      OBVIOUS
    <2> DEFINE c == Cardinality(owned[u])
    <2>1. IsFiniteSet(owned[u])
      BY <1>1, <1>2, FS_Subset
    <2>2. c \in Nat /\ ExistsBijection(1 .. c, owned[u])
      BY <2>1, FS_CardinalityType
    <2>3. c <= MaxHeld /\ (u = t => c < MaxHeld)
      BY DEF HeldOK
    <2> HIDE DEF c
    <2>4. ExistsBijection(owned[u], 1 .. c)
      BY <2>2, Fun_ExistsBijSymmetric
    <2>5. PICK g \in Bijection(owned[u], 1 .. c) : TRUE
      BY <2>4 DEF ExistsBijection
    <2>6. g \in [owned[u] -> 1 .. c] /\ \A x, y \in owned[u] : g[x] = g[y] => x = y
      BY <2>5 DEF Bijection, Injection, IsInjective
    <2>7. Numbers(u, g, t)
      BY <1>1, <2>2, <2>3, <2>6 DEF Numbers
    <2> QED
      BY <2>7
  <1> DEFINE G == [u \in Threads |-> CHOOSE g : Numbers(u, g, t)]
             has == [x \in Ids |-> CHOOSE u \in Threads : x \in owned[u]]
             Places == (Threads \X (1 .. MaxHeld)) \ {<<t, MaxHeld>>}
             place == [x \in Ids |-> <<has[x], G[has[x]][x]>>]
  <1>4. \A u \in Threads : Numbers(u, G[u], t)
    BY <1>3
  <1>5. \A x \in Ids : has[x] \in Threads /\ x \in owned[has[x]]
    OBVIOUS
  <1> HIDE DEF G, has
  <1>6. place \in [Ids -> Places]
    <2>1. ASSUME NEW x \in Ids PROVE place[x] \in Places
      BY <1>4, <1>5 DEF Numbers
    <2> QED
      BY <2>1
  <1>7. ASSUME NEW x \in Ids, NEW y \in Ids, place[x] = place[y] PROVE x = y
    <2>1. has[x] = has[y] /\ G[has[x]][x] = G[has[y]][y]
      BY <1>7
    <2> QED
      BY <1>4, <1>5, <2>1 DEF Numbers
  <1>8. IsFiniteSet(Places) /\ Cardinality(Places) = Cardinality(Threads) * MaxHeld - 1
    <2>1. IsFiniteSet(1 .. MaxHeld) /\ Cardinality(1 .. MaxHeld) = MaxHeld
      BY <1>1, FS_Interval
    <2>2. /\ IsFiniteSet(Threads \X (1 .. MaxHeld))
          /\ Cardinality(Threads \X (1 .. MaxHeld)) = Cardinality(Threads) * Cardinality(1 .. MaxHeld)
      BY <1>1, <2>1, FS_Product
    <2>3. IsFiniteSet(owned[t]) /\ Cardinality(owned[t]) \in Nat
      BY <1>1, <1>2, FS_Subset, FS_CardinalityType
    <2>4. <<t, MaxHeld>> \in Threads \X (1 .. MaxHeld)
      BY <1>1, <2>3
    <2> DEFINE P == Threads \X (1 .. MaxHeld)
    <2>5. IsFiniteSet(P \ {<<t, MaxHeld>>}) /\ Cardinality(P \ {<<t, MaxHeld>>}) = Cardinality(P) - 1
      <3>1. IsFiniteSet(P) /\ <<t, MaxHeld>> \in P
        BY <2>2, <2>4
      <3> HIDE DEF P
      <3> QED
        BY <3>1, FS_RemoveElement
    <2> QED
      BY <2>1, <2>2, <2>5
  <1> HIDE DEF place, Places
  <1>9. Cardinality(Threads) \in Nat
    BY <1>1, FS_CardinalityType
  <1>10. Cardinality(Places) < Cardinality(Ids)
    <2>1. Cardinality(Threads) * MaxHeld = MaxHeld * Cardinality(Threads)
          /\ Cardinality(Threads) * MaxHeld \in Nat
      BY <1>1, <1>9
    <2> QED
      BY <1>1, <1>2, <1>8, <2>1
  <1> QED
    BY <1>2, <1>6, <1>7, <1>8, <1>10, FS_PigeonHole

-----------------------------------------------------------------------------
(* Every action keeps the inductive invariant.                             *)

\* What the assumption says of the parameters, and the type of _next.
LEMMA Parameters ==
  ASSUME NoWrap
  PROVE  /\ Total \in Nat /\ Total > 0 /\ Ids = 0 .. Total - 1
         /\ BlockFor \in [Ids -> Nat]
         /\ SerialCount \in Nat /\ SerialCount > 0
         /\ MaxLag \in Nat /\ MaxLag < SerialCount
  BY DEF NoWrap, FreeListAssumption, Ids

\* The constructor: all ids are free, each on top of its successor (lines 126-134).
LEMMA InitIInv == NoWrap /\ Init => IInv
  <1> SUFFICES ASSUME NoWrap, Init PROVE IInv
    OBVIOUS
  <1> USE Parameters
  <1>1. TypeOK
    BY DEF Init, TypeOK, Top, State, NoId
  <1>2. OneOwner /\ ReturnOK /\ TakeOK
    BY DEF Init, OneOwner, ReturnOK, TakeOK, TakeOKFor
  <1>3. HeldOK
    BY FS_EmptySet DEF Init, HeldOK, NoWrap, FreeListAssumption
  <1>4. StackOK
    <2> DEFINE s == [i \in Nat |-> IF i = 0 \/ i > Total THEN Total ELSE Total - i]
    <2>1. s \in [Nat -> 0 .. Total] /\ s[0] = Total /\ _next.at = s[Total]
      BY DEF Init, NoId
    <2>2. \A i \in 1 .. Total : s[i] = Total - i /\ s[i - 1] = Total - i + 1
      OBVIOUS
    <2>3. \A i \in 1 .. Total : Below(s[i]) = s[i - 1] /\ s[i] \in Ids
      BY <2>2 DEF Below, Init
    <2>4. \A x \in Ids : \E i \in 1 .. Total : s[i] = x
      <3> SUFFICES ASSUME NEW x \in Ids PROVE s[Total - x] = x /\ Total - x \in 1 .. Total
        OBVIOUS
      <3> QED
        BY <2>2
    <2>5. \A i, j \in 1 .. Total : s[i] = s[j] => i = j
      BY <2>2
    <2>6. \A t \in Threads : owned[t] = {}
      BY DEF Init
    <2> HIDE DEF s
    <2>7. Lists(s, Total)
      BY <2>1, <2>3, <2>4, <2>5, <2>6 DEF Lists
    <2> QED
      BY <2>7 DEF StackOK
  <1> QED
    BY <1>1, <1>2, <1>3, <1>4 DEF IInv

\* A step that changes nothing but the locals of t.
LEMMA LocalStep ==
  ASSUME NoWrap, IInv, NEW t \in Threads, UNCHANGED <<_next, _v, element, owned>>, TypeOK',
         \A u \in Threads \ {t} : /\ pc'[u] = pc[u] /\ id'[u] = id[u] /\ at'[u] = at[u]
                                  /\ newat'[u] = newat[u] /\ lag'[u] = lag[u],
         pc'[t] \in {"looking", "allocating", "linking", "taking"} => Cardinality(owned[t]) < MaxHeld,
         pc'[t] \in {"returning", "storing", "putting"} => at'[t] \in owned[t],
         pc'[t] = "putting" => element[at'[t]] = id'[t].at,
         TakeOKFor(t)'
  PROVE  IInv'
  <1> USE DEF IInv
  <1>1. \A x : Below(x)' = Below(x)
    BY DEF Below
  <1>2. \A s, k : Lists(s, k)' <=> Lists(s, k)
    BY <1>1 DEF Lists
  <1>3. StackOK' /\ OneOwner'
    BY <1>2 DEF StackOK, OneOwner
  <1>4. HeldOK' /\ ReturnOK'
    BY DEF HeldOK, ReturnOK
  <1>5. TakeOK'
    <2> SUFFICES ASSUME NEW u \in Threads, u # t PROVE TakeOKFor(u)'
      BY DEF TakeOK
    <2>1. TakeOKFor(u)
      BY DEF TakeOK
    <2> QED
      BY <1>1, <2>1 DEF TakeOKFor
  <1> QED
    BY <1>3, <1>4, <1>5

\* The id on top of the stack, if there is one, is free.
LEMMA TopIsFree ==
  ASSUME NoWrap, NEW s, NEW k, Lists(s, k)
  PROVE  /\ k = 0 => _next.at = Total
         /\ k # 0 => k \in 1 .. k
         /\ _next.at \in Ids <=> k # 0
         /\ \A t \in Threads : _next.at \notin owned[t] \/ _next.at \notin Ids
  <1>1. /\ k \in Nat /\ s[0] = Total /\ _next.at = s[k]
        /\ \A i \in 1 .. k : s[i] \in Ids
        /\ \A x \in Ids : (\E i \in 1 .. k : s[i] = x) => (\A t \in Threads : x \notin owned[t])
    BY DEF Lists
  <1>2. /\ k = 0 => _next.at = Total
        /\ k # 0 => k \in 1 .. k
        /\ _next.at \in Ids <=> k # 0
    BY <1>1, Parameters
  <1> QED
    BY <1>1, <1>2

\* The locals that the end of a loop's body leaves behind.
LEMMA ForgetType ==
  ASSUME NoWrap, TypeOK, NEW t \in Threads, Forget(t)
  PROVE  id' \in [Threads -> Top] /\ newat' \in [Threads -> 0 .. Total]
  <1>1. NoId \in Top
    BY Parameters DEF NoId, Top
  <1> QED
    BY <1>1, Parameters DEF Forget, TypeOK

\* The steps that only load something, or give up a CAS (lines 158-167, 181,
\* 187-195).
LEMMA LoadIInv ==
  ASSUME NoWrap, IInv, NEW t \in Threads,
         \/ Call(t) \/ Look(t) \/ Link(t) \/ CallRelease(t) \/ LookAgain(t)
         \/ (Take(t) /\ _next # id[t]) \/ (Put(t) /\ _next # id[t])
  PROVE  IInv'
  <1> USE Parameters DEF IInv
  <1>1. TakeOKFor(t) /\ pc[t] \in State
    BY DEF TakeOK, TypeOK
  <1>2. CASE Call(t)
    <2>1. TypeOK'
      BY <1>2 DEF Call, Goto, TypeOK, State
    <2> QED
      BY <1>2, <2>1, LocalStep DEF Call, Goto, TypeOK, HeldOK, TakeOKFor
  <1>3. CASE Look(t)
    <2>1. TypeOK'
      BY <1>3 DEF Look, Goto, TypeOK, State
    <2>2. Cardinality(owned[t]) < MaxHeld
      BY <1>3 DEF HeldOK, Look
    <2>3. _next.at \in Ids
      <3>1. PICK s, k : Lists(s, k)
        BY DEF StackOK
      <3>2. PICK x \in Ids : \A u \in Threads : x \notin owned[u]
        BY <2>2, Enough
      <3>3. PICK i \in 1 .. k : s[i] = x
        BY <3>1, <3>2 DEF Lists
      <3>4. k \in Nat /\ k \in 1 .. k
        BY <3>1, <3>3 DEF Lists
      <3> QED
        BY <3>1, <3>4, TopIsFree
    <2>4. pc' = [pc EXCEPT ![t] = IF BlockFor[_next.at] \in _v THEN "linking" ELSE "allocating"]
      BY <1>3, <2>3 DEF Look, Goto
    <2>5. /\ id'[t] = _next /\ lag'[t] = 0 /\ UNCHANGED <<_next, _v, element, at, newat, owned>>
          /\ \A u \in Threads \ {t} : /\ pc'[u] = pc[u] /\ id'[u] = id[u] /\ lag'[u] = lag[u]
      BY <1>3, <2>4 DEF Look, TypeOK
    <2>6. pc'[t] \in {"linking", "allocating"} /\ (pc'[t] = "linking" => BlockFor[_next.at] \in _v)
      BY <2>4 DEF TypeOK
    <2>7. _next.serial \in Int
      BY DEF TypeOK, Top
    <2>8. TakeOKFor(t)'
      BY <2>3, <2>5, <2>6, <2>7 DEF TakeOKFor
    <2> QED
      BY <2>1, <2>2, <2>5, <2>6, <2>8, LocalStep
  <1>4. CASE Link(t)
    <2>1. /\ pc[t] = "linking" /\ id[t].at \in Ids /\ BlockFor[id[t].at] \in _v
          /\ UNCHANGED <<_next, _v, element, id, at, owned, lag>>
      BY <1>1, <1>4 DEF Link, TakeOKFor
    <2>2. TypeOK'
      BY <1>4, <2>1 DEF Link, Goto, TypeOK, State
    <2>3. /\ pc'[t] = "taking" /\ newat'[t] = element[id[t].at]
          /\ \A u \in Threads \ {t} : pc'[u] = pc[u] /\ newat'[u] = newat[u]
      BY <1>4 DEF Link, Goto, TypeOK
    <2>4. newat'[t] = Below(id[t].at)' /\ id'[t] = id[t]
      BY <2>1, <2>3 DEF Below
    <2>5. TakeOKFor(t)'
      BY <1>1, <2>1, <2>3, <2>4 DEF TakeOKFor
    <2>6. Cardinality(owned[t]) < MaxHeld
      BY <2>1 DEF HeldOK
    <2> QED
      BY <2>1, <2>2, <2>3, <2>5, <2>6, LocalStep
  <1>5. CASE CallRelease(t)
    <2>1. PICK x \in owned[t] : at' = [at EXCEPT ![t] = x]
      BY <1>5 DEF CallRelease
    <2>2. TypeOK'
      BY <1>5, <2>1 DEF CallRelease, Goto, TypeOK, State
    <2> QED
      BY <1>5, <2>1, <2>2, LocalStep DEF CallRelease, Goto, TypeOK, TakeOKFor
  <1>6. CASE LookAgain(t)
    <2>1. TypeOK'
      BY <1>6 DEF LookAgain, Goto, TypeOK, State
    <2> QED
      BY <1>6, <2>1, LocalStep DEF LookAgain, Goto, TypeOK, ReturnOK, TakeOKFor
  <1>7. CASE Take(t) /\ _next # id[t]
    <2>1. /\ pc[t] = "taking" /\ Goto(t, "looking") /\ Forget(t)
          /\ lag' = [lag EXCEPT ![t] = 0]
          /\ UNCHANGED <<_next, _v, element, at, owned>>
      BY <1>7 DEF Take
    <2>2. TypeOK'
      BY <2>1, ForgetType DEF Goto, TypeOK, State
    <2> QED
      BY <2>1, <2>2, LocalStep DEF Goto, Forget, TypeOK, HeldOK, TakeOKFor
  <1>8. CASE Put(t) /\ _next # id[t]
    <2>1. /\ pc[t] = "putting" /\ Goto(t, "returning") /\ Forget(t)
          /\ UNCHANGED <<_next, _v, element, at, owned, lag>>
      BY <1>8 DEF Put
    <2>2. TypeOK'
      BY <2>1, ForgetType DEF Goto, TypeOK, State
    <2> QED
      BY <2>1, <2>2, LocalStep DEF Goto, Forget, TypeOK, ReturnOK, TakeOKFor
  <1> QED
    BY <1>2, <1>3, <1>4, <1>5, <1>6, <1>7, <1>8

\* Only the first array for an id is kept, and its elements are as they stood for
\* before (lines 169-179).
LEMMA AllocateIInv ==
  ASSUME NoWrap, IInv, NEW t \in Threads, Allocate(t)
  PROVE  IInv'
  <1> USE Parameters DEF IInv
  <1>1. PICK i \in Nat :
          /\ i = BlockFor[id[t].at] /\ id[t].at \in Ids
          /\ _v' = _v \cup {i}
          /\ element' = IF i \in _v THEN element ELSE Fresh(i)
    BY DEF Allocate
  <1>2. /\ pc[t] = "allocating" /\ Goto(t, "linking")
        /\ UNCHANGED <<_next, id, at, newat, owned, lag>>
    BY DEF Allocate
  <1>3. element' \in [Ids -> 0 .. Total]
    <2>1. element \in [Ids -> 0 .. Total] /\ \A x \in Ids : x + 1 \in 0 .. Total
      BY DEF TypeOK
    <2>2. Fresh(i) \in [Ids -> 0 .. Total]
      BY <2>1 DEF Fresh
    <2> QED
      BY <1>1, <2>1, <2>2
  <1>4. /\ \A x \in Ids : BlockFor[x] \in _v => element'[x] = element[x]
        /\ \A x \in Ids : Below(x)' = Below(x)
    BY <1>1 DEF Fresh, Below, TypeOK
  <1>5. TypeOK'
    BY <1>1, <1>2, <1>3 DEF TypeOK, Goto, State
  <1>6. StackOK' /\ OneOwner'
    <2>1. \A s, k : Lists(s, k) => Lists(s, k)'
      BY <1>2, <1>4 DEF Lists
    <2> QED
      BY <1>2, <2>1 DEF StackOK, OneOwner
  <1>7. HeldOK'
    BY <1>1, <1>2 DEF HeldOK, Goto, TypeOK
  <1>8. ReturnOK'
    BY <1>2, <1>4 DEF ReturnOK, HeldOK, Goto, TypeOK
  <1>9. TakeOK'
    <2> SUFFICES ASSUME NEW u \in Threads PROVE TakeOKFor(u)'
      BY DEF TakeOK
    <2>1. TakeOKFor(u)
      BY DEF TakeOK
    <2>2. u = t => pc'[u] = "linking" /\ BlockFor[id'[u].at] \in _v'
      BY <1>1, <1>2 DEF Goto, TypeOK
    <2>3. u # t => pc'[u] = pc[u]
      BY <1>2 DEF Goto, TypeOK
    <2>4. _v \subseteq _v'
      BY <1>1
    <2> QED
      BY <1>2, <1>4, <2>1, <2>2, <2>3, <2>4 DEF TakeOKFor
  <1> QED
    BY <1>5, <1>6, <1>7, <1>8, <1>9

\* The element of an id that a thread has is nobody else's business (line 196).
LEMMA StoreIInv ==
  ASSUME NoWrap, IInv, NEW t \in Threads, Store(t)
  PROVE  IInv'
  <1> USE Parameters DEF IInv
  <1>1. PICK x \in Ids :
          /\ x = at[t] /\ x \in owned[t] /\ BlockFor[x] \in _v
          /\ element' = [element EXCEPT ![x] = id[t].at]
    BY DEF Store, ReturnOK, HeldOK, TypeOK
  <1>2. /\ pc[t] = "storing" /\ Goto(t, "putting")
        /\ UNCHANGED <<_next, _v, id, at, newat, owned, lag>>
    BY DEF Store
  <1>3. \A y \in Ids \ {x} : element'[y] = element[y] /\ Below(y)' = Below(y)
    BY <1>1, <1>2 DEF Below, TypeOK
  <1>4. TypeOK'
    BY <1>1, <1>2 DEF TypeOK, Goto, State, Top
  <1>5. StackOK' /\ OneOwner'
    <2>1. ASSUME NEW s, NEW k, Lists(s, k) PROVE Lists(s, k)'
      <3>1. \A i \in 1 .. k : s[i] \in Ids \ {x}
        BY <1>1, <2>1 DEF Lists
      <3> QED
        BY <1>2, <1>3, <2>1, <3>1 DEF Lists
    <2> QED
      BY <1>2, <2>1 DEF StackOK, OneOwner
  <1>6. HeldOK'
    BY <1>2 DEF HeldOK, Goto, TypeOK
  <1>7. ReturnOK'
    <2>1. \A u \in Threads \ {t} : pc[u] = "putting" => at[u] \in Ids \ {x}
      BY <1>1 DEF ReturnOK, OneOwner, TypeOK
    <2>2. element'[at[t]] = id[t].at
      BY <1>1 DEF TypeOK
    <2> QED
      BY <1>1, <1>2, <1>3, <2>1, <2>2 DEF ReturnOK, Goto, TypeOK
  <1>8. TakeOK'
    <2> SUFFICES ASSUME NEW u \in Threads PROVE TakeOKFor(u)'
      BY DEF TakeOK
    <2>1. TakeOKFor(u)
      BY DEF TakeOK
    <2>2. u = t => pc'[u] = "putting"
      BY <1>2 DEF Goto, TypeOK
    <2>3. u # t => pc'[u] = pc[u]
      BY <1>2 DEF Goto, TypeOK
    <2>4. _next.at # x
      <3>1. PICK s, k : Lists(s, k)
        BY DEF StackOK
      <3> QED
        BY <1>1, <3>1, TopIsFree
    <2>5. pc[u] = "taking" /\ id[u].at = _next.at => Below(id[u].at)' = Below(id[u].at)
      BY <1>2, <1>3, <2>1, <2>4 DEF TakeOKFor
    <2> QED
      BY <1>2, <2>1, <2>2, <2>3, <2>5 DEF TakeOKFor
  <1> QED
    BY <1>4, <1>5, <1>6, <1>7, <1>8

\* What a thread has is finite.
LEMMA OwnedFinite ==
  ASSUME NoWrap, TypeOK, NEW t \in Threads
  PROVE  IsFiniteSet(owned[t])
  <1>1. IsFiniteSet(0 .. Total - 1)
    BY Parameters, FS_Interval
  <1>2. owned[t] \in SUBSET (0 .. Total - 1)
    BY Parameters DEF TypeOK
  <1> QED
    BY <1>1, <1>2, FS_Subset

\* The stack without its top (lines 182-183).
LEMMA Pop ==
  ASSUME NoWrap, OneOwner, owned \in [Threads -> SUBSET Ids], NEW s, NEW k, Lists(s, k),
         NEW t \in Threads, NEW x \in Ids, x = _next.at,
         _next'.at = Below(x), UNCHANGED <<_v, element>>,
         owned' = [owned EXCEPT ![t] = @ \cup {x}]
  PROVE  /\ Lists(s, k - 1)'
         /\ OneOwner'
         /\ \A u \in Threads : x \notin owned[u]
         /\ _next'.at # x
         /\ \A u \in Threads : _next'.at \notin owned[u]
  <1>1. /\ k \in Nat /\ s \in [Nat -> 0 .. Total] /\ s[0] = Total /\ x = s[k]
        /\ \A i \in 1 .. k : s[i] \in Ids /\ Below(s[i]) = s[i - 1]
        /\ \A i, j \in 1 .. k : s[i] = s[j] => i = j
        /\ \A y \in Ids : (\E i \in 1 .. k : s[i] = y) <=> (\A u \in Threads : y \notin owned[u])
    BY DEF Lists
  <1>2. k # 0 /\ k \in 1 .. k
    BY TopIsFree
  <1>3. \A u \in Threads : x \notin owned[u]
    BY <1>1, <1>2
  <1>4. OneOwner'
    BY <1>3 DEF OneOwner
  <1>5. k - 1 \in Nat /\ 1 .. k - 1 = (1 .. k) \ {k}
    BY <1>1, <1>2
  <1>6. _next'.at = s[k - 1]
    BY <1>1, <1>2
  <1>7. \A y \in Ids : (\E i \in 1 .. k - 1 : s[i] = y) <=> (\A u \in Threads : y \notin owned'[u])
    <2> SUFFICES ASSUME NEW y \in Ids
                 PROVE  (\E i \in 1 .. k - 1 : s[i] = y) <=> (\A u \in Threads : y \notin owned'[u])
      OBVIOUS
    <2>1. (\E i \in 1 .. k - 1 : s[i] = y) <=> y # x /\ \E i \in 1 .. k : s[i] = y
      BY <1>1, <1>2, <1>5
    <2>2. (\A u \in Threads : y \notin owned'[u]) <=> y # x /\ \A u \in Threads : y \notin owned[u]
      OBVIOUS
    <2> QED
      BY <1>1, <2>1, <2>2
  <1>8. \A y : Below(y)' = Below(y)
    BY DEF Below
  <1>9. Lists(s, k - 1)'
    BY <1>1, <1>5, <1>6, <1>7, <1>8 DEF Lists
  <1>10. _next'.at # x /\ \A u \in Threads : _next'.at \notin owned[u]
    <2>1. CASE k - 1 = 0
      <3>1. _next'.at = Total /\ Total \notin Ids
        BY <1>1, <1>6, <2>1, Parameters
      <3>2. \A u \in Threads : owned[u] \subseteq Ids
        OBVIOUS
      <3> QED
        BY <3>1, <3>2
    <2>2. CASE k - 1 # 0
      <3>1. k - 1 \in 1 .. k /\ k - 1 # k
        BY <1>1, <1>5, <2>2
      <3> QED
        BY <1>1, <1>2, <1>6, <3>1
    <2> QED
      BY <2>1, <2>2
  <1> QED
    BY <1>3, <1>4, <1>9, <1>10

\* The stack with one id more (lines 198-199).
LEMMA Push ==
  ASSUME NoWrap, OneOwner, owned \in [Threads -> SUBSET Ids], NEW s, NEW k, Lists(s, k),
         NEW t \in Threads, NEW x \in owned[t], x \in Ids,
         Below(x) = _next.at, _next'.at = x, UNCHANGED <<_v, element>>,
         owned' = [owned EXCEPT ![t] = @ \ {x}]
  PROVE  OneOwner' /\ \E r : Lists(r, k + 1)'
  <1>1. /\ k \in Nat /\ s \in [Nat -> 0 .. Total] /\ s[0] = Total /\ _next.at = s[k]
        /\ \A i \in 1 .. k : s[i] \in Ids /\ Below(s[i]) = s[i - 1]
        /\ \A i, j \in 1 .. k : s[i] = s[j] => i = j
        /\ \A y \in Ids : (\E i \in 1 .. k : s[i] = y) <=> (\A u \in Threads : y \notin owned[u])
    BY DEF Lists
  <1>2. \A i \in 1 .. k : s[i] # x
    BY <1>1
  <1>3. OneOwner'
    BY DEF OneOwner
  <1> DEFINE r == [s EXCEPT ![k + 1] = x]
  <1>4. k + 1 \in Nat /\ 1 .. k + 1 = (1 .. k) \cup {k + 1} /\ k + 1 \notin 0 .. k
    BY <1>1
  <1>5. /\ r \in [Nat -> 0 .. Total] /\ r[k + 1] = x /\ \A i \in 0 .. k : r[i] = s[i]
    <2>1. x \in 0 .. Total
      BY Parameters
    <2>2. \A i \in 0 .. k : i \in Nat /\ i # k + 1
      BY <1>1
    <2> QED
      BY <1>1, <1>4, <2>1, <2>2
  <1> HIDE DEF r
  <1>6. r[0] = Total
    BY <1>1, <1>5
  <1>7. \A i \in 1 .. k + 1 : r[i] \in Ids /\ Below(r[i]) = r[i - 1]
    <2>1. \A i \in 1 .. k : r[i] = s[i] /\ r[i - 1] = s[i - 1]
      BY <1>1, <1>5
    <2>2. r[k + 1] = x /\ r[k + 1 - 1] = s[k]
      BY <1>1, <1>5
    <2> QED
      BY <1>1, <1>4, <2>1, <2>2
  <1>8. \A i, j \in 1 .. k + 1 : r[i] = r[j] => i = j
    <2>1. \A i \in 1 .. k : r[i] = s[i]
      BY <1>1, <1>5
    <2> QED
      BY <1>1, <1>2, <1>4, <1>5, <2>1
  <1>9. \A y \in Ids : (\E i \in 1 .. k + 1 : r[i] = y) <=> (\A u \in Threads : y \notin owned'[u])
    <2> SUFFICES ASSUME NEW y \in Ids
                 PROVE  (\E i \in 1 .. k + 1 : r[i] = y) <=> (\A u \in Threads : y \notin owned'[u])
      OBVIOUS
    <2>1. \A i \in 1 .. k : r[i] = s[i]
      BY <1>1, <1>5
    <2>2. (\E i \in 1 .. k + 1 : r[i] = y) <=> y = x \/ \E i \in 1 .. k : s[i] = y
      BY <1>4, <1>5, <2>1
    <2>3. (\A u \in Threads : y \notin owned'[u]) <=> y = x \/ \A u \in Threads : y \notin owned[u]
      BY DEF OneOwner
    <2> QED
      BY <1>1, <2>2, <2>3
  <1>10. \A y : Below(y)' = Below(y)
    BY DEF Below
  <1>11. Lists(r, k + 1)'
    BY <1>4, <1>5, <1>6, <1>7, <1>8, <1>9, <1>10 DEF Lists
  <1> QED
    BY <1>3, <1>11

\* A CAS of next() that succeeds takes the id that is on top, and leaves on top
\* the one below it: nobody released an id meanwhile (lines 182-183).
LEMMA TakeIInv ==
  ASSUME NoWrap, IInv, NEW t \in Threads, Take(t), _next = id[t]
  PROVE  /\ IInv'
         /\ id[t].at \in Ids /\ \A u \in Threads : id[t].at \notin owned[u]
         /\ owned' = [owned EXCEPT ![t] = @ \cup {id[t].at}]
  <1> USE Parameters DEF IInv
  <1>1. PICK x \in Ids : x = id[t].at
    BY DEF Take, TakeOK, TakeOKFor
  <1>2. /\ pc[t] = "taking" /\ pc' = [pc EXCEPT ![t] = "idle"]
        /\ _next' = [id[t] EXCEPT !.at = newat[t]]
        /\ owned' = [owned EXCEPT ![t] = @ \cup {x}]
        /\ Forget(t) /\ lag' = [lag EXCEPT ![t] = 0]
        /\ UNCHANGED <<_v, element, at>>
    BY <1>1 DEF Take, Goto
  <1>3. id[t] \in Top /\ lag[t] \in 0 .. MaxLag /\ newat[t] \in 0 .. Total
    BY DEF TypeOK
  <1>4. lag[t] = 0
    <2>1. \/ _next.serial - id[t].serial = lag[t]
          \/ _next.serial - id[t].serial = lag[t] - SerialCount
      BY <1>2 DEF TakeOK, TakeOKFor
    <2>2. _next.serial - id[t].serial = 0
      BY <1>3 DEF Top
    <2> QED
      BY <1>3, <2>1, <2>2
  <1>5. BlockFor[x] \in _v /\ newat[t] = Below(x)
    BY <1>1, <1>2, <1>4 DEF TakeOK, TakeOKFor
  <1>6. _next'.at = Below(x) /\ _next'.serial = _next.serial /\ _next' \in Top
    BY <1>2, <1>3, <1>5 DEF Top
  <1>7. PICK s, k : Lists(s, k)
    BY DEF StackOK
  <1>8. owned \in [Threads -> SUBSET Ids]
    BY DEF TypeOK
  <1>9. /\ Lists(s, k - 1)'
        /\ OneOwner'
        /\ \A u \in Threads : x \notin owned[u]
        /\ _next'.at # x
        /\ \A u \in Threads : _next'.at \notin owned[u]
    BY <1>1, <1>2, <1>6, <1>7, <1>8, Pop
  <1>10. StackOK'
    BY <1>9 DEF StackOK
  <1>11. TypeOK'
    <2>1. id' \in [Threads -> Top] /\ newat' \in [Threads -> 0 .. Total]
      BY <1>2, ForgetType
    <2>2. owned' \in [Threads -> SUBSET Ids] /\ lag' \in [Threads -> 0 .. MaxLag]
          /\ pc' \in [Threads -> State]
      BY <1>2, <1>8 DEF TypeOK, State
    <2> QED
      BY <1>2, <1>6, <2>1, <2>2 DEF TypeOK
  <1>12. HeldOK'
    <2>1. Cardinality(owned[t] \cup {x}) <= MaxHeld
      <3>1. IsFiniteSet(owned[t])
        BY OwnedFinite
      <3>2. Cardinality(owned[t]) < MaxHeld /\ MaxHeld \in Nat
        BY <1>2 DEF HeldOK, NoWrap, FreeListAssumption
      <3>3. Cardinality(owned[t]) \in Nat /\ x \notin owned[t]
        BY <1>9, <3>1, FS_CardinalityType
      <3>4. Cardinality(owned[t] \cup {x}) = Cardinality(owned[t]) + 1
        BY <3>1, <3>3, FS_AddElement
      <3> QED
        BY <3>2, <3>3, <3>4
    <2> QED
      BY <1>2, <1>5, <2>1 DEF HeldOK, TypeOK
  <1>13. ReturnOK'
    <2>1. \A u \in Threads : owned[u] \subseteq owned'[u]
      BY <1>2, <1>8
    <2> QED
      BY <1>2, <2>1 DEF ReturnOK, Forget, TypeOK
  <1>14. TakeOK'
    <2> SUFFICES ASSUME NEW u \in Threads PROVE TakeOKFor(u)'
      BY DEF TakeOK
    <2>1. TakeOKFor(u)
      BY DEF TakeOK
    <2>2. CASE u = t
      BY <1>2, <2>2 DEF TakeOKFor, TypeOK
    <2>3. CASE u # t
      <3>1. /\ pc'[u] = pc[u] /\ id'[u] = id[u] /\ lag'[u] = lag[u]
        BY <1>2, <2>3 DEF Forget, TypeOK
      <3>2. pc[u] \in {"allocating", "linking", "taking"} /\ lag[u] = 0 =>
              \E v \in Threads : id[u].at \in owned'[v]
        BY <1>1, <1>2, <1>8, <2>1 DEF TakeOKFor
      <3>3. pc[u] = "taking" /\ lag[u] = 0 => id[u].at # _next'.at
        BY <1>1, <1>9, <2>1 DEF TakeOKFor
      <3> QED
        BY <1>2, <1>6, <2>1, <3>1, <3>2, <3>3 DEF TakeOKFor
    <2> QED
      BY <2>2, <2>3
  <1> QED
    BY <1>1, <1>2, <1>9, <1>10, <1>11, <1>12, <1>13, <1>14

\* A CAS of release() that succeeds puts the id back, linked to the top it finds,
\* and puts every next() under way one release further behind (lines 198-199).
LEMMA PutIInv ==
  ASSUME NoWrap, IInv, NEW t \in Threads, Put(t), _next = id[t]
  PROVE  /\ IInv'
         /\ at[t] \in owned[t]
         /\ owned' = [owned EXCEPT ![t] = @ \ {at[t]}]
  <1> USE Parameters DEF IInv
  <1>1. PICK x \in owned[t] : x = at[t]
    BY DEF Put, ReturnOK
  <1>2. owned \in [Threads -> SUBSET Ids] /\ x \in Ids /\ BlockFor[x] \in _v
    BY DEF TypeOK, HeldOK
  <1>3. /\ pc[t] = "putting" /\ pc' = [pc EXCEPT ![t] = "idle"]
        /\ _next' = [at |-> x, serial |-> IncrementSerial(_next.serial)]
        /\ owned' = [owned EXCEPT ![t] = @ \ {x}]
        /\ lag' = [u \in Threads |-> IF u \in Looked THEN lag[u] + 1 ELSE lag[u]]
        /\ at' = [at EXCEPT ![t] = 0]
        /\ Forget(t)
        /\ UNCHANGED <<_v, element>>
        /\ \A u \in Looked : lag[u] < MaxLag
    BY <1>1 DEF Put, Goto
  <1>4. Below(x) = _next.at
    BY <1>1, <1>2, <1>3 DEF Below, ReturnOK
  <1>5. _next.serial \in 0 .. SerialCount - 1
    BY DEF TypeOK, Top
  <1>6. _next'.serial = IF _next.serial + 1 = SerialCount THEN 0 ELSE _next.serial + 1
    BY <1>3, <1>5, SerialStep
  <1>7. PICK s, k : Lists(s, k)
    BY DEF StackOK
  <1>8. OneOwner' /\ \E r : Lists(r, k + 1)'
    BY <1>2, <1>3, <1>4, <1>7, Push
  <1>9. StackOK'
    BY <1>8 DEF StackOK
  <1>10. TypeOK'
    <2>1. id' \in [Threads -> Top] /\ newat' \in [Threads -> 0 .. Total]
      BY <1>3, ForgetType
    <2>2. lag' \in [Threads -> 0 .. MaxLag]
      <3>1. \A u \in Threads : lag[u] \in 0 .. MaxLag
        BY DEF TypeOK
      <3>2. \A u \in Looked : lag[u] + 1 \in 0 .. MaxLag
        BY <1>3, <3>1 DEF Looked
      <3> QED
        BY <1>3, <3>1, <3>2
    <2>3. _next' \in Top
      <3>1. _next'.serial \in 0 .. SerialCount - 1
        BY <1>5, <1>6
      <3>2. x \in 0 .. Total
        BY <1>2
      <3> QED
        BY <1>3, <3>1, <3>2 DEF Top
    <2>4. owned' \in [Threads -> SUBSET Ids] /\ pc' \in [Threads -> State]
          /\ at' \in [Threads -> 0 .. Total]
      BY <1>2, <1>3 DEF TypeOK, State
    <2> QED
      BY <1>3, <2>1, <2>2, <2>3, <2>4 DEF TypeOK
  <1>11. HeldOK'
    <2>1. Cardinality(owned[t] \ {x}) <= MaxHeld
      <3>1. IsFiniteSet(owned[t])
        BY OwnedFinite
      <3>2. Cardinality(owned[t]) <= MaxHeld /\ MaxHeld \in Nat
        BY DEF HeldOK, NoWrap, FreeListAssumption
      <3>3. Cardinality(owned[t]) \in Nat
        BY <3>1, FS_CardinalityType
      <3>4. Cardinality(owned[t] \ {x}) = Cardinality(owned[t]) - 1
        BY <3>1, FS_RemoveElement
      <3> QED
        BY <3>2, <3>3, <3>4
    <2> QED
      BY <1>2, <1>3, <2>1 DEF HeldOK, TypeOK
  <1>12. ReturnOK'
    BY <1>2, <1>3 DEF ReturnOK, Forget, TypeOK
  <1>13. TakeOK'
    <2> SUFFICES ASSUME NEW u \in Threads PROVE TakeOKFor(u)'
      BY DEF TakeOK
    <2>1. TakeOKFor(u) /\ lag[u] \in 0 .. MaxLag /\ id[u] \in Top
      BY DEF TakeOK, TypeOK
    <2>2. CASE u = t
      BY <1>3, <2>2 DEF TakeOKFor, TypeOK
    <2>3. CASE u # t
      <3>1. pc'[u] = pc[u] /\ id'[u] = id[u]
        BY <1>3, <2>3 DEF Forget, TypeOK
      <3>2. CASE pc[u] \in {"allocating", "linking", "taking"}
        <4>1. u \in Looked /\ lag'[u] = lag[u] + 1 /\ lag[u] < MaxLag
          BY <1>3, <3>2 DEF Looked
        <4>2. \/ _next.serial - id[u].serial = lag[u]
              \/ _next.serial - id[u].serial = lag[u] - SerialCount
          BY <2>1, <3>2 DEF TakeOKFor
        <4>3. id[u].serial \in 0 .. SerialCount - 1
          BY <2>1 DEF Top
        <4>4. \/ _next'.serial - id[u].serial = lag'[u]
              \/ _next'.serial - id[u].serial = lag'[u] - SerialCount
          <5> DEFINE next == _next'.serial
                     serial == _next.serial
                     i == id[u].serial
                     behind == lag[u]
          <5>1. /\ serial \in 0 .. SerialCount - 1 /\ i \in 0 .. SerialCount - 1
                /\ behind \in Nat /\ behind + 1 < SerialCount
                /\ next = IF serial + 1 = SerialCount THEN 0 ELSE serial + 1
                /\ lag'[u] = behind + 1
            BY <1>5, <1>6, <2>1, <4>1, <4>3
          <5>2. serial - i = behind \/ serial - i = behind - SerialCount
            BY <4>2
          <5> HIDE DEF next, serial, i, behind
          \* Serials count modulo SerialCount: one more release puts u one further behind.
          <5>3. next - i = behind + 1 \/ next - i = behind + 1 - SerialCount
            <6>1. SerialCount \in Nat
              BY Parameters
            <6>2. CASE serial + 1 = SerialCount
              BY <5>1, <5>2, <6>1, <6>2
            <6>3. CASE serial + 1 # SerialCount
              BY <5>1, <5>2, <6>1, <6>3
            <6> QED
              BY <6>2, <6>3
          <5>4. next - i = lag'[u] \/ next - i = lag'[u] - SerialCount
            BY <5>1, <5>3
          <5> QED
            BY <5>4 DEF next, i
        <4>5. lag'[u] # 0
          BY <2>1, <4>1
        <4> QED
          BY <1>3, <2>1, <3>1, <3>2, <4>4, <4>5 DEF TakeOKFor
      <3>3. CASE pc[u] \notin {"allocating", "linking", "taking"}
        BY <3>1, <3>3 DEF TakeOKFor
      <3> QED
        BY <3>2, <3>3
    <2> QED
      BY <2>2, <2>3
  <1> QED
    BY <1>1, <1>3, <1>8, <1>9, <1>10, <1>11, <1>12, <1>13

\* Every step keeps the inductive invariant.
LEMMA NextIInv == NoWrap /\ IInv /\ [Next]_vars => IInv'
  <1> SUFFICES ASSUME NoWrap, IInv, [Next]_vars PROVE IInv'
    OBVIOUS
  <1>1. CASE UNCHANGED vars
    <2>1. UNCHANGED <<_next, _v, element, pc, id, at, newat, owned, lag>>
      BY <1>1 DEF vars
    <2>2. \A x : Below(x)' = Below(x)
      BY <2>1 DEF Below
    <2>3. TypeOK' /\ OneOwner' /\ HeldOK' /\ ReturnOK'
      BY <2>1 DEF IInv, TypeOK, OneOwner, HeldOK, ReturnOK
    <2>4. StackOK'
      <3>1. \A s, k : Lists(s, k) => Lists(s, k)'
        BY <2>1, <2>2 DEF Lists
      <3> QED
        BY <3>1 DEF IInv, StackOK
    <2>5. TakeOK'
      BY <2>1, <2>2 DEF IInv, TakeOK, TakeOKFor
    <2> QED
      BY <2>3, <2>4, <2>5 DEF IInv
  <1>2. CASE Next
    BY <1>2, LoadIInv, AllocateIInv, StoreIInv, TakeIInv, PutIInv DEF Next, TakeSteps, PutSteps
  <1> QED
    BY <1>1, <1>2

-----------------------------------------------------------------------------
(* The theorems.                                                           *)

\* The inductive invariant holds of every reachable state.
THEOREM Invariance == NoWrap => (Spec => []IInv)
  <1> SUFFICES ASSUME NoWrap PROVE Spec => []IInv
    OBVIOUS
  <1>1. Init => IInv
    BY InitIInv
  <1>2. IInv /\ [Next]_vars => IInv'
    BY NextIInv
  <1> QED
    BY <1>1, <1>2, PTL DEF Spec

\* No two threads have the same id: the serial tells a CAS of next() that the top
\* was taken and came back, as long as fewer releases than the serial has values
\* fall into one next() (scfreelist.h 97-100, 158-185).
THEOREM Unique == NoWrap => (Spec => []OneOwner)
  <1> SUFFICES ASSUME NoWrap PROVE Spec => []OneOwner
    OBVIOUS
  <1>1. Spec => []IInv
    BY Invariance
  <1>2. IInv => OneOwner
    BY DEF IInv
  <1> QED
    BY <1>1, <1>2, PTL

\* Every variable keeps its type; in particular the serial keeps its width
\* (scfreelist.h 97-100).
THEOREM TypeCorrect == NoWrap => (Spec => []TypeOK)
  <1> SUFFICES ASSUME NoWrap PROVE Spec => []TypeOK
    OBVIOUS
  <1>1. Spec => []IInv
    BY Invariance
  <1>2. IInv => TypeOK
    BY DEF IInv
  <1> QED
    BY <1>1, <1>2, PTL

-----------------------------------------------------------------------------
(* The stack itself.                                                       *)

\* A set of natural numbers that is not empty has a least element.
LEMMA Least ==
  ASSUME NEW S \in SUBSET Nat, S # {}
  PROVE  \E i \in S : \A j \in S : i <= j
  <1> DEFINE T == {0 .. i : i \in S}
  <1>1. T \subseteq FiniteSubsetsOf(Nat) /\ T # {}
    <2>1. \A i \in S : IsFiniteSet(0 .. i) /\ 0 .. i \subseteq Nat
      BY FS_Interval
    <2> QED
      BY <2>1 DEF FiniteSubsetsOf
  <1>2. PICK x \in T : \A y \in T : ~(<<y, x>> \in StrictSubsetOrdering(Nat))
    BY <1>1, FS_StrictSubsetOrderingWellFounded, WFMin, Zenon
  <1>3. PICK i \in S : x = 0 .. i
    OBVIOUS
  <1>4. ASSUME NEW j \in S PROVE i <= j
    <2>1. <<0 .. j, 0 .. i>> \notin StrictSubsetOrdering(Nat)
      BY <1>2, <1>3
    <2>2. <<0 .. j, 0 .. i>> \in (SUBSET Nat) \X (SUBSET Nat)
      OBVIOUS
    <2>3. ~(0 .. j \subseteq 0 .. i /\ 0 .. j # 0 .. i)
      BY <2>1, <2>2 DEF StrictSubsetOrdering
    <2>4. j < i => 0 .. j \subseteq 0 .. i /\ i \in 0 .. i /\ i \notin 0 .. j
      OBVIOUS
    <2> QED
      BY <2>3, <2>4
  <1> QED
    BY <1>4

\* What Stack is defined by.
Descends(g) ==
  g = [n \in 0 .. Total |->
         IF n = 0 THEN _next.at
         ELSE IF g[n - 1] \in Ids THEN Below(g[n - 1]) ELSE Total]

\* Stack is the list, from the top down.
LEMMA StackIsList ==
  ASSUME NoWrap, NEW s, NEW k, Lists(s, k)
  PROVE  \A n \in 0 .. Total : Stack[n] = IF n <= k THEN s[k - n] ELSE Total
  <1> USE Parameters
  <1>1. /\ k \in Nat /\ s[0] = Total /\ _next.at = s[k]
        /\ \A i \in 1 .. k : s[i] \in Ids /\ Below(s[i]) = s[i - 1]
    BY DEF Lists
  <1> DEFINE f == [n \in 0 .. Total |-> IF n <= k THEN s[k - n] ELSE Total]
  <1>2. ASSUME NEW n \in 0 .. Total, n # 0
        PROVE  /\ n - 1 \in 0 .. Total
               /\ f[n] = IF f[n - 1] \in Ids THEN Below(f[n - 1]) ELSE Total
    <2>1. n - 1 \in 0 .. Total
      BY <1>2
    <2>2. CASE n <= k
      <3>1. k - (n - 1) \in 1 .. k /\ k - (n - 1) - 1 = k - n /\ n - 1 <= k
        BY <1>1, <1>2, <2>2
      <3> QED
        BY <1>1, <2>1, <2>2, <3>1
    <2>3. CASE n = k + 1
      <3>1. n - 1 = k /\ k - k = 0 /\ ~(n <= k)
        BY <1>1, <1>2, <2>3
      <3>2. f[n - 1] = Total /\ f[n] = Total
        BY <1>1, <2>1, <3>1
      <3> QED
        BY <2>1, <3>2
    <2>4. CASE n > k + 1
      <3>1. ~(n <= k) /\ ~(n - 1 <= k)
        BY <1>1, <1>2, <2>4
      <3>2. f[n - 1] = Total /\ f[n] = Total
        BY <2>1, <3>1
      <3> QED
        BY <2>1, <3>2
    <2> QED
      BY <1>1, <1>2, <2>2, <2>3, <2>4
  <1>3. f[0] = _next.at
    BY <1>1
  <1>4. Descends(f)
    <2> DEFINE h == [n \in 0 .. Total |->
                       IF n = 0 THEN _next.at
                       ELSE IF f[n - 1] \in Ids THEN Below(f[n - 1]) ELSE Total]
    <2>1. \A n \in 0 .. Total : f[n] = h[n]
      <3> HIDE DEF f
      <3> QED
        BY <1>2, <1>3
    <2>2. f = h
      BY <2>1
    <2> QED
      BY <2>2 DEF Descends
  <1>5. Descends(Stack)
    <2>1. Stack = CHOOSE g : Descends(g)
      BY DEF Stack, Descends
    <2> HIDE DEF f
    <2> QED
      BY <1>4, <2>1
  <1> HIDE DEF f
  <1>6. /\ Stack[0] = _next.at
        /\ \A n \in 0 .. Total : n # 0 =>
             Stack[n] = IF Stack[n - 1] \in Ids THEN Below(Stack[n - 1]) ELSE Total
    BY <1>5 DEF Descends
  <1>7. \A n \in 0 .. Total : Stack[n] = f[n]
    <2> DEFINE Wrong == {n \in 0 .. Total : Stack[n] # f[n]}
    <2> SUFFICES ASSUME Wrong # {} PROVE FALSE
      OBVIOUS
    <2>0. Wrong \in SUBSET Nat
      OBVIOUS
    <2>1. PICK n \in Wrong : \A m \in Wrong : n <= m
      <3> HIDE DEF Wrong
      <3> QED
        BY <2>0, Least
    <2>2. n # 0
      BY <1>3, <1>6
    <2>3. n - 1 \in 0 .. Total /\ ~(n <= n - 1)
      BY <2>2
    <2>4. Stack[n - 1] = f[n - 1]
      BY <2>1, <2>3
    <2> QED
      BY <1>2, <1>6, <2>2, <2>4
  <1> QED
    BY <1>7 DEF f

\* The stack is not higher than there are ids.
LEMMA StackFits ==
  ASSUME NoWrap, NEW s, NEW k, Lists(s, k)
  PROVE  k \in 0 .. Total
  <1> USE Parameters
  <1>1. /\ k \in Nat
        /\ \A i \in 1 .. k : s[i] \in Ids
        /\ \A i, j \in 1 .. k : s[i] = s[j] => i = j
    BY DEF Lists
  <1>2. IsFiniteSet(1 .. k) /\ Cardinality(1 .. k) = k
    BY <1>1, FS_Interval
  <1>3. IsFiniteSet(Ids) /\ Cardinality(Ids) = Total
    BY FS_Interval
  <1> DEFINE f == [i \in 1 .. k |-> s[i]]
  <1>4. f \in [1 .. k -> Ids] /\ \A i, j \in 1 .. k : f[i] = f[j] => i = j
    BY <1>1
  <1> HIDE DEF f
  <1>5. ~(Total < k)
    <2> SUFFICES ASSUME Total < k PROVE FALSE
      OBVIOUS
    <2>1. Cardinality(Ids) < Cardinality(1 .. k)
      BY <1>2, <1>3
    <2> DEFINE K == 1 .. k
    <2> HIDE DEF K
    <2>2. IsFiniteSet(K) /\ IsFiniteSet(Ids) /\ f \in [K -> Ids] /\ Cardinality(Ids) < Cardinality(K)
      BY <1>2, <1>3, <1>4, <2>1 DEF K
    <2>3. \E x, y \in K : x # y /\ f[x] = f[y]
      <3> HIDE DEF Ids
      <3> QED
        BY <2>2, FS_PigeonHole
    <2> QED
      BY <1>4, <2>3 DEF K
  <1> QED
    BY <1>1, <1>5

\* The stack holds every id that nobody has, once, and nobody looks for the array
\* of an id beyond the last: the assertion of blockfor() never fails
\* (scfreelist.h 82, 158-200).
THEOREM FreeIdsAreStacked == NoWrap => (Spec => []StackIsFree)
  <1> SUFFICES ASSUME NoWrap PROVE Spec => []StackIsFree
    OBVIOUS
  <1>1. Spec => []IInv
    BY Invariance
  <1>2. IInv => StackIsFree
    <2> SUFFICES ASSUME IInv PROVE StackIsFree
      OBVIOUS
    <2> USE Parameters
    <2>1. PICK s, k : Lists(s, k)
      BY DEF IInv, StackOK
    <2>2. /\ k \in 0 .. Total /\ s[0] = Total
          /\ \A i \in 1 .. k : s[i] \in Ids
          /\ \A i, j \in 1 .. k : s[i] = s[j] => i = j
          /\ \A x \in Ids : (\E i \in 1 .. k : s[i] = x) <=> (\A t \in Threads : x \notin owned[t])
      BY <2>1, StackFits DEF Lists
    <2>3. \A n \in 0 .. Total : Stack[n] = IF n <= k THEN s[k - n] ELSE Total
      BY <2>1, StackIsList
    <2>4. \A n \in 0 .. Total : Stack[n] \in Ids => n < k /\ k - n \in 1 .. k /\ Stack[n] = s[k - n]
      <3> SUFFICES ASSUME NEW n \in 0 .. Total, Stack[n] \in Ids
                   PROVE  n < k /\ k - n \in 1 .. k /\ Stack[n] = s[k - n]
        OBVIOUS
      <3>1. n <= k /\ Stack[n] = s[k - n]
        BY <2>3
      <3>2. n # k
        BY <2>2, <3>1
      <3> QED
        BY <2>2, <3>1, <3>2
    <2>5. \A i \in 1 .. k : k - i \in 0 .. Total /\ Stack[k - i] = s[i]
      <3> SUFFICES ASSUME NEW i \in 1 .. k PROVE k - i \in 0 .. Total /\ Stack[k - i] = s[i]
        OBVIOUS
      <3>1. k - i \in 0 .. Total /\ k - i <= k /\ k - (k - i) = i
        BY <2>2
      <3> QED
        BY <2>3, <3>1
    <2>6. {Stack[n] : n \in 0 .. Total} \cap Ids = Ids \ UNION {owned[t] : t \in Threads}
      <3>1. \A x \in Ids : (\E n \in 0 .. Total : Stack[n] = x) <=> (\E i \in 1 .. k : s[i] = x)
        BY <2>4, <2>5
      <3>2. \A x \in Ids : (\E n \in 0 .. Total : Stack[n] = x) <=> (\A t \in Threads : x \notin owned[t])
        BY <2>2, <3>1
      <3> HIDE DEF Stack, Ids
      <3> QED
        BY <3>2
    <2>7. \A m, n \in 0 .. Total : Stack[m] = Stack[n] /\ Stack[m] \in Ids => m = n
      <3> SUFFICES ASSUME NEW m \in 0 .. Total, NEW n \in 0 .. Total,
                          Stack[m] = Stack[n], Stack[m] \in Ids
                   PROVE  m = n
        OBVIOUS
      <3>1. k - m \in 1 .. k /\ k - n \in 1 .. k /\ s[k - m] = s[k - n]
        BY <2>4
      <3>2. k - m = k - n
        BY <2>2, <3>1
      <3> QED
        BY <2>2, <3>2
    <2>8. InRange
      BY DEF IInv, TakeOK, TakeOKFor, InRange, Looked
    <2> QED
      BY <2>6, <2>7, <2>8 DEF StackIsFree
  <1> QED
    BY <1>1, <1>2, PTL

-----------------------------------------------------------------------------
(* The refinement.                                                         *)

\* The list is a pool of ids: every successful CAS of next() hands out an id that
\* nobody has, every one of release() takes back one that the thread has, and no
\* other step changes who has what (scfreelist.h 158-200).
THEOREM Refinement == NoWrap => (Spec => ImplementsIdPool)
  <1> SUFFICES ASSUME NoWrap PROVE Spec => ImplementsIdPool
    OBVIOUS
  <1>1. Spec => []IInv
    BY Invariance
  <1>2. Init => Abstract!Init
    BY DEF Init, Abstract!Init
  <1>3. IInv /\ [Next]_vars => [Abstract!Next]_owned
    <2> SUFFICES ASSUME IInv, [Next]_vars PROVE Abstract!Next \/ UNCHANGED owned
      OBVIOUS
    <2>1. CASE UNCHANGED vars
      BY <2>1 DEF vars
    <2>2. ASSUME NEW t \in Threads, Take(t), _next = id[t] PROVE Abstract!Next
      <3>1. /\ id[t].at \in Ids /\ \A u \in Threads : id[t].at \notin owned[u]
            /\ owned' = [owned EXCEPT ![t] = @ \cup {id[t].at}]
        BY <2>2, TakeIInv
      <3>2. id[t].at \in Abstract!Free
        BY <3>1 DEF Abstract!Free
      <3>3. Abstract!Take(t)
        BY <3>1, <3>2 DEF Abstract!Take
      <3> QED
        BY <3>3 DEF Abstract!Next
    <2>3. ASSUME NEW t \in Threads, Put(t), _next = id[t] PROVE Abstract!Next
      <3>1. at[t] \in owned[t] /\ owned' = [owned EXCEPT ![t] = @ \ {at[t]}]
        BY <2>3, PutIInv
      <3>2. Abstract!GiveBack(t)
        BY <3>1 DEF Abstract!GiveBack
      <3> QED
        BY <3>2 DEF Abstract!Next
    <2>4. ASSUME NEW t \in Threads,
                 \/ Call(t) \/ Look(t) \/ Allocate(t) \/ Link(t) \/ (Take(t) /\ _next # id[t])
                 \/ CallRelease(t) \/ LookAgain(t) \/ Store(t) \/ (Put(t) /\ _next # id[t])
          PROVE  UNCHANGED owned
      BY <2>4 DEF Call, Look, Allocate, Link, Take, CallRelease, LookAgain, Store, Put
    <2>5. CASE Next
      BY <2>2, <2>3, <2>4, <2>5 DEF Next, TakeSteps, PutSteps
    <2> QED
      BY <2>1, <2>5
  <1> QED
    BY <1>1, <1>2, <1>3, PTL DEF Spec, ImplementsIdPool, Abstract!Spec
=============================================================================
