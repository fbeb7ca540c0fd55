------------------------- MODULE ScThreadPool_proofs -------------------------
(***************************************************************************)
(* Proofs about ScThreadPool for any workers, tasks, waiters and bounds.   *)
(*                                                                         *)
(* They hold as long as the mutex that a returning waitForDone() unlocks   *)
(* without having it is nobody's at that moment: see ScThreadPoolUnlock.   *)
(* Two more facts are assumed where they are needed, because the code      *)
(* breaks without them (see the findings in README.md):                    *)
(*   NonNegative  no task is started with a priority below 0, at which     *)
(*                tryStart() queues a task for a waiting thread;           *)
(*   Untimed      every call of waitForDone() has used up its time when    *)
(*                reset() is through, as with the default argument, so     *)
(*                that none would go round again without the mutex.        *)
(*                                                                         *)
(* IInv is inductive under the first, UInv on top of it under the second,  *)
(* and TasksOK, on top of IInv, under the first again.                     *)
(***************************************************************************)
EXTENDS ScThreadPool, FiniteSetTheorems, SequenceTheorems, TLAPS

-----------------------------------------------------------------------------
(* Sequences and sets.                                                     *)

NonNegative == Priorities \subseteq Nat
Untimed == \A m \in WaitTimes : m <= 0

Distinct(s) == \A i, j \in DOMAIN s : s[i] = s[j] => i = j

\* Among some natural numbers there is a smallest.
LEMMA Least ==
  ASSUME NEW S \in SUBSET Nat, S # {}
  PROVE  \E i \in S : \A j \in S : i <= j
<1> DEFINE T == {0 .. i : i \in S}
<1>1. T \subseteq FiniteSubsetsOf(Nat) /\ T # {}
  <2>1. \A i \in S : IsFiniteSet(0 .. i) /\ 0 .. i \subseteq Nat
    BY FS_Interval
  <2> QED BY <2>1 DEF FiniteSubsetsOf
<1>2. PICK x \in T : \A y \in T : ~(<<y, x>> \in StrictSubsetOrdering(Nat))
  BY <1>1, FS_StrictSubsetOrderingWellFounded, WFMin, Zenon
<1>3. PICK i \in S : x = 0 .. i
  OBVIOUS
<1>4. ASSUME NEW j \in S PROVE i <= j
  <2>1. ~(0 .. j \subseteq 0 .. i /\ 0 .. j # 0 .. i)
    <3>1. <<0 .. j, 0 .. i>> \notin StrictSubsetOrdering(Nat)
      BY <1>2, <1>3
    <3>2. <<0 .. j, 0 .. i>> \in (SUBSET Nat) \X (SUBSET Nat)
      OBVIOUS
    <3> QED
      BY <3>1, <3>2 DEF StrictSubsetOrdering
  <2>2. j < i => 0 .. j \subseteq 0 .. i /\ i \in 0 .. i /\ i \notin 0 .. j
    OBVIOUS
  <2> QED
    BY <2>1, <2>2
<1> QED
  BY <1>4

\* The length of a sequence without repetitions is the number of its elements.
LEMMA DistinctCount ==
  ASSUME NEW S, NEW s \in Seq(S), Distinct(s)
  PROVE  IsFiniteSet(Elements(s)) /\ Cardinality(Elements(s)) = Len(s)
<1>1. Len(s) \in Nat /\ DOMAIN s = 1 .. Len(s) /\ s \in [1 .. Len(s) -> S]
  BY LenProperties
<1>2. s \in Bijection(1 .. Len(s), Elements(s))
  <2>1. s \in [1 .. Len(s) -> Elements(s)]
    BY <1>1 DEF Elements
  <2>2. \A i, j \in 1 .. Len(s) : s[i] = s[j] => i = j
    BY <1>1 DEF Distinct
  <2>3. \A x \in Elements(s) : \E i \in 1 .. Len(s) : s[i] = x
    BY <1>1 DEF Elements
  <2> QED
    BY <2>1, <2>2, <2>3 DEF Bijection, Injection, Surjection, IsInjective
<1>3. ExistsBijection(1 .. Len(s), Elements(s))
  BY <1>2 DEF ExistsBijection
<1> QED
  BY <1>1, <1>3, FS_CountingElements, FS_NatBijection

LEMMA AppendElements ==
  ASSUME NEW s \in Seq(Workers), NEW w \in Workers
  PROVE  /\ Append(s, w) \in Seq(Workers)
         /\ Elements(Append(s, w)) = Elements(s) \cup {w}
         /\ Distinct(s) /\ w \notin Elements(s) => Distinct(Append(s, w))
<1>1. /\ Append(s, w) \in Seq(Workers)
      /\ Len(s) \in Nat /\ Len(Append(s, w)) = Len(s) + 1
      /\ DOMAIN s = 1 .. Len(s) /\ DOMAIN Append(s, w) = 1 .. Len(s) + 1
      /\ \A i \in 1 .. Len(s) : Append(s, w)[i] = s[i]
      /\ Append(s, w)[Len(s) + 1] = w
  BY AppendProperties, LenProperties
<1> QED
  BY <1>1 DEF Elements, Distinct

LEMMA TailElements ==
  ASSUME NEW s \in Seq(Workers), s # <<>>, Distinct(s)
  PROVE  /\ Head(s) \in Workers /\ Head(s) \in Elements(s)
         /\ Tail(s) \in Seq(Workers)
         /\ Elements(Tail(s)) = Elements(s) \ {Head(s)}
         /\ Distinct(Tail(s))
<1>1. /\ Head(s) \in Workers /\ Tail(s) \in Seq(Workers)
      /\ Len(s) \in Nat \ {0} /\ Len(Tail(s)) = Len(s) - 1
      /\ DOMAIN s = 1 .. Len(s) /\ DOMAIN Tail(s) = 1 .. Len(s) - 1
      /\ \A i \in 1 .. Len(s) - 1 : Tail(s)[i] = s[i + 1]
      /\ Head(s) = s[1]
  BY HeadTailProperties, LenProperties, EmptySeq
<1>2. Elements(Tail(s)) = Elements(s) \ {Head(s)}
  <2>1. ASSUME NEW x \in Elements(Tail(s)) PROVE x \in Elements(s) \ {Head(s)}
    BY <1>1 DEF Elements, Distinct
  <2>2. ASSUME NEW x \in Elements(s) \ {Head(s)} PROVE x \in Elements(Tail(s))
    <3>1. PICK i \in 1 .. Len(s) : x = s[i] /\ i # 1
      BY <1>1 DEF Elements
    <3>2. i - 1 \in 1 .. Len(s) - 1 /\ Tail(s)[i - 1] = x
      BY <1>1, <3>1
    <3> QED
      BY <1>1, <3>2 DEF Elements
  <2> QED
    BY <2>1, <2>2
<1>3. Distinct(Tail(s))
  BY <1>1 DEF Distinct
<1>4. Head(s) \in Elements(s)
  BY <1>1 DEF Elements
<1> QED
  BY <1>1, <1>2, <1>3, <1>4

LEMMA WithoutElements ==
  ASSUME NEW s \in Seq(Workers), NEW w \in Elements(s), Distinct(s)
  PROVE  /\ Without(s, w) \in Seq(Workers)
         /\ Elements(Without(s, w)) = Elements(s) \ {w}
         /\ Distinct(Without(s, w))
<1>1. Len(s) \in Nat /\ DOMAIN s = 1 .. Len(s) /\ \A i \in 1 .. Len(s) : s[i] \in Workers
  BY LenProperties
<1> DEFINE First(i) == s[i] = w /\ \A j \in 1 .. i - 1 : s[j] # w
           k == CHOOSE i \in DOMAIN s : First(i)
           r == SubSeq(s, 1, k - 1) \o SubSeq(s, k + 1, Len(s))
<1>2. k \in 1 .. Len(s) /\ s[k] = w
  <2>1. PICK i \in 1 .. Len(s) : s[i] = w
    BY <1>1 DEF Elements
  <2>2. \A j \in 1 .. i - 1 : s[j] # w
    BY <1>1, <2>1 DEF Distinct
  <2> QED
    BY <1>1, <2>1, <2>2
<1> HIDE DEF k
<1>3. /\ r \in Seq(Workers) /\ Len(r) = Len(s) - 1
      /\ \A i \in 1 .. Len(s) - 1 : r[i] = IF i < k THEN s[i] ELSE s[i + 1]
  <2> DEFINE head == SubSeq(s, 1, k - 1)
             rest == SubSeq(s, k + 1, Len(s))
  <2>1. /\ head \in Seq(Workers) /\ Len(head) = k - 1
        /\ \A i \in 1 .. k - 1 : head[i] = s[i]
    <3>1. \A i \in 1 .. k - 1 : s[i] \in Workers
      BY <1>1, <1>2
    <3> QED
      BY <1>1, <1>2, <3>1, SubSeqProperties
  <2>2. /\ rest \in Seq(Workers) /\ Len(rest) = Len(s) - k
        /\ \A i \in 1 .. Len(s) - k : rest[i] = s[k + i]
    <3> DEFINE m == k + 1
    <3>1. m \in Int /\ \A i \in m .. Len(s) : s[i] \in Workers
      BY <1>1, <1>2
    <3> HIDE DEF m
    <3>2. /\ SubSeq(s, m, Len(s)) \in Seq(Workers)
          /\ Len(SubSeq(s, m, Len(s))) = IF m <= Len(s) THEN Len(s) - m + 1 ELSE 0
          /\ \A i \in 1 .. Len(s) - m + 1 : SubSeq(s, m, Len(s))[i] = s[m + i - 1]
      BY <1>1, <3>1, SubSeqProperties
    <3>3. /\ (IF m <= Len(s) THEN Len(s) - m + 1 ELSE 0) = Len(s) - k
          /\ Len(s) - m + 1 = Len(s) - k
          /\ \A i \in 1 .. Len(s) - k : m + i - 1 = k + i
      <4>1. Len(s) \in Int /\ k \in Int /\ 1 <= k /\ k <= Len(s)
        BY <1>1, <1>2
      <4>2. k = Len(s) \/ k + 1 <= Len(s)
        BY <4>1
      <4> QED
        BY <4>1, <4>2 DEF m
    <3>4. \A i \in 1 .. Len(s) - k : SubSeq(s, m, Len(s))[i] = s[k + i]
      BY <3>2, <3>3
    <3> QED
      BY <3>2, <3>3, <3>4 DEF m
  <2> HIDE DEF head, rest
  <2>3. /\ head \o rest \in Seq(Workers)
        /\ Len(head \o rest) = Len(head) + Len(rest)
        /\ \A i \in 1 .. Len(head) + Len(rest) :
              (head \o rest)[i] = IF i <= Len(head) THEN head[i] ELSE rest[i - Len(head)]
    BY <2>1, <2>2, ConcatProperties
  <2>4. ASSUME NEW i \in 1 .. Len(s) - 1
        PROVE  (head \o rest)[i] = IF i < k THEN s[i] ELSE s[i + 1]
    <3>1. i < k => (head \o rest)[i] = s[i]
      BY <1>1, <1>2, <2>1, <2>2, <2>3
    <3>2. i >= k => (head \o rest)[i] = rest[i - (k - 1)] /\ i - (k - 1) \in 1 .. Len(s) - k
      BY <1>1, <1>2, <2>1, <2>2, <2>3
    <3>3. i >= k => rest[i - (k - 1)] = s[i + 1]
      BY <1>1, <1>2, <2>2, <3>2
    <3>4. i < k \/ (i >= k /\ ~(i < k))
      BY <1>1, <1>2
    <3> QED
      BY <3>1, <3>2, <3>3, <3>4
  <2>5. Len(head) + Len(rest) = Len(s) - 1
    BY <1>1, <1>2, <2>1, <2>2
  <2> QED
    BY <2>3, <2>4, <2>5 DEF head, rest
<1>4. DOMAIN r = 1 .. Len(s) - 1
  BY <1>3, LenProperties
<1> HIDE DEF r
<1> DEFINE Old(i) == IF i < k THEN i ELSE i + 1
<1>a. \A i \in DOMAIN r : Old(i) \in DOMAIN s /\ Old(i) # k /\ r[i] = s[Old(i)]
  BY <1>1, <1>2, <1>3, <1>4
<1>b. \A i, j \in DOMAIN r : Old(i) = Old(j) => i = j
  BY <1>1, <1>2, <1>4
<1>5. Elements(r) = Elements(s) \ {w}
  <2>1. ASSUME NEW x \in Elements(r) PROVE x \in Elements(s) \ {w}
    <3> HIDE DEF Old
    <3>1. PICK i \in DOMAIN r : x = r[i]
      BY DEF Elements
    <3> QED
      BY <1>1, <1>2, <1>a, <3>1 DEF Elements, Distinct
  <2>2. ASSUME NEW x \in Elements(s) \ {w} PROVE x \in Elements(r)
    <3>1. PICK i \in 1 .. Len(s) : x = s[i] /\ i # k
      BY <1>1, <1>2 DEF Elements
    <3>2. CASE i < k
      BY <1>1, <1>2, <1>3, <1>4, <3>1, <3>2 DEF Elements
    <3>3. CASE i > k
      <4>1. i - 1 \in 1 .. Len(s) - 1 /\ r[i - 1] = x
        BY <1>1, <1>2, <1>3, <3>1, <3>3
      <4> QED
        BY <1>4, <4>1 DEF Elements
    <3> QED
      BY <1>1, <1>2, <3>1, <3>2, <3>3
  <2> QED
    BY <2>1, <2>2
<1>6. Distinct(r)
  <2> HIDE DEF Old
  <2> QED BY <1>a, <1>b DEF Distinct
<1>7. Without(s, w) = r
  BY DEF Without, r, k
<1> QED
  BY <1>3, <1>5, <1>6, <1>7

-----------------------------------------------------------------------------
(* The invariant.                                                          *)

GoodQueue(q) ==
  /\ q \in Seq(Page)
  /\ \A i \in DOMAIN q : q[i].entries # <<>> /\ q[i].priority >= 0

WaitingOK ==
  /\ \A w \in Workers : w \in Elements(waitingThreads) <=>
                           w \in allThreads /\ worker[w] = "parked"
  /\ Distinct(waitingThreads)

ExpiredOK ==
  /\ \A w \in Workers : w \in Elements(expiredThreads) <=>
                           w \in allThreads /\ worker[w] = "finished"
  /\ Distinct(expiredThreads)

\* A thread that was dropped from the pool never comes back to it.
DroppedOK ==
  /\ \A w \in allThreads : worker[w] # "absent"
  /\ \A c \in Waiters : \A w \in waiter[c].copy : worker[w] # "absent" /\ w \notin allThreads

ThreadTypes ==
  /\ allThreads \subseteq Workers
  /\ waitingThreads \in Seq(Workers)
  /\ expiredThreads \in Seq(Workers)
  /\ worker \in [Workers -> WorkerState]
  /\ task \in [Workers -> Tasks \cup {NoTask}]

ThreadsOK == ThreadTypes /\ WaitingOK /\ ExpiredOK /\ DroppedOK /\ ActiveCountExact

PlacedOK ==
  \A t \in Tasks : status[t] = "pending" =>
    t \in Queued(queue) \/ \E w \in Busy : task[w] = t

OwedOK ==
  \A c \in Waiters :
    /\ waiter[c].pc = "waiting" => \A t \in waiter[c].owed : status[t] # "fresh"
    /\ waiter[c].pc \notin {"idle", "waiting"} =>
         \A t \in waiter[c].owed : status[t] \in {"done", "cleared"}

OtherTypes ==
  /\ maxThreadCount \in ThreadLimits
  /\ reservedThreadNum \in 0 .. MaxReserved
  /\ starting \in BOOLEAN
  /\ status \in [Tasks -> {"fresh", "pending", "done", "cleared"}]
  /\ waiter \in [Waiters -> Waiter]

IInv == OtherTypes /\ GoodQueue(queue) /\ ThreadsOK /\ PlacedOK /\ OwedOK

\* While no call has time left after its first reset().
CallOK == \A c \in Waiters : /\ waiter[c].msecs <= 0
                              /\ waiter[c].pc \in {"idle", "waiting", "joining", "joined"}
BusyInPool == Busy \subseteq allThreads
UInv == CallOK /\ BusyInPool /\ NoStrandedTask

-----------------------------------------------------------------------------
(* The queue of pages.                                                     *)

LEMMA QueuedIff ==
  ASSUME NEW q, NEW t
  PROVE  t \in Queued(q) <=>
           \E i \in DOMAIN q : \E j \in DOMAIN q[i].entries : q[i].entries[j] = t
BY DEF Queued

GoodPage(page) == page \in Page /\ page.entries # <<>> /\ page.priority >= 0

LEMMA NewPageGood ==
  ASSUME NEW t \in Tasks, NEW p \in Nat
  PROVE  /\ GoodPage(NewPage(t, p))
         /\ NewPage(t, p).entries = <<t>>
<1>1. <<t>> \in Seq(Tasks) /\ <<t>> # <<>>
  OBVIOUS
<1>2. 1 \in 0 .. MaxPageSize
  BY PoolAssumption
<1> QED
  BY <1>1, <1>2 DEF GoodPage, NewPage, Page

LEMMA PushGood ==
  ASSUME NEW page, GoodPage(page), ~IsFull(page), NEW t \in Tasks
  PROVE  /\ GoodPage(Push(page, t))
         /\ Push(page, t).entries = Append(page.entries, t)
<1>1. /\ page.entries \in Seq(Tasks) /\ page.pushed \in 0 .. MaxPageSize
      /\ page.priority \in Int
  BY DEF GoodPage, Page
<1>2. Append(page.entries, t) \in Seq(Tasks) /\ Append(page.entries, t) # <<>>
  BY <1>1, AppendProperties
<1>3. page.pushed + 1 \in 0 .. MaxPageSize
  BY <1>1, PoolAssumption DEF IsFull
<1>4. page \in Page /\ page.priority >= 0
  BY DEF GoodPage
<1>5. /\ Push(page, t) \in Page
      /\ Push(page, t).entries = Append(page.entries, t)
      /\ Push(page, t).priority = page.priority
  BY <1>1, <1>2, <1>3, <1>4 DEF Push, Page
<1> QED
  BY <1>2, <1>4, <1>5 DEF GoodPage

LEMMA PopGood ==
  ASSUME NEW page, GoodPage(page)
  PROVE  /\ Pop(page) \in Page /\ Pop(page).priority = page.priority
         /\ Pop(page).entries = Tail(page.entries)
<1>1. /\ page.entries \in Seq(Tasks) /\ page.pushed \in 0 .. MaxPageSize
      /\ page.priority \in Int /\ page.entries # <<>>
  BY DEF GoodPage, Page
<1>2. Tail(page.entries) \in Seq(Tasks)
  BY <1>1, HeadTailProperties
<1>3. page \in Page
  BY DEF GoodPage
<1> QED
  BY <1>1, <1>2, <1>3 DEF Pop, Page

\* Where enqueueTask puts a page: always somewhere, and never in front of the
\* page that is there, when the new one has priority 0.
LEMMA UpperBoundPlace ==
  ASSUME NEW q, GoodQueue(q), NEW p \in Nat
  PROVE  /\ UpperBound(q, p) \in 1 .. Len(q) + 1
         /\ p = 0 /\ q # <<>> => UpperBound(q, p) # 1
         /\ UpperBound(q, p) \in DOMAIN q => p > q[UpperBound(q, p)].priority
         /\ \A j \in 1 .. UpperBound(q, p) - 1 : ~(p > q[j].priority)
<1>1. Len(q) \in Nat /\ DOMAIN q = 1 .. Len(q)
      /\ \A i \in DOMAIN q : q[i].priority \in Int /\ q[i].priority >= 0
      /\ (q # <<>> => 1 \in DOMAIN q)
  <2>1. q \in Seq(Page) /\ Len(q) \in Nat /\ DOMAIN q = 1 .. Len(q)
    BY LenProperties DEF GoodQueue
  <2>2. \A i \in DOMAIN q : q[i] \in Page
    BY <2>1, ElementOfSeq
  <2>3. q # <<>> => Len(q) \in Nat \ {0}
    BY <2>1, EmptySeq
  <2> QED
    BY <2>1, <2>2, <2>3 DEF GoodQueue, Page
<1> DEFINE Ends == {i \in 1 .. Len(q) + 1 : i \in DOMAIN q => p > q[i].priority}
<1>2. Ends \in SUBSET Nat /\ Len(q) + 1 \in Ends
  BY <1>1
<1>3. PICK i \in Ends : \A j \in Ends : i <= j
  BY <1>2, Least
<1>4. \A j \in 1 .. i - 1 : ~(p > q[j].priority)
  BY <1>1, <1>3
<1>5. /\ UpperBound(q, p) \in 1 .. Len(q) + 1
      /\ UpperBound(q, p) \in DOMAIN q => p > q[UpperBound(q, p)].priority
      /\ \A j \in 1 .. UpperBound(q, p) - 1 : ~(p > q[j].priority)
  BY <1>3, <1>4 DEF UpperBound
<1> QED
  BY <1>1, <1>5

LEMMA InsertGood ==
  ASSUME NEW q, GoodQueue(q), NEW page, GoodPage(page), NEW u \in 1 .. Len(q) + 1
  PROVE  LET r == InsertPage(q, u, page)
         IN  /\ GoodQueue(r) /\ Len(r) = Len(q) + 1
             /\ \A i \in 1 .. Len(q) + 1 :
                  r[i] = IF i < u THEN q[i] ELSE IF i = u THEN page ELSE q[i - 1]
<1>1. Len(q) \in Nat /\ DOMAIN q = 1 .. Len(q) /\ \A i \in 1 .. Len(q) : q[i] \in Page
      /\ page \in Page /\ u \in Int /\ u - 1 \in Int /\ 1 <= u /\ u <= Len(q) + 1
      /\ q \in Seq(Page)
  BY LenProperties, ElementOfSeq DEF GoodQueue, GoodPage
<1> DEFINE front == SubSeq(q, 1, u - 1)
           back  == SubSeq(q, u, Len(q))
<1>2. front \in Seq(Page) /\ Len(front) = u - 1 /\ \A i \in 1 .. u - 1 : front[i] = q[i]
  <2>1. \A i \in 1 .. u - 1 : q[i] \in Page
    BY <1>1
  <2> QED
    BY <1>1, <2>1, SubSeqProperties
<1>3. /\ back \in Seq(Page) /\ Len(back) = Len(q) - u + 1
      /\ \A i \in 1 .. Len(q) - u + 1 : back[i] = q[u + i - 1]
  <2>1. \A i \in u .. Len(q) : q[i] \in Page
    BY <1>1
  <2>2. (IF u <= Len(q) THEN Len(q) - u + 1 ELSE 0) = Len(q) - u + 1
    BY <1>1
  <2> QED
    BY <1>1, <2>1, <2>2, SubSeqProperties
<1> HIDE DEF front, back
<1> page \in Page
  BY DEF GoodPage
<1>4. <<page>> \in Seq(Page) /\ Len(<<page>>) = 1 /\ <<page>>[1] = page
  OBVIOUS
<1> DEFINE start == front \o <<page>>
<1>5. /\ start \in Seq(Page) /\ Len(start) = u
      /\ \A i \in 1 .. u : start[i] = IF i < u THEN q[i] ELSE page
  BY <1>1, <1>2, <1>4, ConcatProperties
<1> HIDE DEF start
<1> DEFINE r == start \o back
<1>6. /\ r \in Seq(Page) /\ Len(r) = Len(start) + Len(back)
      /\ \A i \in 1 .. Len(start) + Len(back) :
           r[i] = IF i <= Len(start) THEN start[i] ELSE back[i - Len(start)]
  BY <1>3, <1>5, ConcatProperties
<1>7. Len(start) + Len(back) = Len(q) + 1
  BY <1>1, <1>3, <1>5
<1> HIDE DEF r
<1>8. ASSUME NEW i \in 1 .. Len(q) + 1
      PROVE  r[i] = IF i < u THEN q[i] ELSE IF i = u THEN page ELSE q[i - 1]
  <2>1. i <= u => r[i] = start[i] /\ i \in 1 .. u
    BY <1>1, <1>5, <1>6, <1>7
  <2>2. i > u => r[i] = back[i - u] /\ i - u \in 1 .. Len(q) - u + 1
    BY <1>1, <1>5, <1>6, <1>7
  <2>3. i > u => back[i - u] = q[i - 1]
    BY <1>1, <1>3, <2>2
  <2> QED
    BY <1>1, <1>5, <2>1, <2>2, <2>3
<1>9. DOMAIN r = 1 .. Len(q) + 1
  BY <1>6, <1>7, LenProperties
<1>10. \A i \in DOMAIN r : r[i].entries # <<>> /\ r[i].priority >= 0
  <2>1. \A i \in 1 .. Len(q) : q[i].entries # <<>> /\ q[i].priority >= 0
    BY <1>1 DEF GoodQueue
  <2>2. page.entries # <<>> /\ page.priority >= 0
    BY DEF GoodPage
  <2> TAKE i \in DOMAIN r
  <2>3. CASE i < u
    BY <1>1, <1>8, <1>9, <2>1, <2>3
  <2>4. CASE i = u
    BY <1>1, <1>8, <1>9, <2>2, <2>4
  <2>5. CASE i > u
    <3>1. i - 1 \in 1 .. Len(q) /\ r[i] = q[i - 1]
      BY <1>1, <1>8, <1>9, <2>5
    <3> QED
      BY <2>1, <3>1
  <2> QED
    BY <1>1, <1>9, <2>3, <2>4, <2>5
<1>11. InsertPage(q, u, page) = r
  BY DEF InsertPage, r, start, front, back
<1> QED
  BY <1>6, <1>7, <1>8, <1>10, <1>11 DEF GoodQueue

\* Either a page with room takes the task, or a new page does.
LEMMA EnqueueShape ==
  ASSUME NEW q, GoodQueue(q), NEW t \in Tasks, NEW p \in Nat
  PROVE  \/ /\ Roomy(q, p) # {}
            /\ \E i \in DOMAIN q : /\ ~IsFull(q[i])
                                 /\ EnqueueTask(q, t, p) = [q EXCEPT ![i] = Push(q[i], t)]
         \/ /\ Roomy(q, p) = {}
            /\ \E u \in 1 .. Len(q) + 1 :
                 /\ EnqueueTask(q, t, p) = InsertPage(q, u, NewPage(t, p))
                 /\ u = UpperBound(q, p)
                 /\ p = 0 /\ q # <<>> => u # 1
<1>1. CASE Roomy(q, p) # {}
  <2>1. Roomy(q, p) \in SUBSET Nat
    BY LenProperties DEF Roomy, GoodQueue
  <2>2. PICK i \in Roomy(q, p) : \A j \in Roomy(q, p) : i <= j
    BY <1>1, <2>1, Least
  <2> DEFINE k == CHOOSE g \in Roomy(q, p) : \A j \in Roomy(q, p) : g <= j
  <2>3. k \in Roomy(q, p)
    BY <2>2
  <2>4. EnqueueTask(q, t, p) = [q EXCEPT ![k] = Push(q[k], t)]
    BY <1>1 DEF EnqueueTask
  <2> HIDE DEF k
  <2> QED
    BY <1>1, <2>3, <2>4 DEF Roomy
<1>2. CASE Roomy(q, p) = {}
  BY <1>2, UpperBoundPlace DEF EnqueueTask
<1> QED
  BY <1>1, <1>2

\* A page replaced by the page with one more task.
LEMMA PushAtGood ==
  ASSUME NEW q, GoodQueue(q), NEW i \in DOMAIN q, ~IsFull(q[i]), NEW t \in Tasks
  PROVE  LET r == [q EXCEPT ![i] = Push(q[i], t)]
         IN  /\ GoodQueue(r) /\ Len(r) = Len(q) /\ DOMAIN r = DOMAIN q
             /\ r[i].entries = Append(q[i].entries, t)
             /\ \A j \in DOMAIN q : j # i => r[j] = q[j]
<1> DEFINE r == [q EXCEPT ![i] = Push(q[i], t)]
<1>1. q \in Seq(Page) /\ DOMAIN q = 1 .. Len(q)
      /\ \A j \in DOMAIN q : GoodPage(q[j])
  BY LenProperties, ElementOfSeq DEF GoodQueue, GoodPage
<1>2. GoodPage(Push(q[i], t)) /\ Push(q[i], t).entries = Append(q[i].entries, t)
  BY <1>1, PushGood
<1>3. r \in Seq(Page) /\ Len(r) = Len(q) /\ \A j \in DOMAIN q : r[j] = IF j = i THEN Push(q[i], t) ELSE q[j]
  BY <1>1, <1>2, ExceptSeq DEF GoodPage
<1>4. DOMAIN r = DOMAIN q
  BY <1>1, <1>3, LenProperties
<1> HIDE DEF r
<1>5. GoodQueue(r)
  BY <1>1, <1>2, <1>3, <1>4 DEF GoodQueue, GoodPage
<1> QED
  BY <1>2, <1>3, <1>4, <1>5 DEF r

\* enqueueTask adds the task and loses none.
LEMMA EnqueueGood ==
  ASSUME NEW q, GoodQueue(q), NEW t \in Tasks, NEW p \in Nat
  PROVE  /\ GoodQueue(EnqueueTask(q, t, p)) /\ EnqueueTask(q, t, p) # <<>>
         /\ Queued(q) \cup {t} \subseteq Queued(EnqueueTask(q, t, p))
<1> DEFINE r == EnqueueTask(q, t, p)
<1>1. q \in Seq(Page) /\ Len(q) \in Nat /\ DOMAIN q = 1 .. Len(q)
      /\ \A j \in DOMAIN q : q[j].entries \in Seq(Tasks)
  <2>1. q \in Seq(Page) /\ Len(q) \in Nat /\ DOMAIN q = 1 .. Len(q)
    BY LenProperties DEF GoodQueue
  <2>2. \A j \in DOMAIN q : q[j] \in Page
    BY <2>1, ElementOfSeq
  <2> QED
    BY <2>1, <2>2 DEF Page
<1>2. CASE \E i \in DOMAIN q : ~IsFull(q[i]) /\ r = [q EXCEPT ![i] = Push(q[i], t)]
  <2>1. PICK i \in DOMAIN q : ~IsFull(q[i]) /\ r = [q EXCEPT ![i] = Push(q[i], t)]
    BY <1>2
  <2> HIDE DEF r
  <2>2. /\ GoodQueue(r) /\ Len(r) = Len(q) /\ DOMAIN r = DOMAIN q
        /\ r[i].entries = Append(q[i].entries, t)
        /\ \A j \in DOMAIN q : j # i => r[j] = q[j]
    BY <2>1, PushAtGood
  <2>3. /\ DOMAIN q[i].entries \subseteq DOMAIN r[i].entries
        /\ \A j \in DOMAIN q[i].entries : r[i].entries[j] = q[i].entries[j]
        /\ \E j \in DOMAIN r[i].entries : r[i].entries[j] = t
    <3>1. /\ q[i].entries \in Seq(Tasks) /\ Len(q[i].entries) \in Nat
          /\ Append(q[i].entries, t) \in Seq(Tasks)
          /\ DOMAIN q[i].entries = 1 .. Len(q[i].entries)
          /\ DOMAIN Append(q[i].entries, t) = 1 .. Len(q[i].entries) + 1
          /\ \A j \in 1 .. Len(q[i].entries) : Append(q[i].entries, t)[j] = q[i].entries[j]
          /\ Append(q[i].entries, t)[Len(q[i].entries) + 1] = t
      BY <1>1, AppendProperties, LenProperties
    <3> QED
      BY <2>2, <3>1
  <2>4. t \in Queued(r)
    BY <2>2, <2>3, QueuedIff
  <2>5. ASSUME NEW x \in Queued(q) PROVE x \in Queued(r)
    <3>1. PICK j \in DOMAIN q : \E e \in DOMAIN q[j].entries : q[j].entries[e] = x
      BY QueuedIff
    <3>0. PICK e \in DOMAIN q[j].entries : q[j].entries[e] = x
      BY <3>1
    <3>2. e \in DOMAIN r[j].entries /\ r[j].entries[e] = x
      BY <2>2, <2>3, <3>0
    <3> QED
      BY <2>2, <3>2, QueuedIff
  <2>6. r # <<>>
    BY <1>1, <2>2, EmptySeq
  <2> QED
    BY <2>2, <2>4, <2>5, <2>6 DEF r
<1>3. CASE \E u \in 1 .. Len(q) + 1 : r = InsertPage(q, u, NewPage(t, p))
  <2>1. PICK u \in 1 .. Len(q) + 1 : r = InsertPage(q, u, NewPage(t, p))
    BY <1>3
  <2> HIDE DEF r
  <2>2. /\ GoodQueue(r) /\ Len(r) = Len(q) + 1
        /\ \A i \in 1 .. Len(q) + 1 :
             r[i] = IF i < u THEN q[i] ELSE IF i = u THEN NewPage(t, p) ELSE q[i - 1]
    BY <2>1, NewPageGood, InsertGood
  <2>3. DOMAIN r = 1 .. Len(q) + 1
    BY <2>2, LenProperties DEF GoodQueue
  <2>4. t \in Queued(r)
    <3>1. r[u].entries = <<t>> /\ u \in DOMAIN r
      BY <1>1, <2>2, <2>3, NewPageGood
    <3>2. 1 \in DOMAIN <<t>> /\ <<t>>[1] = t
      OBVIOUS
    <3> QED
      BY <3>1, <3>2, QueuedIff
  <2>5. ASSUME NEW x \in Queued(q) PROVE x \in Queued(r)
    <3>1. PICK j \in DOMAIN q : \E e \in DOMAIN q[j].entries : q[j].entries[e] = x
      BY QueuedIff
    <3>0. PICK e \in DOMAIN q[j].entries : q[j].entries[e] = x
      BY <3>1
    <3>2. \E i \in DOMAIN r : r[i] = q[j]
      <4>1. CASE j < u
        BY <1>1, <2>2, <2>3, <4>1
      <4>2. CASE j >= u
        <5>1. j + 1 \in DOMAIN r /\ r[j + 1] = q[(j + 1) - 1] /\ (j + 1) - 1 = j
          BY <1>1, <2>2, <2>3, <4>2
        <5> QED
          BY <5>1
      <4> QED
        BY <1>1, <4>1, <4>2
    <3> QED
      BY <3>0, <3>2, QueuedIff
  <2>6. r # <<>>
    BY <1>1, <2>2, EmptySeq
  <2> QED
    BY <2>2, <2>4, <2>5, <2>6 DEF r
<1> QED
  BY <1>2, <1>3, EnqueueShape

\* The first page gives up its first task, and the queue its page when that was
\* the last.
LEMMA PopPageGood ==
  ASSUME NEW q, GoodQueue(q), q # <<>>
  PROVE  /\ GoodQueue(PopPage(q, 1)) /\ FirstTask(q) \in Tasks
         /\ Queued(q) \subseteq Queued(PopPage(q, 1)) \cup {FirstTask(q)}
         /\ \A i \in DOMAIN q : i # 1 =>
              \A e \in DOMAIN q[i].entries : q[i].entries[e] \in Queued(PopPage(q, 1))
         /\ \A e \in DOMAIN q[1].entries : e # 1 =>
              q[1].entries[e] \in Queued(PopPage(q, 1))
<1> DEFINE r == [q EXCEPT ![1] = Pop(q[1])]
           s == q[1].entries
<1>1. /\ q \in Seq(Page) /\ Len(q) \in Nat \ {0} /\ DOMAIN q = 1 .. Len(q)
      /\ \A i \in DOMAIN q : GoodPage(q[i])
  <2>1. q \in Seq(Page) /\ Len(q) \in Nat \ {0} /\ DOMAIN q = 1 .. Len(q)
    BY LenProperties, EmptySeq DEF GoodQueue
  <2>2. \A i \in DOMAIN q : q[i] \in Page
    BY <2>1, ElementOfSeq
  <2> QED
    BY <2>1, <2>2 DEF GoodQueue, GoodPage
<1>2. 1 \in DOMAIN q /\ GoodPage(q[1]) /\ s \in Seq(Tasks) /\ s # <<>>
  BY <1>1 DEF GoodPage, Page
<1>3. /\ Head(s) \in Tasks /\ Head(s) = s[1] /\ Tail(s) \in Seq(Tasks)
      /\ Len(s) \in Nat \ {0} /\ DOMAIN s = 1 .. Len(s)
      /\ Len(Tail(s)) = Len(s) - 1 /\ DOMAIN Tail(s) = 1 .. Len(s) - 1
      /\ \A e \in 1 .. Len(s) - 1 : Tail(s)[e] = s[e + 1]
  BY <1>2, HeadTailProperties, LenProperties, EmptySeq
<1>4. /\ r \in Seq(Page) /\ Len(r) = Len(q) /\ DOMAIN r = DOMAIN q
      /\ r[1] \in Page /\ r[1].priority = q[1].priority /\ r[1].entries = Tail(s)
      /\ \A i \in DOMAIN q : i # 1 => r[i] = q[i]
  <2>1. /\ Pop(q[1]) \in Page /\ Pop(q[1]).priority = q[1].priority
        /\ Pop(q[1]).entries = Tail(s)
    BY <1>2, PopGood
  <2>2. r \in Seq(Page) /\ Len(r) = Len(q)
    BY <1>1, <1>2, <2>1, ExceptSeq
  <2> QED
    BY <1>1, <1>2, <2>1, <2>2, LenProperties
<1>5. FirstTask(q) = Head(s)
  BY DEF FirstTask
<1>6. PopPage(q, 1) = IF Tail(s) = <<>> THEN Tail(r) ELSE r
  BY <1>4 DEF PopPage, IsFinished
<1> HIDE DEF r
<1>7. CASE Tail(s) = <<>>
  <2>1. Len(s) = 1
    <3>1. Len(Tail(s)) = 0
      BY <1>3, <1>7, EmptySeq
    <3> QED
      BY <1>3, <3>1
  <2>2. r # <<>>
    BY <1>1, <1>4, EmptySeq
  <2>3. /\ Tail(r) \in Seq(Page) /\ Len(Tail(r)) = Len(q) - 1
        /\ DOMAIN Tail(r) = 1 .. Len(q) - 1
        /\ \A i \in 1 .. Len(q) - 1 : Tail(r)[i] = q[i + 1]
    <3>1. /\ Tail(r) \in Seq(Page) /\ Len(Tail(r)) = Len(q) - 1
          /\ \A i \in 1 .. Len(q) - 1 : Tail(r)[i] = r[i + 1]
      BY <1>1, <1>4, <2>2, HeadTailProperties
    <3> QED
      BY <1>1, <1>4, <3>1, LenProperties
  <2>4. GoodQueue(Tail(r))
    BY <1>1, <2>3 DEF GoodQueue, GoodPage
  <2>5. ASSUME NEW i \in DOMAIN q, i # 1, NEW e \in DOMAIN q[i].entries
        PROVE  q[i].entries[e] \in Queued(Tail(r))
    <3>1. i - 1 \in DOMAIN Tail(r) /\ Tail(r)[i - 1] = q[i]
      <4>1. i - 1 \in 1 .. Len(q) - 1 /\ (i - 1) + 1 = i
        BY <1>1, <2>5
      <4> QED
        BY <2>3, <4>1
    <3> QED
      BY <2>5, <3>1, QueuedIff
  <2>6. \A e \in DOMAIN s : e = 1
    BY <1>3, <2>1
  <2>7. Queued(q) \subseteq Queued(Tail(r)) \cup {Head(s)}
    <3> SUFFICES ASSUME NEW x \in Queued(q)
                 PROVE  x \in Queued(Tail(r)) \cup {Head(s)}
      OBVIOUS
    <3>1. PICK i \in DOMAIN q : \E e \in DOMAIN q[i].entries : q[i].entries[e] = x
      BY QueuedIff
    <3>2. CASE i = 1
      BY <1>3, <2>6, <3>1, <3>2
    <3>3. CASE i # 1
      BY <2>5, <3>1, <3>3
    <3> QED
      BY <3>2, <3>3
  <2> QED
    BY <1>3, <1>5, <1>6, <1>7, <2>4, <2>5, <2>6, <2>7
<1>8. CASE Tail(s) # <<>>
  <2>1. GoodQueue(r)
    BY <1>1, <1>2, <1>4, <1>8 DEF GoodQueue, GoodPage
  <2>2. ASSUME NEW i \in DOMAIN q, i # 1, NEW e \in DOMAIN q[i].entries
        PROVE  q[i].entries[e] \in Queued(r)
    BY <1>4, <2>2, QueuedIff
  <2>3. ASSUME NEW e \in DOMAIN s, e # 1
        PROVE  s[e] \in Queued(r)
    <3>1. e - 1 \in DOMAIN Tail(s) /\ Tail(s)[e - 1] = s[e]
      <4>1. e - 1 \in 1 .. Len(s) - 1 /\ (e - 1) + 1 = e
        BY <1>3, <2>3
      <4> QED
        BY <1>3, <4>1
    <3> QED
      BY <1>2, <1>4, <3>1, QueuedIff
  <2>4. Queued(q) \subseteq Queued(r) \cup {Head(s)}
    BY <1>3, <2>2, <2>3, QueuedIff
  <2> QED
    BY <1>3, <1>5, <1>6, <1>8, <2>1, <2>2, <2>3, <2>4
<1> QED
  BY <1>7, <1>8

\* tryToStartMoreThreads: the task at the front is put in the queue again, and
\* one of the two is taken out.
LEMMA RequeueGood ==
  ASSUME NEW q, GoodQueue(q), q # <<>>
  PROVE  LET t == FirstTask(q)
             r == PopPage(EnqueueTask(q, t, 0), FrontAfter(q, t, 0))
         IN  GoodQueue(r) /\ Queued(q) \subseteq Queued(r)
<1> DEFINE t == FirstTask(q)
           b == EnqueueTask(q, t, 0)
           s == q[1].entries
<1>1. t \in Tasks
  BY PopPageGood
<1>2. FrontAfter(q, t, 0) = 1
  BY UpperBoundPlace DEF FrontAfter
<1>3. GoodQueue(b) /\ b # <<>> /\ Queued(q) \cup {t} \subseteq Queued(b)
  BY <1>1, EnqueueGood
<1>4. /\ Len(q) \in Nat \ {0} /\ DOMAIN q = 1 .. Len(q) /\ 1 \in DOMAIN q
      /\ s \in Seq(Tasks) /\ s # <<>> /\ Len(s) \in Nat \ {0} /\ DOMAIN s = 1 .. Len(s)
  <2>1. q \in Seq(Page) /\ Len(q) \in Nat \ {0} /\ DOMAIN q = 1 .. Len(q)
    BY LenProperties, EmptySeq DEF GoodQueue
  <2>2. q[1] \in Page /\ 1 \in DOMAIN q
    BY <2>1, ElementOfSeq
  <2>3. s \in Seq(Tasks) /\ s # <<>>
    BY <2>2 DEF GoodQueue, Page
  <2> QED
    BY <2>1, <2>2, <2>3, LenProperties, EmptySeq
<1> HIDE DEF b
<1>5. FirstTask(b) = t /\ t \in Queued(PopPage(b, 1))
  <2>0. t = s[1]
    BY <1>4 DEF FirstTask
  <2>1. CASE \E i \in DOMAIN q : ~IsFull(q[i]) /\ b = [q EXCEPT ![i] = Push(q[i], t)]
    <3>1. PICK i \in DOMAIN q : ~IsFull(q[i]) /\ b = [q EXCEPT ![i] = Push(q[i], t)]
      BY <2>1
    <3> HIDE DEF t
    <3>2. /\ DOMAIN b = DOMAIN q /\ b[i].entries = Append(q[i].entries, t)
          /\ \A j \in DOMAIN q : j # i => b[j] = q[j]
      BY <1>1, <3>1, PushAtGood
    <3>3. /\ q[i].entries \in Seq(Tasks) /\ Len(q[i].entries) \in Nat \ {0}
      <4>1. q[i] \in Page
        BY ElementOfSeq, LenProperties DEF GoodQueue
      <4> QED
        BY <4>1, EmptySeq DEF GoodQueue, Page
    <3>4. /\ DOMAIN Append(q[i].entries, t) = 1 .. Len(q[i].entries) + 1
          /\ \A j \in 1 .. Len(q[i].entries) : Append(q[i].entries, t)[j] = q[i].entries[j]
          /\ Append(q[i].entries, t)[Len(q[i].entries) + 1] = t
      BY <1>1, <3>3, AppendProperties, LenProperties
    <3>5. b[1].entries[1] = t
      BY <1>4, <2>0, <3>2, <3>3, <3>4
    <3>6. FirstTask(b) = t
      BY <3>5 DEF FirstTask
    <3>7. \E e \in DOMAIN b[i].entries : b[i].entries[e] = t /\ e # 1
      BY <3>2, <3>3, <3>4
    <3>8. t \in Queued(PopPage(b, 1))
      BY <1>3, <3>2, <3>7, PopPageGood
    <3> QED
      BY <3>6, <3>8
  <2>2. CASE \E u \in 1 .. Len(q) + 1 : u # 1 /\ b = InsertPage(q, u, NewPage(t, 0))
    <3>1. PICK u \in 1 .. Len(q) + 1 : u # 1 /\ b = InsertPage(q, u, NewPage(t, 0))
      BY <2>2
    <3> HIDE DEF t
    <3>2. /\ Len(b) = Len(q) + 1
          /\ \A i \in 1 .. Len(q) + 1 :
               b[i] = IF i < u THEN q[i] ELSE IF i = u THEN NewPage(t, 0) ELSE q[i - 1]
      BY <1>1, <3>1, NewPageGood, InsertGood
    <3>3. DOMAIN b = 1 .. Len(q) + 1
      BY <1>3, <3>2, LenProperties DEF GoodQueue
    <3>4. b[1] = q[1] /\ b[u] = NewPage(t, 0) /\ u \in DOMAIN b
      BY <1>4, <3>1, <3>2, <3>3
    <3>5. FirstTask(b) = t
      BY <1>4, <2>0, <3>4 DEF FirstTask
    <3>6. b[u].entries = <<t>> /\ 1 \in DOMAIN <<t>> /\ <<t>>[1] = t
      BY <1>1, <3>4, NewPageGood
    <3>7. t \in Queued(PopPage(b, 1))
      BY <1>3, <3>1, <3>4, <3>6, PopPageGood
    <3> QED
      BY <3>5, <3>7
  <2> QED
    BY <1>1, <2>1, <2>2, EnqueueShape DEF b
<1>6. GoodQueue(PopPage(b, 1)) /\ Queued(b) \subseteq Queued(PopPage(b, 1)) \cup {FirstTask(b)}
  BY <1>3, PopPageGood
<1>7. GoodQueue(PopPage(b, 1)) /\ Queued(q) \subseteq Queued(PopPage(b, 1))
  BY <1>3, <1>5, <1>6
<1> QED
  BY <1>2, <1>7 DEF b

-----------------------------------------------------------------------------
(* Threads.                                                                *)

LEMMA BusyFinite ==
  /\ IsFiniteSet(Busy) /\ Cardinality(Busy) \in Nat
  /\ IsFiniteSet(Busy') /\ Cardinality(Busy') \in Nat
<1>1. Busy \in SUBSET Workers /\ Busy' \in SUBSET Workers
  BY DEF Busy
<1> QED
  BY <1>1, PoolAssumption, FS_Subset, FS_CardinalityType

\* A thread more, or one less, that has a task.
LEMMA BusyMore ==
  ASSUME ActiveCountExact, NEW w \in Workers, w \notin Busy,
         Busy' = Busy \cup {w}, activeThreadNum' = activeThreadNum + 1
  PROVE  ActiveCountExact'
BY BusyFinite, FS_AddElement DEF ActiveCountExact

LEMMA BusyLess ==
  ASSUME ActiveCountExact, NEW w \in Busy,
         Busy' = Busy \ {w}, activeThreadNum' = activeThreadNum - 1
  PROVE  ActiveCountExact'
BY BusyFinite, FS_RemoveElement DEF ActiveCountExact

LEMMA BusySame ==
  ASSUME ActiveCountExact, Busy' = Busy, activeThreadNum' = activeThreadNum
  PROVE  ActiveCountExact'
BY DEF ActiveCountExact

\* A thread w gets the task t.
Handed(t, w) ==
  /\ w \notin Busy
  /\ Busy' = Busy \cup {w}
  /\ task' = [task EXCEPT ![w] = t]
  /\ worker' = [worker EXCEPT ![w] = "spawned"]

LEMMA StartThreadOK ==
  ASSUME ThreadsOK, NEW t \in Tasks, StartThread(t), UNCHANGED waiter
  PROVE  ThreadsOK' /\ \E w \in Workers : Handed(t, w) /\ allThreads' = allThreads \cup {w}
<1>1. PICK w \in Workers :
        /\ worker[w] = "absent"
        /\ allThreads' = allThreads \cup {w}
        /\ activeThreadNum' = activeThreadNum + 1
        /\ task' = [task EXCEPT ![w] = t]
        /\ worker' = [worker EXCEPT ![w] = "spawned"]
        /\ UNCHANGED <<waitingThreads, expiredThreads>>
  BY DEF StartThread
<1>2. Handed(t, w)
  BY <1>1 DEF Handed, Busy, ThreadsOK, ThreadTypes
<1>3. ThreadTypes'
  BY <1>1 DEF ThreadsOK, ThreadTypes, WorkerState
<1>4. WaitingOK'
  BY <1>1 DEF ThreadsOK, ThreadTypes, WaitingOK, Distinct, Elements
<1>5. ExpiredOK'
  BY <1>1 DEF ThreadsOK, ThreadTypes, ExpiredOK, Distinct, Elements
<1>6. DroppedOK'
  BY <1>1 DEF ThreadsOK, ThreadTypes, DroppedOK
<1>7. ActiveCountExact'
  BY <1>1, <1>2, BusyMore DEF ThreadsOK, Handed
<1> QED
  BY <1>1, <1>2, <1>3, <1>4, <1>5, <1>6, <1>7 DEF ThreadsOK

LEMMA WakeWaitingThreadOK ==
  ASSUME ThreadsOK, WakeWaitingThread, UNCHANGED waiter
  PROVE  ThreadsOK' /\ Busy' = Busy /\ \E w \in Workers : Called' = Called \cup {w}
<1> DEFINE w == Head(waitingThreads)
<1>1. /\ waitingThreads # <<>>
      /\ worker' = [worker EXCEPT ![w] = IF @ = "parked" THEN "signalled" ELSE @]
      /\ waitingThreads' = Tail(waitingThreads)
      /\ UNCHANGED <<allThreads, expiredThreads, activeThreadNum, task>>
  BY DEF WakeWaitingThread
<1>2. /\ w \in Workers /\ w \in Elements(waitingThreads)
      /\ Tail(waitingThreads) \in Seq(Workers)
      /\ Elements(waitingThreads') = Elements(waitingThreads) \ {w}
      /\ Distinct(waitingThreads')
  BY <1>1, TailElements DEF ThreadsOK, ThreadTypes, WaitingOK
<1>3. w \in allThreads /\ worker[w] = "parked"
  BY <1>2 DEF ThreadsOK, WaitingOK
<1> HIDE DEF w
<1>4. worker' = [worker EXCEPT ![w] = "signalled"]
  BY <1>1, <1>2, <1>3 DEF ThreadsOK, ThreadTypes
<1>5. Busy' = Busy /\ Called' = Called \cup {w}
  BY <1>1, <1>2, <1>3, <1>4 DEF ThreadsOK, ThreadTypes, Busy, Called
<1>6. ThreadTypes'
  BY <1>1, <1>2, <1>4 DEF ThreadsOK, ThreadTypes, WorkerState
<1>7. WaitingOK'
  BY <1>1, <1>2, <1>3, <1>4 DEF ThreadsOK, ThreadTypes, WaitingOK
<1>8. ExpiredOK'
  BY <1>1, <1>2, <1>3, <1>4 DEF ThreadsOK, ThreadTypes, ExpiredOK, Distinct, Elements
<1>9. DroppedOK'
  BY <1>1, <1>2, <1>3, <1>4 DEF ThreadsOK, ThreadTypes, DroppedOK
<1>10. ActiveCountExact'
  BY <1>1, <1>5, BusySame DEF ThreadsOK
<1> QED
  BY <1>2, <1>5, <1>6, <1>7, <1>8, <1>9, <1>10 DEF ThreadsOK

LEMMA RestartExpiredThreadOK ==
  ASSUME ThreadsOK, NEW t \in Tasks, RestartExpiredThread(t), UNCHANGED waiter
  PROVE  ThreadsOK' /\ \E w \in allThreads : Handed(t, w) /\ allThreads' = allThreads
<1> DEFINE w == Head(expiredThreads)
<1>1. /\ expiredThreads # <<>>
      /\ expiredThreads' = Tail(expiredThreads)
      /\ activeThreadNum' = activeThreadNum + 1
      /\ task' = [task EXCEPT ![w] = t]
      /\ worker' = [worker EXCEPT ![w] = "spawned"]
      /\ UNCHANGED <<allThreads, waitingThreads>>
  BY DEF RestartExpiredThread
<1>2. /\ w \in Workers /\ w \in Elements(expiredThreads)
      /\ Tail(expiredThreads) \in Seq(Workers)
      /\ Elements(expiredThreads') = Elements(expiredThreads) \ {w}
      /\ Distinct(expiredThreads')
  BY <1>1, TailElements DEF ThreadsOK, ThreadTypes, ExpiredOK
<1>3. w \in allThreads /\ worker[w] = "finished"
  BY <1>2 DEF ThreadsOK, ExpiredOK
<1> HIDE DEF w
<1>4. Handed(t, w)
  BY <1>1, <1>2, <1>3 DEF Handed, Busy, ThreadsOK, ThreadTypes
<1>5. ThreadTypes'
  BY <1>1, <1>2 DEF ThreadsOK, ThreadTypes, WorkerState
<1>6. WaitingOK'
  BY <1>1, <1>2, <1>3 DEF ThreadsOK, ThreadTypes, WaitingOK, Distinct, Elements
<1>7. ExpiredOK'
  BY <1>1, <1>2, <1>3 DEF ThreadsOK, ThreadTypes, ExpiredOK
<1>8. DroppedOK'
  BY <1>1, <1>2, <1>3 DEF ThreadsOK, ThreadTypes, DroppedOK
<1>9. ActiveCountExact'
  BY <1>1, <1>2, <1>4, BusyMore DEF ThreadsOK, Handed
<1> QED
  BY <1>1, <1>3, <1>4, <1>5, <1>6, <1>7, <1>8, <1>9 DEF ThreadsOK

\* tryStart hands the task to a thread, or wakes one that will look for it.
LEMMA TryStartOK ==
  ASSUME ThreadsOK, NEW t \in Tasks, NEW handed, NEW parked,
         TryStart(t, handed, parked), UNCHANGED waiter
  PROVE  /\ ThreadsOK'
         /\ \/ /\ queue' = handed
               /\ \E w \in Workers : Handed(t, w) /\ allThreads' = allThreads \cup {w}
            \/ /\ queue' = parked
               /\ UNCHANGED <<allThreads, task>>
               /\ Busy' = Busy /\ \E w \in Workers : Called' = Called \cup {w}
<1>1. CASE StartThread(t) /\ queue' = handed
  BY <1>1, StartThreadOK
<1>2. CASE WakeWaitingThread /\ queue' = parked
  <2>1. UNCHANGED <<allThreads, task>>
    BY <1>2 DEF WakeWaitingThread
  <2> QED
    BY <1>2, <2>1, WakeWaitingThreadOK
<1>3. CASE RestartExpiredThread(t) /\ queue' = handed
  <2>1. ThreadsOK' /\ \E w \in allThreads : Handed(t, w) /\ allThreads' = allThreads
    BY <1>3, RestartExpiredThreadOK
  <2>2. allThreads \subseteq Workers
    BY DEF ThreadsOK, ThreadTypes
  <2> QED
    BY <1>3, <2>1, <2>2
<1> QED
  BY <1>1, <1>2, <1>3 DEF TryStart

\* A thread that is back from its task, or was called, takes a task.
LEMMA TakeOK ==
  ASSUME ThreadsOK, GoodQueue(queue), queue # <<>>, NEW w \in Workers,
         \/ worker[w] = "running" /\ activeThreadNum' = activeThreadNum
         \/ worker[w] = "signalled" /\ activeThreadNum' = activeThreadNum + 1,
         task' = [task EXCEPT ![w] = FirstTask(queue)],
         worker' = [worker EXCEPT ![w] = "running"],
         UNCHANGED <<lists, waiter>>
  PROVE  ThreadsOK' /\ Busy' = Busy \cup {w}
<1>1. FirstTask(queue) \in Tasks
  BY PopPageGood
<1>2. UNCHANGED <<allThreads, waitingThreads, expiredThreads>>
  BY DEF lists
<1>3. ThreadTypes'
  BY <1>1, <1>2 DEF ThreadsOK, ThreadTypes, WorkerState
<1>4. WaitingOK'
  BY <1>2 DEF ThreadsOK, ThreadTypes, WaitingOK, Elements, Distinct
<1>5. ExpiredOK'
  BY <1>2 DEF ThreadsOK, ThreadTypes, ExpiredOK, Elements, Distinct
<1>6. DroppedOK'
  BY <1>2 DEF ThreadsOK, ThreadTypes, DroppedOK
<1>7. Busy' = Busy \cup {w}
  BY DEF Busy, ThreadsOK, ThreadTypes
<1>8. ActiveCountExact'
  <2>1. CASE worker[w] = "running" /\ activeThreadNum' = activeThreadNum
    <3>1. Busy' = Busy
      BY <1>7, <2>1 DEF Busy
    <3> QED
      BY <2>1, <3>1, BusySame DEF ThreadsOK
  <2>2. CASE worker[w] = "signalled" /\ activeThreadNum' = activeThreadNum + 1
    <3>1. w \notin Busy
      BY <2>2 DEF Busy
    <3> QED
      BY <1>7, <2>2, <3>1, BusyMore DEF ThreadsOK
  <2> QED
    BY <2>1, <2>2
<1> QED
  BY <1>3, <1>4, <1>5, <1>6, <1>7, <1>8 DEF ThreadsOK

\* ... or goes to rest.
LEMMA RestOK ==
  ASSUME ThreadsOK, NEW w \in Workers,
         \/ worker[w] = "running" /\ activeThreadNum' = activeThreadNum - 1
         \/ worker[w] = "signalled" /\ activeThreadNum' = activeThreadNum,
         NEW pc \in {"parked", "finished"},
         task' = [task EXCEPT ![w] = NoTask],
         worker' = [worker EXCEPT ![w] = pc],
         expiredThreads' = IF w \in allThreads /\ pc = "finished"
                           THEN Append(expiredThreads, w) ELSE expiredThreads,
         waitingThreads' = IF w \in allThreads /\ pc = "parked"
                           THEN Append(waitingThreads, w) ELSE waitingThreads,
         w \notin allThreads => pc = "finished",
         UNCHANGED <<allThreads, waiter>>
  PROVE  ThreadsOK' /\ Busy' = Busy \ {w}
<1>1. /\ Append(waitingThreads, w) \in Seq(Workers)
      /\ Elements(Append(waitingThreads, w)) = Elements(waitingThreads) \cup {w}
      /\ w \notin Elements(waitingThreads)
      /\ Distinct(Append(waitingThreads, w))
  BY AppendElements DEF ThreadsOK, ThreadTypes, WaitingOK
<1>2. /\ Append(expiredThreads, w) \in Seq(Workers)
      /\ Elements(Append(expiredThreads, w)) = Elements(expiredThreads) \cup {w}
      /\ w \notin Elements(expiredThreads)
      /\ Distinct(Append(expiredThreads, w))
  BY AppendElements DEF ThreadsOK, ThreadTypes, ExpiredOK
<1>3. ThreadTypes'
  BY <1>1, <1>2 DEF ThreadsOK, ThreadTypes, WorkerState
<1>4. Busy' = Busy \ {w}
  BY DEF Busy, ThreadsOK, ThreadTypes
<1>5. DroppedOK'
  BY DEF ThreadsOK, ThreadTypes, DroppedOK
<1>6. WaitingOK'
  <2>1. CASE w \in allThreads /\ pc = "parked"
    BY <1>1, <2>1 DEF ThreadsOK, ThreadTypes, WaitingOK
  <2>2. CASE ~(w \in allThreads /\ pc = "parked")
    <3>1. waitingThreads' = waitingThreads /\ (w \in allThreads => pc = "finished")
      BY <2>2
    <3> QED
      BY <1>1, <3>1 DEF ThreadsOK, ThreadTypes, WaitingOK
  <2> QED
    BY <2>1, <2>2
<1>7. ExpiredOK'
  <2>1. CASE w \in allThreads /\ pc = "finished"
    BY <1>2, <2>1 DEF ThreadsOK, ThreadTypes, ExpiredOK
  <2>2. CASE ~(w \in allThreads /\ pc = "finished")
    <3>1. expiredThreads' = expiredThreads /\ (w \in allThreads => pc = "parked")
      BY <2>2
    <3> QED
      BY <1>2, <3>1 DEF ThreadsOK, ThreadTypes, ExpiredOK
  <2> QED
    BY <2>1, <2>2
<1>8. ActiveCountExact'
  <2>1. CASE worker[w] = "running" /\ activeThreadNum' = activeThreadNum - 1
    <3>1. w \in Busy
      BY <2>1 DEF Busy
    <3> QED
      BY <1>4, <2>1, <3>1, BusyLess DEF ThreadsOK
  <2>2. CASE worker[w] = "signalled" /\ activeThreadNum' = activeThreadNum
    <3>1. Busy' = Busy
      BY <1>4, <2>2 DEF Busy
    <3> QED
      BY <2>2, <3>1, BusySame DEF ThreadsOK
  <2> QED
    BY <2>1, <2>2
<1> QED
  BY <1>3, <1>4, <1>5, <1>6, <1>7, <1>8 DEF ThreadsOK

LEMMA TakeOrRestOK ==
  ASSUME ThreadsOK, GoodQueue(queue), NEW w \in Workers, NEW active \in Int,
         \/ worker[w] = "running" /\ active = activeThreadNum
         \/ worker[w] = "signalled" /\ active = activeThreadNum + 1,
         TakeOrRest(w, active), UNCHANGED waiter
  PROVE  /\ ThreadsOK' /\ GoodQueue(queue')
         /\ \E x : task' = [task EXCEPT ![w] = x]
         /\ allThreads' = allThreads
         /\ \/ /\ Busy' = Busy \cup {w}
               /\ Queued(queue) \subseteq Queued(queue') \cup {task'[w]}
            \/ /\ Busy' = Busy \ {w} /\ queue' = queue
               /\ IsTooManyThreadsActive \/ queue = <<>>
<1>0. task \in [Workers -> Tasks \cup {NoTask}] /\ activeThreadNum \in Int
  BY BusyFinite DEF ThreadsOK, ThreadTypes, ActiveCountExact
<1>1. CASE /\ queue # <<>>
           /\ task' = [task EXCEPT ![w] = FirstTask(queue)]
           /\ queue' = PopPage(queue, 1)
           /\ worker' = [worker EXCEPT ![w] = "running"]
           /\ activeThreadNum' = active
           /\ UNCHANGED lists
  <2>1. ThreadsOK' /\ Busy' = Busy \cup {w}
    BY <1>1, TakeOK
  <2>2. GoodQueue(queue') /\ Queued(queue) \subseteq Queued(queue') \cup {task'[w]}
    BY <1>0, <1>1, PopPageGood
  <2> QED
    BY <1>1, <2>1, <2>2 DEF lists
<1>2. CASE /\ IsTooManyThreadsActive \/ queue = <<>>
           /\ task' = [task EXCEPT ![w] = NoTask]
           /\ activeThreadNum' = active - 1
           /\ worker' = [worker EXCEPT ![w] =
                 IF w \notin allThreads \/ IsTooManyThreadsActive THEN "finished" ELSE "parked"]
           /\ expiredThreads' = IF ~(w \notin allThreads) /\ IsTooManyThreadsActive
                                THEN Append(expiredThreads, w) ELSE expiredThreads
           /\ waitingThreads' = IF ~(w \notin allThreads) /\ ~IsTooManyThreadsActive
                                THEN Append(waitingThreads, w) ELSE waitingThreads
           /\ UNCHANGED <<allThreads, queue>>
  <2> DEFINE pc == IF w \notin allThreads \/ IsTooManyThreadsActive THEN "finished" ELSE "parked"
  <2>1. /\ pc \in {"parked", "finished"}
        /\ w \notin allThreads => pc = "finished"
        /\ worker' = [worker EXCEPT ![w] = pc]
        /\ expiredThreads' = IF w \in allThreads /\ pc = "finished"
                             THEN Append(expiredThreads, w) ELSE expiredThreads
        /\ waitingThreads' = IF w \in allThreads /\ pc = "parked"
                             THEN Append(waitingThreads, w) ELSE waitingThreads
    BY <1>2
  <2>2. \/ worker[w] = "running" /\ activeThreadNum' = activeThreadNum - 1
        \/ worker[w] = "signalled" /\ activeThreadNum' = activeThreadNum
    BY <1>0, <1>2
  <2> HIDE DEF pc
  <2>3. ThreadsOK' /\ Busy' = Busy \ {w}
    BY <1>2, <2>1, <2>2, RestOK
  <2> QED
    BY <1>2, <2>3
<1> QED
  BY <1>1, <1>2 DEF TakeOrRest

\* A waiting thread whose time is up.
LEMMA ExpireOK ==
  ASSUME ThreadsOK, NEW w \in allThreads, w \in Elements(waitingThreads),
         waitingThreads' = Without(waitingThreads, w),
         expiredThreads' = Append(expiredThreads, w),
         worker' = [worker EXCEPT ![w] = "finished"],
         UNCHANGED <<activeThreadNum, allThreads, task, waiter>>
  PROVE  ThreadsOK' /\ Busy' = Busy
<1>1. w \in Workers /\ worker[w] = "parked"
  BY DEF ThreadsOK, ThreadTypes, WaitingOK
<1>2. /\ waitingThreads' \in Seq(Workers)
      /\ Elements(waitingThreads') = Elements(waitingThreads) \ {w}
      /\ Distinct(waitingThreads')
  BY WithoutElements DEF ThreadsOK, ThreadTypes, WaitingOK
<1>3. /\ expiredThreads' \in Seq(Workers)
      /\ Elements(expiredThreads') = Elements(expiredThreads) \cup {w}
      /\ Distinct(expiredThreads')
  BY <1>1, AppendElements DEF ThreadsOK, ThreadTypes, ExpiredOK
<1>4. ThreadTypes'
  BY <1>1, <1>2, <1>3 DEF ThreadsOK, ThreadTypes, WorkerState
<1>5. WaitingOK'
  BY <1>1, <1>2 DEF ThreadsOK, ThreadTypes, WaitingOK
<1>6. ExpiredOK'
  BY <1>1, <1>3 DEF ThreadsOK, ThreadTypes, ExpiredOK
<1>7. DroppedOK'
  BY <1>1 DEF ThreadsOK, ThreadTypes, DroppedOK
<1>8. Busy' = Busy
  BY <1>1 DEF Busy, ThreadsOK, ThreadTypes
<1>9. ActiveCountExact'
  BY <1>8, BusySame DEF ThreadsOK
<1> QED
  BY <1>4, <1>5, <1>6, <1>7, <1>8, <1>9 DEF ThreadsOK

\* A thread outside the pool that ends, and one that begins to run its task or is
\* woken outside of it: nothing that is counted changes.
LEMMA StepOK ==
  ASSUME ThreadsOK, NEW w \in Workers, NEW pc \in WorkerState,
         \/ worker[w] = "spawned" /\ pc = "running"
         \/ w \notin allThreads /\ worker[w] \in {"parked", "signalled"}
              /\ pc \in {"signalled", "finished"},
         worker' = [worker EXCEPT ![w] = pc],
         UNCHANGED <<activeThreadNum, lists, task>>,
         \A c \in Waiters : waiter'[c].copy \subseteq waiter[c].copy
  PROVE  ThreadsOK' /\ Busy' = Busy
<1>1. UNCHANGED <<allThreads, waitingThreads, expiredThreads>>
  BY DEF lists
<1>2. ThreadTypes'
  BY <1>1 DEF ThreadsOK, ThreadTypes
<1>3. WaitingOK'
  BY <1>1 DEF ThreadsOK, ThreadTypes, WaitingOK, Elements, Distinct
<1>4. ExpiredOK'
  BY <1>1 DEF ThreadsOK, ThreadTypes, ExpiredOK, Elements, Distinct
<1>5. DroppedOK'
  BY <1>1 DEF ThreadsOK, ThreadTypes, DroppedOK
<1>6. Busy' = Busy
  BY DEF Busy, ThreadsOK, ThreadTypes
<1>7. ActiveCountExact'
  BY <1>6, BusySame DEF ThreadsOK
<1> QED
  BY <1>2, <1>3, <1>4, <1>5, <1>6, <1>7 DEF ThreadsOK

-----------------------------------------------------------------------------
(* The steps.                                                              *)

LEMMA InitIInv ==
  Init => IInv
<1> SUFFICES ASSUME Init PROVE IInv
  OBVIOUS
<1>1. OtherTypes
  <2>1. NoCall \in Waiter
    BY DEF NoCall, Waiter
  <2>2. 0 \in 0 .. MaxReserved
    BY PoolAssumption
  <2> QED
    BY <2>1, <2>2 DEF Init, OtherTypes
<1>2. GoodQueue(queue)
  BY DEF Init, GoodQueue
<1>3. Busy = {} /\ Elements(<<>>) = {}
  BY DEF Init, Busy, Elements
<1>4. ThreadTypes
  BY DEF Init, ThreadTypes, WorkerState
<1>5. WaitingOK /\ ExpiredOK /\ DroppedOK
  BY <1>3 DEF Init, WaitingOK, ExpiredOK, DroppedOK, Distinct, NoCall
<1>6. ActiveCountExact
  BY <1>3, FS_EmptySet DEF Init, ActiveCountExact
<1>7. PlacedOK /\ OwedOK
  BY DEF Init, PlacedOK, OwedOK, NoCall
<1> QED
  BY <1>1, <1>2, <1>4, <1>5, <1>6, <1>7 DEF IInv, ThreadsOK

\* What is owed to a call that goes on stays accepted, and settled once it is.
LEMMA OwedKept ==
  ASSUME IInv, UNCHANGED waiter,
         \A t \in Tasks : /\ status[t] # "fresh" => status'[t] # "fresh"
                          /\ status[t] \in {"done", "cleared"} =>
                               status'[t] \in {"done", "cleared"}
  PROVE  OwedOK'
<1>1. \A c \in Waiters : waiter[c].owed \subseteq Tasks
  BY DEF IInv, OtherTypes, Waiter
<1> QED
  BY <1>1 DEF IInv, OwedOK

\* The task of a client is with a thread, or in the queue.
LEMMA AcceptIInv ==
  ASSUME IInv, NEW t \in Tasks, Accept(t), ThreadsOK', GoodQueue(queue'),
         Queued(queue) \subseteq Queued(queue'),
         \/ t \in Queued(queue') /\ Busy' = Busy /\ task' = task
         \/ \E w \in Workers : Handed(t, w)
  PROVE  IInv'
<1>1. /\ status' = [status EXCEPT ![t] = "pending"] /\ status[t] = "fresh"
      /\ UNCHANGED <<maxThreadCount, reservedThreadNum, starting, waiter>>
  BY DEF Accept, settings
<1>2. OtherTypes'
  BY <1>1 DEF IInv, OtherTypes
<1>3. OwedOK'
  BY <1>1, OwedKept DEF IInv, OtherTypes
<1>4. PlacedOK'
  <2> SUFFICES ASSUME NEW x \in Tasks, status'[x] = "pending",
                      x \notin Queued(queue')
               PROVE  \E v \in Busy' : task'[v] = x
    BY DEF PlacedOK
  <2>1. CASE t \in Queued(queue') /\ Busy' = Busy /\ task' = task
    BY <1>1, <2>1 DEF IInv, PlacedOK, OtherTypes
  <2>2. CASE \E w \in Workers : Handed(t, w)
    <3>1. PICK w \in Workers : Handed(t, w)
      BY <2>2
    <3>2. task'[w] = t /\ \A v \in Busy : v \in Busy' /\ task'[v] = task[v]
      BY <3>1 DEF Handed, Busy, IInv, ThreadsOK, ThreadTypes
    <3>3. w \in Busy'
      BY <3>1 DEF Handed
    <3> QED
      BY <1>1, <3>2, <3>3 DEF IInv, PlacedOK, OtherTypes
  <2> QED
    BY <2>1, <2>2
<1> QED
  BY <1>2, <1>3, <1>4 DEF IInv

LEMMA StartIInv ==
  ASSUME IInv, NEW t \in Tasks, NEW p \in Nat, Start(t, p)
  PROVE  IInv'
<1>1. Accept(t) /\ UNCHANGED waiter
  BY DEF Start, Accept
<1>2. CASE TryStart(t, queue, EnqueueTask(queue, t, 0))
  BY <1>1, <1>2, TryStartOK, EnqueueGood, AcceptIInv DEF IInv
<1>3. CASE queue' = EnqueueTask(queue, t, p) /\ UNCHANGED <<activeThreadNum, lists, worker, task>>
  <2>1. UNCHANGED <<activeThreadNum, allThreads, waitingThreads, expiredThreads, worker, task>>
    BY <1>3 DEF lists
  <2>2. Busy' = Busy
    BY <2>1 DEF Busy
  <2>3. ThreadsOK'
    BY <1>1, <2>1, <2>2 DEF IInv, ThreadsOK, ThreadTypes, WaitingOK, ExpiredOK, DroppedOK,
                            ActiveCountExact, Elements, Distinct
  <2> QED
    BY <1>1, <1>3, <2>1, <2>2, <2>3, EnqueueGood, AcceptIInv DEF IInv
<1> QED
  BY <1>2, <1>3 DEF Start

LEMMA TryStartTaskIInv ==
  ASSUME IInv, NEW t \in Tasks, TryStartTask(t)
  PROVE  IInv'
<1>1. Accept(t) /\ UNCHANGED waiter /\ TryStart(t, queue, EnqueueTask(queue, t, 0))
  BY DEF TryStartTask, Accept
<1> QED
  BY <1>1, TryStartOK, EnqueueGood, AcceptIInv DEF IInv

\* A step that leaves threads, queue, tasks and calls alone.
LEMMA SettingIInv ==
  ASSUME IInv, UNCHANGED <<activeThreadNum, lists, queue, worker, task, status, waiter>>,
         maxThreadCount' \in ThreadLimits, reservedThreadNum' \in 0 .. MaxReserved,
         starting' \in BOOLEAN
  PROVE  IInv'
<1>1. UNCHANGED <<allThreads, waitingThreads, expiredThreads>>
  BY DEF lists
<1>2. Busy' = Busy
  BY DEF Busy
<1>3. ThreadsOK'
  BY <1>1, <1>2 DEF IInv, ThreadsOK, ThreadTypes, WaitingOK, ExpiredOK, DroppedOK,
                    ActiveCountExact, Elements, Distinct
<1>4. OtherTypes'
  BY DEF IInv, OtherTypes
<1>5. PlacedOK' /\ OwedOK'
  BY <1>2 DEF IInv, PlacedOK, OwedOK
<1> QED
  BY <1>3, <1>4, <1>5 DEF IInv

LEMMA SetMaxThreadCountIInv ==
  ASSUME IInv, NEW n \in ThreadLimits, SetMaxThreadCount(n)
  PROVE  IInv'
BY SettingIInv DEF SetMaxThreadCount, IInv, OtherTypes

LEMMA ReserveThreadIInv ==
  ASSUME IInv, ReserveThread
  PROVE  IInv'
<1>1. reservedThreadNum' \in 0 .. MaxReserved
  BY PoolAssumption DEF ReserveThread, IInv, OtherTypes
<1> QED
  BY <1>1, SettingIInv DEF ReserveThread, IInv, OtherTypes

LEMMA ReleaseThreadIInv ==
  ASSUME IInv, ReleaseThread
  PROVE  IInv'
<1>1. reservedThreadNum' \in 0 .. MaxReserved
  BY PoolAssumption DEF ReleaseThread, IInv, OtherTypes
<1> QED
  BY <1>1, SettingIInv DEF ReleaseThread, IInv, OtherTypes

LEMMA StartMoreIInv ==
  ASSUME IInv, StartMore
  PROVE  IInv'
<1>1. CASE /\ starting' = FALSE
           /\ UNCHANGED <<activeThreadNum, lists, queue, worker, task>>
           /\ UNCHANGED <<settings, status, waiter>>
  BY <1>1, SettingIInv DEF settings, IInv, OtherTypes
<1>2. CASE /\ queue # <<>>
           /\ TryStart(FirstTask(queue), PopPage(queue, 1),
                       PopPage(EnqueueTask(queue, FirstTask(queue), 0),
                               FrontAfter(queue, FirstTask(queue), 0)))
           /\ UNCHANGED <<starting, settings, status, waiter>>
  <2> DEFINE t == FirstTask(queue)
             requeued == PopPage(EnqueueTask(queue, t, 0), FrontAfter(queue, t, 0))
  <2>1. /\ t \in Tasks /\ GoodQueue(PopPage(queue, 1))
        /\ Queued(queue) \subseteq Queued(PopPage(queue, 1)) \cup {t}
    BY <1>2, PopPageGood DEF IInv
  <2>2. GoodQueue(requeued) /\ Queued(queue) \subseteq Queued(requeued)
    BY <1>2, RequeueGood DEF IInv
  <2> HIDE DEF t, requeued
  <2>3. TryStart(t, PopPage(queue, 1), requeued) /\ UNCHANGED waiter
    BY <1>2 DEF t, requeued
  <2>4. /\ ThreadsOK'
        /\ \/ /\ queue' = PopPage(queue, 1)
              /\ \E w \in Workers : Handed(t, w) /\ allThreads' = allThreads \cup {w}
           \/ /\ queue' = requeued
              /\ UNCHANGED <<allThreads, task>>
              /\ Busy' = Busy /\ \E w \in Workers : Called' = Called \cup {w}
    BY <2>1, <2>3, TryStartOK DEF IInv
  <2>5. GoodQueue(queue')
    BY <2>1, <2>2, <2>4
  <2>6. OtherTypes' /\ OwedOK'
    BY <1>2 DEF IInv, OtherTypes, OwedOK, settings
  <2>7. PlacedOK'
    <3>1. CASE queue' = PopPage(queue, 1) /\ \E w \in Workers : Handed(t, w)
      <4>1. PICK w \in Workers : Handed(t, w)
        BY <3>1
      <4>2. task'[w] = t /\ \A v \in Busy : v \in Busy' /\ task'[v] = task[v]
        BY <4>1 DEF Handed, Busy, IInv, ThreadsOK, ThreadTypes
      <4>3. w \in Busy'
        BY <4>1 DEF Handed
      <4> QED
        BY <1>2, <2>1, <3>1, <4>2, <4>3 DEF IInv, PlacedOK
    <3>2. CASE queue' = requeued /\ Busy' = Busy /\ task' = task
      BY <1>2, <2>2, <3>2 DEF IInv, PlacedOK
    <3> QED
      BY <2>4, <3>1, <3>2
  <2> QED
    BY <2>4, <2>5, <2>6, <2>7 DEF IInv
<1> QED
  BY <1>1, <1>2 DEF StartMore

LEMMA ClearIInv ==
  ASSUME IInv, Clear
  PROVE  IInv'
<1>1. UNCHANGED <<maxThreadCount, reservedThreadNum, activeThreadNum, allThreads, waitingThreads,
                  expiredThreads, starting, worker, task, waiter>>
  BY DEF Clear, settings, lists
<1>2. /\ status' = [t \in Tasks |-> IF t \in Queued(queue) THEN "cleared" ELSE status[t]]
      /\ queue' = <<>>
  BY DEF Clear
<1>3. Busy' = Busy
  BY <1>1 DEF Busy
<1>4. ThreadsOK'
  BY <1>1, <1>3 DEF IInv, ThreadsOK, ThreadTypes, WaitingOK, ExpiredOK, DroppedOK,
                    ActiveCountExact, Elements, Distinct
<1>5. GoodQueue(queue')
  BY <1>2 DEF GoodQueue
<1>6. OtherTypes'
  BY <1>1, <1>2 DEF IInv, OtherTypes
<1>7. OwedOK'
  BY <1>1, <1>2, OwedKept
<1>8. PlacedOK'
  BY <1>1, <1>2, <1>3 DEF IInv, PlacedOK
<1> QED
  BY <1>4, <1>5, <1>6, <1>7, <1>8 DEF IInv

LEMMA BeginRunIInv ==
  ASSUME IInv, NEW w \in Workers, BeginRun(w)
  PROVE  IInv'
<1>1. /\ worker[w] = "spawned" /\ worker' = [worker EXCEPT ![w] = "running"]
      /\ UNCHANGED <<maxThreadCount, reservedThreadNum, activeThreadNum, lists, queue, starting,
                     task, status, waiter>>
  BY DEF BeginRun, settings
<1>2. ThreadsOK' /\ Busy' = Busy
  BY <1>1, StepOK DEF IInv, WorkerState
<1>3. OtherTypes' /\ OwedOK' /\ PlacedOK'
  BY <1>1, <1>2 DEF IInv, OtherTypes, OwedOK, PlacedOK
<1> QED
  BY <1>1, <1>2, <1>3 DEF IInv

LEMMA FinishTaskIInv ==
  ASSUME IInv, NEW w \in Workers, FinishTask(w)
  PROVE  IInv'
<1>1. /\ worker[w] = "running"
      /\ status' = [status EXCEPT ![task[w]] = "done"]
      /\ TakeOrRest(w, activeThreadNum)
      /\ UNCHANGED <<maxThreadCount, reservedThreadNum, starting, waiter>>
  BY DEF FinishTask, settings
<1>2. /\ ThreadsOK' /\ GoodQueue(queue')
      /\ \E x : task' = [task EXCEPT ![w] = x]
      /\ \/ /\ Busy' = Busy \cup {w}
            /\ Queued(queue) \subseteq Queued(queue') \cup {task'[w]}
         \/ Busy' = Busy \ {w} /\ queue' = queue
  <2>1. activeThreadNum \in Int
    BY BusyFinite DEF IInv, ThreadsOK, ActiveCountExact
  <2> QED
    BY <1>1, <2>1, TakeOrRestOK DEF IInv
<1>3. OtherTypes'
  BY <1>1 DEF IInv, OtherTypes
<1>4. OwedOK'
  BY <1>1, OwedKept DEF IInv, OtherTypes
<1>5. PlacedOK'
  <2> SUFFICES ASSUME NEW t \in Tasks, status'[t] = "pending", t \notin Queued(queue')
               PROVE  \E v \in Busy' : task'[v] = t
    BY DEF PlacedOK
  <2>1. status[t] = "pending" /\ task[w] # t
    BY <1>1 DEF IInv, OtherTypes
  <2>2. \A v \in Workers : v # w => task'[v] = task[v]
    BY <1>2 DEF IInv, ThreadsOK, ThreadTypes
  <2>3. CASE t \in Queued(queue)
    BY <1>2, <2>3
  <2>4. CASE t \notin Queued(queue)
    <3>1. PICK v \in Busy : task[v] = t
      BY <2>1, <2>4 DEF IInv, PlacedOK
    <3>2. v # w /\ v \in Workers /\ v \in Busy'
      BY <1>2, <2>1, <3>1 DEF Busy
    <3> QED
      BY <2>2, <3>1, <3>2
  <2> QED
    BY <2>3, <2>4
<1> QED
  BY <1>2, <1>3, <1>4, <1>5 DEF IInv

LEMMA WakeUpIInv ==
  ASSUME IInv, NEW w \in Workers, WakeUp(w)
  PROVE  IInv'
<1>1. /\ worker[w] \in {"parked", "signalled"}
      /\ UNCHANGED <<maxThreadCount, reservedThreadNum, starting, status, waiter>>
  BY DEF WakeUp, settings
<1>2. w \notin Busy
  BY <1>1 DEF Busy
<1>3. OtherTypes' /\ OwedOK'
  BY <1>1 DEF IInv, OtherTypes, OwedOK
<1>4. CASE /\ w \notin allThreads
           /\ worker' = [worker EXCEPT ![w] = "finished"]
           /\ UNCHANGED <<activeThreadNum, lists, queue, task>>
  <2>1. ThreadsOK' /\ Busy' = Busy
    BY <1>1, <1>4, StepOK DEF IInv, WorkerState
  <2> QED
    BY <1>1, <1>3, <1>4, <2>1 DEF IInv, PlacedOK
<1>5. CASE /\ w \in allThreads
           /\ w \in Elements(waitingThreads)
           /\ waitingThreads' = Without(waitingThreads, w)
           /\ expiredThreads' = Append(expiredThreads, w)
           /\ worker' = [worker EXCEPT ![w] = "finished"]
           /\ UNCHANGED <<activeThreadNum, allThreads, queue, task>>
  <2>1. ThreadsOK' /\ Busy' = Busy
    BY <1>1, <1>5, ExpireOK DEF IInv
  <2> QED
    BY <1>1, <1>3, <1>5, <2>1 DEF IInv, PlacedOK
<1>6. CASE /\ w \in allThreads
           /\ w \notin Elements(waitingThreads)
           /\ TakeOrRest(w, activeThreadNum + 1)
  <2>1. worker[w] = "signalled"
    BY <1>1, <1>6 DEF IInv, ThreadsOK, WaitingOK
  <2>2. activeThreadNum + 1 \in Int
    BY BusyFinite DEF IInv, ThreadsOK, ActiveCountExact
  <2>3. /\ ThreadsOK' /\ GoodQueue(queue')
        /\ \E x : task' = [task EXCEPT ![w] = x]
        /\ \/ /\ Busy' = Busy \cup {w}
              /\ Queued(queue) \subseteq Queued(queue') \cup {task'[w]}
           \/ Busy' = Busy \ {w} /\ queue' = queue
    BY <1>1, <1>6, <2>1, <2>2, TakeOrRestOK DEF IInv
  <2>4. \A v \in Busy : v \in Busy' /\ task'[v] = task[v]
    BY <1>2, <2>3 DEF IInv, ThreadsOK, ThreadTypes, Busy
  <2>5. PlacedOK'
    BY <1>1, <2>3, <2>4 DEF IInv, PlacedOK
  <2> QED
    BY <1>3, <2>3, <2>5 DEF IInv
<1> QED
  BY <1>4, <1>5, <1>6 DEF WakeUp, Elements

\* Nothing pending: every accepted task is settled.
LEMMA NothingPending ==
  ASSUME IInv, ~Pending
  PROVE  Busy = {} /\ \A t \in Tasks : status[t] # "pending"
<1>1. Busy = {}
  BY BusyFinite, FS_EmptySet DEF Pending, IInv, ThreadsOK, ActiveCountExact
<1>2. queue = <<>> /\ Queued(queue) = {}
  BY QueuedIff DEF Pending
<1> QED
  BY <1>1, <1>2 DEF IInv, PlacedOK

\* reset() drops all threads; what is owed to the call is settled.
LEMMA ResetIInv ==
  ASSUME IInv, NEW c \in Waiters, Reset(c),
         \A t \in waiter[c].owed : status[t] \in {"done", "cleared"}
  PROVE  IInv'
<1>1. /\ waiter' = [waiter EXCEPT ![c].pc = "joining", ![c].copy = allThreads]
      /\ allThreads' = {} /\ waitingThreads' = <<>> /\ expiredThreads' = <<>>
      /\ UNCHANGED <<maxThreadCount, reservedThreadNum, activeThreadNum, queue, starting, worker,
                     task, status>>
  BY DEF Reset, settings
<1>2. allThreads \subseteq Workers /\ waiter \in [Waiters -> Waiter]
  BY DEF IInv, ThreadsOK, ThreadTypes, OtherTypes
<1>3. /\ waiter' \in [Waiters -> Waiter]
      /\ waiter'[c].pc = "joining" /\ waiter'[c].copy = allThreads
      /\ waiter'[c].owed = waiter[c].owed
      /\ \A d \in Waiters : d # c => waiter'[d] = waiter[d]
  <2>1. waiter[c] \in Waiter
    BY <1>2
  <2>2. [waiter[c] EXCEPT !.pc = "joining", !.copy = allThreads] \in Waiter
    BY <1>2, <2>1 DEF Waiter
  <2> QED
    BY <1>1, <1>2, <2>1, <2>2 DEF Waiter
<1>4. OtherTypes'
  BY <1>1, <1>3 DEF IInv, OtherTypes
<1>5. Busy' = Busy /\ Elements(<<>>) = {}
  BY <1>1 DEF Busy, Elements
<1>6. ThreadTypes'
  BY <1>1 DEF IInv, ThreadsOK, ThreadTypes
<1>7. WaitingOK' /\ ExpiredOK'
  BY <1>1, <1>5 DEF WaitingOK, ExpiredOK, Distinct
<1>8. DroppedOK'
  BY <1>1, <1>3 DEF IInv, ThreadsOK, DroppedOK
<1>9. ActiveCountExact'
  BY <1>1, <1>5, BusySame DEF IInv, ThreadsOK
<1>10. PlacedOK' /\ OwedOK'
  BY <1>1, <1>3, <1>5 DEF IInv, PlacedOK, OwedOK
<1> QED
  BY <1>1, <1>4, <1>6, <1>7, <1>8, <1>9, <1>10 DEF IInv, ThreadsOK

\* A step of a call of waitForDone that changes nothing but the call.
LEMMA CallIInv ==
  ASSUME IInv, NEW c \in Waiters, OnlyWaiter, NEW r \in Waiter,
         waiter' = [waiter EXCEPT ![c] = r],
         r.copy \subseteq waiter[c].copy,
         r.pc = "waiting" => \A t \in r.owed : status[t] # "fresh",
         r.pc \notin {"idle", "waiting"} => \A t \in r.owed : status[t] \in {"done", "cleared"}
  PROVE  IInv'
<1>1. UNCHANGED <<maxThreadCount, reservedThreadNum, activeThreadNum, allThreads, waitingThreads,
                  expiredThreads, queue, starting, worker, task, status>>
  BY DEF OnlyWaiter, settings, lists
<1>2. \A d \in Waiters : waiter'[d] = IF d = c THEN r ELSE waiter[d]
  BY DEF IInv, OtherTypes
<1>3. OtherTypes'
  BY <1>1 DEF IInv, OtherTypes
<1>4. Busy' = Busy
  BY <1>1 DEF Busy
<1>5. ThreadsOK'
  <2>1. ThreadTypes' /\ WaitingOK' /\ ExpiredOK' /\ ActiveCountExact'
    BY <1>1, <1>4 DEF IInv, ThreadsOK, ThreadTypes, WaitingOK, ExpiredOK, ActiveCountExact,
                      Elements, Distinct
  <2>2. DroppedOK'
    BY <1>1, <1>2 DEF IInv, ThreadsOK, DroppedOK
  <2> QED
    BY <2>1, <2>2 DEF ThreadsOK
<1>6. PlacedOK' /\ OwedOK'
  BY <1>1, <1>2, <1>4 DEF IInv, PlacedOK, OwedOK
<1> QED
  BY <1>1, <1>3, <1>5, <1>6 DEF IInv

LEMMA WaitForDoneIInv ==
  ASSUME IInv, NEW c \in Waiters, NEW m \in WaitTimes, WaitForDone(c, m)
  PROVE  IInv'
<1> DEFINE r == [NoCall EXCEPT !.pc = "waiting", !.msecs = m,
                               !.owed = {t \in Tasks : status[t] = "pending"}]
<1>1. r \in Waiter /\ r.copy = {} /\ r.pc = "waiting" /\ r.owed = {t \in Tasks : status[t] = "pending"}
  BY DEF NoCall, Waiter
<1>2. waiter' = [waiter EXCEPT ![c] = r] /\ OnlyWaiter
  BY DEF WaitForDone, OnlyWaiter
<1> HIDE DEF r
<1> QED
  BY <1>1, <1>2, CallIInv

LEMMA WaitAndResetIInv ==
  ASSUME IInv, NEW c \in Waiters, WaitAndReset(c)
  PROVE  IInv'
<1>1. waiter[c].pc = "waiting" /\ ~Pending /\ Reset(c)
  BY DEF WaitAndReset
<1>2. ASSUME NEW t \in waiter[c].owed PROVE status[t] \in {"done", "cleared"}
  <2>1. t \in Tasks
    BY DEF IInv, OtherTypes, Waiter
  <2>2. status[t] # "fresh" /\ status[t] # "pending"
    BY <1>1, <2>1, NothingPending DEF IInv, OwedOK
  <2> QED
    BY <2>1, <2>2 DEF IInv, OtherTypes
<1> QED
  BY <1>1, <1>2, ResetIInv

\* A call that returns, and one that goes on to a point after its reset().
LEMMA ReturnIInv ==
  ASSUME IInv, NEW c \in Waiters, OnlyWaiter, Return(c)
  PROVE  IInv'
<1>1. NoCall \in Waiter /\ NoCall.copy = {} /\ NoCall.pc = "idle"
  BY DEF NoCall, Waiter
<1> QED
  BY <1>1, CallIInv DEF Return

LEMMA GoToIInv ==
  ASSUME IInv, NEW c \in Waiters, waiter[c].pc \notin {"idle", "waiting"}, OnlyWaiter,
         NEW pc \in {"joined"}, GoTo(c, pc)
  PROVE  IInv'
<1> DEFINE r == [waiter[c] EXCEPT !.pc = pc]
<1>1. waiter[c] \in Waiter /\ waiter \in [Waiters -> Waiter]
  BY DEF IInv, OtherTypes
<1>2. r \in Waiter /\ r.copy = waiter[c].copy /\ r.owed = waiter[c].owed /\ r.pc = pc
  BY <1>1 DEF Waiter
<1>3. waiter' = [waiter EXCEPT ![c] = r]
  BY <1>1 DEF GoTo
<1>4. \A t \in waiter[c].owed : status[t] \in {"done", "cleared"}
  BY DEF IInv, OwedOK
<1> HIDE DEF r
<1> QED
  BY <1>2, <1>3, <1>4, CallIInv

LEMMA VisitThreadIInv ==
  ASSUME IInv, NEW c \in Waiters, VisitThread(c)
  PROVE  IInv'
<1>1. PICK w \in waiter[c].copy :
        /\ waiter' = [waiter EXCEPT ![c].copy = @ \ {w},
                        ![c].current = IF worker[w] = "finished" THEN NoWorker ELSE w]
        /\ worker' = [worker EXCEPT ![w] = IF @ = "parked" THEN "signalled" ELSE @]
  BY DEF VisitThread
<1>2. /\ waiter[c].pc = "joining"
      /\ UNCHANGED <<settings, activeThreadNum, lists, queue, starting, task, status>>
  BY DEF VisitThread
<1> DEFINE r == [waiter[c] EXCEPT !.copy = @ \ {w},
                    !.current = IF worker[w] = "finished" THEN NoWorker ELSE w]
<1>3. waiter[c] \in Waiter /\ waiter \in [Waiters -> Waiter] /\ w \in Workers
  BY DEF IInv, OtherTypes, Waiter
<1>4. /\ r \in Waiter /\ r.copy = waiter[c].copy \ {w} /\ r.owed = waiter[c].owed
      /\ r.pc = "joining"
  BY <1>2, <1>3 DEF Waiter
<1>5. waiter' = [waiter EXCEPT ![c] = r]
  BY <1>1, <1>3
<1>6. \A t \in waiter[c].owed : status[t] \in {"done", "cleared"}
  BY <1>2 DEF IInv, OwedOK
<1> HIDE DEF r
<1>7. CASE worker[w] # "parked"
  <2>1. worker' = worker
    BY <1>1, <1>3, <1>7 DEF IInv, ThreadsOK, ThreadTypes
  <2>2. OnlyWaiter
    BY <1>2, <2>1 DEF OnlyWaiter
  <2> QED
    BY <1>4, <1>5, <1>6, <2>2, CallIInv
<1>8. CASE worker[w] = "parked"
  <2>1. worker' = [worker EXCEPT ![w] = "signalled"]
    BY <1>1, <1>3, <1>8 DEF IInv, ThreadsOK, ThreadTypes
  <2>2. w \notin allThreads
    BY DEF IInv, ThreadsOK, DroppedOK
  <2>3. \A d \in Waiters : waiter'[d] = IF d = c THEN r ELSE waiter[d]
    BY <1>3, <1>5
  <2>4. \A d \in Waiters : waiter'[d].copy \subseteq waiter[d].copy
    BY <1>4, <2>3
  <2>5. ThreadsOK' /\ Busy' = Busy
    BY <1>2, <1>3, <1>8, <2>1, <2>2, <2>4, StepOK DEF IInv, WorkerState
  <2>6. OtherTypes'
    BY <1>2, <1>3, <1>4, <1>5 DEF IInv, OtherTypes, settings
  <2>7. PlacedOK'
    BY <1>2, <2>5 DEF IInv, PlacedOK
  <2>8. OwedOK'
    BY <1>2, <1>4, <1>6, <2>3 DEF IInv, OwedOK
  <2> QED
    BY <1>2, <2>5, <2>6, <2>7, <2>8 DEF IInv
<1> QED
  BY <1>7, <1>8

LEMMA JoinThreadIInv ==
  ASSUME IInv, NEW c \in Waiters, JoinThread(c)
  PROVE  IInv'
<1> DEFINE r == [waiter[c] EXCEPT !.current = NoWorker]
<1>1. waiter[c] \in Waiter /\ waiter \in [Waiters -> Waiter] /\ waiter[c].pc = "joining"
  BY DEF IInv, OtherTypes, JoinThread
<1>2. /\ r \in Waiter /\ r.copy = waiter[c].copy /\ r.owed = waiter[c].owed
      /\ r.pc = "joining"
  BY <1>1 DEF Waiter
<1>3. waiter' = [waiter EXCEPT ![c] = r] /\ OnlyWaiter
  BY <1>1 DEF JoinThread
<1>4. \A t \in waiter[c].owed : status[t] \in {"done", "cleared"}
  BY <1>1 DEF IInv, OwedOK
<1> HIDE DEF r
<1> QED
  BY <1>2, <1>3, <1>4, CallIInv

LEMMA WaitingIInv ==
  ASSUME IInv, NEW c \in Waiters, Waiting(c)
  PROVE  IInv'
<1>1. CASE GiveUp(c)
  BY <1>1, ReturnIInv DEF GiveUp
<1>2. CASE AllJoined(c)
  BY <1>2, GoToIInv DEF AllJoined
<1>3. CASE AfterReset(c)
  BY <1>3, ReturnIInv DEF AfterReset
<1> QED
  BY <1>1, <1>2, <1>3, WaitAndResetIInv, VisitThreadIInv, JoinThreadIInv DEF Waiting

LEMMA NextIInv ==
  ASSUME NonNegative, IInv, [Next]_vars
  PROVE  IInv'
<1>1. CASE Client
  <2>1. ASSUME NEW t \in Tasks, NEW p \in Priorities, Start(t, p) PROVE IInv'
    BY <2>1, StartIInv DEF NonNegative
  <2> QED
    BY <1>1, <2>1, TryStartTaskIInv, SetMaxThreadCountIInv, ReserveThreadIInv,
       ReleaseThreadIInv, ClearIInv, WaitForDoneIInv DEF Client
<1>2. CASE StartMore
  BY <1>2, StartMoreIInv
<1>3. ASSUME NEW w \in Workers, Working(w) PROVE IInv'
  BY <1>3, BeginRunIInv, FinishTaskIInv, WakeUpIInv DEF Working
<1>4. ASSUME NEW c \in Waiters, Waiting(c) PROVE IInv'
  BY <1>4, WaitingIInv
<1>5. CASE UNCHANGED vars
  <2>1. /\ UNCHANGED <<activeThreadNum, lists, queue, worker, task, status, waiter>>
        /\ UNCHANGED <<maxThreadCount, reservedThreadNum, starting>>
    BY <1>5 DEF vars, settings
  <2> QED
    BY <2>1, SettingIInv DEF IInv, OtherTypes
<1> QED
  BY <1>1, <1>2, <1>3, <1>4, <1>5 DEF Next

-----------------------------------------------------------------------------
(* What follows for every behaviour.                                       *)

\* In every reachable state each thread of the pool is where its container says,
\* a dropped one stays out of it, every pending task is queued or in the hands of
\* a busy thread, and what a call of waitForDone() is owed is settled once it got
\* past its wait (all critical sections of scthreadpool.cpp, and lines 206-216, which
\* run without the mutex).
THEOREM Invariance ==
  ASSUME NonNegative
  PROVE  Spec => []IInv
<1>1. Init => IInv
  BY InitIInv
<1>2. IInv /\ [Next]_vars => IInv'
  BY NextIInv
<1> QED
  BY <1>1, <1>2, PTL DEF Spec

\* Every variable keeps its type; activeThreadNum, which six paths increment and
\* decrement, never falls below zero.
THEOREM TypeCorrect ==
  ASSUME NonNegative
  PROVE  Spec => []TypeOK
<1>1. IInv => TypeOK
  BY BusyFinite DEF IInv, OtherTypes, GoodQueue, ThreadsOK, ThreadTypes, ActiveCountExact, TypeOK
<1> QED
  BY <1>1, Invariance, PTL

\* waitForDone() gets to reset() only after every task accepted before the call
\* has run or was cleared (lines 312-327).
THEOREM ResetsWhenDone ==
  ASSUME NonNegative
  PROVE  Spec => []ResetOnlyWhenDone
<1>1. IInv => ResetOnlyWhenDone
  BY DEF IInv, OwedOK, ResetOnlyWhenDone
<1> QED
  BY <1>1, Invariance, PTL

LEMMA ExpiredFinished ==
  ThreadsOK => ExpiredThreadsFinished
BY LenProperties DEF ThreadsOK, ThreadTypes, ExpiredOK, ExpiredThreadsFinished, Elements

-----------------------------------------------------------------------------
(* Counting threads.                                                       *)

LEMMA DisjointCount ==
  ASSUME NEW S, NEW T, IsFiniteSet(S), IsFiniteSet(T), S \cap T = {}
  PROVE  /\ IsFiniteSet(S \cup T) /\ Cardinality(S) \in Nat /\ Cardinality(T) \in Nat
         /\ Cardinality(S \cup T) = Cardinality(S) + Cardinality(T)
<1>1. /\ IsFiniteSet(S \cup T)
      /\ Cardinality(S \cup T) = Cardinality(S) + Cardinality(T) - Cardinality(S \cap T)
  BY FS_Union
<1>2. Cardinality(S \cap T) = 0
  BY FS_EmptySet
<1>3. Cardinality(S) \in Nat /\ Cardinality(T) \in Nat
  BY FS_CardinalityType
<1> QED
  BY <1>1, <1>2, <1>3

\* The threads of the pool are asleep, expired, called or busy.
LEMMA Partition ==
  ASSUME ThreadsOK, IsFiniteSet(allThreads)
  PROVE  /\ IsFiniteSet(Called) /\ IsFiniteSet(Busy \cap allThreads)
         /\ Cardinality(allThreads) - Len(waitingThreads) - Len(expiredThreads)
              = Cardinality(Called) + Cardinality(Busy \cap allThreads)
         /\ Cardinality(Called) \in Nat /\ Cardinality(Busy \cap allThreads) \in Nat
         /\ Called \cap Busy = {}
<1> DEFINE W == Elements(waitingThreads)
           E == Elements(expiredThreads)
           B == Busy \cap allThreads
<1>1. /\ IsFiniteSet(W) /\ Cardinality(W) = Len(waitingThreads)
      /\ IsFiniteSet(E) /\ Cardinality(E) = Len(expiredThreads)
  BY DistinctCount DEF ThreadsOK, ThreadTypes, WaitingOK, ExpiredOK
<1>2. W \subseteq Workers /\ E \subseteq Workers
  BY LenProperties DEF ThreadsOK, ThreadTypes, Elements
<1>3. /\ allThreads = (W \cup E) \cup (Called \cup B)
      /\ W \cap E = {} /\ Called \cap B = {} /\ (W \cup E) \cap (Called \cup B) = {}
      /\ Called \cap Busy = {}
  BY <1>2 DEF ThreadsOK, ThreadTypes, WaitingOK, ExpiredOK, DroppedOK, WorkerState, Busy, Called
<1>4. IsFiniteSet(Called) /\ IsFiniteSet(B)
  BY <1>3, FS_Subset
<1>5. /\ Cardinality(W) \in Nat /\ Cardinality(E) \in Nat
      /\ Cardinality(Called) \in Nat /\ Cardinality(B) \in Nat
  BY <1>1, <1>4, FS_CardinalityType
<1>6. /\ IsFiniteSet(W \cup E) /\ Cardinality(W \cup E) = Cardinality(W) + Cardinality(E)
      /\ IsFiniteSet(Called \cup B)
      /\ Cardinality(Called \cup B) = Cardinality(Called) + Cardinality(B)
  BY <1>1, <1>3, <1>4, DisjointCount
<1>7. Cardinality(allThreads) = Cardinality(W \cup E) + Cardinality(Called \cup B)
  BY <1>3, <1>6, DisjointCount
<1>8. Cardinality(allThreads) - Len(waitingThreads) - Len(expiredThreads)
        = Cardinality(Called) + Cardinality(B)
  <2> HIDE DEF W, E, B
  <2> QED
    BY <1>1, <1>5, <1>6, <1>7
<1> QED
  BY <1>3, <1>4, <1>5, <1>8

\* Where all threads are active some thread is; where too many are, another is.
LEMMA SomeActive ==
  ASSUME IInv
  PROVE  /\ AreAllThreadsActive => \E v \in allThreads : v \in Busy \cup Called
         /\ IsTooManyThreadsActive =>
              \A w : \E v \in allThreads : v # w /\ v \in Busy \cup Called
<1> DEFINE B == Busy \cap allThreads
           A == Called \cup B
<1>1. IsFiniteSet(allThreads) /\ reservedThreadNum \in Int
  BY PoolAssumption, FS_Subset DEF IInv, ThreadsOK, ThreadTypes, OtherTypes
<1>2. /\ IsFiniteSet(A)
      /\ ActiveThreadCount - reservedThreadNum = Cardinality(A)
  <2>1. /\ IsFiniteSet(Called) /\ IsFiniteSet(B)
        /\ Cardinality(allThreads) - Len(waitingThreads) - Len(expiredThreads)
             = Cardinality(Called) + Cardinality(B)
        /\ Cardinality(Called) \in Nat /\ Cardinality(B) \in Nat
        /\ Called \cap B = {}
    BY <1>1, Partition DEF IInv
  <2>2. IsFiniteSet(A) /\ Cardinality(A) = Cardinality(Called) + Cardinality(B)
    BY <2>1, DisjointCount
  <2>3. Cardinality(allThreads) \in Nat /\ Len(waitingThreads) \in Nat /\ Len(expiredThreads) \in Nat
    BY <1>1, FS_CardinalityType, LenProperties DEF IInv, ThreadsOK, ThreadTypes
  <2> HIDE DEF A, B
  <2> QED
    BY <1>1, <2>1, <2>2, <2>3 DEF ActiveThreadCount
<1>3. A \subseteq allThreads /\ A \subseteq Busy \cup Called
  BY DEF Called
<1> HIDE DEF A
<1>4. ASSUME AreAllThreadsActive PROVE \E v \in allThreads : v \in Busy \cup Called
  <2>1. A # {}
    BY <1>2, <1>4, FS_EmptySet DEF AreAllThreadsActive
  <2> QED
    BY <1>3, <2>1
<1>5. ASSUME IsTooManyThreadsActive, NEW w
      PROVE  \E v \in allThreads : v # w /\ v \in Busy \cup Called
  <2>1. Cardinality(A) > 1
    BY <1>2, <1>5 DEF IsTooManyThreadsActive
  <2>2. Cardinality({}) = 0 /\ Cardinality({w}) = 1
    BY FS_EmptySet, FS_Singleton
  <2>3. A # {} /\ A # {w}
    BY <2>1, <2>2
  <2> QED
    BY <1>3, <2>3
<1> QED
  BY <1>4, <1>5

-----------------------------------------------------------------------------
(* While no call of waitForDone resets the pool a second time.             *)

\* A thread that goes to work is in the pool.
LEMMA TryStartU ==
  ASSUME IInv, BusyInPool, NEW t \in Tasks, NEW handed, NEW parked,
         TryStart(t, handed, parked), UNCHANGED waiter
  PROVE  BusyInPool' /\ \E v \in allThreads' : v \in Busy' \cup Called'
<1>1. CASE \E w \in Workers : Handed(t, w) /\ allThreads' = allThreads \cup {w}
  BY <1>1 DEF Handed, BusyInPool
<1>2. CASE /\ UNCHANGED allThreads /\ Busy' = Busy
           /\ \E w \in Workers : Called' = Called \cup {w}
  <2>1. PICK w \in Called' : TRUE
    BY <1>2
  <2>2. w \in allThreads'
    BY <2>1 DEF Called
  <2> QED
    BY <1>2, <2>1, <2>2 DEF BusyInPool
<1> QED
  BY <1>1, <1>2, TryStartOK DEF IInv

\* A step that leaves the containers, and who is at work in the pool, alone.
LEMMA SameU ==
  ASSUME BusyInPool, NoStrandedTask, Busy' = Busy, Called' = Called,
         UNCHANGED <<allThreads, queue>>, starting' \/ starting' = starting
  PROVE  BusyInPool' /\ NoStrandedTask'
BY DEF BusyInPool, NoStrandedTask

\* Where a task cannot be started some thread is active.
LEMMA NotStartable ==
  ASSUME IInv, ~CanStart
  PROVE  \E v \in allThreads : v \in Busy \cup Called
BY SomeActive DEF CanStart

LEMMA StartU ==
  ASSUME IInv, UInv, NEW t \in Tasks, NEW p, Start(t, p)
  PROVE  BusyInPool' /\ NoStrandedTask'
<1>1. CASE TryStart(t, queue, EnqueueTask(queue, t, 0))
  BY <1>1, TryStartU DEF UInv, NoStrandedTask, Start, Accept
<1>2. CASE ~CanStart /\ UNCHANGED <<activeThreadNum, lists, worker, task>>
  <2>1. UNCHANGED <<allThreads, worker>>
    BY <1>2 DEF lists
  <2>2. Busy' = Busy /\ Called' = Called
    BY <2>1 DEF Busy, Called
  <2> QED
    BY <1>2, <2>1, <2>2, NotStartable DEF UInv, BusyInPool, NoStrandedTask
<1> QED
  BY <1>1, <1>2 DEF Start

LEMMA StartMoreU ==
  ASSUME IInv, UInv, StartMore
  PROVE  BusyInPool' /\ NoStrandedTask'
<1>1. CASE /\ queue # <<>>
           /\ TryStart(FirstTask(queue), PopPage(queue, 1),
                       PopPage(EnqueueTask(queue, FirstTask(queue), 0),
                               FrontAfter(queue, FirstTask(queue), 0)))
  <2>1. FirstTask(queue) \in Tasks
    BY <1>1, PopPageGood DEF IInv
  <2> QED
    BY <1>1, <2>1, TryStartU DEF UInv, NoStrandedTask, StartMore
<1>2. CASE /\ queue = <<>> \/ ~CanStart
           /\ UNCHANGED <<activeThreadNum, lists, queue, worker, task>>
  <2>1. UNCHANGED <<allThreads, worker, queue>>
    BY <1>2 DEF lists
  <2>2. Busy' = Busy /\ Called' = Called
    BY <2>1 DEF Busy, Called
  <2> QED
    BY <1>2, <2>1, <2>2, NotStartable DEF UInv, BusyInPool, NoStrandedTask
<1> QED
  BY <1>1, <1>2 DEF StartMore

\* A thread that has a task goes on, or leaves another one at work.
LEMMA TakeOrRestU ==
  ASSUME IInv, UInv, NEW w \in allThreads, NEW active \in Int,
         \/ worker[w] = "running" /\ active = activeThreadNum
         \/ worker[w] = "signalled" /\ active = activeThreadNum + 1,
         TakeOrRest(w, active), UNCHANGED <<starting, waiter>>
  PROVE  BusyInPool' /\ NoStrandedTask'
<1>1. w \in Workers /\ worker \in [Workers -> WorkerState] /\ allThreads \subseteq Workers
  BY DEF IInv, ThreadsOK, ThreadTypes
<1>2. /\ allThreads' = allThreads
      /\ \/ Busy' = Busy \cup {w}
         \/ /\ Busy' = Busy \ {w} /\ queue' = queue
            /\ IsTooManyThreadsActive \/ queue = <<>>
  BY <1>1, TakeOrRestOK DEF IInv
<1>3. \A v \in Workers : v # w => worker'[v] = worker[v]
  BY <1>1 DEF TakeOrRest
<1>4. CASE Busy' = Busy \cup {w}
  BY <1>2, <1>4 DEF UInv, BusyInPool, NoStrandedTask
<1>5. CASE Busy' = Busy \ {w} /\ queue = <<>> /\ queue' = queue
  BY <1>2, <1>5 DEF UInv, BusyInPool, NoStrandedTask
<1>6. CASE Busy' = Busy \ {w} /\ IsTooManyThreadsActive
  <2>1. PICK v \in allThreads : v # w /\ v \in Busy \cup Called
    BY <1>6, SomeActive
  <2>2. v \in Busy' \cup Called'
    BY <1>1, <1>2, <1>3, <2>1 DEF Busy, Called
  <2> QED
    BY <1>2, <1>6, <2>1, <2>2 DEF UInv, BusyInPool, NoStrandedTask
<1> QED
  BY <1>2, <1>4, <1>5, <1>6

LEMMA WorkingU ==
  ASSUME IInv, UInv, NEW w \in Workers, Working(w)
  PROVE  BusyInPool' /\ NoStrandedTask'
<1>0. worker \in [Workers -> WorkerState] /\ activeThreadNum \in Int
  BY BusyFinite DEF IInv, ThreadsOK, ThreadTypes, ActiveCountExact
<1>1. CASE BeginRun(w)
  <2>1. /\ worker' = [worker EXCEPT ![w] = "running"] /\ worker[w] = "spawned"
        /\ UNCHANGED <<allThreads, queue, starting>>
    BY <1>1 DEF BeginRun, lists
  <2>2. Busy' = Busy /\ Called' = Called
    BY <1>0, <2>1 DEF Busy, Called
  <2> QED
    BY <2>1, <2>2, SameU DEF UInv
<1>2. CASE FinishTask(w)
  <2>1. worker[w] = "running" /\ TakeOrRest(w, activeThreadNum) /\ UNCHANGED <<starting, waiter>>
    BY <1>2 DEF FinishTask
  <2>2. w \in allThreads
    BY <2>1 DEF UInv, BusyInPool, Busy
  <2> QED
    BY <1>0, <2>1, <2>2, TakeOrRestU
<1>3. CASE /\ worker[w] \in {"parked", "signalled"} /\ w \notin allThreads
           /\ worker' = [worker EXCEPT ![w] = "finished"]
           /\ UNCHANGED <<allThreads, queue, starting>>
  <2>1. Busy' = Busy /\ Called' = Called
    BY <1>0, <1>3 DEF Busy, Called
  <2> QED
    BY <1>3, <2>1, SameU DEF UInv
<1>4. CASE /\ w \in allThreads /\ w \in Elements(waitingThreads)
           /\ worker' = [worker EXCEPT ![w] = "finished"]
           /\ UNCHANGED <<allThreads, queue, starting>>
  <2>1. worker[w] = "parked"
    BY <1>4 DEF IInv, ThreadsOK, WaitingOK
  <2>2. Busy' = Busy /\ Called' = Called
    BY <1>0, <1>4, <2>1 DEF Busy, Called
  <2> QED
    BY <1>4, <2>2, SameU DEF UInv
<1>5. CASE /\ worker[w] \in {"parked", "signalled"}
           /\ w \in allThreads /\ w \notin Elements(waitingThreads)
           /\ TakeOrRest(w, activeThreadNum + 1) /\ UNCHANGED <<starting, waiter>>
  <2>1. worker[w] = "signalled"
    BY <1>5 DEF IInv, ThreadsOK, WaitingOK
  <2> QED
    BY <1>0, <1>5, <2>1, TakeOrRestU
<1> QED
  BY <1>1, <1>2, <1>3, <1>4, <1>5 DEF Working, WakeUp, Elements, lists

\* Only a call that is still waiting resets the pool, and then no thread has work.
LEMMA WaitingU ==
  ASSUME Untimed, IInv, UInv, NEW c \in Waiters, Waiting(c)
  PROVE  UInv'
<1>1. /\ waiter \in [Waiters -> Waiter] /\ waiter[c].msecs <= 0
      /\ waiter[c].pc \in {"idle", "waiting", "joining", "joined"}
  BY DEF IInv, UInv, OtherTypes, CallOK
<1>2. ASSUME NEW r \in Waiter, waiter' = [waiter EXCEPT ![c] = r], r.msecs <= 0,
             r.pc \in {"idle", "waiting", "joining", "joined"}
      PROVE  CallOK'
  BY <1>1, <1>2 DEF UInv, CallOK
<1>3. ASSUME OnlyWaiter PROVE BusyInPool' /\ NoStrandedTask'
  <2>1. UNCHANGED <<allThreads, queue, starting, worker>>
    BY <1>3 DEF OnlyWaiter, lists
  <2>2. Busy' = Busy /\ Called' = Called
    BY <2>1 DEF Busy, Called
  <2> QED
    BY <2>1, <2>2, SameU DEF UInv
<1>4. CASE WaitAndReset(c)
  <2>1. ~Pending /\ Reset(c)
    BY <1>4 DEF WaitAndReset
  <2>2. Busy = {} /\ queue = <<>> /\ Busy' = Busy /\ queue' = queue
    BY <2>1, NothingPending DEF Pending, Reset, Busy
  <2>3. BusyInPool' /\ NoStrandedTask'
    BY <2>2 DEF BusyInPool, NoStrandedTask
  <2>4. CallOK'
    BY <1>1, <2>1 DEF Reset, UInv, CallOK, Waiter
  <2> QED
    BY <2>3, <2>4 DEF UInv
<1>5. ASSUME Return(c) PROVE CallOK'
  <2>1. NoCall \in Waiter /\ NoCall.msecs <= 0 /\ NoCall.pc = "idle"
    BY DEF NoCall, Waiter
  <2> QED
    BY <1>2, <1>5, <2>1 DEF Return
<1>6. CASE GiveUp(c)
  BY <1>3, <1>5, <1>6 DEF GiveUp, UInv
<1>7. CASE VisitThread(c)
  <2>1. PICK w \in waiter[c].copy :
          /\ waiter' = [waiter EXCEPT ![c].copy = @ \ {w},
                          ![c].current = IF worker[w] = "finished" THEN NoWorker ELSE w]
          /\ worker' = [worker EXCEPT ![w] = IF @ = "parked" THEN "signalled" ELSE @]
    BY <1>7 DEF VisitThread
  <2>2. w \notin allThreads /\ worker \in [Workers -> WorkerState] /\ allThreads \subseteq Workers
    BY DEF IInv, ThreadsOK, DroppedOK, ThreadTypes
  <2>3. UNCHANGED <<allThreads, queue, starting>>
    BY <1>7 DEF VisitThread, lists
  <2>4. Busy' = Busy /\ Called' = Called
    BY <2>1, <2>2, <2>3 DEF Busy, Called
  <2>5. CallOK'
    BY <1>1, <2>1 DEF UInv, CallOK, Waiter
  <2> QED
    BY <2>3, <2>4, <2>5, SameU DEF UInv
<1>8. CASE JoinThread(c)
  <2>1. CallOK'
    BY <1>1, <1>8 DEF JoinThread, UInv, CallOK, Waiter
  <2> QED
    BY <1>3, <1>8, <2>1 DEF JoinThread, UInv
<1>9. CASE AllJoined(c)
  <2>1. CallOK'
    BY <1>1, <1>9 DEF AllJoined, GoTo, UInv, CallOK, Waiter
  <2> QED
    BY <1>3, <1>9, <2>1 DEF AllJoined, UInv
<1>10. CASE AfterReset(c)
  BY <1>3, <1>5, <1>10 DEF AfterReset, UInv
<1> QED
  BY <1>4, <1>6, <1>7, <1>8, <1>9, <1>10 DEF Waiting

LEMMA ClientU ==
  ASSUME Untimed, IInv, UInv, Client
  PROVE  UInv'
<1>1. ASSUME UNCHANGED waiter PROVE CallOK'
  BY <1>1 DEF UInv, CallOK
<1>2. ASSUME UNCHANGED <<lists, queue, worker>>, starting' \/ starting' = starting
      PROVE  BusyInPool' /\ NoStrandedTask'
  <2>1. Busy' = Busy /\ Called' = Called /\ UNCHANGED <<allThreads, queue>>
    BY <1>2 DEF Busy, Called, lists
  <2> QED
    BY <1>2, <2>1, SameU DEF UInv
<1>3. ASSUME NEW t \in Tasks, NEW p \in Priorities, Start(t, p) PROVE UInv'
  BY <1>1, <1>3, StartU DEF Start, Accept, UInv
<1>4. ASSUME NEW t \in Tasks, TryStartTask(t) PROVE UInv'
  <2>1. TryStart(t, queue, EnqueueTask(queue, t, 0)) /\ UNCHANGED waiter
    BY <1>4 DEF TryStartTask, Accept
  <2>2. BusyInPool' /\ \E v \in allThreads' : v \in Busy' \cup Called'
    BY <2>1, TryStartU DEF UInv
  <2> QED
    BY <1>1, <2>1, <2>2 DEF UInv, NoStrandedTask
<1>5. ASSUME NEW n \in ThreadLimits, SetMaxThreadCount(n) PROVE UInv'
  BY <1>1, <1>2, <1>5 DEF SetMaxThreadCount, UInv
<1>6. CASE ReserveThread
  BY <1>1, <1>2, <1>6 DEF ReserveThread, UInv
<1>7. CASE ReleaseThread
  BY <1>1, <1>2, <1>7 DEF ReleaseThread, UInv
<1>8. CASE Clear
  <2>1. queue' = <<>> /\ UNCHANGED <<allThreads, worker, waiter>>
    BY <1>8 DEF Clear, lists
  <2>2. Busy' = Busy
    BY <2>1 DEF Busy
  <2> QED
    BY <1>1, <2>1, <2>2 DEF UInv, BusyInPool, NoStrandedTask
<1>9. ASSUME NEW c \in Waiters, NEW m \in WaitTimes, WaitForDone(c, m) PROVE UInv'
  <2>1. waiter' = [waiter EXCEPT ![c] =
          [NoCall EXCEPT !.pc = "waiting", !.msecs = m,
                         !.owed = {t \in Tasks : status[t] = "pending"}]]
    BY <1>9 DEF WaitForDone
  <2>2. CallOK'
    BY <2>1 DEF IInv, OtherTypes, UInv, CallOK, NoCall, Untimed
  <2> QED
    BY <1>2, <1>9, <2>2 DEF WaitForDone, UInv
<1> QED
  BY <1>3, <1>4, <1>5, <1>6, <1>7, <1>8, <1>9 DEF Client

LEMMA NextUInv ==
  ASSUME Untimed, IInv, UInv, [Next]_vars
  PROVE  UInv'
<1>1. CASE StartMore
  <2>1. CallOK'
    BY <1>1 DEF StartMore, UInv, CallOK
  <2> QED
    BY <1>1, <2>1, StartMoreU DEF UInv
<1>2. ASSUME NEW w \in Workers, Working(w) PROVE UInv'
  <2>1. CallOK'
    BY <1>2 DEF Working, BeginRun, FinishTask, WakeUp, UInv, CallOK
  <2> QED
    BY <1>2, <2>1, WorkingU DEF UInv
<1>3. CASE UNCHANGED vars
  <2>1. UNCHANGED <<allThreads, queue, starting, worker, waiter>>
    BY <1>3 DEF vars, lists
  <2>2. Busy' = Busy /\ Called' = Called
    BY <2>1 DEF Busy, Called
  <2> QED
    BY <2>1, <2>2, SameU DEF UInv, CallOK
<1> QED
  BY <1>1, <1>2, <1>3, ClientU, WaitingU DEF Next

\* While no call of waitForDone() has time left after its first reset(), every
\* thread that has a task is in the pool, and queued tasks are never left alone.
THEOREM UntimedInvariance ==
  ASSUME NonNegative, Untimed
  PROVE  Spec => [](IInv /\ UInv)
<1>1. Init => UInv
  BY DEF Init, UInv, CallOK, BusyInPool, NoStrandedTask, Busy, NoCall
<1>2. IInv /\ UInv /\ [Next]_vars => IInv' /\ UInv'
  BY NextIInv, NextUInv
<1> QED
  BY <1>1, <1>2, InitIInv, PTL DEF Spec

\* A queued task has a thread of the pool that is at work or called: threads do
\* not all retire, or rest, on the strength of each other (lines 405-431).
THEOREM NoTaskStranded ==
  ASSUME NonNegative, Untimed
  PROVE  Spec => []NoStrandedTask
<1>1. UInv => NoStrandedTask
  BY DEF UInv
<1> QED
  BY <1>1, UntimedInvariance, PTL

\* The two counts of active threads, activeThreadNum and activeThreadCount(),
\* agree with each other and with the threads in the three containers.
THEOREM Accounting ==
  ASSUME NonNegative, Untimed
  PROVE  Spec => []ThreadAccounting
<1>1. ASSUME IInv, BusyInPool PROVE ThreadAccounting
  <2>1. IsFiniteSet(allThreads) /\ reservedThreadNum \in Int
    BY <1>1, PoolAssumption, FS_Subset DEF IInv, ThreadsOK, ThreadTypes, OtherTypes
  <2>2. Busy \cap allThreads = Busy
    BY <1>1 DEF BusyInPool
  <2>3. /\ Cardinality(allThreads) - Len(waitingThreads) - Len(expiredThreads)
             = Cardinality(Called) + Cardinality(Busy)
        /\ Cardinality(Called) \in Nat /\ Cardinality(Busy) \in Nat
    BY <1>1, <2>1, <2>2, Partition DEF IInv
  <2>4. ActiveThreadCount = Cardinality(Busy) + Cardinality(Called) + reservedThreadNum
    BY <2>1, <2>3 DEF ActiveThreadCount
  <2>5. WaitingThreadsParked
    <3>1. Cardinality(Elements(waitingThreads)) = Len(waitingThreads)
      BY <1>1, DistinctCount DEF IInv, ThreadsOK, ThreadTypes, WaitingOK
    <3> QED
      BY <1>1, <3>1 DEF IInv, ThreadsOK, WaitingOK, WaitingThreadsParked
  <2> QED
    BY <1>1, <2>4, <2>5, ExpiredFinished DEF IInv, ThreadsOK, ThreadAccounting
<1>2. IInv /\ UInv => ThreadAccounting
  BY <1>1 DEF UInv
<1> QED
  BY <1>2, UntimedInvariance, PTL

-----------------------------------------------------------------------------
(* How many threads are at work.                                           *)

AtWork == Busy \cup Called

\* Only a start adds a thread to those at work, one at a time.
LEMMA TryStartAtWork ==
  ASSUME IInv, NEW t \in Tasks, NEW handed, NEW parked,
         TryStart(t, handed, parked), UNCHANGED waiter
  PROVE  CanStart /\ \E w : AtWork' \subseteq AtWork \cup {w}
<1>1. CanStart
  BY DEF TryStart, CanStart
<1>2. CASE \E w \in Workers : Handed(t, w) /\ allThreads' = allThreads \cup {w}
  <2>1. PICK w \in Workers : Handed(t, w) /\ allThreads' = allThreads \cup {w}
    BY <1>2
  <2>2. /\ worker' = [worker EXCEPT ![w] = "spawned"] /\ Busy' = Busy \cup {w}
        /\ worker \in [Workers -> WorkerState] /\ allThreads \subseteq Workers
    BY <2>1 DEF Handed, IInv, ThreadsOK, ThreadTypes
  <2>3. Called' \subseteq Called
    BY <2>1, <2>2 DEF Called
  <2> QED
    BY <1>1, <2>2, <2>3 DEF AtWork
<1>3. CASE Busy' = Busy /\ \E w \in Workers : Called' = Called \cup {w}
  BY <1>1, <1>3 DEF AtWork
<1> QED
  BY <1>2, <1>3, TryStartOK DEF IInv

LEMMA StepAtWork ==
  ASSUME IInv, UInv, Untimed, [Next]_vars
  PROVE  AtWork' \subseteq AtWork \/ (CanStart /\ \E w : AtWork' \subseteq AtWork \cup {w})
<1>0. worker \in [Workers -> WorkerState] /\ activeThreadNum \in Int /\ allThreads \subseteq Workers
  BY BusyFinite DEF IInv, ThreadsOK, ThreadTypes, ActiveCountExact
<1>1. ASSUME allThreads' \subseteq allThreads, worker' = worker PROVE AtWork' \subseteq AtWork
  BY <1>1 DEF AtWork, Busy, Called
<1>2. ASSUME NEW w \in Workers, NEW pc \in WorkerState, worker' = [worker EXCEPT ![w] = pc],
             UNCHANGED allThreads,
             \/ pc \notin {"spawned", "running", "signalled"}
             \/ w \in AtWork /\ w \in allThreads
      PROVE  AtWork' \subseteq AtWork
  BY <1>0, <1>2 DEF AtWork, Busy, Called
<1>3. CASE Client
  <2>1. ASSUME NEW t \in Tasks, NEW p \in Priorities, Start(t, p)
        PROVE  AtWork' \subseteq AtWork \/ (CanStart /\ \E w : AtWork' \subseteq AtWork \cup {w})
    BY <1>1, <2>1, TryStartAtWork DEF Start, Accept, lists
  <2>2. ASSUME NEW t \in Tasks, TryStartTask(t)
        PROVE  CanStart /\ \E w : AtWork' \subseteq AtWork \cup {w}
    BY <2>2, TryStartAtWork DEF TryStartTask, Accept
  <2>3. ASSUME \/ \E n \in ThreadLimits : SetMaxThreadCount(n)
               \/ ReserveThread \/ ReleaseThread \/ Clear
               \/ \E c \in Waiters, m \in WaitTimes : WaitForDone(c, m)
        PROVE  AtWork' \subseteq AtWork
    <3>1. allThreads' = allThreads /\ worker' = worker
      BY <2>3 DEF SetMaxThreadCount, ReserveThread, ReleaseThread, Clear, WaitForDone, lists
    <3> QED
      BY <1>1, <3>1
  <2> QED
    BY <1>3, <2>1, <2>2, <2>3 DEF Client
<1>4. CASE StartMore
  <2>1. queue # <<>> => FirstTask(queue) \in Tasks
    BY PopPageGood DEF IInv
  <2> QED
    BY <1>1, <1>4, <2>1, TryStartAtWork DEF StartMore, lists
<1>5. ASSUME NEW w \in Workers, Working(w) PROVE AtWork' \subseteq AtWork
  <2>1. CASE BeginRun(w)
    <3>1. w \in AtWork /\ w \in allThreads
      BY <2>1 DEF BeginRun, AtWork, Busy, UInv, BusyInPool
    <3> QED
      BY <1>2, <2>1, <3>1 DEF BeginRun, lists, WorkerState
  <2>2. ASSUME NEW active \in Int, TakeOrRest(w, active), w \in allThreads, w \in AtWork
        PROVE  AtWork' \subseteq AtWork
    <3>1. \E pc \in WorkerState : worker' = [worker EXCEPT ![w] = pc]
      BY <2>2 DEF TakeOrRest, WorkerState
    <3>2. allThreads' = allThreads
      BY <2>2 DEF TakeOrRest, lists
    <3> QED
      BY <1>2, <2>2, <3>1, <3>2
  <2>3. CASE FinishTask(w)
    <3>1. w \in AtWork /\ w \in allThreads
      BY <2>3 DEF FinishTask, AtWork, Busy, UInv, BusyInPool
    <3> QED
      BY <1>0, <2>2, <2>3, <3>1 DEF FinishTask
  <2>4. CASE WakeUp(w)
    <3>1. CASE worker' = [worker EXCEPT ![w] = "finished"] /\ UNCHANGED allThreads
      BY <1>2, <3>1 DEF WorkerState
    <3>2. CASE /\ worker[w] \in {"parked", "signalled"}
               /\ w \in allThreads /\ w \notin Elements(waitingThreads)
               /\ TakeOrRest(w, activeThreadNum + 1)
      <4>1. worker[w] = "signalled"
        BY <3>2 DEF IInv, ThreadsOK, WaitingOK
      <4>2. w \in AtWork
        BY <3>2, <4>1 DEF AtWork, Called
      <4> QED
        BY <1>0, <2>2, <3>2, <4>2
    <3> QED
      BY <2>4, <3>1, <3>2 DEF WakeUp, Elements, lists
  <2> QED
    BY <1>5, <2>1, <2>3, <2>4 DEF Working
<1>6. ASSUME NEW c \in Waiters, Waiting(c) PROVE AtWork' \subseteq AtWork
  <2>1. CASE VisitThread(c)
    <3>1. PICK w \in waiter[c].copy :
            worker' = [worker EXCEPT ![w] = IF @ = "parked" THEN "signalled" ELSE @]
      BY <2>1 DEF VisitThread
    <3>2. w \notin allThreads /\ UNCHANGED allThreads
      BY <2>1 DEF IInv, ThreadsOK, DroppedOK, VisitThread, lists
    <3> QED
      BY <1>0, <3>1, <3>2 DEF AtWork, Busy, Called
  <2>2. CASE WaitAndReset(c)
    BY <1>1, <2>2 DEF WaitAndReset, Reset
  <2>3. CASE OnlyWaiter
    BY <1>1, <2>3 DEF OnlyWaiter, lists
  <2> QED
    BY <1>6, <2>1, <2>2, <2>3
       DEF Waiting, GiveUp, JoinThread, AllJoined, AfterReset
<1>7. CASE UNCHANGED vars
  BY <1>1, <1>7 DEF vars, lists
<1> QED
  BY <1>3, <1>4, <1>5, <1>6, <1>7 DEF Next

\* No step sets more threads to work than one above the limit, for any limits that
\* are not negative (areAllThreadsActive and the branches of tryStart).
THEOREM Bounded ==
  ASSUME NonNegative, Untimed, ThreadLimits \subseteq Nat
  PROVE  Spec => ConcurrencyBound
<1> DEFINE Bound == Cardinality(Busy' \cup Called') > Cardinality(Busy \cup Called)
                      => Cardinality(Busy' \cup Called') <= maxThreadCount + 1
<1>1. ASSUME IInv, UInv, [Next]_vars PROVE Bound
  <2>1. /\ IsFiniteSet(Called) /\ IsFiniteSet(Busy) /\ IsFiniteSet(AtWork)
        /\ Cardinality(AtWork) \in Nat
        /\ Cardinality(AtWork) = ActiveThreadCount - reservedThreadNum
        /\ reservedThreadNum \in Nat /\ ActiveThreadCount \in Int
    <3>1. IsFiniteSet(allThreads) /\ reservedThreadNum \in Nat
      BY <1>1, PoolAssumption, FS_Subset DEF IInv, ThreadsOK, ThreadTypes, OtherTypes
    <3>2. Busy \cap allThreads = Busy
      BY <1>1 DEF UInv, BusyInPool
    <3>3. /\ Cardinality(allThreads) - Len(waitingThreads) - Len(expiredThreads)
               = Cardinality(Called) + Cardinality(Busy)
          /\ IsFiniteSet(Called) /\ IsFiniteSet(Busy) /\ Called \cap Busy = {}
          /\ Cardinality(Called) \in Nat /\ Cardinality(Busy) \in Nat
      BY <1>1, <3>1, <3>2, Partition DEF IInv
    <3>4. IsFiniteSet(AtWork) /\ Cardinality(AtWork) = Cardinality(Called) + Cardinality(Busy)
      BY <3>3, DisjointCount DEF AtWork
    <3> QED
      BY <3>1, <3>3, <3>4 DEF ActiveThreadCount
  <2>2. CASE AtWork' \subseteq AtWork
    <3>1. Cardinality(AtWork') \in Nat /\ Cardinality(AtWork') <= Cardinality(AtWork)
      BY <2>1, <2>2, FS_Subset, FS_CardinalityType
    <3> QED
      BY <2>1, <3>1 DEF AtWork
  <2>3. ASSUME CanStart, NEW w, AtWork' \subseteq AtWork \cup {w} PROVE Bound
    <3>1. /\ IsFiniteSet(AtWork \cup {w}) /\ Cardinality(AtWork \cup {w}) \in Nat
          /\ Cardinality(AtWork \cup {w}) <= Cardinality(AtWork) + 1
      <4>1. /\ IsFiniteSet(AtWork \cup {w})
            /\ \/ Cardinality(AtWork \cup {w}) = Cardinality(AtWork)
               \/ Cardinality(AtWork \cup {w}) = Cardinality(AtWork) + 1
        BY <2>1, FS_AddElement
      <4> QED
        BY <2>1, <4>1
    <3>2. Cardinality(AtWork') \in Nat /\ Cardinality(AtWork') <= Cardinality(AtWork) + 1
      <4>1. IsFiniteSet(AtWork') /\ Cardinality(AtWork') <= Cardinality(AtWork \cup {w})
        BY <2>3, <3>1, FS_Subset
      <4> QED
        BY <2>1, <3>1, <4>1, FS_CardinalityType
    <3>3. maxThreadCount \in Nat
      BY <1>1 DEF IInv, OtherTypes
    <3>4. Cardinality(AtWork) <= maxThreadCount
      <4>1. CASE allThreads = {}
        <5>1. AtWork = {}
          BY <1>1, <4>1 DEF AtWork, UInv, BusyInPool, Called
        <5> QED
          BY <3>3, <5>1, FS_EmptySet
      <4>2. CASE ~AreAllThreadsActive
        BY <2>1, <3>3, <4>2 DEF AreAllThreadsActive
      <4> QED
        BY <2>3, <4>1, <4>2 DEF CanStart
    <3> QED
      BY <2>1, <3>2, <3>3, <3>4 DEF AtWork
  <2> QED
    BY <1>1, <2>2, <2>3, StepAtWork
<1>2. IInv /\ UInv /\ [Next]_vars => [Bound]_vars
  BY <1>1
<1> QED
  BY <1>2, UntimedInvariance, PTL DEF Spec, ConcurrencyBound, BoundedStep

-----------------------------------------------------------------------------
(* Where each task is in the queue.                                        *)

At(q, i, e, x) == i \in DOMAIN q /\ e \in DOMAIN q[i].entries /\ q[i].entries[e] = x

AtMostOnce(q, x) ==
  \A i, j, d, e : At(q, i, d, x) /\ At(q, j, e, x) => i = j /\ d = e

Sorted(q) == \A i, j \in DOMAIN q : i < j => q[i].priority >= q[j].priority
Fits(q) == \A i \in DOMAIN q : Len(q[i].entries) <= q[i].pushed

\* Where page i of a queue was before a page was put in at u.
Old(u, i) == IF i < u THEN i ELSE i - 1

LEMMA AtTypes ==
  ASSUME NEW q, GoodQueue(q)
  PROVE  /\ Len(q) \in Nat /\ DOMAIN q = 1 .. Len(q)
         /\ \A i \in DOMAIN q :
              /\ GoodPage(q[i]) /\ q[i].entries \in Seq(Tasks) /\ q[i].priority \in Int
              /\ q[i].pushed \in 0 .. MaxPageSize
              /\ Len(q[i].entries) \in Nat \ {0}
              /\ DOMAIN q[i].entries = 1 .. Len(q[i].entries)
<1>1. q \in Seq(Page) /\ Len(q) \in Nat /\ DOMAIN q = 1 .. Len(q)
  BY LenProperties DEF GoodQueue
<1>2. ASSUME NEW i \in DOMAIN q
      PROVE  /\ GoodPage(q[i]) /\ q[i].entries \in Seq(Tasks) /\ q[i].priority \in Int
             /\ q[i].pushed \in 0 .. MaxPageSize /\ q[i].entries # <<>>
  <2>1. q[i] \in Page /\ q[i].entries # <<>> /\ q[i].priority >= 0
    BY <1>1, <1>2, ElementOfSeq DEF GoodQueue
  <2> QED
    BY <2>1 DEF GoodPage, Page
<1> QED
  BY <1>1, <1>2, LenProperties, EmptySeq

LEMMA QueuedAt ==
  ASSUME NEW q, NEW x
  PROVE  x \in Queued(q) <=> \E i, e : At(q, i, e, x)
BY DEF Queued, At

\* The entries of r are those of q, but for a new one of t.
Moved(r, q, t, u, i0, e0) ==
  /\ \A i, e, x : At(r, i, e, x) /\ ~(i = i0 /\ e = e0) =>
       i \in Nat /\ i # u /\ At(q, Old(u, i), e, x)
  /\ \A x : At(r, i0, e0, x) => x = t

\* enqueueTask leaves every entry where it was, but for the pages that the new
\* page moves up, and puts the task in one new place.
LEMMA EnqueuePlaces ==
  ASSUME NEW q, GoodQueue(q), NEW t \in Tasks, NEW p \in Nat
  PROVE  \E u, i0, e0 \in Nat :
           /\ Moved(EnqueueTask(q, t, p), q, t, u, i0, e0)
           /\ p = 0 /\ q # <<>> => u > 1 /\ ~(i0 = 1 /\ e0 = 1)
<1> DEFINE r == EnqueueTask(q, t, p)
<1>1. CASE \E i \in DOMAIN q : ~IsFull(q[i]) /\ r = [q EXCEPT ![i] = Push(q[i], t)]
  <2>1. PICK k \in DOMAIN q : ~IsFull(q[k]) /\ r = [q EXCEPT ![k] = Push(q[k], t)]
    BY <1>1
  <2> HIDE DEF r
  <2> DEFINE n == Len(q[k].entries)
             u == Len(q) + 1
  <2>2. /\ DOMAIN r = DOMAIN q /\ r[k].entries = Append(q[k].entries, t)
        /\ \A j \in DOMAIN q : j # k => r[j] = q[j]
    BY <2>1, PushAtGood
  <2>3. /\ n \in Nat \ {0} /\ k \in Nat /\ u \in Nat /\ u > 1
        /\ \A i \in DOMAIN q : i \in Nat /\ i < u
        /\ DOMAIN r[k].entries = 1 .. n + 1 /\ DOMAIN q[k].entries = 1 .. n
        /\ r[k].entries[n + 1] = t
        /\ \A e \in 1 .. n : r[k].entries[e] = q[k].entries[e]
    <3>1. /\ q[k].entries \in Seq(Tasks) /\ n \in Nat \ {0} /\ DOMAIN q[k].entries = 1 .. n
          /\ Len(q) \in Nat /\ DOMAIN q = 1 .. Len(q)
      BY AtTypes
    <3>2. /\ DOMAIN Append(q[k].entries, t) = 1 .. n + 1
          /\ Append(q[k].entries, t)[n + 1] = t
          /\ \A e \in 1 .. n : Append(q[k].entries, t)[e] = q[k].entries[e]
      BY <3>1, AppendProperties, LenProperties
    <3> QED
      BY <2>2, <3>1, <3>2
  <2> HIDE DEF n, u
  <2>4. ASSUME NEW i, NEW e, NEW x, At(r, i, e, x), ~(i = k /\ e = n + 1)
        PROVE  i \in Nat /\ i # u /\ At(q, Old(u, i), e, x)
    <3>1. i \in DOMAIN q /\ i \in Nat /\ i < u /\ Old(u, i) = i
      BY <2>2, <2>3, <2>4 DEF At, Old
    <3>2. CASE i = k
      <4>1. e \in 1 .. n
        BY <2>3, <2>4, <3>2 DEF At
      <4> QED
        BY <2>3, <2>4, <3>1, <3>2, <4>1 DEF At
    <3>3. CASE i # k
      BY <2>2, <2>4, <3>1, <3>3 DEF At
    <3> QED
      BY <2>3, <3>1, <3>2, <3>3
  <2>5. \A x : At(r, k, n + 1, x) => x = t
    BY <2>3 DEF At
  <2>6. n + 1 \in Nat /\ n + 1 # 1 /\ u > 1
    BY <2>3
  <2>7. Moved(r, q, t, u, k, n + 1)
    BY <2>4, <2>5 DEF Moved
  <2> QED
    BY <2>3, <2>6, <2>7 DEF r
<1>2. CASE \E u \in 1 .. Len(q) + 1 : /\ r = InsertPage(q, u, NewPage(t, p))
                                      /\ p = 0 /\ q # <<>> => u # 1
  <2>1. PICK u \in 1 .. Len(q) + 1 : /\ r = InsertPage(q, u, NewPage(t, p))
                                     /\ p = 0 /\ q # <<>> => u # 1
    BY <1>2
  <2> HIDE DEF r
  <2>2. /\ GoodQueue(r) /\ Len(r) = Len(q) + 1
        /\ \A i \in 1 .. Len(q) + 1 :
             r[i] = IF i < u THEN q[i] ELSE IF i = u THEN NewPage(t, p) ELSE q[i - 1]
    BY <2>1, NewPageGood, InsertGood
  <2>3. /\ Len(q) \in Nat /\ DOMAIN q = 1 .. Len(q) /\ u \in Nat
        /\ DOMAIN r = 1 .. Len(q) + 1
    BY <2>2, AtTypes
  <2>4. r[u].entries = <<t>> /\ DOMAIN r[u].entries = {1}
    <3>1. NewPage(t, p).entries = <<t>> /\ DOMAIN <<t>> = {1}
      BY NewPageGood
    <3> QED
      BY <2>2, <2>3, <3>1
  <2>5. ASSUME NEW i, NEW e, NEW x, At(r, i, e, x), ~(i = u /\ e = 1)
        PROVE  i \in Nat /\ i # u /\ At(q, Old(u, i), e, x)
    <3>1. i \in 1 .. Len(q) + 1 /\ i # u /\ i \in Nat
      BY <2>3, <2>4, <2>5 DEF At
    <3>2. Old(u, i) \in DOMAIN q /\ r[i] = q[Old(u, i)]
      <4>1. CASE i < u
        BY <2>2, <2>3, <3>1, <4>1 DEF Old
      <4>2. CASE ~(i < u)
        BY <2>2, <2>3, <3>1, <4>2 DEF Old
      <4> QED
        BY <4>1, <4>2
    <3> QED
      BY <2>5, <3>1, <3>2 DEF At
  <2>6. \A x : At(r, u, 1, x) => x = t
    BY <2>4 DEF At
  <2>7. Moved(r, q, t, u, u, 1)
    BY <2>5, <2>6 DEF Moved
  <2>8. p = 0 /\ q # <<>> => u > 1 /\ ~(u = 1 /\ 1 = 1)
    BY <2>1, <2>3
  <2> QED
    BY <2>3, <2>7, <2>8 DEF r
<1> QED
  BY <1>1, <1>2, EnqueueShape

\* A worker's pop takes the entry in front away, and moves the others up.
LEMMA PopPlaces ==
  ASSUME NEW q, GoodQueue(q), q # <<>>
  PROVE  \E gone \in BOOLEAN : \A i, e, x : At(PopPage(q, 1), i, e, x) =>
           /\ i \in Nat \ {0} /\ e \in Nat \ {0}
           /\ At(q, IF gone THEN i + 1 ELSE i, IF ~gone /\ i = 1 THEN e + 1 ELSE e, x)
<1> DEFINE s == q[1].entries
           r == [q EXCEPT ![1] = Pop(q[1])]
           g == PopPage(q, 1)
<1>1. /\ Len(q) \in Nat \ {0} /\ DOMAIN q = 1 .. Len(q) /\ 1 \in DOMAIN q
      /\ s \in Seq(Tasks) /\ s # <<>> /\ Len(s) \in Nat \ {0} /\ DOMAIN s = 1 .. Len(s)
      /\ q \in Seq(Page) /\ GoodPage(q[1])
  BY AtTypes, EmptySeq DEF GoodQueue
<1>2. /\ Tail(s) \in Seq(Tasks) /\ DOMAIN Tail(s) = 1 .. Len(s) - 1
      /\ \A e \in 1 .. Len(s) - 1 : Tail(s)[e] = s[e + 1]
  BY <1>1, HeadTailProperties, LenProperties
<1>3. /\ r \in Seq(Page) /\ Len(r) = Len(q) /\ DOMAIN r = DOMAIN q /\ r[1].entries = Tail(s)
      /\ \A i \in DOMAIN q : i # 1 => r[i] = q[i]
  <2>1. Pop(q[1]) \in Page /\ Pop(q[1]).entries = Tail(s)
    BY <1>1, PopGood
  <2>2. r \in Seq(Page) /\ Len(r) = Len(q)
    BY <1>1, <2>1, ExceptSeq
  <2> QED
    BY <1>1, <2>1, <2>2, LenProperties
<1>4. g = IF Tail(s) = <<>> THEN Tail(r) ELSE r
  BY <1>3 DEF PopPage, IsFinished
<1>5. \A i \in DOMAIN g : /\ i \in Nat \ {0}
                          /\ DOMAIN g[i].entries \subseteq Nat \ {0}
  <2>1. GoodQueue(g)
    BY PopPageGood
  <2> HIDE DEF g
  <2>2. Len(g) \in Nat /\ DOMAIN g = 1 .. Len(g)
    BY <2>1, AtTypes
  <2>3. \A i \in DOMAIN g : Len(g[i].entries) \in Nat /\ DOMAIN g[i].entries = 1 .. Len(g[i].entries)
    BY <2>1, AtTypes
  <2> QED
    BY <2>2, <2>3
<1> HIDE DEF r
<1>6. CASE Tail(s) = <<>>
  <2>1. r # <<>>
    BY <1>1, <1>3, EmptySeq
  <2>2. DOMAIN Tail(r) = 1 .. Len(q) - 1 /\ \A i \in 1 .. Len(q) - 1 : Tail(r)[i] = q[i + 1]
    <3>1. /\ DOMAIN Tail(r) = 1 .. Len(q) - 1
          /\ \A i \in 1 .. Len(q) - 1 : Tail(r)[i] = r[i + 1]
      BY <1>1, <1>3, <2>1, HeadTailProperties, LenProperties
    <3> QED
      BY <1>1, <1>3, <3>1
  <2>3. ASSUME NEW i, NEW e, NEW x, At(Tail(r), i, e, x) PROVE At(q, i + 1, e, x)
    <3>1. i \in 1 .. Len(q) - 1 /\ i + 1 \in DOMAIN q /\ Tail(r)[i] = q[i + 1]
      BY <1>1, <2>2, <2>3 DEF At
    <3> QED
      BY <2>3, <3>1 DEF At
  <2>4. \A i, e, x : At(g, i, e, x) => i \in Nat \ {0} /\ e \in Nat \ {0} /\ At(q, i + 1, e, x)
    BY <1>4, <1>5, <1>6, <2>3 DEF At
  <2> HIDE DEF g
  <2>5. \A i, e, x : At(g, i, e, x) =>
           /\ i \in Nat \ {0} /\ e \in Nat \ {0}
           /\ At(q, IF TRUE THEN i + 1 ELSE i, IF ~TRUE /\ i = 1 THEN e + 1 ELSE e, x)
    BY <2>4
  <2> QED
    BY <2>5 DEF g
<1>7. CASE Tail(s) # <<>>
  <2>1. ASSUME NEW i, NEW e, NEW x, At(r, i, e, x)
        PROVE  At(q, i, IF i = 1 THEN e + 1 ELSE e, x)
    <3>1. CASE i = 1
      <4>0. e \in DOMAIN Tail(s)
        BY <1>3, <2>1, <3>1 DEF At
      <4>1. e \in 1 .. Len(s) - 1 /\ e + 1 \in DOMAIN s /\ Tail(s)[e] = s[e + 1]
        <5> HIDE DEF s
        <5>1. e \in 1 .. Len(s) - 1 /\ Len(s) \in Nat
          BY <1>1, <1>2, <4>0
        <5> QED
          BY <1>1, <1>2, <5>1
      <4> QED
        BY <1>1, <1>3, <2>1, <3>1, <4>1 DEF At
    <3>2. CASE i # 1
      BY <1>3, <2>1, <3>2 DEF At
    <3> QED
      BY <3>1, <3>2
  <2>2. \A i, e, x : At(g, i, e, x) =>
           i \in Nat \ {0} /\ e \in Nat \ {0} /\ At(q, i, IF i = 1 THEN e + 1 ELSE e, x)
    BY <1>4, <1>5, <1>7, <2>1 DEF At
  <2> HIDE DEF g
  <2>3. \A i, e, x : At(g, i, e, x) =>
           /\ i \in Nat \ {0} /\ e \in Nat \ {0}
           /\ At(q, IF FALSE THEN i + 1 ELSE i, IF ~FALSE /\ i = 1 THEN e + 1 ELSE e, x)
    BY <2>2
  <2> QED
    BY <2>3 DEF g
<1> QED
  BY <1>6, <1>7

\* Before any position of a queue that is not below p comes nothing below p.
LEMMA EnqueueSorted ==
  ASSUME NEW q, GoodQueue(q), Sorted(q), Fits(q), NEW t \in Tasks, NEW p \in Nat
  PROVE  Sorted(EnqueueTask(q, t, p)) /\ Fits(EnqueueTask(q, t, p))
<1> DEFINE r == EnqueueTask(q, t, p)
<1>1. /\ Len(q) \in Nat /\ DOMAIN q = 1 .. Len(q)
      /\ \A i \in DOMAIN q : /\ GoodPage(q[i]) /\ q[i].priority \in Int /\ q[i].pushed \in Int
                             /\ q[i].entries \in Seq(Tasks) /\ Len(q[i].entries) \in Nat
  BY AtTypes
<1>2. CASE \E i \in DOMAIN q : ~IsFull(q[i]) /\ r = [q EXCEPT ![i] = Push(q[i], t)]
  <2>1. PICK k \in DOMAIN q : ~IsFull(q[k]) /\ r = [q EXCEPT ![k] = Push(q[k], t)]
    BY <1>2
  <2> HIDE DEF r
  <2>2. /\ Push(q[k], t).priority = q[k].priority
        /\ Push(q[k], t).pushed = q[k].pushed + 1
        /\ Len(Push(q[k], t).entries) = Len(q[k].entries) + 1
    <3>1. q[k] \in Page /\ Len(Append(q[k].entries, t)) = Len(q[k].entries) + 1
      BY <1>1, AppendProperties DEF GoodPage
    <3> QED
      BY <3>1 DEF Push, Page
  <2>3. /\ DOMAIN r = DOMAIN q
        /\ \A i \in DOMAIN q : r[i] = IF i = k THEN Push(q[k], t) ELSE q[i]
    BY <2>1
  <2>4. \A i \in DOMAIN q : r[i].priority = q[i].priority
    BY <2>2, <2>3
  <2>5. Sorted(r)
    BY <2>3, <2>4 DEF Sorted
  <2>6. Fits(r)
    BY <1>1, <2>2, <2>3 DEF Fits
  <2> QED
    BY <2>5, <2>6 DEF r
<1>3. CASE /\ r = InsertPage(q, UpperBound(q, p), NewPage(t, p))
  <2> DEFINE u == UpperBound(q, p)
  <2>1. /\ u \in 1 .. Len(q) + 1
        /\ u \in DOMAIN q => p > q[u].priority
        /\ \A j \in 1 .. u - 1 : ~(p > q[j].priority)
    BY UpperBoundPlace
  <2>2. r = InsertPage(q, u, NewPage(t, p))
    BY <1>3
  <2> HIDE DEF u, r
  <2>3. /\ GoodQueue(r) /\ Len(r) = Len(q) + 1
        /\ \A i \in 1 .. Len(q) + 1 :
             r[i] = IF i < u THEN q[i] ELSE IF i = u THEN NewPage(t, p) ELSE q[i - 1]
    BY <2>1, <2>2, NewPageGood, InsertGood
  <2>4. DOMAIN r = 1 .. Len(q) + 1
    BY <2>3, AtTypes
  <2>5. /\ NewPage(t, p).priority = p /\ NewPage(t, p).pushed = 1
        /\ Len(NewPage(t, p).entries) = 1
    BY DEF NewPage
  <2>6. \A i \in DOMAIN q : (i < u => q[i].priority >= p) /\ (i >= u => q[i].priority < p)
    <3>1. ASSUME NEW i \in DOMAIN q, i < u PROVE q[i].priority >= p
      BY <1>1, <2>1, <3>1
    <3>2. ASSUME NEW i \in DOMAIN q, i >= u PROVE q[i].priority < p
      <4>1. u \in DOMAIN q /\ (i = u \/ u < i)
        BY <1>1, <2>1, <3>2
      <4>2. q[u].priority >= q[i].priority
        BY <1>1, <4>1 DEF Sorted
      <4> QED
        BY <1>1, <2>1, <4>1, <4>2
    <3> QED
      BY <3>1, <3>2
  <2>7. ASSUME NEW i \in DOMAIN r
        PROVE  /\ i < u => i \in DOMAIN q /\ r[i] = q[i]
               /\ i = u => r[i] = NewPage(t, p)
               /\ i > u => i - 1 \in DOMAIN q /\ i - 1 >= u /\ r[i] = q[i - 1]
    BY <1>1, <2>1, <2>3, <2>4, <2>7
  <2>8. ASSUME NEW i \in DOMAIN r, NEW j \in DOMAIN r, i < j
        PROVE  r[i].priority >= r[j].priority
    <3>1. i \in Int /\ j \in Int /\ u \in Int
      BY <2>1, <2>4
    <3>2. CASE j < u
      BY <2>7, <2>8, <3>1, <3>2 DEF Sorted
    <3>3. CASE j = u
      BY <2>5, <2>6, <2>7, <2>8, <3>1, <3>3
    <3>4. CASE i < u /\ j > u
      <4>1. r[i].priority \in Int /\ r[j].priority \in Int /\ r[i].priority >= p /\ r[j].priority < p
        BY <1>1, <2>6, <2>7, <3>4
      <4> QED
        BY <4>1
    <3>5. CASE i = u /\ j > u
      <4>1. r[j].priority \in Int /\ r[i].priority = p /\ r[j].priority < p
        BY <1>1, <2>5, <2>6, <2>7, <3>5
      <4> QED
        BY <4>1
    <3>6. CASE i > u
      BY <2>7, <2>8, <3>1, <3>6 DEF Sorted
    <3> QED
      BY <2>8, <3>1, <3>2, <3>3, <3>4, <3>5, <3>6
  <2>9. ASSUME NEW i \in DOMAIN r PROVE Len(r[i].entries) <= r[i].pushed
    <3>1. i < u \/ i = u \/ i > u
      BY <2>1, <2>4
    <3>2. CASE i < u
      BY <2>7, <3>2 DEF Fits
    <3>3. CASE i = u
      <4>1. r[i] = NewPage(t, p)
        BY <2>7, <3>3
      <4> QED
        BY <2>5, <4>1
    <3>4. CASE i > u
      BY <2>7, <3>4 DEF Fits
    <3> QED
      BY <3>1, <3>2, <3>3, <3>4
  <2> QED
    BY <2>8, <2>9 DEF r, Sorted, Fits
<1> QED
  BY <1>2, <1>3, EnqueueShape

LEMMA PopSorted ==
  ASSUME NEW q, GoodQueue(q), Sorted(q), Fits(q), q # <<>>
  PROVE  Sorted(PopPage(q, 1)) /\ Fits(PopPage(q, 1))
<1> DEFINE s == q[1].entries
           r == [q EXCEPT ![1] = Pop(q[1])]
<1>1. /\ Len(q) \in Nat \ {0} /\ DOMAIN q = 1 .. Len(q) /\ 1 \in DOMAIN q
      /\ s \in Seq(Tasks) /\ s # <<>> /\ Len(s) \in Nat \ {0}
      /\ q \in Seq(Page) /\ GoodPage(q[1]) /\ q[1].pushed \in Int
  BY AtTypes, EmptySeq DEF GoodQueue
<1>2. /\ Pop(q[1]) \in Page /\ Pop(q[1]).priority = q[1].priority
      /\ Pop(q[1]).entries = Tail(s) /\ Pop(q[1]).pushed = q[1].pushed
      /\ Len(Tail(s)) = Len(s) - 1
  <2>1. q[1] \in Page
    BY <1>1 DEF GoodPage
  <2> QED
    BY <1>1, <2>1, PopGood, HeadTailProperties DEF Pop, Page
<1>3. /\ r \in Seq(Page) /\ Len(r) = Len(q) /\ DOMAIN r = DOMAIN q
      /\ \A i \in DOMAIN q : r[i] = IF i = 1 THEN Pop(q[1]) ELSE q[i]
  <2>1. r \in Seq(Page) /\ Len(r) = Len(q)
    BY <1>1, <1>2, ExceptSeq
  <2> QED
    BY <1>1, <2>1, LenProperties
<1>4. PopPage(q, 1) = IF Tail(s) = <<>> THEN Tail(r) ELSE r
  BY <1>1, <1>2, <1>3 DEF PopPage, IsFinished
<1> HIDE DEF r
<1>5. Sorted(r) /\ Fits(r)
  <2>1. \A i \in DOMAIN q : r[i].priority = q[i].priority
    BY <1>2, <1>3
  <2>2. Len(r[1].entries) <= r[1].pushed
    <3>1. r[1].entries = Tail(s) /\ r[1].pushed = q[1].pushed
      BY <1>1, <1>2, <1>3
    <3>2. Len(s) <= q[1].pushed
      BY <1>1 DEF Fits
    <3> QED
      BY <1>1, <1>2, <3>1, <3>2
  <2> QED
    BY <1>3, <2>1, <2>2 DEF Sorted, Fits
<1>6. CASE Tail(s) = <<>>
  <2>1. r # <<>>
    BY <1>1, <1>3, EmptySeq
  <2>2. /\ DOMAIN Tail(r) = 1 .. Len(q) - 1
        /\ \A i \in 1 .. Len(q) - 1 : Tail(r)[i] = r[i + 1]
    BY <1>1, <1>3, <2>1, HeadTailProperties, LenProperties
  <2>3. ASSUME NEW i \in DOMAIN Tail(r)
        PROVE  i \in Int /\ i + 1 \in DOMAIN r /\ Tail(r)[i] = r[i + 1]
    BY <1>1, <1>3, <2>2, <2>3
  <2>4. Sorted(Tail(r))
    BY <1>5, <2>3 DEF Sorted
  <2>5. Fits(Tail(r))
    BY <1>5, <2>3 DEF Fits
  <2> QED
    BY <1>4, <1>6, <2>4, <2>5
<1> QED
  BY <1>4, <1>5, <1>6

\* What is queued once still is; the new task comes once more.
LEMMA EnqueueOnce ==
  ASSUME NEW q, GoodQueue(q), NEW t \in Tasks, t \notin Queued(q), NEW p \in Nat,
         \A x : AtMostOnce(q, x)
  PROVE  /\ \A x : AtMostOnce(EnqueueTask(q, t, p), x)
         /\ Queued(EnqueueTask(q, t, p)) = Queued(q) \cup {t}
<1> DEFINE r == EnqueueTask(q, t, p)
<1>0. PICK u, i0, e0 \in Nat : Moved(r, q, t, u, i0, e0)
  BY EnqueuePlaces
<1>1. /\ \A i, e, x : At(r, i, e, x) /\ ~(i = i0 /\ e = e0) =>
           i \in Nat /\ i # u /\ At(q, Old(u, i), e, x)
      /\ \A x : At(r, i0, e0, x) => x = t
  BY <1>0 DEF Moved
<1>2. Queued(q) \cup {t} \subseteq Queued(r)
  BY EnqueueGood
<1> HIDE DEF r
<1>3. ASSUME NEW x, NEW i, NEW j, NEW d, NEW e, At(r, i, d, x), At(r, j, e, x)
      PROVE  i = j /\ d = e
  <2>1. CASE i = i0 /\ d = e0
    <3>1. x = t
      BY <1>1, <1>3, <2>1
    <3>2. \A k, f : ~At(q, k, f, x)
      BY <3>1, QueuedAt
    <3> QED
      BY <1>1, <1>3, <2>1, <3>2
  <2>2. CASE j = i0 /\ e = e0
    <3>1. x = t
      BY <1>1, <1>3, <2>2
    <3>2. \A k, f : ~At(q, k, f, x)
      BY <3>1, QueuedAt
    <3> QED
      BY <1>1, <1>3, <2>2, <3>2
  <2>3. CASE ~(i = i0 /\ d = e0) /\ ~(j = i0 /\ e = e0)
    <3>1. /\ i \in Nat /\ i # u /\ At(q, Old(u, i), d, x)
          /\ j \in Nat /\ j # u /\ At(q, Old(u, j), e, x)
      BY <1>1, <1>3, <2>3
    <3>2. Old(u, i) = Old(u, j) /\ d = e
      BY <3>1 DEF AtMostOnce
    <3> QED
      BY <3>1, <3>2 DEF Old
  <2> QED
    BY <2>1, <2>2, <2>3
<1>4. ASSUME NEW x \in Queued(r) PROVE x \in Queued(q) \cup {t}
  <2>1. PICK i, e : At(r, i, e, x)
    BY QueuedAt
  <2>2. x = t \/ At(q, Old(u, i), e, x)
    BY <1>1, <2>1
  <2> QED
    BY <2>2, QueuedAt
<1> QED
  BY <1>2, <1>3, <1>4 DEF AtMostOnce, r

\* Places that differ come from places that differ, and none from the front.
LEMMA PopOnce ==
  ASSUME NEW q, GoodQueue(q), q # <<>>, NEW x,
         \A i, j, d, e : /\ At(q, i, d, x) /\ ~(i = 1 /\ d = 1)
                         /\ At(q, j, e, x) /\ ~(j = 1 /\ e = 1)
                         => i = j /\ d = e
  PROVE  /\ AtMostOnce(PopPage(q, 1), x)
         /\ AtMostOnce(q, x) /\ x = FirstTask(q) => x \notin Queued(PopPage(q, 1))
<1> DEFINE r == PopPage(q, 1)
<1>1. PICK gone \in BOOLEAN : \A i, e, y : At(r, i, e, y) =>
        /\ i \in Nat \ {0} /\ e \in Nat \ {0}
        /\ At(q, IF gone THEN i + 1 ELSE i, IF ~gone /\ i = 1 THEN e + 1 ELSE e, y)
  BY PopPlaces
<1>2. At(q, 1, 1, FirstTask(q))
  <2>1. /\ 1 \in DOMAIN q /\ q[1].entries \in Seq(Tasks) /\ q[1].entries # <<>>
        /\ Len(q[1].entries) \in Nat \ {0} /\ DOMAIN q[1].entries = 1 .. Len(q[1].entries)
    BY AtTypes, EmptySeq DEF GoodQueue
  <2> QED
    BY <2>1 DEF At, FirstTask
<1> HIDE DEF r
<1>3. ASSUME NEW i, NEW e, At(r, i, e, x)
      PROVE  \E k, f : /\ At(q, k, f, x) /\ ~(k = 1 /\ f = 1)
                       /\ k = (IF gone THEN i + 1 ELSE i)
                       /\ f = (IF ~gone /\ i = 1 THEN e + 1 ELSE e)
                       /\ i \in Nat \ {0} /\ e \in Nat \ {0}
  <2> DEFINE k == IF gone THEN i + 1 ELSE i
             f == IF ~gone /\ i = 1 THEN e + 1 ELSE e
  <2>1. i \in Nat \ {0} /\ e \in Nat \ {0} /\ At(q, k, f, x)
    BY <1>1, <1>3
  <2>2. ~(k = 1 /\ f = 1)
    BY <2>1
  <2> QED
    BY <2>1, <2>2
<1>4. ASSUME NEW i, NEW j, NEW d, NEW e, At(r, i, d, x), At(r, j, e, x)
      PROVE  i = j /\ d = e
  <2>1. PICK k, f : /\ At(q, k, f, x) /\ ~(k = 1 /\ f = 1)
                    /\ k = (IF gone THEN i + 1 ELSE i)
                    /\ f = (IF ~gone /\ i = 1 THEN d + 1 ELSE d)
                    /\ i \in Nat \ {0} /\ d \in Nat \ {0}
    BY <1>3, <1>4
  <2>2. PICK l, g : /\ At(q, l, g, x) /\ ~(l = 1 /\ g = 1)
                    /\ l = (IF gone THEN j + 1 ELSE j)
                    /\ g = (IF ~gone /\ j = 1 THEN e + 1 ELSE e)
                    /\ j \in Nat \ {0} /\ e \in Nat \ {0}
    BY <1>3, <1>4
  <2>3. k = l /\ f = g
    BY <2>1, <2>2
  <2> QED
    BY <2>1, <2>2, <2>3
<1>5. ASSUME AtMostOnce(q, x), x = FirstTask(q), x \in Queued(r) PROVE FALSE
  <2>1. PICK i, e : At(r, i, e, x)
    BY <1>5, QueuedAt
  <2>2. \E k, f : At(q, k, f, x) /\ ~(k = 1 /\ f = 1)
    BY <1>3, <2>1
  <2> QED
    BY <1>2, <1>5, <2>2 DEF AtMostOnce
<1> QED
  BY <1>4, <1>5 DEF AtMostOnce, r

\* The queue as it should be: in order, no page over-full, no task twice.
SoundQueue(q) == Sorted(q) /\ Fits(q) /\ \A x : AtMostOnce(q, x)

LEMMA EnqueueSound ==
  ASSUME NEW q, GoodQueue(q), SoundQueue(q), NEW t \in Tasks, t \notin Queued(q), NEW p \in Nat
  PROVE  /\ SoundQueue(EnqueueTask(q, t, p))
         /\ Queued(EnqueueTask(q, t, p)) = Queued(q) \cup {t}
BY EnqueueSorted, EnqueueOnce DEF SoundQueue

LEMMA PopSound ==
  ASSUME NEW q, GoodQueue(q), SoundQueue(q), q # <<>>
  PROVE  /\ SoundQueue(PopPage(q, 1)) /\ FirstTask(q) \in Queued(q)
         /\ Queued(PopPage(q, 1)) = Queued(q) \ {FirstTask(q)}
<1>1. \A x : AtMostOnce(PopPage(q, 1), x)
  BY PopOnce DEF SoundQueue, AtMostOnce
<1>2. FirstTask(q) \notin Queued(PopPage(q, 1))
  BY PopOnce DEF SoundQueue, AtMostOnce
<1>3. Queued(q) \subseteq Queued(PopPage(q, 1)) \cup {FirstTask(q)}
  BY PopPageGood
<1>4. FirstTask(q) \in Queued(q)
  <2>1. /\ 1 \in DOMAIN q /\ Len(q[1].entries) \in Nat \ {0} /\ q[1].entries \in Seq(Tasks)
        /\ DOMAIN q[1].entries = 1 .. Len(q[1].entries) /\ q[1].entries # <<>>
    BY AtTypes, EmptySeq DEF GoodQueue
  <2>2. At(q, 1, 1, FirstTask(q))
    BY <2>1 DEF At, FirstTask
  <2> QED
    BY <2>2, QueuedAt
<1>5. Queued(PopPage(q, 1)) \subseteq Queued(q)
  <2> SUFFICES ASSUME NEW x \in Queued(PopPage(q, 1)) PROVE x \in Queued(q)
    OBVIOUS
  <2>1. PICK i, e : At(PopPage(q, 1), i, e, x)
    BY QueuedAt
  <2>2. \E k, f : At(q, k, f, x)
    BY <2>1, PopPlaces
  <2> QED
    BY <2>2, QueuedAt
<1>6. Sorted(PopPage(q, 1)) /\ Fits(PopPage(q, 1))
  BY PopSorted DEF SoundQueue
<1> QED
  BY <1>1, <1>2, <1>3, <1>4, <1>5, <1>6 DEF SoundQueue

\* tryToStartMoreThreads: of the two places of the task, the front one goes.
LEMMA RequeueSound ==
  ASSUME NEW q, GoodQueue(q), SoundQueue(q), q # <<>>
  PROVE  LET t == FirstTask(q)
             r == PopPage(EnqueueTask(q, t, 0), FrontAfter(q, t, 0))
         IN  SoundQueue(r) /\ Queued(r) = Queued(q)
<1> DEFINE t == FirstTask(q)
           b == EnqueueTask(q, t, 0)
<1>1. t \in Tasks /\ t \in Queued(q)
  BY PopPageGood, PopSound
<1>2. FrontAfter(q, t, 0) = 1
  BY UpperBoundPlace DEF FrontAfter
<1>3. GoodQueue(b) /\ b # <<>> /\ Sorted(b) /\ Fits(b)
  BY <1>1, EnqueueGood, EnqueueSorted DEF SoundQueue
<1>4. At(q, 1, 1, t)
  <2>1. /\ 1 \in DOMAIN q /\ Len(q[1].entries) \in Nat \ {0} /\ q[1].entries \in Seq(Tasks)
        /\ DOMAIN q[1].entries = 1 .. Len(q[1].entries) /\ q[1].entries # <<>>
    BY AtTypes, EmptySeq DEF GoodQueue
  <2> QED
    BY <2>1 DEF At, FirstTask
<1>0. PICK u, i0, e0 \in Nat :
        Moved(b, q, t, u, i0, e0) /\ u > 1 /\ ~(i0 = 1 /\ e0 = 1)
  BY <1>1, EnqueuePlaces
<1> HIDE DEF b, t
<1>5. /\ \A i, e, x : At(b, i, e, x) /\ ~(i = i0 /\ e = e0) =>
           i \in Nat /\ i # u /\ At(q, Old(u, i), e, x)
      /\ \A x : At(b, i0, e0, x) => x = t
  BY <1>0 DEF Moved
<1>6. ASSUME NEW i, NEW d, At(b, i, d, t), ~(i = 1 /\ d = 1) PROVE i = i0 /\ d = e0
  <2> SUFFICES ASSUME ~(i = i0 /\ d = e0) PROVE FALSE
    OBVIOUS
  <2>1. i \in Nat /\ i # u /\ At(q, Old(u, i), d, t)
    BY <1>5, <1>6
  <2>2. Old(u, i) = 1 /\ d = 1
    BY <1>4, <2>1 DEF SoundQueue, AtMostOnce
  <2>3. u \in Nat /\ u > 1
    BY <1>0
  <2> QED
    BY <1>6, <2>1, <2>2, <2>3 DEF Old
<1>7. ASSUME NEW x, NEW i, NEW j, NEW d, NEW e,
             At(b, i, d, x), ~(i = 1 /\ d = 1), At(b, j, e, x), ~(j = 1 /\ e = 1)
      PROVE  i = j /\ d = e
  <2>1. CASE x = t
    <3>1. i = i0 /\ d = e0
      BY <1>6, <1>7, <2>1
    <3>2. j = i0 /\ e = e0
      BY <1>6, <1>7, <2>1
    <3> QED
      BY <3>1, <3>2
  <2>2. CASE x # t
    <3>1. ~(i = i0 /\ d = e0) /\ ~(j = i0 /\ e = e0)
      BY <1>5, <1>7, <2>2
    <3>2. /\ i \in Nat /\ i # u /\ At(q, Old(u, i), d, x)
          /\ j \in Nat /\ j # u /\ At(q, Old(u, j), e, x)
      BY <1>5, <1>7, <3>1
    <3>3. Old(u, i) = Old(u, j) /\ d = e
      BY <3>2 DEF SoundQueue, AtMostOnce
    <3> QED
      BY <3>2, <3>3 DEF Old
  <2> QED
    BY <2>1, <2>2
<1>8. \A x : AtMostOnce(PopPage(b, 1), x)
  <2> SUFFICES ASSUME NEW x PROVE AtMostOnce(PopPage(b, 1), x)
    OBVIOUS
  <2>1. \A i, j, d, e : /\ At(b, i, d, x) /\ ~(i = 1 /\ d = 1)
                        /\ At(b, j, e, x) /\ ~(j = 1 /\ e = 1)
                        => i = j /\ d = e
    BY <1>7
  <2> QED
    BY <1>3, <2>1, PopOnce
<1>9. Sorted(PopPage(b, 1)) /\ Fits(PopPage(b, 1))
  BY <1>3, PopSorted
<1>10. Queued(q) \subseteq Queued(PopPage(b, 1))
  BY <1>2, RequeueGood DEF b, t
<1>11. ASSUME NEW x \in Queued(PopPage(b, 1)) PROVE x \in Queued(q)
  <2>1. PICK i, e : At(PopPage(b, 1), i, e, x)
    BY QueuedAt
  <2>2. PICK k, f : At(b, k, f, x)
    BY <1>3, <2>1, PopPlaces
  <2>3. x = t \/ At(q, Old(u, k), f, x)
    BY <1>5, <2>2
  <2> QED
    BY <1>1, <2>3, QueuedAt
<1> QED
  BY <1>2, <1>8, <1>9, <1>10, <1>11 DEF SoundQueue, b, t

-----------------------------------------------------------------------------
(* Every accepted task is in one place.                                    *)

\* A task is queued, or with the one thread that is busy with it, only while it
\* is pending; a thread that is not busy has none.
TasksOK ==
  /\ SoundQueue(queue)
  /\ \A t \in Queued(queue) : status[t] = "pending"
  /\ \A w \in Busy : /\ task[w] \in Tasks /\ status[task[w]] = "pending"
                     /\ task[w] \notin Queued(queue)
  /\ \A w \in Workers : w \notin Busy => task[w] = NoTask
  /\ \A v, w \in Busy : task[v] = task[w] => v = w

LEMMA QueuedTasks ==
  ASSUME NEW q, GoodQueue(q)
  PROVE  Queued(q) \subseteq Tasks
<1> SUFFICES ASSUME NEW t \in Queued(q) PROVE t \in Tasks
  OBVIOUS
<1>1. PICK i, e : At(q, i, e, t)
  BY QueuedAt
<1>2. i \in DOMAIN q /\ q[i].entries \in Seq(Tasks) /\ e \in DOMAIN q[i].entries /\ q[i].entries[e] = t
  BY <1>1, AtTypes DEF At
<1> QED
  BY <1>2, ElementOfSeq, LenProperties

\* A thread gets the task t.
LEMMA HandedTasks ==
  ASSUME IInv, TasksOK, NEW t \in Tasks, NEW w \in Workers, Handed(t, w),
         SoundQueue(queue'), Queued(queue') \subseteq Queued(queue) \ {t},
         \A v \in Busy : task[v] # t,
         status'[t] = "pending", \A x \in Tasks : x # t => status'[x] = status[x]
  PROVE  TasksOK'
<1>1. Queued(queue) \subseteq Tasks
  BY QueuedTasks DEF IInv
<1>2. /\ w \notin Busy /\ Busy' = Busy \cup {w}
      /\ \A v \in Workers : task'[v] = IF v = w THEN t ELSE task[v]
  BY DEF Handed, IInv, ThreadsOK, ThreadTypes
<1>3. Busy \subseteq Workers
  BY DEF Busy
<1>4. \A x \in Queued(queue') : status'[x] = "pending"
  BY <1>1 DEF TasksOK
<1>5. \A v \in Busy' : /\ task'[v] \in Tasks /\ status'[task'[v]] = "pending"
                       /\ task'[v] \notin Queued(queue')
  BY <1>2, <1>3 DEF TasksOK
<1>6. \A v \in Workers : v \notin Busy' => task'[v] = NoTask
  BY <1>2 DEF TasksOK
<1>7. \A v, x \in Busy' : task'[v] = task'[x] => v = x
  BY <1>2, <1>3 DEF TasksOK
<1> QED
  BY <1>4, <1>5, <1>6, <1>7 DEF TasksOK

\* The tasks stay where they are, but for new ones and settled ones.
LEMMA SameTasks ==
  ASSUME TasksOK, Busy' = Busy, task' = task, SoundQueue(queue'), Queued(queue') = Queued(queue),
         \A t : status[t] = "pending" => status'[t] = "pending"
  PROVE  TasksOK'
BY DEF TasksOK

LEMMA AcceptTasks ==
  ASSUME IInv, TasksOK, NEW t \in Tasks, NEW p \in Nat, Accept(t),
         \/ TryStart(t, queue, EnqueueTask(queue, t, 0))
         \/ queue' = EnqueueTask(queue, t, p) /\ UNCHANGED <<activeThreadNum, lists, worker, task>>
  PROVE  TasksOK'
<1>1. /\ status[t] = "fresh" /\ UNCHANGED waiter
      /\ \A x \in Tasks : status'[x] = IF x = t THEN "pending" ELSE status[x]
  BY DEF Accept, IInv, OtherTypes
<1>2. t \notin Queued(queue) /\ \A v \in Busy : task[v] # t
  BY <1>1 DEF TasksOK
<1>3. ASSUME NEW r \in Nat, queue' = EnqueueTask(queue, t, r), Busy' = Busy, task' = task
      PROVE  TasksOK'
  <2>1. SoundQueue(queue') /\ Queued(queue') = Queued(queue) \cup {t}
    BY <1>2, <1>3, EnqueueSound DEF IInv, TasksOK
  <2>2. Queued(queue) \subseteq Tasks
    BY QueuedTasks DEF IInv
  <2> QED
    BY <1>1, <1>2, <1>3, <2>1, <2>2 DEF TasksOK
<1>4. CASE TryStart(t, queue, EnqueueTask(queue, t, 0))
  <2>1. CASE queue' = queue /\ \E w \in Workers : Handed(t, w)
    BY <1>1, <1>2, <2>1, HandedTasks DEF TasksOK
  <2>2. CASE queue' = EnqueueTask(queue, t, 0) /\ Busy' = Busy /\ task' = task
    BY <1>3, <2>2
  <2> QED
    BY <1>1, <1>4, <2>1, <2>2, TryStartOK DEF IInv
<1>5. CASE queue' = EnqueueTask(queue, t, p) /\ UNCHANGED <<activeThreadNum, lists, worker, task>>
  BY <1>3, <1>5 DEF Busy
<1> QED
  BY <1>4, <1>5

LEMMA StartMoreTasks ==
  ASSUME IInv, TasksOK, StartMore
  PROVE  TasksOK'
<1> DEFINE t == FirstTask(queue)
           requeued == PopPage(EnqueueTask(queue, t, 0), FrontAfter(queue, t, 0))
<1>1. CASE queue # <<>> /\ TryStart(t, PopPage(queue, 1), requeued)
  <2>1. t \in Tasks
    BY <1>1, PopPageGood DEF IInv
  <2>2. /\ t \in Queued(queue) /\ SoundQueue(PopPage(queue, 1))
        /\ Queued(PopPage(queue, 1)) = Queued(queue) \ {t}
    BY <1>1, PopSound DEF IInv, TasksOK
  <2>3. SoundQueue(requeued) /\ Queued(requeued) = Queued(queue)
    BY <1>1, RequeueSound DEF IInv, TasksOK
  <2> HIDE DEF t, requeued
  <2>4. status[t] = "pending" /\ status' = status /\ UNCHANGED waiter /\ \A v \in Busy : task[v] # t
    BY <2>2 DEF TasksOK, StartMore
  <2>5. CASE queue' = PopPage(queue, 1) /\ \E w \in Workers : Handed(t, w)
    BY <2>1, <2>2, <2>4, <2>5, HandedTasks
  <2>6. CASE queue' = requeued /\ Busy' = Busy /\ task' = task
    BY <2>3, <2>4, <2>6, SameTasks
  <2> QED
    BY <1>1, <2>1, <2>4, <2>5, <2>6, TryStartOK DEF IInv
<1>2. CASE UNCHANGED <<activeThreadNum, lists, queue, worker, task>>
  BY <1>2, SameTasks DEF StartMore, TasksOK, Busy
<1> QED
  BY <1>1, <1>2 DEF StartMore

\* A thread whose hands are empty, or whose task is settled, takes the next one.
LEMMA TakeOrRestTasks ==
  ASSUME IInv, TasksOK, NEW w \in Workers, NEW active, TakeOrRest(w, active),
         \A t \in Tasks : t # task[w] => status'[t] = status[t]
  PROVE  TasksOK'
<1>1. /\ worker \in [Workers -> WorkerState] /\ task \in [Workers -> Tasks \cup {NoTask}]
      /\ Queued(queue) \subseteq Tasks /\ Busy \subseteq Workers
  BY QueuedTasks DEF IInv, ThreadsOK, ThreadTypes, Busy
<1>2. task[w] \notin Queued(queue)
  BY <1>1, PoolAssumption DEF TasksOK
<1>3. \A v \in Busy \ {w} : task[v] # task[w]
  BY <1>1, PoolAssumption DEF TasksOK
<1>4. CASE /\ queue # <<>> /\ task' = [task EXCEPT ![w] = FirstTask(queue)]
           /\ queue' = PopPage(queue, 1) /\ worker' = [worker EXCEPT ![w] = "running"]
  <2> DEFINE t == FirstTask(queue)
  <2>1. /\ t \in Tasks /\ t \in Queued(queue) /\ SoundQueue(queue')
        /\ Queued(queue') = Queued(queue) \ {t}
    BY <1>4, PopPageGood, PopSound DEF IInv, TasksOK
  <2>2. Busy' = Busy \cup {w} /\ \A v \in Workers : task'[v] = IF v = w THEN t ELSE task[v]
    BY <1>1, <1>4 DEF Busy
  <2> HIDE DEF t
  <2>3. \A x \in Queued(queue) : status'[x] = "pending"
    BY <1>1, <1>2 DEF TasksOK
  <2>4. \A v \in Busy \ {w} : /\ task'[v] \in Tasks /\ status'[task'[v]] = "pending"
                              /\ task'[v] \notin Queued(queue) /\ task'[v] # t
    BY <1>1, <1>3, <2>1, <2>2 DEF TasksOK
  <2>5. \A v \in Busy' : /\ task'[v] \in Tasks /\ status'[task'[v]] = "pending"
                         /\ task'[v] \notin Queued(queue')
    BY <2>1, <2>2, <2>3, <2>4
  <2>6. \A v, x \in Busy' : task'[v] = task'[x] => v = x
    BY <1>1, <2>2, <2>4 DEF TasksOK
  <2>7. \A v \in Workers : v \notin Busy' => task'[v] = NoTask
    BY <2>2 DEF TasksOK
  <2> QED
    BY <2>1, <2>3, <2>5, <2>6, <2>7 DEF TasksOK
<1>5. CASE /\ task' = [task EXCEPT ![w] = NoTask] /\ queue' = queue
           /\ \E pc \in {"finished", "parked"} : worker' = [worker EXCEPT ![w] = pc]
  <2>1. Busy' = Busy \ {w} /\ \A v \in Workers : task'[v] = IF v = w THEN NoTask ELSE task[v]
    BY <1>1, <1>5 DEF Busy
  <2>2. \A x \in Queued(queue) : status'[x] = "pending"
    BY <1>1, <1>2 DEF TasksOK
  <2>3. \A v \in Busy' : /\ task'[v] \in Tasks /\ status'[task'[v]] = "pending"
                         /\ task'[v] \notin Queued(queue)
    BY <1>1, <1>3, <2>1 DEF TasksOK
  <2>4. \A v \in Workers : v \notin Busy' => task'[v] = NoTask
    BY <2>1 DEF TasksOK
  <2>5. \A v, x \in Busy' : task'[v] = task'[x] => v = x
    BY <1>1, <2>1 DEF TasksOK
  <2> QED
    BY <1>5, <2>2, <2>3, <2>4, <2>5 DEF TasksOK
<1> QED
  BY <1>4, <1>5 DEF TakeOrRest

LEMMA WorkingTasks ==
  ASSUME IInv, TasksOK, NEW w \in Workers, Working(w)
  PROVE  TasksOK'
<1>1. worker \in [Workers -> WorkerState]
  BY DEF IInv, ThreadsOK, ThreadTypes
<1>2. ASSUME worker[w] \notin {"spawned", "running"}, UNCHANGED <<queue, task, status>>,
             worker' = [worker EXCEPT ![w] = "finished"]
      PROVE  TasksOK'
  <2>1. Busy' = Busy
    BY <1>1, <1>2 DEF Busy
  <2> QED
    BY <1>2, <2>1, SameTasks DEF TasksOK
<1>3. CASE BeginRun(w)
  <2>1. Busy' = Busy
    BY <1>1, <1>3 DEF BeginRun, Busy
  <2> QED
    BY <1>3, <2>1, SameTasks DEF BeginRun, TasksOK
<1>4. CASE FinishTask(w)
  <2>1. \A t \in Tasks : t # task[w] => status'[t] = status[t]
    BY <1>4 DEF FinishTask, IInv, OtherTypes
  <2> QED
    BY <1>4, <2>1, TakeOrRestTasks DEF FinishTask
<1>5. CASE WakeUp(w)
  <2>1. worker[w] \notin {"spawned", "running"} /\ UNCHANGED status
    BY <1>5 DEF WakeUp
  <2> QED
    BY <1>2, <1>5, <2>1, TakeOrRestTasks DEF WakeUp, lists
<1> QED
  BY <1>3, <1>4, <1>5 DEF Working

LEMMA ClearTasks ==
  ASSUME IInv, TasksOK, Clear
  PROVE  TasksOK'
<1>1. /\ status' = [t \in Tasks |-> IF t \in Queued(queue) THEN "cleared" ELSE status[t]]
      /\ queue' = <<>> /\ UNCHANGED <<worker, task>>
  BY DEF Clear
<1>2. Busy' = Busy /\ Busy \subseteq Workers
  BY <1>1 DEF Busy
<1>3. Queued(queue') = {} /\ SoundQueue(queue')
  BY <1>1 DEF Queued, SoundQueue, Sorted, Fits, AtMostOnce, At
<1> QED
  BY <1>1, <1>2, <1>3 DEF TasksOK

\* No step of a call of waitForDone moves a task.
LEMMA WaitingTasks ==
  ASSUME IInv, TasksOK, NEW c \in Waiters, Waiting(c)
  PROVE  TasksOK'
<1>1. CASE VisitThread(c)
  <2>1. Busy' = Busy
    BY <1>1 DEF VisitThread, Busy, IInv, ThreadsOK, ThreadTypes
  <2> QED
    BY <1>1, <2>1, SameTasks DEF VisitThread, TasksOK
<1>2. CASE UNCHANGED <<queue, worker, task, status>>
  BY <1>2, SameTasks DEF TasksOK, Busy
<1> QED
  BY <1>1, <1>2 DEF Waiting, WaitAndReset, Reset, GiveUp, JoinThread, AllJoined,
                    AfterReset, OnlyWaiter

LEMMA NextTasks ==
  ASSUME NonNegative, IInv, TasksOK, [Next]_vars
  PROVE  TasksOK'
<1>1. ASSUME UNCHANGED <<queue, worker, task, status>> PROVE TasksOK'
  BY <1>1, SameTasks DEF TasksOK, Busy
<1>2. ASSUME NEW t \in Tasks, NEW p \in Priorities, Start(t, p) PROVE TasksOK'
  BY <1>2, AcceptTasks DEF Start, NonNegative
<1>3. ASSUME NEW t \in Tasks, TryStartTask(t) PROVE TasksOK'
  BY <1>3, AcceptTasks DEF TryStartTask
<1>4. ASSUME \/ \E n \in ThreadLimits : SetMaxThreadCount(n)
             \/ ReserveThread \/ ReleaseThread
             \/ \E c \in Waiters, m \in WaitTimes : WaitForDone(c, m)
             \/ UNCHANGED vars
      PROVE  UNCHANGED <<queue, worker, task, status>>
  BY <1>4 DEF SetMaxThreadCount, ReserveThread, ReleaseThread, WaitForDone, vars
<1> QED
  BY <1>1, <1>2, <1>3, <1>4, ClearTasks, StartMoreTasks, WorkingTasks, WaitingTasks DEF Next, Client

\* A set of places is counted by what is in it.
LEMMA OnePlace ==
  ASSUME IInv, TasksOK, NEW t \in Tasks
  PROVE  Cardinality({w \in Workers : task[w] = t})
           + Cardinality({at \in (DOMAIN queue) \X (1 .. MaxPageSize) :
                            /\ at[2] \in DOMAIN queue[at[1]].entries
                            /\ queue[at[1]].entries[at[2]] = t})
         = IF status[t] = "pending" THEN 1 ELSE 0
<1> DEFINE A == {w \in Workers : task[w] = t}
           B == {at \in (DOMAIN queue) \X (1 .. MaxPageSize) :
                   /\ at[2] \in DOMAIN queue[at[1]].entries
                   /\ queue[at[1]].entries[at[2]] = t}
<1>1. \A w \in A : w \in Busy
  BY PoolAssumption DEF TasksOK
<1>2. \A at \in B : At(queue, at[1], at[2], t) /\ at = <<at[1], at[2]>>
  BY DEF At
<1>3. Cardinality({}) = 0 /\ \A x : Cardinality({x}) = 1
  BY FS_EmptySet, FS_Singleton
<1>4. t \notin Queued(queue) => B = {}
  BY <1>2, QueuedAt
<1>5. CASE t \in Queued(queue)
  <2>1. A = {} /\ status[t] = "pending"
    BY <1>1, <1>5 DEF TasksOK
  <2>2. PICK i, e : At(queue, i, e, t)
    BY <1>5, QueuedAt
  <2>3. i \in DOMAIN queue /\ e \in 1 .. MaxPageSize
    <3>1. /\ i \in DOMAIN queue /\ e \in 1 .. Len(queue[i].entries)
          /\ Len(queue[i].entries) \in Nat /\ queue[i].pushed \in 0 .. MaxPageSize
      BY <2>2, AtTypes DEF At, IInv
    <3>2. Len(queue[i].entries) <= queue[i].pushed
      BY <3>1 DEF TasksOK, SoundQueue, Fits
    <3> QED
      BY <3>1, <3>2, PoolAssumption
  <2>4. <<i, e>> \in B
    BY <2>2, <2>3 DEF At
  <2>5. \A at \in B : at = <<i, e>>
    BY <1>2, <2>2 DEF TasksOK, SoundQueue, AtMostOnce
  <2>6. B = {<<i, e>>} /\ Cardinality({<<i, e>>}) = 1
    BY <1>3, <2>4, <2>5
  <2> HIDE DEF A, B
  <2>7. Cardinality(A) + Cardinality(B) = 1
    BY <1>3, <2>1, <2>6
  <2> QED
    BY <2>1, <2>7 DEF A, B
<1>6. CASE t \notin Queued(queue) /\ \E w \in Busy : task[w] = t
  <2>1. PICK w \in Busy : task[w] = t
    BY <1>6
  <2>2. A = {w} /\ status[t] = "pending"
    BY <1>1, <2>1 DEF TasksOK, Busy
  <2> HIDE DEF A, B
  <2>3. Cardinality(A) + Cardinality(B) = 1
    BY <1>3, <1>4, <1>6, <2>2
  <2> QED
    BY <2>2, <2>3 DEF A, B
<1>7. CASE t \notin Queued(queue) /\ ~\E w \in Busy : task[w] = t
  <2>1. A = {} /\ status[t] # "pending"
    BY <1>1, <1>7 DEF IInv, PlacedOK
  <2> HIDE DEF A, B
  <2>2. Cardinality(A) + Cardinality(B) = 0
    BY <1>3, <1>4, <1>7, <2>1
  <2> QED
    BY <2>1, <2>2 DEF A, B
<1> QED
  BY <1>5, <1>6, <1>7

\* No accepted task is lost, run twice or used after it was deleted, and the most
\* urgent one is in front, whatever start(), tryToStartMoreThreads(), clear() and
\* the workers do with the pages of the queue.
THEOREM Sound ==
  ASSUME NonNegative
  PROVE  Spec => []QueueSound
<1>1. Init => TasksOK
  BY DEF Init, TasksOK, Queued, SoundQueue, Sorted, Fits, AtMostOnce, At, Busy
<1>2. IInv /\ TasksOK /\ [Next]_vars => TasksOK'
  BY NextTasks
<1>3. IInv /\ TasksOK => QueueSound
  <2>1. ASSUME IInv, TasksOK PROVE TaskInOnePlace
    BY <2>1, OnePlace DEF TaskInOnePlace
  <2>2. ASSUME IInv, TasksOK PROVE QueueOrdered
    BY <2>2, AtTypes DEF IInv, GoodQueue, TasksOK, SoundQueue, Sorted, QueueOrdered, IsFinished
  <2> QED
    BY <2>1, <2>2 DEF QueueSound
<1> QED
  BY <1>1, <1>2, <1>3, Invariance, PTL DEF Spec

=============================================================================
