---------------------------- MODULE ScStringData ----------------------------
(***************************************************************************)
(* ScStringData, the strings that share their long texts, from             *)
(*   src/src/ScUtils/src/text/scstringdata.cpp                             *)
(*                                                                         *)
(* A short text is in the string itself, a medium one in memory of its     *)
(* own, and a long one in a buffer with a count of the strings that point  *)
(* to it. Copies of a long string share the buffer; whoever changes its    *)
(* text takes a copy first if the count says that others look at it.       *)
(*                                                                         *)
(* A string belongs to one thread at a time; the buffer below belongs to   *)
(* all of them, so that one access to it is one action.                    *)
(***************************************************************************)
EXTENDS Naturals, Sequences, FiniteSets

CONSTANTS Threads,
          Strings,       \* ScStringData objects
          Chars,
          Texts, Appends, Writes, Deltas,  \* texts that clients construct, characters
                         \* they append or write, lengths by which they shrink
          Buffers,       \* RefCounted objects, numbered
          None,
          kMaxSmallSize, kMaxMediumSize,
          MaxSize        \* bound of a text

VARIABLES str,           \* the fields of each string, None if there is none
          heap,          \* the count and the text of each buffer
          owner,         \* the thread that uses each string
          work,          \* the call each thread is in
          value          \* history: the text each string should have

vars == <<str, heap, owner, work, value>>

Categories == {"Small", "Medium", "Large"}
Text == UNION {[1..n -> Chars] : n \in 0..MaxSize}

\* `chars' is the text of a string that shares nothing, `data' the buffer of a
\* large one.
String == [cat : Categories, chars : Text, data : Buffers \cup {None}, size : 0..MaxSize, cap : Nat]

\* There is memory for a buffer of every string and one more that replaces it.
StringAssumption ==
  /\ IsFiniteSet(Threads) /\ IsFiniteSet(Strings)
  /\ Texts \subseteq Text /\ Appends \cup Writes \subseteq Chars /\ Deltas \subseteq Nat
  /\ Buffers \subseteq Nat /\ IsFiniteSet(Buffers) /\ 2 * Cardinality(Strings) <= Cardinality(Buffers)
  /\ None \notin Threads \cup Strings \cup Buffers /\ None \notin String
  /\ kMaxSmallSize \in Nat /\ kMaxMediumSize \in Nat /\ MaxSize \in Nat

Idle == [s |-> None, op |-> None, at |-> "idle", min |-> 0, new |-> None]

\* Every variable has its type (scstringdata.h:64-86).
TypeOK ==
  /\ \A s \in Strings : str[s] # None => str[s] \in String /\ (str[s].cat = "Large" <=> str[s].data # None)
  /\ \A b \in Buffers : heap[b].ref \in 0..Cardinality(Strings) /\ heap[b].chars \in Text
  /\ owner \in [Strings -> Threads]
  /\ \A t \in Threads : work[t].at \in {"idle", "load", "reserve", "unshare", "deref", "write"}
  /\ value \in [Strings -> Text]

Init ==
  /\ str = [s \in Strings |-> None]
  /\ heap = [b \in Buffers |-> [ref |-> 0, chars |-> <<>>]]
  /\ owner \in [Strings -> Threads]
  /\ work = [t \in Threads |-> Idle]
  /\ value = [s \in Strings |-> <<>>]

-----------------------------------------------------------------------------
(* Memory                                                                   *)

Larger(m, n) == IF m > n THEN m ELSE n

\* goodMallocSize() rounds up.
GoodSize(n) == 2 * ((n + 1) \div 2)

\* The text that a string shows.
TextOf(s) ==
  IF s.cat = "Large" THEN SubSeq(heap[s.data].chars, 1, s.size) ELSE s.chars

CategoryFor(n) ==
  IF n <= kMaxSmallSize THEN "Small" ELSE IF n <= kMaxMediumSize THEN "Medium" ELSE "Large"

NewBuffer == CHOOSE b \in Buffers : heap[b].ref = 0 /\ \A c \in Buffers : heap[c].ref = 0 => b <= c

\* A string with a text and room for n characters, and the heap with it.
Made(text, n, cat) ==
  [cat |-> cat, chars |-> IF cat = "Large" THEN <<>> ELSE text,
   data |-> IF cat = "Large" THEN NewBuffer ELSE None, size |-> Len(text),
   cap |-> IF cat = "Small" THEN kMaxSmallSize ELSE GoodSize(n)]

HeapWith(new, text) ==
  IF new.cat = "Large" THEN [heap EXCEPT ![new.data] = [ref |-> 1, chars |-> text]] ELSE heap

\* ref(), without and with its count.
RefFault(h, b) == [h EXCEPT ![b].ref = @]

Ref(h, b) == [h EXCEPT ![b].ref = @ + 1]

\* deref(), which frees the buffer behind the last string.
Deref(h, b) ==
  [h EXCEPT ![b] = [ref |-> @.ref - 1, chars |-> IF @.ref = 1 THEN <<>> ELSE @.chars]]

-----------------------------------------------------------------------------
(* Whole strings                                                            *)

Mine(t, s) == work[t] = Idle /\ owner[s] = t

\* ScStringData(data, size)
Construct(t, s, text) ==
  /\ Mine(t, s) /\ str[s] = None
  /\ LET new == Made(text, Len(text), CategoryFor(Len(text)))
     IN  str' = [str EXCEPT ![s] = new] /\ heap' = HeapWith(new, text)
  /\ value' = [value EXCEPT ![s] = text]
  /\ UNCHANGED <<owner, work>>

\* ScStringData(const ScStringData&)
Copy(t, s, other) ==
  /\ Mine(t, s) /\ str[s] = None /\ owner[other] = t /\ str[other] # None
  /\ str' = [str EXCEPT ![s] = IF str[other].cat = "Medium"
                               THEN Made(str[other].chars, str[other].size, "Medium") ELSE str[other]]
  /\ heap' = IF str[other].cat = "Large" THEN Ref(heap, str[other].data) ELSE heap
  /\ value' = [value EXCEPT ![s] = value[other]]
  /\ UNCHANGED <<owner, work>>

Destroy(t, s) ==
  /\ Mine(t, s) /\ str[s] # None
  /\ heap' = IF str[s].cat = "Large" THEN Deref(heap, str[s].data) ELSE heap
  /\ str' = [str EXCEPT ![s] = None]
  /\ value' = [value EXCEPT ![s] = <<>>]
  /\ UNCHANGED <<owner, work>>

\* The string is handed to another thread.
Hand(t, s, u) ==
  /\ Mine(t, s) /\ str[s] # None /\ u # t
  /\ owner' = [owner EXCEPT ![s] = u]
  /\ UNCHANGED <<str, heap, work, value>>

-----------------------------------------------------------------------------
(* Changes of a text: expand() and append, shrink(), mutableData() and a    *)
(* write through it                                                         *)

Operation == [kind : {"append"}, arg : Appends] \cup [kind : {"set"}, arg : Writes]
             \cup [kind : {"shrink"}, arg : Deltas]

Result(text, op) ==
  CASE op.kind = "append" -> Append(text, op.arg)
    [] op.kind = "set"    -> [text EXCEPT ![1] = op.arg]
    [] op.kind = "shrink" -> SubSeq(text, 1, Len(text) - op.arg)

Allowed(size, op) ==
  CASE op.kind = "append" -> size < MaxSize
    [] op.kind = "set"    -> size > 0
    [] op.kind = "shrink" -> op.arg <= size

\* The capacity asked for by expand(1, true) of a string that has `cap'.
Grown(size, cap) == Larger(size + 1, 1 + (cap * 3) \div 2)

\* A string that shares nothing changes at once, and may become a longer kind.
Unshared(s, op) ==
  LET text == Result(s.chars, op)
      n    == IF op.kind # "append" \/ Len(text) <= s.cap THEN 0
              ELSE IF s.cat = "Small" THEN Larger(Len(text), 2 * kMaxSmallSize) ELSE Grown(s.size, s.cap)
  IN  IF n = 0 THEN [s EXCEPT !.chars = text, !.size = Len(text)]
      ELSE Made(text, n, IF n <= kMaxMediumSize THEN "Medium" ELSE "Large")

Change(t, s, op) ==
  /\ Mine(t, s) /\ str[s] # None /\ Allowed(str[s].size, op)
  /\ value' = [value EXCEPT ![s] = Result(@, op)]
  /\ IF str[s].cat = "Large"
     THEN /\ work' = [work EXCEPT ![t] = [Idle EXCEPT !.s = s, !.op = op, !.at = "load"]]
          /\ UNCHANGED <<str, heap>>
     ELSE /\ str' = [str EXCEPT ![s] = Unshared(str[s], op)]
          /\ heap' = HeapWith(Unshared(str[s], op), Result(str[s].chars, op))
          /\ UNCHANGED work
  /\ UNCHANGED owner

Goto(t, at) == work' = [work EXCEPT ![t].at = at]

\* The count of references is read: for shrink() and mutableData() it decides
\* on a copy, for expand() it is in capacity(), whose value reserve() asks for
\* more than.
OthersFault(refs) == refs > 2

Others(refs) == refs > 1

LoadRefs(t) ==
  /\ work[t].at = "load"
  /\ LET w == work[t]
         s == str[w.s]
         cap == IF Others(heap[s.data].ref) THEN s.size ELSE s.cap
     IN  IF w.op.kind # "append" THEN Goto(t, IF Others(heap[s.data].ref) THEN "unshare" ELSE "write")
         ELSE IF s.size + 1 > cap
           THEN work' = [work EXCEPT ![t].at = "reserve", ![t].min = Grown(s.size, cap)]
         ELSE Goto(t, "write")
  /\ UNCHANGED <<str, heap, owner, value>>

\* reserveLarge(), which reads the count again: others may have left.
ReserveLarge(t) ==
  /\ work[t].at = "reserve"
  /\ LET w == work[t]
         s == str[w.s]
     IN  IF Others(heap[s.data].ref) THEN Goto(t, "unshare") /\ UNCHANGED str
         ELSE /\ str' = [str EXCEPT ![w.s].cap = IF w.min > @ THEN GoodSize(w.min) ELSE @]
              /\ Goto(t, "write")
  /\ UNCHANGED <<heap, owner, value>>

\* unshare() with a new buffer; shrink() makes a new string of the right kind.
Unshare(t) ==
  /\ work[t].at = "unshare"
  /\ LET w    == work[t]
         s    == str[w.s]
         text == IF w.op.kind = "shrink" THEN Result(TextOf(s), w.op) ELSE TextOf(s)
         new  == IF w.op.kind = "shrink" THEN Made(text, Len(text), CategoryFor(Len(text)))
                 ELSE Made(text, Larger(w.min, s.cap), "Large")
     IN  /\ heap' = HeapWith(new, text)
         /\ work' = [work EXCEPT ![t].at = "deref", ![t].new = new]
  /\ UNCHANGED <<str, owner, value>>

DerefOld(t) ==
  /\ work[t].at = "deref"
  /\ LET w == work[t]
     IN  /\ heap' = Deref(heap, str[w.s].data)
         /\ str' = [str EXCEPT ![w.s] = w.new]
         /\ work' = [work EXCEPT ![t] = IF w.op.kind = "shrink" THEN Idle
                                        ELSE [w EXCEPT !.at = "write", !.new = None]]
  /\ UNCHANGED <<owner, value>>

\* The text is changed in the buffer.
Write(t) ==
  /\ work[t].at = "write"
  /\ LET w    == work[t]
         text == Result(TextOf(str[w.s]), w.op)
     IN  /\ heap' = [heap EXCEPT ![str[w.s].data].chars = text]
         /\ str' = [str EXCEPT ![w.s].size = Len(text)]
  /\ work' = [work EXCEPT ![t] = Idle]
  /\ UNCHANGED <<owner, value>>

Next ==
  \/ \E t \in Threads, s \in Strings :
       \/ \E text \in Texts : Construct(t, s, text)
       \/ \E other \in Strings : Copy(t, s, other)
       \/ Destroy(t, s)
       \/ \E u \in Threads : Hand(t, s, u)
       \/ \E op \in Operation : Change(t, s, op)
  \/ \E t \in Threads : LoadRefs(t) \/ ReserveLarge(t) \/ Unshare(t) \/ DerefOld(t) \/ Write(t)

Spec == Init /\ [][Next]_vars

-----------------------------------------------------------------------------
(* Properties                                                               *)

InWork(s) == \E t \in Threads : work[t].s = s

\* Copying is invisible: every string shows the text that its own calls gave
\* it, whatever other threads do meanwhile to the strings it was copied from
\* or to (scstringdata.cpp:204-242, 318-378).
CopiesAreSeparate ==
  \A s \in Strings : str[s] # None /\ ~InWork(s) => TextOf(str[s]) = value[s]

\* A buffer's count is the number of strings that point to it, and so it is
\* freed once, behind the last of them (scstringdata.cpp:37-49, 335-346).
References(b) ==
  Cardinality({s \in Strings : str[s] # None /\ str[s].data = b})
  + Cardinality({t \in Threads : work[t].new # None /\ work[t].new.data = b})

RefsAreExact == \A b \in Buffers : heap[b].ref = References(b)

\* Both: sharing a buffer is neither seen nor leaked.
SharingIsInvisible == CopiesAreSeparate /\ RefsAreExact
=============================================================================
