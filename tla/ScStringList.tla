---------------------------- MODULE ScStringList ----------------------------
(***************************************************************************)
(* Lists of strings that share their elements until one is changed, from   *)
(*   src/src/ScUtils/src/text/scstringlist.cpp                             *)
(*   src/src/ScUtils/include/scutils/text/scstringlist.h                   *)
(*   src/src/ScUtils/include/scutils/utils/screfcount.h                    *)
(*                                                                         *)
(* Some calls are undefined in C++. detach_grow() inserts behind the end   *)
(* of an empty vector when its index is not 0 (scstringlist.cpp:122), as   *)
(* for a list that is shared and prepended to (lines 87, 107); a list that *)
(* is not shared inserts a range of its own vector when it is appended or  *)
(* prepended to itself (lines 45, 108); and a list made of one string uses *)
(* a pointer that nothing has set (scstringlist.h:21). Of what comes after *)
(* such a call nothing is known: undefined says so, and the list stops.    *)
(***************************************************************************)
EXTENDS Integers, Sequences, SequencesExt, FiniteSets

CONSTANTS Lists, Elements,
          DataIds, MaxLength      \* bounds

SharedNull == 0
Static == -1

ListAssumption == IsFiniteSet(Lists) /\ SharedNull \notin DataIds /\ MaxLength \in Nat

VARIABLES d,                      \* the ScStringListData of each list
          node,                   \* its count and its elements
          meant,                  \* what the list's own calls have put into it
          undefined               \* C++ does not say what a call has done

vars == <<d, node, meant, undefined>>

Unused == [ref |-> 0, list |-> <<>>]

Init ==
  /\ d = [l \in Lists |-> SharedNull]
  /\ node = [i \in DataIds \cup {SharedNull} |->
               IF i = SharedNull THEN [ref |-> Static, list |-> <<>>] ELSE Unused]
  /\ meant = [l \in Lists |-> <<>>]
  /\ undefined = FALSE

\* ScRefCount.
isShared(n) == n.ref \notin {0, 1}
refFault(n) == n                                \* not counted
ref(n) == IF n.ref \in {0, Static} THEN n ELSE [n EXCEPT !.ref = @ + 1]

\* deref(), and the delete when nothing is left.
deref(n) ==
  IF n.ref = Static THEN n
  ELSE IF n.ref <= 1 THEN Unused ELSE [n EXCEPT !.ref = @ - 1]

Free == {i \in DataIds : node[i] = Unused}
FirstFree == {i \in Free : \A j \in Free : i <= j}

\* A node with a list of its own, setSharable(true).
Owned(s) == [ref |-> 1, list |-> s]

\* h is given elements s, in the node it has or in another, as detach_grow(),
\* detach() or new ScStringListData() make one.
InPlace(h, s) ==
  /\ node' = [node EXCEPT ![d[h]].list = s]
  /\ UNCHANGED d

InNew(h, s) ==
  \E i \in FirstFree :
    /\ d' = [d EXCEPT ![h] = i]
    /\ node' = [node EXCEPT ![d[h]] = deref(@), ![i] = Owned(s)]

Content(h) == node[d[h]].list
Means(h, s) == meant' = [meant EXCEPT ![h] = s] /\ UNCHANGED undefined

Undefined == undefined' = TRUE /\ UNCHANGED <<d, node, meant>>

-----------------------------------------------------------------------------

\* ScStringList(std::initializer_list), and the one of two iterators, of a list
\* that was empty.
Make(h, s) == d[h] = SharedNull /\ InNew(h, s) /\ Means(h, s)

\* ScStringList(const ScString&), whose operator+= asks a d that has no value yet.
FromString(h) == d[h] = SharedNull /\ Undefined

\* h lets go of its node and takes i.
Points(h, i) ==
  /\ d' = [d EXCEPT ![h] = i]
  /\ node' = [node EXCEPT ![i] = ref(@), ![d[h]] = deref(@)]

\* operator=: a copy, swapped with the list.
Assign(h, l) ==
  /\ h # l
  /\ IF d[h] = d[l] THEN UNCHANGED <<d, node>> ELSE Points(h, d[l])
  /\ Means(h, meant[l])

\* operator=, of an rvalue, which is left with shared_null.
MoveFrom(h, l) ==
  /\ h # l
  /\ d' = [d EXCEPT ![h] = d[l], ![l] = SharedNull]
  /\ node' = [node EXCEPT ![d[h]] = deref(@)]
  /\ meant' = [meant EXCEPT ![h] = meant[l], ![l] = <<>>]
  /\ UNCHANGED undefined

\* The destructor, and the list as a new one.
Destroy(h) == Points(h, SharedNull) /\ Means(h, <<>>)

Put(h, s) == IF isShared(node[d[h]]) THEN InNew(h, s) ELSE InPlace(h, s)

\* operator+=, of a string.
AppendString(h, e) == Put(h, Append(Content(h), e)) /\ Means(h, Append(meant[h], e))

\* operator+=, of another list. A list that has shared_null takes the other's node.
AppendList(h, l) ==
  /\ Content(l) # <<>>
  /\ IF h = l /\ ~isShared(node[d[h]]) THEN Undefined
     ELSE /\ IF d[h] = SharedNull THEN Points(h, d[l]) ELSE Put(h, Content(h) \o Content(l))
          /\ Means(h, meant[h] \o meant[l])

\* prepend(), of a string.
GrowsBehindTheEnd(h) == d[h] # SharedNull /\ isShared(node[d[h]])

PrependString(h, e) ==
  IF GrowsBehindTheEnd(h) THEN Undefined
  ELSE Put(h, <<e>> \o Content(h)) /\ Means(h, <<e>> \o meant[h])

\* prepend(), of another list.
PrependList(h, l) ==
  /\ Content(l) # <<>>
  /\ IF h = l \/ GrowsBehindTheEnd(h) THEN Undefined
     ELSE /\ IF d[h] = SharedNull THEN Points(h, d[l]) ELSE InPlace(h, Content(l) \o Content(h))
          /\ Means(h, meant[l] \o meant[h])

\* operator[] and the iterators: detach(), then the element is set.
Write(h, k, e) ==
  /\ k \in DOMAIN Content(h)
  /\ Put(h, ReplaceAt(Content(h), k, e))
  /\ Means(h, ReplaceAt(meant[h], k, e))

\* detach(), as the iterators of a list that is not changed call it.
Detach(h) ==
  /\ isShared(node[d[h]])
  /\ InNew(h, Content(h))
  /\ UNCHANGED <<meant, undefined>>

Short == \A l \in Lists : Len(meant'[l]) <= MaxLength

Next ==
  /\ ~undefined
  /\ \/ \E h, l \in Lists :
          Assign(h, l) \/ MoveFrom(h, l) \/ AppendList(h, l) \/ PrependList(h, l)
     \/ \E h \in Lists, e \in Elements : AppendString(h, e) \/ PrependString(h, e)
     \/ \E h \in Lists, e, f \in Elements : Make(h, <<e, f>>)
     \/ \E h \in Lists, k \in 1 .. MaxLength, e \in Elements : Write(h, k, e)
     \/ \E h \in Lists : Destroy(h) \/ Detach(h) \/ FromString(h)
  /\ Short

Spec == Init /\ [][Next]_vars

-----------------------------------------------------------------------------
(* Properties                                                              *)

TypeOK ==
  /\ d \in [Lists -> DataIds \cup {SharedNull}]
  /\ \A i \in DOMAIN node : node[i].ref \in {Static} \cup 0 .. Cardinality(Lists)
  /\ \A l \in Lists : meant[l] \in BoundedSeq(Elements, MaxLength)
  /\ undefined \in BOOLEAN

\* Until a call is undefined, every list has what its own calls put into it, a node counts
\* the lists that have it, and the null node that all share stays as it was
\* (scstringlist.cpp:36-127).
SharingIsInvisible ==
  ~undefined =>
  /\ \A l \in Lists : Content(l) = meant[l]
  /\ \A i \in DataIds : node[i].ref = Cardinality({l \in Lists : d[l] = i})
  /\ node[SharedNull] = [ref |-> Static, list |-> <<>>]
=============================================================================
