------------------------------- MODULE ScJson -------------------------------
(***************************************************************************)
(* Arrays, objects and documents of JSON that share what they hold, from   *)
(*   src/src/ScUtils/src/serialization/scjsonarray.cpp                     *)
(*   src/src/ScUtils/src/serialization/scjsonobject.cpp                    *)
(*   src/src/ScUtils/src/serialization/scjsondocument.cpp                  *)
(*   src/src/ScUtils/src/serialization/scjsonvalue.cpp                     *)
(*   src/src/ScUtils/src/serialization/scjson_p.cpp                        *)
(*                                                                         *)
(* A holder is a ScJsonArray, a ScJsonObject, a ScJsonDocument or the      *)
(* array or object in a ScJsonValue; d is its pointer to a ScJsonData. An  *)
(* item is a number, a boolean or a text; an item that is an array or an   *)
(* object becomes an empty one (scjson_p.cpp:327-330) and is left out.     *)
(* The tree of cJSON, which is external, is the sequence of its items with *)
(* their keys.                                                             *)
(*                                                                         *)
(* A node of ScJsonData that no holder points to any more is forgotten,    *)
(* whether it was deleted or leaked, and its number is used again.         *)
(*                                                                         *)
(* A copy of a ScJsonDocument is not counted, though it is let go of like  *)
(* any other holder (scjsondocument.cpp:23-33): what it shares is deleted  *)
(* while one of the two still has it. uncounted says that such a copy was  *)
(* made; what comes after it is left out.                                  *)
(***************************************************************************)
EXTENDS Integers, Sequences, SequencesExt, FiniteSets

CONSTANTS ArrayHolders, ObjectHolders, DocumentHolders, ValueHolders,
          DataIds, MaxRef,       \* the nodes of ScJsonData, and a bound of their counts
          MaxItems,              \* a bound of the items of one
          ItemKeys, Items,       \* the keys of an object, and the values
          None

VARIABLES d,                     \* of each holder; None for a null pointer
          data,                  \* the nodes
          expected,              \* what a holder's own calls have given it
          uncounted              \* a document was copied

vars == <<d, data, expected, uncounted>>

Holders == ArrayHolders \cup ObjectHolders \cup DocumentHolders \cup ValueHolders

JsonAssumption ==                \* a holder is of one class
  /\ IsFiniteSet(Holders) /\ MaxRef \in Nat \ {0} /\ MaxItems \in Nat
  /\ ArrayHolders \cap (ObjectHolders \cup DocumentHolders \cup ValueHolders) = {}
  /\ ObjectHolders \cap (DocumentHolders \cup ValueHolders) = {}
  /\ None \notin DataIds /\ None \notin {"Array", "Object"}

\* A null pointer is an empty array, or object, of either kind.
Empty == [type |-> None, items |-> <<>>]
Content(t, s) == [type |-> t, items |-> s]

Item(key, val) == [key |-> key, val |-> val]
AllItems == [key : ItemKeys \cup {None}, val : Items]
Contents == [type : {"Array", "Object", None}, items : BoundedSeq(AllItems, MaxItems)]

Nothing == [ref |-> 0, size |-> 0, type |-> None, items |-> <<>>]

Init ==
  /\ d = [h \in Holders |-> None]
  /\ data = [i \in DataIds |-> Nothing]
  /\ expected = [h \in Holders |-> Empty]
  /\ uncounted = FALSE

PointTo(f, i) == {h \in Holders : f[h] = i}
FreeIds == {i \in DataIds : PointTo(d, i) = {}}
FirstFree == {i \in FreeIds : \A j \in FreeIds : i <= j}

\* What a step leaves: the pointers, and the nodes they point to.
Leave(pointers, nodes) ==
  /\ d' = pointers
  /\ data' = [i \in DataIds |-> IF PointTo(pointers, i) = {} THEN Nothing ELSE nodes[i]]

\* new ScJsonData().
Made(t, s, size) == [type |-> t, items |-> s, size |-> size, ref |-> 1]

\* ref(), and deref() with the delete that follows the last one.
RefIn(n, i) == IF i = None THEN n ELSE [n EXCEPT ![i].ref = @ + 1]
DerefIn(n, i) == IF i = None THEN n ELSE [n EXCEPT ![i].ref = @ - 1]

CanRef(i) == IF i = None THEN TRUE ELSE data[i].ref < MaxRef

Kind(h) ==
  IF h \in ArrayHolders THEN {"Array", None}
  ELSE IF h \in ObjectHolders THEN {"Object", None} ELSE {"Array", "Object", None}

-----------------------------------------------------------------------------
(* Holders                                                                 *)

\* The copy constructor, of an array or object that has nothing yet.
Copy(h, g) ==
  /\ h # g /\ d[h] = None /\ d[g] # None
  /\ {h, g} \subseteq ArrayHolders \/ {h, g} \subseteq ObjectHolders
  /\ CanRef(d[g])
  /\ Leave([d EXCEPT ![h] = d[g]], RefIn(data, d[g]))
  /\ expected' = [expected EXCEPT ![h] = expected[g]]

\* The one of ScJsonDocument, without ref().
CopyDocument(h, g) ==
  /\ h # g /\ d[h] = None /\ d[g] # None
  /\ {h, g} \subseteq DocumentHolders
  /\ d' = [d EXCEPT ![h] = d[g]]
  /\ expected' = [expected EXCEPT ![h] = expected[g]]
  /\ uncounted' = TRUE
  /\ UNCHANGED data

Destroy(h) ==
  /\ d[h] # None
  /\ Leave([d EXCEPT ![h] = None], DerefIn(data, d[h]))
  /\ expected' = [expected EXCEPT ![h] = Empty]

\* operator=, of a reference: the old node keeps its count.
Assign(h, g) ==
  /\ \E S \in {ArrayHolders, ObjectHolders, DocumentHolders} : {h, g} \subseteq S
  /\ CanRef(d[g])
  /\ Leave([d EXCEPT ![h] = d[g]], RefIn(data, d[g]))
  /\ expected' = [expected EXCEPT ![h] = expected[g]]

\* operator=, of an rvalue.
Swap(h, g) ==
  /\ h # g
  /\ \E S \in {ArrayHolders, ObjectHolders, DocumentHolders, ValueHolders} : {h, g} \subseteq S
  /\ d' = [d EXCEPT ![h] = d[g], ![g] = d[h]]
  /\ expected' = [expected EXCEPT ![h] = expected[g], ![g] = expected[h]]
  /\ UNCHANGED data

\* ScJsonDocument::setArray() and setObject(), of one that holds something. The old
\* node goes first: the new one may be the same.
SetRoot(h, g) ==
  /\ h \in DocumentHolders /\ g \in ArrayHolders \cup ObjectHolders
  /\ d[g] # None /\ CanRef(d[g])
  /\ Leave([d EXCEPT ![h] = d[g]], RefIn(DerefIn(data, d[h]), d[g]))
  /\ expected' = [expected EXCEPT ![h] = expected[g]]

\* The same, of one that holds nothing: a container of its own.
SetEmptyRoot(h, t) ==
  /\ h \in DocumentHolders
  /\ \E i \in FirstFree :
       Leave([d EXCEPT ![h] = i], [DerefIn(data, d[h]) EXCEPT ![i] = Made(t, <<>>, -1)])
  /\ expected' = [expected EXCEPT ![h] = Content(t, <<>>)]

\* A ScJsonValue made of a container, of another value, or set to another.
SetValue(v, g) ==
  /\ v \in ValueHolders /\ g \in ArrayHolders \cup ObjectHolders \cup ValueHolders /\ v # g
  /\ d[g] # None /\ CanRef(d[g])
  /\ Leave([d EXCEPT ![v] = d[g]], DerefIn(RefIn(data, d[g]), d[v]))
  /\ expected' = [expected EXCEPT ![v] = expected[g]]

\* h = v.toArray(), h = v.toObject().
ToContainer(h, v) ==
  /\ v \in ValueHolders /\ h \in ArrayHolders \cup ObjectHolders
  /\ d[v] # None /\ data[d[v]].type \in Kind(h) /\ CanRef(d[v])
  /\ Leave([d EXCEPT ![h] = d[v]], DerefIn(RefIn(data, d[v]), d[h]))
  /\ expected' = [expected EXCEPT ![h] = expected[v]]

-----------------------------------------------------------------------------
(* What the container holds                                                *)

\* size(), which remembers what it has counted. The node may be shared.
Size(h) ==
  /\ h \in ArrayHolders \cup ObjectHolders /\ d[h] # None
  /\ data' = [data EXCEPT ![d[h]].size = IF @ = -1 THEN Len(data[d[h]].items) ELSE @]
  /\ UNCHANGED <<d, expected>>

SizeOf(h) ==
  IF d[h] = None THEN 0
  ELSE IF data[d[h]].size = -1 THEN Len(data[d[h]].items) ELSE data[d[h]].size

\* ScJsonData::detach(): a node for none, the same one when it is not shared, a
\* clone otherwise; the items it then gets, and what is added to the size that it
\* remembers. Most methods have asked for size() before.
AloneFault(n) == n.ref <= 2
Alone(n) == n.ref = 1

SizePlus(size, n) == IF size = -1 THEN -1 ELSE size + n

Change(h, t, asked, items, more) ==
  LET old == d[h]
      size == IF asked THEN SizeOf(h) ELSE data[old].size
  IN  \/ /\ old = None
         /\ \E i \in FirstFree :
              Leave([d EXCEPT ![h] = i], [data EXCEPT ![i] = Made(t, items, -1)])
      \/ /\ old # None /\ Alone(data[old])
         /\ data' = [data EXCEPT ![old].items = items, ![old].size = SizePlus(size, more)]
         /\ UNCHANGED d
      \/ /\ old # None /\ ~Alone(data[old])
         /\ \E i \in FirstFree :
              Leave([d EXCEPT ![h] = i],
                    [data EXCEPT ![old].size = size, ![old].ref = @ - 1,
                                 ![i] = Made(t, items, SizePlus(size, more))])

ItemsOf(h) == IF d[h] = None THEN <<>> ELSE data[d[h]].items

\* insert(), and prepend() and append() with it, at a place counted from 0.
insert(h, at, val) ==
  /\ h \in ArrayHolders /\ at \in 0 .. SizeOf(h) /\ Len(ItemsOf(h)) < MaxItems
  /\ Change(h, "Array", TRUE, InsertAt(ItemsOf(h), at + 1, Item(None, val)), 1)
  /\ expected' = [expected EXCEPT ![h] =
                    Content("Array", InsertAt(@.items, at + 1, Item(None, val)))]

\* replace(): a place behind the last is allowed, and nothing is replaced there.
Replaced(items, at, val) ==
  IF at < Len(items) THEN [items EXCEPT ![at + 1].val = val] ELSE items

replace(h, at, val) ==
  /\ h \in ArrayHolders /\ d[h] # None /\ at \in 0 .. SizeOf(h)
  /\ Change(h, "Array", TRUE, Replaced(ItemsOf(h), at, val), 0)
  /\ expected' = [expected EXCEPT ![h].items = Replaced(@, at, val)]

\* removeAt() and takeAt(), with the same for the place behind the last.
removeAt(h, at) ==
  /\ h \in ArrayHolders /\ d[h] # None /\ at \in 0 .. SizeOf(h)
  /\ LET found == at < Len(ItemsOf(h))
     IN  Change(h, "Array", TRUE, IF found THEN RemoveAt(ItemsOf(h), at + 1) ELSE ItemsOf(h),
                 IF found THEN -1 ELSE 0)
  /\ expected' = [expected EXCEPT ![h].items =
                    IF at < Len(@) THEN RemoveAt(@, at + 1) ELSE @]

KeyAt(items, key) == SelectInSeq(items, LAMBDA item : item.key = key)

\* ScJsonValueRef::operator=, of an item of an object: addOrReplaceObjectItem().
AddedFault(items, key) == 1                     \* counted also when it was there
Added(items, key) == IF KeyAt(items, key) = 0 THEN 1 ELSE 0

WithItem(items, key, val) ==
  IF KeyAt(items, key) = 0 THEN Append(items, Item(key, val))
  ELSE [items EXCEPT ![KeyAt(items, key)].val = val]

SetItem(h, key, val) ==
  /\ h \in ObjectHolders
  /\ Len(WithItem(ItemsOf(h), key, val)) <= MaxItems
  /\ Change(h, "Object", FALSE, WithItem(ItemsOf(h), key, val), Added(ItemsOf(h), key))
  /\ expected' = [expected EXCEPT ![h] = Content("Object", WithItem(@.items, key, val))]

\* ScJsonObject::remove(), which makes a container of its own in any case.
WithoutItem(items, key) ==
  IF KeyAt(items, key) = 0 THEN items ELSE RemoveAt(items, KeyAt(items, key))

remove(h, key) ==
  /\ h \in ObjectHolders
  /\ Change(h, "Object", FALSE, WithoutItem(ItemsOf(h), key), IF KeyAt(ItemsOf(h), key) = 0 THEN 0 ELSE -1)
  /\ expected' = [expected EXCEPT ![h] = Content("Object", WithoutItem(@.items, key))]

Counted ==
  \/ \E h, g \in Holders :
       Copy(h, g) \/ Assign(h, g) \/ Swap(h, g) \/ SetRoot(h, g) \/ SetValue(h, g) \/ ToContainer(h, g)
  \/ \E h \in Holders : Destroy(h) \/ Size(h)
  \/ \E h \in Holders, t \in {"Array", "Object"} : SetEmptyRoot(h, t)
  \/ \E h \in Holders, at \in 0 .. MaxItems, val \in Items : insert(h, at, val) \/ replace(h, at, val)
  \/ \E h \in Holders, at \in 0 .. MaxItems : removeAt(h, at)
  \/ \E h \in Holders, key \in ItemKeys, val \in Items : SetItem(h, key, val)
  \/ \E h \in Holders, key \in ItemKeys : remove(h, key)

Next ==
  /\ ~uncounted
  /\ \/ Counted /\ UNCHANGED uncounted
     \/ \E h, g \in DocumentHolders : CopyDocument(h, g)

Spec == Init /\ [][Next]_vars

-----------------------------------------------------------------------------
(* Properties                                                              *)

TypeOK ==
  /\ d \in [Holders -> DataIds \cup {None}]
  /\ expected \in [Holders -> Contents]
  /\ uncounted \in BOOLEAN
  /\ \A i \in DataIds :
       /\ data[i].ref \in 0 .. MaxRef
       /\ data[i].size \in -1 .. MaxItems
       /\ data[i].items \in BoundedSeq(AllItems, MaxItems)

\* Until a document is copied, every holder shows what its own calls gave it; a node
\* counts at least those that point to it, so that it is not deleted under one; and the
\* size it remembers is the number of its items (scjson_p.cpp:406-424,
\* scjsonarray.cpp:26-34, 64-109).
SharingIsInvisible ==
  ~uncounted =>
  /\ \A h \in Holders :
       IF d[h] = None THEN expected[h].items = <<>>
       ELSE /\ data[d[h]].items = expected[h].items
            /\ data[d[h]].type = expected[h].type
  /\ \A i \in DataIds :
       /\ Cardinality(PointTo(d, i)) <= data[i].ref
       /\ PointTo(d, i) # {} => data[i].size \in {-1, Len(data[i].items)}
=============================================================================
