------------------------------ MODULE ScBiHash ------------------------------
(***************************************************************************)
(* The two-way maps, a map from keys to values and one from values to      *)
(* keys: ScBiHash, from                                                    *)
(*   src/src/ScUtils/include/scutils/container/scbihash.h                  *)
(* and QBiHash of QtUtils, which differs in what it starts from and in how *)
(* it removes a pair, from                                                 *)
(*   src/src/QtUtils/include/qtutils/utils/qbihash.h                       *)
(*                                                                         *)
(* insert() of a key or a value that has another partner leaves the old    *)
(* pair in one of the maps.                                                *)
(***************************************************************************)
EXTENDS Functions, FiniteSets

CONSTANTS Keys, Vals,
          DefaultKey, DefaultVal   \* K() and V()

BiHashAssumption == DefaultKey \in Keys /\ DefaultVal \in Vals

VARIABLES hash, inverted,
          replaced   \* history: something inserted since the last clear() had a partner

vars == <<hash, inverted, replaced>>

Empty == [x \in {} |-> x]

\* Every variable has its type (scbihash.h:175-185, qbihash.h:117-125).
TypeOK ==
  /\ DOMAIN hash \subseteq Keys /\ Range(hash) \subseteq Vals
  /\ DOMAIN inverted \subseteq Vals /\ Range(inverted) \subseteq Keys
  /\ replaced \in BOOLEAN

Init == hash = Empty /\ inverted = Empty /\ replaced = FALSE

-----------------------------------------------------------------------------
(* Both maps                                                                *)

Erase(map, x) == Restrict(map, DOMAIN map \ {x})

\* The map with what `news' has instead.
With(map, news) ==
  [z \in DOMAIN map \cup DOMAIN news |-> IF z \in DOMAIN news THEN news[z] ELSE map[z]]

ContainsKey(k) == k \in DOMAIN hash
ContainsValue(v) == v \in DOMAIN inverted

\* The key or the value has another partner.
Replaces(k, v) ==
  \/ ContainsKey(k) /\ hash[k] # v
  \/ ContainsValue(v) /\ inverted[v] # k

Insert(k, v) ==
  /\ hash' = With(hash, [x \in {k} |-> v])
  /\ inverted' = With(inverted, [x \in {v} |-> k])
  /\ replaced' = (replaced \/ Replaces(k, v))

Clear == hash' = Empty /\ inverted' = Empty /\ replaced' = FALSE

-----------------------------------------------------------------------------
(* ScBiHash                                                                 *)

\* The values that removeKey() erases from the other map; one too late it finds
\* none.
ValueOfFault(k) == {}

ValueOf(k) == {hash[k]}

\* removeKey() and takeValue()
RemoveKey(k) ==
  /\ ContainsKey(k)
  /\ inverted' = Restrict(inverted, DOMAIN inverted \ ValueOf(k))
  /\ hash' = Erase(hash, k)
  /\ UNCHANGED replaced

\* removeValue() and takeKey()
RemoveValue(v) ==
  /\ ContainsValue(v)
  /\ hash' = Erase(hash, inverted[v])
  /\ inverted' = Erase(inverted, v)
  /\ UNCHANGED replaced

Maps == UNION {[S -> Vals] : S \in SUBSET Keys}

\* The pairs are inserted in any order: of the keys with the same value one is last.
Lasts(other) == {g \in [Range(other) -> DOMAIN other] : \A v \in Range(other) : other[g[v]] = v}

Unite(other) ==
  /\ hash' = With(hash, other)
  /\ \E g \in Lasts(other) : inverted' = With(inverted, g)
  /\ replaced' = (\/ replaced
                  \/ ~IsInjective(other)
                  \/ \E k \in DOMAIN other : Replaces(k, other[k]))

Next ==
  \/ \E k \in Keys, v \in Vals : Insert(k, v)
  \/ \E k \in Keys : RemoveKey(k)
  \/ \E v \in Vals : RemoveValue(v)
  \/ \E other \in Maps : Unite(other)
  \/ Clear

Spec == Init /\ [][Next]_vars

-----------------------------------------------------------------------------
(* QBiHash                                                                  *)

\* A map made of a list.
QInit ==
  \E pairs \in Maps : /\ hash = pairs
                      /\ inverted \in Lasts(pairs)
                      /\ replaced = ~IsInjective(pairs)

\* The other half of the pair is looked up when the first has gone.
QRemoveKey(k) ==
  /\ ContainsKey(k)
  /\ hash' = Erase(hash, k)
  /\ inverted' = Erase(inverted, DefaultVal)
  /\ UNCHANGED replaced

QRemoveValue(v) ==
  /\ ContainsValue(v)
  /\ inverted' = Erase(inverted, v)
  /\ hash' = Erase(hash, DefaultKey)
  /\ UNCHANGED replaced

QNext ==
  \/ \E k \in Keys, v \in Vals : Insert(k, v)
  \/ \E k \in Keys : QRemoveKey(k)
  \/ \E v \in Vals : QRemoveValue(v)
  \/ Clear

-----------------------------------------------------------------------------
(* Properties                                                               *)

\* The two maps of ScBiHash are inverse to each other after any sequence of calls in which
\* nothing inserted had another partner already (scbihash.h:71-173).
MapsAreInverse ==
  ~replaced =>
    /\ \A k \in DOMAIN hash : hash[k] \in DOMAIN inverted /\ inverted[hash[k]] = k
    /\ \A v \in DOMAIN inverted : inverted[v] \in DOMAIN hash /\ hash[inverted[v]] = v
=============================================================================
