---------------------------- MODULE QStringHash ----------------------------
(***************************************************************************)
(* A map whose keys are found whatever their case: hash from spellings to  *)
(* values, and lowerCaseHash from lower case to the spelling in use.       *)
(* value() takes one case for the other, which changes no state.           *)
(***************************************************************************)
EXTENDS Naturals, Functions, FiniteSets

CONSTANTS Spellings, Values,
          toLower,     \* of each spelling
          NoValue      \* the default value of the map

QStringHashAssumption ==
  IsFiniteSet(Spellings) /\ DOMAIN toLower = Spellings /\ NoValue \notin Values

VARIABLES hash, lowerCaseHash,
          latest,      \* history: of each word, the value it was given last, NoValue if it was removed
          doubtful     \* history: the words whose spelling was forgotten, or that had two

vars == <<hash, lowerCaseHash, latest, doubtful>>

Words == Range(toLower)
Put(f, x, y) == [z \in DOMAIN f \cup {x} |-> IF z = x THEN y ELSE f[z]]
Without(f, x) == [y \in DOMAIN f \ {x} |-> f[y]]
SpellingsOf(h, word) == {k \in DOMAIN h : toLower[k] = word}

\* toLowerCastHash() leaves to each word one of the spellings it is given.
Init ==
  /\ \E K \in SUBSET Spellings : hash \in [K -> Values]
  /\ lowerCaseHash \in
       {f \in [{toLower[k] : k \in DOMAIN hash} -> DOMAIN hash] : \A w \in DOMAIN f : toLower[f[w]] = w}
  /\ doubtful = {w \in Words : Cardinality(SpellingsOf(hash, w)) > 1}
  /\ latest = [w \in Words |-> IF w \in DOMAIN lowerCaseHash THEN hash[lowerCaseHash[w]] ELSE NoValue]

\* The map without the spelling that a word has.
RemovedFault(word) == hash
Removed(word) == IF word \in DOMAIN lowerCaseHash THEN Without(hash, lowerCaseHash[word]) ELSE hash

\* A word is sure again when nothing is left of it.
Doubts(more) ==
  doubtful' = {w \in doubtful \cup more : SpellingsOf(hash', w) # {}}

insert(key, v) ==
  LET word == toLower[key]
  IN  /\ hash' = Put(Removed(word), key, v)
      /\ lowerCaseHash' = Put(lowerCaseHash, word, key)
      /\ latest' = [latest EXCEPT ![word] = v]
      /\ Doubts({})

\* take() of a spelling that is not there forgets the one that is.
takeSensitive(key) ==
  LET word == toLower[key]
  IN  /\ hash' = Without(hash, key)
      /\ lowerCaseHash' = Without(lowerCaseHash, word)
      /\ latest' = [latest EXCEPT ![word] = NoValue]
      /\ Doubts({word})

removeSensitive(key) ==
  /\ key \in DOMAIN hash
  /\ hash' = Without(hash, key)
  /\ lowerCaseHash' = Without(lowerCaseHash, toLower[key])
  /\ latest' = [latest EXCEPT ![toLower[key]] = NoValue]
  /\ Doubts({toLower[key]})

\* take() and remove() in any case.
removeInsensitive(key) ==
  LET word == toLower[key]
  IN  /\ word \in DOMAIN lowerCaseHash
      /\ hash' = Removed(word)
      /\ lowerCaseHash' = Without(lowerCaseHash, word)
      /\ latest' = [latest EXCEPT ![word] = NoValue]
      /\ Doubts({word})

\* operator[], whose entry is assigned v, or looked at, when it is what it was.
At(key, v) ==
  LET word  == toLower[key]
      moved == word \in DOMAIN lowerCaseHash /\ key \notin DOMAIN hash
      old   == IF key \in DOMAIN hash THEN hash[key]
               ELSE IF moved THEN hash[lowerCaseHash[word]] ELSE NoValue
      new   == IF v = NoValue THEN old ELSE v
  IN  /\ hash' = Put(IF moved THEN Removed(word) ELSE hash, key, new)
      /\ lowerCaseHash' = Put(lowerCaseHash, word, key)
      /\ latest' = [latest EXCEPT ![word] = new]
      /\ Doubts({})

clear ==
  /\ hash' = [k \in {} |-> NoValue] /\ lowerCaseHash' = [w \in {} |-> NoValue]
  /\ latest' = [w \in Words |-> NoValue] /\ doubtful' = {}

Next ==
  \/ \E k \in Spellings, v \in Values : insert(k, v)
  \/ \E k \in Spellings, v \in Values \cup {NoValue} : At(k, v)
  \/ \E k \in Spellings : takeSensitive(k) \/ removeSensitive(k) \/ removeInsensitive(k)
  \/ clear

-----------------------------------------------------------------------------
(* Properties                                                               *)

TypeOK ==
  /\ DOMAIN hash \subseteq Spellings /\ Range(hash) \subseteq Values \cup {NoValue}
  /\ DOMAIN lowerCaseHash \subseteq Words /\ doubtful \subseteq Words

\* What the lower case of a word leads to is a spelling of it that has the value given
\* last; and a word whose spelling take() never forgot has one spelling, or none.
OneSpelling ==
  /\ \A w \in DOMAIN lowerCaseHash :
       LET key == lowerCaseHash[w]
       IN  key \in DOMAIN hash /\ toLower[key] = w /\ hash[key] = latest[w]
  /\ \A w \in Words \ doubtful :
       SpellingsOf(hash, w) = IF w \in DOMAIN lowerCaseHash THEN {lowerCaseHash[w]} ELSE {}

=============================================================================
