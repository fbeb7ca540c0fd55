--------------------------- MODULE QConfiguration ---------------------------
(***************************************************************************)
(* The configuration of QtUtils: entries that cache their value, save      *)
(* points and transactions on an entry, a category or a main configuration,*)
(* and the database below them with its mass save.                         *)
(*                                                                         *)
(* An entry is a row of the table `settings', whose key is the category    *)
(* and the name; entries of different categories are different rows.       *)
(* Null is the invalid QVariant.                                           *)
(***************************************************************************)
EXTENDS Naturals, FiniteSets

CONSTANTS Entries,      \* QConfigEntry objects
          Persistable,  \* those with m_isPersistable
          Categories,   \* the entries of each QConfigCategory
          Mains,        \* the entries of each QConfigMain
          Values,       \* valid QVariants
          Default,      \* defaultValue() of each entry
          Null

ConfigAssumption ==
  /\ Null \notin Values
  /\ Persistable \subseteq Entries
  /\ Categories \subseteq SUBSET Entries
  /\ Mains \subseteq SUBSET Entries
  /\ Default \in [Entries -> Values \cup {Null}]

VARIABLES entry,        \* the fields of every entry
          m_pConfig,    \* QConfigMain::init() has set a configuration
          store,        \* the rows as the connection sees them
          committed,    \* the rows on disk, behind an open transaction
          m_isMassSaving,
          unsaved,      \* history: the cache was set without the row
          clean         \* history: the save point held the stored value

vars == <<entry, m_pConfig, store, committed, m_isMassSaving, unsaved, clean>>

Variant == Values \cup {Null}
EntryState == [cachedVal : Variant, isCached : BOOLEAN, backup : Variant,
               isTransaction : BOOLEAN]

\* Every variable has its type (qconfigentry.h:52-62, qabstractconfiguration.h).
TypeOK ==
  /\ entry \in [Entries -> EntryState]
  /\ m_pConfig \in BOOLEAN /\ m_isMassSaving \in BOOLEAN
  /\ store \in [Entries -> Variant] /\ committed \in [Entries -> Variant]
  /\ unsaved \subseteq Persistable /\ clean \subseteq Persistable

NewEntry == [cachedVal |-> Null, isCached |-> FALSE, backup |-> Null, isTransaction |-> FALSE]

Init ==
  /\ entry = [e \in Entries |-> NewEntry]
  /\ m_pConfig = FALSE /\ m_isMassSaving = FALSE
  /\ committed \in [Entries -> {Null}] /\ store = committed
  /\ unsaved = {} /\ clean = {}

-----------------------------------------------------------------------------
(* Reading and writing one entry or many                                    *)

\* What get() finds when nothing is cached; in `failed' the SELECT fails.
Loaded(e, failed) ==
  LET var == IF e \in Persistable \ failed /\ m_pConfig THEN store[e] ELSE Null
  IN  IF var = Null THEN Default[e] ELSE var

GetEntry(e, failed) ==
  IF entry[e].isCached THEN entry[e]
  ELSE [entry[e] EXCEPT !.cachedVal = Loaded(e, failed), !.isCached = TRUE]

\* The entries of S whose get() caches something else than what is stored.
Misread(S, failed) ==
  {e \in S \cap Persistable : ~entry[e].isCached /\ (e \in failed \/ ~m_pConfig)}

Get(S) ==
  \E failed \in SUBSET S :
    /\ entry' = [e \in Entries |-> IF e \in S THEN GetEntry(e, failed) ELSE entry[e]]
    /\ unsaved' = unsaved \cup Misread(S, failed)
    /\ UNCHANGED <<m_pConfig, store, committed, m_isMassSaving, clean>>

\* What set() writes: a persistable entry out of a transaction, if the value
\* is not the cached one.
DoPersistFault(e, r, value) == e \in Persistable /\ value # r.cachedVal

DoPersist(e, r, value) == e \in Persistable /\ ~r.isTransaction /\ value # r.cachedVal

\* set(val[e]) on every e of S, from the entries r; in `failed' the INSERT fails. An
\* entry that was not read yet holds an invalid value, so that it takes an invalid value
\* for no change, whatever its row has.
SetFrom(S, r, val, failed) ==
  LET doPersist == {e \in S : DoPersist(e, r[e], val[e])}
      written   == IF m_pConfig THEN doPersist \ failed ELSE {}
      unseen    == {e \in S \cap Persistable :
                      ~r[e].isTransaction /\ ~r[e].isCached /\ val[e] = r[e].cachedVal}
  IN  /\ entry' = [e \in Entries |->
                     IF e \in S THEN [r[e] EXCEPT !.cachedVal = val[e], !.isCached = TRUE]
                     ELSE r[e]]
      /\ store' = [e \in Entries |-> IF e \in written THEN val[e] ELSE store[e]]
      /\ committed' = IF m_isMassSaving THEN committed ELSE store'
      /\ unsaved' = (unsaved \ written) \cup (doPersist \ written) \cup unseen
      /\ UNCHANGED <<m_pConfig, m_isMassSaving>>

Set(e, value) ==
  /\ \E failed \in SUBSET {e} : SetFrom({e}, entry, [x \in {e} |-> value], failed)
  /\ UNCHANGED clean

\* reset() of an entry, a category or a main; setValues() for several entries.
Reset(S) ==
  /\ \E failed \in SUBSET S : SetFrom(S, entry, Default, failed)
  /\ UNCHANGED clean

SetValues(S) ==
  /\ \E val \in [S -> Values], failed \in SUBSET S : SetFrom(S, entry, val, failed)
  /\ UNCHANGED clean

-----------------------------------------------------------------------------
(* Save points                                                              *)

Backup(r) == r.cachedVal

SavePoint(S, isTransaction) ==
  \E failed \in SUBSET S :
    LET got == [e \in S |-> GetEntry(e, failed)]
    IN  /\ entry' = [e \in Entries |->
                       IF e \in S
                       THEN [got[e] EXCEPT !.backup = Backup(got[e]), !.isTransaction = isTransaction]
                       ELSE entry[e]]
        /\ unsaved' = unsaved \cup Misread(S, failed)
                      \cup {e \in S \cap Persistable : entry[e].isTransaction /\ ~isTransaction}
        /\ clean' = (clean \ S)
                    \cup {e \in S \cap Persistable :
                            isTransaction /\ ~entry[e].isTransaction /\ e \notin unsaved'}
        /\ UNCHANGED <<m_pConfig, store, committed, m_isMassSaving>>

RestoreEntry(r) == [r EXCEPT !.cachedVal = r.backup, !.isCached = TRUE, !.isTransaction = FALSE]

Restore(S) ==
  /\ entry' = [e \in Entries |-> IF e \in S THEN RestoreEntry(entry[e]) ELSE entry[e]]
  /\ unsaved' = (unsaved \ (clean \cap S)) \cup ((S \cap Persistable) \ clean)
  /\ clean' = clean \ S
  /\ UNCHANGED <<m_pConfig, store, committed, m_isMassSaving>>

\* release() forgets the cached value first, or set() would see no change.
ReleaseEntryFault(r) == [r EXCEPT !.backup = Null, !.isTransaction = FALSE]

ReleaseEntry(r) ==
  IF ~r.isTransaction THEN [r EXCEPT !.backup = Null]
  ELSE IF ~r.isCached THEN [r EXCEPT !.backup = Null, !.isTransaction = FALSE]
  ELSE [cachedVal |-> Null, isCached |-> FALSE, backup |-> Null, isTransaction |-> FALSE]

Release(S) ==
  LET released == [e \in Entries |-> IF e \in S THEN ReleaseEntry(entry[e]) ELSE entry[e]]
      again    == {e \in S : entry[e].isTransaction /\ entry[e].isCached}
  IN  /\ \E failed \in SUBSET again :
           SetFrom(again, released, [e \in again |-> entry[e].cachedVal], failed)
      /\ clean' = clean \ S

InTransaction(S) == {e \in S : entry[e].isTransaction}

-----------------------------------------------------------------------------
(* The mass save of the database, its beginning and its end                 *)

\* QConfigMain::init() with a configuration, in a program that had none.
InitConfig ==
  /\ ~m_pConfig
  /\ m_pConfig' = TRUE
  /\ unsaved' = unsaved \cup {e \in Persistable : entry[e].isCached}
  /\ clean' = {}
  /\ UNCHANGED <<entry, store, committed, m_isMassSaving>>

\* A statement that fails leaves everything as it is.
BeginMassSave ==
  /\ m_pConfig /\ ~m_isMassSaving
  /\ m_isMassSaving' = TRUE
  /\ UNCHANGED <<entry, m_pConfig, store, committed, unsaved, clean>>

CommitMassSave ==
  /\ m_isMassSaving
  /\ m_isMassSaving' = FALSE
  /\ committed' = store
  /\ UNCHANGED <<entry, m_pConfig, store, unsaved, clean>>

RollbackMassSave ==
  /\ m_isMassSaving
  /\ m_isMassSaving' = FALSE
  /\ store' = committed
  /\ LET lost == {e \in Persistable : store[e] # committed[e] /\ entry[e].isCached}
     IN  /\ unsaved' = unsaved \cup lost
         /\ clean' = clean \ lost
  /\ UNCHANGED <<entry, m_pConfig, committed>>

\* remove() of a row, which no entry is told of.
RemoveRow(e) ==
  /\ m_pConfig /\ store[e] # Null
  /\ store' = [store EXCEPT ![e] = Null]
  /\ committed' = IF m_isMassSaving THEN committed ELSE store'
  /\ unsaved' = IF entry[e].isCached THEN unsaved \cup {e} ELSE unsaved
  /\ clean' = clean \ {e}
  /\ UNCHANGED <<entry, m_pConfig, m_isMassSaving>>

\* The process ends, in the middle of whatever it did, and starts again.
Restart ==
  /\ entry' = [e \in Entries |-> NewEntry]
  /\ m_pConfig' = FALSE /\ m_isMassSaving' = FALSE
  /\ store' = committed
  /\ unsaved' = {} /\ clean' = {}
  /\ UNCHANGED committed

\* The groups of entries that one call of savePoint(), release()... goes through.
Groups == {{e} : e \in Entries} \cup Categories \cup Mains

Next ==
  \/ \E e \in Entries : Get({e})
  \/ \E m \in Mains : Get(m)                    \* toVariant()
  \/ \E e \in Entries, v \in Values : Set(e, v)
  \/ \E S \in Groups : Reset(S)
  \/ \E m \in Mains : \E S \in SUBSET m : SetValues(S)
  \/ \E S \in Groups, t \in BOOLEAN : SavePoint(S, t)
  \/ \E S \in Groups : Restore(S)
  \/ \E c \in Categories : Restore(InTransaction(c))   \* rollback()
  \/ \E S \in Groups : Release(S)
  \/ InitConfig \/ BeginMassSave \/ CommitMassSave \/ RollbackMassSave
  \/ \E e \in Persistable : RemoveRow(e)
  \/ Restart

Spec == Init /\ [][Next]_vars

-----------------------------------------------------------------------------
(* Properties                                                               *)

\* What a restarted program reads.
Reload(e) == IF store[e] = Null THEN Default[e] ELSE store[e]

\* An entry outside a transaction shows what a restarted program would read,
\* and a transaction begun on such an entry can restore just that, unless a
\* statement failed or a call put a value in the cache behind the row's back
\* (qconfigentry.cpp:46-140).
CacheAgreesWithStore ==
  \A e \in Persistable :
    /\ m_pConfig /\ entry[e].isCached /\ ~entry[e].isTransaction /\ e \notin unsaved
         => entry[e].cachedVal = Reload(e)
    /\ e \in clean => entry[e].isTransaction /\ entry[e].backup = Reload(e)

\* While an entry is in a transaction nothing of it reaches its row
\* (qconfigentry.cpp:71): neither its own set() nor the end of another's.
TransactionKeepsRow ==
  [][\A e \in Entries :
       entry[e].isTransaction /\ entry'[e].isTransaction /\ store'[e] # store[e]
         => store'[e] = committed[e] \/ store'[e] = Null]_vars

=============================================================================
