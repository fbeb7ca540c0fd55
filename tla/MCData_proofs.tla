------------------------ MODULE MCData_proofs ------------------------
(***************************************************************************)
(* Theorems about the parts of MCData, for any entries, threads, windows,  *)
(* pixels, filters, queues, lists, containers and addresses:               *)
(*   - an entry of the configuration shows what a restarted program would  *)
(*     read, and its transaction keeps the row (ConfigInv);                *)
(*   - messages are kept in order, though threads append them and shorten  *)
(*     the list at the same time, and with two threads that notify not     *)
(*     more than the limit are left when they are through (BoundedInv      *)
(*     counts what a thread has still to remove);                          *)
(*   - a callback gets what level, pattern and names were last set to      *)
(*     (LevelInv), and an application ends for a reason (AppInv);          *)
(*   - copies of lists of strings, JSON and addresses are their own. A     *)
(*     node's count is that of its users, or more where one is leaked, so  *)
(*     that a node that is changed in place has one user (ListInv,         *)
(*     TreeInv);                                                           *)
(*   - no drag goes on without the button (DragInv);                       *)
(*   - Qt knows whether the pointer is over the window. With messages on   *)
(*     their way nothing of that holds: MouseInv says of the pointer at    *)
(*     rest over the client area, the frame or a button what the message   *)
(*     left to come will make Qt believe (OverClient, OverFrame,           *)
(*     OverButton), and of a pointer that has gone that a message to say   *)
(*     so is among the posted ones (WillLeave).                            *)
(***************************************************************************)
EXTENDS MCData, FiniteSetTheorems, SequenceTheorems, WellFoundedInduction, TLAPS

-----------------------------------------------------------------------------
(* Induction, for a set of natural numbers.                                 *)

\* A set that has 0, and with a number the next, has them all.
LEMMA Induction ==
  ASSUME NEW S \in SUBSET Nat, 0 \in S, \A i \in S : i + 1 \in S
  PROVE  S = Nat
<1> SUFFICES ASSUME Nat \ S # {} PROVE FALSE
  OBVIOUS
<1> DEFINE T == {0 .. i : i \in Nat \ S}
<1>1. T \subseteq FiniteSubsetsOf(Nat) /\ T # {}
  <2>1. \A i \in Nat \ S : IsFiniteSet(0 .. i) /\ 0 .. i \subseteq Nat
    BY FS_Interval
  <2> QED BY <2>1 DEF FiniteSubsetsOf
<1>2. PICK x \in T : \A y \in T : ~(<<y, x>> \in StrictSubsetOrdering(Nat))
  BY <1>1, FS_StrictSubsetOrderingWellFounded, WFMin, Zenon
<1>3. PICK i \in Nat \ S : x = 0 .. i
  OBVIOUS
<1>4. i # 0 /\ i - 1 \in Nat /\ (i - 1) + 1 = i
  BY <1>3
<1>5. i - 1 \in Nat \ S
  BY <1>4
<1>6. <<0 .. i - 1, 0 .. i>> \notin StrictSubsetOrdering(Nat)
  BY <1>2, <1>3, <1>5
<1>7. 0 .. i - 1 \subseteq 0 .. i /\ i \in 0 .. i /\ i \notin 0 .. i - 1
  BY <1>4
<1>8. <<0 .. i - 1, 0 .. i>> \in (SUBSET Nat) \X (SUBSET Nat)
  BY <1>4
<1> QED BY <1>6, <1>7, <1>8 DEF StrictSubsetOrdering

LEMMA Singletons == \A S : \A x \in S : << x >> \in Seq(S)
  OBVIOUS

-----------------------------------------------------------------------------
(* The configuration. What makes the cache agree is what a save point holds*)
(* while the transaction lasts (EntryAgrees): only then may the cache and  *)
(* the row differ. A value that was cached before there was a configuration*)
(* is not the row's, and is remembered as unsaved.                         *)

ConfigTyped ==
  /\ entry \in [Entries -> Config!EntryState]
  /\ m_pConfig \in BOOLEAN /\ m_isMassSaving \in BOOLEAN
  /\ store \in [Entries -> Config!Variant] /\ committed \in [Entries -> Config!Variant]
  /\ unsaved \subseteq Persistable /\ clean \subseteq Persistable

EntryAgrees(e) ==
  /\ m_pConfig /\ entry[e].isCached /\ ~entry[e].isTransaction /\ e \notin unsaved
       => entry[e].cachedVal = Config!Reload(e)
  /\ e \in clean => /\ entry[e].isTransaction /\ entry[e].isCached /\ m_pConfig
                    /\ entry[e].backup = Config!Reload(e)
  /\ ~m_pConfig /\ entry[e].isCached /\ ~entry[e].isTransaction => e \in unsaved

ConfigInv == ConfigTyped /\ \A e \in Persistable : EntryAgrees(e)

LEMMA SomeEntries ==
  /\ Null \notin Settings /\ Persistable \subseteq Entries
  /\ Default \in [Entries -> Config!Variant]
  /\ \A S \in Config!Groups : S \subseteq Entries
  /\ \A m \in Mains : m \subseteq Entries
  /\ \A c \in Categories : c \subseteq Entries
  BY DataAssumption DEF Config!ConfigAssumption, Config!Variant, Config!Groups

LEMMA ConfigStart == Config!Init => ConfigInv
<1> SUFFICES ASSUME Config!Init PROVE ConfigInv
  OBVIOUS
<1>1. Null \in Config!Variant /\ Config!NewEntry \in Config!EntryState /\ ~Config!NewEntry.isCached
  BY DEF Config!Variant, Config!NewEntry, Config!EntryState
<1>2. ConfigTyped
  BY <1>1 DEF Config!Init, ConfigTyped
<1> QED
  BY <1>1, <1>2, SomeEntries DEF Config!Init, ConfigInv, EntryAgrees

LEMMA ConfigStill ==
  ASSUME ConfigInv, UNCHANGED configVars
  PROVE  ConfigInv'
<1>1. /\ UNCHANGED entry /\ UNCHANGED m_pConfig /\ UNCHANGED store /\ UNCHANGED committed
      /\ UNCHANGED m_isMassSaving /\ UNCHANGED unsaved /\ UNCHANGED clean
  BY DEF configVars
<1> QED
  BY <1>1 DEF ConfigInv, ConfigTyped, EntryAgrees, Config!Reload

\* An entry of its type, read or not.
LEMMA EntryIsRead ==
  ASSUME ConfigInv, NEW e \in Entries, NEW failed
  PROVE  /\ entry[e] \in Config!EntryState
         /\ Config!GetEntry(e, failed) \in Config!EntryState
         /\ Config!GetEntry(e, failed).isCached
         /\ Config!GetEntry(e, failed).backup = entry[e].backup
         /\ Config!GetEntry(e, failed).isTransaction = entry[e].isTransaction
         /\ entry[e].isCached => Config!GetEntry(e, failed) = entry[e]
         /\ e \in Persistable /\ ~entry[e].isCached /\ e \notin failed /\ m_pConfig
              => Config!GetEntry(e, failed).cachedVal = Config!Reload(e)
<1>1. entry[e] \in Config!EntryState /\ store[e] \in Config!Variant /\ Default[e] \in Config!Variant
  BY SomeEntries DEF ConfigInv, ConfigTyped
<1>2. Null \in Config!Variant
  BY DEF Config!Variant
<1>3. Config!Loaded(e, failed) \in Config!Variant
  BY <1>1, <1>2 DEF Config!Loaded
<1>4. e \in Persistable /\ e \notin failed /\ m_pConfig => Config!Loaded(e, failed) = Config!Reload(e)
  BY DEF Config!Loaded, Config!Reload
<1> HIDE DEF Config!Loaded
<1> QED
  BY <1>1, <1>3, <1>4 DEF Config!GetEntry, Config!EntryState

LEMMA GetKeeps ==
  ASSUME ConfigInv, NEW S \in SUBSET Entries, Config!Get(S)
  PROVE  ConfigInv'
<1>1. PICK failed \in SUBSET S :
        /\ entry' = [e \in Entries |-> IF e \in S THEN Config!GetEntry(e, failed) ELSE entry[e]]
        /\ unsaved' = unsaved \cup Config!Misread(S, failed)
        /\ UNCHANGED <<m_pConfig, store, committed, m_isMassSaving, clean>>
  BY DEF Config!Get
<1>2. Config!Misread(S, failed) \subseteq Persistable
  BY DEF Config!Misread
<1>3. \A e \in Entries : /\ entry'[e] \in Config!EntryState
                         /\ entry'[e] = IF e \in S THEN Config!GetEntry(e, failed) ELSE entry[e]
  BY <1>1, EntryIsRead
<1>4. ConfigTyped'
  BY <1>1, <1>2, <1>3 DEF ConfigInv, ConfigTyped
<1>5. ASSUME NEW e \in Persistable PROVE EntryAgrees(e)'
  <2>1. e \in Entries /\ EntryAgrees(e) /\ Config!Reload(e)' = Config!Reload(e)
    BY <1>1, SomeEntries DEF ConfigInv, Config!Reload
  <2>2. CASE e \notin S \/ entry[e].isCached
    <3>1. entry'[e] = entry[e] /\ (e \in unsaved => e \in unsaved') /\ (e \in unsaved' => e \in unsaved)
      BY <1>1, <1>3, <2>1, <2>2, EntryIsRead DEF Config!Misread
    <3> QED
      BY <3>1, <2>1, <1>1 DEF EntryAgrees
  <2>3. CASE e \in S /\ ~entry[e].isCached
    <3>1. /\ entry'[e].isCached /\ entry'[e].backup = entry[e].backup
          /\ entry'[e].isTransaction = entry[e].isTransaction
          /\ e \notin failed /\ m_pConfig => entry'[e].cachedVal = Config!Reload(e)
      BY <1>3, <2>1, <2>3, EntryIsRead
    <3>2. e \notin unsaved' => e \notin failed /\ m_pConfig
      BY <1>1, <2>3 DEF Config!Misread
    <3> QED
      BY <3>1, <3>2, <2>1, <2>3, <1>1 DEF EntryAgrees
  <2> QED BY <2>2, <2>3
<1> QED BY <1>4, <1>5 DEF ConfigInv

\* What set() leaves is of its type.
LEMMA SetTyped ==
  ASSUME ConfigInv, NEW S \in SUBSET Entries, NEW r \in [Entries -> Config!EntryState],
         NEW val \in [S -> Config!Variant], NEW failed, Config!SetFrom(S, r, val, failed)
  PROVE  /\ entry' \in [Entries -> Config!EntryState]
         /\ store' \in [Entries -> Config!Variant] /\ committed' \in [Entries -> Config!Variant]
         /\ UNCHANGED m_pConfig /\ UNCHANGED m_isMassSaving
         /\ unsaved' \subseteq Persistable
<1> DEFINE doPersist == {e \in S : Config!DoPersist(e, r[e], val[e])}
           written   == IF m_pConfig THEN doPersist \ failed ELSE {}
           unseen    == {e \in S \cap Persistable :
                           ~r[e].isTransaction /\ ~r[e].isCached /\ val[e] = r[e].cachedVal}
<1>1. /\ entry' = [e \in Entries |->
                     IF e \in S THEN [r[e] EXCEPT !.cachedVal = val[e], !.isCached = TRUE] ELSE r[e]]
      /\ store' = [e \in Entries |-> IF e \in written THEN val[e] ELSE store[e]]
      /\ committed' = IF m_isMassSaving THEN committed ELSE store'
      /\ unsaved' = (unsaved \ written) \cup (doPersist \ written) \cup unseen
      /\ UNCHANGED <<m_pConfig, m_isMassSaving>>
  BY Zenon DEF Config!SetFrom
<1>2. doPersist \subseteq Persistable /\ unseen \subseteq Persistable /\ written \subseteq S
  BY DEF Config!DoPersist
<1> HIDE DEF doPersist, written, unseen
<1>3. ConfigTyped
  BY DEF ConfigInv
<1>4. \A e \in Entries : (IF e \in S THEN [r[e] EXCEPT !.cachedVal = val[e], !.isCached = TRUE] ELSE r[e])
                           \in Config!EntryState
  BY DEF Config!EntryState
<1>5. entry' \in [Entries -> Config!EntryState]
  BY <1>1, <1>4
<1>6. store' \in [Entries -> Config!Variant]
  BY <1>1, <1>2, <1>3 DEF ConfigTyped
<1>7. unsaved' \subseteq Persistable
  BY <1>1, <1>2, <1>3 DEF ConfigTyped
<1> QED BY <1>1, <1>3, <1>5, <1>6, <1>7 DEF ConfigTyped

\* What set() makes of one entry: a transaction keeps it from its row, a change is written
\* or remembered, and an entry that was not read takes no value for no change.
LEMMA SetOne ==
  ASSUME ConfigInv, NEW S \in SUBSET Entries, NEW r \in [Entries -> Config!EntryState],
         NEW val \in [S -> Config!Variant], NEW failed, Config!SetFrom(S, r, val, failed),
         NEW e \in Persistable
  PROVE  /\ e \notin S => /\ entry'[e] = r[e] /\ store'[e] = store[e]
                          /\ e \in unsaved => e \in unsaved'
         /\ e \in S =>
              /\ entry'[e].cachedVal = val[e] /\ entry'[e].isCached
              /\ entry'[e].backup = r[e].backup /\ entry'[e].isTransaction = r[e].isTransaction
              /\ r[e].isTransaction => store'[e] = store[e]
              /\ ~r[e].isTransaction /\ e \notin unsaved' /\ val[e] # r[e].cachedVal
                   => m_pConfig /\ store'[e] = val[e]
              /\ ~r[e].isTransaction /\ e \notin unsaved' /\ val[e] = r[e].cachedVal
                   => r[e].isCached /\ e \notin unsaved /\ store'[e] = store[e]
<1> DEFINE doPersist == {x \in S : Config!DoPersist(x, r[x], val[x])}
           written   == IF m_pConfig THEN doPersist \ failed ELSE {}
           unseen    == {x \in S \cap Persistable :
                           ~r[x].isTransaction /\ ~r[x].isCached /\ val[x] = r[x].cachedVal}
<1>1. /\ entry' = [x \in Entries |->
                     IF x \in S THEN [r[x] EXCEPT !.cachedVal = val[x], !.isCached = TRUE] ELSE r[x]]
      /\ store' = [x \in Entries |-> IF x \in written THEN val[x] ELSE store[x]]
      /\ unsaved' = (unsaved \ written) \cup (doPersist \ written) \cup unseen
  BY Zenon DEF Config!SetFrom
<1>2. e \in Entries
  BY SomeEntries
<1>3. /\ e \in doPersist <=> e \in S /\ ~r[e].isTransaction /\ val[e] # r[e].cachedVal
      /\ e \in written => e \in doPersist /\ m_pConfig
      /\ e \in unseen <=> /\ e \in S /\ ~r[e].isTransaction /\ ~r[e].isCached
                          /\ val[e] = r[e].cachedVal
  BY DEF Config!DoPersist
<1>4. /\ store'[e] = IF e \in written THEN val[e] ELSE store[e]
      /\ entry'[e] = IF e \in S THEN [r[e] EXCEPT !.cachedVal = val[e], !.isCached = TRUE] ELSE r[e]
      /\ e \in unsaved' <=> \/ e \in unsaved /\ e \notin written
                            \/ e \in doPersist /\ e \notin written
                            \/ e \in unseen
  BY <1>1, <1>2
<1> HIDE DEF doPersist, written, unseen
<1>5. r[e] \in Config!EntryState
  BY <1>2
<1>6. e \in S => /\ entry'[e].cachedVal = val[e] /\ entry'[e].isCached
                 /\ entry'[e].backup = r[e].backup /\ entry'[e].isTransaction = r[e].isTransaction
  BY <1>4, <1>5 DEF Config!EntryState
<1> QED BY <1>3, <1>4, <1>6

LEMMA SetKeeps ==
  ASSUME ConfigInv, NEW S \in SUBSET Entries, NEW val \in [S -> Config!Variant], NEW failed,
         Config!SetFrom(S, entry, val, failed), UNCHANGED clean,
         \A e \in S : val[e] = Null => Default[e] = Null
  PROVE  ConfigInv'
<1>1. entry \in [Entries -> Config!EntryState]
  BY DEF ConfigInv, ConfigTyped
<1>2. ConfigTyped' /\ UNCHANGED m_pConfig
  BY <1>1, SetTyped DEF ConfigTyped, ConfigInv
<1>3. ASSUME NEW e \in Persistable PROVE EntryAgrees(e)'
  <2>1. EntryAgrees(e) /\ Config!Reload(e)' = IF store'[e] = Null THEN Default[e] ELSE store'[e]
    BY DEF ConfigInv, Config!Reload
  <2>2. CASE e \notin S
    <3>1. entry'[e] = entry[e] /\ store'[e] = store[e] /\ (e \in unsaved => e \in unsaved')
      BY <1>1, <2>2, SetOne
    <3> QED
      BY <3>1, <2>1, <1>2 DEF EntryAgrees, Config!Reload
  <2>3. CASE e \in S
    <3>1. /\ entry'[e].cachedVal = val[e] /\ entry'[e].isCached
          /\ entry'[e].backup = entry[e].backup /\ entry'[e].isTransaction = entry[e].isTransaction
          /\ entry[e].isTransaction => store'[e] = store[e]
          /\ ~entry[e].isTransaction /\ e \notin unsaved' /\ val[e] # entry[e].cachedVal
               => m_pConfig /\ store'[e] = val[e]
          /\ ~entry[e].isTransaction /\ e \notin unsaved' /\ val[e] = entry[e].cachedVal
               => entry[e].isCached /\ e \notin unsaved /\ store'[e] = store[e]
      BY <1>1, <2>3, SetOne
    <3>2. e \in Entries /\ (val[e] = Null => Default[e] = Null)
      BY <2>3
    <3> QED
      BY <3>1, <3>2, <2>1, <1>2 DEF EntryAgrees, Config!Reload
  <2> QED BY <2>2, <2>3
<1> QED BY <1>2, <1>3 DEF ConfigInv

LEMMA ReleasingKeeps ==
  ASSUME ConfigInv, NEW S \in SUBSET Entries, Config!Release(S)
  PROVE  ConfigInv'
<1> DEFINE freed == [e \in Entries |-> IF e \in S THEN Config!ReleaseEntry(entry[e]) ELSE entry[e]]
           again    == {e \in S : entry[e].isTransaction /\ entry[e].isCached}
           val      == [e \in again |-> entry[e].cachedVal]
<1>1. PICK failed \in SUBSET again : Config!SetFrom(again, freed, val, failed)
  BY DEF Config!Release
<1>2. clean' = clean \ S
  BY DEF Config!Release
<1>3. \A e \in Entries : entry[e] \in Config!EntryState
  BY DEF ConfigInv, ConfigTyped
<1>4. ASSUME NEW e \in Entries
      PROVE  /\ Config!ReleaseEntry(entry[e]) \in Config!EntryState
             /\ ~Config!ReleaseEntry(entry[e]).isTransaction
             /\ entry[e].isTransaction => /\ Config!ReleaseEntry(entry[e]).isCached = FALSE
                                          /\ entry[e].isCached => Config!ReleaseEntry(entry[e]).cachedVal = Null
             /\ ~entry[e].isTransaction => /\ Config!ReleaseEntry(entry[e]).isCached = entry[e].isCached
                                           /\ Config!ReleaseEntry(entry[e]).cachedVal = entry[e].cachedVal
  <2>1. entry[e] \in Config!EntryState /\ Null \in Config!Variant
    BY <1>3 DEF Config!Variant
  <2> QED BY <2>1 DEF Config!ReleaseEntry, Config!EntryState
<1>5. freed \in [Entries -> Config!EntryState]
  BY <1>3, <1>4
<1>6. again \in SUBSET Entries /\ val \in [again -> Config!Variant]
  BY <1>3 DEF Config!EntryState
<1>7. \A e \in Entries : freed[e] = IF e \in S THEN Config!ReleaseEntry(entry[e]) ELSE entry[e]
  OBVIOUS
<1>8. \A e \in Entries : e \in again <=> e \in S /\ entry[e].isTransaction /\ entry[e].isCached
  OBVIOUS
<1>9. \A e \in again : val[e] = entry[e].cachedVal
  OBVIOUS
<1> HIDE DEF freed, again, val
<1>10. ConfigTyped' /\ UNCHANGED m_pConfig
  BY <1>1, <1>2, <1>5, <1>6, SetTyped DEF ConfigTyped, ConfigInv
<1>11. ASSUME NEW e \in Persistable PROVE EntryAgrees(e)'
  <2>1. /\ e \in Entries /\ EntryAgrees(e)
        /\ Config!Reload(e)' = IF store'[e] = Null THEN Default[e] ELSE store'[e]
    BY SomeEntries DEF ConfigInv, Config!Reload
  <2>2. CASE e \notin again
    <3>1. /\ entry'[e] = freed[e] /\ store'[e] = store[e] /\ (e \in unsaved => e \in unsaved')
      BY <1>1, <1>5, <1>6, <2>2, SetOne
    <3>2. CASE e \in S
      <4>1. ~freed[e].isTransaction /\ e \notin clean'
        BY <3>2, <2>1, <1>2, <1>4, <1>7
      <4>2. freed[e].isCached => /\ entry[e].isCached /\ ~entry[e].isTransaction
                                 /\ freed[e].cachedVal = entry[e].cachedVal
        <5>1. freed[e] = Config!ReleaseEntry(entry[e])
          BY <3>2, <2>1, <1>7
        <5>2. ~(entry[e].isTransaction /\ entry[e].isCached)
          BY <3>2, <2>1, <2>2, <1>8
        <5>3. CASE entry[e].isTransaction
          BY <5>1, <5>3, <2>1, <1>4
        <5>4. CASE ~entry[e].isTransaction
          BY <5>1, <5>4, <2>1, <1>4
        <5> QED BY <5>3, <5>4
      <4>3. Config!Reload(e)' = Config!Reload(e)
        BY <3>1, <2>1 DEF Config!Reload
      <4> QED
        BY <4>1, <4>2, <4>3, <3>1, <2>1, <1>10 DEF EntryAgrees
    <3>3. CASE e \notin S
      BY <3>1, <3>3, <2>1, <2>2, <1>2, <1>7, <1>10 DEF EntryAgrees, Config!Reload
    <3> QED BY <3>2, <3>3
  <2>3. CASE e \in again
    <3>1. /\ entry'[e].cachedVal = val[e] /\ entry'[e].isCached
          /\ entry'[e].isTransaction = freed[e].isTransaction
          /\ ~freed[e].isTransaction /\ e \notin unsaved' /\ val[e] # freed[e].cachedVal
               => m_pConfig /\ store'[e] = val[e]
          /\ ~freed[e].isTransaction /\ e \notin unsaved' /\ val[e] = freed[e].cachedVal
               => freed[e].isCached
      BY <1>1, <1>5, <1>6, <2>3, SetOne
    <3>2. /\ ~freed[e].isTransaction /\ ~freed[e].isCached /\ freed[e].cachedVal = Null
          /\ e \notin clean'
      BY <1>2, <1>4, <1>7, <1>8, <2>1, <2>3
    <3>3. e \notin unsaved' => m_pConfig /\ store'[e] = val[e] /\ val[e] # Null
      BY <3>1, <3>2
    <3> QED
      BY <3>1, <3>2, <3>3, <2>1, <1>10 DEF EntryAgrees
  <2> QED BY <2>2, <2>3
<1> QED BY <1>10, <1>11 DEF ConfigInv

LEMMA SavePointKeeps ==
  ASSUME ConfigInv, NEW S \in SUBSET Entries, NEW t \in BOOLEAN, Config!SavePoint(S, t)
  PROVE  ConfigInv'
<1>1. PICK failed \in SUBSET S :
        LET got == [e \in S |-> Config!GetEntry(e, failed)]
        IN  /\ entry' = [e \in Entries |->
                           IF e \in S
                           THEN [got[e] EXCEPT !.backup = Config!Backup(got[e]), !.isTransaction = t]
                           ELSE entry[e]]
            /\ unsaved' = unsaved \cup Config!Misread(S, failed)
                          \cup {e \in S \cap Persistable : entry[e].isTransaction /\ ~t}
            /\ clean' = (clean \ S)
                        \cup {e \in S \cap Persistable :
                                t /\ ~entry[e].isTransaction /\ e \notin unsaved'}
            /\ UNCHANGED <<m_pConfig, store, committed, m_isMassSaving>>
  BY Zenon DEF Config!SavePoint
<1> DEFINE got(e) == Config!GetEntry(e, failed)
           saved(e) == [got(e) EXCEPT !.backup = got(e).cachedVal, !.isTransaction = t]
<1>2. \A e \in Entries : entry'[e] = IF e \in S THEN saved(e) ELSE entry[e]
  BY <1>1 DEF Config!Backup
<1>a. UNCHANGED m_pConfig /\ UNCHANGED store
  BY <1>1
<1>b. /\ unsaved' = unsaved \cup Config!Misread(S, failed)
                    \cup {e \in S \cap Persistable : entry[e].isTransaction /\ ~t}
      /\ clean' = (clean \ S)
                  \cup {e \in S \cap Persistable :
                          t /\ ~entry[e].isTransaction /\ e \notin unsaved'}
  BY <1>1
<1>3. \A e \in Entries : got(e) \in Config!EntryState /\ entry[e] \in Config!EntryState
  BY EntryIsRead
<1>4. ASSUME NEW e \in Entries
      PROVE  /\ entry'[e] \in Config!EntryState
             /\ e \notin S => entry'[e] = entry[e]
             /\ e \in S => /\ entry'[e].isTransaction = t /\ entry'[e].cachedVal = got(e).cachedVal
                           /\ entry'[e].isCached = got(e).isCached
                           /\ entry'[e].backup = got(e).cachedVal
  <2>1. /\ saved(e) \in Config!EntryState /\ saved(e).isTransaction = t
        /\ saved(e).cachedVal = got(e).cachedVal /\ saved(e).isCached = got(e).isCached
        /\ saved(e).backup = got(e).cachedVal
    <3>1. got(e) \in Config!EntryState
      BY <1>3
    <3> HIDE DEF got
    <3> QED BY <3>1 DEF Config!EntryState
  <2>2. entry'[e] = IF e \in S THEN saved(e) ELSE entry[e]
    BY <1>2
  <2>3. entry[e] \in Config!EntryState
    BY <1>3
  <2> HIDE DEF saved, got
  <2> QED BY <2>1, <2>2, <2>3
<1>5. ConfigTyped'
  <2>1. entry' = [e \in Entries |-> entry'[e]]
    BY <1>1
  <2>2. entry' \in [Entries -> Config!EntryState]
    BY <2>1, <1>4
  <2>3. ConfigTyped /\ Config!Misread(S, failed) \subseteq Persistable
    BY DEF ConfigInv, Config!Misread
  <2>4. unsaved' \subseteq Persistable /\ clean' \subseteq Persistable
    BY <1>1, <2>3 DEF ConfigTyped
  <2> QED BY <1>1, <2>2, <2>3, <2>4 DEF ConfigTyped
<1> HIDE DEF got, saved
<1>6. ASSUME NEW e \in Persistable PROVE EntryAgrees(e)'
  <2>1. e \in Entries /\ EntryAgrees(e) /\ Config!Reload(e)' = Config!Reload(e)
    BY <1>a, SomeEntries DEF ConfigInv, Config!Reload
  <2>2. CASE e \notin S
    <3>1. /\ entry'[e] = entry[e] /\ (e \in unsaved => e \in unsaved') /\ (e \in clean' => e \in clean)
      BY <1>b, <1>4, <2>1, <2>2
    <3> QED
      BY <3>1, <2>1, <1>a DEF EntryAgrees
  <2>3. CASE e \in S
    <3>1. /\ entry'[e].isTransaction = t /\ entry'[e].cachedVal = got(e).cachedVal
          /\ entry'[e].isCached /\ entry'[e].backup = got(e).cachedVal
          /\ entry[e].isCached => got(e) = entry[e]
          /\ ~entry[e].isCached /\ e \notin failed /\ m_pConfig => got(e).cachedVal = Config!Reload(e)
      BY <1>4, <2>1, <2>3, EntryIsRead DEF got
    <3>2. /\ e \in clean' => t /\ ~entry[e].isTransaction /\ e \notin unsaved'
          /\ e \in unsaved \/ e \in Config!Misread(S, failed) \/ (entry[e].isTransaction /\ ~t)
               => e \in unsaved'
      BY <1>b, <2>3
    <3>3. ~entry[e].isCached /\ (e \in failed \/ ~m_pConfig) => e \in unsaved'
      BY <3>2, <2>3 DEF Config!Misread
    <3>4. ~entry[e].isTransaction /\ e \notin unsaved' => m_pConfig /\ got(e).cachedVal = Config!Reload(e)
      <4>1. CASE entry[e].isCached
        BY <4>1, <3>1, <3>2, <2>1, <1>5 DEF EntryAgrees, ConfigTyped
      <4>2. CASE ~entry[e].isCached
        BY <4>2, <3>1, <3>3
      <4> QED BY <4>1, <4>2
    <3> QED
      BY <3>1, <3>2, <3>4, <2>1, <1>a DEF EntryAgrees
  <2> QED BY <2>2, <2>3
<1> QED BY <1>5, <1>6 DEF ConfigInv

LEMMA RestoreKeeps ==
  ASSUME ConfigInv, NEW S \in SUBSET Entries, Config!Restore(S)
  PROVE  ConfigInv'
<1>1. /\ entry' = [e \in Entries |-> IF e \in S THEN Config!RestoreEntry(entry[e]) ELSE entry[e]]
      /\ unsaved' = (unsaved \ (clean \cap S)) \cup ((S \cap Persistable) \ clean)
      /\ clean' = clean \ S
      /\ UNCHANGED <<m_pConfig, store, committed, m_isMassSaving>>
  BY DEF Config!Restore
<1>2. ASSUME NEW e \in Entries
      PROVE  /\ entry'[e] \in Config!EntryState
             /\ e \notin S => entry'[e] = entry[e]
             /\ e \in S => /\ entry'[e].cachedVal = entry[e].backup /\ entry'[e].isCached
                           /\ ~entry'[e].isTransaction
  <2>1. entry[e] \in Config!EntryState
    BY DEF ConfigInv, ConfigTyped
  <2>2. entry'[e] = IF e \in S THEN Config!RestoreEntry(entry[e]) ELSE entry[e]
    BY <1>1
  <2> QED BY <2>1, <2>2 DEF Config!RestoreEntry, Config!EntryState
<1>3. ConfigTyped'
  <2>1. entry' = [e \in Entries |-> entry'[e]]
    BY <1>1
  <2>2. entry' \in [Entries -> Config!EntryState]
    BY <2>1, <1>2
  <2> QED BY <1>1, <2>2 DEF ConfigInv, ConfigTyped
<1>4. ASSUME NEW e \in Persistable PROVE EntryAgrees(e)'
  <2>1. e \in Entries /\ EntryAgrees(e) /\ Config!Reload(e)' = Config!Reload(e)
    BY <1>1, SomeEntries DEF ConfigInv, Config!Reload
  <2>2. CASE e \notin S
    <3>1. entry'[e] = entry[e] /\ (e \in unsaved => e \in unsaved') /\ (e \in clean' => e \in clean)
      BY <1>1, <1>2, <2>1, <2>2
    <3> QED
      BY <3>1, <2>1, <1>1 DEF EntryAgrees
  <2>3. CASE e \in S
    <3>1. e \notin clean' /\ (e \notin unsaved' => e \in clean) /\ (e \notin clean => e \in unsaved')
      BY <1>1, <2>3
    <3> QED
      BY <3>1, <1>2, <2>1, <2>3, <1>1 DEF EntryAgrees
  <2> QED BY <2>2, <2>3
<1> QED BY <1>3, <1>4 DEF ConfigInv

LEMMA SavingKeeps ==
  ASSUME ConfigInv,
         \/ Config!InitConfig \/ Config!BeginMassSave \/ Config!CommitMassSave
         \/ Config!RollbackMassSave \/ Config!Restart \/ \E e \in Persistable : Config!RemoveRow(e)
  PROVE  ConfigInv'
<1>1. ConfigTyped /\ \A e \in Persistable : EntryAgrees(e)
  BY DEF ConfigInv
<1>2. CASE Config!InitConfig
  <2>1. ConfigTyped'
    BY <1>1, <1>2 DEF Config!InitConfig, ConfigTyped
  <2>2. ASSUME NEW e \in Persistable PROVE EntryAgrees(e)'
    BY <1>1, <1>2 DEF Config!InitConfig, EntryAgrees
  <2> QED BY <2>1, <2>2 DEF ConfigInv
<1>3. CASE Config!BeginMassSave \/ Config!CommitMassSave
  <2>1. /\ UNCHANGED entry /\ UNCHANGED m_pConfig /\ UNCHANGED store
        /\ UNCHANGED unsaved /\ UNCHANGED clean
    BY <1>3 DEF Config!BeginMassSave, Config!CommitMassSave
  <2>2. committed' \in [Entries -> Config!Variant] /\ m_isMassSaving' \in BOOLEAN
    BY <1>1, <1>3 DEF Config!BeginMassSave, Config!CommitMassSave, ConfigTyped
  <2>3. ConfigTyped'
    BY <1>1, <2>1, <2>2 DEF ConfigTyped
  <2>4. ASSUME NEW e \in Persistable PROVE EntryAgrees(e)'
    BY <1>1, <2>1 DEF EntryAgrees, Config!Reload
  <2> QED BY <2>3, <2>4 DEF ConfigInv
<1>4. CASE Config!RollbackMassSave
  <2>1. /\ store' = committed /\ UNCHANGED entry /\ UNCHANGED m_pConfig /\ UNCHANGED committed
        /\ unsaved' = unsaved \cup {e \in Persistable : store[e] # committed[e] /\ entry[e].isCached}
        /\ clean' = clean \ {e \in Persistable : store[e] # committed[e] /\ entry[e].isCached}
        /\ m_isMassSaving' = FALSE
    BY <1>4 DEF Config!RollbackMassSave
  <2>2. ConfigTyped'
    BY <1>1, <2>1 DEF ConfigTyped
  <2>3. ASSUME NEW e \in Persistable PROVE EntryAgrees(e)'
    <3>1. EntryAgrees(e)
      BY <1>1
    <3>2. CASE store[e] # committed[e] /\ entry[e].isCached
      <4>1. e \in unsaved' /\ e \notin clean'
        BY <2>1, <3>2
      <4> QED BY <4>1 DEF EntryAgrees
    <3>3. CASE ~(store[e] # committed[e] /\ entry[e].isCached)
      <4>1. /\ (e \in unsaved' <=> e \in unsaved) /\ (e \in clean' => e \in clean)
            /\ entry[e].isCached => Config!Reload(e)' = Config!Reload(e)
        BY <2>1, <3>3 DEF Config!Reload
      <4> QED BY <2>1, <3>1, <4>1 DEF EntryAgrees
    <3> QED BY <3>2, <3>3
  <2> QED BY <2>2, <2>3 DEF ConfigInv
<1>5. CASE Config!Restart
  <2>1. /\ entry' = [e \in Entries |-> Config!NewEntry] /\ m_pConfig' = FALSE /\ m_isMassSaving' = FALSE
        /\ store' = committed /\ unsaved' = {} /\ clean' = {} /\ UNCHANGED committed
    BY <1>5 DEF Config!Restart
  <2>2. Config!NewEntry \in Config!EntryState /\ ~Config!NewEntry.isCached
    BY DEF Config!NewEntry, Config!EntryState, Config!Variant
  <2>3. ConfigTyped'
    BY <1>1, <2>1, <2>2 DEF ConfigTyped
  <2>4. ASSUME NEW e \in Persistable PROVE EntryAgrees(e)'
    BY <2>1, <2>2, SomeEntries DEF EntryAgrees
  <2> QED BY <2>3, <2>4 DEF ConfigInv
<1>6. CASE \E e \in Persistable : Config!RemoveRow(e)
  <2>1. PICK x \in Persistable :
          /\ store' = [store EXCEPT ![x] = Null]
          /\ committed' = IF m_isMassSaving THEN committed ELSE store'
          /\ unsaved' = IF entry[x].isCached THEN unsaved \cup {x} ELSE unsaved
          /\ clean' = clean \ {x}
          /\ UNCHANGED entry /\ UNCHANGED m_pConfig /\ UNCHANGED m_isMassSaving
    BY <1>6 DEF Config!RemoveRow
  <2>2. store' \in [Entries -> Config!Variant]
    BY <1>1, <2>1 DEF ConfigTyped, Config!Variant
  <2>3. ConfigTyped'
    BY <1>1, <2>1, <2>2 DEF ConfigTyped
  <2>4. ASSUME NEW e \in Persistable PROVE EntryAgrees(e)'
    <3>1. EntryAgrees(e) /\ e \in Entries
      BY <1>1, SomeEntries
    <3>2. CASE e = x
      <4>1. e \notin clean' /\ (entry[e].isCached => e \in unsaved')
        BY <2>1, <3>2
      <4> QED BY <4>1, <2>1 DEF EntryAgrees
    <3>3. CASE e # x
      <4>1. store'[e] = store[e] /\ (e \in unsaved' <=> e \in unsaved) /\ (e \in clean' => e \in clean)
        BY <1>1, <2>1, <3>1, <3>3 DEF ConfigTyped
      <4> QED BY <4>1, <2>1, <3>1 DEF EntryAgrees, Config!Reload
    <3> QED BY <3>2, <3>3
  <2> QED BY <2>3, <2>4 DEF ConfigInv
<1> QED BY <1>2, <1>3, <1>4, <1>5, <1>6

LEMMA ConfigStep ==
  ASSUME ConfigInv, Config!Next
  PROVE  ConfigInv'
<1>1. ASSUME NEW e \in Entries, Config!Get({e}) PROVE ConfigInv'
  BY <1>1, GetKeeps
<1>2. ASSUME NEW m \in Mains, Config!Get(m) PROVE ConfigInv'
  BY <1>2, GetKeeps, SomeEntries
<1>3. ASSUME NEW e \in Entries, NEW v \in Settings, Config!Set(e, v) PROVE ConfigInv'
  <2> DEFINE val == [x \in {e} |-> v]
  <2>1. PICK failed \in SUBSET {e} : Config!SetFrom({e}, entry, val, failed)
    BY <1>3 DEF Config!Set
  <2>2. UNCHANGED clean
    BY <1>3 DEF Config!Set
  <2>3. {e} \in SUBSET Entries /\ val \in [{e} -> Config!Variant] /\ \A x \in {e} : val[x] # Null
    BY SomeEntries DEF Config!Variant
  <2> HIDE DEF val
  <2> QED BY <2>1, <2>2, <2>3, SetKeeps
<1>4. ASSUME NEW S \in Config!Groups, Config!Reset(S) PROVE ConfigInv'
  <2>1. PICK failed \in SUBSET S : Config!SetFrom(S, entry, Default, failed)
    BY <1>4 DEF Config!Reset
  <2>2. UNCHANGED clean
    BY <1>4 DEF Config!Reset
  <2>3. S \in SUBSET Entries
    BY SomeEntries
  <2> DEFINE val == [e \in S |-> Default[e]]
  <2>4. val \in [S -> Config!Variant] /\ \A e \in S : val[e] = Default[e]
    BY <2>3, SomeEntries
  <2>5. Config!SetFrom(S, entry, val, failed)
    <3>1. \A e \in S : val[e] = Default[e]
      BY <2>4
    <3> HIDE DEF val
    <3> QED BY <2>1, <2>3, <3>1 DEF Config!SetFrom
  <2> HIDE DEF val
  <2> QED BY <2>2, <2>3, <2>4, <2>5, SetKeeps
<1>5. ASSUME NEW m \in Mains, NEW S \in SUBSET m, Config!SetValues(S) PROVE ConfigInv'
  <2>1. PICK val \in [S -> Settings], failed \in SUBSET S : Config!SetFrom(S, entry, val, failed)
    BY <1>5 DEF Config!SetValues
  <2>2. UNCHANGED clean
    BY <1>5 DEF Config!SetValues
  <2>3. S \in SUBSET Entries /\ val \in [S -> Config!Variant] /\ \A x \in S : val[x] # Null
    BY <2>1, SomeEntries DEF Config!Variant
  <2> QED BY <2>1, <2>2, <2>3, SetKeeps
<1>6. ASSUME NEW S \in Config!Groups, NEW t \in BOOLEAN, Config!SavePoint(S, t) PROVE ConfigInv'
  BY <1>6, SavePointKeeps, SomeEntries
<1>7. ASSUME NEW S \in Config!Groups, Config!Restore(S) PROVE ConfigInv'
  BY <1>7, RestoreKeeps, SomeEntries
<1>8. ASSUME NEW c \in Categories, Config!Restore(Config!InTransaction(c)) PROVE ConfigInv'
  <2>1. Config!InTransaction(c) \in SUBSET Entries
    BY SomeEntries DEF Config!InTransaction
  <2> QED BY <1>8, <2>1, RestoreKeeps
<1>9. ASSUME NEW S \in Config!Groups, Config!Release(S) PROVE ConfigInv'
  BY <1>9, ReleasingKeeps, SomeEntries
<1>10. CASE \/ Config!InitConfig \/ Config!BeginMassSave \/ Config!CommitMassSave
            \/ Config!RollbackMassSave \/ Config!Restart \/ \E e \in Persistable : Config!RemoveRow(e)
  BY <1>10, SavingKeeps
<1> QED
  BY <1>1, <1>2, <1>3, <1>4, <1>5, <1>6, <1>7, <1>8, <1>9, <1>10 DEF Config!Next

LEMMA ConfigPromises == ConfigInv => Config!CacheAgreesWithStore
  BY DEF ConfigInv, EntryAgrees, Config!CacheAgreesWithStore

\* The row of an entry changes by its own set() out of a transaction, by the end of a mass
\* save, and by remove().
Rows ==
  \A e \in Entries :
    entry[e].isTransaction /\ entry'[e].isTransaction /\ store'[e] # store[e]
      => store'[e] = committed[e] \/ store'[e] = Null

\* set() keeps the row of an entry in a transaction, and an entry that it is not of.
LEMMA SetRow ==
  ASSUME NEW S \in SUBSET Entries, NEW r \in [Entries -> Config!EntryState],
         NEW val \in [S -> Config!Variant], NEW failed, Config!SetFrom(S, r, val, failed),
         NEW e \in Entries, e \notin S \/ r[e].isTransaction
  PROVE  store'[e] = store[e]
<1> DEFINE doPersist == {x \in S : Config!DoPersist(x, r[x], val[x])}
           written   == IF m_pConfig THEN doPersist \ failed ELSE {}
<1>1. store' = [x \in Entries |-> IF x \in written THEN val[x] ELSE store[x]]
  BY Zenon DEF Config!SetFrom
<1>2. e \notin written
  BY DEF Config!DoPersist
<1> HIDE DEF written
<1> QED BY <1>1, <1>2

\* And set() leaves the transactions of its entries as they are.
LEMMA SetTransaction ==
  ASSUME NEW S \in SUBSET Entries, NEW r \in [Entries -> Config!EntryState],
         NEW val \in [S -> Config!Variant], NEW failed, Config!SetFrom(S, r, val, failed),
         NEW e \in Entries
  PROVE  entry'[e].isTransaction = r[e].isTransaction
<1>1. entry' = [x \in Entries |->
                  IF x \in S THEN [r[x] EXCEPT !.cachedVal = val[x], !.isCached = TRUE] ELSE r[x]]
  BY Zenon DEF Config!SetFrom
<1> QED BY <1>1 DEF Config!EntryState

LEMMA RowsOfSet ==
  ASSUME ConfigInv, NEW S \in SUBSET Entries, NEW val \in [S -> Config!Variant], NEW failed,
         Config!SetFrom(S, entry, val, failed)
  PROVE  Rows
<1>1. entry \in [Entries -> Config!EntryState]
  BY DEF ConfigInv, ConfigTyped
<1>2. ASSUME NEW e \in Entries, entry[e].isTransaction PROVE store'[e] = store[e]
  BY <1>1, <1>2, SetRow
<1> QED BY <1>2 DEF Rows

LEMMA RowsOfRelease ==
  ASSUME ConfigInv, NEW S \in SUBSET Entries, Config!Release(S)
  PROVE  Rows
<1> DEFINE freed == [e \in Entries |-> IF e \in S THEN Config!ReleaseEntry(entry[e]) ELSE entry[e]]
           again    == {e \in S : entry[e].isTransaction /\ entry[e].isCached}
           val      == [e \in again |-> entry[e].cachedVal]
<1>1. PICK failed \in SUBSET again : Config!SetFrom(again, freed, val, failed)
  BY DEF Config!Release
<1>2. \A e \in Entries : entry[e] \in Config!EntryState
  BY DEF ConfigInv, ConfigTyped
<1>3. ASSUME NEW e \in Entries
      PROVE  Config!ReleaseEntry(entry[e]) \in Config!EntryState /\ ~Config!ReleaseEntry(entry[e]).isTransaction
  <2>1. entry[e] \in Config!EntryState /\ Null \in Config!Variant
    BY <1>2 DEF Config!Variant
  <2> QED BY <2>1 DEF Config!ReleaseEntry, Config!EntryState
<1>4. freed \in [Entries -> Config!EntryState] /\ \A e \in S : ~freed[e].isTransaction
  BY <1>2, <1>3
<1>5. again \in SUBSET S /\ val \in [again -> Config!Variant]
  BY <1>2 DEF Config!EntryState
<1> HIDE DEF freed, again, val
<1>6. ASSUME NEW e \in Entries, entry'[e].isTransaction PROVE store'[e] = store[e]
  <2>1. again \in SUBSET Entries
    BY <1>5
  <2>2. freed[e].isTransaction
    BY <1>1, <1>4, <1>5, <1>6, <2>1, SetTransaction
  <2> QED BY <1>1, <1>4, <1>5, <2>1, <2>2, SetRow
<1> QED BY <1>6 DEF Rows

LEMMA RowsOfNext ==
  ASSUME ConfigInv, Config!Next
  PROVE  Rows
<1>0. entry \in [Entries -> Config!EntryState] /\ store \in [Entries -> Config!Variant]
  BY DEF ConfigInv, ConfigTyped
<1>1. CASE UNCHANGED store
  BY <1>1 DEF Rows
<1>2. ASSUME NEW e \in Entries, NEW v \in Settings, Config!Set(e, v) PROVE Rows
  <2> DEFINE val == [x \in {e} |-> v]
  <2>1. PICK failed \in SUBSET {e} : Config!SetFrom({e}, entry, val, failed)
    BY <1>2 DEF Config!Set
  <2>2. {e} \in SUBSET Entries /\ val \in [{e} -> Config!Variant]
    BY DEF Config!Variant
  <2> HIDE DEF val
  <2> QED BY <2>1, <2>2, RowsOfSet
<1>3. ASSUME NEW S \in Config!Groups, Config!Reset(S) PROVE Rows
  <2>1. PICK failed \in SUBSET S : Config!SetFrom(S, entry, Default, failed)
    BY <1>3 DEF Config!Reset
  <2>2. S \in SUBSET Entries
    BY SomeEntries
  <2> DEFINE val == [e \in S |-> Default[e]]
  <2>3. val \in [S -> Config!Variant] /\ \A e \in S : val[e] = Default[e]
    BY <2>2, SomeEntries
  <2>4. Config!SetFrom(S, entry, val, failed)
    <3>1. \A e \in S : val[e] = Default[e]
      BY <2>3
    <3> HIDE DEF val
    <3> QED BY <2>1, <2>2, <3>1 DEF Config!SetFrom
  <2> HIDE DEF val
  <2> QED BY <2>2, <2>3, <2>4, RowsOfSet
<1>4. ASSUME NEW m \in Mains, NEW S \in SUBSET m, Config!SetValues(S) PROVE Rows
  <2>1. PICK val \in [S -> Settings], failed \in SUBSET S : Config!SetFrom(S, entry, val, failed)
    BY <1>4 DEF Config!SetValues
  <2>2. S \in SUBSET Entries /\ val \in [S -> Config!Variant]
    BY <2>1, SomeEntries DEF Config!Variant
  <2> QED BY <2>1, <2>2, RowsOfSet
<1>5. ASSUME NEW S \in Config!Groups, Config!Release(S) PROVE Rows
  BY <1>5, RowsOfRelease, SomeEntries
<1>6. CASE Config!RollbackMassSave \/ Config!Restart
  <2>1. store' = committed
    BY <1>6 DEF Config!RollbackMassSave, Config!Restart
  <2> QED BY <2>1 DEF Rows
<1>7. ASSUME NEW x \in Persistable, Config!RemoveRow(x) PROVE Rows
  <2>1. store' = [store EXCEPT ![x] = Null]
    BY <1>7 DEF Config!RemoveRow
  <2> QED BY <1>0, <2>1 DEF Rows
<1>8. ASSUME NEW S, Config!Get(S) PROVE UNCHANGED store
  BY <1>8 DEF Config!Get
<1>9. ASSUME NEW S, NEW t, Config!SavePoint(S, t) PROVE UNCHANGED store
  BY <1>9, Zenon DEF Config!SavePoint
<1>10. ASSUME NEW S, Config!Restore(S) PROVE UNCHANGED store
  BY <1>10 DEF Config!Restore
<1>11. Config!InitConfig \/ Config!BeginMassSave \/ Config!CommitMassSave => UNCHANGED store
  BY DEF Config!InitConfig, Config!BeginMassSave, Config!CommitMassSave
<1> QED
  BY <1>1, <1>2, <1>3, <1>4, <1>5, <1>6, <1>7, <1>8, <1>9, <1>10, <1>11 DEF Config!Next

-----------------------------------------------------------------------------
(* The end of an application.                                               *)

Closes == {"WM_CLOSE"}

AppTypes ==
  /\ x1 \in BOOLEAN /\ x4 \subseteq Quitters /\ x6 \in {"none", "open", "destroyed"}
  /\ x8 \in [ConsoleHandlers -> {"idle", "called", "posted", "returned"}]
  /\ x1 => x3 \in {"before", "locked", "waiting", "woken", "after"}
  /\ ~x1 => x3 \in {"before", "dispatching", "after"} /\ x4 = {}

\* The queue holds requests to close while there is a window, and then the end of the loop.
AppQueue ==
  /\ x6 = "none" => x7 = <<>>
  /\ x6 = "open" => x7 \in Seq(Closes) /\ \A h \in ConsoleHandlers : x8[h] = "posted" => x7 # <<>>
  /\ x6 = "destroyed" => IF x3 = "after" THEN x7 = <<>> ELSE x7 = <<"WM_QUIT">>

AppInv ==
  /\ AppTypes /\ AppQueue
  /\ \A h \in ConsoleHandlers : x8[h] \in {"called", "posted"} => x6 # "none"
  /\ ~x1 /\ x3 = "after" => x6 = "destroyed"
  /\ x1 => x6 = "none"
  /\ x1 /\ x3 \in {"woken", "after"} => x5 # "none"

LEMMA AppStart == Application!Init => AppInv
BY DEF Application!Init, AppInv, AppTypes, AppQueue

LEMMA AppPromises == AppInv => Application!CloseArrives /\ Application!TypeOK
<1> SUFFICES ASSUME AppInv PROVE Application!CloseArrives /\ Application!TypeOK
  OBVIOUS
<1>1. ASSUME NEW h \in ConsoleHandlers, x8[h] = "posted"
      PROVE  x6 = "destroyed" \/ "WM_CLOSE" \in Application!Range(x7)
  <2>1. CASE x6 = "open"
    <3>1. x7 \in Seq(Closes) /\ x7 # <<>>
      BY <1>1, <2>1 DEF AppInv, AppQueue
    <3>2. 1 \in DOMAIN x7 /\ x7[1] = "WM_CLOSE"
      BY <3>1 DEF Closes
    <3> QED BY <3>2 DEF Application!Range
  <2> QED BY <1>1, <2>1 DEF AppInv, AppTypes
<1>2. Application!Range(x7) \subseteq {"WM_CLOSE", "WM_QUIT"}
  <2>1. CASE x6 = "open"
    BY <2>1 DEF AppInv, AppQueue, Closes, Application!Range
  <2>2. CASE x6 # "open"
    <3>1. x7 = <<>> \/ x7 = <<"WM_QUIT">>
      BY <2>2 DEF AppInv, AppQueue, AppTypes
    <3> QED BY <3>1 DEF Application!Range
  <2> QED BY <2>1, <2>2
<1>3. x6 = "open" => x7 # <<"WM_QUIT">>
  <2> SUFFICES ASSUME x6 = "open", x7 = <<"WM_QUIT">> PROVE FALSE
    OBVIOUS
  <2>1. x7 \in Seq(Closes) /\ 1 \in 1 .. Len(x7) /\ x7[1] = "WM_QUIT"
    BY DEF AppInv, AppQueue
  <2>2. x7[1] \in Closes
    BY <2>1
  <2> QED BY <2>1, <2>2 DEF Closes
<1>4. ~x1 => (x6 = "destroyed" <=> x3 = "after" \/ x7 = <<"WM_QUIT">>)
  BY <1>3 DEF AppInv, AppTypes, AppQueue
<1>5. x1 /\ x3 = "after" => x5 # "none"
  BY DEF AppInv
<1>6. Application!CloseArrives
  BY <1>1, <1>4, <1>5 DEF Application!CloseArrives
<1> QED BY <1>2, <1>6 DEF Application!TypeOK, AppInv, AppTypes

\* A step of the loop: nothing to do, the end, or a window to close.
LEMMA AppDispatch == ASSUME AppInv, Application!Dispatch PROVE AppInv'
<1> USE DEF Application!Dispatch, Application!waitVars
<1>1. CASE x7 = <<>>
  BY <1>1 DEF AppInv, AppTypes, AppQueue
<1>2. CASE x6 = "open" /\ x7 # <<>>
  <2>1. Head(x7) = "WM_CLOSE"
    BY <1>2 DEF AppInv, AppQueue, Closes
  <2>2. x3' = "dispatching" /\ x6' = "destroyed" /\ x7' = <<"WM_QUIT">>
    BY <1>2, <2>1 DEF Application!WndProc, Application!QuitMessage
  <2>3. UNCHANGED <<x1, x4, x5, x8>> /\ ~x1
    OBVIOUS
  <2> QED BY <2>2, <2>3 DEF AppInv, AppTypes, AppQueue
<1>3. CASE x6 = "destroyed" /\ x7 # <<>>
  <2>1. x7 = <<"WM_QUIT">>
    BY <1>3 DEF AppInv, AppQueue
  <2>2. x3' = "after" /\ x7' = <<>> /\ x6' = x6
    BY <2>1
  <2>3. UNCHANGED <<x1, x4, x5, x8>> /\ ~x1
    OBVIOUS
  <2> QED BY <1>3, <2>2, <2>3 DEF AppInv, AppTypes, AppQueue
<1> QED BY <1>1, <1>2, <1>3 DEF AppInv, AppTypes, AppQueue

LEMMA AppPostClose ==
  ASSUME AppInv, NEW h \in ConsoleHandlers, Application!PostClose(h)
  PROVE  AppInv'
<1> USE DEF Application!PostClose, Application!waitVars
<1>1. UNCHANGED <<x1, x3, x4, x5, x6>> /\ x8' = [x8 EXCEPT ![h] = "posted"] /\ x6 # "none" /\ ~x1
  BY DEF AppInv, AppTypes
<1>2. AppTypes'
  BY <1>1 DEF AppInv, AppTypes
<1>3. AppQueue'
  <2>1. CASE x6 = "open"
    <3>1. x7 \in Seq(Closes) /\ "WM_CLOSE" \in Closes
      BY <2>1 DEF AppInv, AppQueue, Closes
    <3>2. x7' = Append(x7, "WM_CLOSE")
      BY <2>1
    <3> HIDE DEF Closes
    <3>3. x7' \in Seq(Closes) /\ x7' # <<>>
      BY <3>1, <3>2
    <3> QED BY <1>1, <2>1, <3>3 DEF AppQueue
  <2>2. CASE x6 # "open"
    BY <1>1, <2>2 DEF AppInv, AppQueue
  <2> QED BY <2>1, <2>2
<1> QED BY <1>1, <1>2, <1>3 DEF AppInv, AppTypes

LEMMA AppStep == AppInv /\ [Application!Next]_serviceVars => AppInv'
<1> SUFFICES ASSUME AppInv, [Application!Next]_serviceVars PROVE AppInv'
  OBVIOUS
<1> USE DEF Application!waitVars, Application!windowVars
<1>1. CASE Application!Construct
  BY <1>1 DEF Application!Construct, AppInv, AppTypes, AppQueue
<1>2. CASE Application!exec
  BY <1>2 DEF Application!exec, Application!wait, AppInv, AppTypes, AppQueue
<1>3. CASE Application!WakeUp
  BY <1>3 DEF Application!WakeUp, AppInv, AppTypes, AppQueue
<1>4. ASSUME NEW q \in Quitters, Application!quit(q) \/ Application!Notify(q) PROVE AppInv'
  BY <1>4 DEF Application!quit, Application!Notify, AppInv, AppTypes, AppQueue
<1>5. CASE Application!SetHandler
  BY <1>5 DEF Application!SetHandler, AppInv, AppTypes, AppQueue
<1>6. CASE Application!CreateWindow
  BY <1>6 DEF Application!CreateWindow, AppInv, AppTypes, AppQueue
<1>7. ASSUME NEW h \in ConsoleHandlers, Application!ConsoleCtrlHandler(h) PROVE AppInv'
  BY <1>7 DEF Application!ConsoleCtrlHandler, AppInv, AppTypes, AppQueue
<1>8. ASSUME NEW h \in ConsoleHandlers, Application!SeeWindowGone(h) PROVE AppInv'
  BY <1>8 DEF Application!SeeWindowGone, AppInv, AppTypes, AppQueue
<1>9. CASE UNCHANGED serviceVars
  BY <1>9 DEF serviceVars, AppInv, AppTypes, AppQueue
<1> QED BY <1>1, <1>2, <1>3, <1>4, <1>5, <1>6, <1>7, <1>8, <1>9, AppDispatch, AppPostClose
        DEF Application!Next

-----------------------------------------------------------------------------
(* The messages of a logger. A client's calls keep the formatter that build() *)
(* would make, and the loggers made later are of one build().              *)

Patterns == {Full, Labelled, Plain}
Formatters == [pattern : Patterns, customFlags : BOOLEAN]
SpdlogNames == [LevelSettings!SpdlogLevels -> Labels \cup {Builtin}]
LoggerData ==
  [loggerLevel : 0 .. 6, isAsyncEnabled : BOOLEAN, isPatternEnabled : BOOLEAN, pattern : Patterns,
   customFlags : BOOLEAN, spdlogLevelNames : SpdlogNames,
   patternFormatter : Formatters \cup {Nil}, sinks : SUBSET Callbacks]

\* What a message of a level shows under a formatter.
ShownBy(f, l) ==
  IF f = Nil THEN Builtin
  ELSE IF f.pattern = Plain THEN Plain
  ELSE IF f.pattern = Labelled /\ f.customFlags
       THEN x1.spdlogLevelNames[LevelSettings!toSpdlogLevel(l)] ELSE Builtin

LevelTypes ==
  /\ x1 \in LoggerData /\ x2 \in BOOLEAN
  /\ x3 \in [Loggers -> 0 .. 6 \cup {Nil}]
  /\ x4 \in [Callbacks -> {Nil, x1.patternFormatter}]
  /\ x5 \in [Callbacks -> Labels \cup {Builtin, Plain, Nil}]
  /\ x6 \in Patterns \cup {Nil} /\ x7 \in [LogLevels -> Labels \cup {Builtin}]
  /\ x8 \in [Loggers -> 0 .. 6]
  /\ x1.loggerLevel \in LogLevels \cup {3}

\* Before build() the data are what the client has asked for.
BeforeBuild ==
  ~x2 =>
    /\ x1.patternFormatter = Nil /\ x9 = Nil /\ \A g \in Loggers : x3[g] = Nil
    /\ IF x6 = Nil THEN x1.pattern = Full ELSE x1.pattern = x6 /\ x1.isPatternEnabled
    /\ x1.customFlags => x1.isPatternEnabled
    /\ ~x1.customFlags => \A l \in LogLevels : x7[l] = Builtin

AfterBuild ==
  /\ \A l \in LogLevels : x1.spdlogLevelNames[LevelSettings!toSpdlogLevel(l)] = x7[l]
  /\ x2 => \A l \in LogLevels : ShownBy(x1.patternFormatter, l) = LevelSettings!Due(l)

LoggersMade ==
  \A g \in Loggers : x3[g] # Nil =>
    /\ x3[g] = LevelSettings!toSpdlogLevel(x8[g])
    /\ \A c \in x1.sinks : x4[c] = x1.patternFormatter

LevelInv == LevelTypes /\ BeforeBuild /\ AfterBuild /\ LoggersMade /\ LevelSettings!MessagesArrive

LEMMA SpdlogLevelOf ==
  \A l \in 0 .. 6 : /\ LevelSettings!toSpdlogLevel(l) \in LevelSettings!SpdlogLevels
                    /\ LevelSettings!toSpdlogLevel(l) \in 0 .. 6
                    /\ \A k \in 0 .. 6 : LevelSettings!toSpdlogLevel(k) = LevelSettings!toSpdlogLevel(l) => k = l
BY DEF LevelSettings!toSpdlogLevel, LevelSettings!Off, LevelSettings!SpdlogLevels

LEMMA LevelStart == LevelSettings!Init => LevelInv
<1> SUFFICES ASSUME LevelSettings!Init PROVE LevelInv
  OBVIOUS
<1> USE DEF LevelSettings!Init
<1>1. LogLevels \subseteq 0 .. 6
  BY DataAssumption DEF LevelSettings!LoggerAssumption
<1>2. /\ x1 \in LoggerData /\ x1.patternFormatter = Nil /\ x1.pattern = Full /\ ~x1.customFlags
      /\ x1.spdlogLevelNames = [l \in LevelSettings!SpdlogLevels |-> Builtin] /\ x1.loggerLevel = 3
  <2>1. [l \in LevelSettings!SpdlogLevels |-> Builtin] \in SpdlogNames
    BY DEF SpdlogNames
  <2> DEFINE n == [l \in LevelSettings!SpdlogLevels |-> Builtin]
  <2>2. x1 = [loggerLevel |-> 3, isAsyncEnabled |-> FALSE, isPatternEnabled |-> FALSE,
              pattern |-> Full, customFlags |-> FALSE, spdlogLevelNames |-> n,
              patternFormatter |-> Nil, sinks |-> {}]
    OBVIOUS
  <2> HIDE DEF n
  <2> QED BY <2>1, <2>2 DEF LoggerData, Patterns
<1>3. LevelTypes
  <2>1. x7 \in [LogLevels -> Labels \cup {Builtin}] /\ x6 \in Patterns \cup {Nil}
    OBVIOUS
  <2>2. x8 \in [Loggers -> 0 .. 6] /\ x3 \in [Loggers -> 0 .. 6 \cup {Nil}]
    OBVIOUS
  <2>3. x4 \in [Callbacks -> {Nil, x1.patternFormatter}]
        /\ x5 \in [Callbacks -> Labels \cup {Builtin, Plain, Nil}]
    OBVIOUS
  <2>4. x2 \in BOOLEAN /\ x1.loggerLevel \in LogLevels \cup {3}
    BY <1>2
  <2> QED BY <1>2, <2>1, <2>2, <2>3, <2>4 DEF LevelTypes
<1>4. x6 = Nil /\ x9 = Nil /\ x2 = FALSE /\ \A l \in LogLevels : x7[l] = Builtin
  OBVIOUS
<1>5. BeforeBuild
  BY <1>2, <1>4 DEF BeforeBuild
<1>6. AfterBuild
  BY <1>1, <1>2, <1>4, SpdlogLevelOf DEF AfterBuild
<1>7. LoggersMade
  BY DEF LoggersMade
<1> QED BY <1>3, <1>4, <1>5, <1>6, <1>7 DEF LevelInv, LevelSettings!MessagesArrive

LEMMA LevelPromises == LevelInv => LevelSettings!MessagesArrive /\ LevelSettings!TypeOK
BY DEF LevelInv, LevelTypes, LevelSettings!TypeOK, LoggerData, SpdlogNames, Patterns, LevelSettings!SpdlogLevels

\* Before build() only the data and what was asked for change.
LEMMA LevelBuilder ==
  ASSUME LevelInv, ~x2, UNCHANGED <<x2, x3, x4, x5, x8, x9>>,
         x1' \in LoggerData, x1'.patternFormatter = Nil, x1'.loggerLevel \in LogLevels \cup {3},
         x6' \in Patterns \cup {Nil}, x7' \in [LogLevels -> Labels \cup {Builtin}],
         IF x6' = Nil THEN x1'.pattern = Full ELSE x1'.pattern = x6' /\ x1'.isPatternEnabled,
         x1'.customFlags => x1'.isPatternEnabled,
         ~x1'.customFlags => \A l \in LogLevels : x7'[l] = Builtin,
         \A l \in LogLevels : x1'.spdlogLevelNames[LevelSettings!toSpdlogLevel(l)] = x7'[l]
  PROVE  LevelInv'
<1>1. x1.patternFormatter = Nil /\ x9 = Nil /\ \A g \in Loggers : x3[g] = Nil
  BY DEF LevelInv, BeforeBuild
<1>2. LevelTypes'
  BY <1>1 DEF LevelInv, LevelTypes
<1>3. BeforeBuild'
  BY <1>1 DEF BeforeBuild
<1>4. AfterBuild'
  BY DEF AfterBuild
<1>5. LoggersMade' /\ LevelSettings!MessagesArrive'
  BY <1>1 DEF LoggersMade, LevelSettings!MessagesArrive
<1> QED BY <1>2, <1>3, <1>4, <1>5 DEF LevelInv

LEMMA LevelSets ==
  ASSUME LevelInv,
         \/ \E l \in LogLevels : LevelSettings!SetLoggerLevel(l)
         \/ \E on \in BOOLEAN : LevelSettings!SetAsyncEnabled(on)
         \/ \E c \in Callbacks : LevelSettings!AddSink(c)
         \/ \E p \in Patterns : LevelSettings!SetPattern(p)
  PROVE  LevelInv'
<1> USE DEF LevelSettings!loggerVars
<1>1. /\ x1 \in LoggerData /\ x1.loggerLevel \in LogLevels \cup {3} /\ x6 \in Patterns \cup {Nil}
      /\ x7 \in [LogLevels -> Labels \cup {Builtin}]
      /\ \A l \in LogLevels : x1.spdlogLevelNames[LevelSettings!toSpdlogLevel(l)] = x7[l]
  BY DEF LevelInv, LevelTypes, AfterBuild
<1>2. ~x2 =>
        /\ x1.patternFormatter = Nil
        /\ IF x6 = Nil THEN x1.pattern = Full ELSE x1.pattern = x6 /\ x1.isPatternEnabled
        /\ x1.customFlags => x1.isPatternEnabled
        /\ ~x1.customFlags => \A l \in LogLevels : x7[l] = Builtin
  BY DEF LevelInv, BeforeBuild
<1>3. LogLevels \subseteq 0 .. 6 /\ Nil \notin Patterns
  BY DataAssumption DEF LevelSettings!LoggerAssumption, Patterns
<1>4. ASSUME NEW l \in LogLevels, LevelSettings!SetLoggerLevel(l) PROVE LevelInv'
  BY <1>1, <1>2, <1>3, <1>4, LevelBuilder DEF LevelSettings!SetLoggerLevel, LoggerData
<1>5. ASSUME NEW on \in BOOLEAN, LevelSettings!SetAsyncEnabled(on) PROVE LevelInv'
  BY <1>1, <1>2, <1>5, LevelBuilder DEF LevelSettings!SetAsyncEnabled, LoggerData
<1>6. ASSUME NEW c \in Callbacks, LevelSettings!AddSink(c) PROVE LevelInv'
  BY <1>1, <1>2, <1>6, LevelBuilder DEF LevelSettings!AddSink, LoggerData
<1>7. ASSUME NEW p \in Patterns, LevelSettings!SetPattern(p) PROVE LevelInv'
  BY <1>1, <1>2, <1>3, <1>7, LevelBuilder DEF LevelSettings!SetPattern, LoggerData
<1> QED BY <1>4, <1>5, <1>6, <1>7

LEMMA LevelNames ==
  ASSUME LevelInv, NEW names \in LevelSettings!NamesFor, LevelSettings!SetLevelPattern(names)
  PROVE  LevelInv'
<1> USE DEF LevelSettings!loggerVars
<1> DEFINE Lv(l) == LevelSettings!toSpdlogLevel(l)
           Given(s) == CHOOSE l \in DOMAIN names : Lv(l) = s
           named == [s \in LevelSettings!SpdlogLevels |->
                       IF \E l \in DOMAIN names : Lv(l) = s THEN names[Given(s)]
                       ELSE x1.spdlogLevelNames[s]]
<1>1. PICK S \in SUBSET LogLevels : names \in [S -> Labels]
  BY DEF LevelSettings!NamesFor
<1>2. LogLevels \subseteq 0 .. 6
  BY DataAssumption DEF LevelSettings!LoggerAssumption
<1>3. /\ x1 \in LoggerData /\ x1.loggerLevel \in LogLevels \cup {3} /\ x6 \in Patterns \cup {Nil}
      /\ x7 \in [LogLevels -> Labels \cup {Builtin}]
      /\ \A l \in LogLevels : x1.spdlogLevelNames[Lv(l)] = x7[l]
  BY DEF LevelInv, LevelTypes, AfterBuild
<1>4. /\ ~x2 /\ x1.patternFormatter = Nil
      /\ IF x6 = Nil THEN x1.pattern = Full ELSE x1.pattern = x6
  BY DEF LevelInv, BeforeBuild, LevelSettings!SetLevelPattern
<1>5. /\ UNCHANGED <<x2, x3, x4, x5, x6, x8, x9>>
      /\ x1' = [x1 EXCEPT !.isPatternEnabled = TRUE, !.customFlags = TRUE, !.spdlogLevelNames = named]
      /\ x7' = [l \in LogLevels |-> IF l \in DOMAIN names THEN names[l] ELSE x7[l]]
  BY DEF LevelSettings!SetLevelPattern
<1>6. named \in SpdlogNames
  <2>1. x1.spdlogLevelNames \in SpdlogNames
    BY <1>3 DEF LoggerData
  <2>2. ASSUME NEW s \in LevelSettings!SpdlogLevels PROVE named[s] \in Labels \cup {Builtin}
    <3>1. CASE \E l \in DOMAIN names : Lv(l) = s
      <4>1. Given(s) \in DOMAIN names
        BY <3>1
      <4> QED BY <1>1, <3>1, <4>1
    <3> QED BY <2>1, <3>1 DEF SpdlogNames
  <2> QED BY <2>2 DEF SpdlogNames
<1>7. ASSUME NEW l \in LogLevels PROVE named[Lv(l)] = x7'[l]
  <2>1. l \in 0 .. 6 /\ Lv(l) \in LevelSettings!SpdlogLevels /\ DOMAIN names \subseteq 0 .. 6
    BY <1>1, <1>2, SpdlogLevelOf
  <2>2. CASE l \in DOMAIN names
    <3>1. Given(Lv(l)) \in DOMAIN names /\ Lv(Given(Lv(l))) = Lv(l)
      BY <2>2
    <3>2. Given(Lv(l)) = l
      BY <2>1, <3>1, SpdlogLevelOf
    <3> HIDE DEF Given
    <3> QED BY <1>5, <2>1, <2>2, <3>2
  <2>3. CASE l \notin DOMAIN names
    <3>1. ~\E k \in DOMAIN names : Lv(k) = Lv(l)
      BY <2>1, <2>3, SpdlogLevelOf
    <3> QED BY <1>3, <1>5, <2>1, <2>3, <3>1
  <2> QED BY <2>2, <2>3
<1> HIDE DEF named
<1>8. /\ x1' \in LoggerData /\ x1'.patternFormatter = Nil /\ x1'.loggerLevel = x1.loggerLevel
      /\ x1'.pattern = x1.pattern /\ x1'.isPatternEnabled /\ x1'.customFlags
      /\ x1'.spdlogLevelNames = named
  BY <1>3, <1>4, <1>5, <1>6 DEF LoggerData
<1>9. x7' \in [LogLevels -> Labels \cup {Builtin}]
  BY <1>1, <1>3, <1>5
<1> QED BY <1>3, <1>4, <1>5, <1>7, <1>8, <1>9, LevelBuilder

LEMMA LevelBuild == ASSUME LevelInv, LevelSettings!Build PROVE LevelInv'
<1> USE DEF LevelSettings!Build
<1> DEFINE f == LevelSettings!FormatterOf(x1)
<1>1. /\ x1 \in LoggerData /\ x1.loggerLevel \in LogLevels \cup {3} /\ x6 \in Patterns \cup {Nil}
      /\ \A l \in LogLevels : x1.spdlogLevelNames[LevelSettings!toSpdlogLevel(l)] = x7[l]
  BY DEF LevelInv, LevelTypes, AfterBuild
<1>2. /\ x1.patternFormatter = Nil /\ x9 = Nil /\ \A g \in Loggers : x3[g] = Nil
      /\ IF x6 = Nil THEN x1.pattern = Full ELSE x1.pattern = x6 /\ x1.isPatternEnabled
      /\ x1.customFlags => x1.isPatternEnabled
      /\ ~x1.customFlags => \A l \in LogLevels : x7[l] = Builtin
  BY DEF LevelInv, BeforeBuild
<1>3. /\ Plain # Full /\ Plain # Labelled /\ Nil \notin Patterns /\ Nil \notin Formatters
  BY DataAssumption DEF LevelSettings!LoggerAssumption, Patterns, Formatters
<1>4. f \in Formatters \cup {Nil}
  BY <1>1 DEF LevelSettings!FormatterOf, LoggerData, Formatters, Patterns
<1>5. ASSUME NEW l \in LogLevels PROVE ShownBy(f, l) = LevelSettings!Due(l)
  <2>1. CASE ~x1.isPatternEnabled
    BY <1>2, <1>3, <2>1 DEF LevelSettings!FormatterOf, ShownBy, LevelSettings!Due, Patterns
  <2>2. CASE x1.isPatternEnabled
    <3>1. f # Nil /\ f.customFlags = x1.customFlags
          /\ f.pattern = IF x1.pattern = Full /\ x1.customFlags THEN Labelled ELSE x1.pattern
      <4> DEFINE p == IF x1.pattern = Full /\ x1.customFlags THEN Labelled ELSE x1.pattern
      <4>1. f = [pattern |-> p, customFlags |-> x1.customFlags]
        BY <2>2 DEF LevelSettings!FormatterOf
      <4>2. p \in Patterns /\ x1.customFlags \in BOOLEAN
        BY <1>1 DEF LoggerData, Patterns
      <4> HIDE DEF p, f
      <4>3. f \in Formatters /\ f.pattern = p /\ f.customFlags = x1.customFlags
        BY <4>1, <4>2 DEF Formatters
      <4> QED BY <1>3, <4>3 DEF p
    <3>2. f.pattern = Plain <=> x6 = Plain
      BY <1>2, <1>3, <3>1 DEF Patterns
    <3>3. x1.customFlags /\ f.pattern # Plain => f.pattern = Labelled
      BY <1>1, <3>1 DEF LoggerData, Patterns
    <3> HIDE DEF f
    <3> QED BY <1>1, <1>2, <3>1, <3>2, <3>3 DEF ShownBy, LevelSettings!Due
  <2> QED BY <2>1, <2>2
<1> HIDE DEF f
<1>6. x1' = [x1 EXCEPT !.patternFormatter = f, !.customFlags = x1.customFlags /\ ~x1.isPatternEnabled]
  BY DEF f
<1>7. /\ x1' \in LoggerData /\ x1'.patternFormatter = f /\ x1'.loggerLevel = x1.loggerLevel
      /\ x1'.spdlogLevelNames = x1.spdlogLevelNames /\ x1'.sinks = x1.sinks
  BY <1>1, <1>4, <1>6 DEF LoggerData
<1>8. LevelTypes'
  BY <1>2, <1>7 DEF LevelInv, LevelTypes
<1>9. AfterBuild'
  BY <1>1, <1>5, <1>7 DEF AfterBuild, ShownBy, LevelSettings!Due
<1>10. BeforeBuild' /\ LoggersMade' /\ LevelSettings!MessagesArrive'
  BY <1>2 DEF BeforeBuild, LoggersMade, LevelSettings!MessagesArrive
<1> QED BY <1>8, <1>9, <1>10 DEF LevelInv

LEMMA LevelCreate == ASSUME LevelInv, NEW g \in Loggers, LevelSettings!CreateLogger(g) PROVE LevelInv'
<1>1. LogLevels \subseteq 0 .. 6 /\ Nil \notin 0 .. 6
  BY DataAssumption DEF LevelSettings!LoggerAssumption
<1>2. x1.loggerLevel \in 0 .. 6 /\ LevelSettings!toSpdlogLevel(x1.loggerLevel) \in 0 .. 6
  <2>1. x1.loggerLevel \in LogLevels \cup {3}
    BY DEF LevelInv, LevelTypes
  <2>2. x1.loggerLevel \in 0 .. 6
    <3> DEFINE n == x1.loggerLevel
    <3>1. n \in LogLevels \/ n = 3
      BY <2>1
    <3> HIDE DEF n
    <3>2. 3 \in 0 .. 6
      OBVIOUS
    <3>3. LogLevels \subseteq 0 .. 6
      BY <1>1
    <3>4. n \in 0 .. 6
      BY Zenon, <3>1, <3>2, <3>3
    <3> QED BY <3>4 DEF n
  <2> QED BY <2>2, SpdlogLevelOf
<1> USE DEF LevelSettings!CreateLogger
<1>3. UNCHANGED <<x1, x2, x5, x6, x7, x9>> /\ x2
  OBVIOUS
<1>4. /\ x4' \in [Callbacks -> {Nil, x1.patternFormatter}]
      /\ \A c \in x1.sinks : x4'[c] = x1.patternFormatter
  <2>1. x4 \in [Callbacks -> {Nil, x1.patternFormatter}] /\ x1.sinks \subseteq Callbacks
    BY DEF LevelInv, LevelTypes, LoggerData
  <2> QED BY <2>1
<1>5. /\ x3' \in [Loggers -> 0 .. 6 \cup {Nil}] /\ x8' \in [Loggers -> 0 .. 6]
      /\ \A h \in Loggers : x3'[h] # Nil => x3'[h] = LevelSettings!toSpdlogLevel(x8'[h])
  BY <1>2 DEF LevelInv, LevelTypes, LoggersMade
<1> QED BY <1>3, <1>4, <1>5 DEF LevelInv, LevelTypes, BeforeBuild, AfterBuild, LoggersMade, ShownBy,
           LevelSettings!Due, LevelSettings!MessagesArrive, LevelSettings!Delivered

LEMMA LevelLog ==
  ASSUME LevelInv, NEW g \in Loggers, NEW l \in LogLevels, LevelSettings!Log(g, l)
  PROVE  LevelInv'
<1> USE DEF LevelSettings!Log
<1> DEFINE s == LevelSettings!toSpdlogLevel(l)
<1>1. LogLevels \subseteq 0 .. 6 /\ l \in 0 .. 6 /\ l # 0
  BY DataAssumption DEF LevelSettings!LoggerAssumption
<1>2. /\ UNCHANGED <<x1, x2, x3, x4, x6, x7, x8>> /\ x9' = [level |-> l, limit |-> x8[g]]
      /\ x5' = [c \in Callbacks |->
                   IF c \in x1.sinks /\ s >= x3[g] /\ ~x1.isAsyncEnabled
                   THEN LevelSettings!Shown(c, s) ELSE Nil]
  OBVIOUS
<1>3. x2 /\ x2' /\ x8[g] \in 0 .. 6 /\ x3[g] = LevelSettings!toSpdlogLevel(x8[g])
  BY DEF LevelInv, BeforeBuild, LoggersMade, LevelTypes
<1>4. s >= x3[g] <=> x8[g] # 0 /\ l >= x8[g]
  BY <1>1, <1>3 DEF LevelSettings!toSpdlogLevel, LevelSettings!Off
<1>5. ASSUME NEW c \in x1.sinks PROVE LevelSettings!Shown(c, s) = LevelSettings!Due(l)
  <2>1. x4[c] = x1.patternFormatter /\ ShownBy(x1.patternFormatter, l) = LevelSettings!Due(l)
    BY <1>3 DEF LevelInv, LoggersMade, AfterBuild
  <2> QED BY <2>1 DEF LevelSettings!Shown, ShownBy
<1>6. LevelSettings!Due(l) \in Labels \cup {Builtin, Plain}
  BY DEF LevelSettings!Due, LevelInv, LevelTypes
<1> HIDE DEF s
<1>7. x5' = [c \in Callbacks |->
               IF c \in x1.sinks /\ ~x1.isAsyncEnabled /\ x8[g] # 0 /\ l >= x8[g]
               THEN LevelSettings!Due(l) ELSE Nil]
  BY <1>2, <1>4, <1>5
<1>8. x5' \in [Callbacks -> Labels \cup {Builtin, Plain, Nil}]
  BY <1>6, <1>7
<1>9. LevelSettings!MessagesArrive'
  <2> SUFFICES ASSUME ~x1.isAsyncEnabled PROVE LevelSettings!Delivered'
    BY <1>2 DEF LevelSettings!MessagesArrive
  <2>1. x5' = [c \in Callbacks |->
                 IF c \in x1.sinks /\ x8[g] # 0 /\ l >= x8[g] THEN LevelSettings!Due(l) ELSE Nil]
    BY <1>7
  <2> QED BY <1>2, <2>1 DEF LevelSettings!Delivered, LevelSettings!Due
<1> QED BY <1>2, <1>3, <1>8, <1>9 DEF LevelInv, LevelTypes, BeforeBuild, AfterBuild, LoggersMade, ShownBy,
           LevelSettings!Due

LEMMA LevelStep == LevelInv /\ [LevelSettings!Next]_serviceVars => LevelInv'
<1> SUFFICES ASSUME LevelInv, [LevelSettings!Next]_serviceVars PROVE LevelInv'
  OBVIOUS
<1>1. ASSUME NEW g \in Loggers, NEW l \in LogLevels, LevelSettings!SetLevel(g, l) PROVE LevelInv'
  <2>1. LogLevels \subseteq 0 .. 6 /\ LevelSettings!toSpdlogLevel(l) \in 0 .. 6
    BY DataAssumption, SpdlogLevelOf DEF LevelSettings!LoggerAssumption
  <2>2. UNCHANGED <<x1, x2, x4, x5, x6, x7, x9>> /\ x2
    BY <1>1 DEF LevelSettings!SetLevel, LevelInv, BeforeBuild, LevelTypes
  <2>3. /\ x3' \in [Loggers -> 0 .. 6 \cup {Nil}] /\ x8' \in [Loggers -> 0 .. 6]
        /\ \A h \in Loggers : x3'[h] # Nil =>
             x3[h] # Nil /\ x3'[h] = LevelSettings!toSpdlogLevel(x8'[h])
    BY <1>1, <2>1 DEF LevelSettings!SetLevel, LevelInv, LevelTypes, LoggersMade
  <2> QED BY <2>2, <2>3 DEF LevelInv, LevelTypes, BeforeBuild, AfterBuild, LoggersMade, ShownBy,
             LevelSettings!Due, LevelSettings!MessagesArrive, LevelSettings!Delivered
<1>2. CASE UNCHANGED serviceVars
  BY <1>2 DEF serviceVars, LevelInv, LevelTypes, BeforeBuild, AfterBuild, LoggersMade, ShownBy,
     LevelSettings!Due, LevelSettings!MessagesArrive, LevelSettings!Delivered
<1> QED BY <1>1, <1>2, LevelSets, LevelNames, LevelBuild, LevelCreate, LevelLog
        DEF LevelSettings!Next, Patterns

-----------------------------------------------------------------------------
(* The recent messages. That they are in order holds for any threads. That *)
(* they are not too many when all calls have returned holds for two: a     *)
(* list is lengthened behind the back of the thread that cuts it only by a *)
(* thread that will measure it again.                                      *)

\* A list of the first n messages, which may lack some.
Ascending(s, n) ==
  /\ s \in Seq(Nat)
  /\ \A i \in 1 .. Len(s) : i <= s[i] /\ s[i] <= n
  /\ \A i, j \in 1 .. Len(s) : i < j => s[i] < s[j]

LEMMA AscendingIsShort ==
  ASSUME NEW s, NEW n \in Nat, Ascending(s, n)
  PROVE  Len(s) \in Nat /\ Len(s) <= n
<1>1. s \in Seq(Nat) /\ Len(s) \in Nat
  BY DEF Ascending
<1>2. CASE Len(s) = 0
  BY <1>2
<1>3. CASE Len(s) # 0
  <2>1. Len(s) \in 1 .. Len(s)
    BY <1>1, <1>3
  <2>2. Len(s) <= s[Len(s)] /\ s[Len(s)] <= n /\ s[Len(s)] \in Nat
    BY <1>1, <2>1 DEF Ascending
  <2> QED BY <1>1, <2>2
<1> QED BY <1>2, <1>3

LEMMA AscendingAppend ==
  ASSUME NEW s, NEW n \in Nat, Ascending(s, n)
  PROVE  Ascending(Append(s, n + 1), n + 1)
<1> DEFINE a == Append(s, n + 1)
<1>1. s \in Seq(Nat) /\ Len(s) \in Nat /\ Len(s) <= n
  BY AscendingIsShort DEF Ascending
<1>2. a \in Seq(Nat) /\ Len(a) = Len(s) + 1
  BY <1>1
<1>3. /\ \A i \in 1 .. Len(s) : a[i] = s[i] /\ s[i] \in Nat
      /\ a[Len(s) + 1] = n + 1
  BY <1>1
<1>4. \A i \in 1 .. Len(s) : i <= s[i] /\ s[i] <= n
  BY DEF Ascending
<1>5. \A i, j \in 1 .. Len(s) : i < j => s[i] < s[j]
  BY DEF Ascending
<1> HIDE DEF a
<1>6. ASSUME NEW i \in 1 .. Len(a) PROVE i <= a[i] /\ a[i] <= n + 1
  <2>1. CASE i = Len(s) + 1
    BY <1>1, <1>3, <2>1
  <2>2. CASE i # Len(s) + 1
    <3>1. i \in 1 .. Len(s)
      BY <1>1, <1>2, <2>2
    <3> QED BY <1>1, <1>3, <1>4, <3>1
  <2> QED BY <2>1, <2>2
<1>7. ASSUME NEW i \in 1 .. Len(a), NEW j \in 1 .. Len(a), i < j PROVE a[i] < a[j]
  <2>1. i \in 1 .. Len(s)
    BY <1>1, <1>2, <1>7
  <2>2. CASE j = Len(s) + 1
    BY <1>1, <1>3, <1>4, <2>1, <2>2
  <2>3. CASE j # Len(s) + 1
    <3>1. j \in 1 .. Len(s)
      BY <1>1, <1>2, <2>3
    <3> QED BY <1>3, <1>5, <1>7, <2>1, <3>1
  <2> QED BY <2>2, <2>3
<1>8. Ascending(a, n + 1)
  BY <1>2, <1>6, <1>7 DEF Ascending
<1> QED BY <1>8 DEF a

LEMMA AscendingCut ==
  ASSUME NEW s, NEW n \in Nat, NEW k \in Nat, Ascending(s, n)
  PROVE  /\ Ascending(SubSeq(s, k + 1, Len(s)), n)
         /\ Len(SubSeq(s, k + 1, Len(s))) = IF k <= Len(s) THEN Len(s) - k ELSE 0
<1> DEFINE c == SubSeq(s, k + 1, Len(s))
<1>1. s \in Seq(Nat) /\ Len(s) \in Nat
  BY DEF Ascending
<1>2. c \in Seq(Nat)
  BY <1>1
<1>3. Len(c) = IF k <= Len(s) THEN Len(s) - k ELSE 0
  BY <1>1
<1>4. \A i \in 1 .. Len(c) : c[i] = s[k + i]
  BY <1>1, <1>3
<1>5. \A i \in 1 .. Len(s) : i <= s[i] /\ s[i] <= n /\ s[i] \in Nat
  BY <1>1 DEF Ascending
<1>6. \A i, j \in 1 .. Len(s) : i < j => s[i] < s[j]
  BY DEF Ascending
<1> HIDE DEF c
<1>7. \A i \in 1 .. Len(c) : k + i \in 1 .. Len(s) /\ i \in Nat
  BY <1>1, <1>3
<1>8. ASSUME NEW i \in 1 .. Len(c) PROVE i <= c[i] /\ c[i] <= n
  <2>1. k + i <= s[k + i] /\ s[k + i] <= n /\ s[k + i] \in Nat /\ c[i] = s[k + i] /\ i \in Nat
    BY <1>4, <1>5, <1>7
  <2> QED BY <2>1
<1>9. ASSUME NEW i \in 1 .. Len(c), NEW j \in 1 .. Len(c), i < j PROVE c[i] < c[j]
  <2>1. k + i < k + j
    BY <1>7, <1>9
  <2> QED BY <1>4, <1>6, <1>7, <2>1
<1>10. Ascending(c, n)
  BY <1>2, <1>8, <1>9 DEF Ascending
<1> QED BY <1>3, <1>10 DEF c

LEMMA AscendingStays ==
  ASSUME NEW s, NEW n \in Nat, Ascending(s, n)
  PROVE  Ascending(s, n + 1)
<1>1. s \in Seq(Nat) /\ \A i \in 1 .. Len(s) : i <= s[i] /\ s[i] <= n /\ s[i] \in Nat
  BY DEF Ascending
<1>2. \A i \in 1 .. Len(s) : s[i] <= n + 1
  BY <1>1
<1> QED BY <1>1, <1>2 DEF Ascending

LEMMA AscendingEmpty == \A n \in Nat : Ascending(<<>>, n)
BY DEF Ascending

Pending == {"measuring", "locking"}
Holding == {"cutting", "assigning"}
Locals == [list : Seq(Nat), length : Nat]

MessageTypes ==
  /\ maxRecentMessages \in Maxima /\ limit \in Maxima /\ maxRecentMessages <= limit
  /\ sent \in 0 .. MaxMessages /\ mutex \in Threads \cup {Nil}
  /\ pc \in [Threads -> Messages!Places] /\ local \in [Threads -> Locals]

MessagesOrdered ==
  /\ Ascending(recent, sent)
  /\ \A t \in Threads : Ascending(local[t].list, sent) /\ local[t].length <= MaxMessages

MessageInv == MessageTypes /\ MessagesOrdered

Helped(t) == \E u \in Threads \ {t} : pc[u] \in Pending

OneCuts == \A t \in Threads : pc[t] \in Holding <=> mutex = t

BoundedInv ==
  /\ OneCuts
  /\ Len(recent) > limit => \E t \in Threads : pc[t] \in Pending \cup Holding
  /\ \A t \in Threads :
       /\ pc[t] = "cutting" =>
            Len(recent) <= local[t].length \/ Len(recent) <= limit \/ Helped(t)
       /\ pc[t] = "assigning" =>
            \/ Len(local[t].list) <= limit
            \/ Helped(t) /\ Len(local[t].list) <= Len(recent)

\* At most two threads notify.
TwoNotifiers == \A t, u, v \in Threads : t = u \/ u = v \/ t = v

LEMMA MessageStart == Messages!Init => MessageInv /\ BoundedInv
<1> SUFFICES ASSUME Messages!Init PROVE MessageInv /\ BoundedInv
  OBVIOUS
<1> USE DEF Messages!Init
<1>1. Maxima \subseteq Nat /\ MaxMessages \in Nat /\ Nil \notin Threads
  BY DataAssumption DEF Messages!NotifyAssumption
<1>2. Messages!Nothing \in Locals /\ Messages!Nothing.list = <<>> /\ Messages!Nothing.length = 0
  BY DEF Messages!Nothing, Locals
<1>3. MessageTypes
  <2>1. maxRecentMessages \in Nat /\ maxRecentMessages \in Maxima /\ limit = maxRecentMessages
    BY <1>1
  <2>2. maxRecentMessages <= limit
    BY <2>1
  <2>3. pc \in [Threads -> Messages!Places]
    BY DEF Messages!Places
  <2>4. local \in [Threads -> Locals]
    BY <1>2
  <2>5. sent \in 0 .. MaxMessages
    BY <1>1
  <2> QED BY <2>1, <2>2, <2>3, <2>4, <2>5 DEF MessageTypes
<1>4. MessagesOrdered
  BY <1>1, <1>2, AscendingEmpty DEF MessagesOrdered
<1>5. BoundedInv
  <2>1. \A t \in Threads : pc[t] = "idle" /\ mutex # t
    BY <1>1
  <2>2. Len(recent) = 0 /\ limit \in Nat
    BY <1>1
  <2>3. ~(Len(recent) > limit)
    BY <2>2
  <2> QED BY <2>1, <2>3 DEF BoundedInv, OneCuts, Holding
<1> QED BY <1>3, <1>4, <1>5 DEF MessageInv

LEMMA MessageLengths ==
  ASSUME MessageInv
  PROVE  /\ Len(recent) \in Nat /\ Len(recent) <= MaxMessages /\ sent \in Nat /\ MaxMessages \in Nat
         /\ limit \in Nat /\ maxRecentMessages \in Nat /\ maxRecentMessages <= limit
         /\ \A t \in Threads : /\ Len(local[t].list) \in Nat /\ Len(local[t].list) <= MaxMessages
                               /\ local[t].length \in Nat
<1>1. Maxima \subseteq Nat /\ MaxMessages \in Nat
  BY DataAssumption DEF Messages!NotifyAssumption
<1>2. limit \in Nat /\ maxRecentMessages \in Nat /\ maxRecentMessages <= limit /\ sent \in Nat /\ sent <= MaxMessages
  BY <1>1 DEF MessageInv, MessageTypes
<1>3. Len(recent) \in Nat /\ Len(recent) <= sent
  BY <1>2, AscendingIsShort DEF MessageInv, MessagesOrdered
<1>4. ASSUME NEW t \in Threads
      PROVE  Len(local[t].list) \in Nat /\ Len(local[t].list) <= sent /\ local[t].length \in Nat
  BY <1>2, AscendingIsShort DEF MessageInv, MessagesOrdered, MessageTypes, Locals
<1>5. Len(recent) <= MaxMessages
  BY <1>1, <1>2, <1>3
<1>6. \A t \in Threads : Len(local[t].list) <= MaxMessages
  BY <1>1, <1>2, <1>4
<1> QED BY <1>1, <1>2, <1>3, <1>4, <1>5, <1>6

LEMMA ListsOf ==
  ASSUME NEW s, Ascending(s, sent), sent \in 0 .. MaxMessages, MaxMessages \in Nat
  PROVE  s \in Messages!Lists
<1>1. Len(s) \in Nat /\ Len(s) <= sent
  BY AscendingIsShort
<1>2. s \in Seq(Nat) /\ \A i \in 1 .. Len(s) : s[i] \in Nat /\ i <= s[i] /\ s[i] <= sent
  BY DEF Ascending
<1>3. \A i \in 1 .. Len(s) : s[i] \in 1 .. MaxMessages
  BY <1>1, <1>2
<1>4. Len(s) \in 0 .. MaxMessages
  BY <1>1
<1>5. s \in [1 .. Len(s) -> 1 .. MaxMessages]
  BY <1>2, <1>3
<1> QED BY <1>4, <1>5 DEF Messages!Lists

LEMMA MessagePromises == MessageInv /\ BoundedInv => Messages!RecentIsBounded
<1> SUFFICES ASSUME MessageInv, BoundedInv PROVE Messages!RecentIsBounded
  OBVIOUS
<1>1. recent \in Seq(Nat) /\ DOMAIN recent = 1 .. Len(recent)
  BY DEF MessageInv, MessagesOrdered, Ascending
<1>2. \A i, j \in DOMAIN recent : i < j => recent[i] < recent[j]
  BY <1>1 DEF MessageInv, MessagesOrdered, Ascending
<1>3. (\A t \in Threads : pc[t] = "idle") => ~(Len(recent) > limit)
  BY DEF BoundedInv, Pending, Holding
<1>4. ~(Len(recent) > limit) => Len(recent) <= limit
  BY MessageLengths
<1> QED BY <1>2, <1>3, <1>4 DEF Messages!RecentIsBounded

LEMMA MessageTyped == MessageInv => Messages!TypeOK
<1> SUFFICES ASSUME MessageInv PROVE Messages!TypeOK
  OBVIOUS
<1>1. MaxMessages \in Nat /\ sent \in 0 .. MaxMessages
  BY MessageLengths DEF MessageInv, MessageTypes
<1>2. recent \in Messages!Lists
  BY <1>1, ListsOf DEF MessageInv, MessagesOrdered
<1>3. ASSUME NEW t \in Threads PROVE local[t] \in [list : Messages!Lists, length : 0 .. MaxMessages]
  <2>1. local[t].list \in Messages!Lists
    BY <1>1, ListsOf DEF MessageInv, MessagesOrdered
  <2>2. local[t].length \in 0 .. MaxMessages
    BY <1>1, MessageLengths DEF MessageInv, MessagesOrdered
  <2>3. local[t] \in Locals
    BY DEF MessageInv, MessageTypes
  <2> QED BY <2>1, <2>2, <2>3 DEF Locals
<1>4. local \in [Threads -> [list : Messages!Lists, length : 0 .. MaxMessages]]
  BY <1>3 DEF MessageInv, MessageTypes
<1> QED BY <1>1, <1>2, <1>4 DEF Messages!TypeOK, MessageInv, MessageTypes

\* Each step keeps the types and the order.
LEMMA MessageOrder ==
  ASSUME MessageInv, [Messages!Next]_messageVars
  PROVE  MessageInv'
<1> USE DEF MessageInv
<1>1. /\ maxRecentMessages \in Maxima /\ limit \in Maxima /\ maxRecentMessages <= limit
      /\ sent \in 0 .. MaxMessages /\ mutex \in Threads \cup {Nil}
      /\ pc \in [Threads -> Messages!Places] /\ local \in [Threads -> Locals]
  BY DEF MessageTypes
<1>2. /\ Ascending(recent, sent)
      /\ \A u \in Threads : Ascending(local[u].list, sent) /\ local[u].length <= MaxMessages
  BY DEF MessagesOrdered
<1>3. /\ Len(recent) \in Nat /\ Len(recent) <= MaxMessages /\ sent \in Nat /\ MaxMessages \in Nat
      /\ limit \in Nat /\ maxRecentMessages \in Nat /\ Maxima \subseteq Nat
  BY MessageLengths, DataAssumption DEF Messages!NotifyAssumption
<1>4. /\ Messages!Nothing = [list |-> <<>>, length |-> 0] /\ Messages!Nothing \in Locals
      /\ Ascending(<<>>, sent)
  BY <1>3, AscendingEmpty DEF Messages!Nothing, Locals
<1>5. ASSUME NEW max \in Maxima, Messages!SetMaxRecentMessages(max) PROVE MessageInv'
  <2>1. max \in Nat /\ limit' \in Maxima /\ maxRecentMessages' = max /\ max <= limit'
    BY <1>1, <1>3, <1>5 DEF Messages!SetMaxRecentMessages
  <2>2. UNCHANGED <<recent, mutex, pc, local, sent>>
    BY <1>5 DEF Messages!SetMaxRecentMessages
  <2> QED BY <1>1, <1>2, <2>1, <2>2 DEF MessageTypes, MessagesOrdered
<1>6. ASSUME NEW t \in Threads, Messages!Error(t) PROVE MessageInv'
  <2> DEFINE l == [list |-> Append(recent, sent + 1), length |-> 0]
  <2>1. /\ UNCHANGED <<recent, maxRecentMessages, mutex, limit>> /\ sent < MaxMessages /\ sent' = sent + 1
        /\ local' = [local EXCEPT ![t] = l] /\ pc' = [pc EXCEPT ![t] = "appending"]
    <3>1. [Messages!Nothing EXCEPT !.list = Append(recent, sent + 1)] = l
      BY DEF Messages!Nothing
    <3>2. sent' = sent + 1 /\ local' = [local EXCEPT ![t] = [Messages!Nothing EXCEPT !.list = Append(recent, sent')]]
      BY Zenon, <1>6 DEF Messages!Error, Messages!Keep
    <3> HIDE DEF l
    <3>3. local' = [local EXCEPT ![t] = l]
      BY <3>1, <3>2
    <3> QED BY Zenon, <1>6, <3>2, <3>3 DEF Messages!Error, Messages!Goto
  <2>2. Ascending(Append(recent, sent + 1), sent + 1)
    BY <1>2, <1>3, AscendingAppend
  <2>3. l \in Locals /\ l.list = Append(recent, sent + 1) /\ l.length = 0
    BY <2>2 DEF Locals, Ascending
  <2> HIDE DEF l
  <2>4. local' \in [Threads -> Locals] /\ \A u \in Threads : local'[u] = IF u = t THEN l ELSE local[u]
    BY <1>1, <2>1, <2>3
  <2>5. Ascending(recent, sent + 1) /\ \A u \in Threads : Ascending(local[u].list, sent + 1)
    BY <1>2, <1>3, AscendingStays
  <2>6. sent' \in 0 .. MaxMessages /\ pc' \in [Threads -> Messages!Places]
    BY <1>1, <1>3, <2>1 DEF Messages!Places
  <2>7. MessageTypes'
    BY <1>1, <2>1, <2>4, <2>6 DEF MessageTypes
  <2>8. ASSUME NEW u \in Threads
        PROVE  Ascending(local'[u].list, sent + 1) /\ local'[u].length <= MaxMessages
    <3>1. CASE u = t
      <4>1. local'[u] = l /\ Append(recent, sent + 1) = l.list
        BY <2>3, <2>4, <3>1
      <4>2. Ascending(l.list, sent + 1)
        BY <2>2, <4>1
      <4>3. l.length <= MaxMessages
        BY <1>3, <2>1, <2>3
      <4> QED BY <4>1, <4>2, <4>3
    <3>2. CASE u # t
      BY <1>2, <2>4, <2>5, <3>2
    <3> QED BY <3>1, <3>2
  <2>9. MessagesOrdered'
    BY <2>1, <2>5, <2>8 DEF MessagesOrdered
  <2> QED BY <2>7, <2>9
<1>7. ASSUME NEW t \in Threads, Messages!AppendMessage(t) PROVE MessageInv'
  BY <1>1, <1>2, <1>3, <1>4, <1>7 DEF Messages!AppendMessage, Messages!Keep, Messages!Goto,
     Messages!Places, MessageTypes, MessagesOrdered
<1>8. ASSUME NEW t \in Threads, Messages!Measure(t) PROVE MessageInv'
  BY <1>1, <1>2, <1>8 DEF Messages!Measure, Messages!Goto, Messages!Places, MessageTypes, MessagesOrdered
<1>9. ASSUME NEW t \in Threads, Messages!Lock(t) PROVE MessageInv'
  <2> DEFINE l == [list |-> <<>>, length |-> Len(recent)]
  <2>1. /\ UNCHANGED <<recent, maxRecentMessages, sent, limit>> /\ mutex' = t
        /\ local' = [local EXCEPT ![t] = l] /\ pc' = [pc EXCEPT ![t] = "cutting"]
    <3>1. [Messages!Nothing EXCEPT !.length = Len(recent)] = l
      BY DEF Messages!Nothing
    <3>2. local' = [local EXCEPT ![t] = [Messages!Nothing EXCEPT !.length = Len(recent)]]
      BY Zenon, <1>9 DEF Messages!Lock, Messages!Keep
    <3> HIDE DEF l
    <3>3. local' = [local EXCEPT ![t] = l]
      BY <3>1, <3>2
    <3> QED BY Zenon, <1>9, <3>3 DEF Messages!Lock, Messages!Goto
  <2>2. l \in Locals /\ l.list = <<>> /\ l.length = Len(recent)
    BY <1>3 DEF Locals
  <2> HIDE DEF l
  <2> QED BY <1>1, <1>2, <1>3, <1>4, <2>1, <2>2 DEF Messages!Places, MessageTypes, MessagesOrdered
<1>10. ASSUME NEW t \in Threads, Messages!Cut(t) PROVE MessageInv'
  <2> DEFINE k == IF local[t].length > maxRecentMessages THEN local[t].length - maxRecentMessages ELSE 0
             c == SubSeq(recent, k + 1, Len(recent))
             l == [local[t] EXCEPT !.list = c]
  <2>1. /\ UNCHANGED <<recent, maxRecentMessages, mutex, sent, limit>>
        /\ local' = [local EXCEPT ![t] = l] /\ pc' = [pc EXCEPT ![t] = "assigning"]
    BY <1>10 DEF Messages!Cut, Messages!Keep, Messages!Goto
  <2>2. local[t] \in Locals /\ local[t].length \in Nat
    BY <1>1 DEF Locals
  <2>3. k \in Nat
    BY <1>3, <2>2
  <2> HIDE DEF k
  <2>4. Ascending(c, sent)
    BY <1>2, <1>3, <2>3, AscendingCut
  <2> HIDE DEF c
  <2>5. l \in Locals /\ l.list = c /\ l.length = local[t].length
    BY <2>2, <2>4 DEF Locals, Ascending
  <2> HIDE DEF l
  <2> QED BY <1>1, <1>2, <1>3, <2>1, <2>4, <2>5 DEF Messages!Places, MessageTypes, MessagesOrdered
<1>11. ASSUME NEW t \in Threads, Messages!Assign(t) PROVE MessageInv'
  BY <1>1, <1>2, <1>3, <1>4, <1>11 DEF Messages!Assign, Messages!Keep, Messages!Goto,
     Messages!Places, MessageTypes, MessagesOrdered
<1>12. CASE UNCHANGED messageVars
  BY <1>1, <1>2, <1>12 DEF messageVars, MessageTypes, MessagesOrdered
<1> QED BY <1>5, <1>6, <1>7, <1>8, <1>9, <1>10, <1>11, <1>12 DEF Messages!Next

\* What holds of each thread carries over if the lists, the limit and the places do.
LEMMA MessageBound ==
  ASSUME MessageInv, MessageInv', TwoNotifiers, BoundedInv, [Messages!Next]_messageVars
  PROVE  BoundedInv'
<1> DEFINE L == Len(recent)
           C(t) == Len(local[t].list)
<1>1. /\ pc \in [Threads -> Messages!Places] /\ local \in [Threads -> Locals]
      /\ L \in Nat /\ limit \in Nat /\ maxRecentMessages \in Nat /\ maxRecentMessages <= limit
      /\ sent \in Nat
      /\ \A t \in Threads : C(t) \in Nat /\ local[t].length \in Nat
  BY MessageLengths DEF MessageInv, MessageTypes
<1>2. /\ \A t \in Threads : pc[t] \in Holding <=> mutex = t
      /\ L > limit => \E t \in Threads : pc[t] \in Pending \cup Holding
      /\ \A t \in Threads : pc[t] = "cutting" => L <= local[t].length \/ L <= limit \/ Helped(t)
      /\ \A t \in Threads : pc[t] = "assigning" => C(t) <= limit \/ (Helped(t) /\ C(t) <= L)
  BY DEF BoundedInv, OneCuts
<1>3. Nil \notin Threads /\ Maxima \subseteq Nat
  BY DataAssumption DEF Messages!NotifyAssumption
<1>4. ASSUME NEW max \in Maxima, Messages!SetMaxRecentMessages(max) PROVE BoundedInv'
  <2>1. limit' \in Nat /\ limit <= limit'
    BY <1>1, <1>3, <1>4 DEF Messages!SetMaxRecentMessages
  <2>2. UNCHANGED <<recent, mutex, pc, local>>
    BY <1>4 DEF Messages!SetMaxRecentMessages
  <2>3. OneCuts'
    BY <1>2, <2>2 DEF OneCuts
  <2>4. L' = L /\ \A t \in Threads : C(t)' = C(t) /\ (Helped(t)' <=> Helped(t))
    BY <2>2 DEF Helped
  <2>5. L' > limit' => L > limit
    BY <1>1, <2>1, <2>4
  <2>6. \A t \in Threads : C(t) <= limit => C(t) <= limit'
    BY <1>1, <2>1
  <2>7. L <= limit => L <= limit'
    BY <1>1, <2>1
  <2> HIDE DEF L, C
  <2>8. /\ L' > limit' => \E t \in Threads : pc'[t] \in Pending \cup Holding
        /\ \A t \in Threads : pc'[t] = "cutting" => L' <= local'[t].length \/ L' <= limit' \/ Helped(t)'
        /\ \A t \in Threads : pc'[t] = "assigning" => C(t)' <= limit' \/ (Helped(t)' /\ C(t)' <= L')
    BY <1>2, <2>2, <2>4, <2>5, <2>6, <2>7
  <2> QED BY <2>3, <2>8 DEF BoundedInv, L, C
<1>5. ASSUME NEW t \in Threads, Messages!Error(t) PROVE BoundedInv'
  <2>1. /\ UNCHANGED <<recent, mutex, limit>> /\ pc' = [pc EXCEPT ![t] = "appending"] /\ pc[t] = "idle"
        /\ \A u \in Threads \ {t} : local'[u] = local[u]
    BY <1>1, <1>5 DEF Messages!Error, Messages!Keep, Messages!Goto
  <2>2. \A u \in Threads : /\ pc'[u] \in Pending <=> pc[u] \in Pending
                           /\ pc'[u] \in Holding <=> pc[u] \in Holding
    BY <1>1, <2>1 DEF Pending, Holding
  <2>3. \A u \in Threads : Helped(u) <=> Helped(u)'
    BY <2>2 DEF Helped
  <2> QED BY <1>1, <1>2, <2>1, <2>2, <2>3 DEF BoundedInv, OneCuts
<1>6. ASSUME NEW t \in Threads, Messages!AppendMessage(t) PROVE BoundedInv'
  <2>1. /\ UNCHANGED <<mutex, limit>> /\ pc' = [pc EXCEPT ![t] = "measuring"] /\ pc[t] = "appending"
        /\ \A u \in Threads \ {t} : local'[u] = local[u]
    BY <1>1, <1>6 DEF Messages!AppendMessage, Messages!Keep, Messages!Goto
  <2>2. pc'[t] \in Pending /\ \A u \in Threads : pc'[u] \in Holding <=> pc[u] \in Holding
    BY <1>1, <2>1 DEF Pending, Holding
  <2>3. \A u \in Threads \ {t} : Helped(u)' /\ ~Helped(u)
    BY <1>1, <2>1, <2>2 DEF Helped, TwoNotifiers, Pending
  <2> HIDE DEF L
  <2> QED BY <1>1, <1>2, <2>1, <2>2, <2>3 DEF BoundedInv, OneCuts
<1>7. ASSUME NEW t \in Threads, Messages!Measure(t) PROVE BoundedInv'
  <2>1. UNCHANGED <<recent, maxRecentMessages, mutex, local, sent, limit>> /\ pc[t] = "measuring"
    BY <1>7 DEF Messages!Measure
  <2>2. CASE L <= maxRecentMessages
    <3>1. pc' = [pc EXCEPT ![t] = "idle"] /\ L <= limit
      BY <1>1, <1>7, <2>2 DEF Messages!Measure, Messages!Goto, Messages!IsShort
    <3>2. \A u \in Threads : pc'[u] \in Holding <=> pc[u] \in Holding
      BY <1>1, <2>1, <3>1 DEF Holding
    <3>3. \A u \in Threads : C(u) <= L => C(u) <= limit
      BY <1>1, <3>1
    <3>4. ~(L > limit)
      BY <1>1, <3>1
    <3> QED BY <1>1, <1>2, <2>1, <3>1, <3>2, <3>3, <3>4 DEF BoundedInv, OneCuts
  <2>3. CASE ~(L <= maxRecentMessages)
    <3>1. pc' = [pc EXCEPT ![t] = "locking"]
      BY <1>7, <2>3 DEF Messages!Measure, Messages!Goto, Messages!IsShort
    <3>2. \A u \in Threads : /\ pc'[u] \in Pending <=> pc[u] \in Pending
                             /\ pc'[u] \in Holding <=> pc[u] \in Holding
      BY <1>1, <2>1, <3>1 DEF Pending, Holding
    <3>3. \A u \in Threads : Helped(u) <=> Helped(u)'
      BY <3>2 DEF Helped
    <3> QED BY <1>1, <1>2, <2>1, <3>1, <3>2, <3>3 DEF BoundedInv, OneCuts
  <2> QED BY <2>2, <2>3
<1>8. ASSUME NEW t \in Threads, Messages!Lock(t) PROVE BoundedInv'
  <2>1. /\ UNCHANGED <<recent, limit>> /\ mutex = Nil /\ mutex' = t /\ pc[t] = "locking"
        /\ pc' = [pc EXCEPT ![t] = "cutting"] /\ local'[t].length = L
    BY <1>1, <1>8 DEF Messages!Lock, Messages!Keep, Messages!Goto, Messages!Nothing
  <2>2. \A u \in Threads : pc[u] \notin Holding
    BY <1>2, <1>3, <2>1
  <2>3. pc'[t] \in Holding /\ pc'[t] = "cutting" /\ \A u \in Threads \ {t} : pc'[u] \notin Holding
    BY <1>1, <2>1, <2>2 DEF Holding
  <2>4. \A u \in Threads : (pc'[u] = "cutting" => u = t) /\ pc'[u] # "assigning"
    BY <2>3 DEF Holding
  <2> QED BY <1>1, <2>1, <2>3, <2>4 DEF BoundedInv, OneCuts
<1>9. ASSUME NEW t \in Threads, Messages!Cut(t) PROVE BoundedInv'
  <2> DEFINE k == IF local[t].length > maxRecentMessages THEN local[t].length - maxRecentMessages ELSE 0
             c == SubSeq(recent, k + 1, Len(recent))
  <2>1. /\ UNCHANGED <<recent, mutex, limit>> /\ pc[t] = "cutting" /\ pc' = [pc EXCEPT ![t] = "assigning"]
        /\ local' = [local EXCEPT ![t] = [local[t] EXCEPT !.list = c]]
    BY <1>9 DEF Messages!Cut, Messages!Keep, Messages!Goto
  <2>2. local[t] \in Locals
    BY <1>1
  <2>3. local'[t].list = c
    BY <1>1, <2>1, <2>2 DEF Locals
  <2>4. k \in Nat /\ Ascending(recent, sent)
    BY <1>1 DEF MessageInv, MessagesOrdered
  <2>5. Len(c) = IF k <= L THEN L - k ELSE 0
    <3> HIDE DEF k
    <3> QED BY <1>1, <2>4, AscendingCut
  <2>6. Len(c) <= L /\ (L <= local[t].length \/ L <= limit => Len(c) <= limit)
    <3> HIDE DEF c, L
    <3> QED BY <1>1, <2>5
  <2>7. \A u \in Threads : /\ pc'[u] \in Pending <=> pc[u] \in Pending
                           /\ pc'[u] \in Holding <=> pc[u] \in Holding
    BY <1>1, <2>1 DEF Pending, Holding
  <2>8. \A u \in Threads : Helped(u) <=> Helped(u)'
    BY <2>7 DEF Helped
  <2>9. \A u \in Threads \ {t} : pc'[u] \notin Holding
    BY <1>2, <2>1, <2>7 DEF Holding
  <2>10. C(t)' = Len(c) /\ L' = L
    BY <2>1, <2>3
  <2>11. C(t)' <= limit' \/ (Helped(t)' /\ C(t)' <= L')
    <3> HIDE DEF c, C, L, k
    <3> QED BY <1>2, <2>1, <2>6, <2>8, <2>10
  <2>12. \A u \in Threads : /\ pc'[u] # "cutting"
                            /\ pc'[u] = "assigning" => u = t
    BY <1>1, <2>1, <2>9 DEF Holding
  <2>13. OneCuts'
    BY <1>2, <2>1, <2>7 DEF OneCuts
  <2>14. L' > limit' => \E u \in Threads : pc'[u] \in Pending \cup Holding
    BY <1>1, <2>1 DEF Holding
  <2> HIDE DEF c
  <2> QED BY <2>11, <2>12, <2>13, <2>14 DEF BoundedInv
<1>10. ASSUME NEW t \in Threads, Messages!Assign(t) PROVE BoundedInv'
  <2>1. /\ pc[t] = "assigning" /\ recent' = local[t].list /\ mutex' = Nil /\ UNCHANGED limit
        /\ pc' = [pc EXCEPT ![t] = "idle"]
    BY <1>10 DEF Messages!Assign, Messages!Goto
  <2>2. \A u \in Threads \ {t} : pc[u] \notin Holding /\ pc'[u] = pc[u]
    BY <1>1, <1>2, <2>1 DEF Holding
  <2>3. \A u \in Threads : pc'[u] \notin Holding
    BY <1>1, <2>1, <2>2 DEF Holding
  <2>4. C(t) <= limit \/ Helped(t)
    BY <1>2, <2>1
  <2>5. L' > limit' => \E u \in Threads : pc'[u] \in Pending
    BY <1>1, <2>1, <2>2, <2>4 DEF Helped
  <2>6. \A u \in Threads : pc'[u] # "cutting" /\ pc'[u] # "assigning"
    BY <2>3 DEF Holding
  <2> QED BY <1>3, <2>1, <2>3, <2>5, <2>6 DEF BoundedInv, OneCuts
<1>11. CASE UNCHANGED messageVars
  BY <1>11 DEF messageVars, BoundedInv, OneCuts, Helped
<1> QED BY <1>4, <1>5, <1>6, <1>7, <1>8, <1>9, <1>10, <1>11 DEF Messages!Next

-----------------------------------------------------------------------------
(* Who has what: sets of users, and how many they are.                     *)

LEMMA SameCount ==
  \A S : /\ Address!Cardinality(S) = Cardinality(S) /\ (Address!IsFiniteSet(S) <=> IsFiniteSet(S))
         /\ StringList!Cardinality(S) = Cardinality(S)
         /\ Json!Cardinality(S) = Cardinality(S)
BY DEF Address!Cardinality, Address!IsFiniteSet, StringList!Cardinality, Json!Cardinality, Cardinality,
   StringList!IsFiniteSet, Json!IsFiniteSet, IsFiniteSet

LEMMA SoleElement ==
  ASSUME NEW S, IsFiniteSet(S), Cardinality(S) = 1, NEW h \in S
  PROVE  S = {h}
<1>1. IsFiniteSet(S \ {h}) /\ Cardinality(S \ {h}) = 0
  BY FS_RemoveElement
<1>2. S \ {h} = {}
  BY <1>1, FS_EmptySet
<1> QED BY <1>2

-----------------------------------------------------------------------------
(* Addresses.                                                              *)

\* Both forms of an address agree.
Sound(p) ==
  /\ p.protocol \in {0, 1, 255}
  /\ p.a4 = Address!Converted(p.a6)
  /\ p.protocol = 0 => Address!CanConvert(p.a6)

AddressInv ==
  /\ pointer \in [Handles -> PrivateIds \cup {NoValue}]
  /\ DOMAIN private = PrivateIds /\ \A i \in PrivateIds : Sound(private[i])
  /\ DOMAIN told = Handles
  /\ \A h \in Handles : pointer[h] # NoValue => private[pointer[h]] = told[h]

LEMMA SoundValues ==
  /\ Sound(Address!New) /\ Sound(Address!Cleared)
  /\ \A a4 : Sound(Address!SetIPv4(a4))
  /\ \A a6 : Sound(Address!SetIPv6(a6))
  /\ \A type \in Address!Types : Sound(Address!OfType(type))
<1> USE DEF Sound, Address!Private, Address!IPv4Protocol, Address!IPv6Protocol,
            Address!UnknownProtocolType
<1>1. /\ Address!AllZero[1] = Address!Zero /\ Address!AllZero[2] = Address!Zero
      /\ Address!AllZero[3] = Address!Zero /\ Address!AllZero[4] = Address!Zero
  BY DEF Address!AllZero
<1>2. Address!Converted(Address!AllZero) = Address!Zero /\ Address!CanConvert(Address!AllZero)
  BY <1>1 DEF Address!Converted, Address!CanConvert
<1>3. Sound(Address!New) /\ Sound(Address!Cleared)
  BY <1>2 DEF Address!New, Address!Cleared
<1>4. ASSUME NEW a4 PROVE Sound(Address!SetIPv4(a4))
  <2> DEFINE a6 == <<Address!Zero, Address!Zero, Address!Mapped, a4>>
  <2>1. Address!Converted(a6) = a4 /\ Address!CanConvert(a6)
    BY DEF Address!Converted, Address!CanConvert, Address!IsMapped
  <2> QED BY <1>2, <2>1 DEF Address!SetIPv4
<1>5. ASSUME NEW a6 PROVE Sound(Address!SetIPv6(a6))
  BY DEF Address!SetIPv6
<1>6. ASSUME NEW type \in Address!Types PROVE Sound(Address!OfType(type))
  <2> HIDE DEF Sound
  <2> QED BY <1>3, <1>4, <1>5 DEF Address!OfType, Address!Types
<1> QED BY <1>3, <1>4, <1>5, <1>6

LEMMA AddressStart == Address!Init => AddressInv
BY SoundValues DEF Address!Init, AddressInv

LEMMA AddressPromises == AddressInv => Address!SharingIsInvisible /\ Address!TypeOK
BY DEF AddressInv, Sound, Address!SharingIsInvisible, Address!TypeOK, Address!Exists,
   Address!IPv4Protocol, Address!IPv6Protocol, Address!UnknownProtocolType

\* Handles point to objects that are what they were told.
LEMMA AddressLeaves ==
  ASSUME NEW pointers \in [Handles -> PrivateIds \cup {NoValue}], NEW objects,
         \A i \in PrivateIds : Sound(objects[i]), DOMAIN told' = Handles,
         Address!Leave(pointers, objects),
         \A h \in Handles : pointers[h] # NoValue => objects[pointers[h]] = told'[h]
  PROVE  AddressInv'
<1>1. pointer' = pointers /\ DOMAIN private' = PrivateIds
      /\ \A i \in PrivateIds : private'[i] = IF Address!Users(pointers, i) = {} THEN Address!New
                                             ELSE objects[i]
  BY DEF Address!Leave
<1>2. \A i \in PrivateIds : Sound(private'[i])
  BY <1>1, SoundValues
<1>3. ASSUME NEW h \in Handles, pointers[h] # NoValue PROVE private'[pointers[h]] = told'[h]
  <2>1. pointers[h] \in PrivateIds /\ h \in Address!Users(pointers, pointers[h])
    BY <1>3 DEF Address!Users
  <2> QED BY <1>1, <1>3, <2>1
<1> QED BY <1>1, <1>2, <1>3 DEF AddressInv

\* A handle takes an object that nobody has.
LEMMA AddressTakes ==
  ASSUME AddressInv, NEW h \in Handles, NEW p, Sound(p), NEW i \in Address!FirstFree,
         Address!Leave([pointer EXCEPT ![h] = i], [private EXCEPT ![i] = p]),
         told' = [told EXCEPT ![h] = p]
  PROVE  AddressInv'
<1> DEFINE pointers == [pointer EXCEPT ![h] = i]
           objects == [private EXCEPT ![i] = p]
<1>1. i \in PrivateIds /\ i # NoValue /\ \A g \in Handles : pointer[g] # i
  BY DataAssumption DEF Address!AddressAssumption, Address!FirstFree, Address!Free, Address!Users
<1>2. pointers \in [Handles -> PrivateIds \cup {NoValue}] /\ DOMAIN told' = Handles
  BY <1>1 DEF AddressInv
<1>3. \A j \in PrivateIds : objects[j] = IF j = i THEN p ELSE private[j]
  BY DEF AddressInv
<1>4. \A j \in PrivateIds : Sound(objects[j])
  BY <1>3 DEF AddressInv
<1>5. ASSUME NEW g \in Handles, pointers[g] # NoValue PROVE objects[pointers[g]] = told'[g]
  <2>1. CASE g = h
    BY <1>1, <1>3, <2>1 DEF AddressInv
  <2>2. CASE g # h
    <3>1. pointers[g] = pointer[g] /\ pointer[g] # i /\ pointer[g] \in PrivateIds
      BY <1>1, <1>5, <2>2 DEF AddressInv
    <3> QED BY <1>3, <1>5, <2>2, <3>1 DEF AddressInv
  <2> QED BY <2>1, <2>2
<1> HIDE DEF pointers, objects
<1>6. Address!Leave(pointers, objects)
  BY DEF pointers, objects
<1> QED BY <1>2, <1>4, <1>5, <1>6, AddressLeaves

LEMMA AddressMakes ==
  ASSUME AddressInv, NEW h \in Handles, NEW p, Sound(p), Address!Make(h, p)
  PROVE  AddressInv'
BY AddressTakes DEF Address!Make

LEMMA AddressSets ==
  ASSUME AddressInv, NEW h \in Handles, NEW p, Sound(p), Address!Set(h, p)
  PROVE  AddressInv'
<1>1. pointer[h] # NoValue /\ pointer[h] \in PrivateIds /\ told' = [told EXCEPT ![h] = p]
      /\ Address!Detached(h, p)
  BY DEF Address!Set, Address!Exists, AddressInv
<1>2. CASE Address!Cardinality(Address!Users(pointer, pointer[h])) = 1
  <2> DEFINE U == Address!Users(pointer, pointer[h])
  <2>1. U \subseteq Handles /\ h \in U
    BY DEF Address!Users
  <2>2. IsFiniteSet(Handles)
    BY DataAssumption, SameCount DEF Address!AddressAssumption
  <2> HIDE DEF U
  <2>3. IsFiniteSet(U)
    BY <2>1, <2>2, FS_Subset
  <2>4. Cardinality(U) = 1
    BY <1>2, SameCount DEF U
  <2>5. U = {h}
    BY <2>1, <2>3, <2>4, SoleElement
  <2>6. \A g \in Handles \ {h} : pointer[g] # pointer[h]
    BY <2>5 DEF U, Address!Users
  <2>7. pointer' = pointer /\ private' = [private EXCEPT ![pointer[h]] = p]
    BY <1>1, <1>2 DEF Address!Detached
  <2> QED BY <1>1, <2>6, <2>7 DEF AddressInv
<1>3. CASE Address!Cardinality(Address!Users(pointer, pointer[h])) # 1
  BY <1>1, <1>3, AddressTakes DEF Address!Detached
<1> QED BY <1>2, <1>3

LEMMA AddressStep == AddressInv /\ [Address!Next]_addressVars => AddressInv'
<1> SUFFICES ASSUME AddressInv, [Address!Next]_addressVars PROVE AddressInv'
  OBVIOUS
<1>1. ASSUME NEW h \in Handles, Address!Create(h) PROVE AddressInv'
  BY <1>1, AddressMakes, SoundValues DEF Address!Create
<1>2. ASSUME NEW h \in Handles, Address!Destroy(h) PROVE AddressInv'
  <2> DEFINE pointers == [pointer EXCEPT ![h] = NoValue]
  <2>1. pointers \in [Handles -> PrivateIds \cup {NoValue}] /\ DOMAIN told' = Handles
    BY <1>2 DEF Address!Destroy, AddressInv
  <2>2. \A g \in Handles : pointers[g] # NoValue => private[pointers[g]] = told'[g]
    BY <1>2 DEF Address!Destroy, AddressInv
  <2>3. Address!Leave(pointers, private)
    BY <1>2 DEF Address!Destroy
  <2> HIDE DEF pointers
  <2> QED BY <2>1, <2>2, <2>3, AddressLeaves DEF AddressInv
<1>3. ASSUME NEW h \in Handles, NEW g \in Handles, Address!Copy(h, g) PROVE AddressInv'
  <2> DEFINE pointers == [pointer EXCEPT ![h] = pointer[g]]
  <2>1. pointers \in [Handles -> PrivateIds \cup {NoValue}] /\ DOMAIN told' = Handles
    BY <1>3 DEF Address!Copy, AddressInv
  <2>2. \A k \in Handles : pointers[k] # NoValue => private[pointers[k]] = told'[k]
    BY <1>3 DEF Address!Copy, AddressInv
  <2>3. Address!Leave(pointers, private)
    BY <1>3 DEF Address!Copy
  <2> HIDE DEF pointers
  <2> QED BY <2>1, <2>2, <2>3, AddressLeaves DEF AddressInv
<1>4. ASSUME NEW h \in Handles, Address!clear(h) PROVE AddressInv'
  BY <1>4, AddressSets, SoundValues DEF Address!clear
<1>5. ASSUME NEW h \in Handles, Address!setIPv4Address(h) PROVE AddressInv'
  BY <1>5, AddressSets, SoundValues DEF Address!setIPv4Address
<1>6. ASSUME NEW h \in Handles, Address!setIPv6Address(h) PROVE AddressInv'
  BY <1>6, AddressSets, SoundValues DEF Address!setIPv6Address
<1>7. ASSUME NEW h \in Handles, Address!setType(h) PROVE AddressInv'
  BY <1>7, AddressSets, SoundValues DEF Address!setType
<1>8. ASSUME NEW h \in Handles, Address!setString(h) PROVE AddressInv'
  <2>1. Sound(private[pointer[h]])
    BY <1>8 DEF Address!setString, Address!Exists, AddressInv
  <2> QED BY <1>8, <2>1, AddressSets DEF Address!setString
<1>9. CASE UNCHANGED addressVars
  BY <1>9 DEF addressVars, AddressInv
<1> QED BY <1>1, <1>2, <1>3, <1>4, <1>5, <1>6, <1>7, <1>8, <1>9 DEF Address!Next

-----------------------------------------------------------------------------
(* Counting the users of a node.                                           *)

Having(S, f, i) == {l \in S : f[l] = i}

\* How the users of i change when h changes what it has.
CountStep(S, f, g, h, i) ==
  /\ Cardinality(Having(S, f, i)) \in Nat
  /\ Cardinality(Having(S, g, i)) =
       IF f[h] = i THEN (IF g[h] = i THEN Cardinality(Having(S, f, i))
                         ELSE Cardinality(Having(S, f, i)) - 1)
       ELSE (IF g[h] = i THEN Cardinality(Having(S, f, i)) + 1 ELSE Cardinality(Having(S, f, i)))

LEMMA CountBy ==
  ASSUME NEW S, IsFiniteSet(S), NEW f, NEW g, NEW h \in S, NEW i,
         \A l \in S \ {h} : g[l] = f[l]
  PROVE  CountStep(S, f, g, h, i)
<1> DEFINE H == Having(S, f, i)
           G == Having(S, g, i)
<1>1. H \subseteq S /\ (h \in H <=> f[h] = i)
  BY DEF Having
<1>2. G = IF g[h] = i THEN H \cup {h} ELSE H \ {h}
  BY DEF Having
<1> HIDE DEF H, G
<1>3. IsFiniteSet(H)
  BY <1>1, FS_Subset
<1>4. /\ Cardinality(H) \in Nat
      /\ Cardinality(H \cup {h}) = IF h \in H THEN Cardinality(H) ELSE Cardinality(H) + 1
      /\ Cardinality(H \ {h}) = IF h \in H THEN Cardinality(H) - 1 ELSE Cardinality(H)
  BY <1>3, FS_CardinalityType, FS_AddElement, FS_RemoveElement
<1>5. /\ Cardinality(H) \in Nat
      /\ Cardinality(G) =
              IF f[h] = i THEN (IF g[h] = i THEN Cardinality(H) ELSE Cardinality(H) - 1)
              ELSE (IF g[h] = i THEN Cardinality(H) + 1 ELSE Cardinality(H))
  BY <1>1, <1>2, <1>4
<1> QED BY <1>5 DEF H, G, CountStep

LEMMA CountOf ==
  ASSUME NEW S, IsFiniteSet(S), NEW f, NEW i
  PROVE  /\ Cardinality(Having(S, f, i)) \in Nat
         /\ Cardinality(Having(S, f, i)) <= Cardinality(S) /\ Cardinality(S) \in Nat
         /\ Cardinality(Having(S, f, i)) = 0 <=> \A h \in S : f[h] # i
         /\ Cardinality(Having(S, f, i)) = 1 =>
              \A g, h \in S : f[g] = i /\ f[h] = i => g = h
<1> DEFINE H == Having(S, f, i)
<1>1. H \subseteq S /\ \A h \in S : h \in H <=> f[h] = i
  BY DEF Having
<1> HIDE DEF H
<1>2. IsFiniteSet(H) /\ Cardinality(H) <= Cardinality(S)
  BY <1>1, FS_Subset
<1>3. Cardinality(H) \in Nat /\ Cardinality(S) \in Nat /\ (Cardinality(H) = 0 <=> H = {})
  BY <1>2, FS_CardinalityType, FS_EmptySet
<1>4. ASSUME Cardinality(H) = 1, NEW g \in S, NEW h \in S, f[g] = i, f[h] = i PROVE g = h
  <2>1. g \in H /\ h \in H
    BY <1>1, <1>4
  <2>2. H = {g}
    BY <1>2, <1>4, <2>1, SoleElement
  <2> QED BY <2>1, <2>2
<1> QED BY <1>1, <1>2, <1>3, <1>4 DEF H

-----------------------------------------------------------------------------
(* String lists.                                                           *)

Nodes == [ref : Int, list : Seq(Elements)]

ListCount(i) == Cardinality(Having(Chains, chain, i))

ListTypes ==
  /\ chain \in [Chains -> ChainIds \cup {0}]
  /\ node \in [ChainIds \cup {0} -> Nodes] /\ node[0].ref = -1 /\ node[0].list = <<>>
  /\ meant \in [Chains -> Seq(Elements)]

ListInv ==
  /\ ListTypes
  /\ \A l \in Chains : node[chain[l]].list = meant[l] /\ Len(meant[l]) <= MaxLength
  /\ \A i \in ChainIds : node[i].ref = ListCount(i)

\* A call that is undefined changes nothing but undefined.
ListKept == ListInv /\ undefined \in BOOLEAN

LEMMA ListConstants == IsFiniteSet(Chains) /\ 0 \notin ChainIds /\ MaxLength \in Nat
BY DataAssumption DEF StringList!ListAssumption, StringList!SharedNull, StringList!IsFiniteSet, IsFiniteSet

LEMMA ListStart == StringList!Init => ListKept
<1> SUFFICES ASSUME StringList!Init PROVE ListKept
  OBVIOUS
<1>1. chain = [l \in Chains |-> 0] /\ meant = [l \in Chains |-> <<>>]
      /\ node = [i \in ChainIds \cup {0} |-> IF i = 0 THEN [ref |-> -1, list |-> <<>>]
                                             ELSE [ref |-> 0, list |-> <<>>]]
  BY DEF StringList!Init, StringList!SharedNull, StringList!Static, StringList!Unused
<1>2. /\ [ref |-> -1, list |-> <<>>] \in Nodes /\ [ref |-> 0, list |-> <<>>] \in Nodes
  BY DEF Nodes
<1>3. ListTypes
  BY <1>1, <1>2 DEF ListTypes
<1>4. \A l \in Chains : node[chain[l]].list = meant[l] /\ Len(meant[l]) <= MaxLength
  BY <1>1, ListConstants
<1>5. ASSUME NEW i \in ChainIds PROVE node[i].ref = ListCount(i)
  <2>1. \A l \in Chains : chain[l] # i
    BY <1>1, ListConstants
  <2>2. ListCount(i) = 0
    BY <2>1, ListConstants, CountOf DEF ListCount
  <2> QED BY <1>1, <2>2, ListConstants
<1> QED BY <1>3, <1>4, <1>5 DEF ListInv, ListKept, StringList!Init

LEMMA ListPromises == ListKept => StringList!SharingIsInvisible /\ StringList!TypeOK
<1> SUFFICES ASSUME ListInv, undefined \in BOOLEAN PROVE StringList!SharingIsInvisible /\ StringList!TypeOK
  BY DEF ListKept
<1>1. node[0] \in Nodes /\ node[0] = [ref |-> -1, list |-> <<>>]
  BY DEF ListInv, ListTypes, Nodes
<1>2. \A i \in ChainIds : node[i].ref = StringList!Cardinality({l \in Chains : chain[l] = i})
  BY SameCount DEF ListInv, ListCount, Having
<1>3. StringList!SharingIsInvisible
  BY <1>1, <1>2 DEF StringList!SharingIsInvisible, StringList!Content, StringList!SharedNull,
     StringList!Static, ListInv
<1>4. ASSUME NEW i \in ChainIds PROVE node[i].ref \in 0 .. StringList!Cardinality(Chains)
  BY ListConstants, CountOf, SameCount DEF ListInv, ListCount
<1>5. \A i \in DOMAIN node : node[i].ref \in {StringList!Static} \cup 0 .. StringList!Cardinality(Chains)
  BY <1>1, <1>4 DEF ListInv, ListTypes, StringList!Static
<1>6. ASSUME NEW l \in Chains PROVE meant[l] \in StringList!BoundedSeq(Elements, MaxLength)
  <2>1. meant[l] \in Seq(Elements) /\ Len(meant[l]) \in 0 .. MaxLength
    BY ListConstants DEF ListInv, ListTypes
  <2>2. meant[l] \in [1 .. Len(meant[l]) -> Elements]
    BY <2>1
  <2> QED BY <2>1, <2>2 DEF StringList!BoundedSeq, StringList!SeqOf
<1> QED BY <1>3, <1>5, <1>6 DEF StringList!TypeOK, ListInv, ListTypes, StringList!SharedNull

LEMMA ListCounts ==
  ASSUME ListInv, NEW h \in Chains
  PROVE  /\ \A i \in ChainIds : node[i].ref \in Nat /\ (node[i].ref = 0 <=> \A g \in Chains : chain[g] # i)
         /\ \A i \in ChainIds : node[i].ref = 1 => \A g \in Chains : chain[g] = i /\ chain[h] = i => g = h
         /\ chain[h] \in ChainIds \cup {0} /\ (chain[h] # 0 => node[chain[h]].ref >= 1)
<1>1. \A i \in ChainIds : node[i].ref \in Nat /\ (node[i].ref = 0 <=> \A g \in Chains : chain[g] # i)
  BY ListConstants, CountOf DEF ListInv, ListCount
<1>2. ASSUME NEW i \in ChainIds, node[i].ref = 1, NEW g \in Chains, chain[g] = i, chain[h] = i PROVE g = h
  <2>1. Cardinality(Having(Chains, chain, i)) = 1
    BY <1>2 DEF ListInv, ListCount
  <2> QED BY <1>2, <2>1, ListConstants, CountOf
<1>3. chain[h] \in ChainIds \cup {0}
  BY DEF ListInv, ListTypes
<1>4. chain[h] # 0 => node[chain[h]].ref >= 1
  BY <1>1, <1>3
<1> QED BY <1>1, <1>2, <1>3, <1>4

LEMMA DerefNode ==
  ASSUME NEW n \in Nodes
  PROVE  /\ StringList!deref(n) \in Nodes
         /\ n.ref = -1 => StringList!deref(n) = n
         /\ n.ref >= 1 => StringList!deref(n).ref = n.ref - 1
         /\ n.ref >= 2 => StringList!deref(n).list = n.list
BY DEF Nodes, StringList!deref, StringList!Static, StringList!Unused

LEMMA RefNode ==
  ASSUME NEW n \in Nodes, n.ref # 0
  PROVE  /\ StringList!ref(n) \in Nodes /\ StringList!ref(n).list = n.list
         /\ n.ref = -1 => StringList!ref(n) = n
         /\ n.ref # -1 => StringList!ref(n).ref = n.ref + 1
BY DEF Nodes, StringList!ref, StringList!Static

\* The list h goes from one node to another.
LEMMA ListMoves ==
  ASSUME ListInv, NEW h \in Chains, NEW j \in ChainIds \cup {0}, chain' = [chain EXCEPT ![h] = j],
         j = chain[h] => j = 0,
         node' \in [ChainIds \cup {0} -> Nodes], node'[0] = node[0],
         \A k \in ChainIds : node'[k].ref = IF k = j THEN node[k].ref + 1
                                            ELSE IF k = chain[h] THEN node[k].ref - 1 ELSE node[k].ref,
         \A k \in ChainIds : (\E g \in Chains \ {h} : chain[g] = k) => node'[k].list = node[k].list,
         meant' = [meant EXCEPT ![h] = node'[j].list], Len(node'[j].list) <= MaxLength
  PROVE  ListInv'
<1>1. /\ chain \in [Chains -> ChainIds \cup {0}] /\ meant \in [Chains -> Seq(Elements)]
      /\ \A g \in Chains : node[chain[g]].list = meant[g] /\ Len(meant[g]) <= MaxLength
      /\ node[0].ref = -1 /\ node[0].list = <<>>
  BY DEF ListInv, ListTypes
<1>2. node'[j].list \in Seq(Elements)
  BY DEF Nodes
<1>3. ListTypes'
  BY <1>1, <1>2 DEF ListTypes
<1>4. ASSUME NEW g \in Chains PROVE node'[chain'[g]].list = meant'[g] /\ Len(meant'[g]) <= MaxLength
  <2>1. CASE g = h
    BY <1>1, <2>1
  <2>2. CASE g # h
    <3>1. chain'[g] = chain[g] /\ meant'[g] = meant[g]
      BY <1>1, <2>2
    <3>2. node'[chain[g]].list = node[chain[g]].list
      BY <1>1, <2>2
    <3> QED BY <1>1, <3>1, <3>2
  <2> QED BY <2>1, <2>2
<1>5. ASSUME NEW k \in ChainIds PROVE node'[k].ref = ListCount(k)'
  <2> DEFINE c == Cardinality(Having(Chains, chain, k))
             n == Cardinality(Having(Chains, chain', k))
  <2>1. node[k].ref = c
    BY DEF ListInv, ListCount
  <2>2. /\ c \in Nat
        /\ n = IF chain[h] = k THEN (IF j = k THEN c ELSE c - 1) ELSE (IF j = k THEN c + 1 ELSE c)
    <3>1. PICK f, next : f = chain /\ next = chain'
      OBVIOUS
    <3>2. next[h] = j /\ \A g \in Chains \ {h} : next[g] = f[g]
      BY <1>1, <3>1
    <3>3. IsFiniteSet(Chains)
      BY ListConstants
    <3> HIDE DEF c, n
    <3>4. CountStep(Chains, f, next, h, k)
      BY Zenon, <3>2, <3>3, CountBy
    <3>5. c = Cardinality(Having(Chains, f, k)) /\ n = Cardinality(Having(Chains, next, k))
      BY <3>1 DEF c, n
    <3> QED BY <3>1, <3>2, <3>4, <3>5 DEF CountStep
  <2>3. ListCount(k)' = n
    BY DEF ListCount, Having
  <2>4. k # 0
    BY ListConstants
  <2> HIDE DEF c, n
  <2> QED BY <2>1, <2>2, <2>3, <2>4
<1> QED BY <1>3, <1>4, <1>5 DEF ListInv

LEMMA ListInNew ==
  ASSUME ListInv, NEW h \in Chains, NEW s \in Seq(Elements), Len(s) <= MaxLength,
         StringList!InNew(h, s), meant' = [meant EXCEPT ![h] = s]
  PROVE  ListInv'
<1>1. PICK i \in StringList!FirstFree :
        /\ chain' = [chain EXCEPT ![h] = i]
        /\ node' = [node EXCEPT ![chain[h]] = StringList!deref(@), ![i] = StringList!Owned(s)]
  BY DEF StringList!InNew
<1>2. i \in ChainIds /\ node[i].ref = 0 /\ i # 0
  BY ListConstants DEF StringList!FirstFree, StringList!Free, StringList!Unused
<1>3. \A g \in Chains : chain[g] # i
  BY <1>2, ListCounts
<1>4. node \in [ChainIds \cup {0} -> Nodes] /\ chain[h] \in ChainIds \cup {0} /\ chain[h] # i
  BY <1>3 DEF ListInv, ListTypes
<1> DEFINE o == StringList!deref(node[chain[h]])
           w == StringList!Owned(s)
<1>5. w \in Nodes /\ w.ref = 1 /\ w.list = s
  BY DEF StringList!Owned, Nodes
<1>6. /\ o \in Nodes /\ (chain[h] = 0 => o = node[0])
      /\ chain[h] # 0 => /\ o.ref = node[chain[h]].ref - 1
                         /\ node[chain[h]].ref # 1 => o.list = node[chain[h]].list
  <2>1. node[chain[h]] \in Nodes /\ node[chain[h]].ref \in Int
    BY <1>4 DEF Nodes
  <2>2. chain[h] = 0 => node[chain[h]].ref = -1
    BY DEF ListInv, ListTypes
  <2>3. chain[h] # 0 => node[chain[h]].ref >= 1
    BY ListCounts
  <2> QED BY <2>1, <2>2, <2>3, DerefNode
<1> HIDE DEF o, w
<1>7. /\ node' \in [ChainIds \cup {0} -> Nodes]
      /\ \A k \in ChainIds \cup {0} : node'[k] = IF k = i THEN w ELSE IF k = chain[h] THEN o ELSE node[k]
  BY <1>1, <1>2, <1>4, <1>5, <1>6 DEF o, w
<1>8. node'[0] = node[0]
  BY <1>2, <1>6, <1>7
<1>9. ASSUME NEW k \in ChainIds, NEW g \in Chains \ {h}, chain[g] = k PROVE node'[k].list = node[k].list
  <2>1. k # i
    BY <1>3, <1>9
  <2>2. k = chain[h] => node[k].ref # 1
    BY <1>9, ListCounts
  <2> QED BY <1>6, <1>7, <2>1, <2>2, ListConstants
<1>10. \A k \in ChainIds : node'[k].ref = IF k = i THEN node[k].ref + 1
                                          ELSE IF k = chain[h] THEN node[k].ref - 1 ELSE node[k].ref
  BY <1>2, <1>5, <1>6, <1>7, ListConstants
<1>11. node'[i].list = s
  BY <1>2, <1>5, <1>7
<1>12. /\ i \in ChainIds \cup {0} /\ (i = chain[h] => i = 0)
       /\ meant' = [meant EXCEPT ![h] = node'[i].list] /\ Len(node'[i].list) <= MaxLength
  BY <1>2, <1>4, <1>11
<1>13. \A k \in ChainIds : (\E g \in Chains \ {h} : chain[g] = k) => node'[k].list = node[k].list
  BY <1>9
<1>14. node' \in [ChainIds \cup {0} -> Nodes] /\ chain' = [chain EXCEPT ![h] = i]
  BY <1>1, <1>7
<1> QED BY <1>8, <1>10, <1>12, <1>13, <1>14, ListMoves

LEMMA ListInPlace ==
  ASSUME ListInv, NEW h \in Chains, NEW s \in Seq(Elements), Len(s) <= MaxLength,
         ~StringList!isShared(node[chain[h]]), StringList!InPlace(h, s), meant' = [meant EXCEPT ![h] = s]
  PROVE  ListInv'
<1> DEFINE o == chain[h]
<1>1. node[0].ref = -1 /\ o \in ChainIds \cup {0} /\ node \in [ChainIds \cup {0} -> Nodes]
      /\ chain \in [Chains -> ChainIds \cup {0}]
  BY DEF ListInv, ListTypes
<1>2. o # 0 /\ o \in ChainIds /\ node[o].ref = 1
  <2>1. node[o].ref \in {0, 1}
    BY DEF StringList!isShared
  <2>2. o # 0
    BY <1>1, <2>1
  <2> QED BY <1>1, <2>1, <2>2, ListCounts
<1>3. \A g \in Chains \ {h} : chain[g] # o
  BY <1>2, ListCounts
<1>4. chain' = chain /\ node' = [node EXCEPT ![o].list = s]
  BY DEF StringList!InPlace
<1> HIDE DEF o
<1>5. /\ node' \in [ChainIds \cup {0} -> Nodes]
      /\ \A k \in ChainIds \cup {0} : node'[k].ref = node[k].ref
      /\ \A k \in ChainIds \cup {0} : node'[k].list = IF k = o THEN s ELSE node[k].list
  BY <1>1, <1>2, <1>4 DEF Nodes
<1>6. ListTypes'
  BY <1>2, <1>4, <1>5 DEF ListInv, ListTypes
<1>7. \A k \in ChainIds : node'[k].ref = ListCount(k)'
  BY <1>4, <1>5 DEF ListInv, ListCount, Having
<1>8. ASSUME NEW g \in Chains PROVE node'[chain'[g]].list = meant'[g] /\ Len(meant'[g]) <= MaxLength
  BY <1>1, <1>3, <1>4, <1>5 DEF ListInv, ListTypes, o
<1> QED BY <1>6, <1>7, <1>8 DEF ListInv

LEMMA ListPoints ==
  ASSUME ListInv, NEW h \in Chains, NEW j \in ChainIds \cup {0}, StringList!Points(h, j),
         j = chain[h] => j = 0, j # 0 => node[j].ref >= 1,
         meant' = [meant EXCEPT ![h] = node[j].list], Len(node[j].list) <= MaxLength
  PROVE  ListInv'
<1>1. /\ chain' = [chain EXCEPT ![h] = j]
      /\ node' = [node EXCEPT ![j] = StringList!ref(@), ![chain[h]] = StringList!deref(@)]
  BY DEF StringList!Points
<1>2. node \in [ChainIds \cup {0} -> Nodes] /\ chain[h] \in ChainIds \cup {0} /\ node[0].ref = -1
  BY DEF ListInv, ListTypes
<1> DEFINE r == StringList!ref(node[j])
           o == StringList!deref(node[chain[h]])
<1>3. r \in Nodes /\ r.list = node[j].list /\ (j = 0 => r = node[0]) /\ (j # 0 => r.ref = node[j].ref + 1)
  <2>1. node[j] \in Nodes /\ node[j].ref \in Int /\ node[j].ref # 0
    BY <1>2 DEF Nodes
  <2>2. j # 0 => node[j].ref # -1
    BY <2>1
  <2> QED BY <1>2, <2>1, <2>2, RefNode
<1>4. /\ o \in Nodes /\ (chain[h] = 0 => o = node[0])
      /\ chain[h] # 0 => /\ o.ref = node[chain[h]].ref - 1
                         /\ node[chain[h]].ref # 1 => o.list = node[chain[h]].list
  <2>1. node[chain[h]] \in Nodes /\ node[chain[h]].ref \in Int
    BY <1>2 DEF Nodes
  <2>2. chain[h] # 0 => node[chain[h]].ref >= 1
    BY ListCounts
  <2> QED BY <1>2, <2>1, <2>2, DerefNode
<1>5. node' = [[node EXCEPT ![j] = r] EXCEPT ![chain[h]] = o]
  <2>1. chain[h] # j => node' = [[node EXCEPT ![j] = r] EXCEPT ![chain[h]] = o]
    BY <1>1, <1>2
  <2>2. chain[h] = j => r = node[0] /\ o = node[0] /\ j = 0
    BY <1>3, <1>4
  <2>3. node[0] \in Nodes /\ StringList!deref(node[0]) = node[0] /\ StringList!ref(node[0]) = node[0]
    BY <1>2, DerefNode, RefNode
  <2>4. chain[h] = j => node' = [[node EXCEPT ![j] = r] EXCEPT ![chain[h]] = o]
    BY <1>1, <1>2, <2>2, <2>3
  <2> QED BY <2>1, <2>4
<1> HIDE DEF r, o
<1>6. /\ node' \in [ChainIds \cup {0} -> Nodes]
      /\ \A k \in ChainIds \cup {0} : node'[k] = IF k = chain[h] THEN o ELSE IF k = j THEN r ELSE node[k]
  BY <1>2, <1>3, <1>4, <1>5
<1>7. node'[0] = node[0]
  BY <1>3, <1>4, <1>6
<1>8. ASSUME NEW k \in ChainIds, NEW g \in Chains \ {h}, chain[g] = k PROVE node'[k].list = node[k].list
  <2>1. k = chain[h] => node[k].ref # 1 /\ k # 0
    BY <1>8, ListCounts, ListConstants
  <2> QED BY <1>3, <1>4, <1>6, <2>1
<1>9. \A k \in ChainIds : node'[k].ref = IF k = j THEN node[k].ref + 1
                                         ELSE IF k = chain[h] THEN node[k].ref - 1 ELSE node[k].ref
  BY <1>3, <1>4, <1>6, ListConstants
<1>10. node'[j].list = node[j].list
  BY <1>3, <1>4, <1>6
<1>11. meant' = [meant EXCEPT ![h] = node'[j].list] /\ Len(node'[j].list) <= MaxLength
  BY <1>10
<1>12. \A k \in ChainIds : (\E g \in Chains \ {h} : chain[g] = k) => node'[k].list = node[k].list
  BY <1>8
<1>13. node' \in [ChainIds \cup {0} -> Nodes] /\ chain' = [chain EXCEPT ![h] = j]
  BY <1>1, <1>6
<1> QED BY <1>7, <1>9, <1>11, <1>12, <1>13, ListMoves

\* h takes what l had, and l has the null node.
LEMMA ListMoveFrom ==
  ASSUME ListInv, NEW h \in Chains, NEW l \in Chains, StringList!MoveFrom(h, l)
  PROVE  ListInv'
<1> DEFINE o == StringList!deref(node[chain[h]])
           between == [chain EXCEPT ![h] = chain[l]]
<1>1. /\ h # l
      /\ chain' = [between EXCEPT ![l] = 0]
      /\ node' = [node EXCEPT ![chain[h]] = o]
      /\ meant' = [meant EXCEPT ![h] = meant[l], ![l] = <<>>]
  BY DEF StringList!MoveFrom, StringList!SharedNull
<1>2. /\ chain \in [Chains -> ChainIds \cup {0}] /\ meant \in [Chains -> Seq(Elements)]
      /\ node \in [ChainIds \cup {0} -> Nodes] /\ node[0].ref = -1 /\ node[0].list = <<>>
      /\ \A g \in Chains : node[chain[g]].list = meant[g] /\ Len(meant[g]) <= MaxLength
  BY DEF ListInv, ListTypes
<1>3. /\ o \in Nodes /\ (chain[h] = 0 => o = node[0])
      /\ chain[h] # 0 => /\ o.ref = node[chain[h]].ref - 1
                         /\ node[chain[h]].ref # 1 => o.list = node[chain[h]].list
  <2>1. node[chain[h]] \in Nodes /\ node[chain[h]].ref \in Int
    BY <1>2 DEF Nodes
  <2>2. chain[h] # 0 => node[chain[h]].ref >= 1
    BY ListCounts
  <2> QED BY <1>2, <2>1, <2>2, DerefNode
<1>4. /\ between \in [Chains -> ChainIds \cup {0}] /\ between[h] = chain[l]
      /\ between[l] = chain[l] /\ \A g \in Chains \ {h} : between[g] = chain[g]
  BY <1>1, <1>2
<1> HIDE DEF o, between
<1>5. /\ node' \in [ChainIds \cup {0} -> Nodes]
      /\ \A k \in ChainIds \cup {0} : node'[k] = IF k = chain[h] THEN o ELSE node[k]
  BY <1>1, <1>2, <1>3
<1>6. /\ chain' \in [Chains -> ChainIds \cup {0}] /\ chain'[l] = 0 /\ chain'[h] = chain[l]
      /\ \A g \in Chains \ {l} : chain'[g] = between[g]
      /\ \A g \in Chains \ {h, l} : chain'[g] = chain[g]
  BY <1>1, <1>4
<1>7. /\ meant' \in [Chains -> Seq(Elements)] /\ meant'[l] = <<>> /\ meant'[h] = meant[l]
      /\ \A g \in Chains \ {h, l} : meant'[g] = meant[g]
  <2>1. <<>> \in Seq(Elements)
    OBVIOUS
  <2> QED BY <1>1, <1>2, <2>1
<1>8. node'[0] = node[0]
  BY <1>3, <1>5
<1>9. ListTypes'
  BY <1>2, <1>5, <1>6, <1>7, <1>8 DEF ListTypes
<1>10. ASSUME NEW g \in Chains \ {h} PROVE node'[chain[g]].list = node[chain[g]].list
  <2>1. chain[g] = chain[h] /\ chain[g] # 0 => node[chain[g]].ref # 1
    BY <1>2, ListCounts
  <2> QED BY <1>2, <1>3, <1>5, <2>1
<1>11. ASSUME NEW g \in Chains PROVE node'[chain'[g]].list = meant'[g] /\ Len(meant'[g]) <= MaxLength
  <2>1. CASE g = l
    BY <1>2, <1>6, <1>7, <1>8, <2>1, ListConstants
  <2>2. CASE g = h
    <3>1. node'[chain[l]].list = node[chain[l]].list /\ node[chain[l]].list = meant[l] /\ Len(meant[l]) <= MaxLength
      BY <1>1, <1>2, <1>10
    <3> QED BY <1>6, <1>7, <2>2, <3>1
  <2>3. CASE g # h /\ g # l
    <3>1. node'[chain[g]].list = node[chain[g]].list /\ node[chain[g]].list = meant[g] /\ Len(meant[g]) <= MaxLength
      BY <1>2, <1>10, <2>3
    <3>2. chain'[g] = chain[g] /\ meant'[g] = meant[g]
      BY <1>6, <1>7, <2>3
    <3> QED BY <3>1, <3>2
  <2> QED BY <2>1, <2>2, <2>3
<1>12. ASSUME NEW k \in ChainIds PROVE node'[k].ref = ListCount(k)'
  <2> DEFINE c == Cardinality(Having(Chains, chain, k))
             b == Cardinality(Having(Chains, between, k))
             n == Cardinality(Having(Chains, chain', k))
  <2>1. node[k].ref = c
    BY DEF ListInv, ListCount
  <2>2. ListCount(k)' = n
    BY DEF ListCount, Having
  <2>3. k # 0
    BY ListConstants
  <2>4. PICK f, mid, next : f = chain /\ mid = between /\ next = chain'
    OBVIOUS
  <2>5. IsFiniteSet(Chains) /\ (\A g \in Chains \ {h} : mid[g] = f[g]) /\ (\A g \in Chains \ {l} : next[g] = mid[g])
    BY <1>4, <1>6, <2>4, ListConstants
  <2>6. /\ c = Cardinality(Having(Chains, f, k)) /\ b = Cardinality(Having(Chains, mid, k))
        /\ n = Cardinality(Having(Chains, next, k))
    BY <2>4
  <2> HIDE DEF c, b, n
  <2>7. CountStep(Chains, f, mid, h, k) /\ CountStep(Chains, mid, next, l, k)
    BY Zenon, <2>5, CountBy
  <2>8. f[h] = chain[h] /\ mid[h] = chain[l] /\ mid[l] = chain[l] /\ next[l] = 0
    BY <1>4, <1>6, <2>4
  <2>9. c \in Nat /\ b = IF chain[h] = k THEN (IF chain[l] = k THEN c ELSE c - 1)
                         ELSE (IF chain[l] = k THEN c + 1 ELSE c)
    BY <2>6, <2>7, <2>8 DEF CountStep
  <2>10. n = IF chain[l] = k THEN b - 1 ELSE b
    BY <2>3, <2>6, <2>7, <2>8 DEF CountStep
  <2>11. n = IF chain[h] = k THEN c - 1 ELSE c
    BY <2>9, <2>10
  <2> QED BY <1>3, <1>5, <2>1, <2>2, <2>3, <2>11
<1> QED BY <1>9, <1>11, <1>12 DEF ListInv

LEMMA ListPut ==
  ASSUME ListInv, NEW h \in Chains, NEW s \in Seq(Elements), Len(s) <= MaxLength,
         StringList!Put(h, s), meant' = [meant EXCEPT ![h] = s]
  PROVE  ListInv'
<1>1. CASE StringList!isShared(node[chain[h]])
  <2>1. StringList!InNew(h, s)
    BY <1>1 DEF StringList!Put
  <2> QED BY <2>1, ListInNew
<1>2. CASE ~StringList!isShared(node[chain[h]])
  <2>1. StringList!InPlace(h, s)
    BY <1>2 DEF StringList!Put
  <2> QED BY <1>2, <2>1, ListInPlace
<1> QED BY <1>1, <1>2

\* What a call means for its list, when the lists stay short.
LEMMA ListMeans ==
  ASSUME ListInv, StringList!Short, NEW h \in Chains, NEW s, StringList!Means(h, s)
  PROVE  meant' = [meant EXCEPT ![h] = s] /\ Len(s) <= MaxLength
<1>1. meant' = [meant EXCEPT ![h] = s]
  BY DEF StringList!Means
<1>2. meant'[h] = s
  BY <1>1 DEF ListInv, ListTypes
<1> QED BY <1>1, <1>2 DEF StringList!Short

LEMMA ListContent ==
  ASSUME ListInv, NEW h \in Chains
  PROVE  StringList!Content(h) = meant[h] /\ meant[h] \in Seq(Elements)
BY DEF ListInv, ListTypes, StringList!Content

LEMMA ListTakes ==
  ASSUME ListInv, StringList!Short, NEW h \in Chains, NEW l \in Chains,
         StringList!Points(h, chain[l]), chain[h] # chain[l] \/ chain[l] = 0,
         StringList!Means(h, meant[l])
  PROVE  ListInv'
<1>1. /\ chain[l] \in ChainIds \cup {0} /\ (chain[l] # 0 => node[chain[l]].ref >= 1)
  BY ListCounts
<1>2. node[chain[l]].list = meant[l]
  BY DEF ListInv
<1>3. meant' = [meant EXCEPT ![h] = node[chain[l]].list] /\ Len(node[chain[l]].list) <= MaxLength
  BY <1>2, ListMeans
<1>4. PICK j \in ChainIds \cup {0} : j = chain[l]
  BY <1>1
<1>5. StringList!Points(h, j) /\ (j = chain[h] => j = 0) /\ (j # 0 => node[j].ref >= 1)
  BY <1>1, <1>4
<1> QED BY <1>3, <1>4, <1>5, ListPoints

LEMMA ListStill == ListInv /\ UNCHANGED <<chain, node, meant>> => ListInv'
BY DEF ListInv, ListTypes, ListCount, Having

LEMMA ListPair ==
  ASSUME ListInv, StringList!Short, NEW h \in Chains, NEW l \in Chains,
         \/ StringList!Assign(h, l) \/ StringList!MoveFrom(h, l)
         \/ StringList!AppendList(h, l) \/ StringList!PrependList(h, l)
  PROVE  ListInv'
<1>1. CASE StringList!Assign(h, l)
  <2>1. CASE chain[h] = chain[l]
    <3>1. meant[h] = meant[l] /\ meant' = [meant EXCEPT ![h] = meant[l]]
      BY <1>1, <2>1, ListMeans DEF ListInv, StringList!Assign
    <3>2. UNCHANGED <<chain, node, meant>>
      BY <1>1, <2>1, <3>1 DEF StringList!Assign, ListInv, ListTypes
    <3> QED BY <3>2 DEF ListInv, ListTypes, ListCount, Having
  <2>2. CASE chain[h] # chain[l]
    <3>1. StringList!Points(h, chain[l]) /\ StringList!Means(h, meant[l])
      BY <1>1, <2>2 DEF StringList!Assign
    <3> QED BY <2>2, <3>1, ListTakes
  <2> QED BY <2>1, <2>2
<1>2. CASE StringList!MoveFrom(h, l)
  BY <1>2, ListMoveFrom
<1>3. CASE StringList!AppendList(h, l) /\ ~(h = l /\ ~StringList!isShared(node[chain[h]]))
  <2> DEFINE s == meant[h] \o meant[l]
  <2>1. s \in Seq(Elements) /\ StringList!Means(h, s) /\ meant[l] # <<>>
    BY <1>3, ListContent DEF StringList!AppendList
  <2>2. CASE chain[h] = 0
    <3>1. meant[h] = <<>>
      BY <2>2 DEF ListInv, ListTypes
    <3>2. s = meant[l]
      BY <3>1, ListContent
    <3>3. chain[l] # 0
      BY <2>1 DEF ListInv, ListTypes
    <3>4. StringList!Points(h, chain[l])
      BY <1>3, <2>2 DEF StringList!AppendList, StringList!SharedNull
    <3> HIDE DEF s
    <3> QED BY <2>1, <2>2, <3>2, <3>3, <3>4, ListTakes
  <2>3. CASE chain[h] # 0
    <3>1. StringList!Put(h, s)
      BY <1>3, <2>3, ListContent DEF StringList!AppendList, StringList!SharedNull
    <3> HIDE DEF s
    <3> QED BY <2>1, <3>1, ListMeans, ListPut
  <2> QED BY <2>2, <2>3
<1>4. CASE StringList!PrependList(h, l) /\ ~(h = l \/ StringList!GrowsBehindTheEnd(h))
  <2> DEFINE s == meant[l] \o meant[h]
  <2>1. s \in Seq(Elements) /\ StringList!Means(h, s) /\ meant[l] # <<>>
    BY <1>4, ListContent DEF StringList!PrependList
  <2>2. CASE chain[h] = 0
    <3>1. meant[h] = <<>>
      BY <2>2 DEF ListInv, ListTypes
    <3>2. s = meant[l]
      BY <3>1, ListContent
    <3>3. chain[l] # 0
      BY <2>1 DEF ListInv, ListTypes
    <3>4. StringList!Points(h, chain[l])
      BY <1>4, <2>2 DEF StringList!PrependList, StringList!SharedNull
    <3> HIDE DEF s
    <3> QED BY <2>1, <2>2, <3>2, <3>3, <3>4, ListTakes
  <2>3. CASE chain[h] # 0
    <3>1. StringList!InPlace(h, s) /\ ~StringList!isShared(node[chain[h]])
      BY <1>4, <2>3, ListContent DEF StringList!PrependList, StringList!SharedNull, StringList!GrowsBehindTheEnd
    <3> HIDE DEF s
    <3> QED BY <2>1, <3>1, ListMeans, ListInPlace
  <2> QED BY <2>2, <2>3
<1>5. CASE StringList!Undefined
  BY <1>5, ListStill DEF StringList!Undefined
<1> QED BY <1>1, <1>2, <1>3, <1>4, <1>5 DEF StringList!AppendList, StringList!PrependList

LEMMA ListStep == ListInv /\ [StringList!Next]_StringList!vars => ListInv'
<1> SUFFICES ASSUME ListInv, [StringList!Next]_StringList!vars PROVE ListInv'
  OBVIOUS
<1>1. CASE UNCHANGED StringList!vars
  BY <1>1, ListStill DEF StringList!vars
<1>2. CASE StringList!Next
  <2> USE <1>2
  <2>1. StringList!Short
    BY DEF StringList!Next
  <2> USE <2>1
  <2>2. ASSUME NEW h \in Chains, NEW l \in Chains,
               \/ StringList!Assign(h, l) \/ StringList!MoveFrom(h, l)
               \/ StringList!AppendList(h, l) \/ StringList!PrependList(h, l)
        PROVE  ListInv'
    BY <2>2, ListPair
  <2>3. ASSUME NEW h \in Chains, NEW e \in Elements, StringList!AppendString(h, e) PROVE ListInv'
    <3> DEFINE s == Append(meant[h], e)
    <3>1. s \in Seq(Elements) /\ StringList!Put(h, s) /\ StringList!Means(h, s)
      BY <2>3, ListContent DEF StringList!AppendString
    <3> HIDE DEF s
    <3> QED BY <3>1, ListMeans, ListPut
  <2>4. ASSUME NEW h \in Chains, NEW e \in Elements, StringList!PrependString(h, e) PROVE ListInv'
    <3>1. CASE StringList!Undefined
      BY <3>1, ListStill DEF StringList!Undefined
    <3>2. CASE ~StringList!GrowsBehindTheEnd(h)
      <4> DEFINE s == <<e>> \o meant[h]
      <4>1. s \in Seq(Elements) /\ StringList!Put(h, s) /\ StringList!Means(h, s)
        BY <2>4, <3>2, ListContent DEF StringList!PrependString
      <4> HIDE DEF s
      <4> QED BY <4>1, ListMeans, ListPut
    <3> QED BY <2>4, <3>1, <3>2 DEF StringList!PrependString
  <2>5. ASSUME NEW h \in Chains, NEW e \in Elements, NEW f \in Elements, StringList!Make(h, <<e, f>>)
        PROVE  ListInv'
    <3> DEFINE s == <<e, f>>
    <3>1. s \in Seq(Elements) /\ StringList!InNew(h, s) /\ StringList!Means(h, s)
      BY <2>5 DEF StringList!Make
    <3> HIDE DEF s
    <3> QED BY <3>1, ListMeans, ListInNew
  <2>6. ASSUME NEW h \in Chains, NEW k \in 1 .. MaxLength, NEW e \in Elements, StringList!Write(h, k, e)
        PROVE  ListInv'
    <3> DEFINE s == [meant[h] EXCEPT ![k] = e]
    <3>1. StringList!Put(h, s) /\ StringList!Means(h, s) /\ k \in DOMAIN meant[h]
      BY <2>6, ListContent DEF StringList!Write, StringList!ReplaceAt
    <3>2. s \in Seq(Elements)
      BY <3>1, ListContent
    <3> HIDE DEF s
    <3> QED BY <3>1, <3>2, ListMeans, ListPut
  <2>7. ASSUME NEW h \in Chains, StringList!Destroy(h) PROVE ListInv'
    <3>1. StringList!Points(h, 0) /\ StringList!Means(h, <<>>)
      BY <2>7 DEF StringList!Destroy, StringList!SharedNull
    <3>2. node[0].list = <<>> /\ Len(<<>>) <= MaxLength
      BY ListConstants DEF ListInv, ListTypes
    <3>3. meant' = [meant EXCEPT ![h] = node[0].list] /\ Len(node[0].list) <= MaxLength
      BY <3>1, <3>2, ListMeans
    <3>4. PICK j \in ChainIds \cup {0} : j = 0
      OBVIOUS
    <3> QED BY <3>1, <3>3, <3>4, ListPoints
  <2>8. ASSUME NEW h \in Chains, StringList!Detach(h) PROVE ListInv'
    <3>1. StringList!InNew(h, meant[h]) /\ meant' = meant
      BY <2>8, ListContent DEF StringList!Detach
    <3>2. meant[h] \in Seq(Elements) /\ Len(meant[h]) <= MaxLength /\ meant' = [meant EXCEPT ![h] = meant[h]]
      BY <3>1 DEF ListInv, ListTypes
    <3> QED BY <3>1, <3>2, ListInNew
  <2>9. ASSUME NEW h \in Chains, StringList!FromString(h) PROVE ListInv'
    BY <2>9, ListStill DEF StringList!FromString, StringList!Undefined
  <2> QED BY <2>2, <2>3, <2>4, <2>5, <2>6, <2>7, <2>8, <2>9 DEF StringList!Next
<1> QED BY <1>1, <1>2

LEMMA ListKeeps == ListKept /\ [StringList!Next]_StringList!vars => ListKept'
<1> SUFFICES ASSUME ListKept, [StringList!Next]_StringList!vars PROVE ListKept'
  OBVIOUS
<1>1. ListInv'
  BY ListStep DEF ListKept
<1>2. CASE UNCHANGED StringList!vars
  BY <1>1, <1>2 DEF StringList!vars, ListKept
<1>3. ASSUME undefined' \in {TRUE, undefined} PROVE ListKept'
  BY <1>1, <1>3 DEF ListKept
<1>4. CASE StringList!Next
  <2> USE DEF StringList!Means, StringList!Undefined
  <2>1. ASSUME NEW h \in Chains, NEW l \in Chains,
               \/ StringList!Assign(h, l) \/ StringList!MoveFrom(h, l)
               \/ StringList!AppendList(h, l) \/ StringList!PrependList(h, l)
        PROVE  undefined' \in {TRUE, undefined}
    BY <2>1 DEF StringList!Assign, StringList!MoveFrom, StringList!AppendList, StringList!PrependList
  <2>2. ASSUME NEW h \in Chains, NEW e \in Elements, StringList!AppendString(h, e) \/ StringList!PrependString(h, e)
        PROVE  undefined' \in {TRUE, undefined}
    BY <2>2 DEF StringList!AppendString, StringList!PrependString
  <2>3. ASSUME NEW h \in Chains, NEW e \in Elements, NEW f \in Elements, StringList!Make(h, <<e, f>>)
        PROVE  undefined' \in {TRUE, undefined}
    BY <2>3 DEF StringList!Make
  <2>4. ASSUME NEW h \in Chains, NEW k \in 1 .. MaxLength, NEW e \in Elements, StringList!Write(h, k, e)
        PROVE  undefined' \in {TRUE, undefined}
    BY <2>4 DEF StringList!Write
  <2>5. ASSUME NEW h \in Chains, StringList!Destroy(h) \/ StringList!Detach(h) \/ StringList!FromString(h)
        PROVE  undefined' \in {TRUE, undefined}
    BY <2>5 DEF StringList!Destroy, StringList!Detach, StringList!FromString
  <2> QED BY <1>3, <1>4, <2>1, <2>2, <2>3, <2>4, <2>5 DEF StringList!Next
<1> QED BY <1>2, <1>4

-----------------------------------------------------------------------------
(* JSON.                                                                   *)

Shown == [type : {"Array", "Object", NoValue}, items : Seq(Json!AllItems)]
TreeNodes == [ref : Int, size : Int, type : {"Array", "Object", NoValue}, items : Seq(Json!AllItems)]

\* What a node remembers is right, and within the bounds.
Whole(n) ==
  n.ref \in 0 .. MaxRef /\ n.size \in {-1, Len(n.items)} /\ Len(n.items) <= MaxItems

\* A holder of arrays has arrays.
Fits(h, t) ==
  /\ t \in {"Array", "Object"}
  /\ (h \in ArrayHolders => t = "Array") /\ (h \in ObjectHolders => t = "Object")

TreeCount(i) == Cardinality(Having(Json!Holders, root, i))

TreeTypes ==
  /\ root \in [Json!Holders -> TreeIds \cup {NoValue}]
  /\ data \in [TreeIds -> TreeNodes]
  /\ expected \in [Json!Holders -> Shown]

Shows(h, j, nodes, e) ==
  IF j = NoValue THEN e.items = <<>>
  ELSE nodes[j].items = e.items /\ nodes[j].type = e.type /\ Fits(h, e.type)

TreeInv ==
  /\ TreeTypes
  /\ \A h \in Json!Holders : Shows(h, root[h], data, expected[h])
  /\ \A i \in TreeIds : TreeCount(i) <= data[i].ref /\ Whole(data[i])

LEMMA TreeConstants ==
  /\ IsFiniteSet(Json!Holders) /\ NoValue \notin TreeIds /\ NoValue # "Array" /\ NoValue # "Object"
  /\ MaxItems \in Nat /\ MaxRef \in Nat \ {0}
  /\ \A h \in ArrayHolders : h \notin ObjectHolders /\ h \notin DocumentHolders /\ h \notin ValueHolders
  /\ \A h \in ObjectHolders : h \notin DocumentHolders /\ h \notin ValueHolders
BY DataAssumption DEF Json!JsonAssumption, Json!IsFiniteSet, IsFiniteSet

LEMMA TreeNothing ==
  /\ Json!Nothing \in TreeNodes /\ Whole(Json!Nothing) /\ Json!Nothing.ref = 0
  /\ Json!Empty \in Shown
  /\ Json!Empty.items = <<>>
<1>1. Len(Json!Nothing.items) = 0 /\ Json!Nothing.ref = 0 /\ Json!Nothing.size = 0
  BY DEF Json!Nothing
<1>2. Whole(Json!Nothing)
  BY <1>1, TreeConstants DEF Whole
<1> QED BY <1>1, <1>2 DEF Json!Nothing, Json!Empty, TreeNodes, Shown

LEMMA TreeStart == Json!Init => TreeInv
<1> SUFFICES ASSUME Json!Init PROVE TreeInv
  OBVIOUS
<1>1. /\ root = [h \in Json!Holders |-> NoValue] /\ data = [i \in TreeIds |-> Json!Nothing]
      /\ expected = [h \in Json!Holders |-> Json!Empty]
  BY DEF Json!Init
<1>2. TreeTypes
  BY <1>1, TreeNothing DEF TreeTypes
<1>3. \A h \in Json!Holders : Shows(h, root[h], data, expected[h])
  BY <1>1, TreeNothing DEF Shows
<1>4. ASSUME NEW i \in TreeIds PROVE TreeCount(i) <= data[i].ref /\ Whole(data[i])
  <2>1. \A h \in Json!Holders : root[h] # i
    BY <1>1, TreeConstants
  <2>2. TreeCount(i) = 0
    BY <2>1, TreeConstants, CountOf DEF TreeCount
  <2> QED BY <1>1, <2>2, TreeNothing
<1> QED BY <1>2, <1>3, <1>4 DEF TreeInv

\* When a document has been copied, which counts nothing, the types are left.
TreeKept == IF uncounted THEN Json!TypeOK ELSE TreeInv /\ uncounted = FALSE

LEMMA TreeBegins == Json!Init => TreeKept
BY TreeStart DEF Json!Init, TreeKept

LEMMA TreeTyped ==
  ASSUME TreeInv, uncounted = FALSE
  PROVE  Json!SharingIsInvisible /\ Json!TypeOK
<1> SUFFICES Json!SharingIsInvisible /\ Json!TypeOK
  OBVIOUS
<1>1. \A i \in TreeIds : Json!Cardinality(Json!PointTo(root, i)) <= data[i].ref
  BY SameCount DEF TreeInv, TreeCount, Having, Json!PointTo
<1>2. \A i \in TreeIds : data[i].size \in {-1, Len(data[i].items)}
  BY DEF TreeInv, Whole
<1>3. \A h \in Json!Holders :
        IF root[h] = NoValue THEN expected[h].items = <<>>
        ELSE data[root[h]].items = expected[h].items /\ data[root[h]].type = expected[h].type
  BY DEF TreeInv, Shows
<1>4. Json!SharingIsInvisible
  BY <1>1, <1>2, <1>3 DEF Json!SharingIsInvisible
<1>5. ASSUME NEW s \in Seq(Json!AllItems), Len(s) <= MaxItems
      PROVE  s \in Json!BoundedSeq(Json!AllItems, MaxItems)
  <2>1. Len(s) \in 0 .. MaxItems /\ s \in [1 .. Len(s) -> Json!AllItems]
    BY <1>5, TreeConstants
  <2> QED BY <2>1 DEF Json!BoundedSeq, Json!SeqOf
<1>6. ASSUME NEW i \in TreeIds
      PROVE  /\ data[i].ref \in 0 .. MaxRef /\ data[i].size \in -1 .. MaxItems
             /\ data[i].items \in Json!BoundedSeq(Json!AllItems, MaxItems)
  <2>1. data[i] \in TreeNodes /\ Whole(data[i])
    BY DEF TreeInv, TreeTypes
  <2>2. /\ data[i].items \in Seq(Json!AllItems) /\ Len(data[i].items) \in Nat
        /\ Len(data[i].items) <= MaxItems /\ data[i].size \in {-1, Len(data[i].items)}
        /\ data[i].ref \in 0 .. MaxRef
    BY <2>1 DEF TreeNodes, Whole
  <2>3. data[i].size \in -1 .. MaxItems
    BY <2>2, TreeConstants
  <2> QED BY <2>2, <2>3, <1>5
<1>7. ASSUME NEW h \in Json!Holders PROVE expected[h] \in Json!Contents
  <2>1. expected[h] \in Shown /\ expected[h].items \in Seq(Json!AllItems)
    BY DEF TreeInv, TreeTypes, Shown
  <2>2. Len(expected[h].items) <= MaxItems
    <3>1. CASE root[h] = NoValue
      BY <1>3, <3>1, TreeConstants
    <3>2. CASE root[h] # NoValue
      BY <1>3, <3>2 DEF TreeInv, TreeTypes, Whole
    <3> QED BY <3>1, <3>2
  <2>3. expected[h].items \in Json!BoundedSeq(Json!AllItems, MaxItems)
    BY <1>5, <2>1, <2>2
  <2> QED BY <2>1, <2>3 DEF Json!Contents, Shown
<1>8. root \in [Json!Holders -> TreeIds \cup {NoValue}] /\ expected \in [Json!Holders -> Json!Contents]
  BY <1>7 DEF TreeInv, TreeTypes
<1> QED BY <1>4, <1>6, <1>8 DEF Json!TypeOK

LEMMA TreePromises == TreeKept => Json!SharingIsInvisible /\ Json!TypeOK
<1>1. CASE uncounted
  BY <1>1 DEF TreeKept, Json!SharingIsInvisible
<1>2. CASE ~uncounted
  BY <1>2, TreeTyped DEF TreeKept
<1> QED BY <1>1, <1>2

LEMMA TreeCounts ==
  ASSUME TreeInv, NEW h \in Json!Holders
  PROVE  /\ root[h] \in TreeIds \cup {NoValue}
         /\ \A i \in TreeIds : TreeCount(i) \in Nat /\ (root[h] = i => TreeCount(i) >= 1)
         /\ \A i \in TreeIds : root[h] = i => data[i].ref >= 1
         /\ \A i \in TreeIds : root[h] = i /\ data[i].ref = 1 => \A g \in Json!Holders : root[g] = i => g = h
<1>1. ASSUME NEW i \in TreeIds
      PROVE  TreeCount(i) \in Nat /\ (root[h] = i => TreeCount(i) >= 1)
  <2>1. /\ TreeCount(i) \in Nat /\ (TreeCount(i) = 0 <=> \A g \in Json!Holders : root[g] # i)
    BY TreeConstants, CountOf DEF TreeCount
  <2> QED BY <2>1
<1>2. ASSUME NEW i \in TreeIds, root[h] = i PROVE data[i].ref >= 1
  <2>1. TreeCount(i) \in Nat /\ TreeCount(i) >= 1 /\ TreeCount(i) <= data[i].ref /\ data[i].ref \in 0 .. MaxRef
    BY <1>1, <1>2 DEF TreeInv, Whole
  <2> QED BY <2>1, TreeConstants
<1>3. ASSUME NEW i \in TreeIds, root[h] = i, data[i].ref = 1, NEW g \in Json!Holders, root[g] = i PROVE g = h
  <2>1. TreeCount(i) = 1
    <3>1. TreeCount(i) \in Nat /\ TreeCount(i) >= 1 /\ TreeCount(i) <= data[i].ref
      BY <1>1, <1>3 DEF TreeInv
    <3> QED BY <1>3, <3>1
  <2> QED BY <1>3, <2>1, TreeConstants, CountOf DEF TreeCount
<1>4. root[h] \in TreeIds \cup {NoValue}
  BY DEF TreeInv, TreeTypes
<1> QED BY <1>1, <1>2, <1>3, <1>4

\* h takes j, and the nodes that nobody has any more are forgotten.
Leaving(h, j, nodes, e) ==
  /\ j \in TreeIds \cup {NoValue} /\ nodes \in [TreeIds -> TreeNodes] /\ e \in Shown
  /\ Json!Leave([root EXCEPT ![h] = j], nodes) /\ expected' = [expected EXCEPT ![h] = e]
  /\ Shows(h, j, nodes, e)
  /\ \A k \in TreeIds :
       /\ Whole(nodes[k])
       /\ nodes[k].ref >= TreeCount(k) + (IF k = j THEN 1 ELSE 0) - (IF k = root[h] THEN 1 ELSE 0)
       /\ (\E g \in Json!Holders \ {h} : root[g] = k) =>
            nodes[k].items = data[k].items /\ nodes[k].type = data[k].type

LEMMA TreeLeave ==
  ASSUME TreeInv, NEW h \in Json!Holders, NEW j, NEW nodes, NEW e, Leaving(h, j, nodes, e)
  PROVE  TreeInv'
<1>0. /\ j \in TreeIds \cup {NoValue} /\ nodes \in [TreeIds -> TreeNodes] /\ e \in Shown
      /\ Json!Leave([root EXCEPT ![h] = j], nodes) /\ expected' = [expected EXCEPT ![h] = e]
      /\ Shows(h, j, nodes, e) /\ \A k \in TreeIds : Whole(nodes[k])
      /\ \A k \in TreeIds : nodes[k].ref >= TreeCount(k) + (IF k = j THEN 1 ELSE 0)
                                                          - (IF k = root[h] THEN 1 ELSE 0)
      /\ \A k \in TreeIds : (\E g \in Json!Holders \ {h} : root[g] = k) =>
                              nodes[k].items = data[k].items /\ nodes[k].type = data[k].type
  BY DEF Leaving
<1>1. /\ root' = [root EXCEPT ![h] = j]
      /\ data' = [i \in TreeIds |-> IF Json!PointTo(root', i) = {} THEN Json!Nothing ELSE nodes[i]]
  BY <1>0 DEF Json!Leave
<1>2. /\ root \in [Json!Holders -> TreeIds \cup {NoValue}]
      /\ expected \in [Json!Holders -> Shown]
      /\ \A g \in Json!Holders : Shows(g, root[g], data, expected[g])
  BY DEF TreeInv, TreeTypes
<1>3. /\ root' \in [Json!Holders -> TreeIds \cup {NoValue}] /\ root'[h] = j
      /\ \A g \in Json!Holders \ {h} : root'[g] = root[g]
      /\ expected' \in [Json!Holders -> Shown]
      /\ expected'[h] = e /\ \A g \in Json!Holders \ {h} : expected'[g] = expected[g]
  BY <1>0, <1>1, <1>2
<1>4. data' \in [TreeIds -> TreeNodes]
  BY <1>0, <1>1, TreeNothing
<1>5. ASSUME NEW k \in TreeIds, NEW g \in Json!Holders, root'[g] = k PROVE data'[k] = nodes[k]
  BY <1>0, <1>1, <1>5 DEF Json!PointTo
<1>6. ASSUME NEW g \in Json!Holders PROVE Shows(g, root'[g], data', expected'[g])
  <2>1. CASE g = h
    <3>1. j # NoValue => data'[j] = nodes[j]
      BY <1>0, <1>3, <1>5
    <3> QED BY <1>0, <1>3, <2>1, <3>1 DEF Shows, Fits
  <2>2. CASE g # h
    <3>1. root'[g] = root[g] /\ expected'[g] = expected[g] /\ Shows(g, root[g], data, expected[g])
      BY <1>0, <1>2, <1>3, <2>2
    <3>2. root[g] # NoValue => root[g] \in TreeIds /\ data'[root[g]] = nodes[root[g]]
      BY <1>0, <1>2, <1>5, <3>1
    <3>3. root[g] # NoValue => /\ data'[root[g]].items = data[root[g]].items
                               /\ data'[root[g]].type = data[root[g]].type
      BY <1>0, <2>2, <3>2
    <3> QED BY <1>0, <3>1, <3>3 DEF Shows, Fits
  <2> QED BY <1>0, <2>1, <2>2
<1>7. ASSUME NEW k \in TreeIds PROVE TreeCount(k)' <= data'[k].ref /\ Whole(data'[k])
  <2> DEFINE c == Cardinality(Having(Json!Holders, root, k))
             n == Cardinality(Having(Json!Holders, root', k))
  <2>1. TreeCount(k) = c
    BY DEF TreeCount
  <2>2. TreeCount(k)' = n
    BY DEF TreeCount, Having
  <2>3. k # NoValue
    BY <1>0, TreeConstants
  <2>4. PICK f, next : f = root /\ next = root'
    OBVIOUS
  <2>5. c = Cardinality(Having(Json!Holders, f, k)) /\ n = Cardinality(Having(Json!Holders, next, k))
    BY <1>0, <2>4
  <2> HIDE DEF c, n
  <2>6. IsFiniteSet(Json!Holders) /\ \A g \in Json!Holders \ {h} : next[g] = f[g]
    BY <1>0, <1>3, <2>4, TreeConstants
  <2>7. CountStep(Json!Holders, f, next, h, k)
    BY Zenon, <2>6, CountBy
  <2>8. f[h] = root[h] /\ next[h] = j
    BY <1>0, <1>3, <2>4
  <2>9. c \in Nat /\ n = IF root[h] = k THEN (IF j = k THEN c ELSE c - 1) ELSE (IF j = k THEN c + 1 ELSE c)
    BY <1>0, <2>5, <2>7, <2>8 DEF CountStep
  <2>10. nodes[k].ref \in Int /\ nodes[k].ref >= n
    <3>1. nodes[k].ref \in Int
      BY <1>0 DEF TreeNodes
    <3>2. nodes[k].ref >= c + (IF k = j THEN 1 ELSE 0) - (IF k = root[h] THEN 1 ELSE 0)
      BY <1>0, <2>1
    <3> QED BY <1>0, <2>9, <3>1, <3>2
  <2>11. CASE Json!PointTo(root', k) = {}
    <3>1. \A g \in Json!Holders : next[g] # k
      BY <1>0, <2>4, <2>11 DEF Json!PointTo
    <3>2. n = 0
      BY <1>0, <2>5, <2>6, <3>1, CountOf
    <3>3. data'[k] = Json!Nothing
      BY <1>0, <1>1, <2>11
    <3> QED BY <1>0, <2>2, <3>2, <3>3, TreeNothing
  <2>12. CASE Json!PointTo(root', k) # {}
    <3>1. data'[k] = nodes[k]
      BY <1>0, <1>1, <2>12
    <3> QED BY <1>0, <2>2, <2>9, <2>10, <3>1
  <2> QED BY <1>0, <2>11, <2>12
<1>8. TreeTypes'
  BY <1>0, <1>3, <1>4 DEF TreeTypes
<1>9. \A g \in Json!Holders : Shows(g, root[g], data, expected[g])'
  BY <1>0, <1>6 DEF Shows, Fits
<1>10. \A k \in TreeIds : (TreeCount(k) <= data[k].ref /\ Whole(data[k]))'
  BY <1>0, <1>7 DEF Whole
<1> QED BY <1>0, <1>8, <1>9, <1>10 DEF TreeInv

\* The nodes m are those of n, with x more users of j.
Counted(n, m, j, x) ==
  /\ m \in [TreeIds -> TreeNodes]
  /\ \A k \in TreeIds :
       /\ m[k].items = n[k].items /\ m[k].type = n[k].type /\ m[k].size = n[k].size
       /\ m[k].ref = n[k].ref + (IF k = j THEN x ELSE 0)

LEMMA TreeCounted ==
  ASSUME NEW n, n \in [TreeIds -> TreeNodes], NEW j, j \in TreeIds \cup {NoValue}
  PROVE  Counted(n, Json!RefIn(n, j), j, 1) /\ Counted(n, Json!DerefIn(n, j), j, -1)
<1>1. NoValue \notin TreeIds /\ \A k \in TreeIds : n[k].ref \in Int
  BY TreeConstants DEF TreeNodes
<1>2. CASE j = NoValue
  <2>1. Json!RefIn(n, j) = n /\ Json!DerefIn(n, j) = n
    BY <1>2 DEF Json!RefIn, Json!DerefIn
  <2>2. Counted(n, n, j, 1) /\ Counted(n, n, j, -1)
    BY <1>1, <1>2 DEF Counted
  <2> QED BY <2>1, <2>2
<1>3. CASE j # NoValue
  <2>1. Json!RefIn(n, j) = [n EXCEPT ![j].ref = @ + 1] /\ Json!DerefIn(n, j) = [n EXCEPT ![j].ref = @ - 1]
    BY <1>3 DEF Json!RefIn, Json!DerefIn
  <2>2. PICK m \in TreeNodes : m = n[j]
    BY <1>3
  <2>3. ASSUME NEW x \in {1, -1} PROVE Counted(n, [n EXCEPT ![j].ref = @ + x], j, x)
    <3> DEFINE c == [m EXCEPT !.ref = @ + x]
    <3>1. m.ref + x \in Int
      BY DEF TreeNodes
    <3>2. c \in TreeNodes /\ c.items = m.items /\ c.type = m.type /\ c.size = m.size /\ c.ref = m.ref + x
      BY <3>1 DEF TreeNodes
    <3>3. [n EXCEPT ![j].ref = @ + x] = [n EXCEPT ![j] = c]
      BY <1>3, <2>2
    <3> HIDE DEF c
    <3> QED BY <1>1, <1>3, <2>2, <3>2, <3>3 DEF Counted
  <2>4. [n EXCEPT ![j].ref = @ - 1] = [n EXCEPT ![j].ref = @ + -1]
    BY <1>1, <1>3
  <2> QED BY <2>1, <2>3, <2>4
<1> QED BY <1>2, <1>3

\* The nodes n are as data, with one more user of j and, unless it is forgotten, one
\* less of o.
Taken(n, j, o) ==
  /\ n \in [TreeIds -> TreeNodes]
  /\ \A k \in TreeIds :
       /\ n[k].items = data[k].items /\ n[k].type = data[k].type /\ n[k].size = data[k].size
       /\ \/ n[k].ref = data[k].ref + (IF k = j THEN 1 ELSE 0)
          \/ n[k].ref = data[k].ref + (IF k = j THEN 1 ELSE 0) - (IF k = o THEN 1 ELSE 0)

\* h takes what g has, and gives up what it had, or forgets to.
LEMMA TreeTakes ==
  ASSUME TreeInv, NEW h \in Json!Holders, NEW g \in Json!Holders, NEW nodes, Taken(nodes, root[g], root[h]),
         Json!CanRef(root[g]), Json!Leave([root EXCEPT ![h] = root[g]], nodes),
         expected' = [expected EXCEPT ![h] = expected[g]],
         root[g] # NoValue => Fits(h, data[root[g]].type)
  PROVE  TreeInv'
<1>0. /\ nodes \in [TreeIds -> TreeNodes]
      /\ \A k \in TreeIds :
           /\ nodes[k].items = data[k].items /\ nodes[k].type = data[k].type /\ nodes[k].size = data[k].size
           /\ \/ nodes[k].ref = data[k].ref + (IF k = root[g] THEN 1 ELSE 0)
              \/ nodes[k].ref = data[k].ref + (IF k = root[g] THEN 1 ELSE 0)
                                            - (IF k = root[h] THEN 1 ELSE 0)
  BY DEF Taken
<1>1. PICK j \in TreeIds \cup {NoValue} : j = root[g]
  BY TreeCounts
<1>2. PICK e \in Shown : e = expected[g]
  BY DEF TreeInv, TreeTypes
<1>3. Shows(g, j, data, e)
  BY <1>1, <1>2 DEF TreeInv
<1>4. Shows(h, j, nodes, e)
  BY <1>0, <1>1, <1>3 DEF Shows
<1>5. \A k \in TreeIds : k = root[g] => data[k].ref < MaxRef
  BY TreeConstants DEF Json!CanRef
<1>6. ASSUME NEW k \in TreeIds
      PROVE  /\ Whole(nodes[k])
             /\ nodes[k].ref >= TreeCount(k) + (IF k = j THEN 1 ELSE 0) - (IF k = root[h] THEN 1 ELSE 0)
  <2>1. TreeCount(k) \in Nat /\ TreeCount(k) <= data[k].ref /\ data[k].ref \in 0 .. MaxRef /\ Whole(data[k])
    BY TreeCounts DEF TreeInv, Whole
  <2>2. (root[h] = k => data[k].ref >= 1) /\ (k = root[g] => data[k].ref < MaxRef)
    BY <1>5, TreeCounts
  <2>3. nodes[k].ref \in 0 .. MaxRef
    <3>1. PICK r \in 0 .. MaxRef : r = data[k].ref
      BY <2>1
    <3>2. \/ nodes[k].ref = r + (IF k = root[g] THEN 1 ELSE 0)
          \/ nodes[k].ref = r + (IF k = root[g] THEN 1 ELSE 0) - (IF k = root[h] THEN 1 ELSE 0)
      BY <1>0, <3>1
    <3>3. (root[h] = k => r >= 1) /\ (k = root[g] => r < MaxRef) /\ MaxRef \in Nat
      BY <2>2, <3>1, TreeConstants
    <3> QED BY <3>2, <3>3
  <2>4. nodes[k].ref >= TreeCount(k) + (IF k = j THEN 1 ELSE 0) - (IF k = root[h] THEN 1 ELSE 0)
    BY <1>0, <1>1, <2>1, TreeConstants
  <2>5. Whole(nodes[k])
    BY <1>0, <2>1, <2>3 DEF Whole
  <2> QED BY <2>4, <2>5
<1>7. Json!Leave([root EXCEPT ![h] = j], nodes) /\ expected' = [expected EXCEPT ![h] = e]
  BY <1>1, <1>2
<1>8. \A k \in TreeIds : nodes[k].items = data[k].items /\ nodes[k].type = data[k].type
  BY <1>0
<1>9. \A k \in TreeIds :
       /\ Whole(nodes[k])
       /\ nodes[k].ref >= TreeCount(k) + (IF k = j THEN 1 ELSE 0) - (IF k = root[h] THEN 1 ELSE 0)
  BY <1>6
<1>10. Leaving(h, j, nodes, e)
  BY Zenon, <1>0, <1>4, <1>7, <1>8, <1>9 DEF Leaving
<1> QED BY <1>10, TreeLeave

\* h has a new node i, of items s.
Making(h, i, nodes, t, s) ==
  /\ i \in Json!FirstFree /\ nodes \in [TreeIds -> TreeNodes]
  /\ Json!Leave([root EXCEPT ![h] = i], nodes)
  /\ expected' = [expected EXCEPT ![h] = Json!Content(t, s)]
  /\ t \in {"Array", "Object"} /\ Fits(h, t) /\ s \in Seq(Json!AllItems) /\ Len(s) <= MaxItems
  /\ nodes[i].ref = 1 /\ nodes[i].size \in {-1, Len(s)} /\ nodes[i].items = s /\ nodes[i].type = t
  /\ \A k \in TreeIds \ {i} :
       /\ nodes[k].items = data[k].items /\ nodes[k].type = data[k].type
       /\ nodes[k].size \in {-1, Len(data[k].items)}
       /\ nodes[k].ref = data[k].ref - (IF k = root[h] THEN 1 ELSE 0)

LEMMA TreeMakes ==
  ASSUME TreeInv, NEW h \in Json!Holders, NEW i, NEW nodes, NEW t, NEW s, Making(h, i, nodes, t, s)
  PROVE  TreeInv'
<1>1. i \in TreeIds /\ \A g \in Json!Holders : root[g] # i
  BY DEF Making, Json!FirstFree, Json!FreeIds, Json!PointTo
<1>2. TreeCount(i) = 0 /\ i # root[h] /\ i # NoValue
  BY <1>1, TreeConstants, CountOf DEF TreeCount
<1> DEFINE e == Json!Content(t, s)
<1>3. e \in Shown /\ e.items = s /\ e.type = t
  BY DEF Json!Content, Making, Shown
<1>4. Shows(h, i, nodes, e)
  BY <1>2, <1>3 DEF Shows, Making
<1> HIDE DEF e
<1>5. ASSUME NEW k \in TreeIds
      PROVE  /\ Whole(nodes[k])
             /\ nodes[k].ref >= TreeCount(k) + (IF k = i THEN 1 ELSE 0) - (IF k = root[h] THEN 1 ELSE 0)
  <2>1. CASE k = i
    <3>1. nodes[i].ref = 1 /\ nodes[i].size \in {-1, Len(nodes[i].items)} /\ Len(nodes[i].items) <= MaxItems
      BY DEF Making
    <3>2. Whole(nodes[i])
      BY <3>1, TreeConstants DEF Whole
    <3> QED BY <1>2, <2>1, <3>1, <3>2
  <2>2. CASE k # i
    <3>1. TreeCount(k) \in Nat /\ TreeCount(k) <= data[k].ref /\ data[k].ref \in 0 .. MaxRef /\ Whole(data[k])
      BY TreeCounts DEF TreeInv, Whole
    <3>2. root[h] = k => data[k].ref >= 1
      BY TreeCounts
    <3>3. /\ nodes[k].items = data[k].items /\ nodes[k].size \in {-1, Len(data[k].items)}
          /\ nodes[k].ref = data[k].ref - (IF k = root[h] THEN 1 ELSE 0)
      BY <2>2 DEF Making
    <3>4. nodes[k].ref \in 0 .. MaxRef
      BY <3>1, <3>2, <3>3, TreeConstants
    <3>5. Whole(nodes[k])
      BY <3>1, <3>3, <3>4 DEF Whole
    <3> QED BY <2>2, <3>1, <3>3, <3>5
  <2> QED BY <2>1, <2>2
<1>6. ASSUME NEW k \in TreeIds, NEW g \in Json!Holders \ {h}, root[g] = k
      PROVE  nodes[k].items = data[k].items /\ nodes[k].type = data[k].type
  BY <1>1, <1>6 DEF Making
<1>7. /\ i \in TreeIds \cup {NoValue} /\ nodes \in [TreeIds -> TreeNodes]
      /\ Json!Leave([root EXCEPT ![h] = i], nodes) /\ expected' = [expected EXCEPT ![h] = e]
  BY <1>1 DEF Making, e
<1>8. Leaving(h, i, nodes, e)
  BY <1>3, <1>4, <1>5, <1>6, <1>7 DEF Leaving
<1> QED BY <1>8, TreeLeave

LEMMA TreeMade ==
  ASSUME NEW t \in {"Array", "Object"}, NEW s \in Seq(Json!AllItems), NEW n \in Int
  PROVE  LET m == Json!Made(t, s, n) IN
         m \in TreeNodes /\ m.ref = 1 /\ m.size = n /\ m.items = s /\ m.type = t
BY DEF Json!Made, TreeNodes

\* detach(), and the change.
LEMMA TreeChange ==
  ASSUME TreeInv, NEW h \in ArrayHolders \cup ObjectHolders, NEW t \in {"Array", "Object"}, Fits(h, t),
         NEW asked \in BOOLEAN, NEW s \in Seq(Json!AllItems), NEW more \in Int,
         Len(s) <= MaxItems, root[h] # NoValue => Len(s) = Len(data[root[h]].items) + more,
         Json!Change(h, t, asked, s, more), expected' = [expected EXCEPT ![h] = Json!Content(t, s)]
  PROVE  TreeInv'
<1> DEFINE old == root[h]
           size == IF asked THEN Json!SizeOf(h) ELSE data[old].size
           plus == Json!SizePlus(size, more)
<1>1. h \in Json!Holders
  BY DEF Json!Holders
<1>2. old \in TreeIds \cup {NoValue} /\ data \in [TreeIds -> TreeNodes]
  BY <1>1 DEF TreeInv, TreeTypes
<1>3. old # NoValue => /\ data[old] \in TreeNodes /\ data[old].ref \in Int /\ Len(data[old].items) \in Nat
                       /\ data[old].size \in {-1, Len(data[old].items)}
  <2>1. old # NoValue => data[old] \in TreeNodes /\ Whole(data[old])
    BY <1>2 DEF TreeInv
  <2> QED BY <2>1 DEF TreeNodes, Whole
<1>4. old # NoValue => size \in {-1, Len(data[old].items)} /\ plus \in {-1, Len(s)}
  <2>1. old # NoValue => size \in {-1, Len(data[old].items)}
    BY <1>3 DEF Json!SizeOf
  <2> HIDE DEF size
  <2>2. Len(s) \in Nat
    OBVIOUS
  <2> QED BY <1>3, <2>1, <2>2 DEF Json!SizePlus
<1> HIDE DEF size, plus
<1>5. CASE old = NoValue
  <2>1. PICK i \in Json!FirstFree : Json!Leave([root EXCEPT ![h] = i], [data EXCEPT ![i] = Json!Made(t, s, -1)])
    BY <1>5 DEF Json!Change
  <2>2. i \in TreeIds
    BY DEF Json!FirstFree, Json!FreeIds
  <2> DEFINE m == Json!Made(t, s, -1)
             nodes == [data EXCEPT ![i] = m]
  <2>3. m \in TreeNodes /\ m.ref = 1 /\ m.size = -1 /\ m.items = s /\ m.type = t
    BY TreeMade
  <2> HIDE DEF m
  <2>4. nodes \in [TreeIds -> TreeNodes] /\ nodes[i] = m /\ \A k \in TreeIds \ {i} : nodes[k] = data[k]
    BY <1>2, <2>2, <2>3
  <2>5. Json!Leave([root EXCEPT ![h] = i], nodes)
    BY <2>1 DEF m
  <2> HIDE DEF nodes
  <2>6. ASSUME NEW k \in TreeIds \ {i}
        PROVE  /\ nodes[k].items = data[k].items /\ nodes[k].type = data[k].type
               /\ nodes[k].size \in {-1, Len(data[k].items)}
               /\ nodes[k].ref = data[k].ref - (IF k = root[h] THEN 1 ELSE 0)
    <3>1. Whole(data[k]) /\ k # root[h] /\ data[k].ref \in Int
      BY <1>5, TreeConstants DEF TreeInv, TreeTypes, TreeNodes
    <3> QED BY <2>4, <3>1 DEF Whole
  <2>7. Making(h, i, nodes, t, s)
    BY <2>3, <2>4, <2>5, <2>6 DEF Making
  <2> QED BY <1>1, <2>7, TreeMakes
<1>6. CASE old # NoValue /\ Json!Alone(data[old])
  <2>1. /\ data' = [data EXCEPT ![old].items = s, ![old].size = plus]
        /\ root' = root
    <3>1. /\ data' = [data EXCEPT ![root[h]].items = s,
                        ![root[h]].size = Json!SizePlus(IF asked THEN Json!SizeOf(h) ELSE data[root[h]].size, more)]
          /\ UNCHANGED root
      BY <1>6 DEF Json!Change
    <3> QED BY <3>1 DEF size, plus
  <2>2. old \in TreeIds /\ data[old].ref = 1 /\ plus \in {-1, Len(s)} /\ plus \in Int
    BY <1>2, <1>4, <1>6 DEF Json!Alone
  <2>3. \A g \in Json!Holders : root[g] = old => g = h
    BY <1>1, <2>2, TreeCounts
  <2>4. Shows(h, old, data, expected[h])
    BY <1>1 DEF TreeInv
  <2>5. data[old].type = t
    BY <1>6, <2>4 DEF Shows, Fits
  <2> HIDE DEF old
  <2>6. PICK m \in TreeNodes : m = data[old]
    BY <1>2, <2>2
  <2>7. [m EXCEPT !.items = s, !.size = plus] \in TreeNodes
    BY <2>2 DEF TreeNodes
  <2>8. data' = [data EXCEPT ![old] = [m EXCEPT !.items = s, !.size = plus]]
    BY <1>2, <2>1, <2>2, <2>6
  <2>9. /\ data' \in [TreeIds -> TreeNodes]
        /\ \A k \in TreeIds \ {old} : data'[k] = data[k]
        /\ data'[old].items = s /\ data'[old].size = plus /\ data'[old].ref = 1 /\ data'[old].type = t
    <3>1. data'[old] = [m EXCEPT !.items = s, !.size = plus] /\ data' \in [TreeIds -> TreeNodes]
      BY <1>2, <2>2, <2>7, <2>8
    <3>2. m.ref = 1 /\ m.type = t
      BY <2>2, <2>5, <2>6
    <3> QED BY <1>2, <2>8, <3>1, <3>2 DEF TreeNodes
  <2>10. ASSUME NEW g \in Json!Holders PROVE Shows(g, root[g], data', expected'[g])
    <3> DEFINE e == Json!Content(t, s)
    <3>1. expected'[h] = e /\ (g # h => expected'[g] = expected[g]) /\ e.items = s /\ e.type = t
      BY <1>1 DEF TreeInv, TreeTypes, Json!Content
    <3> HIDE DEF e
    <3>2. CASE g = h
      BY <1>6, <2>9, <3>1, <3>2 DEF Shows, old
    <3>3. CASE g # h
      <4>1. root[g] # old /\ root[g] \in TreeIds \cup {NoValue}
        BY <2>3, <3>3 DEF TreeInv, TreeTypes
      <4> QED BY <2>9, <3>1, <3>3, <4>1 DEF TreeInv, Shows
    <3> QED BY <3>2, <3>3
  <2>11. expected' \in [Json!Holders -> Shown]
    <3>1. Json!Content(t, s) \in Shown
      BY DEF Json!Content, Shown
    <3> QED BY <3>1 DEF TreeInv, TreeTypes
  <2>12. TreeTypes'
    BY <2>1, <2>9, <2>11 DEF TreeInv, TreeTypes
  <2>13. ASSUME NEW k \in TreeIds PROVE TreeCount(k) <= data'[k].ref /\ Whole(data'[k])
    <3>1. CASE k = old
      <4>1. TreeCount(k) <= 1
        BY <2>2, <3>1 DEF TreeInv
      <4>2. Whole(data'[old])
        BY <2>2, <2>9, TreeConstants DEF Whole
      <4> QED BY <2>9, <3>1, <4>1, <4>2
    <3>2. CASE k # old
      BY <2>9, <3>2 DEF TreeInv
    <3> QED BY <3>1, <3>2
  <2>14. \A k \in TreeIds : TreeCount(k)' = TreeCount(k)
    BY <2>1 DEF TreeCount, Having
  <2>15. \A g \in Json!Holders : Shows(g, root[g], data, expected[g])'
    BY <2>1, <2>10 DEF Shows, Fits
  <2>16. \A k \in TreeIds : (TreeCount(k) <= data[k].ref /\ Whole(data[k]))'
    BY <2>13, <2>14 DEF Whole
  <2> QED BY <2>12, <2>15, <2>16 DEF TreeInv
<1>7. CASE old # NoValue /\ ~Json!Alone(data[old])
  <2>1. PICK i \in Json!FirstFree :
          Json!Leave([root EXCEPT ![h] = i],
                     [data EXCEPT ![old].size = size, ![old].ref = @ - 1, ![i] = Json!Made(t, s, plus)])
    <3>1. \E i \in Json!FirstFree :
            Json!Leave([root EXCEPT ![h] = i],
                       [data EXCEPT ![root[h]].size = IF asked THEN Json!SizeOf(h) ELSE data[root[h]].size,
                                    ![root[h]].ref = @ - 1,
                                    ![i] = Json!Made(t, s, Json!SizePlus(IF asked THEN Json!SizeOf(h) ELSE data[root[h]].size, more))])
      BY Zenon, <1>7 DEF Json!Change
    <3> QED BY <3>1 DEF size, plus
  <2>2. i \in TreeIds /\ i # old /\ old \in TreeIds /\ plus \in Int /\ size \in Int
    BY <1>1, <1>2, <1>3, <1>4, <1>7 DEF Json!FirstFree, Json!FreeIds, Json!PointTo
  <2> DEFINE m == Json!Made(t, s, plus)
             o == [data[old] EXCEPT !.size = size, !.ref = @ - 1]
             nodes == [[data EXCEPT ![old] = o] EXCEPT ![i] = m]
  <2>3. m \in TreeNodes /\ m.ref = 1 /\ m.size = plus /\ m.items = s /\ m.type = t
    BY <2>2, TreeMade
  <2>4. /\ o \in TreeNodes /\ o.items = data[old].items /\ o.type = data[old].type
        /\ o.size = size /\ o.ref = data[old].ref - 1
    <3>1. PICK n \in TreeNodes : n = data[old]
      BY <1>3, <1>7
    <3>2. n.ref - 1 \in Int /\ size \in Int
      BY <2>2 DEF TreeNodes
    <3>3. o = [n EXCEPT !.size = size, !.ref = n.ref - 1]
      BY <3>1
    <3> HIDE DEF o
    <3> QED BY <3>1, <3>2, <3>3 DEF TreeNodes
  <2>5. [data EXCEPT ![old].size = size, ![old].ref = @ - 1, ![i] = Json!Made(t, s, plus)] = nodes
    BY <1>2, <2>2
  <2> HIDE DEF m, o
  <2>6. /\ nodes \in [TreeIds -> TreeNodes] /\ nodes[i] = m /\ nodes[old] = o
        /\ \A k \in TreeIds \ {i, old} : nodes[k] = data[k]
    BY <1>2, <2>2, <2>3, <2>4
  <2>7. Json!Leave([root EXCEPT ![h] = i], nodes)
    BY <2>1, <2>5 DEF m
  <2> HIDE DEF nodes
  <2>8. ASSUME NEW k \in TreeIds \ {i}
        PROVE  /\ nodes[k].items = data[k].items /\ nodes[k].type = data[k].type
               /\ nodes[k].size \in {-1, Len(data[k].items)}
               /\ nodes[k].ref = data[k].ref - (IF k = root[h] THEN 1 ELSE 0)
    <3>1. CASE k = old
      BY <1>4, <1>7, <2>4, <2>6, <3>1
    <3>2. CASE k # old
      <4>1. Whole(data[k]) /\ nodes[k] = data[k] /\ data[k].ref \in Int
        BY <2>6, <3>2 DEF TreeInv, TreeTypes, TreeNodes
      <4> QED BY <3>2, <4>1 DEF Whole
    <3> QED BY <3>1, <3>2
  <2>9. Making(h, i, nodes, t, s)
    BY <1>4, <1>7, <2>1, <2>3, <2>6, <2>7, <2>8 DEF Making
  <2> QED BY <1>1, <2>9, TreeMakes
<1> QED BY <1>5, <1>6, <1>7

LEMMA TreeRefs ==
  ASSUME TreeInv, NEW j, j \in TreeIds \cup {NoValue}, NEW o, o \in TreeIds \cup {NoValue}
  PROVE  /\ Taken(Json!RefIn(data, j), j, o) /\ Taken(Json!DerefIn(Json!RefIn(data, j), o), j, o)
         /\ Taken(Json!RefIn(Json!DerefIn(data, o), j), j, o)
<1>1. data \in [TreeIds -> TreeNodes] /\ \A k \in TreeIds : data[k].ref \in Int
  BY DEF TreeInv, TreeTypes, TreeNodes
<1>2. PICK m : m = Json!RefIn(data, j)
  OBVIOUS
<1>3. PICK n : n = Json!DerefIn(data, o)
  OBVIOUS
<1>4. Counted(data, m, j, 1) /\ Counted(data, n, o, -1)
  BY Zenon, <1>1, <1>2, <1>3, TreeCounted
<1>5. m \in [TreeIds -> TreeNodes] /\ n \in [TreeIds -> TreeNodes]
  BY <1>4 DEF Counted
<1>6. Counted(m, Json!DerefIn(m, o), o, -1) /\ Counted(n, Json!RefIn(n, j), j, 1)
  BY Zenon, <1>5, TreeCounted
<1>7. Taken(m, j, o)
  BY <1>4 DEF Counted, Taken
<1>8. PICK p : p = Json!DerefIn(m, o)
  OBVIOUS
<1>9. PICK q : q = Json!RefIn(n, j)
  OBVIOUS
<1>10. Taken(p, j, o)
  BY <1>1, <1>4, <1>6, <1>8 DEF Counted, Taken
<1>11. Taken(q, j, o)
  BY <1>1, <1>4, <1>6, <1>9 DEF Counted, Taken
<1> QED BY Zenon, <1>2, <1>3, <1>7, <1>8, <1>9, <1>10, <1>11

LEMMA TreeFits ==
  ASSUME TreeInv, NEW g \in Json!Holders, root[g] # NoValue
  PROVE  Fits(g, data[root[g]].type)
BY DEF TreeInv, Shows

LEMMA TreePairs ==
  ASSUME TreeInv, NEW h \in Json!Holders, NEW g \in Json!Holders,
         \/ Json!Copy(h, g) \/ Json!Assign(h, g) \/ Json!SetRoot(h, g)
         \/ Json!SetValue(h, g) \/ Json!ToContainer(h, g)
  PROVE  TreeInv'
<1> DEFINE j == root[g]
           o == root[h]
<1>1. j \in TreeIds \cup {NoValue} /\ o \in TreeIds \cup {NoValue} /\ (j # NoValue => Fits(g, data[j].type))
  BY TreeCounts, TreeFits
<1>2. \E nodes \in {Json!RefIn(data, j), Json!DerefIn(Json!RefIn(data, j), o), Json!RefIn(Json!DerefIn(data, o), j)} :
        /\ Json!Leave([root EXCEPT ![h] = j], nodes) /\ Json!CanRef(j)
        /\ expected' = [expected EXCEPT ![h] = expected[g]]
  BY DEF Json!Copy, Json!Assign, Json!SetRoot, Json!SetValue, Json!ToContainer
<1>3. ASSUME j # NoValue PROVE Fits(h, data[j].type)
  <2>1. CASE Json!Copy(h, g)
    BY <1>1, <1>3, <2>1, TreeConstants DEF Json!Copy, Fits
  <2>2. CASE Json!Assign(h, g)
    BY <1>1, <1>3, <2>2, TreeConstants DEF Json!Assign, Fits
  <2>3. CASE Json!SetRoot(h, g)
    BY <1>1, <1>3, <2>3, TreeConstants DEF Json!SetRoot, Fits
  <2>4. CASE Json!SetValue(h, g)
    BY <1>1, <1>3, <2>4, TreeConstants DEF Json!SetValue, Fits
  <2>5. CASE Json!ToContainer(h, g)
    BY <1>1, <1>3, <2>5, TreeConstants DEF Json!ToContainer, Json!Kind, Fits
  <2> QED BY <2>1, <2>2, <2>3, <2>4, <2>5
<1>4. PICK nodes \in {Json!RefIn(data, j), Json!DerefIn(Json!RefIn(data, j), o), Json!RefIn(Json!DerefIn(data, o), j)} :
        /\ Json!Leave([root EXCEPT ![h] = j], nodes) /\ Json!CanRef(j)
        /\ expected' = [expected EXCEPT ![h] = expected[g]]
  BY <1>2
<1>5. Taken(nodes, j, o)
  BY Zenon, <1>1, <1>4, TreeRefs
<1> QED BY Zenon, <1>3, <1>4, <1>5, TreeTakes

\* h and g exchange what they have.
LEMMA TreeSwap ==
  ASSUME TreeInv, NEW h \in Json!Holders, NEW g \in Json!Holders, Json!Swap(h, g)
  PROVE  TreeInv'
<1> DEFINE between == [root EXCEPT ![h] = root[g]]
<1>1. /\ h # g /\ UNCHANGED data
      /\ root' = [root EXCEPT ![h] = root[g], ![g] = root[h]]
      /\ expected' = [expected EXCEPT ![h] = expected[g], ![g] = expected[h]]
      /\ \A t : Fits(h, t) <=> Fits(g, t)
  BY TreeConstants DEF Json!Swap, Fits
<1>2. /\ root \in [Json!Holders -> TreeIds \cup {NoValue}] /\ expected \in [Json!Holders -> Shown]
      /\ \A f \in Json!Holders : Shows(f, root[f], data, expected[f])
  BY DEF TreeInv, TreeTypes
<1>3. /\ root' \in [Json!Holders -> TreeIds \cup {NoValue}] /\ root'[h] = root[g] /\ root'[g] = root[h]
      /\ \A f \in Json!Holders \ {h, g} : root'[f] = root[f]
      /\ between[h] = root[g] /\ between[g] = root[g]
      /\ (\A f \in Json!Holders \ {h} : between[f] = root[f])
      /\ (\A f \in Json!Holders \ {g} : root'[f] = between[f])
  BY <1>1, <1>2
<1>4. /\ expected' \in [Json!Holders -> Shown] /\ expected'[h] = expected[g] /\ expected'[g] = expected[h]
      /\ \A f \in Json!Holders \ {h, g} : expected'[f] = expected[f]
  BY <1>1, <1>2
<1> HIDE DEF between
<1>5. ASSUME NEW f \in Json!Holders PROVE Shows(f, root'[f], data', expected'[f])
  <2>1. CASE f = h
    BY <1>1, <1>2, <1>3, <1>4, <2>1 DEF Shows
  <2>2. CASE f = g
    BY <1>1, <1>2, <1>3, <1>4, <2>2 DEF Shows
  <2>3. CASE f # h /\ f # g
    BY <1>1, <1>2, <1>3, <1>4, <2>3
  <2> QED BY <2>1, <2>2, <2>3
<1>6. ASSUME NEW k \in TreeIds PROVE TreeCount(k)' = TreeCount(k)
  <2> DEFINE c == Cardinality(Having(Json!Holders, root, k))
             b == Cardinality(Having(Json!Holders, between, k))
             n == Cardinality(Having(Json!Holders, root', k))
  <2>1. TreeCount(k) = c /\ TreeCount(k)' = n
    BY DEF TreeCount, Having
  <2>2. PICK f, mid, next : f = root /\ mid = between /\ next = root'
    OBVIOUS
  <2>3. IsFiniteSet(Json!Holders) /\ (\A l \in Json!Holders \ {h} : mid[l] = f[l])
        /\ (\A l \in Json!Holders \ {g} : next[l] = mid[l])
    BY <1>3, <2>2, TreeConstants
  <2>4. /\ c = Cardinality(Having(Json!Holders, f, k)) /\ b = Cardinality(Having(Json!Holders, mid, k))
        /\ n = Cardinality(Having(Json!Holders, next, k))
    BY <2>2
  <2> HIDE DEF c, b, n
  <2>5. CountStep(Json!Holders, f, mid, h, k) /\ CountStep(Json!Holders, mid, next, g, k)
    BY Zenon, <2>3, CountBy
  <2>6. f[h] = root[h] /\ mid[h] = root[g] /\ mid[g] = root[g] /\ next[g] = root[h]
    BY <1>3, <2>2
  <2>7. c \in Nat /\ b = IF root[h] = k THEN (IF root[g] = k THEN c ELSE c - 1)
                         ELSE (IF root[g] = k THEN c + 1 ELSE c)
    BY <2>4, <2>5, <2>6 DEF CountStep
  <2>8. n = IF root[g] = k THEN (IF root[h] = k THEN b ELSE b - 1)
            ELSE (IF root[h] = k THEN b + 1 ELSE b)
    BY <2>4, <2>5, <2>6 DEF CountStep
  <2> QED BY <2>1, <2>7, <2>8
<1>7. \A f \in Json!Holders : Shows(f, root[f], data, expected[f])'
  BY <1>5 DEF Shows, Fits
<1>8. \A k \in TreeIds : (TreeCount(k) <= data[k].ref /\ Whole(data[k]))'
  BY <1>1, <1>6 DEF TreeInv, Whole
<1>9. TreeTypes'
  BY <1>1, <1>3, <1>4 DEF TreeInv, TreeTypes
<1> QED BY <1>7, <1>8, <1>9 DEF TreeInv

LEMMA TreeDestroy ==
  ASSUME TreeInv, NEW h \in Json!Holders, Json!Destroy(h)
  PROVE  TreeInv'
<1> DEFINE nodes == Json!DerefIn(data, root[h])
<1>1. /\ root[h] \in TreeIds /\ Json!Leave([root EXCEPT ![h] = NoValue], nodes)
      /\ expected' = [expected EXCEPT ![h] = Json!Empty]
  BY TreeCounts DEF Json!Destroy
<1>2. data \in [TreeIds -> TreeNodes]
  BY DEF TreeInv, TreeTypes
<1>3. Counted(data, nodes, root[h], -1)
  BY <1>1, <1>2, TreeCounted
<1> HIDE DEF nodes
<1>4. ASSUME NEW k \in TreeIds
      PROVE  /\ Whole(nodes[k])
             /\ nodes[k].ref >= TreeCount(k) + (IF k = NoValue THEN 1 ELSE 0) - (IF k = root[h] THEN 1 ELSE 0)
  <2>1. TreeCount(k) \in Nat /\ TreeCount(k) <= data[k].ref /\ data[k].ref \in 0 .. MaxRef /\ Whole(data[k])
    BY TreeCounts DEF TreeInv, Whole
  <2>2. root[h] = k => data[k].ref >= 1
    BY TreeCounts
  <2>3. /\ nodes[k].items = data[k].items /\ nodes[k].size = data[k].size
        /\ nodes[k].ref = data[k].ref + (IF k = root[h] THEN -1 ELSE 0)
    BY <1>3 DEF Counted
  <2>4. nodes[k].ref \in 0 .. MaxRef /\ nodes[k].ref >= TreeCount(k) - (IF k = root[h] THEN 1 ELSE 0)
    BY <2>1, <2>2, <2>3, TreeConstants
  <2>5. Whole(nodes[k])
    BY <2>1, <2>3, <2>4 DEF Whole
  <2>6. k # NoValue
    BY TreeConstants
  <2> QED BY <2>1, <2>4, <2>5, <2>6
<1>5. Shows(h, NoValue, nodes, Json!Empty) /\ Json!Empty \in Shown
  BY TreeNothing DEF Shows
<1>6. Leaving(h, NoValue, nodes, Json!Empty)
  BY <1>1, <1>3, <1>4, <1>5 DEF Leaving, Counted
<1> QED BY <1>6, TreeLeave

LEMMA TreeSize ==
  ASSUME TreeInv, NEW h \in Json!Holders, Json!Size(h)
  PROVE  TreeInv'
<1> DEFINE old == root[h]
           size == IF data[old].size = -1 THEN Len(data[old].items) ELSE data[old].size
<1>1. /\ old \in TreeIds /\ UNCHANGED <<root, expected>>
      /\ data' = [data EXCEPT ![old].size = size]
  BY TreeCounts DEF Json!Size
<1>2. data \in [TreeIds -> TreeNodes] /\ Whole(data[old])
  BY <1>1 DEF TreeInv, TreeTypes
<1>3. PICK m \in TreeNodes : m = data[old]
  BY <1>1, <1>2
<1>4. size \in Int /\ size \in {-1, Len(m.items)}
  BY <1>2, <1>3 DEF Whole, TreeNodes
<1> HIDE DEF size
<1> DEFINE c == [m EXCEPT !.size = size]
<1>5. c \in TreeNodes /\ c.items = m.items /\ c.type = m.type /\ c.size = size /\ c.ref = m.ref
  BY <1>4 DEF TreeNodes
<1>6. data' = [data EXCEPT ![old] = c]
  BY <1>1, <1>2, <1>3
<1> HIDE DEF old, c
<1>7. /\ data' \in [TreeIds -> TreeNodes]
      /\ \A k \in TreeIds : /\ data'[k].items = data[k].items /\ data'[k].type = data[k].type
                            /\ data'[k].ref = data[k].ref
                            /\ data'[k].size \in {-1, Len(data[k].items)}
  <2>1. \A k \in TreeIds : data[k].size \in {-1, Len(data[k].items)}
    BY DEF TreeInv, Whole
  <2> QED BY <1>1, <1>2, <1>3, <1>4, <1>5, <1>6, <2>1
<1>8. \A k \in TreeIds : TreeCount(k)' = TreeCount(k)
  BY <1>1 DEF TreeCount, Having
<1>9. \A k \in TreeIds : (TreeCount(k) <= data[k].ref /\ Whole(data[k]))'
  BY <1>7, <1>8 DEF TreeInv, Whole
<1>10. \A g \in Json!Holders : Shows(g, root[g], data, expected[g])'
  BY <1>1, <1>7 DEF TreeInv, TreeTypes, Shows, Fits
<1>11. TreeTypes'
  BY <1>1, <1>7 DEF TreeInv, TreeTypes
<1> QED BY <1>9, <1>10, <1>11 DEF TreeInv

LEMMA TreeSetEmptyRoot ==
  ASSUME TreeInv, NEW h \in Json!Holders, NEW t \in {"Array", "Object"}, Json!SetEmptyRoot(h, t)
  PROVE  TreeInv'
<1> DEFINE n == Json!DerefIn(data, root[h])
           m == Json!Made(t, <<>>, -1)
<1>1. PICK i \in Json!FirstFree : Json!Leave([root EXCEPT ![h] = i], [n EXCEPT ![i] = m])
  BY DEF Json!SetEmptyRoot
<1>2. /\ i \in TreeIds /\ h \in DocumentHolders /\ <<>> \in Seq(Json!AllItems)
      /\ expected' = [expected EXCEPT ![h] = Json!Content(t, <<>>)]
      /\ data \in [TreeIds -> TreeNodes] /\ root[h] \in TreeIds \cup {NoValue}
  BY DEF Json!SetEmptyRoot, Json!FirstFree, Json!FreeIds, TreeInv, TreeTypes
<1>3. Counted(data, n, root[h], -1)
  BY <1>2, TreeCounted
<1>4. m \in TreeNodes /\ m.ref = 1 /\ m.size = -1 /\ m.items = <<>> /\ m.type = t
  BY <1>2 DEF Json!Made, TreeNodes
<1> DEFINE nodes == [n EXCEPT ![i] = m]
<1> HIDE DEF n, m
<1>5. nodes \in [TreeIds -> TreeNodes] /\ nodes[i] = m /\ \A k \in TreeIds \ {i} : nodes[k] = n[k]
  BY <1>2, <1>3, <1>4 DEF Counted
<1>6. ASSUME NEW k \in TreeIds \ {i}
      PROVE  /\ nodes[k].items = data[k].items /\ nodes[k].type = data[k].type
             /\ nodes[k].size \in {-1, Len(data[k].items)}
             /\ nodes[k].ref = data[k].ref - (IF k = root[h] THEN 1 ELSE 0)
  <2>1. data[k].size \in {-1, Len(data[k].items)} /\ data[k].ref \in Int
    BY <1>2 DEF TreeInv, Whole, TreeNodes
  <2>2. nodes[k] = n[k]
    BY <1>5
  <2> HIDE DEF nodes
  <2> QED BY <1>3, <2>1, <2>2 DEF Counted
<1>7. Json!Leave([root EXCEPT ![h] = i], nodes)
  BY <1>1
<1>8. Fits(h, t) /\ Len(<<>>) <= MaxItems
  BY <1>2, TreeConstants DEF Fits
<1> HIDE DEF nodes
<1>9. Making(h, i, nodes, t, <<>>)
  BY <1>1, <1>2, <1>4, <1>5, <1>6, <1>7, <1>8 DEF Making
<1> QED BY <1>9, TreeMakes

LEMMA TreeInsert ==
  ASSUME NEW T, NEW s \in Seq(T), NEW i \in 1 .. Len(s) + 1, NEW e \in T
  PROVE  Json!InsertAt(s, i, e) \in Seq(T) /\ Len(Json!InsertAt(s, i, e)) = Len(s) + 1
<1> DEFINE before == SubSeq(s, 1, i - 1)
           behind == SubSeq(s, i, Len(s))
<1>1. before \in Seq(T) /\ Len(before) = i - 1
  BY SubSeqProperties
<1>2. behind \in Seq(T) /\ Len(behind) = Len(s) - i + 1
  BY SubSeqProperties
<1>3. <<e>> \in Seq(T) /\ Len(<<e>>) = 1
  OBVIOUS
<1>4. Json!InsertAt(s, i, e) = before \o <<e>> \o behind
  BY DEF Json!InsertAt
<1> HIDE DEF before, behind
<1>5. before \o <<e>> \in Seq(T) /\ Len(before \o <<e>>) = i
  BY <1>1, <1>3
<1> DEFINE first == before \o <<e>>
<1> HIDE DEF first
<1>6. first \in Seq(T) /\ Len(first) = i /\ Json!InsertAt(s, i, e) = first \o behind
  BY <1>4, <1>5 DEF first
<1>7. first \o behind \in Seq(T) /\ Len(first \o behind) = Len(first) + Len(behind)
  BY <1>2, <1>6
<1>8. Len(s) \in Nat /\ i \in Int
  OBVIOUS
<1> QED BY <1>2, <1>6, <1>7, <1>8

LEMMA TreeRemove ==
  ASSUME NEW T, NEW s \in Seq(T), NEW i \in 1 .. Len(s)
  PROVE  Json!RemoveAt(s, i) \in Seq(T) /\ Len(Json!RemoveAt(s, i)) = Len(s) - 1
<1> DEFINE before == SubSeq(s, 1, i - 1)
           behind == SubSeq(s, i + 1, Len(s))
<1>1. before \in Seq(T) /\ Len(before) = i - 1
  BY SubSeqProperties
<1>2. behind \in Seq(T) /\ Len(behind) = Len(s) - i
  BY SubSeqProperties
<1>3. Json!RemoveAt(s, i) = before \o behind
  BY DEF Json!RemoveAt
<1> HIDE DEF before, behind
<1> QED BY <1>1, <1>2, <1>3

LEMMA LeastOf ==
  ASSUME NEW S, S \subseteq Nat, S # {}
  PROVE  \E x \in S : \A y \in S : x <= y
<1> SUFFICES ASSUME \A x \in S : \E y \in S : ~(x <= y) PROVE FALSE
  OBVIOUS
<1> DEFINE below == {i \in Nat : \A y \in S : i <= y}
<1>1. below \in SUBSET Nat /\ 0 \in below
  OBVIOUS
<1>2. \A i \in below : i + 1 \in below
  OBVIOUS
<1> HIDE DEF below
<1>3. below = Nat
  BY <1>1, <1>2, Induction
<1>4. PICK y \in S : TRUE
  OBVIOUS
<1>5. y + 1 \in below
  BY <1>3
<1> QED BY <1>5 DEF below

LEMMA TreeKey ==
  ASSUME NEW s \in Seq(Json!AllItems), NEW key
  PROVE  Json!KeyAt(s, key) \in 0 .. Len(s)
<1> DEFINE I == {i \in 1 .. Len(s) : s[i].key = key}
<1>1. Json!KeyAt(s, key) = IF I # {} THEN Json!Min(I) ELSE 0
  BY DEF Json!KeyAt, Json!SelectInSeq
<1>2. I \subseteq 1 .. Len(s)
  OBVIOUS
<1> HIDE DEF I
<1>3. ASSUME I # {} PROVE Json!Min(I) \in I
  <2>1. I \subseteq Nat
    BY <1>2
  <2>2. \E x \in I : \A y \in I : x <= y
    BY Zenon, <1>3, <2>1, LeastOf
  <2> QED BY <2>2 DEF Json!Min
<1>4. CASE I = {}
  BY <1>1, <1>4
<1>5. CASE I # {}
  <2>1. Json!KeyAt(s, key) \in I
    BY <1>1, <1>3, <1>5
  <2>2. Json!KeyAt(s, key) \in 1 .. Len(s)
    BY <1>2, <2>1
  <2> QED BY <2>2
<1> QED BY <1>4, <1>5

LEMMA TreeItems ==
  ASSUME TreeInv, NEW h \in ArrayHolders \cup ObjectHolders
  PROVE  /\ h \in Json!Holders /\ Json!ItemsOf(h) \in Seq(Json!AllItems)
         /\ expected[h].items = Json!ItemsOf(h)
         /\ root[h] = NoValue => Json!ItemsOf(h) = <<>> /\ Json!SizeOf(h) = 0
         /\ root[h] # NoValue => Json!ItemsOf(h) = data[root[h]].items
         /\ Json!SizeOf(h) = Len(Json!ItemsOf(h)) /\ Len(Json!ItemsOf(h)) <= MaxItems
         /\ \A s : root[h] # NoValue /\ h \in ArrayHolders =>
              [expected EXCEPT ![h].items = s] = [expected EXCEPT ![h] = Json!Content("Array", s)]
<1>1. h \in Json!Holders
  BY DEF Json!Holders
<1>2. Shows(h, root[h], data, expected[h]) /\ expected[h] \in Shown /\ root[h] \in TreeIds \cup {NoValue}
  BY <1>1 DEF TreeInv, TreeTypes
<1>3. root[h] # NoValue => Whole(data[root[h]]) /\ data[root[h]] \in TreeNodes
  BY <1>2 DEF TreeInv, TreeTypes
<1>4. CASE root[h] = NoValue
  <2>1. Json!ItemsOf(h) = <<>> /\ Json!SizeOf(h) = 0 /\ expected[h].items = <<>>
    BY <1>2, <1>4 DEF Json!ItemsOf, Json!SizeOf, Shows
  <2> QED BY <1>1, <1>4, <2>1, TreeConstants
<1>5. CASE root[h] # NoValue
  <2>1. Json!ItemsOf(h) = data[root[h]].items
    BY <1>5 DEF Json!ItemsOf
  <2>2. /\ expected[h].items = data[root[h]].items /\ data[root[h]].items \in Seq(Json!AllItems)
        /\ (h \in ArrayHolders => expected[h].type = "Array")
    BY <1>2, <1>3, <1>5 DEF Shows, Fits, TreeNodes
  <2>3. Json!SizeOf(h) = Len(data[root[h]].items) /\ Len(data[root[h]].items) <= MaxItems
    BY <1>3, <1>5 DEF Json!SizeOf, Whole
  <2>4. ASSUME NEW s, h \in ArrayHolders
        PROVE  [expected EXCEPT ![h].items = s] = [expected EXCEPT ![h] = Json!Content("Array", s)]
    <3>1. PICK e \in Shown : e = expected[h]
      BY <1>2
    <3>2. [e EXCEPT !.items = s] = Json!Content("Array", s)
      BY <2>2, <2>4, <3>1 DEF Shown, Json!Content
    <3>3. [expected EXCEPT ![h].items = s] = [expected EXCEPT ![h] = [e EXCEPT !.items = s]]
      BY <1>1, <3>1 DEF TreeInv, TreeTypes
    <3> QED BY <3>2, <3>3
  <2> QED BY <1>1, <1>5, <2>1, <2>2, <2>3, <2>4
<1> QED BY <1>4, <1>5

LEMMA TreeFitting ==
  /\ \A h \in ArrayHolders : Fits(h, "Array")
  /\ \A h \in ObjectHolders : Fits(h, "Object")
BY TreeConstants DEF Fits

LEMMA TreeArray ==
  ASSUME TreeInv, NEW h \in Json!Holders, NEW at \in 0 .. MaxItems,
         \/ \E val \in JsonItems : Json!insert(h, at, val) \/ Json!replace(h, at, val)
         \/ Json!removeAt(h, at)
  PROVE  TreeInv'
<1>1. h \in ArrayHolders /\ Fits(h, "Array") /\ NoValue \in ItemKeys \cup {NoValue}
  BY TreeFitting DEF Json!insert, Json!replace, Json!removeAt
<1> DEFINE old == Json!ItemsOf(h)
<1>2. /\ old \in Seq(Json!AllItems) /\ expected[h].items = old /\ Json!SizeOf(h) = Len(old)
      /\ Len(old) \in Nat /\ Len(old) <= MaxItems
      /\ root[h] # NoValue => data[root[h]].items = old
  BY <1>1, TreeItems
<1>3. \A s : root[h] # NoValue =>
              [expected EXCEPT ![h].items = s] = [expected EXCEPT ![h] = Json!Content("Array", s)]
  BY <1>1, TreeItems
<1>4. ASSUME NEW s \in Seq(Json!AllItems), NEW more \in Int, Len(s) <= MaxItems,
             root[h] # NoValue => Len(s) = Len(old) + more,
             Json!Change(h, "Array", TRUE, s, more), expected' = [expected EXCEPT ![h] = Json!Content("Array", s)]
      PROVE  TreeInv'
  <2>1. root[h] # NoValue => Len(s) = Len(data[root[h]].items) + more
    BY <1>2, <1>4
  <2> HIDE DEF old
  <2> QED BY <1>1, <1>4, <2>1, TreeChange
<1>5. ASSUME NEW val \in JsonItems, Json!insert(h, at, val) PROVE TreeInv'
  <2> DEFINE s == Json!InsertAt(old, at + 1, Json!Item(NoValue, val))
  <2>1. at \in 0 .. Len(old) /\ Len(old) < MaxItems /\ Json!Change(h, "Array", TRUE, s, 1)
    BY <1>2, <1>5 DEF Json!insert
  <2>2. expected' = [expected EXCEPT ![h] = Json!Content("Array", s)]
    BY <1>1, <1>2, <1>5, TreeItems DEF Json!insert, TreeInv, TreeTypes
  <2>3. Json!Item(NoValue, val) \in Json!AllItems
    BY DEF Json!Item, Json!AllItems
  <2>4. at + 1 \in 1 .. Len(old) + 1
    BY <1>2, <2>1
  <2> HIDE DEF old
  <2>5. s \in Seq(Json!AllItems) /\ Len(s) = Len(old) + 1
    BY <1>2, <2>3, <2>4, TreeInsert
  <2> HIDE DEF s
  <2>6. Len(s) <= MaxItems
    BY <1>2, <2>1, <2>5, TreeConstants
  <2>7. PICK more \in Int : more = 1
    OBVIOUS
  <2> QED BY <1>4, <2>1, <2>2, <2>5, <2>6, <2>7
<1>6. ASSUME NEW val \in JsonItems, Json!replace(h, at, val) PROVE TreeInv'
  <2> DEFINE s == Json!Replaced(old, at, val)
  <2>1. root[h] # NoValue /\ Json!Change(h, "Array", TRUE, s, 0)
        /\ expected' = [expected EXCEPT ![h].items = Json!Replaced(@, at, val)]
    BY <1>6 DEF Json!replace
  <2>2. expected' = [expected EXCEPT ![h].items = s]
    BY <1>1, <1>2, <2>1, TreeItems DEF TreeInv, TreeTypes
  <2>3. s \in Seq(Json!AllItems) /\ Len(s) = Len(old)
    <3>1. CASE at < Len(old)
      <4>1. at + 1 \in 1 .. Len(old) /\ old[at + 1] \in Json!AllItems
        BY <1>2, <3>1
      <4>2. [old[at + 1] EXCEPT !.val = val] \in Json!AllItems
        BY <4>1 DEF Json!AllItems
      <4>3. s = [old EXCEPT ![at + 1] = [old[at + 1] EXCEPT !.val = val]]
        BY <1>2, <3>1, <4>1 DEF Json!Replaced
      <4> HIDE DEF old, s
      <4> QED BY <1>2, <4>1, <4>2, <4>3
    <3>2. CASE ~(at < Len(old))
      BY <1>2, <3>2 DEF Json!Replaced
    <3> QED BY <3>1, <3>2
  <2> HIDE DEF old, s
  <2>4. PICK more \in Int : more = 0
    OBVIOUS
  <2>5. Len(s) <= MaxItems /\ Len(s) = Len(old) + more
    BY <1>2, <2>3, <2>4
  <2>6. Json!Change(h, "Array", TRUE, s, more)
    BY <2>1, <2>4
  <2> QED BY <1>3, <1>4, <2>1, <2>2, <2>3, <2>5, <2>6
<1>7. ASSUME Json!removeAt(h, at) PROVE TreeInv'
  <2> DEFINE found == at < Len(old)
             s == IF found THEN Json!RemoveAt(old, at + 1) ELSE old
             more == IF found THEN -1 ELSE 0
  <2>1. /\ root[h] # NoValue /\ Json!Change(h, "Array", TRUE, s, more)
        /\ expected' = [expected EXCEPT ![h].items = IF at < Len(@) THEN Json!RemoveAt(@, at + 1) ELSE @]
    BY <1>7 DEF Json!removeAt
  <2>2. expected' = [expected EXCEPT ![h].items = s]
    BY <1>1, <1>2, <2>1, TreeItems DEF TreeInv, TreeTypes
  <2> HIDE DEF old
  <2>3. s \in Seq(Json!AllItems) /\ Len(s) = Len(old) + more
    <3>1. CASE found
      <4>1. at + 1 \in 1 .. Len(old)
        BY <1>2, <3>1
      <4>2. s = Json!RemoveAt(old, at + 1)
        BY <3>1
      <4>3. s \in Seq(Json!AllItems) /\ Len(s) = Len(old) - 1
        BY Zenon, <1>2, <4>1, <4>2, TreeRemove
      <4> QED BY <1>2, <3>1, <4>3
    <3>2. CASE ~found
      BY <1>2, <3>2
    <3> QED BY <3>1, <3>2
  <2>4. more \in Int /\ more <= 0
    OBVIOUS
  <2> HIDE DEF s, more
  <2>5. Len(s) <= MaxItems
    BY <1>2, <2>3, <2>4, TreeConstants
  <2> QED BY <1>3, <1>4, <2>1, <2>2, <2>3, <2>4, <2>5
<1> QED BY <1>5, <1>6, <1>7

LEMMA TreeObject ==
  ASSUME TreeInv, NEW h \in Json!Holders, NEW key \in ItemKeys,
         \/ \E val \in JsonItems : Json!SetItem(h, key, val)
         \/ Json!remove(h, key)
  PROVE  TreeInv'
<1>1. h \in ObjectHolders /\ Fits(h, "Object")
  BY TreeFitting DEF Json!SetItem, Json!remove
<1> DEFINE old == Json!ItemsOf(h)
           k == Json!KeyAt(old, key)
<1>2. /\ old \in Seq(Json!AllItems) /\ expected[h].items = old
      /\ Len(old) \in Nat /\ Len(old) <= MaxItems
      /\ root[h] # NoValue => data[root[h]].items = old
  BY <1>1, TreeItems
<1>3. k \in 0 .. Len(old)
  BY <1>2, TreeKey
<1>4. ASSUME NEW s \in Seq(Json!AllItems), NEW more \in Int, Len(s) <= MaxItems, Len(s) = Len(old) + more,
             Json!Change(h, "Object", FALSE, s, more), expected' = [expected EXCEPT ![h] = Json!Content("Object", s)]
      PROVE  TreeInv'
  <2>1. root[h] # NoValue => Len(s) = Len(data[root[h]].items) + more
    BY <1>2, <1>4
  <2> HIDE DEF old
  <2> QED BY <1>1, <1>4, <2>1, TreeChange
<1>5. ASSUME NEW val \in JsonItems, Json!SetItem(h, key, val) PROVE TreeInv'
  <2> DEFINE s == Json!WithItem(old, key, val)
             more == Json!Added(old, key)
  <2>1. /\ Json!Change(h, "Object", FALSE, s, more) /\ Len(s) <= MaxItems
        /\ expected' = [expected EXCEPT ![h] = Json!Content("Object", Json!WithItem(expected[h].items, key, val))]
    BY <1>5 DEF Json!SetItem, TreeInv, TreeTypes
  <2>2. expected' = [expected EXCEPT ![h] = Json!Content("Object", s)]
    BY <1>2, <2>1
  <2>3. s \in Seq(Json!AllItems) /\ Len(s) = Len(old) + more /\ more \in Int
    <3>1. CASE k = 0
      <4>1. s = Append(old, Json!Item(key, val)) /\ more = 1
        BY <3>1 DEF Json!WithItem, Json!Added
      <4>2. Json!Item(key, val) \in Json!AllItems
        BY DEF Json!Item, Json!AllItems
      <4> HIDE DEF old, s, more
      <4> QED BY <1>2, <4>1, <4>2
    <3>2. CASE k # 0
      <4>1. k \in 1 .. Len(old) /\ old[k] \in Json!AllItems
        BY <1>2, <1>3, <3>2
      <4>2. [old[k] EXCEPT !.val = val] \in Json!AllItems
        BY <4>1 DEF Json!AllItems
      <4>3. s = [old EXCEPT ![k].val = val] /\ more = 0
        BY <3>2 DEF Json!WithItem, Json!Added
      <4>4. s = [old EXCEPT ![k] = [old[k] EXCEPT !.val = val]]
        BY <1>2, <4>1, <4>3
      <4> HIDE DEF old, s, more, k
      <4> QED BY <1>2, <4>1, <4>2, <4>3, <4>4
    <3> QED BY <3>1, <3>2
  <2> HIDE DEF old, s, more
  <2> QED BY <1>4, <2>1, <2>2, <2>3
<1>6. ASSUME Json!remove(h, key) PROVE TreeInv'
  <2> DEFINE s == Json!WithoutItem(old, key)
             more == IF k = 0 THEN 0 ELSE -1
  <2>1. /\ Json!Change(h, "Object", FALSE, s, more)
        /\ expected' = [expected EXCEPT ![h] = Json!Content("Object", Json!WithoutItem(expected[h].items, key))]
    BY <1>6 DEF Json!remove, TreeInv, TreeTypes
  <2>2. expected' = [expected EXCEPT ![h] = Json!Content("Object", s)]
    BY <1>2, <2>1
  <2>3. s \in Seq(Json!AllItems) /\ Len(s) = Len(old) + more /\ more \in Int /\ Len(s) <= MaxItems
    <3>1. CASE k = 0
      <4>1. s = old /\ more = 0
        BY <3>1 DEF Json!WithoutItem
      <4> HIDE DEF old, s, more
      <4> QED BY <1>2, <4>1
    <3>2. CASE k # 0
      <4>1. k \in 1 .. Len(old) /\ more = -1
        BY <1>2, <1>3, <3>2
      <4>2. s = Json!RemoveAt(old, k)
        BY <3>2 DEF Json!WithoutItem
      <4> HIDE DEF old, s, more, k
      <4>3. s \in Seq(Json!AllItems) /\ Len(s) = Len(old) - 1
        BY Zenon, <1>2, <4>1, <4>2, TreeRemove
      <4> QED BY <1>2, <4>1, <4>3, TreeConstants
    <3> QED BY <3>1, <3>2
  <2> HIDE DEF old, s, more
  <2> QED BY <1>4, <2>1, <2>2, <2>3
<1> QED BY <1>5, <1>6

LEMMA TreeStep == TreeInv /\ Json!Counted => TreeInv'
<1> SUFFICES ASSUME TreeInv, Json!Counted PROVE TreeInv'
  OBVIOUS
<1>1. ASSUME NEW h \in Json!Holders, NEW g \in Json!Holders,
             \/ Json!Copy(h, g) \/ Json!Assign(h, g) \/ Json!Swap(h, g) \/ Json!SetRoot(h, g)
             \/ Json!SetValue(h, g) \/ Json!ToContainer(h, g)
      PROVE  TreeInv'
  BY <1>1, TreePairs, TreeSwap
<1>2. ASSUME NEW h \in Json!Holders, Json!Destroy(h) \/ Json!Size(h) PROVE TreeInv'
  BY <1>2, TreeDestroy, TreeSize
<1>3. ASSUME NEW h \in Json!Holders, NEW t \in {"Array", "Object"}, Json!SetEmptyRoot(h, t) PROVE TreeInv'
  BY <1>3, TreeSetEmptyRoot
<1>4. ASSUME NEW h \in Json!Holders, NEW at \in 0 .. MaxItems, NEW val \in JsonItems,
             Json!insert(h, at, val) \/ Json!replace(h, at, val)
      PROVE  TreeInv'
  BY <1>4, TreeArray
<1>5. ASSUME NEW h \in Json!Holders, NEW at \in 0 .. MaxItems, Json!removeAt(h, at) PROVE TreeInv'
  BY <1>5, TreeArray
<1>6. ASSUME NEW h \in Json!Holders, NEW key \in ItemKeys, NEW val \in JsonItems, Json!SetItem(h, key, val)
      PROVE  TreeInv'
  BY <1>6, TreeObject
<1>7. ASSUME NEW h \in Json!Holders, NEW key \in ItemKeys, Json!remove(h, key) PROVE TreeInv'
  BY <1>7, TreeObject
<1> QED BY <1>1, <1>2, <1>3, <1>4, <1>5, <1>6, <1>7 DEF Json!Counted

LEMMA TreeKeeps == TreeKept /\ [Json!Next]_jsonVars => TreeKept'
<1> SUFFICES ASSUME TreeKept, [Json!Next]_jsonVars PROVE TreeKept'
  OBVIOUS
<1>1. CASE UNCHANGED jsonVars
  <2>1. CASE uncounted
    BY <1>1, <2>1 DEF jsonVars, TreeKept, Json!TypeOK
  <2>2. CASE ~uncounted
    BY <1>1, <2>2 DEF jsonVars, TreeKept, TreeInv, TreeTypes, TreeCount, Having, Shows, Fits, Whole
  <2> QED BY <2>1, <2>2
<1>2. CASE Json!Next
  <2>1. TreeInv /\ uncounted = FALSE
    BY <1>2 DEF Json!Next, TreeKept
  <2>2. CASE Json!Counted /\ UNCHANGED uncounted
    BY <2>1, <2>2, TreeStep DEF TreeKept
  <2>3. ASSUME NEW h \in DocumentHolders, NEW g \in DocumentHolders, Json!CopyDocument(h, g) PROVE TreeKept'
    <3>1. Json!TypeOK /\ h \in Json!Holders /\ g \in Json!Holders
      BY <2>1, TreeTyped DEF Json!Holders
    <3>2. Json!TypeOK'
      BY <2>3, <3>1 DEF Json!CopyDocument, Json!TypeOK
    <3> QED BY <2>3, <3>2 DEF TreeKept, Json!CopyDocument
  <2> QED BY <1>2, <2>2, <2>3 DEF Json!Next
<1> QED BY <1>1, <1>2

-----------------------------------------------------------------------------
(* The drag. An event goes through a number of filters; what each of them   *)
(* keeps, all keep.                                                         *)

FilterStep(u, e) == IF u.consumed \/ ~u.data.attached THEN u ELSE Drag!Filter(u, e)

\* What the filters make of an event, one after the other, is defined.
LEMMA FiltersRun ==
  ASSUME NEW n \in Nat, NEW v, NEW e
  PROVE  \E f : f = [k \in 0 .. n |-> IF k = 0 THEN v ELSE FilterStep(f[k - 1], e)]
<1> DEFINE S == {m \in Nat : \E f : f = [k \in 0 .. m |-> IF k = 0 THEN v ELSE FilterStep(f[k - 1], e)]}
<1>1. 0 \in S
  <2> DEFINE f == [k \in 0 .. 0 |-> v]
  <2>1. f = [k \in 0 .. 0 |-> IF k = 0 THEN v ELSE FilterStep(f[k - 1], e)]
    OBVIOUS
  <2> QED BY <2>1
<1>2. ASSUME NEW m \in S PROVE m + 1 \in S
  <2>1. PICK f : f = [k \in 0 .. m |-> IF k = 0 THEN v ELSE FilterStep(f[k - 1], e)]
    BY <1>2
  <2> DEFINE g == [k \in 0 .. m + 1 |-> IF k = 0 THEN v ELSE FilterStep(f[k - 1], e)]
  <2>2. \A k \in 0 .. m : g[k] = f[k]
    BY <2>1
  <2>3. ASSUME NEW k \in 0 .. m + 1 PROVE g[k] = IF k = 0 THEN v ELSE FilterStep(g[k - 1], e)
    <3>1. k # 0 => k - 1 \in 0 .. m
      BY <1>2
    <3> QED BY <2>2, <3>1
  <2>4. g = [k \in 0 .. m + 1 |-> IF k = 0 THEN v ELSE FilterStep(g[k - 1], e)]
    BY <2>3
  <2>5. \E h : h = [k \in 0 .. m + 1 |-> IF k = 0 THEN v ELSE FilterStep(h[k - 1], e)]
    <3> HIDE DEF g
    <3> QED BY <2>4
  <2> QED BY <1>2, <2>5
<1>3. S = Nat
  <2> HIDE DEF S
  <2>1. S \subseteq Nat
    BY DEF S
  <2> QED BY <1>1, <1>2, <2>1, Induction
<1> QED BY <1>3

LEMMA FiltersAgree ==
  ASSUME NEW n \in Nat, NEW v, NEW e
  PROVE  \E f : /\ Drag!Filtered(n, v, e) = f[n] /\ f[0] = v
                /\ \A k \in 0 .. n : k # 0 => f[k] = FilterStep(f[k - 1], e)
<1> DEFINE f == CHOOSE f : f = [k \in 0 .. n |-> IF k = 0 THEN v ELSE FilterStep(f[k - 1], e)]
<1>1. f = [k \in 0 .. n |-> IF k = 0 THEN v ELSE FilterStep(f[k - 1], e)]
  BY FiltersRun
<1>2. Drag!Filtered(n, v, e) = f[n]
  BY DEF Drag!Filtered, FilterStep
<1> HIDE DEF f
<1> QED BY <1>1, <1>2

\* What the first filter leaves in a set that the others do not leave stays there.
LEMMA FiltersKeep ==
  ASSUME NEW n \in Nat, NEW v, NEW e, NEW V,
         n = 0 => v \in V,
         n > 0 => FilterStep(v, e) \in V,
         \A u \in V : FilterStep(u, e) \in V
  PROVE  Drag!Filtered(n, v, e) \in V
<1>1. PICK f : /\ Drag!Filtered(n, v, e) = f[n] /\ f[0] = v
               /\ \A k \in 0 .. n : k # 0 => f[k] = FilterStep(f[k - 1], e)
  BY FiltersAgree
<1>2. CASE n = 0
  BY <1>1, <1>2
<1>3. CASE n > 0
  <2> DEFINE S == {m \in Nat : m + 1 <= n => f[m + 1] \in V}
  <2>1. 0 \in S
    <3>1. 1 \in 0 .. n /\ f[1] = FilterStep(f[1 - 1], e)
      BY <1>1, <1>3
    <3> QED BY <1>1, <1>3, <3>1
  <2>2. ASSUME NEW m \in S PROVE m + 1 \in S
    <3>1. SUFFICES ASSUME (m + 1) + 1 <= n PROVE f[(m + 1) + 1] \in V
      OBVIOUS
    <3>2. m \in Nat /\ f[m + 1] \in V /\ (m + 1) + 1 \in 0 .. n /\ (m + 1) + 1 # 0
          /\ ((m + 1) + 1) - 1 = m + 1
      BY <3>1
    <3>3. f[(m + 1) + 1] = FilterStep(f[m + 1], e)
      BY <1>1, <3>2
    <3> QED BY <3>2, <3>3
  <2>3. S = Nat
    <3> HIDE DEF S
    <3>1. S \subseteq Nat
      BY DEF S
    <3> QED BY <2>1, <2>2, <3>1, Induction
  <2>4. n - 1 \in Nat /\ (n - 1) + 1 = n
    BY <1>3
  <2>5. n - 1 \in S
    <3> HIDE DEF S
    <3> QED BY <2>3, <2>4
  <2> QED BY <1>1, <2>4, <2>5
<1> QED BY <1>2, <1>3

DragData == [isCursorShapeChanged : BOOLEAN, isLeftButtonPressed : BOOLEAN, attached : BOOLEAN]
Views == [data : DragData, windowState : {"normal", "maximized"}, cursor : BOOLEAN,
          move : BOOLEAN, release : BOOLEAN, consumed : BOOLEAN]

DragTyped ==
  /\ dragData \in DragData /\ filters \in 0 .. MaxFilters
  /\ isWindowFixedSize \in BOOLEAN /\ windowState \in {"normal", "maximized"}
  /\ cursor \in BOOLEAN /\ down \in BOOLEAN /\ moving \in BOOLEAN
  /\ input \in Seq(Drag!Event) /\ events \in Seq(Drag!Event)

\* The window manager moves a window only while the button is down. The button is
\* remembered by an attached helper alone; when the user has let go of it, or the window
\* manager will keep that release, another release is under way. A press that is under
\* way is the first event, and its release behind it.
Releasing == \E j \in DOMAIN input : input[j].type = "release"

DragInv ==
  /\ DragTyped
  /\ dragData.attached => filters > 0
  /\ dragData.isLeftButtonPressed => dragData.attached
  /\ dragData.isCursorShapeChanged => cursor
  /\ moving => down
  /\ \A i \in DOMAIN events : events[i].type = "release"
  /\ \A i \in DOMAIN input : input[i].type = "press" =>
       /\ i = 1 /\ ~moving
       /\ ~down => \E j \in DOMAIN input : j > 1 /\ input[j].type = "release"
  /\ moving /\ dragData.isLeftButtonPressed => events # <<>>
  /\ ~down /\ dragData.isLeftButtonPressed => events # <<>> \/ Releasing

\* What filters may make of the window while they see an event, and what they do.
Seeing(e) ==
  {u \in Views :
     /\ u.data.attached = dragData.attached
     /\ u.data.isLeftButtonPressed =>
          dragData.attached /\ (dragData.isLeftButtonPressed \/ e.type = "press")
     /\ u.move => dragData.isLeftButtonPressed /\ e.type = "move"
     /\ u.release = u.move
     /\ u.data.isCursorShapeChanged => u.cursor}

Filtering(e) ==
  {u \in Seeing(e) : e.type = "release" => ~u.data.isLeftButtonPressed}

LEMMA OneFilter ==
  ASSUME DragTyped, NEW e \in Drag!Event, NEW u \in Seeing(e), ~u.consumed, u.data.attached
  PROVE  Drag!Filter(u, e) \in Filtering(e)
<1>1. u \in Views /\ u.data \in DragData
  BY DEF Seeing, Views
<1>2. e.type \in {"press", "dblclick", "release", "move"}
  BY DEF Drag!Event
<1>3. CASE e.type = "press"
  <2>1. Drag!Filter(u, e) = [u EXCEPT !.data = [u.data EXCEPT !.isLeftButtonPressed = TRUE]]
    BY <1>3 DEF Drag!Filter, Drag!OnPress
  <2> QED BY <1>1, <1>3, <2>1 DEF Filtering, Seeing, Views, DragData
<1>4. CASE e.type = "release"
  <2>1. Drag!Filter(u, e) = [u EXCEPT !.data = [u.data EXCEPT !.isLeftButtonPressed = FALSE]]
    BY <1>4 DEF Drag!Filter, Drag!OnRelease
  <2> DEFINE q == [u.data EXCEPT !.isLeftButtonPressed = FALSE]
             w == [u EXCEPT !.data = q]
  <2>2. /\ q \in DragData /\ q.attached = u.data.attached /\ ~q.isLeftButtonPressed
        /\ q.isCursorShapeChanged = u.data.isCursorShapeChanged
    BY <1>1 DEF DragData
  <2>3. Drag!Filter(u, e) = w
    BY <2>1
  <2> HIDE DEF q
  <2>4. w \in Views /\ w.data = q /\ w.move = u.move /\ w.release = u.release /\ w.cursor = u.cursor
    BY <1>1, <2>2 DEF Views
  <2> HIDE DEF w
  <2> QED BY <2>2, <2>3, <2>4 DEF Filtering, Seeing
<1>5. CASE e.type = "dblclick"
  <2>1. \/ Drag!Filter(u, e) = u
        \/ \E s \in {"normal", "maximized"} :
             Drag!Filter(u, e) = [u EXCEPT !.windowState = s, !.consumed = TRUE]
    BY <1>1, <1>5 DEF Drag!Filter, Drag!OnDblClick
  <2> QED BY <1>1, <1>5, <2>1 DEF Filtering, Seeing, Views
<1>6. CASE e.type = "move"
  <2> DEFINE w == Drag!Reshape(u, e.at)
  <2>1. \/ w = u
        \/ w = [u EXCEPT !.cursor = ~u.data.isCursorShapeChanged,
                         !.data = [u.data EXCEPT !.isCursorShapeChanged = ~u.data.isCursorShapeChanged]]
    BY DEF Drag!Reshape
  <2>2. w \in Seeing(e) /\ w \in Views
    <3> HIDE DEF w
    <3> DEFINE q == [u.data EXCEPT !.isCursorShapeChanged = ~u.data.isCursorShapeChanged]
    <3>1. /\ q \in DragData /\ q.attached = u.data.attached
          /\ q.isLeftButtonPressed = u.data.isLeftButtonPressed
          /\ q.isCursorShapeChanged = ~u.data.isCursorShapeChanged
      BY <1>1 DEF DragData
    <3> HIDE DEF q
    <3>2. CASE w = [u EXCEPT !.cursor = ~u.data.isCursorShapeChanged, !.data = q]
      <4>1. w \in Views /\ w.data = q /\ w.move = u.move /\ w.release = u.release /\ w.cursor = q.isCursorShapeChanged
        BY <1>1, <3>1, <3>2 DEF Views, DragData
      <4> QED BY <3>1, <4>1 DEF Seeing
    <3> QED BY <1>1, <2>1, <3>2 DEF q
  <2>3. \/ Drag!Filter(u, e) = w
        \/ /\ w.data.isLeftButtonPressed
           /\ Drag!Filter(u, e) = [w EXCEPT !.move = TRUE, !.release = TRUE, !.consumed = TRUE]
    BY <1>6 DEF Drag!Filter, Drag!OnMove, Drag!StartSystemMove
  <2> HIDE DEF w
  <2> DEFINE m == [w EXCEPT !.move = TRUE, !.release = TRUE, !.consumed = TRUE]
  <2>4. w \in Filtering(e)
    BY <1>6, <2>2 DEF Filtering
  <2>5. m \in Views /\ m.data = w.data /\ m.move /\ m.release /\ m.cursor = w.cursor
    BY <2>2 DEF Views
  <2>6. Drag!Filter(u, e) = w \/ (w.data.isLeftButtonPressed /\ Drag!Filter(u, e) = m)
    BY <2>3
  <2> HIDE DEF m
  <2>7. w.data.isLeftButtonPressed => m \in Filtering(e)
    BY <1>6, <2>2, <2>5 DEF Filtering, Seeing
  <2> QED BY <2>4, <2>6, <2>7
<1> QED BY <1>2, <1>3, <1>4, <1>5, <1>6

LEMMA AllFilters ==
  ASSUME DragInv, NEW e \in Drag!Event
  PROVE  Drag!Filtered(filters, Drag!Seen(dragData), e) \in Filtering(e)
<1> DEFINE v == Drag!Seen(dragData)
<1>1. v \in Seeing(e) /\ ~v.consumed /\ v.data = dragData
  BY DEF DragInv, DragTyped, Seeing, Views, Drag!Seen
<1> HIDE DEF v
<1>2. \A u \in Seeing(e) : u.data.attached /\ ~u.consumed => Drag!Filter(u, e) \in Filtering(e)
  BY OneFilter DEF DragInv
<1>3. \A u \in Filtering(e) : FilterStep(u, e) \in Filtering(e)
  BY <1>2 DEF FilterStep, Filtering
<1>4. ~dragData.attached => v \in Filtering(e)
  BY <1>1 DEF DragInv, Filtering
<1>5. FilterStep(v, e) \in Filtering(e)
  BY <1>1, <1>2, <1>4 DEF FilterStep
<1>6. filters \in Nat /\ (filters = 0 => v \in Filtering(e))
  <2>1. filters \in Nat
    BY DEF DragInv, DragTyped
  <2> QED BY <1>4, <2>1 DEF DragInv
<1> QED BY <1>3, <1>5, <1>6, FiltersKeep DEF v

LEMMA DataOfDrag ==
  /\ MaxFilters \in Nat
  /\ Drag!NoData \in DragData /\ ~Drag!NoData.isLeftButtonPressed
  /\ ~Drag!NoData.isCursorShapeChanged /\ ~Drag!NoData.attached
  /\ Drag!NewData \in DragData /\ ~Drag!NewData.isLeftButtonPressed
  /\ ~Drag!NewData.isCursorShapeChanged
  BY DataAssumption DEF Drag!DragAssumption, Drag!NoData, Drag!NewData, DragData

LEMMA DragStart == Drag!Init => DragInv
<1> SUFFICES ASSUME Drag!Init PROVE DragInv
  OBVIOUS
<1>1. /\ dragData = Drag!NoData /\ filters = 0
      /\ isWindowFixedSize \in BOOLEAN /\ windowState = "normal"
      /\ cursor = FALSE /\ down = FALSE /\ moving = FALSE
      /\ input = <<>> /\ events = <<>>
  BY DEF Drag!Init
<1>2. input \in Seq(Drag!Event) /\ events \in Seq(Drag!Event) /\ DOMAIN input = {} /\ DOMAIN events = {}
  BY <1>1
<1>3. filters \in 0 .. MaxFilters
  BY <1>1, DataOfDrag
<1> QED BY <1>1, <1>2, <1>3, DataOfDrag DEF DragInv, DragTyped

LEMMA AttachKeeps ==
  ASSUME DragInv, Drag!Attach \/ Drag!Detach
  PROVE  DragInv'
<1>1. /\ dragData' \in DragData /\ ~dragData'.isLeftButtonPressed /\ ~dragData'.isCursorShapeChanged
      /\ dragData'.attached => filters' > 0
      /\ filters' \in 0 .. MaxFilters
  <2>0. filters \in 0 .. MaxFilters
    BY DEF DragInv, DragTyped
  <2>1. CASE Drag!Attach
    <3>1. dragData' = Drag!NewData /\ filters' = filters + 1 /\ filters < MaxFilters
      BY <2>1 DEF Drag!Attach
    <3>2. filters' > 0 /\ filters' \in 0 .. MaxFilters
      BY <2>0, <3>1, DataOfDrag
    <3> QED BY <3>1, <3>2, DataOfDrag
  <2>2. CASE Drag!Detach
    BY <2>0, <2>2, DataOfDrag DEF Drag!Detach
  <2> QED BY <2>1, <2>2
<1>2. UNCHANGED <<isWindowFixedSize, windowState, cursor, down, moving, input, events>>
  BY DEF Drag!Attach, Drag!Detach
<1> QED BY <1>1, <1>2 DEF DragInv, DragTyped, Releasing

\* An event of the window system comes last.
LEMMA Arrives ==
  ASSUME DragInv, NEW type \in {"press", "dblclick", "release", "move"}, NEW at \in Drag!Places,
         Drag!Arrive(type, at)
  PROVE  /\ input' \in Seq(Drag!Event) /\ Len(input') = Len(input) + 1
         /\ \A i \in DOMAIN input : i \in DOMAIN input' /\ input'[i] = input[i]
         /\ Len(input') \in DOMAIN input' /\ input'[Len(input')].type = type
         /\ \A i \in DOMAIN input' : i \in DOMAIN input \/ i = Len(input')
<1> DEFINE e == [type |-> type, at |-> at]
<1>1. e \in Drag!Event /\ e.type = type /\ input' = Append(input, e) /\ input \in Seq(Drag!Event)
  BY DEF Drag!Event, Drag!Arrive, DragInv, DragTyped
<1> HIDE DEF e
<1> QED BY <1>1

LEMMA PressKeeps ==
  ASSUME DragInv, NEW at \in Drag!Places, Drag!PressButton(at)
  PROVE  DragInv'
<1>1. /\ ~down /\ input = <<>> /\ down' = TRUE
      /\ UNCHANGED <<dragData, filters, isWindowFixedSize, windowState, cursor, moving, events>>
  BY DEF Drag!PressButton
<1>2. /\ input' \in Seq(Drag!Event) /\ Len(input') = 1
  <2>1. Drag!Arrive("press", at) \/ Drag!Arrive("dblclick", at)
    BY DEF Drag!PressButton
  <2>2. /\ input' \in Seq(Drag!Event) /\ Len(input') = Len(input) + 1
    BY <2>1, Arrives
  <2> QED BY <1>1, <2>2
<1>3. \A i \in DOMAIN input' : i = 1
  BY <1>2
<1>4. ~moving
  BY <1>1 DEF DragInv
<1> QED BY <1>1, <1>2, <1>3, <1>4 DEF DragInv, DragTyped

LEMMA ReleaseKeeps ==
  ASSUME DragInv, NEW at \in Drag!Places, Drag!ReleaseButton(at)
  PROVE  DragInv'
<1>1. /\ down /\ down' = FALSE /\ moving' = FALSE
      /\ UNCHANGED <<dragData, filters, isWindowFixedSize, windowState, cursor, events>>
  BY DEF Drag!ReleaseButton
<1>2. CASE moving
  <2>1. UNCHANGED input
    BY <1>2 DEF Drag!ReleaseButton
  <2>2. \A i \in DOMAIN input : input[i].type # "press"
    BY <1>2 DEF DragInv
  <2>3. dragData.isLeftButtonPressed => events # <<>>
    BY <1>2 DEF DragInv
  <2> QED BY <1>1, <2>1, <2>2, <2>3 DEF DragInv, DragTyped, Releasing
<1>3. CASE ~moving
  <2>1. Drag!Arrive("release", at)
    BY <1>3 DEF Drag!ReleaseButton
  <2>2. /\ input' \in Seq(Drag!Event) /\ Len(input') = Len(input) + 1
        /\ \A i \in DOMAIN input : i \in DOMAIN input' /\ input'[i] = input[i]
        /\ Len(input') \in DOMAIN input' /\ input'[Len(input')].type = "release"
        /\ \A i \in DOMAIN input' : i \in DOMAIN input \/ i = Len(input')
    BY <2>1, Arrives
  <2>3. \A i \in DOMAIN input' : input'[i].type = "press" =>
          i = 1 /\ \E j \in DOMAIN input' : j > 1 /\ input'[j].type = "release"
    <3>1. SUFFICES ASSUME NEW i \in DOMAIN input', input'[i].type = "press"
                   PROVE  i = 1 /\ \E j \in DOMAIN input' : j > 1 /\ input'[j].type = "release"
      OBVIOUS
    <3>2. i \in DOMAIN input /\ input[i].type = "press"
      BY <2>2, <3>1
    <3>3. i = 1 /\ Len(input') > 1
      <4>1. i = 1
        BY <3>2 DEF DragInv
      <4>2. input \in Seq(Drag!Event)
        BY DEF DragInv, DragTyped
      <4> QED BY <2>2, <3>2, <4>1, <4>2
    <3> QED BY <2>2, <3>3
  <2> QED BY <1>1, <2>2, <2>3 DEF DragInv, DragTyped, Releasing
<1> QED BY <1>2, <1>3

LEMMA MovePointerKeeps ==
  ASSUME DragInv, NEW at \in Drag!Places, Drag!MovePointer(at)
  PROVE  DragInv'
<1>1. /\ ~moving /\ Drag!Arrive("move", at)
      /\ UNCHANGED <<dragData, filters, isWindowFixedSize, windowState, cursor, down, moving, events>>
  BY DEF Drag!MovePointer
<1>2. /\ input' \in Seq(Drag!Event)
      /\ \A i \in DOMAIN input : i \in DOMAIN input' /\ input'[i] = input[i]
      /\ input'[Len(input')].type = "move"
      /\ \A i \in DOMAIN input' : i \in DOMAIN input \/ i = Len(input')
  BY <1>1, Arrives
<1>3. \A i \in DOMAIN input' : input'[i].type = "press" => i \in DOMAIN input /\ input[i].type = "press"
  BY <1>2
<1>4. Releasing => Releasing'
  BY <1>2 DEF Releasing
<1>5. \A i \in DOMAIN input' : input'[i].type = "press" =>
       /\ i = 1 /\ ~moving
       /\ ~down => \E j \in DOMAIN input' : j > 1 /\ input'[j].type = "release"
  BY <1>2, <1>3 DEF DragInv
<1> QED BY <1>1, <1>2, <1>4, <1>5 DEF DragInv, DragTyped

\* What becomes of the window when an event was seen by all filters.
HandledAs(e, rest) ==
  /\ dragData' \in DragData /\ windowState' \in {"normal", "maximized"} /\ cursor' \in BOOLEAN
  /\ moving' \in BOOLEAN
  /\ dragData'.attached = dragData.attached
  /\ dragData'.isLeftButtonPressed =>
       dragData.attached /\ (dragData.isLeftButtonPressed \/ e.type = "press") /\ e.type # "release"
  /\ dragData'.isCursorShapeChanged => cursor'
  /\ moving' => moving \/ (down /\ dragData.isLeftButtonPressed /\ e.type = "move" /\ events' # <<>>)
  /\ events' \in Seq(Drag!Event)
  /\ \/ events' = rest
     \/ \E last \in Drag!Event : last.type = "release" /\ events' = Append(rest, last)
  /\ UNCHANGED <<filters, isWindowFixedSize, down>>

LEMMA EventHandled ==
  ASSUME DragInv, NEW e \in Drag!Event, NEW rest \in Seq(Drag!Event), Drag!Handle(e, rest)
  PROVE  HandledAs(e, rest)
<1> DEFINE v == Drag!Filtered(filters, Drag!Seen(dragData), e)
<1>1. v \in Filtering(e)
  BY AllFilters
<1>2. /\ dragData' = v.data /\ windowState' = v.windowState /\ cursor' = v.cursor
      /\ moving' = (moving \/ (v.move /\ down))
      /\ events' = IF v.release THEN Append(rest, [type |-> "release", at |-> e.at]) ELSE rest
      /\ UNCHANGED <<filters, isWindowFixedSize, down>>
  BY DEF Drag!Handle
<1> HIDE DEF v
<1>3. /\ v.data \in DragData /\ v.windowState \in {"normal", "maximized"} /\ v.cursor \in BOOLEAN
      /\ v.move \in BOOLEAN /\ v.release = v.move
      /\ v.data.attached = dragData.attached
      /\ v.move => dragData.isLeftButtonPressed /\ e.type = "move"
      /\ v.data.isCursorShapeChanged => v.cursor
  BY <1>1 DEF Filtering, Seeing, Views
<1>4. v.data.isLeftButtonPressed =>
        dragData.attached /\ (dragData.isLeftButtonPressed \/ e.type = "press") /\ e.type # "release"
  BY <1>1 DEF Filtering, Seeing
<1> DEFINE last == [type |-> "release", at |-> e.at]
<1>5. last \in Drag!Event /\ last.type = "release"
  BY DEF Drag!Event
<1> HIDE DEF last
<1>6. events' = IF v.release THEN Append(rest, last) ELSE rest
  BY <1>2 DEF last
<1>7. Append(rest, last) \in Seq(Drag!Event) /\ Append(rest, last) # <<>>
  <2>1. Append(rest, last) \in Seq(Drag!Event) /\ Len(Append(rest, last)) = Len(rest) + 1
    BY <1>5
  <2>2. Len(rest) + 1 # 0 /\ Len(<<>>) = 0
    OBVIOUS
  <2> QED BY <2>1, <2>2
<1>8. down \in BOOLEAN /\ moving \in BOOLEAN
  BY DEF DragInv, DragTyped
<1>9. moving' \in BOOLEAN /\ (moving' => moving \/ (down /\ dragData.isLeftButtonPressed /\ e.type = "move" /\ events' # <<>>))
  BY <1>2, <1>3, <1>6, <1>7, <1>8
<1>10. /\ events' \in Seq(Drag!Event)
       /\ \/ events' = rest
          \/ \E x \in Drag!Event : x.type = "release" /\ events' = Append(rest, x)
  BY <1>5, <1>6, <1>7
<1>11. /\ dragData' \in DragData /\ windowState' \in {"normal", "maximized"} /\ cursor' \in BOOLEAN
       /\ dragData'.attached = dragData.attached
       /\ dragData'.isCursorShapeChanged => cursor'
  BY <1>2, <1>3
<1>12. dragData'.isLeftButtonPressed =>
         dragData.attached /\ (dragData.isLeftButtonPressed \/ e.type = "press") /\ e.type # "release"
  BY <1>2, <1>4
<1> QED BY <1>2, <1>9, <1>10, <1>11, <1>12 DEF HandledAs

LEMMA DispatchInputKeeps ==
  ASSUME DragInv, Drag!DispatchInput
  PROVE  DragInv'
<1> DEFINE e == Head(input)
<1>1. /\ input # <<>> /\ events = <<>> /\ Drag!Handle(e, events) /\ input' = Tail(input)
      /\ input \in Seq(Drag!Event) /\ events \in Seq(Drag!Event)
  BY DEF Drag!DispatchInput, DragInv, DragTyped
<1>2. e \in Drag!Event /\ e = input[1] /\ 1 \in DOMAIN input
  BY <1>1
<1> HIDE DEF e
<1>3. /\ dragData' \in DragData /\ windowState' \in {"normal", "maximized"} /\ cursor' \in BOOLEAN
      /\ moving' \in BOOLEAN
      /\ dragData'.attached = dragData.attached
      /\ dragData'.isLeftButtonPressed =>
           dragData.attached /\ (dragData.isLeftButtonPressed \/ e.type = "press") /\ e.type # "release"
      /\ dragData'.isCursorShapeChanged => cursor'
      /\ moving' => moving \/ (down /\ dragData.isLeftButtonPressed /\ e.type = "move" /\ events' # <<>>)
      /\ events' \in Seq(Drag!Event)
      /\ \/ events' = events
         \/ \E last \in Drag!Event : last.type = "release" /\ events' = Append(events, last)
      /\ UNCHANGED <<filters, isWindowFixedSize, down>>
  BY <1>1, <1>2, EventHandled DEF HandledAs
<1>4. /\ input' \in Seq(Drag!Event)
      /\ \A i \in DOMAIN input' : i \in Nat /\ i + 1 \in DOMAIN input /\ i + 1 > 1 /\ input'[i] = input[i + 1]
      /\ \A i \in DOMAIN input : i > 1 => \E k \in DOMAIN input' : input'[k] = input[i]
  <2>1. /\ input' \in Seq(Drag!Event) /\ Len(input') = Len(input) - 1
        /\ DOMAIN input' = 1 .. Len(input') /\ DOMAIN input = 1 .. Len(input)
        /\ \A i \in 1 .. Len(input') : input'[i] = input[i + 1]
    BY <1>1
  <2>2. ASSUME NEW i \in DOMAIN input, i > 1 PROVE \E k \in DOMAIN input' : input'[k] = input[i]
    <3>1. i - 1 \in DOMAIN input' /\ (i - 1) + 1 = i
      BY <1>1, <2>1, <2>2
    <3>2. input'[i - 1] = input[i]
      BY <2>1, <3>1
    <3> QED BY <3>1, <3>2
  <2> QED BY <1>1, <2>1, <2>2
<1>5. \A i \in DOMAIN input' : input'[i].type # "press"
  <2>1. \A i \in DOMAIN input : input[i].type = "press" => i = 1
    BY DEF DragInv
  <2> QED BY <1>4, <2>1
<1>6. \A i \in DOMAIN events' : events'[i].type = "release"
  BY <1>1, <1>3
<1>7. moving' => down'
  BY <1>3 DEF DragInv
<1>8. moving' /\ dragData'.isLeftButtonPressed => events' # <<>>
  <2>1. moving => ~dragData.isLeftButtonPressed
    BY <1>1 DEF DragInv
  <2>2. e.type = "press" => ~moving
    BY <1>2 DEF DragInv
  <2> QED BY <1>3, <2>1, <2>2
<1>9. ~down' /\ dragData'.isLeftButtonPressed => events' # <<>> \/ Releasing'
  <2> SUFFICES ASSUME ~down', dragData'.isLeftButtonPressed PROVE Releasing'
    OBVIOUS
  <2>1. ~down /\ e.type # "release" /\ (dragData.isLeftButtonPressed \/ e.type = "press")
    BY <1>3
  <2>2. \E j \in DOMAIN input : j > 1 /\ input[j].type = "release"
    <3>1. CASE e.type = "press"
      BY <1>2, <2>1, <3>1 DEF DragInv
    <3>2. CASE dragData.isLeftButtonPressed
      <4>1. PICK j \in DOMAIN input : input[j].type = "release"
        BY <1>1, <2>1, <3>2 DEF DragInv, Releasing
      <4>2. j # 1 /\ j \in Nat /\ j >= 1
        BY <1>1, <1>2, <2>1, <4>1
      <4> QED BY <4>1, <4>2
    <3> QED BY <2>1, <3>1, <3>2
  <2> QED BY <1>4, <2>2 DEF Releasing
<1>10. DragTyped'
  BY <1>3, <1>4 DEF DragInv, DragTyped
<1>11. /\ dragData'.attached => filters' > 0
       /\ dragData'.isLeftButtonPressed => dragData'.attached
  BY <1>3 DEF DragInv
<1> QED BY <1>3, <1>5, <1>6, <1>7, <1>8, <1>9, <1>10, <1>11 DEF DragInv

LEMMA DispatchPostedKeeps ==
  ASSUME DragInv, Drag!DispatchPosted
  PROVE  DragInv'
<1> DEFINE e == Head(events)
           rest == Tail(events)
<1>1. /\ events # <<>> /\ Drag!Handle(e, rest) /\ UNCHANGED input
      /\ events \in Seq(Drag!Event)
  BY DEF Drag!DispatchPosted, DragInv, DragTyped
<1>2. e \in Drag!Event /\ e.type = "release"
  BY <1>1 DEF DragInv
<1>3. rest \in Seq(Drag!Event) /\ \A i \in DOMAIN rest : rest[i].type = "release"
  BY <1>1 DEF DragInv
<1> HIDE DEF e, rest
<1>4. /\ dragData' \in DragData /\ windowState' \in {"normal", "maximized"} /\ cursor' \in BOOLEAN
      /\ moving' \in BOOLEAN
      /\ dragData'.attached = dragData.attached
      /\ ~dragData'.isLeftButtonPressed
      /\ dragData'.isCursorShapeChanged => cursor'
      /\ moving' => moving
      /\ events' \in Seq(Drag!Event)
      /\ \/ events' = rest
         \/ \E last \in Drag!Event : last.type = "release" /\ events' = Append(rest, last)
      /\ UNCHANGED <<filters, isWindowFixedSize, down>>
  BY <1>1, <1>2, <1>3, EventHandled DEF HandledAs
<1>5. \A i \in DOMAIN events' : events'[i].type = "release"
  BY <1>3, <1>4
<1>6. DragTyped'
  BY <1>1, <1>4 DEF DragInv, DragTyped
<1>7. \A i \in DOMAIN input' : input'[i].type = "press" =>
       /\ i = 1 /\ ~moving'
       /\ ~down' => \E j \in DOMAIN input' : j > 1 /\ input'[j].type = "release"
  BY <1>1, <1>4 DEF DragInv
<1>8. moving' => down'
  BY <1>4 DEF DragInv
<1>9. dragData'.attached => filters' > 0
  BY <1>4 DEF DragInv
<1> QED BY <1>4, <1>5, <1>6, <1>7, <1>8, <1>9 DEF DragInv

LEMMA DragStill ==
  ASSUME DragInv, UNCHANGED dragVars
  PROVE  DragInv'
<1>1. UNCHANGED <<dragData, filters, isWindowFixedSize, windowState, cursor, down, moving, input, events>>
  BY DEF dragVars
<1> QED BY <1>1 DEF DragInv, DragTyped, Releasing

LEMMA DragStep ==
  ASSUME DragInv, Drag!Next
  PROVE  DragInv'
<1>1. ASSUME NEW at \in Drag!Places,
             Drag!PressButton(at) \/ Drag!ReleaseButton(at) \/ Drag!MovePointer(at)
      PROVE  DragInv'
  BY <1>1, PressKeeps, ReleaseKeeps, MovePointerKeeps
<1> QED BY <1>1, AttachKeeps, DispatchInputKeeps, DispatchPostedKeeps DEF Drag!Next

LEMMA DragPromises == DragInv => Drag!NoStuckDrag
<1> SUFFICES ASSUME DragInv PROVE Drag!NoStuckDrag
  OBVIOUS
<1>1. ASSUME Drag!Quiet, ~down PROVE ~dragData.isLeftButtonPressed /\ ~moving
  <2>1. events = <<>> /\ ~Releasing
    BY <1>1 DEF Drag!Quiet, Releasing
  <2> QED BY <1>1, <2>1 DEF DragInv
<1> QED BY <1>1 DEF Drag!NoStuckDrag, DragInv

-----------------------------------------------------------------------------
(* The mouse. Qt follows the pointer, since what Windows keeps back of a    *)
(* leaving pointer is made up for before nothing is left to deal with.      *)

\* What leaves Qt without the pointer, and what only marks the window.
Clean(m) == m.msg = "MOUSELEAVE" /\ (m.tag \/ m.pt \notin ButtonPixels)
Held(m) == m.msg = "MOUSELEAVE" /\ ~m.tag /\ m.pt \in ButtonPixels

\* No movement is behind this place of the queue.
NoneBehind(q, i) == \A j \in DOMAIN q : j > i => q[j].msg # "MOUSEMOVE"

NoMove(q) == \A i \in DOMAIN q : q[i].msg # "MOUSEMOVE"

\* Qt is nowhere, or will be told that the pointer has left.
WillLeave(q, isBlocked, isTracked) ==
  \/ ~isTracked /\ NoMove(q)
  \/ \E i \in DOMAIN q : NoneBehind(q, i) /\ Clean(q[i])
  \/ \E i \in DOMAIN q :
       /\ NoneBehind(q, i) /\ q[i].msg = "NCMOUSELEAVE"
       /\ \/ isBlocked
          \/ \E j \in DOMAIN q : j < i /\ Held(q[j])
          \/ ~isTracked /\ \E j \in DOMAIN q : j < i /\ q[j].msg = "MOUSEMOVE"

\* A movement was retrieved where the pointer is.
Settled == ~moved /\ pos # Outside

OverClient ==
  Settled /\ Mouse!InClient(pos) =>
    /\ tracked /\ tracking /\ ~isMouseLeaveBlocked
    /\ \A i \in DOMAIN posted : posted[i].msg = "NCMOUSELEAVE"

OverFrame ==
  Settled /\ ~Mouse!InClient(pos) /\ Mouse!HitTest(pos) # "ChromeButton" =>
    /\ NoMove(posted)
    /\ pos \notin ButtonPixels =>
         /\ \A i \in DOMAIN posted : ~Held(posted[i])
         /\ tracked => \E i \in DOMAIN posted : Clean(posted[i])

OverButton ==
  Settled /\ Mouse!HitTest(pos) = "ChromeButton" =>
    /\ \A i \in DOMAIN posted : posted[i].pt \in ButtonPixels /\ (posted[i].msg = "MOUSEMOVE" \/ Held(posted[i]))
    /\ hover \in ButtonPixels \/ \E i \in DOMAIN posted : posted[i].msg = "MOUSEMOVE"

\* Qt is somewhere only if something will take it away.
MouseTracked ==
  /\ tracked <=> hover # Outside
  /\ \A i \in DOMAIN posted : posted[i].msg = "MOUSEMOVE" => posted[i].pt # Outside
  /\ tracked => tracking \/ isMouseLeaveBlocked \/ \E i \in DOMAIN posted : posted[i].msg = "MOUSELEAVE"
  /\ tracking /\ ~moved => Mouse!InClient(pos)
  /\ Settled /\ ~Mouse!InClient(pos) => ncTracking

MouseInv ==
  /\ Mouse!TypeOK
  /\ moved => pos # Outside
  /\ MouseTracked /\ OverClient /\ OverFrame /\ OverButton
  /\ pos = Outside => WillLeave(posted, isMouseLeaveBlocked, tracked)

LEMMA NotOutside == Outside \notin ButtonPixels /\ Outside \notin Pixels
BY DataAssumption DEF Mouse!MouseAssumption

LEMMA HitButton ==
  ASSUME NEW p, Mouse!HitTest(p) = "ChromeButton"
  PROVE  p \in ButtonPixels /\ ~Mouse!InClient(p)
<1>1. Mouse!InSystemButtons(p)
  BY Zenon DEF Mouse!HitTest
<1> QED BY <1>1 DEF Mouse!InSystemButtons, Mouse!InClient

LEMMA HitParts == \A p : Mouse!HitTest(p) \in Mouse!Parts
BY Zenon DEF Mouse!HitTest, Mouse!Parts

LEMMA MousePromises == MouseInv => Mouse!HoverFollows /\ Mouse!TypeOK
<1> SUFFICES ASSUME MouseInv, Mouse!Quiet PROVE Mouse!HoverFollows
  BY DEF MouseInv, Mouse!HoverFollows
<1>1. posted = <<>> /\ ~moved /\ DOMAIN posted = {}
  BY DEF Mouse!Quiet
<1>2. ASSUME pos # Outside, Mouse!HitTest(pos) = "ChromeButton"
      PROVE  hover # Outside /\ Mouse!InSystemButtons(hover)
  BY <1>1, <1>2, NotOutside DEF MouseInv, OverButton, Settled, Mouse!InSystemButtons
<1>3. ASSUME hover # Outside
      PROVE  pos # Outside /\ (Mouse!InClient(pos) \/ Mouse!InSystemButtons(pos))
  <2>1. tracked
    BY <1>3 DEF MouseInv, MouseTracked
  <2>2. pos # Outside
    BY <1>1, <2>1 DEF MouseInv, WillLeave
  <2>3. CASE Mouse!HitTest(pos) = "ChromeButton"
    BY <2>2, <2>3, HitButton DEF Mouse!InSystemButtons
  <2>4. CASE Mouse!HitTest(pos) # "ChromeButton"
    BY <1>1, <2>1, <2>2, <2>4 DEF MouseInv, OverFrame, Settled, Mouse!InSystemButtons
  <2> QED BY <2>2, <2>3, <2>4
<1> QED BY <1>2, <1>3 DEF Mouse!HoverFollows

LEMMA MouseStart == Mouse!Init => MouseInv
<1> SUFFICES ASSUME Mouse!Init PROVE MouseInv
  OBVIOUS
<1>1. posted = <<>> /\ DOMAIN posted = {} /\ pos = Outside /\ hover = Outside /\ ~moved /\ ~tracked /\ ~tracking
  BY DEF Mouse!Init
<1>2. Mouse!TypeOK
  <2>1. posted \in Seq(Mouse!Message)
    BY <1>1
  <2> QED BY <2>1 DEF Mouse!Init, Mouse!TypeOK, Mouse!Parts
<1> QED BY <1>1, <1>2 DEF MouseInv, MouseTracked, OverClient, OverFrame, OverButton, Settled, WillLeave, NoMove

\* A queue from which s messages have been taken, and to whose end others have come.
Follows(q, e, r, s) ==
  /\ DOMAIN q = 1 .. Len(q) /\ DOMAIN e = 1 .. Len(e) /\ DOMAIN r = 1 .. (Len(q) - s) + Len(e)
  /\ Len(q) \in Nat /\ Len(e) \in Nat /\ s <= Len(q)
  /\ \A i \in s + 1 .. Len(q) : r[i - s] = q[i]
  /\ \A i \in 1 .. Len(e) : r[(Len(q) - s) + i] = e[i]

LEMMA QueueGrows ==
  ASSUME NEW S, NEW q \in Seq(S), NEW e \in Seq(S)
  PROVE  q \o e \in Seq(S) /\ Follows(q, e, q \o e, 0)
<1>1. /\ Len(q) \in Nat /\ Len(e) \in Nat /\ DOMAIN q = 1 .. Len(q) /\ DOMAIN e = 1 .. Len(e)
      /\ q \o e \in Seq(S) /\ Len(q \o e) = Len(q) + Len(e) /\ DOMAIN (q \o e) = 1 .. Len(q) + Len(e)
  OBVIOUS
<1>2. \A i \in 1 .. Len(q) : (q \o e)[i] = q[i]
  BY <1>1
<1>3. \A i \in 1 .. Len(e) : (q \o e)[Len(q) + i] = e[i]
  BY <1>1
<1> QED BY <1>1, <1>2, <1>3 DEF Follows

LEMMA QueueMoves ==
  ASSUME NEW S, NEW q \in Seq(S), q # <<>>, NEW e \in Seq(S)
  PROVE  /\ Tail(q) \o e \in Seq(S) /\ Follows(q, e, Tail(q) \o e, 1)
         /\ Head(q) = q[1] /\ 1 \in DOMAIN q
<1>1. /\ Len(q) \in Nat \ {0} /\ DOMAIN q = 1 .. Len(q)
      /\ Tail(q) \in Seq(S) /\ Len(Tail(q)) = Len(q) - 1
      /\ \A i \in 1 .. Len(q) - 1 : Tail(q)[i] = q[i + 1]
  OBVIOUS
<1>2. Head(q) = q[1] /\ 1 \in DOMAIN q
  BY <1>1
<1> DEFINE t == Tail(q)
<1>3. t \in Seq(S) /\ Len(t) = Len(q) - 1 /\ \A i \in 1 .. Len(q) - 1 : t[i] = q[i + 1]
  BY <1>1
<1> HIDE DEF t
<1>4. /\ t \o e \in Seq(S) /\ Len(e) \in Nat /\ DOMAIN e = 1 .. Len(e)
      /\ DOMAIN (t \o e) = 1 .. Len(t) + Len(e)
  <2>1. t \in Seq(S)
    BY <1>3
  <2> QED BY <2>1, QueueGrows DEF Follows
<1>5. \A i \in 1 .. Len(t) : (t \o e)[i] = t[i]
  BY <1>3, <1>4
<1>6. \A i \in 1 .. Len(e) : (t \o e)[Len(t) + i] = e[i]
  BY <1>3, <1>4
<1>7. \A i \in 1 + 1 .. Len(q) : (t \o e)[i - 1] = q[i]
  <2> SUFFICES ASSUME NEW i \in 1 + 1 .. Len(q) PROVE (t \o e)[i - 1] = q[i]
    OBVIOUS
  <2>1. i - 1 \in 1 .. Len(t) /\ i - 1 \in 1 .. Len(q) - 1 /\ (i - 1) + 1 = i
    BY <1>1, <1>3
  <2> QED BY <1>3, <1>5, <2>1
<1>8. Follows(q, e, t \o e, 1)
  BY <1>1, <1>3, <1>4, <1>6, <1>7 DEF Follows
<1> QED BY <1>2, <1>4, <1>8 DEF t

\* What of a queue is in the one that follows, and where what is in it comes from.
LEMMA Shifted ==
  ASSUME NEW q, NEW e, NEW r, NEW s \in {0, 1}, Follows(q, e, r, s)
  PROVE  /\ \A i \in DOMAIN q : i > s => i - s \in DOMAIN r /\ r[i - s] = q[i]
         /\ \A i \in DOMAIN e : (Len(q) - s) + i \in DOMAIN r /\ r[(Len(q) - s) + i] = e[i]
         /\ \A k \in DOMAIN r :
              \/ k + s \in DOMAIN q /\ r[k] = q[k + s]
              \/ /\ k > Len(q) - s /\ k - (Len(q) - s) \in DOMAIN e
                 /\ r[k] = e[k - (Len(q) - s)]
<1>1. /\ DOMAIN q = 1 .. Len(q) /\ DOMAIN e = 1 .. Len(e) /\ DOMAIN r = 1 .. (Len(q) - s) + Len(e)
      /\ Len(q) \in Nat /\ Len(e) \in Nat /\ s <= Len(q)
      /\ \A i \in s + 1 .. Len(q) : r[i - s] = q[i]
      /\ \A i \in 1 .. Len(e) : r[(Len(q) - s) + i] = e[i]
  BY DEF Follows
<1>2. ASSUME NEW i \in DOMAIN q, i > s PROVE i - s \in DOMAIN r /\ r[i - s] = q[i]
  <2>1. i \in s + 1 .. Len(q) /\ i - s \in 1 .. (Len(q) - s) + Len(e)
    BY <1>1, <1>2
  <2> QED BY <1>1, <2>1
<1>3. ASSUME NEW i \in DOMAIN e PROVE (Len(q) - s) + i \in DOMAIN r /\ r[(Len(q) - s) + i] = e[i]
  <2>1. (Len(q) - s) + i \in 1 .. (Len(q) - s) + Len(e)
    BY <1>1, <1>3
  <2> QED BY <1>1, <1>3, <2>1
<1>4. ASSUME NEW k \in DOMAIN r
      PROVE  \/ k + s \in DOMAIN q /\ r[k] = q[k + s]
             \/ /\ k > Len(q) - s /\ k - (Len(q) - s) \in DOMAIN e
                /\ r[k] = e[k - (Len(q) - s)]
  <2>1. CASE k <= Len(q) - s
    <3>1. k + s \in s + 1 .. Len(q) /\ k + s \in DOMAIN q /\ (k + s) - s = k
      BY <1>1, <2>1
    <3> QED BY <1>1, <3>1
  <2>2. CASE k > Len(q) - s
    <3>1. k - (Len(q) - s) \in 1 .. Len(e) /\ (Len(q) - s) + (k - (Len(q) - s)) = k
      BY <1>1, <2>2
    <3> QED BY <1>1, <2>2, <3>1
  <2> QED BY <1>1, <2>1, <2>2
<1> QED BY <1>2, <1>3, <1>4

\* What a new message at the end, or one that stays, is worth.
LEMMA LeaveComes ==
  ASSUME NEW q, NEW e, NEW r, NEW s \in {0, 1}, Follows(q, e, r, s),
         e # <<>>, Clean(e[Len(e)]), NEW b, NEW t
  PROVE  WillLeave(r, b, t)
<1>1. Len(e) \in Nat /\ DOMAIN e = 1 .. Len(e) /\ Len(q) \in Nat /\ DOMAIN r = 1 .. (Len(q) - s) + Len(e)
  BY DEF Follows
<1> DEFINE k == (Len(q) - s) + Len(e)
<1>2. Len(e) # 0
  BY <1>1
<1>3. k \in DOMAIN r /\ r[k] = e[Len(e)]
  <2>1. Len(e) \in DOMAIN e
    BY <1>1, <1>2
  <2> QED BY <2>1, Shifted
<1>4. NoneBehind(r, k)
  BY <1>1, <1>3 DEF NoneBehind
<1> QED BY <1>3, <1>4 DEF WillLeave

\* A place with no movement behind it keeps that if no movement comes.
LEMMA NoneComes ==
  ASSUME NEW q, NEW e, NEW r, NEW s \in {0, 1}, Follows(q, e, r, s), NoMove(e),
         NEW i \in DOMAIN q, i > s, NoneBehind(q, i)
  PROVE  i - s \in DOMAIN r /\ r[i - s] = q[i] /\ NoneBehind(r, i - s)
<1>1. i \in Nat /\ Len(q) \in Nat
  BY DEF Follows
<1>2. i - s \in DOMAIN r /\ r[i - s] = q[i]
  BY Shifted
<1>3. ASSUME NEW j \in DOMAIN r, j > i - s PROVE r[j].msg # "MOUSEMOVE"
  <2>1. j \in Nat
    BY DEF Follows
  <2>2. CASE j + s \in DOMAIN q /\ r[j] = q[j + s]
    <3>1. j + s > i
      BY <1>1, <1>3, <2>1
    <3> QED BY <2>2, <3>1 DEF NoneBehind
  <2>3. CASE j - (Len(q) - s) \in DOMAIN e /\ r[j] = e[j - (Len(q) - s)]
    BY <2>3 DEF NoMove
  <2> QED BY <2>2, <2>3, Shifted
<1> QED BY <1>2, <1>3 DEF NoneBehind

LEMMA NoMoveComes ==
  ASSUME NEW q, NEW e, NEW r, NEW s \in {0, 1}, Follows(q, e, r, s), NoMove(e), NoMove(q)
  PROVE  NoMove(r)
BY Shifted DEF NoMove

\* What Windows posts when it is asked to tell of the pointer's leaving.
Asked(asked) == IF asked /\ ~Mouse!InClient(pos) THEN << Mouse!Leave(pos) >> ELSE <<>>

LEMMA NothingComes == \A S : \A q \in Seq(S) : q \o <<>> = q
  OBVIOUS

LEMMA AskedIs ==
  ASSUME Mouse!TypeOK, NEW asked
  PROVE  /\ Asked(asked) \in Seq(Mouse!Message) /\ NoMove(Asked(asked))
         /\ \A i \in DOMAIN Asked(asked) : Asked(asked)[i] = Mouse!Leave(pos)
         /\ asked /\ ~Mouse!InClient(pos) => Asked(asked) # <<>> /\ Asked(asked)[Len(Asked(asked))] = Mouse!Leave(pos)
         /\ ~(asked /\ ~Mouse!InClient(pos)) => Asked(asked) = <<>>
<1> DEFINE m == Mouse!Leave(pos)
<1>1. m \in Mouse!Message /\ m.msg = "MOUSELEAVE"
  BY DEF Mouse!Leave, Mouse!Message, Mouse!TypeOK
<1> HIDE DEF m
<1>2. << m >> \in Seq(Mouse!Message)
  BY <1>1, Singletons
<1>3. DOMAIN << m >> = {1} /\ Len(<< m >>) = 1 /\ << m >>[1] = m /\ << m >> # <<>>
  OBVIOUS
<1>4. CASE asked /\ ~Mouse!InClient(pos)
  <2>1. Asked(asked) = << m >>
    BY <1>4 DEF Asked, m
  <2> QED BY <1>1, <1>2, <1>3, <1>4, <2>1 DEF NoMove, m
<1>5. CASE ~(asked /\ ~Mouse!InClient(pos))
  <2>1. Asked(asked) = <<>>
    BY <1>5 DEF Asked
  <2>2. Asked(asked) \in Seq(Mouse!Message) /\ DOMAIN Asked(asked) = {}
    BY <2>1
  <2> QED BY <1>5, <2>1, <2>2 DEF NoMove
<1> QED BY <1>4, <1>5

\* A posted movement: Qt is at its place, and asks to be told of the leaving.
LEMMA MoveSeen ==
  ASSUME Mouse!TypeOK, Mouse!Dispatch, Head(posted).msg = "MOUSEMOVE"
  PROVE  LET asked == (lastHitTestResult # "ChromeButton" /\ isMouseLeaveBlocked) \/ ~tracked
         IN  /\ posted # <<>>
             /\ posted' = Tail(posted) \o Asked(asked)
             /\ tracking' = (tracking \/ (asked /\ Mouse!InClient(pos)))
             /\ lastHitTestResult' = lastHitTestResult
             /\ isMouseLeaveBlocked' = (isMouseLeaveBlocked /\ lastHitTestResult = "ChromeButton")
             /\ tracked' = TRUE /\ hover' = Head(posted).pt
             /\ UNCHANGED <<pos, state, fixed, hooked, moved, ncTracking>>
<1> DEFINE h == Mouse!Filtering(lastHitTestResult)
           once == Mouse!FilterMouseMove(h)
           f == IF once.consumed \/ ~hooked THEN once ELSE Mouse!FilterMouseMove(once)
           requests == lastHitTestResult # "ChromeButton" /\ isMouseLeaveBlocked
<1>1. /\ posted # <<>> /\ Mouse!After(f, Tail(posted), <<>>, ~tracked, tracking)
      /\ tracked' = TRUE /\ hover' = Head(posted).pt
      /\ UNCHANGED <<pos, state, fixed, hooked, moved, ncTracking>>
  BY DEF Mouse!Dispatch, Mouse!Twice, Mouse!window
<1>2. h = [last |-> lastHitTestResult, blocked |-> isMouseLeaveBlocked, posts |-> <<>>,
           request |-> FALSE, consumed |-> FALSE]
  BY DEF Mouse!Filtering
<1> HIDE DEF h
<1>3. once = [last |-> lastHitTestResult, blocked |-> IF requests THEN FALSE ELSE isMouseLeaveBlocked,
              posts |-> <<>>, request |-> requests, consumed |-> FALSE]
  <2>1. CASE requests
    BY <1>2, <2>1 DEF Mouse!FilterMouseMove
  <2>2. CASE ~requests
    BY <1>2, <2>2 DEF Mouse!FilterMouseMove
  <2> QED BY <2>1, <2>2
<1>4. once.last = lastHitTestResult /\ once.blocked = (IF requests THEN FALSE ELSE isMouseLeaveBlocked)
      /\ once.posts = <<>> /\ once.request = requests /\ once.consumed = FALSE
  <2> HIDE DEF requests
  <2> QED BY <1>3
<1> HIDE DEF once
<1>5. f = once
  BY <1>4 DEF Mouse!FilterMouseMove
<1>6. f.last = lastHitTestResult /\ f.blocked = (IF requests THEN FALSE ELSE isMouseLeaveBlocked)
      /\ f.posts = <<>> /\ f.request = requests
  BY <1>4, <1>5
<1> HIDE DEF f
<1>7. Tail(posted) \in Seq(Mouse!Message) /\ isMouseLeaveBlocked \in BOOLEAN
  BY <1>1 DEF Mouse!TypeOK
<1>8. (Tail(posted) \o <<>>) \o <<>> = Tail(posted)
  BY <1>7, NothingComes
<1> DEFINE asked == requests \/ ~tracked
<1>9. Mouse!If(asked /\ ~Mouse!InClient(pos), << Mouse!Leave(pos) >>) = Asked(asked)
  BY DEF Mouse!If, Asked
<1>10. /\ posted' = Tail(posted) \o Asked(asked)
       /\ tracking' = (tracking \/ (asked /\ Mouse!InClient(pos)))
       /\ lastHitTestResult' = f.last /\ isMouseLeaveBlocked' = f.blocked
  BY <1>1, <1>6, <1>8, <1>9 DEF Mouse!After
<1> QED BY <1>1, <1>6, <1>7, <1>10

\* A leaving from a button is held back, any other leaves Qt without the pointer.
LEMMA LeaveSeen ==
  ASSUME Mouse!TypeOK, Mouse!Dispatch, Head(posted).msg = "MOUSELEAVE"
  PROVE  LET held == Held(Head(posted))
         IN  /\ posted # <<>>
             /\ posted' = Tail(posted) \o <<>>
             /\ lastHitTestResult' = lastHitTestResult
             /\ isMouseLeaveBlocked' = held
             /\ tracked' = (tracked /\ held) /\ hover' = IF held THEN hover ELSE Outside
             /\ UNCHANGED <<pos, state, fixed, hooked, moved, ncTracking, tracking>>
<1> DEFINE m == Head(posted)
           held == Held(m)
           h == Mouse!Filtering(lastHitTestResult)
           once == Mouse!FilterMouseLeave(h, m)
           f == IF once.consumed \/ ~hooked THEN once ELSE Mouse!FilterMouseLeave(once, m)
<1>1. /\ posted # <<>> /\ Mouse!After(f, Tail(posted), <<>>, FALSE, tracking)
      /\ tracked' = (tracked /\ f.consumed) /\ hover' = IF f.consumed THEN hover ELSE Outside
      /\ UNCHANGED <<pos, state, fixed, hooked, moved, ncTracking>>
  BY DEF Mouse!Dispatch, Mouse!Twice, Mouse!window
<1>2. /\ h.last = lastHitTestResult /\ h.blocked = isMouseLeaveBlocked /\ h.posts = <<>>
      /\ h.request = FALSE /\ h.consumed = FALSE
      /\ h = [last |-> h.last, blocked |-> h.blocked, posts |-> h.posts, request |-> h.request,
              consumed |-> h.consumed]
  BY DEF Mouse!Filtering
<1>3. (~m.tag /\ Mouse!InSystemButtons(m.pt)) <=> held
  BY DEF Held, Mouse!InSystemButtons
<1> HIDE DEF h, held, m
<1>4. once = [last |-> lastHitTestResult, blocked |-> held, posts |-> <<>>, request |-> FALSE, consumed |-> held]
  <2>1. CASE held
    BY <1>2, <1>3, <2>1 DEF Mouse!FilterMouseLeave
  <2>2. CASE ~held
    BY <1>2, <1>3, <2>2 DEF Mouse!FilterMouseLeave, held, Held
  <2> QED BY <2>1, <2>2
<1>5. once.last = lastHitTestResult /\ once.blocked = held /\ once.posts = <<>> /\ once.request = FALSE
      /\ once.consumed = held
  BY <1>4
<1>6. ~held => Mouse!FilterMouseLeave(once, m) = once
  BY <1>3, <1>4 DEF Mouse!FilterMouseLeave, held, Held
<1> HIDE DEF once
<1>7. f = once
  BY <1>5, <1>6
<1> HIDE DEF f
<1>8. Tail(posted) \in Seq(Mouse!Message) /\ tracking \in BOOLEAN
  BY <1>1 DEF Mouse!TypeOK
<1>9. (Tail(posted) \o <<>>) \o <<>> = Tail(posted) /\ Tail(posted) \o <<>> = Tail(posted)
  BY <1>8, NothingComes
<1>10. /\ posted' = Tail(posted) \o <<>> /\ tracking' = tracking
       /\ lastHitTestResult' = f.last /\ isMouseLeaveBlocked' = f.blocked
  BY <1>1, <1>5, <1>7, <1>8, <1>9 DEF Mouse!After, Mouse!If
<1> QED BY <1>1, <1>5, <1>7, <1>10 DEF held, m

\* The pointer has left the frame: a leaving that was held back is made up for.
MadeUp(m) ==
  IF lastHitTestResult = "ChromeButton" THEN Asked(TRUE)
  ELSE LET leave == [msg |-> "MOUSELEAVE", tag |-> TRUE, pt |-> m.pt]
       IN  IF hooked THEN Append(<< leave >>, leave) ELSE << leave >>

LEMMA NcLeaveSeen ==
  ASSUME Mouse!TypeOK, Mouse!Dispatch, Head(posted).msg = "NCMOUSELEAVE"
  PROVE  /\ posted # <<>>
         /\ posted' = Tail(posted) \o (IF isMouseLeaveBlocked THEN MadeUp(Head(posted)) ELSE <<>>)
         /\ lastHitTestResult' = lastHitTestResult
         /\ isMouseLeaveBlocked' = (isMouseLeaveBlocked /\ lastHitTestResult # "ChromeButton")
         /\ tracking' = (tracking \/ (isMouseLeaveBlocked /\ lastHitTestResult = "ChromeButton"
                                       /\ Mouse!InClient(pos)))
         /\ UNCHANGED <<pos, state, fixed, hooked, moved, ncTracking, tracked, hover>>
<1> DEFINE m == Head(posted)
           h == Mouse!Filtering(lastHitTestResult)
           once == Mouse!FilterNcMouseLeave(h, m.pt)
           f == IF once.consumed \/ ~hooked THEN once ELSE Mouse!FilterNcMouseLeave(once, m.pt)
           leave == [msg |-> "MOUSELEAVE", tag |-> TRUE, pt |-> m.pt]
<1>1. /\ posted # <<>> /\ Mouse!After(f, Tail(posted), <<>>, FALSE, tracking)
      /\ UNCHANGED <<pos, state, fixed, hooked, moved, ncTracking, tracked, hover>>
  BY DEF Mouse!Dispatch, Mouse!Twice, Mouse!window
<1>2. h = [last |-> lastHitTestResult, blocked |-> isMouseLeaveBlocked, posts |-> <<>>,
           request |-> FALSE, consumed |-> FALSE]
  BY DEF Mouse!Filtering
<1>3. Tail(posted) \in Seq(Mouse!Message) /\ tracking \in BOOLEAN /\ isMouseLeaveBlocked \in BOOLEAN
  BY <1>1 DEF Mouse!TypeOK
<1>4. (Tail(posted) \o <<>>) \o <<>> = Tail(posted) /\ Tail(posted) \o <<>> = Tail(posted)
  BY <1>3, NothingComes
<1> HIDE DEF h
<1>5. CASE ~isMouseLeaveBlocked
  <2>1. once = h /\ h.consumed = FALSE
    BY <1>2, <1>5 DEF Mouse!FilterNcMouseLeave
  <2>2. f = h
    BY <1>2, <1>5, <2>1 DEF Mouse!FilterNcMouseLeave
  <2> HIDE DEF f, once
  <2>3. posted' = Tail(posted) /\ tracking' = tracking /\ lastHitTestResult' = lastHitTestResult
        /\ isMouseLeaveBlocked' = FALSE
    BY <1>1, <1>2, <1>3, <1>4, <1>5, <2>2 DEF Mouse!After, Mouse!If
  <2> QED BY <1>1, <1>3, <1>4, <1>5, <2>3
<1>6. CASE isMouseLeaveBlocked /\ lastHitTestResult = "ChromeButton"
  <2>1. once = [last |-> lastHitTestResult, blocked |-> FALSE, posts |-> <<>>, request |-> TRUE, consumed |-> FALSE]
    BY <1>2, <1>6 DEF Mouse!FilterNcMouseLeave
  <2>2. f = once
    BY <2>1 DEF Mouse!FilterNcMouseLeave
  <2>3. f.last = lastHitTestResult /\ f.blocked = FALSE /\ f.posts = <<>> /\ f.request = TRUE
    BY <2>1, <2>2
  <2> HIDE DEF f, once
  <2>4. posted' = Tail(posted) \o Asked(TRUE) /\ tracking' = (tracking \/ Mouse!InClient(pos))
        /\ lastHitTestResult' = lastHitTestResult /\ isMouseLeaveBlocked' = FALSE
    BY <1>1, <1>4, <2>3 DEF Mouse!After, Mouse!If, Asked
  <2> QED BY <1>1, <1>6, <2>4 DEF MadeUp
<1>7. CASE isMouseLeaveBlocked /\ lastHitTestResult # "ChromeButton"
  <2> DEFINE p == IF hooked THEN Append(<< leave >>, leave) ELSE << leave >>
  <2>1. once = [last |-> lastHitTestResult, blocked |-> TRUE, posts |-> << leave >>, request |-> FALSE, consumed |-> FALSE]
    <3>1. Append(<<>>, leave) = << leave >>
      OBVIOUS
    <3> HIDE DEF leave
    <3> QED BY <1>2, <1>7, <3>1 DEF Mouse!FilterNcMouseLeave, Mouse!Emulate, leave
  <2>2. f = [last |-> lastHitTestResult, blocked |-> TRUE, posts |-> p, request |-> FALSE, consumed |-> FALSE]
    <3> HIDE DEF leave, once
    <3> QED BY <1>7, <2>1 DEF Mouse!FilterNcMouseLeave, Mouse!Emulate, leave, p
  <2> HIDE DEF f, once, p, leave
  <2>3. f.last = lastHitTestResult /\ f.blocked = TRUE /\ f.posts = p /\ f.request = FALSE
    BY <2>2
  <2>4. leave \in Mouse!Message
    <3>1. m \in Mouse!Message
      BY <1>1 DEF Mouse!TypeOK
    <3>2. m.pt \in Pixels \cup {Outside}
      BY <3>1 DEF Mouse!Message
    <3> QED BY <3>2 DEF Mouse!Message, leave
  <2>5. p \in Seq(Mouse!Message)
    <3> QED BY <2>4 DEF p
  <2>6. Tail(posted) \o p \in Seq(Mouse!Message)
    BY <1>3, <2>5
  <2>7. ((Tail(posted) \o p) \o <<>>) \o <<>> = Tail(posted) \o p
    BY <2>6, NothingComes
  <2>8. posted' = Tail(posted) \o p /\ tracking' = tracking
        /\ lastHitTestResult' = lastHitTestResult /\ isMouseLeaveBlocked' = TRUE
    BY <1>1, <1>3, <2>3, <2>7 DEF Mouse!After, Mouse!If
  <2> QED BY <1>1, <1>3, <1>7, <2>8 DEF MadeUp, p, leave
<1> QED BY <1>3, <1>5, <1>6, <1>7

\* A movement in the client area.
LEMMA MouseMoveSeen ==
  ASSUME Mouse!TypeOK, Mouse!MouseMove
  PROVE  /\ moved /\ posted = <<>> /\ Mouse!InClient(pos)
         /\ posted' \in Seq(Mouse!Message) /\ \A i \in DOMAIN posted' : posted'[i].msg = "NCMOUSELEAVE"
         /\ tracking' = (tracking \/ isMouseLeaveBlocked \/ ~tracked)
         /\ lastHitTestResult' = "ClientArea" /\ isMouseLeaveBlocked' = FALSE
         /\ moved' = FALSE /\ ncTracking' = FALSE /\ tracked' = TRUE /\ hover' = pos
         /\ UNCHANGED <<pos, state, fixed, hooked>>
<1> DEFINE h == Mouse!Filtering("ClientArea")
           once == Mouse!FilterMouseMove(h)
           f == IF once.consumed \/ ~hooked THEN once ELSE Mouse!FilterMouseMove(once)
           more == IF ncTracking THEN << Mouse!NcLeave(pos) >> ELSE <<>>
<1>1. /\ moved /\ posted = <<>> /\ Mouse!InClient(pos)
      /\ Mouse!After(f, posted, more, ~tracked, tracking)
      /\ moved' = FALSE /\ ncTracking' = FALSE /\ tracked' = TRUE /\ hover' = pos
      /\ UNCHANGED <<pos, state, fixed, hooked>>
  BY DEF Mouse!MouseMove, Mouse!Twice, Mouse!window, Mouse!If
<1>2. h = [last |-> "ClientArea", blocked |-> isMouseLeaveBlocked, posts |-> <<>>,
           request |-> FALSE, consumed |-> FALSE]
  BY DEF Mouse!Filtering
<1> HIDE DEF h
<1>3. isMouseLeaveBlocked \in BOOLEAN
  BY DEF Mouse!TypeOK
<1>4. once = [last |-> "ClientArea", blocked |-> FALSE, posts |-> <<>>,
              request |-> isMouseLeaveBlocked, consumed |-> FALSE]
  <2>1. CASE isMouseLeaveBlocked
    BY <1>2, <1>3, <2>1 DEF Mouse!FilterMouseMove
  <2>2. CASE ~isMouseLeaveBlocked
    BY <1>2, <1>3, <2>2 DEF Mouse!FilterMouseMove
  <2> QED BY <2>1, <2>2
<1>5. once.last = "ClientArea" /\ once.blocked = FALSE /\ once.posts = <<>>
      /\ once.request = isMouseLeaveBlocked /\ once.consumed = FALSE
  BY <1>4
<1> HIDE DEF once
<1>6. f = once
  BY <1>5 DEF Mouse!FilterMouseMove
<1> HIDE DEF f
<1>7. more \in Seq(Mouse!Message) /\ \A i \in DOMAIN more : more[i].msg = "NCMOUSELEAVE"
  <2> DEFINE m == Mouse!NcLeave(pos)
  <2>1. m \in Mouse!Message /\ m.msg = "NCMOUSELEAVE"
    BY DEF Mouse!NcLeave, Mouse!Message, Mouse!TypeOK
  <2> HIDE DEF m
  <2>2. << m >> \in Seq(Mouse!Message) /\ DOMAIN << m >> = {1} /\ << m >>[1] = m
    BY <2>1, Singletons
  <2>3. <<>> \in Seq(Mouse!Message) /\ DOMAIN <<>> = {}
    OBVIOUS
  <2>4. more = IF ncTracking THEN << m >> ELSE <<>>
    BY DEF m
  <2> HIDE DEF more
  <2>5. CASE ncTracking
    <3>1. more = << m >>
      BY <2>4, <2>5
    <3> QED BY <2>1, <2>2, <3>1
  <2>6. CASE ~ncTracking
    <3>1. more = <<>>
      BY <2>4, <2>6
    <3> QED BY <2>3, <3>1
  <2> QED BY <2>5, <2>6
<1> HIDE DEF more
<1>8. ((<<>> \o <<>>) \o more) \o <<>> = more
  BY <1>7
<1>9. posted' = more /\ tracking' = (tracking \/ isMouseLeaveBlocked \/ ~tracked)
      /\ lastHitTestResult' = "ClientArea" /\ isMouseLeaveBlocked' = FALSE
  BY <1>1, <1>5, <1>6, <1>8 DEF Mouse!After, Mouse!If
<1> QED BY <1>1, <1>7, <1>9

\* A movement over the frame, the title bar or a button.
LEMMA NcMouseMoveSeen ==
  ASSUME Mouse!TypeOK, Mouse!NcMouseMove
  PROVE  /\ moved /\ posted = <<>> /\ ~Mouse!InClient(pos)
         /\ posted' \in Seq(Mouse!Message)
         /\ Mouse!HitTest(pos) = "ChromeButton" =>
              /\ \A i \in DOMAIN posted' :
                   posted'[i].pt = pos /\ (posted'[i].msg = "MOUSEMOVE" \/ posted'[i] = Mouse!Leave(pos))
              /\ \E i \in DOMAIN posted' : posted'[i].msg = "MOUSEMOVE"
              /\ tracking => \E i \in DOMAIN posted' : posted'[i].msg = "MOUSELEAVE"
         /\ Mouse!HitTest(pos) # "ChromeButton" =>
              /\ \A i \in DOMAIN posted' :
                   posted'[i].msg = "MOUSELEAVE" /\ (posted'[i].tag \/ posted'[i].pt = pos)
              /\ isMouseLeaveBlocked \/ tracking => \E i \in DOMAIN posted' : posted'[i].msg = "MOUSELEAVE"
         /\ tracking' = FALSE /\ lastHitTestResult' = "Outside"
         /\ moved' = FALSE /\ ncTracking' = TRUE
         /\ UNCHANGED <<pos, state, fixed, hooked, tracked, hover, isMouseLeaveBlocked>>
<1> DEFINE h == Mouse!Filtering(Mouse!HitTest(pos))
           once == Mouse!FilterNcMouseMove(h, pos)
           f == IF once.consumed \/ ~hooked THEN once ELSE Mouse!FilterNcMouseMove(once, pos)
           move == [msg |-> "MOUSEMOVE", tag |-> FALSE, pt |-> pos]
           made == [msg |-> "MOUSELEAVE", tag |-> TRUE, pt |-> pos]
           leave == Mouse!Leave(pos)
           more == IF tracking THEN << leave >> ELSE <<>>
           posts == IF Mouse!HitTest(pos) = "ChromeButton" THEN << move >>
                    ELSE IF ~isMouseLeaveBlocked THEN <<>>
                    ELSE IF hooked THEN Append(<< made >>, made) ELSE << made >>
<1>1. /\ moved /\ posted = <<>> /\ ~Mouse!InClient(pos)
      /\ Mouse!After(f, posted, more, FALSE, FALSE)
      /\ moved' = FALSE /\ ncTracking' = TRUE
      /\ UNCHANGED <<pos, state, fixed, hooked, tracked, hover>>
  BY DEF Mouse!NcMouseMove, Mouse!Twice, Mouse!window, Mouse!If
<1>2. h = [last |-> Mouse!HitTest(pos), blocked |-> isMouseLeaveBlocked, posts |-> <<>>,
           request |-> FALSE, consumed |-> FALSE]
  BY DEF Mouse!Filtering
<1> HIDE DEF h
<1>3. /\ move \in Mouse!Message /\ move.msg = "MOUSEMOVE" /\ move.pt = pos
      /\ made \in Mouse!Message /\ made.msg = "MOUSELEAVE" /\ made.tag /\ made.pt = pos
      /\ leave \in Mouse!Message /\ leave.msg = "MOUSELEAVE" /\ leave.pt = pos
  BY DEF Mouse!TypeOK, Mouse!Message, Mouse!Leave
<1>4. f.last = "Outside" /\ f.blocked = isMouseLeaveBlocked /\ f.request = FALSE /\ f.posts = posts
  <2>1. CASE Mouse!HitTest(pos) = "ChromeButton"
    <3>1. Append(<<>>, move) = << move >>
      OBVIOUS
    <3>2. once = [last |-> "Outside", blocked |-> isMouseLeaveBlocked, posts |-> Append(<<>>, move),
                  request |-> FALSE, consumed |-> TRUE]
      BY <1>2, <2>1 DEF Mouse!FilterNcMouseMove, Mouse!Emulate
    <3> HIDE DEF once, move
    <3>3. f = once
      BY <3>2
    <3> HIDE DEF f
    <3> QED BY <2>1, <3>1, <3>2, <3>3
  <2>2. CASE Mouse!HitTest(pos) # "ChromeButton" /\ ~isMouseLeaveBlocked
    <3>1. once = [last |-> "Outside", blocked |-> isMouseLeaveBlocked, posts |-> <<>>,
                  request |-> FALSE, consumed |-> FALSE]
      BY <1>2, <2>2 DEF Mouse!FilterNcMouseMove
    <3> HIDE DEF once
    <3>2. Mouse!FilterNcMouseMove(once, pos) =
            [last |-> "Outside", blocked |-> isMouseLeaveBlocked, posts |-> <<>>,
             request |-> FALSE, consumed |-> FALSE]
      BY <2>2, <3>1 DEF Mouse!FilterNcMouseMove
    <3>3. f = once
      BY <3>1, <3>2
    <3> HIDE DEF f
    <3> QED BY <2>2, <3>1, <3>3
  <2>3. CASE Mouse!HitTest(pos) # "ChromeButton" /\ isMouseLeaveBlocked
    <3>1. Append(<<>>, made) = << made >>
      OBVIOUS
    <3>2. once = [last |-> "Outside", blocked |-> isMouseLeaveBlocked, posts |-> Append(<<>>, made),
                  request |-> FALSE, consumed |-> FALSE]
      BY <1>2, <2>3 DEF Mouse!FilterNcMouseMove, Mouse!Emulate
    <3> HIDE DEF once
    <3>3. Mouse!FilterNcMouseMove(once, pos) =
            [last |-> "Outside", blocked |-> isMouseLeaveBlocked, posts |-> Append(Append(<<>>, made), made),
             request |-> FALSE, consumed |-> FALSE]
      BY <2>3, <3>2 DEF Mouse!FilterNcMouseMove, Mouse!Emulate
    <3> HIDE DEF made
    <3>4. f = [last |-> "Outside", blocked |-> isMouseLeaveBlocked, posts |-> posts,
               request |-> FALSE, consumed |-> FALSE]
      BY <2>3, <3>1, <3>2, <3>3
    <3> HIDE DEF f, posts
    <3> QED BY <3>4
  <2> QED BY <2>1, <2>2, <2>3
<1> HIDE DEF f, once, move, made, leave
<1>5. /\ posts \in Seq(Mouse!Message)
      /\ Mouse!HitTest(pos) = "ChromeButton" => posts = << move >>
      /\ Mouse!HitTest(pos) # "ChromeButton" => \A i \in DOMAIN posts : posts[i] = made
      /\ Mouse!HitTest(pos) # "ChromeButton" /\ isMouseLeaveBlocked => 1 \in DOMAIN posts
  <2>1. << made >> \in Seq({made}) /\ DOMAIN << made >> = {1}
    BY Singletons
  <2>2. Append(<< made >>, made) \in Seq({made}) /\ DOMAIN Append(<< made >>, made) = 1 .. 2
    BY <2>1
  <2>3. \A s \in Seq({made}) : s \in Seq(Mouse!Message) /\ \A i \in DOMAIN s : s[i] = made
    BY <1>3
  <2>4. <<>> \in Seq({made}) /\ << move >> \in Seq(Mouse!Message)
    BY <1>3, Singletons
  <2>5. CASE Mouse!HitTest(pos) = "ChromeButton"
    BY <2>4, <2>5
  <2>6. CASE Mouse!HitTest(pos) # "ChromeButton"
    <3>1. posts \in Seq({made})
      BY <2>1, <2>2, <2>4, <2>6
    <3>2. isMouseLeaveBlocked => posts = << made >> \/ posts = Append(<< made >>, made)
      BY <2>6
    <3> HIDE DEF posts
    <3> QED BY <2>1, <2>2, <2>3, <2>6, <3>1, <3>2
  <2> QED BY <2>5, <2>6
<1>6. /\ more \in Seq(Mouse!Message)
      /\ \A i \in DOMAIN more : more[i] = leave
      /\ tracking => 1 \in DOMAIN more
  <2>1. << leave >> \in Seq(Mouse!Message) /\ DOMAIN << leave >> = {1} /\ << leave >>[1] = leave
    BY <1>3, Singletons
  <2>2. <<>> \in Seq(Mouse!Message) /\ DOMAIN <<>> = {}
    OBVIOUS
  <2>3. CASE tracking
    <3>1. more = << leave >>
      BY <2>3
    <3> QED BY <2>1, <3>1
  <2>4. CASE ~tracking
    <3>1. more = <<>>
      BY <2>4
    <3> QED BY <2>2, <2>4, <3>1
  <2> QED BY <2>3, <2>4
<1> HIDE DEF more, posts
<1>7. ((<<>> \o posts) \o more) \o <<>> = posts \o more
  <2>1. posts \o more \in Seq(Mouse!Message) /\ <<>> \o posts = posts
    BY <1>5, <1>6
  <2> QED BY <2>1, NothingComes
<1>8. /\ posted' = posts \o more /\ tracking' = FALSE /\ lastHitTestResult' = "Outside"
      /\ isMouseLeaveBlocked' = isMouseLeaveBlocked
  BY <1>1, <1>4, <1>7 DEF Mouse!After, Mouse!If
<1>9. posts \o more \in Seq(Mouse!Message) /\ Follows(posts, more, posts \o more, 0)
  BY <1>5, <1>6, QueueGrows
<1> DEFINE r == posts \o more
<1> HIDE DEF r
<1>10. /\ posted' = r /\ r \in Seq(Mouse!Message) /\ Follows(posts, more, r, 0)
       /\ \A i \in DOMAIN posts : i > 0 => i - 0 \in DOMAIN r /\ r[i - 0] = posts[i]
       /\ \A i \in DOMAIN more : (Len(posts) - 0) + i \in DOMAIN r /\ r[(Len(posts) - 0) + i] = more[i]
       /\ \A k \in DOMAIN r : \/ k + 0 \in DOMAIN posts /\ r[k] = posts[k + 0]
                              \/ k - (Len(posts) - 0) \in DOMAIN more /\ r[k] = more[k - (Len(posts) - 0)]
  BY <1>8, <1>9, Shifted DEF r
<1>11. CASE Mouse!HitTest(pos) = "ChromeButton"
  <2>1. 1 \in DOMAIN posts /\ posts[1] = move /\ \A i \in DOMAIN posts : posts[i] = move
    BY <1>5, <1>11
  <2>2. 1 - 0 \in DOMAIN r /\ r[1 - 0] = move
    BY <1>10, <2>1
  <2>3. \A k \in DOMAIN r : r[k] = move \/ r[k] = leave
    BY <1>6, <1>10, <2>1
  <2>4. tracking => \E i \in DOMAIN r : r[i] = leave
    BY <1>6, <1>10
  <2> QED BY <1>1, <1>3, <1>8, <1>10, <1>11, <2>2, <2>3, <2>4 DEF leave
<1>12. CASE Mouse!HitTest(pos) # "ChromeButton"
  <2>1. \A k \in DOMAIN r : r[k] = made \/ r[k] = leave
    BY <1>5, <1>6, <1>10, <1>12
  <2>2. tracking => \E i \in DOMAIN r : r[i] = leave
    BY <1>6, <1>10
  <2>3. isMouseLeaveBlocked => \E i \in DOMAIN r : r[i] = made
    <3>1. isMouseLeaveBlocked => 1 \in DOMAIN posts /\ posts[1] = made
      BY <1>5, <1>12
    <3> QED BY <1>10, <3>1
  <2> QED BY <1>1, <1>3, <1>8, <1>10, <1>12, <2>1, <2>2, <2>3
<1> QED BY <1>11, <1>12

\* Whoever does not move the pointer, change the window's state or fix its size sees the same window.
LEMMA SameWindow ==
  ASSUME UNCHANGED <<pos, state, fixed>>
  PROVE  /\ Mouse!HitTest(pos)' = Mouse!HitTest(pos)
         /\ Mouse!InClient(pos)' = Mouse!InClient(pos)
<1>1. Mouse!HitTest(pos)' = Mouse!HitTest(pos)
  BY DEF Mouse!HitTest, Mouse!ButtonEdge, Mouse!OnFrame, Mouse!InSystemButtons, Mouse!InClientRect,
     Mouse!InDraggableArea, Mouse!kBorderSize
<1> QED BY <1>1 DEF Mouse!InClient

\* That the head of the queue was a movement, a leaving from a button, another leaving, or
\* one from the frame.
LEMMA WillLeaveMove ==
  ASSUME NEW q, NEW e, NEW r, Follows(q, e, r, 1), q[1].msg = "MOUSEMOVE", 1 \in DOMAIN q,
         NEW b, NEW t, NEW c, WillLeave(q, b, t), NoMove(e),
         e = <<>> => t /\ c = b,
         e # <<>> => Clean(e[Len(e)])
  PROVE  WillLeave(r, c, TRUE)
<1>1. CASE e # <<>>
  BY <1>1, LeaveComes
<1>2. CASE e = <<>>
  <2>1. t /\ c = b /\ \A i \in DOMAIN q : i # 1 => i > 1
    BY <1>2 DEF Follows
  <2>2. CASE \E i \in DOMAIN q : NoneBehind(q, i) /\ Clean(q[i])
    <3>1. PICK i \in DOMAIN q : NoneBehind(q, i) /\ Clean(q[i])
      BY <2>2
    <3>2. i > 1
      BY <2>1, <3>1 DEF Clean
    <3>3. i - 1 \in DOMAIN r /\ r[i - 1] = q[i] /\ NoneBehind(r, i - 1)
      BY <3>1, <3>2, NoneComes
    <3> QED BY <3>1, <3>3 DEF WillLeave
  <2>3. CASE \E i \in DOMAIN q :
               /\ NoneBehind(q, i) /\ q[i].msg = "NCMOUSELEAVE"
               /\ b \/ \E j \in DOMAIN q : j < i /\ Held(q[j])
    <3>1. PICK i \in DOMAIN q :
               /\ NoneBehind(q, i) /\ q[i].msg = "NCMOUSELEAVE"
               /\ b \/ \E j \in DOMAIN q : j < i /\ Held(q[j])
      BY <2>3
    <3>2. i > 1
      BY <2>1, <3>1
    <3>3. i - 1 \in DOMAIN r /\ r[i - 1] = q[i] /\ NoneBehind(r, i - 1)
      BY <3>1, <3>2, NoneComes
    <3>4. CASE b
      BY <2>1, <3>1, <3>3, <3>4 DEF WillLeave
    <3>5. CASE \E j \in DOMAIN q : j < i /\ Held(q[j])
      <4>1. PICK j \in DOMAIN q : j < i /\ Held(q[j])
        BY <3>5
      <4>2. j > 1
        BY <2>1, <4>1 DEF Held
      <4>3. j - 1 \in DOMAIN r /\ r[j - 1] = q[j]
        BY <4>2, Shifted
      <4>4. j - 1 < i - 1
        BY <4>1 DEF Follows
      <4> QED BY <3>1, <3>3, <4>1, <4>3, <4>4 DEF WillLeave
    <3> QED BY <3>1, <3>4, <3>5
  <2> QED BY <2>1, <2>2, <2>3 DEF WillLeave
<1> QED BY <1>1, <1>2

LEMMA WillLeaveHeld ==
  ASSUME NEW q, NEW e, NEW r, Follows(q, e, r, 1), 1 \in DOMAIN q, Held(q[1]), NoMove(e),
         NEW b, NEW t, WillLeave(q, b, t)
  PROVE  WillLeave(r, TRUE, t)
<1>1. \A i \in DOMAIN q : i # 1 => i > 1
  BY DEF Follows
<1>2. CASE ~t /\ NoMove(q)
  BY <1>2, NoMoveComes DEF WillLeave
<1>3. CASE \E i \in DOMAIN q : NoneBehind(q, i) /\ Clean(q[i])
  <2>1. PICK i \in DOMAIN q : NoneBehind(q, i) /\ Clean(q[i])
    BY <1>3
  <2>2. i > 1
    BY <1>1, <2>1 DEF Clean, Held
  <2>3. i - 1 \in DOMAIN r /\ r[i - 1] = q[i] /\ NoneBehind(r, i - 1)
    BY <2>1, <2>2, NoneComes
  <2> QED BY <2>1, <2>3 DEF WillLeave
<1>4. CASE \E i \in DOMAIN q : NoneBehind(q, i) /\ q[i].msg = "NCMOUSELEAVE"
  <2>1. PICK i \in DOMAIN q : NoneBehind(q, i) /\ q[i].msg = "NCMOUSELEAVE"
    BY <1>4
  <2>2. i > 1
    BY <1>1, <2>1 DEF Held
  <2>3. i - 1 \in DOMAIN r /\ r[i - 1] = q[i] /\ NoneBehind(r, i - 1)
    BY <2>1, <2>2, NoneComes
  <2> QED BY <2>1, <2>3 DEF WillLeave
<1> QED BY <1>2, <1>3, <1>4 DEF WillLeave

LEMMA WillLeaveClean ==
  ASSUME NEW q, NEW e, NEW r, Follows(q, e, r, 1), 1 \in DOMAIN q, q[1].msg = "MOUSELEAVE", NoMove(e),
         NEW b, NEW t, WillLeave(q, b, t)
  PROVE  WillLeave(r, FALSE, FALSE)
<1>1. \A i \in DOMAIN q : i # 1 => i > 1
  BY DEF Follows
<1>2. CASE NoMove(r)
  BY <1>2 DEF WillLeave
<1>3. CASE ~NoMove(r)
  <2>1. PICK k \in DOMAIN r : r[k].msg = "MOUSEMOVE"
    BY <1>3 DEF NoMove
  <2>2. k + 1 \in DOMAIN q /\ q[k + 1] = r[k]
    BY <2>1, Shifted DEF NoMove
  <2>3. PICK i \in DOMAIN q : NoneBehind(q, i) /\ (Clean(q[i]) \/ q[i].msg = "NCMOUSELEAVE")
    BY <2>1, <2>2 DEF WillLeave, NoMove
  <2>4. i >= k + 1 /\ i # k + 1 /\ i \in Nat /\ k \in Nat
    <3>1. i \in Nat /\ k \in Nat
      BY DEF Follows
    <3>2. ~(k + 1 > i)
      BY <2>1, <2>2, <2>3 DEF NoneBehind
    <3>3. q[i].msg # "MOUSEMOVE"
      BY <2>3 DEF Clean
    <3>4. i # k + 1
      BY <2>1, <2>2, <3>3
    <3> QED BY <3>1, <3>2, <3>4
  <2>5. i > 1 /\ k < i - 1
    BY <2>1, <2>4 DEF Follows
  <2>6. i - 1 \in DOMAIN r /\ r[i - 1] = q[i] /\ NoneBehind(r, i - 1)
    BY <2>3, <2>5, NoneComes
  <2> QED BY <2>1, <2>3, <2>5, <2>6 DEF WillLeave
<1> QED BY <1>2, <1>3

LEMMA WillLeaveFrame ==
  ASSUME NEW q, NEW e, NEW r, Follows(q, e, r, 1), 1 \in DOMAIN q, q[1].msg = "NCMOUSELEAVE", NoMove(e),
         NEW b, NEW t, NEW c, WillLeave(q, b, t),
         b => e # <<>> /\ Clean(e[Len(e)])
  PROVE  WillLeave(r, c, t)
<1>1. \A i \in DOMAIN q : i # 1 => i > 1
  BY DEF Follows
<1>2. CASE b
  BY <1>2, LeaveComes
<1>3. CASE ~t /\ NoMove(q)
  BY <1>3, NoMoveComes DEF WillLeave
<1>4. CASE \E i \in DOMAIN q : NoneBehind(q, i) /\ Clean(q[i])
  <2>1. PICK i \in DOMAIN q : NoneBehind(q, i) /\ Clean(q[i])
    BY <1>4
  <2>2. i > 1
    BY <1>1, <2>1 DEF Clean
  <2>3. i - 1 \in DOMAIN r /\ r[i - 1] = q[i] /\ NoneBehind(r, i - 1)
    BY <2>1, <2>2, NoneComes
  <2> QED BY <2>1, <2>3 DEF WillLeave
<1>5. CASE \E i \in DOMAIN q :
             /\ NoneBehind(q, i) /\ q[i].msg = "NCMOUSELEAVE"
             /\ \E j \in DOMAIN q : j < i /\ (Held(q[j]) \/ (~t /\ q[j].msg = "MOUSEMOVE"))
  <2>1. PICK i \in DOMAIN q :
             /\ NoneBehind(q, i) /\ q[i].msg = "NCMOUSELEAVE"
             /\ \E j \in DOMAIN q : j < i /\ (Held(q[j]) \/ (~t /\ q[j].msg = "MOUSEMOVE"))
    BY <1>5
  <2>2. PICK j \in DOMAIN q : j < i /\ (Held(q[j]) \/ (~t /\ q[j].msg = "MOUSEMOVE"))
    BY <2>1
  <2>3. j > 1
    BY <1>1, <2>2 DEF Held
  <2>4. j - 1 \in DOMAIN r /\ r[j - 1] = q[j]
    BY <2>3, Shifted
  <2>5. i > 1 /\ j - 1 < i - 1
    BY <2>2, <2>3 DEF Follows
  <2>6. i - 1 \in DOMAIN r /\ r[i - 1] = q[i] /\ NoneBehind(r, i - 1)
    BY <2>1, <2>5, NoneComes
  <2> QED BY <2>1, <2>2, <2>4, <2>5, <2>6 DEF WillLeave
<1> QED BY <1>2, <1>3, <1>4, <1>5 DEF WillLeave

LEMMA QueueTypes ==
  ASSUME Mouse!TypeOK
  PROVE  /\ posted \in Seq(Mouse!Message)
         /\ tracked \in BOOLEAN /\ tracking \in BOOLEAN /\ isMouseLeaveBlocked \in BOOLEAN
         /\ \A i \in DOMAIN posted : posted[i] \in Mouse!Message
         /\ \A m \in Mouse!Message : m.pt \in Pixels \cup {Outside} /\ (m.msg = "MOUSELEAVE" => Held(m) \/ Clean(m))
<1>1. posted \in Seq(Mouse!Message)
  BY DEF Mouse!TypeOK
<1>2. \A m \in Mouse!Message : m.pt \in Pixels \cup {Outside} /\ (m.msg = "MOUSELEAVE" => Held(m) \/ Clean(m))
  BY DEF Mouse!Message, Held, Clean
<1>3. tracked \in BOOLEAN /\ tracking \in BOOLEAN /\ isMouseLeaveBlocked \in BOOLEAN
  BY DEF Mouse!TypeOK
<1> QED BY <1>1, <1>2, <1>3

\* The leaving that is asked for is Qt's if the pointer is outside, and a button's over a button.
LEMMA LeaveIs ==
  /\ Mouse!Leave(pos).msg = "MOUSELEAVE" /\ Mouse!Leave(pos).pt = pos
  /\ pos \in ButtonPixels => Held(Mouse!Leave(pos))
  /\ pos \notin ButtonPixels => Clean(Mouse!Leave(pos)) /\ ~Held(Mouse!Leave(pos))
BY DEF Mouse!Leave, Held, Clean

\* The message of a movement keeps it.
LEMMA MoveKeeps ==
  ASSUME MouseInv, Mouse!Dispatch, Head(posted).msg = "MOUSEMOVE"
  PROVE  MouseInv'
<1> DEFINE asked == (lastHitTestResult # "ChromeButton" /\ isMouseLeaveBlocked) \/ ~tracked
           e == Asked(asked)
           r == Tail(posted) \o e
<1>1. /\ posted # <<>> /\ posted' = r
      /\ tracking' = (tracking \/ (asked /\ Mouse!InClient(pos)))
      /\ lastHitTestResult' = lastHitTestResult
      /\ isMouseLeaveBlocked' = (isMouseLeaveBlocked /\ lastHitTestResult = "ChromeButton")
      /\ tracked' = TRUE /\ hover' = Head(posted).pt
      /\ UNCHANGED <<pos, state, fixed, hooked, moved, ncTracking>>
  BY MoveSeen DEF MouseInv
<1>2. Mouse!TypeOK /\ MouseTracked /\ OverClient /\ OverFrame /\ OverButton
  BY DEF MouseInv
<1>3. /\ e \in Seq(Mouse!Message) /\ NoMove(e)
      /\ \A i \in DOMAIN e : e[i] = Mouse!Leave(pos)
      /\ asked /\ ~Mouse!InClient(pos) => e # <<>> /\ e[Len(e)] = Mouse!Leave(pos)
      /\ ~(asked /\ ~Mouse!InClient(pos)) => e = <<>>
  BY <1>2, AskedIs
<1>4. /\ posted \in Seq(Mouse!Message)
      /\ tracked \in BOOLEAN /\ tracking \in BOOLEAN /\ isMouseLeaveBlocked \in BOOLEAN
      /\ \A i \in DOMAIN posted : posted[i] \in Mouse!Message
      /\ \A m \in Mouse!Message : m.pt \in Pixels \cup {Outside} /\ (m.msg = "MOUSELEAVE" => Held(m) \/ Clean(m))
  BY <1>2, QueueTypes
<1> HIDE DEF e
<1>5. /\ r \in Seq(Mouse!Message) /\ Follows(posted, e, r, 1)
      /\ Head(posted) = posted[1] /\ 1 \in DOMAIN posted
  BY <1>1, <1>3, <1>4, QueueMoves
<1> HIDE DEF r, asked
<1>6. /\ \A i \in DOMAIN posted : i > 1 => i - 1 \in DOMAIN r /\ r[i - 1] = posted[i]
      /\ \A i \in DOMAIN e : \E k \in DOMAIN r : r[k] = e[i]
      /\ \A k \in DOMAIN r : (k + 1 \in DOMAIN posted /\ r[k] = posted[k + 1]) \/ r[k] = Mouse!Leave(pos)
      /\ \A i \in DOMAIN posted : i # 1 => i > 1
      /\ e # <<>> => \E k \in DOMAIN r : r[k] = Mouse!Leave(pos)
  <2>1. e # <<>> => 1 \in DOMAIN e
    BY <1>5 DEF Follows
  <2>2. \A i \in DOMAIN posted : i # 1 => i > 1
    BY <1>5 DEF Follows
  <2> QED BY <1>3, <1>5, <2>1, <2>2, Shifted
<1>7. posted[1].msg = "MOUSEMOVE" /\ posted[1].pt # Outside /\ posted[1].pt \in Pixels \cup {Outside}
  BY <1>2, <1>4, <1>5 DEF MouseTracked
<1>8. /\ Mouse!HitTest(pos)' = Mouse!HitTest(pos) /\ Mouse!InClient(pos)' = Mouse!InClient(pos)
      /\ Settled' = Settled
  BY <1>1, SameWindow DEF Settled
<1>9. Mouse!TypeOK'
  BY <1>1, <1>2, <1>4, <1>5, <1>7 DEF Mouse!TypeOK
<1>10. MouseTracked'
  <2>1. \A k \in DOMAIN r : r[k].msg = "MOUSEMOVE" => r[k].pt # Outside
    BY <1>2, <1>6, LeaveIs DEF MouseTracked
  <2>2. tracking' \/ isMouseLeaveBlocked' \/ \E k \in DOMAIN r : r[k].msg = "MOUSELEAVE"
    <3>1. CASE asked
      BY <1>1, <1>3, <1>6, <3>1, LeaveIs
    <3>2. CASE ~asked /\ \E i \in DOMAIN posted : posted[i].msg = "MOUSELEAVE"
      BY <1>6, <1>7, <3>2
    <3>3. CASE ~asked /\ (tracking \/ isMouseLeaveBlocked)
      BY <1>1, <3>3 DEF asked
    <3> QED BY <1>2, <3>1, <3>2, <3>3 DEF MouseTracked, asked
  <2> QED BY <1>1, <1>2, <1>5, <1>7, <1>8, <2>1, <2>2 DEF MouseTracked
<1>11. ~(Settled /\ Mouse!InClient(pos)) /\ ~(Settled /\ ~Mouse!InClient(pos) /\ Mouse!HitTest(pos) # "ChromeButton")
  BY <1>2, <1>5, <1>7 DEF OverClient, OverFrame, NoMove
<1>12. OverClient' /\ OverFrame'
  BY <1>8, <1>11 DEF OverClient, OverFrame
<1>13. OverButton'
  <2> SUFFICES ASSUME Settled, Mouse!HitTest(pos) = "ChromeButton"
               PROVE  /\ \A k \in DOMAIN r : r[k].pt \in ButtonPixels /\ (r[k].msg = "MOUSEMOVE" \/ Held(r[k]))
                      /\ hover' \in ButtonPixels
    BY <1>1, <1>8 DEF OverButton
  <2>1. pos \in ButtonPixels
    BY HitButton
  <2>2. \A i \in DOMAIN posted : posted[i].pt \in ButtonPixels /\ (posted[i].msg = "MOUSEMOVE" \/ Held(posted[i]))
    BY <1>2 DEF OverButton
  <2> QED BY <1>1, <1>5, <1>6, <2>1, <2>2, LeaveIs
<1>14. ASSUME pos = Outside PROVE WillLeave(r, isMouseLeaveBlocked', tracked')
  <2>1. ~Mouse!InClient(pos) /\ pos \notin ButtonPixels
    BY <1>14, NotOutside DEF Mouse!InClient
  <2>2. WillLeave(posted, isMouseLeaveBlocked, tracked)
    BY <1>14 DEF MouseInv
  <2>3. e # <<>> => Clean(e[Len(e)])
    BY <1>3, <2>1, LeaveIs
  <2>4. e = <<>> => tracked /\ isMouseLeaveBlocked' = isMouseLeaveBlocked
    BY <1>1, <1>3, <1>4, <2>1 DEF asked
  <2> DEFINE c == isMouseLeaveBlocked'
  <2>5. e = <<>> => tracked /\ c = isMouseLeaveBlocked
    BY <2>4
  <2> HIDE DEF c
  <2>6. WillLeave(r, c, TRUE)
    <3>1. /\ Follows(posted, e, r, 1) /\ posted[1].msg = "MOUSEMOVE" /\ 1 \in DOMAIN posted
          /\ isMouseLeaveBlocked \in BOOLEAN /\ tracked \in BOOLEAN /\ NoMove(e)
      BY <1>3, <1>4, <1>5, <1>7
    <3> QED BY <2>2, <2>3, <2>5, <3>1, WillLeaveMove
  <2> QED BY <1>1, <2>6 DEF c
<1> QED BY <1>1, <1>9, <1>10, <1>12, <1>13, <1>14 DEF MouseInv

\* So does the message that the pointer has left.
LEMMA LeaveKeeps ==
  ASSUME MouseInv, Mouse!Dispatch, Head(posted).msg = "MOUSELEAVE"
  PROVE  MouseInv'
<1> DEFINE held == Held(Head(posted))
           e == <<>>
           r == Tail(posted) \o e
<1>1. /\ posted # <<>> /\ posted' = r
      /\ lastHitTestResult' = lastHitTestResult /\ isMouseLeaveBlocked' = held
      /\ tracked' = (tracked /\ held) /\ hover' = IF held THEN hover ELSE Outside
      /\ UNCHANGED <<pos, state, fixed, hooked, moved, ncTracking, tracking>>
  BY LeaveSeen DEF MouseInv
<1>2. Mouse!TypeOK /\ MouseTracked /\ OverClient /\ OverFrame /\ OverButton
  BY DEF MouseInv
<1>3. e \in Seq(Mouse!Message) /\ DOMAIN e = {} /\ NoMove(e)
  BY DEF NoMove
<1>4. /\ posted \in Seq(Mouse!Message)
      /\ tracked \in BOOLEAN /\ tracking \in BOOLEAN /\ isMouseLeaveBlocked \in BOOLEAN
      /\ \A i \in DOMAIN posted : posted[i] \in Mouse!Message
      /\ \A m \in Mouse!Message : m.pt \in Pixels \cup {Outside} /\ (m.msg = "MOUSELEAVE" => Held(m) \/ Clean(m))
  BY <1>2, QueueTypes
<1> HIDE DEF e
<1>5. /\ r \in Seq(Mouse!Message) /\ Follows(posted, e, r, 1)
      /\ Head(posted) = posted[1] /\ 1 \in DOMAIN posted
  BY <1>1, <1>3, <1>4, QueueMoves
<1>6. held = Held(posted[1]) /\ (held \/ Clean(posted[1])) /\ posted[1].msg = "MOUSELEAVE" /\ held \in BOOLEAN
  BY <1>4, <1>5 DEF Held
<1> HIDE DEF r, held
<1>7. /\ \A i \in DOMAIN posted : i > 1 => i - 1 \in DOMAIN r /\ r[i - 1] = posted[i]
      /\ \A k \in DOMAIN r : k + 1 \in DOMAIN posted /\ r[k] = posted[k + 1]
      /\ \A i \in DOMAIN posted : i # 1 => i > 1
  <2>1. \A i \in DOMAIN posted : i # 1 => i > 1
    BY <1>5 DEF Follows
  <2> QED BY <1>3, <1>5, <2>1, Shifted
<1>8. /\ Mouse!HitTest(pos)' = Mouse!HitTest(pos) /\ Mouse!InClient(pos)' = Mouse!InClient(pos)
      /\ Settled' = Settled
  BY <1>1, SameWindow DEF Settled
<1>9. Mouse!TypeOK'
  BY <1>1, <1>2, <1>4, <1>5, <1>6 DEF Mouse!TypeOK
<1>10. MouseTracked'
  <2>1. \A k \in DOMAIN r : r[k].msg = "MOUSEMOVE" => r[k].pt # Outside
    BY <1>2, <1>7 DEF MouseTracked
  <2>2. tracked' <=> hover' # Outside
    BY <1>1, <1>2, <1>6 DEF MouseTracked
  <2> QED BY <1>1, <1>2, <1>6, <1>8, <2>1, <2>2 DEF MouseTracked
<1>11. ~(Settled /\ Mouse!InClient(pos))
  BY <1>2, <1>5, <1>6 DEF OverClient
<1>12. OverClient'
  BY <1>8, <1>11 DEF OverClient
<1>13. OverFrame'
  <2> SUFFICES ASSUME Settled, ~Mouse!InClient(pos), Mouse!HitTest(pos) # "ChromeButton"
               PROVE  /\ NoMove(r)
                      /\ pos \notin ButtonPixels =>
                           (\A k \in DOMAIN r : ~Held(r[k])) /\ ~tracked'
    BY <1>1, <1>8 DEF OverFrame
  <2>1. NoMove(posted) /\ (pos \notin ButtonPixels => \A i \in DOMAIN posted : ~Held(posted[i]))
    BY <1>2 DEF OverFrame
  <2> QED BY <1>1, <1>5, <1>6, <1>7, <2>1 DEF NoMove
<1>14. OverButton'
  <2> SUFFICES ASSUME Settled, Mouse!HitTest(pos) = "ChromeButton"
               PROVE  /\ \A k \in DOMAIN r : r[k].pt \in ButtonPixels /\ (r[k].msg = "MOUSEMOVE" \/ Held(r[k]))
                      /\ hover' \in ButtonPixels \/ \E k \in DOMAIN r : r[k].msg = "MOUSEMOVE"
    BY <1>1, <1>8 DEF OverButton
  <2>1. /\ \A i \in DOMAIN posted : posted[i].pt \in ButtonPixels /\ (posted[i].msg = "MOUSEMOVE" \/ Held(posted[i]))
        /\ hover \in ButtonPixels \/ \E i \in DOMAIN posted : posted[i].msg = "MOUSEMOVE"
    BY <1>2 DEF OverButton
  <2>2. held
    BY <1>5, <1>6, <2>1
  <2> QED BY <1>1, <1>6, <1>7, <2>1, <2>2
<1>15. ASSUME pos = Outside PROVE WillLeave(r, isMouseLeaveBlocked', tracked')
  <2>1. WillLeave(posted, isMouseLeaveBlocked, tracked)
    BY <1>15 DEF MouseInv
  <2>2. CASE held
    <3>1. /\ Follows(posted, e, r, 1) /\ Held(posted[1]) /\ 1 \in DOMAIN posted
          /\ isMouseLeaveBlocked \in BOOLEAN /\ tracked \in BOOLEAN /\ NoMove(e)
      BY <1>3, <1>4, <1>5, <1>6, <2>2
    <3>2. WillLeave(r, TRUE, tracked)
      BY <2>1, <3>1, WillLeaveHeld
    <3>3. isMouseLeaveBlocked' = TRUE /\ tracked' = tracked
      BY <1>1, <1>4, <1>6, <2>2
    <3> QED BY <3>2, <3>3
  <2>3. CASE ~held
    <3>1. WillLeave(r, FALSE, FALSE)
      BY <1>3, <1>4, <1>5, <1>6, <2>1, WillLeaveClean
    <3>2. isMouseLeaveBlocked' = FALSE /\ tracked' = FALSE
      BY <1>1, <1>6, <2>3
    <3> QED BY <3>1, <3>2
  <2> QED BY <2>2, <2>3
<1> QED BY <1>1, <1>2, <1>9, <1>10, <1>12, <1>13, <1>14, <1>15 DEF MouseInv

\* What makes up for a leaving leaves Qt without the pointer unless it is over a button.
LEMMA MadeUpIs ==
  ASSUME Mouse!TypeOK, NEW m \in Mouse!Message
  PROVE  /\ MadeUp(m) \in Seq(Mouse!Message)
         /\ \A i \in DOMAIN MadeUp(m) :
              /\ MadeUp(m)[i].msg = "MOUSELEAVE"
              /\ pos \notin ButtonPixels => ~Held(MadeUp(m)[i])
         /\ ~Mouse!InClient(pos) \/ lastHitTestResult # "ChromeButton" =>
              /\ MadeUp(m) # <<>>
              /\ pos \notin ButtonPixels => Clean(MadeUp(m)[Len(MadeUp(m))])
<1>1. CASE lastHitTestResult = "ChromeButton"
  <2>1. MadeUp(m) = Asked(TRUE)
    BY <1>1 DEF MadeUp
  <2> QED BY <1>1, <2>1, AskedIs, LeaveIs
<1>2. CASE lastHitTestResult # "ChromeButton"
  <2> DEFINE leave == [msg |-> "MOUSELEAVE", tag |-> TRUE, pt |-> m.pt]
             s == MadeUp(m)
  <2>1. s = IF hooked THEN Append(<< leave >>, leave) ELSE << leave >>
    BY <1>2 DEF MadeUp
  <2>2. leave \in Mouse!Message /\ leave.msg = "MOUSELEAVE" /\ Clean(leave) /\ ~Held(leave)
    BY DEF Mouse!Message, Clean, Held
  <2> HIDE DEF leave, s
  <2>3. /\ << leave >> \in Seq({leave}) /\ Len(<< leave >>) = 1
        /\ Append(<< leave >>, leave) \in Seq({leave}) /\ Len(Append(<< leave >>, leave)) = 2
    BY Singletons
  <2>4. s \in Seq({leave}) /\ Len(s) \in {1, 2}
    BY <2>1, <2>3
  <2>5. s \in Seq(Mouse!Message) /\ \A i \in DOMAIN s : s[i] = leave
    BY <2>2, <2>4
  <2>6. s # <<>> /\ Len(s) \in DOMAIN s
    <3>1. DOMAIN s = 1 .. Len(s)
      BY <2>4
    <3>2. Len(<<>>) = 0
      OBVIOUS
    <3>3. Len(s) \in 1 .. Len(s) /\ Len(s) # 0
      BY <2>4
    <3> QED BY <3>1, <3>2, <3>3
  <2> QED BY <2>2, <2>5, <2>6 DEF s
<1> QED BY <1>1, <1>2

\* The message that the pointer has left the frame keeps it.
LEMMA NcLeaveKeeps ==
  ASSUME MouseInv, Mouse!Dispatch, Head(posted).msg = "NCMOUSELEAVE"
  PROVE  MouseInv'
<1> DEFINE e == IF isMouseLeaveBlocked THEN MadeUp(Head(posted)) ELSE <<>>
           r == Tail(posted) \o e
<1>1. /\ posted # <<>> /\ posted' = r
      /\ lastHitTestResult' = lastHitTestResult
      /\ isMouseLeaveBlocked' = (isMouseLeaveBlocked /\ lastHitTestResult # "ChromeButton")
      /\ tracking' = (tracking \/ (isMouseLeaveBlocked /\ lastHitTestResult = "ChromeButton"
                                    /\ Mouse!InClient(pos)))
      /\ UNCHANGED <<pos, state, fixed, hooked, moved, ncTracking, tracked, hover>>
  BY NcLeaveSeen DEF MouseInv
<1>2. Mouse!TypeOK /\ MouseTracked /\ OverClient /\ OverFrame /\ OverButton
  BY DEF MouseInv
<1>3. /\ posted \in Seq(Mouse!Message)
      /\ tracked \in BOOLEAN /\ tracking \in BOOLEAN /\ isMouseLeaveBlocked \in BOOLEAN
      /\ \A i \in DOMAIN posted : posted[i] \in Mouse!Message
  BY <1>2, QueueTypes
<1>4. /\ e \in Seq(Mouse!Message) /\ DOMAIN e = 1 .. Len(e)
      /\ \A i \in DOMAIN e : e[i].msg = "MOUSELEAVE" /\ (pos \notin ButtonPixels => ~Held(e[i]))
      /\ isMouseLeaveBlocked /\ (~Mouse!InClient(pos) \/ lastHitTestResult # "ChromeButton") =>
           e # <<>> /\ (pos \notin ButtonPixels => Clean(e[Len(e)]))
      /\ ~isMouseLeaveBlocked => e = <<>>
  <2>1. Head(posted) \in Mouse!Message
    BY <1>1, <1>3
  <2>2. CASE isMouseLeaveBlocked
    <3>1. e = MadeUp(Head(posted))
      BY <2>2
    <3> HIDE DEF e
    <3> QED BY <1>2, <2>1, <2>2, <3>1, MadeUpIs
  <2>3. CASE ~isMouseLeaveBlocked
    <3>1. e = <<>>
      BY <2>3
    <3> HIDE DEF e
    <3> QED BY <2>3, <3>1
  <2> QED BY <2>2, <2>3
<1> HIDE DEF e
<1>5. /\ r \in Seq(Mouse!Message) /\ Follows(posted, e, r, 1)
      /\ Head(posted) = posted[1] /\ 1 \in DOMAIN posted
  BY <1>1, <1>3, <1>4, QueueMoves
<1> HIDE DEF r
<1>6. NoMove(e) /\ posted[1].msg = "NCMOUSELEAVE" /\ (e # <<>> => 1 \in DOMAIN e)
  BY <1>4, <1>5 DEF NoMove
<1>7. /\ \A i \in DOMAIN posted : i > 1 => i - 1 \in DOMAIN r /\ r[i - 1] = posted[i]
      /\ \A i \in DOMAIN e : \E k \in DOMAIN r : r[k] = e[i]
      /\ \A k \in DOMAIN r : \/ k + 1 \in DOMAIN posted /\ r[k] = posted[k + 1]
                             \/ \E i \in DOMAIN e : r[k] = e[i]
      /\ \A i \in DOMAIN posted : i # 1 => i > 1
  <2>1. \A i \in DOMAIN posted : i # 1 => i > 1
    BY <1>5 DEF Follows
  <2> QED BY <1>5, <2>1, Shifted
<1>8. /\ Mouse!HitTest(pos)' = Mouse!HitTest(pos) /\ Mouse!InClient(pos)' = Mouse!InClient(pos)
      /\ Settled' = Settled
  BY <1>1, SameWindow DEF Settled
<1>9. Mouse!TypeOK'
  BY <1>1, <1>2, <1>3, <1>5 DEF Mouse!TypeOK
<1>10. MouseTracked'
  <2>1. \A k \in DOMAIN r : r[k].msg = "MOUSEMOVE" => r[k].pt # Outside
    BY <1>2, <1>4, <1>7 DEF MouseTracked
  <2>2. tracked => tracking' \/ isMouseLeaveBlocked' \/ \E k \in DOMAIN r : r[k].msg = "MOUSELEAVE"
    <3>1. CASE isMouseLeaveBlocked
      BY <1>1, <1>4, <1>6, <1>7, <3>1
    <3>2. CASE \E i \in DOMAIN posted : posted[i].msg = "MOUSELEAVE"
      BY <1>6, <1>7, <3>2
    <3> QED BY <1>1, <1>2, <3>1, <3>2 DEF MouseTracked
  <2> QED BY <1>1, <1>2, <1>8, <2>1, <2>2 DEF MouseTracked
<1>11. OverClient'
  <2> SUFFICES ASSUME Settled, Mouse!InClient(pos)
               PROVE  /\ tracked /\ tracking' /\ ~isMouseLeaveBlocked'
                      /\ \A k \in DOMAIN r : r[k].msg = "NCMOUSELEAVE"
    BY <1>1, <1>8 DEF OverClient
  <2>1. /\ tracked /\ tracking /\ ~isMouseLeaveBlocked
        /\ \A i \in DOMAIN posted : posted[i].msg = "NCMOUSELEAVE"
    BY <1>2 DEF OverClient
  <2>2. DOMAIN e = {}
    BY <1>4, <2>1
  <2> QED BY <1>1, <1>7, <2>1, <2>2
<1>12. OverFrame'
  <2> SUFFICES ASSUME Settled, ~Mouse!InClient(pos), Mouse!HitTest(pos) # "ChromeButton"
               PROVE  /\ NoMove(r)
                      /\ pos \notin ButtonPixels =>
                           /\ \A k \in DOMAIN r : ~Held(r[k])
                           /\ tracked => \E k \in DOMAIN r : Clean(r[k])
    BY <1>1, <1>8 DEF OverFrame
  <2>1. /\ NoMove(posted)
        /\ pos \notin ButtonPixels =>
             /\ \A i \in DOMAIN posted : ~Held(posted[i])
             /\ tracked => \E i \in DOMAIN posted : Clean(posted[i])
    BY <1>2 DEF OverFrame
  <2>2. NoMove(r)
    BY <1>4, <1>7, <2>1 DEF NoMove
  <2>3. ASSUME pos \notin ButtonPixels, tracked PROVE \E k \in DOMAIN r : Clean(r[k])
    <3>1. PICK i \in DOMAIN posted : Clean(posted[i])
      BY <2>1, <2>3
    <3>2. i > 1
      BY <1>6, <1>7, <3>1 DEF Clean
    <3> QED BY <1>7, <3>1, <3>2
  <2> QED BY <1>4, <1>7, <2>1, <2>2, <2>3
<1>13. OverButton'
  <2>1. ~(Settled /\ Mouse!HitTest(pos) = "ChromeButton")
    BY <1>2, <1>5, <1>6 DEF OverButton, Held
  <2> QED BY <1>8, <2>1 DEF OverButton
<1>14. ASSUME pos = Outside PROVE WillLeave(r, isMouseLeaveBlocked', tracked)
  <2>1. ~Mouse!InClient(pos) /\ pos \notin ButtonPixels
    BY <1>14, NotOutside DEF Mouse!InClient
  <2>2. WillLeave(posted, isMouseLeaveBlocked, tracked)
    BY <1>14 DEF MouseInv
  <2>3. isMouseLeaveBlocked => e # <<>> /\ Clean(e[Len(e)])
    BY <1>4, <2>1
  <2> DEFINE c == isMouseLeaveBlocked'
  <2> HIDE DEF c
  <2>4. WillLeave(r, c, tracked)
    BY <1>5, <1>6, <2>2, <2>3, WillLeaveFrame
  <2> QED BY <2>4 DEF c
<1> QED BY <1>1, <1>2, <1>9, <1>10, <1>11, <1>12, <1>13, <1>14 DEF MouseInv

LEMMA WillLeaveGrows ==
  ASSUME NEW q, NEW e, NEW r, Follows(q, e, r, 0), NoMove(e), NEW b, NEW t, WillLeave(q, b, t)
  PROVE  WillLeave(r, b, t)
<1>1. \A i \in DOMAIN q : i > 0 /\ i - 0 = i
  BY DEF Follows
<1>2. \A i \in DOMAIN q : i \in DOMAIN r /\ r[i] = q[i]
  <2>1. \A i \in DOMAIN q : i - 0 \in DOMAIN r /\ r[i - 0] = q[i]
    BY <1>1, Shifted
  <2> QED BY <1>1, <2>1
<1>3. \A i \in DOMAIN q : NoneBehind(q, i) => NoneBehind(r, i)
  <2> SUFFICES ASSUME NEW i \in DOMAIN q, NoneBehind(q, i) PROVE NoneBehind(r, i)
    OBVIOUS
  <2>1. NoneBehind(r, i - 0)
    BY <1>1, NoneComes
  <2> QED BY <1>1, <2>1
<1>4. CASE ~t /\ NoMove(q)
  BY <1>4, NoMoveComes DEF WillLeave
<1>5. CASE \E i \in DOMAIN q : NoneBehind(q, i) /\ Clean(q[i])
  BY <1>2, <1>3, <1>5 DEF WillLeave
<1>6. CASE \E i \in DOMAIN q :
             /\ NoneBehind(q, i) /\ q[i].msg = "NCMOUSELEAVE"
             /\ \/ b
                \/ \E j \in DOMAIN q : j < i /\ Held(q[j])
                \/ ~t /\ \E j \in DOMAIN q : j < i /\ q[j].msg = "MOUSEMOVE"
  BY <1>2, <1>3, <1>6 DEF WillLeave
<1> QED BY <1>4, <1>5, <1>6 DEF WillLeave

\* The message that the pointer has left the frame will make up for what is held back.
LEMMA FrameComes ==
  ASSUME NEW q, NEW e, NEW r, Follows(q, e, r, 0), Len(e) # 0, e[Len(e)].msg = "NCMOUSELEAVE",
         NEW b, NEW t,
         \/ b
         \/ \E j \in DOMAIN q : Held(q[j])
         \/ ~t /\ \E j \in DOMAIN q : q[j].msg = "MOUSEMOVE"
  PROVE  WillLeave(r, b, t)
<1>1. /\ Len(e) \in Nat /\ DOMAIN e = 1 .. Len(e) /\ Len(q) \in Nat
      /\ DOMAIN q = 1 .. Len(q) /\ DOMAIN r = 1 .. (Len(q) - 0) + Len(e)
  BY DEF Follows
<1> DEFINE k == (Len(q) - 0) + Len(e)
<1>2. k \in DOMAIN r /\ r[k] = e[Len(e)]
  <2>1. Len(e) \in DOMAIN e
    BY <1>1
  <2> QED BY <2>1, Shifted
<1>3. NoneBehind(r, k)
  BY <1>1, <1>2 DEF NoneBehind
<1>4. \A j \in DOMAIN q : j < k /\ j - 0 = j /\ j > 0
  BY <1>1
<1>5. \A j \in DOMAIN q : j \in DOMAIN r /\ r[j] = q[j]
  <2>1. \A j \in DOMAIN q : j - 0 \in DOMAIN r /\ r[j - 0] = q[j]
    BY <1>4, Shifted
  <2> QED BY <1>4, <2>1
<1> HIDE DEF k
<1> QED BY <1>2, <1>3, <1>4, <1>5 DEF WillLeave

\* The pointer goes outside.
LEMMA GoneKeeps ==
  ASSUME MouseInv, NEW s \in Mouse!States, Mouse!MoveTo(Outside, s)
  PROVE  MouseInv'
<1> DEFINE a == IF tracking THEN << Mouse!Leave(Outside) >> ELSE <<>>
           n == IF ncTracking THEN << Mouse!NcLeave(Outside) >> ELSE <<>>
           q == posted \o a
           r == q \o n
<1>1. /\ ~moved /\ pos' = Outside /\ state' = s /\ moved' = FALSE /\ posted' = r
      /\ tracking' = FALSE /\ ncTracking' = FALSE
      /\ UNCHANGED <<fixed, hooked, lastHitTestResult, isMouseLeaveBlocked, tracked, hover>>
  BY DEF Mouse!MoveTo, Mouse!If
<1>2. Mouse!TypeOK /\ MouseTracked /\ OverClient /\ OverFrame /\ OverButton
  BY DEF MouseInv
<1>3. /\ posted \in Seq(Mouse!Message)
      /\ tracked \in BOOLEAN /\ tracking \in BOOLEAN /\ isMouseLeaveBlocked \in BOOLEAN
      /\ \A i \in DOMAIN posted : posted[i] \in Mouse!Message
      /\ \A m \in Mouse!Message : m.pt \in Pixels \cup {Outside} /\ (m.msg = "MOUSELEAVE" => Held(m) \/ Clean(m))
  BY <1>2, QueueTypes
<1>4. /\ a \in Seq(Mouse!Message) /\ n \in Seq(Mouse!Message) /\ NoMove(a) /\ NoMove(n)
      /\ tracking => a # <<>> /\ Clean(a[Len(a)]) /\ 1 \in DOMAIN a /\ a[1].msg = "MOUSELEAVE"
      /\ ~tracking => a = <<>>
      /\ ncTracking => Len(n) # 0 /\ n[Len(n)].msg = "NCMOUSELEAVE"
  <2> DEFINE l == Mouse!Leave(Outside)  o == Mouse!NcLeave(Outside)
  <2>1. l \in Mouse!Message /\ l.msg = "MOUSELEAVE" /\ Clean(l)
    BY NotOutside DEF Mouse!Leave, Mouse!Message, Clean
  <2>2. o \in Mouse!Message /\ o.msg = "NCMOUSELEAVE"
    BY DEF Mouse!NcLeave, Mouse!Message
  <2>3. /\ a = IF tracking THEN << l >> ELSE <<>>
        /\ n = IF ncTracking THEN << o >> ELSE <<>>
    OBVIOUS
  <2> HIDE DEF l, o, a, n
  <2>4. \A x : << x >> # <<>> /\ Len(<< x >>) = 1 /\ DOMAIN << x >> = {1} /\ << x >>[1] = x
    OBVIOUS
  <2>5. << l >> \in Seq(Mouse!Message) /\ << o >> \in Seq(Mouse!Message) /\ <<>> \in Seq(Mouse!Message)
    BY <2>1, <2>2, Singletons
  <2>6. NoMove(<< l >>) /\ NoMove(<< o >>) /\ NoMove(<<>>)
    BY <2>1, <2>2, <2>4 DEF NoMove
  <2>8. a = <<>> \/ a = << l >>
    BY <2>3
  <2>9. n = <<>> \/ n = << o >>
    BY <2>3
  <2>10. ncTracking => Len(n) # 0 /\ n[Len(n)].msg = "NCMOUSELEAVE"
    BY <2>2, <2>3, <2>4
  <2>11. a \in Seq(Mouse!Message) /\ NoMove(a)
    BY <2>5, <2>6, <2>8
  <2>12. n \in Seq(Mouse!Message) /\ NoMove(n)
    BY <2>5, <2>6, <2>9
  <2>13. ASSUME tracking
         PROVE  a # <<>> /\ Clean(a[Len(a)]) /\ 1 \in DOMAIN a /\ a[1].msg = "MOUSELEAVE"
    <3>1. a = << l >>
      BY <2>3, <2>13
    <3>2. << l >> # <<>> /\ Clean(<< l >>[Len(<< l >>)]) /\ 1 \in DOMAIN << l >> /\ << l >>[1].msg = "MOUSELEAVE"
      <4>1. Len(<< l >>) = 1 /\ DOMAIN << l >> = {1} /\ << l >>[1] = l /\ << l >> # <<>>
        BY <2>4
      <4> QED BY <2>1, <4>1
    <3> QED BY Zenon, <3>1, <3>2
  <2>14. ~tracking => a = <<>>
    BY <2>3
  <2> QED BY <2>10, <2>11, <2>12, <2>13, <2>14
<1> HIDE DEF a, n
<1>5. q \in Seq(Mouse!Message) /\ Follows(posted, a, q, 0)
  BY <1>3, <1>4, QueueGrows
<1> HIDE DEF q
<1>6. r \in Seq(Mouse!Message) /\ Follows(q, n, r, 0)
  BY <1>4, <1>5, QueueGrows
<1> HIDE DEF r
<1>7. /\ \A i \in DOMAIN posted : \E k \in DOMAIN r : r[k] = posted[i]
      /\ \A i \in DOMAIN a : \E k \in DOMAIN r : r[k] = a[i]
      /\ \A k \in DOMAIN r : r[k].msg = "MOUSEMOVE" => \E i \in DOMAIN posted : r[k] = posted[i]
  <2>1. /\ \A i \in DOMAIN posted : i > 0
        /\ \A i \in DOMAIN q : i > 0
    BY <1>5, <1>6 DEF Follows
  <2>2. /\ \A i \in DOMAIN posted : \E k \in DOMAIN q : q[k] = posted[i]
        /\ \A i \in DOMAIN a : \E k \in DOMAIN q : q[k] = a[i]
        /\ \A k \in DOMAIN q : (\E i \in DOMAIN posted : q[k] = posted[i]) \/ (\E i \in DOMAIN a : q[k] = a[i])
    BY <1>5, <2>1, Shifted
  <2>3. /\ \A i \in DOMAIN q : \E k \in DOMAIN r : r[k] = q[i]
        /\ \A k \in DOMAIN r : (\E i \in DOMAIN q : r[k] = q[i]) \/ (\E i \in DOMAIN n : r[k] = n[i])
    BY <1>6, <2>1, Shifted
  <2> QED BY <1>4, <2>2, <2>3 DEF NoMove
<1>8. Mouse!TypeOK'
  BY <1>1, <1>2, <1>6 DEF Mouse!TypeOK
<1>9. MouseTracked'
  <2>1. \A k \in DOMAIN r : r[k].msg = "MOUSEMOVE" => r[k].pt # Outside
    BY <1>2, <1>7 DEF MouseTracked
  <2>2. tracked => isMouseLeaveBlocked \/ \E k \in DOMAIN r : r[k].msg = "MOUSELEAVE"
    BY <1>2, <1>4, <1>7 DEF MouseTracked
  <2>3. ~Settled'
    BY <1>1 DEF Settled
  <2> QED BY <1>1, <1>2, <2>1, <2>2, <2>3 DEF MouseTracked
<1>10. OverClient' /\ OverFrame' /\ OverButton'
  BY <1>1 DEF Settled, OverClient, OverFrame, OverButton
<1>11. WillLeave(r, isMouseLeaveBlocked, tracked)
  <2>1. WillLeave(posted, isMouseLeaveBlocked, tracked) => WillLeave(r, isMouseLeaveBlocked, tracked)
    <3> SUFFICES ASSUME WillLeave(posted, isMouseLeaveBlocked, tracked)
                 PROVE  WillLeave(r, isMouseLeaveBlocked, tracked)
      OBVIOUS
    <3>1. WillLeave(q, isMouseLeaveBlocked, tracked)
      BY <1>4, <1>5, WillLeaveGrows
    <3> QED BY <1>4, <1>6, <3>1, WillLeaveGrows
  <2>2. CASE pos = Outside
    BY <2>1, <2>2 DEF MouseInv
  <2>3. CASE Settled /\ Mouse!InClient(pos)
    <3>1. tracking
      BY <1>2, <2>3 DEF OverClient
    <3>2. WillLeave(q, isMouseLeaveBlocked, tracked)
      BY <1>4, <1>5, <3>1, LeaveComes
    <3> QED BY <1>4, <1>6, <3>2, WillLeaveGrows
  <2>4. CASE Settled /\ ~Mouse!InClient(pos)
    <3>1. ~tracking /\ ncTracking /\ Len(n) # 0 /\ n[Len(n)].msg = "NCMOUSELEAVE"
      BY <1>1, <1>2, <1>4, <2>4 DEF MouseTracked
    <3>2. q = posted
      BY <1>3, <1>4, <3>1, NothingComes DEF q
    <3>3. \/ isMouseLeaveBlocked
          \/ \E j \in DOMAIN posted : Held(posted[j])
          \/ ~tracked /\ \E j \in DOMAIN posted : posted[j].msg = "MOUSEMOVE"
          \/ \E i \in DOMAIN posted : NoMove(posted) /\ Clean(posted[i])
          \/ ~tracked /\ NoMove(posted)
      <4>1. CASE ~tracked
        BY <4>1 DEF NoMove
      <4>2. CASE tracked /\ ~isMouseLeaveBlocked
        <5>1. PICK i \in DOMAIN posted : posted[i].msg = "MOUSELEAVE"
          BY <1>2, <3>1, <4>2 DEF MouseTracked
        <5>2. Held(posted[i]) \/ Clean(posted[i])
          BY <1>3, <5>1
        <5>3. CASE Mouse!HitTest(pos) = "ChromeButton"
          BY <1>2, <2>4, <5>1, <5>3 DEF OverButton
        <5>4. CASE Mouse!HitTest(pos) # "ChromeButton"
          BY <1>2, <2>4, <5>2, <5>4 DEF OverFrame
        <5> QED BY <5>3, <5>4
      <4> QED BY <4>1, <4>2
    <3>4. CASE \E i \in DOMAIN posted : NoMove(posted) /\ Clean(posted[i])
      <4>1. WillLeave(posted, isMouseLeaveBlocked, tracked)
        BY <3>4 DEF WillLeave, NoneBehind, NoMove
      <4> QED BY <2>1, <4>1
    <3>5. CASE ~tracked /\ NoMove(posted)
      BY <2>1, <3>5 DEF WillLeave
    <3>6. CASE \/ isMouseLeaveBlocked
               \/ \E j \in DOMAIN posted : Held(posted[j])
               \/ ~tracked /\ \E j \in DOMAIN posted : posted[j].msg = "MOUSEMOVE"
      BY <1>6, <3>1, <3>2, <3>6, FrameComes
    <3> QED BY <3>3, <3>4, <3>5, <3>6
  <2> QED BY <1>1, <2>2, <2>3, <2>4 DEF Settled
<1> QED BY <1>1, <1>8, <1>9, <1>10, <1>11 DEF MouseInv

\* The pointer moves inside, or the window changes its state.
LEMMA MovedKeeps ==
  ASSUME MouseInv, NEW p \in Pixels, NEW s \in Mouse!States, Mouse!MoveTo(p, s)
  PROVE  MouseInv'
<1>1. p # Outside
  BY NotOutside
<1>2. Mouse!TypeOK /\ MouseTracked
  BY DEF MouseInv
<1>3. posted \in Seq(Mouse!Message)
  BY <1>2, QueueTypes
<1>4. (posted \o <<>>) \o <<>> = posted
  BY <1>3, NothingComes
<1>5. /\ pos' = p /\ state' = s /\ moved' = TRUE /\ posted' = posted
      /\ tracking' = tracking /\ ncTracking' = ncTracking
      /\ UNCHANGED <<fixed, hooked, lastHitTestResult, isMouseLeaveBlocked, tracked, hover>>
  BY <1>1, <1>2, <1>4 DEF Mouse!MoveTo, Mouse!If, Mouse!TypeOK
<1>6. Mouse!TypeOK'
  BY <1>2, <1>5 DEF Mouse!TypeOK
<1>7. MouseTracked'
  BY <1>2, <1>5 DEF MouseTracked, Settled
<1>8. OverClient' /\ OverFrame' /\ OverButton'
  BY <1>5 DEF OverClient, OverFrame, OverButton, Settled
<1> QED BY <1>1, <1>5, <1>6, <1>7, <1>8 DEF MouseInv

\* The movement inside is retrieved.
LEMMA MouseMoveKeeps ==
  ASSUME MouseInv, Mouse!MouseMove
  PROVE  MouseInv'
<1>1. Mouse!TypeOK /\ MouseTracked /\ moved
  BY DEF MouseInv, Mouse!MouseMove
<1>2. /\ posted = <<>> /\ Mouse!InClient(pos)
      /\ posted' \in Seq(Mouse!Message) /\ \A i \in DOMAIN posted' : posted'[i].msg = "NCMOUSELEAVE"
      /\ tracking' = (tracking \/ isMouseLeaveBlocked \/ ~tracked)
      /\ lastHitTestResult' = "ClientArea" /\ isMouseLeaveBlocked' = FALSE
      /\ moved' = FALSE /\ ncTracking' = FALSE /\ tracked' = TRUE /\ hover' = pos
      /\ UNCHANGED <<pos, state, fixed, hooked>>
  BY <1>1, MouseMoveSeen
<1>3. pos # Outside
  BY <1>1 DEF MouseInv
<1>4. tracking'
  <2>1. DOMAIN posted = {}
    BY <1>2
  <2> QED BY <1>1, <1>2, <2>1 DEF MouseTracked
<1>5. Mouse!HitTest(pos)' = Mouse!HitTest(pos) /\ Mouse!InClient(pos)' = Mouse!InClient(pos)
  BY <1>2, SameWindow
<1>6. Mouse!TypeOK'
  BY <1>1, <1>2 DEF Mouse!TypeOK, Mouse!Parts
<1>7. MouseTracked'
  BY <1>2, <1>3, <1>4, <1>5 DEF MouseTracked
<1>8. OverClient' /\ OverFrame' /\ OverButton'
  <2>1. Mouse!HitTest(pos) # "ChromeButton"
    BY <1>2, HitButton
  <2> QED BY <1>2, <1>4, <1>5, <2>1 DEF OverClient, OverFrame, OverButton
<1> QED BY <1>2, <1>3, <1>6, <1>7, <1>8 DEF MouseInv

\* The movement over the frame or a button is retrieved.
LEMMA NcMouseMoveKeeps ==
  ASSUME MouseInv, Mouse!NcMouseMove
  PROVE  MouseInv'
<1>1. Mouse!TypeOK /\ MouseTracked /\ moved
  BY DEF MouseInv, Mouse!NcMouseMove
<1>2. /\ posted = <<>> /\ ~Mouse!InClient(pos)
      /\ posted' \in Seq(Mouse!Message)
      /\ Mouse!HitTest(pos) = "ChromeButton" =>
           /\ \A i \in DOMAIN posted' :
                posted'[i].pt = pos /\ (posted'[i].msg = "MOUSEMOVE" \/ posted'[i] = Mouse!Leave(pos))
           /\ \E i \in DOMAIN posted' : posted'[i].msg = "MOUSEMOVE"
           /\ tracking => \E i \in DOMAIN posted' : posted'[i].msg = "MOUSELEAVE"
      /\ Mouse!HitTest(pos) # "ChromeButton" =>
           /\ \A i \in DOMAIN posted' :
                posted'[i].msg = "MOUSELEAVE" /\ (posted'[i].tag \/ posted'[i].pt = pos)
           /\ isMouseLeaveBlocked \/ tracking => \E i \in DOMAIN posted' : posted'[i].msg = "MOUSELEAVE"
      /\ tracking' = FALSE /\ lastHitTestResult' = "Outside"
      /\ moved' = FALSE /\ ncTracking' = TRUE
      /\ UNCHANGED <<pos, state, fixed, hooked, tracked, hover, isMouseLeaveBlocked>>
  BY <1>1, NcMouseMoveSeen
<1>3. pos # Outside
  BY <1>1 DEF MouseInv
<1>4. tracked => tracking \/ isMouseLeaveBlocked
  <2>1. DOMAIN posted = {}
    BY <1>2
  <2> QED BY <1>1, <2>1 DEF MouseTracked
<1>5. Mouse!HitTest(pos)' = Mouse!HitTest(pos) /\ Mouse!InClient(pos)' = Mouse!InClient(pos)
  BY <1>2, SameWindow
<1>6. Mouse!TypeOK'
  BY <1>1, <1>2 DEF Mouse!TypeOK, Mouse!Parts
<1>7. MouseTracked'
  <2>1. \A i \in DOMAIN posted' : posted'[i].msg = "MOUSEMOVE" => posted'[i].pt # Outside
    BY <1>2, <1>3
  <2>2. tracked => isMouseLeaveBlocked \/ \E i \in DOMAIN posted' : posted'[i].msg = "MOUSELEAVE"
    BY <1>2, <1>4
  <2> QED BY <1>1, <1>2, <1>5, <2>1, <2>2 DEF MouseTracked
<1>8. OverClient'
  BY <1>2, <1>5 DEF OverClient
<1>9. OverFrame'
  <2> SUFFICES ASSUME Mouse!HitTest(pos) # "ChromeButton"
               PROVE  /\ NoMove(posted')
                      /\ pos \notin ButtonPixels =>
                           /\ \A i \in DOMAIN posted' : ~Held(posted'[i])
                           /\ tracked => \E i \in DOMAIN posted' : Clean(posted'[i])
    BY <1>2, <1>5 DEF OverFrame
  <2>1. NoMove(posted')
    BY <1>2 DEF NoMove
  <2> QED BY <1>2, <1>4, <2>1 DEF Held, Clean
<1>10. OverButton'
  <2> SUFFICES ASSUME Mouse!HitTest(pos) = "ChromeButton"
               PROVE  /\ \A i \in DOMAIN posted' :
                           posted'[i].pt \in ButtonPixels /\ (posted'[i].msg = "MOUSEMOVE" \/ Held(posted'[i]))
                      /\ \E i \in DOMAIN posted' : posted'[i].msg = "MOUSEMOVE"
    BY <1>2, <1>5 DEF OverButton
  <2>1. pos \in ButtonPixels
    BY HitButton
  <2> QED BY <1>2, <2>1, LeaveIs
<1> QED BY <1>2, <1>3, <1>6, <1>7, <1>8, <1>9, <1>10 DEF MouseInv

\* Windows asks which part the pointer is over.
LEMMA AskKeeps ==
  ASSUME MouseInv, Mouse!Ask
  PROVE  MouseInv'
<1>1. /\ lastHitTestResult' = Mouse!HitTest(pos)
      /\ UNCHANGED <<pos, state, fixed, hooked, moved, posted, isMouseLeaveBlocked, tracking, ncTracking, tracked, hover>>
  BY DEF Mouse!Ask, Mouse!window
<1>2. /\ Mouse!HitTest(pos)' = Mouse!HitTest(pos) /\ Mouse!InClient(pos)' = Mouse!InClient(pos)
      /\ Settled' = Settled
  BY <1>1, SameWindow DEF Settled
<1>3. Mouse!TypeOK'
  BY <1>1, HitParts DEF MouseInv, Mouse!TypeOK
<1>4. MouseTracked'
  BY <1>1, <1>2 DEF MouseInv, MouseTracked
<1>5. OverClient' /\ OverFrame' /\ OverButton'
  BY <1>1, <1>2 DEF MouseInv, OverClient, OverFrame, OverButton
<1> QED BY <1>1, <1>3, <1>4, <1>5 DEF MouseInv

LEMMA MouseStep == MouseInv /\ [Mouse!Next]_mouseVars => MouseInv'
<1> SUFFICES ASSUME MouseInv, [Mouse!Next]_mouseVars PROVE MouseInv'
  OBVIOUS
<1>1. CASE UNCHANGED mouseVars
  <2>1. /\ UNCHANGED <<pos, state, fixed, hooked, moved, posted, lastHitTestResult, isMouseLeaveBlocked>>
        /\ UNCHANGED <<tracking, ncTracking, tracked, hover>>
    BY <1>1 DEF mouseVars
  <2>2. /\ Mouse!HitTest(pos)' = Mouse!HitTest(pos) /\ Mouse!InClient(pos)' = Mouse!InClient(pos)
        /\ Settled' = Settled
    BY <2>1, SameWindow DEF Settled
  <2>3. Mouse!TypeOK'
    BY <2>1 DEF MouseInv, Mouse!TypeOK
  <2>4. MouseTracked'
    BY <2>1, <2>2 DEF MouseInv, MouseTracked
  <2>5. OverClient' /\ OverFrame' /\ OverButton'
    BY <2>1, <2>2 DEF MouseInv, OverClient, OverFrame, OverButton
  <2> QED BY <2>1, <2>3, <2>4, <2>5 DEF MouseInv
<1>2. ASSUME NEW p \in Pixels \cup {Outside}, NEW s \in Mouse!States, Mouse!MoveTo(p, s) PROVE MouseInv'
  BY <1>2, GoneKeeps, MovedKeeps
<1>3. CASE Mouse!MouseMove
  BY <1>3, MouseMoveKeeps
<1>4. CASE Mouse!NcMouseMove
  BY <1>4, NcMouseMoveKeeps
<1>5. CASE Mouse!Ask
  BY <1>5, AskKeeps
<1>6. CASE Mouse!Dispatch
  <2>1. Head(posted).msg = "MOUSEMOVE" \/ Head(posted).msg = "MOUSELEAVE" \/ Head(posted).msg = "NCMOUSELEAVE"
    BY <1>6 DEF Mouse!Dispatch
  <2> QED BY <1>6, <2>1, MoveKeeps, LeaveKeeps, NcLeaveKeeps
<1> QED BY <1>1, <1>2, <1>3, <1>4, <1>5, <1>6 DEF Mouse!Next
=============================================================================
