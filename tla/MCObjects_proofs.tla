------------------------ MODULE MCObjects_proofs ------------------------
(***************************************************************************)
(* Theorems about MCObjects. For most parts of MCData the steps are proved *)
(* in MCData_proofs; here, for any windows, connections, styles, buttons,  *)
(* title bars, plugins, words, libraries and files:                        *)
(*   - the maps of QFramelessManager agree, and a hooked window can pass   *)
(*     its messages on. Neither holds step by step on its own. A fresh     *)
(*     native id has no procedure, so that nobody has it (HasProcedure,    *)
(*     OwnIds); and the data of an attached window is that of a window     *)
(*     set up completely, with Qt's procedure saved (SetUp), which         *)
(*     detaching puts back;                                                *)
(*   - a connection's handshake is sound (ServerInv);                      *)
(*   - title bars, buttons, system menus, borders and labels show what     *)
(*     the style and the window's state ask for (BarInv, ButtonInv,        *)
(*     MenuInv, StyleInv, TrialInv);                                       *)
(*   - what is stored in two ways agrees: plugins and their categories,    *)
(*     the two maps of QStringHash, symbols and their libraries, a file    *)
(*     and its rows (PluginInv, WordInv, LoaderInv, FileInv).              *)
(* The last theorems are those of PartSpec, where each part takes its own  *)
(* steps and leaves the others alone.                                      *)
(***************************************************************************)
EXTENDS MCObjects, MCData_proofs

-----------------------------------------------------------------------------
(* The windows.                                                            *)

OwnIds == \A v, w \in Windows : nid[v] = nid[w] /\ nid[v] # None => v = w

HasProcedure == \A w \in Windows : nid[w] # None => procedure[nid[w]] # None

SetUp ==
  \A w \in Windows : dataMap[w] # None =>
    /\ dataMap[w].isFrameless /\ dataMap[w].handler
    /\ dataMap[w].windowProcHooked
    /\ dataMap[w].qtWindowProc = "qt"

WindowsInv == TypeOK /\ OwnIds /\ HasProcedure /\ SetUp /\ MapsAgree /\ HookForwards

-----------------------------------------------------------------------------

\* None is no window, no native id, no procedure and no data.
LEMMA NoneIsNothing ==
  None \notin Windows /\ None \notin Ids /\ None \notin Procedures /\ None \notin Data
  BY WindowsAssumption DEF WindowsAssumption

\* Nothing is attached at the beginning (qframelessmanager.cpp:32-42).
LEMMA WindowsStart == Init => WindowsInv
  BY NoneIsNothing DEF Init, WindowsInv, TypeOK, OwnIds, HasProcedure, SetUp, MapsAgree, HookForwards, Procedures

\* A window gets its data, complete, and its native window a hook
\* (qframelesshelper.cpp:243-316, qframelesshelper_win.cpp:582-623, 733-769).
LEMMA AttachWindows ==
  ASSUME WindowsInv, NEW h \in Windows, Attach(h), helpers' = helpers \cup {h}
  PROVE  WindowsInv'
<1> USE DEF WindowsInv
<1>1. PICK id \in Ids :
        /\ Created(h, id)
        /\ nid' = [nid EXCEPT ![h] = id]
        /\ LET procs == [procedure EXCEPT ![id] = IF @ = None THEN "qt" ELSE @]
               own  == AddWindow([DataOf(h, id) EXCEPT !.callbacks = TRUE])
           IN  /\ dataMap' = [dataMap EXCEPT ![h] = Setup(own, procs)]
               /\ procedure' = Install(own, procs)
               /\ windowMap' = MapOfCreate(h, id)
  BY DEF Attach
<1>2. h \notin attached /\ attached' = attached \cup {h} /\ dataMap[h] = None
  BY DEF Attach, TypeOK
<1> DEFINE procs == [procedure EXCEPT ![id] = IF @ = None THEN "qt" ELSE @]
           own  == AddWindow([DataOf(h, id) EXCEPT !.callbacks = TRUE])
<1>3. /\ own \in Data
      /\ own.windowId = id /\ own.handler /\ ~own.windowProcHooked
      /\ own.qtWindowProc = None
  BY <1>2 DEF DataOf, NewData, AddWindow, Data
<1>4. procs \in [Ids -> Procedures \cup {None}] /\ procs[id] # None
      /\ \A i \in Ids \ {id} : procs[i] = procedure[i]
  BY NoneIsNothing DEF TypeOK, Procedures
<1>5. \A w \in Windows \ {h} : nid[w] # id
  <2> SUFFICES ASSUME NEW w \in Windows, w # h, nid[w] = id PROVE FALSE
    OBVIOUS
  <2>1. CASE nid[h] # None
    BY <1>1, <2>1 DEF Created, OwnIds
  <2>2. CASE nid[h] = None
    BY <1>1, <2>2, NoneIsNothing DEF Created, HasProcedure
  <2> QED BY <2>1, <2>2
<1>6. procs[id] = "qt"
  <2>1. CASE procedure[id] = "hook"
    <3>1. windowMap[id] # None
      BY <2>1 DEF HookForwards
    <3>2. windowMap[id] \in Windows /\ nid[windowMap[id]] = id /\ dataMap[windowMap[id]] # None
      BY <3>1 DEF MapsAgree, TypeOK
    <3> QED BY <3>2, <1>2, <1>5
  <2> QED BY <2>1, <1>4 DEF TypeOK, Procedures
<1> DEFINE new == Setup(own, procs)
<1>7. /\ new \in Data /\ new # None
      /\ new.windowId = id /\ new.isFrameless /\ new.handler
      /\ new.windowProcHooked /\ new.qtWindowProc = "qt"
  <2>1. Saved(own, procs) = "qt"
    BY <1>3, <1>6 DEF Saved
  <2>2. new = [own EXCEPT !.qtWindowProc = "qt", !.windowProcHooked = TRUE, !.isFrameless = TRUE]
    BY <2>1 DEF Setup
  <2> HIDE DEF own, new
  <2> QED BY <1>3, <2>2, NoneIsNothing DEF Data, Procedures
<1>8. /\ nid' = [nid EXCEPT ![h] = id]
      /\ dataMap' = [dataMap EXCEPT ![h] = new]
      /\ procedure' = [procs EXCEPT ![id] = "hook"]
      /\ windowMap' = [windowMap EXCEPT ![id] = h]
  BY <1>1, <1>2, <1>3 DEF Install, MapOfCreate
<1> HIDE DEF procs, own, new
<1>9. TypeOK'
  BY <1>2, <1>4, <1>7, <1>8 DEF TypeOK, Procedures
<1>10. /\ \A w \in Windows \ {h} : dataMap'[w] = dataMap[w] /\ nid'[w] = nid[w]
       /\ dataMap'[h] = new /\ nid'[h] = id
       /\ \A i \in Ids \ {id} : windowMap'[i] = windowMap[i] /\ procedure'[i] = procedure[i]
       /\ windowMap'[id] = h /\ procedure'[id] = "hook"
  BY <1>4, <1>8 DEF TypeOK
<1>11. OwnIds' /\ HasProcedure' /\ SetUp'
  <2>1. OwnIds'
    BY <1>5, <1>10 DEF OwnIds
  <2>2. HasProcedure'
    BY <1>5, <1>10, NoneIsNothing DEF HasProcedure, TypeOK, Procedures
  <2>3. SetUp'
    BY <1>7, <1>10 DEF SetUp
  <2> QED BY <2>1, <2>2, <2>3
<1>12. MapsAgree'
  <2>1. ASSUME NEW w \in Windows, dataMap'[w] # None
        PROVE  dataMap'[w].windowId = nid'[w] /\ windowMap'[nid'[w]] = w
    <3>1. CASE w = h
      BY <3>1, <1>7, <1>10
    <3>2. CASE w # h
      <4>1. dataMap[w] # None /\ dataMap[w].windowId = nid[w] /\ windowMap[nid[w]] = w
        BY <2>1, <3>2, <1>10 DEF MapsAgree
      <4>2. nid[w] \in Ids \ {id}
        BY <4>1, <3>2, <1>5, NoneIsNothing DEF TypeOK, Data
      <4> QED BY <4>1, <4>2, <3>2, <1>10
    <3> QED BY <3>1, <3>2
  <2>2. ASSUME NEW i \in Ids, windowMap'[i] # None
        PROVE  dataMap'[windowMap'[i]] # None /\ nid'[windowMap'[i]] = i
    <3>1. CASE i = id
      BY <3>1, <1>7, <1>10
    <3>2. CASE i # id
      <4>1. windowMap[i] \in Windows /\ windowMap'[i] = windowMap[i]
            /\ dataMap[windowMap[i]] # None /\ nid[windowMap[i]] = i
        BY <2>2, <3>2, <1>10 DEF MapsAgree, TypeOK
      <4> QED BY <4>1, <1>2, <1>10
    <3> QED BY <3>1, <3>2
  <2> QED BY <2>1, <2>2 DEF MapsAgree
<1>13. HookForwards'
  <2>1. ASSUME NEW i \in Ids, procedure'[i] = "hook"
        PROVE  /\ windowMap'[i] # None
               /\ dataMap'[windowMap'[i]].isFrameless
               /\ dataMap'[windowMap'[i]].qtWindowProc = "qt"
    BY <2>1, <1>2, <1>7, <1>10, NoneIsNothing DEF TypeOK, MapsAgree, HookForwards
  <2>2. \A w \in Windows : dataMap'[w] # None => dataMap'[w].qtWindowProc # "hook"
    BY <1>7, <1>10 DEF HookForwards
  <2> QED BY <2>1, <2>2 DEF HookForwards
<1> QED BY <1>9, <1>11, <1>12, <1>13

\* Detaching puts Qt's procedure back and forgets the window
\* (qframelesshelper.cpp:318-331, qframelesshelper_win.cpp:625-654).
LEMMA DetachWindows ==
  ASSUME WindowsInv, NEW h \in Windows, Detach(h), helpers' = helpers \cup {h}
  PROVE  WindowsInv'
<1> USE DEF WindowsInv
<1> DEFINE id == dataMap[h].windowId
<1>1. h \in attached /\ dataMap[h] # None /\ dataMap[h] \in Data
  BY DEF Detach, TypeOK
<1>2. id \in Ids /\ id = nid[h] /\ windowMap[id] = h
  BY <1>1 DEF MapsAgree, Data
<1>3. /\ procedure' = [procedure EXCEPT ![id] = "qt"]
      /\ windowMap' = [windowMap EXCEPT ![id] = None]
      /\ dataMap' = [dataMap EXCEPT ![h] = None]
      /\ nid' = nid
  BY <1>1 DEF Detach, Uninstall, SetUp
<1>4. TypeOK'
  BY <1>1, <1>2, <1>3 DEF TypeOK, Detach, Procedures
<1> HIDE DEF id
<1>5. /\ \A w \in Windows \ {h} : dataMap'[w] = dataMap[w]
      /\ dataMap'[h] = None
      /\ \A i \in Ids \ {id} : windowMap'[i] = windowMap[i] /\ procedure'[i] = procedure[i]
      /\ windowMap'[id] = None /\ procedure'[id] = "qt"
  BY <1>2, <1>3 DEF TypeOK
<1>6. OwnIds' /\ HasProcedure' /\ SetUp'
  BY <1>2, <1>3, <1>5, NoneIsNothing DEF OwnIds, HasProcedure, SetUp, Procedures, TypeOK
<1>7. \A w \in Windows \ {h} : nid[w] # id
  BY <1>2, NoneIsNothing DEF OwnIds
<1>8. MapsAgree'
  <2>1. ASSUME NEW w \in Windows, dataMap'[w] # None
        PROVE  dataMap'[w].windowId = nid'[w] /\ windowMap'[nid'[w]] = w
    <3>1. w # h
      BY <2>1, <1>5
    <3>2. dataMap[w] # None /\ dataMap[w].windowId = nid[w] /\ windowMap[nid[w]] = w
      BY <2>1, <3>1, <1>5 DEF MapsAgree
    <3>3. nid[w] \in Ids \ {id}
      BY <3>1, <3>2, <1>7, NoneIsNothing DEF TypeOK, Data
    <3> QED BY <3>1, <3>2, <3>3, <1>3, <1>5
  <2>2. ASSUME NEW i \in Ids, windowMap'[i] # None
        PROVE  dataMap'[windowMap'[i]] # None /\ nid'[windowMap'[i]] = i
    <3>1. i # id
      BY <2>2, <1>5
    <3>2. windowMap[i] \in Windows /\ windowMap'[i] = windowMap[i]
          /\ dataMap[windowMap[i]] # None /\ nid[windowMap[i]] = i
      BY <2>2, <3>1, <1>5 DEF MapsAgree, TypeOK
    <3> QED BY <3>1, <3>2, <1>2, <1>3, <1>5
  <2> QED BY <2>1, <2>2 DEF MapsAgree
<1>9. HookForwards'
  <2>1. ASSUME NEW i \in Ids, procedure'[i] = "hook"
        PROVE  /\ windowMap'[i] # None
               /\ dataMap'[windowMap'[i]].isFrameless
               /\ dataMap'[windowMap'[i]].qtWindowProc = "qt"
    <3>1. i # id
      BY <2>1, <1>5
    <3>2. /\ windowMap[i] \in Windows /\ windowMap[i] # None /\ nid[windowMap[i]] = i
          /\ dataMap[windowMap[i]].isFrameless
          /\ dataMap[windowMap[i]].qtWindowProc = "qt"
      BY <2>1, <3>1, <1>5 DEF HookForwards, MapsAgree, TypeOK
    <3> QED BY <3>1, <3>2, <1>2, <1>5
  <2>2. \A w \in Windows : dataMap'[w] # None => dataMap'[w].qtWindowProc # "hook"
    BY <1>5 DEF HookForwards
  <2> QED BY <2>1, <2>2 DEF HookForwards
<1> QED BY <1>4, <1>6, <1>8, <1>9

\* A window that had no native id gets a fresh one.
LEMMA ShowWindows ==
  ASSUME WindowsInv, NEW h \in Windows, Show(h)
  PROVE  WindowsInv'
<1> USE DEF WindowsInv
<1>1. PICK id \in Ids :
        /\ procedure[id] = None
        /\ nid' = [nid EXCEPT ![h] = id]
        /\ procedure' = [procedure EXCEPT ![id] = "qt"]
  BY DEF Show
<1>2. nid[h] = None /\ UNCHANGED <<helpers, attached, dataMap, windowMap>>
  BY DEF Show
<1>3. TypeOK'
  BY <1>1, <1>2 DEF TypeOK, Procedures
<1>4. /\ \A w \in Windows \ {h} : nid'[w] = nid[w] /\ nid[w] # id
      /\ nid'[h] = id
      /\ \A i \in Ids \ {id} : procedure'[i] = procedure[i]
      /\ procedure'[id] = "qt"
  BY <1>1, NoneIsNothing DEF TypeOK, HasProcedure
<1>5. dataMap[h] = None
  BY <1>2, NoneIsNothing DEF MapsAgree, TypeOK, Data
<1>6. OwnIds' /\ HasProcedure' /\ SetUp'
  <2>1. OwnIds'
    BY <1>4 DEF OwnIds
  <2>2. HasProcedure'
    BY <1>4, NoneIsNothing DEF HasProcedure, Procedures, TypeOK
  <2>3. SetUp'
    BY <1>2 DEF SetUp
  <2> QED BY <2>1, <2>2, <2>3
<1>7. MapsAgree'
  <2>1. \A w \in Windows : dataMap'[w] # None => w # h /\ nid'[w] = nid[w]
    BY <1>2, <1>4, <1>5
  <2>2. \A i \in Ids : windowMap'[i] # None => nid'[windowMap'[i]] = nid[windowMap[i]]
    BY <1>2, <1>4, <1>5 DEF MapsAgree, TypeOK
  <2> QED BY <1>2, <2>1, <2>2 DEF MapsAgree
<1>8. HookForwards'
  BY <1>2, <1>4 DEF HookForwards
<1> QED BY <1>3, <1>6, <1>7, <1>8

\* The window gets a new native id, and its data and the maps follow
\* (qframelessmanager.cpp:193-212).
LEMMA WinIdChangeWindows ==
  ASSUME WindowsInv, NEW h \in Windows, WinIdChange(h)
  PROVE  WindowsInv'
<1> USE DEF WindowsInv
<1>1. PICK id \in Ids :
        /\ procedure[id] = None \/ id = nid[h]
        /\ nid' = [nid EXCEPT ![h] = id]
        /\ LET procs == [procedure EXCEPT ![nid[h]] = None, ![id] = "qt"]
           IN  IF dataMap[h] = None \/ ~dataMap[h].handler \/ ~dataMap[h].isFrameless
               THEN /\ procedure' = procs
                    /\ UNCHANGED <<dataMap, windowMap>>
               ELSE LET own == AddWindow([dataMap[h] EXCEPT !.windowId = id, !.isFrameless = FALSE])
                    IN  /\ windowMap' = MapOfUpdate(h, dataMap[h].windowId, id)
                        /\ dataMap' = [dataMap EXCEPT ![h] = Setup(own, procs)]
                        /\ procedure' = Install(own, procs)
  BY DEF WinIdChange
<1> DEFINE procs == [procedure EXCEPT ![nid[h]] = None, ![id] = "qt"]
           old == nid[h]
<1>2. old \in Ids /\ old # None /\ UNCHANGED <<helpers, attached>>
  BY DEF WinIdChange, TypeOK
<1>3. /\ \A w \in Windows \ {h} : nid'[w] = nid[w] /\ nid[w] # id /\ nid[w] # old
      /\ nid'[h] = id
  BY <1>1, <1>2, NoneIsNothing DEF TypeOK, HasProcedure, OwnIds
<1>4. /\ procs \in [Ids -> Procedures \cup {None}]
      /\ procs[id] = "qt" /\ procs[old] # "hook"
      /\ \A i \in Ids \ {id, old} : procs[i] = procedure[i]
  BY <1>2, NoneIsNothing DEF TypeOK, Procedures
<1>5. CASE dataMap[h] = None
  <2>1. procedure' = procs /\ dataMap' = dataMap /\ windowMap' = windowMap
    BY <1>1, <1>5
  <2> HIDE DEF procs, old
  <2>2. TypeOK'
    BY <1>1, <1>2, <1>4, <2>1 DEF TypeOK
  <2>3. OwnIds' /\ SetUp'
    BY <1>3, <2>1 DEF OwnIds, SetUp
  <2>4. HasProcedure'
    BY <1>3, <1>4, <2>1, NoneIsNothing DEF HasProcedure, Procedures, TypeOK
  <2>5. \A i \in Ids : windowMap[i] # None => windowMap[i] # h /\ windowMap[i] \in Windows
    BY <1>5 DEF MapsAgree, TypeOK
  <2>6. MapsAgree'
    <3>1. \A w \in Windows : dataMap'[w] # None => nid'[w] = nid[w]
      BY <1>3, <1>5, <2>1
    <3>2. \A i \in Ids : windowMap'[i] # None => nid'[windowMap'[i]] = nid[windowMap[i]]
      BY <1>3, <2>1, <2>5
    <3> QED BY <2>1, <3>1, <3>2 DEF MapsAgree
  <2>7. HookForwards'
    BY <1>4, <2>1 DEF HookForwards
  <2> QED BY <2>2, <2>3, <2>4, <2>6, <2>7
<1>6. CASE dataMap[h] # None
  <2> DEFINE own == AddWindow([dataMap[h] EXCEPT !.windowId = id, !.isFrameless = FALSE])
             new == Setup(own, procs)
  <2>1. dataMap[h] \in Data /\ dataMap[h].windowId = old /\ windowMap[old] = h
    BY <1>6 DEF TypeOK, MapsAgree
  <2>2. /\ own \in Data /\ own.windowId = id /\ own.handler
        /\ own.windowProcHooked /\ own.qtWindowProc = "qt"
    BY <1>6, <2>1 DEF SetUp, AddWindow, Data
  <2>3. new = [own EXCEPT !.qtWindowProc = "qt", !.windowProcHooked = TRUE, !.isFrameless = TRUE]
    BY <2>2, NoneIsNothing DEF Setup, Saved, Procedures
  <2>4. /\ windowMap' = [windowMap EXCEPT ![old] = None, ![id] = h]
        /\ dataMap' = [dataMap EXCEPT ![h] = new]
        /\ procedure' = procs
    BY <1>1, <1>6, <2>1, <2>2 DEF MapOfUpdate, Install, SetUp
  <2> HIDE DEF own, procs, old, new
  <2>5. /\ new \in Data /\ new # None /\ new.windowId = id /\ new.isFrameless
        /\ new.handler /\ new.windowProcHooked /\ new.qtWindowProc = "qt"
    BY <2>2, <2>3, NoneIsNothing DEF Data, Procedures
  <2>6. TypeOK'
    BY <1>1, <1>2, <1>4, <1>6, <2>4, <2>5 DEF TypeOK
  <2>7. /\ \A w \in Windows \ {h} : dataMap'[w] = dataMap[w]
        /\ dataMap'[h] = new
        /\ \A i \in Ids \ {id, old} : windowMap'[i] = windowMap[i]
        /\ windowMap'[id] = h
        /\ old # id => windowMap'[old] = None
    BY <1>2, <2>4 DEF TypeOK
  <2>8. OwnIds' /\ HasProcedure' /\ SetUp'
    <3>1. OwnIds'
      BY <1>3 DEF OwnIds
    <3>2. HasProcedure'
      BY <1>3, <1>4, <2>4, NoneIsNothing DEF HasProcedure, Procedures, TypeOK
    <3>3. SetUp'
      BY <2>5, <2>7 DEF SetUp
    <3> QED BY <3>1, <3>2, <3>3
  <2>9. MapsAgree'
    <3>1. ASSUME NEW w \in Windows, dataMap'[w] # None
          PROVE  dataMap'[w].windowId = nid'[w] /\ windowMap'[nid'[w]] = w
      <4>1. CASE w = h
        BY <4>1, <1>3, <2>5, <2>7
      <4>2. CASE w # h
        <5>1. dataMap[w] # None /\ dataMap[w].windowId = nid[w] /\ windowMap[nid[w]] = w
          BY <3>1, <4>2, <2>7 DEF MapsAgree
        <5>2. nid[w] \in Ids \ {id, old} /\ nid'[w] = nid[w]
          BY <5>1, <4>2, <1>3 DEF TypeOK, Data
        <5> QED BY <5>1, <5>2, <4>2, <2>7
      <4> QED BY <4>1, <4>2
    <3>2. ASSUME NEW i \in Ids, windowMap'[i] # None
          PROVE  dataMap'[windowMap'[i]] # None /\ nid'[windowMap'[i]] = i
      <4>1. CASE i = id
        BY <4>1, <1>3, <2>5, <2>7
      <4>2. CASE i # id
        <5>1. i # old /\ windowMap'[i] = windowMap[i]
          BY <3>2, <4>2, <2>7
        <5>2. /\ windowMap[i] \in Windows /\ dataMap[windowMap[i]] # None
              /\ nid[windowMap[i]] = i
          BY <3>2, <5>1 DEF MapsAgree, TypeOK
        <5>3. windowMap[i] # h
          BY <5>1, <5>2 DEF old
        <5> QED BY <5>1, <5>2, <5>3, <1>3, <2>7
      <4> QED BY <4>1, <4>2
    <3> QED BY <3>1, <3>2 DEF MapsAgree
  <2>10. HookForwards'
    <3>1. ASSUME NEW i \in Ids, procedure'[i] = "hook"
          PROVE  /\ windowMap'[i] # None
                 /\ dataMap'[windowMap'[i]].isFrameless
                 /\ dataMap'[windowMap'[i]].qtWindowProc = "qt"
      <4>1. i \notin {id, old} /\ procedure[i] = "hook"
        BY <3>1, <1>4, <2>4
      <4>2. /\ windowMap[i] \in Windows /\ windowMap[i] # None
            /\ dataMap[windowMap[i]].isFrameless
            /\ dataMap[windowMap[i]].qtWindowProc = "qt"
        BY <4>1 DEF HookForwards, TypeOK
      <4>3. windowMap[i] # h
        BY <4>1, <4>2 DEF MapsAgree, old
      <4> QED BY <4>1, <4>2, <4>3, <2>7
    <3>2. \A w \in Windows : dataMap'[w] # None => dataMap'[w].qtWindowProc # "hook"
      BY <2>5, <2>7 DEF HookForwards
    <3> QED BY <3>1, <3>2 DEF HookForwards
  <2> QED BY <2>6, <2>8, <2>9, <2>10
<1> QED BY <1>5, <1>6

-----------------------------------------------------------------------------

\* A call of extends() finds the helper of the window or of one inside it, makes
\* one if there is none, and attaches it, detaches it or leaves it as it is.
LEMMA ExtendsWindows ==
  ASSUME WindowsInv, NEW w \in Windows, NEW on \in BOOLEAN, Extends(w, on)
  PROVE  WindowsInv'
<1>1. PICK h \in Instance(w) :
        /\ helpers' = helpers \cup {h}
        /\ IF IsExtended(h) = on THEN UNCHANGED <<nid, procedure, attached, dataMap, windowMap>>
           ELSE IF on THEN Attach(h) ELSE Detach(h)
  BY DEF Extends
<1>2. h \in Windows
  BY WindowsAssumption DEF Instance, WindowsAssumption
<1>3. CASE IsExtended(h) = on
  BY <1>1, <1>2, <1>3
     DEF WindowsInv, TypeOK, OwnIds, HasProcedure, SetUp, MapsAgree, HookForwards
<1>4. CASE IsExtended(h) # on /\ on
  BY <1>1, <1>2, <1>4, AttachWindows
<1>5. CASE IsExtended(h) # on /\ ~on
  BY <1>1, <1>2, <1>5, DetachWindows
<1> QED BY <1>3, <1>4, <1>5

\* The invariant is inductive.
LEMMA WindowsStep == WindowsInv /\ [Next]_vars => WindowsInv'
<1> SUFFICES ASSUME WindowsInv, [Next]_vars PROVE WindowsInv'
  OBVIOUS
<1>1. ASSUME NEW w \in Windows, NEW on \in BOOLEAN, Extends(w, on) PROVE WindowsInv'
  BY <1>1, ExtendsWindows
<1>2. ASSUME NEW w \in Windows, Show(w) PROVE WindowsInv'
  BY <1>2, ShowWindows
<1>3. ASSUME NEW w \in Windows, WinIdChange(w) PROVE WindowsInv'
  BY <1>3, WinIdChangeWindows
<1>4. CASE UNCHANGED vars
  BY <1>4 DEF vars, WindowsInv, TypeOK, OwnIds, HasProcedure, SetUp, MapsAgree, HookForwards
<1> QED BY <1>1, <1>2, <1>3, <1>4 DEF Next

-----------------------------------------------------------------------------
(* The WebSocket server. A connection that is being asked something was not *)
(* answered before, and whoever is let in is not being let go of.           *)

ServerTyped ==
  /\ steps \in [Connections -> {"none", "idle", "body", "upgrade", "websocket", "failed"}]
  /\ request \in [Connections -> Server!Requests \cup {Server!NoRequest}]
  /\ \A c \in Connections : extra[c] \in {c, NoValue}
  /\ extra \in [Connections -> Connections \cup {NoValue}]
  /\ answer \in [Connections -> Server!Answers \cup {NoValue}]

ServerInv == ServerTyped /\ HandshakeIsSound

LEMMA ServerStart == Server!Init => ServerInv
  BY ValueAssumption DEF Server!Init, Server!ServerAssumption, ServerInv, ServerTyped, HandshakeIsSound,
     Server!HandshakeIsSound

\* The contexts are those of the connections that have one.
LEMMA ContextsFollow ==
  ASSUME ServerInv, NEW c \in Connections, NEW x \in {c, NoValue},
         extra' = [extra EXCEPT ![c] = x],
         contexts' = (contexts \ {extra[c]}) \cup ({x} \ {NoValue})
  PROVE  contexts' = {extra'[e] : e \in Connections} \ {NoValue}
<1>1. /\ extra'[c] = x /\ \A e \in Connections \ {c} : extra'[e] = extra[e]
      /\ \A e \in Connections : extra[e] \in {e, NoValue}
  BY DEF ServerInv, ServerTyped
<1>2. contexts = {extra[e] : e \in Connections} \ {NoValue}
  BY DEF ServerInv, HandshakeIsSound, Server!HandshakeIsSound
<1>3. NoValue \notin Connections
  BY ValueAssumption DEF Server!ServerAssumption
<1> QED BY <1>1, <1>2, <1>3

\* What one connection does keeps what is said of the others.
OnlyOf(c) ==
  /\ \A e \in Connections \ {c} :
       /\ steps'[e] = steps[e] /\ request'[e] = request[e] /\ extra'[e] = extra[e]
       /\ answer'[e] = answer[e] /\ (e \in released' <=> e \in released)
  /\ ServerTyped'
  /\ contexts' = {extra'[e] : e \in Connections} \ {NoValue}

SoundFor(c) ==
  /\ extra[c] # NoValue => steps[c] # "none"
  /\ steps[c] = "websocket" =>
       /\ answer[c] # NoValue /\ answer[c].status = 101
       /\ answer[c].to.get /\ answer[c].to.tokens /\ answer[c].to.version
  /\ answer[c] # NoValue /\ steps[c] # "websocket" => c \in released

LEMMA SoundForEach ==
  ServerInv <=> /\ ServerTyped /\ contexts = {extra[e] : e \in Connections} \ {NoValue}
                /\ \A c \in Connections : SoundFor(c)
  BY DEF ServerInv, HandshakeIsSound, Server!HandshakeIsSound, SoundFor

LEMMA OneConnection ==
  ASSUME ServerInv, NEW c \in Connections, OnlyOf(c), SoundFor(c)'
  PROVE  ServerInv'
<1>1. \A e \in Connections : SoundFor(e)
  BY SoundForEach
<1>2. ASSUME NEW e \in Connections PROVE SoundFor(e)'
  <2>1. CASE e = c
    BY <2>1
  <2>2. CASE e # c
    BY <1>1, <2>2 DEF SoundFor, OnlyOf
  <2> QED BY <2>1, <2>2
<1>3. ServerInv' <=> /\ ServerTyped' /\ contexts' = {extra'[e] : e \in Connections} \ {NoValue}
                     /\ \A e \in Connections : SoundFor(e)'
  BY DEF ServerInv, HandshakeIsSound, Server!HandshakeIsSound, SoundFor
<1> QED BY <1>2, <1>3 DEF OnlyOf

\* Steps that leave the contexts alone.
LEMMA SameContexts ==
  ASSUME ServerInv, UNCHANGED <<extra, contexts>>
  PROVE  contexts' = {extra'[e] : e \in Connections} \ {NoValue}
  BY DEF ServerInv, HandshakeIsSound, Server!HandshakeIsSound

LEMMA AcceptKeeps ==
  ASSUME ServerInv, NEW c \in Connections, Server!OnAccept(c)
  PROVE  ServerInv'
<1>1. /\ steps[c] = "none" /\ answer' = [answer EXCEPT ![c] = NoValue]
      /\ UNCHANGED <<request, released>>
      /\ \/ /\ extra' = [extra EXCEPT ![c] = c] /\ contexts' = contexts \cup {c}
            /\ steps' = [steps EXCEPT ![c] = "idle"]
         \/ steps' = [steps EXCEPT ![c] = "failed"] /\ UNCHANGED <<extra, contexts>>
  BY DEF Server!OnAccept
<1>2. extra[c] = NoValue
  BY <1>1 DEF ServerInv, ServerTyped, HandshakeIsSound, Server!HandshakeIsSound
<1>3. contexts' = {extra'[e] : e \in Connections} \ {NoValue}
  <2>1. CASE UNCHANGED <<extra, contexts>>
    BY <2>1, SameContexts
  <2>2. CASE extra' = [extra EXCEPT ![c] = c] /\ contexts' = contexts \cup {c}
    <3>1. NoValue \notin contexts
      BY DEF ServerInv, HandshakeIsSound, Server!HandshakeIsSound
    <3>2. c # NoValue
      BY ValueAssumption DEF Server!ServerAssumption
    <3>3. contexts' = (contexts \ {extra[c]}) \cup ({c} \ {NoValue})
      BY <1>2, <2>2, <3>1, <3>2
    <3> QED BY <2>2, <3>3, ContextsFollow
  <2> QED BY <1>1, <2>1, <2>2
<1>4. ServerTyped'
  BY <1>1 DEF ServerInv, ServerTyped
<1>5. OnlyOf(c)
  BY <1>1, <1>3, <1>4 DEF OnlyOf, ServerInv, ServerTyped
<1>6. SoundFor(c)'
  BY <1>1, <1>2, ValueAssumption DEF SoundFor, ServerInv, ServerTyped
<1> QED BY <1>5, <1>6, OneConnection

LEMMA HeadersKeep ==
  ASSUME ServerInv, NEW c \in Connections, Server!OnHeadersComplete(c)
  PROVE  ServerInv'
<1>1. PICK r \in Server!Requests :
        /\ request' = [request EXCEPT ![c] = r]
        /\ steps' = [steps EXCEPT ![c] = IF r.upgrade THEN "upgrade" ELSE "body"]
  BY DEF Server!OnHeadersComplete
<1>2. /\ steps[c] = "idle" /\ c \notin released
      /\ UNCHANGED <<extra, contexts, answer, released>>
  BY DEF Server!OnHeadersComplete
<1>3. contexts' = {extra'[e] : e \in Connections} \ {NoValue}
  BY <1>2, SameContexts
<1>4. ServerTyped'
  BY <1>1, <1>2 DEF ServerInv, ServerTyped
<1>5. OnlyOf(c)
  BY <1>1, <1>2, <1>3, <1>4 DEF OnlyOf, ServerInv, ServerTyped
<1>6. SoundFor(c)
  BY SoundForEach
<1>7. steps'[c] \in {"upgrade", "body"}
  BY <1>1 DEF ServerInv, ServerTyped
<1>8. SoundFor(c)'
  BY <1>2, <1>6, <1>7 DEF SoundFor
<1> QED BY <1>5, <1>8, OneConnection

\* What is answered 101 is a GET with the tokens and the version.
LEMMA AnswerIsRight ==
  ASSUME NEW r
  PROVE  /\ Server!Answer(r) \in {101, 400, 405, 426}
         /\ Server!Answer(r) = 101 => r.get /\ r.tokens /\ r.version
  BY DEF Server!Answer, Server!isHeaderValueEmpty

LEMMA UpgradeKeeps ==
  ASSUME ServerInv, NEW c \in Connections, Server!OnUpgrade(c)
  PROVE  ServerInv'
<1> DEFINE status == Server!Answer(request[c])
<1>1. /\ steps[c] = "upgrade" /\ UNCHANGED <<request, extra, contexts>>
      /\ \/ /\ status = 101 /\ Server!Send(c, 101) /\ steps' = [steps EXCEPT ![c] = "websocket"]
            /\ UNCHANGED released
         \/ /\ status = 101 /\ UNCHANGED answer /\ steps' = [steps EXCEPT ![c] = "failed"]
            /\ UNCHANGED released
         \/ /\ Server!Send(c, status) \/ UNCHANGED answer
            /\ steps' = [steps EXCEPT ![c] = "failed"]
            /\ released' = released \cup {c}
  BY DEF Server!OnUpgrade
<1>2. /\ status \in {101, 400, 405, 426}
      /\ status = 101 => request[c].get /\ request[c].tokens /\ request[c].version
  BY AnswerIsRight
<1> HIDE DEF status
<1>3. contexts' = {extra'[e] : e \in Connections} \ {NoValue}
  BY <1>1, SameContexts
<1>4. request[c] \in Server!Requests \cup {Server!NoRequest}
  BY DEF ServerInv, ServerTyped
<1>5. ASSUME NEW s \in {101, 400, 405, 426}, Server!Send(c, s)
      PROVE  /\ answer' \in [Connections -> Server!Answers \cup {NoValue}]
             /\ answer'[c] = [status |-> s, to |-> request[c]]
             /\ answer'[c] # NoValue
             /\ \A e \in Connections \ {c} : answer'[e] = answer[e]
  <2>1. [status |-> s, to |-> request[c]] \in Server!Answers
    BY <1>4 DEF Server!Answers
  <2> QED BY <1>5, <2>1, ValueAssumption DEF Server!Send, Server!ServerAssumption, ServerInv, ServerTyped
<1>6. /\ answer' \in [Connections -> Server!Answers \cup {NoValue}]
      /\ \A e \in Connections \ {c} : answer'[e] = answer[e]
  BY <1>1, <1>2, <1>5 DEF ServerInv, ServerTyped
<1>7. ServerTyped'
  BY <1>1, <1>6 DEF ServerInv, ServerTyped
<1>8. OnlyOf(c)
  BY <1>1, <1>3, <1>6, <1>7 DEF OnlyOf, ServerInv, ServerTyped
<1>9. SoundFor(c)
  BY SoundForEach
<1>10. SoundFor(c)'
  <2>1. steps'[c] = "websocket" \/ steps'[c] = "failed"
    BY <1>1 DEF ServerInv, ServerTyped
  <2>2. CASE steps'[c] = "websocket"
    <3>1. status = 101 /\ Server!Send(c, 101)
      BY <1>1, <2>2 DEF ServerInv, ServerTyped
    <3>2. answer'[c] = [status |-> 101, to |-> request[c]] /\ answer'[c] # NoValue
      BY <3>1, <1>5
    <3> QED BY <1>1, <1>2, <2>2, <3>1, <3>2 DEF SoundFor
  <2>3. CASE steps'[c] = "failed"
    <3>1. answer'[c] # NoValue => c \in released'
      BY <1>1, <1>9, <2>3 DEF SoundFor, ServerInv, ServerTyped
    <3> QED BY <2>3, <3>1 DEF SoundFor
  <2> QED BY <2>1, <2>2, <2>3
<1> QED BY <1>8, <1>10, OneConnection

LEMMA MessageKeeps ==
  ASSUME ServerInv, NEW c \in Connections, Server!OnMessageComplete(c)
  PROVE  ServerInv'
<1>1. /\ steps[c] = "body" /\ UNCHANGED <<request, extra, contexts>>
      /\ \/ /\ Server!Send(c, 200) /\ steps' = [steps EXCEPT ![c] = "idle"]
            /\ released' = released \cup {c}
         \/ steps' = [steps EXCEPT ![c] = "failed"] /\ UNCHANGED <<answer, released>>
  BY DEF Server!OnMessageComplete
<1>2. contexts' = {extra'[e] : e \in Connections} \ {NoValue}
  BY <1>1, SameContexts
<1>3. request[c] \in Server!Requests \cup {Server!NoRequest}
  BY DEF ServerInv, ServerTyped
<1>4. [status |-> 200, to |-> request[c]] \in Server!Answers
  BY <1>3 DEF Server!Answers
<1>5. /\ answer' \in [Connections -> Server!Answers \cup {NoValue}]
      /\ \A e \in Connections \ {c} : answer'[e] = answer[e]
  BY <1>1, <1>4 DEF Server!Send, ServerInv, ServerTyped
<1>6. ServerTyped'
  BY <1>1, <1>5 DEF ServerInv, ServerTyped
<1>7. OnlyOf(c)
  BY <1>1, <1>2, <1>5, <1>6 DEF OnlyOf, ServerInv, ServerTyped
<1>8. SoundFor(c) /\ steps[c] \in {"body"} /\ steps'[c] \in {"idle", "failed"}
  BY <1>1, SoundForEach DEF ServerInv, ServerTyped
<1>9. SoundFor(c)'
  BY <1>1, <1>8 DEF SoundFor
<1> QED BY <1>7, <1>9, OneConnection

LEMMA CloseKeeps ==
  ASSUME ServerInv, NEW c \in Connections, Server!OnClose(c)
  PROVE  ServerInv'
<1>1. /\ contexts' = contexts \ {extra[c]} /\ extra' = [extra EXCEPT ![c] = NoValue]
      /\ steps' = [steps EXCEPT ![c] = "none"]
      /\ request' = [request EXCEPT ![c] = Server!NoRequest]
      /\ answer' = [answer EXCEPT ![c] = NoValue]
      /\ released' = released \ {c}
  BY DEF Server!OnClose, Server!DeleteExtra
<1>2. contexts' = {extra'[e] : e \in Connections} \ {NoValue}
  BY <1>1, ContextsFollow
<1>3. ServerTyped'
  BY <1>1 DEF ServerInv, ServerTyped
<1>4. OnlyOf(c)
  BY <1>1, <1>2, <1>3 DEF OnlyOf, ServerInv, ServerTyped
<1>5. steps'[c] = "none" /\ extra'[c] = NoValue /\ answer'[c] = NoValue
  BY <1>1 DEF ServerInv, ServerTyped
<1>6. SoundFor(c)'
  BY <1>5 DEF SoundFor
<1> QED BY <1>4, <1>6, OneConnection

LEMMA ServerStill ==
  ASSUME ServerInv, UNCHANGED serverVars
  PROVE  ServerInv'
  BY DEF ServerInv, ServerTyped, serverVars, HandshakeIsSound, Server!HandshakeIsSound

LEMMA ServerStep ==
  ASSUME ServerInv, Server!Next
  PROVE  ServerInv'
<1>1. CASE Server!Listen
  <2>1. UNCHANGED <<steps, request, extra, contexts, answer, released>>
    BY <1>1 DEF Server!Listen, Server!connectionVars
  <2> QED BY <2>1 DEF ServerInv, ServerTyped, HandshakeIsSound, Server!HandshakeIsSound
<1>2. ASSUME NEW c \in Connections,
             \/ Server!OnAccept(c) \/ Server!OnHeadersComplete(c) \/ Server!OnUpgrade(c)
             \/ Server!OnMessageComplete(c) \/ Server!OnClose(c)
      PROVE  ServerInv'
  BY <1>2, AcceptKeeps, HeadersKeep, UpgradeKeeps, MessageKeeps, CloseKeeps
<1> QED BY <1>1, <1>2 DEF Server!Next

-----------------------------------------------------------------------------
(* The title bar and its window.                                            *)

BarPlaces == BarWindows \cup {Bar}

BarTypes ==
  /\ x1 \in BarPlaces /\ x2 \in BarPlaces
  /\ x4 \in [BarPlaces -> {"normal", "minimized", "maximized", "hidden"}]
  /\ x6 \in [BarPlaces -> BOOLEAN]
  /\ x7 \in BOOLEAN /\ x8 \in BOOLEAN /\ x10 \in BOOLEAN /\ x11 \in BOOLEAN

BarInv == BarTypes /\ TitleBars!ActsOnItsWindow

LEMMA BarStart == TitleBars!Init => BarInv
<1> SUFFICES ASSUME TitleBars!Init PROVE BarInv
  OBVIOUS
<1> USE DEF TitleBars!Init, TitleBars!Places, BarPlaces
<1>1. x1 = Bar /\ x2 = Bar /\ x7 = TRUE /\ x8 = FALSE /\ x10 = FALSE /\ x11 = FALSE
  OBVIOUS
<1>2. x3 = TitleBars!Senders \X {Bar}
  BY DEF TitleBars!Senders
<1>3. x4 \in [BarPlaces -> {"normal", "minimized", "maximized", "hidden"}] /\ x6 \in [BarPlaces -> BOOLEAN]
  OBVIOUS
<1> QED BY <1>1, <1>2, <1>3 DEF BarInv, BarTypes, TitleBars!ActsOnItsWindow

\* The title bar gets another window: its buttons are connected with that one alone.
LEMMA BarMoves ==
  ASSUME BarInv, NEW w \in BarPlaces, TitleBars!onWindowChanged(w), x1' = w, UNCHANGED <<x4, x8>>
  PROVE  BarInv'
<1> USE DEF TitleBars!onWindowChanged
<1>1. x2' = w /\ x10' = FALSE /\ x11' = FALSE /\ (x7' <=> w = Bar) /\ x7' \in BOOLEAN
  BY DEF BarInv, BarTypes, TitleBars!ActsOnItsWindow
<1>2. x3' = TitleBars!Senders \X {w}
  BY DEF TitleBars!Disconnected
<1>3. x6' \in [BarPlaces -> BOOLEAN]
  BY DEF BarInv, BarTypes
<1> QED BY <1>1, <1>2, <1>3 DEF BarInv, BarTypes, TitleBars!ActsOnItsWindow, TitleBars!Senders

LEMMA BarStep == BarInv /\ [TitleBars!Next]_serviceVars => BarInv'
<1> SUFFICES ASSUME BarInv, [TitleBars!Next]_serviceVars PROVE BarInv'
  OBVIOUS
<1> USE DEF BarInv, BarTypes, TitleBars!ActsOnItsWindow, TitleBars!Senders
<1>1. ASSUME NEW w \in BarPlaces, TitleBars!SetParent(w) PROVE BarInv'
  <2>1. CASE x2 # w
    BY <1>1, <2>1, BarMoves DEF TitleBars!SetParent
  <2>2. CASE x2 = w
    BY <1>1, <2>2 DEF TitleBars!SetParent
  <2> QED BY <2>1, <2>2
<1>2. ASSUME NEW w \in BarPlaces, TitleBars!Restore(w) PROVE BarInv'
  BY <1>2 DEF TitleBars!Restore
<1>3. ASSUME NEW w \in BarWindows, TitleBars!MoveAncestor(w) PROVE BarInv'
  BY <1>3 DEF TitleBars!MoveAncestor, BarPlaces
<1>4. ASSUME NEW w \in BarPlaces, NEW on \in BOOLEAN, TitleBars!SetTitleBarUsingQss(w, on)
      PROVE  BarInv'
  <2>1. UNCHANGED <<x1, x2, x3, x4, x7, x10>> /\ x6' = [x6 EXCEPT ![w] = on]
    BY <1>4 DEF TitleBars!SetTitleBarUsingQss
  <2>2. CASE x2 = w
    <3>1. x8' = on /\ x11' = TRUE
      BY <1>4, <2>2 DEF TitleBars!SetTitleBarUsingQss
    <3> QED BY <2>1, <2>2, <3>1
  <2>3. CASE x2 # w
    <3>1. UNCHANGED <<x8, x11>>
      BY <1>4, <2>3 DEF TitleBars!SetTitleBarUsingQss
    <3> QED BY <2>1, <2>3, <3>1
  <2> QED BY <2>2, <2>3
<1>5. CASE TitleBars!Show
  BY <1>5 DEF TitleBars!Show
<1>6. CASE TitleBars!ClickMinimize
  BY <1>6 DEF TitleBars!ClickMinimize, TitleBars!Places, BarPlaces
<1>7. CASE TitleBars!ClickMaximize
  BY <1>7 DEF TitleBars!ClickMaximize, TitleBars!Clicked
<1>8. CASE TitleBars!ClickClose
  BY <1>8 DEF TitleBars!ClickClose, TitleBars!Clicked
<1>9. CASE UNCHANGED serviceVars
  BY <1>9 DEF serviceVars
<1> QED BY <1>1, <1>2, <1>3, <1>4, <1>5, <1>6, <1>7, <1>8, <1>9 DEF TitleBars!Next, TitleBars!Places, BarPlaces

-----------------------------------------------------------------------------
(* A button, and the system menu.                                           *)

ButtonTypesOK ==
  /\ x1 \in [buttonType : ButtonTypes, glyph : {<<t>> : t \in ButtonTypes} \cup Glyphs, isPressed : BOOLEAN,
             color : [SystemButtons!AllFields -> ButtonColors \cup {grey, white, NoColor}],
             isUsingQss : BOOLEAN, enabled : BOOLEAN]
  /\ x2 \in BOOLEAN /\ x3 \in BOOLEAN /\ x4 \subseteq {"timer", "leave"}
  /\ x5 \in BOOLEAN /\ x7 \in BOOLEAN /\ x8 \in BOOLEAN

ButtonInv == ButtonTypesOK /\ SystemButtons!ShowsItsState

LEMMA ButtonStart == SystemButtons!Init => ButtonInv
<1> SUFFICES ASSUME SystemButtons!Init PROVE ButtonInv
  OBVIOUS
<1> DEFINE first == [hoverColor |-> grey, pressColor |-> grey, normalColor |-> white,
                     activeForegroundColor |-> NoColor, inactiveForegroundColor |-> NoColor]
<1>1. first \in [SystemButtons!AllFields -> ButtonColors \cup {grey, white, NoColor}]
  BY DEF SystemButtons!AllFields
<1>2. x1 \in [buttonType : ButtonTypes, glyph : {<<t>> : t \in ButtonTypes}, isPressed : {FALSE},
              color : {first}, isUsingQss : BOOLEAN, enabled : {TRUE}]
  BY DEF SystemButtons!Init
<1> HIDE DEF first
<1>3. ButtonTypesOK
  BY <1>1, <1>2 DEF SystemButtons!Init, ButtonTypesOK
<1> QED BY <1>3 DEF SystemButtons!Init, ButtonInv, SystemButtons!ShowsItsState

\* What is painted is a matter of the button and of the mouse.
LEMMA SamePicture ==
  ASSUME UNCHANGED <<x1, x2>>
  PROVE  SystemButtons!Picture' = SystemButtons!Picture
BY DEF SystemButtons!Picture, SystemButtons!Background, SystemButtons!Pen

\* A client's call has the button painted again.
LEMMA ButtonSet ==
  ASSUME ButtonInv, NEW b, NEW given \in BOOLEAN, SystemButtons!Set(b, given), ButtonTypesOK',
         given \/ b.glyph = SystemButtons!systemButtonGlyph(b.buttonType)
  PROVE  ButtonInv'
BY DEF ButtonInv, SystemButtons!ShowsItsState, SystemButtons!Set, SystemButtons!Update, SystemButtons!mouseVars

LEMMA ButtonStep ==
  ASSUME ButtonInv, [SystemButtons!Next]_serviceVars, Fields \subseteq SystemButtons!AllFields
  PROVE  ButtonInv'
<1> USE DEF SystemButtons!mouseVars
<1>1. CASE SystemButtons!Paint
  <2>1. SystemButtons!Picture' = SystemButtons!Picture /\ x6' = SystemButtons!Picture
    BY <1>1, SamePicture DEF SystemButtons!Paint
  <2> QED BY <1>1, <2>1 DEF SystemButtons!Paint, ButtonInv, ButtonTypesOK, SystemButtons!ShowsItsState
<1>2. CASE SystemButtons!Cross
  <2>1. ButtonTypesOK' /\ (x2' => x3') /\ UNCHANGED <<x1, x6, x7, x8>>
    BY <1>2 DEF SystemButtons!Cross, SystemButtons!Update, ButtonInv, ButtonTypesOK
  <2>2. CASE x2' = x2
    <3>1. SystemButtons!Picture' = SystemButtons!Picture /\ x5' = x5
      BY <1>2, <2>2, SamePicture DEF SystemButtons!Cross
    <3> QED BY <2>1, <3>1 DEF ButtonInv, SystemButtons!ShowsItsState, SystemButtons!systemButtonGlyph
  <2>3. CASE x2' # x2
    <3>1. x5' = TRUE
      BY <1>2, <2>3 DEF SystemButtons!Cross, SystemButtons!Update
    <3> QED BY <2>1, <3>1 DEF ButtonInv, SystemButtons!ShowsItsState, SystemButtons!systemButtonGlyph
  <2> QED BY <2>2, <2>3
<1>3. CASE SystemButtons!Maximize
  <2>1. SystemButtons!Picture' = SystemButtons!Picture
    BY <1>3, SamePicture DEF SystemButtons!Maximize
  <2> QED BY <1>3, <2>1 DEF SystemButtons!Maximize, ButtonInv, ButtonTypesOK, SystemButtons!ShowsItsState
<1>4. CASE SystemButtons!emulateLeaveEvent
  <2>1. SystemButtons!Picture' = SystemButtons!Picture
    BY <1>4, SamePicture DEF SystemButtons!emulateLeaveEvent
  <2> QED BY <1>4, <2>1 DEF SystemButtons!emulateLeaveEvent, ButtonInv, ButtonTypesOK,
          SystemButtons!ShowsItsState
<1>5. CASE SystemButtons!Leave
  BY <1>5 DEF SystemButtons!Leave, SystemButtons!Update, ButtonInv, ButtonTypesOK, SystemButtons!ShowsItsState
<1>6. ASSUME NEW type \in ButtonTypes, SystemButtons!setButtonType(type) PROVE ButtonInv'
  <2> DEFINE b == [x1 EXCEPT !.buttonType = type, !.glyph = SystemButtons!systemButtonGlyph(type)]
  <2>1. SystemButtons!Set(b, FALSE)
    BY <1>6 DEF SystemButtons!setButtonType
  <2>2. ButtonTypesOK' /\ b.glyph = SystemButtons!systemButtonGlyph(b.buttonType)
    BY <2>1 DEF SystemButtons!Set, ButtonInv, ButtonTypesOK, SystemButtons!systemButtonGlyph,
       SystemButtons!Update
  <2> QED BY <2>1, <2>2, ButtonSet
<1>7. ASSUME NEW glyph \in Glyphs, SystemButtons!setGlyph(glyph) PROVE ButtonInv'
  <2> DEFINE b == [x1 EXCEPT !.glyph = glyph]
  <2>1. SystemButtons!Set(b, TRUE)
    BY <1>7 DEF SystemButtons!setGlyph
  <2>2. ButtonTypesOK'
    BY <2>1 DEF SystemButtons!Set, ButtonInv, ButtonTypesOK, SystemButtons!Update
  <2> QED BY <2>1, <2>2, ButtonSet
<1>8. ASSUME NEW field \in Fields, NEW color \in ButtonColors \cup {NoColor},
             SystemButtons!setColor(field, color)
      PROVE  ButtonInv'
  <2> DEFINE b == [x1 EXCEPT !.color[field] = color]
  <2>1. SystemButtons!Set(b, x8) /\ x8 \in BOOLEAN
    BY <1>8 DEF SystemButtons!setColor, ButtonInv, ButtonTypesOK
  <2>2. ButtonTypesOK' /\ b.glyph = x1.glyph /\ b.buttonType = x1.buttonType
    BY <2>1 DEF SystemButtons!Set, ButtonInv, ButtonTypesOK, SystemButtons!Update
  <2>3. x8 \/ b.glyph = SystemButtons!systemButtonGlyph(b.buttonType)
    BY <2>2 DEF ButtonInv, SystemButtons!ShowsItsState
  <2> QED BY <2>1, <2>2, <2>3, ButtonSet
<1>9. ASSUME NEW on \in BOOLEAN, SystemButtons!setUsingQss(on) \/ SystemButtons!setEnabled(on)
      PROVE  ButtonInv'
  <2>1. PICK b \in {[x1 EXCEPT !.isUsingQss = on], [x1 EXCEPT !.enabled = on]} :
          SystemButtons!Set(b, x8) /\ x8 \in BOOLEAN
    BY <1>9 DEF SystemButtons!setUsingQss, SystemButtons!setEnabled, ButtonInv, ButtonTypesOK
  <2>2. ButtonTypesOK' /\ b.glyph = x1.glyph /\ b.buttonType = x1.buttonType
    BY <2>1 DEF SystemButtons!Set, ButtonInv, ButtonTypesOK, SystemButtons!Update
  <2>3. x8 \/ b.glyph = SystemButtons!systemButtonGlyph(b.buttonType)
    BY <2>2 DEF ButtonInv, SystemButtons!ShowsItsState
  <2> QED BY <2>1, <2>2, <2>3, ButtonSet
<1>10. ASSUME NEW pressed \in BOOLEAN, NEW isLeft \in BOOLEAN, SystemButtons!Press(pressed, isLeft)
       PROVE  ButtonInv'
  <2>1. ButtonTypesOK' /\ (x5' \/ x7') /\ UNCHANGED <<x2, x3, x4, x8>>
    BY <1>10 DEF SystemButtons!Press, ButtonInv, ButtonTypesOK, SystemButtons!Update
  <2>2. x1'.glyph = x1.glyph /\ x1'.buttonType = x1.buttonType
    BY <1>10 DEF SystemButtons!Press, ButtonInv, ButtonTypesOK
  <2> QED BY <2>1, <2>2 DEF ButtonInv, SystemButtons!ShowsItsState, SystemButtons!systemButtonGlyph
<1>11. CASE UNCHANGED serviceVars
  <2>1. UNCHANGED <<x1, x2, x3, x4, x5, x6, x7, x8>>
    BY <1>11 DEF serviceVars
  <2>2. SystemButtons!Picture' = SystemButtons!Picture
    BY <2>1, SamePicture
  <2> QED BY <2>1, <2>2 DEF ButtonInv, ButtonTypesOK, SystemButtons!ShowsItsState
<1> QED BY <1>1, <1>2, <1>3, <1>4, <1>5, <1>6, <1>7, <1>8, <1>9, <1>10, <1>11 DEF SystemButtons!Next

\* What can be chosen is of the window as it was when the menu was shown.
MenuInv ==
  /\ x1 \in Menu!States /\ x2 \in BOOLEAN /\ x3 \in BOOLEAN /\ x5 \in Menu!Items
  /\ x4 \in [Menu!Items -> {"enabled", "disabled"}]
  /\ x6 \in BOOLEAN /\ x7 \in BOOLEAN /\ x9 \in BOOLEAN /\ x8 \in Seq(Menu!Items)
  /\ Menu!MenuIsRight

LEMMA MenuStart == Menu!Init => MenuInv
<1> SUFFICES ASSUME Menu!Init PROVE MenuInv
  OBVIOUS
<1>1. x8 \in Seq(Menu!Items) /\ x6 = FALSE /\ x7 = FALSE /\ x9 = FALSE
  BY DEF Menu!Init
<1>2. x4 \in [Menu!Items -> {"enabled", "disabled"}] /\ x1 \in Menu!States /\ x5 \in Menu!Items
  BY DEF Menu!Init, Menu!States, Menu!Items
<1> QED BY <1>1, <1>2 DEF MenuInv, Menu!MenuIsRight, Menu!Init

LEMMA MenuShown ==
  ASSUME MenuInv, NEW first \in BOOLEAN, Menu!showSystemMenu(first)
  PROVE  MenuInv'
<1> USE DEF Menu!showSystemMenu, Menu!Removed, Menu!Disabled, Menu!getProperty
<1>1. x4' = [item \in Menu!Items |-> IF Menu!Enabled(item) THEN "enabled" ELSE "disabled"]
  BY DEF MenuInv, Menu!MenuOf
<1>2. /\ x4'["Maximize"] = IF ~Menu!maxOrFull /\ ~x2 THEN "enabled" ELSE "disabled"
      /\ x4'["Restore"] = IF Menu!maxOrFull /\ ~x2 THEN "enabled" ELSE "disabled"
      /\ x4'["Size"] = IF ~Menu!maxOrFull /\ ~x2 THEN "enabled" ELSE "disabled"
      /\ x4'["Close"] = "enabled"
  BY <1>1 DEF Menu!Enabled, Menu!Items
<1>3. x5' = Menu!DefaultOf /\ Menu!DefaultOf \in {IF Menu!maxOrFull THEN "Restore" ELSE "Maximize", "Close"}
  BY DEF Menu!DefaultOf
<1>4. UNCHANGED <<x1, x2, x3, x8, x9>> /\ x6' \in BOOLEAN /\ x7' = TRUE
  OBVIOUS
<1>5. Menu!MenuIsRight'
  BY <1>2, <1>3, <1>4 DEF MenuInv, Menu!MenuIsRight
<1> QED BY <1>1, <1>3, <1>4, <1>5 DEF MenuInv, Menu!Items

\* No command makes a window of fixed size larger.
LEMMA MenuCommand ==
  ASSUME MenuInv, NEW command \in Menu!Items, Menu!WmSysCommand(command), x8' \in Seq(Menu!Items)
  PROVE  MenuInv'
<1>1. x9' = FALSE /\ x1' \in Menu!States /\ UNCHANGED <<x2, x3, x4, x5, x6, x7>>
  BY DEF MenuInv, Menu!MenuIsRight, Menu!WmSysCommand, Menu!Consumed, Menu!After, Menu!States
<1> QED BY <1>1 DEF MenuInv, Menu!MenuIsRight

LEMMA MenuStep == MenuInv /\ [Menu!Next]_serviceVars => MenuInv'
<1> SUFFICES ASSUME MenuInv, [Menu!Next]_serviceVars PROVE MenuInv'
  OBVIOUS
<1>1. CASE Menu!ByMouse \/ Menu!ByKeyboard
  BY <1>1, MenuShown DEF Menu!ByMouse, Menu!ByKeyboard
<1>2. CASE Menu!Dismiss
  BY <1>2 DEF Menu!Dismiss, Menu!Unhighlight, Menu!Removed, Menu!getProperty, MenuInv, Menu!MenuIsRight
<1>3. ASSUME NEW item \in Menu!Items, Menu!Choose(item) PROVE MenuInv'
  <2>1. x8' \in Seq(Menu!Items)
    BY <1>3 DEF Menu!Choose, MenuInv
  <2>2. x6' = FALSE /\ x7' = FALSE /\ UNCHANGED <<x1, x2, x3, x4, x5, x9>>
    BY <1>3 DEF Menu!Choose, Menu!Unhighlight, Menu!Removed, Menu!getProperty
  <2> QED BY <2>1, <2>2 DEF MenuInv, Menu!MenuIsRight
<1>4. CASE Menu!Retrieve
  <2>1. Head(x8) \in Menu!Items /\ Tail(x8) \in Seq(Menu!Items)
    BY <1>4 DEF Menu!Retrieve, MenuInv
  <2> QED BY <1>4, <2>1, MenuCommand DEF Menu!Retrieve
<1>5. CASE Menu!DoubleClick
  <2>1. PICK command \in Menu!Items : Menu!WmSysCommand(command)
    BY <1>5 DEF Menu!DoubleClick, Menu!Items
  <2>2. x8' \in Seq(Menu!Items)
    BY <1>5 DEF Menu!DoubleClick, MenuInv
  <2> QED BY <2>1, <2>2, MenuCommand
<1>6. ASSUME NEW s \in Menu!States, NEW f \in BOOLEAN, Menu!SetWindow(s, f) PROVE MenuInv'
  BY <1>6 DEF Menu!SetWindow, MenuInv, Menu!MenuIsRight
<1>7. CASE UNCHANGED serviceVars
  BY <1>7 DEF serviceVars, MenuInv, Menu!MenuIsRight
<1> QED BY <1>1, <1>2, <1>3, <1>4, <1>5, <1>6, <1>7 DEF Menu!Next

-----------------------------------------------------------------------------
(* Containers and their styles.                                             *)

StyleTypes ==
  /\ style \in [Containers \cup {Global} -> Style!Style \cup {None}]
  /\ border \in [Containers -> Style!Border \cup {None}]
  /\ margins \in [Containers -> Nat]
  /\ shown \in [Containers -> Style!States \cup {None}]
  /\ titleBar \in [Containers -> Style!TitleBar \cup {None}]

\* The border b and the margins m of a style s, in a window of state z.
Bordered(s, b, m, z) ==
  /\ s \in Style!Style
  /\ b # None <=> s.isWindowBorderEnabled
  /\ b # None =>
       /\ b.thickness = s.thickness
       /\ \A r \in Roles : s.color[r] # Invalid => b.color[r] = s.color[r]
  /\ z = "normal" => m = Style!ContentsMargins(s)

\* The title bar t: one that cannot be extended is not.
Barred(t, z) ==
  /\ t \in Style!TitleBar
  /\ t.isExtended => t.isExtensible
  /\ t.height = Style!BarHeight(t)
  /\ z = "maximized" => ~t.isExtended /\ t.maximizeButton = "Restore"

StyleInv ==
  /\ StyleTypes
  /\ \A w \in Containers : shown[w] # None =>
       Bordered(style[w], border[w], margins[w], shown[w]) /\ Barred(titleBar[w], shown[w])

LEMMA StylePromises == StyleInv => Style!LookFollowsStyle /\ Style!TypeOK
<1> SUFFICES ASSUME StyleInv PROVE Style!LookFollowsStyle /\ Style!TypeOK
  OBVIOUS
<1>1. Style!LookFollowsStyle
  BY DEF StyleInv, Bordered, Barred, Style!LookFollowsStyle, Style!BorderFollowsStyle,
     Style!LayoutFollowsStyle, Style!Shown
<1>2. \A w \in Containers : shown[w] # None => style[w] # None /\ titleBar[w] # None
  BY QtAssumption DEF StyleInv, Bordered, Barred, Style!StyleAssumption
<1> QED BY <1>1, <1>2 DEF StyleInv, StyleTypes, Style!TypeOK

LEMMA StyleStart == Style!Init => StyleInv
BY DEF Style!Init, StyleInv, StyleTypes

\* Nobody asks for a border that QWindowBorder would not draw.
LEMMA NotBounded == \A th \in Thicknesses : Style!Bounded(th) = th /\ th \in Nat
BY QtAssumption DEF Style!StyleAssumption, Style!Bounded, Style!kMaximumBorderThickness

LEMMA MarginsAreNat == \A s \in Style!Style : Style!ContentsMargins(s) \in Nat
<1> SUFFICES ASSUME NEW s \in Style!Style PROVE Style!ContentsMargins(s) \in Nat
  OBVIOUS
<1>1. s.thickness \in Nat
  BY NotBounded DEF Style!Style
<1>2. s.thickness \div 2 \in Nat
  BY <1>1
<1> QED BY <1>1, <1>2 DEF Style!ContentsMargins

LEMMA NewBorders ==
  ASSUME NEW s \in Style!Style
  PROVE  /\ Style!NewBorder(s) \in Style!Border
         /\ Style!NewBorder(s).thickness = s.thickness
         /\ \A r \in Roles : s.color[r] # Invalid => Style!NewBorder(s).color[r] = s.color[r]
BY NotBounded DEF Style!NewBorder, Style!BorderColor, Style!Style, Style!Border

\* What a change of one container's style does to it.
LEMMA Enabled ==
  ASSUME NEW s \in Style!Style, NEW on \in BOOLEAN, s.isWindowBorderEnabled # on,
         NEW w \in Containers, NEW z, Bordered(s, border[w], margins[w], z)
  PROVE  LET new == [s EXCEPT !.isWindowBorderEnabled = on]
             b   == Style!EnableBorder(border[w], new)
             m   == Style!MarginsOfEnable(w, border[w], new)
         IN  /\ Bordered(new, b, m, z)
             /\ b \in Style!Border \cup {None} /\ m \in Nat
<1> DEFINE new == [s EXCEPT !.isWindowBorderEnabled = on]
           b   == Style!EnableBorder(border[w], new)
           m   == Style!MarginsOfEnable(w, border[w], new)
<1>1. new \in Style!Style /\ new.isWindowBorderEnabled = on
  BY DEF Style!Style
<1>2. b = IF on THEN Style!NewBorder(new) ELSE None
  BY <1>1 DEF Bordered, Style!EnableBorder, Style!Style
<1>3. m = Style!ContentsMargins(new)
  BY <1>1 DEF Bordered, Style!MarginsOfEnable, Style!Style
<1>4. m \in Nat
  BY <1>1, <1>3, MarginsAreNat
<1>5. /\ Style!NewBorder(new) \in Style!Border /\ Style!NewBorder(new).thickness = new.thickness
      /\ \A r \in Roles : new.color[r] # Invalid => Style!NewBorder(new).color[r] = new.color[r]
  BY <1>1, NewBorders
<1>6. Style!NewBorder(new) # None
  BY <1>5, QtAssumption DEF Style!StyleAssumption
<1> HIDE DEF new, b, m
<1>7. Bordered(new, b, m, z) /\ b \in Style!Border \cup {None}
  BY <1>1, <1>2, <1>3, <1>4, <1>5, <1>6 DEF Bordered
<1> QED BY <1>4, <1>7 DEF new, b, m

LEMMA Thickened ==
  ASSUME NEW s \in Style!Style, NEW th \in Thicknesses, s.thickness # th,
         NEW b \in Style!Border \cup {None}, NEW m \in Nat, NEW z, Bordered(s, b, m, z)
  PROVE  LET new == [s EXCEPT !.thickness = th]
         IN  /\ s.isWindowBorderEnabled /\ b # None =>
                  /\ b.thickness # Style!Bounded(th)
                  /\ Bordered(new, [b EXCEPT !.thickness = Style!Bounded(th)], Style!ContentsMargins(new), z)
                  /\ [b EXCEPT !.thickness = Style!Bounded(th)] \in Style!Border
                  /\ Style!ContentsMargins(new) \in Nat
             /\ ~(s.isWindowBorderEnabled /\ b # None) => Bordered(new, b, m, z)
<1> DEFINE new == [s EXCEPT !.thickness = th]
           c   == [b EXCEPT !.thickness = Style!Bounded(th)]
<1>1. /\ new \in Style!Style /\ new.thickness = th /\ new.color = s.color
      /\ new.isWindowBorderEnabled = s.isWindowBorderEnabled
  BY DEF Style!Style
<1>2. Style!Bounded(th) = th /\ th \in Nat
  BY NotBounded
<1>3. b # None => c \in Style!Border /\ c.thickness = th /\ c.color = b.color
  BY <1>2 DEF Style!Border
<1>4. c \in Style!Border => c # None
  BY QtAssumption DEF Style!StyleAssumption
<1>5. Style!ContentsMargins(new) \in Nat
  BY <1>1, MarginsAreNat
<1>6. ~s.isWindowBorderEnabled => Style!ContentsMargins(new) = Style!ContentsMargins(s)
  BY <1>1 DEF Style!ContentsMargins
<1>7. s.isWindowBorderEnabled /\ b # None => b.thickness # Style!Bounded(th)
  BY <1>2 DEF Bordered
<1> HIDE DEF new, c
<1>8. s.isWindowBorderEnabled /\ b # None => Bordered(new, c, Style!ContentsMargins(new), z)
  BY <1>1, <1>3, <1>4 DEF Bordered
<1>9. ~(s.isWindowBorderEnabled /\ b # None) => Bordered(new, b, m, z)
  BY <1>1, <1>6 DEF Bordered
<1> QED BY <1>3, <1>5, <1>7, <1>8, <1>9 DEF new, c

LEMMA Recoloured ==
  ASSUME NEW s \in Style!Style, NEW r \in Roles, NEW c \in Colors \cup {Invalid},
         NEW b \in Style!Border \cup {None}, NEW m, NEW z, Bordered(s, b, m, z)
  PROVE  LET new == [s EXCEPT !.color[r] = c]
         IN  /\ new \in Style!Style
             /\ b # None => /\ Bordered(new, Style!Repainted(b, r, c), m, z)
                            /\ Style!Repainted(b, r, c) \in Style!Border
             /\ b = None => Bordered(new, b, m, z)
<1> DEFINE new == [s EXCEPT !.color[r] = c]
           d   == Style!Repainted(b, r, c)
<1>1. /\ new \in Style!Style /\ new.thickness = s.thickness
      /\ new.isWindowBorderEnabled = s.isWindowBorderEnabled
      /\ new.color = [s.color EXCEPT ![r] = c] /\ s.color \in [Roles -> Colors \cup {Invalid}]
  BY DEF Style!Style
<1>2. b # None => /\ d.thickness = b.thickness
                  /\ d.color = [b.color EXCEPT ![r] = Style!BorderColor(b.color[r], c)]
                  /\ b.color \in [Roles -> Colors \cup {Invalid}] /\ b.thickness \in Nat
                  /\ d = [thickness |-> d.thickness, color |-> d.color]
  BY DEF Style!Repainted, Style!Border
<1>3. Style!ContentsMargins(new) = Style!ContentsMargins(s)
  BY <1>1 DEF Style!ContentsMargins
<1> HIDE DEF new, d
<1>4. b # None => d.color \in [Roles -> Colors \cup {Invalid}]
  BY <1>2 DEF Style!BorderColor
<1>5. b # None => d \in Style!Border
  BY <1>2, <1>4 DEF Style!Border
<1>6. d \in Style!Border => d # None
  BY QtAssumption DEF Style!StyleAssumption
<1>7. b # None => \A q \in Roles : new.color[q] # Invalid => d.color[q] = new.color[q]
  BY <1>1, <1>2 DEF Bordered, Style!BorderColor
<1>8. b # None => Bordered(new, d, m, z)
  BY <1>1, <1>2, <1>3, <1>5, <1>6, <1>7 DEF Bordered
<1>9. b = None => Bordered(new, b, m, z)
  BY <1>1, <1>3 DEF Bordered
<1> QED BY <1>1, <1>5, <1>8, <1>9 DEF new, d

LEMMA StyleEnables ==
  ASSUME StyleInv, NEW s \in Containers \cup {Global}, NEW on \in BOOLEAN,
         Style!SetWindowBorderEnabled(s, on)
  PROVE  StyleInv'
<1> DEFINE changed == {w \in Style!Followers(s) : style[w].isWindowBorderEnabled # on}
           new(r) == [r EXCEPT !.isWindowBorderEnabled = on]
<1>1. /\ style' = [x \in Containers \cup {Global} |->
                     IF x = s \/ x \in changed THEN new(style[x]) ELSE style[x]]
      /\ border' = [w \in Containers |->
                      IF w \in changed /\ shown[w] # None THEN Style!EnableBorder(border[w], new(style[w]))
                      ELSE border[w]]
      /\ margins' = [w \in Containers |->
                       IF w \in changed /\ shown[w] # None
                       THEN Style!MarginsOfEnable(w, border[w], new(style[w])) ELSE margins[w]]
      /\ UNCHANGED <<shown, titleBar>>
  BY DEF Style!SetWindowBorderEnabled, Style!Write, StyleInv, StyleTypes, Style!Shown
<1>2. style[s] # None /\ style[s].isWindowBorderEnabled # on
  BY DEF Style!SetWindowBorderEnabled
<1>3. changed \subseteq Containers \cup {Global} /\ (s \in Containers => s \in changed)
  BY <1>2, QtAssumption DEF Style!Followers, Style!StyleAssumption
<1>4. \A x \in Containers \cup {Global} : x = s \/ x \in changed =>
        style[x] \in Style!Style /\ style[x].isWindowBorderEnabled # on
  BY <1>2 DEF Style!Followers, StyleInv, StyleTypes
<1> HIDE DEF changed
<1>5. style' \in [Containers \cup {Global} -> Style!Style \cup {None}]
  BY <1>1, <1>4 DEF StyleInv, StyleTypes, Style!Style
<1>6. ASSUME NEW w \in Containers, w \in changed, shown[w] # None
      PROVE  /\ Bordered(style'[w], border'[w], margins'[w], shown[w])
             /\ border'[w] \in Style!Border \cup {None} /\ margins'[w] \in Nat
  <2>1. Bordered(style[w], border[w], margins[w], shown[w])
    BY <1>6 DEF StyleInv
  <2>2. style'[w] = new(style[w]) /\ border'[w] = Style!EnableBorder(border[w], new(style[w]))
        /\ margins'[w] = Style!MarginsOfEnable(w, border[w], new(style[w]))
    BY <1>1, <1>6
  <2>3. style[w] \in Style!Style /\ style[w].isWindowBorderEnabled # on
    BY <1>4, <1>6
  <2> QED BY <2>1, <2>2, <2>3, Enabled
<1>7. ASSUME NEW w \in Containers, ~(w \in changed /\ shown[w] # None)
      PROVE  /\ shown[w] # None => Bordered(style'[w], border'[w], margins'[w], shown[w])
             /\ border'[w] \in Style!Border \cup {None} /\ margins'[w] \in Nat
  BY <1>1, <1>3, <1>7 DEF StyleInv, StyleTypes
<1>8. border' \in [Containers -> Style!Border \cup {None}] /\ margins' \in [Containers -> Nat]
  BY <1>1, <1>6, <1>7
<1> QED BY <1>1, <1>5, <1>6, <1>7, <1>8 DEF StyleInv, StyleTypes

LEMMA StyleThickens ==
  ASSUME StyleInv, NEW s \in Containers \cup {Global}, NEW th \in Thicknesses,
         Style!SetWindowBorderThickness(s, th)
  PROVE  StyleInv'
<1> DEFINE changed == {w \in Style!Followers(s) : style[w].thickness # th}
           new(r) == [r EXCEPT !.thickness = th]
           drawn(w) == w \in changed /\ shown[w] # None /\ style[w].isWindowBorderEnabled /\ border[w] # None
           other(w) == drawn(w) /\ border[w].thickness # Style!Bounded(th)
<1>1. /\ style' = [x \in Containers \cup {Global} |->
                     IF x = s \/ x \in changed THEN new(style[x]) ELSE style[x]]
      /\ border' = [w \in Containers |->
                      IF other(w) THEN [border[w] EXCEPT !.thickness = Style!Bounded(th)] ELSE border[w]]
      /\ margins' = [w \in Containers |->
                       IF other(w) THEN Style!ContentsMargins(new(style[w])) ELSE margins[w]]
      /\ UNCHANGED <<shown, titleBar>>
  BY DEF Style!SetWindowBorderThickness, Style!Write, StyleInv, StyleTypes, Style!Shown
<1>2. style[s] # None /\ style[s].thickness # th
  BY DEF Style!SetWindowBorderThickness
<1>3. changed \subseteq Containers \cup {Global} /\ (s \in Containers => s \in changed)
  BY <1>2, QtAssumption DEF Style!Followers, Style!StyleAssumption
<1>4. \A x \in Containers \cup {Global} : x = s \/ x \in changed =>
        style[x] \in Style!Style /\ style[x].thickness # th
  BY <1>2 DEF Style!Followers, StyleInv, StyleTypes
<1> HIDE DEF changed
<1>5. style' \in [Containers \cup {Global} -> Style!Style \cup {None}]
  BY <1>1, <1>4 DEF StyleInv, StyleTypes, Style!Style
<1>6. ASSUME NEW w \in Containers, w \in changed, shown[w] # None
      PROVE  /\ Bordered(style'[w], border'[w], margins'[w], shown[w])
             /\ border'[w] \in Style!Border \cup {None} /\ margins'[w] \in Nat
  <2>1. Bordered(style[w], border[w], margins[w], shown[w])
        /\ border[w] \in Style!Border \cup {None} /\ margins[w] \in Nat
    BY <1>6 DEF StyleInv, StyleTypes
  <2>2. style'[w] = new(style[w]) /\ style[w] \in Style!Style /\ style[w].thickness # th
    BY <1>1, <1>4, <1>6
  <2> DEFINE b == border[w]
             m == margins[w]
             z == shown[w]
  <2>3. /\ style[w].isWindowBorderEnabled /\ b # None =>
             /\ b.thickness # Style!Bounded(th)
             /\ Bordered(new(style[w]), [b EXCEPT !.thickness = Style!Bounded(th)],
                         Style!ContentsMargins(new(style[w])), z)
             /\ [b EXCEPT !.thickness = Style!Bounded(th)] \in Style!Border
             /\ Style!ContentsMargins(new(style[w])) \in Nat
        /\ ~(style[w].isWindowBorderEnabled /\ b # None) => Bordered(new(style[w]), b, m, z)
    BY <2>1, <2>2, Thickened
  <2>4. CASE drawn(w)
    <3>1. other(w)
      BY <2>3, <2>4
    <3>2. border'[w] = [b EXCEPT !.thickness = Style!Bounded(th)]
          /\ margins'[w] = Style!ContentsMargins(new(style[w]))
      BY <1>1, <3>1
    <3> QED BY <2>2, <2>3, <2>4, <3>2
  <2>5. CASE ~drawn(w)
    <3>1. border'[w] = b /\ margins'[w] = m
      BY <1>1, <2>5
    <3> QED BY <1>6, <2>1, <2>2, <2>3, <2>5, <3>1
  <2> QED BY <2>4, <2>5
<1>7. ASSUME NEW w \in Containers, ~(w \in changed /\ shown[w] # None)
      PROVE  /\ shown[w] # None => Bordered(style'[w], border'[w], margins'[w], shown[w])
             /\ border'[w] \in Style!Border \cup {None} /\ margins'[w] \in Nat
  BY <1>1, <1>3, <1>7 DEF StyleInv, StyleTypes
<1>8. border' \in [Containers -> Style!Border \cup {None}] /\ margins' \in [Containers -> Nat]
  BY <1>1, <1>6, <1>7
<1> QED BY <1>1, <1>5, <1>6, <1>7, <1>8 DEF StyleInv, StyleTypes

LEMMA StylePaints ==
  ASSUME StyleInv, NEW s \in Containers \cup {Global}, NEW r \in Roles, NEW c \in Colors \cup {Invalid},
         Style!SetWindowBorderColor(s, r, c)
  PROVE  StyleInv'
<1> DEFINE changed == {w \in Style!Followers(s) : style[w].color[r] # c}
           new(x) == [x EXCEPT !.color[r] = c]
           drawn(w) == w \in changed /\ shown[w] # None /\ style[w].isWindowBorderEnabled /\ border[w] # None
<1>1. /\ style' = [x \in Containers \cup {Global} |->
                     IF x = s \/ x \in changed THEN new(style[x]) ELSE style[x]]
      /\ border' = [w \in Containers |->
                      IF drawn(w) THEN Style!Repainted(border[w], r, c) ELSE border[w]]
      /\ UNCHANGED <<margins, shown, titleBar>>
  BY DEF Style!SetWindowBorderColor, Style!Write, StyleInv, StyleTypes, Style!Shown
<1>2. style[s] # None /\ style[s].color[r] # c
  BY DEF Style!SetWindowBorderColor
<1>3. changed \subseteq Containers \cup {Global} /\ (s \in Containers => s \in changed)
  BY <1>2, QtAssumption DEF Style!Followers, Style!StyleAssumption
<1>4. \A x \in Containers \cup {Global} : x = s \/ x \in changed => style[x] \in Style!Style
  BY <1>2 DEF Style!Followers, StyleInv, StyleTypes
<1> HIDE DEF changed
<1>5. style' \in [Containers \cup {Global} -> Style!Style \cup {None}]
  BY <1>1, <1>4 DEF StyleInv, StyleTypes, Style!Style
<1>6. ASSUME NEW w \in Containers, w \in changed, shown[w] # None
      PROVE  /\ Bordered(style'[w], border'[w], margins'[w], shown[w])
             /\ border'[w] \in Style!Border \cup {None}
  <2>1. Bordered(style[w], border[w], margins[w], shown[w]) /\ border[w] \in Style!Border \cup {None}
    BY <1>6 DEF StyleInv, StyleTypes
  <2>2. style'[w] = new(style[w]) /\ style[w] \in Style!Style
    BY <1>1, <1>4, <1>6
  <2>3. drawn(w) <=> border[w] # None
    BY <1>6, <2>1 DEF Bordered
  <2>4. border'[w] = IF border[w] # None THEN Style!Repainted(border[w], r, c) ELSE border[w]
    BY <1>1, <2>3
  <2>5. /\ border[w] # None => /\ Bordered(new(style[w]), Style!Repainted(border[w], r, c), margins[w], shown[w])
                               /\ Style!Repainted(border[w], r, c) \in Style!Border
        /\ border[w] = None => Bordered(new(style[w]), border[w], margins[w], shown[w])
    BY <2>1, <2>2, Recoloured
  <2> QED BY <1>1, <2>1, <2>2, <2>4, <2>5
<1>7. ASSUME NEW w \in Containers, ~(w \in changed /\ shown[w] # None)
      PROVE  /\ shown[w] # None => Bordered(style'[w], border'[w], margins'[w], shown[w])
             /\ border'[w] \in Style!Border \cup {None}
  BY <1>1, <1>3, <1>7 DEF StyleInv, StyleTypes
<1>8. border' \in [Containers -> Style!Border \cup {None}]
  BY <1>1, <1>6, <1>7
<1> QED BY <1>1, <1>5, <1>6, <1>7, <1>8 DEF StyleInv, StyleTypes

\* A new container gets a style, and the border and the title bar of that.
LEMMA NewBars == Barred(Style!NewTitleBar, "normal")
<1> DEFINE h == CHOOSE x \in Heights : \A y \in Heights : x >= y
<1>1. h \in Heights
  BY QtAssumption DEF Style!StyleAssumption
<1>2. Style!NewTitleBar = [isExtensible |-> TRUE, isExtended |-> TRUE, extendedHeight |-> h, height |-> h,
                           maximizeButton |-> "Maximize"]
  BY Zenon DEF Style!NewTitleBar
<1> HIDE DEF h
<1> QED BY <1>1, <1>2 DEF Barred, Style!TitleBar, Style!BarHeight

LEMMA StyleSetup ==
  ASSUME StyleInv, NEW w \in Containers, Style!Setup(w)
  PROVE  StyleInv'
<1> DEFINE s == Style!InstanceOf(w)
           b == Style!EnableBorder(None, s)
<1>1. Style!GlobalStyle \in Style!Style /\ s \in Style!Style
  BY QtAssumption DEF Style!StyleAssumption, Style!GlobalStyle, Style!InstanceOf, StyleInv, StyleTypes
<1>2. Global # w
  BY QtAssumption DEF Style!StyleAssumption
<1>3. style' = [style EXCEPT ![Global] = Style!GlobalStyle, ![w] = s]
      /\ border' = [border EXCEPT ![w] = b]
      /\ margins' = [margins EXCEPT ![w] = Style!ContentsMargins(s)]
      /\ shown' = [shown EXCEPT ![w] = "normal"]
      /\ titleBar' = [titleBar EXCEPT ![w] = Style!NewTitleBar]
  BY DEF Style!Setup
<1>4. b = IF s.isWindowBorderEnabled THEN Style!NewBorder(s) ELSE None
  BY DEF Style!EnableBorder
<1>5. s.isWindowBorderEnabled \in BOOLEAN /\ Style!ContentsMargins(s) \in Nat
  BY <1>1, MarginsAreNat DEF Style!Style
<1>6. Style!NewBorder(s) \in Style!Border /\ Style!NewBorder(s) # None
      /\ Style!NewBorder(s).thickness = s.thickness
      /\ \A r \in Roles : s.color[r] # Invalid => Style!NewBorder(s).color[r] = s.color[r]
  BY <1>1, NewBorders, QtAssumption DEF Style!StyleAssumption
<1> HIDE DEF s, b
<1>7. Bordered(s, b, Style!ContentsMargins(s), "normal") /\ b \in Style!Border \cup {None}
  BY <1>1, <1>4, <1>5, <1>6 DEF Bordered
<1>8. Barred(Style!NewTitleBar, "normal") /\ Style!NewTitleBar \in Style!TitleBar
  BY NewBars DEF Barred
<1>9. StyleTypes'
  BY <1>1, <1>3, <1>5, <1>7, <1>8 DEF StyleInv, StyleTypes, Style!States
<1>10. ASSUME NEW v \in Containers, shown'[v] # None
       PROVE  Bordered(style'[v], border'[v], margins'[v], shown'[v]) /\ Barred(titleBar'[v], shown'[v])
  <2>1. CASE v = w
    <3>1. style'[v] = s /\ border'[v] = b /\ margins'[v] = Style!ContentsMargins(s) /\ shown'[v] = "normal"
          /\ titleBar'[v] = Style!NewTitleBar
      BY <1>3, <2>1 DEF StyleInv, StyleTypes
    <3> QED BY <1>7, <1>8, <3>1
  <2>2. CASE v # w
    <3>1. style'[v] = style[v] /\ border'[v] = border[v] /\ margins'[v] = margins[v] /\ shown'[v] = shown[v]
          /\ titleBar'[v] = titleBar[v]
      BY <1>2, <1>3, <2>2, QtAssumption DEF StyleInv, StyleTypes, Style!StyleAssumption
    <3> QED BY <1>10, <3>1 DEF StyleInv
  <2> QED BY <2>1, <2>2
<1> QED BY <1>9, <1>10 DEF StyleInv

\* What a container that is not w keeps is right already.
StyleOthers(w) ==
  \A v \in Containers \ {w} :
    /\ style'[v] = style[v] /\ border'[v] = border[v] /\ margins'[v] = margins[v] /\ shown'[v] = shown[v]
    /\ titleBar'[v] = titleBar[v]

LEMMA StyleOne ==
  ASSUME StyleInv, StyleTypes', NEW w \in Containers, StyleOthers(w),
         shown'[w] # None =>
           Bordered(style'[w], border'[w], margins'[w], shown'[w]) /\ Barred(titleBar'[w], shown'[w])
  PROVE  StyleInv'
BY DEF StyleInv, StyleOthers

LEMMA StyleDelete ==
  ASSUME StyleInv, NEW w \in Containers, Style!Delete(w)
  PROVE  StyleInv'
<1>1. StyleTypes' /\ StyleOthers(w) /\ shown'[w] = None
  BY DEF Style!Delete, StyleInv, StyleTypes, StyleOthers
<1> QED BY <1>1, StyleOne

LEMMA StyleStateChange ==
  ASSUME StyleInv, NEW w \in Containers, NEW s \in Style!States, Style!WindowStateChange(w, s)
  PROVE  StyleInv'
<1> DEFINE t == [titleBar[w] EXCEPT !.maximizeButton = IF s = "maximized" THEN "Restore" ELSE "Maximize"]
           u == IF s \in {"normal", "maximized"} THEN Style!Extended(t, s = "normal") ELSE t
           m == CASE s = "maximized" -> 0 [] s = "normal" -> Style!ContentsMargins(style[w])
                  [] OTHER -> margins[w]
<1>1. /\ Bordered(style[w], border[w], margins[w], shown[w]) /\ Barred(titleBar[w], shown[w])
      /\ titleBar' = [titleBar EXCEPT ![w] = u] /\ margins' = [margins EXCEPT ![w] = m]
      /\ shown' = [shown EXCEPT ![w] = s] /\ UNCHANGED <<style, border>>
  BY DEF Style!WindowStateChange, StyleInv, StyleTypes
<1>2. m \in Nat /\ (s = "normal" => m = Style!ContentsMargins(style[w]))
  BY <1>1, MarginsAreNat DEF Bordered, StyleInv, StyleTypes, Style!States
<1>3. /\ t \in Style!TitleBar /\ (t.isExtended => t.isExtensible) /\ t.height = Style!BarHeight(t)
      /\ s = "maximized" => t.maximizeButton = "Restore"
  BY <1>1 DEF Barred, Style!TitleBar, Style!BarHeight
<1> HIDE DEF t
<1>4. ASSUME NEW on \in BOOLEAN
      PROVE  /\ Style!Extended(t, on) \in Style!TitleBar
             /\ Style!Extended(t, on).isExtended => Style!Extended(t, on).isExtensible
             /\ Style!Extended(t, on).height = Style!BarHeight(Style!Extended(t, on))
             /\ Style!Extended(t, on).maximizeButton = t.maximizeButton
             /\ ~on => ~Style!Extended(t, on).isExtended
  BY <1>3 DEF Style!Extended, Style!TitleBar, Style!BarHeight
<1>5. u = t \/ (s = "normal" /\ u = Style!Extended(t, TRUE)) \/ (s = "maximized" /\ u = Style!Extended(t, FALSE))
  OBVIOUS
<1>6. s = "maximized" => u = Style!Extended(t, FALSE)
  OBVIOUS
<1> HIDE DEF u, m
<1>7. Barred(u, s)
  BY <1>3, <1>4, <1>5, <1>6 DEF Barred
<1>8. Bordered(style[w], border[w], m, s)
  BY <1>1, <1>2 DEF Bordered
<1>9. StyleTypes' /\ StyleOthers(w)
  BY <1>1, <1>2, <1>7 DEF StyleInv, StyleTypes, StyleOthers, Barred
<1>10. style'[w] = style[w] /\ border'[w] = border[w] /\ margins'[w] = m /\ shown'[w] = s /\ titleBar'[w] = u
  BY <1>1 DEF StyleInv, StyleTypes
<1> QED BY <1>7, <1>8, <1>9, <1>10, StyleOne

\* A title bar t with another mode or height.
LEMMA StyleBar ==
  ASSUME StyleInv, NEW w \in Containers, shown[w] # None, NEW u, Barred(u, shown[w]),
         titleBar' = [titleBar EXCEPT ![w] = u], UNCHANGED <<style, border, margins, shown>>
  PROVE  StyleInv'
<1>1. StyleTypes' /\ StyleOthers(w) /\ titleBar'[w] = u
  BY DEF StyleInv, StyleTypes, StyleOthers, Barred
<1> QED BY <1>1, StyleOne DEF StyleInv

LEMMA StyleExtensible ==
  ASSUME StyleInv, NEW w \in Containers, NEW on \in BOOLEAN, Style!SetExtensible(w, on)
  PROVE  StyleInv'
<1> DEFINE t == titleBar[w]
           u == [t EXCEPT !.isExtensible = on, !.isExtended = @ /\ on,
                          !.height = IF on THEN @ ELSE NormalHeight]
<1>1. /\ Barred(t, shown[w]) /\ t.isExtensible # on /\ shown[w] # None
      /\ titleBar' = [titleBar EXCEPT ![w] = u] /\ UNCHANGED <<style, border, margins, shown>>
  BY DEF Style!SetExtensible, StyleInv, StyleTypes
<1> HIDE DEF t
<1>2. Barred(u, shown[w])
  BY <1>1 DEF Barred, Style!TitleBar, Style!BarHeight
<1> HIDE DEF u
<1> QED BY <1>1, <1>2, StyleBar

LEMMA StyleExtendedHeight ==
  ASSUME StyleInv, NEW w \in Containers, NEW h \in Heights, Style!SetExtendedHeight(w, h)
  PROVE  StyleInv'
<1> DEFINE t == titleBar[w]
           u == [t EXCEPT !.extendedHeight = h, !.height = IF t.isExtended THEN h ELSE @]
<1>1. /\ Barred(t, shown[w]) /\ shown[w] # None
      /\ titleBar' = [titleBar EXCEPT ![w] = u] /\ UNCHANGED <<style, border, margins, shown>>
  BY DEF Style!SetExtendedHeight, StyleInv, StyleTypes
<1> HIDE DEF t
<1>2. Barred(u, shown[w])
  BY <1>1 DEF Barred, Style!TitleBar, Style!BarHeight
<1> HIDE DEF u
<1> QED BY <1>1, <1>2, StyleBar

LEMMA StyleStep == StyleInv /\ [Style!Next]_styleVars => StyleInv'
<1> SUFFICES ASSUME StyleInv, [Style!Next]_styleVars PROVE StyleInv'
  OBVIOUS
<1>1. CASE UNCHANGED styleVars
  BY <1>1 DEF styleVars, StyleInv, StyleTypes
<1>2. CASE Style!Next
  BY <1>2, StyleEnables, StyleThickens, StylePaints, StyleSetup, StyleDelete, StyleStateChange,
     StyleExtensible, StyleExtendedHeight DEF Style!Next
<1> QED BY <1>1, <1>2

-----------------------------------------------------------------------------
(* The label of a title bar, of any width and with any icon and buttons.    *)

Bars == [width : Nat, margin : Nat \ {0}, buttons : Nat, icon : Nat]

LEMMA Larger ==
  ASSUME NEW n \in Int
  PROVE  TitleBars!Max({0, n}) = IF n > 0 THEN n ELSE 0
<1> DEFINE S == {0, n}
           m == IF n > 0 THEN n ELSE 0
<1>1. m \in S /\ \A y \in S : m >= y
  OBVIOUS
<1>2. \A x \in S : (\A y \in S : x >= y) => x = m
  OBVIOUS
<1>3. TitleBars!Max(S) = CHOOSE x \in S : \A y \in S : x >= y
  BY Zenon DEF TitleBars!Max
<1> HIDE DEF S, m
<1>4. TitleBars!Max(S) = m
  BY <1>1, <1>2, <1>3
<1> QED BY <1>4 DEF S, m

LEMMA LabelsFitAlways == \A b \in Bars : TitleBars!LabelsFit(b)
<1> SUFFICES ASSUME NEW b \in Bars, NEW alignment \in {"left", "right", "center"},
                    TitleBars!labelMaxWidth(b, alignment) > 0
             PROVE  /\ TitleBars!labelPosition(b, alignment) + TitleBars!labelMaxWidth(b, alignment)
                         < b.width - b.buttons
                    /\ alignment = "left" =>
                         TitleBars!labelPosition(b, alignment) > TitleBars!Right(TitleBars!windowIconRect(b))
  BY DEF TitleBars!LabelsFit
<1>1. b.width \in Nat /\ b.margin \in Nat \ {0} /\ b.buttons \in Nat /\ b.icon \in Nat
  BY DEF Bars
<1>2. /\ TitleBars!windowIconRect(b).width = b.icon
      /\ TitleBars!Right(TitleBars!windowIconRect(b)) = IF b.icon = 0 THEN -1 ELSE b.margin + b.icon - 1
  BY <1>1 DEF TitleBars!windowIconRect, TitleBars!Right
<1> DEFINE room == IF alignment = "center" THEN b.width - 2 * (b.buttons + b.margin)
                   ELSE b.width - (b.icon + b.buttons + 2 * b.margin)
<1>3. room \in Int
  BY <1>1
<1>4. TitleBars!labelMaxWidth(b, alignment) = TitleBars!Max({0, room})
  BY <1>2 DEF TitleBars!labelMaxWidth
<1>5. TitleBars!labelMaxWidth(b, alignment) = room
  <2> HIDE DEF room
  <2> QED BY <1>3, <1>4, Larger
<1>6. TitleBars!labelPosition(b, alignment) =
        IF alignment = "left" THEN TitleBars!Right(TitleBars!windowIconRect(b)) + b.margin ELSE 0
  BY DEF TitleBars!labelPosition
<1> QED BY <1>1, <1>2, <1>5, <1>6

\* A trial has up to three fields, of which the first says what the second is.
TrialInv ==
  \/ trial = <<>>
  \/ \E kind, first : trial = <<kind, first>> /\ (kind = "label" => first \in TitleBarSizes)
  \/ trial # <<>> /\ Len(trial) = 3

LEMMA TrialStep == TrialInv /\ [TrialNext]_trial => TrialInv'
<1> SUFFICES ASSUME TrialInv, TrialNext PROVE TrialInv'
  BY DEF TrialInv
<1>1. CASE trial = <<>>
  <2>1. PICK kind \in DOMAIN FirstInputs : \E first \in FirstInputs[kind] : trial' = <<kind, first>>
    BY <1>1 DEF TrialNext
  <2>2. FirstInputs["label"] = TitleBarSizes
    BY DEF FirstInputs
  <2> QED BY <2>1, <2>2 DEF TrialInv
<1>2. ASSUME NEW kind, NEW first, trial = <<kind, first>> PROVE TrialInv'
  <2>1. PICK second : trial' = Append(trial, second)
    BY <1>2 DEF TrialNext
  <2>2. trial \in Seq({kind, first, second}) /\ Len(trial) = 2
    BY <1>2
  <2>3. Len(trial') = 3
    <3> DEFINE S == {kind, first, second}
    <3>1. trial \in Seq(S) /\ second \in S
      BY <2>2
    <3> HIDE DEF S
    <3>2. Len(Append(trial, second)) = Len(trial) + 1
      BY <3>1
    <3> QED BY <2>1, <2>2, <3>2
  <2>4. trial' # <<>>
    BY <2>3
  <2> QED BY <2>3, <2>4 DEF TrialInv
<1>3. ASSUME trial # <<>>, Len(trial) = 3 PROVE FALSE
  BY <1>3 DEF TrialNext
<1> QED BY <1>1, <1>2, <1>3 DEF TrialInv

LEMMA TrialPromises ==
  ASSUME TrialInv, Len(trial) = 2, trial[1] = "label"
  PROVE  TitleBars!LabelsFit(trial[2])
<1>1. trial[2] \in TitleBarSizes
  BY DEF TrialInv
<1>2. TitleBarSizes \subseteq Bars
  BY DEF TitleBarSizes, Bars
<1> QED BY <1>1, <1>2, LabelsFitAlways

-----------------------------------------------------------------------------
(* What is kept in two places: the symbols of libraries.                    *)

\* An answer that was given is the one that is kept, and a symbol that is kept is of the
\* library and the function that its key names.
Kept(table, answers, availables) ==
  /\ \A x \in answers : x[1] \in DOMAIN table /\ x[2] = table[x[1]]
  /\ \A y \in availables : y[1] \in DOMAIN table /\ y[2] = (table[y[1]] # Nil)
  /\ \A key \in DOMAIN table : table[key] # Nil =>
       key = Loader!generateUniqueKey(table[key][1], table[key][2])

LoaderInv == Kept(x1, x2, x3)

LEMMA LoaderPromises == LoaderInv => Loader!OneAnswer
BY DEF LoaderInv, Kept, Loader!OneAnswer

LEMMA LoaderStart == Loader!Init => LoaderInv
BY DEF LoaderInv, Kept, Loader!Init

\* What a look leaves: the answer is kept, and what was kept stays.
LEMMA LooksKeep ==
  ASSUME NEW library, NEW function, LoaderInv, Loader!Look(library, function)
  PROVE  /\ Kept(x1', x2, x3)
         /\ Loader!generateUniqueKey(library, function) \in DOMAIN x1'
         /\ x1'[Loader!generateUniqueKey(library, function)] = Loader!Answer(library, function)
<1> DEFINE key == Loader!generateUniqueKey(library, function)
<1>1. CASE key \in DOMAIN x1
  BY <1>1 DEF LoaderInv, Loader!Look, Loader!Answer
<1>2. CASE key \notin DOMAIN x1
  <2> DEFINE symbol == Loader!resolve(library, function)
  <2>1. x1' = [k \in DOMAIN x1 \cup {key} |-> IF k = key THEN symbol ELSE x1[k]]
    BY <1>2 DEF Loader!Look, Loader!Inserted, Loader!Put
  <2>2. symbol # Nil => symbol = <<library, function>>
    BY DEF Loader!resolve
  <2>3. symbol # Nil => key = Loader!generateUniqueKey(symbol[1], symbol[2])
    BY <2>2
  <2>4. Loader!Answer(library, function) = symbol
    BY <1>2 DEF Loader!Answer
  <2> HIDE DEF key, symbol
  <2>5. /\ DOMAIN x1' = DOMAIN x1 \cup {key} /\ x1'[key] = symbol
        /\ \A k \in DOMAIN x1 : x1'[k] = x1[k]
    BY <1>2, <2>1
  <2>6. Kept(x1', x2, x3)
    BY <1>2, <2>3, <2>5 DEF LoaderInv, Kept
  <2> QED BY <2>4, <2>5, <2>6 DEF key
<1> QED BY <1>1, <1>2

LEMMA LoaderStep == LoaderInv /\ [Loader!Next]_serviceVars => LoaderInv'
<1> SUFFICES ASSUME LoaderInv, [Loader!Next]_serviceVars PROVE LoaderInv'
  OBVIOUS
<1>1. CASE UNCHANGED serviceVars
  BY <1>1 DEF serviceVars, LoaderInv, Kept
<1>2. ASSUME NEW library \in Paths, NEW function \in FunctionNames, Loader!get(library, function)
      PROVE  LoaderInv'
  <2> DEFINE key == Loader!generateUniqueKey(library, function)
             answered == Loader!Answer(library, function)
  <2>1. Kept(x1', x2, x3) /\ key \in DOMAIN x1' /\ x1'[key] = answered
    BY <1>2, LooksKeep DEF Loader!get
  <2>2. x2' = x2 \cup {<<key, answered>>} /\ x3' = x3
    BY <1>2 DEF Loader!get
  <2> HIDE DEF key, answered
  <2>3. Kept(x1', x2', x3)
    BY <2>1, <2>2 DEF Kept
  <2> QED BY <2>2, <2>3 DEF LoaderInv
<1>3. ASSUME NEW library \in Paths, NEW function \in FunctionNames, Loader!isAvailable(library, function)
      PROVE  LoaderInv'
  <2> DEFINE key == Loader!generateUniqueKey(library, function)
             answered == Loader!Answer(library, function)
             found == (answered # Nil)
  <2>1. Kept(x1', x2, x3) /\ key \in DOMAIN x1' /\ x1'[key] = answered
    BY <1>3, LooksKeep DEF Loader!isAvailable
  <2>2. x3' = x3 \cup {<<key, found>>} /\ x2' = x2
    BY <1>3 DEF Loader!isAvailable
  <2> HIDE DEF key
  <2>3. (x1'[key] # Nil) = found
    BY <2>1
  <2> HIDE DEF found, answered
  <2>4. \A y \in x3' : y[1] \in DOMAIN x1' /\ y[2] = (x1'[y[1]] # Nil)
    BY <2>1, <2>2, <2>3 DEF Kept
  <2> QED BY <2>1, <2>2, <2>4 DEF LoaderInv, Kept
<1> QED BY <1>1, <1>2, <1>3 DEF Loader!Next

-----------------------------------------------------------------------------
(* Words in any spelling.                                                   *)

WordTypes ==
  /\ DOMAIN x1 \subseteq Spellings /\ DOMAIN x2 \subseteq WordMap!Words
  /\ DOMAIN x3 = WordMap!Words /\ x4 \subseteq WordMap!Words

\* A word leads to a spelling of it with the latest value.
Led(h, lower, values) ==
  \A w \in DOMAIN lower :
    lower[w] \in DOMAIN h /\ toLower[lower[w]] = w /\ h[lower[w]] = values[w]

\* A sure word has no other spelling.
Sure(h, lower, doubts) ==
  \A k \in DOMAIN h : toLower[k] \notin doubts => toLower[k] \in DOMAIN lower /\ lower[toLower[k]] = k

WordInv == WordTypes /\ Led(x1, x2, x3) /\ Sure(x1, x2, x4)

LEMMA WordPromises == WordInv => WordMap!OneSpelling
<1> SUFFICES ASSUME WordInv PROVE WordMap!OneSpelling
  OBVIOUS
<1>1. \A w \in DOMAIN x2 : LET key == x2[w] IN key \in DOMAIN x1 /\ toLower[key] = w /\ x1[key] = x3[w]
  BY DEF WordInv, Led
<1>2. ASSUME NEW w \in WordMap!Words \ x4
      PROVE  WordMap!SpellingsOf(x1, w) = IF w \in DOMAIN x2 THEN {x2[w]} ELSE {}
  <2>1. \A k \in DOMAIN x1 : toLower[k] = w => w \in DOMAIN x2 /\ x2[w] = k
    BY <1>2 DEF WordInv, Sure
  <2> QED BY <1>1, <2>1 DEF WordMap!SpellingsOf
<1> QED BY <1>1, <1>2 DEF WordMap!OneSpelling

LEMMA WordsOf == DOMAIN toLower = Spellings /\ \A k \in Spellings : toLower[k] \in WordMap!Words
BY DataAssumption DEF WordMap!QStringHashAssumption, WordMap!Words, WordMap!Range

LEMMA WordStart == WordMap!Init => WordInv
<1> SUFFICES ASSUME WordMap!Init PROVE WordInv
  OBVIOUS
<1>1. PICK K \in SUBSET Spellings : x1 \in [K -> WordValues]
  BY DEF WordMap!Init
<1>2. /\ x2 \in {f \in [{toLower[k] : k \in DOMAIN x1} -> DOMAIN x1] : \A w \in DOMAIN f : toLower[f[w]] = w}
      /\ x4 = {w \in WordMap!Words : WordMap!Cardinality(WordMap!SpellingsOf(x1, w)) > 1}
      /\ x3 = [w \in WordMap!Words |-> IF w \in DOMAIN x2 THEN x1[x2[w]] ELSE Nil]
  BY DEF WordMap!Init
<1>3. /\ DOMAIN x1 \subseteq Spellings /\ DOMAIN x2 = {toLower[k] : k \in DOMAIN x1}
      /\ \A w \in DOMAIN x2 : x2[w] \in DOMAIN x1 /\ toLower[x2[w]] = w
  BY <1>1, <1>2
<1>4. WordTypes
  BY <1>2, <1>3, WordsOf DEF WordTypes
<1>5. Led(x1, x2, x3)
  BY <1>2, <1>3, <1>4 DEF Led, WordTypes
<1>6. ASSUME NEW k \in DOMAIN x1, toLower[k] \notin x4
      PROVE  toLower[k] \in DOMAIN x2 /\ x2[toLower[k]] = k
  <2> DEFINE S == WordMap!SpellingsOf(x1, toLower[k])
  <2>1. toLower[k] \in DOMAIN x2 /\ toLower[k] \in WordMap!Words
    BY <1>3, <1>4 DEF WordTypes
  <2>2. k \in S /\ x2[toLower[k]] \in S /\ S \subseteq Spellings
    BY <1>3, <2>1 DEF WordMap!SpellingsOf
  <2>3. ~(WordMap!Cardinality(S) > 1)
    BY <1>2, <1>6, <2>1
  <2> HIDE DEF S
  <2>4. IsFiniteSet(Spellings)
    BY DataAssumption DEF WordMap!QStringHashAssumption, WordMap!IsFiniteSet, IsFiniteSet
  <2>5. IsFiniteSet(S) /\ Cardinality(S) \in Nat
    BY <2>2, <2>4, FS_Subset, FS_CardinalityType
  <2>6. WordMap!Cardinality(S) = Cardinality(S)
    BY DEF WordMap!Cardinality, Cardinality, WordMap!IsFiniteSet, IsFiniteSet
  <2>7. Cardinality(S \ {k}) = Cardinality(S) - 1 /\ IsFiniteSet(S \ {k}) /\ Cardinality(S \ {k}) \in Nat
    BY <2>2, <2>5, FS_RemoveElement, FS_CardinalityType
  <2>8. Cardinality(S \ {k}) = 0
    BY <2>3, <2>5, <2>6, <2>7
  <2>9. S \ {k} = {}
    BY <2>7, <2>8, FS_EmptySet
  <2> QED BY <2>1, <2>2, <2>9
<1> QED BY <1>4, <1>5, <1>6 DEF WordInv, Sure

\* What a spelling leaves, when its word forgets it.
Forgotten(h, k) == [y \in DOMAIN h \ {k} |-> h[y]]
Spelt(h, k, v) == [z \in DOMAIN h \cup {k} |-> IF z = k THEN v ELSE h[z]]

\* A word is given a spelling and a value, when none is left of the one it had.
LEMMA WordGiven ==
  ASSUME WordInv, NEW k \in Spellings, NEW v, NEW h,
         \A z \in DOMAIN h : z \in DOMAIN x1 /\ h[z] = x1[z],
         \A z \in DOMAIN x1 : toLower[z] # toLower[k] => z \in DOMAIN h,
         \A z \in DOMAIN h : toLower[z] = toLower[k] /\ toLower[k] \notin x4 => z = k,
         x1' = Spelt(h, k, v), x2' = Spelt(x2, toLower[k], k),
         x3' = [x3 EXCEPT ![toLower[k]] = v], WordMap!Doubts({})
  PROVE  WordInv'
<1> DEFINE word == toLower[k]
<1>1. word \in WordMap!Words
  BY WordsOf
<1>2. /\ DOMAIN x1' = DOMAIN h \cup {k} /\ x1'[k] = v
      /\ \A z \in DOMAIN h : z # k => x1'[z] = h[z]
  BY DEF Spelt
<1>3. /\ DOMAIN x2' = DOMAIN x2 \cup {word} /\ x2'[word] = k
      /\ \A w \in DOMAIN x2 : w # word => x2'[w] = x2[w]
  BY DEF Spelt
<1>4. DOMAIN x3' = WordMap!Words /\ x3'[word] = v /\ \A w \in WordMap!Words : w # word => x3'[w] = x3[w]
  BY <1>1 DEF WordInv, WordTypes
<1>5. x4' \subseteq x4 /\ \A w \in x4 : w \notin x4' => WordMap!SpellingsOf(x1', w) = {}
  BY DEF WordMap!Doubts
<1>6. WordTypes'
  BY <1>1, <1>2, <1>3, <1>4, <1>5 DEF WordInv, WordTypes
<1> HIDE DEF word
<1>7. Led(x1', x2', x3')
  <2> SUFFICES ASSUME NEW w \in DOMAIN x2'
               PROVE  x2'[w] \in DOMAIN x1' /\ toLower[x2'[w]] = w /\ x1'[x2'[w]] = x3'[w]
    BY DEF Led
  <2>1. CASE w = word
    BY <1>2, <1>3, <1>4, <2>1 DEF word
  <2>2. CASE w # word
    <3>1. w \in DOMAIN x2 /\ x2'[w] = x2[w] /\ x2[w] \in DOMAIN x1 /\ toLower[x2[w]] = w /\ x1[x2[w]] = x3[w]
      BY <1>3, <2>2 DEF WordInv, Led
    <3>2. x2[w] \in DOMAIN h /\ x2[w] # k
      BY <2>2, <3>1 DEF word
    <3>3. w \in WordMap!Words
      BY <3>1 DEF WordInv, WordTypes
    <3> QED BY <1>2, <1>4, <2>2, <3>1, <3>2, <3>3
  <2> QED BY <2>1, <2>2
<1>8. Sure(x1', x2', x4')
  <2> SUFFICES ASSUME NEW z \in DOMAIN x1', toLower[z] \notin x4'
               PROVE  toLower[z] \in DOMAIN x2' /\ x2'[toLower[z]] = z
    BY DEF Sure
  <2>1. toLower[z] \notin x4
    BY <1>5 DEF WordMap!SpellingsOf
  <2>2. CASE z = k
    BY <1>3, <2>2 DEF word
  <2>3. CASE z # k
    <3>1. z \in DOMAIN h /\ z \in DOMAIN x1
      BY <1>2, <2>3
    <3>2. toLower[z] # word
      BY <2>1, <2>3, <3>1 DEF word
    <3>3. toLower[z] \in DOMAIN x2 /\ x2[toLower[z]] = z
      BY <2>1, <3>1 DEF WordInv, Sure
    <3> QED BY <1>3, <3>2, <3>3
  <2> QED BY <2>2, <2>3
<1> QED BY <1>6, <1>7, <1>8 DEF WordInv

\* A word loses its spelling; if another is left, it is in doubt.
LEMMA WordTaken ==
  ASSUME WordInv, NEW word \in WordMap!Words, NEW k,
         k \in DOMAIN x1 => toLower[k] = word,
         x1' = Forgotten(x1, k), x2' = Forgotten(x2, word),
         x3' = [x3 EXCEPT ![word] = Nil], WordMap!Doubts({word})
  PROVE  WordInv'
<1>1. DOMAIN x1' = DOMAIN x1 \ {k} /\ \A z \in DOMAIN x1' : x1'[z] = x1[z]
  BY DEF Forgotten
<1>2. DOMAIN x2' = DOMAIN x2 \ {word} /\ \A w \in DOMAIN x2' : x2'[w] = x2[w]
  BY DEF Forgotten
<1>3. DOMAIN x3' = WordMap!Words /\ \A w \in WordMap!Words : w # word => x3'[w] = x3[w]
  BY DEF WordInv, WordTypes
<1>4. /\ x4' \subseteq x4 \cup {word}
      /\ \A w \in x4 \cup {word} : w \notin x4' => WordMap!SpellingsOf(x1', w) = {}
  BY DEF WordMap!Doubts
<1>5. WordTypes'
  BY <1>1, <1>2, <1>3, <1>4 DEF WordInv, WordTypes
<1>6. Led(x1', x2', x3')
  <2> SUFFICES ASSUME NEW w \in DOMAIN x2'
               PROVE  x2'[w] \in DOMAIN x1' /\ toLower[x2'[w]] = w /\ x1'[x2'[w]] = x3'[w]
    BY DEF Led
  <2>1. w # word /\ w \in DOMAIN x2 /\ x2'[w] = x2[w] /\ w \in WordMap!Words
    BY <1>2 DEF WordInv, WordTypes
  <2>2. x2[w] \in DOMAIN x1 /\ toLower[x2[w]] = w /\ x1[x2[w]] = x3[w]
    BY <2>1 DEF WordInv, Led
  <2>3. x2[w] # k
    BY <2>1, <2>2
  <2> QED BY <1>1, <1>3, <2>1, <2>2, <2>3
<1>7. Sure(x1', x2', x4')
  <2> SUFFICES ASSUME NEW z \in DOMAIN x1', toLower[z] \notin x4'
               PROVE  toLower[z] \in DOMAIN x2' /\ x2'[toLower[z]] = z
    BY DEF Sure
  <2>1. toLower[z] \notin x4 /\ toLower[z] # word
    BY <1>4 DEF WordMap!SpellingsOf
  <2>2. toLower[z] \in DOMAIN x2 /\ x2[toLower[z]] = z
    BY <1>1, <2>1 DEF WordInv, Sure
  <2> QED BY <1>2, <2>1, <2>2
<1> QED BY <1>5, <1>6, <1>7 DEF WordInv

\* What is left of a word that loses the spelling in use.
LEMMA WordRemoved ==
  ASSUME WordInv, NEW k \in Spellings
  PROVE  /\ \A z \in DOMAIN WordMap!Removed(toLower[k]) :
              z \in DOMAIN x1 /\ WordMap!Removed(toLower[k])[z] = x1[z]
         /\ \A z \in DOMAIN x1 : toLower[z] # toLower[k] => z \in DOMAIN WordMap!Removed(toLower[k])
         /\ \A z \in DOMAIN WordMap!Removed(toLower[k]) : toLower[z] = toLower[k] => toLower[k] \in x4
<1>1. CASE toLower[k] \notin DOMAIN x2
  BY <1>1 DEF WordMap!Removed, WordInv, Sure
<1>2. CASE toLower[k] \in DOMAIN x2
  <2>1. WordMap!Removed(toLower[k]) = [z \in DOMAIN x1 \ {x2[toLower[k]]} |-> x1[z]]
    BY <1>2 DEF WordMap!Removed, WordMap!Without
  <2>2. toLower[x2[toLower[k]]] = toLower[k]
    BY <1>2 DEF WordInv, Led
  <2> QED BY <2>1, <2>2 DEF WordInv, Sure
<1> QED BY <1>1, <1>2

LEMMA WordStep == WordInv /\ [WordMap!Next]_serviceVars => WordInv'
<1> SUFFICES ASSUME WordInv, [WordMap!Next]_serviceVars PROVE WordInv'
  OBVIOUS
<1>1. CASE UNCHANGED serviceVars
  BY <1>1 DEF serviceVars, WordInv, WordTypes, Led, Sure
<1>2. ASSUME NEW k \in Spellings, NEW v \in WordValues, WordMap!insert(k, v) PROVE WordInv'
  <2> DEFINE h == WordMap!Removed(toLower[k])
  <2>1. /\ x1' = Spelt(h, k, v) /\ x2' = Spelt(x2, toLower[k], k)
        /\ x3' = [x3 EXCEPT ![toLower[k]] = v] /\ WordMap!Doubts({})
    BY <1>2 DEF WordMap!insert, WordMap!Put, Spelt
  <2>2. /\ \A z \in DOMAIN h : z \in DOMAIN x1 /\ h[z] = x1[z]
        /\ \A z \in DOMAIN x1 : toLower[z] # toLower[k] => z \in DOMAIN h
        /\ \A z \in DOMAIN h : toLower[z] = toLower[k] /\ toLower[k] \notin x4 => z = k
    BY WordRemoved
  <2> HIDE DEF h
  <2> QED BY <2>1, <2>2, WordGiven
<1>3. ASSUME NEW k \in Spellings, NEW v \in WordValues \cup {Nil}, WordMap!At(k, v) PROVE WordInv'
  <2> DEFINE respelt == toLower[k] \in DOMAIN x2 /\ k \notin DOMAIN x1
             old == IF k \in DOMAIN x1 THEN x1[k]
                    ELSE IF respelt THEN x1[x2[toLower[k]]] ELSE Nil
             new == IF v = Nil THEN old ELSE v
             h == IF respelt THEN WordMap!Removed(toLower[k]) ELSE x1
  <2>1. /\ x1' = Spelt(h, k, new) /\ x2' = Spelt(x2, toLower[k], k)
        /\ x3' = [x3 EXCEPT ![toLower[k]] = new] /\ WordMap!Doubts({})
    BY <1>3 DEF WordMap!At, WordMap!Put, Spelt
  <2>2. /\ \A z \in DOMAIN h : z \in DOMAIN x1 /\ h[z] = x1[z]
        /\ \A z \in DOMAIN x1 : toLower[z] # toLower[k] => z \in DOMAIN h
        /\ \A z \in DOMAIN h : toLower[z] = toLower[k] /\ toLower[k] \notin x4 => z = k
    <3>1. CASE respelt
      BY <3>1, WordRemoved
    <3>2. CASE ~respelt
      BY <3>2 DEF WordInv, Sure
    <3> QED BY <3>1, <3>2
  <2> HIDE DEF h, new
  <2> QED BY <2>1, <2>2, WordGiven
<1>4. ASSUME NEW k \in Spellings, WordMap!takeSensitive(k) PROVE WordInv'
  <2>1. /\ x1' = Forgotten(x1, k) /\ x2' = Forgotten(x2, toLower[k])
        /\ x3' = [x3 EXCEPT ![toLower[k]] = Nil] /\ WordMap!Doubts({toLower[k]})
    BY <1>4 DEF WordMap!takeSensitive, WordMap!Without, Forgotten
  <2>2. toLower[k] \in WordMap!Words
    BY WordsOf
  <2> QED BY <2>1, <2>2, WordTaken
<1>5. ASSUME NEW k \in Spellings, WordMap!removeSensitive(k) PROVE WordInv'
  <2>1. /\ x1' = Forgotten(x1, k) /\ x2' = Forgotten(x2, toLower[k])
        /\ x3' = [x3 EXCEPT ![toLower[k]] = Nil] /\ WordMap!Doubts({toLower[k]})
    BY <1>5 DEF WordMap!removeSensitive, WordMap!Without, Forgotten
  <2>2. toLower[k] \in WordMap!Words
    BY WordsOf
  <2> QED BY <2>1, <2>2, WordTaken
<1>6. ASSUME NEW k \in Spellings, WordMap!removeInsensitive(k) PROVE WordInv'
  <2> DEFINE word == toLower[k]
  <2>1. /\ word \in DOMAIN x2
        /\ x1' = Forgotten(x1, x2[word]) /\ x2' = Forgotten(x2, word)
        /\ x3' = [x3 EXCEPT ![word] = Nil] /\ WordMap!Doubts({word})
    BY <1>6 DEF WordMap!removeInsensitive, WordMap!Removed, WordMap!Without, Forgotten
  <2>2. word \in WordMap!Words /\ toLower[x2[word]] = word
    BY <2>1, WordsOf DEF WordInv, Led
  <2> HIDE DEF word
  <2> QED BY <2>1, <2>2, WordTaken
<1>7. ASSUME WordMap!clear PROVE WordInv'
  BY <1>7 DEF WordMap!clear, WordInv, WordTypes, Led, Sure
<1> QED BY <1>1, <1>2, <1>3, <1>4, <1>5, <1>6, <1>7 DEF WordMap!Next

-----------------------------------------------------------------------------
(* The file of the configuration.                                           *)

FileTypes ==
  /\ x2 \in [File!Places -> SUBSET {Foreign, "version", "settings"}]
  /\ x3 \in [File!Places -> FileValues \cup {Nil}]
  /\ x4 \in {"off", "find", "drop", "settings", "running"}
  /\ x5 \in File!Places \cup {Nil}

\* A row is what was stored last. What a file without a version had is not kept, and only
\* of such a file are tables dropped.
FileInv ==
  /\ FileTypes /\ Memory \notin x1
  /\ x7 = x3
  /\ \A p \in File!Places : p \notin x8 => "version" \in x2[p]
  /\ x4 = "drop" /\ x6 # {} => x5 \in x8

LEMMA FilePromises == FileInv => File!RowsAreKept /\ File!TypeOK
BY DEF FileInv, FileTypes, File!RowsAreKept, File!TypeOK, File!get, File!Ready

LEMMA FileStart == File!Init => FileInv
BY DataAssumption DEF File!FileAssumption, File!Init, FileInv, FileTypes, File!Places

LEMMA PathsAre ==
  ASSUME NEW isChosen \in BOOLEAN, NEW isPortable \in BOOLEAN,
         NEW i \in DOMAIN File!Candidates(isChosen, isPortable)
  PROVE  LET c == File!Candidates(isChosen, isPortable)[i]
         IN  c[1] \in File!Places /\ (c[2] => c[1] # Memory)
<1> DEFINE paths == File!Candidates(isChosen, isPortable)
           S == {c \in File!Places \X BOOLEAN : c[2] => c[1] # Memory}
           first == IF isChosen THEN << <<Chosen, TRUE>> >> ELSE <<>>
           second == IF isPortable THEN << <<Portable, FALSE>> >> ELSE <<>>
           third == << <<Standard, TRUE>> >>
           last == << <<Memory, FALSE>> >>
<1>1. first \in Seq(S) /\ second \in Seq(S) /\ third \in Seq(S) /\ last \in Seq(S)
  <2>1. \A x \in S : << x >> \in Seq(S)
    BY Singletons
  <2>2. <<>> \in Seq(S)
    BY EmptySeq
  <2>3. <<Chosen, TRUE>> \in S /\ <<Portable, FALSE>> \in S /\ <<Standard, TRUE>> \in S /\ <<Memory, FALSE>> \in S
    BY DataAssumption DEF File!FileAssumption, File!Places
  <2> HIDE DEF S
  <2> QED BY <2>1, <2>2, <2>3
<1>2. paths = first \o (second \o third) \o last
  BY DEF File!Candidates, File!standardDbPaths
<1> HIDE DEF S, first, second, third, last, paths
<1>3. second \o third \in Seq(S)
  BY <1>1, ConcatProperties
<1>4. first \o (second \o third) \in Seq(S)
  BY <1>1, <1>3, ConcatProperties
<1>5. paths \in Seq(S)
  BY <1>1, <1>2, <1>4, ConcatProperties
<1>6. paths[i] \in S
  BY <1>5 DEF paths
<1>7. \A c \in S : c[1] \in File!Places /\ (c[2] => c[1] # Memory)
  BY DEF S
<1> QED BY <1>6, <1>7 DEF paths

\* The first of a set of positions is one of them.
LEMMA FirstOf ==
  ASSUME NEW n \in Nat, NEW I \in SUBSET (1 .. n), I # {}
  PROVE  File!Min(I) \in I /\ Plugin!Min(I) \in I
<1>1. I \subseteq Nat
  OBVIOUS
<1>2. \E x \in I : \A y \in I : x <= y
  BY <1>1, LeastOf
<1> QED BY <1>2 DEF File!Min, Plugin!Min

LEMMA FileOpened ==
  ASSUME FileInv, NEW isChosen \in BOOLEAN, NEW isPortable \in BOOLEAN,
         NEW Broken, File!initDbFile(isChosen, isPortable, Broken)
  PROVE  FileInv'
<1> DEFINE paths == File!Candidates(isChosen, isPortable)
           I == {i \in 1 .. Len(paths) :
                   paths[i][1] \notin Broken /\ (paths[i][2] \/ paths[i][1] \in x1)}
           opened == IF I # {} THEN File!Min(I) ELSE 0
           tried == IF opened = 0 THEN DOMAIN paths ELSE 1 .. opened
<1>1. /\ x4' = "find" /\ x6' = {} /\ UNCHANGED <<x2, x3, x7, x8>>
      /\ x5' = IF opened = 0 THEN Nil ELSE paths[opened][1]
      /\ x1' = x1 \cup {paths[i][1] : i \in {i \in tried : paths[i][2] /\ paths[i][1] \notin Broken}}
  BY DEF File!initDbFile, File!SelectInSeq, File!fileVars
<1>2. Len(paths) \in Nat /\ DOMAIN paths = 1 .. Len(paths)
  BY DEF File!Candidates, File!standardDbPaths
<1>3. \A i \in DOMAIN paths : paths[i][1] \in File!Places /\ (paths[i][2] => paths[i][1] # Memory)
  BY PathsAre
<1>4. opened = 0 \/ opened \in DOMAIN paths
  <2>1. I \in SUBSET (1 .. Len(paths))
    OBVIOUS
  <2> HIDE DEF I, paths
  <2> QED BY <1>2, <2>1, FirstOf
<1> HIDE DEF paths, opened
<1>5. tried \subseteq DOMAIN paths
  BY <1>2, <1>4
<1> HIDE DEF tried
<1>6. Memory \notin x1'
  BY <1>1, <1>3, <1>5 DEF FileInv
<1>7. x5' \in File!Places \cup {Nil}
  BY <1>1, <1>3, <1>4
<1> QED BY <1>1, <1>6, <1>7 DEF FileInv, FileTypes

LEMMA FileStep == FileInv /\ [File!Next]_serviceVars => FileInv'
<1> SUFFICES ASSUME FileInv, [File!Next]_serviceVars PROVE FileInv'
  OBVIOUS
<1> USE DEF FileInv, FileTypes
<1>1. CASE UNCHANGED serviceVars
  BY <1>1 DEF serviceVars
<1>2. ASSUME NEW isChosen \in BOOLEAN, NEW isPortable \in BOOLEAN, NEW Broken \in SUBSET File!Places,
             File!initDbFile(isChosen, isPortable, Broken)
      PROVE  FileInv'
  BY <1>2, FileOpened
<1>3. ASSUME NEW ok \in BOOLEAN, File!FindTables(ok) PROVE FileInv'
  BY <1>3 DEF File!FindTables, File!Works, File!fileVars
<1>4. ASSUME NEW ok \in BOOLEAN, NEW table \in x6, File!DropTable(table, ok) PROVE FileInv'
  <2>1. /\ x4 = "drop" /\ x6' = x6 \ {table} /\ x5 \in x8 /\ UNCHANGED <<x1, x4, x5, x8>>
    BY <1>4 DEF File!DropTable
  <2>2. CASE File!Works(ok)
    <3>1. x5 \in File!Places
      BY <2>2 DEF File!Works
    <3>2. x2' = [x2 EXCEPT ![x5] = x2[x5] \ {table}]
      BY <1>4, <2>2 DEF File!DropTable
    <3>3. x3' = (IF table = "settings" THEN [x3 EXCEPT ![x5] = Nil] ELSE x3) /\ x7' = x3'
      BY <1>4, <2>1, <2>2 DEF File!DropTable
    <3> QED BY <2>1, <3>1, <3>2, <3>3
  <2>3. CASE ~File!Works(ok)
    BY <1>4, <2>1, <2>3 DEF File!DropTable
  <2> QED BY <2>2, <2>3
<1>5. ASSUME NEW ok \in BOOLEAN, File!CreateVersion(ok) PROVE FileInv'
  <2>1. x4' = "settings" /\ UNCHANGED <<x1, x3, x5, x6, x7>>
    BY <1>5 DEF File!CreateVersion
  <2>2. CASE File!Works(ok)
    <3>1. x5 \in File!Places
      BY <2>2 DEF File!Works
    <3>2. x2' = [x2 EXCEPT ![x5] = x2[x5] \cup {"version"}] /\ x8' = x8 \ {x5}
      BY <1>5, <2>2 DEF File!CreateVersion, File!Versioned
    <3> QED BY <2>1, <3>1, <3>2
  <2>3. CASE ~File!Works(ok)
    BY <1>5, <2>1, <2>3 DEF File!CreateVersion
  <2> QED BY <2>2, <2>3
<1>6. ASSUME NEW ok \in BOOLEAN, File!CreateSettings(ok) PROVE FileInv'
  <2>1. x4' = "running" /\ UNCHANGED <<x1, x3, x5, x6, x7, x8>>
    BY <1>6 DEF File!CreateSettings
  <2>2. CASE "settings" \notin x6 /\ File!Works(ok)
    <3>1. x5 \in File!Places
      BY <2>2 DEF File!Works
    <3>2. x2' = [x2 EXCEPT ![x5] = x2[x5] \cup {"settings"}]
      BY <1>6, <2>2 DEF File!CreateSettings
    <3> QED BY <2>1, <3>1, <3>2
  <2>3. CASE ~("settings" \notin x6 /\ File!Works(ok))
    BY <1>6, <2>1, <2>3 DEF File!CreateSettings
  <2> QED BY <2>2, <2>3
<1>7. ASSUME NEW ok \in BOOLEAN, NEW val \in FileValues \cup {Nil}, File!set(val, ok) PROVE FileInv'
  <2>1. UNCHANGED <<x1, x2, x4, x5, x6, x8>> /\ x4 = "running"
    BY <1>7 DEF File!set
  <2>2. CASE File!Ready /\ ok
    <3>1. x5 \in File!Places
      BY <2>2 DEF File!Ready
    <3>2. x3' = [x3 EXCEPT ![x5] = val] /\ x7' = [x7 EXCEPT ![x5] = val]
      BY <1>7, <2>2 DEF File!set
    <3> QED BY <2>1, <3>1, <3>2
  <2>3. CASE ~(File!Ready /\ ok)
    BY <1>7, <2>1, <2>3 DEF File!set
  <2> QED BY <2>2, <2>3
<1>8. ASSUME File!End PROVE FileInv'
  BY <1>8 DEF File!End, File!fileVars
<1> QED BY <1>1, <1>2, <1>3, <1>4, <1>5, <1>6, <1>7, <1>8 DEF File!Next

-----------------------------------------------------------------------------
(* Plugins and their registries.                                            *)

PluginKinds ==
  /\ x1 \in Seq(PluginTypes) /\ x2 \in [PluginTypes -> Seq(Nat)] /\ x3 \in [Names -> Nat]
  /\ x4 \in Seq([plugin : Plugins, type : PluginTypes, name : Names,
                 isLoaded : BOOLEAN, isBuiltIn : BOOLEAN])
  /\ x5 \in Seq([plugin : Plugins, type : PluginTypes])
  /\ x6 \in Seq(Plugins \X BOOLEAN)

\* The ids of a type are those of its containers, from the oldest on.
Listed(ids, boxes, t) ==
  /\ \A j, k \in DOMAIN ids : j < k => ids[j] < ids[k]
  /\ \A k \in DOMAIN ids : ids[k] \in DOMAIN boxes /\ boxes[ids[k]].type = t
  /\ \A id \in DOMAIN boxes : boxes[id].type = t => \E k \in DOMAIN ids : ids[k] = id

\* An id is the newest of a name, or none has it.
Newest(id, boxes, n) ==
  /\ id # 0 => id \in DOMAIN boxes /\ NameOf[boxes[id].plugin] = n
  /\ \A other \in DOMAIN boxes : NameOf[boxes[other].plugin] = n => other <= id

\* What is told of a container is what it is.
ToldOf(boxes, tales) ==
  /\ Len(tales) = Len(boxes)
  /\ \A i \in DOMAIN boxes :
       /\ tales[i].plugin = boxes[i].plugin /\ tales[i].type = boxes[i].type
       /\ boxes[i].isLoaded /\ boxes[i].type \in TypesOf[boxes[i].plugin]

Answered(boxes, replies) ==
  \A k \in DOMAIN replies : replies[k][2] => \E id \in DOMAIN boxes : boxes[id].plugin = replies[k][1]

PluginInv ==
  /\ PluginKinds
  /\ \A t \in PluginTypes : Listed(x2[t], x4, t)
  /\ \A n \in Names : Newest(x3[n], x4, n)
  /\ ToldOf(x4, x5) /\ Answered(x4, x6)

LEMMA PluginParameters ==
  NameOf \in [Plugins -> Names] /\ TypesOf \in [Plugins -> SUBSET PluginTypes]
BY DataAssumption DEF Plugin!PluginAssumption

LEMMA PluginPromises == PluginInv => Plugin!RegistriesAgree
<1> SUFFICES ASSUME PluginInv PROVE Plugin!RegistriesAgree
  OBVIOUS
<1>1. x4 \in Seq([plugin : Plugins, type : PluginTypes, name : Names, isLoaded : BOOLEAN, isBuiltIn : BOOLEAN])
  BY DEF PluginInv, PluginKinds
<1>2. DOMAIN x4 = 1 .. Len(x4) /\ Len(x4) \in Nat /\ DOMAIN x5 = DOMAIN x4
  BY <1>1 DEF PluginInv, PluginKinds, ToldOf
<1>3. ASSUME NEW t \in PluginTypes
      PROVE  /\ \A j, k \in DOMAIN x2[t] : j < k => x2[t][j] < x2[t][k]
             /\ Plugin!Range(x2[t]) = {id \in DOMAIN x4 : x4[id].type = t}
  BY DEF PluginInv, Listed, Plugin!Range
<1>4. ASSUME NEW n \in Names
      PROVE  LET named == {id \in DOMAIN x4 : NameOf[x4[id].plugin] = n}
             IN  (named = {} => x3[n] = 0) /\ \A id \in named : named = {id} => x3[n] = id
  <2> DEFINE named == {id \in DOMAIN x4 : NameOf[x4[id].plugin] = n}
  <2>1. Newest(x3[n], x4, n) /\ x3[n] \in Nat
    BY DEF PluginInv, PluginKinds
  <2>2. x3[n] # 0 => x3[n] \in named
    BY <2>1 DEF Newest
  <2>3. ASSUME NEW id \in named PROVE x3[n] # 0
    <3>1. id <= x3[n] /\ id \in 1 .. Len(x4)
      BY <1>2, <2>1 DEF Newest
    <3> QED BY <1>2, <2>1, <3>1
  <2> HIDE DEF named
  <2>4. \A id \in named : named = {id} => x3[n] = id
    BY <2>2, <2>3
  <2> QED BY <2>2, <2>4 DEF named
<1>5. ASSUME NEW t \in PluginTypes
      PROVE  /\ Plugin!loadedPlugins(t) = {i \in DOMAIN x5 : x5[i].type = t}
             /\ \A id \in Plugin!loadedPlugins(t) : x4[id].plugin = x5[id].plugin
  <2>1. \A i \in DOMAIN x4 : x4[i].isLoaded /\ x5[i].type = x4[i].type /\ x5[i].plugin = x4[i].plugin
    BY DEF PluginInv, ToldOf
  <2>2. Plugin!loadedPlugins(t) = {id \in DOMAIN x4 : x4[id].type = t}
    BY <1>3, <2>1 DEF Plugin!loadedPlugins
  <2> QED BY <1>2, <2>1, <2>2
<1>6. ASSUME NEW k \in DOMAIN x6, x6[k][2]
      PROVE  \E t \in TypesOf[x6[k][1]] : \E id \in Plugin!loadedPlugins(t) : x4[id].plugin = x6[k][1]
  <2>1. PICK id \in DOMAIN x4 : x4[id].plugin = x6[k][1]
    BY <1>6 DEF PluginInv, Answered
  <2>2. x4[id].type \in TypesOf[x6[k][1]] /\ x5[id].type = x4[id].type
    BY <2>1 DEF PluginInv, ToldOf
  <2>3. x4[id].type \in PluginTypes
    <3> DEFINE Boxes == [plugin : Plugins, type : PluginTypes, name : Names, isLoaded : BOOLEAN, isBuiltIn : BOOLEAN]
    <3>1. x4 \in Seq(Boxes) /\ id \in 1 .. Len(x4)
      BY <1>1, <1>2, <2>1
    <3>2. \A box \in Boxes : box.type \in PluginTypes
      OBVIOUS
    <3> HIDE DEF Boxes
    <3>3. x4[id] \in Boxes
      BY <3>1
    <3> QED BY <3>2, <3>3
  <2>4. id \in Plugin!loadedPlugins(x4[id].type)
    BY <1>2, <1>5, <2>2, <2>3
  <2> QED BY <2>1, <2>2, <2>4
<1> QED BY <1>3, <1>4, <1>5, <1>6 DEF Plugin!RegistriesAgree

LEMMA PluginStart == Plugin!Init => PluginInv
<1> SUFFICES ASSUME Plugin!Init PROVE PluginInv
  OBVIOUS
<1>1. /\ x1 = <<>> /\ x2 = [t \in PluginTypes |-> <<>>] /\ x3 = [n \in Names |-> 0]
      /\ x4 = <<>> /\ x5 = <<>> /\ x6 = <<>>
  BY DEF Plugin!Init
<1>2. PluginKinds
  BY <1>1 DEF PluginKinds
<1>3. DOMAIN x4 = {} /\ DOMAIN x6 = {} /\ Len(x4) = 0 /\ Len(x5) = 0
  BY <1>1
<1>4. \A t \in PluginTypes : DOMAIN x2[t] = {}
  BY <1>1
<1> QED BY <1>1, <1>2, <1>3, <1>4 DEF PluginInv, Listed, Newest, ToldOf, Answered

LEMMA Booleans == \A p : (p \notin Failing) \in BOOLEAN
  OBVIOUS

\* A plugin of the type that accepted it gets a container, which is told of.
LEMMA PluginLoaded ==
  ASSUME PluginInv, NEW p \in Plugins, NEW t \in PluginTypes, t \in TypesOf[p],
         NEW reply \in BOOLEAN,
         UNCHANGED x1,
         x4' = Append(x4, Plugin!Container(p, t)),
         x2' = [x2 EXCEPT ![t] = Append(x2[t], Len(x4) + 1)],
         x3' = [x3 EXCEPT ![NameOf[p]] = Len(x4) + 1],
         x5' = Append(x5, [plugin |-> p, type |-> t]),
         x6' = Append(x6, <<p, reply>>)
  PROVE  PluginInv'
<1> DEFINE Boxes == [plugin : Plugins, type : PluginTypes, name : Names, isLoaded : BOOLEAN, isBuiltIn : BOOLEAN]
           n == Len(x4)
           box == Plugin!Container(p, t)
<1>1. NameOf[p] \in Names
  BY PluginParameters
<1>2. box \in Boxes /\ box.plugin = p /\ box.type = t /\ box.isLoaded
  BY <1>1 DEF Plugin!Container
<1> HIDE DEF box
<1>3. x4 \in Seq(Boxes) /\ n \in Nat /\ DOMAIN x4 = 1 .. n
  BY DEF PluginInv, PluginKinds
<1>4. x4' = Append(x4, box)
  BY DEF box
<1> HIDE DEF Boxes
<1>5. /\ x4' \in Seq(Boxes) /\ Len(x4') = n + 1 /\ DOMAIN x4' = 1 .. n + 1
      /\ x4'[n + 1] = box /\ \A i \in 1 .. n : x4'[i] = x4[i]
  BY <1>2, <1>3, <1>4
<1> HIDE DEF n
<1>6. n + 1 \in Nat /\ Len(x4) = n
  BY <1>3 DEF n
<1>7. PluginKinds'
  <2>1. x2' \in [PluginTypes -> Seq(Nat)] /\ x3' \in [Names -> Nat]
    BY <1>1, <1>6 DEF PluginInv, PluginKinds
  <2>2. x5' \in Seq([plugin : Plugins, type : PluginTypes])
    BY DEF PluginInv, PluginKinds
  <2>3. x6' \in Seq(Plugins \X BOOLEAN)
    BY DEF PluginInv, PluginKinds
  <2> QED BY <1>5, <2>1, <2>2, <2>3 DEF PluginInv, PluginKinds, Boxes
<1>8. ASSUME NEW s \in PluginTypes PROVE Listed(x2'[s], x4', s)
  <2>1. x2[s] \in Seq(Nat) /\ Listed(x2[s], x4, s)
    BY DEF PluginInv, PluginKinds
  <2>2. CASE s # t
    <3>1. x2'[s] = x2[s]
      BY <2>2 DEF PluginInv, PluginKinds
    <3>2. \A id \in 1 .. n + 1 : id # n + 1 => id \in 1 .. n
      BY <1>3
    <3> QED BY <1>2, <1>3, <1>5, <2>1, <2>2, <3>1, <3>2 DEF Listed
  <2>3. CASE s = t
    <3> DEFINE ids == x2[s]  m == Len(x2[s])
    <3>1. x2'[s] = Append(ids, n + 1)
      BY <1>6, <2>3 DEF PluginInv, PluginKinds
    <3>2. m \in Nat /\ DOMAIN ids = 1 .. m
      BY <2>1
    <3>3. /\ DOMAIN x2'[s] = 1 .. m + 1 /\ x2'[s][m + 1] = n + 1
          /\ \A k \in 1 .. m : x2'[s][k] = ids[k]
      BY <1>6, <2>1, <3>1
    <3> HIDE DEF ids, m
    <3>4. \A k \in 1 .. m : ids[k] \in 1 .. n /\ x4[ids[k]].type = t
      BY <1>3, <2>1, <2>3, <3>2 DEF Listed, ids
    <3>5. \A j, k \in 1 .. m : j < k => ids[j] < ids[k]
      BY <2>1, <3>2 DEF Listed, ids
    <3>6. \A k \in 1 .. m + 1 : k # m + 1 => k \in 1 .. m
      BY <3>2
    <3>7. \A j, k \in 1 .. m + 1 : j < k => x2'[s][j] < x2'[s][k]
      <4> SUFFICES ASSUME NEW j \in 1 .. m + 1, NEW k \in 1 .. m + 1, j < k
                   PROVE  x2'[s][j] < x2'[s][k]
        OBVIOUS
      <4>1. j \in 1 .. m
        BY <3>2
      <4>2. x2'[s][j] = ids[j] /\ ids[j] \in 1 .. n
        BY <3>3, <3>4, <4>1
      <4>3. CASE k = m + 1
        BY <1>3, <3>3, <4>2, <4>3
      <4>4. CASE k # m + 1
        BY <3>3, <3>5, <3>6, <4>1, <4>2, <4>4
      <4> QED BY <4>3, <4>4
    <3>8. \A k \in 1 .. m + 1 : x2'[s][k] \in 1 .. n + 1 /\ x4'[x2'[s][k]].type = s
      <4> SUFFICES ASSUME NEW k \in 1 .. m + 1
                   PROVE  x2'[s][k] \in 1 .. n + 1 /\ x4'[x2'[s][k]].type = s
        OBVIOUS
      <4>1. CASE k = m + 1
        <5>1. x2'[s][k] = n + 1 /\ n + 1 \in 1 .. n + 1
          BY <1>3, <3>3, <4>1
        <5> QED BY <1>2, <1>5, <2>3, <5>1
      <4>2. CASE k # m + 1
        <5>1. k \in 1 .. m
          BY <3>6, <4>2
        <5>2. x2'[s][k] = ids[k] /\ ids[k] \in 1 .. n /\ x4[ids[k]].type = t
          BY <3>3, <3>4, <5>1
        <5>3. ids[k] \in 1 .. n + 1
          BY <1>3, <5>2
        <5> QED BY <1>5, <2>3, <5>2, <5>3
      <4> QED BY <4>1, <4>2
    <3>9. ASSUME NEW id \in 1 .. n + 1, x4'[id].type = s PROVE \E k \in 1 .. m + 1 : x2'[s][k] = id
      <4>1. CASE id = n + 1
        BY <3>2, <3>3, <4>1
      <4>2. CASE id # n + 1
        <5>1. id \in 1 .. n /\ x4[id].type = s
          BY <1>3, <1>5, <3>9, <4>2
        <5>2. PICK k \in 1 .. m : ids[k] = id
          BY <1>3, <2>1, <3>2, <5>1 DEF Listed, ids
        <5>3. k \in 1 .. m + 1
          BY <3>2
        <5> QED BY <3>3, <5>2, <5>3
      <4> QED BY <4>1, <4>2
    <3> QED BY <1>5, <3>3, <3>7, <3>8, <3>9 DEF Listed
  <2> QED BY <2>2, <2>3
<1>9. ASSUME NEW name \in Names PROVE Newest(x3'[name], x4', name)
  <2>1. \A id \in 1 .. n + 1 : id # n + 1 => id \in 1 .. n
    BY <1>3
  <2>2. CASE name = NameOf[p]
    <3>1. x3'[name] = n + 1
      BY <1>6, <2>2 DEF PluginInv, PluginKinds
    <3> QED BY <1>2, <1>3, <1>5, <2>2, <3>1 DEF Newest
  <2>3. CASE name # NameOf[p]
    <3>1. x3'[name] = x3[name] /\ Newest(x3[name], x4, name)
      BY <2>3 DEF PluginInv, PluginKinds
    <3>2. \A id \in 1 .. n + 1 : NameOf[x4'[id].plugin] = name => id \in 1 .. n
      BY <1>2, <1>5, <2>1, <2>3
    <3>3. 1 .. n \subseteq 1 .. n + 1
      BY <1>3
    <3> QED BY <1>3, <1>5, <3>1, <3>2, <3>3 DEF Newest
  <2> QED BY <2>2, <2>3
<1>10. ToldOf(x4', x5')
  <2>1. x5 \in Seq([plugin : Plugins, type : PluginTypes]) /\ Len(x5) = n
    BY <1>6 DEF PluginInv, PluginKinds, ToldOf
  <2>2. /\ Len(x5') = n + 1 /\ x5'[n + 1] = [plugin |-> p, type |-> t]
        /\ \A i \in 1 .. n : x5'[i] = x5[i]
    BY <2>1
  <2>3. ASSUME NEW i \in 1 .. n + 1
        PROVE  /\ x5'[i].plugin = x4'[i].plugin /\ x5'[i].type = x4'[i].type
               /\ x4'[i].isLoaded /\ x4'[i].type \in TypesOf[x4'[i].plugin]
    <3>1. CASE i = n + 1
      BY <1>2, <1>5, <2>2, <3>1
    <3>2. CASE i # n + 1
      <4>1. i \in 1 .. n
        BY <1>3, <3>2
      <4> QED BY <1>3, <1>5, <2>2, <4>1 DEF PluginInv, ToldOf
    <3> QED BY <3>1, <3>2
  <2> QED BY <1>5, <2>2, <2>3 DEF ToldOf
<1>11. Answered(x4', x6')
  <2> DEFINE m == Len(x6)
  <2>1. x6 \in Seq(Plugins \X BOOLEAN) /\ m \in Nat /\ DOMAIN x6 = 1 .. m
    BY DEF PluginInv, PluginKinds
  <2>2. /\ DOMAIN x6' = 1 .. m + 1 /\ x6'[m + 1] = <<p, reply>>
        /\ \A k \in 1 .. m : x6'[k] = x6[k]
    BY <2>1
  <2> HIDE DEF m
  <2>3. ASSUME NEW k \in 1 .. m + 1, x6'[k][2] PROVE \E id \in 1 .. n + 1 : x4'[id].plugin = x6'[k][1]
    <3>1. CASE k = m + 1
      BY <1>2, <1>3, <1>5, <2>2, <3>1
    <3>2. CASE k # m + 1
      <4>1. k \in DOMAIN x6 /\ x6'[k] = x6[k]
        BY <2>1, <2>2, <3>2
      <4>2. PICK id \in DOMAIN x4 : x4[id].plugin = x6[k][1]
        BY <2>3, <4>1 DEF PluginInv, Answered
      <4>3. id \in 1 .. n + 1
        BY <1>3, <4>2
      <4> QED BY <1>3, <1>5, <4>1, <4>2, <4>3
    <3> QED BY <3>1, <3>2
  <2> QED BY <1>5, <2>2, <2>3 DEF Answered
<1> QED BY <1>7, <1>8, <1>9, <1>10, <1>11 DEF PluginInv

LEMMA PluginStep == PluginInv /\ [Plugin!Next]_serviceVars => PluginInv'
<1> SUFFICES ASSUME PluginInv, [Plugin!Next]_serviceVars PROVE PluginInv'
  OBVIOUS
<1>1. CASE UNCHANGED serviceVars
  BY <1>1 DEF serviceVars, PluginInv, PluginKinds
<1>2. ASSUME NEW t \in PluginTypes, Plugin!registerPluginType(t) PROVE PluginInv'
  <2>1. x1' = Append(x1, t) /\ UNCHANGED <<x2, x3, x4, x5, x6>>
    BY <1>2 DEF Plugin!registerPluginType
  <2> QED BY <2>1 DEF PluginInv, PluginKinds
<1>3. ASSUME NEW p \in Plugins, Plugin!loadBuiltInPlugin(p), Plugin!Accepting(p) = 0 PROVE PluginInv'
  <2> DEFINE m == Len(x6)  no == <<p, FALSE>>  Replies == Plugins \X BOOLEAN
  <2>1. x6' = Append(x6, no) /\ UNCHANGED <<x1, x2, x3, x4, x5>>
    BY <1>3 DEF Plugin!loadBuiltInPlugin
  <2>2. x6 \in Seq(Replies) /\ m \in Nat /\ DOMAIN x6 = 1 .. m
    BY DEF PluginInv, PluginKinds
  <2>3. no \in Replies /\ ~no[2]
    OBVIOUS
  <2> HIDE DEF Replies, no
  <2>4. /\ x6' \in Seq(Replies) /\ DOMAIN x6' = 1 .. m + 1
        /\ x6'[m + 1] = no /\ \A k \in 1 .. m : x6'[k] = x6[k]
    BY <2>1, <2>2, <2>3
  <2> HIDE DEF m
  <2>5. ASSUME NEW k \in DOMAIN x6', x6'[k][2] PROVE k \in DOMAIN x6 /\ x6'[k] = x6[k]
    <3>1. k \in 1 .. m + 1 /\ k # m + 1
      BY <2>3, <2>4, <2>5
    <3>2. k \in 1 .. m
      BY <2>2, <3>1
    <3> QED BY <2>2, <2>4, <3>2
  <2>6. Answered(x4, x6')
    BY Zenon, <2>5 DEF PluginInv, Answered
  <2> QED BY <2>1, <2>4, <2>6 DEF PluginInv, PluginKinds, Replies
<1>4. ASSUME NEW p \in Plugins, Plugin!loadBuiltInPlugin(p), Plugin!Accepting(p) # 0 PROVE PluginInv'
  <2> DEFINE i == Plugin!Accepting(p)
             I == {j \in 1 .. Len(x1) : x1[j] \in TypesOf[p]}
  <2>1. x1 \in Seq(PluginTypes) /\ Len(x1) \in Nat
    BY DEF PluginInv, PluginKinds
  <2>2. i \in I
    <3>1. I # {} /\ i = Plugin!Min(I)
      BY <1>4 DEF Plugin!Accepting, Plugin!SelectInSeq
    <3>2. I \in SUBSET (1 .. Len(x1))
      OBVIOUS
    <3> HIDE DEF I, i
    <3> QED BY <2>1, <3>1, <3>2, FirstOf
  <2>3. x1[i] \in PluginTypes /\ x1[i] \in TypesOf[p]
    BY <2>1, <2>2
  <2>4. /\ UNCHANGED x1 /\ x4' = Append(x4, Plugin!Container(p, x1[i]))
        /\ x2' = [x2 EXCEPT ![x1[i]] = Append(x2[x1[i]], Len(x4) + 1)]
        /\ x3' = [x3 EXCEPT ![NameOf[p]] = Len(x4) + 1]
        /\ x5' = Append(x5, [plugin |-> p, type |-> x1[i]])
        /\ x6' = Append(x6, <<p, p \notin Failing>>)
    BY <1>4 DEF Plugin!loadBuiltInPlugin, Plugin!initPlugin
  <2> HIDE DEF i
  <2> QED BY Zenon, <2>3, <2>4, PluginLoaded, Booleans
<1> QED BY <1>1, <1>2, <1>3, <1>4 DEF Plugin!Next

\* What a two-way map knows are keys and values.
QtMapKept ==
  /\ DOMAIN x1 \subseteq QtKeys /\ \A k \in DOMAIN x1 : x1[k] \in QtVals
  /\ DOMAIN x2 \subseteq QtVals /\ \A v \in DOMAIN x2 : x2[v] \in QtKeys
  /\ x3 \in BOOLEAN

LEMMA QtMapKeptStart == QtMap!QInit => QtMapKept
<1> SUFFICES ASSUME QtMap!QInit PROVE QtMapKept
  OBVIOUS
<1>1. PICK pairs \in QtMap!Maps : /\ x1 = pairs /\ x2 \in QtMap!Lasts(pairs)
                                  /\ x3 = ~QtMap!IsInjective(pairs)
  BY DEF QtMap!QInit
<1>2. PICK S \in SUBSET QtKeys : pairs \in [S -> QtVals]
  BY DEF QtMap!Maps
<1>3. x2 \in [QtMap!Range(pairs) -> DOMAIN pairs]
  BY <1>1 DEF QtMap!Lasts
<1>4. QtMap!Range(pairs) \subseteq QtVals
  BY <1>2 DEF QtMap!Range
<1>5. x3 \in BOOLEAN
  BY <1>1
<1> QED BY <1>1, <1>2, <1>3, <1>4, <1>5 DEF QtMapKept

LEMMA QtMapKeptStep == QtMapKept /\ [QtMap!QNext]_serviceVars => QtMapKept'
<1> SUFFICES ASSUME QtMapKept, [QtMap!QNext]_serviceVars PROVE QtMapKept'
  OBVIOUS
<1>1. CASE UNCHANGED serviceVars
  BY <1>1 DEF serviceVars, QtMapKept
<1>2. ASSUME NEW k \in QtKeys, NEW v \in QtVals, QtMap!Insert(k, v) PROVE QtMapKept'
  <2>1. /\ x1' = [z \in DOMAIN x1 \cup {k} |-> IF z \in {k} THEN v ELSE x1[z]]
        /\ x2' = [z \in DOMAIN x2 \cup {v} |-> IF z \in {v} THEN k ELSE x2[z]]
        /\ x3' \in BOOLEAN
    BY <1>2 DEF QtMap!Insert, QtMap!With
  <2> QED BY <2>1 DEF QtMapKept
<1>3. ASSUME NEW k \in QtKeys, QtMap!QRemoveKey(k) PROVE QtMapKept'
  BY <1>3 DEF QtMapKept, QtMap!QRemoveKey, QtMap!Erase, QtMap!Restrict
<1>4. ASSUME NEW v \in QtVals, QtMap!QRemoveValue(v) PROVE QtMapKept'
  BY <1>4 DEF QtMapKept, QtMap!QRemoveValue, QtMap!Erase, QtMap!Restrict
<1>5. ASSUME QtMap!Clear PROVE QtMapKept'
  BY <1>5 DEF QtMapKept, QtMap!Clear, QtMap!Empty
<1> QED BY <1>1, <1>2, <1>3, <1>4, <1>5 DEF QtMap!QNext

LEMMA QtMapTypes == QtMapKept => QtMap!TypeOK
BY DEF QtMapKept, QtMap!TypeOK, QtMap!Range

\* A String has a value that it was given, or none.
WordKept == \A k \in DOMAIN x1 : x1[k] \in WordValues \cup {Nil}

LEMMA WordKeptStart == WordMap!Init => WordKept
BY DEF WordMap!Init, WordKept

LEMMA WordKeptStep == WordInv /\ WordKept /\ [WordMap!Next]_serviceVars => WordKept'
<1> SUFFICES ASSUME WordInv, WordKept, [WordMap!Next]_serviceVars PROVE WordKept'
  OBVIOUS
<1>1. CASE UNCHANGED serviceVars
  BY <1>1 DEF serviceVars, WordKept
<1>2. \A w : LET h == WordMap!Removed(w) IN \A z \in DOMAIN h : h[z] \in WordValues \cup {Nil}
  BY DEF WordKept, WordMap!Removed, WordMap!Without
<1>3. \A h, k, v :
        (\A z \in DOMAIN h : h[z] \in WordValues \cup {Nil}) /\ v \in WordValues \cup {Nil} =>
          \A z \in DOMAIN Spelt(h, k, v) : Spelt(h, k, v)[z] \in WordValues \cup {Nil}
  BY DEF Spelt
<1>4. ASSUME NEW k \in Spellings, NEW v \in WordValues, WordMap!insert(k, v) PROVE WordKept'
  <2>1. x1' = Spelt(WordMap!Removed(toLower[k]), k, v)
    BY <1>4 DEF WordMap!insert, WordMap!Put, Spelt
  <2> QED BY <1>2, <1>3, <2>1 DEF WordKept
<1>5. ASSUME NEW k \in Spellings, NEW v \in WordValues \cup {Nil}, WordMap!At(k, v) PROVE WordKept'
  <2> DEFINE respelt == toLower[k] \in DOMAIN x2 /\ k \notin DOMAIN x1
             old == IF k \in DOMAIN x1 THEN x1[k]
                    ELSE IF respelt THEN x1[x2[toLower[k]]] ELSE Nil
             new == IF v = Nil THEN old ELSE v
             h == IF respelt THEN WordMap!Removed(toLower[k]) ELSE x1
  <2>1. x1' = Spelt(h, k, new)
    BY <1>5 DEF WordMap!At, WordMap!Put, Spelt
  <2>2. old \in WordValues \cup {Nil}
    BY DEF WordKept, WordInv, Led
  <2>3. new \in WordValues \cup {Nil}
    BY <2>2
  <2>4. \A z \in DOMAIN h : h[z] \in WordValues \cup {Nil}
    BY <1>2 DEF WordKept
  <2> HIDE DEF h, new
  <2> QED BY <1>3, <2>1, <2>3, <2>4 DEF WordKept
<1>6. ASSUME NEW k \in Spellings,
             WordMap!takeSensitive(k) \/ WordMap!removeSensitive(k) \/ WordMap!removeInsensitive(k)
      PROVE  WordKept'
  <2>1. x1' = WordMap!Without(x1, k) \/ x1' = WordMap!Removed(toLower[k])
    BY <1>6 DEF WordMap!takeSensitive, WordMap!removeSensitive, WordMap!removeInsensitive
  <2> QED BY <1>2, <2>1 DEF WordKept, WordMap!Without
<1>7. ASSUME WordMap!clear PROVE WordKept'
  BY <1>7 DEF WordMap!clear, WordKept
<1> QED BY <1>1, <1>4, <1>5, <1>6, <1>7 DEF WordMap!Next

LEMMA WordTypesOK == WordInv /\ WordKept => WordMap!TypeOK
BY DEF WordInv, WordTypes, WordKept, WordMap!TypeOK, WordMap!Range

LEMMA PluginTypesOK == PluginInv => Plugin!TypeOK
<1> SUFFICES ASSUME PluginInv PROVE Plugin!TypeOK
  OBVIOUS
<1>1. Plugin!Range(x1) \subseteq PluginTypes
  BY DEF PluginInv, PluginKinds, Plugin!Range
<1>2. \A t \in PluginTypes : Plugin!Range(x2[t]) \subseteq DOMAIN x4
  BY DEF PluginInv, Listed, Plugin!Range
<1>3. DOMAIN x4 = 1 .. Len(x4) /\ Len(x4) \in Nat
  BY DEF PluginInv, PluginKinds
<1>4. x3 \in [Names -> 0 .. Len(x4)]
  <2>1. ASSUME NEW n \in Names PROVE x3[n] \in 0 .. Len(x4)
    BY <1>3 DEF PluginInv, PluginKinds, Newest
  <2>2. x3 \in [Names -> Nat]
    BY DEF PluginInv, PluginKinds
  <2> QED BY <2>1, <2>2
<1> QED BY <1>1, <1>2, <1>4 DEF Plugin!TypeOK

-----------------------------------------------------------------------------
(* Types, where they are not among the invariants above.                    *)

\* The server listens or not, and lets go of connections only.
ServerKept == phases \in {"Unconnected", "Listening"} /\ released \subseteq Connections

LEMMA ServerKeptStart == Server!Init => ServerKept
BY DEF Server!Init, ServerKept

LEMMA ServerKeptStep == ServerKept /\ [Server!Next]_serverVars => ServerKept'
<1> SUFFICES ASSUME ServerKept, [Server!Next]_serverVars PROVE ServerKept'
  OBVIOUS
<1>1. CASE UNCHANGED serverVars
  BY <1>1 DEF serverVars, ServerKept
<1>2. CASE Server!Listen
  BY <1>2 DEF Server!Listen, Server!connectionVars, ServerKept
<1>3. ASSUME NEW c \in Connections,
             \/ Server!OnAccept(c) \/ Server!OnHeadersComplete(c) \/ Server!OnUpgrade(c)
             \/ Server!OnMessageComplete(c) \/ Server!OnClose(c)
      PROVE  ServerKept'
  <2>1. UNCHANGED phases
    BY <1>3 DEF Server!OnAccept, Server!OnHeadersComplete, Server!OnUpgrade,
       Server!OnMessageComplete, Server!OnClose
  <2>2. released' \subseteq released \cup {c}
    BY <1>3 DEF Server!OnAccept, Server!OnHeadersComplete, Server!OnUpgrade,
       Server!OnMessageComplete, Server!OnClose
  <2> QED BY <2>1, <2>2 DEF ServerKept
<1> QED BY <1>1, <1>2, <1>3 DEF Server!Next

LEMMA ServerTypes == ServerInv /\ ServerKept => Server!TypeOK
<1> SUFFICES ASSUME ServerInv, ServerKept PROVE Server!TypeOK
  OBVIOUS
<1>1. contexts \subseteq Connections
  BY DEF ServerInv, ServerTyped, HandshakeIsSound, Server!HandshakeIsSound
<1> QED BY <1>1 DEF ServerInv, ServerTyped, ServerKept, Server!TypeOK

LEMMA ButtonKinds == ButtonInv => SystemButtons!TypeOK
<1> SUFFICES ASSUME ButtonInv PROVE SystemButtons!TypeOK
  OBVIOUS
<1> DEFINE first == [hoverColor |-> grey, pressColor |-> grey, normalColor |-> white,
                     activeForegroundColor |-> NoColor, inactiveForegroundColor |-> NoColor]
           firsts == {first[f] : f \in SystemButtons!AllFields}
<1>1. /\ x1.buttonType \in ButtonTypes /\ x4 \subseteq {"timer", "leave"}
      /\ x1.color \in [SystemButtons!AllFields -> ButtonColors \cup {grey, white, NoColor}]
  BY DEF ButtonInv, ButtonTypesOK
<1>2. {grey, white} \subseteq firsts
  <2>1. first["hoverColor"] = grey /\ first["normalColor"] = white
    OBVIOUS
  <2>2. {"hoverColor", "normalColor"} \subseteq SystemButtons!AllFields
    BY DEF SystemButtons!AllFields
  <2> QED BY <2>1, <2>2
<1> HIDE DEF firsts
<1>3. x1.color \in [SystemButtons!AllFields -> ButtonColors \cup {NoColor} \cup firsts]
  BY <1>1, <1>2
<1> QED BY <1>1, <1>3 DEF SystemButtons!TypeOK, firsts

LEMMA BarKinds == BarInv => TitleBars!TypeOK
BY DEF BarInv, BarTypes, BarPlaces, TitleBars!TypeOK, TitleBars!Places, TitleBars!ActsOnItsWindow

LEMMA MenuTypes == MenuInv => Menu!TypeOK
BY DEF MenuInv, Menu!TypeOK

LEMMA ConfigTypes == ConfigInv => Config!TypeOK
BY DEF ConfigInv, ConfigTyped, Config!TypeOK

LEMMA DragTypes == DragInv => Drag!TypeOK
BY DEF DragInv, DragTyped, DragData, Drag!TypeOK

-----------------------------------------------------------------------------
(* The parts together: a step of one is a stutter of the others, so that    *)
(* what the steps of each keep always holds.                                *)

LEMMA PartStart ==
  PartInit =>
    /\ Config!Init /\ Messages!Init /\ Init /\ Drag!Init /\ Mouse!Init /\ Style!Init
    /\ Json!Init /\ StringList!Init /\ Address!Init /\ Server!Init /\ trial = <<>>
  BY DEF PartInit, ValueInit

LEMMA ServiceStart ==
  PartInit =>
    /\ part = "levels" => LevelSettings!Init
    /\ part = "application" => Application!Init
    /\ part = "plugins" => Plugin!Init
    /\ part = "qtMap" => QtMap!QInit
    /\ part = "words" => WordMap!Init
    /\ part = "loader" => Loader!Init
    /\ part = "file" => File!Init
    /\ part = "button" => SystemButtons!Init
    /\ part = "bar" => TitleBars!Init
    /\ part = "menu" => Menu!Init
  BY DEF PartInit, ServiceInit, Services

LEMMA PartStep ==
  [PartNext]_allVars =>
    /\ UNCHANGED part
    /\ [Config!Next]_configVars /\ [Messages!Next]_messageVars /\ [Next]_vars
    /\ [Drag!Next]_dragVars /\ [Mouse!Next]_mouseVars /\ [Style!Next]_styleVars
    /\ [Json!Next]_jsonVars /\ [StringList!Next]_stringListVars /\ [Address!Next]_addressVars
    /\ [Server!Next]_serverVars /\ [TrialNext]_trial
<1> SUFFICES ASSUME [PartNext]_allVars
             PROVE  /\ UNCHANGED part
                    /\ [Config!Next]_configVars /\ [Messages!Next]_messageVars /\ [Next]_vars
                    /\ [Drag!Next]_dragVars /\ [Mouse!Next]_mouseVars /\ [Style!Next]_styleVars
                    /\ [Json!Next]_jsonVars /\ [StringList!Next]_stringListVars
                    /\ [Address!Next]_addressVars
                    /\ [Server!Next]_serverVars /\ [TrialNext]_trial
  OBVIOUS
<1>1. CASE UNCHANGED allVars
  BY <1>1 DEF allVars, valueVars
<1>2. CASE PartNext
  BY <1>2 DEF PartNext, QtVars, valueVars, JsonNext, StringListNext, AddressNext, ServerNext,
     Sha1Next, FunctionNext
<1> QED BY <1>1, <1>2

LEMMA ServiceStep ==
  [PartNext]_allVars =>
    /\ part = "levels" => [LevelSettings!Next]_serviceVars
    /\ part = "application" => [Application!Next]_serviceVars
    /\ part = "plugins" => [Plugin!Next]_serviceVars
    /\ part = "qtMap" => [QtMap!QNext]_serviceVars
    /\ part = "words" => [WordMap!Next]_serviceVars
    /\ part = "loader" => [Loader!Next]_serviceVars
    /\ part = "file" => [File!Next]_serviceVars
    /\ part = "button" => [SystemButtons!Next]_serviceVars
    /\ part = "bar" => [TitleBars!Next]_serviceVars
    /\ part = "menu" => [Menu!Next]_serviceVars
<1> SUFFICES ASSUME PartNext, ~UNCHANGED serviceVars PROVE ServiceNext(part)
  BY Zenon DEF allVars, ServiceNext
<1> QED BY DEF PartNext

LEMMA WindowsHold == PartSpec => []WindowsInv
<1>1. PartInit => WindowsInv
  BY PartStart, WindowsStart
<1>2. WindowsInv /\ [PartNext]_allVars => WindowsInv'
  BY PartStep, WindowsStep
<1> QED BY <1>1, <1>2, PTL DEF PartSpec

LEMMA ConfigHolds == PartSpec => []ConfigInv
<1>1. PartInit => ConfigInv
  BY PartStart, ConfigStart
<1>2. ConfigInv /\ [PartNext]_allVars => ConfigInv'
  BY PartStep, ConfigStep, ConfigStill
<1> QED BY <1>1, <1>2, PTL DEF PartSpec

LEMMA DragHolds == PartSpec => []DragInv
<1>1. PartInit => DragInv
  BY PartStart, DragStart
<1>2. DragInv /\ [PartNext]_allVars => DragInv'
  BY PartStep, DragStep, DragStill
<1> QED BY <1>1, <1>2, PTL DEF PartSpec

LEMMA MouseHolds == PartSpec => []MouseInv
<1>1. PartInit => MouseInv
  BY PartStart, MouseStart
<1>2. MouseInv /\ [PartNext]_allVars => MouseInv'
  BY PartStep, MouseStep
<1> QED BY <1>1, <1>2, PTL DEF PartSpec

LEMMA MessagesHold == PartSpec => []MessageInv
<1>1. PartInit => MessageInv
  BY PartStart, MessageStart
<1>2. MessageInv /\ [PartNext]_allVars => MessageInv'
  BY PartStep, MessageOrder
<1> QED BY <1>1, <1>2, PTL DEF PartSpec

LEMMA ServerHolds == PartSpec => [](ServerInv /\ ServerKept)
<1>1. PartInit => ServerInv /\ ServerKept
  BY PartStart, ServerStart, ServerKeptStart
<1>2. ServerInv /\ ServerKept /\ [PartNext]_allVars => ServerInv' /\ ServerKept'
  BY PartStep, ServerStep, ServerStill, ServerKeptStep
<1> QED BY <1>1, <1>2, PTL DEF PartSpec

\* What holds of the parts that share.
SharedInv == TreeKept /\ ListKept /\ AddressInv

LEMMA SharedHolds == PartSpec => []SharedInv
<1>1. PartInit => SharedInv
  BY PartStart, TreeBegins, ListStart, AddressStart DEF SharedInv
<1>2. SharedInv /\ [PartNext]_allVars => SharedInv'
  <2> SUFFICES ASSUME SharedInv, [PartNext]_allVars PROVE SharedInv'
    OBVIOUS
  <2>1. TreeKept'
    BY PartStep, TreeKeeps DEF SharedInv
  <2>2. ListKept'
    BY PartStep, ListKeeps DEF SharedInv, stringListVars, StringList!vars
  <2>3. AddressInv'
    BY PartStep, AddressStep DEF SharedInv
  <2> QED BY <2>1, <2>2, <2>3 DEF SharedInv
<1> QED BY <1>1, <1>2, PTL DEF PartSpec

\* What holds of the parts that a user sees.
LookInv ==
  /\ StyleInv /\ TrialInv
  /\ part = "bar" => BarInv
  /\ part = "button" => ButtonInv
  /\ part = "menu" => MenuInv

LEMMA LookHolds == PartSpec => []LookInv
<1>1. PartInit => LookInv
  BY PartStart, ServiceStart, StyleStart, BarStart, ButtonStart, MenuStart DEF LookInv, TrialInv
<1>2. LookInv /\ [PartNext]_allVars => LookInv'
  <2> SUFFICES ASSUME LookInv, [PartNext]_allVars PROVE LookInv'
    OBVIOUS
  <2>1. StyleInv' /\ TrialInv' /\ UNCHANGED part
    BY PartStep, StyleStep, TrialStep DEF LookInv
  <2>2. CASE part = "bar"
    BY <2>1, <2>2, ServiceStep, BarStep DEF LookInv
  <2>3. CASE part = "button"
    <3>1. Fields \subseteq SystemButtons!AllFields
      BY ServiceAssumption DEF SystemButtons!ButtonAssumption
    <3> QED BY <2>1, <2>3, <3>1, ServiceStep, ButtonStep DEF LookInv
  <2>4. CASE part = "menu"
    BY <2>1, <2>4, ServiceStep, MenuStep DEF LookInv
  <2> QED BY <2>1, <2>2, <2>3, <2>4 DEF LookInv
<1> QED BY <1>1, <1>2, PTL DEF PartSpec

\* What holds of the parts that store the same in two ways.
StoresInv ==
  /\ part = "file" => FileInv
  /\ part = "plugins" => PluginInv
  /\ part = "words" => WordInv /\ WordKept
  /\ part = "qtMap" => QtMapKept
  /\ part = "loader" => LoaderInv

LEMMA StoresHold == PartSpec => []StoresInv
<1>1. PartInit => StoresInv
  BY ServiceStart, FileStart, PluginStart, WordStart, WordKeptStart,
     QtMapKeptStart, LoaderStart DEF StoresInv
<1>2. StoresInv /\ [PartNext]_allVars => StoresInv'
  <2> SUFFICES ASSUME StoresInv, [PartNext]_allVars PROVE StoresInv'
    OBVIOUS
  <2>1. UNCHANGED part
    BY PartStep
  <2>2. part = "file" => FileInv'
    BY ServiceStep, FileStep DEF StoresInv
  <2>3. part = "plugins" => PluginInv'
    BY ServiceStep, PluginStep DEF StoresInv
  <2>4. part = "words" => WordInv' /\ WordKept'
    BY ServiceStep, WordStep, WordKeptStep DEF StoresInv
  <2>5. part = "qtMap" => QtMapKept'
    BY ServiceStep, QtMapKeptStep DEF StoresInv
  <2>6. part = "loader" => LoaderInv'
    BY ServiceStep, LoaderStep DEF StoresInv
  <2> QED BY <2>1, <2>2, <2>3, <2>4, <2>5, <2>6 DEF StoresInv
<1> QED BY <1>1, <1>2, PTL DEF PartSpec

\* What holds of the services that have to deliver.
ServedInv ==
  /\ part = "levels" => LevelInv
  /\ part = "application" => AppInv

LEMMA ServedHolds == PartSpec => []ServedInv
<1>1. PartInit => ServedInv
  BY ServiceStart, LevelStart, AppStart DEF ServedInv
<1>2. ServedInv /\ [PartNext]_allVars => ServedInv'
  <2> SUFFICES ASSUME ServedInv, [PartNext]_allVars PROVE ServedInv'
    OBVIOUS
  <2>1. UNCHANGED part
    BY PartStep
  <2>2. part = "levels" => LevelInv'
    BY ServiceStep, LevelStep DEF ServedInv
  <2>3. part = "application" => AppInv'
    BY ServiceStep, AppStep DEF ServedInv
  <2> QED BY <2>1, <2>2, <2>3 DEF ServedInv
<1> QED BY <1>1, <1>2, PTL DEF PartSpec

-----------------------------------------------------------------------------
(* What the parts promise.                                                  *)

\* A message of one window is never taken for another's, whatever ids are
\* used again, for any number of windows and ids, nested in any way
\* (qframelessmanager.cpp:193-212, 275-301).
THEOREM MapsAlwaysAgree == PartSpec => []MapsAgree
<1>1. WindowsInv => MapsAgree
  BY DEF WindowsInv
<1> QED BY <1>1, WindowsHold, PTL

\* A hooked window has somebody to pass its messages on to
\* (qframelesshelper_win.cpp:428-452, 582-654).
THEOREM HookAlwaysForwards == PartSpec => []HookForwards
<1>1. WindowsInv => HookForwards
  BY DEF WindowsInv
<1> QED BY <1>1, WindowsHold, PTL

\* A connection's context lives as long as the connection, it is a WebSocket only after the
\* answer 101 to a GET for version 13 that lists the tokens, and any other answer lets go of
\* it, for any number of connections and any requests in any order. That the request has a
\* Host and a key is not said: it has not (scwebsocketserver_hp.cpp:89-110, 146-245).
THEOREM Handshakes == PartSpec => []HandshakeIsSound
<1>1. ServerInv => HandshakeIsSound
  BY DEF ServerInv
<1> QED BY <1>1, ServerHolds, PTL

\* An entry of the configuration shows what a restarted program would read, and its
\* transaction can restore just that, through any calls on entries, categories and mains,
\* with statements that fail, mass saves and restarts (qconfigentry.cpp:46-140).
THEOREM EntriesAgree == PartSpec => []Config!CacheAgreesWithStore
<1>1. ConfigInv => Config!CacheAgreesWithStore
  BY ConfigPromises
<1> QED BY <1>1, ConfigHolds, PTL

\* Nothing of a transaction reaches the row (qconfigentry.cpp:71).
THEOREM RowsAreKept == PartSpec => TransactionKeepsRow
<1>1. ConfigInv /\ [PartNext]_allVars => [Rows]_(Config!vars)
  BY PartStep, RowsOfNext DEF configVars, Config!vars
<1> QED BY <1>1, ConfigHolds, PTL DEF PartSpec, TransactionKeepsRow, Config!TransactionKeepsRow, Rows

\* A title bar acts on its own window, a button shows its state or will, a system menu offers
\* what its window allows, a label has room, and borders, margins and title bars are what the
\* style and the window's state ask for, for any windows and containers, styles, buttons,
\* colours and sizes (qwidgetscontainer.cpp:185-295, qstandardtitlebar.cpp:17-65, 277-284,
\* 323-443, qsystembutton.cpp:106-358, qframelesshelper_win.cpp:308-426, 1140-1149).
THEOREM LooksFollowStyles == PartSpec => []LookFollowsStyle
<1>1. LookInv => LookFollowsStyle
  BY StylePromises, TrialPromises DEF LookInv, LookFollowsStyle, BarInv, ButtonInv, MenuInv
<1> QED BY <1>1, LookHolds, PTL

\* No drag of a window goes on without the button, whatever events are on their way and
\* however many filters see them (qframelesshelper_unix.cpp:140-199).
THEOREM DragsEnd == PartSpec => []NoStuckDrag
<1>1. DragInv => NoStuckDrag
  BY DragPromises DEF NoStuckDrag
<1> QED BY <1>1, DragHolds, PTL

\* When all messages are dealt with, the button under the pointer is lit and none behind a
\* pointer that has left it, for any window, title bar and buttons, whatever way the pointer
\* goes and however the window changes below it (qframelesshelper_win.cpp:1115-1208).
THEOREM PointerFollowed == PartSpec => []HoverFollows
<1>1. MouseInv => HoverFollows
  BY MousePromises DEF HoverFollows
<1> QED BY <1>1, MouseHolds, PTL

\* The recent messages are in the order in which they were sent, though threads append to
\* the list and shorten it at the same time, for any number of threads, messages and limits
\* (qnotifymanager.cpp:26-35).
THEOREM RecentIsOrdered ==
  PartSpec => [](\A i, j \in DOMAIN recent : i < j => recent[i] < recent[j])
<1>1. MessageInv => \A i, j \in DOMAIN recent : i < j => recent[i] < recent[j]
  <2>1. ASSUME MessageInv PROVE recent \in Seq(Nat) /\ DOMAIN recent = 1 .. Len(recent)
    BY <2>1 DEF MessageInv, MessagesOrdered, Ascending
  <2> QED BY <2>1 DEF MessageInv, MessagesOrdered, Ascending
<1> QED BY <1>1, MessagesHold, PTL

\* With two threads that notify, the recent messages are not too many either when all calls
\* have returned; a callback gets the messages of a synchronous logger that the level lets
\* through, in the pattern and with the names asked for, whatever the order of the builder's calls; and an
\* application ends for a reason, the console's handler after its window
\* (qnotifymanager.cpp:26-35, scloggerfactorybuilder.cpp:26-104, sclogger_p.cpp:43-167,
\* scapplication_linux.cpp:44-103, scapplication_win.cpp:26-126).
THEOREM MessagesAlwaysArrive == TwoNotifiers => (PartSpec => []MessagesArrive)
<1> SUFFICES ASSUME TwoNotifiers PROVE PartSpec => []MessagesArrive
  OBVIOUS
<1>1. PartInit => BoundedInv
  BY PartStart, MessageStart
<1>2. MessageInv /\ MessageInv' /\ BoundedInv /\ [PartNext]_allVars => BoundedInv'
  BY PartStep, MessageBound
<1>3. MessageInv /\ BoundedInv /\ ServedInv => MessagesArrive
  BY MessagePromises, LevelPromises, AppPromises DEF ServedInv, MessagesArrive
<1> QED BY <1>1, <1>2, <1>3, MessagesHold, ServedHolds, PTL DEF PartSpec

\* Every list of strings, container of JSON and address shows what its own calls gave it,
\* what is shared counts its users, and a container is right about its size, for any number
\* of lists, holders and addresses that copy, move, assign, change and destroy what they
\* share, until a call on a list is undefined or a document is copied
\* (scstringlist.cpp:36-127, scjson_p.cpp:406-424, scjsonarray.cpp:26-109,
\* schostaddress.cpp:86-134, 225-253).
THEOREM CopiesStayTheirOwn == PartSpec => []CopiesAreTheirOwn
<1>1. SharedInv => CopiesAreTheirOwn
  BY TreePromises, ListPromises, AddressPromises DEF SharedInv, CopiesAreTheirOwn
<1> QED BY <1>1, SharedHolds, PTL

\* An entry shows what a restarted program would read, and its rows survive the next start; a
\* plugin is in the list of its type, in the order in which loading was told of, and found by
\* its name if no other has it; a word has one spelling; and a symbol is of its library, for
\* any calls in any order (qconfigentry.cpp:46-140, qconfiguration_p.cpp:57-167,
\* qpluginmanager_p.cpp:81-116, qstringhash.h:58-158, qsysapiloader.cpp:45-113).
THEOREM StoresAlwaysAgree == PartSpec => []StoresAgree
<1>1. ConfigInv /\ StoresInv => StoresAgree
  BY ConfigPromises, FilePromises, PluginPromises, WordPromises, LoaderPromises
  DEF StoresInv, StoresAgree
<1> QED BY <1>1, ConfigHolds, StoresHold, PTL

\* Every variable of the part in use keeps its type, whatever part it is, for any values of
\* the constants (the parts' types at the lines of each module).
THEOREM TypesAreKept == PartSpec => []TypesOK
<1> DEFINE All ==
      /\ WindowsInv /\ ConfigInv /\ DragInv /\ MouseInv /\ MessageInv /\ ServerInv /\ ServerKept
      /\ SharedInv /\ LookInv /\ StoresInv /\ ServedInv
<1>1. ASSUME All PROVE TypesOK
  <2>1. /\ Config!TypeOK /\ Messages!TypeOK /\ TypeOK /\ Mouse!TypeOK /\ Drag!TypeOK /\ Style!TypeOK
    BY <1>1, ConfigTypes, MessageTyped, MousePromises, DragTypes, StylePromises DEF WindowsInv, LookInv
  <2>2. /\ Json!TypeOK /\ StringList!TypeOK /\ Address!TypeOK /\ Server!TypeOK
    BY <1>1, TreePromises, ListPromises, AddressPromises, ServerTypes DEF SharedInv
  <2>3. /\ part = "levels" => LevelSettings!TypeOK
        /\ part = "application" => Application!TypeOK
        /\ part = "plugins" => Plugin!TypeOK
        /\ part = "qtMap" => QtMap!TypeOK
        /\ part = "words" => WordMap!TypeOK
        /\ part = "file" => File!TypeOK
    BY <1>1, LevelPromises, AppPromises, PluginTypesOK, QtMapTypes, WordTypesOK, FilePromises
    DEF ServedInv, StoresInv
  <2>4. /\ part = "button" => SystemButtons!TypeOK
        /\ part = "bar" => TitleBars!TypeOK
        /\ part = "menu" => Menu!TypeOK
    BY <1>1, ButtonKinds, BarKinds, MenuTypes DEF LookInv
  <2>5. part \in Services => ServiceTypeOK(part)
    BY <2>3, <2>4 DEF Services, ServiceTypeOK
  <2> QED BY <2>1, <2>2, <2>5 DEF TypesOK
<1> HIDE DEF All
<1>2. WindowsInv /\ ConfigInv /\ DragInv /\ MouseInv /\ MessageInv /\ ServerInv /\ ServerKept
        /\ SharedInv /\ LookInv /\ StoresInv /\ ServedInv => All
  BY DEF All
<1> QED BY <1>1, <1>2, WindowsHold, ConfigHolds, DragHolds, MouseHolds, MessagesHold, ServerHolds,
           SharedHolds, LookHolds, StoresHold, ServedHolds, PTL
=============================================================================
