------------------------- MODULE QFramelessWindows -------------------------
(***************************************************************************)
(* The windows without a frame, as built for Windows: the helper of a      *)
(* window attaches to it and detaches from it, QFramelessManager keeps the *)
(* data of the attached windows by window and by native id, and each       *)
(* native window has a procedure that the helper replaces by a hook.       *)
(*                                                                         *)
(* A helper is the child of its window and is named by it. Qt gives a      *)
(* window a new native id whenever it has to create it again, and the      *)
(* system uses the ids of destroyed native windows again.                  *)
(***************************************************************************)
EXTENDS Naturals, FiniteSets

CONSTANTS Windows,      \* top-level QWidgets
          Inside,       \* Inside[w]: the windows among w's descendants
          Ids,          \* native ids (HWND)
          None

VARIABLES nid,          \* internalWinId() of each window
          procedure,    \* GWLP_WNDPROC of each native window, None if there is none
          helpers,      \* the windows that own a QFramelessHelper
          attached,     \* the helpers whose d->window is set
          dataMap,      \* QFramelessManager: QFramelessData by window
          windowMap     \* QFramelessManager: window by id

vars == <<nid, procedure, helpers, attached, dataMap, windowMap>>

Procedures == {"qt", "hook"}

Data == [windowId : Ids, isFrameless : BOOLEAN, callbacks : BOOLEAN,
         handler : BOOLEAN,        \* internalEventHandler is installed
         qtWindowProc : Procedures \cup {None}, windowProcHooked : BOOLEAN]

ASSUME WindowsAssumption ==
  /\ Inside \in [Windows -> SUBSET Windows]
  /\ None \notin Windows /\ None \notin Ids /\ None \notin Procedures /\ None \notin Data
  /\ Cardinality(Windows) < Cardinality(Ids)

\* Every variable has its type; a window has data only by its own helper
\* (qframelessmanager.cpp:32-42, qframelesshelper_win.cpp:96-103).
TypeOK ==
  /\ nid \in [Windows -> Ids \cup {None}]
  /\ procedure \in [Ids -> Procedures \cup {None}]
  /\ helpers \subseteq Windows /\ attached \subseteq helpers
  /\ dataMap \in [Windows -> Data \cup {None}]
  /\ windowMap \in [Ids -> Windows \cup {None}]
  /\ \A w \in Windows : w \in attached <=> dataMap[w] # None

Init ==
  /\ nid = [w \in Windows |-> None]
  /\ procedure = [i \in Ids |-> None]
  /\ helpers = {} /\ attached = {}
  /\ dataMap = [w \in Windows |-> None]
  /\ windowMap = [i \in Ids |-> None]

-----------------------------------------------------------------------------
(* QFramelessManager                                                        *)

NewData(id) ==
  [windowId |-> id, isFrameless |-> FALSE, callbacks |-> FALSE, handler |-> FALSE,
   qtWindowProc |-> None, windowProcHooked |-> FALSE]

\* create(): the data of a window that may have some already.
DataOf(w, id) == IF dataMap[w] = None THEN NewData(id) ELSE dataMap[w]

AddWindow(data) == [data EXCEPT !.handler = TRUE]

MapOfCreate(w, id) ==
  IF dataMap[w] = None THEN [windowMap EXCEPT ![id] = w] ELSE windowMap

MapOfUpdateFault(w, old, new) == [windowMap EXCEPT ![new] = w]

MapOfUpdate(w, old, new) == [windowMap EXCEPT ![old] = None, ![new] = w]

-----------------------------------------------------------------------------
(* The hook of the native window                                            *)

\* installWindowProcHook(): what was saved or hooked once is not looked at again.
Saved(data, procs) ==
  IF data.qtWindowProc = None THEN procs[data.windowId] ELSE data.qtWindowProc

Install(data, procs) ==
  IF data.windowProcHooked THEN procs ELSE [procs EXCEPT ![data.windowId] = "hook"]

UninstallFault(data) == [procedure EXCEPT ![data.windowId] = "hook"]

Uninstall(data) == [procedure EXCEPT ![data.windowId] = data.qtWindowProc]

\* setupFramelessWindow() of a window that has its callbacks and its handle.
Setup(data, procs) ==
  [data EXCEPT !.qtWindowProc = Saved(data, procs), !.windowProcHooked = TRUE, !.isFrameless = TRUE]

-----------------------------------------------------------------------------
(* Clients                                                                  *)

\* winId() creates the native window if need be.
Created(w, id) ==
  IF nid[w] # None THEN id = nid[w] ELSE procedure[id] = None

\* instance(w): w's own helper, or the helper of a window inside w, or a new one.
Instance(w) ==
  IF w \in helpers THEN {w}
  ELSE IF Inside[w] \cap helpers # {} THEN Inside[w] \cap helpers
  ELSE {w}

IsExtended(h) == h \in attached /\ dataMap[h] # None /\ dataMap[h].isFrameless

Attach(h) ==
  /\ h \notin attached
  /\ \E id \in Ids :
       /\ Created(h, id)
       /\ nid' = [nid EXCEPT ![h] = id]
       /\ LET procs == [procedure EXCEPT ![id] = IF @ = None THEN "qt" ELSE @]
              data  == AddWindow([DataOf(h, id) EXCEPT !.callbacks = TRUE])
          IN  /\ dataMap' = [dataMap EXCEPT ![h] = Setup(data, procs)]
              /\ procedure' = Install(data, procs)
              /\ windowMap' = MapOfCreate(h, id)
  /\ attached' = attached \cup {h}

Detach(h) ==
  /\ h \in attached
  /\ procedure' = IF dataMap[h].isFrameless THEN Uninstall(dataMap[h]) ELSE procedure
  /\ windowMap' = [windowMap EXCEPT ![dataMap[h].windowId] = None]
  /\ dataMap' = [dataMap EXCEPT ![h] = None]
  /\ attached' = attached \ {h}
  /\ UNCHANGED nid

\* instance(w)->extends(on).
Extends(w, on) ==
  \E h \in Instance(w) :
    /\ helpers' = helpers \cup {h}
    /\ IF IsExtended(h) = on THEN UNCHANGED <<nid, procedure, attached, dataMap, windowMap>>
       ELSE IF on THEN Attach(h) ELSE Detach(h)

-----------------------------------------------------------------------------
(* Qt                                                                       *)

\* The window is shown for the first time.
Show(w) ==
  /\ nid[w] = None
  /\ \E id \in Ids :
       /\ procedure[id] = None
       /\ nid' = [nid EXCEPT ![w] = id]
       /\ procedure' = [procedure EXCEPT ![id] = "qt"]
  /\ UNCHANGED <<helpers, attached, dataMap, windowMap>>

\* Qt destroys the native window and creates another, and tells the event
\* filter of QFramelessManager, which calls updateWindowId().
WinIdChange(w) ==
  /\ nid[w] # None
  /\ \E id \in Ids :
       /\ procedure[id] = None \/ id = nid[w]
       /\ nid' = [nid EXCEPT ![w] = id]
       /\ LET procs == [procedure EXCEPT ![nid[w]] = None, ![id] = "qt"]
          IN  IF dataMap[w] = None \/ ~dataMap[w].handler \/ ~dataMap[w].isFrameless
              THEN /\ procedure' = procs
                   /\ UNCHANGED <<dataMap, windowMap>>
              ELSE LET data == AddWindow([dataMap[w] EXCEPT !.windowId = id, !.isFrameless = FALSE])
                   IN  /\ windowMap' = MapOfUpdate(w, dataMap[w].windowId, id)
                       /\ dataMap' = [dataMap EXCEPT ![w] = Setup(data, procs)]
                       /\ procedure' = Install(data, procs)
  /\ UNCHANGED <<helpers, attached>>

Next ==
  \/ \E w \in Windows, on \in BOOLEAN : Extends(w, on)
  \/ \E w \in Windows : Show(w)
  \/ \E w \in Windows : WinIdChange(w)

Spec == Init /\ [][Next]_vars

-----------------------------------------------------------------------------
(* Properties                                                               *)

\* The two maps are inverse to each other and hold the ids the windows have
\* now, although ids change and are used again (qframelessmanager.cpp:193-212,
\* 275-301): a message of one window is never taken for another's.
MapsAgree ==
  /\ \A w \in Windows :
       dataMap[w] # None => dataMap[w].windowId = nid[w] /\ windowMap[nid[w]] = w
  /\ \A i \in Ids : windowMap[i] # None => dataMap[windowMap[i]] # None /\ nid[windowMap[i]] = i

\* A hooked native window can pass its messages on: its id leads to data that
\* saved Qt's procedure, never the hook's own; and nothing is left hooked that
\* a helper gave up (qframelesshelper_win.cpp:428-452, 582-654).
HookForwards ==
  /\ \A i \in Ids :
       procedure[i] = "hook" =>
         /\ windowMap[i] # None
         /\ dataMap[windowMap[i]].isFrameless
         /\ dataMap[windowMap[i]].qtWindowProc = "qt"
  /\ \A w \in Windows : dataMap[w] # None => dataMap[w].qtWindowProc # "hook"

=============================================================================
