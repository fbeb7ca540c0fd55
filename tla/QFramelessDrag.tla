--------------------------- MODULE QFramelessDrag ---------------------------
(***************************************************************************)
(* The mouse over a window without a frame, as built for Linux: the event  *)
(* filter of QFramelessHelperUnix, from                                    *)
(*   src/src/QtFrameless/src/utils/qframelesshelper_unix.cpp               *)
(*                                                                         *)
(* A movement with the left button pressed in the title bar hands the drag *)
(* to the window manager, which keeps the release of the button to itself, *)
(* so that startSystemMove() posts a release of its own making.            *)
(*                                                                         *)
(* The user, the window manager and Qt's two queues are external: Qt hands *)
(* out what the program posted before what the user does next, and the     *)
(* user does not press again before the last press was retrieved. Every    *)
(* time a helper attaches to the window it installs another filter, and    *)
(* none is ever removed.                                                   *)
(***************************************************************************)
EXTENDS Naturals, Sequences

CONSTANTS MaxFilters,    \* bound of the filters installed
          MaxQueue       \* bound of each queue

DragAssumption == MaxFilters \in Nat /\ MaxQueue \in Nat

VARIABLES data,          \* QFramelessDataUnix, NoData if the helper is detached
          filters,       \* event filters on the window
          isWindowFixedSize,
          windowState,
          cursor,        \* whether the window was given a cursor
          down,          \* the user presses the left button
          moving,        \* the window manager moves the window
          input,         \* events of the window system
          posted         \* events posted by the program

vars == <<data, filters, isWindowFixedSize, windowState, cursor, down, moving, input, posted>>

NoData == [isCursorShapeChanged |-> FALSE, isLeftButtonPressed |-> FALSE, attached |-> FALSE]
NewData == [NoData EXCEPT !.attached = TRUE]

\* Where the pointer is: the title bar, a part of it that asks to be left
\* alone, the frame for resizing, or elsewhere.
Places == {"title", "ignored", "frame", "client"}
Event == [type : {"press", "dblclick", "release", "move"}, at : Places]

\* Every variable has its type (qframelesshelper_unix.cpp:9-26).
TypeOK ==
  /\ data \in [isCursorShapeChanged : BOOLEAN, isLeftButtonPressed : BOOLEAN, attached : BOOLEAN]
  /\ filters \in 0..MaxFilters
  /\ isWindowFixedSize \in BOOLEAN /\ windowState \in {"normal", "maximized"}
  /\ cursor \in BOOLEAN /\ down \in BOOLEAN /\ moving \in BOOLEAN
  /\ input \in Seq(Event) /\ posted \in Seq(Event)

Init ==
  /\ data = NoData /\ filters = 0
  /\ isWindowFixedSize \in BOOLEAN /\ windowState = "normal"
  /\ cursor = FALSE /\ down = FALSE /\ moving = FALSE
  /\ input = <<>> /\ posted = <<>>

-----------------------------------------------------------------------------
(* eventFilter(): the data, the window and whether the event ends there.    *)

Seen(d) ==
  [data |-> d, windowState |-> windowState, cursor |-> cursor,
   move |-> FALSE, release |-> FALSE, consumed |-> FALSE]

OnPress(v) == [v EXCEPT !.data.isLeftButtonPressed = TRUE]

OnRelease(v) == [v EXCEPT !.data.isLeftButtonPressed = FALSE]

OnDblClick(v, at) ==
  IF isWindowFixedSize \/ at # "title" THEN v
  ELSE [v EXCEPT !.windowState = IF @ = "maximized" THEN "normal" ELSE "maximized", !.consumed = TRUE]

\* The shape of the cursor is looked at only where it is to be an arrow.
Reshape(v, at) ==
  IF isWindowFixedSize \/ v.data.isLeftButtonPressed \/ (at = "frame" /\ windowState = "normal") THEN v
  ELSE [v EXCEPT !.cursor = ~v.data.isCursorShapeChanged,
                 !.data.isCursorShapeChanged = ~@]

\* startSystemMove() and the release that it posts.
StartSystemMoveFault(v) == [v EXCEPT !.move = TRUE, !.consumed = TRUE]

StartSystemMove(v) == [v EXCEPT !.move = TRUE, !.release = TRUE, !.consumed = TRUE]

OnMove(v, at) ==
  LET u == Reshape(v, at)
  IN  IF u.data.isLeftButtonPressed /\ at = "title" THEN StartSystemMove(u) ELSE u

Filter(v, e) ==
  CASE e.type = "press"    -> OnPress(v)
    [] e.type = "release"  -> OnRelease(v)
    [] e.type = "dblclick" -> OnDblClick(v, e.at)
    [] e.type = "move"     -> OnMove(v, e.at)

\* The filters see the event one after the other until one consumes it; the
\* data is that of the window, whichever filter asks for it.
Filtered(n, v, e) ==
  LET after[k \in 0..n] ==
        IF k = 0 THEN v
        ELSE LET u == after[k - 1]
             IN  IF u.consumed \/ ~u.data.attached THEN u ELSE Filter(u, e)
  IN  after[n]

-----------------------------------------------------------------------------
(* Clients                                                                  *)

\* attach(), which sets up a frameless window, and detach(), which forgets it.
Attach ==
  /\ ~data.attached /\ filters < MaxFilters
  /\ data' = NewData
  /\ filters' = filters + 1
  /\ UNCHANGED <<isWindowFixedSize, windowState, cursor, down, moving, input, posted>>

Detach ==
  /\ data.attached
  /\ data' = NoData
  /\ UNCHANGED <<filters, isWindowFixedSize, windowState, cursor, down, moving, input, posted>>

-----------------------------------------------------------------------------
(* The user, the window manager and Qt                                      *)

Arrive(type, at) ==
  /\ Len(input) < MaxQueue
  /\ input' = Append(input, [type |-> type, at |-> at])

PressButton(at) ==
  /\ ~down /\ input = <<>>
  /\ down' = TRUE
  /\ Arrive("press", at) \/ Arrive("dblclick", at)
  /\ UNCHANGED <<data, filters, isWindowFixedSize, windowState, cursor, moving, posted>>

\* The window manager keeps the release that ends its move.
ReleaseButton(at) ==
  /\ down
  /\ down' = FALSE /\ moving' = FALSE
  /\ IF moving THEN UNCHANGED input ELSE Arrive("release", at)
  /\ UNCHANGED <<data, filters, isWindowFixedSize, windowState, cursor, posted>>

MovePointer(at) ==
  /\ ~moving
  /\ Arrive("move", at)
  /\ UNCHANGED <<data, filters, isWindowFixedSize, windowState, cursor, down, moving, posted>>

\* Qt hands an event to the filters, and the window manager moves the window
\* if it is asked to while the button is down.
Handle(e, rest) ==
  LET v == Filtered(filters, Seen(data), e)
  IN  /\ data' = v.data /\ windowState' = v.windowState /\ cursor' = v.cursor
      /\ moving' = (moving \/ (v.move /\ down))
      /\ posted' = IF v.release THEN Append(rest, [type |-> "release", at |-> e.at]) ELSE rest
      /\ Len(posted') <= MaxQueue
      /\ UNCHANGED <<filters, isWindowFixedSize, down>>

DispatchInput ==
  /\ input # <<>> /\ posted = <<>>
  /\ Handle(Head(input), posted)
  /\ input' = Tail(input)

DispatchPosted ==
  /\ posted # <<>>
  /\ Handle(Head(posted), Tail(posted))
  /\ UNCHANGED input

Next ==
  \/ Attach \/ Detach
  \/ \E at \in Places : PressButton(at) \/ ReleaseButton(at) \/ MovePointer(at)
  \/ DispatchInput \/ DispatchPosted

Spec == Init /\ [][Next]_vars
-----------------------------------------------------------------------------
(* Properties                                                               *)

Quiet == input = <<>> /\ posted = <<>>

\* When no event is under way, the window does not go on being dragged by a
\* button that is up, although the window manager kept the release of that
\* button; and a window that was given a cursor by its helper knows it
\* (qframelesshelper_unix.cpp:140-199).
NoStuckDrag ==
  /\ Quiet /\ ~down => ~data.isLeftButtonPressed /\ ~moving
  /\ data.isCursorShapeChanged => cursor
=============================================================================
