-------------------------- MODULE QFramelessMouse --------------------------
(***************************************************************************)
(* The mouse over a window without a frame, as built for Windows. The      *)
(* system asks the window which part of it is under the pointer and sends  *)
(* client or non-client messages accordingly; the buttons of the title bar *)
(* are reported as non-client parts and yet drawn by Qt, so that           *)
(* QFramelessHelperWin posts client messages for them and holds back the   *)
(* WM_MOUSELEAVE that the system sends when the pointer enters them.       *)
(*                                                                         *)
(* The system and Qt are external: which messages they send, and when      *)
(* TrackMouseEvent() has WM_MOUSELEAVE sent.                               *)
(***************************************************************************)
EXTENDS Integers, Sequences

CONSTANTS Points,       \* pixels, <<x, y>>, inside the window
          Width, Height,             \* of the client rectangle
          FrameSize,                 \* getResizeBorderThickness()
          TitleBar,                  \* the pixels of the title bar widget
          Button,                    \* the pixels of the system buttons
          Outside,      \* the pointer is over no part of the window
          MaxPosted     \* bound of the message queue

MouseAssumption ==
  /\ Points \subseteq Int \X Int /\ Outside \notin Points \cup Button
  /\ Width \in Nat /\ Height \in Nat /\ FrameSize \in Nat /\ MaxPosted \in Nat

VARIABLES pos,          \* the pixel under the pointer
          state,        \* the window's state
          fixed,        \* isWindowFixedSize()
          hooked,       \* FramelessHelperHookWindowProc filters before Qt does
          moved,        \* a movement of the pointer waits to be retrieved
          posted,       \* the queue of posted messages
          lastHitTestResult, isMouseLeaveBlocked,
          tracking,     \* the system will send WM_MOUSELEAVE
          ncTracking,   \* the system will send WM_NCMOUSELEAVE
          tracked,      \* Qt believes that it will get WM_MOUSELEAVE
          hover         \* the pixel Qt believes the pointer to be at, or Outside

window == <<pos, state, fixed, hooked>>
vars == <<pos, state, fixed, hooked, moved, posted, lastHitTestResult, isMouseLeaveBlocked,
          tracking, ncTracking, tracked, hover>>

States == {"normal", "maximized", "fullscreen"}
Parts == {"Outside", "ClientArea", "ChromeButton", "ResizeBorder", "FixedBorder", "TitleBar"}
Message == [msg : {"MOUSEMOVE", "MOUSELEAVE", "NCMOUSELEAVE"}, tag : BOOLEAN,
            pt : Points \cup {Outside}]

\* Every variable has its type (qframelesshelper_win.cpp:68-90).
TypeOK ==
  /\ pos \in Points \cup {Outside} /\ hover \in Points \cup {Outside}
  /\ state \in States /\ fixed \in BOOLEAN /\ hooked \in BOOLEAN /\ moved \in BOOLEAN
  /\ posted \in Seq(Message)
  /\ lastHitTestResult \in Parts /\ isMouseLeaveBlocked \in BOOLEAN
  /\ tracking \in BOOLEAN /\ ncTracking \in BOOLEAN /\ tracked \in BOOLEAN

Init ==
  /\ pos = Outside /\ hover = Outside
  /\ state \in States /\ fixed \in BOOLEAN /\ hooked \in BOOLEAN
  /\ moved = FALSE /\ posted = <<>>
  /\ lastHitTestResult = "Outside" /\ isMouseLeaveBlocked = FALSE
  /\ tracking = FALSE /\ ncTracking = FALSE /\ tracked = FALSE

-----------------------------------------------------------------------------
(* The parts of the window                                                  *)

InSystemButtons(p) == p \in Button
InDraggableArea(p) == p \in TitleBar \ Button

InClientRect(p) == p[1] \in 0..(Width - 1) /\ p[2] \in 0..(Height - 1)

kBorderSize == 2

\* The edge of a window of normal size that is hidden behind its buttons.
ButtonEdge(p) == state = "normal" /\ (p[2] <= kBorderSize \/ p[1] >= Width - kBorderSize)

\* The resizing frame that lies in the client rectangle, wider at its corners.
OnFrame(p) ==
  LET isTop    == p[2] < FrameSize
      isBottom == p[2] >= Height - FrameSize
      scaled   == IF isTop \/ isBottom THEN 2 * FrameSize ELSE FrameSize
  IN  isTop \/ isBottom \/ p[1] < scaled \/ p[1] >= Width - scaled

\* WM_NCHITTEST. The properties kDontOverrideCursorVar and
\* kDontToggleMaximizeVar are always false: property() answers with the
\* default value as long as the helper has a window.
HitTest(p) ==
  IF ~fixed /\ InSystemButtons(p)
    THEN IF ButtonEdge(p) THEN "ResizeBorder" ELSE "ChromeButton"
  ELSE IF ~InClientRect(p) THEN IF fixed THEN "FixedBorder" ELSE "ResizeBorder"
  ELSE IF state = "fullscreen" THEN "ClientArea"
  ELSE IF state = "normal" /\ ~fixed /\ OnFrame(p) THEN "ResizeBorder"
  ELSE IF InDraggableArea(p) THEN "TitleBar"
  ELSE "ClientArea"

-----------------------------------------------------------------------------
(* nativeEventFilter: what a message does to the data of the window, which  *)
(* messages it posts, and whether Qt gets to see it.                        *)

Filtering(last) ==
  [last |-> last, blocked |-> isMouseLeaveBlocked, posts |-> <<>>, request |-> FALSE, consumed |-> FALSE]

\* emulateClientAreaMessage()
Emulate(h, msg, pt) ==
  [h EXCEPT !.posts = Append(@, [msg |-> msg, tag |-> msg = "MOUSELEAVE", pt |-> pt])]

FilterMouseLeaveFault(h, m) == [h EXCEPT !.blocked = FALSE]

FilterMouseLeave(h, m) ==
  IF ~m.tag /\ InSystemButtons(m.pt) THEN [h EXCEPT !.blocked = TRUE, !.consumed = TRUE]
  ELSE [h EXCEPT !.blocked = FALSE]

FilterMouseMove(h) ==
  IF h.last # "ChromeButton" /\ h.blocked THEN [h EXCEPT !.blocked = FALSE, !.request = TRUE]
  ELSE h

FilterNcMouseMove(h, pt) ==
  LET chrome == h.last = "ChromeButton"
      left   == IF ~chrome /\ h.blocked THEN Emulate(h, "MOUSELEAVE", pt) ELSE h
      next   == [left EXCEPT !.last = "Outside"]
  IN  IF chrome THEN [Emulate(next, "MOUSEMOVE", pt) EXCEPT !.consumed = TRUE] ELSE next

FilterNcMouseLeaveFault(h, pt) ==
  IF h.blocked THEN [h EXCEPT !.blocked = FALSE] ELSE h

FilterNcMouseLeave(h, pt) ==
  IF ~h.blocked THEN h
  ELSE IF h.last = "ChromeButton" THEN [h EXCEPT !.blocked = FALSE, !.request = TRUE]
  ELSE Emulate(h, "MOUSELEAVE", pt)

\* The hook filters a message, and so does Qt when the hook passes it on.
Twice(Filter(_), h) ==
  LET once == Filter(h) IN IF once.consumed \/ ~hooked THEN once ELSE Filter(once)

-----------------------------------------------------------------------------
(* The system and Qt                                                        *)

Leave(p) == [msg |-> "MOUSELEAVE", tag |-> FALSE, pt |-> p]
NcLeave(p) == [msg |-> "NCMOUSELEAVE", tag |-> FALSE, pt |-> p]

InClient(p) == p # Outside /\ HitTest(p) = "ClientArea"

If(cond, seq) == IF cond THEN seq ELSE <<>>

\* What one message has done: `more' are messages the system posts by itself,
\* `qtAsks' that Qt calls TrackMouseEvent(), which answers at once when the
\* pointer is not in the client area.
After(h, rest, more, qtAsks, isTracking) ==
  LET asked == h.request \/ qtAsks
      queue == rest \o h.posts \o more \o If(asked /\ ~InClient(pos), <<Leave(pos)>>)
  IN  /\ Len(queue) <= MaxPosted
      /\ posted' = queue
      /\ tracking' = (isTracking \/ (asked /\ InClient(pos)))
      /\ lastHitTestResult' = h.last /\ isMouseLeaveBlocked' = h.blocked

\* The pointer moves, or the window changes its state below it; the movement
\* is retrieved before the next one.
MoveTo(p, s) ==
  /\ ~moved
  /\ p # pos \/ s # state
  /\ Len(posted) + 2 <= MaxPosted
  /\ pos' = p /\ state' = s /\ moved' = (p # Outside)
  /\ posted' = posted \o If(p = Outside /\ tracking, <<Leave(p)>>) \o If(p = Outside /\ ncTracking, <<NcLeave(p)>>)
  /\ tracking' = (tracking /\ p # Outside) /\ ncTracking' = (ncTracking /\ p # Outside)
  /\ UNCHANGED <<fixed, hooked, lastHitTestResult, isMouseLeaveBlocked, tracked, hover>>

\* The system hands out posted messages before it makes one of the pointer's
\* movement. A movement inside the client area: WM_NCHITTEST and WM_MOUSEMOVE.
MouseMove ==
  /\ moved /\ posted = <<>> /\ InClient(pos)
  /\ After(Twice(FilterMouseMove, Filtering("ClientArea")), posted,
           If(ncTracking, <<NcLeave(pos)>>), ~tracked, tracking)
  /\ moved' = FALSE /\ ncTracking' = FALSE /\ tracked' = TRUE /\ hover' = pos
  /\ UNCHANGED window

\* A movement over another part: WM_NCHITTEST and WM_NCMOUSEMOVE, for which
\* DefWindowProc() has WM_NCMOUSELEAVE sent.
NcMouseMove ==
  /\ moved /\ posted = <<>> /\ ~InClient(pos)
  /\ After(Twice(LAMBDA h : FilterNcMouseMove(h, pos), Filtering(HitTest(pos))), posted,
           If(tracking, <<Leave(pos)>>), FALSE, FALSE)
  /\ moved' = FALSE /\ ncTracking' = TRUE
  /\ UNCHANGED <<window, tracked, hover>>

\* WM_NCHITTEST for other reasons than a movement.
Ask ==
  /\ pos # Outside
  /\ lastHitTestResult' = HitTest(pos)
  /\ UNCHANGED <<window, moved, posted, isMouseLeaveBlocked, tracking, ncTracking, tracked, hover>>

\* The first of the posted messages.
Dispatch ==
  /\ posted # <<>>
  /\ LET m == Head(posted)
         h == Filtering(lastHitTestResult)
     IN  \/ /\ m.msg = "MOUSEMOVE"
            /\ After(Twice(FilterMouseMove, h), Tail(posted), <<>>, ~tracked, tracking)
            /\ tracked' = TRUE /\ hover' = m.pt
         \/ /\ m.msg = "MOUSELEAVE"
            /\ LET f == Twice(LAMBDA x : FilterMouseLeave(x, m), h)
               IN  /\ After(f, Tail(posted), <<>>, FALSE, tracking)
                   /\ tracked' = (tracked /\ f.consumed)
                   /\ hover' = IF f.consumed THEN hover ELSE Outside
         \/ /\ m.msg = "NCMOUSELEAVE"
            /\ After(Twice(LAMBDA x : FilterNcMouseLeave(x, m.pt), h), Tail(posted), <<>>, FALSE, tracking)
            /\ UNCHANGED <<tracked, hover>>
  /\ UNCHANGED <<window, moved, ncTracking>>

Next ==
  \/ \E p \in Points \cup {Outside}, s \in States : MoveTo(p, s)
  \/ MouseMove \/ NcMouseMove \/ Ask \/ Dispatch

Spec == Init /\ [][Next]_vars

-----------------------------------------------------------------------------
(* Properties                                                               *)

Quiet == posted = <<>> /\ ~moved

\* When all messages are dealt with, the button under the pointer is lit, and no
\* button stays lit behind a pointer that has left it: Qt believes the pointer
\* over a button if it is, and nowhere if it has left the client area and the
\* buttons (qframelesshelper_win.cpp:1115-1208).
HoverFollows ==
  Quiet =>
    /\ pos # Outside /\ HitTest(pos) = "ChromeButton" => hover # Outside /\ InSystemButtons(hover)
    /\ hover # Outside => pos # Outside /\ (InClient(pos) \/ InSystemButtons(pos))

=============================================================================
