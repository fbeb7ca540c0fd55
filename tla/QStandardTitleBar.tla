-------------------------- MODULE QStandardTitleBar --------------------------
(***************************************************************************)
(* The title bar and the window whose it is: the connections of its        *)
(* buttons, which are made anew when it gets another window, and the label *)
(* between the icon and the buttons. Heights are in QFramelessStyle.       *)
(***************************************************************************)
EXTENDS Integers, FiniteSets, FiniteSetsExt

CONSTANTS Windows,     \* with a style and a helper each
          Bar          \* the title bar as a window of its own

Places == Windows \cup {Bar}

VARIABLES place,       \* window() of the title bar
          window,      \* the window it was set up for, and m_pStyle
          connects,    \* the live connections: sender, and the window they act on
          states,      \* of each window
          fixed,       \* the windows that are of fixed size
          qss,         \* isTitleBarUsingQss() of each style
          barStyle,    \* there is a style for the title bar itself
          buttons,     \* isUsingQss of the buttons
          maxiEnabled, \* of the maximize button
          moved,       \* history: an ancestor got another window after the last setup
          styled       \* history: the qss of this window's style changed after the setup

vars == <<place, window, connects, states, fixed, qss, barStyle, buttons, maxiEnabled, moved, styled>>

Senders == {"style", "minimize", "maximize", "close", "icon", "title"}

Init ==
  /\ place = Bar /\ window = Bar
  /\ connects = {<<s, Bar>> : s \in Senders}
  /\ states = [w \in Places |-> "normal"] /\ fixed \in SUBSET Windows
  /\ qss \in [Places -> {FALSE}] /\ barStyle = TRUE /\ buttons = FALSE
  /\ maxiEnabled = TRUE /\ moved = FALSE /\ styled = FALSE

DisconnectedFault == connects
Disconnected == {}

\* onWindowChanged(): the buttons keep the flag of the style before.
onWindowChanged(w) ==
  /\ window' = w
  /\ connects' = Disconnected \cup {<<s, w>> : s \in Senders}
  /\ maxiEnabled' = (w \notin fixed)
  /\ barStyle' = (w = Bar \/ (barStyle /\ window # Bar))
  /\ qss' = IF w = Bar \/ window # Bar THEN qss ELSE [qss EXCEPT ![Bar] = FALSE]
  /\ moved' = FALSE /\ styled' = FALSE

\* ParentChange comes to the title bar when it gets another parent itself.
SetParent(w) ==
  /\ w # place /\ place' = w
  /\ IF window # w THEN onWindowChanged(w)
     ELSE UNCHANGED <<window, connects, maxiEnabled, barStyle, qss, styled>> /\ moved' = FALSE
  /\ UNCHANGED <<states, fixed, buttons>>

\* An ancestor of it is put into another window: nobody tells the title bar.
MoveAncestor(w) ==
  /\ place # Bar /\ w # place /\ place' = w
  /\ moved' = (w # window)
  /\ UNCHANGED <<window, connects, states, fixed, qss, barStyle, buttons, maxiEnabled, styled>>

\* QEvent::Show
Show ==
  /\ maxiEnabled' = (place \notin fixed)
  /\ UNCHANGED <<place, window, connects, states, fixed, qss, barStyle, buttons, moved, styled>>

\* The style's signal sets the flag of the buttons.
SetTitleBarUsingQss(w, on) ==
  /\ qss[w] # on /\ (w = Bar => barStyle) /\ qss' = [qss EXCEPT ![w] = on]
  /\ IF <<"style", w>> \in connects THEN buttons' = on /\ styled' = TRUE ELSE UNCHANGED <<buttons, styled>>
  /\ UNCHANGED <<place, window, connects, states, fixed, barStyle, maxiEnabled, moved>>

\* A click goes to every window that the button is connected with, and in it acts on
\* `window' each time.
Clicked(sender, Then(_)) ==
  LET times == Cardinality({c \in connects : c[1] = sender})
  IN  states' = [states EXCEPT ![window] = IF times % 2 = 1 THEN Then(@) ELSE @]

\* showMinimized() is a slot of the window itself.
ClickMinimize ==
  /\ states' = [w \in Places |-> IF <<"minimize", w>> \in connects THEN "minimized" ELSE states[w]]
  /\ UNCHANGED <<place, window, connects, fixed, qss, barStyle, buttons, maxiEnabled, moved, styled>>

ClickMaximize ==
  /\ maxiEnabled
  /\ Clicked("maximize", LAMBDA s : IF s = "maximized" THEN "normal" ELSE "maximized")
  /\ UNCHANGED <<place, window, connects, fixed, qss, barStyle, buttons, maxiEnabled, moved, styled>>

\* close(), or hide() if isHideWhenClose.
ClickClose ==
  /\ Clicked("close", LAMBDA s : "hidden")
  /\ UNCHANGED <<place, window, connects, fixed, qss, barStyle, buttons, maxiEnabled, moved, styled>>

\* A client shows the window as it was.
Restore(w) ==
  /\ states' = [states EXCEPT ![w] = "normal"]
  /\ UNCHANGED <<place, window, connects, fixed, qss, barStyle, buttons, maxiEnabled, moved, styled>>

Next ==
  \/ \E w \in Places : SetParent(w) \/ Restore(w)
  \/ \E w \in Windows : MoveAncestor(w)
  \/ \E w \in Places, on \in BOOLEAN : SetTitleBarUsingQss(w, on)
  \/ Show \/ ClickMinimize \/ ClickMaximize \/ ClickClose

-----------------------------------------------------------------------------
(* Geometry. A bar has a width, the margin of its style, the width of the   *)
(* area of the buttons, and of the icon, 0 if none is shown.                *)

windowIconRect(b) == [x |-> IF b.icon = 0 THEN 0 ELSE b.margin, width |-> b.icon]
Right(rect) == rect.x + rect.width - 1

labelPosition(b, alignment) ==
  IF alignment = "left" THEN Right(windowIconRect(b)) + b.margin ELSE 0

\* 0.8 of the width, rounded half up.
labelMaxWidth(b, alignment) ==
  Max({0, CASE alignment \in {"left", "right"} -> b.width - (windowIconRect(b).width + b.buttons + 2 * b.margin)
            [] alignment = "center"            -> b.width - 2 * (b.buttons + b.margin)
            [] OTHER                           -> (8 * b.width + 5) \div 10})

\* Where the style has a margin, and unless it is aligned in some other way, a label that
\* is shown ends before the buttons begin, and one on the left begins behind the icon.
LabelsFit(b) ==
  \A alignment \in {"left", "right", "center"} :
    labelMaxWidth(b, alignment) > 0 =>
      /\ labelPosition(b, alignment) + labelMaxWidth(b, alignment) < b.width - b.buttons
      /\ alignment = "left" => labelPosition(b, alignment) > Right(windowIconRect(b))

-----------------------------------------------------------------------------
(* Properties                                                               *)

TypeOK ==
  /\ place \in Places /\ window \in Places /\ connects \subseteq Senders \X Places
  /\ states \in [Places -> {"normal", "minimized", "maximized", "hidden"}]

\* The buttons act once on each click, on the window that the title bar was set up for,
\* which is its own unless only an ancestor was moved; they follow that window's style
\* once it changes; and the title bar keeps no style of its own while it has a window.
ActsOnItsWindow ==
  /\ connects = Senders \X {window}
  /\ ~moved => window = place
  /\ styled => buttons = qss[window]
  /\ barStyle <=> window = Bar

=============================================================================
