---------------------------- MODULE QSystemButton ----------------------------
(***************************************************************************)
(* A button of a title bar: what it is painted from, and when it is painted *)
(* again. When a click has maximized or restored the window the button may *)
(* be elsewhere; emulateLeaveEvent() of the title bar looks for that later. *)
(* QPushButton repaints a button that is enabled for presses and releases  *)
(* of the left mouse button, for enabling, and when the pointer comes or   *)
(* goes; Qt and the pointer are external.                                  *)
(***************************************************************************)
EXTENDS Naturals

CONSTANTS Types,        \* of buttons, Close among them or not
          Glyphs,       \* that clients set
          Fields,       \* the colours that clients set
          Colors, Invalid,
          DefaultColor, \* of each field of a new button
          StyleColor,   \* of the foreground, by whether the button is enabled
          Nothing

VARIABLES button,     \* QSystemButtonPrivate, and whether it is enabled
          underMouse, \* what Qt says
          inside,     \* the pointer is over the button
          checks,     \* timers of emulateLeaveEvent(), and leave events it posted
          dirty,      \* update() was called
          shown,      \* what was painted last
          unseen,     \* history: pressed or released since without a repaint
          named       \* history: the client has set a glyph since the type was set

vars == <<button, underMouse, inside, checks, dirty, shown, unseen, named>>
mouseVars == <<underMouse, inside, checks>>

AllFields == DOMAIN DefaultColor

ButtonAssumption == Fields \subseteq AllFields

\* systemButtonGlyph(), one glyph for every type.
systemButtonGlyph(type) == <<type>>

Init ==
  /\ button \in [buttonType : Types, glyph : {<<t>> : t \in Types}, isPressed : {FALSE},
                 color : {DefaultColor}, isUsingQss : BOOLEAN, enabled : {TRUE}]
  /\ button.glyph = systemButtonGlyph(button.buttonType)
  /\ underMouse = FALSE /\ inside = FALSE /\ checks = {}
  /\ dirty = TRUE /\ shown = Nothing /\ unseen = FALSE /\ named = FALSE

-----------------------------------------------------------------------------
(* paintEvent()                                                             *)

Background ==
  IF button.isPressed /\ underMouse THEN button.color["pressColor"]
  ELSE IF underMouse /\ button.color["hoverColor"] # Invalid THEN button.color["hoverColor"]
  ELSE button.color["normalColor"]

Pen ==
  IF button.buttonType = "Close" /\ underMouse THEN "white"
  ELSE LET own == button.color[IF button.enabled THEN "activeForegroundColor" ELSE "inactiveForegroundColor"]
       IN  IF own # Invalid THEN own ELSE StyleColor[button.enabled]

\* A style sheet paints by the states of QPushButton.
Picture ==
  IF button.isUsingQss THEN [qss |-> TRUE, glyph |-> button.glyph, enabled |-> button.enabled, under |-> underMouse]
  ELSE [qss |-> FALSE, glyph |-> button.glyph, background |-> Background, pen |-> Pen]

Paint ==
  /\ dirty /\ dirty' = FALSE /\ unseen' = FALSE
  /\ shown' = Picture
  /\ UNCHANGED <<button, mouseVars, named>>

-----------------------------------------------------------------------------
(* Clients. A value that is there already is not set, an invalid colour     *)
(* never, and anything else calls update().                                 *)

UpdateFault == UNCHANGED dirty
Update == dirty' = TRUE

Set(b, name) ==
  /\ b # button /\ button' = b /\ named' = name
  /\ Update
  /\ UNCHANGED <<mouseVars, shown, unseen>>

setButtonType(type) ==
  /\ type # button.buttonType
  /\ Set([button EXCEPT !.buttonType = type, !.glyph = systemButtonGlyph(type)], FALSE)

setGlyph(glyph) == Set([button EXCEPT !.glyph = glyph], TRUE)

\* setHoverColor() to setInactiveForegroundColor().
setColor(field, color) == color # Invalid /\ Set([button EXCEPT !.color[field] = color], named)

setUsingQss(on) == Set([button EXCEPT !.isUsingQss = on], named)

setEnabled(on) == Set([button EXCEPT !.enabled = on], named)

-----------------------------------------------------------------------------
(* Events. isPressed follows every mouse button, also when disabled.        *)

Press(pressed, isLeft) ==
  /\ button' = [button EXCEPT !.isPressed = pressed]
  /\ IF isLeft /\ button.enabled THEN Update /\ UNCHANGED unseen
     ELSE unseen' = TRUE /\ UNCHANGED dirty
  /\ UNCHANGED <<mouseVars, shown, named>>

\* The pointer comes or goes, or moves where the button was; what waits, waits on.
Cross ==
  /\ \/ inside' = ~inside
     \/ underMouse /\ ~inside /\ UNCHANGED inside
  /\ underMouse' = inside'
  /\ IF underMouse' # underMouse THEN Update ELSE UNCHANGED dirty
  /\ UNCHANGED <<button, checks, shown, unseen, named>>

\* A click has changed the window's state; the button may not be under the pointer any more.
Maximize ==
  /\ inside /\ button.enabled
  /\ inside' \in BOOLEAN /\ checks' = checks \cup {"timer"}
  /\ UNCHANGED <<button, underMouse, dirty, shown, unseen, named>>

emulateLeaveEvent ==
  /\ "timer" \in checks
  /\ checks' = (checks \ {"timer"}) \cup (IF inside THEN {} ELSE {"leave"})
  /\ UNCHANGED <<button, underMouse, inside, dirty, shown, unseen, named>>

Leave ==
  /\ "leave" \in checks /\ checks' = checks \ {"leave"} /\ underMouse' = FALSE
  /\ Update
  /\ UNCHANGED <<button, inside, shown, unseen, named>>

Next ==
  \/ Paint \/ Cross \/ Maximize \/ emulateLeaveEvent \/ Leave
  \/ \E type \in Types : setButtonType(type)
  \/ \E glyph \in Glyphs : setGlyph(glyph)
  \/ \E field \in Fields, color \in Colors \cup {Invalid} : setColor(field, color)
  \/ \E on \in BOOLEAN : setUsingQss(on) \/ setEnabled(on)
  \/ \E pressed, isLeft \in BOOLEAN : Press(pressed, isLeft)

-----------------------------------------------------------------------------
(* Properties                                                               *)

TypeOK ==
  /\ button.buttonType \in Types /\ button.color \in [AllFields -> Colors \cup {Invalid} \cup {DefaultColor[f] : f \in AllFields}]
  /\ checks \subseteq {"timer", "leave"}

\* What is on the screen is what the button asks for, unless a repaint is due or a
\* press was not painted; the glyph is that of the type unless the client chose one;
\* and no button is lit that is not under the pointer, unless Qt will be told. One under
\* the pointer may be dark: the pointer can come back before the leave event arrives.
ShowsItsState ==
  /\ ~dirty /\ ~unseen => shown = Picture
  /\ ~named => button.glyph = systemButtonGlyph(button.buttonType)
  /\ underMouse => inside \/ checks # {}
=============================================================================
