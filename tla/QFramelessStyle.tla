-------------------------- MODULE QFramelessStyle --------------------------
(***************************************************************************)
(* The look of windows without a frame: the global style and the style of  *)
(* each widget that is shown in a QWidgetsContainer, and the container     *)
(* that follows its style by signals with a border, the margins of its     *)
(* layout and a QStandardTitleBar.                                         *)
(***************************************************************************)
EXTENDS Naturals, FiniteSets

CONSTANTS Widgets,      \* targets of a QWidgetsContainer
          Global,       \* the style that is not a widget's
          Roles,        \* "active" and "inactive"
          Colors,       \* valid QColors
          Invalid,      \* the invalid QColor
          Thicknesses,  \* border thicknesses clients ask for
          Heights,      \* extended heights clients ask for
          NormalHeight, \* kDefaultTitleHeight
          DefaultStyle, \* the fields of QFramelessStylePrivate(q)
          None

kMaximumBorderThickness == 100

VARIABLES style,        \* fields by widget (instances), and of the global style
          border,       \* m_pWindowBorder of each container, None if there is none
          margins,      \* margins of the container's layout
          state,        \* state of the container, None if there is no container
          titleBar      \* the standard title bar of each container

vars == <<style, border, margins, state, titleBar>>

States == {"normal", "minimized", "maximized", "fullscreen"}
Style == [isWindowBorderEnabled : BOOLEAN, thickness : Thicknesses, color : [Roles -> Colors \cup {Invalid}]]
Border == [thickness : Nat, color : [Roles -> Colors \cup {Invalid}]]
TitleBar == [isExtensible : BOOLEAN, isExtended : BOOLEAN, extendedHeight : Heights,
             height : Heights \cup {NormalHeight}, maximizeButton : {"Maximize", "Restore"}]

StyleAssumption ==
  /\ Global \notin Widgets /\ Invalid \notin Colors
  /\ Thicknesses \subseteq 0..kMaximumBorderThickness
  /\ Heights \subseteq Nat /\ NormalHeight \in Nat /\ \E h \in Heights : \A other \in Heights : h >= other
  /\ DefaultStyle \in Style
  /\ None \notin Style \cup Border \cup TitleBar \cup States

\* Every variable has its type; a container has a style (qframelessstyle_p.h:100-134).
TypeOK ==
  /\ style \in [Widgets \cup {Global} -> Style \cup {None}]
  /\ border \in [Widgets -> Border \cup {None}]
  /\ margins \in [Widgets -> Nat]
  /\ state \in [Widgets -> States \cup {None}]
  /\ titleBar \in [Widgets -> TitleBar \cup {None}]
  /\ \A w \in Widgets : state[w] # None => style[w] # None /\ titleBar[w] # None

Init ==
  /\ style = [w \in Widgets \cup {Global} |-> None]
  /\ border = [w \in Widgets |-> None] /\ margins = [w \in Widgets |-> 0]
  /\ state = [w \in Widgets |-> None] /\ titleBar = [w \in Widgets |-> None]

-----------------------------------------------------------------------------
(* The styles                                                               *)

\* globalInstance() and instance(w), which copies the global style.
GlobalStyle == IF style[Global] = None THEN DefaultStyle ELSE style[Global]

InstanceOf(w) == IF style[w] = None THEN GlobalStyle ELSE style[w]

\* contentsMargins(); the top margin is a function of the others.
ContentsMargins(s) ==
  LET thickness == IF s.isWindowBorderEnabled THEN s.thickness ELSE 0
  IN  IF thickness = 0 THEN 0 ELSE IF thickness \div 2 = 0 THEN 1 ELSE thickness \div 2

Bounded(thickness) == IF thickness > kMaximumBorderThickness THEN kMaximumBorderThickness ELSE thickness

\* The containers whose styles follow a call to s: the global style passes a
\* change on to all instances, which may have that value already.
Followers(s) == IF s = Global THEN {w \in Widgets : style[w] # None} ELSE {s}

-----------------------------------------------------------------------------
(* The container's border                                                   *)

\* QWindowBorder takes no invalid colour; an unset one is painted in a default.
BorderColor(old, new) == IF new = Invalid THEN old ELSE new

NewBorderFault(s) == [thickness |-> 1, color |-> s.color]  \* as constructed

NewBorder(s) ==
  [thickness |-> Bounded(s.thickness),
   color |-> [r \in Roles |-> BorderColor(Invalid, s.color[r])]]

\* _q_setWindowBorderEnabled()
EnableBorder(b, s) ==
  IF ~s.isWindowBorderEnabled THEN None ELSE IF b = None THEN NewBorder(s) ELSE b

MarginsOfEnable(w, b, s) ==
  IF (b = None) = s.isWindowBorderEnabled THEN ContentsMargins(s) ELSE margins[w]

Shown == {w \in Widgets : state[w] # None}

-----------------------------------------------------------------------------
(* Clients: styles                                                          *)

Write(s, changed, field(_)) ==
  style' = [x \in DOMAIN style |->
              IF x = s \/ x \in changed THEN field(style[x]) ELSE style[x]]

SetWindowBorderEnabled(s, on) ==
  /\ style[s] # None /\ style[s].isWindowBorderEnabled # on
  /\ LET changed == {w \in Followers(s) : style[w].isWindowBorderEnabled # on}
         seen    == changed \cap Shown
         new(r)  == [r EXCEPT !.isWindowBorderEnabled = on]
     IN  /\ Write(s, changed, new)
         /\ border' = [w \in Widgets |-> IF w \in seen THEN EnableBorder(border[w], new(style[w])) ELSE border[w]]
         /\ margins' = [w \in Widgets |->
                          IF w \in seen THEN MarginsOfEnable(w, border[w], new(style[w])) ELSE margins[w]]
  /\ UNCHANGED <<state, titleBar>>

\* thicknessChanged() of the border sets the margins anew.
SetWindowBorderThickness(s, thickness) ==
  /\ style[s] # None /\ style[s].thickness # thickness
  /\ LET changed == {w \in Followers(s) : style[w].thickness # thickness}
         new(r)  == [r EXCEPT !.thickness = thickness]
         seen    == {w \in changed \cap Shown : style[w].isWindowBorderEnabled /\ border[w] # None}
         other   == {w \in seen : border[w].thickness # Bounded(thickness)}
     IN  /\ Write(s, changed, new)
         /\ border' = [w \in Widgets |-> IF w \in other THEN [border[w] EXCEPT !.thickness = Bounded(thickness)] ELSE border[w]]
         /\ margins' = [w \in Widgets |-> IF w \in other THEN ContentsMargins(new(style[w])) ELSE margins[w]]
  /\ UNCHANGED <<state, titleBar>>

\* setWindowBorderActiveColor() and setWindowBorderInactiveColor().
Repainted(b, r, color) == [b EXCEPT !.color[r] = BorderColor(@, color)]

SetWindowBorderColor(s, r, color) ==
  /\ style[s] # None /\ style[s].color[r] # color
  /\ LET changed == {w \in Followers(s) : style[w].color[r] # color}
         seen    == {w \in changed \cap Shown : style[w].isWindowBorderEnabled /\ border[w] # None}
     IN  /\ Write(s, changed, LAMBDA x : [x EXCEPT !.color[r] = color])
         /\ border' = [w \in Widgets |-> IF w \in seen THEN Repainted(border[w], r, color) ELSE border[w]]
  /\ UNCHANGED <<margins, state, titleBar>>

-----------------------------------------------------------------------------
(* Clients and Qt: containers and title bars                                *)

BarHeight(t) == IF t.isExtended THEN t.extendedHeight ELSE NormalHeight

NewTitleBar ==
  LET h == CHOOSE x \in Heights : \A y \in Heights : x >= y
  IN  [isExtensible |-> TRUE, isExtended |-> TRUE, extendedHeight |-> h, height |-> h,
       maximizeButton |-> "Maximize"]

\* setup() of a new container, from its construction to the border.
Setup(w) ==
  /\ state[w] = None
  /\ LET s == InstanceOf(w)
     IN  /\ style' = [style EXCEPT ![Global] = GlobalStyle, ![w] = s]
         /\ border' = [border EXCEPT ![w] = EnableBorder(None, s)]
         /\ margins' = [margins EXCEPT ![w] = ContentsMargins(s)]
  /\ state' = [state EXCEPT ![w] = "normal"]
  /\ titleBar' = [titleBar EXCEPT ![w] = NewTitleBar]

\* The container is deleted, its widget and its border with it.
DeleteFault(w) ==                              \* the container survives its style
  /\ state[w] # None
  /\ style' = [style EXCEPT ![w] = None]
  /\ UNCHANGED <<border, margins, state, titleBar>>

Delete(w) ==
  /\ state[w] # None
  /\ style' = [style EXCEPT ![w] = None]
  /\ border' = [border EXCEPT ![w] = None]
  /\ margins' = [margins EXCEPT ![w] = 0]
  /\ state' = [state EXCEPT ![w] = None]
  /\ titleBar' = [titleBar EXCEPT ![w] = None]

ExtendedFault(t, on) ==
  IF on = t.isExtended \/ ~t.isExtensible THEN t ELSE [t EXCEPT !.isExtended = on]

Extended(t, on) ==
  IF on = t.isExtended \/ ~t.isExtensible THEN t
  ELSE LET u == [t EXCEPT !.isExtended = on] IN [u EXCEPT !.height = BarHeight(u)]

\* QEvent::WindowStateChange
WindowStateChange(w, s) ==
  /\ state[w] # None /\ s # state[w]
  /\ LET button == [titleBar[w] EXCEPT !.maximizeButton = IF s = "maximized" THEN "Restore" ELSE "Maximize"]
     IN  titleBar' = [titleBar EXCEPT ![w] =
                        IF s \in {"normal", "maximized"} THEN Extended(button, s = "normal") ELSE button]
  /\ margins' = [margins EXCEPT ![w] =
                   CASE s = "maximized" -> 0
                     [] s = "normal" -> ContentsMargins(style[w])
                     [] OTHER -> @]
  /\ state' = [state EXCEPT ![w] = s]
  /\ UNCHANGED <<style, border>>

SetExtensible(w, on) ==
  /\ state[w] # None /\ titleBar[w].isExtensible # on
  /\ titleBar' = [titleBar EXCEPT ![w].isExtensible = on,
                                  ![w].isExtended = @ /\ on,
                                  ![w].height = IF on THEN @ ELSE NormalHeight]
  /\ UNCHANGED <<style, border, margins, state>>

SetExtendedHeight(w, h) ==
  /\ state[w] # None /\ titleBar[w].extendedHeight # h
  /\ titleBar' = [titleBar EXCEPT ![w].extendedHeight = h,
                                  ![w].height = IF titleBar[w].isExtended THEN h ELSE @]
  /\ UNCHANGED <<style, border, margins, state>>

Next ==
  \/ \E s \in Widgets \cup {Global}, on \in BOOLEAN : SetWindowBorderEnabled(s, on)
  \/ \E s \in Widgets \cup {Global}, t \in Thicknesses : SetWindowBorderThickness(s, t)
  \/ \E s \in Widgets \cup {Global}, r \in Roles, c \in Colors \cup {Invalid} : SetWindowBorderColor(s, r, c)
  \/ \E w \in Widgets : Setup(w) \/ Delete(w)
  \/ \E w \in Widgets, s \in States : WindowStateChange(w, s)
  \/ \E w \in Widgets, on \in BOOLEAN : SetExtensible(w, on)
  \/ \E w \in Widgets, h \in Heights : SetExtendedHeight(w, h)

Spec == Init /\ [][Next]_vars

-----------------------------------------------------------------------------
(* Properties                                                               *)

\* A container has a border just when its style asks for one, with the style's
\* thickness and those of its colours that are valid, whichever signals were
\* missed while it had none (qwidgetscontainer.cpp:185-219).
BorderFollowsStyle ==
  \A w \in Shown :
    /\ border[w] # None <=> style[w].isWindowBorderEnabled
    /\ border[w] # None =>
         /\ border[w].thickness = style[w].thickness
         /\ \A r \in Roles : style[w].color[r] # Invalid => border[w].color[r] = style[w].color[r]

\* A window of normal size has the margins of its style, whatever happened to
\* both while it was maximized, minimized or full-screen; and its title bar has
\* the height of its mode (qwidgetscontainer.cpp:271-295, qstandardtitlebar.cpp:96-143).
LayoutFollowsStyle ==
  \A w \in Shown :
    /\ state[w] = "normal" => margins[w] = ContentsMargins(style[w])
    /\ titleBar[w].height = BarHeight(titleBar[w])
    /\ state[w] = "maximized" => ~titleBar[w].isExtended /\ titleBar[w].maximizeButton = "Restore"

\* Both: a container looks as its style and its state ask for.
LookFollowsStyle == BorderFollowsStyle /\ LayoutFollowsStyle
=============================================================================
