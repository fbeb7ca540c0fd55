---------------------------- MODULE QSystemMenu ----------------------------
(***************************************************************************)
(* The system menu of a window without a frame, as built for Windows. The  *)
(* hook before Qt's window procedure shows it for the right mouse button   *)
(* in the title bar and for Alt and Space; TrackPopupMenu() handles other  *)
(* messages until an item is chosen, whose command is then posted to the   *)
(* window. nativeEventFilter() sees every command first, also one that a   *)
(* double click in the title bar sends.                                    *)
(*                                                                         *)
(* What the system does with a command is external.                        *)
(***************************************************************************)
EXTENDS Naturals, Sequences

CONSTANT MaxPosted      \* bound of the posted commands

VARIABLES state, fixed,         \* the window's state, isWindowFixedSize()
          isWin11,
          menu,                 \* of each item: "enabled", "disabled" or "gone"
          defaultItem,
          lit,                  \* SC_RESTORE is highlighted
          up,                   \* TrackPopupMenu() has not returned
          posted,               \* commands
          stretched             \* a command has maximized a window of fixed size

vars == <<state, fixed, isWin11, menu, defaultItem, lit, up, posted, stretched>>

Items == {"Close", "Maximize", "Restore", "Minimize", "Size", "Move"}
States == {"normal", "maximized", "fullscreen"}

\* Every variable has its type.
TypeOK ==
  /\ state \in States /\ fixed \in BOOLEAN /\ isWin11 \in BOOLEAN
  /\ menu \in [Items -> {"enabled", "disabled", "gone"}]
  /\ defaultItem \in Items
  /\ lit \in BOOLEAN /\ up \in BOOLEAN /\ stretched \in BOOLEAN
  /\ posted \in Seq(Items)

Init ==
  /\ state = "normal" /\ fixed \in BOOLEAN /\ isWin11 \in BOOLEAN
  /\ menu = [item \in Items |-> "enabled"] /\ defaultItem = "Close"
  /\ lit = FALSE /\ up = FALSE /\ posted = <<>> /\ stretched = FALSE

-----------------------------------------------------------------------------
(* showSystemMenu()                                                         *)

\* What clients set to disable or remove an item: property() has its test of the window
\* turned round and answers with the default value.
getProperty(default) == default

Disabled(item) == getProperty(FALSE)
Removed(item) == getProperty(FALSE)

maxOrFull == state \in {"maximized", "fullscreen"}

Enabled(item) ==
  CASE item \in {"Close", "Minimize"} -> ~Disabled(item)
    [] item = "Maximize" -> ~maxOrFull /\ ~fixed /\ ~Disabled(item)
    [] item = "Restore"  -> maxOrFull /\ ~fixed /\ ~Disabled(item)
    [] item = "Size"     -> ~maxOrFull /\ ~fixed
                            /\ ~\E other \in {"Size", "Minimize", "Maximize"} : Disabled(other)
    [] item = "Move"     -> ~maxOrFull /\ ~Disabled(item)

\* What was removed once does not come back.
MenuOf ==
  [item \in Items |->
     IF Removed(item) \/ menu[item] = "gone" THEN "gone"
     ELSE IF Enabled(item) THEN "enabled" ELSE "disabled"]

\* SC_CLOSE when the item is missing, and also when SC_CLOSE itself is.
DefaultOf ==
  LET item == IF maxOrFull THEN "Restore" ELSE "Maximize"
  IN  IF isWin11 /\ ~Removed(item) /\ ~Removed("Close") THEN item ELSE "Close"

showSystemMenu(selectFirstEntry) ==
  /\ ~up
  /\ menu' = MenuOf
  /\ defaultItem' = DefaultOf
  /\ lit' = (selectFirstEntry /\ ~Removed("Restore"))
  /\ up' = TRUE
  /\ UNCHANGED <<state, fixed, isWin11, posted, stretched>>

\* The right button is released in the title bar, of the client area or not; or the
\* keys are pressed.
ByMouse == state # "fullscreen" /\ showSystemMenu(FALSE)
ByKeyboard == showSystemMenu(TRUE)

UnhighlightFault == lit
Unhighlight == lit /\ Removed("Restore")

Dismiss ==
  /\ up
  /\ up' = FALSE /\ lit' = Unhighlight
  /\ UNCHANGED <<state, fixed, isWin11, menu, defaultItem, posted, stretched>>

Choose(item) ==
  /\ up /\ menu[item] = "enabled"
  /\ Len(posted) < MaxPosted
  /\ up' = FALSE /\ lit' = Unhighlight
  /\ posted' = Append(posted, item)
  /\ UNCHANGED <<state, fixed, isWin11, menu, defaultItem, stretched>>

-----------------------------------------------------------------------------
(* Commands                                                                 *)

After(command) ==
  CASE command = "Maximize" -> "maximized"
    [] command = "Restore"  -> "normal"
    [] OTHER                -> state

\* WM_SYSCOMMAND: the filter of native events consumes what would maximize a window of
\* fixed size.
ConsumedFault(command) == command = "Maximize" /\ menu[command] = "disabled"
Consumed(command) == fixed /\ command = "Maximize"

WmSysCommand(command) ==
  /\ state' = IF Consumed(command) THEN state ELSE After(command)
  /\ stretched' = (stretched \/ (fixed /\ state # "maximized" /\ state' = "maximized"))
  /\ UNCHANGED <<fixed, isWin11, menu, defaultItem, lit, up>>

Retrieve ==
  /\ posted # <<>>
  /\ WmSysCommand(Head(posted))
  /\ posted' = Tail(posted)

\* In the title bar; not while the menu has the mouse.
DoubleClick ==
  /\ state # "fullscreen" /\ ~up
  /\ WmSysCommand(IF state = "normal" THEN "Maximize" ELSE "Restore")
  /\ UNCHANGED posted

\* The program changes its window, at any time.
SetWindow(s, f) ==
  /\ <<s, f>> # <<state, fixed>>
  /\ state' = s /\ fixed' = f
  /\ UNCHANGED <<isWin11, menu, defaultItem, lit, up, posted, stretched>>

Next ==
  \/ ByMouse \/ ByKeyboard \/ Dismiss \/ Retrieve \/ DoubleClick
  \/ \E item \in Items : Choose(item)
  \/ \E s \in States, f \in BOOLEAN : SetWindow(s, f)

Spec == Init /\ [][Next]_vars

-----------------------------------------------------------------------------
(* Properties                                                               *)

\* No command maximizes a window of fixed size, although it may have become one after
\* the menu was shown; the menu offers either to maximize or to restore, as its default
\* what can be chosen, unless the size is fixed; and it is left without a highlight
\* (qframelesshelper_win.cpp:308-426, 1140-1149).
MenuIsRight ==
  /\ ~stretched
  /\ lit => up
  /\ up => /\ "disabled" \in {menu["Maximize"], menu["Restore"]}
           /\ \/ menu[defaultItem] = "enabled"
              \/ \A item \in {"Maximize", "Restore", "Size"} : menu[item] = "disabled"
=============================================================================
