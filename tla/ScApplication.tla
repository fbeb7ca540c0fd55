--------------------------- MODULE ScApplication ---------------------------
(***************************************************************************)
(* The end of an application without a user interface. On Linux exec()     *)
(* waits for a condition that quit() and the handler of signals notify; on *)
(* Windows it dispatches the messages of a window that nobody sees, and a  *)
(* handler that the console calls in a thread of its own tells that window *)
(* to close and waits until it is gone. The mutex, the condition and the   *)
(* messages of Windows are external. There is no quit() on Windows.        *)
(***************************************************************************)
EXTENDS Naturals, Sequences, SequencesExt

CONSTANTS Quitters,    \* threads that call quit(), and signals
          Handlers     \* threads in which Windows calls the console's handler

VARIABLES linux,       \* the system
          self,        \* the application has been made
          main,        \* of the thread that calls exec(): "before", "locked", "waiting",
                       \* "woken", "dispatching" or "after"
          found,       \* the quitters that have read self and not yet notified
          reason,      \* history: why exec() stopped waiting
          hwnd,        \* "none", "open" or "destroyed"
          queue,       \* the messages for the window, and the end of the thread's
          handler      \* of each handler: "idle", "called", "posted" or "returned"

vars == <<linux, self, main, found, reason, hwnd, queue, handler>>
windowVars == <<hwnd, queue, handler>>
waitVars == <<found, reason>>

Init ==
  /\ linux \in BOOLEAN
  /\ self = FALSE /\ main = "before" /\ found = {} /\ reason = "none"
  /\ hwnd = "none" /\ queue = <<>> /\ handler = [h \in Handlers |-> "idle"]

-----------------------------------------------------------------------------
(* Linux                                                                    *)

Construct ==
  /\ linux /\ ~self /\ self' = TRUE
  /\ UNCHANGED <<linux, main, waitVars, windowVars>>

wait ==
  \/ /\ main = "before" /\ self /\ main' = "locked"
  \/ /\ main = "locked" /\ main' = "waiting"
  \/ /\ main = "woken" /\ main' = "after"

exec == linux /\ wait /\ UNCHANGED <<linux, self, waitVars, windowVars>>

\* quit(), by a thread or a signal; what comes before the wait is lost.
quit(q) ==
  /\ linux /\ self /\ q \notin found /\ main # "after"
  /\ found' = found \cup {q}
  /\ UNCHANGED <<linux, self, main, reason, windowVars>>

Notify(q) ==
  /\ q \in found /\ found' = found \ {q}
  /\ IF main = "waiting" THEN main' = "woken" /\ reason' = "notified" ELSE UNCHANGED <<main, reason>>
  /\ UNCHANGED <<linux, self, windowVars>>

\* A condition may end a wait on its own.
WakeUp ==
  /\ linux /\ main = "waiting" /\ main' = "woken" /\ reason' = "spurious"
  /\ UNCHANGED <<linux, self, found, windowVars>>

-----------------------------------------------------------------------------
(* Windows                                                                  *)

\* The console's handler is set before the window is made; setting it may fail.
SetHandler ==
  /\ ~linux /\ ~self /\ self' = TRUE
  /\ UNCHANGED <<linux, main, waitVars, windowVars>>

CreateWindow ==
  /\ ~linux /\ self /\ main = "before" /\ hwnd = "none" /\ hwnd' = "open"
  /\ UNCHANGED <<linux, self, main, waitVars, queue, handler>>

QuitMessageFault == <<>>
QuitMessage == <<"WM_QUIT">>

\* WM_CLOSE destroys the window, with the messages that are still there for it, and
\* WM_DESTROY, which that sends at once, posts the end of the loop.
WndProc(msg) == msg = "WM_CLOSE" /\ hwnd' = "destroyed" /\ queue' = QuitMessage

\* GetMessage() and DispatchMessage().
Dispatch ==
  /\ ~linux /\ self /\ main \in {"before", "dispatching"}
  /\ IF queue = <<>> THEN main' = "dispatching" /\ UNCHANGED <<queue, hwnd>>
     ELSE IF Head(queue) = "WM_QUIT" THEN main' = "after" /\ queue' = Tail(queue) /\ UNCHANGED hwnd
     ELSE main' = "dispatching" /\ WndProc(Head(queue))
  /\ UNCHANGED <<linux, self, waitVars, handler>>

\* CTRL_CLOSE_EVENT: of the user, and of the console when WndProc() closes it.
ConsoleCtrlHandler(h) ==
  /\ ~linux /\ self /\ handler[h] = "idle"
  /\ handler' = [handler EXCEPT ![h] = IF hwnd = "none" THEN "returned" ELSE "called"]
  /\ UNCHANGED <<linux, self, main, waitVars, hwnd, queue>>

PostClose(h) ==
  /\ handler[h] = "called" /\ handler' = [handler EXCEPT ![h] = "posted"]
  /\ queue' = IF hwnd = "open" THEN Append(queue, "WM_CLOSE") ELSE queue
  /\ UNCHANGED <<linux, self, main, waitVars, hwnd>>

\* IsWindow() is asked again and again.
SeeWindowGone(h) ==
  /\ handler[h] = "posted" /\ hwnd = "destroyed" /\ handler' = [handler EXCEPT ![h] = "returned"]
  /\ UNCHANGED <<linux, self, main, waitVars, hwnd, queue>>

Next ==
  \/ Construct \/ exec \/ WakeUp
  \/ \E q \in Quitters : quit(q) \/ Notify(q)
  \/ SetHandler \/ CreateWindow \/ Dispatch
  \/ \E h \in Handlers : ConsoleCtrlHandler(h) \/ PostClose(h) \/ SeeWindowGone(h)

-----------------------------------------------------------------------------
(* Properties                                                               *)

TypeOK ==
  /\ main \in {"before", "locked", "waiting", "woken", "dispatching", "after"}
  /\ found \subseteq Quitters /\ hwnd \in {"none", "open", "destroyed"}
  /\ Range(queue) \subseteq {"WM_CLOSE", "WM_QUIT"}

\* A handler that waits for the window to go finds it gone, or its message is still to
\* be dispatched; when the window is gone the loop has ended or will end, and nothing
\* else ends it.
CloseArrives ==
  /\ \A h \in Handlers :
       handler[h] = "posted" => hwnd = "destroyed" \/ "WM_CLOSE" \in Range(queue)
  /\ ~linux => (hwnd = "destroyed" <=> main = "after" \/ queue = <<"WM_QUIT">>)
  /\ linux /\ main = "after" => reason # "none"

=============================================================================
