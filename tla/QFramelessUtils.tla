-------------------------- MODULE QFramelessUtils --------------------------
(***************************************************************************)
(* What QtFrameless asks Windows: its version; the DPI awareness of        *)
(* the process and how it is raised; the DPI of a window and the sizes     *)
(* that depend on it; and the client rectangle of a window without a       *)
(* frame. The functions that Windows offers, by version, and what they     *)
(* answer are external.                                                    *)
(***************************************************************************)
EXTENDS Integers, Sequences, FiniteSets

USER_DEFAULT_SCREEN_DPI == 96

-----------------------------------------------------------------------------
(* DPI awareness. A process has a level, fixed once it has been set.        *)

\* The levels that Windows has, the best first; the third version of the functions
\* on contexts came with the fourth.
Levels == << "PerMonitorVersion2", "PerMonitor", "System", "Unaware_GdiScaled" >>

\* shcore has the levels of Windows 8.1 only.
Coarse(level) ==
  CASE level = "PerMonitorVersion2" -> "PerMonitor"
    [] level = "Unaware_GdiScaled"  -> "Unaware"
    [] OTHER                        -> level

Report(level, best) == [level |-> level, highest |-> level = best]

HasContexts(api) ==
  /\ api \cap {"GetDpiAwarenessContextForProcess", "GetThreadDpiAwarenessContext"} # {}
  /\ {"AreDpiAwarenessContextsEqual", "GetAwarenessFromDpiAwarenessContext"} \subseteq api

\* The context of the thread is asked for by the name of the function for processes:
\* a system that has the one and not the other has a null pointer called.
CallsNull(api) == HasContexts(api) /\ "GetDpiAwarenessContextForProcess" \notin api

getDpiAwarenessForCurrentProcess(api, level) ==
  IF HasContexts(api) THEN Report(level, "PerMonitorVersion2")
  ELSE IF "GetProcessDpiAwareness" \in api THEN Report(Coarse(level), "PerMonitor")
  ELSE IF "IsProcessDPIAware" \in api
    THEN Report(IF level = "Unaware" THEN "Unaware" ELSE "System", "System")
  ELSE [level |-> "Unknown", highest |-> FALSE]

SettleFault(process, current, accepted) ==
  IF process.isSet \/ current = "System" THEN process ELSE [level |-> "System", isSet |-> TRUE]

\* From the best level down, until the process has it, or gets it, or may not change
\* it any more, which counts as success too. Every Windows accepts "System".
Settle(process, current, accepted) ==
  LET done == {i \in DOMAIN Levels : Levels[i] = current \/ process.isSet \/ Levels[i] \in accepted}
      best == CHOOSE i \in done : \A j \in done : i <= j
  IN  IF process.isSet \/ Levels[best] = current THEN process
      ELSE [level |-> Levels[best], isSet |-> TRUE]

tryToEnableHighestDpiAwarenessLevel(windows, process) ==
  LET report == getDpiAwarenessForCurrentProcess(windows.api, process.level)
  IN  IF report.highest THEN process
      ELSE IF "SetProcessDpiAwarenessContext" \in windows.api
        THEN Settle(process, report.level, windows.contexts)
      ELSE IF "SetProcessDpiAwareness" \in windows.api
        THEN Settle(process, report.level, {"PerMonitor", "System"})
      ELSE process                    \* SetProcessDPIAware() is looked up, and never called

\* A process whose level nothing has fixed gets the best that its Windows has, and one
\* whose level is fixed keeps it. Left out are the systems on which a null pointer is
\* called, and of the first half those that have SetProcessDPIAware() only.
AwarenessIsHighest(windows, process) ==
  LET after == tryToEnableHighestDpiAwarenessLevel(windows, process)
  IN  ~CallsNull(windows.api) =>
        /\ process.isSet => after = process
        /\ ~process.isSet /\ {"SetProcessDpiAwareness", "SetProcessDpiAwarenessContext"} \cap windows.api # {} =>
             after.level = windows.best

-----------------------------------------------------------------------------
(* DPI and the sizes that depend on it                                      *)

Round(n, k) == (2 * n + k) \div (2 * k)

\* The first way that is there and gives something.
FirstOf(ways) ==
  LET good == {i \in DOMAIN ways : ways[i] > 0}
  IN  IF good = {} THEN 0 ELSE ways[CHOOSE i \in good : \A j \in good : i <= j]

\* GetDpiForMonitor, the scale of the monitor in percent, the device's capabilities,
\* Direct2D, and those of the screen; 0 where a function is missing or fails.
getPrimaryScreenDpi(s) ==
  LET dpi == FirstOf(<<s.monitorDpi, Round(USER_DEFAULT_SCREEN_DPI * s.scaleFactor, 100),
                       s.deviceCaps, s.desktopDpi, s.screenCaps>>)
  IN  IF dpi > 0 THEN dpi ELSE USER_DEFAULT_SCREEN_DPI

\* Windows 10 knows the DPI of a window.
getWindowDpi(s) == FirstOf(<<s.windowDpi, getPrimaryScreenDpi(s)>>)

\* GetSystemMetricsForDpi, of Windows 10, and GetSystemMetrics.
ForDpi(size, dpi) == Round(size * dpi, USER_DEFAULT_SCREEN_DPI)

getSystemMetricsForDpi(s, size, dpi) == IF s.forDpi THEN ForDpi(size, dpi) ELSE 0

getSystemMetrics(s, size, scaled) ==
  LET real   == getWindowDpi(s)
      result == getSystemMetricsForDpi(s, size, IF scaled THEN real ELSE USER_DEFAULT_SCREEN_DPI)
      system == ForDpi(size, s.systemDpi)
  IN  IF result > 0 THEN result
      ELSE IF scaled THEN system
      ELSE Round(system * USER_DEFAULT_SCREEN_DPI, real)

\* A size is the one of the window's screen, or the one of 96 DPI, to the pixel; left out
\* are windows on another screen than the system's for a Windows that cannot tell.
MetricsAreRight(s, size) ==
  s.forDpi \/ getWindowDpi(s) = s.systemDpi =>
    /\ getSystemMetrics(s, size, TRUE) = ForDpi(size, getWindowDpi(s))
    /\ getSystemMetrics(s, size, FALSE) - size \in -1 .. 1

-----------------------------------------------------------------------------
(* The client rectangle. A rectangle is [left, top, right, bottom].         *)

\* The bottom is compared with itself: a window at the top and as wide as the screen is
\* full-screen, however high.
isFullScreen(windowRect, monitor) ==
  \A side \in {"left", "top", "right"} : windowRect[side] = monitor[side]

isWindowFrameBorderVisible(w) == w.isWin11

Inset(rect, margin) ==
  [left |-> rect.left + margin.left, top |-> rect.top + margin.top,
   right |-> rect.right - margin.right, bottom |-> rect.bottom - margin.bottom]

Edges == << "top", "bottom", "left", "right" >>

\* A taskbar that hides leaves 2 pixels free to be found again, at the first edge that
\* has one. Before Windows 8.1 one edge is known, if it is of the window's screen.
HiddenEdge(autohide) ==
  LET found == {i \in DOMAIN Edges : Edges[i] \in autohide}
  IN  IF found = {} THEN "none" ELSE Edges[CHOOSE i \in found : \A j \in found : i <= j]

Strip(autohide) == [side \in {"left", "top", "right", "bottom"} |-> IF side = HiddenEdge(autohide) THEN 2 ELSE 0]

ClientRectFault(w) ==
  LET frame == [left |-> w.frame, top |-> w.frame, right |-> w.frame, bottom |-> w.frame]
  IN  IF w.zoomed THEN Inset([w.rect EXCEPT !.top = @ - 1], frame) ELSE [w.rect EXCEPT !.top = @ - 1]

\* WM_NCCALCSIZE for the proposed rectangle w.rect, of which DefWindowProc() takes the
\* frame; when that gives 0, and the screens can be asked for. Whether the window is
\* full-screen is asked of w.before, which it has until then.
ClientRect(w) ==
  LET frame == [left |-> w.frame, top |-> w.frame, right |-> w.frame, bottom |-> w.frame]
      full  == isFullScreen(w.before, w.monitor)
      base  == IF isWindowFrameBorderVisible(w) THEN [Inset(w.rect, frame) EXCEPT !.top = w.rect.top]
               ELSE [w.rect EXCEPT !.top = @ - 1]
      inner == IF w.zoomed /\ ~full THEN Inset(base, frame) ELSE base
  IN  IF w.zoomed \/ full THEN Inset(inner, Strip(w.autohide)) ELSE inner

\* A maximized window exceeds its screen by its frame on every side; what it shows does
\* not, but for one row at the top where Windows draws no border, covers the screen
\* there, and lets a hidden taskbar be found. Left out is one that was full-screen before:
\* it keeps its frame.
Zoomed(screen, frame) ==
  [left |-> screen.left - frame, top |-> screen.top - frame,
   right |-> screen.right + frame, bottom |-> screen.bottom + frame]

ClientRectIsRight(w) ==
  LET client == ClientRect(w)
      hidden == HiddenEdge(w.autohide)
      row    == IF w.isWin11 THEN 0 ELSE 1
      room   == [top    |-> client.top + row - w.monitor.top,  left |-> client.left - w.monitor.left,
                 bottom |-> w.monitor.bottom - client.bottom, right |-> w.monitor.right - client.right]
  IN  w.rect = Zoomed(w.monitor, w.frame) /\ w.zoomed /\ ~isFullScreen(w.before, w.monitor) =>
        /\ \A side \in DOMAIN room : room[side] >= IF side = hidden THEN 2 ELSE 0
        /\ ~w.isWin11 => \A side \in DOMAIN room : room[side] = IF side = hidden THEN 2 ELSE 0

-----------------------------------------------------------------------------
(* Versions of Windows: major, minor and micro number. The helper remembers for *)
(* every version of its table whether the system is that one or a later one.   *)

\* From Windows 2000 to Windows 11 Version 22H2.
WindowsVersions ==
  << <<5, 0, 2195>>, <<5, 1, 2600>>, <<5, 2, 3790>>, <<6, 0, 6000>>, <<6, 0, 6001>>, <<6, 0, 6002>>,
     <<6, 1, 7600>>, <<6, 1, 7601>>, <<6, 2, 9200>>, <<6, 3, 9200>>, <<6, 3, 9600>>,
     <<10, 0, 10240>>, <<10, 0, 10586>>, <<10, 0, 14393>>, <<10, 0, 15063>>, <<10, 0, 16299>>,
     <<10, 0, 17134>>, <<10, 0, 17763>>, <<10, 0, 18362>>, <<10, 0, 18363>>, <<10, 0, 19041>>,
     <<10, 0, 19042>>, <<10, 0, 19043>>, <<10, 0, 19044>>, <<10, 0, 19045>>, <<10, 0, 22000>>,
     <<10, 0, 22621>> >>

\* WinVersion starts at 0.
WV_Latest == Len(WindowsVersions) - 1
WinVersion == 0 .. WV_Latest
VersionNumber(version) == WindowsVersions[version + 1]

GreaterFault(lhs, rhs) == lhs[1] > rhs[1] \/ lhs[2] > rhs[2] \/ lhs[3] > rhs[3]
Greater(lhs, rhs) ==
  \/ lhs[1] > rhs[1]
  \/ lhs[1] = rhs[1] /\ lhs[2] > rhs[2]
  \/ lhs[1] = rhs[1] /\ lhs[2] = rhs[2] /\ lhs[3] > rhs[3]

\* Of the system's own number; if ntdll does not tell it, Windows compares.
isWindowsVersionOrGreater(current, version) ==
  current = VersionNumber(version) \/ Greater(current, VersionNumber(version))

\* fill() of the latest version that the system is or is after; it has no effect for
\* the first of the table.
Fill(no) == [i \in WinVersion |-> no > 0 /\ i <= no]

initialize(current) ==
  LET passed == {i \in WinVersion : isWindowsVersionOrGreater(current, i)}
  IN  IF passed = {} THEN Fill(0)
      ELSE Fill(CHOOSE no \in passed : \A i \in passed : i <= no)

\* isWinXXXOrGreater() for every entry of the table.
check(current) == initialize(current)

-----------------------------------------------------------------------------

\* A version as one number.
Rank(v) == (v[1] * 100 + v[2]) * 100000 + v[3]

\* Every version of the table is recognised from its first build on, and none before.
\* Left out is the first, which is recognised together with the second only.
VersionsAreRight(current) ==
  \A i \in WinVersion \ {0} : check(current)[i] <=> Rank(current) >= Rank(VersionNumber(i))

\* The builds around every entry of the table, and versions between them.
SomeVersions ==
  {<<0, 0, 0>>, <<4, 90, 3000>>, <<6, 4, 100>>, <<7, 0, 0>>, <<10, 1, 0>>, <<11, 0, 0>>}
    \cup {<<WindowsVersions[i][1], WindowsVersions[i][2], WindowsVersions[i][3] + k>> :
            i \in DOMAIN WindowsVersions, k \in {-1, 0, 1}}
=============================================================================
