------------------------------- MODULE Win32 -------------------------------
(***************************************************************************)
(* The software renderer in a window of Windows instead of a memory.  A    *)
(* swap copies nothing: it marks the window, and handling its messages     *)
(* paints the buffer, whatever is in it by then.  The screen of this       *)
(* platform is the client area of the window, which nobody resizes.        *)
(***************************************************************************)
EXTENDS SwRenderer

\* gilInit: RegisterClassEx may fail.  painted: there is nothing left to paint.
WinInit(config) == [GilInit(config) EXCEPT !.screen.painted = TRUE]

\* gilSurfaceToSWSurface: the buffer begins at its corner, where the window is
\* does not matter to it.
WinSurface(valid, w, h, fill) ==
  [valid |-> valid, x |-> 0, y |-> 0, w |-> w, h |-> h, stride |-> w, size |-> w * h,
   aligned |-> TRUE, format |-> "BGRA_8888", mem |-> [i \in 0..w*h-1 |-> fill]]

\* gilCreateWindow: without the class there is no surface, and when CreateWindowEx
\* fails one that stays invalid.
WinCreateWindow(g, x, y, w, h, fill) ==
  IF x >= 0 /\ y >= 0 /\ w > 0 /\ h > 0 /\ ~g.window.valid /\ g.screen.class
  THEN [g EXCEPT !.screen.painted = ~g.screen.creates,
                 !.window = WinSurface(g.screen.creates, w, h, fill)]
  ELSE Asserted(g)

\* gilIsValidSurface.
IsWindow(g, s) == s = 1 /\ g.window.valid

\* InvalidateRect: until it is painted the window shows what it showed before, or
\* nothing; no call reads it, so that one value stands for both.
Invalidated(g) ==
  [g EXCEPT !.screen.mem = [i \in DOMAIN @ |-> Unknown], !.screen.painted = FALSE]

\* gilSwapBuffers.
WinSwapBuffers(g, s) == IF IsWindow(g, s) THEN Invalidated(g) ELSE Asserted(g)

\* WndProc, WM_PAINT: the whole buffer is shown.
WndProc(g) == [g EXCEPT !.screen.mem = g.window.mem, !.screen.painted = TRUE]

\* gilHandleWindowEvents, with the result dropped: until no message is left.
WinHandleEvents(g) == IF g.screen.painted THEN g ELSE WndProc(g)

\* The user covers the window and uncovers it.
WinUncover(g) == IF IsWindow(g, 1) THEN Invalidated(g) ELSE g
=============================================================================
