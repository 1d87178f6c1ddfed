------------------------------ MODULE Vivante ------------------------------
(***************************************************************************)
(* The graphics interface on the i.MX6 (gil_imx6_vivante.c): that of Gles2 *)
(* on a display without a window system, and a verification that reads the *)
(* memory of the display.  A state has the fields of Gles2 and             *)
(*   open, mapped   the device of the memory, and its mapping              *)
(*   fbWasInited    whether both can be used.                              *)
(* The faults "fbopen", "fbinfo" and "fbmap" are those of the device.      *)
(*                                                                         *)
(* Most functions read the same in both files; they blend besides, which   *)
(* shows nothing new where the three points of a lamp are opaque.          *)
(***************************************************************************)
EXTENDS Gles2

CONSTANTS
  Lamps,              \* the places whose lamps the constants describe
  Expected            \* the look of each of them: its three points

\* loadFrameBufferDevice: what was opened stays open when a later step fails.
LoadFrameBufferDevice(faults) ==
  [open   |-> "fbopen" \notin faults,
   mapped |-> faults \cap {"fbopen", "fbinfo", "fbmap"} = {}]

\* gilInit; without a native display the default display of EGL is used.
VivInit(faults, refused) ==
  LET g  == GilInit(faults, refused)
      fb == LoadFrameBufferDevice(faults)
  IN  [f \in DOMAIN g \cup {"open", "mapped", "fbWasInited"} |->
         CASE f = "open" -> fb.open
           [] f \in {"mapped", "fbWasInited"} -> fb.mapped
           [] OTHER -> g[f]]

\* gilUninit closes only what was initialised to the end.
VivUninit(v) == IF v.fbWasInited THEN [v EXCEPT !.open = FALSE, !.mapped = FALSE] ELSE v

VivLoadProgram(v, p) == LoadProgram(v, p)
VivCreateContext(v) == GilCreateContext(v)

\* getNativeDisplay and getNativeWindow: without the one there is not the other.
NativeWindow(v) == "native" \notin v.faults

\* gilCreateWindow
VivCreateWindow(v) ==
  LET made == v.config /\ NativeWindow(v) /\ "surface" \notin v.faults
  IN  [EglReturn(v, "SUCCESS") EXCEPT !.window = made]

VivSetSurface(v) == GilSetSurface(v)
VivSetColor(v, look) == GilSetColor(v, look)
VivCreateTexture(v) == GilCreateTexture(v)
VivLoadTexture(v, t, image, enough) == GilLoadTexture(v, t, image, enough)
VivBindTexture(v, t) == GilBindTexture(v, t)
VivClear(v) == GilClear(v)
VivDrawArea(v, x) == GilDrawArea(v, x)
VivDrawQuad(v, x) == GilDrawQuad(v, x)

\* getPixelFromFB: the first page of the memory, whichever is displayed.
PixelFromFB(v, x) == v.pages[0][x]

\* checkPoints, of the lamp at the place x.
CheckPoints(v, x) == PixelFromFB(v, x) = Expected[x]

\* Mutant: the back buffer is read.
VerifyBack(v, x) == v.fbWasInited /\ x \in Lamps /\ v.back[x] = Expected[x]

\* gilVerify knows the lamps by their first coordinate; neither the bound
\* texture nor the other coordinates are looked at.
VivVerify(v, x) == v.fbWasInited /\ x \in Lamps /\ CheckPoints(v, x)

VivSwapBuffers(v, kept) == GilSwapBuffers(v, kept)
VivGetError(v) == GilGetError(v)
VivHandleWindowEvents(v) == FALSE
=============================================================================
