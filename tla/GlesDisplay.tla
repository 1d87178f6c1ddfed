---------------------------- MODULE GlesDisplay ----------------------------
(***************************************************************************)
(* A user of the graphics interface on OpenGL ES: textures are loaded,     *)
(* frames are drawn and swapped, lamps verified and errors asked for, in   *)
(* the order the engine has (DisplayManager, Canvas, Window).  Each call   *)
(* is made to gil.c (es) and to gil_imx6_vivante.c (viv) side by side, on  *)
(* drivers with the same faults.                                           *)
(*                                                                         *)
(* Neither file has the gilTexPixels and gilSync the engine calls: it does *)
(* not link with them as they are.  What Texture::load does is done with   *)
(* the gilLoadTexture they have.                                           *)
(***************************************************************************)
EXTENDS Vivante

CONSTANTS
  FaultSets,          \* the faults and the steps refused that are looked at, in pairs
  Images,             \* the images textures are loaded with, [look, pot]
  MaxTextures         \* bound: textures that are loaded

\* What is seen of a lamp is not the black of a texture without image: none of
\* the points of the lamps is (imx6_demonstartor_constants.h).
ASSUME GlesAssumption ==
  /\ MaxTextures \in Nat /\ 0..MaxTextures \subseteq Names
  /\ Looks \cap {"black", "clear", "undefined", "nothing"} = {}
  /\ Lamps \subseteq Places /\ Expected \in [Lamps -> Looks]
  /\ Images \subseteq [look : Looks, pot : BOOLEAN]

VARIABLES
  es, viv,
  phase,              \* "context", "window", "idle", "drawing", "verifying", "over"
  handles,            \* the textures of the user: [handle, image, enough]
  drawn,              \* what was asked to be drawn since the last clear, by place
  shown, before,      \* the same of the two frames swapped last
  last                \* the last call that was answered, for what, and the answers

glesVars == <<es, viv, phase, handles, drawn, shown, before, last>>

Nothing == Blank("nothing")
Answered(call, of, a, b) == [call |-> call, of |-> of, es |-> a, viv |-> b]
NoAnswer == Answered("none", 0, "none", "none")

GlesInit ==
  \E f \in FaultSets :
    /\ es = GilInit(f[1], f[2])
    /\ viv = VivInit(f[1], f[2])
    /\ phase = "context"
    /\ handles = <<>>
    /\ drawn = Nothing /\ shown = Nothing /\ before = Nothing
    /\ last = NoAnswer

CreateContext ==
  /\ phase = "context" /\ phase' = "window"
  /\ es' = GilCreateContext(es)
  /\ viv' = VivCreateContext(viv)
  /\ UNCHANGED <<handles, drawn, shown, before, last>>

CreateWindow ==
  /\ phase = "window" /\ phase' = "idle"
  /\ es' = GilCreateWindow(es)
  /\ viv' = VivCreateWindow(viv)
  /\ UNCHANGED <<handles, drawn, shown, before, last>>

\* A texture is created and filled; for large ones the memory may not do.
LoadTexture(image, enough) ==
  /\ phase = "idle" /\ Len(handles) < MaxTextures
  /\ \E t \in NewTextures(viv) :
       /\ es' = GilLoadTexture(GilCreateTexture(es), t, image, enough)
       /\ viv' = VivLoadTexture(VivCreateTexture(viv), t, image, enough)
       /\ handles' = Append(handles, [handle |-> t, image |-> image, enough |-> enough])
  /\ last' = NoAnswer
  /\ UNCHANGED <<phase, drawn, shown, before>>

\* WindowCanvas::makeCurrent and Canvas::clear.
BeginFrame ==
  /\ phase = "idle" /\ phase' = "drawing"
  /\ es' = GilClear(GilSetColor(GilSetSurface(es), "black"))
  /\ viv' = VivClear(VivSetColor(VivSetSurface(viv), "black"))
  /\ drawn' = Nothing
  /\ last' = NoAnswer
  /\ UNCHANGED <<handles, shown, before>>

\* Canvas::drawBitmap.
DrawBitmap(i, x) ==
  /\ phase = "drawing" /\ i <= Len(handles)
  /\ es' = GilDrawQuad(GilBindTexture(es, handles[i].handle), x)
  /\ viv' = VivDrawQuad(VivBindTexture(viv, handles[i].handle), x)
  /\ drawn' = [drawn EXCEPT ![x] = handles[i].image.look]
  /\ last' = NoAnswer
  /\ UNCHANGED <<phase, handles, shown, before>>

\* gilDrawArea, which the engine never calls.
DrawArea(x) ==
  /\ phase = "drawing"
  /\ es' = GilDrawArea(es, x)
  /\ viv' = VivDrawArea(viv, x)
  /\ drawn' = [drawn EXCEPT ![x] = "black"]
  /\ last' = NoAnswer
  /\ UNCHANGED <<phase, handles, shown, before>>

SwapBuffers(kept) ==
  /\ phase = "drawing" /\ phase' = "idle"
  /\ es' = GilSwapBuffers(es, kept)
  /\ viv' = VivSwapBuffers(viv, kept)
  /\ shown' = drawn /\ before' = shown
  /\ last' = Answered("swap", 0, "none", "none")
  /\ UNCHANGED <<handles, drawn>>

\* Window::verify, the beginning: the surface is set, and cleared, once more.
BeginVerify ==
  /\ phase = "idle" /\ phase' = "verifying"
  /\ es' = GilSetSurface(es)
  /\ viv' = VivSetSurface(viv)
  /\ drawn' = Nothing
  /\ last' = NoAnswer
  /\ UNCHANGED <<handles, shown, before>>

\* Canvas::verify.
VerifyBitmap(i, x) ==
  /\ phase = "verifying" /\ i <= Len(handles)
  /\ es' = GilBindTexture(es, handles[i].handle)
  /\ viv' = VivBindTexture(viv, handles[i].handle)
  /\ last' = Answered("verify", x, GilVerify(es, x), VivVerify(viv, x))
  /\ UNCHANGED <<phase, handles, drawn, shown, before>>

EndVerify ==
  /\ phase = "verifying" /\ phase' = "idle"
  /\ UNCHANGED <<es, viv, handles, drawn, shown, before, last>>

\* DisplayManager::getError, which the engine asks between its frames.
GetError ==
  /\ phase = "idle"
  /\ es' = GilGetError(es).gil
  /\ viv' = VivGetError(viv).gil
  /\ last' = Answered("error", 0, GilGetError(es).error, VivGetError(viv).error)
  /\ UNCHANGED <<phase, handles, drawn, shown, before>>

\* Only the second file has gilUninit.
Uninit ==
  /\ phase = "idle" /\ phase' = "over"
  /\ viv' = VivUninit(viv)
  /\ last' = NoAnswer
  /\ UNCHANGED <<es, handles, drawn, shown, before>>

GlesNext ==
  \/ CreateContext \/ CreateWindow
  \/ \E image \in Images, enough \in BOOLEAN : LoadTexture(image, enough)
  \/ BeginFrame \/ BeginVerify \/ EndVerify \/ GetError \/ Uninit
  \/ \E x \in Places : DrawArea(x)
  \/ \E i \in 1..MaxTextures, x \in Places : DrawBitmap(i, x) \/ VerifyBitmap(i, x)
  \/ \E kept \in BOOLEAN : SwapBuffers(kept)

GlesSpec == GlesInit /\ [][GlesNext]_glesVars

-----------------------------------------------------------------------------
\* The types of the parts of a state that change.
RendererOK(g) ==
  /\ g.current \in {"none", "context", "surface"}
  /\ g.gl \in {"NO_ERROR", "OUT_OF_MEMORY", "INVALID_OPERATION", "INVALID_FRAMEBUFFER_OPERATION"}
  /\ g.egl \in {"SUCCESS", "BAD_DISPLAY", "BAD_MATCH", "BAD_SURFACE"}
  /\ g.shaders \subseteq Programs \X {"vertex", "fragment"}
  /\ g.bound \in Names /\ g.images \in [Names -> Images \cup {NoImage}]
  /\ g.page \in 0..1
  /\ g.back \in [Places -> Seen] /\ g.pages \in [0..1 -> [Places -> Seen]]

GlesTypeOK == RendererOK(es) /\ RendererOK(viv) /\ Len(handles) <= MaxTextures

Usable(g) == g.display /\ g.context /\ g.window

\* Something was asked to be drawn in a frame for which there is no program.
Lacks(g, frame) ==
  \/ ~g.program["texture"] /\ \E x \in Places : frame[x] \in Looks
  \/ ~g.program["color"] /\ \E x \in Places : frame[x] = "black"

\* Each failure of the set up is only logged when it happens, and the process goes on.
\* It still shows later.  Without a display, a context or a window every frame ends with
\* an error for the one who asks then.  A program that is missing, because it was refused
\* or the context could not be made current, is never told: but every frame that needed
\* it leaves an error in the log.  And no lamp is found on the display of a set up which
\* lacks one of these, or the device of its memory (gilInit, gilCreateContext,
\* gilCreateWindow, gilSwapBuffers, gilGetError, gilVerify).
SetupFailureShows ==
  /\ last.call = "swap" =>
       /\ ~Usable(es) /\ ~es.crashed => GilGetError(es).error # "NO_ERROR"
       /\ ~Usable(viv) => VivGetError(viv).error # "NO_ERROR"
       /\ \A g \in {es, viv} : Usable(g) /\ Lacks(g, shown) => g.log # "NO_ERROR"
  /\ last.call = "verify" /\ last.viv =>
       Usable(viv) /\ viv.program["texture"] /\ viv.fbWasInited

\* An error of GL vanishes only into the answer of gilGetError or into the log
\* of gilSwapBuffers.
GlErrorsTold ==
  /\ es.gl # "NO_ERROR" /\ es'.gl = "NO_ERROR" => es.gl \in {last'.es, es'.log}
  /\ viv.gl # "NO_ERROR" /\ viv'.gl = "NO_ERROR" => viv.gl \in {last'.viv, viv'.log}

GlErrorsAreTold == [][GlErrorsTold]_glesVars

\* The lamp at x was to be seen in a frame; without its program an area does not
\* cover it.
AskedFor(frame, x) ==
  frame[x] = Expected[x] \/ (frame[x] = "black" /\ ~viv.program["color"])

\* What the verification of the display's memory says of a lamp: when it is
\* there, its image was asked for in the frame swapped last, or in the one before
\* if there are two pages; and on a driver without faults it is there when its
\* image was asked for.  The clear by the verification itself changes nothing.
VerdictTells ==
  last.call = "verify" =>
    LET x == last.of
    IN  /\ last.viv => \/ AskedFor(shown, x)
                       \/ "panned" \in viv.faults /\ AskedFor(before, x)
        /\ viv.faults \cup viv.refused = {} /\ x \in Lamps /\ (\A i \in 1..Len(handles) : handles[i].enough) =>
             (shown[x] = Expected[x] => last.viv)

\* No shader is left behind by a program that could be made, and when all is
\* over the memory of the display is let go, unless opening it failed halfway.
LeaksOnlyOnFailure ==
  /\ \A g \in {es, viv}, p \in Programs :
       g.program[p] => ~\E kind \in {"vertex", "fragment"} : <<p, kind>> \in g.shaders
  /\ phase = "over" =>
       /\ ~viv.mapped
       /\ viv.open => {"fbinfo", "fbmap"} \cap viv.faults # {}
=============================================================================
