------------------------------- MODULE Gles2 -------------------------------
(***************************************************************************)
(* The graphics interface on OpenGL ES 2 and EGL (gil.c).  The state is    *)
(* one record and each call an operator on it, as in SwRenderer.           *)
(*                                                                         *)
(* What the driver lacks or refuses is the set "faults" of the state: of   *)
(* the set up                                                              *)
(*   "native", "display", "config", "context", "surface"                   *)
(* the step that fails; of the driver                                      *)
(*   "surfaceless"  a context is not made current without a surface        *)
(*   "npot"         textures repeat only if their sides are powers of two  *)
(*   "locations"    the linker numbers the attributes the other way        *)
(*   "panned"       the display flips between two pages of its memory.     *)
(* "refused" are the steps <<program, step>> of the shaders that fail.      *)
(* No set up failure stops gil.c: it is logged, and the handles returned   *)
(* are never null.                                                         *)
(*                                                                         *)
(* A picture says what is seen at each of the Places a texture is drawn    *)
(* at; both error flags are those of GL (the first error stays) and of EGL *)
(* (each call sets it).                                                    *)
(***************************************************************************)
EXTENDS Integers, Sequences

CONSTANTS
  Places,             \* where quads are drawn, far enough from each other
  Names,              \* bound: the names of textures, 0 is the default texture
  Looks               \* what the images look like

Programs == {"color", "texture"}
Steps == {"createVertex", "createFragment", "compileVertex", "compileFragment",
          "createProgram", "link"}

Blank(seen) == [x \in Places |-> seen]

\* What is seen of a texture that is not complete, of a surface that was
\* cleared, and of one whose contents are not defined.
Seen == Looks \cup {"black", "clear", "undefined"}

NoImage == [look |-> "black", pot |-> FALSE]

-----------------------------------------------------------------------------
(* GL and EGL.                                                             *)

\* An error is kept until it is read; without a context there is no flag.
GlRaise(g, error) ==
  IF g.current # "none" /\ g.gl = "NO_ERROR" THEN [g EXCEPT !.gl = error] ELSE g

EglReturn(g, error) == [g EXCEPT !.egl = error]

\* A command that writes pixels needs a surface.
Painted(g, back) ==
  IF g.current = "surface" THEN [g EXCEPT !.back = back]
  ELSE GlRaise(g, "INVALID_FRAMEBUFFER_OPERATION")

\* glClear: always with the colour of glClearColor, transparent black.
GlClear(g) == Painted(g, Blank("clear"))

-----------------------------------------------------------------------------
(* gilInit, and the shaders.                                               *)

\* gilInit.  That no configuration fits is no error of EGL.
GilInit(faults, refused) ==
  [faults |-> faults, refused |-> refused, crashed |-> FALSE,
   display |-> "display" \notin faults,
   config |-> faults \cap {"display", "config"} = {},
   context |-> FALSE, window |-> FALSE, current |-> "none",
   egl |-> IF "display" \in faults THEN "BAD_DISPLAY" ELSE "SUCCESS",
   gl |-> "NO_ERROR", log |-> "NO_ERROR",
   program |-> [p \in Programs |-> FALSE], shaders |-> {},
   names |-> 0, images |-> [t \in Names |-> NoImage], bound |-> 0, colour |-> "black",
   back |-> Blank("undefined"), pages |-> [i \in 0..1 |-> Blank("undefined")], page |-> 0]

\* Mutant: the vertex shader stays when the fragment shader is refused.
LoadProgramLeaky(g, p) ==
  LET fails(step) == <<p, step>> \in g.refused
      left == CASE fails("createVertex") -> {}
                [] fails("createFragment")  -> {<<p, "vertex">>}
                [] OTHER -> {<<p, "vertex">>, <<p, "fragment">>}
  IN  IF g.current = "none" THEN g
      ELSE [g EXCEPT !.program[p] = \A step \in Steps : ~fails(step), !.shaders = @ \cup left]

\* loadProgramSource: whether there is a program, and the shaders that are left.
\* The fragment shader is forgotten when the vertex shader does not compile, and
\* both when there is no program or it does not link.
LoadProgram(g, p) ==
  LET fails(step) == <<p, step>> \in g.refused
      left == CASE fails("createVertex")    -> {}
                [] fails("createFragment")  -> {}
                [] fails("compileVertex")   -> {<<p, "fragment">>}
                [] fails("compileFragment") -> {}
                [] fails("createProgram") \/ fails("link") -> {<<p, "vertex">>, <<p, "fragment">>}
                [] OTHER -> {}
  IN  IF g.current = "none" THEN g
      ELSE [g EXCEPT !.program[p] = \A step \in Steps : ~fails(step), !.shaders = @ \cup left]

\* gilCreateContext.  Making no context current succeeds, so that the error of
\* its creation is gone; the errors of the missing programs are logged.
GilCreateContext(g) ==
  LET made == g.config /\ "context" \notin g.faults
      bare == "surfaceless" \notin g.faults
      egl  == IF ~g.display THEN "BAD_DISPLAY"
              ELSE IF made /\ ~bare THEN "BAD_MATCH" ELSE "SUCCESS"
      h    == [EglReturn(g, egl) EXCEPT !.context = made,
                 !.current = IF made /\ bare THEN "context" ELSE "none"]
  IN  LoadProgram(LoadProgram(h, "color"), "texture")

\* getNativeWindow: without a connection the X server is asked all the same.
GetNativeWindow(g) == [g EXCEPT !.crashed = @ \/ "native" \in g.faults]

\* gilCreateWindow; the error of EGL is read, for the log.
GilCreateWindow(g) ==
  LET made == g.config /\ "surface" \notin g.faults
      h    == GetNativeWindow(g)
  IN  IF h.crashed THEN h ELSE [EglReturn(h, "SUCCESS") EXCEPT !.window = made]

-----------------------------------------------------------------------------
(* The calls of a frame.                                                   *)

\* eglMakeCurrent of the window and the context, each of which may be missing:
\* with neither it succeeds.
MakeCurrent(g) ==
  LET error == CASE ~g.display -> "BAD_DISPLAY"
                 [] g.context /\ ~g.window /\ "surfaceless" \in g.faults -> "BAD_MATCH"
                 [] ~g.context /\ g.window -> "BAD_MATCH"
                 [] OTHER -> "SUCCESS"
      h == EglReturn(g, error)
  IN  IF error # "SUCCESS" \/ ~g.context THEN h
      ELSE [h EXCEPT !.current = IF g.window THEN "surface" ELSE "context"]

\* gilSetSurface; it clears the surface.
GilSetSurface(g) == GlClear(MakeCurrent(g))

GilSetColor(g, look) == [g EXCEPT !.colour = look]

\* Mutant: the handle is the name of the texture after the one that was made.
NextTextures(g) == IF g.current = "none" THEN Names ELSE {g.names + 2}

\* The handle gilCreateTexture returns: without a context a local variable that
\* nothing was written to.
NewTextures(g) == IF g.current = "none" THEN Names ELSE {g.names + 1}
GilCreateTexture(g) == IF g.current = "none" THEN g ELSE [g EXCEPT !.names = @ + 1]

GilBindTexture(g, t) == IF g.current = "none" THEN g ELSE [g EXCEPT !.bound = t]

\* gilLoadTexture, which is successful whatever GL says; the texture is bound.
GilLoadTexture(g, t, image, enough) ==
  LET h == GilBindTexture(g, t)
  IN  IF g.current = "none" THEN h
      ELSE IF enough THEN [h EXCEPT !.images[t] = image]
      ELSE GlRaise(h, "OUT_OF_MEMORY")

GilClear(g) == GlClear(g)

\* Mutant: without a program the call returns.
WithProgramQuietly(g, p, back) == IF g.program[p] THEN Painted(g, back) ELSE g

\* Without a program the uniforms cannot be set, and what is drawn is nothing.
WithProgram(g, p, back) ==
  IF g.program[p] THEN Painted(g, back)
  ELSE Painted(GlRaise(g, "INVALID_OPERATION"), g.back)

GilDrawArea(g, x) == WithProgram(g, "color", [g.back EXCEPT ![x] = g.colour])

\* What the bound texture looks like: it repeats, which not every driver can.
Sampled(g) ==
  LET image == g.images[g.bound]
  IN  IF image.pot \/ "npot" \notin g.faults THEN image.look ELSE "black"

\* gilDrawQuad: the whole texture is stretched over the quad.  The locations of
\* the attributes are asked for after the program was linked, too late.
GilDrawQuad(g, x) ==
  WithProgram(g, "texture",
    IF "locations" \in g.faults THEN g.back ELSE [g.back EXCEPT ![x] = Sampled(g)])

GilVerify(g, x) == FALSE

\* Mutant: the error of the swap is read for the log, too.
SwapBuffersLogged(g, kept) ==
  LET ready == g.display /\ g.window /\ g.current = "surface"
      next  == IF "panned" \in g.faults THEN 1 - g.page ELSE g.page
      h     == [EglReturn(g, "SUCCESS") EXCEPT !.log = g.gl, !.gl = "NO_ERROR"]
  IN  IF ~ready THEN h
      ELSE [h EXCEPT !.page = next, !.pages[next] = g.back,
                     !.back = IF kept THEN @ ELSE Blank("undefined")]

\* gilSwapBuffers reads the flag of GL, for the log.  What the back buffer
\* holds afterwards is the driver's choice.
GilSwapBuffers(g, kept) ==
  LET ready == g.display /\ g.window /\ g.current = "surface"
      next  == IF "panned" \in g.faults THEN 1 - g.page ELSE g.page
      h     == [EglReturn(g, IF ready THEN "SUCCESS" ELSE "BAD_SURFACE")
                  EXCEPT !.log = g.gl, !.gl = "NO_ERROR"]
  IN  IF ~ready THEN h
      ELSE [h EXCEPT !.page = next, !.pages[next] = g.back,
                     !.back = IF kept THEN @ ELSE Blank("undefined")]

\* Mutant: both flags are read, and one of them is told.
GetErrorOfBoth(g) ==
  [error |-> IF g.egl # "SUCCESS" THEN g.egl ELSE g.gl,
   gil |-> [g EXCEPT !.egl = "SUCCESS", !.gl = "NO_ERROR"]]

\* gilGetError: that of EGL first; then the flag of GL is left alone.
GilGetError(g) ==
  IF g.egl # "SUCCESS" THEN [error |-> g.egl, gil |-> [g EXCEPT !.egl = "SUCCESS"]]
  ELSE [error |-> g.gl, gil |-> [g EXCEPT !.gl = "NO_ERROR"]]

GilHandleWindowEvents(g) == FALSE
=============================================================================
