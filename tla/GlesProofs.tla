----------------------------- MODULE GlesProofs -----------------------------
(***************************************************************************)
(* What a user of the graphics layers on OpenGL ES can rely on, whatever   *)
(* the driver lacks or refuses, for every number of textures and places.   *)
(*                                                                         *)
(* A call is known by the fields of the state it changes, and what it      *)
(* makes of them; a lemma says so for each.  The invariant then relates    *)
(* the pictures of the driver, back buffer and pages, to what the user     *)
(* asked for, and the errors of EGL to the failures of the set up; that a  *)
(* missing program leaves an error is an invariant of its own, ToldInv.    *)
(***************************************************************************)
EXTENDS GlesDisplay, TLAPS

\* The fields both states have.
Parts == {"faults", "refused", "crashed", "display", "config", "context", "window", "current",
          "egl", "gl", "log", "program", "shaders", "names", "images", "bound", "colour",
          "back", "pages", "page"}

\* What holds of either state alone.
Typed(g) ==
  /\ Parts \subseteq DOMAIN g
  /\ RendererOK(g)
  /\ g.program \in [Programs -> BOOLEAN]
  /\ g.colour = "black"

\* What is current was made, a program was loaded with a context, and a program
\* that was made left no shader.
Consistent(g) ==
  /\ g.current # "none" => g.context
  /\ g.current = "surface" => g.display /\ g.window
  /\ \A p \in Programs : g.program[p] =>
       g.current # "none" /\ \A kind \in {"vertex", "fragment"} : <<p, kind>> \notin g.shaders

\* Before the context is made there is nothing, and no surface before the first frame.
Staged(g) ==
  /\ phase = "context" => /\ g.current = "none" /\ g.shaders = {}
                          /\ \A p \in Programs : ~g.program[p]
  /\ phase \in {"context", "window"} => g.current # "surface"

Sound(g) == Typed(g) /\ Consistent(g)

\* What can be asked to be drawn, and nothing.
Asked == Looks \cup {"black", "nothing"}

\* The user's own part.
UserInv ==
  /\ phase \in {"context", "window", "idle", "drawing", "verifying", "over"}
  /\ handles \in Seq([handle : Names, image : Images, enough : BOOLEAN])
  /\ Len(handles) <= MaxTextures
  /\ phase \in {"context", "window"} => handles = <<>> /\ last.call = "none"
  /\ drawn \in [Places -> Asked] /\ shown \in [Places -> Asked] /\ before \in [Places -> Asked]

\* The textures are numbered as they were loaded when anything can be drawn.
Filled ==
  /\ viv.names \in 0..Len(handles)
  /\ \A t \in (viv.names + 1)..MaxTextures : viv.images[t] = NoImage
  /\ viv.program["texture"] =>
       /\ viv.names = Len(handles)
       /\ \A i \in 1..Len(handles) :
            /\ handles[i].handle = i
            /\ viv.images[i] = IF handles[i].enough THEN handles[i].image ELSE NoImage

\* Whether a quad that is drawn can be seen.
Drawable == viv.program["texture"] /\ "locations" \notin viv.faults /\ viv.current = "surface"

\* Of the looks a picture has, each was asked for.
Kept(picture, asked) ==
  \A x \in Places : picture[x] \in Looks =>
    \/ asked[x] = picture[x]
    \/ asked[x] = "black" /\ ~viv.program["color"]

\* A picture of nothing that was loaded.
Bare(picture) == \A x \in Places : picture[x] \notin Looks

\* The back buffer shows what was asked for since the clear, the page displayed what
\* was asked for in the last frame, and the other page the same of the one before.
Pictured ==
  /\ ~Drawable => Bare(viv.back) /\ Bare(viv.pages[0]) /\ Bare(viv.pages[1])
  /\ Kept(viv.back, drawn)
  /\ Kept(viv.pages[viv.page], shown)
  /\ IF "panned" \in viv.faults THEN Kept(viv.pages[1 - viv.page], before) ELSE viv.page = 0

\* Whatever was asked for is in the picture.
Complete(picture, asked) == \A x \in Places : asked[x] \in Looks => picture[x] = asked[x]

\* Without faults nothing that was asked for is missing.
Exact ==
  viv.faults \cup viv.refused = {} =>
    /\ viv.display /\ viv.config
    /\ phase # "context" =>
         viv.context /\ viv.current # "none" /\ \A p \in Programs : viv.program[p]
    /\ phase \notin {"context", "window"} => viv.window
    /\ phase = "drawing" => viv.current = "surface"
    /\ (\A i \in 1..Len(handles) : handles[i].enough) =>
         /\ phase = "drawing" => Complete(viv.back, drawn)
         /\ Complete(viv.pages[0], shown)

\* The device of the memory: what failed decides what is open.
Device ==
  /\ {"open", "mapped", "fbWasInited"} \subseteq DOMAIN viv
  /\ IF phase = "over"
     THEN ~viv.mapped /\ (viv.open => {"fbinfo", "fbmap"} \cap viv.faults # {})
     ELSE /\ viv.mapped = viv.fbWasInited
          /\ viv.mapped <=> viv.faults \cap {"fbopen", "fbinfo", "fbmap"} = {}
          /\ viv.open <=> "fbopen" \notin viv.faults

\* The answers that can be asked about still hold of the state.
Answers ==
  /\ last.call = "swap" => \A g \in {es, viv} : Usable(g) \/ g.egl = "BAD_SURFACE"
  /\ last.call = "verify" =>
       /\ phase \in {"verifying", "idle"} /\ last.of \in Places
       /\ last.viv = VivVerify(viv, last.of)

\* The inductive invariant.
GlesInv ==
  /\ Sound(es) /\ Staged(es) /\ Sound(viv) /\ Staged(viv) /\ UserInv
  /\ Filled /\ Pictured /\ Exact /\ Device /\ Answers

-----------------------------------------------------------------------------
(* What the calls change of a state.                                       *)

Changes(g, h, fields) ==
  DOMAIN h = DOMAIN g /\ \A f \in DOMAIN g \ fields : h[f] = g[f]

LEMMA EglReturnChanges ==
  ASSUME NEW g, Parts \subseteq DOMAIN g, NEW error
  PROVE  Changes(g, EglReturn(g, error), {"egl"}) /\ EglReturn(g, error).egl = error
BY DEF EglReturn, Changes, Parts

LEMMA GlRaiseChanges ==
  ASSUME NEW g, Parts \subseteq DOMAIN g, NEW error
  PROVE  /\ Changes(g, GlRaise(g, error), {"gl"})
         /\ GlRaise(g, error).gl \in {g.gl, error}
         /\ g.gl # "NO_ERROR" => GlRaise(g, error).gl = g.gl
BY DEF GlRaise, Changes, Parts

LEMMA PaintedChanges ==
  ASSUME NEW g, Parts \subseteq DOMAIN g, NEW back
  PROVE  LET h == Painted(g, back)
         IN  /\ Changes(g, h, {"gl", "back"})
             /\ h.back = IF g.current = "surface" THEN back ELSE g.back
             /\ h.gl \in {g.gl, "INVALID_FRAMEBUFFER_OPERATION"}
             /\ g.gl # "NO_ERROR" => h.gl = g.gl
BY GlRaiseChanges DEF Painted, Changes, Parts

LEMMA MakeCurrentChanges ==
  ASSUME NEW g, Parts \subseteq DOMAIN g
  PROVE  LET h == MakeCurrent(g)
         IN  /\ Changes(g, h, {"egl", "current"})
             /\ h.egl \in {"SUCCESS", "BAD_DISPLAY", "BAD_MATCH"}
             /\ h.current = IF g.context /\ h.egl = "SUCCESS"
                            THEN IF g.window THEN "surface" ELSE "context"
                            ELSE g.current
             /\ g.context /\ g.window => (h.egl = "SUCCESS" <=> g.display)
             /\ h.egl = "SUCCESS" => g.display
BY EglReturnChanges DEF MakeCurrent, Changes, Parts

LEMMA ClearChanges ==
  ASSUME NEW g, Parts \subseteq DOMAIN g
  PROVE  LET h == GilSetSurface(g)
             k == GilClear(GilSetColor(h, "black"))
             made(n) ==
               /\ Changes(g, n, {"egl", "current", "gl", "back", "colour"})
               /\ n.egl \in {"SUCCESS", "BAD_DISPLAY", "BAD_MATCH"}
               /\ n.current = IF g.context /\ n.egl = "SUCCESS"
                              THEN IF g.window THEN "surface" ELSE "context"
                              ELSE g.current
               /\ g.context /\ g.window => (n.egl = "SUCCESS" <=> g.display)
               /\ n.egl = "SUCCESS" => g.display
               /\ n.back = IF n.current = "surface" THEN Blank("clear") ELSE g.back
               /\ n.gl \in {g.gl, "INVALID_FRAMEBUFFER_OPERATION"}
               /\ g.gl # "NO_ERROR" => n.gl = g.gl
         IN  made(h) /\ h.colour = g.colour /\ made(k) /\ k.colour = "black"
<1> DEFINE m == MakeCurrent(g)
           h == Painted(m, Blank("clear"))
           c == [h EXCEPT !.colour = "black"]
           k == Painted(c, Blank("clear"))
<1>1. /\ Parts \subseteq DOMAIN m /\ Changes(g, m, {"egl", "current"})
      /\ m.egl \in {"SUCCESS", "BAD_DISPLAY", "BAD_MATCH"}
      /\ m.current = IF g.context /\ m.egl = "SUCCESS"
                     THEN IF g.window THEN "surface" ELSE "context"
                     ELSE g.current
      /\ g.context /\ g.window => (m.egl = "SUCCESS" <=> g.display)
      /\ m.egl = "SUCCESS" => g.display
  BY MakeCurrentChanges DEF Changes
<1>2. /\ Parts \subseteq DOMAIN h /\ Changes(m, h, {"gl", "back"})
      /\ h.back = IF m.current = "surface" THEN Blank("clear") ELSE m.back
      /\ h.gl \in {m.gl, "INVALID_FRAMEBUFFER_OPERATION"}
      /\ m.gl # "NO_ERROR" => h.gl = m.gl
  BY <1>1, PaintedChanges DEF Changes
<1>3. /\ Parts \subseteq DOMAIN c /\ Changes(h, c, {"colour"}) /\ c.colour = "black"
  BY <1>2 DEF Changes, Parts
<1>4. /\ Changes(c, k, {"gl", "back"})
      /\ k.back = IF c.current = "surface" THEN Blank("clear") ELSE c.back
      /\ k.gl \in {c.gl, "INVALID_FRAMEBUFFER_OPERATION"}
      /\ c.gl # "NO_ERROR" => k.gl = c.gl
  BY <1>3, PaintedChanges
<1>5. GilSetSurface(g) = h /\ GilClear(GilSetColor(h, "black")) = k
  BY DEF GilSetSurface, GilClear, GlClear, GilSetColor
<1> HIDE DEF m, h, c, k
<1> QED
  BY <1>1, <1>2, <1>3, <1>4, <1>5 DEF Changes, Parts

LEMMA LoadProgramChanges ==
  ASSUME NEW g, Parts \subseteq DOMAIN g, NEW p \in Programs,
         g.program \in [Programs -> BOOLEAN], g.shaders \subseteq Programs \X {"vertex", "fragment"}
  PROVE  LET h == LoadProgram(g, p)
         IN  /\ Changes(g, h, {"program", "shaders"})
             /\ h.program \in [Programs -> BOOLEAN]
             /\ h.shaders \subseteq Programs \X {"vertex", "fragment"}
             /\ \A q \in Programs : q # p => h.program[q] = g.program[q]
             /\ \A s \in h.shaders \ g.shaders : s[1] = p /\ ~h.program[p]
             /\ g.current = "none" => h = g
             /\ g.current # "none" /\ g.refused = {} => h.program[p]
<1> DEFINE fails(step) == <<p, step>> \in g.refused
           left == CASE fails("createVertex")    -> {}
                     [] fails("createFragment")  -> {}
                     [] fails("compileVertex")   -> {<<p, "fragment">>}
                     [] fails("compileFragment") -> {}
                     [] fails("createProgram") \/ fails("link") -> {<<p, "vertex">>, <<p, "fragment">>}
                     [] OTHER -> {}
           all == \A step \in Steps : ~fails(step)
<1>1. /\ left \subseteq Programs \X {"vertex", "fragment"}
      /\ \A s \in left : s[1] = p /\ ~all
  BY DEF Steps
<1>2. all \in BOOLEAN /\ (g.refused = {} => all)
  OBVIOUS
<1>3. LoadProgram(g, p) = IF g.current = "none" THEN g
                          ELSE [g EXCEPT !.program[p] = all, !.shaders = @ \cup left]
  BY DEF LoadProgram
<1> HIDE DEF left, all
<1> DEFINE h == [g EXCEPT !.program[p] = all, !.shaders = @ \cup left]
<1>4. /\ Changes(g, h, {"program", "shaders"})
      /\ h.program = [g.program EXCEPT ![p] = all]
      /\ h.shaders = g.shaders \cup left
  BY DEF Changes, Parts
<1> HIDE DEF h
<1>5. /\ h.program \in [Programs -> BOOLEAN] /\ h.program[p] = all
      /\ \A q \in Programs : q # p => h.program[q] = g.program[q]
  BY <1>2, <1>4
<1>6. /\ h.shaders \subseteq Programs \X {"vertex", "fragment"}
      /\ \A s \in h.shaders \ g.shaders : s[1] = p /\ ~h.program[p]
  BY <1>1, <1>4, <1>5
<1>7. CASE g.current = "none"
  BY <1>3, <1>7 DEF Changes
<1>8. CASE g.current # "none"
  <2>1. LoadProgram(g, p) = h
    BY <1>3, <1>8 DEF h
  <2> QED
    BY <2>1, <1>2, <1>4, <1>5, <1>6, <1>8
<1> QED
  BY <1>7, <1>8

LEMMA CreateContextChanges ==
  ASSUME NEW g, Parts \subseteq DOMAIN g,
         g.program \in [Programs -> BOOLEAN], g.shaders = {},
         \A p \in Programs : ~g.program[p]
  PROVE  LET h == GilCreateContext(g)
         IN  /\ Changes(g, h, {"egl", "context", "current", "program", "shaders"})
             /\ h.egl \in {"SUCCESS", "BAD_DISPLAY", "BAD_MATCH"}
             /\ h.current \in {"none", "context"}
             /\ h.current = "context" => h.context
             /\ h.program \in [Programs -> BOOLEAN]
             /\ h.shaders \subseteq Programs \X {"vertex", "fragment"}
             /\ \A p \in Programs : h.program[p] =>
                  h.current # "none" /\ \A kind \in {"vertex", "fragment"} : <<p, kind>> \notin h.shaders
             /\ g.config /\ g.faults \cup g.refused = {} =>
                  h.context /\ h.current # "none" /\ \A p \in Programs : h.program[p]
<1> DEFINE made == g.config /\ "context" \notin g.faults
           bare == "surfaceless" \notin g.faults
           egl  == IF ~g.display THEN "BAD_DISPLAY"
                   ELSE IF made /\ ~bare THEN "BAD_MATCH" ELSE "SUCCESS"
           h    == [EglReturn(g, egl) EXCEPT !.context = made,
                      !.current = IF made /\ bare THEN "context" ELSE "none"]
           c    == LoadProgram(h, "color")
           t    == LoadProgram(c, "texture")
<1>1. /\ Parts \subseteq DOMAIN h /\ Changes(g, h, {"egl", "context", "current"})
      /\ h.egl = egl /\ h.context = made
      /\ h.current = IF made /\ bare THEN "context" ELSE "none"
  <2> DEFINE e == EglReturn(g, egl)
             now == IF made /\ bare THEN "context" ELSE "none"
             k == [e EXCEPT !.context = made, !.current = now]
  <2>1. Parts \subseteq DOMAIN e /\ Changes(g, e, {"egl"}) /\ e.egl = egl
    BY EglReturnChanges DEF Changes
  <2>2. h = k
    OBVIOUS
  <2> HIDE DEF e, now, h, made, egl
  <2>3. /\ Changes(e, k, {"context", "current"})
        /\ k.context = made /\ k.current = now
    BY <2>1 DEF Changes, Parts
  <2> HIDE DEF k
  <2>4. h.current = IF made /\ bare THEN "context" ELSE "none"
    BY <2>2, <2>3 DEF now
  <2> QED
    BY <2>1, <2>2, <2>3, <2>4 DEF Changes, Parts
<1>2. egl \in {"SUCCESS", "BAD_DISPLAY", "BAD_MATCH"}
  OBVIOUS
<1>3. GilCreateContext(g) = t
  BY DEF GilCreateContext
<1> HIDE DEF egl, h, c, t
<1>4. /\ h.program = g.program /\ h.shaders = g.shaders /\ h.refused = g.refused
  BY <1>1 DEF Changes, Parts
<1>5. /\ Changes(h, c, {"program", "shaders"})
      /\ c.program \in [Programs -> BOOLEAN]
      /\ c.shaders \subseteq Programs \X {"vertex", "fragment"}
      /\ ~c.program["texture"]
      /\ \A s \in c.shaders : s[1] = "color" /\ ~c.program["color"]
      /\ h.current = "none" => c = h
      /\ h.current # "none" /\ h.refused = {} => c.program["color"]
  BY <1>1, <1>4, LoadProgramChanges DEF c, Programs
<1>6. /\ Parts \subseteq DOMAIN c /\ c.current = h.current /\ c.refused = h.refused
  BY <1>1, <1>5 DEF Changes, Parts
<1>7. /\ Changes(c, t, {"program", "shaders"})
      /\ t.program \in [Programs -> BOOLEAN]
      /\ t.shaders \subseteq Programs \X {"vertex", "fragment"}
      /\ t.program["color"] = c.program["color"]
      /\ \A s \in t.shaders \ c.shaders : s[1] = "texture" /\ ~t.program["texture"]
      /\ c.current = "none" => t = c
      /\ c.current # "none" /\ c.refused = {} => t.program["texture"]
  BY <1>5, <1>6, LoadProgramChanges DEF t, Programs
<1>8. /\ t.current = h.current /\ t.context = h.context /\ t.egl = h.egl
      /\ Changes(g, t, {"egl", "context", "current", "program", "shaders"})
  BY <1>1, <1>5, <1>6, <1>7 DEF Changes, Parts
<1>9. \A p \in Programs : t.program[p] =>
        t.current # "none" /\ \A kind \in {"vertex", "fragment"} : <<p, kind>> \notin t.shaders
  <2>1. ASSUME NEW p \in Programs, t.program[p] PROVE t.current # "none"
    BY <2>1, <1>4, <1>5, <1>6, <1>7, <1>8
  <2>2. ASSUME NEW p \in Programs, t.program[p], NEW kind \in {"vertex", "fragment"},
               <<p, kind>> \in t.shaders
        PROVE  FALSE
    <3>1. CASE <<p, kind>> \in c.shaders
      BY <2>2, <3>1, <1>5, <1>7
    <3>2. CASE <<p, kind>> \notin c.shaders
      BY <2>2, <3>2, <1>7
    <3> QED
      BY <3>1, <3>2
  <2> QED
    BY <2>1, <2>2
<1>10. g.config /\ g.faults \cup g.refused = {} =>
         t.context /\ t.current # "none" /\ \A p \in Programs : t.program[p]
  BY <1>1, <1>4, <1>5, <1>6, <1>7, <1>8 DEF Programs
<1> QED
  BY <1>1, <1>2, <1>3, <1>7, <1>8, <1>9, <1>10

LEMMA CreateWindowChanges ==
  ASSUME NEW g, Parts \subseteq DOMAIN g
  PROVE  /\ Changes(g, GilCreateWindow(g), {"crashed", "egl", "window"})
         /\ GilCreateWindow(g).egl \in {g.egl, "SUCCESS"}
         /\ Changes(g, VivCreateWindow(g), {"egl", "window"})
         /\ VivCreateWindow(g).egl = "SUCCESS"
         /\ g.config /\ g.faults = {} => VivCreateWindow(g).window
<1> DEFINE n == GetNativeWindow(g)
           made == g.config /\ "surface" \notin g.faults
           wanted == g.config /\ NativeWindow(g) /\ "surface" \notin g.faults
           k == [EglReturn(n, "SUCCESS") EXCEPT !.window = made]
           v == [EglReturn(g, "SUCCESS") EXCEPT !.window = wanted]
<1>1. Parts \subseteq DOMAIN n /\ Changes(g, n, {"crashed"})
  BY DEF GetNativeWindow, Changes, Parts
<1>2. /\ GilCreateWindow(g) = IF n.crashed THEN n ELSE k
      /\ VivCreateWindow(g) = v
      /\ g.config /\ g.faults = {} => wanted
  BY DEF GilCreateWindow, VivCreateWindow, NativeWindow
<1> HIDE DEF n, made, wanted
<1>3. /\ Changes(n, k, {"egl", "window"}) /\ k.egl = "SUCCESS"
      /\ Changes(g, v, {"egl", "window"}) /\ v.egl = "SUCCESS" /\ v.window = wanted
  BY <1>1, EglReturnChanges DEF Changes, Parts
<1> HIDE DEF k, v
<1> QED
  BY <1>1, <1>2, <1>3 DEF Changes, Parts

LEMMA LoadTextureChanges ==
  ASSUME NEW g, Parts \subseteq DOMAIN g, DOMAIN g.images = Names, NEW t \in Names,
         NEW image, NEW enough \in BOOLEAN
  PROVE  LET h == GilLoadTexture(GilCreateTexture(g), t, image, enough)
         IN  /\ Changes(g, h, {"names", "bound", "images", "gl"})
             /\ g.current = "none" => h = g
             /\ g.current # "none" =>
                  /\ h.names = g.names + 1 /\ h.bound = t
                  /\ h.images = IF enough THEN [g.images EXCEPT ![t] = image] ELSE g.images
             /\ h.gl \in {g.gl, "OUT_OF_MEMORY"}
             /\ g.gl # "NO_ERROR" => h.gl = g.gl
<1>1. CASE g.current = "none"
  BY <1>1 DEF GilLoadTexture, GilCreateTexture, GilBindTexture, Changes
<1>2. CASE g.current # "none"
  <2> DEFINE c == [g EXCEPT !.names = @ + 1]
             b == [c EXCEPT !.bound = t]
             f == [b EXCEPT !.images[t] = image]
             r == GlRaise(b, "OUT_OF_MEMORY")
  <2>1. Parts \subseteq DOMAIN c /\ Changes(g, c, {"names"}) /\ c.names = g.names + 1
    BY DEF Changes, Parts
  <2>2. GilCreateTexture(g) = c
    BY <1>2 DEF GilCreateTexture
  <2> HIDE DEF c
  <2>3. Parts \subseteq DOMAIN b /\ Changes(c, b, {"bound"}) /\ b.bound = t
    BY <2>1 DEF Changes, Parts
  <2>4. c.current # "none"
    BY <1>2, <2>1 DEF Changes, Parts
  <2>5. GilLoadTexture(c, t, image, enough) = IF enough THEN f ELSE r
    BY <2>4 DEF GilLoadTexture, GilBindTexture
  <2> HIDE DEF b
  <2>6. /\ Changes(b, r, {"gl"}) /\ r.gl \in {b.gl, "OUT_OF_MEMORY"}
        /\ b.gl # "NO_ERROR" => r.gl = b.gl
    BY <2>3, GlRaiseChanges
  <2>7. Changes(b, f, {"images"}) /\ f.images = [b.images EXCEPT ![t] = image]
    BY <2>3 DEF Changes, Parts
  <2> HIDE DEF f, r
  <2>8. /\ b.images = g.images /\ b.gl = g.gl /\ b.names = g.names + 1 /\ b.bound = t
        /\ Changes(g, b, {"names", "bound"})
    BY <2>1, <2>3 DEF Changes, Parts
  <2>9. CASE enough
    BY <1>2, <2>2, <2>3, <2>5, <2>7, <2>8, <2>9 DEF Changes, Parts
  <2>10. CASE ~enough
    BY <1>2, <2>2, <2>3, <2>5, <2>6, <2>8, <2>10 DEF Changes, Parts
  <2> QED
    BY <2>9, <2>10
<1> QED
  BY <1>1, <1>2

LEMMA BindChanges ==
  ASSUME NEW g, Parts \subseteq DOMAIN g, NEW t
  PROVE  LET h == GilBindTexture(g, t)
         IN  /\ Changes(g, h, {"bound"})
             /\ h.bound = IF g.current = "none" THEN g.bound ELSE t
BY DEF GilBindTexture, Changes, Parts

LEMMA WithProgramChanges ==
  ASSUME NEW g, Parts \subseteq DOMAIN g, NEW p, NEW back
  PROVE  LET h == WithProgram(g, p, back)
         IN  /\ Changes(g, h, {"gl", "back"})
             /\ h.back = IF g.program[p] /\ g.current = "surface" THEN back ELSE g.back
             /\ h.gl \in {g.gl, "INVALID_OPERATION", "INVALID_FRAMEBUFFER_OPERATION"}
             /\ g.gl # "NO_ERROR" => h.gl = g.gl
<1> DEFINE r == GlRaise(g, "INVALID_OPERATION")
<1>1. /\ Parts \subseteq DOMAIN r /\ Changes(g, r, {"gl"}) /\ r.gl \in {g.gl, "INVALID_OPERATION"}
      /\ g.gl # "NO_ERROR" => r.gl = g.gl
  BY GlRaiseChanges DEF Changes
<1> HIDE DEF r
<1>2. CASE g.program[p]
  BY <1>2, PaintedChanges DEF WithProgram
<1>3. CASE ~g.program[p]
  <2> DEFINE h == Painted(r, g.back)
  <2>1. WithProgram(g, p, back) = h
    BY <1>3 DEF WithProgram, r
  <2>2. /\ Changes(r, h, {"gl", "back"})
        /\ h.back = IF r.current = "surface" THEN g.back ELSE r.back
        /\ h.gl \in {r.gl, "INVALID_FRAMEBUFFER_OPERATION"}
        /\ r.gl # "NO_ERROR" => h.gl = r.gl
    BY <1>1, PaintedChanges
  <2> HIDE DEF h
  <2> QED
    BY <1>1, <1>3, <2>1, <2>2 DEF Changes, Parts
<1> QED
  BY <1>2, <1>3

LEMMA AreaChanges ==
  ASSUME NEW g, Parts \subseteq DOMAIN g, NEW x
  PROVE  LET a == GilDrawArea(g, x)
         IN  /\ Changes(g, a, {"gl", "back"})
             /\ a.back = IF g.program["color"] /\ g.current = "surface"
                         THEN [g.back EXCEPT ![x] = g.colour] ELSE g.back
             /\ a.gl \in {g.gl, "INVALID_OPERATION", "INVALID_FRAMEBUFFER_OPERATION"}
             /\ g.gl # "NO_ERROR" => a.gl = g.gl
BY WithProgramChanges DEF GilDrawArea

LEMMA QuadChanges ==
  ASSUME NEW g, Parts \subseteq DOMAIN g, NEW t, NEW x
  PROVE  LET b == GilBindTexture(g, t)
             h == GilDrawQuad(b, x)
         IN  /\ Changes(g, h, {"gl", "back", "bound"})
             /\ h.bound = b.bound
             /\ h.back = IF g.program["texture"] /\ g.current = "surface" /\ "locations" \notin g.faults
                         THEN [g.back EXCEPT ![x] = Sampled(b)] ELSE g.back
             /\ h.gl \in {g.gl, "INVALID_OPERATION", "INVALID_FRAMEBUFFER_OPERATION"}
             /\ g.gl # "NO_ERROR" => h.gl = g.gl
<1> DEFINE b == GilBindTexture(g, t)
           s == Sampled(b)
           h == GilDrawQuad(b, x)
           back == IF "locations" \in b.faults THEN b.back ELSE [b.back EXCEPT ![x] = s]
<1>1. Parts \subseteq DOMAIN b /\ Changes(g, b, {"bound"})
  BY BindChanges DEF Changes
<1>2. h = WithProgram(b, "texture", back)
  BY DEF GilDrawQuad
<1> HIDE DEF b, s
<1>3. /\ b.back = g.back /\ b.program = g.program /\ b.current = g.current
      /\ b.faults = g.faults /\ b.gl = g.gl
  BY <1>1 DEF Changes, Parts
<1>4. /\ Changes(b, h, {"gl", "back"})
      /\ h.back = IF b.program["texture"] /\ b.current = "surface" THEN back ELSE b.back
      /\ h.gl \in {b.gl, "INVALID_OPERATION", "INVALID_FRAMEBUFFER_OPERATION"}
      /\ b.gl # "NO_ERROR" => h.gl = b.gl
  BY <1>1, <1>2, WithProgramChanges
<1>5. h.back = IF g.program["texture"] /\ g.current = "surface" /\ "locations" \notin g.faults
               THEN [g.back EXCEPT ![x] = s] ELSE g.back
  BY <1>3, <1>4
<1> HIDE DEF h
<1>6. Changes(g, h, {"gl", "back", "bound"}) /\ h.bound = b.bound
  BY <1>1, <1>4 DEF Changes, Parts
<1> QED
  BY <1>3, <1>4, <1>5, <1>6 DEF h, b, s

LEMMA SwapChanges ==
  ASSUME NEW g, Parts \subseteq DOMAIN g, NEW kept
  PROVE  LET ready == g.display /\ g.window /\ g.current = "surface"
             next  == IF "panned" \in g.faults THEN 1 - g.page ELSE g.page
             h     == GilSwapBuffers(g, kept)
         IN  /\ Changes(g, h, {"egl", "log", "gl", "page", "pages", "back"})
             /\ h.log = g.gl /\ h.gl = "NO_ERROR"
             /\ h.egl = IF ready THEN "SUCCESS" ELSE "BAD_SURFACE"
             /\ ready => /\ h.page = next /\ h.pages = [g.pages EXCEPT ![next] = g.back]
                         /\ h.back = IF kept THEN g.back ELSE Blank("undefined")
             /\ ~ready => h.page = g.page /\ h.pages = g.pages /\ h.back = g.back
<1> DEFINE ready == g.display /\ g.window /\ g.current = "surface"
           next  == IF "panned" \in g.faults THEN 1 - g.page ELSE g.page
           egl   == IF ready THEN "SUCCESS" ELSE "BAD_SURFACE"
           e == EglReturn(g, egl)
           h == [e EXCEPT !.log = g.gl, !.gl = "NO_ERROR"]
           blank == Blank("undefined")
           k == [h EXCEPT !.page = next, !.pages[next] = g.back,
                          !.back = IF kept THEN @ ELSE blank]
<1>1. Parts \subseteq DOMAIN e /\ Changes(g, e, {"egl"}) /\ e.egl = egl
  BY EglReturnChanges DEF Changes
<1>2. GilSwapBuffers(g, kept) = IF ~ready THEN h ELSE k
  BY DEF GilSwapBuffers
<1> HIDE DEF ready, next, egl, e, blank
<1>3. /\ Parts \subseteq DOMAIN h /\ Changes(e, h, {"log", "gl"})
      /\ h.log = g.gl /\ h.gl = "NO_ERROR"
  BY <1>1 DEF Changes, Parts
<1> HIDE DEF h
<1>4. /\ Changes(h, k, {"page", "pages", "back"})
      /\ k.page = next /\ k.pages = [h.pages EXCEPT ![next] = g.back]
      /\ k.back = IF kept THEN h.back ELSE blank
  BY <1>3 DEF Changes, Parts
<1> HIDE DEF k
<1>5. /\ Changes(g, h, {"egl", "log", "gl"}) /\ h.egl = egl
      /\ h.page = g.page /\ h.pages = g.pages /\ h.back = g.back
  BY <1>1, <1>3 DEF Changes, Parts
<1>6. CASE ready
  <2>1. GilSwapBuffers(g, kept) = k
    BY <1>2, <1>6
  <2>2. Changes(g, k, {"egl", "log", "gl", "page", "pages", "back"})
    BY <1>3, <1>4, <1>5 DEF Changes, Parts
  <2>3. k.log = g.gl /\ k.gl = "NO_ERROR" /\ k.egl = egl
    BY <1>3, <1>4, <1>5 DEF Changes, Parts
  <2> QED
    BY <1>3, <1>4, <1>5, <1>6, <2>1, <2>2, <2>3 DEF ready, next, egl, blank
<1>7. CASE ~ready
  <2>1. GilSwapBuffers(g, kept) = h
    BY <1>2, <1>7
  <2>2. Changes(g, h, {"egl", "log", "gl", "page", "pages", "back"})
    BY <1>5 DEF Changes
  <2> QED
    BY <1>3, <1>5, <1>7, <2>1, <2>2 DEF ready, egl
<1> QED
  BY <1>6, <1>7

LEMMA GetErrorChanges ==
  ASSUME NEW g, Parts \subseteq DOMAIN g
  PROVE  LET h == GilGetError(g).gil
         IN  /\ Changes(g, h, {"egl", "gl"})
             /\ h.egl \in {g.egl, "SUCCESS"} /\ h.gl \in {g.gl, "NO_ERROR"}
             /\ g.gl # "NO_ERROR" /\ h.gl = "NO_ERROR" => GilGetError(g).error = g.gl
             /\ g.egl # "SUCCESS" => GilGetError(g).error = g.egl
BY DEF GilGetError, Changes, Parts

LEMMA UninitChanges ==
  ASSUME NEW g, Parts \cup {"open", "mapped", "fbWasInited"} \subseteq DOMAIN g
  PROVE  LET h == VivUninit(g)
         IN  /\ Changes(g, h, {"open", "mapped"})
             /\ g.fbWasInited => ~h.open /\ ~h.mapped
             /\ ~g.fbWasInited => h = g
BY DEF VivUninit, Changes, Parts

LEMMA InitFields ==
  ASSUME NEW faults, NEW refused
  PROVE  LET g == GilInit(faults, refused)
             v == VivInit(faults, refused)
         IN  /\ DOMAIN g = Parts
             /\ DOMAIN v = Parts \cup {"open", "mapped", "fbWasInited"}
             /\ \A f \in Parts : v[f] = g[f]
             /\ v.open = ("fbopen" \notin faults)
             /\ v.mapped = (faults \cap {"fbopen", "fbinfo", "fbmap"} = {})
             /\ v.fbWasInited = v.mapped
<1>1. DOMAIN GilInit(faults, refused) = Parts
  BY DEF GilInit, Parts
<1> DEFINE g == GilInit(faults, refused)
           fb == LoadFrameBufferDevice(faults)
           open == "fbopen" \notin faults
           mapped == faults \cap {"fbopen", "fbinfo", "fbmap"} = {}
<1>2. fb.open = open /\ fb.mapped = mapped
  BY DEF LoadFrameBufferDevice
<1>3. VivInit(faults, refused) =
        [f \in DOMAIN g \cup {"open", "mapped", "fbWasInited"} |->
           CASE f = "open" -> fb.open
             [] f \in {"mapped", "fbWasInited"} -> fb.mapped
             [] OTHER -> g[f]]
  BY DEF VivInit
<1> HIDE DEF g, fb, open, mapped
<1>4. DOMAIN g = Parts
  BY <1>1 DEF g
<1> DEFINE v == VivInit(faults, refused)
<1>5. /\ DOMAIN v = Parts \cup {"open", "mapped", "fbWasInited"}
      /\ \A f \in Parts : v[f] = g[f]
      /\ v.open = fb.open /\ v.mapped = fb.mapped /\ v.fbWasInited = fb.mapped
  BY <1>3, <1>4 DEF Parts
<1> HIDE DEF v
<1> QED
  BY <1>2, <1>4, <1>5 DEF g, v, open, mapped

-----------------------------------------------------------------------------
(* Either state stays sound.                                               *)

LEMMA Blanks ==
  /\ \A seen \in Seen : Blank(seen) \in [Places -> Seen]
  /\ Bare(Blank("clear")) /\ Bare(Blank("undefined"))
BY GlesAssumption DEF Blank, Seen, Bare

LEMMA InitIsSound ==
  ASSUME NEW faults, NEW refused
  PROVE  LET g == GilInit(faults, refused)
             v == VivInit(faults, refused)
         IN  Sound(g) /\ Sound(v)
<1> DEFINE g == GilInit(faults, refused)
           v == VivInit(faults, refused)
<1>1. /\ DOMAIN g = Parts /\ Parts \subseteq DOMAIN v /\ \A f \in Parts : v[f] = g[f]
  BY InitFields
<1>2. 0 \in Names /\ NoImage \in Images \cup {NoImage}
  BY GlesAssumption
<1>3. Blank("undefined") \in [Places -> Seen]
  BY Blanks DEF Seen
<1>4. /\ g.current = "none" /\ g.gl = "NO_ERROR" /\ g.egl \in {"SUCCESS", "BAD_DISPLAY"}
      /\ g.shaders = {} /\ g.bound = 0 /\ g.images = [t \in Names |-> NoImage]
      /\ g.page = 0 /\ g.back = Blank("undefined")
      /\ g.pages = [i \in 0..1 |-> Blank("undefined")]
      /\ g.program = [p \in Programs |-> FALSE] /\ g.colour = "black"
  BY DEF GilInit
<1> HIDE DEF g, v
<1>5. Typed(g) /\ Consistent(g)
  BY <1>1, <1>2, <1>3, <1>4 DEF Typed, RendererOK, Consistent
<1>6. Typed(v) /\ Consistent(v)
  <2>1. /\ v.current = g.current /\ v.gl = g.gl /\ v.egl = g.egl /\ v.shaders = g.shaders
        /\ v.bound = g.bound /\ v.images = g.images /\ v.page = g.page /\ v.back = g.back
        /\ v.pages = g.pages /\ v.program = g.program /\ v.colour = g.colour
    BY <1>1 DEF Parts
  <2> QED
    BY <1>1, <1>5, <2>1, <1>4 DEF Typed, RendererOK, Consistent
<1> QED
  BY <1>5, <1>6 DEF Sound, g, v

LEMMA CreateContextSound ==
  ASSUME NEW g, Sound(g), g.shaders = {}, \A p \in Programs : ~g.program[p]
  PROVE  LET h == GilCreateContext(g) IN Sound(h) /\ h.current # "surface"
<1> DEFINE h == GilCreateContext(g)
<1>1. /\ Changes(g, h, {"egl", "context", "current", "program", "shaders"})
      /\ h.egl \in {"SUCCESS", "BAD_DISPLAY", "BAD_MATCH"}
      /\ h.current \in {"none", "context"}
      /\ h.current = "context" => h.context
      /\ h.program \in [Programs -> BOOLEAN]
      /\ h.shaders \subseteq Programs \X {"vertex", "fragment"}
      /\ \A p \in Programs : h.program[p] =>
           h.current # "none" /\ \A kind \in {"vertex", "fragment"} : <<p, kind>> \notin h.shaders
  BY CreateContextChanges DEF Sound, Typed
<1> HIDE DEF h
<1>2. /\ Parts \subseteq DOMAIN h /\ h.gl = g.gl /\ h.bound = g.bound /\ h.images = g.images
      /\ h.page = g.page /\ h.back = g.back /\ h.pages = g.pages /\ h.colour = g.colour
  BY <1>1 DEF Sound, Typed, Changes, Parts
<1>3. Typed(h)
  BY <1>1, <1>2 DEF Sound, Typed, RendererOK
<1>4. Consistent(h)
  BY <1>1 DEF Consistent
<1> QED
  BY <1>1, <1>3, <1>4 DEF Sound, h

LEMMA CreateWindowSound ==
  ASSUME NEW g, Sound(g), g.current # "surface"
  PROVE  Sound(GilCreateWindow(g)) /\ Sound(VivCreateWindow(g))
<1>1. ASSUME NEW h, Changes(g, h, {"crashed", "egl", "window"}), h.egl \in {g.egl, "SUCCESS"}
      PROVE  Sound(h)
  <2>1. /\ Parts \subseteq DOMAIN h /\ h.gl = g.gl /\ h.bound = g.bound /\ h.images = g.images
        /\ h.page = g.page /\ h.back = g.back /\ h.pages = g.pages /\ h.colour = g.colour
        /\ h.current = g.current /\ h.program = g.program /\ h.shaders = g.shaders
        /\ h.context = g.context
    BY <1>1 DEF Sound, Typed, Changes, Parts
  <2> QED
    BY <1>1, <2>1 DEF Sound, Typed, RendererOK, Consistent
<1> DEFINE h == GilCreateWindow(g)
           v == VivCreateWindow(g)
<1>2. /\ Changes(g, h, {"crashed", "egl", "window"}) /\ h.egl \in {g.egl, "SUCCESS"}
      /\ Changes(g, v, {"egl", "window"}) /\ v.egl = "SUCCESS"
  BY CreateWindowChanges DEF Sound, Typed
<1> HIDE DEF h, v
<1>3. Changes(g, v, {"crashed", "egl", "window"})
  BY <1>2 DEF Changes
<1>4. Sound(h) /\ Sound(v)
  BY <1>1, <1>2, <1>3
<1> QED
  BY <1>4 DEF h, v

LEMMA LoadTextureSound ==
  ASSUME NEW g, Sound(g), NEW t \in Names, NEW image \in Images, NEW enough \in BOOLEAN
  PROVE  Sound(GilLoadTexture(GilCreateTexture(g), t, image, enough))
<1> DEFINE h == GilLoadTexture(GilCreateTexture(g), t, image, enough)
<1>1. /\ Changes(g, h, {"names", "bound", "images", "gl"})
      /\ g.current = "none" => h = g
      /\ g.current # "none" =>
           /\ h.names = g.names + 1 /\ h.bound = t
           /\ h.images = IF enough THEN [g.images EXCEPT ![t] = image] ELSE g.images
      /\ h.gl \in {g.gl, "OUT_OF_MEMORY"}
  BY LoadTextureChanges DEF Sound, Typed, RendererOK
<1> HIDE DEF h
<1>2. CASE g.current = "none"
  BY <1>1, <1>2 DEF h
<1>3. CASE g.current # "none"
  <2>1. /\ Parts \subseteq DOMAIN h /\ h.egl = g.egl
        /\ h.page = g.page /\ h.back = g.back /\ h.pages = g.pages /\ h.colour = g.colour
        /\ h.current = g.current /\ h.program = g.program /\ h.shaders = g.shaders
        /\ h.context = g.context /\ h.display = g.display /\ h.window = g.window
    BY <1>1 DEF Sound, Typed, Changes, Parts
  <2>2. h.images \in [Names -> Images \cup {NoImage}]
    BY <1>1, <1>3 DEF Sound, Typed, RendererOK
  <2>3. Sound(h)
    BY <1>1, <1>3, <2>1, <2>2 DEF Sound, Typed, RendererOK, Consistent
  <2> QED
    BY <2>3 DEF h
<1> QED
  BY <1>2, <1>3

LEMMA ClearSound ==
  ASSUME NEW g, Sound(g)
  PROVE  LET h == GilSetSurface(g)
             k == GilClear(GilSetColor(h, "black"))
         IN  Sound(h) /\ Sound(k)
<1>1. ASSUME NEW h, Changes(g, h, {"egl", "current", "gl", "back", "colour"}),
             h.egl \in {"SUCCESS", "BAD_DISPLAY", "BAD_MATCH"},
             h.current = IF g.context /\ h.egl = "SUCCESS"
                         THEN IF g.window THEN "surface" ELSE "context" ELSE g.current,
             h.egl = "SUCCESS" => g.display,
             h.back = IF h.current = "surface" THEN Blank("clear") ELSE g.back,
             h.gl \in {g.gl, "INVALID_FRAMEBUFFER_OPERATION"}, h.colour = "black"
      PROVE  Sound(h)
  <2>1. /\ Parts \subseteq DOMAIN h /\ h.bound = g.bound /\ h.images = g.images
        /\ h.page = g.page /\ h.pages = g.pages /\ h.program = g.program
        /\ h.shaders = g.shaders /\ h.context = g.context /\ h.display = g.display
        /\ h.window = g.window
    BY <1>1 DEF Sound, Typed, Changes, Parts
  <2>2. h.back \in [Places -> Seen]
    BY <1>1, Blanks DEF Sound, Typed, RendererOK, Seen
  <2>3. Consistent(h)
    BY <1>1, <2>1 DEF Sound, Consistent
  <2> QED
    BY <1>1, <2>1, <2>2, <2>3 DEF Sound, Typed, RendererOK
<1> DEFINE h == GilSetSurface(g)
           k == GilClear(GilSetColor(h, "black"))
           made(n) ==
             /\ Changes(g, n, {"egl", "current", "gl", "back", "colour"})
             /\ n.egl \in {"SUCCESS", "BAD_DISPLAY", "BAD_MATCH"}
             /\ n.current = IF g.context /\ n.egl = "SUCCESS"
                            THEN IF g.window THEN "surface" ELSE "context"
                            ELSE g.current
             /\ n.egl = "SUCCESS" => g.display
             /\ n.back = IF n.current = "surface" THEN Blank("clear") ELSE g.back
             /\ n.gl \in {g.gl, "INVALID_FRAMEBUFFER_OPERATION"}
<1>2. made(h) /\ h.colour = "black" /\ made(k) /\ k.colour = "black"
  BY ClearChanges DEF Sound, Typed
<1> HIDE DEF h, k
<1> QED
  BY <1>1, <1>2 DEF h, k

\* A picture and the flag of GL are changed at most.
LEMMA DrawnSound ==
  ASSUME NEW g, Sound(g), NEW h, Changes(g, h, {"gl", "back", "bound"}),
         h.bound \in Names, h.back \in [Places -> Seen],
         h.gl \in {g.gl, "INVALID_OPERATION", "INVALID_FRAMEBUFFER_OPERATION"}
  PROVE  Sound(h)
<1>1. /\ Parts \subseteq DOMAIN h /\ h.images = g.images /\ h.egl = g.egl /\ h.colour = g.colour
      /\ h.page = g.page /\ h.pages = g.pages /\ h.program = g.program
      /\ h.shaders = g.shaders /\ h.context = g.context /\ h.display = g.display
      /\ h.window = g.window /\ h.current = g.current
  BY DEF Sound, Typed, Changes, Parts
<1> QED
  BY <1>1 DEF Sound, Typed, RendererOK, Consistent

LEMMA SampledSeen ==
  ASSUME NEW g, Sound(g), NEW t \in Names
  PROVE  LET b == GilBindTexture(g, t)
         IN  /\ Sound(b) /\ Sampled(b) \in Looks \cup {"black"}
             /\ b.bound = IF g.current = "none" THEN g.bound ELSE t
             /\ Changes(g, b, {"bound"})
<1> DEFINE b == GilBindTexture(g, t)
<1>1. Changes(g, b, {"bound"}) /\ b.bound = IF g.current = "none" THEN g.bound ELSE t
  BY BindChanges DEF Sound, Typed
<1> HIDE DEF b
<1>2. b.back = g.back /\ b.gl = g.gl /\ b.images = g.images
  BY <1>1 DEF Sound, Typed, Changes, Parts
<1>3. b.bound \in Names
  BY <1>1 DEF Sound, Typed, RendererOK
<1>4. Changes(g, b, {"gl", "back", "bound"})
  BY <1>1 DEF Changes
<1>5. Sound(b)
  BY <1>2, <1>3, <1>4, DrawnSound DEF Sound, Typed, RendererOK
<1>6. b.images[b.bound] \in Images \cup {NoImage}
  BY <1>2, <1>3 DEF Sound, Typed, RendererOK
<1>7. \A image \in Images \cup {NoImage} : image.look \in Looks \cup {"black"}
  BY GlesAssumption DEF NoImage
<1>8. Sampled(b) \in Looks \cup {"black"}
  BY <1>6, <1>7 DEF Sampled
<1> QED
  BY <1>1, <1>5, <1>8 DEF b

LEMMA DrawSound ==
  ASSUME NEW g, Sound(g), NEW t \in Names, NEW x \in Places
  PROVE  Sound(GilDrawQuad(GilBindTexture(g, t), x)) /\ Sound(GilDrawArea(g, x))
<1> DEFINE b == GilBindTexture(g, t)
           h == GilDrawQuad(b, x)
           a == GilDrawArea(g, x)
           s == Sampled(b)
<1>1. s \in Looks \cup {"black"} /\ b.bound \in Names
  BY SampledSeen DEF Sound, Typed, RendererOK
<1>2. /\ Changes(g, h, {"gl", "back", "bound"}) /\ h.bound = b.bound
      /\ h.back = IF g.program["texture"] /\ g.current = "surface" /\ "locations" \notin g.faults
                  THEN [g.back EXCEPT ![x] = s] ELSE g.back
      /\ h.gl \in {g.gl, "INVALID_OPERATION", "INVALID_FRAMEBUFFER_OPERATION"}
  <2>1. Parts \subseteq DOMAIN g
    BY DEF Sound, Typed
  <2> QED
    BY <2>1, QuadChanges
<1>7. /\ Changes(g, a, {"gl", "back"})
      /\ a.back = IF g.program["color"] /\ g.current = "surface"
                  THEN [g.back EXCEPT ![x] = g.colour] ELSE g.back
      /\ a.gl \in {g.gl, "INVALID_OPERATION", "INVALID_FRAMEBUFFER_OPERATION"}
  <2>1. Parts \subseteq DOMAIN g
    BY DEF Sound, Typed
  <2> QED
    BY <2>1, AreaChanges
<1> HIDE DEF b, h, a, s
<1>3. /\ g.back \in [Places -> Seen] /\ g.colour \in Seen /\ s \in Seen
      /\ g.bound \in Names /\ Parts \subseteq DOMAIN g
  BY <1>1 DEF Sound, Typed, RendererOK, Seen
<1>4. h.back \in [Places -> Seen] /\ a.back \in [Places -> Seen]
  BY <1>2, <1>3, <1>7
<1>5. Sound(h)
  BY <1>1, <1>2, <1>4, DrawnSound
<1>6. Sound(a)
  <2>1. a.bound = g.bound /\ Changes(g, a, {"gl", "back", "bound"})
    BY <1>3, <1>7 DEF Changes, Parts
  <2> QED
    BY <1>3, <1>4, <1>7, <2>1, DrawnSound
<1> QED
  BY <1>5, <1>6 DEF b, h, a

LEMMA SwapSound ==
  ASSUME NEW g, Sound(g), NEW kept \in BOOLEAN
  PROVE  Sound(GilSwapBuffers(g, kept))
<1> DEFINE ready == g.display /\ g.window /\ g.current = "surface"
           next  == IF "panned" \in g.faults THEN 1 - g.page ELSE g.page
           h     == GilSwapBuffers(g, kept)
<1>1. /\ Changes(g, h, {"egl", "log", "gl", "page", "pages", "back"})
      /\ h.gl = "NO_ERROR"
      /\ h.egl = IF ready THEN "SUCCESS" ELSE "BAD_SURFACE"
      /\ ready => /\ h.page = next /\ h.pages = [g.pages EXCEPT ![next] = g.back]
                  /\ h.back = IF kept THEN g.back ELSE Blank("undefined")
      /\ ~ready => h.page = g.page /\ h.pages = g.pages /\ h.back = g.back
  BY SwapChanges DEF Sound, Typed
<1>2. next \in 0..1
  BY DEF Sound, Typed, RendererOK
<1> HIDE DEF h, ready, next
<1>3. /\ Parts \subseteq DOMAIN h /\ h.bound = g.bound /\ h.images = g.images
      /\ h.program = g.program /\ h.colour = g.colour
      /\ h.shaders = g.shaders /\ h.context = g.context /\ h.display = g.display
      /\ h.window = g.window /\ h.current = g.current
  BY <1>1 DEF Sound, Typed, Changes, Parts
<1>4. /\ h.page \in 0..1 /\ h.back \in [Places -> Seen]
      /\ h.pages \in [0..1 -> [Places -> Seen]]
  BY <1>1, <1>2, Blanks DEF Sound, Typed, RendererOK, Seen
<1>5. Sound(h)
  BY <1>1, <1>3, <1>4 DEF Sound, Typed, RendererOK, Consistent
<1> QED
  BY <1>5 DEF h

LEMMA GetErrorSound ==
  ASSUME NEW g, Sound(g)
  PROVE  Sound(GilGetError(g).gil)
<1> DEFINE h == GilGetError(g).gil
<1>1. /\ Changes(g, h, {"egl", "gl"})
      /\ h.egl \in {g.egl, "SUCCESS"} /\ h.gl \in {g.gl, "NO_ERROR"}
  BY GetErrorChanges DEF Sound, Typed
<1> HIDE DEF h
<1>2. /\ Parts \subseteq DOMAIN h /\ h.bound = g.bound /\ h.images = g.images
      /\ h.program = g.program /\ h.colour = g.colour /\ h.page = g.page /\ h.pages = g.pages
      /\ h.back = g.back /\ h.shaders = g.shaders /\ h.context = g.context
      /\ h.display = g.display /\ h.window = g.window /\ h.current = g.current
  BY <1>1 DEF Sound, Typed, Changes, Parts
<1>3. Sound(h)
  BY <1>1, <1>2 DEF Sound, Typed, RendererOK, Consistent
<1> QED
  BY <1>3 DEF h

LEMMA UninitSound ==
  ASSUME NEW g, Sound(g), {"open", "mapped", "fbWasInited"} \subseteq DOMAIN g
  PROVE  Sound(VivUninit(g))
<1> DEFINE h == VivUninit(g)
<1>1. Changes(g, h, {"open", "mapped"})
  BY UninitChanges DEF Sound, Typed
<1> HIDE DEF h
<1>2. /\ Parts \subseteq DOMAIN h /\ \A f \in Parts : h[f] = g[f]
  BY <1>1 DEF Sound, Typed, Changes, Parts
<1>3. Sound(h)
  BY <1>2 DEF Sound, Typed, RendererOK, Consistent, Parts
<1> QED
  BY <1>3 DEF h

-----------------------------------------------------------------------------
(* The invariant is kept by every step.                                    *)

LEMMA SoundPrimes ==
  ASSUME Sound(es'), Sound(viv')
  PROVE  Sound(es)' /\ Sound(viv)'
BY DEF Sound, Typed, RendererOK, Consistent

LEMMA Bares ==
  /\ Nothing \in [Places -> Asked]
  /\ \A picture : Complete(picture, Nothing)
  /\ \A asked : Kept(Blank("clear"), asked) /\ Kept(Blank("undefined"), asked)
  /\ \A picture, asked : Bare(picture) => Kept(picture, asked)
BY GlesAssumption, Blanks DEF Nothing, Blank, Asked, Complete, Kept, Bare

LEMMA InitInv == GlesInit => GlesInv
<1> SUFFICES ASSUME GlesInit PROVE GlesInv
  OBVIOUS
<1>1. PICK f \in FaultSets : /\ es = GilInit(f[1], f[2])
                             /\ viv = VivInit(f[1], f[2])
  BY DEF GlesInit
<1>2. /\ phase = "context" /\ handles = <<>> /\ drawn = Nothing /\ shown = Nothing
      /\ before = Nothing /\ last = NoAnswer /\ last.call = "none"
  BY DEF GlesInit, NoAnswer, Answered
<1>3. /\ DOMAIN es = Parts
      /\ DOMAIN viv = Parts \cup {"open", "mapped", "fbWasInited"}
      /\ \A x \in Parts : viv[x] = es[x]
      /\ viv.open = ("fbopen" \notin f[1])
      /\ viv.mapped = (f[1] \cap {"fbopen", "fbinfo", "fbmap"} = {})
      /\ viv.fbWasInited = viv.mapped
  BY <1>1, InitFields
<1>4. /\ es.faults = f[1] /\ es.display = ("display" \notin f[1])
      /\ es.config = (f[1] \cap {"display", "config"} = {})
      /\ es.current = "none" /\ es.program = [p \in Programs |-> FALSE] /\ es.shaders = {}
      /\ es.names = 0 /\ es.images = [t \in Names |-> NoImage]
      /\ es.back = Blank("undefined") /\ es.pages = [i \in 0..1 |-> Blank("undefined")]
      /\ es.page = 0
  BY <1>1 DEF GilInit
<1>5. /\ viv.faults = f[1] /\ viv.display = es.display /\ viv.config = es.config
      /\ viv.current = "none" /\ viv.program = es.program /\ viv.shaders = {}
      /\ viv.names = 0 /\ viv.images = es.images /\ viv.back = es.back
      /\ viv.pages = es.pages /\ viv.page = 0
  BY <1>3, <1>4 DEF Parts
<1>6. Sound(es) /\ Sound(viv)
  BY <1>1, InitIsSound
<1>7. Staged(es) /\ Staged(viv)
  BY <1>4, <1>5 DEF Staged
<1>8. UserInv
  BY <1>2, Bares, GlesAssumption DEF UserInv
<1>9. Filled
  BY <1>2, <1>4, <1>5, GlesAssumption DEF Filled, Programs
<1>10. Pictured
  BY <1>2, <1>4, <1>5, Blanks, Bares DEF Pictured, Drawable
<1>11. Exact
  BY <1>2, <1>4, <1>5, Bares DEF Exact
<1>12. Device
  BY <1>2, <1>3, <1>5 DEF Device
<1>13. Answers
  BY <1>2 DEF Answers
<1> QED
  BY <1>6, <1>7, <1>8, <1>9, <1>10, <1>11, <1>12, <1>13 DEF GlesInv

\* As long as neither the pictures nor what was asked for change.
LEMMA PicturedStays ==
  ASSUME Pictured, UNCHANGED <<drawn, shown, before>>,
         \A f \in {"faults", "program", "current", "back", "pages", "page"} : viv'[f] = viv[f]
  PROVE  Pictured'
<1>1. /\ viv'.faults = viv.faults /\ viv'.program = viv.program /\ viv'.current = viv.current
      /\ viv'.back = viv.back /\ viv'.pages = viv.pages /\ viv'.page = viv.page
  OBVIOUS
<1> QED
  BY <1>1 DEF Pictured, Drawable, Kept

LEMMA BareIsPictured ==
  ASSUME Bare(viv'.back), Bare(viv'.pages[0]), Bare(viv'.pages[1]), viv'.page \in 0..1,
         "panned" \in viv'.faults \/ viv'.page = 0
  PROVE  Pictured'
BY DEF Pictured, Bare, Kept

LEMMA CreateContextKeeps == GlesInv /\ CreateContext => GlesInv'
<1> SUFFICES ASSUME GlesInv, CreateContext PROVE GlesInv'
  OBVIOUS
<1>1. /\ phase = "context" /\ phase' = "window"
      /\ es' = GilCreateContext(es) /\ viv' = GilCreateContext(viv)
      /\ UNCHANGED <<handles, drawn, shown, before, last>>
  BY DEF CreateContext, VivCreateContext
<1>2. /\ Sound(es) /\ Sound(viv) /\ es.shaders = {} /\ viv.shaders = {}
      /\ \A p \in Programs : ~es.program[p] /\ ~viv.program[p]
  BY <1>1 DEF GlesInv, Staged
<1>3. /\ Sound(es') /\ es'.current # "surface" /\ Sound(viv') /\ viv'.current # "surface"
  BY <1>1, <1>2, CreateContextSound
<1>4. /\ Changes(viv, viv', {"egl", "context", "current", "program", "shaders"})
      /\ viv.config /\ viv.faults \cup viv.refused = {} =>
           viv'.context /\ viv'.current # "none" /\ \A p \in Programs : viv'.program[p]
  BY <1>1, <1>2, CreateContextChanges DEF Sound, Typed
<1>5. /\ DOMAIN viv' = DOMAIN viv
      /\ viv'.faults = viv.faults /\ viv'.refused = viv.refused /\ viv'.display = viv.display
      /\ viv'.config = viv.config /\ viv'.names = viv.names /\ viv'.images = viv.images
      /\ viv'.back = viv.back /\ viv'.pages = viv.pages /\ viv'.page = viv.page
      /\ viv'.open = viv.open /\ viv'.mapped = viv.mapped
      /\ viv'.fbWasInited = viv.fbWasInited
  BY <1>2, <1>4 DEF Changes, Parts, Sound, Typed, GlesInv, Device
<1>6. Staged(es)' /\ Staged(viv)'
  BY <1>1, <1>3 DEF Staged
<1>7. UserInv'
  BY <1>1 DEF GlesInv, UserInv
<1>8. handles = <<>> /\ last.call = "none"
  BY <1>1 DEF GlesInv, UserInv
<1>9. Filled'
  BY <1>1, <1>5, <1>8 DEF GlesInv, Filled
<1>10. Pictured'
  <2>1. ~Drawable
    BY <1>2 DEF Drawable, Programs
  <2>2. Bare(viv'.back) /\ Bare(viv'.pages[0]) /\ Bare(viv'.pages[1])
    BY <2>1, <1>5 DEF GlesInv, Pictured
  <2>3. viv'.page \in 0..1 /\ ("panned" \in viv'.faults \/ viv'.page = 0)
    BY <1>2, <1>5 DEF GlesInv, Pictured, Sound, Typed, RendererOK
  <2> QED
    BY <2>2, <2>3, BareIsPictured
<1>11. Exact'
  BY <1>1, <1>4, <1>5 DEF GlesInv, Exact, Complete
<1>12. Device'
  BY <1>1, <1>5 DEF GlesInv, Device
<1>13. Answers'
  BY <1>1, <1>8 DEF Answers
<1> QED
  BY <1>3, <1>6, <1>7, <1>9, <1>10, <1>11, <1>12, <1>13, SoundPrimes DEF GlesInv

LEMMA CreateWindowKeeps == GlesInv /\ CreateWindow => GlesInv'
<1> SUFFICES ASSUME GlesInv, CreateWindow PROVE GlesInv'
  OBVIOUS
<1>1. /\ phase = "window" /\ phase' = "idle"
      /\ es' = GilCreateWindow(es) /\ viv' = VivCreateWindow(viv)
      /\ UNCHANGED <<handles, drawn, shown, before, last>>
  BY DEF CreateWindow
<1>2. /\ Sound(es) /\ Sound(viv) /\ es.current # "surface" /\ viv.current # "surface"
      /\ handles = <<>> /\ last.call = "none"
  BY <1>1 DEF GlesInv, Staged, UserInv
<1>3. Sound(es') /\ Sound(viv')
  BY <1>1, <1>2, CreateWindowSound
<1>4. /\ Changes(viv, viv', {"egl", "window"})
      /\ viv.config /\ viv.faults = {} => viv'.window
  BY <1>1, <1>2, CreateWindowChanges DEF Sound, Typed
<1>5. /\ DOMAIN viv' = DOMAIN viv
      /\ viv'.faults = viv.faults /\ viv'.refused = viv.refused /\ viv'.display = viv.display
      /\ viv'.config = viv.config /\ viv'.names = viv.names /\ viv'.images = viv.images
      /\ viv'.back = viv.back /\ viv'.pages = viv.pages /\ viv'.page = viv.page
      /\ viv'.context = viv.context /\ viv'.current = viv.current /\ viv'.program = viv.program
      /\ viv'.open = viv.open /\ viv'.mapped = viv.mapped
      /\ viv'.fbWasInited = viv.fbWasInited
  BY <1>2, <1>4 DEF Changes, Parts, Sound, Typed, GlesInv, Device
<1>6. Staged(es)' /\ Staged(viv)'
  BY <1>1 DEF Staged
<1>7. UserInv'
  BY <1>1 DEF GlesInv, UserInv
<1>8. Filled'
  BY <1>1, <1>5 DEF GlesInv, Filled
<1>9. Pictured'
  BY <1>1, <1>5, PicturedStays DEF GlesInv
<1>10. Exact'
  BY <1>1, <1>4, <1>5 DEF GlesInv, Exact, Complete
<1>11. Device'
  BY <1>1, <1>5 DEF GlesInv, Device
<1>12. Answers'
  BY <1>1, <1>2 DEF Answers
<1> QED
  BY <1>3, <1>6, <1>7, <1>8, <1>9, <1>10, <1>11, <1>12, SoundPrimes DEF GlesInv

LEMMA LoadTextureKeeps ==
  ASSUME GlesInv, NEW image \in Images, NEW enough \in BOOLEAN, LoadTexture(image, enough)
  PROVE  GlesInv'
<1>1. /\ phase = "idle" /\ Len(handles) < MaxTextures
      /\ UNCHANGED <<phase, drawn, shown, before>> /\ last' = NoAnswer
  BY DEF LoadTexture
<1> DEFINE entry(t) == [handle |-> t, image |-> image, enough |-> enough]
<1>2. PICK t \in NewTextures(viv) :
        /\ es' = GilLoadTexture(GilCreateTexture(es), t, image, enough)
        /\ viv' = GilLoadTexture(GilCreateTexture(viv), t, image, enough)
        /\ handles' = Append(handles, entry(t))
  BY DEF LoadTexture, VivLoadTexture, VivCreateTexture
<1>3. /\ Sound(es) /\ Sound(viv) /\ viv.names \in 0..Len(handles)
      /\ handles \in Seq([handle : Names, image : Images, enough : BOOLEAN])
      /\ MaxTextures \in Nat /\ 0..MaxTextures \subseteq Names
  BY GlesAssumption DEF GlesInv, Filled, UserInv
<1>4. t \in Names /\ (viv.current # "none" => t = viv.names + 1)
  BY <1>1, <1>2, <1>3 DEF NewTextures
<1>5. Sound(es') /\ Sound(viv')
  BY <1>2, <1>3, <1>4, LoadTextureSound
<1>6. /\ DOMAIN viv.images = Names /\ Parts \subseteq DOMAIN viv
      /\ Parts \subseteq DOMAIN es /\ DOMAIN es.images = Names
  BY <1>3 DEF Sound, Typed, RendererOK
<1>7. /\ Changes(viv, viv', {"names", "bound", "images", "gl"})
      /\ viv.current = "none" => viv' = viv
      /\ viv.current # "none" =>
           /\ viv'.names = viv.names + 1
           /\ viv'.images = IF enough THEN [viv.images EXCEPT ![t] = image] ELSE viv.images
  BY <1>2, <1>4, <1>6, LoadTextureChanges
<1>8. Changes(es, es', {"names", "bound", "images", "gl"})
  BY <1>2, <1>4, <1>6, LoadTextureChanges
<1>9. /\ DOMAIN viv' = DOMAIN viv
      /\ viv'.faults = viv.faults /\ viv'.refused = viv.refused /\ viv'.display = viv.display
      /\ viv'.config = viv.config /\ viv'.current = viv.current /\ viv'.program = viv.program
      /\ viv'.back = viv.back /\ viv'.pages = viv.pages /\ viv'.page = viv.page
      /\ viv'.context = viv.context /\ viv'.window = viv.window
      /\ viv'.open = viv.open /\ viv'.mapped = viv.mapped
      /\ viv'.fbWasInited = viv.fbWasInited
  BY <1>6, <1>7 DEF Changes, Parts, GlesInv, Device
<1>10. Staged(es)' /\ Staged(viv)'
  BY <1>1 DEF Staged
<1>11. /\ entry(t) \in [handle : Names, image : Images, enough : BOOLEAN]
       /\ Len(handles') = Len(handles) + 1
       /\ handles' \in Seq([handle : Names, image : Images, enough : BOOLEAN])
       /\ handles'[Len(handles) + 1] = entry(t)
       /\ \A i \in 1..Len(handles) : handles'[i] = handles[i]
  BY <1>2, <1>3, <1>4
<1>12. UserInv'
  <2>1. Len(handles') <= MaxTextures
    BY <1>1, <1>3, <1>11
  <2> QED
    BY <1>1, <1>11, <2>1 DEF GlesInv, UserInv
<1>13. Filled'
  <2>1. CASE viv.current = "none"
    <3>1. ~viv.program["texture"]
      BY <1>3, <2>1 DEF Sound, Consistent, Programs
    <3> QED
      BY <1>7, <1>11, <2>1, <3>1, <1>3 DEF GlesInv, Filled
  <2>2. CASE viv.current # "none"
    <3>1. /\ t = viv.names + 1 /\ viv'.names = viv.names + 1 /\ t \in 1..MaxTextures
          /\ viv'.images[t] = IF enough THEN image ELSE NoImage
          /\ \A n \in Names : n # t => viv'.images[n] = viv.images[n]
      BY <1>1, <1>3, <1>4, <1>6, <1>7, <2>2 DEF GlesInv, Filled
    <3>2. viv'.names \in 0..Len(handles')
      BY <1>3, <1>11, <3>1
    <3>3. \A n \in (viv'.names + 1)..MaxTextures : viv'.images[n] = NoImage
      BY <1>3, <3>1 DEF GlesInv, Filled
    <3>4. ASSUME viv.program["texture"]
          PROVE  /\ viv'.names = Len(handles')
                 /\ \A i \in 1..Len(handles') :
                      /\ handles'[i].handle = i
                      /\ viv'.images[i] = IF handles'[i].enough THEN handles'[i].image ELSE NoImage
      <4>1. /\ viv.names = Len(handles)
            /\ \A i \in 1..Len(handles) :
                 /\ handles[i].handle = i
                 /\ viv.images[i] = IF handles[i].enough THEN handles[i].image ELSE NoImage
        BY <3>4 DEF GlesInv, Filled
      <4>2. t = Len(handles) + 1 /\ viv'.names = Len(handles')
        BY <1>11, <3>1, <4>1
      <4>3. ASSUME NEW i \in 1..Len(handles')
            PROVE  /\ handles'[i].handle = i
                   /\ viv'.images[i] = IF handles'[i].enough THEN handles'[i].image ELSE NoImage
        <5>1. CASE i = t
          BY <1>11, <3>1, <4>2, <5>1
        <5>2. CASE i # t
          <6>1. i \in 1..Len(handles) /\ i \in Names
            BY <1>1, <1>3, <1>11, <4>2, <5>2
          <6> QED
            BY <1>11, <3>1, <4>1, <5>2, <6>1
        <5> QED
          BY <5>1, <5>2
      <4> QED
        BY <4>2, <4>3
    <3> QED
      BY <1>9, <3>2, <3>3, <3>4 DEF Filled
  <2> QED
    BY <2>1, <2>2
<1>14. Pictured'
  BY <1>1, <1>9, PicturedStays DEF GlesInv
<1>15. Exact'
  <2>1. (\A i \in 1..Len(handles') : handles'[i].enough) =>
          \A i \in 1..Len(handles) : handles[i].enough
    BY <1>11
  <2> QED
    BY <1>1, <1>9, <2>1 DEF GlesInv, Exact, Complete
<1>16. Device'
  BY <1>1, <1>9 DEF GlesInv, Device
<1>17. Answers'
  BY <1>1 DEF Answers, NoAnswer, Answered
<1> QED
  BY <1>5, <1>10, <1>12, <1>13, <1>14, <1>15, <1>16, <1>17, SoundPrimes DEF GlesInv

\* A surface that is set is cleared, so that nothing of what it showed is left.
LEMMA ClearedKeeps ==
  ASSUME GlesInv, phase = "idle", phase' \in {"drawing", "verifying"},
         \/ es' = GilSetSurface(es) /\ viv' = GilSetSurface(viv) /\ phase' = "verifying"
         \/ /\ es' = GilClear(GilSetColor(GilSetSurface(es), "black"))
            /\ viv' = GilClear(GilSetColor(GilSetSurface(viv), "black")),
         drawn' = Nothing, last' = NoAnswer, UNCHANGED <<handles, shown, before>>
  PROVE  GlesInv'
<1>1. Sound(es) /\ Sound(viv) /\ Parts \subseteq DOMAIN viv
  BY DEF GlesInv, Sound, Typed
<1>2. Sound(es') /\ Sound(viv')
  BY <1>1, ClearSound
<1>3. /\ Changes(viv, viv', {"egl", "current", "gl", "back", "colour"})
      /\ viv'.current = IF viv.context /\ viv'.egl = "SUCCESS"
                        THEN IF viv.window THEN "surface" ELSE "context" ELSE viv.current
      /\ viv.context /\ viv.window => (viv'.egl = "SUCCESS" <=> viv.display)
      /\ viv'.back = IF viv'.current = "surface" THEN Blank("clear") ELSE viv.back
  BY <1>1, ClearChanges
<1>4. /\ DOMAIN viv' = DOMAIN viv
      /\ viv'.faults = viv.faults /\ viv'.refused = viv.refused /\ viv'.display = viv.display
      /\ viv'.config = viv.config /\ viv'.names = viv.names /\ viv'.images = viv.images
      /\ viv'.program = viv.program /\ viv'.pages = viv.pages /\ viv'.page = viv.page
      /\ viv'.context = viv.context /\ viv'.window = viv.window
      /\ viv'.open = viv.open /\ viv'.mapped = viv.mapped
      /\ viv'.fbWasInited = viv.fbWasInited
  BY <1>1, <1>3 DEF Changes, Parts, GlesInv, Device
<1>5. /\ viv.current = "surface" => viv'.current = "surface"
      /\ viv.current # "none" => viv'.current # "none"
  BY <1>1, <1>3 DEF Sound, Consistent
<1>6. Staged(es)' /\ Staged(viv)'
  BY DEF Staged
<1>7. UserInv'
  BY Bares DEF GlesInv, UserInv
<1>8. Filled'
  BY <1>4 DEF GlesInv, Filled
<1>9. Pictured'
  <2>1. Kept(viv'.back, drawn') /\ (viv'.current # "surface" => Bare(viv'.back))
    <3>1. CASE viv'.current = "surface"
      BY <1>3, <3>1, Bares, Blanks
    <3>2. CASE viv'.current # "surface"
      <4>1. ~Drawable /\ viv'.back = viv.back
        BY <1>3, <1>5, <3>2 DEF Drawable
      <4> QED
        BY <4>1, Bares DEF GlesInv, Pictured
    <3> QED
      BY <3>1, <3>2
  <2>2. ~Drawable' => Bare(viv'.back)
    <3>1. CASE viv'.current = "surface"
      BY <1>3, <3>1, Blanks
    <3> QED
      BY <2>1, <3>1
  <2>3. ~Drawable' => ~Drawable
    BY <1>4, <1>5 DEF Drawable
  <2>4. Kept(viv.pages[viv.page], shown)' /\ Kept(viv.back, drawn)'
    BY <1>4, <2>1 DEF GlesInv, Pictured, Kept
  <2>5. IF "panned" \in viv'.faults THEN Kept(viv.pages[1 - viv.page], before)' ELSE viv'.page = 0
    BY <1>4 DEF GlesInv, Pictured, Kept
  <2> QED
    BY <1>4, <2>2, <2>3, <2>4, <2>5 DEF GlesInv, Pictured, Bare
<1>10. Exact'
  BY <1>3, <1>4, <1>5, Bares DEF GlesInv, Exact, Complete
<1>11. Device'
  BY <1>4 DEF GlesInv, Device
<1>12. Answers'
  BY DEF Answers, NoAnswer, Answered
<1> QED
  BY <1>2, <1>6, <1>7, <1>8, <1>9, <1>10, <1>11, <1>12, SoundPrimes DEF GlesInv

\* What is drawn at a place, when anything is, is what was asked for there.
LEMMA DrawnKeeps ==
  ASSUME GlesInv, phase = "drawing", Sound(es'), Sound(viv'),
         Changes(viv, viv', {"gl", "back", "bound"}),
         NEW x \in Places, NEW look \in Looks \cup {"black"}, NEW painted,
         drawn' = [drawn EXCEPT ![x] = look],
         viv'.back \in {viv.back, [viv.back EXCEPT ![x] = painted]},
         ~Drawable /\ painted \in Looks => viv'.back = viv.back,
         viv'.back = [viv.back EXCEPT ![x] = painted] =>
           \/ painted \notin Looks
           \/ painted = look,
         Drawable => \/ viv'.back = [viv.back EXCEPT ![x] = painted]
                     \/ look = "black" /\ ~viv.program["color"],
         viv.faults \cup viv.refused = {} /\ (\A i \in 1..Len(handles) : handles[i].enough)
           /\ viv.current = "surface" /\ (\A p \in Programs : viv.program[p]) =>
           viv'.back = [viv.back EXCEPT ![x] = painted] /\ painted = look,
         last' = NoAnswer, UNCHANGED <<phase, handles, shown, before>>
  PROVE  GlesInv'
<1>1. /\ Sound(viv) /\ Parts \subseteq DOMAIN viv /\ viv.back \in [Places -> Seen]
      /\ drawn \in [Places -> Asked]
  BY DEF GlesInv, Sound, Typed, RendererOK, UserInv
<1>2. /\ DOMAIN viv' = DOMAIN viv
      /\ viv'.faults = viv.faults /\ viv'.refused = viv.refused /\ viv'.display = viv.display
      /\ viv'.config = viv.config /\ viv'.names = viv.names /\ viv'.images = viv.images
      /\ viv'.program = viv.program /\ viv'.pages = viv.pages /\ viv'.page = viv.page
      /\ viv'.context = viv.context /\ viv'.window = viv.window /\ viv'.current = viv.current
      /\ viv'.open = viv.open /\ viv'.mapped = viv.mapped
      /\ viv'.fbWasInited = viv.fbWasInited
  BY <1>1 DEF Changes, Parts, GlesInv, Device
<1>3. Staged(es)' /\ Staged(viv)'
  BY DEF Staged
<1>4. /\ drawn' \in [Places -> Asked] /\ drawn'[x] = look
      /\ \A p \in Places : p # x => drawn'[p] = drawn[p]
  BY <1>1 DEF Asked
<1>5. UserInv'
  BY <1>4 DEF GlesInv, UserInv
<1>6. Filled'
  BY <1>2 DEF GlesInv, Filled
<1>7. \A p \in Places : p # x => viv'.back[p] = viv.back[p]
  BY <1>1
<1>8. viv'.back = [viv.back EXCEPT ![x] = painted] => viv'.back[x] = painted
  BY <1>1
<1>9. Pictured'
  <2>1. Kept(viv.back, drawn)'
    <3> SUFFICES ASSUME NEW p \in Places, viv'.back[p] \in Looks
                 PROVE  \/ drawn'[p] = viv'.back[p]
                        \/ drawn'[p] = "black" /\ ~viv'.program["color"]
      BY DEF Kept
    <3>1. CASE p # x
      BY <1>2, <1>4, <1>7, <3>1 DEF GlesInv, Pictured, Kept
    <3>2. CASE p = x /\ viv'.back = [viv.back EXCEPT ![x] = painted]
      BY <1>4, <1>8, <3>2
    <3>3. CASE p = x /\ viv'.back # [viv.back EXCEPT ![x] = painted]
      <4>1. viv'.back = viv.back
        BY <3>3
      <4>2. Drawable
        BY <3>3, <4>1 DEF GlesInv, Pictured, Bare
      <4>3. look = "black" /\ ~viv.program["color"]
        BY <3>3, <4>2
      <4> QED
        BY <1>2, <1>4, <3>3, <4>3
    <3> QED
      BY <3>1, <3>2, <3>3
  <2>2. ~Drawable' => ~Drawable
    BY <1>2 DEF Drawable
  <2>3. ~Drawable => Bare(viv'.back)
    <3> SUFFICES ASSUME ~Drawable, NEW p \in Places PROVE viv'.back[p] \notin Looks
      BY DEF Bare
    <3>1. viv.back[p] \notin Looks
      BY DEF GlesInv, Pictured, Bare
    <3>2. CASE viv'.back = viv.back
      BY <3>1, <3>2
    <3>3. CASE viv'.back # viv.back
      BY <1>7, <1>8, <3>1, <3>3
    <3> QED
      BY <3>2, <3>3
  <2>4. Kept(viv.pages[viv.page], shown)'
    BY <1>2 DEF GlesInv, Pictured, Kept
  <2>5. IF "panned" \in viv'.faults THEN Kept(viv.pages[1 - viv.page], before)' ELSE viv'.page = 0
    BY <1>2 DEF GlesInv, Pictured, Kept
  <2> QED
    BY <1>2, <2>1, <2>2, <2>3, <2>4, <2>5 DEF GlesInv, Pictured, Bare
<1>10. Exact'
  <2>1. ASSUME viv.faults \cup viv.refused = {}, \A i \in 1..Len(handles) : handles[i].enough
        PROVE  Complete(viv'.back, drawn')
    <3>1. /\ viv.current = "surface" /\ \A p \in Programs : viv.program[p]
          /\ Complete(viv.back, drawn)
      BY <2>1 DEF GlesInv, Exact
    <3>2. viv'.back = [viv.back EXCEPT ![x] = painted] /\ painted = look
      BY <2>1, <3>1
    <3> QED
      BY <1>4, <1>7, <1>8, <3>1, <3>2 DEF Complete
  <2> QED
    BY <1>2, <2>1 DEF GlesInv, Exact, Complete
<1>11. Device'
  BY <1>2 DEF GlesInv, Device
<1>12. Answers'
  BY DEF Answers, NoAnswer, Answered
<1> QED
  BY <1>3, <1>5, <1>6, <1>9, <1>10, <1>11, <1>12, SoundPrimes DEF GlesInv

LEMMA DrawBitmapKeeps ==
  ASSUME GlesInv, NEW i \in 1..MaxTextures, NEW x \in Places, DrawBitmap(i, x)
  PROVE  GlesInv'
<1> DEFINE t == handles[i].handle
           image == handles[i].image
           b == GilBindTexture(viv, t)
           s == Sampled(b)
<1>1. /\ phase = "drawing" /\ i \in 1..Len(handles)
      /\ es' = GilDrawQuad(GilBindTexture(es, t), x)
      /\ viv' = GilDrawQuad(b, x)
      /\ drawn' = [drawn EXCEPT ![x] = image.look]
      /\ last' = NoAnswer /\ UNCHANGED <<phase, handles, shown, before>>
  BY DEF DrawBitmap, VivDrawQuad, VivBindTexture, GlesInv, UserInv
<1>2. /\ Sound(es) /\ Sound(viv) /\ Parts \subseteq DOMAIN viv
      /\ handles[i] \in [handle : Names, image : Images, enough : BOOLEAN]
  <2>1. handles \in Seq([handle : Names, image : Images, enough : BOOLEAN])
    BY DEF GlesInv, UserInv
  <2>2. i \in 1..Len(handles)
    BY <1>1
  <2>3. \A S : handles \in Seq(S) /\ i \in 1..Len(handles) => handles[i] \in S
    OBVIOUS
  <2>4. handles[i] \in [handle : Names, image : Images, enough : BOOLEAN]
    BY <2>1, <2>2, <2>3
  <2> QED
    BY <2>4 DEF GlesInv, Sound, Typed
<1>3. t \in Names /\ image \in Images /\ image.look \in Looks
  BY <1>2, GlesAssumption
<1>4. Sound(es') /\ Sound(viv')
  BY <1>1, <1>2, <1>3, DrawSound
<1>5. /\ Changes(viv, viv', {"gl", "back", "bound"})
      /\ viv'.back = IF Drawable THEN [viv.back EXCEPT ![x] = s] ELSE viv.back
  <2> DEFINE h == GilDrawQuad(b, x)
  <2>1. Parts \subseteq DOMAIN viv
    BY <1>2
  <2>2. /\ Changes(viv, h, {"gl", "back", "bound"})
        /\ h.back = IF viv.program["texture"] /\ viv.current = "surface"
                       /\ "locations" \notin viv.faults
                    THEN [viv.back EXCEPT ![x] = s] ELSE viv.back
    BY <2>1, QuadChanges
  <2> HIDE DEF h
  <2>3. viv' = h
    BY <1>1 DEF h
  <2> HIDE DEF s
  <2> QED
    BY <2>2, <2>3 DEF Drawable
<1>6. /\ s \in Looks \cup {"black"} /\ b.bound = IF viv.current = "none" THEN viv.bound ELSE t
      /\ Changes(viv, b, {"bound"})
  BY <1>2, <1>3, SampledSeen
<1>7. b.images = viv.images /\ b.faults = viv.faults
  BY <1>2, <1>6 DEF Changes, Parts
<1>8. Drawable => /\ s \in {image.look, "black"}
                  /\ viv.faults = {} /\ handles[i].enough => s = image.look
  <2> SUFFICES ASSUME Drawable PROVE /\ s \in {image.look, "black"}
                                     /\ viv.faults = {} /\ handles[i].enough => s = image.look
    OBVIOUS
  <2>1. /\ b.bound = t /\ t = i
        /\ viv.images[i] = IF handles[i].enough THEN image ELSE NoImage
    BY <1>1, <1>6 DEF Drawable, GlesInv, Filled
  <2>2. s = IF b.images[t].pot \/ "npot" \notin b.faults THEN b.images[t].look ELSE "black"
    BY <2>1 DEF Sampled
  <2> QED
    BY <1>7, <2>1, <2>2 DEF NoImage
<1>9. image.look \in Looks \cup {"black"} /\ "black" \notin Looks
  BY <1>3, GlesAssumption
<1>10. viv.faults \cup viv.refused = {} /\ viv.current = "surface"
         /\ (\A p \in Programs : viv.program[p]) => Drawable
  BY DEF Drawable, Programs
<1> HIDE DEF t, image, b, s
<1>11. /\ viv'.back \in {viv.back, [viv.back EXCEPT ![x] = s]}
       /\ ~Drawable => viv'.back = viv.back
       /\ Drawable => viv'.back = [viv.back EXCEPT ![x] = s]
  BY <1>5
<1>12. viv'.back = [viv.back EXCEPT ![x] = s] => s \notin Looks \/ s = image.look
  <2>1. CASE Drawable
    BY <1>8, <1>9, <2>1
  <2>2. CASE ~Drawable
    <3>1. x \in DOMAIN viv.back /\ viv.back[x] \notin Looks
      BY <1>2, <2>2 DEF GlesInv, Pictured, Bare, Sound, Typed, RendererOK
    <3> QED
      BY <1>11, <2>2, <3>1
  <2> QED
    BY <2>1, <2>2
<1>13. viv.faults \cup viv.refused = {} /\ (\A j \in 1..Len(handles) : handles[j].enough)
         /\ viv.current = "surface" /\ (\A p \in Programs : viv.program[p]) =>
         viv'.back = [viv.back EXCEPT ![x] = s] /\ s = image.look
  BY <1>1, <1>8, <1>10, <1>11
<1> QED
  BY <1>1, <1>4, <1>5, <1>9, <1>11, <1>12, <1>13, DrawnKeeps

LEMMA DrawAreaKeeps ==
  ASSUME GlesInv, NEW x \in Places, DrawArea(x)
  PROVE  GlesInv'
<1>1. /\ phase = "drawing" /\ es' = GilDrawArea(es, x) /\ viv' = GilDrawArea(viv, x)
      /\ drawn' = [drawn EXCEPT ![x] = "black"]
      /\ last' = NoAnswer /\ UNCHANGED <<phase, handles, shown, before>>
  BY DEF DrawArea, VivDrawArea
<1>2. /\ Sound(es) /\ Sound(viv) /\ Parts \subseteq DOMAIN viv /\ viv.colour = "black"
      /\ 0 \in Names
  BY GlesAssumption DEF GlesInv, Sound, Typed
<1>3. Sound(es') /\ Sound(viv')
  BY <1>1, <1>2, DrawSound
<1>4. /\ Changes(viv, viv', {"gl", "back"})
      /\ viv'.back = IF viv.program["color"] /\ viv.current = "surface"
                     THEN [viv.back EXCEPT ![x] = "black"] ELSE viv.back
  <2> DEFINE a == GilDrawArea(viv, x)
  <2>1. Parts \subseteq DOMAIN viv
    BY <1>2
  <2>2. /\ Changes(viv, a, {"gl", "back"})
        /\ a.back = IF viv.program["color"] /\ viv.current = "surface"
                    THEN [viv.back EXCEPT ![x] = viv.colour] ELSE viv.back
    BY <2>1, AreaChanges
  <2> HIDE DEF a
  <2>3. viv' = a
    BY <1>1 DEF a
  <2> QED
    BY <1>2, <2>2, <2>3
<1>5. "black" \notin Looks /\ "black" \in Looks \cup {"black"}
  BY GlesAssumption
<1>6. Changes(viv, viv', {"gl", "back", "bound"})
  BY <1>4 DEF Changes
<1>7. Drawable => \/ viv'.back = [viv.back EXCEPT ![x] = "black"]
                  \/ ~viv.program["color"]
  BY <1>4 DEF Drawable
<1>8. viv'.back \in {viv.back, [viv.back EXCEPT ![x] = "black"]}
  BY <1>4
<1>9. viv.faults \cup viv.refused = {} /\ (\A j \in 1..Len(handles) : handles[j].enough)
        /\ viv.current = "surface" /\ (\A p \in Programs : viv.program[p]) =>
        viv'.back = [viv.back EXCEPT ![x] = "black"]
  BY <1>4 DEF Programs
<1> QED
  BY <1>1, <1>3, <1>5, <1>6, <1>7, <1>8, <1>9, DrawnKeeps

\* A swap that cannot be made is an error of EGL.
LEMMA SwapTells ==
  ASSUME NEW g, Sound(g), NEW kept \in BOOLEAN
  PROVE  LET h == GilSwapBuffers(g, kept) IN Usable(h) \/ h.egl = "BAD_SURFACE"
<1> DEFINE ready == g.display /\ g.window /\ g.current = "surface"
           next  == IF "panned" \in g.faults THEN 1 - g.page ELSE g.page
           h     == GilSwapBuffers(g, kept)
<1>1. Parts \subseteq DOMAIN g
  BY DEF Sound, Typed
<1>2. /\ Changes(g, h, {"egl", "log", "gl", "page", "pages", "back"})
      /\ h.egl = IF ready THEN "SUCCESS" ELSE "BAD_SURFACE"
      /\ ready => /\ h.page = next /\ h.pages = [g.pages EXCEPT ![next] = g.back]
                  /\ h.back = IF kept THEN g.back ELSE Blank("undefined")
  BY <1>1, SwapChanges
<1> HIDE DEF h
<1>3. h.display = g.display /\ h.window = g.window /\ h.context = g.context
  BY <1>1, <1>2 DEF Changes, Parts
<1>4. Usable(h) \/ h.egl = "BAD_SURFACE"
  BY <1>2, <1>3 DEF Sound, Consistent, Usable
<1> QED
  BY <1>4 DEF h

LEMMA SwapBuffersKeeps ==
  ASSUME GlesInv, NEW kept \in BOOLEAN, SwapBuffers(kept)
  PROVE  GlesInv'
<1>1. /\ phase = "drawing" /\ phase' = "idle"
      /\ es' = GilSwapBuffers(es, kept) /\ viv' = GilSwapBuffers(viv, kept)
      /\ shown' = drawn /\ before' = shown
      /\ last' = Answered("swap", 0, "none", "none")
      /\ UNCHANGED <<handles, drawn>>
  BY DEF SwapBuffers, VivSwapBuffers
<1>2. /\ Sound(es) /\ Sound(viv) /\ Parts \subseteq DOMAIN es /\ Parts \subseteq DOMAIN viv
      /\ viv.page \in 0..1 /\ viv.pages \in [0..1 -> [Places -> Seen]]
  BY DEF GlesInv, Sound, Typed, RendererOK
<1>3. Sound(es') /\ Sound(viv')
  BY <1>1, <1>2, SwapSound
<1> DEFINE ready == viv.display /\ viv.window /\ viv.current = "surface"
           next  == IF "panned" \in viv.faults THEN 1 - viv.page ELSE viv.page
<1>4. /\ Changes(viv, viv', {"egl", "log", "gl", "page", "pages", "back"})
      /\ viv'.egl = IF ready THEN "SUCCESS" ELSE "BAD_SURFACE"
      /\ ready => /\ viv'.page = next /\ viv'.pages = [viv.pages EXCEPT ![next] = viv.back]
                  /\ viv'.back = IF kept THEN viv.back ELSE Blank("undefined")
      /\ ~ready => viv'.page = viv.page /\ viv'.pages = viv.pages /\ viv'.back = viv.back
  BY <1>1, <1>2, SwapChanges
<1>5. /\ DOMAIN viv' = DOMAIN viv
      /\ viv'.faults = viv.faults /\ viv'.refused = viv.refused /\ viv'.display = viv.display
      /\ viv'.config = viv.config /\ viv'.names = viv.names /\ viv'.images = viv.images
      /\ viv'.program = viv.program /\ viv'.current = viv.current
      /\ viv'.context = viv.context /\ viv'.window = viv.window
      /\ viv'.open = viv.open /\ viv'.mapped = viv.mapped
      /\ viv'.fbWasInited = viv.fbWasInited
  BY <1>2, <1>4 DEF Changes, Parts, GlesInv, Device
<1>6. Staged(es)' /\ Staged(viv)'
  BY <1>1 DEF Staged
<1>7. UserInv'
  BY <1>1 DEF GlesInv, UserInv, Answered
<1>8. Filled'
  BY <1>1, <1>5 DEF GlesInv, Filled
<1>9. next \in 0..1 /\ (ready => viv.pages[next]' = viv.pages[next]')
  BY <1>2
<1>10. ASSUME ready
       PROVE  /\ viv'.page = next /\ viv'.pages[next] = viv.back
              /\ \A k \in 0..1 : k # next => viv'.pages[k] = viv.pages[k]
              /\ viv'.back \in {viv.back, Blank("undefined")}
  <2>1. next \in DOMAIN viv.pages /\ DOMAIN viv.pages = 0..1
    BY <1>2
  <2> HIDE DEF next, ready
  <2> QED
    BY <1>4, <1>10, <2>1
<1>11. Pictured'
  <2>1. CASE ready
    <3>1. Kept(viv.back, drawn)'
      BY <1>1, <1>5, <1>10, <2>1, Bares DEF GlesInv, Pictured, Kept, Blank
    <3>2. Kept(viv.pages[viv.page], shown)'
      BY <1>1, <1>5, <1>10, <2>1 DEF GlesInv, Pictured, Kept
    <3>5. ~Drawable' => Bare(viv'.back) /\ Bare(viv'.pages[0]) /\ Bare(viv'.pages[1])
      <4> SUFFICES ASSUME ~Drawable
                   PROVE  Bare(viv'.back) /\ Bare(viv'.pages[0]) /\ Bare(viv'.pages[1])
        BY <1>5 DEF Drawable
      <4>1. Bare(viv.back) /\ Bare(viv.pages[0]) /\ Bare(viv.pages[1])
        BY DEF GlesInv, Pictured
      <4>2. \A k \in 0..1 : viv'.pages[k] \in {viv.pages[k], viv.back}
        BY <1>10, <2>1
      <4> QED
        BY <1>10, <2>1, <4>1, <4>2, Blanks
    <3>3. CASE "panned" \in viv.faults
      <4>1. 1 - viv'.page = viv.page /\ viv'.page # viv.page
        BY <1>2, <1>10, <2>1, <3>3
      <4>2. viv'.pages[viv.page] = viv.pages[viv.page]
        BY <1>2, <1>10, <2>1, <3>3
      <4>3. Kept(viv.pages[1 - viv.page], before)'
        BY <1>1, <1>5, <4>1, <4>2 DEF GlesInv, Pictured, Kept
      <4> QED
        BY <1>5, <3>1, <3>2, <3>3, <3>5, <4>3 DEF Pictured
    <3>4. CASE "panned" \notin viv.faults
      BY <1>5, <1>10, <2>1, <3>1, <3>2, <3>4, <3>5 DEF GlesInv, Pictured
    <3> QED
      BY <3>3, <3>4
  <2>2. CASE ~ready
    <3>1. viv.current # "surface" /\ ~Drawable
      BY <1>2, <2>2 DEF Sound, Consistent, Drawable
    <3>2. /\ Bare(viv'.back) /\ Bare(viv'.pages[0]) /\ Bare(viv'.pages[1])
      BY <1>4, <2>2, <3>1 DEF GlesInv, Pictured
    <3>3. viv'.page \in 0..1 /\ ("panned" \in viv'.faults \/ viv'.page = 0)
      BY <1>2, <1>4, <1>5, <2>2 DEF GlesInv, Pictured
    <3> QED
      BY <3>2, <3>3, BareIsPictured
  <2> QED
    BY <2>1, <2>2
<1>12. Exact'
  <2>1. ASSUME viv.faults \cup viv.refused = {}, \A i \in 1..Len(handles) : handles[i].enough
        PROVE  Complete(viv'.pages[0], drawn)
    <3>1. ready /\ Complete(viv.back, drawn)
      BY <1>1, <2>1 DEF GlesInv, Exact
    <3>2. next = 0
      BY <2>1 DEF GlesInv, Pictured
    <3> QED
      BY <1>10, <3>1, <3>2
  <2>2. viv.faults \cup viv.refused = {} =>
          /\ viv'.display /\ viv'.config /\ viv'.context /\ viv'.window
          /\ viv'.current # "none" /\ \A p \in Programs : viv'.program[p]
    BY <1>1, <1>5 DEF GlesInv, Exact
  <2> QED
    BY <1>1, <1>5, <2>1, <2>2 DEF Exact, Complete
<1>13. Device'
  BY <1>1, <1>5 DEF GlesInv, Device
<1>14. Answers'
  <2>1. /\ Usable(es') \/ es'.egl = "BAD_SURFACE"
        /\ Usable(viv') \/ viv'.egl = "BAD_SURFACE"
    BY <1>1, <1>2, SwapTells
  <2> QED
    BY <1>1, <2>1 DEF Answers, Answered, Usable
<1> QED
  BY <1>3, <1>6, <1>7, <1>8, <1>11, <1>12, <1>13, <1>14, SoundPrimes DEF GlesInv

\* Neither binding a texture nor reading an error changes what is seen.
LEMMA UnseenKeeps ==
  ASSUME GlesInv, phase \in {"idle", "drawing", "verifying"},
         Sound(es'), Sound(viv'), Changes(viv, viv', {"bound", "egl", "gl"}),
         phase' \in {phase, "idle"},
         UNCHANGED <<handles, drawn, shown, before>>, Answers'
  PROVE  GlesInv'
<1>1. Sound(viv) /\ Parts \subseteq DOMAIN viv
  BY DEF GlesInv, Sound, Typed
<1>2. /\ DOMAIN viv' = DOMAIN viv
      /\ viv'.faults = viv.faults /\ viv'.refused = viv.refused /\ viv'.display = viv.display
      /\ viv'.config = viv.config /\ viv'.names = viv.names /\ viv'.images = viv.images
      /\ viv'.program = viv.program /\ viv'.current = viv.current
      /\ viv'.context = viv.context /\ viv'.window = viv.window
      /\ viv'.back = viv.back /\ viv'.pages = viv.pages /\ viv'.page = viv.page
      /\ viv'.open = viv.open /\ viv'.mapped = viv.mapped
      /\ viv'.fbWasInited = viv.fbWasInited
  BY <1>1 DEF Changes, Parts, GlesInv, Device
<1>3. Staged(es)' /\ Staged(viv)'
  BY DEF Staged
<1>4. UserInv'
  BY DEF GlesInv, UserInv
<1>5. Filled'
  BY <1>2 DEF GlesInv, Filled
<1>6. Pictured'
  BY <1>2, PicturedStays DEF GlesInv
<1>7. Exact'
  BY <1>2 DEF GlesInv, Exact, Complete
<1>8. Device'
  BY <1>2 DEF GlesInv, Device
<1> QED
  BY <1>3, <1>4, <1>5, <1>6, <1>7, <1>8, SoundPrimes DEF GlesInv

LEMMA VerifyBitmapKeeps ==
  ASSUME GlesInv, NEW i \in 1..MaxTextures, NEW x \in Places, VerifyBitmap(i, x)
  PROVE  GlesInv'
<1> DEFINE t == handles[i].handle
<1>1. /\ phase = "verifying" /\ i \in 1..Len(handles)
      /\ es' = GilBindTexture(es, t) /\ viv' = GilBindTexture(viv, t)
      /\ last' = Answered("verify", x, GilVerify(es, x), VivVerify(viv, x))
      /\ UNCHANGED <<phase, handles, drawn, shown, before>>
  BY DEF VerifyBitmap, VivBindTexture, GlesInv, UserInv
<1>2. Sound(es) /\ Sound(viv)
  BY DEF GlesInv
<1>3. t \in Names
  <2>1. \A S : handles \in Seq(S) /\ i \in 1..Len(handles) => handles[i] \in S
    OBVIOUS
  <2>2. handles[i] \in [handle : Names, image : Images, enough : BOOLEAN]
    BY <1>1, <2>1 DEF GlesInv, UserInv
  <2> QED
    BY <2>2
<1> HIDE DEF t
<1>4. Sound(es') /\ Sound(viv') /\ Changes(viv, viv', {"bound"})
  BY <1>1, <1>2, <1>3, SampledSeen
<1>5. Changes(viv, viv', {"bound", "egl", "gl"})
  BY <1>4 DEF Changes
<1>6. viv'.pages = viv.pages /\ viv'.fbWasInited = viv.fbWasInited
  BY <1>2, <1>4 DEF Changes, Parts, GlesInv, Device, Sound, Typed
<1>7. VivVerify(viv, x) = VivVerify(viv, x)'
  BY <1>6 DEF VivVerify, CheckPoints, PixelFromFB
<1>8. Answers'
  BY <1>1, <1>6 DEF Answers, Answered, VivVerify, CheckPoints, PixelFromFB
<1> QED
  BY <1>1, <1>4, <1>5, <1>8, UnseenKeeps

LEMMA GetErrorKeeps == GlesInv /\ GetError => GlesInv'
<1> SUFFICES ASSUME GlesInv, GetError PROVE GlesInv'
  OBVIOUS
<1>1. /\ phase = "idle"
      /\ es' = GilGetError(es).gil /\ viv' = GilGetError(viv).gil
      /\ last' = Answered("error", 0, GilGetError(es).error, GilGetError(viv).error)
      /\ UNCHANGED <<phase, handles, drawn, shown, before>>
  BY DEF GetError, VivGetError
<1>2. Sound(es) /\ Sound(viv) /\ Parts \subseteq DOMAIN viv
  BY DEF GlesInv, Sound, Typed
<1>3. Sound(es') /\ Sound(viv')
  BY <1>1, <1>2, GetErrorSound
<1>4. Changes(viv, viv', {"egl", "gl"})
  BY <1>1, <1>2, GetErrorChanges
<1>5. Changes(viv, viv', {"bound", "egl", "gl"})
  BY <1>4 DEF Changes
<1>6. Answers'
  BY <1>1 DEF Answers, Answered
<1> QED
  BY <1>1, <1>3, <1>5, <1>6, UnseenKeeps

LEMMA EndVerifyKeeps == GlesInv /\ EndVerify => GlesInv'
<1> SUFFICES ASSUME GlesInv, EndVerify PROVE GlesInv'
  OBVIOUS
<1>1. /\ phase = "verifying" /\ phase' = "idle"
      /\ UNCHANGED <<es, viv, handles, drawn, shown, before, last>>
  BY DEF EndVerify
<1>2. /\ Sound(es') /\ Sound(viv') /\ Changes(viv, viv', {"bound", "egl", "gl"})
  BY <1>1 DEF GlesInv, Changes
<1>3. Answers'
  BY <1>1 DEF GlesInv, Answers, Usable, VivVerify, CheckPoints, PixelFromFB
<1> QED
  BY <1>1, <1>2, <1>3, UnseenKeeps

LEMMA UninitKeeps == GlesInv /\ Uninit => GlesInv'
<1> SUFFICES ASSUME GlesInv, Uninit PROVE GlesInv'
  OBVIOUS
<1>1. /\ phase = "idle" /\ phase' = "over" /\ viv' = VivUninit(viv) /\ last' = NoAnswer
      /\ UNCHANGED <<es, handles, drawn, shown, before>>
  BY DEF Uninit
<1>2. /\ Sound(es) /\ Sound(viv) /\ Parts \subseteq DOMAIN viv
      /\ {"open", "mapped", "fbWasInited"} \subseteq DOMAIN viv
      /\ viv.mapped = viv.fbWasInited
      /\ viv.mapped <=> viv.faults \cap {"fbopen", "fbinfo", "fbmap"} = {}
      /\ viv.open <=> "fbopen" \notin viv.faults
  BY <1>1 DEF GlesInv, Sound, Typed, Device
<1>3. Sound(es') /\ Sound(viv')
  BY <1>1, <1>2, UninitSound
<1>4. /\ Changes(viv, viv', {"open", "mapped"})
      /\ viv.fbWasInited => ~viv'.open /\ ~viv'.mapped
      /\ ~viv.fbWasInited => viv' = viv
  BY <1>1, <1>2, UninitChanges
<1>5. /\ DOMAIN viv' = DOMAIN viv
      /\ viv'.faults = viv.faults /\ viv'.refused = viv.refused /\ viv'.display = viv.display
      /\ viv'.config = viv.config /\ viv'.names = viv.names /\ viv'.images = viv.images
      /\ viv'.program = viv.program /\ viv'.current = viv.current
      /\ viv'.context = viv.context /\ viv'.window = viv.window
      /\ viv'.back = viv.back /\ viv'.pages = viv.pages /\ viv'.page = viv.page
  BY <1>2, <1>4 DEF Changes, Parts
<1>6. Staged(es)' /\ Staged(viv)'
  BY <1>1 DEF Staged
<1>7. UserInv'
  BY <1>1 DEF GlesInv, UserInv
<1>8. Filled'
  BY <1>1, <1>5 DEF GlesInv, Filled
<1>9. Pictured'
  BY <1>1, <1>5, PicturedStays DEF GlesInv
<1>10. Exact'
  BY <1>1, <1>5 DEF GlesInv, Exact, Complete
<1>11. Device'
  <2>1. CASE viv.fbWasInited
    BY <1>1, <1>2, <1>4, <1>5, <2>1 DEF Device
  <2>2. CASE ~viv.fbWasInited
    <3>1. viv' = viv /\ ~viv.mapped
      BY <1>2, <1>4, <2>2
    <3>2. viv.open => {"fbinfo", "fbmap"} \cap viv.faults # {}
      BY <1>2, <3>1
    <3> QED
      BY <1>1, <1>2, <3>1, <3>2 DEF Device
  <2> QED
    BY <2>1, <2>2
<1>12. Answers'
  BY <1>1 DEF Answers, NoAnswer, Answered
<1> QED
  BY <1>3, <1>6, <1>7, <1>8, <1>9, <1>10, <1>11, <1>12, SoundPrimes DEF GlesInv

LEMMA StepKeeps == GlesInv /\ [GlesNext]_glesVars => GlesInv'
<1> SUFFICES ASSUME GlesInv, [GlesNext]_glesVars PROVE GlesInv'
  OBVIOUS
<1>1. CASE CreateContext
  BY <1>1, CreateContextKeeps
<1>2. CASE CreateWindow
  BY <1>2, CreateWindowKeeps
<1>3. ASSUME NEW image \in Images, NEW enough \in BOOLEAN, LoadTexture(image, enough)
      PROVE  GlesInv'
  BY <1>3, LoadTextureKeeps
<1>4. CASE BeginFrame
  <2>1. /\ phase = "idle" /\ phase' = "drawing" /\ drawn' = Nothing /\ last' = NoAnswer
        /\ es' = GilClear(GilSetColor(GilSetSurface(es), "black"))
        /\ viv' = GilClear(GilSetColor(GilSetSurface(viv), "black"))
        /\ UNCHANGED <<handles, shown, before>>
    BY <1>4 DEF BeginFrame, VivClear, VivSetColor, VivSetSurface
  <2> QED
    BY <2>1, ClearedKeeps
<1>5. CASE BeginVerify
  <2>1. /\ phase = "idle" /\ phase' = "verifying" /\ drawn' = Nothing /\ last' = NoAnswer
        /\ es' = GilSetSurface(es) /\ viv' = GilSetSurface(viv)
        /\ UNCHANGED <<handles, shown, before>>
    BY <1>5 DEF BeginVerify, VivSetSurface
  <2> QED
    BY <2>1, ClearedKeeps
<1>6. CASE EndVerify
  BY <1>6, EndVerifyKeeps
<1>7. CASE GetError
  BY <1>7, GetErrorKeeps
<1>8. CASE Uninit
  BY <1>8, UninitKeeps
<1>9. ASSUME NEW x \in Places, DrawArea(x) PROVE GlesInv'
  BY <1>9, DrawAreaKeeps
<1>10. ASSUME NEW i \in 1..MaxTextures, NEW x \in Places, DrawBitmap(i, x) PROVE GlesInv'
  BY <1>10, DrawBitmapKeeps
<1>11. ASSUME NEW i \in 1..MaxTextures, NEW x \in Places, VerifyBitmap(i, x) PROVE GlesInv'
  BY <1>11, VerifyBitmapKeeps
<1>12. ASSUME NEW kept \in BOOLEAN, SwapBuffers(kept) PROVE GlesInv'
  BY <1>12, SwapBuffersKeeps
<1>13. CASE UNCHANGED glesVars
  BY <1>13 DEF glesVars, GlesInv, Sound, Typed, RendererOK, Consistent, Staged, UserInv,
     Filled, Pictured, Drawable, Kept, Bare, Exact, Complete, Device, Answers, Usable,
     VivVerify, CheckPoints, PixelFromFB
<1> QED
  BY <1>1, <1>2, <1>3, <1>4, <1>5, <1>6, <1>7, <1>8, <1>9, <1>10, <1>11, <1>12, <1>13
  DEF GlesNext

LEMMA Invariance == GlesSpec => []GlesInv
BY InitInv, StepKeeps, PTL DEF GlesSpec

-----------------------------------------------------------------------------
(* The theorems.                                                           *)

\* Whatever the driver lacks or refuses, the state of both graphics layers is of
\* the right type: no error is anything but those of GL and EGL, a texture that
\* is bound has a name, and a page is one of the two.
THEOREM GlesTyped == GlesSpec => []GlesTypeOK
<1>1. GlesInv => GlesTypeOK
  BY DEF GlesInv, Sound, Typed, UserInv, GlesTypeOK
<1> QED
  BY <1>1, Invariance, PTL

LEMMA QuadKeepsError ==
  ASSUME NEW g, Parts \subseteq DOMAIN g, g.gl # "NO_ERROR", NEW t, NEW x
  PROVE  GilDrawQuad(GilBindTexture(g, t), x).gl = g.gl
<1> DEFINE h == GilDrawQuad(GilBindTexture(g, t), x)
<1>1. g.gl # "NO_ERROR" => h.gl = g.gl
  BY QuadChanges
<1> QED
  BY <1>1

LEMMA QuadFrame ==
  ASSUME NEW g, Parts \subseteq DOMAIN g, NEW t, NEW x
  PROVE  Changes(g, GilDrawQuad(GilBindTexture(g, t), x), {"gl", "back", "bound"})
BY QuadChanges

LEMMA NoProgramRaises ==
  ASSUME NEW g, Parts \subseteq DOMAIN g, NEW p, NEW back, ~g.program[p], g.current # "none"
  PROVE  WithProgram(g, p, back).gl # "NO_ERROR"
<1> DEFINE r == GlRaise(g, "INVALID_OPERATION")
<1>1. Parts \subseteq DOMAIN r /\ r.gl # "NO_ERROR"
  BY DEF GlRaise, Parts
<1> HIDE DEF r
<1> DEFINE h == Painted(r, g.back)
<1>2. r.gl # "NO_ERROR" => h.gl = r.gl
  BY <1>1, PaintedChanges
<1>3. WithProgram(g, p, back) = h
  BY DEF WithProgram, r
<1> QED
  BY <1>1, <1>2, <1>3

\* While a frame is drawn, its surface is current if it can be, and what could not be
\* drawn without its program has left an error.
Missed(g) ==
  phase = "drawing" /\ Usable(g) =>
    g.current = "surface" /\ (Lacks(g, drawn) => g.gl # "NO_ERROR")

\* When the frame is swapped the error is in the log.
Logged(g) == last.call = "swap" /\ Usable(g) /\ Lacks(g, shown) => g.log # "NO_ERROR"

ToldInv == Missed(es) /\ Missed(viv) /\ Logged(es) /\ Logged(viv)

LEMMA BegunMissed ==
  ASSUME NEW g, Parts \subseteq DOMAIN g
  PROVE  LET h == GilClear(GilSetColor(GilSetSurface(g), "black"))
         IN  Usable(h) => h.current = "surface" /\ ~Lacks(h, Nothing)
<1> DEFINE h == GilClear(GilSetColor(GilSetSurface(g), "black"))
<1>1. /\ Changes(g, h, {"egl", "current", "gl", "back", "colour"})
      /\ h.current = IF g.context /\ h.egl = "SUCCESS"
                     THEN IF g.window THEN "surface" ELSE "context"
                     ELSE g.current
      /\ g.context /\ g.window => (h.egl = "SUCCESS" <=> g.display)
  BY ClearChanges
<1> HIDE DEF h
<1>2. h.display = g.display /\ h.context = g.context /\ h.window = g.window
  BY <1>1 DEF Changes, Parts
<1>3. ~Lacks(h, Nothing)
  BY GlesAssumption DEF Lacks, Nothing, Blank
<1> QED
  BY <1>1, <1>2, <1>3 DEF Usable, h

LEMMA DrawnMissed ==
  ASSUME NEW g, NEW h, Parts \subseteq DOMAIN g, Changes(g, h, {"gl", "back", "bound"}),
         g.gl # "NO_ERROR" => h.gl = g.gl,
         NEW p, NEW look,
         (p = "texture" /\ look \in Looks) \/ (p = "color" /\ look = "black"),
         ~g.program[p] /\ g.current # "none" => h.gl # "NO_ERROR",
         NEW x \in Places, NEW frame \in [Places -> Asked],
         Usable(g) => g.current = "surface" /\ (Lacks(g, frame) => g.gl # "NO_ERROR"),
         Usable(h)
  PROVE  /\ h.current = "surface"
         /\ Lacks(h, [frame EXCEPT ![x] = look]) => h.gl # "NO_ERROR"
<1> DEFINE drawing == [frame EXCEPT ![x] = look]
<1>1. /\ h.program = g.program /\ h.current = g.current
      /\ h.display = g.display /\ h.context = g.context /\ h.window = g.window
  BY DEF Changes, Parts
<1>2. g.current = "surface" /\ (Lacks(g, frame) => g.gl # "NO_ERROR")
  BY <1>1 DEF Usable
<1>3. CASE ~g.program[p]
  BY <1>1, <1>2, <1>3
<1>4. CASE g.program[p]
  <2>1. ASSUME Lacks(h, drawing) PROVE Lacks(g, frame)
    <3>1. drawing[x] = look /\ \A y \in Places : y # x => drawing[y] = frame[y]
      OBVIOUS
    <3> HIDE DEF drawing
    <3>2. look \in Looks => look # "black"
      BY GlesAssumption
    <3> QED
      BY <1>1, <1>4, <2>1, <3>1, <3>2 DEF Lacks
  <2> QED
    BY <1>1, <1>2, <2>1
<1> QED
  BY <1>3, <1>4

LEMMA SwapLogs ==
  ASSUME NEW g, Parts \subseteq DOMAIN g, NEW kept,
         Usable(g) => (Lacks(g, drawn) => g.gl # "NO_ERROR")
  PROVE  LET h == GilSwapBuffers(g, kept)
         IN  Usable(h) /\ Lacks(h, drawn) => h.log # "NO_ERROR"
<1> DEFINE h == GilSwapBuffers(g, kept)
<1>1. Changes(g, h, {"egl", "log", "gl", "page", "pages", "back"}) /\ h.log = g.gl
  BY SwapChanges
<1> HIDE DEF h
<1>2. /\ h.program = g.program
      /\ h.display = g.display /\ h.context = g.context /\ h.window = g.window
  BY <1>1 DEF Changes, Parts
<1> QED
  BY <1>1, <1>2 DEF Usable, Lacks, h

LEMMA ToldStep == GlesInv /\ ToldInv /\ [GlesNext]_glesVars => ToldInv'
<1> SUFFICES ASSUME GlesInv, ToldInv, [GlesNext]_glesVars PROVE ToldInv'
  OBVIOUS
<1>1. /\ Parts \subseteq DOMAIN es /\ Parts \subseteq DOMAIN viv
      /\ drawn \in [Places -> Asked]
      /\ phase \in {"context", "window"} => last.call = "none"
      /\ handles \in Seq([handle : Names, image : Images, enough : BOOLEAN])
  BY DEF GlesInv, Sound, Typed, UserInv
<1>2. ASSUME phase' # "drawing", last'.call # "swap" PROVE ToldInv'
  BY <1>2 DEF ToldInv, Missed, Logged
<1>3. CASE \/ CreateContext \/ CreateWindow
           \/ \E image \in Images, enough \in BOOLEAN : LoadTexture(image, enough)
           \/ BeginVerify \/ GetError \/ Uninit
           \/ \E i \in 1..MaxTextures, x \in Places : VerifyBitmap(i, x)
  BY <1>1, <1>2, <1>3
  DEF CreateContext, CreateWindow, LoadTexture, BeginVerify, GetError, Uninit, VerifyBitmap,
      NoAnswer, Answered
<1>4. CASE EndVerify
  BY <1>4 DEF EndVerify, ToldInv, Missed, Logged, Usable, Lacks
<1>5. CASE BeginFrame
  <2>1. /\ drawn' = Nothing /\ last'.call # "swap"
        /\ es' = GilClear(GilSetColor(GilSetSurface(es), "black"))
        /\ viv' = GilClear(GilSetColor(GilSetSurface(viv), "black"))
    BY <1>5 DEF BeginFrame, VivClear, VivSetColor, VivSetSurface, NoAnswer, Answered
  <2>2. /\ Usable(es') => es'.current = "surface" /\ ~Lacks(es', Nothing)
        /\ Usable(viv') => viv'.current = "surface" /\ ~Lacks(viv', Nothing)
    BY <1>1, <2>1, BegunMissed
  <2> QED
    BY <2>1, <2>2 DEF ToldInv, Missed, Logged, Usable, Lacks
<1>6. ASSUME NEW x \in Places, DrawArea(x) PROVE ToldInv'
  <2>1. /\ phase = "drawing" /\ drawn' = [drawn EXCEPT ![x] = "black"] /\ last'.call # "swap"
        /\ es' = GilDrawArea(es, x) /\ viv' = GilDrawArea(viv, x)
    BY <1>6 DEF DrawArea, VivDrawArea, NoAnswer, Answered
  <2>2. ASSUME NEW g, Parts \subseteq DOMAIN g, NEW h, h = GilDrawArea(g, x), Usable(h),
               Usable(g) => g.current = "surface" /\ (Lacks(g, drawn) => g.gl # "NO_ERROR")
        PROVE  h.current = "surface" /\ (Lacks(h, drawn') => h.gl # "NO_ERROR")
    <3>1. Changes(g, h, {"gl", "back"}) /\ (g.gl # "NO_ERROR" => h.gl = g.gl)
      BY <2>2, AreaChanges
    <3>2. Changes(g, h, {"gl", "back", "bound"})
      BY <3>1 DEF Changes
    <3>3. ~g.program["color"] /\ g.current # "none" => h.gl # "NO_ERROR"
      BY <2>2, NoProgramRaises DEF GilDrawArea
    <3> QED
      BY <1>1, <2>1, <2>2, <3>1, <3>2, <3>3, DrawnMissed
  <2> QED
    BY <1>1, <2>1, <2>2 DEF ToldInv, Missed, Logged, Usable, Lacks
<1>7. ASSUME NEW i \in 1..MaxTextures, NEW x \in Places, DrawBitmap(i, x) PROVE ToldInv'
  <2> DEFINE t == handles[i].handle
             look == handles[i].image.look
  <2>1. /\ phase = "drawing" /\ drawn' = [drawn EXCEPT ![x] = look] /\ last'.call # "swap"
        /\ es' = GilDrawQuad(GilBindTexture(es, t), x)
        /\ viv' = GilDrawQuad(GilBindTexture(viv, t), x)
    BY <1>7 DEF DrawBitmap, VivDrawQuad, VivBindTexture, NoAnswer, Answered
  <2>2. look \in Looks
    <3>1. i \in 1..Len(handles)
      BY <1>1, <1>7, GlesAssumption DEF DrawBitmap
    <3>2. \A S : handles \in Seq(S) /\ i \in 1..Len(handles) => handles[i] \in S
      OBVIOUS
    <3>3. handles[i] \in [handle : Names, image : Images, enough : BOOLEAN]
      BY <1>1, <3>1, <3>2
    <3> QED
      BY <3>3, GlesAssumption
  <2> HIDE DEF t, look
  <2>3. ASSUME NEW g, Parts \subseteq DOMAIN g,
               NEW h, h = GilDrawQuad(GilBindTexture(g, t), x), Usable(h),
               Usable(g) => g.current = "surface" /\ (Lacks(g, drawn) => g.gl # "NO_ERROR")
        PROVE  h.current = "surface" /\ (Lacks(h, drawn') => h.gl # "NO_ERROR")
    <3>1. Changes(g, h, {"gl", "back", "bound"})
      BY <2>3, QuadFrame
    <3>2. g.gl # "NO_ERROR" => h.gl = g.gl
      BY <2>3, QuadKeepsError
    <3>3. ~g.program["texture"] /\ g.current # "none" => h.gl # "NO_ERROR"
      <4> DEFINE b == GilBindTexture(g, t)
      <4>1. Parts \subseteq DOMAIN b /\ b.program = g.program /\ b.current = g.current
        BY <2>3, BindChanges DEF Changes, Parts
      <4> HIDE DEF b
      <4>2. h = GilDrawQuad(b, x)
        BY <2>3 DEF b
      <4> QED
        BY <4>1, <4>2, NoProgramRaises DEF GilDrawQuad
    <3> QED
      BY <1>1, <2>1, <2>2, <2>3, <3>1, <3>2, <3>3, DrawnMissed
  <2> QED
    BY <1>1, <2>1, <2>3 DEF ToldInv, Missed, Logged, Usable, Lacks
<1>8. ASSUME NEW kept \in BOOLEAN, SwapBuffers(kept) PROVE ToldInv'
  <2>1. /\ phase = "drawing" /\ phase' = "idle" /\ shown' = drawn
        /\ es' = GilSwapBuffers(es, kept) /\ viv' = GilSwapBuffers(viv, kept)
    BY <1>8 DEF SwapBuffers, VivSwapBuffers
  <2>2. /\ Usable(es) => (Lacks(es, drawn) => es.gl # "NO_ERROR")
        /\ Usable(viv) => (Lacks(viv, drawn) => viv.gl # "NO_ERROR")
    BY <2>1 DEF ToldInv, Missed
  <2>3. /\ Usable(es') /\ Lacks(es', drawn) => es'.log # "NO_ERROR"
        /\ Usable(viv') /\ Lacks(viv', drawn) => viv'.log # "NO_ERROR"
    BY <1>1, <2>1, <2>2, SwapLogs
  <2> QED
    BY <2>1, <2>3 DEF ToldInv, Missed, Logged, Usable, Lacks
<1>9. CASE UNCHANGED glesVars
  BY <1>9 DEF glesVars, ToldInv, Missed, Logged, Usable, Lacks
<1> QED
  BY <1>3, <1>4, <1>5, <1>6, <1>7, <1>8, <1>9 DEF GlesNext

\* Whatever of the set up fails, although each failure is only logged when it happens
\* and the process goes on: without a display, a context or a window the surface is never
\* current, so that every swap fails and its error is the one that is read first; a
\* frame that needed a program which is missing leaves an error, which is never told but
\* is in the log when the frame is swapped; and no lamp is found on a display that
\* cannot have been drawn on, or whose memory could not be opened (gilInit,
\* gilCreateContext, gilCreateWindow, gilSwapBuffers, gilGetError, gilVerify).
THEOREM SetupFailuresShow == GlesSpec => []SetupFailureShows
<1>1. GlesInit => ToldInv
  BY DEF GlesInit, NoAnswer, Answered, ToldInv, Missed, Logged
<1>2. ASSUME GlesInv, last.call = "swap"
      PROVE  /\ ~Usable(es) => GilGetError(es).error # "NO_ERROR"
             /\ ~Usable(viv) => VivGetError(viv).error # "NO_ERROR"
  <2>1. /\ Parts \subseteq DOMAIN es /\ Parts \subseteq DOMAIN viv
        /\ ~Usable(es) => es.egl = "BAD_SURFACE"
        /\ ~Usable(viv) => viv.egl = "BAD_SURFACE"
    BY <1>2 DEF GlesInv, Sound, Typed, Answers
  <2>2. /\ ~Usable(es) => GilGetError(es).error = "BAD_SURFACE"
        /\ ~Usable(viv) => GilGetError(viv).error = "BAD_SURFACE"
    BY <2>1, GetErrorChanges
  <2> QED
    BY <2>2 DEF VivGetError
<1>3. ASSUME GlesInv, last.call = "verify", last.viv
      PROVE  Usable(viv) /\ viv.program["texture"] /\ viv.fbWasInited
  <2> DEFINE x == last.of
  <2>1. /\ x \in Places /\ viv.fbWasInited /\ x \in Lamps
        /\ viv.pages[0][x] = Expected[x]
    BY <1>3 DEF GlesInv, Answers, VivVerify, CheckPoints, PixelFromFB
  <2>2. Expected[x] \in Looks
    BY <2>1, GlesAssumption
  <2> HIDE DEF x
  <2>3. Pictured /\ Consistent(viv)
    BY <1>3 DEF GlesInv, Sound
  <2>4. ~Bare(viv.pages[0])
    BY <2>1, <2>2 DEF Bare
  <2>5. Drawable
    BY <2>3, <2>4 DEF Pictured
  <2> QED
    BY <2>1, <2>3, <2>5 DEF Drawable, Consistent, Usable
<1>4. GlesInv /\ ToldInv => SetupFailureShows
  BY <1>2, <1>3 DEF ToldInv, Logged, SetupFailureShows
<1>5. GlesSpec => []ToldInv
  BY <1>1, ToldStep, Invariance, PTL DEF GlesSpec
<1> QED
  BY <1>4, <1>5, Invariance, PTL

LEMMA LoadKeepsError ==
  ASSUME NEW g, Parts \subseteq DOMAIN g, DOMAIN g.images = Names, g.gl # "NO_ERROR",
         NEW t \in Names, NEW image, NEW enough \in BOOLEAN
  PROVE  GilLoadTexture(GilCreateTexture(g), t, image, enough).gl = g.gl
<1> DEFINE h == GilLoadTexture(GilCreateTexture(g), t, image, enough)
<1>1. /\ g.gl # "NO_ERROR" => h.gl = g.gl
      /\ g.current # "none" =>
           h.images = IF enough THEN [g.images EXCEPT ![t] = image] ELSE g.images
  BY LoadTextureChanges
<1> QED
  BY <1>1

\* No call but the two that read it takes an error of GL back: it was told or it
\* was logged (gilGetError, gilSwapBuffers; glGetError keeps the first error).
THEOREM GlErrorsAreNeverLost == GlesSpec => GlErrorsAreTold
<1>1. GlesInv /\ [GlesNext]_glesVars => [GlErrorsTold]_glesVars
  <2> SUFFICES ASSUME GlesInv, GlesNext PROVE GlErrorsTold
    OBVIOUS
  <2>1. Parts \subseteq DOMAIN es /\ Parts \subseteq DOMAIN viv
    BY DEF GlesInv, Sound, Typed
  <2>2. DOMAIN es.images = Names /\ DOMAIN viv.images = Names
    BY DEF GlesInv, Sound, Typed, RendererOK
  <2>3. SUFFICES ASSUME ~ /\ es.gl # "NO_ERROR" => es'.gl = es.gl
                          /\ viv.gl # "NO_ERROR" => viv'.gl = viv.gl
                 PROVE  GlErrorsTold
    BY DEF GlErrorsTold
  <2>4. ASSUME CreateContext PROVE FALSE
    <3>1. /\ es' = GilCreateContext(es) /\ viv' = GilCreateContext(viv) /\ phase = "context"
      BY <2>4 DEF CreateContext, VivCreateContext
    <3>2. /\ Sound(es) /\ Sound(viv) /\ es.shaders = {} /\ viv.shaders = {}
          /\ \A p \in Programs : ~es.program[p] /\ ~viv.program[p]
      BY <3>1 DEF GlesInv, Staged
    <3>3. /\ Changes(es, es', {"egl", "context", "current", "program", "shaders"})
          /\ Changes(viv, viv', {"egl", "context", "current", "program", "shaders"})
      BY <3>1, <3>2, CreateContextChanges DEF Sound, Typed
    <3> QED
      BY <2>1, <2>3, <3>3 DEF Changes, Parts
  <2>5. ASSUME CreateWindow PROVE FALSE
    <3>1. /\ Changes(es, es', {"crashed", "egl", "window"})
          /\ Changes(viv, viv', {"egl", "window"})
      BY <2>1, <2>5, CreateWindowChanges DEF CreateWindow
    <3> QED
      BY <2>1, <2>3, <3>1 DEF Changes, Parts
  <2>6. ASSUME NEW image \in Images, NEW enough \in BOOLEAN, LoadTexture(image, enough)
        PROVE  FALSE
    <3>1. PICK t \in NewTextures(viv) :
            /\ es' = GilLoadTexture(GilCreateTexture(es), t, image, enough)
            /\ viv' = GilLoadTexture(GilCreateTexture(viv), t, image, enough)
      BY <2>6 DEF LoadTexture, VivLoadTexture, VivCreateTexture
    <3>2. t \in Names
      BY <2>6, GlesAssumption DEF LoadTexture, NewTextures, GlesInv, Filled, UserInv
    <3> QED
      BY <2>1, <2>2, <2>3, <3>1, <3>2, LoadKeepsError
  <2>7. ASSUME BeginFrame \/ BeginVerify PROVE FALSE
    BY <2>1, <2>3, <2>7, ClearChanges
    DEF BeginFrame, BeginVerify, VivClear, VivSetColor, VivSetSurface
  <2>8. ASSUME EndVerify PROVE FALSE
    BY <2>3, <2>8 DEF EndVerify
  <2>9. ASSUME GetError PROVE GlErrorsTold
    BY <2>1, <2>9, GetErrorChanges DEF GetError, VivGetError, Answered, GlErrorsTold
  <2>10. ASSUME Uninit PROVE FALSE
    <3>1. {"open", "mapped", "fbWasInited"} \subseteq DOMAIN viv
      BY DEF GlesInv, Device
    <3>2. Changes(viv, viv', {"open", "mapped"}) /\ es' = es
      BY <2>1, <2>10, <3>1, UninitChanges DEF Uninit
    <3> QED
      BY <2>1, <2>3, <3>2 DEF Changes, Parts
  <2>11. ASSUME NEW x \in Places, DrawArea(x) PROVE FALSE
    BY <2>1, <2>3, <2>11, AreaChanges DEF DrawArea, VivDrawArea
  <2>12. ASSUME NEW i \in 1..MaxTextures, NEW x \in Places, DrawBitmap(i, x) PROVE FALSE
    <3> DEFINE t == handles[i].handle
    <3>1. /\ es' = GilDrawQuad(GilBindTexture(es, t), x)
          /\ viv' = GilDrawQuad(GilBindTexture(viv, t), x)
      BY <2>12 DEF DrawBitmap, VivDrawQuad, VivBindTexture
    <3> HIDE DEF t
    <3> QED
      BY <2>1, <2>3, <3>1, QuadKeepsError
  <2>13. ASSUME NEW i \in 1..MaxTextures, NEW x \in Places, VerifyBitmap(i, x) PROVE FALSE
    <3> DEFINE t == handles[i].handle
    <3>1. /\ es' = GilBindTexture(es, t) /\ viv' = GilBindTexture(viv, t)
      BY <2>13 DEF VerifyBitmap, VivBindTexture
    <3> HIDE DEF t
    <3>2. Changes(es, es', {"bound"}) /\ Changes(viv, viv', {"bound"})
      BY <2>1, <3>1, BindChanges
    <3> QED
      BY <2>1, <2>3, <3>2 DEF Changes, Parts
  <2>14. ASSUME NEW kept \in BOOLEAN, SwapBuffers(kept) PROVE GlErrorsTold
    BY <2>1, <2>14, SwapChanges DEF SwapBuffers, VivSwapBuffers, GlErrorsTold
  <2> QED
    BY <2>4, <2>5, <2>6, <2>7, <2>8, <2>9, <2>10, <2>11, <2>12, <2>13, <2>14 DEF GlesNext
<1> QED
  BY <1>1, Invariance, PTL DEF GlesSpec, GlErrorsAreTold

\* A lamp that is found in the memory of the display was asked for in the frame
\* that was swapped last, or in the one before it when the display flips between
\* two pages; and on a driver without faults a lamp that was asked for is found,
\* however many textures there are and whatever was drawn before and after it
\* (gilVerify of gil_imx6_vivante.c).
THEOREM VerdictsTell == GlesSpec => []VerdictTells
<1>1. GlesInv => VerdictTells
  <2> DEFINE x == last.of
  <2> SUFFICES ASSUME GlesInv, last.call = "verify"
               PROVE  /\ last.viv => \/ AskedFor(shown, x)
                                     \/ "panned" \in viv.faults /\ AskedFor(before, x)
                      /\ viv.faults \cup viv.refused = {} /\ x \in Lamps
                           /\ (\A i \in 1..Len(handles) : handles[i].enough) =>
                           (shown[x] = Expected[x] => last.viv)
    BY DEF VerdictTells
  <2>1. /\ x \in Places /\ phase \in {"verifying", "idle"}
        /\ last.viv = (viv.fbWasInited /\ x \in Lamps /\ viv.pages[0][x] = Expected[x])
    BY DEF GlesInv, Answers, VivVerify, CheckPoints, PixelFromFB
  <2>2. x \in Lamps => Expected[x] \in Looks
    BY GlesAssumption
  <2> HIDE DEF x
  <2>3. ASSUME last.viv
        PROVE  AskedFor(shown, x) \/ ("panned" \in viv.faults /\ AskedFor(before, x))
    <3>1. viv.pages[0][x] = Expected[x] /\ viv.pages[0][x] \in Looks
      BY <2>1, <2>2, <2>3
    <3>2. CASE viv.page = 0
      BY <2>1, <3>1, <3>2 DEF GlesInv, Pictured, Kept, AskedFor
    <3>3. CASE viv.page # 0
      <4>1. "panned" \in viv.faults /\ viv.page \in 0..1
        BY <3>3 DEF GlesInv, Pictured, Sound, Typed, RendererOK
      <4>2. 1 - viv.page = 0
        BY <3>3, <4>1
      <4>3. Kept(viv.pages[0], before)
        BY <4>1, <4>2 DEF GlesInv, Pictured
      <4> QED
        BY <2>1, <3>1, <4>1, <4>3 DEF Kept, AskedFor
    <3> QED
      BY <3>2, <3>3
  <2>4. ASSUME viv.faults \cup viv.refused = {}, x \in Lamps,
               \A i \in 1..Len(handles) : handles[i].enough, shown[x] = Expected[x]
        PROVE  last.viv
    <3>1. viv.fbWasInited
      BY <2>1, <2>4 DEF GlesInv, Device
    <3>2. Complete(viv.pages[0], shown)
      BY <2>4 DEF GlesInv, Exact
    <3> QED
      BY <2>1, <2>2, <2>4, <3>1, <3>2 DEF Complete
  <2> QED
    BY <2>3, <2>4
<1> QED
  BY <1>1, Invariance, PTL

\* A program that could be made leaves no shader behind, and only a device that
\* failed between its opening and its mapping is left open at the end
\* (loadProgramSource, loadFrameBufferDevice, gilUninit).
THEOREM OnlyFailuresLeak == GlesSpec => []LeaksOnlyOnFailure
<1>1. GlesInv => LeaksOnlyOnFailure
  BY DEF GlesInv, Sound, Consistent, Device, LeaksOnlyOnFailure
<1> QED
  BY <1>1, Invariance, PTL
=============================================================================
