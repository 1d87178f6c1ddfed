----------------------------- MODULE SwRenderer -----------------------------
(***************************************************************************)
(* The software renderer behind the graphics interface (gil.h): pixels are *)
(* copied into a double buffer, which a swap copies to the screen.         *)
(*                                                                         *)
(* Its state is one record, and each call of the interface an operator     *)
(* from a state to the next, so that a client composes the calls it makes. *)
(* Memory is a function from addresses, counted in pixels, to colours: all *)
(* surfaces of one copy have the same number of bytes per pixel.  A handle *)
(* is the position of what it stands for, and 0 the null pointer.          *)
(*                                                                         *)
(* A failed GIL_REQUIRE or GIL_ASSERT calls pilAssert and then refuses the *)
(* call, or goes on; "asserted" records that pilAssert was called.  "wild" *)
(* records a write behind a buffer, which no check of the code prevents.   *)
(***************************************************************************)
EXTENDS Integers, Sequences

CONSTANTS
  GilMaxContexts,     \* GIL_MAX_CONTEXTS
  GilMaxTextures,     \* GIL_MAX_TEXTURES
  Colours,            \* the values of a pixel
  Fixed,              \* the colour of every clear: BB B7 B4 00, whatever is asked
  Unknown             \* what is read behind the end of a buffer

\* The GILFormats; P_2, P_4 and P_8 stand for the five of each palette size.
Formats == {"INVALID", "A_8", "P_2", "P_4", "P_8", "RGB_565", "BGR_565",
            "RGB_888", "BGR_888", "ARGB_8888", "BGRA_8888", "RGBA_8888"}

\* gil_helper_getbpp; an invalid format counts as four bytes.
Bpp(format) ==
  CASE format \in {"A_8", "P_2", "P_4", "P_8"} -> 1
    [] format \in {"RGB_565", "BGR_565"}       -> 2
    [] format \in {"RGB_888", "BGR_888"}       -> 3
    [] OTHER                                   -> 4

\* The formats gil_sw_set_color can write: the others are left to be done.
Settable == {"A_8", "RGB_888", "BGR_888", "ARGB_8888", "BGRA_8888", "RGBA_8888"}

Asserted(g) == [g EXCEPT !.asserted = TRUE]

-----------------------------------------------------------------------------
(* The copying of pixels.  A surface is [x, y, w, h, stride, size, mem].   *)

Cells(w, h) == (0..w-1) \X (0..h-1)
Start(s)    == s.y * s.stride + s.x
Cell(s, c)  == Start(s) + c[2] * s.stride + c[1]

\* The only cells the bounds skip: the end of a row is computed from the size
\* of the whole surface, so that a row that is too long runs into the next.
InRow(dest, src, c) ==
  /\ c[1] < src.size
  /\ c[1] < dest.size + (dest.stride - src.w) * dest.h

Read(s, i) == IF i \in DOMAIN s.mem THEN s.mem[i] ELSE Unknown

\* checkPreconditions: no surface of one byte per pixel passes, and larger
\* pixels must be aligned.
Sound(s, format) == Bpp(format) > 1 /\ s.aligned /\ s.w >= 0 /\ s.h >= 0

\* gil_sw_bitblit_copy: the memory of dest afterwards.  Where rows overlap, the
\* last one stays.
Copied(dest, src) ==
  LET hit == {c \in Cells(src.w, src.h) : InRow(dest, src, c)}
  IN  [i \in DOMAIN dest.mem |->
         LET at == {c \in hit : Cell(dest, c) = i}
         IN  IF at = {} THEN dest.mem[i]
             ELSE Read(src, Cell(src, CHOOSE c \in at : \A d \in at : d[2] <= c[2]))]

Outside(dest, src) ==
  \E c \in Cells(src.w, src.h) : InRow(dest, src, c) /\ Cell(dest, c) \notin DOMAIN dest.mem

\* gil_sw_set_color: the memory of dest afterwards.
Coloured(dest, format, colour) ==
  LET hit == {Cell(dest, c) : c \in {d \in Cells(dest.w, dest.h) : InRow(dest, dest, d)}}
  IN  IF format \in Settable
      THEN [i \in DOMAIN dest.mem |-> IF i \in hit THEN colour ELSE dest.mem[i]]
      ELSE dest.mem

\* Mutant: the comparison gives up after the first row.
SameInFirstRow(dest, src) ==
  \A c \in Cells(src.w, 1) :
    InRow(dest, src, c) /\ Read(dest, Cell(dest, c)) = Read(src, Cell(src, c))

\* gil_sw_compare(...) = 0: no cell differs, and none is skipped.
Same(dest, src) ==
  \A c \in Cells(src.w, src.h) :
    InRow(dest, src, c) /\ Read(dest, Cell(dest, c)) = Read(src, Cell(src, c))

-----------------------------------------------------------------------------
(* Contexts, windows and textures.                                         *)

\* gilInit; the screen is the memory the configuration names.
GilInit(config) ==
  [screen |-> config, window |-> [valid |-> FALSE], contexts |-> <<>>,
   textures |-> <<>>, asserted |-> FALSE, wild |-> FALSE]

GilCreateContext(g) ==
  IF Len(g.contexts) < GilMaxContexts
  THEN [g EXCEPT !.contexts = Append(@, [surface |-> 0, texture |-> 0, colour |-> Unknown])]
  ELSE Asserted(g)

\* gilCreateWindow of the window 0, the only one; fill is what malloc returns.
GilCreateWindow(g, x, y, w, h, fill) ==
  IF x >= 0 /\ y >= 0 /\ w > 0 /\ h > 0 /\ ~g.window.valid
  THEN [g EXCEPT !.window =
         [valid |-> TRUE, x |-> x, y |-> y, w |-> w, h |-> h, stride |-> w,
          size |-> w * h, aligned |-> TRUE, format |-> g.screen.format,
          mem |-> [i \in 0..w*h-1 |-> fill]]]
  ELSE Asserted(g)

IsContext(g, c) == c \in 1..Len(g.contexts)
IsTexture(g, t) == t \in 1..Len(g.textures)

\* gilSetSurface: the window is the surface 1.
GilSetSurface(g, c, s) ==
  IF IsContext(g, c) /\ s = 1 /\ g.window.valid
  THEN [g EXCEPT !.contexts[c].surface = s]
  ELSE Asserted(g)

\* gilSetColor: the colour is ignored and the context not looked at.
GilSetColor(g, c) == [g EXCEPT !.contexts[c].colour = Fixed]

NoPixels == [valid |-> FALSE, width |-> 0, height |-> 0, format |-> "INVALID",
             data |-> <<>>, aligned |-> TRUE]

GilCreateTexture(g) ==
  IF Len(g.textures) < GilMaxTextures
  THEN [g EXCEPT !.textures = Append(@, NoPixels)]
  ELSE Asserted(g)

\* The texture gilCreateTexture returns in the state g.
NewTexture(g) == IF Len(g.textures) < GilMaxTextures THEN Len(g.textures) + 1 ELSE 0

\* gilTexPixels; the pixels stay where they are in memory, aligned or not.  The
\* caller has checked that there are some.
GilTexPixels(g, t, width, height, format, data, aligned) ==
  IF IsTexture(g, t)
  THEN [g EXCEPT !.textures[t] =
         [valid |-> TRUE, width |-> width, height |-> height, format |-> format,
          data |-> data, aligned |-> aligned]]
  ELSE Asserted(g)

\* Mutant: a texture that is NULL is passed over without an assertion.
BindQuietly(g, c, t) ==
  IF IsContext(g, c) /\ IsTexture(g, t)
  THEN [g EXCEPT !.contexts[c].texture = t]
  ELSE g

\* gilBindTexture: when the texture is refused the one before stays bound.
GilBindTexture(g, c, t) ==
  IF IsContext(g, c) /\ IsTexture(g, t)
  THEN [g EXCEPT !.contexts[c].texture = t]
  ELSE Asserted(g)

\* gilClear.
GilClear(g, c) ==
  IF IsContext(g, c) /\ g.contexts[c].surface = 1 /\ g.window.valid
  THEN LET dest    == g.window
           colour  == g.contexts[c].colour
           outside == \E d \in Cells(dest.w, dest.h) :
                        InRow(dest, dest, d) /\ Cell(dest, d) \notin DOMAIN dest.mem
       IN  [g EXCEPT !.window.mem = Coloured(dest, dest.format, colour),
                     !.asserted   = @ \/ ~Sound(dest, dest.format),
                     !.wild       = @ \/ (outside /\ dest.format \in Settable)]
  ELSE Asserted(g)

\* Mutant: both ends of the texture coordinates are counted twice.
QuadWide(g, c, x1, y1, u1, v1, u2, v2) ==
  LET t == g.textures[g.contexts[c].texture]
      w == ((u2 - u1) \div 16) + 2
      h == ((v2 - v1) \div 16) + 2
  IN  [dest |-> [g.window EXCEPT !.x = x1 \div 16, !.y = y1 \div 16, !.w = w, !.h = h],
       src  |-> [x |-> u1 \div 16, y |-> v1 \div 16, w |-> w, h |-> h,
                 stride |-> t.width, size |-> t.width * t.height, aligned |-> t.aligned,
                 mem |-> [i \in 0..Len(t.data)-1 |-> t.data[i + 1]]]]

\* The surfaces of gilDrawQuad and gilVerify: the target begins at the first
\* corner, with the size of the texture's part; the other corner is ignored.
Quad(g, c, x1, y1, u1, v1, u2, v2) ==
  LET t == g.textures[g.contexts[c].texture]
      w == ((u2 - u1) \div 16) + 1
      h == ((v2 - v1) \div 16) + 1
  IN  [dest |-> [g.window EXCEPT !.x = x1 \div 16, !.y = y1 \div 16, !.w = w, !.h = h],
       src  |-> [x |-> u1 \div 16, y |-> v1 \div 16, w |-> w, h |-> h,
                 stride |-> t.width, size |-> t.width * t.height, aligned |-> t.aligned,
                 mem |-> [i \in 0..Len(t.data)-1 |-> t.data[i + 1]]]]

\* What gilDrawQuad and gilVerify need before they look at the formats.
CanDraw(g, c) ==
  /\ IsContext(g, c) /\ g.contexts[c].surface = 1 /\ g.window.valid
  /\ IsTexture(g, g.contexts[c].texture)
  /\ g.textures[g.contexts[c].texture].valid

SameFormat(g, c) == g.textures[g.contexts[c].texture].format = g.window.format

\* gilDrawQuad.
GilDrawQuad(g, c, x1, y1, u1, v1, u2, v2) ==
  IF CanDraw(g, c) /\ SameFormat(g, c)
  THEN LET q == Quad(g, c, x1, y1, u1, v1, u2, v2)
       IN  [g EXCEPT !.window.mem = Copied(q.dest, q.src),
                     !.asserted   = @ \/ ~Sound(q.dest, g.window.format)
                                      \/ ~Sound(q.src, g.window.format),
                     !.wild       = @ \/ Outside(q.dest, q.src)]
  ELSE Asserted(g)

\* gilVerify compares with the double buffer, not with the screen.
GilVerify(g, c, x1, y1, u1, v1, u2, v2) ==
  /\ CanDraw(g, c) /\ SameFormat(g, c)
  /\ LET q == Quad(g, c, x1, y1, u1, v1, u2, v2) IN Same(q.dest, q.src)

\* The state gilVerify leaves: a texture of another format is no assertion.
GilVerified(g, c) == IF CanDraw(g, c) THEN g ELSE Asserted(g)

\* gilSwapBuffers: the double buffer is copied to the screen; the position of
\* the window is where the copy starts in the double buffer.
GilSwapBuffers(g, s) ==
  IF s = 1 /\ g.window.valid
  THEN [g EXCEPT !.screen.mem = Copied(g.screen, g.window),
                 !.asserted   = @ \/ ~Sound(g.window, g.window.format),
                 !.wild       = @ \/ Outside(g.screen, g.window)]
  ELSE Asserted(g)

\* gilGetError: there never is an error.
GilGetError(g) == "NO_ERROR"
=============================================================================
