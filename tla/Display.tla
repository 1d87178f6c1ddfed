------------------------------ MODULE Display ------------------------------
(***************************************************************************)
(* The display of the engine: the texture cache, the canvas of the window  *)
(* and the graphics layer below them, from the loading of all textures     *)
(* over frames that are cleared, drawn and swapped to the verification of  *)
(* what was drawn.                                                         *)
(*                                                                         *)
(* Every call is made to two graphics layers side by side: the software    *)
(* renderer (sw), which draws into a memory or into a window of Windows,   *)
(* and the dummy (dm) the engine is tested and simulated with.  They have  *)
(* their own textures, hence caches of their own.  Which fields a frame    *)
(* shows and which reference fields are asked is any choice of the         *)
(* application; FrameHandler says how the widgets make it.                 *)
(***************************************************************************)
EXTENDS Areas, Sequences, FiniteSets

CONSTANTS
  Images,             \* the images of the bitmaps, by their identifier from 1
  MaxTextures,        \* lsr::MAX_TEXTURES
  Fields,             \* the fields, each with its panel's area, its own and a bitmap
  Order,              \* the bitmap fields in the order they are drawn in
  References,         \* the reference fields, in the order they are asked in
  Width, Height,      \* the size of the display in the database
  Screens,            \* the memories and the windows there may be
  MaxShown,           \* bound: fields of one frame
  GilMaxContexts, GilMaxTextures, Colours, Fixed, Unknown,
  DummyMaxTextures, MaxBlits

Sw == INSTANCE Win32
Dm == INSTANCE DummyGil

Bitmaps      == 1..Len(Images)
BitmapFields    == {Order[i] : i \in 1..Len(Order)}
ReferenceFields == {References[i] : i \in 1..Len(References)}
Slots        == 1..MaxTextures

\* What counts of an LsrImage: its pixels, none for a null pointer, and whether
\* they lie at an aligned address; depth counts when there is a palette.
PixelFormats == {"UNKNOWN", "RGB565", "RGB888", "BGR888", "RGBA8888", "BGRA8888"}
Image == [width : Nat, height : Nat, format : PixelFormats, palette : BOOLEAN,
          depth : Nat, pixels : Seq(Colours), aligned : BOOLEAN]

TwoTo16 == 256 * 256   \* numbers of 16 bits are below

\* MAX_TEXTURES is generated with the database, as the number of its bitmaps.  The
\* display's size is given in 16 bits, places are integers.
ASSUME DisplayAssumption ==
  /\ MaxTextures \in Nat /\ GilMaxTextures \in Nat /\ DummyMaxTextures \in Nat
  /\ MaxBlits \in Nat /\ GilMaxContexts \in Nat \ {0}
  /\ Images \in Seq(Image) /\ Len(Images) <= MaxTextures
  /\ \A f \in DOMAIN Fields :
       /\ Fields[f].bitmap \in {0} \cup Bitmaps
       /\ Fields[f].panel.x \in Int /\ Fields[f].panel.y \in Int
       /\ Fields[f].area.x \in Int /\ Fields[f].area.y \in Int
  /\ Order \in Seq(DOMAIN Fields) /\ References \in Seq(DOMAIN Fields)
  /\ Width \in 1..(TwoTo16 - 1) /\ Height \in 1..(TwoTo16 - 1)

\* What is configured as the memory is as large as it says, and the window lies in it:
\* nothing checks that.  The client area of a window has its size.
ASSUME ScreensAssumption ==
  \A s \in Screens :
    /\ DOMAIN s = {"system", "x", "y", "w", "h", "stride", "size", "aligned", "format", "mem",
                   "class", "creates", "painted"}
    /\ s.x \in Nat /\ s.y \in Nat /\ s.h \in Nat /\ s.stride \in Nat /\ s.size \in Nat
    /\ s.x + Width <= s.stride /\ (s.y + Height) * s.stride <= s.size
    /\ DOMAIN s.mem = 0..(s.size - 1)
    /\ s.system = "windows" => s.x = 0 /\ s.y = 0 /\ s.stride = Width
    /\ s.creates \in BOOLEAN /\ s.painted \in BOOLEAN

VARIABLES
  sw, swCache,        \* the software renderer; TextureCache::m_textures for it
  dm, dmCache,        \* the dummy, and the same
  pil,                \* what pilAssert does: the sample's aborts, another may return
  phase,              \* what the engine is doing
  todo,               \* bitmaps to load, or positions in Order or References of fields to
                      \* draw or to verify, in this phase
  shown,              \* the fields of the frame that was begun last
  presented,          \* some frame was swapped
  verdict,            \* the fields verified in the last round, and the outcomes
  canvasError         \* Canvas::m_error is LSR_ERROR_NO_TEXTURE

vars == <<sw, swCache, dm, dmCache, pil, phase, todo, shown, presented, verdict, canvasError>>

-----------------------------------------------------------------------------
(* Texture *)

\* Texture::convertFormat; P_2 stands for the four formats with a palette.
ConvertFormat(img) ==
  IF img.palette
  THEN IF img.depth = 2 /\ img.format \in {"RGB565", "RGB888", "RGBA8888", "BGRA8888"}
       THEN "P_2" ELSE "INVALID"
  ELSE CASE img.format = "RGB565"   -> "RGB_565"
         [] img.format = "RGB888"   -> "RGB_888"
         [] img.format = "BGR888"   -> "BGR_888"
         [] img.format = "RGBA8888" -> "RGBA_8888"
         [] img.format = "BGRA8888" -> "BGRA_8888"
         [] OTHER                   -> "INVALID"

\* A Texture of a graphics layer that has that many: it is loaded when its handle is
\* not 0, and keeps its size in 16 bits.
Texture(limit) == [handle : 0..limit, width : 0..(TwoTo16 - 1), height : 0..(TwoTo16 - 1)]

NoTexture == [handle |-> 0, width |-> 0, height |-> 0]

\* Mutant: the size is not cut to the 16 bits it is kept in.
SizedWide(slot, img) == [slot EXCEPT !.width = img.width, !.height = img.height]

\* Texture::load, first part: the size is taken over before anything can fail.
Sized(slot, img) ==
  [slot EXCEPT !.width = img.width % TwoTo16, !.height = img.height % TwoTo16]

Loadable(img) == img.pixels # <<>> /\ ConvertFormat(img) # "INVALID"

\* The header of an image in the database tells the number of its pixels: that of its
\* rows, without any between them.
ASSUME ImagesAssumption ==
  \A id \in Bitmaps : Loadable(Images[id]) =>
    Len(Images[id].pixels) = Images[id].width * Images[id].height

\* Mutant: a slot that is in use is loaded once more.
LoadSwAgain(id) ==
  LET slot == Sized(swCache[id], Images[id])
      new  == [slot EXCEPT !.handle = Sw!NewTexture(sw)]
  IN  IF ~Loadable(Images[id]) THEN [gil |-> sw, slot |-> slot]
      ELSE [gil |-> Sw!GilTexPixels(Sw!GilCreateTexture(sw), new.handle, slot.width,
                      slot.height, ConvertFormat(Images[id]), Images[id].pixels,
                      Images[id].aligned),
            slot |-> new]

\* TextureCache::load of a bitmap that has a slot, and Texture::load: nothing if
\* the slot has a texture already.  The result of the loading is not looked at:
\* an image that cannot be loaded leaves a slot without texture.  The palettes
\* change neither graphics layer.
LoadSw(id) ==
  LET slot == Sized(swCache[id], Images[id])
      new  == [slot EXCEPT !.handle = Sw!NewTexture(sw)]
  IN  IF swCache[id].handle # 0 THEN [gil |-> sw, slot |-> swCache[id]]
      ELSE IF ~Loadable(Images[id]) THEN [gil |-> sw, slot |-> slot]
      ELSE [gil |-> Sw!GilTexPixels(Sw!GilCreateTexture(sw), new.handle, slot.width,
                      slot.height, ConvertFormat(Images[id]), Images[id].pixels,
                      Images[id].aligned),
            slot |-> new]

LoadDm(id) ==
  LET slot == Sized(dmCache[id], Images[id])
      new  == [slot EXCEPT !.handle = Dm!DummyNewTexture(dm)]
  IN  IF dmCache[id].handle # 0 THEN [gil |-> dm, slot |-> dmCache[id]]
      ELSE IF ~Loadable(Images[id]) THEN [gil |-> dm, slot |-> slot]
      ELSE [gil |-> Dm!DummyTexPixels(Dm!DummyCreateTexture(dm), new.handle, Images[id].pixels),
            slot |-> new]

\* The last texture coordinate of a slot: 32 bits, from a size of 16.
LastFP(size) == (size - 1) * 16

-----------------------------------------------------------------------------
\* Window's constructor, Frame::setup, WidgetChildren::draw and verify: the area
\* of a field is moved by that of its panel, which is moved by that of the frame,
\* which is moved by that of the window.
WindowArea == AreaOfCorners(0, 0, Width - 1, Height - 1)
FrameArea  == SetHeight(SetWidth(EmptyArea, Width), Height)
FieldArea == [f \in DOMAIN Fields |->
  LET frame == MoveByFP(FrameArea, WindowArea.x, WindowArea.y)
      panel == MoveByFP(AreaOf(Fields[f].panel), frame.x, frame.y)
  IN  MoveByFP(AreaOf(Fields[f].area), panel.x, panel.y)]

\* Where the fields are that are in a set, and what is the next one of some positions.
Positions(fields, S) == {i \in 1..Len(fields) : fields[i] \in S}
IsNext(i, S) == i \in S /\ \A j \in S : i <= j

\* The process is over when pilAssert was called and does not return.
Then(next) == IF pil = "aborts" /\ sw'.asserted THEN "ended" ELSE next

OnWindows(screen) == screen.system = "windows"

\* gilInit, DisplayManager's and WindowCanvas' constructors.
Opened(screen) ==
  IF OnWindows(screen)
  THEN Sw!WinCreateWindow(Sw!GilCreateContext(Sw!WinInit(screen)),
                          0, 0, Width, Height, Unknown)
  ELSE Sw!GilCreateWindow(Sw!GilCreateContext(Sw!GilInit(screen)),
                          0, 0, Width, Height, Unknown)

Init ==
  /\ \E screen \in Screens : sw = Opened(screen)
  /\ dm = Dm!DummyCreateWindow(Dm!DummyCreateContext(Dm!DummyInit))
  /\ swCache = [id \in Slots |-> NoTexture]
  /\ dmCache = [id \in Slots |-> NoTexture]
  /\ pil \in {"aborts", "returns"}
  /\ phase = IF pil = "aborts" /\ sw.asserted THEN "ended" ELSE "loading"
  /\ todo = Bitmaps
  /\ shown = {}
  /\ presented = FALSE
  /\ verdict = [f \in {} |-> 0]
  /\ canvasError = FALSE

\* DisplayManager::loadAllTextures, one bitmap.
LoadNext ==
  /\ phase = "loading"
  /\ \E id \in todo :
       /\ IsNext(id, todo)
       /\ sw' = LoadSw(id).gil
       /\ swCache' = [swCache EXCEPT ![id] = LoadSw(id).slot]
       /\ dm' = LoadDm(id).gil
       /\ dmCache' = [dmCache EXCEPT ![id] = LoadDm(id).slot]
       /\ todo' = todo \ {id}
  /\ phase' = Then("loading")
  /\ UNCHANGED <<pil, shown, presented, verdict, canvasError>>

\* It succeeds when every bitmap has a slot, with or without a texture.
Loaded ==
  /\ phase = "loading" /\ todo = {}
  /\ phase' = "idle"
  /\ UNCHANGED <<sw, swCache, dm, dmCache, pil, todo, shown, presented, verdict, canvasError>>

\* Mutant: the canvas is not cleared.
BeginOver(visible) ==
  /\ phase = "idle"
  /\ sw' = Sw!GilSetSurface(sw, 1, 1)
  /\ dm' = dm
  /\ todo' = Positions(Order, visible)
  /\ shown' = visible
  /\ verdict' = [f \in {} |-> 0]
  /\ phase' = Then("drawing")
  /\ UNCHANGED <<swCache, dmCache, pil, presented, canvasError>>

\* Window::render, the beginning: makeCurrent and Canvas::clear.
BeginFrame(visible) ==
  /\ phase = "idle"
  /\ sw' = Sw!GilClear(Sw!GilSetColor(Sw!GilSetSurface(sw, 1, 1), 1), 1)
  /\ dm' = Dm!DummyClear(dm)
  /\ todo' = Positions(Order, visible)
  /\ shown' = visible
  /\ verdict' = [f \in {} |-> 0]
  /\ phase' = Then("drawing")
  /\ UNCHANGED <<swCache, dmCache, pil, presented, canvasError>>

\* Canvas::drawBitmap: load, bind, draw; a bitmap without a slot is an error.
DrawField(f) ==
  LET id == Fields[f].bitmap
      a  == FieldArea[f]
  IN  IF id \in Slots
      THEN LET s == LoadSw(id)
               d == LoadDm(id)
           IN  /\ sw' = Sw!GilDrawQuad(Sw!GilBindTexture(s.gil, 1, s.slot.handle), 1,
                          a.x, a.y, 0, 0, LastFP(s.slot.width), LastFP(s.slot.height))
               /\ dm' = Dm!DummyDrawQuad(Dm!DummyBindTexture(d.gil, d.slot.handle), a.x, a.y)
               /\ swCache' = [swCache EXCEPT ![id] = s.slot]
               /\ dmCache' = [dmCache EXCEPT ![id] = d.slot]
               /\ UNCHANGED canvasError
      ELSE /\ canvasError' = TRUE
           /\ UNCHANGED <<sw, dm, swCache, dmCache>>

DrawBitmap ==
  /\ phase = "drawing"
  /\ \E i \in todo : IsNext(i, todo) /\ DrawField(Order[i]) /\ todo' = todo \ {i}
  /\ phase' = Then("drawing")
  /\ UNCHANGED <<pil, shown, presented, verdict>>

\* Window::render, the end: WindowCanvas::swapBuffers.
SwapBuffers ==
  /\ phase = "drawing" /\ todo = {}
  /\ sw' = IF OnWindows(sw.screen) THEN Sw!WinSwapBuffers(sw, 1) ELSE Sw!GilSwapBuffers(sw, 1)
  /\ presented' = TRUE
  /\ phase' = Then("idle")
  /\ UNCHANGED <<swCache, dm, dmCache, pil, todo, shown, verdict, canvasError>>

\* Window::verify, the beginning; the fields asked are the visible ones.
BeginVerify(visible) ==
  /\ phase = "idle"
  /\ sw' = Sw!GilSetSurface(sw, 1, 1)
  /\ todo' = Positions(References, visible)
  /\ verdict' = [f \in {} |-> 0]
  /\ phase' = Then("verifying")
  /\ UNCHANGED <<swCache, dm, dmCache, pil, shown, presented, canvasError>>

\* Canvas::verify of one reference field: load, bind, compare.
VerifyField(f) ==
  LET id == Fields[f].bitmap
      a  == FieldArea[f]
  IN  IF id \in Slots
      THEN LET s == LoadSw(id)
               d == LoadDm(id)
               g == Sw!GilBindTexture(s.gil, 1, s.slot.handle)
               h == Dm!DummyBindTexture(d.gil, d.slot.handle)
               outcome == [sw |-> Sw!GilVerify(g, 1, a.x, a.y, 0, 0,
                                     LastFP(s.slot.width), LastFP(s.slot.height)),
                           dm |-> Dm!DummyVerify(h, a.x, a.y)]
           IN  /\ sw' = Sw!GilVerified(g, 1)
               /\ dm' = Dm!DummyVerified(h)
               /\ verdict' = [x \in DOMAIN verdict \cup {f} |->
                                IF x = f THEN outcome ELSE verdict[x]]
               /\ swCache' = [swCache EXCEPT ![id] = s.slot]
               /\ dmCache' = [dmCache EXCEPT ![id] = d.slot]
               /\ UNCHANGED canvasError
      ELSE /\ canvasError' = TRUE
           /\ verdict' = [x \in DOMAIN verdict \cup {f} |->
                            IF x = f THEN [sw |-> FALSE, dm |-> FALSE] ELSE verdict[x]]
           /\ UNCHANGED <<sw, dm, swCache, dmCache>>

VerifyBitmap ==
  /\ phase = "verifying"
  /\ \E i \in todo : IsNext(i, todo) /\ VerifyField(References[i]) /\ todo' = todo \ {i}
  /\ phase' = Then("verifying")
  /\ UNCHANGED <<pil, shown, presented>>

\* WindowCanvas::sync marks the end of the round.
EndVerify ==
  /\ phase = "verifying" /\ todo = {}
  /\ phase' = "idle"
  /\ UNCHANGED <<sw, swCache, dm, dmCache, pil, todo, shown, presented, verdict, canvasError>>

\* Window::handleWindowEvents; only Windows has events, and whether the window
\* was closed is for the application to look at.
HandleWindowEvents ==
  /\ phase = "idle" /\ OnWindows(sw.screen)
  /\ sw' = Sw!WinHandleEvents(sw)
  /\ UNCHANGED <<swCache, dm, dmCache, pil, phase, todo, shown, presented, verdict, canvasError>>

\* The user uncovers the window.
Uncover ==
  /\ phase # "ended" /\ OnWindows(sw.screen)
  /\ sw' = Sw!WinUncover(sw)
  /\ UNCHANGED <<swCache, dm, dmCache, pil, phase, todo, shown, presented, verdict, canvasError>>

Next ==
  \/ LoadNext \/ Loaded
  \/ \E visible \in SUBSET BitmapFields :
       Cardinality(visible) <= MaxShown /\ BeginFrame(visible)
  \/ DrawBitmap \/ SwapBuffers
  \/ \E visible \in SUBSET ReferenceFields : BeginVerify(visible)
  \/ VerifyBitmap \/ EndVerify
  \/ HandleWindowEvents \/ Uncover

Spec == Init /\ [][Next]_vars

-----------------------------------------------------------------------------
DisplayTypeOK ==
  /\ swCache \in [Slots -> Texture(GilMaxTextures)]
  /\ dmCache \in [Slots -> Texture(DummyMaxTextures)]
  /\ pil \in {"aborts", "returns"}
  /\ phase \in {"loading", "idle", "drawing", "verifying", "ended"}
  /\ Len(sw.textures) \in 0..GilMaxTextures
  /\ Len(dm.textures) \in 0..DummyMaxTextures
  /\ shown \subseteq BitmapFields
  /\ presented \in BOOLEAN
  /\ canvasError \in BOOLEAN

-----------------------------------------------------------------------------
(* What a frame should look like, from the database alone.                 *)

X == [f \in DOMAIN Fields |-> Fields[f].panel.x + Fields[f].area.x]
Y == [f \in DOMAIN Fields |-> Fields[f].panel.y + Fields[f].area.y]

ImageOf(f) == Images[Fields[f].bitmap]

\* The whole image lies in the window.
Fits(f) ==
  /\ X[f] >= 0 /\ X[f] + ImageOf(f).width <= Width
  /\ Y[f] >= 0 /\ Y[f] + ImageOf(f).height <= Height

\* The bitmap has a texture, of the format of the window.
Textured(f) ==
  /\ sw.window.valid
  /\ Fields[f].bitmap \in Slots
  /\ swCache[Fields[f].bitmap].handle # 0
  /\ ConvertFormat(ImageOf(f)) = sw.window.format

Usable(f) == Textured(f) /\ Fits(f)

Covers(f, x, y) ==
  /\ X[f] <= x /\ x < X[f] + ImageOf(f).width
  /\ Y[f] <= y /\ y < Y[f] + ImageOf(f).height

PixelOf(f, x, y) == ImageOf(f).pixels[(y - Y[f]) * ImageOf(f).width + (x - X[f]) + 1]

\* What the screen shows at a place of the window.
OnScreen(x, y) == sw.screen.mem[(sw.screen.y + y) * sw.screen.stride + sw.screen.x + x]

\* The screen shows what was swapped: on Windows not before it is painted.
Painted == OnWindows(sw.screen) => sw.screen.painted

Places == (0..Width-1) \X (0..Height-1)

\* The field that is drawn last there, of those at positions S of the order.
OnTop(i, S, p) ==
  /\ i \in S /\ Covers(Order[i], p[1], p[2])
  /\ \A j \in S : Covers(Order[j], p[1], p[2]) => j <= i

\* A picture shows the fields at these positions on a background that was cleared.
Describes(picture, S) ==
  \A p \in Places :
    /\ \A i \in S : OnTop(i, S, p) => picture[p] = PixelOf(Order[i], p[1], p[2])
    /\ sw.window.format \in Sw!Settable /\ (\A i \in S : ~Covers(Order[i], p[1], p[2])) =>
         picture[p] = Fixed

-----------------------------------------------------------------------------
(* Safety *)

\* A frame shows what the database describes: at every place the pixel of the
\* last of the visible fields that cover it and, where there is none, the
\* colour of the clear if the format has one (BitmapField::onDraw, drawQuad and
\* the copy through the double buffer).  What an earlier frame showed is gone.
\* On Windows it shows that when the window was painted, also again after it was
\* uncovered and no frame was drawn.
ShownAsDescribed ==
  /\ presented /\ Painted /\ phase \in {"idle", "verifying"}
  /\ sw.window.valid /\ \A f \in shown : Usable(f)
  => Describes([p \in Places |-> OnScreen(p[1], p[2])], Positions(Order, shown))

\* A reference field that has a texture verifies exactly when the screen shows
\* its image, although what is compared is the double buffer: nothing is drawn
\* between the swap and the verification, nor before a window is painted.
VerifiedIsOnScreen ==
  presented /\ Painted => \A f \in DOMAIN verdict :
    Usable(f) => (verdict[f].sw <=> \A p \in Places :
                    Covers(f, p[1], p[2]) => OnScreen(p[1], p[2]) = PixelOf(f, p[1], p[2]))

Overlap(f, g) == \E p \in Places : Covers(f, p[1], p[2]) /\ Covers(g, p[1], p[2])

\* A reference field describes the place and the size of a bitmap field.
Paired(r) ==
  \E f \in BitmapFields :
    /\ Fields[f].bitmap \in Bitmaps
    /\ X[f] = X[r] /\ Y[f] = Y[r]
    /\ ImageOf(f).width = ImageOf(r).width /\ ImageOf(f).height = ImageOf(r).height

\* The dummy is a fair double: on a frame of usable fields it never rejects what
\* the software renderer accepts, and accepts what that rejects only where two
\* fields of the frame overlap, which it does not see.
DoubleAgrees ==
  presented /\ (\A f \in shown : Usable(f)) =>
    \A r \in DOMAIN verdict : Usable(r) /\ Paired(r) =>
      /\ verdict[r].sw => verdict[r].dm
      /\ verdict[r].dm =>
           \/ verdict[r].sw
           \/ \E f, g \in shown : f # g /\ Overlap(f, g)

\* A field whose image can be drawn, and two that are the same to the dummy.
Drawable(f) == Fields[f].bitmap \in Bitmaps /\ Loadable(ImageOf(f)) /\ Fits(f)
Alike(f, g) == X[f] = X[g] /\ Y[f] = Y[g] /\ ImageOf(f).pixels = ImageOf(g).pixels

\* Somewhere an image has a pixel which neither the clear nor another field shows.
Marked(r) ==
  \E p \in Places :
    /\ Covers(r, p[1], p[2]) /\ PixelOf(r, p[1], p[2]) # Fixed
    /\ \A f \in BitmapFields :
         /\ Drawable(f) /\ ConvertFormat(ImageOf(f)) = ConvertFormat(ImageOf(r))
         /\ Covers(f, p[1], p[2]) /\ PixelOf(f, p[1], p[2]) = PixelOf(r, p[1], p[2])
         => Alike(f, r)

\* A database on which the dummy can be fair: the images of the reference fields have
\* such a mark and a format that a clear clears, and a check sum tells the shape.
ImagesTellApart ==
  \A r \in ReferenceFields : Drawable(r) =>
    /\ Marked(r) /\ ConvertFormat(ImageOf(r)) \in Sw!Settable
    /\ \A f \in BitmapFields : Drawable(f) /\ Alike(f, r) =>
         ImageOf(f).width = ImageOf(r).width /\ ImageOf(f).height = ImageOf(r).height

\* The dummy has a texture for each bitmap, as generated, and notes every field.
DummyHasRoom == DummyMaxTextures >= Len(Images) /\ Len(Order) <= MaxBlits

\* What is not defined happens to such a dummy only when a texture is used that could
\* not be loaded: the array of what was drawn never ends.
BreaksOnlyUnloaded ==
  dm'.broken /\ ~dm.broken =>
    \E f \in DOMAIN Fields :
      /\ \/ phase = "drawing" /\ \E i \in todo : IsNext(i, todo) /\ f = Order[i]
         \/ phase = "verifying" /\ \E i \in todo : IsNext(i, todo) /\ f = References[i]
      /\ Fields[f].bitmap \in Bitmaps /\ ~Loadable(ImageOf(f))

DummyStaysDefined == [][BreaksOnlyUnloaded]_vars

\* The texture of a bitmap that could be loaded.
TextureOf(id) ==
  [valid |-> TRUE, width |-> Images[id].width % TwoTo16, height |-> Images[id].height % TwoTo16,
   format |-> ConvertFormat(Images[id]), data |-> Images[id].pixels,
   aligned |-> Images[id].aligned]

\* No texture is lost or shared: a slot with a texture has the texture of its
\* own image, no two slots have the same one, and every texture belongs to a
\* slot, however often a bitmap that cannot be loaded is tried again.
SlotsKeepTheirImage ==
  /\ \A id \in Slots : swCache[id].handle # 0 =>
       /\ swCache[id].handle \in 1..Len(sw.textures)
       /\ sw.textures[swCache[id].handle] = TextureOf(id)
  /\ \A t \in 1..Len(sw.textures) : \E id \in Slots : swCache[id].handle = t
  /\ \A i, j \in Slots :
       swCache[i].handle = swCache[j].handle /\ swCache[i].handle # 0 => i = j

\* Nothing is written behind the end of a buffer, except when a field is drawn
\* whose image does not lie in the window: no check of the renderer sees to it.
\* Above all the swap never does.
WildOnlyUnfit ==
  sw'.wild /\ ~sw.wild =>
    phase = "drawing" /\ \E i \in todo : IsNext(i, todo) /\ ~Fits(Order[i])

WritesStayInside == [][WildOnlyUnfit]_vars

\* A field has the texture of its own bitmap; one without a slot uses none.
OwnTexture(f) == Fields[f].bitmap \in Slots => swCache[Fields[f].bitmap].handle # 0

\* The fields that the last frame has drawn so far, and those verified since.
Used ==
  DOMAIN verdict \cup
  {Order[i] : i \in Positions(Order, shown) \ (IF phase = "drawing" THEN todo ELSE {})}

\* Binding a bitmap that could not be loaded leaves the texture of another one bound, and
\* gilGetError of the software renderer never tells of it.  A process whose pilAssert does
\* not return, as that of the sample, still never goes on from there: no field is drawn
\* or verified with the image of another, whenever and however often loading has failed.
UnloadedEndsProcess ==
  pil = "aborts" /\ phase # "ended" => \A f \in Used : OwnTexture(f)

\* Whatever pilAssert does, no lamp is verified with the image of another.
VerdictsAreOwn == phase # "ended" => \A f \in DOMAIN verdict : OwnTexture(f)
=============================================================================
