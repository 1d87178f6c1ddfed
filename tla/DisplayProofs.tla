--------------------------- MODULE DisplayProofs ---------------------------
(***************************************************************************)
(* The display: the texture cache, the arithmetic of areas, and the pixels *)
(* of the software renderer, for every database, every limit of the        *)
(* graphics layer and every order of loading, drawing and verifying.       *)
(*                                                                         *)
(* The cache is sound: no texture is lost, shared or mistaken for that of  *)
(* another bitmap.  There the operators of the renderer only say of a      *)
(* state with a field "textures" what becomes of it.  The pixels need all  *)
(* of the state: SwOk is its form, DispInv the inductive invariant.        *)
(*                                                                         *)
(* Then the dummy beside the renderer: DoubleInv is what it has loaded and *)
(* noted, to be proved together with DispInv; and at the end what holds of *)
(* a renderer that has room for all textures, and what becomes of a        *)
(* process that uses a texture it could not load.                          *)
(***************************************************************************)
EXTENDS Display, SequenceTheorems, FiniteSetTheorems, TLAPS

SwTextures == {Sw!NoPixels} \cup {TextureOf(id) : id \in Slots}

SlotFields == {"handle", "width", "height"}

\* The property, of a pair of textures and cache.
Kept(textures, cache) ==
  /\ \A id \in Slots : cache[id].handle # 0 =>
       /\ cache[id].handle \in 1..Len(textures)
       /\ textures[cache[id].handle] = TextureOf(id)
  /\ \A t \in 1..Len(textures) : \E id \in Slots : cache[id].handle = t
  /\ \A i, j \in Slots :
       cache[i].handle = cache[j].handle /\ cache[i].handle # 0 => i = j

Shaped(g, cache) ==
  /\ "textures" \in DOMAIN g
  /\ g.textures \in Seq(SwTextures)
  /\ DOMAIN cache = Slots
  /\ \A id \in Slots : DOMAIN cache[id] = SlotFields /\ cache[id].handle \in Nat

\* The inductive invariant: what is to be loaded are slots.
CacheInv ==
  /\ Shaped(sw, swCache)
  /\ Kept(sw.textures, swCache)
  /\ phase = "loading" => todo \subseteq Slots
  /\ swCache = [id \in Slots |-> swCache[id]]

Unchanged(g, h) == "textures" \in DOMAIN h /\ h.textures = g.textures

-----------------------------------------------------------------------------
(* The calls that do not touch the textures.                               *)

LEMMA AssertedKeeps ==
  ASSUME NEW g, "textures" \in DOMAIN g PROVE Unchanged(g, Sw!Asserted(g))
BY DEF Sw!Asserted, Unchanged

LEMMA SetSurfaceKeeps ==
  ASSUME NEW g, "textures" \in DOMAIN g, NEW c, NEW s
  PROVE  Unchanged(g, Sw!GilSetSurface(g, c, s))
<1>1. Unchanged(g, [g EXCEPT !.contexts[c].surface = s])
  BY DEF Unchanged
<1> QED
  BY <1>1, AssertedKeeps DEF Sw!GilSetSurface

LEMMA SetColorKeeps ==
  ASSUME NEW g, "textures" \in DOMAIN g, NEW c
  PROVE  Unchanged(g, Sw!GilSetColor(g, c))
BY DEF Sw!GilSetColor, Unchanged

LEMMA BindKeeps ==
  ASSUME NEW g, "textures" \in DOMAIN g, NEW c, NEW t
  PROVE  Unchanged(g, Sw!GilBindTexture(g, c, t))
<1>1. Unchanged(g, [g EXCEPT !.contexts[c].texture = t])
  BY DEF Unchanged
<1> QED
  BY <1>1, AssertedKeeps DEF Sw!GilBindTexture

LEMMA WritingKeeps ==
  ASSUME NEW g, "textures" \in DOMAIN g, NEW m, NEW a, NEW w
  PROVE  /\ Unchanged(g, [g EXCEPT !.window.mem = m, !.asserted = @ \/ a, !.wild = @ \/ w])
         /\ Unchanged(g, [g EXCEPT !.screen.mem = m, !.asserted = @ \/ a, !.wild = @ \/ w])
BY DEF Unchanged

LEMMA ClearKeeps ==
  ASSUME NEW g, "textures" \in DOMAIN g, NEW c PROVE Unchanged(g, Sw!GilClear(g, c))
BY WritingKeeps, AssertedKeeps DEF Sw!GilClear

LEMMA DrawKeeps ==
  ASSUME NEW g, "textures" \in DOMAIN g, NEW c,
         NEW x1, NEW y1, NEW u1, NEW v1, NEW u2, NEW v2
  PROVE  Unchanged(g, Sw!GilDrawQuad(g, c, x1, y1, u1, v1, u2, v2))
<1> DEFINE q == Sw!Quad(g, c, x1, y1, u1, v1, u2, v2)
           a == \/ ~Sw!Sound(q.dest, g.window.format)
                \/ ~Sw!Sound(q.src, g.window.format)
<1>1. Unchanged(g, [g EXCEPT !.window.mem = Sw!Copied(q.dest, q.src),
                             !.asserted   = @ \/ ~Sw!Sound(q.dest, g.window.format)
                                              \/ ~Sw!Sound(q.src, g.window.format),
                             !.wild       = @ \/ Sw!Outside(q.dest, q.src)])
  BY DEF Unchanged
<1> QED
  BY <1>1, AssertedKeeps DEF Sw!GilDrawQuad

LEMMA SwapKeeps ==
  ASSUME NEW g, "textures" \in DOMAIN g, NEW s PROVE Unchanged(g, Sw!GilSwapBuffers(g, s))
BY WritingKeeps, AssertedKeeps DEF Sw!GilSwapBuffers

\* The same in a window.
LEMMA InvalidatedKeeps ==
  ASSUME NEW g, "textures" \in DOMAIN g PROVE Unchanged(g, Sw!Invalidated(g))
<1> DEFINE m == [i \in DOMAIN g.screen.mem |-> Unknown]
<1>1. Unchanged(g, [g EXCEPT !.screen.mem = m, !.screen.painted = FALSE])
  BY DEF Unchanged
<1> QED
  BY <1>1 DEF Sw!Invalidated

LEMMA WindowKeeps ==
  ASSUME NEW g, "textures" \in DOMAIN g
  PROVE  /\ \A s : Unchanged(g, Sw!WinSwapBuffers(g, s))
         /\ Unchanged(g, Sw!WinHandleEvents(g))
         /\ Unchanged(g, Sw!WinUncover(g))
<1>1. Unchanged(g, g)
  BY DEF Unchanged
<1>2. Unchanged(g, [g EXCEPT !.screen.mem = g.window.mem, !.screen.painted = TRUE])
  BY DEF Unchanged
<1> QED
  BY <1>1, <1>2, InvalidatedKeeps, AssertedKeeps
  DEF Sw!WinSwapBuffers, Sw!WinHandleEvents, Sw!WndProc, Sw!WinUncover

LEMMA VerifiedKeeps ==
  ASSUME NEW g, "textures" \in DOMAIN g, NEW c PROVE Unchanged(g, Sw!GilVerified(g, c))
BY AssertedKeeps DEF Sw!GilVerified, Unchanged

\* Only the textures count.
LEMMA ShapedOnly ==
  ASSUME NEW g, NEW h, NEW cache, Unchanged(g, h),
         Shaped(g, cache), Kept(g.textures, cache)
  PROVE  Shaped(h, cache) /\ Kept(h.textures, cache)
BY DEF Unchanged, Shaped

-----------------------------------------------------------------------------
(* Loading.                                                                *)

\* A texture that is created and filled is added behind the others.
LEMMA Filled ==
  ASSUME NEW g, "textures" \in DOMAIN g, g.textures \in Seq(SwTextures), NEW id \in Slots,
         Len(g.textures) < GilMaxTextures
  PROVE  LET t == Len(g.textures) + 1
             h == Sw!GilTexPixels(Sw!GilCreateTexture(g), t, Images[id].width % TwoTo16,
                    Images[id].height % TwoTo16, ConvertFormat(Images[id]),
                    Images[id].pixels, Images[id].aligned)
         IN  /\ "textures" \in DOMAIN h
             /\ h.textures \in Seq(SwTextures)
             /\ Len(h.textures) = t
             /\ h.textures[t] = TextureOf(id)
             /\ \A i \in 1..Len(g.textures) : h.textures[i] = g.textures[i]
<1> DEFINE t == Len(g.textures) + 1
           e == Sw!GilCreateTexture(g)
           h == Sw!GilTexPixels(e, t, Images[id].width % TwoTo16,
                  Images[id].height % TwoTo16, ConvertFormat(Images[id]),
                  Images[id].pixels, Images[id].aligned)
<1>1. Sw!NoPixels \in SwTextures /\ TextureOf(id) \in SwTextures
  BY DEF SwTextures
<1>2. "textures" \in DOMAIN e /\ e.textures = Append(g.textures, Sw!NoPixels)
  BY DEF Sw!GilCreateTexture
<1>3. /\ e.textures \in Seq(SwTextures) /\ Len(e.textures) = t /\ t \in Nat
      /\ \A i \in 1..Len(g.textures) : e.textures[i] = g.textures[i]
  BY <1>1, <1>2
<1>4. /\ "textures" \in DOMAIN h
      /\ h.textures = [e.textures EXCEPT ![t] = TextureOf(id)]
  <2>1. Sw!IsTexture(e, t)
    BY <1>3 DEF Sw!IsTexture
  <2> HIDE DEF e, t
  <2> QED
    BY <1>2, <2>1 DEF Sw!GilTexPixels, TextureOf
<1>5. /\ h.textures \in Seq(SwTextures) /\ Len(h.textures) = t
      /\ h.textures[t] = TextureOf(id)
      /\ \A i \in 1..Len(g.textures) : h.textures[i] = e.textures[i]
  <2> HIDE DEF e, h
  <2> QED
    BY <1>1, <1>3, <1>4
<1> HIDE DEF e, h
<1> QED
  BY <1>3, <1>4, <1>5 DEF e, h

\* Loading a bitmap keeps the cache sound, whether it has a texture, gets one or
\* cannot be loaded.
LEMMA LoadKeeps ==
  ASSUME CacheInv, DisplayAssumption, NEW id \in Slots
  PROVE  LET cache == [swCache EXCEPT ![id] = LoadSw(id).slot]
         IN  /\ Shaped(LoadSw(id).gil, cache)
             /\ Kept(LoadSw(id).gil.textures, cache)
             /\ cache = [i \in Slots |-> cache[i]]
<1> DEFINE load  == LoadSw(id)
           cache == [swCache EXCEPT ![id] = load.slot]
           sized == Sized(swCache[id], Images[id])
           t     == Sw!NewTexture(sw)
           n     == Len(sw.textures)
<1> SUFFICES /\ Shaped(load.gil, cache) /\ Kept(load.gil.textures, cache)
             /\ cache = [i \in Slots |-> cache[i]]
  OBVIOUS
<1> USE DEF CacheInv
<1>0. /\ cache[id] = load.slot
      /\ \A i \in Slots \ {id} : cache[i] = swCache[i]
      /\ DOMAIN cache = Slots
      /\ cache = [i \in Slots |-> cache[i]]
  BY DEF Shaped
<1>1. /\ DOMAIN sized = SlotFields /\ sized.handle = swCache[id].handle
      /\ sized.width = Images[id].width % TwoTo16 /\ sized.height = Images[id].height % TwoTo16
  BY DEF Sized, Shaped, SlotFields
<1>2. CASE load.gil = sw /\ DOMAIN load.slot = SlotFields /\ load.slot.handle = swCache[id].handle
  <2>1. \A i \in Slots : cache[i].handle = swCache[i].handle /\ DOMAIN cache[i] = SlotFields
    BY <1>0, <1>2 DEF Shaped
  <2>2. load.gil = sw
    BY <1>2
  <2> HIDE DEF load, cache
  <2>3. Shaped(load.gil, cache)
    BY <1>0, <2>1, <2>2 DEF Shaped
  <2>4. Kept(load.gil.textures, cache)
    <3>1. \A i \in Slots : cache[i].handle = swCache[i].handle
      BY <2>1
    <3>2. load.gil.textures = sw.textures
      BY <2>2
    <3> QED
      BY ONLY <3>1, <3>2, Kept(sw.textures, swCache) DEF Kept
  <2> QED
    BY <1>0, <2>3, <2>4
<1>3. ASSUME swCache[id].handle = 0, Loadable(Images[id])
      PROVE  Shaped(load.gil, cache) /\ Kept(load.gil.textures, cache)
  <2>1. /\ load.gil = Sw!GilTexPixels(Sw!GilCreateTexture(sw), t, Images[id].width % TwoTo16,
                        Images[id].height % TwoTo16, ConvertFormat(Images[id]),
                        Images[id].pixels, Images[id].aligned)
        /\ load.slot = [sized EXCEPT !.handle = t]
    <3>1. [sized EXCEPT !.handle = t].handle = t
      BY <1>1 DEF SlotFields
    <3> HIDE DEF sized, t
    <3> QED
      BY <1>1, <1>3, <3>1 DEF LoadSw, sized, t
  <2>2. DOMAIN load.slot = SlotFields /\ load.slot.handle = t
    BY <1>1, <2>1 DEF SlotFields
  <2>3. n \in Nat
    BY DEF Shaped
  <2>4. CASE n < GilMaxTextures
    <3>1. t = n + 1 /\ t # 0
      BY <2>3, <2>4 DEF Sw!NewTexture
    <3>2. /\ "textures" \in DOMAIN load.gil
          /\ load.gil.textures \in Seq(SwTextures)
          /\ Len(load.gil.textures) = t
          /\ load.gil.textures[t] = TextureOf(id)
          /\ \A i \in 1..n : load.gil.textures[i] = sw.textures[i]
      <4>1. "textures" \in DOMAIN sw /\ sw.textures \in Seq(SwTextures)
        BY DEF Shaped
      <4> DEFINE h == Sw!GilTexPixels(Sw!GilCreateTexture(sw), n + 1,
                        Images[id].width % TwoTo16, Images[id].height % TwoTo16,
                        ConvertFormat(Images[id]), Images[id].pixels, Images[id].aligned)
      <4>2. /\ "textures" \in DOMAIN h
            /\ h.textures \in Seq(SwTextures)
            /\ Len(h.textures) = n + 1
            /\ h.textures[n + 1] = TextureOf(id)
            /\ \A i \in 1..n : h.textures[i] = sw.textures[i]
        BY ONLY <2>4, <4>1, id \in Slots, Filled
      <4>3. load.gil = h
        BY <2>1, <3>1
      <4> HIDE DEF h, load
      <4> QED
        BY <3>1, <4>2, <4>3
    <3>3. cache[id].handle = t /\ DOMAIN cache[id] = SlotFields
      BY <1>0, <2>2
    <3> HIDE DEF load, cache, t
    <3>4. Shaped(load.gil, cache)
      <4>1. t \in Nat
        BY <2>3, <3>1
      <4>2. \A i \in Slots : DOMAIN cache[i] = SlotFields /\ cache[i].handle \in Nat
        <5> SUFFICES ASSUME NEW i \in Slots
                     PROVE  DOMAIN cache[i] = SlotFields /\ cache[i].handle \in Nat
          OBVIOUS
        <5>1. CASE i = id
          BY <5>1, <3>3, <4>1
        <5>2. CASE i # id
          BY <5>2, <1>0 DEF Shaped
        <5> QED
          BY <5>1, <5>2
      <4> QED
        BY <1>0, <3>2, <4>2 DEF Shaped
    <3>8. 1..Len(load.gil.textures) = 1..n \cup {t}
      <4>1. Len(load.gil.textures) = n + 1
        BY <3>1, <3>2
      <4> HIDE DEF n
      <4> QED
        BY ONLY <4>1, <3>1, <2>3
    <3>5. \A i \in Slots : cache[i].handle # 0 =>
            /\ cache[i].handle \in 1..Len(load.gil.textures)
            /\ load.gil.textures[cache[i].handle] = TextureOf(i)
      <4> SUFFICES ASSUME NEW i \in Slots, cache[i].handle # 0
                   PROVE  /\ cache[i].handle \in 1..Len(load.gil.textures)
                          /\ load.gil.textures[cache[i].handle] = TextureOf(i)
        OBVIOUS
      <4>1. CASE i = id
        BY <4>1, <3>1, <3>2, <3>3, <2>3
      <4>2. CASE i # id
        <5>1. /\ swCache[i].handle # 0 /\ cache[i].handle = swCache[i].handle
              /\ swCache[i].handle \in 1..n
              /\ sw.textures[swCache[i].handle] = TextureOf(i)
          BY <4>2, <1>0 DEF Kept
        <5>2. swCache[i].handle \in 1..Len(load.gil.textures)
          BY <5>1, <3>8
        <5>3. load.gil.textures[swCache[i].handle] = sw.textures[swCache[i].handle]
          BY <5>1, <3>2
        <5> QED
          BY <5>1, <5>2, <5>3
      <4> QED
        BY <4>1, <4>2
    <3>6. \A k \in 1..Len(load.gil.textures) : \E i \in Slots : cache[i].handle = k
      <4> SUFFICES ASSUME NEW k \in 1..Len(load.gil.textures)
                   PROVE  \E i \in Slots : cache[i].handle = k
        OBVIOUS
      <4>1. CASE k = t
        BY <4>1, <3>3
      <4>2. CASE k # t
        <5>1. k \in 1..n
          BY <4>2, <3>8
        <5>2. PICK i \in Slots : swCache[i].handle = k
          BY <5>1 DEF Kept
        <5>3. i # id
          BY <5>1, <5>2, <1>3
        <5> QED
          BY <5>2, <5>3, <1>0
      <4> QED
        BY <4>1, <4>2
    <3>7. ASSUME NEW i \in Slots, NEW j \in Slots,
                 cache[i].handle = cache[j].handle, cache[i].handle # 0
          PROVE  i = j
      <4>1. ASSUME NEW k \in Slots, k # id PROVE cache[k].handle # t
        <5>1. cache[k].handle = swCache[k].handle
          BY <4>1, <1>0
        <5>2. swCache[k].handle # 0 => swCache[k].handle \in 1..n
          BY DEF Kept
        <5>3. t \notin 1..n
          BY ONLY <3>1, <2>3
        <5> QED
          BY <5>1, <5>2, <5>3, <3>1
      <4>2. CASE i = id \/ j = id
        BY <4>1, <4>2, <3>3, <3>7
      <4>3. CASE i # id /\ j # id
        BY <4>3, <3>7, <1>0 DEF Kept
      <4> QED
        BY <4>2, <4>3
    <3> QED
      BY <3>4, <3>5, <3>6, <3>7 DEF Kept
  <2>5. CASE ~(n < GilMaxTextures)
    <3>1. t = 0
      BY <2>5 DEF Sw!NewTexture
    <3>2. Unchanged(sw, load.gil)
      <4>1. Unchanged(sw, Sw!GilCreateTexture(sw))
        BY <2>5, AssertedKeeps DEF Sw!GilCreateTexture, Shaped
      <4>2. load.gil = Sw!Asserted(Sw!GilCreateTexture(sw))
        BY <2>1, <3>1 DEF Sw!GilTexPixels, Sw!IsTexture
      <4> HIDE DEF load
      <4> QED
        BY <4>1, <4>2, AssertedKeeps DEF Unchanged
    <3>3. \A i \in Slots : cache[i].handle = swCache[i].handle /\ DOMAIN cache[i] = SlotFields
      BY <1>0, <1>3, <2>2, <3>1 DEF Shaped
    <3> HIDE DEF load, cache, t
    <3>4. load.gil.textures = sw.textures /\ "textures" \in DOMAIN load.gil
      BY <3>2 DEF Unchanged
    <3>5. Shaped(load.gil, cache)
      BY <1>0, <3>3, <3>4 DEF Shaped
    <3>6. Kept(load.gil.textures, cache)
      BY ONLY <3>3, <3>4, Kept(sw.textures, swCache) DEF Kept
    <3> QED
      BY <1>0, <3>5, <3>6
  <2> QED
    BY <2>4, <2>5
<1>4. CASE swCache[id].handle # 0
  <2>1. load.gil = sw /\ load.slot = swCache[id]
    BY <1>4 DEF LoadSw
  <2> QED
    BY <2>1, <1>0, <1>2 DEF Shaped
<1>5. CASE swCache[id].handle = 0 /\ ~Loadable(Images[id])
  <2>1. load.gil = sw /\ load.slot = sized
    BY <1>5 DEF LoadSw
  <2> QED
    BY <2>1, <1>0, <1>1, <1>2
<1> QED
  BY <1>0, <1>3, <1>4, <1>5

-----------------------------------------------------------------------------
\* A context that is created has no textures.
LEMMA CreatedEmpty ==
  ASSUME NEW g, "textures" \in DOMAIN g, g.textures = <<>>
  PROVE  /\ "textures" \in DOMAIN Sw!GilCreateContext(g)
         /\ Sw!GilCreateContext(g).textures = <<>>
<1>1. Unchanged(g, Sw!GilCreateContext(g))
  BY AssertedKeeps DEF Sw!GilCreateContext, Unchanged
<1> QED
  BY <1>1 DEF Unchanged

LEMMA OpenedEmpty ==
  ASSUME NEW screen
  PROVE  "textures" \in DOMAIN Opened(screen) /\ Opened(screen).textures = <<>>
<1>1. CASE OnWindows(screen)
  <2> DEFINE i == Sw!WinInit(screen)
             g == Sw!GilCreateContext(i)
  <2>1. "textures" \in DOMAIN i /\ i.textures = <<>>
    BY DEF Sw!WinInit, Sw!GilInit
  <2> HIDE DEF i
  <2>2. "textures" \in DOMAIN g /\ g.textures = <<>>
    BY <2>1, CreatedEmpty
  <2>3. Opened(screen) = Sw!WinCreateWindow(g, 0, 0, Width, Height, Unknown)
    BY <1>1 DEF Opened, i
  <2> HIDE DEF g
  <2>4. Unchanged(g, Sw!WinCreateWindow(g, 0, 0, Width, Height, Unknown))
    BY <2>2, AssertedKeeps DEF Sw!WinCreateWindow, Unchanged
  <2> QED
    BY <2>2, <2>3, <2>4 DEF Unchanged
<1>2. CASE ~OnWindows(screen)
  <2> DEFINE i == Sw!GilInit(screen)
             g == Sw!GilCreateContext(i)
  <2>1. "textures" \in DOMAIN i /\ i.textures = <<>>
    BY DEF Sw!GilInit
  <2> HIDE DEF i
  <2>2. "textures" \in DOMAIN g /\ g.textures = <<>>
    BY <2>1, CreatedEmpty
  <2>3. Opened(screen) = Sw!GilCreateWindow(g, 0, 0, Width, Height, Unknown)
    BY <1>2 DEF Opened, i
  <2> HIDE DEF g
  <2>4. Unchanged(g, Sw!GilCreateWindow(g, 0, 0, Width, Height, Unknown))
    BY <2>2, AssertedKeeps DEF Sw!GilCreateWindow, Unchanged
  <2> QED
    BY <2>2, <2>3, <2>4 DEF Unchanged
<1> QED
  BY <1>1, <1>2

LEMMA CacheInit ==
  ASSUME DisplayAssumption, Init PROVE CacheInv
<1>1. "textures" \in DOMAIN sw /\ sw.textures = <<>>
  BY OpenedEmpty DEF Init
<1>2. Shaped(sw, swCache)
  <2>1. swCache = [id \in Slots |-> NoTexture]
    BY DEF Init
  <2>2. DOMAIN NoTexture = SlotFields /\ NoTexture.handle \in Nat
    BY DEF NoTexture, SlotFields
  <2>3. sw.textures \in Seq(SwTextures)
    <3>1. <<>> \in Seq(SwTextures)
      BY EmptySeq
    <3> QED
      BY <1>1, <3>1
  <2> QED
    BY <1>1, <2>1, <2>2, <2>3 DEF Shaped
<1>3. Kept(sw.textures, swCache)
  BY <1>1 DEF Kept, Init, NoTexture
<1>4. todo \subseteq Slots
  BY DEF Init, DisplayAssumption, Bitmaps, Slots
<1>5. swCache = [id \in Slots |-> swCache[id]]
  BY DEF Init
<1> QED
  BY <1>2, <1>3, <1>4, <1>5 DEF CacheInv

LEMMA CacheNext ==
  ASSUME DisplayAssumption, CacheInv, [Next]_vars PROVE CacheInv'
<1> USE DEF CacheInv
<1>0. "textures" \in DOMAIN sw
  BY DEF Shaped
\* A step that keeps the cache and calls what keeps the textures.
<1>1. ASSUME swCache' = swCache, Unchanged(sw, sw'), phase' = "loading" => todo' \subseteq Slots
      PROVE  CacheInv'
  BY <1>1, ShapedOnly DEF Shaped, Kept, Unchanged
\* A step that loads a bitmap and then calls what keeps the textures.
<1>2. ASSUME NEW id \in Slots, swCache' = [swCache EXCEPT ![id] = LoadSw(id).slot],
             Unchanged(LoadSw(id).gil, sw'), phase' = "loading" => todo' \subseteq Slots
      PROVE  CacheInv'
  <2> DEFINE cache == [swCache EXCEPT ![id] = LoadSw(id).slot]
  <2>1. /\ Shaped(LoadSw(id).gil, cache) /\ Kept(LoadSw(id).gil.textures, cache)
        /\ cache = [i \in Slots |-> cache[i]]
    BY LoadKeeps
  <2>2. Shaped(sw', cache) /\ Kept(sw'.textures, cache)
    BY <1>2, <2>1, ShapedOnly
  <2>3. swCache' = cache
    BY <1>2
  <2> HIDE DEF cache
  <2>4. Shaped(sw', swCache') /\ Kept(sw'.textures, swCache')
    BY <2>2, <2>3
  <2>5. Shaped(sw, swCache)'
    BY <2>4 DEF Shaped
  <2>6. Kept(sw.textures, swCache)'
    BY <2>4 DEF Kept
  <2>7. (swCache = [i \in Slots |-> swCache[i]])'
    BY <2>1, <2>3
  <2> QED
    BY <1>2, <2>5, <2>6, <2>7
<1>3. ASSUME LoadNext PROVE CacheInv'
  <2>1. PICK id \in todo :
          /\ sw' = LoadSw(id).gil /\ swCache' = [swCache EXCEPT ![id] = LoadSw(id).slot]
          /\ todo' = todo \ {id}
    BY <1>3 DEF LoadNext
  <2>2. id \in Slots /\ todo' \subseteq Slots
    BY <1>3, <2>1 DEF LoadNext
  <2>3. Shaped(LoadSw(id).gil, [swCache EXCEPT ![id] = LoadSw(id).slot])
    BY <2>2, LoadKeeps
  <2>4. Unchanged(LoadSw(id).gil, sw')
    BY <2>1, <2>3 DEF Shaped, Unchanged
  <2> QED
    BY <1>2, <2>1, <2>2, <2>4
<1>4. ASSUME Loaded PROVE CacheInv'
  BY <1>0, <1>1, <1>4 DEF Loaded, Unchanged
<1>5. ASSUME NEW visible, BeginFrame(visible) PROVE CacheInv'
  <2> DEFINE g == Sw!GilSetSurface(sw, 1, 1)
             h == Sw!GilSetColor(g, 1)
  <2>1. Unchanged(sw, g)
    BY <1>0, SetSurfaceKeeps
  <2>2. Unchanged(g, h)
    BY <2>1, SetColorKeeps DEF Unchanged
  <2>3. Unchanged(h, Sw!GilClear(h, 1))
    BY <2>2, ClearKeeps DEF Unchanged
  <2>4. sw' = Sw!GilClear(h, 1) /\ swCache' = swCache /\ phase' # "loading"
    BY <1>5 DEF BeginFrame, Then
  <2> HIDE DEF g, h
  <2> QED
    BY <1>1, <2>1, <2>2, <2>3, <2>4 DEF Unchanged
<1>6. ASSUME DrawBitmap PROVE CacheInv'
  <2>0. PICK i \in todo : DrawField(Order[i])
    BY <1>6 DEF DrawBitmap
  <2> DEFINE id == Fields[Order[i]].bitmap
             a  == FieldArea[Order[i]]
             s  == LoadSw(id)
             g  == Sw!GilBindTexture(s.gil, 1, s.slot.handle)
  <2>1. phase' # "loading"
    BY <1>6 DEF DrawBitmap, Then
  <2>2. CASE id \in Slots
    <3>1. /\ sw' = Sw!GilDrawQuad(g, 1, a.x, a.y, 0, 0, LastFP(s.slot.width), LastFP(s.slot.height))
          /\ swCache' = [swCache EXCEPT ![id] = s.slot]
      BY <2>0, <2>2 DEF DrawField
    <3>2. "textures" \in DOMAIN s.gil
      BY <2>2, LoadKeeps DEF Shaped
    <3> HIDE DEF s
    <3>3. Unchanged(s.gil, g)
      BY <3>2, BindKeeps
    <3> HIDE DEF g
    <3>4. Unchanged(g, sw')
      BY <3>1, <3>3, DrawKeeps DEF Unchanged
    <3>5. Unchanged(s.gil, sw')
      BY <3>3, <3>4 DEF Unchanged
    <3> QED
      BY <1>2, <2>1, <2>2, <3>1, <3>5 DEF s
  <2>3. CASE id \notin Slots
    <3>1. UNCHANGED <<sw, swCache>>
      BY <2>0, <2>3 DEF DrawField
    <3> QED
      BY <1>0, <1>1, <2>1, <3>1 DEF Unchanged
  <2> QED
    BY <2>2, <2>3
<1>7. ASSUME SwapBuffers PROVE CacheInv'
  <2>1. Unchanged(sw, sw') /\ swCache' = swCache /\ phase' # "loading"
    BY <1>0, <1>7, SwapKeeps, WindowKeeps DEF SwapBuffers, Then
  <2> QED
    BY <1>1, <2>1
<1>8. ASSUME NEW visible, BeginVerify(visible) PROVE CacheInv'
  <2>1. Unchanged(sw, sw') /\ swCache' = swCache /\ phase' # "loading"
    BY <1>0, <1>8, SetSurfaceKeeps DEF BeginVerify, Then
  <2> QED
    BY <1>1, <2>1
<1>9. ASSUME VerifyBitmap PROVE CacheInv'
  <2>0. PICK i \in todo : VerifyField(References[i])
    BY <1>9 DEF VerifyBitmap
  <2> DEFINE id == Fields[References[i]].bitmap
             s  == LoadSw(id)
             g  == Sw!GilBindTexture(s.gil, 1, s.slot.handle)
  <2>1. phase' # "loading"
    BY <1>9 DEF VerifyBitmap, Then
  <2>2. CASE id \in Slots
    <3>1. /\ sw' = Sw!GilVerified(g, 1)
          /\ swCache' = [swCache EXCEPT ![id] = s.slot]
      BY <2>0, <2>2 DEF VerifyField
    <3>2. "textures" \in DOMAIN s.gil
      BY <2>2, LoadKeeps DEF Shaped
    <3> HIDE DEF s
    <3>3. Unchanged(s.gil, g)
      BY <3>2, BindKeeps
    <3> HIDE DEF g
    <3>4. Unchanged(g, sw')
      BY <3>1, <3>3, VerifiedKeeps DEF Unchanged
    <3>5. Unchanged(s.gil, sw')
      BY <3>3, <3>4 DEF Unchanged
    <3> QED
      BY <1>2, <2>1, <2>2, <3>1, <3>5 DEF s
  <2>3. CASE id \notin Slots
    <3>1. UNCHANGED <<sw, swCache>>
      BY <2>0, <2>3 DEF VerifyField
    <3> QED
      BY <1>0, <1>1, <2>1, <3>1 DEF Unchanged
  <2> QED
    BY <2>2, <2>3
<1>10. ASSUME EndVerify PROVE CacheInv'
  BY <1>0, <1>1, <1>10 DEF EndVerify, Unchanged
<1>11. ASSUME HandleWindowEvents \/ Uncover PROVE CacheInv'
  <2>1. /\ Unchanged(sw, sw') /\ swCache' = swCache
        /\ phase' = phase /\ todo' = todo
    BY <1>0, <1>11, WindowKeeps DEF HandleWindowEvents, Uncover
  <2> QED
    BY <1>1, <2>1
<1>12. ASSUME UNCHANGED vars PROVE CacheInv'
  BY <1>0, <1>1, <1>12 DEF vars, Unchanged
<1> QED
  BY <1>3, <1>4, <1>5, <1>6, <1>7, <1>8, <1>9, <1>10, <1>11, <1>12 DEF Next

\* Every texture belongs to exactly one slot, and a slot that has a texture has
\* that of its own bitmap: what a field draws and what a reference field compares
\* with is its own image whenever it could be loaded (TextureCache::load,
\* Texture::load, gilCreateTexture, gilTexPixels).
THEOREM CacheIsSound == Spec => []SlotsKeepTheirImage
<1>1. Init => CacheInv
  BY CacheInit, DisplayAssumption
<1>2. CacheInv /\ [Next]_vars => CacheInv'
  BY CacheNext, DisplayAssumption
<1>3. CacheInv => SlotsKeepTheirImage
  BY DEF CacheInv, Kept, SlotsKeepTheirImage
<1> QED
  BY <1>1, <1>2, <1>3, PTL DEF Spec

-----------------------------------------------------------------------------
(* What the operations of class Area promise, for all areas.               *)

\* The values of the types of the code.
I32 == {i \in Int : -2147483648 <= i /\ i <= 2147483647}
I16 == {i \in Int : -32768 <= i /\ i <= 32767}

\* The descriptions of areas a database can hold (AreaType); a size may be
\* negative.
Described == [x : I16, y : I16, width : I16, height : I16]

\* The units an area covers, as the inner points of it.
Units(a) == {u \in Int \X Int : /\ a.x <= u[1] /\ u[1] < a.x + a.width
                                /\ a.y <= u[2] /\ u[2] < a.y + a.height}

\* A span ends where it was made to end.
LEMMA FarOfSizeTo ==
  ASSUME NEW p \in Int, NEW f \in Int
  PROVE  Far(p, SizeTo(p, f)) = f /\ SizeTo(p, f) \in Int /\ SizeTo(p, f) # 0
BY DEF Far, SizeTo, One

\* The right and the bottom that were set are the ones that are read, whichever
\* side of the reference point they are on, and setting one of them leaves the
\* area where it is and does not touch the other dimension (setRightFP,
\* getRightFP, setBottomFP, getBottomFP).
THEOREM CornersAreKept ==
  ASSUME NEW a \in AreasFP, NEW f \in Int
  PROVE  /\ GetRightFP(SetRightFP(a, f)) = f
         /\ GetBottomFP(SetBottomFP(a, f)) = f
         /\ GetBottomFP(SetRightFP(a, f)) = GetBottomFP(a)
         /\ GetRightFP(SetBottomFP(a, f)) = GetRightFP(a)
         /\ ~IsEmpty(SetBottomFP(SetRightFP(a, f), f))
<1>1. /\ SizeTo(a.x, f) \in Int /\ SizeTo(a.x, f) # 0 /\ Far(a.x, SizeTo(a.x, f)) = f
      /\ SizeTo(a.y, f) \in Int /\ SizeTo(a.y, f) # 0 /\ Far(a.y, SizeTo(a.y, f)) = f
  BY FarOfSizeTo DEF AreasFP
<1> QED
  BY <1>1 DEF AreasFP, GetRightFP, GetBottomFP, SetRightFP, SetBottomFP, IsEmpty

\* The area built from its corners has these corners, in whole pixels, and
\* covers the pixels between them: at least one, however the corners lie
\* (the constructor of the window's area).
THEOREM CornersOfArea ==
  ASSUME NEW l \in Int, NEW t \in Int, NEW r \in Int, NEW b \in Int
  PROVE  LET a == AreaOfCorners(l, t, r, b)
         IN  /\ GetLeft(a) = l /\ GetTop(a) = t
             /\ GetRight(a) = r /\ GetBottom(a) = b
             /\ r >= l => GetWidth(a) = r - l + 1
             /\ b >= t => GetHeight(a) = b - t + 1
<1> DEFINE a == AreaOfCorners(l, t, r, b)
<1> DEFINE c == [x |-> FromIntegerToFP(l), y |-> FromIntegerToFP(t), width |-> 0, height |-> 0]
           d == SetRight(c, r)
<1>1. /\ a.x = l * One /\ a.width = SizeTo(l * One, r * One)
      /\ a.y = t * One /\ a.height = SizeTo(t * One, b * One)
  <2>1. /\ c.x = l * One /\ c.y = t * One
        /\ c \in AreasFP
    BY DEF AreasFP, FromIntegerToFP, One
  <2>2. /\ d.x = l * One /\ d.y = t * One /\ d.width = SizeTo(l * One, r * One)
        /\ d \in AreasFP
    <3>1. SizeTo(l * One, r * One) \in Int
      BY DEF SizeTo, One
    <3> HIDE DEF c
    <3> QED
      BY <2>1, <3>1 DEF AreasFP, SetRight, SetRightFP, FromIntegerToFP
  <2>3. a = SetBottom(d, b)
    BY DEF AreaOfCorners
  <2> HIDE DEF a, d
  <2> QED
    BY <2>2, <2>3 DEF AreasFP, SetBottom, SetBottomFP, FromIntegerToFP
<1>2. ASSUME NEW p \in Int, NEW f \in Int
      PROVE  /\ FromFPToInteger(p * One) = p
             /\ Far(p * One, SizeTo(p * One, f * One)) = f * One
             /\ f >= p => Pixels(p * One, SizeTo(p * One, f * One)) = f - p + 1
  <2>1. p * One \in Int /\ f * One \in Int
    BY DEF One
  <2>2. \A k \in Int : FromFPToInteger(k * One) = k
    BY DEF FromFPToInteger, One
  <2>3. f >= p => SizeTo(p * One, f * One) = (f - p + 1) * One
    BY DEF SizeTo, One
  <2>4. f >= p => p * One + (f - p + 1) * One = (f + 1) * One
    BY DEF One
  <2>5. f >= p => Pixels(p * One, SizeTo(p * One, f * One)) = f - p + 1
    <3> SUFFICES ASSUME f >= p PROVE Pixels(p * One, (f - p + 1) * One) = f - p + 1
      BY <2>3
    <3>1. (f - p + 1) * One # 0
      BY DEF One
    <3>2. FromFPToInteger((f + 1) * One) = f + 1 /\ FromFPToInteger(p * One) = p
      BY <2>2
    <3>3. Pixels(p * One, (f - p + 1) * One)
            = FromFPToInteger((f + 1) * One) - FromFPToInteger(p * One)
      BY <3>1, <2>4 DEF Pixels
    <3> QED
      BY <3>2, <3>3
  <2> QED
    BY <2>1, <2>2, <2>5, FarOfSizeTo
<1> QED
  BY <1>1, <1>2 DEF GetLeft, GetTop, GetRight, GetBottom, GetRightFP, GetBottomFP, GetWidth, GetHeight

\* Moving an area moves all four of its ends and leaves its size alone, and
\* setting the left keeps the end behind the last pixel where it is (moveByFP,
\* setLeftFP, setTopFP).
THEOREM MovesWhole ==
  ASSUME NEW a \in AreasFP, NEW dx \in Int, NEW dy \in Int
  PROVE  /\ GetRightFP(MoveByFP(a, dx, dy)) = GetRightFP(a) + dx
         /\ GetBottomFP(MoveByFP(a, dx, dy)) = GetBottomFP(a) + dy
         /\ SetLeftFP(a, dx).x + SetLeftFP(a, dx).width = a.x + a.width
         /\ SetTopFP(a, dy).y + SetTopFP(a, dy).height = a.y + a.height
BY DEF AreasFP, GetRightFP, GetBottomFP, MoveByFP, SetLeftFP, SetTopFP, Far, One

\* Two areas of positive size overlap iff they have a unit in common
\* (isOverlapping).  The sizes must be positive: an area without width that lies
\* inside another is reported to overlap it.
THEOREM OverlapIsShared ==
  ASSUME NEW a \in AreasFP, NEW b \in AreasFP,
         a.width > 0, a.height > 0, b.width > 0, b.height > 0
  PROVE  IsOverlapping(a, b) <=> Units(a) \cap Units(b) # {}
<1>1. ASSUME IsOverlapping(a, b) PROVE Units(a) \cap Units(b) # {}
  <2> DEFINE i == IF a.x > b.x THEN a.x ELSE b.x
             j == IF a.y > b.y THEN a.y ELSE b.y
  <2>1. i \in Int /\ j \in Int
    BY DEF AreasFP
  <2>2. /\ a.x <= i /\ i < a.x + a.width /\ a.y <= j /\ j < a.y + a.height
        /\ b.x <= i /\ i < b.x + b.width /\ b.y <= j /\ j < b.y + b.height
    BY <1>1 DEF IsOverlapping, AreasFP
  <2>3. <<i, j>> \in Units(a) /\ <<i, j>> \in Units(b)
    BY <2>1, <2>2 DEF Units
  <2> QED
    BY <2>3
<1>2. ASSUME Units(a) \cap Units(b) # {} PROVE IsOverlapping(a, b)
  <2>1. PICK u \in Int \X Int : u \in Units(a) /\ u \in Units(b)
    BY <1>2 DEF Units
  <2>2. PICK i \in Int, j \in Int : u = <<i, j>>
    OBVIOUS
  <2>3. /\ a.x <= i /\ i < a.x + a.width /\ a.y <= j /\ j < a.y + a.height
        /\ b.x <= i /\ i < b.x + b.width /\ b.y <= j /\ j < b.y + b.height
    BY <2>1, <2>2 DEF Units
  <2> QED
    BY <2>3 DEF IsOverlapping, AreasFP
<1> QED
  BY <1>1, <1>2

\* The position of a field, which is the sum of the areas of its panel, its
\* frame and the window, and all four ends the canvas hands to the graphics
\* layer fit into 32 bits whatever the database describes: the sums of nested
\* areas cannot overflow (WidgetChildren::draw, Canvas::drawBitmap).
THEOREM NestingFits ==
  ASSUME NEW panel \in Described, NEW field \in Described
  PROVE  LET p == MoveByFP(AreaOf(panel), 0, 0)
             f == MoveByFP(AreaOf(field), p.x, p.y)
         IN  /\ f.x \in I32 /\ f.y \in I32
             /\ GetRightFP(f) \in I32 /\ GetBottomFP(f) \in I32
             /\ FromFPToInteger(f.x) = panel.x + field.x
             /\ FromFPToInteger(f.y) = panel.y + field.y
<1>2. /\ panel.x \in I16 /\ panel.y \in I16 /\ field.x \in I16 /\ field.y \in I16
      /\ field.width \in I16 /\ field.height \in I16
  BY DEF Described
<1>3. ASSUME NEW p \in I16, NEW q \in I16, NEW s \in I16
      PROVE  /\ q * One + (p * One + 0) = (p + q) * One
             /\ (p + q) * One \in I32
             /\ Far((p + q) * One, s * One) \in I32
             /\ FromFPToInteger((p + q) * One) = p + q
  <2>1. (p + q) * One \in Int /\ s * One \in Int
    BY DEF I16, One
  <2>2. q * One + (p * One + 0) = (p + q) * One
    BY DEF I16, One
  <2>3. (p + q) * One \in I32
    BY DEF I16, I32, One
  <2>4. Far((p + q) * One, s * One) \in I32
    BY <2>1 DEF I16, I32, One, Far
  <2>5. FromFPToInteger((p + q) * One) = p + q
    BY DEF FromFPToInteger, One, I16
  <2> QED
    BY <2>2, <2>3, <2>4, <2>5
<1> DEFINE p == MoveByFP(AreaOf(panel), 0, 0)
           f == MoveByFP(AreaOf(field), p.x, p.y)
<1>4. /\ f.x = field.x * One + (panel.x * One + 0) /\ f.width = field.width * One
      /\ f.y = field.y * One + (panel.y * One + 0) /\ f.height = field.height * One
  BY DEF MoveByFP, AreaOf, FromIntegerToFP
<1>5. /\ f.x = (panel.x + field.x) * One /\ f.y = (panel.y + field.y) * One
  BY <1>2, <1>3, <1>4
<1> QED
  BY <1>2, <1>3, <1>4, <1>5 DEF GetRightFP, GetBottomFP

-----------------------------------------------------------------------------
(* What the screen shows.  First: the arithmetic of rows.                  *)


\* Rows of at least as many lines have at least as many cells.
LEMMA Monotone ==
  ASSUME NEW a \in Int, NEW b \in Int, NEW s \in Nat, a <= b
  PROVE  a * s <= b * s
<1>1. b - a \in Nat
  OBVIOUS
<1>2. \A k \in Nat : k * s \in Nat
  OBVIOUS
<1>3. (b - a) * s \in Nat
  BY <1>1, <1>2
<1>4. (b - a) * s = b * s - a * s
  OBVIOUS
<1> QED  BY <1>3, <1>4

\* One row or more has the cells of a row.
LEMMA RowsAtLeast ==
  ASSUME NEW n \in Nat, NEW s \in Nat, n >= 1
  PROVE  s <= n * s /\ n * s \in Nat /\ n * s = s * n
<1>1. n - 1 \in Nat /\ \A k \in Nat : k * s \in Nat
  OBVIOUS
<1>2. (n - 1) * s \in Nat
  BY <1>1
<1>3. (n - 1) * s = n * s - s
  OBVIOUS
<1> QED  BY <1>2, <1>3

\* A place of a part is a place of the whole.
LEMMA Inner ==
  ASSUME NEW a \in Int, NEW w \in Nat, NEW x \in 0..(w - 1), NEW n \in Nat, a >= 0, a + w <= n
  PROVE  a + x \in 0..(n - 1) /\ (a + x) - a = x
OBVIOUS

\* Two places of rows of s cells are the same cell only if they are the same place.
LEMMA CellsApart ==
  ASSUME NEW s \in Nat, NEW x1 \in 0..(s-1), NEW x2 \in 0..(s-1),
         NEW y1 \in Int, NEW y2 \in Int, y1 * s + x1 = y2 * s + x2
  PROVE  y1 = y2 /\ x1 = x2
<1>1. ASSUME NEW a \in Int, NEW b \in Int, NEW x \in 0..(s-1), NEW z \in 0..(s-1),
             a * s + x = b * s + z
      PROVE  ~(a < b)
  <2> SUFFICES ASSUME a < b PROVE FALSE
    OBVIOUS
  <2>1. (a + 1) * s <= b * s
    BY Monotone
  <2>2. (a + 1) * s = a * s + s
    OBVIOUS
  <2>3. a * s \in Int /\ b * s \in Int
    OBVIOUS
  <2> QED  BY <1>1, <2>1, <2>2, <2>3
<1>2. ~(y1 < y2) /\ ~(y2 < y1)
  BY <1>1
<1>3. y1 = y2
  BY <1>2
<1>4. y1 * s \in Int
  OBVIOUS
<1> QED  BY <1>3, <1>4

\* n rows of s cells have n * s cells.
LEMMA CellInside ==
  ASSUME NEW s \in Nat, NEW n \in Nat, NEW x \in 0..(s-1), NEW y \in 0..(n-1)
  PROVE  y * s + x \in 0..(n * s - 1)
<1>1. (y + 1) * s <= n * s
  BY Monotone
<1>2. (y + 1) * s = y * s + s
  OBVIOUS
<1>3. y * s \in Nat /\ n * s \in Nat
  OBVIOUS
<1> QED  BY <1>1, <1>2, <1>3

-----------------------------------------------------------------------------
(* Copying pixels that fit.                                                *)

\* A rectangle of the size of the source at the position of the target.
Rows(dest, src) ==
  /\ dest.x \in Nat /\ dest.y \in Nat /\ dest.stride \in Nat
  /\ src.w \in Nat /\ src.h \in Nat
  /\ dest.x + src.w <= dest.stride

\* Where the cell of a part that lies in the rows of a surface is.
LEMMA CellOf ==
  ASSUME NEW dest, NEW src, Rows(dest, src), NEW c \in Sw!Cells(src.w, src.h)
  PROVE  /\ c = <<c[1], c[2]>> /\ c[1] \in 0..(src.w - 1) /\ c[2] \in 0..(src.h - 1)
         /\ dest.x + c[1] \in 0..(dest.stride - 1)
         /\ Sw!Cell(dest, c) = (dest.y + c[2]) * dest.stride + (dest.x + c[1])
<1>1. c = <<c[1], c[2]>> /\ c[1] \in 0..(src.w - 1) /\ c[2] \in 0..(src.h - 1)
  BY DEF Sw!Cells
<1>2. dest.x + c[1] \in 0..(dest.stride - 1)
  BY <1>1 DEF Rows
<1>3. dest.y * dest.stride + c[2] * dest.stride = (dest.y + c[2]) * dest.stride
  BY <1>1 DEF Rows
<1>4. dest.y * dest.stride \in Int /\ c[2] * dest.stride \in Int
  BY <1>1 DEF Rows
<1> QED  BY <1>1, <1>2, <1>3, <1>4 DEF Rows, Sw!Cell, Sw!Start

\* A part within the lines of a surface lies in its memory.
LEMMA NothingOutside ==
  ASSUME NEW dest, NEW src, Rows(dest, src), NEW n \in Nat, dest.y + src.h <= n,
         \A i \in 0..(n * dest.stride - 1) : i \in DOMAIN dest.mem
  PROVE  ~Sw!Outside(dest, src)
<1> SUFFICES ASSUME NEW c \in Sw!Cells(src.w, src.h)
             PROVE  Sw!Cell(dest, c) \in DOMAIN dest.mem
  BY DEF Sw!Outside
<1>1. dest.y + c[2] \in 0..(n - 1)
  BY CellOf DEF Rows
<1> QED  BY <1>1, CellOf, CellInside DEF Rows

\* What is where after the copy.
LEMMA CopiedCells ==
  ASSUME NEW dest, NEW src, Rows(dest, src),
         \A c \in Sw!Cells(src.w, src.h) : Sw!InRow(dest, src, c),
         NEW x \in 0..(dest.stride - 1), NEW y \in Nat,
         y * dest.stride + x \in DOMAIN dest.mem
  PROVE  Sw!Copied(dest, src)[y * dest.stride + x] =
           IF x - dest.x \in 0..(src.w - 1) /\ y - dest.y \in 0..(src.h - 1)
           THEN Sw!Read(src, Sw!Cell(src, <<x - dest.x, y - dest.y>>))
           ELSE dest.mem[y * dest.stride + x]
<1> DEFINE i   == y * dest.stride + x
           hit == {c \in Sw!Cells(src.w, src.h) : Sw!InRow(dest, src, c)}
           at  == {c \in hit : Sw!Cell(dest, c) = i}
           there == x - dest.x \in 0..(src.w - 1) /\ y - dest.y \in 0..(src.h - 1)
           c0  == <<x - dest.x, y - dest.y>>
<1>1. Sw!Copied(dest, src)[i] =
        IF at = {} THEN dest.mem[i]
        ELSE Sw!Read(src, Sw!Cell(src, CHOOSE c \in at : \A d \in at : d[2] <= c[2]))
  BY DEF Sw!Copied
<1>2. ASSUME NEW c \in at
      PROVE  there /\ c = c0
  <2>1. c \in Sw!Cells(src.w, src.h) /\ Sw!Cell(dest, c) = y * dest.stride + x
    OBVIOUS
  <2>2. (dest.y + c[2]) * dest.stride + (dest.x + c[1]) = y * dest.stride + x
    BY <2>1, CellOf
  <2>3. /\ c = <<c[1], c[2]>> /\ c[1] \in 0..(src.w - 1) /\ c[2] \in 0..(src.h - 1)
        /\ dest.x + c[1] \in 0..(dest.stride - 1)
    BY <2>1, CellOf
  <2>4. dest.y + c[2] = y /\ dest.x + c[1] = x
    BY <2>2, <2>3, CellsApart DEF Rows
  <2> QED  BY <2>3, <2>4 DEF Rows
<1>3. there => c0 \in at
  <2> SUFFICES ASSUME there PROVE c0 \in at
    OBVIOUS
  <2>1. c0 \in Sw!Cells(src.w, src.h) /\ c0[1] = x - dest.x /\ c0[2] = y - dest.y
    BY DEF Sw!Cells
  <2>2. Sw!Cell(dest, c0) = (dest.y + c0[2]) * dest.stride + (dest.x + c0[1])
    BY <2>1, CellOf
  <2>3. dest.y + c0[2] = y /\ dest.x + c0[1] = x
    BY <2>1 DEF Rows
  <2> QED  BY <2>1, <2>2, <2>3
<1>4. CASE there
  <2>1. at = {c0}
    BY <1>2, <1>3, <1>4
  <2>2. c0[2] \in Int
    BY DEF Rows
  <2> HIDE DEF at, c0
  <2>3. (CHOOSE c \in at : \A d \in at : d[2] <= c[2]) = c0
    BY <2>1, <2>2
  <2> QED  BY <1>1, <1>4, <2>1, <2>3 DEF c0
<1>5. CASE ~there
  BY <1>1, <1>2, <1>5
<1> QED  BY <1>4, <1>5

-----------------------------------------------------------------------------
(* The inductive invariant: the state of the software renderer, ...        *)

ScreenFields == {"system", "x", "y", "w", "h", "stride", "size", "aligned", "format", "mem",
                 "class", "creates", "painted"}
WindowFields == {"valid", "x", "y", "w", "h", "stride", "size", "aligned", "format", "mem"}
SwFields     == {"screen", "window", "contexts", "textures", "asserted", "wild"}
DmFields     == {"contexts", "windows", "textures", "texture", "blits", "broken"}

DmTextures == {Dm!NoCrc} \cup {Images[id].pixels : id \in Bitmaps}

Context == [surface : {0, 1}, texture : Nat, colour : {Fixed, Unknown}]

WindowOk(w) ==
  /\ "valid" \in DOMAIN w /\ w.valid \in BOOLEAN
  /\ w.valid =>
       /\ DOMAIN w = WindowFields
       /\ w.x = 0 /\ w.y = 0 /\ w.w = Width /\ w.h = Height
       /\ w.stride = Width /\ w.size = Width * Height
       /\ DOMAIN w.mem = 0..(Height * Width - 1)

ScreenOk(s) ==
  /\ DOMAIN s = ScreenFields
  /\ s.x \in Nat /\ s.y \in Nat /\ s.h \in Nat /\ s.stride \in Nat /\ s.size \in Nat
  /\ s.x + Width <= s.stride /\ (s.y + Height) * s.stride <= s.size
  /\ OnWindows(s) => s.x = 0 /\ s.y = 0 /\ s.stride = Width
  /\ ~OnWindows(s) => DOMAIN s.mem = 0..(s.size - 1)
  /\ s.painted \in BOOLEAN

\* One context, and a window that is the whole double buffer.
SwOk(g) ==
  /\ DOMAIN g = SwFields
  /\ ScreenOk(g.screen) /\ WindowOk(g.window)
  /\ g.contexts \in Seq(Context) /\ Len(g.contexts) = 1
  /\ g.asserted \in BOOLEAN /\ g.wild \in BOOLEAN

\* The dummy has its textures.
DmOk(d) ==
  /\ DOMAIN d = DmFields /\ d.textures \in Seq(DmTextures)
  /\ Len(d.textures) \in 0..DummyMaxTextures

\* A slot with a texture is that of an image that could be loaded, and has its size.
Sizes(cache) ==
  \A id \in Bitmaps : cache[id].handle # 0 =>
    /\ Loadable(Images[id])
    /\ cache[id].width = Images[id].width % TwoTo16
    /\ cache[id].height = Images[id].height % TwoTo16

CachesOk == DisplayTypeOK /\ Sizes(swCache) /\ DmOk(dm)

\* What is left of the phase are positions, and its verdicts are taken in it.
PhaseOk ==
  /\ phase = "loading" => todo \subseteq Bitmaps /\ ~presented
  /\ phase = "drawing" => todo \subseteq Positions(Order, shown)
  /\ phase = "verifying" => todo \subseteq Positions(References, ReferenceFields)
  /\ phase \in {"loading", "drawing"} => DOMAIN verdict = {}
  /\ DOMAIN verdict \subseteq ReferenceFields
  /\ phase \in {"drawing", "verifying"} /\ sw.window.valid => sw.contexts[1].surface = 1

\* Loading this bitmap (again) changes nothing but what was asserted.
Tried(id) ==
  \/ swCache[id].handle # 0
  \/ ~Loadable(Images[id])
  \/ Len(sw.textures) >= GilMaxTextures

AllTried ==
  /\ phase = "loading" => \A id \in Bitmaps \ todo : Tried(id)
  /\ phase \in {"idle", "drawing", "verifying"} => \A id \in Bitmaps : Tried(id)

\* What is in the double buffer at a place of the window.
Buffer(w) == [p \in Places |-> w.mem[p[2] * Width + p[1]]]

\* What a screen shows in the window.
Shows(s) == [p \in Places |-> s.mem[(s.y + p[2]) * s.stride + s.x + p[1]]]

\* Usable and Describes, of a window and a cache.
UsableIn(w, cache, f) ==
  /\ w.valid /\ Fields[f].bitmap \in Slots /\ cache[Fields[f].bitmap].handle # 0
  /\ ConvertFormat(ImageOf(f)) = w.format /\ Fits(f)

DescribesIn(w, picture, S) ==
  \A p \in Places :
    /\ \A i \in S : OnTop(i, S, p) => picture[p] = PixelOf(Order[i], p[1], p[2])
    /\ w.format \in Sw!Settable /\ (\A i \in S : ~Covers(Order[i], p[1], p[2])) =>
         picture[p] = Fixed

\* The double buffer shows the fields at these positions, of a frame of such fields.
BufferShows(w, cache, visible, S) ==
  w.valid /\ (\A f \in visible : UsableIn(w, cache, f)) => DescribesIn(w, Buffer(w), S)

\* While a frame is drawn, those before the next; then all of them.
BufferOk ==
  /\ phase = "drawing" =>
       /\ \A i \in Positions(Order, shown) \ todo, j \in todo : i < j
       /\ BufferShows(sw.window, swCache, shown, Positions(Order, shown) \ todo)
  /\ presented /\ phase \in {"idle", "verifying"} =>
       BufferShows(sw.window, swCache, shown, Positions(Order, shown))

\* Between the frames the screen shows the double buffer.
MirrorOk ==
  /\ presented /\ Painted /\ sw.window.valid
  /\ phase \in {"idle", "verifying"} \/ DOMAIN verdict # {}
  => Shows(sw.screen) = Buffer(sw.window)

ShowsImage(picture, f) ==
  \A p \in Places : Covers(f, p[1], p[2]) => picture[p] = PixelOf(f, p[1], p[2])

\* A verdict is what the double buffer shows.
VerdictOk ==
  \A f \in DOMAIN verdict : UsableIn(sw.window, swCache, f) =>
    (verdict[f].sw <=> ShowsImage(Buffer(sw.window), f))

-----------------------------------------------------------------------------
(* What the calls do to a state of that form.                              *)

\* Of the fields of a record only these may differ.
Changes(g, h, fields) == DOMAIN h = DOMAIN g /\ \A p \in DOMAIN g \ fields : h[p] = g[p]

\* pilAssert was called.
LEMMA AssertedDoes ==
  ASSUME NEW g, SwOk(g)
  PROVE  SwOk(Sw!Asserted(g)) /\ Changes(g, Sw!Asserted(g), {"asserted"})
BY DEF Sw!Asserted, Changes, SwOk, SwFields

\* The only context gets other values.
LEMMA ContextDoes ==
  ASSUME NEW g, SwOk(g), NEW c \in Context
  PROVE  LET h == [g EXCEPT !.contexts[1] = c]
         IN  SwOk(h) /\ Changes(g, h, {"contexts"}) /\ h.contexts[1] = c
<1> DEFINE h == [g EXCEPT !.contexts[1] = c]
<1>1. g.contexts \in Seq(Context) /\ Len(g.contexts) = 1
  BY DEF SwOk
<1>2. h.contexts = [g.contexts EXCEPT ![1] = c]
  BY DEF SwOk, SwFields
<1>3. h.contexts \in Seq(Context) /\ Len(h.contexts) = 1 /\ h.contexts[1] = c
  <2> HIDE DEF h
  <2> QED  BY <1>1, <1>2
<1>4. Changes(g, h, {"contexts"})
  BY DEF Changes
<1> HIDE DEF h
<1>5. SwOk(h)
  BY <1>3, <1>4 DEF SwOk, SwFields, Changes
<1> QED  BY <1>3, <1>4, <1>5 DEF h

\* There is a context.
LEMMA TheContext ==
  ASSUME NEW g, SwOk(g)
  PROVE  g.contexts[1] \in Context /\ Sw!IsContext(g, 1)
<1>1. g.contexts \in Seq(Context) /\ Len(g.contexts) = 1
  BY DEF SwOk
<1> QED  BY <1>1 DEF Sw!IsContext

\* gilSetSurface binds the window if there is one.
LEMMA SetSurfaceDoes ==
  ASSUME NEW g, SwOk(g)
  PROVE  LET h == Sw!GilSetSurface(g, 1, 1)
         IN  /\ SwOk(h) /\ Changes(g, h, {"contexts", "asserted"})
             /\ g.window.valid => h.contexts[1].surface = 1
<1> DEFINE c == [g.contexts[1] EXCEPT !.surface = 1]
           k == [g EXCEPT !.contexts[1] = c]
<1>1. c \in Context /\ c.surface = 1
  BY TheContext DEF Context
<1>2. SwOk(k) /\ Changes(g, k, {"contexts"}) /\ k.contexts[1] = c
  <2> HIDE DEF c
  <2> QED  BY <1>1, ContextDoes
<1>3. Sw!GilSetSurface(g, 1, 1) = IF g.window.valid THEN k ELSE Sw!Asserted(g)
  BY TheContext DEF Sw!GilSetSurface
<1> HIDE DEF k, c
<1> QED  BY <1>1, <1>2, <1>3, AssertedDoes DEF Changes

\* gilSetColor sets the colour that does not depend on what was asked.
LEMMA SetColorDoes ==
  ASSUME NEW g, SwOk(g)
  PROVE  LET h == Sw!GilSetColor(g, 1)
         IN  /\ SwOk(h) /\ Changes(g, h, {"contexts"})
             /\ h.contexts[1].surface = g.contexts[1].surface
             /\ h.contexts[1].colour = Fixed
<1> DEFINE c == [g.contexts[1] EXCEPT !.colour = Fixed]
           k == [g EXCEPT !.contexts[1] = c]
<1>1. c \in Context /\ c.surface = g.contexts[1].surface /\ c.colour = Fixed
  BY TheContext DEF Context
<1>2. SwOk(k) /\ Changes(g, k, {"contexts"}) /\ k.contexts[1] = c
  <2> HIDE DEF c
  <2> QED  BY <1>1, ContextDoes
<1>3. Sw!GilSetColor(g, 1) = k
  BY DEF Sw!GilSetColor
<1> HIDE DEF k, c
<1> QED  BY <1>1, <1>2, <1>3

\* gilBindTexture binds a texture that exists.
LEMMA BindDoes ==
  ASSUME NEW g, SwOk(g), NEW t \in Nat
  PROVE  LET h == Sw!GilBindTexture(g, 1, t)
         IN  /\ SwOk(h) /\ Changes(g, h, {"contexts", "asserted"})
             /\ h.contexts[1].surface = g.contexts[1].surface
             /\ Sw!IsTexture(g, t) => h.contexts[1].texture = t
<1> DEFINE c == [g.contexts[1] EXCEPT !.texture = t]
           k == [g EXCEPT !.contexts[1] = c]
<1>1. c \in Context /\ c.surface = g.contexts[1].surface /\ c.texture = t
  BY TheContext DEF Context
<1>2. SwOk(k) /\ Changes(g, k, {"contexts"}) /\ k.contexts[1] = c
  <2> HIDE DEF c
  <2> QED  BY <1>1, ContextDoes
<1>3. Sw!GilBindTexture(g, 1, t) = IF Sw!IsTexture(g, t) THEN k ELSE Sw!Asserted(g)
  BY TheContext DEF Sw!GilBindTexture
<1>4. Sw!Asserted(g).contexts = g.contexts
  BY DEF Sw!Asserted, SwOk, SwFields
<1> HIDE DEF k, c
<1>5. CASE Sw!IsTexture(g, t)
  BY <1>1, <1>2, <1>3, <1>5 DEF Changes
<1>6. CASE ~Sw!IsTexture(g, t)
  BY <1>3, <1>4, <1>6, AssertedDoes DEF Changes
<1> QED  BY <1>5, <1>6

-----------------------------------------------------------------------------
(* Clearing and drawing: the memory of the window gets other values.       *)

\* The size of the display as numbers.
LEMMA SizeAssumption ==
  ASSUME DisplayAssumption
  PROVE  /\ Width \in Nat /\ Width >= 1 /\ Width < TwoTo16
         /\ Height \in Nat /\ Height >= 1 /\ Height < TwoTo16
<1>1. TwoTo16 \in Nat
  <2>1. \A k, l \in Nat : k * l \in Nat
    OBVIOUS
  <2>2. 256 \in Nat
    OBVIOUS
  <2>3. 256 * 256 \in Nat
    BY ONLY <2>1, <2>2
  <2> QED  BY ONLY <2>3 DEF TwoTo16
<1>2. Width \in 1..(TwoTo16 - 1) /\ Height \in 1..(TwoTo16 - 1)
  BY DEF DisplayAssumption
<1> HIDE DEF TwoTo16
<1> QED  BY <1>1, <1>2

\* A window of which only the memory is another, of the same size.
LEMMA MemoryDoes ==
  ASSUME NEW g, SwOk(g), g.window.valid, NEW h, NEW m, DOMAIN m = DOMAIN g.window.mem,
         Changes(g, h, {"window", "asserted", "wild"}),
         h.window = [g.window EXCEPT !.mem = m],
         h.asserted \in BOOLEAN, h.wild \in BOOLEAN
  PROVE  SwOk(h) /\ Changes(g.window, h.window, {"mem"}) /\ h.window.mem = m
<1> DEFINE w == [g.window EXCEPT !.mem = m]
<1>1. DOMAIN g = SwFields /\ WindowOk(g.window) /\ DOMAIN g.window = WindowFields
  BY DEF SwOk, WindowOk
<1>2. Changes(g.window, w, {"mem"}) /\ w.mem = m
  BY <1>1 DEF Changes, WindowFields
<1>3. h.window = w
  OBVIOUS
<1> HIDE DEF w
<1>5. WindowOk(w)
  BY <1>1, <1>2 DEF WindowOk, Changes, WindowFields
<1>6. SwOk(h)
  BY <1>1, <1>3, <1>5 DEF SwOk, Changes, SwFields
<1> QED  BY <1>2, <1>3, <1>6 DEF w

\* The window is a rectangle of its own size.
LEMMA WindowRows ==
  ASSUME NEW w, WindowOk(w), w.valid, DisplayAssumption
  PROVE  /\ Rows(w, w) /\ ~Sw!Outside(w, w)
         /\ \A c \in Sw!Cells(w.w, w.h) : Sw!InRow(w, w, c)
         /\ \A x \in 0..(Width - 1), y \in 0..(Height - 1) :
              /\ <<x, y>> \in Sw!Cells(w.w, w.h) /\ Sw!Cell(w, <<x, y>>) = y * Width + x
              /\ y * Width + x \in DOMAIN w.mem
<1>1. /\ w.x = 0 /\ w.y = 0 /\ w.w = Width /\ w.h = Height
      /\ w.stride = Width /\ w.size = Width * Height
      /\ DOMAIN w.mem = 0..(Height * Width - 1)
  BY DEF WindowOk
<1>2. Width \in Nat /\ Width >= 1 /\ Height \in Nat /\ Height >= 1
  BY SizeAssumption
<1>3. Rows(w, w)
  BY <1>1, <1>2 DEF Rows
<1>4. ~Sw!Outside(w, w)
  <2>1. \A i \in 0..(Height * w.stride - 1) : i \in DOMAIN w.mem
    BY <1>1
  <2>2. w.y + w.h <= Height
    BY <1>1, <1>2
  <2> QED  BY <1>2, <1>3, <2>1, <2>2, NothingOutside
<1>5. ASSUME NEW c \in Sw!Cells(w.w, w.h) PROVE Sw!InRow(w, w, c)
  <2>1. c[1] \in 0..(Width - 1)
    BY <1>1, <1>3, CellOf
  <2>3. Width <= Width * Height /\ Width * Height \in Nat
    BY <1>2, RowsAtLeast
  <2>4. 0 * Height = 0 /\ Width - Width = 0
    BY <1>2
  <2>5. (w.stride - w.w) * w.h = 0
    BY <1>1, <2>4
  <2>6. c[1] < w.size /\ c[1] < w.size + 0
    BY <1>1, <1>2, <2>1, <2>3
  <2> QED  BY <2>5, <2>6 DEF Sw!InRow
<1>6. ASSUME NEW x \in 0..(Width - 1), NEW y \in 0..(Height - 1)
      PROVE  /\ <<x, y>> \in Sw!Cells(w.w, w.h) /\ Sw!Cell(w, <<x, y>>) = y * Width + x
             /\ y * Width + x \in DOMAIN w.mem
  <2>1. <<x, y>> \in Sw!Cells(w.w, w.h)
    BY <1>1, <1>2 DEF Sw!Cells
  <2>2. Sw!Cell(w, <<x, y>>) = (0 + y) * Width + (0 + x)
    <3> DEFINE c == <<x, y>>
    <3>1. Sw!Cell(w, c) = (w.y + c[2]) * w.stride + (w.x + c[1])
      BY <1>3, <2>1, CellOf
    <3> QED  BY <1>1, <3>1
  <2>3. y * Width + x \in 0..(Height * Width - 1)
    BY <1>2, CellInside
  <2> QED  BY <1>1, <2>1, <2>2, <2>3
<1> QED  BY <1>3, <1>4, <1>5, <1>6

\* gilClear stays in the window and fills it, when its format can be written.
LEMMA ClearDoes ==
  ASSUME NEW g, SwOk(g), DisplayAssumption
  PROVE  LET h == Sw!GilClear(g, 1)
         IN  /\ SwOk(h) /\ Changes(g, h, {"window", "asserted"})
             /\ g.window.valid => Changes(g.window, h.window, {"mem"})
             /\ ~g.window.valid => h.window = g.window
             /\ /\ g.window.valid /\ g.contexts[1].surface = 1 /\ g.contexts[1].colour = Fixed
                /\ g.window.format \in Sw!Settable
                => \A p \in Places : Buffer(h.window)[p] = Fixed
<1> DEFINE h == Sw!GilClear(g, 1)
           dest == g.window
           colour == g.contexts[1].colour
           m == Sw!Coloured(dest, dest.format, colour)
           a == g.asserted \/ ~Sw!Sound(dest, dest.format)
           outside == \E d \in Sw!Cells(dest.w, dest.h) :
                        Sw!InRow(dest, dest, d) /\ Sw!Cell(dest, d) \notin DOMAIN dest.mem
           b == g.wild \/ (outside /\ dest.format \in Sw!Settable)
           k == [g EXCEPT !.window.mem = m, !.asserted = a, !.wild = b]
<1>0. WindowOk(g.window) /\ g.wild \in BOOLEAN /\ DOMAIN g = SwFields
  BY DEF SwOk
<1>1. CASE g.contexts[1].surface = 1 /\ g.window.valid
  <2>1. h = k
    BY <1>1, TheContext DEF Sw!GilClear
  <2>2. ~outside
    <3>1. ~Sw!Outside(dest, dest)
      BY <1>0, <1>1, WindowRows
    <3> QED  BY <3>1 DEF Sw!Outside
  <2>3. b = g.wild
    BY <1>0, <2>2
  <2>4. DOMAIN m = DOMAIN dest.mem
    BY DEF Sw!Coloured
  <2>5. a \in BOOLEAN /\ b \in BOOLEAN
    <3>1. g.asserted \in BOOLEAN
      BY DEF SwOk
    <3> QED  BY <1>0, <2>3, <3>1
  <2>6. /\ SwOk(k) /\ Changes(g, k, {"window", "asserted", "wild"})
        /\ Changes(g.window, k.window, {"mem"}) /\ k.window.mem = m
        /\ k.wild = b
    <3> HIDE DEF m, a, b
    <3>1. Changes(g, k, {"window", "asserted", "wild"})
      BY DEF Changes
    <3>2. k.window = [g.window EXCEPT !.mem = m]
      BY <1>0 DEF SwFields
    <3>3. k.asserted = a /\ k.wild = b
      BY <1>0 DEF SwFields
    <3>4. k.asserted \in BOOLEAN /\ k.wild \in BOOLEAN
      BY <2>5, <3>3
    <3> HIDE DEF k
    <3> QED  BY <1>1, <2>4, <3>1, <3>2, <3>3, <3>4, MemoryDoes
  <2>7. ASSUME colour = Fixed, dest.format \in Sw!Settable, NEW p \in Places
        PROVE  m[p[2] * Width + p[1]] = Fixed
    <3> DEFINE hit == {Sw!Cell(dest, c) : c \in {d \in Sw!Cells(dest.w, dest.h) : Sw!InRow(dest, dest, d)}}
    <3>1. p[1] \in 0..(Width - 1) /\ p[2] \in 0..(Height - 1)
      BY DEF Places
    <3>2. /\ <<p[1], p[2]>> \in Sw!Cells(dest.w, dest.h)
          /\ Sw!Cell(dest, <<p[1], p[2]>>) = p[2] * Width + p[1]
          /\ p[2] * Width + p[1] \in DOMAIN dest.mem
          /\ Sw!InRow(dest, dest, <<p[1], p[2]>>)
      <4>1. \A x \in 0..(Width - 1), y \in 0..(Height - 1) :
              /\ <<x, y>> \in Sw!Cells(dest.w, dest.h) /\ Sw!Cell(dest, <<x, y>>) = y * Width + x
              /\ y * Width + x \in DOMAIN dest.mem
        BY <1>0, <1>1, WindowRows
      <4>2. \A c \in Sw!Cells(dest.w, dest.h) : Sw!InRow(dest, dest, c)
        BY <1>0, <1>1, WindowRows
      <4> QED  BY ONLY <3>1, <4>1, <4>2
    <3>3. p[2] * Width + p[1] \in hit
      BY <3>2
    <3>4. m = [i \in DOMAIN dest.mem |-> IF i \in hit THEN colour ELSE dest.mem[i]]
      BY <2>7 DEF Sw!Coloured
    <3> HIDE DEF hit, m
    <3> QED  BY <2>7, <3>2, <3>3, <3>4
  <2> HIDE DEF m, a, b, k, colour, dest
  <2>8. Changes(g, k, {"window", "asserted"})
    BY <2>3, <2>6 DEF Changes, SwFields
  <2>9. colour = Fixed /\ dest.format \in Sw!Settable => \A p \in Places : Buffer(k.window)[p] = Fixed
    BY <2>6, <2>7 DEF Buffer
  <2> QED  BY <1>1, <2>1, <2>6, <2>8, <2>9 DEF colour, dest
<1>2. CASE ~(g.contexts[1].surface = 1 /\ g.window.valid)
  <2>1. h = Sw!Asserted(g)
    BY <1>2, TheContext DEF Sw!GilClear
  <2>2. SwOk(h) /\ Changes(g, h, {"asserted"})
    BY <2>1, AssertedDoes
  <2> HIDE DEF h
  <2>3. h.window = g.window
    BY <1>0, <2>2 DEF Changes, SwFields
  <2> QED  BY <1>2, <2>2, <2>3 DEF Changes, h
<1> QED  BY <1>1, <1>2

-----------------------------------------------------------------------------
(* Drawing and verifying.                                                  *)

\* A rectangle that lies in the window.
Within(a, b, w, h) == a >= 0 /\ a + w <= Width /\ b >= 0 /\ b + h <= Height

\* A place is one of the pixels of such a rectangle.
Inside(p, a, b, w, h) == p[1] - a \in 0..(w - 1) /\ p[2] - b \in 0..(h - 1)

\* A fixed point number of four fractional bits lies in that pixel.
Pixel(x, a) == x \div 16 = a

Data(t) == [i \in 0..(Len(t.data) - 1) |-> t.data[i + 1]]

\* The surfaces of a quad of w by h pixels at a, b.
QuadFacts(q, g, a, b, w, h) ==
  LET t == g.textures[g.contexts[1].texture]
  IN  /\ q.dest.x = a /\ q.dest.y = b /\ q.dest.w = w /\ q.dest.h = h
      /\ q.dest.stride = Width /\ q.dest.size = Width * Height
      /\ q.dest.mem = g.window.mem
      /\ q.src.x = 0 /\ q.src.y = 0 /\ q.src.w = w /\ q.src.h = h
      /\ q.src.stride = t.width /\ q.src.size = t.width * t.height
      /\ q.src.mem = Data(t)

\* The surfaces of a quad have the size of the texture, at the place in pixels.
LEMMA QuadIs ==
  ASSUME NEW g, SwOk(g), g.window.valid, NEW x1, NEW y1, NEW a \in Int, NEW b \in Int,
         Pixel(x1, a), Pixel(y1, b), NEW w \in Nat, NEW h \in Nat
  PROVE  QuadFacts(Sw!Quad(g, 1, x1, y1, 0, 0, LastFP(w), LastFP(h)), g, a, b, w, h)
<1> DEFINE q == Sw!Quad(g, 1, x1, y1, 0, 0, LastFP(w), LastFP(h))
           t == g.textures[g.contexts[1].texture]
           d == [g.window EXCEPT !.x = a, !.y = b, !.w = w, !.h = h]
<1>1. \A n \in Nat : ((LastFP(n) - 0) \div 16) + 1 = n
  BY DEF LastFP
<1>2. 0 \div 16 = 0
  OBVIOUS
<1>3. q.dest = d
  BY <1>1 DEF Sw!Quad, Pixel
<1>4. q.src = [x |-> 0, y |-> 0, w |-> w, h |-> h, stride |-> t.width,
               size |-> t.width * t.height, aligned |-> t.aligned, mem |-> Data(t)]
  BY <1>1, <1>2 DEF Sw!Quad, Data
<1>5. /\ DOMAIN g.window = WindowFields /\ g.window.stride = Width
      /\ g.window.size = Width * Height
  BY DEF SwOk, WindowOk
<1>6. /\ d.x = a /\ d.y = b /\ d.w = w /\ d.h = h /\ d.stride = Width
      /\ d.size = Width * Height /\ d.mem = g.window.mem
  BY <1>5 DEF WindowFields
<1> HIDE DEF q, t, d
<1>7. QuadFacts(q, g, a, b, w, h)
  BY <1>3, <1>4, <1>6 DEF QuadFacts, t
<1> QED  BY <1>7 DEF q

\* A quad that lies in the window and has the size of its texture.
QuadOk(dest, src, a, b, w, h) ==
  /\ dest.x = a /\ dest.y = b /\ dest.w = w /\ dest.h = h
  /\ dest.stride = Width /\ dest.size = Width * Height
  /\ DOMAIN dest.mem = 0..(Height * Width - 1)
  /\ src.x = 0 /\ src.y = 0 /\ src.w = w /\ src.h = h
  /\ Within(a, b, w, h)

\* A quad within the window is within its rows and its memory.
LEMMA QuadRows ==
  ASSUME DisplayAssumption, NEW a \in Int, NEW b \in Int, NEW w \in Nat, NEW h \in Nat,
         NEW dest, NEW src, QuadOk(dest, src, a, b, w, h)
  PROVE  Rows(dest, src) /\ ~Sw!Outside(dest, src)
<1>1. Width \in Nat /\ Height \in Nat
  BY SizeAssumption
<1>2. Rows(dest, src)
  BY <1>1 DEF Rows, QuadOk, Within
<1>3. \A i \in 0..(Height * dest.stride - 1) : i \in DOMAIN dest.mem
  BY DEF QuadOk
<1>4. dest.y + src.h <= Height
  BY <1>1 DEF QuadOk, Within
<1> QED  BY <1>1, <1>2, <1>3, <1>4, NothingOutside

\* The copying and the comparison skip none of its cells.
LEMMA QuadInRow ==
  ASSUME DisplayAssumption, NEW a \in Int, NEW b \in Int, NEW w \in Nat, NEW h \in Nat,
         NEW dest, NEW src, QuadOk(dest, src, a, b, w, h), src.size = w * h,
         NEW c \in Sw!Cells(src.w, src.h)
  PROVE  Sw!InRow(dest, src, c)
<1>1. Width \in Nat /\ Height \in Nat /\ Height >= 1
  BY SizeAssumption
<1>2. c[1] \in 0..(w - 1) /\ c[2] \in 0..(h - 1)
  <2>1. c[1] \in 0..(src.w - 1) /\ c[2] \in 0..(src.h - 1)
    <3>1. Rows(dest, src)
      BY QuadRows
    <3> QED  BY ONLY <3>1, c \in Sw!Cells(src.w, src.h), CellOf
  <2>2. src.w = w /\ src.h = h
    BY DEF QuadOk
  <2> QED  BY ONLY <2>1, <2>2
<1>3. h >= 1 /\ w <= w * h /\ w * h \in Nat
  <2>1. h >= 1
    <3>1. \A i \in Nat : \A j \in 0..(i - 1) : i >= 1
      OBVIOUS
    <3> QED  BY ONLY <1>2, <3>1, h \in Nat
  <2> QED  BY <2>1, RowsAtLeast
<1>4. Width <= Width * Height /\ Width * Height \in Nat
  BY <1>1, RowsAtLeast
<1>5. w <= Width
  BY <1>1 DEF QuadOk, Within
<1>6. (Width - w) * h \in Nat
  <2>1. Width - w \in Nat
    BY <1>1, <1>5
  <2>2. \A k, l \in Nat : k * l \in Nat
    OBVIOUS
  <2> QED  BY <2>1, <2>2
<1> DEFINE n == w * h
           m == Width * Height
           r == (Width - w) * h
<1>7. c[1] < n /\ c[1] < m + r
  <2>1. w <= n /\ n \in Nat /\ w <= m /\ m \in Nat /\ r \in Nat
    <3>1. n \in Nat /\ w <= n
      BY <1>3
    <3>2. m \in Nat /\ Width <= m
      BY <1>4
    <3>3. r \in Nat
      BY <1>6
    <3> HIDE DEF n, m, r
    <3> QED  BY <1>1, <1>5, <3>1, <3>2, <3>3
  <2> HIDE DEF n, m, r
  <2>2. c[1] \in Nat /\ c[1] < w /\ w \in Nat
    BY ONLY <1>2, w \in Nat
  <2> QED  BY ONLY <2>2, <2>1
<1>9. src.w = w /\ dest.stride = Width /\ dest.size = Width * Height /\ dest.h = h
  BY DEF QuadOk
<1> QED  BY <1>7, <1>9 DEF Sw!InRow

\* The pixels of a texture lie row by row.
IsSource(src, t, w, h) ==
  /\ src.x = 0 /\ src.y = 0 /\ src.stride = w /\ src.mem = Data(t)
  /\ Len(t.data) = w * h

ReadsRows(src, t, w, h) ==
  \A x \in 0..(w - 1), y \in 0..(h - 1) :
    Sw!Read(src, Sw!Cell(src, <<x, y>>)) = t.data[y * w + x + 1]

\* Reading a texture at a place reads its pixel.
LEMMA SourcePixel ==
  ASSUME NEW w \in Nat, NEW h \in Nat, NEW t, NEW src, IsSource(src, t, w, h)
  PROVE  ReadsRows(src, t, w, h)
<1> USE DEF ReadsRows
<1> SUFFICES ASSUME NEW x \in 0..(w - 1), NEW y \in 0..(h - 1)
             PROVE  Sw!Read(src, Sw!Cell(src, <<x, y>>)) = t.data[y * w + x + 1]
  OBVIOUS
<1>0. /\ src.x = 0 /\ src.y = 0 /\ src.stride = w /\ src.mem = Data(t)
      /\ Len(t.data) = w * h
  BY DEF IsSource
<1>1. Sw!Cell(src, <<x, y>>) = y * w + x
  <2>1. Sw!Cell(src, <<x, y>>) = (0 * w + 0) + y * w + x
    BY <1>0 DEF Sw!Cell, Sw!Start
  <2>2. 0 * w = 0 /\ y * w \in Int
    OBVIOUS
  <2> QED  BY <2>1, <2>2
<1>2. y * w + x \in 0..(h * w - 1)
  BY CellInside
<1>3. h * w = w * h
  OBVIOUS
<1>4. y * w + x \in DOMAIN src.mem
  BY <1>0, <1>2, <1>3 DEF Data
<1> DEFINE i == y * w + x
<1>5. i \in 0..(Len(t.data) - 1)
  BY <1>0, <1>2, <1>3
<1>6. Data(t)[i] = t.data[i + 1]
  <2> HIDE DEF i
  <2> QED  BY <1>5 DEF Data
<1> QED  BY <1>0, <1>1, <1>4, <1>6 DEF Sw!Read

\* What is drawn writes nothing behind the window when it lies in it.
LEMMA DrawDoes ==
  ASSUME DisplayAssumption, NEW g, SwOk(g), NEW x1, NEW y1, NEW a \in Int, NEW b \in Int,
         Pixel(x1, a), Pixel(y1, b), NEW w \in Nat, NEW h \in Nat
  PROVE  LET k == Sw!GilDrawQuad(g, 1, x1, y1, 0, 0, LastFP(w), LastFP(h))
         IN  /\ SwOk(k) /\ Changes(g, k, {"window", "asserted", "wild"})
             /\ g.window.valid => Changes(g.window, k.window, {"mem"})
             /\ ~g.window.valid => k.window = g.window
             /\ Within(a, b, w, h) => k.wild = g.wild
<1> DEFINE q == Sw!Quad(g, 1, x1, y1, 0, 0, LastFP(w), LastFP(h))
           f == Sw!GilDrawQuad(g, 1, x1, y1, 0, 0, LastFP(w), LastFP(h))
           m == Sw!Copied(q.dest, q.src)
           o == Sw!Outside(q.dest, q.src)
           s == ~Sw!Sound(q.dest, g.window.format) \/ ~Sw!Sound(q.src, g.window.format)
           k == [g EXCEPT !.window.mem = m,
                          !.asserted = @ \/ ~Sw!Sound(q.dest, g.window.format)
                                         \/ ~Sw!Sound(q.src, g.window.format),
                          !.wild = @ \/ Sw!Outside(q.dest, q.src)]
<1>0. WindowOk(g.window) /\ g.wild \in BOOLEAN /\ g.asserted \in BOOLEAN /\ DOMAIN g = SwFields
  BY DEF SwOk
<1>1. CASE Sw!CanDraw(g, 1) /\ Sw!SameFormat(g, 1)
  <2>1. f = k
    BY <1>1 DEF Sw!GilDrawQuad
  <2>2. g.window.valid
    BY <1>1 DEF Sw!CanDraw
  <2>3. /\ q.dest.x = a /\ q.dest.y = b /\ q.dest.w = w /\ q.dest.h = h
        /\ q.dest.stride = Width /\ q.dest.size = Width * Height
        /\ q.dest.mem = g.window.mem
        /\ q.src.x = 0 /\ q.src.y = 0 /\ q.src.w = w /\ q.src.h = h
    <3>1. QuadFacts(q, g, a, b, w, h)
      BY <2>2, QuadIs
    <3> HIDE DEF q
    <3> QED  BY <3>1 DEF QuadFacts
  <2>4. Within(a, b, w, h) => ~o
    <3>1. DOMAIN q.dest.mem = 0..(Height * Width - 1)
      BY <1>0, <2>2, <2>3 DEF WindowOk
    <3> HIDE DEF q
    <3>2. Within(a, b, w, h) => QuadOk(q.dest, q.src, a, b, w, h)
      BY <2>3, <3>1 DEF QuadOk
    <3> QED  BY <3>2, QuadRows
  <2>5. DOMAIN m = DOMAIN g.window.mem
    <3> HIDE DEF q
    <3> QED  BY <2>3 DEF Sw!Copied
  <2>6. k.window = [g.window EXCEPT !.mem = m]
    <3> HIDE DEF q, m
    <3> QED  BY <1>0 DEF SwFields
  <2>7. Changes(g, k, {"window", "asserted", "wild"})
    <3> HIDE DEF q, m
    <3> QED  BY DEF Changes
  <2>8. k.asserted = (g.asserted \/ s) /\ k.wild = (g.wild \/ o)
    <3> HIDE DEF q, m
    <3> QED  BY <1>0 DEF SwFields
  <2> HIDE DEF q, m, o, s, k, f
  <2>9. k.asserted \in BOOLEAN /\ k.wild \in BOOLEAN
    BY <2>8
  <2>10. SwOk(k) /\ Changes(g.window, k.window, {"mem"})
    BY <2>2, <2>5, <2>6, <2>7, <2>9, MemoryDoes
  <2>11. Within(a, b, w, h) => k.wild = g.wild
    BY <1>0, <2>4, <2>8
  <2> QED  BY <2>1, <2>2, <2>7, <2>10, <2>11 DEF f
<1>2. CASE ~(Sw!CanDraw(g, 1) /\ Sw!SameFormat(g, 1))
  <2>1. f = Sw!Asserted(g)
    BY <1>2 DEF Sw!GilDrawQuad
  <2>2. SwOk(f) /\ Changes(g, f, {"asserted"})
    BY <2>1, AssertedDoes
  <2> HIDE DEF f
  <2>3. f.window = g.window /\ f.wild = g.wild
    BY <1>0, <2>2 DEF Changes, SwFields
  <2>4. g.window.valid => Changes(g.window, f.window, {"mem"})
    BY <2>3 DEF Changes
  <2>5. Changes(g, f, {"window", "asserted", "wild"})
    BY <2>2 DEF Changes
  <2> QED  BY <2>2, <2>3, <2>4, <2>5 DEF f
<1> QED  BY <1>1, <1>2

\* The texture that is bound, of the size and in the format of what is drawn.
Bound(g, w, h) ==
  /\ Sw!CanDraw(g, 1) /\ Sw!SameFormat(g, 1)
  /\ g.textures[g.contexts[1].texture].width = w
  /\ g.textures[g.contexts[1].texture].height = h
  /\ Len(g.textures[g.contexts[1].texture].data) = w * h

BoundPixel(g, p, a, b, w) ==
  g.textures[g.contexts[1].texture].data[(p[2] - b) * w + (p[1] - a) + 1]

\* What is drawn in the window is the texture at its place and nothing elsewhere.
LEMMA DrawShows ==
  ASSUME DisplayAssumption, NEW g, SwOk(g), NEW x1, NEW y1, NEW a \in Int, NEW b \in Int,
         Pixel(x1, a), Pixel(y1, b), NEW w \in Nat, NEW h \in Nat,
         Within(a, b, w, h), Bound(g, w, h), NEW p \in Places
  PROVE  Buffer(Sw!GilDrawQuad(g, 1, x1, y1, 0, 0, LastFP(w), LastFP(h)).window)[p] =
           IF Inside(p, a, b, w, h) THEN BoundPixel(g, p, a, b, w) ELSE Buffer(g.window)[p]
<1> DEFINE q == Sw!Quad(g, 1, x1, y1, 0, 0, LastFP(w), LastFP(h))
           f == Sw!GilDrawQuad(g, 1, x1, y1, 0, 0, LastFP(w), LastFP(h))
           m == Sw!Copied(q.dest, q.src)
           t == g.textures[g.contexts[1].texture]
<1>0. WindowOk(g.window) /\ DOMAIN g = SwFields /\ g.window.valid
  BY DEF SwOk, Bound, Sw!CanDraw
<1>1. f.window.mem = m
  <2>1. "mem" \in DOMAIN g.window
    BY <1>0 DEF WindowOk, WindowFields
  <2>2. Sw!CanDraw(g, 1) /\ Sw!SameFormat(g, 1)
    BY DEF Bound
  <2>3. f = [g EXCEPT !.window.mem = m,
                      !.asserted = @ \/ ~Sw!Sound(q.dest, g.window.format)
                                     \/ ~Sw!Sound(q.src, g.window.format),
                      !.wild = @ \/ Sw!Outside(q.dest, q.src)]
    BY <2>2 DEF Sw!GilDrawQuad
  <2> HIDE DEF q, m
  <2>4. f.window = [g.window EXCEPT !.mem = m]
    BY <1>0, <2>3 DEF SwFields
  <2> QED  BY <2>1, <2>4
<1>2. /\ q.dest.x = a /\ q.dest.y = b /\ q.dest.w = w /\ q.dest.h = h
      /\ q.dest.stride = Width /\ q.dest.size = Width * Height
      /\ q.dest.mem = g.window.mem
      /\ q.src.x = 0 /\ q.src.y = 0 /\ q.src.w = w /\ q.src.h = h
      /\ q.src.stride = t.width /\ q.src.size = t.width * t.height
      /\ q.src.mem = Data(t)
  <2>1. QuadFacts(q, g, a, b, w, h)
    BY <1>0, QuadIs
  <2> HIDE DEF q
  <2> QED  BY <2>1 DEF QuadFacts
<1>3. t.width = w /\ t.height = h /\ Len(t.data) = w * h
  BY DEF Bound
<1> HIDE DEF q, f, t, m
<1>4. QuadOk(q.dest, q.src, a, b, w, h) /\ q.src.size = w * h
  BY <1>0, <1>2, <1>3 DEF QuadOk, WindowOk
<1>5. p[1] \in 0..(Width - 1) /\ p[2] \in 0..(Height - 1)
  BY DEF Places
<1>6. /\ Rows(q.dest, q.src)
      /\ \A c \in Sw!Cells(q.src.w, q.src.h) : Sw!InRow(q.dest, q.src, c)
  BY <1>4, QuadRows, QuadInRow
<1>7. p[2] * Width + p[1] \in DOMAIN g.window.mem
  BY <1>0, <1>5, WindowRows
<1>8. m[p[2] * Width + p[1]] =
        IF Inside(p, a, b, w, h)
        THEN Sw!Read(q.src, Sw!Cell(q.src, <<p[1] - a, p[2] - b>>))
        ELSE g.window.mem[p[2] * Width + p[1]]
  <2>1. p[1] \in 0..(q.dest.stride - 1) /\ p[2] \in Nat
        /\ p[2] * q.dest.stride + p[1] \in DOMAIN q.dest.mem
    BY <1>2, <1>5, <1>7
  <2>2. Sw!Copied(q.dest, q.src)[p[2] * q.dest.stride + p[1]] =
           IF p[1] - q.dest.x \in 0..(q.src.w - 1) /\ p[2] - q.dest.y \in 0..(q.src.h - 1)
           THEN Sw!Read(q.src, Sw!Cell(q.src, <<p[1] - q.dest.x, p[2] - q.dest.y>>))
           ELSE q.dest.mem[p[2] * q.dest.stride + p[1]]
    <3> DEFINE d == q.dest
               e == q.src
               x == p[1]
               y == p[2]
    <3>1. /\ Rows(d, e) /\ \A c \in Sw!Cells(e.w, e.h) : Sw!InRow(d, e, c)
          /\ x \in 0..(d.stride - 1) /\ y \in Nat /\ y * d.stride + x \in DOMAIN d.mem
      BY <1>6, <2>1
    <3>2. Sw!Copied(d, e)[y * d.stride + x] =
           IF x - d.x \in 0..(e.w - 1) /\ y - d.y \in 0..(e.h - 1)
           THEN Sw!Read(e, Sw!Cell(e, <<x - d.x, y - d.y>>))
           ELSE d.mem[y * d.stride + x]
      <4> HIDE DEF d, e, x, y
      <4> QED  BY ONLY <3>1, CopiedCells
    <3> QED  BY <3>2
  <2> QED  BY <1>2, <2>2 DEF m, Inside
<1>9. Inside(p, a, b, w, h) =>
        Sw!Read(q.src, Sw!Cell(q.src, <<p[1] - a, p[2] - b>>)) = BoundPixel(g, p, a, b, w)
  <2> SUFFICES ASSUME Inside(p, a, b, w, h)
               PROVE  Sw!Read(q.src, Sw!Cell(q.src, <<p[1] - a, p[2] - b>>)) = BoundPixel(g, p, a, b, w)
    OBVIOUS
  <2>1. Sw!Read(q.src, Sw!Cell(q.src, <<p[1] - a, p[2] - b>>)) = t.data[(p[2] - b) * w + (p[1] - a) + 1]
    <3> DEFINE x == p[1] - a
               y == p[2] - b
               e == q.src
    <3>1. /\ IsSource(e, t, w, h)
          /\ x \in 0..(w - 1) /\ y \in 0..(h - 1) /\ w \in Nat /\ h \in Nat
      BY <1>2, <1>3 DEF Inside, IsSource
    <3>2. ReadsRows(e, t, w, h)
      <4> HIDE DEF e
      <4> QED  BY <3>1, SourcePixel
    <3>3. Sw!Read(e, Sw!Cell(e, <<x, y>>)) = t.data[y * w + x + 1]
      <4> HIDE DEF x, y, e
      <4> QED  BY <3>1, <3>2 DEF ReadsRows
    <3> QED  BY <3>3
  <2> QED  BY <2>1 DEF BoundPixel, t
<1>10. Buffer(f.window)[p] = m[p[2] * Width + p[1]] /\ Buffer(g.window)[p] = g.window.mem[p[2] * Width + p[1]]
  BY <1>1 DEF Buffer
<1> QED  BY <1>8, <1>9, <1>10 DEF f

\* What is verified is that the texture is there.
ShowsTexture(g, a, b, w, h) ==
  \A p \in Places : Inside(p, a, b, w, h) => Buffer(g.window)[p] = BoundPixel(g, p, a, b, w)

\* gilVerify says whether the window shows the texture at its place.
LEMMA VerifyMeans ==
  ASSUME DisplayAssumption, NEW g, SwOk(g), NEW x1, NEW y1, NEW a \in Int, NEW b \in Int,
         Pixel(x1, a), Pixel(y1, b), NEW w \in Nat, NEW h \in Nat,
         Within(a, b, w, h), Bound(g, w, h)
  PROVE  Sw!GilVerify(g, 1, x1, y1, 0, 0, LastFP(w), LastFP(h)) <=> ShowsTexture(g, a, b, w, h)
<1> DEFINE q == Sw!Quad(g, 1, x1, y1, 0, 0, LastFP(w), LastFP(h))
           t == g.textures[g.contexts[1].texture]
<1>0. WindowOk(g.window) /\ DOMAIN g = SwFields /\ g.window.valid
  BY DEF SwOk, Bound, Sw!CanDraw
<1>1. Sw!GilVerify(g, 1, x1, y1, 0, 0, LastFP(w), LastFP(h)) <=> Sw!Same(q.dest, q.src)
  BY DEF Sw!GilVerify, Bound
<1>2. /\ q.dest.x = a /\ q.dest.y = b /\ q.dest.w = w /\ q.dest.h = h
      /\ q.dest.stride = Width /\ q.dest.size = Width * Height
      /\ q.dest.mem = g.window.mem
      /\ q.src.x = 0 /\ q.src.y = 0 /\ q.src.w = w /\ q.src.h = h
      /\ q.src.stride = t.width /\ q.src.size = t.width * t.height
      /\ q.src.mem = Data(t)
  <2>1. QuadFacts(q, g, a, b, w, h)
    BY <1>0, QuadIs
  <2> HIDE DEF q
  <2> QED  BY <2>1 DEF QuadFacts
<1>3. t.width = w /\ t.height = h /\ Len(t.data) = w * h
  BY DEF Bound
<1> HIDE DEF q, t
<1>4. QuadOk(q.dest, q.src, a, b, w, h) /\ q.src.size = w * h
  BY <1>0, <1>2, <1>3 DEF QuadOk, WindowOk
<1>5. Width \in Nat /\ Height \in Nat
  BY SizeAssumption
<1>6. Rows(q.dest, q.src)
  BY <1>4, QuadRows
<1>11. \A x \in 0..(w - 1), y \in 0..(h - 1) :
         Sw!Read(q.src, Sw!Cell(q.src, <<x, y>>)) = t.data[y * w + x + 1]
  <2>1. IsSource(q.src, t, w, h)
    BY <1>2, <1>3 DEF IsSource
  <2>2. ReadsRows(q.src, t, w, h)
    BY <2>1, SourcePixel
  <2> QED  BY <2>2 DEF ReadsRows
\* A pixel of the texture and its place.
<1>7. ASSUME NEW x \in 0..(w - 1), NEW y \in 0..(h - 1)
      PROVE  /\ <<x, y>> \in Sw!Cells(q.src.w, q.src.h)
             /\ Sw!InRow(q.dest, q.src, <<x, y>>)
             /\ <<a + x, b + y>> \in Places
             /\ Sw!Read(q.dest, Sw!Cell(q.dest, <<x, y>>)) = Buffer(g.window)[<<a + x, b + y>>]
             /\ Sw!Read(q.src, Sw!Cell(q.src, <<x, y>>)) = t.data[y * w + x + 1]
  <2>1. <<x, y>> \in Sw!Cells(q.src.w, q.src.h)
    BY <1>2 DEF Sw!Cells
  <2>2. Sw!InRow(q.dest, q.src, <<x, y>>)
    BY <1>4, <2>1, QuadInRow
  <2>3. a + x \in 0..(Width - 1) /\ b + y \in 0..(Height - 1)
    BY <1>5, Inner DEF Within
  <2>4. Sw!Cell(q.dest, <<x, y>>) = (b + y) * Width + (a + x)
    <3> DEFINE c == <<x, y>>
    <3>1. Sw!Cell(q.dest, c) = (q.dest.y + c[2]) * q.dest.stride + (q.dest.x + c[1])
      BY <1>6, <2>1, CellOf
    <3> QED  BY <1>2, <3>1
  <2>5. (b + y) * Width + (a + x) \in DOMAIN g.window.mem
    BY <1>0, <2>3, WindowRows
  <2>6. Sw!Read(q.dest, Sw!Cell(q.dest, <<x, y>>)) = g.window.mem[(b + y) * Width + (a + x)]
    BY <1>2, <2>4, <2>5 DEF Sw!Read
  <2>7. <<a + x, b + y>> \in Places
    BY <2>3 DEF Places
  <2>8. Buffer(g.window)[<<a + x, b + y>>] = g.window.mem[(b + y) * Width + (a + x)]
    BY <2>7 DEF Buffer
  <2>9. Sw!Read(q.src, Sw!Cell(q.src, <<x, y>>)) = t.data[y * w + x + 1]
    BY <1>11
  <2> QED  BY <2>1, <2>2, <2>6, <2>7, <2>8, <2>9
<1>8. ASSUME Sw!Same(q.dest, q.src), NEW p \in Places, Inside(p, a, b, w, h)
      PROVE  Buffer(g.window)[p] = BoundPixel(g, p, a, b, w)
  <2> DEFINE x == p[1] - a
             y == p[2] - b
  <2>1. x \in 0..(w - 1) /\ y \in 0..(h - 1)
    BY <1>8 DEF Inside
  <2>2. p = <<p[1], p[2]>> /\ p[1] \in Int /\ p[2] \in Int
    BY DEF Places
  <2>3. a + x = p[1] /\ b + y = p[2]
    <3>1. \A i, j \in Int : i + (j - i) = j
      OBVIOUS
    <3> QED  BY <2>2, <3>1
  <2> HIDE DEF x, y
  <2>4. Sw!Read(q.dest, Sw!Cell(q.dest, <<x, y>>)) = Sw!Read(q.src, Sw!Cell(q.src, <<x, y>>))
    BY <1>7, <1>8, <2>1 DEF Sw!Same
  <2>5. Buffer(g.window)[<<a + x, b + y>>] = t.data[y * w + x + 1]
    BY <1>7, <2>1, <2>4
  <2> QED  BY <2>2, <2>3, <2>5 DEF BoundPixel, t, x, y
<1>9. ASSUME \A p \in Places : Inside(p, a, b, w, h) =>
               Buffer(g.window)[p] = BoundPixel(g, p, a, b, w)
      PROVE  Sw!Same(q.dest, q.src)
  <2> SUFFICES ASSUME NEW c \in Sw!Cells(q.src.w, q.src.h)
               PROVE  /\ Sw!InRow(q.dest, q.src, c)
                      /\ Sw!Read(q.dest, Sw!Cell(q.dest, c)) = Sw!Read(q.src, Sw!Cell(q.src, c))
    BY DEF Sw!Same
  <2>1. PICK x \in 0..(w - 1), y \in 0..(h - 1) : c = <<x, y>>
    <3>1. c = <<c[1], c[2]>> /\ c[1] \in 0..(q.src.w - 1) /\ c[2] \in 0..(q.src.h - 1)
      BY <1>6, CellOf
    <3> QED  BY <1>2, <3>1
  <2> DEFINE p == <<a + x, b + y>>
  <2>2. p \in Places /\ p[1] - a = x /\ p[2] - b = y
    <3>1. p \in Places
      BY <1>7
    <3>2. (a + x) - a = x /\ (b + y) - b = y
      OBVIOUS
    <3> QED  BY <3>1, <3>2
  <2> HIDE DEF p
  <2>3. Buffer(g.window)[p] = t.data[y * w + x + 1]
    BY <1>9, <2>2 DEF Inside, BoundPixel, t
  <2> QED  BY <1>7, <2>1, <2>3 DEF p
<1> QED  BY <1>1, <1>8, <1>9 DEF ShowsTexture

-----------------------------------------------------------------------------
(* Swapping, painting and uncovering: the screen gets another memory.      *)

\* The screen gets another memory of the same size.
LEMMA ScreenDoes ==
  ASSUME NEW g, SwOk(g), NEW h, Changes(g, h, {"screen", "asserted", "wild"}),
         Changes(g.screen, h.screen, {"mem", "painted"}), h.screen.painted \in BOOLEAN,
         OnWindows(g.screen) \/ DOMAIN h.screen.mem = DOMAIN g.screen.mem,
         h.asserted \in BOOLEAN, h.wild \in BOOLEAN
  PROVE  SwOk(h) /\ (OnWindows(h.screen) <=> OnWindows(g.screen))
<1>1. DOMAIN g = SwFields /\ ScreenOk(g.screen) /\ DOMAIN g.screen = ScreenFields
  BY DEF SwOk, ScreenOk
<1>2. /\ DOMAIN h.screen = ScreenFields
      /\ h.screen.system = g.screen.system /\ h.screen.x = g.screen.x /\ h.screen.y = g.screen.y
      /\ h.screen.h = g.screen.h /\ h.screen.stride = g.screen.stride
      /\ h.screen.size = g.screen.size
  BY <1>1 DEF Changes, ScreenFields
<1>3. ScreenOk(h.screen) /\ (OnWindows(h.screen) <=> OnWindows(g.screen))
  BY <1>1, <1>2 DEF ScreenOk, OnWindows
<1> QED  BY <1>1, <1>3 DEF SwOk, Changes, SwFields

\* A place of the window on the screen.
HasRoom(s) ==
  /\ s.x \in Nat /\ s.y \in Nat /\ s.stride \in Nat /\ s.size \in Nat
  /\ s.x + Width <= s.stride /\ (s.y + Height) * s.stride <= s.size

\* A place of the window is a place of a screen that has room for it.
LEMMA PlaceOnScreen ==
  ASSUME DisplayAssumption, NEW s, HasRoom(s), NEW p \in Places
  PROVE  LET x == s.x + p[1]
             y == s.y + p[2]
         IN  /\ x \in 0..(s.stride - 1) /\ y \in Nat
             /\ y * s.stride + x \in 0..(s.size - 1)
             /\ x - s.x = p[1] /\ y - s.y = p[2]
             /\ y * s.stride + x = y * s.stride + s.x + p[1]
<1>1. PICK w \in Nat, h \in Nat : Width = w /\ Height = h
  BY SizeAssumption
<1>2. PICK sx \in Nat, sy \in Nat, st \in Nat, size \in Nat, px \in 0..(w - 1), py \in 0..(h - 1) :
        /\ s.x = sx /\ s.y = sy /\ s.stride = st /\ s.size = size /\ p[1] = px /\ p[2] = py
  BY <1>1 DEF HasRoom, Places
<1>3. sx + w <= st /\ (sy + h) * st <= size
  BY <1>1, <1>2 DEF HasRoom
<1> DEFINE n == sy + h
           y == sy + py
           x == sx + px
<1>4. n \in Nat /\ y \in 0..(n - 1) /\ x \in 0..(st - 1) /\ y \in Nat
  <2>1. n \in Nat /\ y \in 0..(n - 1) /\ y \in Nat
    OBVIOUS
  <2>2. sx + w <= st
    BY <1>3
  <2> QED  BY <2>1, <2>2, Inner
<1>5. x - sx = px /\ y - sy = py
  OBVIOUS
<1>6. \A i, j \in Nat : i * j \in Nat
  OBVIOUS
<1>7. n * st \in Nat /\ y * st \in Nat
  BY <1>4, <1>6
<1>8. y * st + x \in 0..(n * st - 1)
  <2> HIDE DEF n, y, x
  <2> QED  BY <1>4, CellInside
<1>9. y * st + x \in 0..(size - 1)
  <2>1. n * st <= size
    BY <1>3
  <2> DEFINE z == n * st
  <2> HIDE DEF n, y, x, z
  <2>2. z \in Nat /\ z <= size /\ y * st + x \in 0..(z - 1)
    BY <2>1, <1>7, <1>8 DEF z
  <2> QED  BY <2>2
<1>10. y * st + x = y * st + sx + px
  <2> DEFINE z == y * st
  <2>1. z \in Nat
    BY <1>7
  <2> HIDE DEF z
  <2>2. z + (sx + px) = z + sx + px
    BY <2>1
  <2> QED  BY <2>2 DEF z
<1> QED  BY <1>2, <1>4, <1>5, <1>9, <1>10

\* The window fits on the screen.
LEMMA CopyFits ==
  ASSUME NEW s, NEW w, NEW W \in Nat, NEW H \in Nat, W >= 1, H >= 1,
         s.x \in Nat, s.y \in Nat, s.h \in Nat, s.stride \in Nat, s.size \in Nat,
         s.x + W <= s.stride, (s.y + H) * s.stride <= s.size, DOMAIN s.mem = 0..(s.size - 1),
         w.w = W, w.h = H, w.size = W * H
  PROVE  /\ Rows(s, w) /\ ~Sw!Outside(s, w)
         /\ \A c \in Sw!Cells(w.w, w.h) : Sw!InRow(s, w, c)
<1>1. PICK sx \in Nat, sy \in Nat, sh \in Nat, st \in Nat, size \in Nat :
        s.x = sx /\ s.y = sy /\ s.h = sh /\ s.stride = st /\ s.size = size
  OBVIOUS
<1>2. sx + W <= st /\ (sy + H) * st <= size /\ DOMAIN s.mem = 0..(size - 1)
  BY <1>1
<1>3. Rows(s, w)
  BY <1>1, <1>2 DEF Rows
<1> DEFINE n == sy + H
           z == n * st
<1>4. n \in Nat /\ n >= 1 /\ s.y + w.h <= n
  BY <1>1
<1>5. st <= n * st /\ n * st \in Nat
  <2> HIDE DEF n
  <2> QED  BY <1>4, RowsAtLeast
<1>6. z \in Nat /\ z <= size /\ st <= z
  BY <1>2, <1>5
<1>7. \A i \in 0..(n * s.stride - 1) : i \in DOMAIN s.mem
  <2> HIDE DEF z
  <2>1. \A i \in 0..(z - 1) : i \in 0..(size - 1)
    BY ONLY <1>6, size \in Nat
  <2> QED  BY <1>1, <1>2, <2>1 DEF z
<1>8. ~Sw!Outside(s, w)
  <2> HIDE DEF n
  <2> QED  BY <1>3, <1>4, <1>7, NothingOutside
<1>9. ASSUME NEW c \in Sw!Cells(w.w, w.h) PROVE Sw!InRow(s, w, c)
  <2>1. c[1] \in 0..(W - 1)
    BY <1>3, CellOf
  <2> DEFINE i == c[1]
             a == W * H
             r == (st - W) * sh
  <2>2. a \in Nat /\ W <= a
    BY RowsAtLeast
  <2>3. r \in Nat
    <3>1. \A k, l \in Nat : k * l \in Nat
      OBVIOUS
    <3>2. st - W \in Nat
      BY <1>2
    <3> QED  BY <3>1, <3>2
  <2> HIDE DEF i, a, r, z
  <2>4. i \in 0..(W - 1)
    BY <2>1 DEF i
  <2>5. i < a /\ i < size + r
    BY <1>2, <1>6, <2>2, <2>3, <2>4
  <2>6. (s.stride - w.w) * s.h = r
    BY <1>1 DEF r
  <2> QED  BY <1>1, <2>5, <2>6 DEF Sw!InRow, i, a
<1> QED  BY <1>3, <1>8, <1>9

\* The window is copied to its place on the screen, and nothing behind it.
LEMMA SwapDoes ==
  ASSUME DisplayAssumption, NEW g, SwOk(g), ~OnWindows(g.screen)
  PROVE  LET h == Sw!GilSwapBuffers(g, 1)
         IN  /\ SwOk(h) /\ ~OnWindows(h.screen)
             /\ Changes(g, h, {"screen", "asserted"})
             /\ g.window.valid => Shows(h.screen) = Buffer(g.window)
<1> DEFINE f == Sw!GilSwapBuffers(g, 1)
           s == g.screen
           w == g.window
           m == Sw!Copied(s, w)
           o == Sw!Outside(s, w)
           k == [g EXCEPT !.screen.mem = Sw!Copied(g.screen, g.window),
                          !.asserted = @ \/ ~Sw!Sound(g.window, g.window.format),
                          !.wild = @ \/ Sw!Outside(g.screen, g.window)]
<1>0. /\ DOMAIN g = SwFields /\ ScreenOk(s) /\ WindowOk(w)
      /\ g.asserted \in BOOLEAN /\ g.wild \in BOOLEAN
  BY DEF SwOk
<1>1. CASE w.valid
  <2>1. f = k
    BY <1>1 DEF Sw!GilSwapBuffers
  <2>2. /\ s.x \in Nat /\ s.y \in Nat /\ s.h \in Nat /\ s.stride \in Nat /\ s.size \in Nat
        /\ s.x + Width <= s.stride /\ (s.y + Height) * s.stride <= s.size
        /\ DOMAIN s = ScreenFields /\ DOMAIN s.mem = 0..(s.size - 1)
    BY <1>0 DEF ScreenOk
  <2>3. w.x = 0 /\ w.y = 0 /\ w.w = Width /\ w.h = Height /\ w.stride = Width
        /\ w.size = Width * Height
    BY <1>0, <1>1 DEF WindowOk
  <2>4. Width \in Nat /\ Height \in Nat /\ Width >= 1 /\ Height >= 1
    BY SizeAssumption
  <2> HIDE DEF f, s, w, m, o, k
  <2>5. Rows(s, w) /\ ~o /\ (\A c \in Sw!Cells(w.w, w.h) : Sw!InRow(s, w, c))
    BY <2>2, <2>3, <2>4, CopyFits DEF o
  <2>10. ASSUME NEW p \in Places
         PROVE  m[(s.y + p[2]) * s.stride + s.x + p[1]] = Buffer(w)[p]
    <3> DEFINE x == s.x + p[1]
               y == s.y + p[2]
    <3>1. /\ p[1] \in 0..(Width - 1) /\ p[2] \in 0..(Height - 1)
          /\ p[1] \in Nat /\ p[2] \in Nat
      BY <2>4 DEF Places
    <3>2. /\ x \in 0..(s.stride - 1) /\ y \in Nat /\ y * s.stride + x \in DOMAIN s.mem
          /\ x - s.x = p[1] /\ y - s.y = p[2]
          /\ y * s.stride + x = (s.y + p[2]) * s.stride + s.x + p[1]
      <4>1. HasRoom(s)
        BY <2>2 DEF HasRoom
      <4> QED  BY <2>2, <4>1, PlaceOnScreen
    <3> HIDE DEF x, y
    <3>6. Sw!Copied(s, w)[y * s.stride + x] =
           IF x - s.x \in 0..(w.w - 1) /\ y - s.y \in 0..(w.h - 1)
           THEN Sw!Read(w, Sw!Cell(w, <<x - s.x, y - s.y>>))
           ELSE s.mem[y * s.stride + x]
      <4>1. /\ Rows(s, w) /\ (\A c \in Sw!Cells(w.w, w.h) : Sw!InRow(s, w, c))
            /\ x \in 0..(s.stride - 1) /\ y \in Nat /\ y * s.stride + x \in DOMAIN s.mem
        BY <2>5, <3>2
      <4> QED  BY ONLY <4>1, CopiedCells
    <3>7. Sw!Copied(s, w)[y * s.stride + x] = Sw!Read(w, Sw!Cell(w, <<p[1], p[2]>>))
      BY <2>3, <3>1, <3>2, <3>6
    <3>8. Sw!Cell(w, <<p[1], p[2]>>) = p[2] * Width + p[1] /\ p[2] * Width + p[1] \in DOMAIN w.mem
      BY <1>0, <1>1, <3>1, WindowRows DEF w
    <3>9. Sw!Read(w, Sw!Cell(w, <<p[1], p[2]>>)) = w.mem[p[2] * Width + p[1]]
      BY <3>8 DEF Sw!Read
    <3> QED  BY <3>2, <3>7, <3>9 DEF Buffer, m
  <2>11. k.screen = [s EXCEPT !.mem = m] /\ DOMAIN m = DOMAIN s.mem
    <3>1. k.screen = [s EXCEPT !.mem = m]
      BY <1>0 DEF SwFields, k, s, m, w
    <3>2. DOMAIN m = DOMAIN s.mem
      BY DEF m, Sw!Copied
    <3> QED  BY <3>1, <3>2
  <2>12. Changes(g, k, {"screen", "asserted", "wild"})
    BY DEF Changes, k
  <2>13. k.wild = (g.wild \/ o) /\ k.asserted = (g.asserted \/ ~Sw!Sound(w, w.format))
    BY <1>0 DEF SwFields, k, o, s, w
  <2>14. /\ Changes(s, k.screen, {"mem"}) /\ k.screen.mem = m
         /\ k.screen.x = s.x /\ k.screen.y = s.y /\ k.screen.stride = s.stride
         /\ k.screen.painted = s.painted
    BY <2>2, <2>11 DEF Changes, ScreenFields
  <2>15. Shows(k.screen) = Buffer(w)
    <3>1. \A p \in Places : Shows(k.screen)[p] = Buffer(w)[p]
      BY <2>10, <2>14 DEF Shows
    <3> QED  BY <3>1 DEF Shows, Buffer
  <2>16. SwOk(k) /\ (OnWindows(k.screen) <=> OnWindows(s))
    <3>1. k.wild \in BOOLEAN /\ k.asserted \in BOOLEAN /\ k.screen.painted \in BOOLEAN
      BY <1>0, <2>13, <2>14 DEF ScreenOk
    <3>2. Changes(s, k.screen, {"mem", "painted"})
      BY <2>14 DEF Changes
    <3>3. DOMAIN k.screen.mem = DOMAIN s.mem
      BY <2>11, <2>14
    <3> QED  BY <2>12, <3>1, <3>2, <3>3, ScreenDoes DEF s
  <2>17. k.wild = g.wild
    BY <1>0, <2>5, <2>13
  <2>18. Changes(g, k, {"screen", "asserted"})
    BY <1>0, <2>12, <2>17 DEF Changes, SwFields
  <2> QED  BY <2>1, <2>15, <2>16, <2>18 DEF f, s, w
<1>2. CASE ~w.valid
  <2>1. f = Sw!Asserted(g)
    BY <1>2 DEF Sw!GilSwapBuffers
  <2>2. SwOk(f) /\ Changes(g, f, {"asserted"})
    BY <2>1, AssertedDoes
  <2> HIDE DEF f
  <2>3. f.screen = g.screen
    BY <1>0, <2>2 DEF Changes, SwFields
  <2>4. Changes(g, f, {"screen", "asserted"})
    BY <2>2 DEF Changes
  <2> QED  BY <1>2, <2>2, <2>3, <2>4 DEF f
<1> QED  BY <1>1, <1>2

\* On Windows nothing is copied: the window is marked, ...
LEMMA InvalidatedDoes ==
  ASSUME NEW g, SwOk(g), OnWindows(g.screen)
  PROVE  LET h == Sw!Invalidated(g)
         IN  SwOk(h) /\ Changes(g, h, {"screen"}) /\ OnWindows(h.screen) /\ ~h.screen.painted
<1> DEFINE h == Sw!Invalidated(g)
           m == [i \in DOMAIN g.screen.mem |-> Unknown]
<1>0. /\ DOMAIN g = SwFields /\ DOMAIN g.screen = ScreenFields
      /\ g.asserted \in BOOLEAN /\ g.wild \in BOOLEAN
  BY DEF SwOk, ScreenOk
<1>1. Changes(g, h, {"screen"})
  BY DEF Changes, Sw!Invalidated
<1>2. h.screen = [[g.screen EXCEPT !.mem = m] EXCEPT !.painted = FALSE]
  BY <1>0 DEF Sw!Invalidated, SwFields
<1> HIDE DEF h, m
<1>3. Changes(g.screen, h.screen, {"mem", "painted"}) /\ h.screen.painted = FALSE
  BY <1>0, <1>2 DEF Changes, ScreenFields
<1>4. Changes(g, h, {"screen", "asserted", "wild"}) /\ h.asserted = g.asserted /\ h.wild = g.wild
  BY <1>0, <1>1 DEF Changes, SwFields
<1>5. SwOk(h) /\ (OnWindows(h.screen) <=> OnWindows(g.screen))
  BY <1>0, <1>3, <1>4, ScreenDoes
<1> QED  BY <1>1, <1>3, <1>5 DEF h

\* After a swap on Windows the window is to be painted.
LEMMA WinSwapDoes ==
  ASSUME NEW g, SwOk(g), OnWindows(g.screen)
  PROVE  LET h == Sw!WinSwapBuffers(g, 1)
         IN  /\ SwOk(h) /\ Changes(g, h, {"screen", "asserted"}) /\ OnWindows(h.screen)
             /\ g.window.valid => ~h.screen.painted
<1> DEFINE h == Sw!WinSwapBuffers(g, 1)
<1>1. CASE g.window.valid
  <2>1. h = Sw!Invalidated(g)
    BY <1>1 DEF Sw!WinSwapBuffers, Sw!IsWindow
  <2> HIDE DEF h
  <2>2. SwOk(h) /\ Changes(g, h, {"screen"}) /\ OnWindows(h.screen) /\ ~h.screen.painted
    BY <2>1, InvalidatedDoes
  <2> QED  BY <2>2 DEF Changes, h
<1>2. CASE ~g.window.valid
  <2>1. h = Sw!Asserted(g)
    BY <1>2 DEF Sw!WinSwapBuffers, Sw!IsWindow
  <2> HIDE DEF h
  <2>2. SwOk(h) /\ Changes(g, h, {"asserted"})
    BY <2>1, AssertedDoes
  <2>3. h.screen = g.screen
    BY <2>2 DEF Changes, SwOk, SwFields
  <2> QED  BY <1>2, <2>2, <2>3 DEF Changes, h
<1> QED  BY <1>1, <1>2

\* So it is after it was uncovered.
LEMMA UncoverDoes ==
  ASSUME NEW g, SwOk(g), OnWindows(g.screen)
  PROVE  LET h == Sw!WinUncover(g)
         IN  /\ SwOk(h) /\ Changes(g, h, {"screen"}) /\ OnWindows(h.screen)
             /\ g.window.valid => ~h.screen.painted
<1>1. SwOk(g) /\ Changes(g, g, {"screen"})
  BY DEF Changes
<1>2. Sw!WinUncover(g) = IF g.window.valid THEN Sw!Invalidated(g) ELSE g
  BY DEF Sw!WinUncover, Sw!IsWindow
<1> QED  BY <1>1, <1>2, InvalidatedDoes

\* ... and what is painted is the window.
LEMMA HandleEventsDoes ==
  ASSUME DisplayAssumption, NEW g, SwOk(g), OnWindows(g.screen)
  PROVE  LET h == Sw!WinHandleEvents(g)
         IN  /\ SwOk(h) /\ Changes(g, h, {"screen"}) /\ OnWindows(h.screen)
             /\ g.screen.painted => h = g
             /\ ~g.screen.painted => Shows(h.screen) = Buffer(g.window)
<1> DEFINE h == Sw!WndProc(g)
<1>0. /\ DOMAIN g = SwFields /\ DOMAIN g.screen = ScreenFields
      /\ g.asserted \in BOOLEAN /\ g.wild \in BOOLEAN
      /\ g.screen.x = 0 /\ g.screen.y = 0 /\ g.screen.stride = Width
  BY DEF SwOk, ScreenOk
<1>1. Changes(g, h, {"screen"})
  BY DEF Changes, Sw!WndProc
<1>2. h.screen = [[g.screen EXCEPT !.mem = g.window.mem] EXCEPT !.painted = TRUE]
  BY <1>0 DEF Sw!WndProc, SwFields
<1> HIDE DEF h
<1>3. /\ Changes(g.screen, h.screen, {"mem", "painted"}) /\ h.screen.painted = TRUE
      /\ h.screen.mem = g.window.mem
  BY <1>0, <1>2 DEF Changes, ScreenFields
<1>4. Changes(g, h, {"screen", "asserted", "wild"}) /\ h.asserted = g.asserted /\ h.wild = g.wild
  BY <1>0, <1>1 DEF Changes, SwFields
<1>5. SwOk(h) /\ (OnWindows(h.screen) <=> OnWindows(g.screen))
  BY <1>0, <1>3, <1>4, ScreenDoes
<1>6. Shows(h.screen) = Buffer(g.window)
  <2>1. h.screen.x = 0 /\ h.screen.y = 0 /\ h.screen.stride = Width
    BY <1>0, <1>3 DEF Changes, ScreenFields
  <2>2. ASSUME NEW p \in Places PROVE Shows(h.screen)[p] = Buffer(g.window)[p]
    <3>1. p[1] \in Int /\ p[2] \in Int /\ Width \in Int
      BY SizeAssumption DEF Places
    <3>2. (0 + p[2]) * Width + 0 + p[1] = p[2] * Width + p[1]
      <4>1. 0 + p[2] = p[2] /\ p[2] * Width \in Int
        BY <3>1
      <4> QED  BY <3>1, <4>1
    <3> QED  BY <1>3, <2>1, <3>2 DEF Shows, Buffer
  <2> QED  BY <2>2 DEF Shows, Buffer
<1>7. Sw!WinHandleEvents(g) = IF g.screen.painted THEN g ELSE h
  BY DEF Sw!WinHandleEvents, h
<1>8. Changes(g, g, {"screen"})
  BY DEF Changes
<1> QED  BY <1>1, <1>5, <1>6, <1>7, <1>8

-----------------------------------------------------------------------------
(* Loading.                                                                *)

\* A remainder is small, and the number itself when that is.
LEMMA Remainder ==
  ASSUME NEW n \in Nat, NEW m \in Nat, m > 0
  PROVE  n % m \in 0..(m - 1) /\ n % m <= n /\ (n < m => n % m = n)
<1>1. n % m \in 0..(m - 1) /\ n = m * (n \div m) + (n % m)
  OBVIOUS
<1>2. n \div m \in Nat
  OBVIOUS
<1>3. \A i, j \in Nat : i * j \in Nat
  OBVIOUS
<1>4. m * (n \div m) \in Nat
  BY <1>2, <1>3
<1>5. n % m <= n
  BY <1>1, <1>4
<1>6. n < m => n \div m = 0
  OBVIOUS
<1>7. n < m => n % m = n
  <2>1. m * 0 = 0
    OBVIOUS
  <2> QED  BY <1>1, <1>6, <2>1
<1> QED  BY <1>1, <1>5, <1>7

\* There are numbers of 16 bits.
LEMMA Sixteen == TwoTo16 \in Nat /\ TwoTo16 > 0
<1>1. \A k, l \in Nat : k * l \in Nat
  OBVIOUS
<1>2. 256 \in Nat
  OBVIOUS
<1>3. 256 * 256 \in Nat
  BY ONLY <1>1, <1>2
<1>4. 256 * 256 # 0
  OBVIOUS
<1> QED  BY ONLY <1>3, <1>4 DEF TwoTo16

\* Of the software renderer only the textures and what was asserted may change.
LEMMA TexturesDo ==
  ASSUME NEW g, SwOk(g), NEW h, Changes(g, h, {"textures", "asserted"}), h.asserted \in BOOLEAN
  PROVE  SwOk(h)
BY DEF SwOk, Changes, SwFields

\* gilCreateTexture touches the textures alone.
LEMMA CreateTextureDoes ==
  ASSUME NEW g, SwOk(g)
  PROVE  SwOk(Sw!GilCreateTexture(g)) /\ Changes(g, Sw!GilCreateTexture(g), {"textures", "asserted"})
<1> DEFINE h == Sw!GilCreateTexture(g)
<1>1. g.asserted \in BOOLEAN /\ DOMAIN g = SwFields
  BY DEF SwOk
<1>2. Changes(g, h, {"textures", "asserted"}) /\ h.asserted \in BOOLEAN
  BY <1>1 DEF Sw!GilCreateTexture, Sw!Asserted, Changes, SwFields
<1> HIDE DEF h
<1> QED  BY <1>2, TexturesDo DEF h

\* So does gilTexPixels.
LEMMA TexPixelsDoes ==
  ASSUME NEW g, SwOk(g), NEW t, NEW w, NEW h, NEW format, NEW data, NEW aligned
  PROVE  LET k == Sw!GilTexPixels(g, t, w, h, format, data, aligned)
         IN  SwOk(k) /\ Changes(g, k, {"textures", "asserted"})
<1> DEFINE k == Sw!GilTexPixels(g, t, w, h, format, data, aligned)
           x == [valid |-> TRUE, width |-> w, height |-> h, format |-> format,
                 data |-> data, aligned |-> aligned]
<1>1. g.asserted \in BOOLEAN /\ DOMAIN g = SwFields
  BY DEF SwOk
<1>2. k = IF Sw!IsTexture(g, t) THEN [g EXCEPT !.textures[t] = x] ELSE Sw!Asserted(g)
  BY DEF Sw!GilTexPixels
<1> HIDE DEF k, x
<1>3. Changes(g, k, {"textures", "asserted"}) /\ k.asserted \in BOOLEAN
  BY <1>1, <1>2 DEF Sw!Asserted, Changes, SwFields
<1>4. SwOk(k)
  BY <1>3, TexturesDo
<1> QED  BY <1>3, <1>4 DEF k

\* A bitmap has a slot, and an image with a size.
LEMMA ImageTypes ==
  ASSUME DisplayAssumption, NEW id \in Bitmaps
  PROVE  /\ id \in Slots /\ Images[id] \in Image
         /\ Images[id].width \in Nat /\ Images[id].height \in Nat
         /\ Images[id].pixels \in Seq(Colours)
         /\ Images[id].width % TwoTo16 \in 0..(TwoTo16 - 1)
         /\ Images[id].height % TwoTo16 \in 0..(TwoTo16 - 1)
<1>1. id \in Slots /\ Images[id] \in Image
  BY DEF DisplayAssumption, Bitmaps, Slots
<1>2. /\ Images[id].width \in Nat /\ Images[id].height \in Nat
      /\ Images[id].pixels \in Seq(Colours)
  BY <1>1 DEF Image
<1> QED  BY <1>1, <1>2, Sixteen, Remainder

\* The size that its slot has are numbers.
LEMMA ImageSizes ==
  ASSUME DisplayAssumption, NEW id \in Bitmaps
  PROVE  Images[id].width % TwoTo16 \in Nat /\ Images[id].height % TwoTo16 \in Nat
<1>1. \A m \in Nat : \A k \in 0..(m - 1) : k \in Nat
  OBVIOUS
<1> QED  BY <1>1, ImageTypes, Sixteen

\* The slot of a bitmap after it is loaded has the size of its image.
LEMMA SizedIs ==
  ASSUME DisplayAssumption, NEW id \in Bitmaps, NEW limit \in Nat, NEW slot \in Texture(limit),
         NEW t \in 0..limit
  PROVE  LET s == Sized(slot, Images[id])
         IN  /\ s \in Texture(limit) /\ s.handle = slot.handle
             /\ s.width = Images[id].width % TwoTo16 /\ s.height = Images[id].height % TwoTo16
             /\ [s EXCEPT !.handle = t] \in Texture(limit) /\ [s EXCEPT !.handle = t].handle = t
             /\ [s EXCEPT !.handle = t].width = s.width /\ [s EXCEPT !.handle = t].height = s.height
<1> DEFINE a == Images[id].width % TwoTo16
           b == Images[id].height % TwoTo16
           M == 0..(TwoTo16 - 1)
<1>1. a \in M /\ b \in M
  BY ImageTypes
<1>2. Sized(slot, Images[id]) = [[slot EXCEPT !.width = a] EXCEPT !.height = b]
  BY DEF Sized
<1>3. Texture(limit) = [handle : 0..limit, width : M, height : M]
  BY DEF Texture
<1> HIDE DEF a, b, M
<1>4. [[slot EXCEPT !.width = a] EXCEPT !.height = b] = [handle |-> slot.handle, width |-> a, height |-> b]
  <2>1. slot \in [handle : 0..limit, width : M, height : M]
    BY <1>3
  <2>2. slot = [handle |-> slot.handle, width |-> slot.width, height |-> slot.height]
    BY <2>1
  <2> DEFINE i == slot.handle
             j == slot.width
             k == slot.height
  <2> HIDE DEF i, j, k
  <2>3. slot = [handle |-> i, width |-> j, height |-> k]
    BY <2>2 DEF i, j, k
  <2>4. [[slot EXCEPT !.width = a] EXCEPT !.height = b] = [handle |-> i, width |-> a, height |-> b]
    <3>1. [slot EXCEPT !.width = a] = [handle |-> i, width |-> a, height |-> k]
      BY <2>3
    <3> DEFINE r == [slot EXCEPT !.width = a]
    <3> HIDE DEF r
    <3>2. r = [handle |-> i, width |-> a, height |-> k]
      BY <3>1 DEF r
    <3>3. [r EXCEPT !.height = b] = [handle |-> i, width |-> a, height |-> b]
      BY <3>2
    <3> QED  BY <3>3 DEF r
  <2> QED  BY <2>4 DEF i
<1>5. Sized(slot, Images[id]) = [handle |-> slot.handle, width |-> a, height |-> b]
  BY <1>2, <1>4
<1>6. slot.handle \in 0..limit
  BY <1>3
<1> DEFINE s == Sized(slot, Images[id])
<1>7. s \in Texture(limit) /\ s.handle = slot.handle /\ s.width = a /\ s.height = b
  BY <1>1, <1>3, <1>5, <1>6
<1>8. [s EXCEPT !.handle = t] = [handle |-> t, width |-> a, height |-> b]
  BY <1>5
<1>9. [s EXCEPT !.handle = t] \in Texture(limit)
  BY <1>1, <1>3, <1>8
<1> HIDE DEF s
<1> QED  BY <1>7, <1>8, <1>9 DEF s, a, b

\* A loaded slot has a texture, or can have none, or there is no room; loading a
\* bitmap that was tried before changes no texture and no handle.
LEMMA LoadSwDoes ==
  ASSUME DisplayAssumption, CacheInv, SwOk(sw), CachesOk, NEW id \in Bitmaps
  PROVE  /\ SwOk(LoadSw(id).gil) /\ Changes(sw, LoadSw(id).gil, {"textures", "asserted"})
         /\ LoadSw(id).slot \in Texture(GilMaxTextures)
         /\ LoadSw(id).slot.width = Images[id].width % TwoTo16
         /\ LoadSw(id).slot.height = Images[id].height % TwoTo16
         /\ Len(LoadSw(id).gil.textures) \in 0..GilMaxTextures
         /\ Len(LoadSw(id).gil.textures) >= Len(sw.textures)
         /\ \/ LoadSw(id).slot.handle # 0
            \/ ~Loadable(Images[id])
            \/ Len(LoadSw(id).gil.textures) >= GilMaxTextures
         /\ LoadSw(id).slot.handle # 0 => Loadable(Images[id])
         /\ Tried(id) => /\ LoadSw(id).gil.textures = sw.textures
                         /\ LoadSw(id).slot.handle = swCache[id].handle
<1> DEFINE l == LoadSw(id)
           s == Sized(swCache[id], Images[id])
           t == Sw!NewTexture(sw)
           n == Len(sw.textures)
           w == Images[id].width % TwoTo16
           h == Images[id].height % TwoTo16
<1>1. /\ id \in Slots /\ GilMaxTextures \in Nat /\ swCache[id] \in Texture(GilMaxTextures)
      /\ n \in 0..GilMaxTextures /\ sw.textures \in Seq(SwTextures) /\ DOMAIN sw = SwFields
      /\ sw.asserted \in BOOLEAN
  BY ImageTypes DEF CachesOk, DisplayTypeOK, DisplayAssumption, CacheInv, Shaped, SwOk
<1>2. Changes(sw, sw, {"textures", "asserted"})
  BY DEF Changes
<1>3. t \in 0..GilMaxTextures
  BY <1>1 DEF Sw!NewTexture
<1>4. /\ s \in Texture(GilMaxTextures) /\ s.handle = swCache[id].handle
      /\ s.width = w /\ s.height = h
      /\ [s EXCEPT !.handle = t] \in Texture(GilMaxTextures) /\ [s EXCEPT !.handle = t].handle = t
      /\ [s EXCEPT !.handle = t].width = w /\ [s EXCEPT !.handle = t].height = h
  <2> HIDE DEF t
  <2> QED  BY <1>1, <1>3, SizedIs
<1>5. CASE swCache[id].handle # 0
  <2>1. l.gil = sw /\ l.slot = swCache[id]
    BY <1>5 DEF LoadSw
  <2>2. swCache[id].width = w /\ swCache[id].height = h /\ Loadable(Images[id])
    BY <1>5 DEF CachesOk, Sizes
  <2> HIDE DEF l, w, h
  <2> QED  BY <1>1, <1>2, <1>5, <2>1, <2>2 DEF l, w, h
<1>6. CASE swCache[id].handle = 0 /\ ~Loadable(Images[id])
  <2>1. l.gil = sw /\ l.slot = s
    BY <1>6 DEF LoadSw
  <2> HIDE DEF l, w, h, s
  <2> QED  BY <1>1, <1>2, <1>4, <1>6, <2>1 DEF l, w, h
<1>7. CASE swCache[id].handle = 0 /\ Loadable(Images[id])
  <2> DEFINE e == Sw!GilCreateTexture(sw)
  <2>1. /\ l.gil = Sw!GilTexPixels(e, t, w, h, ConvertFormat(Images[id]), Images[id].pixels,
                        Images[id].aligned)
        /\ l.slot = [s EXCEPT !.handle = t]
    <3> HIDE DEF s, t
    <3> QED  BY <1>4, <1>7 DEF LoadSw, s, t
  <2>2. SwOk(e) /\ Changes(sw, e, {"textures", "asserted"})
    BY CreateTextureDoes
  <2> HIDE DEF l, w, h, s, e, t
  <2>3. SwOk(l.gil) /\ Changes(e, l.gil, {"textures", "asserted"})
    BY <2>1, <2>2, TexPixelsDoes
  <2>4. Changes(sw, l.gil, {"textures", "asserted"})
    BY <2>2, <2>3 DEF Changes
  <2>5. CASE n < GilMaxTextures
    <3>1. t = n + 1 /\ t # 0
      BY <1>1, <2>5 DEF Sw!NewTexture, t
    <3>2. Len(l.gil.textures) = t
      BY <1>1, <2>1, <2>5, <3>1, Filled DEF SwFields, e, w, h
    <3>3. Len(l.gil.textures) \in 0..GilMaxTextures /\ Len(l.gil.textures) >= n
      BY <1>1, <2>5, <3>1, <3>2
    <3>4. l.slot.handle # 0
      BY <1>4, <2>1, <3>1
    <3>5. ~Tried(id)
      BY <1>1, <1>7, <2>5 DEF Tried
    <3> QED  BY <1>4, <1>7, <2>1, <2>3, <2>4, <3>3, <3>4, <3>5 DEF l, w, h
  <2>6. CASE ~(n < GilMaxTextures)
    <3>1. t = 0
      BY <2>6 DEF Sw!NewTexture, t
    <3>2. e = Sw!Asserted(sw)
      BY <2>6 DEF Sw!GilCreateTexture, e
    <3>3. l.gil = Sw!Asserted(e)
      BY <2>1, <3>1 DEF Sw!GilTexPixels, Sw!IsTexture
    <3>4. e.textures = sw.textures /\ l.gil.textures = e.textures
      BY <1>1, <2>2, <3>2, <3>3 DEF Sw!Asserted, SwFields, SwOk
    <3>5. l.slot.handle = swCache[id].handle
      BY <1>4, <1>7, <2>1, <3>1
    <3>6. Len(l.gil.textures) = n /\ n >= GilMaxTextures
      BY <1>1, <2>6, <3>4
    <3>7. Len(l.gil.textures) \in 0..GilMaxTextures /\ Len(l.gil.textures) >= n
      BY <1>1, <3>6
    <3>8. /\ l.slot \in Texture(GilMaxTextures) /\ l.slot.width = w /\ l.slot.height = h
          /\ l.slot.handle # 0 => Loadable(Images[id])
      BY <1>4, <1>7, <2>1
    <3>9. l.gil.textures = sw.textures
      BY <3>4
    <3> QED  BY <2>3, <2>4, <3>5, <3>6, <3>7, <3>8, <3>9 DEF l, w, h
  <2> QED  BY <2>5, <2>6
<1> QED  BY <1>5, <1>6, <1>7

\* The same for the dummy.
LEMMA DmKeeps ==
  ASSUME NEW d, DmOk(d), NEW e, DOMAIN e = DOMAIN d, e.textures = d.textures
  PROVE  DmOk(e)
BY DEF DmOk

\* Loading keeps the form of the dummy.
LEMMA LoadDmDoes ==
  ASSUME DisplayAssumption, DmOk(dm), dmCache \in [Slots -> Texture(DummyMaxTextures)],
         NEW id \in Bitmaps
  PROVE  DmOk(LoadDm(id).gil) /\ LoadDm(id).slot \in Texture(DummyMaxTextures)
<1> DEFINE l == LoadDm(id)
           s == Sized(dmCache[id], Images[id])
           t == Dm!DummyNewTexture(dm)
           n == Len(dm.textures)
           e == Dm!DummyCreateTexture(dm)
           x == Images[id].pixels
<1>1. /\ id \in Slots /\ DummyMaxTextures \in Nat /\ dmCache[id] \in Texture(DummyMaxTextures)
      /\ n \in 0..DummyMaxTextures /\ dm.textures \in Seq(DmTextures) /\ DOMAIN dm = DmFields
  BY ImageTypes DEF DisplayAssumption, DmOk
<1>2. t \in 0..DummyMaxTextures
  BY <1>1 DEF Dm!DummyNewTexture
<1>3. s \in Texture(DummyMaxTextures) /\ [s EXCEPT !.handle = t] \in Texture(DummyMaxTextures)
  <2> HIDE DEF t
  <2> QED  BY <1>1, <1>2, SizedIs
<1>4. x \in DmTextures /\ Dm!NoCrc \in DmTextures
  BY DEF DmTextures
<1>5. DmOk(e)
  <2>1. CASE n < DummyMaxTextures
    <3>1. e = [dm EXCEPT !.textures = Append(dm.textures, Dm!NoCrc)]
      BY <2>1 DEF Dm!DummyCreateTexture
    <3>2. DOMAIN e = DmFields /\ e.textures = Append(dm.textures, Dm!NoCrc)
      BY <1>1, <3>1 DEF DmFields
    <3>3. e.textures \in Seq(DmTextures) /\ Len(e.textures) = n + 1
      <4> HIDE DEF e
      <4> QED  BY <1>1, <1>4, <3>2
    <3> QED  BY <1>1, <2>1, <3>2, <3>3 DEF DmOk
  <2>2. CASE ~(n < DummyMaxTextures)
    BY <2>2 DEF Dm!DummyCreateTexture
  <2> QED  BY <2>1, <2>2
<1>6. DmOk(Dm!DummyTexPixels(e, t, x))
  <2>0. DOMAIN e = DmFields /\ e.textures \in Seq(DmTextures) /\ Len(e.textures) \in 0..DummyMaxTextures
    BY <1>5 DEF DmOk
  <2> DEFINE k == Dm!DummyTexPixels(e, t, x)
  <2>1. CASE t \in 1..Len(e.textures)
    <3> HIDE DEF e, t, x
    <3>1. k = [e EXCEPT !.textures[t] = x]
      BY <2>1 DEF Dm!DummyTexPixels
    <3>2. DOMAIN k = DmFields /\ k.textures = [e.textures EXCEPT ![t] = x]
      BY <2>0, <3>1 DEF DmFields
    <3>3. k.textures \in Seq(DmTextures) /\ Len(k.textures) = Len(e.textures)
      <4> HIDE DEF k
      <4> QED  BY <1>4, <2>0, <2>1, <3>2
    <3> QED  BY <2>0, <3>2, <3>3 DEF DmOk
  <2>2. CASE ~(t \in 1..Len(e.textures))
    <3> HIDE DEF e, t, x
    <3>1. k = Dm!Broken(e)
      BY <2>2 DEF Dm!DummyTexPixels
    <3>2. DOMAIN k = DOMAIN e /\ k.textures = e.textures
      BY <2>0, <3>1 DEF Dm!Broken, DmFields
    <3> QED  BY <1>5, <3>2, DmKeeps
  <2> QED  BY <2>1, <2>2
<1>7. \/ l.gil = dm /\ l.slot = dmCache[id]
      \/ l.gil = dm /\ l.slot = s
      \/ l.gil = Dm!DummyTexPixels(e, t, x) /\ l.slot = [s EXCEPT !.handle = t]
  <2>1. s \in Texture(DummyMaxTextures) => [s EXCEPT !.handle = t].handle = t
    BY DEF Texture
  <2> HIDE DEF t, s
  <2> QED  BY <1>3, <2>1 DEF LoadDm, t, s
<1> HIDE DEF l, s, t, e, x
<1> QED  BY <1>1, <1>3, <1>6, <1>7 DEF l

-----------------------------------------------------------------------------
(* Fields and their images.                                                *)

\* A field is at the exact place of its pixel.
LEMMA FieldExactly ==
  ASSUME DisplayAssumption, NEW f \in DOMAIN Fields
  PROVE  FieldArea[f].x = X[f] * 16 /\ FieldArea[f].y = Y[f] * 16
<1>1. /\ Fields[f].panel.x \in Int /\ Fields[f].panel.y \in Int
      /\ Fields[f].area.x \in Int /\ Fields[f].area.y \in Int
  BY DEF DisplayAssumption
<1>2. X[f] = Fields[f].panel.x + Fields[f].area.x /\ Y[f] = Fields[f].panel.y + Fields[f].area.y
  BY DEF X, Y
<1>3. WindowArea.x = 0 /\ WindowArea.y = 0
  BY DEF WindowArea, AreaOfCorners, SetBottom, SetBottomFP, SetRight, SetRightFP,
         FromIntegerToFP, One
<1>4. FrameArea.x = 0 /\ FrameArea.y = 0 /\ DOMAIN FrameArea = {"x", "y", "width", "height"}
  BY DEF FrameArea, SetHeight, SetHeightFP, SetWidth, SetWidthFP, EmptyArea
<1> DEFINE frame == MoveByFP(FrameArea, WindowArea.x, WindowArea.y)
           panel == MoveByFP(AreaOf(Fields[f].panel), frame.x, frame.y)
           area  == MoveByFP(AreaOf(Fields[f].area), panel.x, panel.y)
<1>5. frame.x = 0 /\ frame.y = 0
  BY <1>3, <1>4 DEF MoveByFP
<1>6. FieldArea[f] = area
  BY DEF FieldArea
<1> HIDE DEF frame
<1>7. panel.x = Fields[f].panel.x * One + frame.x /\ panel.y = Fields[f].panel.y * One + frame.y
  BY DEF MoveByFP, AreaOf, FromIntegerToFP
<1> HIDE DEF panel
<1>8. area.x = Fields[f].area.x * One + panel.x /\ area.y = Fields[f].area.y * One + panel.y
  BY DEF MoveByFP, AreaOf, FromIntegerToFP
<1> HIDE DEF area
<1>9. \A i, j \in Int : i * One + (j * One + 0) = (j + i) * 16
  BY DEF One
<1>10. PICK i \in Int, j \in Int, k \in Int, l \in Int :
          /\ Fields[f].area.x = i /\ Fields[f].panel.x = j
          /\ Fields[f].area.y = k /\ Fields[f].panel.y = l
  BY <1>1
<1>11. area.x = i * One + (j * One + 0) /\ area.y = k * One + (l * One + 0)
  BY <1>5, <1>7, <1>8, <1>10
<1>12. area.x = (j + i) * 16 /\ area.y = (l + k) * 16
  BY <1>9, <1>11
<1> QED  BY <1>2, <1>6, <1>10, <1>12

\* The pixel of a field is the sum of its offset and that of its panel.
LEMMA FieldPlace ==
  ASSUME DisplayAssumption, NEW f \in DOMAIN Fields
  PROVE  /\ X[f] \in Int /\ Y[f] \in Int
         /\ FieldArea[f].x \div 16 = X[f] /\ FieldArea[f].y \div 16 = Y[f]
         /\ Fields[f].bitmap \in Slots <=> Fields[f].bitmap \in Bitmaps
<1>1. X[f] \in Int /\ Y[f] \in Int
  <2>1. \A i, j \in Int : i + j \in Int
    OBVIOUS
  <2> QED  BY <2>1 DEF DisplayAssumption, X, Y
<1>2. FieldArea[f].x \div 16 = X[f] /\ FieldArea[f].y \div 16 = Y[f]
  <2>1. \A i \in Int : (i * 16) \div 16 = i
    OBVIOUS
  <2> QED  BY <1>1, <2>1, FieldExactly
<1>3. Fields[f].bitmap \in Slots <=> Fields[f].bitmap \in Bitmaps
  BY DEF DisplayAssumption, Bitmaps, Slots
<1> QED  BY <1>1, <1>2, <1>3

\* An image that fits is not cut by the sixteen bits of its slot.
LEMMA FittingImage ==
  ASSUME DisplayAssumption, NEW f \in DOMAIN Fields, Fields[f].bitmap \in Bitmaps, Fits(f)
  PROVE  /\ ImageOf(f).width \in Nat /\ ImageOf(f).height \in Nat
         /\ ImageOf(f).width % TwoTo16 = ImageOf(f).width
         /\ ImageOf(f).height % TwoTo16 = ImageOf(f).height
         /\ Within(X[f], Y[f], ImageOf(f).width, ImageOf(f).height)
<1>1. ImageOf(f).width \in Nat /\ ImageOf(f).height \in Nat
  BY ImageTypes DEF ImageOf
<1>2. /\ X[f] >= 0 /\ X[f] + ImageOf(f).width <= Width
      /\ Y[f] >= 0 /\ Y[f] + ImageOf(f).height <= Height
  BY DEF Fits
<1>3. X[f] \in Int /\ Y[f] \in Int
  BY FieldPlace
<1>4. /\ Width \in Nat /\ Width < TwoTo16 /\ Height \in Nat /\ Height < TwoTo16
      /\ TwoTo16 \in Nat /\ TwoTo16 > 0
  BY SizeAssumption, Sixteen
<1> DEFINE w == ImageOf(f).width
           h == ImageOf(f).height
           a == X[f]
           b == Y[f]
           t == TwoTo16
<1>5. w < t /\ h < t
  <2> HIDE DEF w, h, a, b, t
  <2>1. /\ w \in Nat /\ h \in Nat /\ a \in Int /\ b \in Int /\ t \in Nat
        /\ a >= 0 /\ a + w <= Width /\ b >= 0 /\ b + h <= Height
        /\ Width \in Nat /\ Width < t /\ Height \in Nat /\ Height < t
    BY <1>1, <1>2, <1>3, <1>4 DEF w, h, a, b, t
  <2> QED  BY ONLY <2>1
<1>6. w % t = w /\ h % t = h
  <2> HIDE DEF w, h, t
  <2>1. w \in Nat /\ h \in Nat /\ t \in Nat /\ t > 0
    BY <1>1, <1>4 DEF w, h, t
  <2> QED  BY <1>5, <2>1, Remainder
<1> QED  BY <1>1, <1>2, <1>6 DEF Within

\* The places a field covers are those inside its rectangle.
LEMMA CoversInside ==
  ASSUME DisplayAssumption, NEW f \in DOMAIN Fields,
         ImageOf(f).width \in Nat, ImageOf(f).height \in Nat, NEW p \in Places
  PROVE  Covers(f, p[1], p[2]) <=>
           Inside(p, X[f], Y[f], ImageOf(f).width, ImageOf(f).height)
<1>1. X[f] \in Int /\ Y[f] \in Int
  BY FieldPlace
<1>2. PICK px \in Nat, py \in Nat : p[1] = px /\ p[2] = py
  BY SizeAssumption DEF Places
<1>3. PICK w \in Nat, h \in Nat : ImageOf(f).width = w /\ ImageOf(f).height = h
  OBVIOUS
<1>4. PICK a \in Int, b \in Int : X[f] = a /\ Y[f] = b
  BY <1>1
<1>5. Covers(f, p[1], p[2]) <=> a <= px /\ px < a + w /\ b <= py /\ py < b + h
  BY <1>2, <1>3, <1>4 DEF Covers
<1>6. Inside(p, X[f], Y[f], ImageOf(f).width, ImageOf(f).height) <=>
        px - a \in 0..(w - 1) /\ py - b \in 0..(h - 1)
  BY <1>2, <1>3, <1>4 DEF Inside
<1>7. px - a \in 0..(w - 1) <=> a <= px /\ px < a + w
  OBVIOUS
<1>8. py - b \in 0..(h - 1) <=> b <= py /\ py < b + h
  OBVIOUS
<1> QED  BY <1>5, <1>6, <1>7, <1>8

\* With the texture of a usable field bound, what is drawn is its image.
LEMMA UsableBound ==
  ASSUME DisplayAssumption, ImagesAssumption, CacheInv, CachesOk,
         NEW f \in DOMAIN Fields, Usable(f), NEW g, SwOk(g),
         g.textures = sw.textures, g.window = sw.window, g.contexts[1].surface = 1,
         g.contexts[1].texture = swCache[Fields[f].bitmap].handle
  PROVE  /\ Bound(g, ImageOf(f).width, ImageOf(f).height)
         /\ \A p \in Places : BoundPixel(g, p, X[f], Y[f], ImageOf(f).width) = PixelOf(f, p[1], p[2])
<1> DEFINE id == Fields[f].bitmap
           t  == g.contexts[1].texture
<1>1. id \in Slots /\ id \in Bitmaps /\ swCache[id].handle # 0 /\ Fits(f)
      /\ sw.window.valid /\ ConvertFormat(ImageOf(f)) = sw.window.format
  BY FieldPlace DEF Usable, Textured
<1>2. t \in 1..Len(g.textures) /\ g.textures[t] = TextureOf(id)
  BY <1>1 DEF CacheInv, Kept
<1>3. Loadable(Images[id])
  BY <1>1 DEF CachesOk, Sizes
<1>4. Len(Images[id].pixels) = Images[id].width * Images[id].height
  BY <1>1, <1>3 DEF ImagesAssumption
<1>5. /\ g.textures[t].valid /\ g.textures[t].format = g.window.format
      /\ g.textures[t].width = ImageOf(f).width % TwoTo16
      /\ g.textures[t].height = ImageOf(f).height % TwoTo16
      /\ g.textures[t].data = ImageOf(f).pixels
  BY <1>1, <1>2 DEF TextureOf, ImageOf
<1>6. Sw!CanDraw(g, 1) /\ Sw!SameFormat(g, 1)
  BY <1>1, <1>2, <1>5, TheContext DEF Sw!CanDraw, Sw!SameFormat, Sw!IsTexture
<1>7. /\ ImageOf(f).width % TwoTo16 = ImageOf(f).width
      /\ ImageOf(f).height % TwoTo16 = ImageOf(f).height
  BY <1>1, FittingImage
<1>8. Bound(g, ImageOf(f).width, ImageOf(f).height)
  BY <1>4, <1>5, <1>6, <1>7 DEF Bound, ImageOf
<1>9. \A p \in Places : BoundPixel(g, p, X[f], Y[f], ImageOf(f).width) = PixelOf(f, p[1], p[2])
  BY <1>5 DEF BoundPixel, PixelOf
<1> QED  BY <1>8, <1>9

-----------------------------------------------------------------------------
(* What the actions do to the renderers.                                   *)

\* The cache after a bitmap was loaded.
CacheDone(cache, id) ==
  /\ cache \in [Slots -> Texture(GilMaxTextures)] /\ Sizes(cache)
  /\ Tried(id) => \A i \in Slots : cache[i].handle = swCache[i].handle

\* The cache after a bitmap was loaded.
LEMMA CacheUpdated ==
  ASSUME DisplayAssumption, CacheInv, SwOk(sw), CachesOk, NEW id \in Bitmaps
  PROVE  CacheDone([swCache EXCEPT ![id] = LoadSw(id).slot], id)
<1> DEFINE s == LoadSw(id).slot
           c == [swCache EXCEPT ![id] = s]
<1>1. /\ s \in Texture(GilMaxTextures)
      /\ s.width = Images[id].width % TwoTo16 /\ s.height = Images[id].height % TwoTo16
      /\ s.handle # 0 => Loadable(Images[id])
      /\ Tried(id) => s.handle = swCache[id].handle
  BY LoadSwDoes
<1>2. id \in Slots /\ swCache \in [Slots -> Texture(GilMaxTextures)]
  BY ImageTypes DEF CachesOk, DisplayTypeOK
<1> HIDE DEF s
<1>3. c \in [Slots -> Texture(GilMaxTextures)] /\ c[id] = s
      /\ \A i \in Slots : i # id => c[i] = swCache[i]
  BY <1>1, <1>2
<1> HIDE DEF c
<1>4. Sizes(c)
  <2> SUFFICES ASSUME NEW i \in Bitmaps, c[i].handle # 0
               PROVE  /\ Loadable(Images[i])
                      /\ c[i].width = Images[i].width % TwoTo16
                      /\ c[i].height = Images[i].height % TwoTo16
    BY DEF Sizes
  <2>1. CASE i = id
    BY <1>1, <1>3, <2>1
  <2>2. CASE i # id
    BY <1>3, <2>2, ImageTypes DEF CachesOk, Sizes
  <2> QED  BY <2>1, <2>2
<1>5. Tried(id) => \A i \in Slots : c[i].handle = swCache[i].handle
  BY <1>1, <1>3
<1> QED  BY <1>3, <1>4, <1>5 DEF CacheDone, c, s

\* Loading and binding the bitmap of a field.
LoadedBound(id) == Sw!GilBindTexture(LoadSw(id).gil, 1, LoadSw(id).slot.handle)

\* Loading and binding a bitmap that was tried before.
LEMMA LoadBindDoes ==
  ASSUME DisplayAssumption, CacheInv, SwOk(sw), CachesOk, NEW id \in Bitmaps, Tried(id)
  PROVE  /\ SwOk(LoadedBound(id)) /\ Changes(sw, LoadedBound(id), {"contexts", "asserted"})
         /\ LoadedBound(id).contexts[1].surface = sw.contexts[1].surface
         /\ swCache[id].handle # 0 => LoadedBound(id).contexts[1].texture = swCache[id].handle
<1> DEFINE l == LoadSw(id).gil
           t == LoadSw(id).slot.handle
           g == LoadedBound(id)
<1>1. /\ SwOk(l) /\ Changes(sw, l, {"textures", "asserted"}) /\ l.textures = sw.textures
      /\ t = swCache[id].handle /\ LoadSw(id).slot \in Texture(GilMaxTextures)
  BY LoadSwDoes
<1>2. t \in Nat
  BY <1>1 DEF Texture, DisplayAssumption
<1>3. g = Sw!GilBindTexture(l, 1, t)
  BY DEF LoadedBound
<1> HIDE DEF l, t, g
<1>4. /\ SwOk(g) /\ Changes(l, g, {"contexts", "asserted"})
      /\ g.contexts[1].surface = l.contexts[1].surface
      /\ Sw!IsTexture(l, t) => g.contexts[1].texture = t
  BY <1>1, <1>2, <1>3, BindDoes
<1>5. Changes(sw, l, {"asserted"})
  BY <1>1 DEF Changes
<1>6. Changes(sw, g, {"contexts", "asserted"}) /\ l.contexts = sw.contexts
  BY <1>4, <1>5 DEF Changes, SwOk, SwFields
<1>7. swCache[id].handle # 0 => Sw!IsTexture(l, t)
  <2>1. id \in Slots
    BY ImageTypes
  <2> QED  BY <1>1, <2>1 DEF CacheInv, Kept, Sw!IsTexture
<1> QED  BY <1>1, <1>4, <1>6, <1>7 DEF g

-----------------------------------------------------------------------------
(* Drawing and verifying a field.                                          *)

\* Only the textures of the dummy count.
LEMMA DummyKeeps ==
  ASSUME NEW d, DmOk(d)
  PROVE  /\ DmOk(Dm!Broken(d)) /\ DmOk(Dm!DummyClear(d))
         /\ \A t : DmOk(Dm!DummyBindTexture(d, t))
         /\ \A x, y : DmOk(Dm!DummyDrawQuad(d, x, y))
         /\ DmOk(Dm!DummyVerified(d))
<1>0. DOMAIN d = DmFields
  BY DEF DmOk
<1>1. DmOk(Dm!Broken(d))
  BY <1>0, DmKeeps DEF Dm!Broken, DmFields
<1>2. DmOk(Dm!DummyClear(d))
  BY <1>0, DmKeeps DEF Dm!DummyClear, DmFields
<1>3. ASSUME NEW t PROVE DmOk(Dm!DummyBindTexture(d, t))
  BY <1>0, DmKeeps DEF Dm!DummyBindTexture, DmFields
<1>4. ASSUME NEW x, NEW y PROVE DmOk(Dm!DummyDrawQuad(d, x, y))
  <2> DEFINE b == Append(d.blits, [x |-> x, y |-> y, crc |-> Dm!Crc(d)])
  <2>1. DmOk([d EXCEPT !.blits = b])
    <3> HIDE DEF b
    <3> QED  BY <1>0, DmKeeps DEF DmFields
  <2>2. Dm!DummyDrawQuad(d, x, y) \in {Dm!Broken(d), [d EXCEPT !.blits = b]}
    BY DEF Dm!DummyDrawQuad
  <2> HIDE DEF b
  <2> QED  BY <1>1, <2>1, <2>2
<1>5. DmOk(Dm!DummyVerified(d))
  BY <1>1 DEF Dm!DummyVerified
<1> QED  BY <1>1, <1>2, <1>3, <1>4, <1>5

\* A step that loads a bitmap that was tried before changes the handles of no slot.
Untouched ==
  /\ swCache' \in [Slots -> Texture(GilMaxTextures)] /\ Sizes(swCache')
  /\ \A i \in Slots : swCache'[i].handle = swCache[i].handle
  /\ sw'.textures = sw.textures
  /\ DmOk(dm') /\ dmCache' \in [Slots -> Texture(DummyMaxTextures)]
  /\ canvasError' \in BOOLEAN

\* A step that leaves the caches alone.
LEMMA StaysUntouched ==
  ASSUME CachesOk, swCache' = swCache, sw'.textures = sw.textures, DmOk(dm'), dmCache' = dmCache,
         canvasError' = canvasError
  PROVE  Untouched
BY DEF Untouched, CachesOk, DisplayTypeOK

\* A step that loads a bitmap that was tried before.
LEMMA FieldLoaded ==
  ASSUME DisplayAssumption, CacheInv, SwOk(sw), CachesOk, NEW id \in Bitmaps, Tried(id),
         sw'.textures = sw.textures,
         swCache' = [swCache EXCEPT ![id] = LoadSw(id).slot], DmOk(dm'),
         dmCache' = [dmCache EXCEPT ![id] = LoadDm(id).slot], UNCHANGED canvasError
  PROVE  Untouched
<1>1. CacheDone([swCache EXCEPT ![id] = LoadSw(id).slot], id)
  BY CacheUpdated
<1>2. /\ swCache' \in [Slots -> Texture(GilMaxTextures)] /\ Sizes(swCache')
      /\ \A i \in Slots : swCache'[i].handle = swCache[i].handle
  <2> DEFINE c == [swCache EXCEPT ![id] = LoadSw(id).slot]
  <2> HIDE DEF c
  <2>1. CacheDone(c, id) /\ swCache' = c
    BY <1>1 DEF c
  <2> QED  BY <2>1 DEF CacheDone
<1>3. /\ LoadDm(id).slot \in Texture(DummyMaxTextures) /\ id \in Slots
      /\ dmCache \in [Slots -> Texture(DummyMaxTextures)]
  BY LoadDmDoes, ImageTypes DEF CachesOk, DisplayTypeOK
<1>4. dmCache' \in [Slots -> Texture(DummyMaxTextures)]
  BY <1>3
<1>5. canvasError' \in BOOLEAN
  BY DEF CachesOk, DisplayTypeOK
<1> QED  BY <1>2, <1>4, <1>5 DEF Untouched

\* Drawing a field: nothing is written outside when its image lies in the window,
\* and a usable field is then in the double buffer at its place, and nothing else.
LEMMA DrawFieldDoes ==
  ASSUME DisplayAssumption, ImagesAssumption, CacheInv, SwOk(sw), CachesOk,
         NEW f \in DOMAIN Fields, Fields[f].bitmap \in Bitmaps => Tried(Fields[f].bitmap),
         DrawField(f)
  PROVE  /\ SwOk(sw') /\ Changes(sw, sw', {"contexts", "window", "asserted", "wild"})
         /\ sw.window.valid => Changes(sw.window, sw'.window, {"mem"})
         /\ ~sw.window.valid => sw'.window = sw.window
         /\ sw'.contexts[1].surface = sw.contexts[1].surface
         /\ Fits(f) => sw'.wild = sw.wild
         /\ Untouched
         /\ Usable(f) /\ sw.contexts[1].surface = 1 => \A p \in Places :
              Buffer(sw'.window)[p] =
                IF Covers(f, p[1], p[2]) THEN PixelOf(f, p[1], p[2]) ELSE Buffer(sw.window)[p]
<1> DEFINE id == Fields[f].bitmap
           a  == FieldArea[f]
           g  == LoadedBound(id)
           w  == Images[id].width % TwoTo16
           h  == Images[id].height % TwoTo16
           d  == LoadDm(id)
<1>0. /\ X[f] \in Int /\ Y[f] \in Int /\ Pixel(a.x, X[f]) /\ Pixel(a.y, Y[f])
      /\ DOMAIN sw = SwFields
  BY FieldPlace DEF SwOk, Pixel
<1>1. CASE id \in Bitmaps
  <2>0. id \in Slots /\ Tried(id)
    BY <1>1, ImageTypes
  <2>1. /\ sw' = Sw!GilDrawQuad(g, 1, a.x, a.y, 0, 0, LastFP(LoadSw(id).slot.width),
                                LastFP(LoadSw(id).slot.height))
        /\ dm' = Dm!DummyDrawQuad(Dm!DummyBindTexture(d.gil, d.slot.handle), a.x, a.y)
        /\ swCache' = [swCache EXCEPT ![id] = LoadSw(id).slot]
        /\ dmCache' = [dmCache EXCEPT ![id] = LoadDm(id).slot]
        /\ UNCHANGED canvasError
    BY <2>0 DEF DrawField, LoadedBound
  <2>2. LoadSw(id).slot.width = w /\ LoadSw(id).slot.height = h
    BY <1>1, LoadSwDoes
  <2>3. w \in Nat /\ h \in Nat
    BY <1>1, ImageSizes
  <2>4. /\ SwOk(g) /\ Changes(sw, g, {"contexts", "asserted"})
        /\ g.contexts[1].surface = sw.contexts[1].surface
        /\ swCache[id].handle # 0 => g.contexts[1].texture = swCache[id].handle
    BY <1>1, <2>0, LoadBindDoes
  <2>5. DmOk(dm')
    <3>1. DmOk(d.gil)
      BY <1>1, LoadDmDoes DEF CachesOk, DisplayTypeOK
    <3> HIDE DEF d, a
    <3>2. DmOk(Dm!DummyBindTexture(d.gil, d.slot.handle))
      BY <3>1, DummyKeeps
    <3> QED  BY <2>1, <3>2, DummyKeeps
  <2>6. Fits(f) => Within(X[f], Y[f], w, h)
    <3>1. Fits(f) => /\ Within(X[f], Y[f], ImageOf(f).width, ImageOf(f).height)
                     /\ w = ImageOf(f).width /\ h = ImageOf(f).height
      BY <1>1, FittingImage DEF ImageOf
    <3> QED  BY <3>1
  <2> DEFINE k == Sw!GilDrawQuad(g, 1, a.x, a.y, 0, 0, LastFP(w), LastFP(h))
  <2>7. sw' = k
    <3> HIDE DEF g, a, w, h
    <3> QED  BY <2>1, <2>2
  <2> HIDE DEF g, a, w, h, d, k
  <2>8. /\ SwOk(k) /\ Changes(g, k, {"window", "asserted", "wild"})
        /\ g.window.valid => Changes(g.window, k.window, {"mem"})
        /\ ~g.window.valid => k.window = g.window
        /\ Within(X[f], Y[f], w, h) => k.wild = g.wild
    BY <1>0, <2>3, <2>4, DrawDoes, SMTT(30) DEF k
  <2>9. /\ g.window = sw.window /\ g.textures = sw.textures /\ g.wild = sw.wild
        /\ k.contexts = g.contexts /\ k.textures = g.textures
    BY <1>0, <2>4, <2>8 DEF Changes, SwFields
  <2>10. Changes(sw, k, {"contexts", "window", "asserted", "wild"})
    BY <2>4, <2>8 DEF Changes
  <2>11. Untouched
    <3>1. sw'.textures = sw.textures
      BY <2>7, <2>9
    <3> QED  BY <1>1, <2>0, <2>1, <2>5, <3>1, FieldLoaded DEF d
  <2>12. ASSUME Usable(f), sw.contexts[1].surface = 1, NEW p \in Places
         PROVE  Buffer(k.window)[p] =
                IF Covers(f, p[1], p[2]) THEN PixelOf(f, p[1], p[2]) ELSE Buffer(sw.window)[p]
    <3>1. swCache[id].handle # 0 /\ Fits(f)
      BY <2>12 DEF Usable, Textured
    <3>2. /\ w = ImageOf(f).width /\ h = ImageOf(f).height
          /\ ImageOf(f).width \in Nat /\ ImageOf(f).height \in Nat
      BY <1>1, <3>1, FittingImage DEF ImageOf, w, h
    <3>3. Bound(g, w, h) /\ BoundPixel(g, p, X[f], Y[f], w) = PixelOf(f, p[1], p[2])
      BY <2>4, <2>9, <2>12, <3>1, <3>2, UsableBound
    <3>4. Within(X[f], Y[f], w, h)
      BY <2>6, <3>1
    <3>5. Buffer(k.window)[p] =
           IF Inside(p, X[f], Y[f], w, h) THEN BoundPixel(g, p, X[f], Y[f], w) ELSE Buffer(g.window)[p]
      BY <1>0, <2>3, <2>4, <3>3, <3>4, DrawShows, SMTT(30) DEF k
    <3>6. Covers(f, p[1], p[2]) <=> Inside(p, X[f], Y[f], w, h)
      BY <3>2, CoversInside
    <3> QED  BY <2>9, <3>3, <3>5, <3>6
  <2>13. Fits(f) => k.wild = sw.wild
    BY <2>6, <2>8, <2>9
  <2>14. k.contexts[1].surface = sw.contexts[1].surface
    BY <2>4, <2>9
  <2> QED  BY <2>7, <2>8, <2>9, <2>10, <2>11, <2>12, <2>13, <2>14
<1>2. CASE id \notin Bitmaps
  <2>1. id \notin Slots
    BY <1>2, FieldPlace
  <2>2. sw' = sw /\ dm' = dm /\ swCache' = swCache /\ dmCache' = dmCache /\ canvasError' = TRUE
    BY <2>1 DEF DrawField
  <2>3. ~Usable(f)
    BY <2>1 DEF Usable, Textured
  <2>4. Untouched
    BY <2>2 DEF Untouched, CachesOk, DisplayTypeOK
  <2>5. Changes(sw, sw, {"contexts", "window", "asserted", "wild"}) /\ Changes(sw.window, sw.window, {"mem"})
    BY DEF Changes
  <2> HIDE DEF id
  <2> QED  BY <2>2, <2>3, <2>4, <2>5
<1> QED  BY <1>1, <1>2

\* gilVerify changes nothing but what was asserted.
LEMMA VerifiedDoes ==
  ASSUME NEW g, SwOk(g)
  PROVE  SwOk(Sw!GilVerified(g, 1)) /\ Changes(g, Sw!GilVerified(g, 1), {"asserted"})
<1>1. Changes(g, g, {"asserted"})
  BY DEF Changes
<1> QED  BY <1>1, AssertedDoes DEF Sw!GilVerified

\* Verifying a usable field says whether the double buffer shows it.
LEMMA VerifyFieldDoes ==
  ASSUME DisplayAssumption, ImagesAssumption, CacheInv, SwOk(sw), CachesOk,
         NEW f \in DOMAIN Fields, Fields[f].bitmap \in Bitmaps => Tried(Fields[f].bitmap),
         VerifyField(f)
  PROVE  /\ SwOk(sw') /\ Changes(sw, sw', {"contexts", "asserted"})
         /\ sw'.contexts[1].surface = sw.contexts[1].surface
         /\ Untouched
         /\ DOMAIN verdict' = DOMAIN verdict \cup {f}
         /\ \A x \in DOMAIN verdict : x # f => verdict'[x] = verdict[x]
         /\ Usable(f) /\ sw.contexts[1].surface = 1 =>
              (verdict'[f].sw <=> ShowsImage(Buffer(sw.window), f))
<1> DEFINE id == Fields[f].bitmap
           a  == FieldArea[f]
           g  == LoadedBound(id)
           w  == Images[id].width % TwoTo16
           h  == Images[id].height % TwoTo16
           d  == LoadDm(id)
<1>0. /\ X[f] \in Int /\ Y[f] \in Int /\ Pixel(a.x, X[f]) /\ Pixel(a.y, Y[f])
      /\ DOMAIN sw = SwFields
  BY FieldPlace DEF SwOk, Pixel
<1>1. CASE id \in Bitmaps
  <2>0. id \in Slots /\ Tried(id)
    BY <1>1, ImageTypes
  <2> DEFINE v == Sw!GilVerify(g, 1, a.x, a.y, 0, 0, LastFP(LoadSw(id).slot.width),
                                LastFP(LoadSw(id).slot.height))
             u == Dm!DummyVerify(Dm!DummyBindTexture(d.gil, d.slot.handle), a.x, a.y)
             o == [sw |-> v, dm |-> u]
  <2>1. /\ sw' = Sw!GilVerified(g, 1)
        /\ dm' = Dm!DummyVerified(Dm!DummyBindTexture(d.gil, d.slot.handle))
        /\ verdict' = [x \in DOMAIN verdict \cup {f} |-> IF x = f THEN o ELSE verdict[x]]
        /\ swCache' = [swCache EXCEPT ![id] = LoadSw(id).slot]
        /\ dmCache' = [dmCache EXCEPT ![id] = LoadDm(id).slot]
        /\ UNCHANGED canvasError
    BY <2>0 DEF VerifyField, LoadedBound
  <2>2. LoadSw(id).slot.width = w /\ LoadSw(id).slot.height = h
    BY <1>1, LoadSwDoes
  <2>3. w \in Nat /\ h \in Nat
    BY <1>1, ImageSizes
  <2>4. /\ SwOk(g) /\ Changes(sw, g, {"contexts", "asserted"})
        /\ g.contexts[1].surface = sw.contexts[1].surface
        /\ swCache[id].handle # 0 => g.contexts[1].texture = swCache[id].handle
    BY <1>1, <2>0, LoadBindDoes
  <2>5. DmOk(dm')
    <3>1. DmOk(d.gil)
      BY <1>1, LoadDmDoes DEF CachesOk, DisplayTypeOK
    <3> HIDE DEF d, a
    <3>2. DmOk(Dm!DummyBindTexture(d.gil, d.slot.handle))
      BY <3>1, DummyKeeps
    <3> QED  BY <2>1, <3>2, DummyKeeps
  <2>6. v <=> Sw!GilVerify(g, 1, a.x, a.y, 0, 0, LastFP(w), LastFP(h))
    <3> HIDE DEF g, a, w, h
    <3> QED  BY <2>2
  <2>7. /\ DOMAIN verdict' = DOMAIN verdict \cup {f}
        /\ \A x \in DOMAIN verdict : x # f => verdict'[x] = verdict[x]
        /\ verdict'[f] = o
    <3> HIDE DEF o
    <3> QED  BY <2>1
  <2>8. verdict'[f].sw <=> v
    <3> HIDE DEF v, u
    <3> QED  BY <2>7
  <2> HIDE DEF g, a, w, h, d, v, u, o
  <2>9. SwOk(sw') /\ Changes(g, sw', {"asserted"})
    BY <2>1, <2>4, VerifiedDoes
  <2>10. /\ Changes(sw, sw', {"contexts", "asserted"}) /\ sw'.contexts = g.contexts
         /\ sw'.textures = sw.textures /\ g.textures = sw.textures /\ g.window = sw.window
    BY <1>0, <2>4, <2>9 DEF Changes, SwFields
  <2>11. Untouched
    BY <1>1, <2>0, <2>1, <2>5, <2>10, FieldLoaded
  <2>12. ASSUME Usable(f), sw.contexts[1].surface = 1
         PROVE  v <=> ShowsImage(Buffer(sw.window), f)
    <3>1. swCache[id].handle # 0 /\ Fits(f)
      BY <2>12 DEF Usable, Textured
    <3>2. /\ w = ImageOf(f).width /\ h = ImageOf(f).height
          /\ ImageOf(f).width \in Nat /\ ImageOf(f).height \in Nat
          /\ Within(X[f], Y[f], w, h)
      BY <1>1, <3>1, FittingImage DEF ImageOf, w, h
    <3>3. /\ Bound(g, w, h)
          /\ \A p \in Places : BoundPixel(g, p, X[f], Y[f], w) = PixelOf(f, p[1], p[2])
      BY <2>4, <2>10, <2>12, <3>1, <3>2, UsableBound
    <3>4. v <=> ShowsTexture(g, X[f], Y[f], w, h)
      BY <1>0, <2>3, <2>4, <2>6, <3>2, <3>3, VerifyMeans
    <3>5. \A p \in Places : Covers(f, p[1], p[2]) <=> Inside(p, X[f], Y[f], w, h)
      BY <3>2, CoversInside
    <3> QED  BY <2>10, <3>3, <3>4, <3>5 DEF ShowsImage, ShowsTexture
  <2> QED  BY <2>4, <2>7, <2>8, <2>9, <2>10, <2>11, <2>12
<1>2. CASE id \notin Bitmaps
  <2>1. id \notin Slots
    BY <1>2, FieldPlace
  <2>2. /\ sw' = sw /\ dm' = dm /\ swCache' = swCache /\ dmCache' = dmCache /\ canvasError' = TRUE
        /\ verdict' = [x \in DOMAIN verdict \cup {f} |->
                            IF x = f THEN [sw |-> FALSE, dm |-> FALSE] ELSE verdict[x]]
    BY <2>1 DEF VerifyField
  <2>3. ~Usable(f)
    BY <2>1 DEF Usable, Textured
  <2>4. Untouched
    BY <2>2 DEF Untouched, CachesOk, DisplayTypeOK
  <2>5. Changes(sw, sw, {"contexts", "asserted"})
    BY DEF Changes
  <2>6. /\ DOMAIN verdict' = DOMAIN verdict \cup {f}
        /\ \A x \in DOMAIN verdict : x # f => verdict'[x] = verdict[x]
    BY <2>2
  <2> HIDE DEF id
  <2> QED  BY <2>2, <2>3, <2>4, <2>5, <2>6
<1> QED  BY <1>1, <1>2

-----------------------------------------------------------------------------
(* The steps keep the invariant.                                           *)

\* What is kept beside CacheInv, which CacheNext sees to.
DispInv ==
  /\ SwOk(sw) /\ CachesOk /\ PhaseOk /\ AllTried /\ BufferOk /\ MirrorOk /\ VerdictOk

\* The window changes at most what is in its double buffer.
SameWindow(w, v) == (w.valid => Changes(w, v, {"mem"})) /\ (~w.valid => v = w)

SameHandles(cache, new) == \A i \in Slots : new[i].handle = cache[i].handle

\* The same fields are usable in the same window with the same handles.
LEMMA SameUsable ==
  ASSUME NEW w, WindowOk(w), NEW v, SameWindow(w, v), NEW cache, NEW new, SameHandles(cache, new)
  PROVE  /\ v.valid = w.valid /\ (w.valid => v.format = w.format)
         /\ \A f : UsableIn(v, new, f) <=> UsableIn(w, cache, f)
<1>1. v.valid = w.valid
  BY DEF SameWindow, Changes, WindowOk, WindowFields
<1>2. w.valid => v.format = w.format
  BY DEF SameWindow, Changes, WindowOk, WindowFields
<1> QED  BY <1>1, <1>2 DEF UsableIn, SameHandles

\* Usable, of the window and the cache that are there.
LEMMA UsableIs ==
  ASSUME NEW f PROVE Usable(f) <=> UsableIn(sw.window, swCache, f)
BY DEF Usable, Textured, UsableIn

\* What was tried stays tried.
LEMMA TriedStays ==
  ASSUME SameHandles(swCache, swCache'), sw'.textures = sw.textures, DisplayAssumption,
         NEW id \in Bitmaps, Tried(id)
  PROVE  Tried(id)'
BY ImageTypes DEF Tried, SameHandles

\* What a step that loads nothing new says of the types.
LEMMA TypesStay ==
  ASSUME CachesOk, Untouched, pil' = pil,
         phase' \in {"loading", "idle", "drawing", "verifying", "ended"},
         shown' \subseteq BitmapFields, presented' \in BOOLEAN
  PROVE  CachesOk' /\ SameHandles(swCache, swCache')
<1>1. SameHandles(swCache, swCache')
  BY DEF Untouched, SameHandles
<1>2. DisplayTypeOK'
  <2>1. Len(sw'.textures) \in 0..GilMaxTextures
    BY DEF Untouched, CachesOk, DisplayTypeOK
  <2>2. Len(dm'.textures) \in 0..DummyMaxTextures
    BY DEF Untouched, DmOk
  <2> QED  BY <2>1, <2>2 DEF Untouched, CachesOk, DisplayTypeOK
<1>3. Sizes(swCache') /\ DmOk(dm')
  BY DEF Untouched
<1>4. Sizes(swCache)'
  BY <1>3 DEF Sizes
<1>5. DmOk(dm)'
  BY <1>3 DEF DmOk, DmTextures
<1> QED  BY <1>1, <1>2, <1>4, <1>5 DEF CachesOk

\* A picture with one more field is the picture without it and the field on top.
LEMMA OneMore ==
  ASSUME NEW w, NEW v, v.format = w.format, NEW picture, NEW new, NEW S, NEW i \in Int,
         S \subseteq Int, \A j \in S : j < i,
         DescribesIn(w, picture, S),
         \A p \in Places : new[p] = IF Covers(Order[i], p[1], p[2])
                                    THEN PixelOf(Order[i], p[1], p[2]) ELSE picture[p]
  PROVE  DescribesIn(v, new, S \cup {i})
<1> SUFFICES ASSUME NEW p \in Places
             PROVE  /\ \A j \in S \cup {i} : OnTop(j, S \cup {i}, p) => new[p] = PixelOf(Order[j], p[1], p[2])
                    /\ v.format \in Sw!Settable
                       /\ (\A j \in S \cup {i} : ~Covers(Order[j], p[1], p[2])) => new[p] = Fixed
  BY DEF DescribesIn
<1>1. ASSUME NEW j \in S \cup {i}, OnTop(j, S \cup {i}, p)
      PROVE  new[p] = PixelOf(Order[j], p[1], p[2])
  <2>1. CASE j = i
    BY <1>1, <2>1 DEF OnTop
  <2>2. CASE j \in S /\ j # i
    <3>1. j < i /\ j \in Int
      BY <2>2
    <3>2. ~Covers(Order[i], p[1], p[2])
      BY <1>1, <3>1 DEF OnTop
    <3>3. OnTop(j, S, p)
      BY <1>1, <2>2 DEF OnTop
    <3>4. picture[p] = PixelOf(Order[j], p[1], p[2])
      BY <2>2, <3>3 DEF DescribesIn
    <3> QED  BY <3>2, <3>4
  <2> QED  BY <2>1, <2>2
<1>2. ASSUME v.format \in Sw!Settable, \A j \in S \cup {i} : ~Covers(Order[j], p[1], p[2])
      PROVE  new[p] = Fixed
  BY <1>2 DEF DescribesIn
<1> QED  BY <1>1, <1>2

\* The double buffer shows the same when no handle changes.
LEMMA BufferStays ==
  ASSUME NEW w, WindowOk(w), NEW cache, NEW new, SameHandles(cache, new), NEW visible, NEW S
  PROVE  BufferShows(w, new, visible, S) <=> BufferShows(w, cache, visible, S)
<1>1. SameWindow(w, w)
  BY DEF SameWindow, Changes
<1>2. \A f : UsableIn(w, new, f) <=> UsableIn(w, cache, f)
  BY <1>1, SameUsable
<1> QED  BY <1>2 DEF BufferShows

\* The first state of the dummy.
LEMMA DummyOpened ==
  DmOk(Dm!DummyCreateWindow(Dm!DummyCreateContext(Dm!DummyInit)))
<1> DEFINE d == Dm!DummyCreateWindow(Dm!DummyCreateContext(Dm!DummyInit))
<1>1. DOMAIN d = DmFields /\ d.textures = <<>>
  BY DEF Dm!DummyInit, Dm!DummyCreateContext, Dm!DummyCreateWindow, DmFields
<1> HIDE DEF d
<1>2. d.textures \in Seq(DmTextures) /\ Len(d.textures) = 0
  BY <1>1
<1>3. 0 \in 0..DummyMaxTextures
  BY DisplayAssumption
<1> QED  BY <1>1, <1>2, <1>3 DEF DmOk, d

\* The first state of the software renderer, without a window.
LEMMA ContextOpened ==
  ASSUME NEW s, ScreenOk(s)
  PROVE  LET g == Sw!GilCreateContext(Sw!GilInit(s))
         IN  /\ DOMAIN g = SwFields /\ g.screen = s /\ g.window = [valid |-> FALSE]
             /\ g.contexts \in Seq(Context) /\ Len(g.contexts) = 1
             /\ g.asserted = FALSE /\ g.wild = FALSE
<1> DEFINE c == [surface |-> 0, texture |-> 0, colour |-> Unknown]
           f == Sw!GilInit(s)
           g == Sw!GilCreateContext(f)
<1>1. c \in Context
  BY DEF Context
<1>2. DOMAIN f = SwFields /\ f.screen = s /\ f.window = [valid |-> FALSE] /\ f.contexts = <<>>
      /\ f.asserted = FALSE /\ f.wild = FALSE
  BY DEF Sw!GilInit, SwFields
<1> HIDE DEF c, f
<1>3. Len(f.contexts) = 0 /\ GilMaxContexts \in Nat \ {0}
  BY <1>2, DisplayAssumption
<1>4. g = [f EXCEPT !.contexts = Append(f.contexts, c)]
  BY <1>3 DEF Sw!GilCreateContext, c
<1>5. Append(f.contexts, c) \in Seq(Context) /\ Len(Append(f.contexts, c)) = 1
  BY <1>1, <1>2
<1> HIDE DEF g
<1>6. /\ DOMAIN g = SwFields /\ g.screen = s /\ g.window = [valid |-> FALSE]
      /\ g.contexts = Append(f.contexts, c)
      /\ g.asserted = FALSE /\ g.wild = FALSE
  BY <1>2, <1>4 DEF SwFields
<1> QED  BY <1>5, <1>6 DEF f, g

\* The first state of the software renderer, in a memory or on Windows.
LEMMA SwOpened ==
  ASSUME NEW s \in Screens
  PROVE  SwOk(Opened(s))
<1> DEFINE m == [i \in 0..(Width * Height - 1) |-> Unknown]
<1>0. /\ DisplayAssumption /\ Width \in Nat /\ Height \in Nat /\ Width >= 1 /\ Height >= 1
      /\ Width * Height = Height * Width
  BY DisplayAssumption, SizeAssumption
<1>1. ScreenOk(s)
  BY ScreensAssumption DEF ScreenOk, ScreenFields, OnWindows
<1>2. DOMAIN m = 0..(Height * Width - 1)
  BY <1>0
<1> HIDE DEF m
<1>3. CASE ~OnWindows(s)
  <2> DEFINE g == Sw!GilCreateContext(Sw!GilInit(s))
             w == [valid |-> TRUE, x |-> 0, y |-> 0, w |-> Width, h |-> Height, stride |-> Width,
                   size |-> Width * Height, aligned |-> TRUE, format |-> g.screen.format,
                   mem |-> m]
             h == [g EXCEPT !.window = w]
  <2>1. /\ DOMAIN g = SwFields /\ g.screen = s /\ g.window = [valid |-> FALSE]
        /\ g.contexts \in Seq(Context) /\ Len(g.contexts) = 1
        /\ g.asserted = FALSE /\ g.wild = FALSE
    BY <1>1, ContextOpened
  <2> HIDE DEF g
  <2>2. WindowOk(w)
    BY <1>2 DEF WindowOk, WindowFields
  <2>3. Sw!GilCreateWindow(g, 0, 0, Width, Height, Unknown) = h
    BY <1>0, <2>1 DEF Sw!GilCreateWindow, m
  <2> HIDE DEF w
  <2>4. SwOk(h)
    BY <1>1, <2>1, <2>2 DEF SwOk, SwFields
  <2>5. Opened(s) = Sw!GilCreateWindow(g, 0, 0, Width, Height, Unknown)
    BY <1>3 DEF Opened, g
  <2> HIDE DEF h
  <2> QED  BY <2>3, <2>4, <2>5
<1>4. CASE OnWindows(s)
  <2> DEFINE f == Sw!WinInit(s)
             k == [s EXCEPT !.painted = TRUE]
             g == Sw!GilCreateContext(f)
             w == Sw!WinSurface(s.creates, Width, Height, Unknown)
             h == [g EXCEPT !.screen.painted = ~s.creates, !.window = w]
  <2>0. DOMAIN s = ScreenFields /\ s.creates \in BOOLEAN
    BY ScreensAssumption DEF ScreenFields
  <2>1. ScreenOk(k) /\ OnWindows(k) /\ k.creates = s.creates /\ DOMAIN k = ScreenFields
    BY <1>1, <1>4, <2>0 DEF ScreenOk, ScreenFields, OnWindows
  <2>2. f = Sw!GilInit(k)
    <3> HIDE DEF k
    <3>1. f = [Sw!GilInit(s) EXCEPT !.screen = k]
      BY DEF Sw!WinInit, Sw!GilInit, k
    <3>2. ASSUME NEW v, NEW c, NEW t, NEW a, NEW b
          PROVE  [[screen |-> s, window |-> v, contexts |-> c, textures |-> t, asserted |-> a,
                   wild |-> b] EXCEPT !.screen = k]
                 = [screen |-> k, window |-> v, contexts |-> c, textures |-> t, asserted |-> a,
                    wild |-> b]
      OBVIOUS
    <3> QED  BY <3>1, <3>2 DEF Sw!GilInit
  <2>3. /\ DOMAIN g = SwFields /\ g.screen = k /\ g.window = [valid |-> FALSE]
        /\ g.contexts \in Seq(Context) /\ Len(g.contexts) = 1
        /\ g.asserted = FALSE /\ g.wild = FALSE
    <3> HIDE DEF k, f
    <3> QED  BY <2>1, <2>2, ContextOpened
  <2> HIDE DEF f, g, k
  <2>4. WindowOk(w)
    BY <1>2, <2>0 DEF WindowOk, WindowFields, Sw!WinSurface, m
  <2>5. Sw!WinCreateWindow(g, 0, 0, Width, Height, Unknown) \in {h, Sw!Asserted(g)}
    BY <2>1, <2>3 DEF Sw!WinCreateWindow
  <2>6. Opened(s) = Sw!WinCreateWindow(g, 0, 0, Width, Height, Unknown)
    BY <1>4 DEF Opened, g, f
  <2>7. SwOk(h)
    <3> DEFINE n == ~s.creates
               r == [k EXCEPT !.painted = n]
    <3>1. n \in BOOLEAN
      OBVIOUS
    <3> HIDE DEF n, w
    <3>2. ScreenOk(r)
      BY <2>1, <3>1 DEF ScreenOk, ScreenFields, OnWindows
    <3>3. h = [[g EXCEPT !.screen = r] EXCEPT !.window = w]
      BY <2>3 DEF n, SwFields
    <3> HIDE DEF r, h
    <3>4. /\ DOMAIN h = SwFields /\ h.screen = r /\ h.window = w /\ h.contexts = g.contexts
          /\ h.asserted = FALSE /\ h.wild = FALSE
      BY <2>3, <3>3 DEF SwFields
    <3> QED  BY <2>3, <2>4, <3>2, <3>4 DEF SwOk
  <2>8. SwOk(Sw!Asserted(g))
    <3>1. WindowOk(g.window)
      BY <2>3 DEF WindowOk
    <3>2. SwOk(g)
      BY <2>1, <2>3, <3>1 DEF SwOk
    <3> QED  BY <3>2, AssertedDoes
  <2> HIDE DEF h
  <2> QED  BY <2>5, <2>6, <2>7, <2>8
<1> QED  BY <1>3, <1>4

\* What can be opened is a state of the invariant.
LEMMA DispInit == Init => DispInv
<1> SUFFICES ASSUME Init PROVE DispInv
  OBVIOUS
<1>1. SwOk(sw)
  BY SwOpened DEF Init
<1>2. DmOk(dm)
  BY DummyOpened DEF Init
<1>3. /\ swCache = [id \in Slots |-> NoTexture] /\ dmCache = [id \in Slots |-> NoTexture]
      /\ pil \in {"aborts", "returns"} /\ phase \in {"loading", "ended"} /\ todo = Bitmaps
      /\ shown = {} /\ presented = FALSE /\ DOMAIN verdict = {} /\ canvasError = FALSE
  BY DEF Init
<1>4. /\ GilMaxTextures \in Nat /\ DummyMaxTextures \in Nat
      /\ TwoTo16 \in Nat /\ TwoTo16 > 0
  BY DisplayAssumption, Sixteen
<1>5. \A n \in Nat : NoTexture \in Texture(n)
  BY <1>4 DEF NoTexture, Texture
<1>6. /\ swCache \in [Slots -> Texture(GilMaxTextures)]
      /\ dmCache \in [Slots -> Texture(DummyMaxTextures)]
  BY <1>3, <1>4, <1>5
<1>7. Len(sw.textures) \in 0..GilMaxTextures
  <2>1. PICK s \in Screens : sw = Opened(s)
    BY DEF Init
  <2>2. sw.textures = <<>>
    BY <2>1, OpenedEmpty
  <2> QED  BY <1>4, <2>2
<1>8. Len(dm.textures) \in 0..DummyMaxTextures
  BY <1>2 DEF DmOk
<1>9. DisplayTypeOK
  BY <1>3, <1>6, <1>7, <1>8 DEF DisplayTypeOK
<1>10. Sizes(swCache)
  <2>1. \A id \in Bitmaps : swCache[id].handle = 0
    BY <1>3, ImageTypes, DisplayAssumption DEF NoTexture
  <2> QED  BY <2>1 DEF Sizes
<1>11. CachesOk
  BY <1>2, <1>9, <1>10 DEF CachesOk
<1>12. PhaseOk /\ AllTried
  BY <1>3 DEF PhaseOk, AllTried
<1>13. BufferOk /\ MirrorOk /\ VerdictOk
  BY <1>3 DEF BufferOk, MirrorOk, VerdictOk
<1> QED  BY <1>1, <1>11, <1>12, <1>13 DEF DispInv

\* The invariant after each action.
LEMMA DispLoadNext ==
  ASSUME DisplayAssumption, CacheInv, DispInv, LoadNext PROVE DispInv'
<1> USE DEF DispInv
<1>1. PICK id \in todo :
        /\ sw' = LoadSw(id).gil /\ swCache' = [swCache EXCEPT ![id] = LoadSw(id).slot]
        /\ dm' = LoadDm(id).gil /\ dmCache' = [dmCache EXCEPT ![id] = LoadDm(id).slot]
        /\ todo' = todo \ {id}
  BY DEF LoadNext
<1>2. /\ phase = "loading" /\ phase' \in {"loading", "ended"}
      /\ UNCHANGED <<pil, shown, presented, verdict, canvasError>>
  BY DEF LoadNext, Then
<1>3. /\ todo \subseteq Bitmaps /\ id \in Bitmaps /\ id \in Slots /\ ~presented /\ DOMAIN verdict = {}
  BY <1>2, ImageTypes DEF PhaseOk
<1>4. /\ SwOk(sw') /\ Len(sw'.textures) \in 0..GilMaxTextures
      /\ Len(sw'.textures) >= Len(sw.textures)
      /\ \/ LoadSw(id).slot.handle # 0
         \/ ~Loadable(Images[id])
         \/ Len(sw'.textures) >= GilMaxTextures
  BY <1>1, <1>3, LoadSwDoes
<1>5. /\ DmOk(dm) /\ dmCache \in [Slots -> Texture(DummyMaxTextures)]
      /\ swCache \in [Slots -> Texture(GilMaxTextures)]
  BY DEF CachesOk, DisplayTypeOK
<1>6. DmOk(dm') /\ LoadDm(id).slot \in Texture(DummyMaxTextures)
  BY <1>1, <1>3, <1>5, LoadDmDoes
<1>7. dmCache' \in [Slots -> Texture(DummyMaxTextures)]
  BY <1>1, <1>3, <1>5, <1>6
<1>8. swCache' \in [Slots -> Texture(GilMaxTextures)] /\ Sizes(swCache')
  <2> DEFINE c == [swCache EXCEPT ![id] = LoadSw(id).slot]
  <2>1. CacheDone(c, id)
    BY <1>3, CacheUpdated
  <2>2. swCache' = c
    BY <1>1
  <2> HIDE DEF c
  <2> QED  BY <2>1, <2>2 DEF CacheDone
<1>9. CachesOk'
  <2>1. Len(dm'.textures) \in 0..DummyMaxTextures
    BY <1>6 DEF DmOk
  <2>2. DisplayTypeOK'
    BY <1>2, <1>4, <1>7, <1>8, <2>1 DEF DisplayTypeOK, CachesOk
  <2>3. Sizes(swCache)' /\ DmOk(dm)'
    BY <1>6, <1>8 DEF Sizes, DmOk, DmTextures
  <2> QED  BY <2>2, <2>3 DEF CachesOk
<1>10. PhaseOk'
  BY <1>1, <1>2, <1>3 DEF PhaseOk
<1>11. AllTried'
  <2> SUFFICES ASSUME NEW i \in Bitmaps, i \notin todo' PROVE Tried(i)'
    BY <1>2 DEF AllTried
  <2>0. i \in Slots
    BY ImageTypes
  <2>1. CASE i = id
    <3>1. swCache'[i] = LoadSw(id).slot
      BY <1>1, <1>3, <1>5, <2>1
    <3> QED  BY <1>4, <2>1, <3>1 DEF Tried
  <2>2. CASE i # id
    <3>1. Tried(i)
      BY <1>1, <1>2, <2>2 DEF AllTried
    <3>2. swCache'[i] = swCache[i]
      BY <1>1, <1>5, <2>0, <2>2
    <3>3. Len(sw.textures) \in Nat /\ Len(sw'.textures) \in Nat /\ GilMaxTextures \in Nat
      BY <1>4, DisplayAssumption DEF CachesOk, DisplayTypeOK
    <3>4. Len(sw.textures) >= GilMaxTextures => Len(sw'.textures) >= GilMaxTextures
      BY <1>4, <3>3
    <3> QED  BY <3>1, <3>2, <3>4 DEF Tried
  <2> QED  BY <2>1, <2>2
<1>12. BufferOk' /\ MirrorOk' /\ VerdictOk'
  BY <1>2, <1>3 DEF BufferOk, MirrorOk, VerdictOk
<1>13. SwOk(sw)'
  BY <1>4
<1> QED  BY <1>9, <1>10, <1>11, <1>12, <1>13

\* A step that changes neither textures nor caches.
LEMMA CachesStay ==
  ASSUME DisplayAssumption, DispInv, swCache' = swCache, sw'.textures = sw.textures, DmOk(dm'),
         UNCHANGED <<dmCache, canvasError, pil>>,
         phase' \in {"loading", "idle", "drawing", "verifying", "ended"},
         shown' \subseteq BitmapFields, presented' \in BOOLEAN
  PROVE  /\ CachesOk' /\ SameHandles(swCache, swCache')
         /\ phase # "loading" /\ phase' # "loading" /\ phase # "ended" => AllTried'
<1>1. Untouched
  BY StaysUntouched DEF DispInv
<1>2. CachesOk' /\ SameHandles(swCache, swCache')
  BY <1>1, TypesStay DEF DispInv
<1>3. ASSUME phase # "loading", phase' # "loading", phase # "ended" PROVE AllTried'
  <2>1. \A id \in Bitmaps : Tried(id)
    BY <1>3 DEF AllTried, DispInv, CachesOk, DisplayTypeOK
  <2>2. \A id \in Bitmaps : Tried(id)'
    BY <1>2, <2>1, TriedStays
  <2> QED  BY <1>3, <2>2 DEF AllTried
<1> QED  BY <1>2, <1>3

\* All bitmaps were tried.
LEMMA DispLoaded ==
  ASSUME DisplayAssumption, DispInv, Loaded PROVE DispInv'
<1>1. /\ phase = "loading" /\ todo = {} /\ phase' = "idle"
      /\ UNCHANGED <<sw, swCache, dm, dmCache, pil, todo, shown, presented, verdict, canvasError>>
  BY DEF Loaded
<1>2. ~presented /\ DOMAIN verdict = {}
  BY <1>1 DEF DispInv, PhaseOk
<1>3. SwOk(sw)' /\ CachesOk'
  <2>1. DmOk(dm') /\ shown' \subseteq BitmapFields /\ presented' \in BOOLEAN
    BY <1>1 DEF DispInv, CachesOk, DisplayTypeOK
  <2> QED  BY <1>1, <2>1, CachesStay DEF DispInv
<1>4. PhaseOk'
  BY <1>1, <1>2 DEF PhaseOk
<1>5. AllTried'
  <2>1. \A id \in Bitmaps : Tried(id)
    BY <1>1 DEF DispInv, AllTried
  <2>2. \A id \in Bitmaps : Tried(id)'
    BY <1>1, <2>1 DEF Tried
  <2> QED  BY <1>1, <2>2 DEF AllTried
<1>6. BufferOk' /\ MirrorOk' /\ VerdictOk'
  BY <1>1, <1>2 DEF BufferOk, MirrorOk, VerdictOk
<1> QED  BY <1>3, <1>4, <1>5, <1>6 DEF DispInv

\* A cleared window shows no field.
LEMMA DispBeginFrame ==
  ASSUME DisplayAssumption, DispInv, NEW visible \in SUBSET BitmapFields, BeginFrame(visible)
  PROVE  DispInv' /\ sw'.wild = sw.wild
<1> DEFINE a == Sw!GilSetSurface(sw, 1, 1)
           b == Sw!GilSetColor(a, 1)
           c == Sw!GilClear(b, 1)
<1>1. /\ phase = "idle" /\ sw' = c /\ dm' = Dm!DummyClear(dm) /\ todo' = Positions(Order, visible)
      /\ shown' = visible /\ DOMAIN verdict' = {} /\ phase' \in {"drawing", "ended"}
      /\ UNCHANGED <<swCache, dmCache, pil, presented, canvasError>>
  BY DEF BeginFrame, Then
<1>2. /\ SwOk(a) /\ Changes(sw, a, {"contexts", "asserted"})
      /\ sw.window.valid => a.contexts[1].surface = 1
  BY SetSurfaceDoes DEF DispInv
<1> HIDE DEF a
<1>3. /\ SwOk(b) /\ Changes(a, b, {"contexts"})
      /\ b.contexts[1].surface = a.contexts[1].surface /\ b.contexts[1].colour = Fixed
  BY <1>2, SetColorDoes
<1> HIDE DEF b
<1>4. /\ SwOk(c) /\ Changes(b, c, {"window", "asserted"})
      /\ b.window.valid => Changes(b.window, c.window, {"mem"})
      /\ ~b.window.valid => c.window = b.window
      /\ /\ b.window.valid /\ b.contexts[1].surface = 1 /\ b.contexts[1].colour = Fixed
         /\ b.window.format \in Sw!Settable
         => \A p \in Places : Buffer(c.window)[p] = Fixed
  BY <1>3, ClearDoes
<1> HIDE DEF c
<1>5. DOMAIN sw = SwFields /\ WindowOk(sw.window)
  BY DEF DispInv, SwOk
<1>6. /\ b.window = sw.window /\ b.wild = sw.wild /\ b.textures = sw.textures
      /\ c.wild = sw.wild /\ c.textures = sw.textures /\ c.contexts = b.contexts
  BY <1>2, <1>3, <1>4, <1>5 DEF Changes, SwFields
<1>7. SameWindow(sw.window, c.window)
  BY <1>4, <1>6 DEF SameWindow
<1>8. c.window.valid = sw.window.valid /\ (sw.window.valid => c.window.format = sw.window.format)
  BY <1>5, <1>7, SameUsable DEF SameHandles
<1>9. CachesOk' /\ AllTried'
  <2>1. DmOk(dm')
    BY <1>1, DummyKeeps DEF DispInv, CachesOk
  <2>2. presented' \in BOOLEAN /\ shown' \subseteq BitmapFields
    BY <1>1 DEF DispInv, CachesOk, DisplayTypeOK
  <2> QED  BY <1>1, <1>6, <2>1, <2>2, CachesStay
<1>10. PhaseOk'
  <2>1. sw'.window.valid => sw'.contexts[1].surface = 1
    BY <1>1, <1>2, <1>3, <1>6, <1>8
  <2> QED  BY <1>1, <2>1 DEF PhaseOk
<1>11. BufferOk'
  <2>1. c.window.valid => DescribesIn(c.window, Buffer(c.window), {})
    BY <1>2, <1>3, <1>4, <1>6, <1>8 DEF DescribesIn, OnTop
  <2>2. BufferShows(c.window, swCache', shown', {})
    BY <2>1 DEF BufferShows
  <2>3. Positions(Order, shown') \ todo' = {}
    BY <1>1
  <2>4. BufferShows(sw'.window, swCache', shown', Positions(Order, shown') \ todo')
    BY <1>1, <2>2, <2>3
  <2> QED  BY <1>1, <2>3, <2>4 DEF BufferOk
<1>12. MirrorOk' /\ VerdictOk'
  BY <1>1 DEF MirrorOk, VerdictOk
<1>13. SwOk(sw)'
  BY <1>1, <1>4
<1> QED  BY <1>1, <1>6, <1>9, <1>10, <1>11, <1>12, <1>13 DEF DispInv

\* A field of the order or of the references has a bitmap that was tried.
LEMMA FieldTried ==
  ASSUME DisplayAssumption, DispInv, phase \in {"drawing", "verifying"},
         NEW f \in DOMAIN Fields, Fields[f].bitmap \in Bitmaps
  PROVE  Tried(Fields[f].bitmap)
BY DEF DispInv, AllTried

\* One more field is shown, on top of those before.
LEMMA DispDrawBitmap ==
  ASSUME DisplayAssumption, ImagesAssumption, CacheInv, DispInv, DrawBitmap
  PROVE  DispInv' /\ WildOnlyUnfit
<1>1. PICK i \in todo : IsNext(i, todo) /\ DrawField(Order[i]) /\ todo' = todo \ {i}
  BY DEF DrawBitmap
<1>2. phase = "drawing" /\ phase' \in {"drawing", "ended"} /\ UNCHANGED <<pil, shown, presented, verdict>>
  BY DEF DrawBitmap, Then
<1> DEFINE f == Order[i]
           D == Positions(Order, shown) \ todo
<1>3. /\ todo \subseteq Positions(Order, shown) /\ DOMAIN verdict = {}
      /\ sw.window.valid => sw.contexts[1].surface = 1
  BY <1>2 DEF DispInv, PhaseOk
<1>4. i \in 1..Len(Order) /\ f \in DOMAIN Fields /\ f \in shown
  BY <1>3, DisplayAssumption DEF Positions
<1>5. Fields[f].bitmap \in Bitmaps => Tried(Fields[f].bitmap)
  BY <1>2, <1>4, FieldTried
<1>6. SwOk(sw) /\ CachesOk /\ DrawField(f)
  BY <1>1 DEF DispInv
<1> HIDE DEF f
<1>7. /\ SwOk(sw') /\ Changes(sw, sw', {"contexts", "window", "asserted", "wild"})
      /\ sw.window.valid => Changes(sw.window, sw'.window, {"mem"})
      /\ ~sw.window.valid => sw'.window = sw.window
      /\ sw'.contexts[1].surface = sw.contexts[1].surface
      /\ Fits(f) => sw'.wild = sw.wild
      /\ Untouched
      /\ Usable(f) /\ sw.contexts[1].surface = 1 => \A p \in Places :
           Buffer(sw'.window)[p] =
             IF Covers(f, p[1], p[2]) THEN PixelOf(f, p[1], p[2]) ELSE Buffer(sw.window)[p]
  BY <1>4, <1>5, <1>6, DrawFieldDoes
<1>8. DOMAIN sw = SwFields /\ WindowOk(sw.window)
  BY <1>6 DEF SwOk
<1>9. sw'.textures = sw.textures
  BY <1>7 DEF Untouched
<1>10. CachesOk' /\ SameHandles(swCache, swCache')
  <2>1. shown' \subseteq BitmapFields /\ presented' \in BOOLEAN
    BY <1>2, <1>6 DEF CachesOk, DisplayTypeOK
  <2> QED  BY <1>2, <1>6, <1>7, <2>1, TypesStay
<1>11. AllTried'
  <2>1. \A id \in Bitmaps : Tried(id)
    BY <1>2 DEF AllTried, DispInv
  <2>2. \A id \in Bitmaps : Tried(id)'
    BY <1>9, <1>10, <2>1, TriedStays
  <2> QED  BY <1>2, <2>2 DEF AllTried
<1>12. /\ sw'.window.valid = sw.window.valid /\ (sw.window.valid => sw'.window.format = sw.window.format)
       /\ \A x : UsableIn(sw'.window, swCache', x) <=> UsableIn(sw.window, swCache, x)
  <2>1. SameWindow(sw.window, sw'.window)
    BY <1>7 DEF SameWindow
  <2> QED  BY <1>8, <1>10, <2>1, SameUsable
<1>13. PhaseOk'
  BY <1>1, <1>2, <1>3, <1>7, <1>12 DEF PhaseOk
<1>14. /\ D \subseteq Int /\ (\A j \in D, k \in todo : j < k) /\ Positions(Order, shown) \subseteq Int
       /\ BufferShows(sw.window, swCache, shown, D)
  BY <1>2 DEF BufferOk, DispInv, Positions
<1>15. Positions(Order, shown) \ todo' = D \cup {i}
  BY <1>1, <1>3
<1> HIDE DEF D
<1>16. BufferShows(sw'.window, swCache', shown, D \cup {i})
  <2> SUFFICES ASSUME sw'.window.valid, \A x \in shown : UsableIn(sw'.window, swCache', x)
               PROVE  DescribesIn(sw'.window, Buffer(sw'.window), D \cup {i})
    BY DEF BufferShows
  <2>1. sw.window.valid /\ \A x \in shown : UsableIn(sw.window, swCache, x)
    BY <1>12
  <2>2. DescribesIn(sw.window, Buffer(sw.window), D)
    BY <1>14, <2>1 DEF BufferShows
  <2>3. Usable(f) /\ sw.contexts[1].surface = 1
    BY <1>3, <1>4, <2>1, UsableIs
  <2>4. \A p \in Places :
          Buffer(sw'.window)[p] =
            IF Covers(Order[i], p[1], p[2]) THEN PixelOf(Order[i], p[1], p[2]) ELSE Buffer(sw.window)[p]
    BY <1>7, <2>3 DEF f
  <2>5. i \in Int /\ (\A j \in D : j < i) /\ sw'.window.format = sw.window.format
    BY <1>4, <1>12, <1>14, <2>1
  <2> DEFINE P == Buffer(sw.window)
             Q == Buffer(sw'.window)
             w == sw.window
             v == sw'.window
  <2>6. v.format = w.format /\ DescribesIn(w, P, D)
        /\ \A p \in Places :
             Q[p] = IF Covers(Order[i], p[1], p[2]) THEN PixelOf(Order[i], p[1], p[2]) ELSE P[p]
    BY <2>2, <2>4, <2>5
  <2> HIDE DEF P, Q, w, v
  <2>7. DescribesIn(v, Q, D \cup {i})
    BY <1>14, <2>5, <2>6, OneMore
  <2> QED  BY <2>7 DEF v, Q
<1>17. BufferOk'
  <2>1. \A j \in D \cup {i}, k \in todo' : j < k
    <3> SUFFICES ASSUME NEW j \in D \cup {i}, NEW k \in todo' PROVE j < k
      OBVIOUS
    <3>1. CASE j \in D
      BY <1>1, <1>14, <3>1
    <3>2. CASE j = i
      <4>1. k \in todo /\ k # i /\ i <= k
        BY <1>1 DEF IsNext
      <4>2. k \in Int /\ i \in Int
        BY <1>3, <1>14, <4>1
      <4> QED  BY <3>2, <4>1, <4>2
    <3> QED  BY <3>1, <3>2
  <2> QED  BY <1>2, <1>15, <1>16, <2>1 DEF BufferOk
<1>18. MirrorOk' /\ VerdictOk'
  BY <1>2, <1>3 DEF MirrorOk, VerdictOk
<1>19. SwOk(sw)'
  BY <1>7
<1>20. WildOnlyUnfit
  BY <1>1, <1>2, <1>7 DEF WildOnlyUnfit, f
<1> QED  BY <1>10, <1>11, <1>13, <1>17, <1>18, <1>19, <1>20 DEF DispInv

\* The screen shows what was drawn, or is to be painted.
LEMMA DispSwapBuffers ==
  ASSUME DisplayAssumption, DispInv, SwapBuffers PROVE DispInv' /\ sw'.wild = sw.wild
<1>1. /\ phase = "drawing" /\ todo = {} /\ presented' = TRUE /\ phase' \in {"idle", "ended"}
      /\ UNCHANGED <<swCache, dm, dmCache, pil, todo, shown, verdict, canvasError>>
  BY DEF SwapBuffers, Then
<1>2. DOMAIN verdict = {} /\ DOMAIN sw = SwFields /\ SwOk(sw) /\ WindowOk(sw.window)
  BY <1>1 DEF DispInv, PhaseOk, SwOk
<1>3. /\ SwOk(sw') /\ Changes(sw, sw', {"screen", "asserted"})
      /\ (OnWindows(sw'.screen) <=> OnWindows(sw.screen))
      /\ sw.window.valid =>
           IF OnWindows(sw.screen) THEN ~sw'.screen.painted
           ELSE Shows(sw'.screen) = Buffer(sw.window)
  <2>1. CASE OnWindows(sw.screen)
    <3>1. sw' = Sw!WinSwapBuffers(sw, 1)
      BY <2>1 DEF SwapBuffers
    <3> QED  BY <1>2, <2>1, <3>1, WinSwapDoes
  <2>2. CASE ~OnWindows(sw.screen)
    <3>1. sw' = Sw!GilSwapBuffers(sw, 1)
      BY <2>2 DEF SwapBuffers
    <3> QED  BY <1>2, <2>2, <3>1, SwapDoes
  <2> QED  BY <2>1, <2>2
<1>4. sw'.window = sw.window /\ sw'.textures = sw.textures /\ sw'.wild = sw.wild
  BY <1>2, <1>3 DEF Changes, SwFields
<1>5. CachesOk' /\ AllTried'
  <2>1. DmOk(dm') /\ presented' \in BOOLEAN /\ shown' \subseteq BitmapFields
    BY <1>1 DEF DispInv, CachesOk, DisplayTypeOK
  <2> QED  BY <1>1, <1>4, <2>1, CachesStay
<1>6. PhaseOk'
  BY <1>1, <1>2 DEF PhaseOk
<1>7. BufferOk'
  <2>1. BufferShows(sw.window, swCache, shown, Positions(Order, shown) \ todo)
    BY <1>1 DEF DispInv, BufferOk
  <2>2. Positions(Order, shown) \ todo = Positions(Order, shown)
    BY <1>1
  <2>3. BufferShows(sw'.window, swCache', shown', Positions(Order, shown'))
    BY <1>1, <1>4, <2>1, <2>2
  <2> QED  BY <1>1, <2>3 DEF BufferOk
<1>8. MirrorOk'
  BY <1>3, <1>4 DEF MirrorOk, Painted
<1>9. VerdictOk'
  BY <1>1, <1>2 DEF VerdictOk
<1> QED  BY <1>3, <1>4, <1>5, <1>6, <1>7, <1>8, <1>9 DEF DispInv

\* A step that draws nothing keeps what is said of the double buffer.
LEMMA BufferKept ==
  ASSUME DispInv, sw'.window = sw.window, SameHandles(swCache, swCache'),
         UNCHANGED <<shown, presented>>, phase \in {"idle", "verifying"},
         phase' \in {"idle", "verifying", "ended"}
  PROVE  BufferOk'
<1>1. WindowOk(sw.window)
  BY DEF DispInv, SwOk
<1>2. presented => BufferShows(sw.window, swCache, shown, Positions(Order, shown))
  BY DEF DispInv, BufferOk
<1>3. presented => BufferShows(sw'.window, swCache', shown', Positions(Order, shown'))
  BY <1>1, <1>2, BufferStays
<1> QED  BY <1>3 DEF BufferOk

\* A round begins without verdicts.
LEMMA DispBeginVerify ==
  ASSUME DisplayAssumption, DispInv, NEW visible \in SUBSET ReferenceFields, BeginVerify(visible)
  PROVE  DispInv' /\ sw'.wild = sw.wild
<1>1. /\ phase = "idle" /\ sw' = Sw!GilSetSurface(sw, 1, 1) /\ todo' = Positions(References, visible)
      /\ DOMAIN verdict' = {} /\ phase' \in {"verifying", "ended"}
      /\ UNCHANGED <<swCache, dm, dmCache, pil, shown, presented, canvasError>>
  BY DEF BeginVerify, Then
<1>2. /\ SwOk(sw') /\ Changes(sw, sw', {"contexts", "asserted"})
      /\ sw.window.valid => sw'.contexts[1].surface = 1
  BY <1>1, SetSurfaceDoes DEF DispInv
<1>3. /\ sw'.window = sw.window /\ sw'.screen = sw.screen /\ sw'.textures = sw.textures
      /\ sw'.wild = sw.wild
  <2>1. DOMAIN sw = SwFields
    BY DEF DispInv, SwOk
  <2> QED  BY <1>2, <2>1 DEF Changes, SwFields
<1>4. CachesOk' /\ SameHandles(swCache, swCache') /\ AllTried'
  <2>1. DmOk(dm') /\ presented' \in BOOLEAN /\ shown' \subseteq BitmapFields
    BY <1>1 DEF DispInv, CachesOk, DisplayTypeOK
  <2> QED  BY <1>1, <1>3, <2>1, CachesStay
<1>5. PhaseOk'
  <2>1. todo' \subseteq Positions(References, ReferenceFields)
    BY <1>1 DEF Positions
  <2> QED  BY <1>1, <1>2, <1>3, <2>1 DEF PhaseOk
<1>6. BufferOk'
  BY <1>1, <1>3, <1>4, BufferKept
<1>7. MirrorOk'
  BY <1>1, <1>3 DEF DispInv, MirrorOk, Painted
<1>8. VerdictOk'
  BY <1>1 DEF VerdictOk
<1> QED  BY <1>2, <1>3, <1>4, <1>5, <1>6, <1>7, <1>8 DEF DispInv

\* A verdict more, of a double buffer that is still the same.
LEMMA DispVerifyBitmap ==
  ASSUME DisplayAssumption, ImagesAssumption, CacheInv, DispInv, VerifyBitmap
  PROVE  DispInv' /\ sw'.wild = sw.wild
<1>1. PICK i \in todo : IsNext(i, todo) /\ VerifyField(References[i]) /\ todo' = todo \ {i}
  BY DEF VerifyBitmap
<1>2. phase = "verifying" /\ phase' \in {"verifying", "ended"} /\ UNCHANGED <<pil, shown, presented>>
  BY DEF VerifyBitmap, Then
<1> DEFINE f == References[i]
<1>3. /\ todo \subseteq Positions(References, ReferenceFields) /\ DOMAIN verdict \subseteq ReferenceFields
      /\ sw.window.valid => sw.contexts[1].surface = 1
  BY <1>2 DEF DispInv, PhaseOk
<1>4. i \in 1..Len(References) /\ f \in DOMAIN Fields /\ f \in ReferenceFields
  BY <1>3, DisplayAssumption DEF Positions
<1>5. Fields[f].bitmap \in Bitmaps => Tried(Fields[f].bitmap)
  BY <1>2, <1>4, FieldTried
<1>6. SwOk(sw) /\ CachesOk /\ VerifyField(f) /\ DOMAIN sw = SwFields /\ WindowOk(sw.window)
  BY <1>1 DEF DispInv, SwOk
<1> HIDE DEF f
<1>7. /\ SwOk(sw') /\ Changes(sw, sw', {"contexts", "asserted"})
      /\ sw'.contexts[1].surface = sw.contexts[1].surface
      /\ Untouched
      /\ DOMAIN verdict' = DOMAIN verdict \cup {f}
      /\ \A x \in DOMAIN verdict : x # f => verdict'[x] = verdict[x]
      /\ Usable(f) /\ sw.contexts[1].surface = 1 =>
           (verdict'[f].sw <=> ShowsImage(Buffer(sw.window), f))
  BY <1>4, <1>5, <1>6, VerifyFieldDoes
<1>8. /\ sw'.window = sw.window /\ sw'.screen = sw.screen /\ sw'.wild = sw.wild
      /\ sw'.textures = sw.textures
  BY <1>6, <1>7 DEF Changes, SwFields
<1>9. CachesOk' /\ SameHandles(swCache, swCache')
  <2>1. shown' \subseteq BitmapFields /\ presented' \in BOOLEAN
    BY <1>2, <1>6 DEF CachesOk, DisplayTypeOK
  <2> QED  BY <1>2, <1>6, <1>7, <2>1, TypesStay
<1>10. AllTried'
  <2>1. \A id \in Bitmaps : Tried(id)
    BY <1>2 DEF AllTried, DispInv
  <2>2. \A id \in Bitmaps : Tried(id)'
    BY <1>8, <1>9, <2>1, TriedStays
  <2> QED  BY <1>2, <2>2 DEF AllTried
<1>11. PhaseOk'
  BY <1>1, <1>2, <1>3, <1>4, <1>7, <1>8 DEF PhaseOk
<1>12. BufferOk'
  BY <1>2, <1>8, <1>9, BufferKept
<1>13. MirrorOk'
  BY <1>2, <1>8 DEF DispInv, MirrorOk, Painted
<1>14. VerdictOk'
  <2>1. \A x : UsableIn(sw'.window, swCache', x) <=> UsableIn(sw.window, swCache, x)
    <3>1. SameWindow(sw.window, sw'.window)
      BY <1>8 DEF SameWindow, Changes
    <3> QED  BY <1>6, <1>9, <3>1, SameUsable
  <2>2. ASSUME NEW x \in DOMAIN verdict', UsableIn(sw'.window, swCache', x)
        PROVE  verdict'[x].sw <=> ShowsImage(Buffer(sw'.window), x)
    <3>1. UsableIn(sw.window, swCache, x) /\ Buffer(sw'.window) = Buffer(sw.window)
      BY <1>8, <2>1, <2>2
    <3>2. CASE x = f
      <4>1. Usable(f) /\ sw.contexts[1].surface = 1
        BY <1>3, <3>1, <3>2, UsableIs DEF UsableIn
      <4> QED  BY <1>7, <3>1, <3>2, <4>1
    <3>3. CASE x # f
      <4>1. x \in DOMAIN verdict /\ verdict'[x] = verdict[x]
        BY <1>7, <2>2, <3>3
      <4> QED  BY <3>1, <4>1 DEF DispInv, VerdictOk
    <3> QED  BY <3>2, <3>3
  <2> QED  BY <2>2 DEF VerdictOk, ShowsImage, Buffer, UsableIn
<1>15. SwOk(sw)'
  BY <1>7
<1> QED  BY <1>8, <1>9, <1>10, <1>11, <1>12, <1>13, <1>14, <1>15 DEF DispInv

\* The round is over and its verdicts stay.
LEMMA DispEndVerify ==
  ASSUME DisplayAssumption, DispInv, EndVerify PROVE DispInv'
<1>1. /\ phase = "verifying" /\ todo = {} /\ phase' = "idle"
      /\ UNCHANGED <<sw, swCache, dm, dmCache, pil, todo, shown, presented, verdict, canvasError>>
  BY DEF EndVerify
<1>2. CachesOk' /\ SameHandles(swCache, swCache') /\ AllTried'
  <2>1. DmOk(dm') /\ presented' \in BOOLEAN /\ shown' \subseteq BitmapFields /\ sw'.textures = sw.textures
    BY <1>1 DEF DispInv, CachesOk, DisplayTypeOK
  <2> QED  BY <1>1, <2>1, CachesStay
<1>3. PhaseOk'
  BY <1>1 DEF DispInv, PhaseOk
<1>4. BufferOk'
  BY <1>1, <1>2, BufferKept
<1>5. MirrorOk'
  BY <1>1 DEF DispInv, MirrorOk, Painted
<1>6. VerdictOk'
  BY <1>1 DEF DispInv, VerdictOk
<1>7. SwOk(sw)'
  BY <1>1 DEF DispInv
<1> QED  BY <1>2, <1>3, <1>4, <1>5, <1>6, <1>7 DEF DispInv

\* What the user and the window system do changes the screen alone.
LEMMA ScreenKeeps ==
  ASSUME DisplayAssumption, DispInv, SwOk(sw'), Changes(sw, sw', {"screen"}), MirrorOk',
         UNCHANGED <<swCache, dm, dmCache, pil, phase, todo, shown, presented, verdict, canvasError>>
  PROVE  DispInv' /\ sw'.wild = sw.wild
<1>1. /\ sw'.window = sw.window /\ sw'.textures = sw.textures /\ sw'.wild = sw.wild
      /\ sw'.contexts = sw.contexts
  <2>1. DOMAIN sw = SwFields
    BY DEF DispInv, SwOk
  <2> QED  BY <2>1 DEF Changes, SwFields
<1>2. CachesOk' /\ SameHandles(swCache, swCache')
  <2>1. /\ DmOk(dm') /\ presented' \in BOOLEAN /\ shown' \subseteq BitmapFields
        /\ phase' \in {"loading", "idle", "drawing", "verifying", "ended"}
    BY DEF DispInv, CachesOk, DisplayTypeOK
  <2> QED  BY <1>1, <2>1, CachesStay
<1>3. AllTried'
  <2>1. \A id : Tried(id)' <=> Tried(id)
    BY <1>1 DEF Tried
  <2> QED  BY <2>1 DEF DispInv, AllTried
<1>4. PhaseOk'
  BY <1>1 DEF DispInv, PhaseOk
<1>5. BufferOk'
  BY <1>1 DEF DispInv, BufferOk
<1>6. VerdictOk'
  BY <1>1 DEF DispInv, VerdictOk
<1> QED  BY <1>1, <1>2, <1>3, <1>4, <1>5, <1>6 DEF DispInv

\* Painting shows the double buffer.
LEMMA DispHandleWindowEvents ==
  ASSUME DisplayAssumption, DispInv, HandleWindowEvents PROVE DispInv' /\ sw'.wild = sw.wild
<1>1. /\ phase = "idle" /\ OnWindows(sw.screen) /\ sw' = Sw!WinHandleEvents(sw)
      /\ UNCHANGED <<swCache, dm, dmCache, pil, phase, todo, shown, presented, verdict, canvasError>>
  BY DEF HandleWindowEvents
<1>2. /\ SwOk(sw') /\ Changes(sw, sw', {"screen"}) /\ OnWindows(sw'.screen)
      /\ sw.screen.painted => sw' = sw
      /\ ~sw.screen.painted => Shows(sw'.screen) = Buffer(sw.window)
  BY <1>1, HandleEventsDoes DEF DispInv
<1>3. sw'.window = sw.window
  BY <1>2 DEF DispInv, SwOk, SwFields, Changes
<1>4. MirrorOk'
  BY <1>1, <1>2, <1>3 DEF DispInv, MirrorOk, Painted
<1> QED  BY <1>1, <1>2, <1>4, ScreenKeeps

\* An uncovered window is to be painted.
LEMMA DispUncover ==
  ASSUME DisplayAssumption, DispInv, Uncover PROVE DispInv' /\ sw'.wild = sw.wild
<1>1. /\ OnWindows(sw.screen) /\ sw' = Sw!WinUncover(sw)
      /\ UNCHANGED <<swCache, dm, dmCache, pil, phase, todo, shown, presented, verdict, canvasError>>
  BY DEF Uncover
<1>2. /\ SwOk(sw') /\ Changes(sw, sw', {"screen"}) /\ OnWindows(sw'.screen)
      /\ sw.window.valid => ~sw'.screen.painted
  BY <1>1, UncoverDoes DEF DispInv
<1>3. sw'.window = sw.window
  BY <1>2 DEF DispInv, SwOk, SwFields, Changes
<1>4. MirrorOk'
  BY <1>2, <1>3 DEF MirrorOk, Painted
<1> QED  BY <1>1, <1>2, <1>4, ScreenKeeps

\* Loading writes no pixel.
LEMMA LoadKeepsWild ==
  ASSUME DisplayAssumption, CacheInv, DispInv, LoadNext PROVE sw'.wild = sw.wild
<1>1. PICK id \in todo : sw' = LoadSw(id).gil
  BY DEF LoadNext
<1>2. id \in Bitmaps
  BY DEF LoadNext, DispInv, PhaseOk
<1>3. Changes(sw, sw', {"textures", "asserted"}) /\ DOMAIN sw = SwFields
  BY <1>1, <1>2, LoadSwDoes DEF DispInv, SwOk
<1> QED  BY <1>3 DEF Changes, SwFields

\* Every step.
LEMMA DispNext ==
  ASSUME DisplayAssumption, ImagesAssumption, CacheInv, DispInv, [Next]_vars
  PROVE  DispInv' /\ WildOnlyUnfit
<1> USE DisplayAssumption, ImagesAssumption
<1>0. sw'.wild = sw.wild => WildOnlyUnfit
  BY DEF WildOnlyUnfit
<1>1. CASE LoadNext
  BY <1>0, <1>1, DispLoadNext, LoadKeepsWild
<1>2. CASE Loaded
  BY <1>0, <1>2, DispLoaded DEF Loaded
<1>3. CASE \E visible \in SUBSET BitmapFields : Cardinality(visible) <= MaxShown /\ BeginFrame(visible)
  BY <1>0, <1>3, DispBeginFrame
<1>4. CASE DrawBitmap
  BY <1>4, DispDrawBitmap
<1>5. CASE SwapBuffers
  BY <1>0, <1>5, DispSwapBuffers
<1>6. CASE \E visible \in SUBSET ReferenceFields : BeginVerify(visible)
  BY <1>0, <1>6, DispBeginVerify
<1>7. CASE VerifyBitmap
  BY <1>0, <1>7, DispVerifyBitmap
<1>8. CASE EndVerify
  BY <1>0, <1>8, DispEndVerify DEF EndVerify
<1>9. CASE HandleWindowEvents
  BY <1>0, <1>9, DispHandleWindowEvents
<1>10. CASE Uncover
  BY <1>0, <1>10, DispUncover
<1>11. CASE UNCHANGED vars
  <2>1. UNCHANGED <<sw, swCache, dm, dmCache, pil, phase, todo, shown, presented, verdict, canvasError>>
    BY <1>11 DEF vars
  <2>2. MirrorOk' /\ SwOk(sw') /\ Changes(sw, sw', {"screen"})
    BY <2>1 DEF DispInv, MirrorOk, Painted, Changes
  <2> QED  BY <1>0, <2>1, <2>2, ScreenKeeps
<1> QED
  BY <1>1, <1>2, <1>3, <1>4, <1>5, <1>6, <1>7, <1>8, <1>9, <1>10, <1>11 DEF Next

-----------------------------------------------------------------------------
(* The theorems.                                                           *)

\* The invariant, of every reachable state.
LEMMA DispAlways == Spec => [](CacheInv /\ DispInv)
<1>1. Init => CacheInv /\ DispInv
  BY CacheInit, DispInit, DisplayAssumption
<1>2. CacheInv /\ DispInv /\ [Next]_vars => (CacheInv /\ DispInv)'
  BY CacheNext, DispNext, DisplayAssumption, ImagesAssumption
<1> QED  BY <1>1, <1>2, PTL DEF Spec

\* The types, which say that neither graphics layer has more textures than its limit
\* and that sizes keep to 16 bits.
THEOREM DisplayTyped == Spec => []DisplayTypeOK
<1>1. DispInv => DisplayTypeOK
  BY DEF DispInv, CachesOk
<1> QED  BY <1>1, DispAlways, PTL

\* Nothing is written behind the end of a buffer except by the drawing of a field
\* whose image does not lie in the window: not by a clear, not by a swap to a
\* memory that has room for the window, and not by what loads and verifies.
THEOREM WritesAreInside == Spec => WritesStayInside
<1>1. CacheInv /\ DispInv /\ [Next]_vars => WildOnlyUnfit
  BY DispNext, DisplayAssumption, ImagesAssumption
<1>2. CacheInv /\ DispInv /\ [Next]_vars => [WildOnlyUnfit]_vars
  BY <1>1
<1> QED  BY <1>2, DispAlways, PTL DEF Spec, WritesStayInside

\* A frame shows what the database describes (Window::render, Canvas::drawBitmap,
\* gilDrawQuad, gilSwapBuffers): for every set of images and fields, every order and
\* overlap of them, every format, and every screen with room for the window.
THEOREM FramesShowTheDatabase == Spec => []ShownAsDescribed
<1>1. DispInv => ShownAsDescribed
  <2> SUFFICES ASSUME DispInv, presented, Painted, phase \in {"idle", "verifying"},
                      sw.window.valid, \A f \in shown : Usable(f)
               PROVE  Describes([p \in Places |-> OnScreen(p[1], p[2])], Positions(Order, shown))
    BY DEF ShownAsDescribed
  <2>1. DescribesIn(sw.window, Buffer(sw.window), Positions(Order, shown))
    BY UsableIs DEF DispInv, BufferOk, BufferShows
  <2>2. Shows(sw.screen) = Buffer(sw.window)
    BY DEF DispInv, MirrorOk
  <2>3. [p \in Places |-> OnScreen(p[1], p[2])] = Shows(sw.screen)
    BY DEF OnScreen, Shows
  <2>4. Describes(Buffer(sw.window), Positions(Order, shown))
    BY <2>1 DEF DescribesIn, Describes
  <2> QED  BY <2>2, <2>3, <2>4
<1> QED  BY <1>1, DispAlways, PTL

\* A verdict on a usable field is about what the screen shows (Canvas::verify,
\* gilVerify), for as long as it stands.
THEOREM VerdictsAreOfTheScreen == Spec => []VerifiedIsOnScreen
<1>1. DispInv => VerifiedIsOnScreen
  <2> SUFFICES ASSUME DispInv, presented, Painted, NEW f \in DOMAIN verdict, Usable(f)
               PROVE  verdict[f].sw <=> \A p \in Places :
                        Covers(f, p[1], p[2]) => OnScreen(p[1], p[2]) = PixelOf(f, p[1], p[2])
    BY DEF VerifiedIsOnScreen
  <2>1. verdict[f].sw <=> ShowsImage(Buffer(sw.window), f)
    BY UsableIs DEF DispInv, VerdictOk
  <2>2. Shows(sw.screen) = Buffer(sw.window)
    BY DEF DispInv, MirrorOk, Usable, Textured
  <2>3. \A p \in Places : Shows(sw.screen)[p] = OnScreen(p[1], p[2])
    BY DEF Shows, OnScreen
  <2> QED  BY <2>1, <2>2, <2>3 DEF ShowsImage
<1> QED  BY <1>1, DispAlways, PTL

-----------------------------------------------------------------------------
(* The dummy beside the software renderer.                                 *)

\* What the dummy notes of a field, and the fields that are in such notes.
BlitOf(f)       == [x |-> FieldArea[f].x, y |-> FieldArea[f].y, crc |-> ImageOf(f).pixels]
Noted(blits, f) == \E k \in 1..Len(blits) : blits[k] = BlitOf(f)
Blits           == {BlitOf(f) : f \in BitmapFields}

HasTexture(f) == Fields[f].bitmap \in Bitmaps /\ Loadable(ImageOf(f))

\* They are those of the fields at these positions, and nothing else.
NotesOf(blits, S) ==
  /\ \A i \in S : HasTexture(Order[i]) => Noted(blits, Order[i])
  /\ \A k \in 1..Len(blits) : \E i \in S : HasTexture(Order[i]) /\ blits[k] = BlitOf(Order[i])

\* A set of positions has a last one: the set of those from some position on that no
\* other is contained in begins there.
LEMMA LastOf ==
  ASSUME NEW n \in Nat, NEW C \in SUBSET (1..n), C # {}
  PROVE  \E i \in C : \A j \in C : j <= i
<1> DEFINE From(i) == {j \in C : j >= i}
           T == {From(i) : i \in C}
           R == StrictSubsetOrdering(C)
<1>1. IsFiniteSet(C)
  <2>1. 1 \in Int /\ n \in Int
    OBVIOUS
  <2>2. IsFiniteSet(1..n)
    BY <2>1, FS_Interval
  <2> QED  BY <2>2, FS_Subset
<1>2. FiniteSubsetsOf(C) = SUBSET C
  BY <1>1, FS_FiniteSubsetsOfFinite
<1>3. IsWellFoundedOn(R, SUBSET C)
  BY <1>2, FS_StrictSubsetOrderingWellFounded
<1>4. T \subseteq SUBSET C /\ T # {}
  OBVIOUS
<1>5. PICK x \in T : \A y \in T : <<y, x>> \notin R
  <2> HIDE DEF T, R
  <2> QED  BY <1>3, <1>4, WFMin
<1>6. PICK i \in C : x = From(i)
  BY <1>5
<1>7. ASSUME NEW j \in C, j > i PROVE FALSE
  <2>1. From(j) \subseteq From(i) /\ From(i) # From(j)
    <3>1. i \in From(i) /\ i \notin From(j)
      BY <1>7
    <3>2. \A k \in C : k \in Int
      OBVIOUS
    <3>3. \A k \in C : k >= j => k >= i
      BY <1>7, <3>2
    <3>4. From(j) \subseteq From(i)
      BY <3>3
    <3> QED  BY <3>1, <3>4
  <2>2. <<From(j), From(i)>> \in R
    BY <2>1 DEF StrictSubsetOrdering
  <2> QED  BY <1>5, <1>6, <2>2
<1> QED  BY <1>7

\* The dummy takes two fields for one another when they are alike.
LEMMA BlitsAlike ==
  ASSUME DisplayAssumption, NEW f \in DOMAIN Fields, NEW g \in DOMAIN Fields
  PROVE  BlitOf(f) = BlitOf(g) <=> Alike(f, g)
<1>1. /\ FieldArea[f].x = X[f] * 16 /\ FieldArea[f].y = Y[f] * 16
      /\ FieldArea[g].x = X[g] * 16 /\ FieldArea[g].y = Y[g] * 16
  BY FieldExactly
<1>2. X[f] \in Int /\ Y[f] \in Int /\ X[g] \in Int /\ Y[g] \in Int
  BY FieldPlace
<1>3. \A i, j \in Int : i * 16 = j * 16 <=> i = j
  OBVIOUS
<1>4. BlitOf(f) = BlitOf(g) <=>
        /\ FieldArea[f].x = FieldArea[g].x /\ FieldArea[f].y = FieldArea[g].y
        /\ ImageOf(f).pixels = ImageOf(g).pixels
  BY DEF BlitOf
<1>5. FieldArea[f].x = FieldArea[g].x <=> X[f] = X[g]
  <2>1. X[f] * 16 = X[g] * 16 <=> X[f] = X[g]
    BY ONLY <1>2, <1>3
  <2> QED  BY ONLY <1>1, <2>1
<1>6. FieldArea[f].y = FieldArea[g].y <=> Y[f] = Y[g]
  <2>1. Y[f] * 16 = Y[g] * 16 <=> Y[f] = Y[g]
    BY ONLY <1>2, <1>3
  <2> QED  BY ONLY <1>1, <2>1
<1> QED  BY <1>4, <1>5, <1>6 DEF Alike

\* Of the shown fields that cover a place one is on top.
LEMMA SomeOnTop ==
  ASSUME DisplayAssumption, NEW S \in SUBSET (1..Len(Order)), NEW p \in Places,
         NEW i \in S, Covers(Order[i], p[1], p[2])
  PROVE  \E j \in S : OnTop(j, S, p)
<1> DEFINE C == {j \in S : Covers(Order[j], p[1], p[2])}
<1>1. Len(Order) \in Nat
  BY DEF DisplayAssumption
<1>2. C \in SUBSET (1..Len(Order)) /\ C # {}
  OBVIOUS
<1>3. PICK j \in C : \A k \in C : k <= j
  <2> HIDE DEF C
  <2> QED  BY <1>1, <1>2, LastOf
<1> QED  BY <1>3 DEF OnTop

\* A usable field can be drawn.
LEMMA UsableDrawable ==
  ASSUME DisplayAssumption, CachesOk, NEW f \in DOMAIN Fields, Usable(f)
  PROVE  Drawable(f) /\ HasTexture(f) /\ ConvertFormat(ImageOf(f)) = sw.window.format
<1>1. Fields[f].bitmap \in Bitmaps
  BY FieldPlace DEF Usable, Textured
<1>2. Loadable(ImageOf(f))
  BY <1>1 DEF Usable, Textured, CachesOk, Sizes, ImageOf
<1> QED  BY <1>1, <1>2 DEF Usable, Textured, Drawable, HasTexture

\* On a frame of usable fields, whose picture the double buffer has and whose fields the
\* dummy has noted, its verdict and that of the software renderer agree as far as they can.
LEMMA VerdictsAgree ==
  ASSUME DisplayAssumption, ImagesTellApart, CachesOk,
         shown \subseteq BitmapFields, \A f \in shown : Usable(f),
         DescribesIn(sw.window, Buffer(sw.window), Positions(Order, shown)),
         NotesOf(dm.blits, Positions(Order, shown)), NEW r \in ReferenceFields, Usable(r)
  PROVE  /\ ShowsImage(Buffer(sw.window), r) => Noted(dm.blits, r)
         /\ Noted(dm.blits, r) => \/ ShowsImage(Buffer(sw.window), r)
                        \/ \E f, g \in shown : f # g /\ Overlap(f, g)
<1> DEFINE S == Positions(Order, shown)
           B == Buffer(sw.window)
<1>1. S \in SUBSET (1..Len(Order)) /\ (\A i \in S : Order[i] \in shown /\ Order[i] \in BitmapFields)
  BY DEF Positions
<1>2. r \in DOMAIN Fields /\ BitmapFields \subseteq DOMAIN Fields
  BY DEF DisplayAssumption, ReferenceFields, BitmapFields
<1>3. Drawable(r) /\ ConvertFormat(ImageOf(r)) = sw.window.format
  BY <1>2, UsableDrawable
<1>4. ASSUME NEW i \in S
      PROVE  /\ Order[i] \in BitmapFields /\ Order[i] \in DOMAIN Fields /\ Drawable(Order[i])
             /\ HasTexture(Order[i]) /\ ConvertFormat(ImageOf(Order[i])) = sw.window.format
  BY <1>1, <1>2, UsableDrawable
<1>5. /\ Marked(r) /\ sw.window.format \in Sw!Settable
      /\ \A f \in BitmapFields : Drawable(f) /\ Alike(f, r) =>
           ImageOf(f).width = ImageOf(r).width /\ ImageOf(f).height = ImageOf(r).height
  BY <1>3 DEF ImagesTellApart
<1> HIDE DEF S, B
<1>6. ASSUME ShowsImage(B, r) PROVE Noted(dm.blits, r)
  <2>1. PICK p \in Places :
          /\ Covers(r, p[1], p[2]) /\ PixelOf(r, p[1], p[2]) # Fixed
          /\ \A f \in BitmapFields :
               /\ Drawable(f) /\ ConvertFormat(ImageOf(f)) = ConvertFormat(ImageOf(r))
               /\ Covers(f, p[1], p[2]) /\ PixelOf(f, p[1], p[2]) = PixelOf(r, p[1], p[2])
               => Alike(f, r)
    BY <1>5 DEF Marked
  <2>2. B[p] = PixelOf(r, p[1], p[2])
    BY <1>6, <2>1 DEF ShowsImage
  <2>3. PICK i \in S : Covers(Order[i], p[1], p[2])
    BY <1>5, <2>1, <2>2 DEF DescribesIn, S, B
  <2>4. PICK j \in S : OnTop(j, S, p)
    BY <1>1, <2>3, SomeOnTop
  <2>5. Covers(Order[j], p[1], p[2]) /\ B[p] = PixelOf(Order[j], p[1], p[2])
    BY <2>4 DEF DescribesIn, OnTop, S, B
  <2>6. Alike(Order[j], r)
    BY <1>3, <1>4, <2>1, <2>2, <2>5
  <2>7. BlitOf(Order[j]) = BlitOf(r)
    BY <1>2, <1>4, <2>6, BlitsAlike
  <2>8. Noted(dm.blits, Order[j])
    BY <1>4 DEF NotesOf, S
  <2> QED  BY <2>7, <2>8 DEF Noted
<1>7. ASSUME Noted(dm.blits, r), \A f, g \in shown : f # g => ~Overlap(f, g) PROVE ShowsImage(B, r)
  <2>1. PICK k \in 1..Len(dm.blits) : dm.blits[k] = BlitOf(r)
    BY <1>7 DEF Noted
  <2>2. PICK i \in S : dm.blits[k] = BlitOf(Order[i])
    BY DEF NotesOf, S
  <2> DEFINE f == Order[i]
  <2>3. Alike(f, r)
    BY <1>2, <1>4, <2>1, <2>2, BlitsAlike
  <2>4. ImageOf(f).width = ImageOf(r).width /\ ImageOf(f).height = ImageOf(r).height
    BY <1>4, <1>5, <2>3
  <2>5. \A p \in Places : /\ Covers(f, p[1], p[2]) <=> Covers(r, p[1], p[2])
                          /\ PixelOf(f, p[1], p[2]) = PixelOf(r, p[1], p[2])
    BY <2>3, <2>4 DEF Alike, Covers, PixelOf
  <2> SUFFICES ASSUME NEW p \in Places, Covers(r, p[1], p[2]) PROVE B[p] = PixelOf(r, p[1], p[2])
    BY DEF ShowsImage
  <2>6. PICK j \in S : OnTop(j, S, p)
    BY <1>1, <2>5, SomeOnTop
  <2>7. Covers(Order[j], p[1], p[2]) /\ B[p] = PixelOf(Order[j], p[1], p[2])
    BY <2>6 DEF DescribesIn, OnTop, S, B
  <2>8. Order[j] = f
    BY <1>1, <1>7, <2>5, <2>7 DEF Overlap
  <2> QED  BY <2>5, <2>7, <2>8
<1> QED  BY <1>6, <1>7 DEF S, B

\* A slot with a texture has that of its image.
DmKept(textures, cache) ==
  \A id \in Bitmaps : cache[id].handle # 0 =>
    /\ Loadable(Images[id]) /\ cache[id].handle \in 1..Len(textures)
    /\ textures[cache[id].handle] = Images[id].pixels

\* The bitmaps have their textures in the order they are loaded in, hence all that can.
DmLoaded ==
  /\ DmKept(dm.textures, dmCache)
  /\ phase = "loading" =>
       /\ \A id \in Bitmaps \ todo : Loadable(Images[id]) => dmCache[id].handle # 0
       /\ \A id \in todo : Len(dm.textures) < id
  /\ phase \in {"idle", "drawing", "verifying"} =>
       \A id \in Bitmaps : Loadable(Images[id]) => dmCache[id].handle # 0

\* While a frame is drawn, the dummy has noted the fields before the next; then all.
DmNotes ==
  /\ dm.blits \in Seq(Blits)
  /\ phase = "drawing" =>
       /\ NotesOf(dm.blits, Positions(Order, shown) \ todo)
       /\ \A i \in todo : Len(dm.blits) < i
  /\ presented /\ (phase \in {"idle", "verifying"} \/ DOMAIN verdict # {}) =>
       NotesOf(dm.blits, Positions(Order, shown))

\* Its verdict on a usable field is whether it has noted one like it.
DmVerdicts ==
  \A r \in DOMAIN verdict :
    UsableIn(sw.window, swCache, r) => (verdict[r].dm <=> Noted(dm.blits, r))

\* While there are verdicts, the double buffer is that of the frame.
FrameStays ==
  presented /\ DOMAIN verdict # {} =>
    BufferShows(sw.window, swCache, shown, Positions(Order, shown))

DoubleInv == DmLoaded /\ DmNotes /\ DmVerdicts /\ FrameStays

\* Loading a bitmap that has its texture, or cannot have one, leaves the dummy alone.
LEMMA LoadDmAgain ==
  ASSUME DisplayAssumption, DmOk(dm), dmCache \in [Slots -> Texture(DummyMaxTextures)],
         NEW id \in Bitmaps, dmCache[id].handle # 0 \/ ~Loadable(Images[id])
  PROVE  LoadDm(id).gil = dm /\ LoadDm(id).slot.handle = dmCache[id].handle
<1> DEFINE s == Sized(dmCache[id], Images[id])
<1>1. dmCache[id] \in Texture(DummyMaxTextures) /\ DummyMaxTextures \in Nat
  BY ImageTypes DEF DisplayAssumption
<1>2. PICK t : t \in 0..DummyMaxTextures
  <2>1. 0 \in 0..DummyMaxTextures
    BY <1>1
  <2> QED  BY <2>1
<1>3. /\ s \in Texture(DummyMaxTextures) /\ s.handle = dmCache[id].handle
      /\ [s EXCEPT !.handle = t] \in Texture(DummyMaxTextures)
  BY <1>1, <1>2, SizedIs
<1>4. CASE dmCache[id].handle # 0
  BY <1>4 DEF LoadDm
<1>5. CASE dmCache[id].handle = 0 /\ ~Loadable(Images[id])
  <2>1. LoadDm(id).gil = dm /\ LoadDm(id).slot = s
    BY <1>5 DEF LoadDm
  <2> HIDE DEF s
  <2> QED  BY <1>3, <2>1
<1> QED  BY <1>4, <1>5

\* Otherwise it gets a texture of its own, with the pixels of the image.
LEMMA LoadDmNew ==
  ASSUME DisplayAssumption, DmOk(dm), dmCache \in [Slots -> Texture(DummyMaxTextures)],
         NEW id \in Bitmaps, dmCache[id].handle = 0, Loadable(Images[id]),
         Len(dm.textures) < DummyMaxTextures
  PROVE  LET d == LoadDm(id)
             n == Len(dm.textures)
         IN  /\ d.gil.blits = dm.blits /\ d.gil.broken = dm.broken
             /\ d.slot.handle = n + 1 /\ Len(d.gil.textures) = n + 1
             /\ d.gil.textures[n + 1] = Images[id].pixels
             /\ \A i \in 1..n : d.gil.textures[i] = dm.textures[i]
<1> DEFINE l == LoadDm(id)
           s == Sized(dmCache[id], Images[id])
           t == Dm!DummyNewTexture(dm)
           n == Len(dm.textures)
           e == Dm!DummyCreateTexture(dm)
           x == Images[id].pixels
           k == Dm!DummyTexPixels(e, t, x)
<1>1. /\ id \in Slots /\ DummyMaxTextures \in Nat /\ dmCache[id] \in Texture(DummyMaxTextures)
      /\ n \in Nat /\ n < DummyMaxTextures /\ dm.textures \in Seq(DmTextures)
      /\ DOMAIN dm = DmFields
  BY ImageTypes DEF DisplayAssumption, DmOk
<1>2. t = n + 1 /\ t \in 0..DummyMaxTextures
  BY <1>1 DEF Dm!DummyNewTexture
<1>3. [s EXCEPT !.handle = t].handle = t
  <2> HIDE DEF t
  <2> QED  BY <1>1, <1>2, SizedIs
<1>4. l.gil = k /\ l.slot = [s EXCEPT !.handle = t]
  <2> HIDE DEF s, t
  <2> QED  BY DEF LoadDm, s, t
<1>5. /\ DOMAIN e = DmFields /\ e.textures = Append(dm.textures, Dm!NoCrc)
      /\ e.blits = dm.blits /\ e.broken = dm.broken
  <2>1. e = [dm EXCEPT !.textures = Append(dm.textures, Dm!NoCrc)]
    BY <1>1 DEF Dm!DummyCreateTexture
  <2> QED  BY <1>1, <2>1 DEF DmFields
<1> HIDE DEF e, t, x
<1>6. /\ e.textures \in Seq(DmTextures) /\ Len(e.textures) = n + 1
      /\ \A i \in 1..n : e.textures[i] = dm.textures[i]
  <2>1. Dm!NoCrc \in DmTextures
    BY DEF DmTextures
  <2> QED  BY <1>1, <1>5, <2>1
<1>7. k = [e EXCEPT !.textures[t] = x]
  <2>1. t \in 1..Len(e.textures)
    BY <1>1, <1>2, <1>6
  <2> QED  BY <2>1 DEF Dm!DummyTexPixels
<1>8. /\ k.textures = [e.textures EXCEPT ![t] = x] /\ k.blits = e.blits /\ k.broken = e.broken
  BY <1>5, <1>7 DEF DmFields
<1> HIDE DEF k
<1>9. x \in DmTextures
  BY DEF DmTextures, x
<1>10. /\ Len(k.textures) = n + 1 /\ k.textures[n + 1] = x
       /\ \A i \in 1..n : k.textures[i] = dm.textures[i]
  <2>1. n \in Nat /\ t = n + 1 /\ e.textures \in Seq(DmTextures) /\ Len(e.textures) = n + 1
    BY <1>1, <1>2, <1>6
  <2>2. t \in 1..Len(e.textures)
    BY <2>1
  <2>3. /\ k.textures \in Seq(DmTextures) /\ Len(k.textures) = Len(e.textures)
        /\ k.textures[t] = x /\ \A i \in 1..n : k.textures[i] = e.textures[i]
    <3>1. k.textures = [e.textures EXCEPT ![t] = x]
      BY <1>8
    <3> QED  BY ONLY <1>9, <2>1, <2>2, <3>1
  <2> QED  BY <1>6, <2>1, <2>3
<1> HIDE DEF s, l
<1> QED  BY <1>2, <1>3, <1>4, <1>5, <1>8, <1>10 DEF l, x

\* Later steps load no texture.
LEMMA DmLoadedStays ==
  ASSUME DmLoaded, phase \in {"idle", "drawing", "verifying"},
         phase' \in {"idle", "drawing", "verifying", "ended"}, dm'.textures = dm.textures,
         \A id \in Bitmaps : dmCache'[id].handle = dmCache[id].handle
  PROVE  DmLoaded'
<1>1. DmKept(dm'.textures, dmCache')
  BY DEF DmLoaded, DmKept
<1>2. DmKept(dm.textures, dmCache)'
  BY <1>1 DEF DmKept
<1> QED  BY <1>2 DEF DmLoaded

\* A field that is drawn is noted.
LEMMA OneNoted ==
  ASSUME NEW blits \in Seq(Blits), NEW S, NEW i, Order[i] \in BitmapFields, NotesOf(blits, S)
  PROVE  /\ HasTexture(Order[i]) =>
              LET new == Append(blits, BlitOf(Order[i]))
              IN  new \in Seq(Blits) /\ Len(new) = Len(blits) + 1 /\ NotesOf(new, S \cup {i})
         /\ ~HasTexture(Order[i]) => NotesOf(blits, S \cup {i})
<1> DEFINE b == BlitOf(Order[i])
           new == Append(blits, b)
           n == Len(blits)
<1>1. b \in Blits
  BY DEF Blits
<1> HIDE DEF b
<1>2. /\ n \in Nat /\ new \in Seq(Blits) /\ Len(new) = n + 1 /\ new[n + 1] = b
      /\ \A k \in 1..n : new[k] = blits[k]
  BY <1>1
<1> HIDE DEF new
<1>3. ASSUME HasTexture(Order[i]) PROVE NotesOf(new, S \cup {i})
  <2>1. \A f : Noted(blits, f) => Noted(new, f)
    BY <1>2 DEF Noted
  <2>2. Noted(new, Order[i])
    BY <1>2 DEF Noted, b
  <2>3. ASSUME NEW k \in 1..Len(new)
        PROVE  \E j \in S \cup {i} : HasTexture(Order[j]) /\ new[k] = BlitOf(Order[j])
    <3>1. CASE k \in 1..n
      BY <1>2, <3>1 DEF NotesOf
    <3>2. CASE k = n + 1
      BY <1>2, <1>3, <3>2 DEF b
    <3>3. k \in 1..n \/ k = n + 1
      BY <1>2
    <3> QED  BY <3>1, <3>2, <3>3
  <2> QED  BY <2>1, <2>2, <2>3 DEF NotesOf
<1>4. ~HasTexture(Order[i]) => NotesOf(blits, S \cup {i})
  BY DEF NotesOf
<1> QED  BY <1>2, <1>3, <1>4 DEF new, b

\* Drawing a field notes it, if its bitmap has a texture and there is room for the note.
LEMMA DmDrawDoes ==
  ASSUME DisplayAssumption, DmOk(dm), dmCache \in [Slots -> Texture(DummyMaxTextures)],
         DmLoaded, phase \in {"idle", "drawing", "verifying"}, Len(dm.blits) # MaxBlits,
         NEW f \in DOMAIN Fields, DrawField(f)
  PROVE  /\ dm'.textures = dm.textures
         /\ \A i \in Bitmaps : dmCache'[i].handle = dmCache[i].handle
         /\ HasTexture(f) => dm'.blits = Append(dm.blits, BlitOf(f)) /\ dm'.broken = dm.broken
         /\ ~HasTexture(f) => dm'.blits = dm.blits
         /\ Fields[f].bitmap \notin Bitmaps => dm'.broken = dm.broken
<1> DEFINE id == Fields[f].bitmap
           a  == FieldArea[f]
<1>0. DOMAIN dm = DmFields /\ (id \in Slots <=> id \in Bitmaps)
  BY FieldPlace DEF DmOk
<1>1. CASE id \in Bitmaps
  <2> DEFINE d == LoadDm(id)
             h == Dm!DummyBindTexture(d.gil, d.slot.handle)
  <2>1. /\ dm' = Dm!DummyDrawQuad(h, a.x, a.y)
        /\ dmCache' = [dmCache EXCEPT ![id] = d.slot]
    BY <1>0, <1>1 DEF DrawField
  <2>2. d.gil = dm /\ d.slot.handle = dmCache[id].handle
    BY <1>1, LoadDmAgain DEF DmLoaded
  <2>3. \A i \in Bitmaps : dmCache'[i].handle = dmCache[i].handle
    <3> HIDE DEF d
    <3> QED  BY <1>1, <2>1, <2>2, ImageTypes
  <2>4. h = [dm EXCEPT !.texture = dmCache[id].handle]
    BY <2>2 DEF Dm!DummyBindTexture
  <2> HIDE DEF d, h, a
  <2>5. /\ DOMAIN h = DmFields /\ h.textures = dm.textures /\ h.blits = dm.blits
        /\ h.broken = dm.broken /\ h.texture = dmCache[id].handle
    BY <1>0, <2>4 DEF DmFields
  <2>6. CASE Loadable(Images[id])
    <3>1. dmCache[id].handle # 0 /\ dm.textures[dmCache[id].handle] = Images[id].pixels
      BY <1>1, <2>6 DEF DmLoaded, DmKept
    <3>2. Dm!Crc(h) = Images[id].pixels
      BY <2>5, <3>1 DEF Dm!Crc
    <3>3. dm' = [h EXCEPT !.blits = Append(h.blits, [x |-> a.x, y |-> a.y, crc |-> Dm!Crc(h)])]
      BY <2>1, <2>5, <3>1 DEF Dm!DummyDrawQuad
    <3>4. BlitOf(f) = [x |-> a.x, y |-> a.y, crc |-> Dm!Crc(h)]
      BY <3>2 DEF BlitOf, ImageOf, a
    <3>5. dm' = [h EXCEPT !.blits = Append(h.blits, BlitOf(f))]
      BY <3>3, <3>4
    <3>6. /\ dm'.textures = dm.textures /\ dm'.blits = Append(dm.blits, BlitOf(f))
          /\ dm'.broken = dm.broken
      BY <2>5, <3>5 DEF DmFields
    <3>7. HasTexture(f)
      BY <1>1, <2>6 DEF HasTexture, ImageOf
    <3> QED  BY <1>1, <2>3, <3>6, <3>7
  <2>7. CASE ~Loadable(Images[id])
    <3>1. h.texture = 0
      BY <1>1, <2>5, <2>7 DEF DmLoaded, DmKept
    <3>2. dm' = [h EXCEPT !.broken = TRUE]
      BY <2>1, <3>1 DEF Dm!DummyDrawQuad, Dm!Broken
    <3>3. dm'.textures = dm.textures /\ dm'.blits = dm.blits
      BY <2>5, <3>2 DEF DmFields
    <3>4. ~HasTexture(f)
      BY <2>7 DEF HasTexture, ImageOf
    <3> QED  BY <1>1, <2>3, <3>3, <3>4
  <2> QED  BY <2>6, <2>7
<1>2. CASE id \notin Bitmaps
  <2>1. dm' = dm /\ dmCache' = dmCache
    BY <1>0, <1>2 DEF DrawField
  <2> QED  BY <1>2, <2>1 DEF HasTexture
<1> QED  BY <1>1, <1>2

\* Verifying one tells whether it was noted.
LEMMA DmVerifyDoes ==
  ASSUME DisplayAssumption, DmOk(dm), dmCache \in [Slots -> Texture(DummyMaxTextures)],
         DmLoaded, phase \in {"idle", "drawing", "verifying"},
         NEW f \in DOMAIN Fields, VerifyField(f)
  PROVE  /\ dm'.textures = dm.textures /\ dm'.blits = dm.blits
         /\ \A i \in Bitmaps : dmCache'[i].handle = dmCache[i].handle
         /\ HasTexture(f) => /\ dm'.broken = dm.broken
                             /\ verdict'[f].dm <=> Noted(dm.blits, f)
         /\ Fields[f].bitmap \notin Bitmaps => dm'.broken = dm.broken
<1> DEFINE id == Fields[f].bitmap
           a  == FieldArea[f]
<1>0. DOMAIN dm = DmFields /\ (id \in Slots <=> id \in Bitmaps)
  BY FieldPlace DEF DmOk
<1>1. CASE id \in Bitmaps
  <2> DEFINE d == LoadDm(id)
             h == Dm!DummyBindTexture(d.gil, d.slot.handle)
             g == Sw!GilBindTexture(LoadSw(id).gil, 1, LoadSw(id).slot.handle)
             v == Sw!GilVerify(g, 1, a.x, a.y, 0, 0, LastFP(LoadSw(id).slot.width),
                                LastFP(LoadSw(id).slot.height))
             u == Dm!DummyVerify(h, a.x, a.y)
             o == [sw |-> v, dm |-> u]
  <2>1. /\ dm' = Dm!DummyVerified(h)
        /\ dmCache' = [dmCache EXCEPT ![id] = d.slot]
        /\ verdict' = [x \in DOMAIN verdict \cup {f} |-> IF x = f THEN o ELSE verdict[x]]
    BY <1>0, <1>1 DEF VerifyField
  <2>2. d.gil = dm /\ d.slot.handle = dmCache[id].handle
    BY <1>1, LoadDmAgain DEF DmLoaded
  <2>3. \A i \in Bitmaps : dmCache'[i].handle = dmCache[i].handle
    <3> HIDE DEF d
    <3> QED  BY <1>1, <2>1, <2>2, ImageTypes
  <2>4. h = [dm EXCEPT !.texture = dmCache[id].handle]
    BY <2>2 DEF Dm!DummyBindTexture
  <2>5. verdict'[f].dm <=> u
    <3>1. verdict'[f] = o
      <4> HIDE DEF o
      <4> QED  BY <2>1
    <3> HIDE DEF v, u
    <3> QED  BY <3>1
  <2> HIDE DEF d, h, a, g, v, u, o
  <2>6. /\ DOMAIN h = DmFields /\ h.textures = dm.textures /\ h.blits = dm.blits
        /\ h.broken = dm.broken /\ h.texture = dmCache[id].handle
    BY <1>0, <2>4 DEF DmFields
  <2>7. dm'.textures = dm.textures /\ dm'.blits = dm.blits
    BY <2>1, <2>6 DEF Dm!DummyVerified, Dm!Broken, DmFields
  <2>8. ASSUME HasTexture(f)
        PROVE  dm'.broken = dm.broken /\ (verdict'[f].dm <=> Noted(dm.blits, f))
    <3>1. dmCache[id].handle # 0 /\ dm.textures[dmCache[id].handle] = Images[id].pixels
      BY <1>1, <2>8 DEF DmLoaded, DmKept, HasTexture, ImageOf
    <3>2. Dm!Crc(h) = Images[id].pixels
      BY <2>6, <3>1 DEF Dm!Crc
    <3>3. BlitOf(f) = [x |-> a.x, y |-> a.y, crc |-> Dm!Crc(h)]
      BY <3>2 DEF BlitOf, ImageOf, a
    <3>4. u <=> Noted(dm.blits, f)
      BY <2>6, <3>1, <3>3 DEF Dm!DummyVerify, Noted, u
    <3>5. dm' = h
      BY <2>1, <2>6, <3>1 DEF Dm!DummyVerified
    <3> QED  BY <2>5, <2>6, <3>4, <3>5
  <2> QED  BY <1>1, <2>3, <2>7, <2>8
<1>2. CASE id \notin Bitmaps
  <2>1. dm' = dm /\ dmCache' = dmCache
    BY <1>0, <1>2 DEF VerifyField
  <2> QED  BY <1>2, <2>1 DEF HasTexture
<1> QED  BY <1>1, <1>2

\* The dummy begins with nothing.
LEMMA DoubleInit == Init => DoubleInv
<1> SUFFICES ASSUME Init PROVE DoubleInv
  OBVIOUS
<1>1. dm.textures = <<>> /\ dm.blits = <<>>
  BY DEF Init, Dm!DummyInit, Dm!DummyCreateContext, Dm!DummyCreateWindow
<1>2. /\ dmCache = [id \in Slots |-> NoTexture] /\ phase \in {"loading", "ended"}
      /\ todo = Bitmaps /\ presented = FALSE /\ DOMAIN verdict = {}
  BY DEF Init
<1>3. \A id \in Bitmaps : id \in Slots /\ id > 0
  BY ImageTypes, DisplayAssumption DEF Bitmaps
<1>4. \A id \in Bitmaps : dmCache[id].handle = 0
  BY <1>2, <1>3 DEF NoTexture
<1>5. Len(dm.textures) = 0
  BY <1>1
<1>6. DmLoaded
  BY <1>2, <1>3, <1>4, <1>5 DEF DmLoaded, DmKept
<1>7. dm.blits \in Seq(Blits)
  BY <1>1
<1> QED  BY <1>2, <1>6, <1>7 DEF DoubleInv, DmNotes, DmVerdicts, FrameStays

\* Each bitmap that can be loaded gets its texture.
LEMMA DoubleLoadNext ==
  ASSUME DisplayAssumption, DummyHasRoom, DispInv, DoubleInv, LoadNext
  PROVE  DoubleInv' /\ dm'.broken = dm.broken
<1>1. PICK id \in todo :
        /\ IsNext(id, todo) /\ dm' = LoadDm(id).gil
        /\ dmCache' = [dmCache EXCEPT ![id] = LoadDm(id).slot] /\ todo' = todo \ {id}
  BY DEF LoadNext
<1>2. /\ phase = "loading" /\ phase' \in {"loading", "ended"} /\ UNCHANGED <<presented, verdict>>
  BY DEF LoadNext, Then
<1>3. todo \subseteq Bitmaps /\ id \in Bitmaps /\ ~presented /\ DOMAIN verdict = {}
  BY <1>2 DEF DispInv, PhaseOk
<1>4. DmOk(dm) /\ dmCache \in [Slots -> Texture(DummyMaxTextures)]
  BY DEF DispInv, CachesOk, DisplayTypeOK
<1> DEFINE n == Len(dm.textures)
<1>5. /\ n \in Nat /\ n < id /\ id <= Len(Images) /\ DummyMaxTextures \in Nat /\ id \in Nat
      /\ Len(Images) \in Nat
  BY <1>2, <1>3, <1>4, DisplayAssumption DEF DoubleInv, DmLoaded, DmOk, Bitmaps
<1>6. n < DummyMaxTextures
  BY <1>5 DEF DummyHasRoom
<1>7. /\ dm'.blits = dm.blits /\ dm'.broken = dm.broken /\ Len(dm'.textures) \in {n, n + 1}
      /\ \A i \in 1..n : dm'.textures[i] = dm.textures[i]
      /\ Loadable(Images[id]) => dmCache'[id].handle # 0
      /\ dmCache'[id].handle # 0 =>
           /\ Loadable(Images[id]) /\ dmCache'[id].handle \in 1..Len(dm'.textures)
           /\ dm'.textures[dmCache'[id].handle] = Images[id].pixels
      /\ \A i \in Bitmaps \ {id} : dmCache'[i] = dmCache[i]
  <2> DEFINE d == LoadDm(id)
  <2>1. \A i \in Bitmaps : i \in Slots
    BY ImageTypes
  <2> HIDE DEF d, n
  <2>2. dm' = d.gil /\ dmCache' = [dmCache EXCEPT ![id] = d.slot]
    BY <1>1 DEF d
  <2>3. dmCache'[id] = d.slot /\ \A i \in Bitmaps \ {id} : dmCache'[i] = dmCache[i]
    BY <1>3, <1>4, <2>1, <2>2
  <2>4. CASE dmCache[id].handle # 0 \/ ~Loadable(Images[id])
    <3>1. d.gil = dm /\ d.slot.handle = dmCache[id].handle
      BY <1>3, <1>4, <2>4, LoadDmAgain DEF d
    <3>2. DmKept(dm.textures, dmCache)
      BY DEF DoubleInv, DmLoaded
    <3> QED  BY <1>3, <2>2, <2>3, <2>4, <3>1, <3>2 DEF DmKept, n
  <2>5. CASE dmCache[id].handle = 0 /\ Loadable(Images[id])
    <3>1. /\ d.gil.blits = dm.blits /\ d.gil.broken = dm.broken
          /\ d.slot.handle = n + 1 /\ Len(d.gil.textures) = n + 1
          /\ d.gil.textures[n + 1] = Images[id].pixels
          /\ \A i \in 1..n : d.gil.textures[i] = dm.textures[i]
      BY <1>3, <1>4, <1>6, <2>5, LoadDmNew DEF d, n
    <3>2. n + 1 # 0 /\ n + 1 \in 1..(n + 1)
      BY <1>5
    <3> QED  BY <2>2, <2>3, <2>5, <3>1, <3>2
  <2> QED  BY <2>4, <2>5
<1> HIDE DEF n
<1>8. DmKept(dm'.textures, dmCache')
  <2> SUFFICES ASSUME NEW i \in Bitmaps, dmCache'[i].handle # 0
               PROVE  /\ Loadable(Images[i]) /\ dmCache'[i].handle \in 1..Len(dm'.textures)
                      /\ dm'.textures[dmCache'[i].handle] = Images[i].pixels
    BY DEF DmKept
  <2>1. CASE i = id
    BY <1>7, <2>1
  <2>2. CASE i # id
    <3>1. /\ Loadable(Images[i]) /\ dmCache'[i].handle \in 1..n
          /\ dm.textures[dmCache'[i].handle] = Images[i].pixels
      BY <1>7, <2>2 DEF DoubleInv, DmLoaded, DmKept, n
    <3>2. \A t \in 1..n : t \in 1..Len(dm'.textures)
      BY <1>5, <1>7
    <3> QED  BY <1>7, <3>1, <3>2
  <2> QED  BY <2>1, <2>2
<1>9. \A i \in Bitmaps \ todo' : Loadable(Images[i]) => dmCache'[i].handle # 0
  <2>1. \A i \in Bitmaps \ todo : Loadable(Images[i]) => dmCache[i].handle # 0
    BY <1>2 DEF DoubleInv, DmLoaded
  <2> QED  BY <1>1, <1>7, <2>1
<1>10. ASSUME NEW i \in todo' PROVE Len(dm'.textures) < i
  <2>1. i \in Nat /\ id <= i /\ id # i
    BY <1>1, <1>3 DEF IsNext, Bitmaps
  <2> QED  BY <1>5, <1>7, <2>1
<1>11. DmLoaded'
  <2>1. DmKept(dm.textures, dmCache)'
    BY <1>8 DEF DmKept
  <2> QED  BY <1>2, <1>9, <1>10, <2>1 DEF DmLoaded
<1>12. DmNotes'
  <2>1. dm'.blits \in Seq(Blits)
    BY <1>7 DEF DoubleInv, DmNotes
  <2>2. (dm.blits \in Seq(Blits))'
    BY <2>1 DEF Blits, BlitOf
  <2> QED  BY <1>2, <1>3, <2>2 DEF DmNotes
<1>13. DmVerdicts' /\ FrameStays'
  BY <1>2, <1>3 DEF DmVerdicts, FrameStays
<1> QED  BY <1>7, <1>11, <1>12, <1>13 DEF DoubleInv

\* Then all of them have.
LEMMA DoubleLoaded ==
  ASSUME DispInv, DoubleInv, Loaded PROVE DoubleInv'
<1>1. /\ phase = "loading" /\ todo = {} /\ phase' = "idle"
      /\ UNCHANGED <<dm, dmCache, presented, verdict>>
  BY DEF Loaded
<1>2. ~presented /\ DOMAIN verdict = {}
  BY <1>1 DEF DispInv, PhaseOk
<1>3. DmKept(dm.textures, dmCache)'
  BY <1>1 DEF DoubleInv, DmLoaded, DmKept
<1>4. DmLoaded'
  BY <1>1, <1>3 DEF DoubleInv, DmLoaded
<1>5. (dm.blits \in Seq(Blits))'
  BY <1>1 DEF DoubleInv, DmNotes, Blits, BlitOf
<1> QED  BY <1>1, <1>2, <1>4, <1>5 DEF DoubleInv, DmNotes, DmVerdicts, FrameStays

\* What a clear leaves has no note.
LEMMA DoubleBeginFrame ==
  ASSUME DisplayAssumption, DispInv, DoubleInv, NEW visible, BeginFrame(visible)
  PROVE  DoubleInv' /\ dm'.broken = dm.broken
<1>1. /\ phase = "idle" /\ phase' \in {"drawing", "ended"} /\ dm' = Dm!DummyClear(dm)
      /\ todo' = Positions(Order, visible) /\ shown' = visible /\ DOMAIN verdict' = {}
      /\ dmCache' = dmCache
  BY DEF BeginFrame, Then
<1>2. dm'.textures = dm.textures /\ dm'.blits = <<>> /\ dm'.broken = dm.broken
  BY <1>1 DEF DispInv, CachesOk, DmOk, DmFields, Dm!DummyClear
<1>3. DmLoaded'
  BY <1>1, <1>2, DmLoadedStays DEF DoubleInv
<1>4. (dm.blits \in Seq(Blits))'
  BY <1>2
<1>5. \A i \in todo' : Len(dm'.blits) < i
  BY <1>1, <1>2, DisplayAssumption DEF Positions
<1>6. NotesOf(dm'.blits, Positions(Order, shown') \ todo')
  BY <1>1, <1>2 DEF NotesOf
<1>7. DmNotes'
  BY <1>1, <1>4, <1>5, <1>6 DEF DmNotes, NotesOf, Noted
<1> QED  BY <1>1, <1>2, <1>3, <1>7 DEF DoubleInv, DmVerdicts, FrameStays

\* One more field is noted.
LEMMA DoubleDrawBitmap ==
  ASSUME DisplayAssumption, DummyHasRoom, DispInv, DoubleInv, DrawBitmap
  PROVE  DoubleInv' /\ BreaksOnlyUnloaded
<1>1. PICK i \in todo : IsNext(i, todo) /\ DrawField(Order[i]) /\ todo' = todo \ {i}
  BY DEF DrawBitmap
<1>2. /\ phase = "drawing" /\ phase' \in {"drawing", "ended"}
      /\ UNCHANGED <<pil, shown, presented, verdict>>
  BY DEF DrawBitmap, Then
<1> DEFINE f == Order[i]
           D == Positions(Order, shown) \ todo
           n == Len(dm.blits)
<1>3. /\ todo \subseteq Positions(Order, shown) /\ DOMAIN verdict = {}
  BY <1>2 DEF DispInv, PhaseOk
<1>4. /\ i \in 1..Len(Order) /\ f \in DOMAIN Fields /\ f \in BitmapFields
      /\ todo \subseteq 1..Len(Order) /\ Len(Order) \in Nat
  BY <1>3, DisplayAssumption DEF Positions, BitmapFields
<1>5. DmOk(dm) /\ dmCache \in [Slots -> Texture(DummyMaxTextures)]
  BY DEF DispInv, CachesOk, DisplayTypeOK
<1>6. DmLoaded /\ dm.blits \in Seq(Blits) /\ NotesOf(dm.blits, D) /\ \A j \in todo : n < j
  BY <1>2 DEF DoubleInv, DmNotes
<1>7. n \in Nat /\ n # MaxBlits
  <2>1. n \in Nat
    BY <1>6
  <2>2. n < i /\ i <= Len(Order) /\ Len(Order) <= MaxBlits /\ i \in Nat /\ Len(Order) \in Nat
        /\ MaxBlits \in Nat
    BY <1>1, <1>4, <1>6, DisplayAssumption DEF DummyHasRoom
  <2> HIDE DEF n
  <2> QED  BY ONLY <2>1, <2>2
<1>8. /\ dm'.textures = dm.textures
      /\ \A id \in Bitmaps : dmCache'[id].handle = dmCache[id].handle
      /\ HasTexture(f) => dm'.blits = Append(dm.blits, BlitOf(f)) /\ dm'.broken = dm.broken
      /\ ~HasTexture(f) => dm'.blits = dm.blits
      /\ Fields[f].bitmap \notin Bitmaps => dm'.broken = dm.broken
  BY <1>1, <1>2, <1>4, <1>5, <1>6, <1>7, DmDrawDoes
<1>9. DmLoaded'
  BY <1>2, <1>6, <1>8, DmLoadedStays
<1>10. /\ dm'.blits \in Seq(Blits) /\ Len(dm'.blits) \in {n, n + 1}
       /\ NotesOf(dm'.blits, D \cup {i})
  <2>1. CASE HasTexture(f)
    <3>1. dm'.blits = Append(dm.blits, BlitOf(f))
      BY <1>8, <2>1
    <3> DEFINE new == Append(dm.blits, BlitOf(Order[i]))
    <3> HIDE DEF D
    <3>2. new \in Seq(Blits) /\ Len(new) = n + 1 /\ NotesOf(new, D \cup {i})
      BY <1>4, <1>6, <2>1, OneNoted
    <3> HIDE DEF new
    <3>3. dm'.blits = new
      BY <3>1 DEF new
    <3> QED  BY <3>2, <3>3
  <2>2. CASE ~HasTexture(f)
    <3>1. dm'.blits = dm.blits
      BY <1>8, <2>2
    <3> HIDE DEF D
    <3> QED  BY <1>4, <1>6, <2>2, <3>1, OneNoted
  <2> QED  BY <2>1, <2>2
<1>11. D \cup {i} = Positions(Order, shown') \ todo'
  BY <1>1, <1>2, <1>3
<1>12. ASSUME NEW j \in todo' PROVE Len(dm'.blits) < j
  <2>1. i <= j /\ i # j /\ j \in Nat /\ i \in Nat /\ n < i
    BY <1>1, <1>4, <1>6 DEF IsNext
  <2> HIDE DEF n
  <2> QED  BY <1>7, <1>10, <2>1
<1>13. DmNotes'
  <2>1. (dm.blits \in Seq(Blits))'
    BY <1>10 DEF Blits, BlitOf
  <2>2. NotesOf(dm'.blits, Positions(Order, shown') \ todo')
    BY <1>10, <1>11
  <2> QED  BY <1>2, <1>3, <1>12, <2>1, <2>2 DEF DmNotes, NotesOf, Noted
<1>14. BreaksOnlyUnloaded
  BY <1>1, <1>2, <1>4, <1>8 DEF BreaksOnlyUnloaded, HasTexture
<1>15. DmVerdicts' /\ FrameStays'
  BY <1>2, <1>3 DEF DmVerdicts, FrameStays
<1> QED  BY <1>9, <1>13, <1>14, <1>15 DEF DoubleInv

\* The frame is complete, and so are its notes.
LEMMA DoubleSwapBuffers ==
  ASSUME DispInv, DoubleInv, SwapBuffers PROVE DoubleInv'
<1>1. /\ phase = "drawing" /\ todo = {} /\ phase' \in {"idle", "ended"}
      /\ UNCHANGED <<dm, dmCache, todo, shown, verdict>>
  BY DEF SwapBuffers, Then
<1>2. DOMAIN verdict = {}
  BY <1>1 DEF DispInv, PhaseOk
<1>3. DmLoaded'
  BY <1>1, DmLoadedStays DEF DoubleInv
<1>4. NotesOf(dm.blits, Positions(Order, shown))
  <2>1. Positions(Order, shown) \ todo = Positions(Order, shown)
    BY <1>1
  <2> QED  BY <1>1, <2>1 DEF DoubleInv, DmNotes
<1>5. DmNotes'
  BY <1>1, <1>4 DEF DoubleInv, DmNotes, Blits, BlitOf, NotesOf, Noted
<1> QED  BY <1>1, <1>2, <1>3, <1>5 DEF DoubleInv, DmVerdicts, FrameStays

\* Nothing is drawn while fields are verified, nor after it.
LEMMA FrameKept ==
  ASSUME DispInv, sw'.window = sw.window, SameHandles(swCache, swCache'),
         UNCHANGED <<shown, presented>>, phase \in {"idle", "verifying"}
  PROVE  FrameStays'
<1>1. WindowOk(sw.window)
  BY DEF DispInv, SwOk
<1>2. presented => BufferShows(sw.window, swCache, shown, Positions(Order, shown))
  BY DEF DispInv, BufferOk
<1>3. presented => BufferShows(sw'.window, swCache', shown', Positions(Order, shown'))
  BY <1>1, <1>2, BufferStays
<1> QED  BY <1>3 DEF FrameStays

\* A round begins without verdicts.
LEMMA DoubleBeginVerify ==
  ASSUME DispInv, DoubleInv, NEW visible, BeginVerify(visible) PROVE DoubleInv'
<1>1. /\ phase = "idle" /\ phase' \in {"verifying", "ended"} /\ DOMAIN verdict' = {}
      /\ UNCHANGED <<dm, dmCache, shown, presented>>
  BY DEF BeginVerify, Then
<1>2. DmLoaded'
  BY <1>1, DmLoadedStays DEF DoubleInv
<1>3. DmNotes'
  BY <1>1 DEF DoubleInv, DmNotes, Blits, BlitOf, NotesOf, Noted
<1> QED  BY <1>1, <1>2, <1>3 DEF DoubleInv, DmVerdicts, FrameStays

\* A verdict more, of notes that are still the same.
LEMMA DoubleVerifyBitmap ==
  ASSUME DisplayAssumption, ImagesAssumption, CacheInv, DispInv, DoubleInv, VerifyBitmap
  PROVE  DoubleInv' /\ BreaksOnlyUnloaded
<1>1. PICK i \in todo : IsNext(i, todo) /\ VerifyField(References[i]) /\ todo' = todo \ {i}
  BY DEF VerifyBitmap
<1>2. /\ phase = "verifying" /\ phase' \in {"verifying", "ended"}
      /\ UNCHANGED <<pil, shown, presented>>
  BY DEF VerifyBitmap, Then
<1> DEFINE f == References[i]
<1>3. i \in 1..Len(References) /\ f \in DOMAIN Fields
  BY <1>2, DisplayAssumption DEF DispInv, PhaseOk, Positions
<1>4. Fields[f].bitmap \in Bitmaps => Tried(Fields[f].bitmap)
  BY <1>2, <1>3, FieldTried
<1>5. /\ SwOk(sw) /\ CachesOk /\ VerifyField(f) /\ DOMAIN sw = SwFields /\ WindowOk(sw.window)
      /\ DmOk(dm) /\ dmCache \in [Slots -> Texture(DummyMaxTextures)] /\ DmLoaded
  BY <1>1 DEF DispInv, SwOk, CachesOk, DisplayTypeOK, DoubleInv
<1>6. f = References[i]
  OBVIOUS
<1> HIDE DEF f
<1>7. /\ Changes(sw, sw', {"contexts", "asserted"}) /\ Untouched
      /\ DOMAIN verdict' = DOMAIN verdict \cup {f}
      /\ \A x \in DOMAIN verdict : x # f => verdict'[x] = verdict[x]
  BY <1>3, <1>4, <1>5, VerifyFieldDoes
<1>8. sw'.window = sw.window /\ SameHandles(swCache, swCache') /\ Sizes(swCache')
  BY <1>5, <1>7 DEF Changes, SwFields, Untouched, SameHandles
<1>9. /\ dm'.textures = dm.textures /\ dm'.blits = dm.blits
      /\ \A id \in Bitmaps : dmCache'[id].handle = dmCache[id].handle
      /\ HasTexture(f) => /\ dm'.broken = dm.broken
                          /\ verdict'[f].dm <=> Noted(dm.blits, f)
      /\ Fields[f].bitmap \notin Bitmaps => dm'.broken = dm.broken
  BY <1>2, <1>3, <1>5, DmVerifyDoes
<1>10. DmLoaded'
  BY <1>2, <1>5, <1>9, DmLoadedStays
<1>11. DmNotes'
  <2>1. dm'.blits \in Seq(Blits) /\ (presented => NotesOf(dm'.blits, Positions(Order, shown')))
    BY <1>2, <1>9 DEF DoubleInv, DmNotes
  <2> QED  BY <1>2, <2>1 DEF DmNotes, Blits, BlitOf, NotesOf, Noted
<1>12. DmVerdicts'
  <2>1. \A x : UsableIn(sw'.window, swCache', x) <=> UsableIn(sw.window, swCache, x)
    <3>1. SameWindow(sw.window, sw'.window)
      BY <1>8 DEF SameWindow, Changes
    <3> QED  BY <1>5, <1>8, <3>1, SameUsable
  <2>2. ASSUME NEW x \in DOMAIN verdict', UsableIn(sw'.window, swCache', x)
        PROVE  verdict'[x].dm <=> Noted(dm'.blits, x)
    <3>1. CASE x = f
      <4>1. Usable(f)
        BY <2>1, <2>2, <3>1, UsableIs
      <4>2. HasTexture(f)
        BY <1>3, <1>5, <4>1, UsableDrawable
      <4> QED  BY <1>9, <3>1, <4>2
    <3>2. CASE x # f
      <4>1. x \in DOMAIN verdict /\ verdict'[x] = verdict[x] /\ UsableIn(sw.window, swCache, x)
        BY <1>7, <2>1, <2>2, <3>2
      <4> QED  BY <1>9, <4>1 DEF DoubleInv, DmVerdicts
    <3> QED  BY <3>1, <3>2
  <2> QED  BY <2>2 DEF DmVerdicts, UsableIn, Noted
<1>13. FrameStays'
  BY <1>2, <1>8, FrameKept
<1>14. BreaksOnlyUnloaded
  BY <1>1, <1>2, <1>3, <1>6, <1>9 DEF BreaksOnlyUnloaded, HasTexture
<1> QED  BY <1>10, <1>11, <1>12, <1>13, <1>14 DEF DoubleInv

\* The round is over and its verdicts stay.
LEMMA DoubleEndVerify ==
  ASSUME DispInv, DoubleInv, EndVerify PROVE DoubleInv'
<1>1. /\ phase = "verifying" /\ phase' = "idle"
      /\ UNCHANGED <<sw, swCache, dm, dmCache, shown, presented, verdict>>
  BY DEF EndVerify
<1>2. DmLoaded'
  BY <1>1, DmLoadedStays DEF DoubleInv
<1>3. DmNotes'
  BY <1>1 DEF DoubleInv, DmNotes, Blits, BlitOf, NotesOf, Noted
<1>4. SameHandles(swCache, swCache')
  BY <1>1 DEF SameHandles
<1>5. FrameStays'
  BY <1>1, <1>4, FrameKept
<1>6. DmVerdicts'
  BY <1>1 DEF DoubleInv, DmVerdicts, UsableIn, Noted
<1> QED  BY <1>2, <1>3, <1>5, <1>6 DEF DoubleInv

\* What happens to the screen alone does not concern the dummy.
LEMMA DoubleScreen ==
  ASSUME DoubleInv, sw'.window = sw.window,
         UNCHANGED <<swCache, dm, dmCache, phase, todo, shown, presented, verdict>>
  PROVE  DoubleInv'
<1>1. DmLoaded'
  BY DEF DoubleInv, DmLoaded, DmKept
<1>2. DmNotes'
  BY DEF DoubleInv, DmNotes, Blits, BlitOf, NotesOf, Noted
<1>3. DmVerdicts'
  BY DEF DoubleInv, DmVerdicts, UsableIn, Noted
<1>4. FrameStays'
  BY DEF DoubleInv, FrameStays
<1> QED  BY <1>1, <1>2, <1>3, <1>4 DEF DoubleInv

\* Every step.
LEMMA DoubleNext ==
  ASSUME DisplayAssumption, ImagesAssumption, DummyHasRoom, CacheInv, DispInv, DoubleInv,
         [Next]_vars
  PROVE  DoubleInv' /\ BreaksOnlyUnloaded
<1> USE DisplayAssumption, ImagesAssumption
<1>0. dm'.broken = dm.broken => BreaksOnlyUnloaded
  BY DEF BreaksOnlyUnloaded
<1>1. CASE LoadNext
  BY <1>0, <1>1, DoubleLoadNext
<1>2. CASE Loaded
  BY <1>0, <1>2, DoubleLoaded DEF Loaded
<1>3. CASE \E visible \in SUBSET BitmapFields : Cardinality(visible) <= MaxShown /\ BeginFrame(visible)
  BY <1>0, <1>3, DoubleBeginFrame
<1>4. CASE DrawBitmap
  BY <1>4, DoubleDrawBitmap
<1>5. CASE SwapBuffers
  BY <1>0, <1>5, DoubleSwapBuffers DEF SwapBuffers
<1>6. CASE \E visible \in SUBSET ReferenceFields : BeginVerify(visible)
  BY <1>0, <1>6, DoubleBeginVerify DEF BeginVerify
<1>7. CASE VerifyBitmap
  BY <1>7, DoubleVerifyBitmap
<1>8. CASE EndVerify
  BY <1>0, <1>8, DoubleEndVerify DEF EndVerify
<1>9. DOMAIN sw = SwFields
  BY DEF DispInv, SwOk
<1>10. CASE HandleWindowEvents
  <2>1. /\ OnWindows(sw.screen) /\ sw' = Sw!WinHandleEvents(sw)
        /\ UNCHANGED <<swCache, dm, dmCache, phase, todo, shown, presented, verdict>>
    BY <1>10 DEF HandleWindowEvents
  <2>2. Changes(sw, sw', {"screen"})
    BY <2>1, HandleEventsDoes DEF DispInv
  <2> QED  BY <1>0, <1>9, <2>1, <2>2, DoubleScreen DEF Changes, SwFields
<1>11. CASE Uncover
  <2>1. /\ OnWindows(sw.screen) /\ sw' = Sw!WinUncover(sw)
        /\ UNCHANGED <<swCache, dm, dmCache, phase, todo, shown, presented, verdict>>
    BY <1>11 DEF Uncover
  <2>2. Changes(sw, sw', {"screen"})
    BY <2>1, UncoverDoes DEF DispInv
  <2> QED  BY <1>0, <1>9, <2>1, <2>2, DoubleScreen DEF Changes, SwFields
<1>12. CASE UNCHANGED vars
  BY <1>0, <1>12, DoubleScreen DEF vars
<1> QED
  BY <1>1, <1>2, <1>3, <1>4, <1>5, <1>6, <1>7, <1>8, <1>10, <1>11, <1>12 DEF Next

\* The invariant, of every reachable state.
LEMMA DoubleAlways ==
  ASSUME DummyHasRoom PROVE Spec => [](CacheInv /\ DispInv /\ DoubleInv)
<1>1. Init => CacheInv /\ DispInv /\ DoubleInv
  BY CacheInit, DispInit, DoubleInit, DisplayAssumption
<1>2. CacheInv /\ DispInv /\ DoubleInv /\ [Next]_vars => (CacheInv /\ DispInv /\ DoubleInv)'
  BY CacheNext, DispNext, DoubleNext, DisplayAssumption, ImagesAssumption
<1> QED  BY <1>1, <1>2, PTL DEF Spec

\* On a database whose images it can tell apart, and with the limits that are generated for
\* it, the dummy is a fair double (gil.cpp of the dummy beside that of the software
\* renderer): its verdicts are those of a renderer that draws, except where fields overlap.
THEOREM DummyIsFair ==
  ASSUME ImagesTellApart, DummyHasRoom PROVE Spec => []DoubleAgrees
<1>1. CacheInv /\ DispInv /\ DoubleInv => DoubleAgrees
  <2> SUFFICES ASSUME DispInv, DoubleInv, presented, \A f \in shown : Usable(f),
                      NEW r \in DOMAIN verdict, Usable(r)
               PROVE  /\ verdict[r].sw => verdict[r].dm
                      /\ verdict[r].dm => \/ verdict[r].sw
                                          \/ \E f, g \in shown : f # g /\ Overlap(f, g)
    BY DEF DoubleAgrees
  <2>1. DOMAIN verdict # {} /\ r \in ReferenceFields /\ shown \subseteq BitmapFields /\ CachesOk
    BY DEF DispInv, PhaseOk, CachesOk, DisplayTypeOK
  <2>2. DescribesIn(sw.window, Buffer(sw.window), Positions(Order, shown))
    BY <2>1, UsableIs DEF DoubleInv, FrameStays, BufferShows, Usable, Textured
  <2>3. NotesOf(dm.blits, Positions(Order, shown))
    BY <2>1 DEF DoubleInv, DmNotes
  <2>4. /\ verdict[r].sw <=> ShowsImage(Buffer(sw.window), r)
        /\ verdict[r].dm <=> Noted(dm.blits, r)
    BY UsableIs DEF DispInv, VerdictOk, DoubleInv, DmVerdicts
  <2>5. /\ ShowsImage(Buffer(sw.window), r) => Noted(dm.blits, r)
        /\ Noted(dm.blits, r) => \/ ShowsImage(Buffer(sw.window), r)
                                 \/ \E f, g \in shown : f # g /\ Overlap(f, g)
    BY <2>1, <2>2, <2>3, VerdictsAgree, DisplayAssumption
  <2> QED  BY <2>4, <2>5
<1> QED  BY <1>1, DoubleAlways, PTL

\* With the limits that are generated for the database, nothing undefined happens to the
\* dummy but by the use of a texture that could not be loaded: its array of what was drawn,
\* which is not checked, does not end before the next clear.
THEOREM DummyIsDefined ==
  ASSUME DummyHasRoom PROVE Spec => DummyStaysDefined
<1>1. CacheInv /\ DispInv /\ DoubleInv /\ [Next]_vars => BreaksOnlyUnloaded
  BY DoubleNext, DisplayAssumption, ImagesAssumption
<1>2. CacheInv /\ DispInv /\ DoubleInv /\ [Next]_vars => [BreaksOnlyUnloaded]_vars
  BY <1>1
<1> QED  BY <1>2, DoubleAlways, PTL DEF Spec, DummyStaysDefined

-----------------------------------------------------------------------------
(* A renderer that has a texture for each slot: why no lamp of a sound database is verified
   with the image of another. *)

\* The renderer has a texture for each slot.
RendererHasRoom == MaxTextures <= GilMaxTextures

\* The images of all reference fields can be loaded.
ReferencesLoad ==
  \A r \in ReferenceFields : Fields[r].bitmap \in Bitmaps => Loadable(ImageOf(r))

\* Once the start is over, each bitmap that can be loaded has its texture.
AllLoaded ==
  phase \in {"idle", "drawing", "verifying"} =>
    \A id \in Bitmaps : Loadable(Images[id]) => swCache[id].handle # 0

\* The slots with a texture have one each, so that there is one left for another slot.
LEMMA RoomForAnother ==
  ASSUME CacheInv, RendererHasRoom, NEW id \in Slots, swCache[id].handle = 0,
         Len(sw.textures) \in Nat, GilMaxTextures \in Nat
  PROVE  Len(sw.textures) < GilMaxTextures
<1> DEFINE n == Len(sw.textures)
           S == {i \in Slots : swCache[i].handle \in 1..n}
           h == [i \in S |-> swCache[i].handle]
<1>1. /\ \A t \in 1..n : \E i \in Slots : swCache[i].handle = t
      /\ n \in Nat
  BY DEF CacheInv, Kept
<1>2. MaxTextures \in Nat /\ Slots = 1..MaxTextures
  BY DisplayAssumption DEF Slots
<1>3. h \in Surjection(S, 1..n)
  <2>1. \A t \in 1..n : \E i \in S : h[i] = t
    BY <1>1, <1>2
  <2>2. h \in [S -> 1..n]
    OBVIOUS
  <2> HIDE DEF h, S, n
  <2> QED  BY <2>1, <2>2 DEF Surjection
<1>4. IsFiniteSet(Slots) /\ Cardinality(Slots) = MaxTextures
  <2>1. 1 \in Int /\ MaxTextures \in Int /\ (1 > MaxTextures => MaxTextures = 0)
    BY <1>2
  <2> QED  BY <1>2, <2>1, FS_Interval
<1>5. IsFiniteSet(Slots \ {id}) /\ Cardinality(Slots \ {id}) = MaxTextures - 1
  BY <1>4, FS_RemoveElement
<1>6. S \in SUBSET (Slots \ {id})
  <2>1. id \notin S
    BY <1>1
  <2> QED  BY <2>1
<1>7. IsFiniteSet(S) /\ Cardinality(S) <= MaxTextures - 1 /\ Cardinality(S) \in Nat
  <2>1. IsFiniteSet(S) /\ Cardinality(S) <= MaxTextures - 1
    <3> HIDE DEF S
    <3> QED  BY <1>5, <1>6, FS_Subset
  <2> QED  BY <2>1, FS_CardinalityType
<1>8. Cardinality(1..n) = n /\ Cardinality(1..n) <= Cardinality(S)
  <2>1. Cardinality(1..n) <= Cardinality(S)
    <3> HIDE DEF h, S, n
    <3> QED  BY <1>3, <1>7, FS_Surjection
  <2>2. Cardinality(1..n) = n
    <3> HIDE DEF n
    <3>1. 1 \in Int /\ n \in Int /\ (1 > n => n = 0)
      BY <1>1
    <3> QED  BY <3>1, FS_Interval
  <2> QED  BY <2>1, <2>2
<1> HIDE DEF S, n
<1> QED  BY <1>1, <1>2, <1>7, <1>8 DEF RendererHasRoom, n

\* What was tried and has no texture cannot be loaded.
LEMMA AllAreLoaded ==
  ASSUME RendererHasRoom PROVE CacheInv /\ DispInv => AllLoaded
<1> SUFFICES ASSUME CacheInv, DispInv, phase \in {"idle", "drawing", "verifying"},
                    NEW id \in Bitmaps, Loadable(Images[id])
             PROVE  swCache[id].handle # 0
  BY DEF AllLoaded
<1>1. Tried(id)
  BY DEF DispInv, AllTried
<1>2. Len(sw.textures) \in Nat /\ GilMaxTextures \in Nat
  BY DisplayAssumption DEF DispInv, CachesOk, DisplayTypeOK
<1>3. swCache[id].handle = 0 => ~(Len(sw.textures) >= GilMaxTextures)
  BY <1>2, ImageTypes, DisplayAssumption, RoomForAnother
<1> QED  BY <1>1, <1>3 DEF Tried

\* In a renderer with a texture for each bitmap every bitmap that can be loaded has one
\* when the start is over, and keeps it.
THEOREM LoadableAreLoaded == ASSUME RendererHasRoom PROVE Spec => []AllLoaded
BY AllAreLoaded, DispAlways, PTL

\* In such a renderer, as long as no reference field is of an image that cannot be
\* loaded, no lamp is verified with the image of another, whatever pilAssert does.
THEOREM LoadedAreOwn ==
  ASSUME RendererHasRoom, ReferencesLoad PROVE Spec => []VerdictsAreOwn
<1>1. CacheInv /\ DispInv => VerdictsAreOwn
  <2> SUFFICES ASSUME CacheInv, DispInv, phase # "ended", NEW f \in DOMAIN verdict,
                      Fields[f].bitmap \in Slots
               PROVE  swCache[Fields[f].bitmap].handle # 0
    BY DEF VerdictsAreOwn, OwnTexture
  <2>1. f \in ReferenceFields /\ phase \in {"idle", "drawing", "verifying"}
    BY DEF DispInv, PhaseOk, CachesOk, DisplayTypeOK
  <2>2. Fields[f].bitmap \in Bitmaps
    <3>1. f \in DOMAIN Fields
      BY <2>1, DisplayAssumption DEF ReferenceFields
    <3>2. Fields[f].bitmap # 0
      BY DisplayAssumption DEF Slots
    <3> QED  BY <3>1, <3>2, DisplayAssumption
  <2>3. Loadable(Images[Fields[f].bitmap])
    BY <2>1, <2>2 DEF ReferencesLoad, ImageOf
  <2> QED  BY <2>1, <2>2, <2>3, AllAreLoaded DEF AllLoaded
<1> QED  BY <1>1, DispAlways, PTL

-----------------------------------------------------------------------------
(* A texture that could not be loaded.                                     *)

LEMMA BindUnloaded ==
  ASSUME NEW g, DOMAIN g = SwFields
  PROVE  LET h == Sw!GilBindTexture(g, 1, 0) IN DOMAIN h = SwFields /\ h.asserted
<1>1. Sw!GilBindTexture(g, 1, 0) = Sw!Asserted(g)
  BY DEF Sw!GilBindTexture, Sw!IsTexture
<1> QED  BY <1>1 DEF Sw!Asserted, SwFields

\* What was asserted stays so.
LEMMA StaysAsserted ==
  ASSUME NEW g, DOMAIN g = SwFields, g.asserted,
         NEW x1, NEW y1, NEW u1, NEW v1, NEW u2, NEW v2
  PROVE  /\ Sw!GilDrawQuad(g, 1, x1, y1, u1, v1, u2, v2).asserted
         /\ Sw!GilVerified(g, 1).asserted
<1>1. Sw!Asserted(g).asserted
  BY DEF Sw!Asserted, SwFields
<1>2. ASSUME NEW m, NEW a, NEW b, NEW w
      PROVE  [g EXCEPT !.window.mem = m, !.asserted = @ \/ a \/ b, !.wild = @ \/ w].asserted
  BY DEF SwFields
<1> QED  BY <1>1, <1>2 DEF Sw!GilDrawQuad, Sw!GilVerified

\* Drawing or verifying a field changes the handle of no slot, and calls pilAssert
\* when its bitmap has no texture.
LEMMA UnloadedAsserts ==
  ASSUME DisplayAssumption, ImagesAssumption, CacheInv, DispInv, NEW f \in DOMAIN Fields,
         phase \in {"drawing", "verifying"}, DrawField(f) \/ VerifyField(f)
  PROVE  SameHandles(swCache, swCache') /\ (~OwnTexture(f) => sw'.asserted)
<1> DEFINE id == Fields[f].bitmap
<1>1. SwOk(sw) /\ CachesOk /\ (id \in Bitmaps => Tried(id))
  BY FieldTried DEF DispInv
<1>2. SameHandles(swCache, swCache')
  BY <1>1, DrawFieldDoes, VerifyFieldDoes DEF Untouched, SameHandles
<1>3. ASSUME ~OwnTexture(f) PROVE sw'.asserted
  <2>1. id \in Slots /\ swCache[id].handle = 0
    BY <1>3 DEF OwnTexture
  <2>2. id \in Bitmaps
    BY <2>1, FieldPlace
  <2> DEFINE l == LoadSw(id).gil
             g == Sw!GilBindTexture(l, 1, LoadSw(id).slot.handle)
  <2>3. DOMAIN l = SwFields /\ LoadSw(id).slot.handle = 0
    BY <1>1, <2>1, <2>2, LoadSwDoes DEF SwOk
  <2>4. DOMAIN g = SwFields /\ g.asserted
    <3>1. g = Sw!GilBindTexture(l, 1, 0)
      BY <2>3
    <3> HIDE DEF g, l
    <3> QED  BY <2>3, <3>1, BindUnloaded
  <2> DEFINE a == FieldArea[f]
             w == LoadSw(id).slot.width
             h == LoadSw(id).slot.height
  <2>5. \/ sw' = Sw!GilDrawQuad(g, 1, a.x, a.y, 0, 0, LastFP(w), LastFP(h))
        \/ sw' = Sw!GilVerified(g, 1)
    BY <2>1 DEF DrawField, VerifyField
  <2> HIDE DEF g, a, w, h
  <2> QED  BY <2>4, <2>5, StaysAsserted
<1> QED  BY <1>2, <1>3

\* Nothing is drawn while the textures are loaded.
UnloadedInv == UnloadedEndsProcess /\ (phase = "loading" => shown = {})

\* One more field is used; the others were.
LEMMA OneMoreUsed ==
  ASSUME SameHandles(swCache, swCache'), UnloadedEndsProcess, pil' = pil, phase # "ended",
         NEW f, ~OwnTexture(f) => sw'.asserted, NEW now, phase' = Then(now),
         phase' # "ended" => Used' \subseteq Used \cup {f}
  PROVE  UnloadedEndsProcess'
<1> SUFFICES ASSUME pil' = "aborts", phase' # "ended", NEW x \in Used'
             PROVE  OwnTexture(x)'
  BY DEF UnloadedEndsProcess
<1>1. ~sw'.asserted
  BY DEF Then
<1>2. OwnTexture(x)
  BY <1>1 DEF UnloadedEndsProcess
<1> QED  BY <1>2 DEF OwnTexture, SameHandles

LEMMA UnloadedStep ==
  ASSUME DisplayAssumption, ImagesAssumption, CacheInv, DispInv, UnloadedInv, [Next]_vars
  PROVE  UnloadedInv'
<1> USE DisplayAssumption, ImagesAssumption
<1>1. /\ phase = "loading" => DOMAIN verdict = {} /\ shown = {}
      /\ phase = "drawing" => todo \subseteq Positions(Order, shown)
      /\ phase = "verifying" => todo \subseteq Positions(References, ReferenceFields)
      /\ UnloadedEndsProcess
  BY DEF DispInv, PhaseOk, UnloadedInv
<1>2. ASSUME UNCHANGED <<swCache, pil>>, phase # "ended", phase' # "loading",
             phase' # "ended" => Used' \subseteq Used
      PROVE  UnloadedInv'
  BY <1>1, <1>2 DEF UnloadedInv, UnloadedEndsProcess, OwnTexture
<1>3. CASE LoadNext
  <2>1. shown' = {} /\ DOMAIN verdict' = {}
    BY <1>1, <1>3 DEF LoadNext
  <2>2. Used' = {}
    BY <2>1 DEF Used, Positions
  <2> QED  BY <2>1, <2>2 DEF UnloadedInv, UnloadedEndsProcess
<1>4. CASE Loaded
  <2>1. shown' = {} /\ DOMAIN verdict' = {} /\ phase' = "idle"
    BY <1>1, <1>4 DEF Loaded
  <2>2. Used' = {}
    BY <2>1 DEF Used, Positions
  <2> QED  BY <2>1, <2>2 DEF UnloadedInv, UnloadedEndsProcess
<1>5. CASE \E visible \in SUBSET BitmapFields : Cardinality(visible) <= MaxShown /\ BeginFrame(visible)
  <2>1. /\ DOMAIN verdict' = {} /\ todo' = Positions(Order, shown')
        /\ phase' \in {"drawing", "ended"}
    BY <1>5 DEF BeginFrame, Then
  <2>2. phase' = "drawing" => Used' = {}
    BY <2>1 DEF Used
  <2> QED  BY <2>1, <2>2 DEF UnloadedInv, UnloadedEndsProcess
<1>6. CASE DrawBitmap
  <2>1. PICK i \in todo : DrawField(Order[i]) /\ todo' = todo \ {i}
    BY <1>6 DEF DrawBitmap
  <2>2. /\ phase = "drawing" /\ phase' = Then("drawing")
        /\ UNCHANGED <<pil, shown, presented, verdict>>
    BY <1>6 DEF DrawBitmap
  <2>3. Order[i] \in DOMAIN Fields
    BY <1>1, <2>1, <2>2 DEF Positions
  <2>4. SameHandles(swCache, swCache') /\ (~OwnTexture(Order[i]) => sw'.asserted)
    BY <2>1, <2>2, <2>3, UnloadedAsserts
  <2>5. phase' # "ended" => Used' \subseteq Used \cup {Order[i]}
    BY <2>1, <2>2 DEF Used, Then
  <2>6. UnloadedEndsProcess'
    BY <1>1, <2>2, <2>4, <2>5, OneMoreUsed
  <2> QED  BY <2>2, <2>6 DEF UnloadedInv, Then
<1>7. CASE SwapBuffers
  <2>1. /\ phase = "drawing" /\ todo = {} /\ phase' \in {"idle", "ended"}
        /\ UNCHANGED <<swCache, pil, shown, verdict>>
    BY <1>7 DEF SwapBuffers, Then
  <2>2. phase' # "ended" => Used' \subseteq Used
    BY <2>1 DEF Used
  <2> QED  BY <1>2, <2>1, <2>2
<1>8. CASE \E visible \in SUBSET ReferenceFields : BeginVerify(visible)
  <2>1. /\ phase = "idle" /\ DOMAIN verdict' = {} /\ phase' \in {"verifying", "ended"}
        /\ UNCHANGED <<swCache, pil, shown>>
    BY <1>8 DEF BeginVerify, Then
  <2>2. phase' # "ended" => Used' \subseteq Used
    BY <2>1 DEF Used
  <2> QED  BY <1>2, <2>1, <2>2
<1>9. CASE VerifyBitmap
  <2>1. PICK i \in todo : VerifyField(References[i])
    BY <1>9 DEF VerifyBitmap
  <2>2. phase = "verifying" /\ phase' = Then("verifying") /\ UNCHANGED <<pil, shown, presented>>
    BY <1>9 DEF VerifyBitmap
  <2>3. References[i] \in DOMAIN Fields
    BY <1>1, <2>1, <2>2 DEF Positions
  <2>4. SameHandles(swCache, swCache') /\ (~OwnTexture(References[i]) => sw'.asserted)
    BY <2>1, <2>2, <2>3, UnloadedAsserts
  <2>5. DOMAIN verdict' = DOMAIN verdict \cup {References[i]}
    BY <2>1 DEF VerifyField
  <2>6. phase' # "ended" => Used' \subseteq Used \cup {References[i]}
    BY <2>2, <2>5 DEF Used, Then
  <2>7. UnloadedEndsProcess'
    BY <1>1, <2>2, <2>4, <2>6, OneMoreUsed
  <2> QED  BY <2>2, <2>7 DEF UnloadedInv, Then
<1>10. CASE EndVerify
  <2>1. /\ phase = "verifying" /\ phase' = "idle"
        /\ UNCHANGED <<swCache, pil, shown, verdict>>
    BY <1>10 DEF EndVerify
  <2>2. Used' \subseteq Used
    BY <2>1 DEF Used
  <2> QED  BY <1>2, <2>1, <2>2
<1>11. CASE HandleWindowEvents \/ Uncover \/ UNCHANGED vars
  <2>1. UNCHANGED <<swCache, pil, phase, todo, shown, verdict>>
    BY <1>11 DEF HandleWindowEvents, Uncover, vars
  <2> QED  BY <2>1 DEF UnloadedInv, UnloadedEndsProcess, Used, OwnTexture
<1> QED
  BY <1>3, <1>4, <1>5, <1>6, <1>7, <1>8, <1>9, <1>10, <1>11 DEF Next

\* A process whose pilAssert does not return never goes on from the drawing or the
\* verification of a field whose bitmap could not be loaded, for every database, every
\* limit of the renderer and every order of the calls (TextureCache::load, Texture::bind,
\* gilBindTexture): no lamp is shown or verified with the image of another.
THEOREM UnloadedIsNeverUsed == Spec => []UnloadedEndsProcess
<1>1. Init => UnloadedInv
  <2> SUFFICES ASSUME Init PROVE UnloadedInv
    OBVIOUS
  <2>1. shown = {} /\ DOMAIN verdict = {}
    BY DEF Init
  <2>2. Used = {}
    BY <2>1 DEF Used, Positions
  <2> QED  BY <2>1, <2>2 DEF UnloadedInv, UnloadedEndsProcess
<1>2. CacheInv /\ DispInv /\ UnloadedInv /\ [Next]_vars => UnloadedInv'
  BY UnloadedStep, DisplayAssumption, ImagesAssumption
<1>3. UnloadedInv => UnloadedEndsProcess
  BY DEF UnloadedInv
<1> QED  BY <1>1, <1>2, <1>3, DispAlways, PTL DEF Spec
=============================================================================
