------------------------------ MODULE DummyGil ------------------------------
(***************************************************************************)
(* The dummy behind the graphics interface, which draws nothing: it notes  *)
(* which texture was drawn where since the last clear, and a verification  *)
(* succeeds when the bound texture is among them at the same place.        *)
(*                                                                         *)
(* The state is one record, as in SwRenderer.  Of a texture only the check *)
(* sum of its pixels counts, modelled by the pixels themselves: not their  *)
(* format, and not their width and height.  "broken" records what has no   *)
(* defined outcome: a null texture that is used, an entry behind the end   *)
(* of the array of blits.                                                  *)
(***************************************************************************)
EXTENDS Integers, Sequences

CONSTANTS
  DummyMaxTextures,   \* lsr::MAX_TEXTURES
  MaxBlits            \* 255: the length of the array, and where its count ends

NoCrc == <<>>         \* the check sum of a texture without pixels

Broken(d) == [d EXCEPT !.broken = TRUE]

DummyInit ==
  [contexts |-> 0, windows |-> 0, textures |-> <<>>, texture |-> 0,
   blits |-> <<>>, broken |-> FALSE]

\* gilCreateContext and gilCreateWindow: there is one of each.
DummyCreateContext(d) ==
  IF d.contexts < 1 THEN [d EXCEPT !.contexts = 1, !.texture = 0, !.blits = <<>>] ELSE d
DummyCreateWindow(d) == IF d.windows < 1 THEN [d EXCEPT !.windows = 1] ELSE d

\* gilCreateTexture, and the texture it returns in the state d.
DummyCreateTexture(d) ==
  IF Len(d.textures) < DummyMaxTextures
  THEN [d EXCEPT !.textures = Append(@, NoCrc)] ELSE d
DummyNewTexture(d) ==
  IF Len(d.textures) < DummyMaxTextures THEN Len(d.textures) + 1 ELSE 0

DummyTexPixels(d, t, data) ==
  IF t \in 1..Len(d.textures) THEN [d EXCEPT !.textures[t] = data] ELSE Broken(d)

DummyBindTexture(d, t) == [d EXCEPT !.texture = t]

\* Mutant: a clear keeps what was drawn.
ClearNothing(d) == d

DummyClear(d) == [d EXCEPT !.blits = <<>>]

Crc(d) == d.textures[d.texture]

\* gilDrawQuad.
DummyDrawQuad(d, x1, y1) ==
  IF d.texture = 0 \/ Len(d.blits) = MaxBlits THEN Broken(d)
  ELSE [d EXCEPT !.blits = Append(@, [x |-> x1, y |-> y1, crc |-> Crc(d)])]

\* gilVerify; the bound texture is looked at only when something was drawn.
DummyVerify(d, x1, y1) ==
  /\ d.texture # 0
  /\ \E i \in 1..Len(d.blits) : d.blits[i] = [x |-> x1, y |-> y1, crc |-> Crc(d)]

DummyVerified(d) == IF d.texture = 0 /\ d.blits # <<>> THEN Broken(d) ELSE d
=============================================================================
