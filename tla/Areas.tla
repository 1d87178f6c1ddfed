------------------------------- MODULE Areas -------------------------------
(***************************************************************************)
(* The areas of the display (class Area): rectangles whose reference point *)
(* and size are fixed point numbers with four fractional bits, so that a   *)
(* pixel is One units wide.  A size may be negative: the reference point   *)
(* is then the right, or the lower, end of the area.                       *)
(*                                                                         *)
(* The right and the bottom of an area are the positions of its last       *)
(* pixel, not of the edge behind it: hence the units of one pixel that are *)
(* added and taken away below.  What the class does horizontally and       *)
(* vertically is the same; it is stated once, for a span of one dimension. *)
(***************************************************************************)
EXTENDS Integers

One == 16                       \* 1 << FIXED_POINT_BITS

FromIntegerToFP(coord)   == coord * One
FromFPToInteger(coordFP) == coordFP \div One      \* >> rounds down

AreasFP == [x : Int, y : Int, width : Int, height : Int]

Far(p, size) ==
  IF size > 0 THEN p + size - One ELSE IF size < 0 THEN p + size + One ELSE p

\* The size that makes "far" the last pixel of a span that starts at p.
SizeTo(p, far) ==
  IF far > p THEN far - p + One ELSE IF far < p THEN far - p - One ELSE One

\* The pixels a span covers, where it counts the part it has of the last one.
Pixels(p, size) ==
  IF size = 0 THEN 0 ELSE FromFPToInteger(p + size) - FromFPToInteger(p)

-----------------------------------------------------------------------------
EmptyArea == [x |-> 0, y |-> 0, width |-> 0, height |-> 0]

\* Area(const AreaType*) and setArea; d is the description in the database.
AreaOf(d) ==
  [x     |-> FromIntegerToFP(d.x),     y      |-> FromIntegerToFP(d.y),
   width |-> FromIntegerToFP(d.width), height |-> FromIntegerToFP(d.height)]

IsEmpty(a) == a.width = 0 \/ a.height = 0

GetRightFP(a)  == Far(a.x, a.width)
GetBottomFP(a) == Far(a.y, a.height)
GetLeft(a)     == FromFPToInteger(a.x)
GetTop(a)      == FromFPToInteger(a.y)
GetRight(a)    == FromFPToInteger(GetRightFP(a))
GetBottom(a)   == FromFPToInteger(GetBottomFP(a))
GetWidth(a)    == Pixels(a.x, a.width)
GetHeight(a)   == Pixels(a.y, a.height)

\* The right and the bottom are moved by the size alone.
SetRightFP(a, right)   == [a EXCEPT !.width = SizeTo(a.x, right)]
SetBottomFP(a, bottom) == [a EXCEPT !.height = SizeTo(a.y, bottom)]
SetRight(a, right)     == SetRightFP(a, FromIntegerToFP(right))
SetBottom(a, bottom)   == SetBottomFP(a, FromIntegerToFP(bottom))

\* The left and the top are moved and the size makes up for it.
SetLeftFP(a, left) == [a EXCEPT !.width = @ + (a.x - left), !.x = left]
SetTopFP(a, top)   == [a EXCEPT !.height = @ + (a.y - top), !.y = top]
SetLeft(a, left)   == SetLeftFP(a, FromIntegerToFP(left))
SetTop(a, top)     == SetTopFP(a, FromIntegerToFP(top))

SetWidthFP(a, width)   == [a EXCEPT !.width = width]
SetHeightFP(a, height) == [a EXCEPT !.height = height]
SetWidth(a, width)     == SetWidthFP(a, FromIntegerToFP(width))
SetHeight(a, height)   == SetHeightFP(a, FromIntegerToFP(height))

MoveByFP(a, left, top) == [a EXCEPT !.x = @ + left, !.y = @ + top]
MoveBy(a, left, top)   == MoveByFP(a, FromIntegerToFP(left), FromIntegerToFP(top))

\* Area(left, top, right, bottom).
AreaOfCorners(left, top, right, bottom) ==
  LET corner == [x |-> FromIntegerToFP(left), y |-> FromIntegerToFP(top),
                 width |-> 0, height |-> 0]
  IN  SetBottom(SetRight(corner, right), bottom)

IsOverlapping(a, b) ==
  /\ a.x < b.x + b.width  /\ a.x + a.width  > b.x
  /\ a.y < b.y + b.height /\ a.y + a.height > b.y
=============================================================================
