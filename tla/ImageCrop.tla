------------------------------ MODULE ImageCrop ------------------------------
(***************************************************************************)
(* centerCropSquare of image.go: which part of an image becomes its        *)
(* thumbnail.  The bounds of an image are its corner, which need not be    *)
(* the origin, its width and its height.                                   *)
(***************************************************************************)
EXTENDS Integers, TLAPS

Bounds == [x : Int, y : Int, width : Nat \ {0}, height : Nat \ {0}]

Shorter(b) == IF b.height < b.width THEN b.height ELSE b.width

\* The corner of the square.  The difference is never negative, so that the
\* division of Go is \div.
CropCorner(b) == [x |-> b.x + (b.width - Shorter(b)) \div 2,
                  y |-> b.y + (b.height - Shorter(b)) \div 2]

\* draw.Draw: pixel <<i, j>> of the square, counted from its corner, shows this
\* pixel of the image, and stays transparent if the image has no such pixel.
ShownAt(b, i, j) == <<CropCorner(b).x + i, CropCorner(b).y + j>>

Pixel(b, p) == /\ b.x <= p[1] /\ p[1] < b.x + b.width
               /\ b.y <= p[2] /\ p[2] < b.y + b.height
-----------------------------------------------------------------------------
\* The square shows pixels of the image alone, fills the image in one direction,
\* and what is left over in the other differs by at most a pixel between the
\* two sides.
CropFits(b) ==
    LET side  == Shorter(b)
        left  == CropCorner(b).x - b.x
        right == b.width - side - left
        above == CropCorner(b).y - b.y
        below == b.height - side - above
    IN  /\ \A i, j \in 0 .. side - 1 : Pixel(b, ShownAt(b, i, j))
        /\ side = b.width \/ side = b.height
        /\ right - left \in {0, 1} /\ below - above \in {0, 1}

LEMMA HalfOfMargin ==
    ASSUME NEW m \in Nat
    PROVE  /\ m \div 2 \in Nat /\ m \div 2 <= m
           /\ (m - m \div 2) - m \div 2 \in {0, 1}
  OBVIOUS

LEMMA InsideSpan ==
    ASSUME NEW x \in Int, NEW length \in Nat, NEW side \in Nat, NEW d \in Nat,
           d <= length - side
    PROVE  /\ (x + d) - x = d
           /\ \A i \in 0 .. side - 1 : x <= x + d + i /\ x + d + i < x + length
  OBVIOUS

\* The centre crop lies within every image, whatever its size and corner.
THEOREM CropAlwaysFits == \A b \in Bounds : CropFits(b)
  <1> SUFFICES ASSUME NEW b \in Bounds PROVE CropFits(b)
    OBVIOUS
  <1> DEFINE side == Shorter(b)
             dx == (b.width - side) \div 2
             dy == (b.height - side) \div 2
  <1>1. /\ b.x \in Int /\ b.y \in Int /\ b.width \in Nat /\ b.height \in Nat
        /\ side \in Nat /\ side <= b.width /\ side <= b.height
        /\ side = b.width \/ side = b.height
    BY DEF Bounds, Shorter
  <1>2. b.width - side \in Nat /\ b.height - side \in Nat
    BY <1>1
  <1>3. /\ dx \in Nat /\ dx <= b.width - side
        /\ (b.width - side) - dx - dx \in {0, 1}
    BY <1>2, HalfOfMargin
  <1>4. /\ dy \in Nat /\ dy <= b.height - side
        /\ (b.height - side) - dy - dy \in {0, 1}
    BY <1>2, HalfOfMargin
  <1>5. CropCorner(b).x = b.x + dx /\ CropCorner(b).y = b.y + dy
    BY DEF CropCorner
  <1>6. /\ (b.x + dx) - b.x = dx
        /\ \A i \in 0 .. side - 1 : b.x <= b.x + dx + i /\ b.x + dx + i < b.x + b.width
    <2> HIDE DEF side, dx
    <2> QED BY <1>1, <1>3, InsideSpan
  <1>7. /\ (b.y + dy) - b.y = dy
        /\ \A j \in 0 .. side - 1 : b.y <= b.y + dy + j /\ b.y + dy + j < b.y + b.height
    <2> HIDE DEF side, dy
    <2> QED BY <1>1, <1>4, InsideSpan
  <1>8. \A i, j \in 0 .. side - 1 : Pixel(b, ShownAt(b, i, j))
    <2> HIDE DEF side, dx, dy
    <2> QED BY <1>5, <1>6, <1>7 DEF Pixel, ShownAt
  <1> QED
    <2>1. /\ CropCorner(b).x - b.x = dx /\ CropCorner(b).y - b.y = dy
      BY <1>5, <1>6, <1>7
    <2>2. /\ (b.width - side - dx) - dx \in {0, 1}
          /\ (b.height - side - dy) - dy \in {0, 1}
      BY <1>3, <1>4
    <2> QED BY <1>1, <1>8, <2>1, <2>2 DEF CropFits
=============================================================================
