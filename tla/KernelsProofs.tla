--------------------------- MODULE KernelsProofs ---------------------------
(***************************************************************************)
(* Proofs about the functions that compute a frame, for every canvas, every *)
(* position and extent and every width of size_t: a shape is cut off        *)
(* exactly at the canvas and nothing is written outside its buffer; the     *)
(* screen and a snapshot show the canvas point by point; a fade moves a     *)
(* channel by small steps; a stick's position becomes a faithful percentage. *)
(***************************************************************************)
EXTENDS Kernels, TLAPS

\* A product grows with its first factor.
LEMMA ProductGrows ==
  ASSUME NEW a \in Nat, NEW b \in Nat, NEW k \in Nat, a <= b
  PROVE  a * k <= b * k
<1>1. PICK d \in Nat : b = a + d
  BY b - a \in Nat
<1>2. (a + d) * k = a * k + d * k /\ d * k \in Nat /\ a * k \in Nat
  OBVIOUS
<1> QED
  BY <1>1, <1>2

\* The offset of a visible point is below the number of pixels of the buffer.
LEMMA OffsetBelowArea ==
  ASSUME NEW c \in cart_canvas, c.stride >= c.width, NEW p \in visible(c)
  PROVE  offset(c, p) \in Nat /\ offset(c, p) + 1 <= c.stride * c.height
<1>1. /\ c.width \in Nat /\ c.height \in Nat /\ c.stride \in Nat
      /\ p[1] \in Nat /\ p[1] < c.width /\ p[2] \in Nat /\ p[2] + 1 <= c.height
  BY DEF cart_canvas, visible
<1>2. (p[2] + 1) * c.stride <= c.height * c.stride
  BY <1>1, ProductGrows
<1>3. (p[2] + 1) * c.stride = p[2] * c.stride + c.stride /\ p[2] * c.stride \in Nat
  BY <1>1
<1>4. c.height * c.stride = c.stride * c.height /\ c.height * c.stride \in Nat
  BY <1>1
<1> QED
  BY <1>1, <1>2, <1>3, <1>4 DEF offset

\* The size of a valid canvas is not reduced modulo SIZE_MAX + 1.
LEMMA ByteSizeExact ==
  ASSUME NEW c \in cart_canvas, cart_canvas_valid(c)
  PROVE  c.stride * c.height \in Nat /\ cart_canvas_byte_size(c) = c.stride * c.height * 4
<1>1. SizeMax \in Nat
  BY CanvasAssumption
<1>2. c.stride \in Nat /\ c.height \in Nat
  BY DEF cart_canvas
<1>3. PICK area \in Nat : area = c.stride * c.height
  BY <1>2
<1>4. area <= SizeMax \div 4
  BY <1>3 DEF cart_canvas_valid, PixelSize
<1>5. area * 4 <= SizeMax
  BY <1>1, <1>4
<1>6. (area * 4) % (SizeMax + 1) = area * 4
  BY <1>1, <1>5
<1> QED
  BY <1>3, <1>6 DEF cart_canvas_byte_size, PixelSize

\* A visible point of a valid canvas lies in the buffer with all its bytes.
LEMMA VisibleIsInside ==
  ASSUME NEW c \in cart_canvas, cart_canvas_valid(c), NEW p \in visible(c)
  PROVE  offset(c, p) * PixelSize + PixelSize <= cart_canvas_byte_size(c)
<1>1. c.stride >= c.width
  BY DEF cart_canvas_valid
<1>2. offset(c, p) \in Nat /\ offset(c, p) + 1 <= c.stride * c.height
  BY <1>1, OffsetBelowArea
<1>3. c.stride * c.height \in Nat /\ cart_canvas_byte_size(c) = c.stride * c.height * 4
  BY ByteSizeExact
<1> HIDE DEF offset, cart_canvas_byte_size
<1>4. ASSUME NEW o \in Nat, NEW area \in Nat, o + 1 <= area PROVE o * 4 + 4 <= area * 4
  BY <1>4
<1> QED
  BY <1>2, <1>3, <1>4 DEF PixelSize

\* cart_canvas_px writes its point if that is on the canvas.
THEOREM PixelIsClipped ==
  ASSUME NEW c \in cart_canvas, cart_canvas_valid(c), NEW x \in Int, NEW y \in Int
  PROVE  cart_canvas_px(c, x, y) = {p \in visible(c) : p[1] = x /\ p[2] = y}
<1>1. c.width \in Nat /\ c.height \in Nat
  BY DEF cart_canvas
<1> QED
  BY <1>1 DEF cart_canvas_px, visible

\* cart_canvas_rect writes the points of the rectangle that are on the canvas,
\* also for extents that reach past the range of an int.
THEOREM RectIsClipped ==
  ASSUME NEW c \in cart_canvas, cart_canvas_valid(c),
         NEW x \in Int, NEW y \in Int, NEW w \in Int, NEW h \in Int
  PROVE  cart_canvas_rect(c, x, y, w, h)
           = {p \in visible(c) : p[1] - x \in 0 .. w - 1 /\ p[2] - y \in 0 .. h - 1}
<1>1. c.width \in Nat /\ c.height \in Nat
  BY DEF cart_canvas
<1> QED
  BY <1>1 DEF cart_canvas_rect, visible, at_least, at_most

\* A square that is no larger bounds its root.
LEMMA SquareBounds ==
  ASSUME NEW u \in Int, NEW r \in Nat, u * u <= r * r
  PROVE  -r <= u /\ u <= r
<1>1. ASSUME NEW a \in Nat, a * a <= r * r PROVE a <= r
  <2> SUFFICES ASSUME r + 1 <= a PROVE FALSE
    OBVIOUS
  <2>1. (r + 1) * a <= a * a
    BY ProductGrows
  <2>2. (r + 1) * (r + 1) <= a * (r + 1)
    BY ProductGrows
  <2>3. a * (r + 1) = (r + 1) * a /\ (r + 1) * (r + 1) = r * r + 2 * r + 1
    OBVIOUS
  <2> QED
    BY <1>1, <2>1, <2>2, <2>3
<1>2. CASE u >= 0
  BY <1>1, <1>2
<1>3. CASE u < 0
  <2>1. (-u) * (-u) = u * u /\ -u \in Nat
    BY <1>3
  <2>2. -u <= r
    BY <1>1, <2>1
  <2> QED
    BY <1>3, <2>2
<1> QED
  BY <1>2, <1>3

\* A square is not negative.
LEMMA SquareNatural ==
  ASSUME NEW u \in Int
  PROVE  u * u \in Nat
OBVIOUS

\* cart_canvas_circle writes the points of the disc that are on the canvas:
\* its bounding box never cuts off a point of the disc.
THEOREM CircleIsClipped ==
  ASSUME NEW c \in cart_canvas, cart_canvas_valid(c),
         NEW x \in Int, NEW y \in Int, NEW r \in Nat
  PROVE  cart_canvas_circle(c, x, y, r) = {p \in visible(c) : in_disc(p, x, y, r)}
<1>1. c.width \in Nat /\ c.height \in Nat
  BY DEF cart_canvas
<1>2. ASSUME NEW p \in visible(c), in_disc(p, x, y, r)
      PROVE  /\ p[1] \in at_least(0, x - r) .. at_most(c.width - 1, x + r)
             /\ p[2] \in at_least(0, y - r) .. at_most(c.height - 1, y + r)
  <2>1. /\ p[1] \in 0 .. c.width - 1 /\ p[2] \in 0 .. c.height - 1
        /\ p[1] - x \in Int /\ p[2] - y \in Int
    BY <1>1 DEF visible
  <2>2. /\ (p[1] - x) * (p[1] - x) \in Nat /\ (p[2] - y) * (p[2] - y) \in Nat
    BY <2>1, SquareNatural
  <2>3. /\ (p[1] - x) * (p[1] - x) <= r * r /\ (p[2] - y) * (p[2] - y) <= r * r
    BY <1>2, <2>2 DEF in_disc
  <2>4. /\ -r <= p[1] - x /\ p[1] - x <= r /\ -r <= p[2] - y /\ p[2] - y <= r
    BY <2>1, <2>3, SquareBounds
  <2> QED
    BY <1>1, <2>1, <2>4 DEF at_least, at_most
<1>3. ASSUME NEW p \in (at_least(0, x - r) .. at_most(c.width - 1, x + r))
                         \X (at_least(0, y - r) .. at_most(c.height - 1, y + r))
      PROVE  p \in visible(c)
  BY <1>1 DEF visible, at_least, at_most
<1>4. ASSUME NEW p \in visible(c),
             p[1] \in at_least(0, x - r) .. at_most(c.width - 1, x + r),
             p[2] \in at_least(0, y - r) .. at_most(c.height - 1, y + r)
      PROVE  p \in (at_least(0, x - r) .. at_most(c.width - 1, x + r))
                      \X (at_least(0, y - r) .. at_most(c.height - 1, y + r))
  BY <1>4 DEF visible
<1>5. cart_canvas_circle(c, x, y, r)
        = {p \in (at_least(0, x - r) .. at_most(c.width - 1, x + r))
                   \X (at_least(0, y - r) .. at_most(c.height - 1, y + r)) : in_disc(p, x, y, r)}
  BY DEF cart_canvas_circle, in_disc
<1> HIDE DEF at_least, at_most, visible, in_disc
<1> QED
  BY <1>2, <1>3, <1>4, <1>5

\* Every shape lies on its canvas, and an invalid canvas gets nothing.
LEMMA ShapesAreVisible ==
  ASSUME NEW c \in cart_canvas, NEW x \in Int, NEW y \in Int
  PROVE  /\ ~cart_canvas_valid(c) => cart_canvas_px(c, x, y) = {}
         /\ cart_canvas_px(c, x, y) \subseteq visible(c)
         /\ \A r \in Int : /\ ~cart_canvas_valid(c) => cart_canvas_circle(c, x, y, r) = {}
                           /\ cart_canvas_circle(c, x, y, r) \subseteq visible(c)
         /\ \A w, h \in Int : /\ ~cart_canvas_valid(c) => cart_canvas_rect(c, x, y, w, h) = {}
                              /\ cart_canvas_rect(c, x, y, w, h) \subseteq visible(c)
<1>1. CASE ~cart_canvas_valid(c)
  BY <1>1 DEF cart_canvas_px, cart_canvas_circle, cart_canvas_rect
<1>2. CASE cart_canvas_valid(c)
  <2>1. cart_canvas_px(c, x, y) \subseteq visible(c)
    BY <1>2, PixelIsClipped
  <2>2. ASSUME NEW w \in Int, NEW h \in Int PROVE cart_canvas_rect(c, x, y, w, h) \subseteq visible(c)
    BY <1>2, RectIsClipped
  <2>3. ASSUME NEW r \in Int PROVE cart_canvas_circle(c, x, y, r) \subseteq visible(c)
    <3>1. CASE r \in Nat
      BY <1>2, <3>1, CircleIsClipped
    <3>2. CASE r < 0
      BY <3>2 DEF cart_canvas_circle
    <3> QED
      BY <3>1, <3>2
  <2> QED
    BY <1>2, <2>1, <2>2, <2>3
<1> QED
  BY <1>1, <1>2

\* The inductive invariant: a drawing is on a valid canvas or is empty.
DrawnInv ==
  drawing =>
    /\ call.canvas \in cart_canvas
    /\ call.points # {} => cart_canvas_valid(call.canvas)
    /\ call.points \subseteq visible(call.canvas)

\* No drawing function writes outside its buffer, for all arguments.
THEOREM DrawingStaysInside == Spec => []InsideBuffer
<1>1. Init => DrawnInv
  BY DEF Init, Idle, DrawnInv, drawing
<1>2. DrawnInv /\ [Next]_call => DrawnInv'
  <2> SUFFICES ASSUME DrawnInv, [Next]_call PROVE DrawnInv'
    OBVIOUS
  <2>0. ASSUME NEW op, NEW c \in cart_canvas, NEW a, NEW points, Drawn(op, c, a, points),
               points # {} => cart_canvas_valid(c), points \subseteq visible(c)
        PROVE  DrawnInv'
    <3>1. call'.canvas = c /\ call'.points = points
      BY <2>0 DEF Drawn
    <3>2. visible(call.canvas)' = visible(c)
      BY <3>1 DEF visible
    <3> QED
      BY <2>0, <3>1, <3>2 DEF DrawnInv, cart_canvas_valid
  <2>k. /\ Canvases \subseteq cart_canvas /\ Coordinates \subseteq Int /\ Extents \subseteq Int
        /\ cart_canvas_valid(Screen)
    BY KernelsAssumption
  <2>1. CASE DrawPixel
    BY <2>0, <2>1, <2>k, ShapesAreVisible DEF DrawPixel
  <2>2. CASE DrawRect
    BY <2>0, <2>2, <2>k, ShapesAreVisible DEF DrawRect
  <2>3. CASE DrawCircle
    BY <2>0, <2>3, <2>k, ShapesAreVisible DEF DrawCircle
  <2>4. CASE DrawStar
    <3>1. PICK c \in Canvases, x \in Coordinates, y \in Coordinates, r \in 1 .. 4 :
            Drawn("star", c, <<x, y, r>>, star(c, x, y, r))
      BY <2>4 DEF DrawStar
    <3>2. ASSUME NEW p \in star(c, x, y, r)
          PROVE  cart_canvas_valid(c) /\ p \in visible(c)
      <4>1. PICK i \in -r .. r :
              \/ p \in cart_canvas_px(c, x + i, y) \/ p \in cart_canvas_px(c, x, y + i)
              \/ p \in cart_canvas_px(c, x + i, y + i) \/ p \in cart_canvas_px(c, x + i, y - i)
        BY <3>2 DEF star
      <4>2. /\ c \in cart_canvas /\ x \in Int /\ y \in Int /\ x + i \in Int /\ y + i \in Int
            /\ y - i \in Int
        BY <2>k
      <4>3. ASSUME NEW u \in Int, NEW v \in Int, p \in cart_canvas_px(c, u, v)
            PROVE  cart_canvas_valid(c) /\ p \in visible(c)
        BY <4>2, <4>3, ShapesAreVisible
      <4> QED
        BY <4>1, <4>2, <4>3
    <3> QED
      BY <2>0, <2>k, <3>1, <3>2
  <2>5. CASE DrawFlower
    <3>1. PICK c \in Canvases, x \in Coordinates, y \in Coordinates, s \in 1 .. 3 :
            Drawn("flower", c, <<x, y, s>>, flower(c, x, y, s))
      BY <2>5 DEF DrawFlower
    <3>2. ASSUME NEW p \in flower(c, x, y, s)
          PROVE  cart_canvas_valid(c) /\ p \in visible(c)
      <4>1. /\ c \in cart_canvas /\ s \in Int /\ x \in Int /\ y \in Int
            /\ x + s \in Int /\ x - s \in Int /\ y + s \in Int /\ y - s \in Int
        BY <2>k
      <4>2. ASSUME NEW u \in Int, NEW v \in Int, p \in cart_canvas_circle(c, u, v, s)
            PROVE  cart_canvas_valid(c) /\ p \in visible(c)
        BY <4>1, <4>2, ShapesAreVisible
      <4> QED
        BY <3>2, <4>1, <4>2 DEF flower
    <3> QED
      BY <2>0, <2>k, <3>1, <3>2
  <2>6. CASE DrawRows
    <3>1. PICK a \in 0 .. LH, b \in 0 .. LH : Drawn("rows", Screen, <<a, b>>, scene_rows(a, b))
      BY <2>6 DEF DrawRows
    <3>2. Screen \in cart_canvas /\ scene_rows(a, b) \subseteq visible(Screen)
      BY CanvasAssumption DEF Screen, cart_canvas, scene_rows, visible
    <3> QED
      BY <2>0, <2>k, <3>1, <3>2
  <2>7. CASE Fade
    BY <2>7 DEF Fade, DrawnInv, drawing
  <2>8. CASE Axis
    BY <2>8 DEF Axis, DrawnInv, drawing
  <2>9. CASE Return
    BY <2>9 DEF Return, Idle, DrawnInv, drawing
  <2>10. CASE UNCHANGED call
    BY <2>10 DEF DrawnInv, drawing, visible, cart_canvas_valid
  <2> QED
    BY <2>1, <2>2, <2>3, <2>4, <2>5, <2>6, <2>7, <2>8, <2>9, <2>10 DEF Next, Call
<1>3. DrawnInv => InsideBuffer
  BY VisibleIsInside DEF DrawnInv, InsideBuffer
<1> QED
  BY <1>1, <1>2, <1>3, PTL DEF Spec

\* The mix of two channels lies between them and reaches both ends: blending
\* never leaves the way from the old colour to the new one.
THEOREM MixStaysBetween ==
  ASSUME NEW from \in 0 .. 255, NEW to \in 0 .. 255, NEW amount \in Nat
  PROVE  /\ from <= to => cart_mix(from, to, amount) \in from .. to
         /\ to <= from => cart_mix(from, to, amount) \in to .. from
         /\ cart_mix(from, to, 0) = from
         /\ amount >= 256 => cart_mix(from, to, amount) = to
<1> DEFINE a == at_most(256, amount)
<1>1. a \in 0 .. 256 /\ at_most(256, 0) = 0 /\ (amount >= 256 => a = 256)
  BY DEF at_most
<1>2. CASE from <= to
  <2>1. PICK d \in Nat : d = to - from
    BY <1>2
  <2>2. a * d <= 256 * d /\ a * d \in Nat /\ (to - from) * a = a * d
    BY <1>1, <2>1, ProductGrows
  <2>3. ((to - from) * a) \div 256 \in 0 .. d
    BY <2>2
  <2> QED
    BY <1>1, <1>2, <2>1, <2>2, <2>3 DEF cart_mix, clamp_channel, at_least, at_most
<1>3. CASE to <= from
  <2>1. PICK d \in Nat : d = from - to
    BY <1>3
  <2>2. a * d <= 256 * d /\ a * d \in Nat /\ (to - from) * a = -(a * d)
    BY <1>1, <2>1, ProductGrows
  <2>3. ((to - from) * a) \div 256 \in -d .. 0
    BY <2>2
  <2> QED
    BY <1>1, <1>3, <2>1, <2>2, <2>3 DEF cart_mix, clamp_channel, at_least, at_most
<1> QED
  BY <1>2, <1>3

\* A number below m beside a multiple of m is found again by a division.
LEMMA MixedRadix ==
  ASSUME NEW m \in Nat \ {0}, NEW a \in Int, NEW c \in Int,
         NEW b \in 0 .. m - 1, NEW d \in 0 .. m - 1, a * m + b = c * m + d
  PROVE  a = c /\ b = d
<1>1. ASSUME NEW u \in Nat \ {0} PROVE u * m >= m /\ u * m \in Nat
  <2>1. u - 1 \in Nat
    BY <1>1
  <2>2. u * m = (u - 1) * m + m /\ (u - 1) * m \in Nat
    BY <2>1
  <2> QED
    BY <2>2
<1>2. CASE a < c
  <2>1. (c - a) * m = c * m - a * m /\ c * m \in Int /\ a * m \in Int
    OBVIOUS
  <2>2. (c - a) * m >= m
    BY <1>1, <1>2
  <2> QED
    BY <2>1, <2>2
<1>3. CASE c < a
  <2>1. (a - c) * m = a * m - c * m /\ c * m \in Int /\ a * m \in Int
    OBVIOUS
  <2>2. (a - c) * m >= m
    BY <1>1, <1>3
  <2> QED
    BY <2>1, <2>2
<1>4. CASE a = c
  BY <1>4
<1> QED
  BY <1>2, <1>3, <1>4

\* What a division leaves is below the divisor, and together they give the
\* number back.
LEMMA DivMod ==
  ASSUME NEW n \in Nat, NEW m \in Nat \ {0}
  PROVE  /\ n \div m \in Nat /\ n % m \in 0 .. m - 1
         /\ n = (n \div m) * m + (n % m)
OBVIOUS

\* A quotient is below k when the number is below k times the divisor.
LEMMA QuotientBelow ==
  ASSUME NEW n \in Nat, NEW m \in Nat \ {0}, NEW k \in Nat, n < k * m
  PROVE  n \div m < k
<1> DEFINE q == n \div m
<1>1. q \in Nat /\ q * m <= n
  BY DivMod
<1> HIDE DEF q
<1> SUFFICES ASSUME k <= q PROVE FALSE
  BY <1>1 DEF q
<1>2. k * m <= q * m /\ k * m \in Nat /\ q * m \in Nat
  BY <1>1, ProductGrows
<1> QED
  BY <1>1, <1>2

\* A digit below m beside a number below k makes a number below k times m.
LEMMA DigitBelow ==
  ASSUME NEW m \in Nat \ {0}, NEW k \in Nat, NEW a \in 0 .. k - 1, NEW b \in 0 .. m - 1
  PROVE  a * m + b \in 0 .. k * m - 1
<1>1. (a + 1) * m <= k * m
  BY ProductGrows
<1>2. (a + 1) * m = a * m + m /\ a * m \in Nat /\ k * m \in Nat
  OBVIOUS
<1> QED
  BY <1>1, <1>2

\* The framebuffer pixel of a logical point and a place in its square.
shown_at(p, k, j) == (p[2] * SCALE + k) * FW + (p[1] * SCALE + j)

\* Two points of the screen have different offsets.
LEMMA OffsetsDiffer ==
  ASSUME NEW p \in visible(Screen), NEW q \in visible(Screen),
         offset(Screen, p) = offset(Screen, q)
  PROVE  p = q
<1>1. /\ p[1] \in 0 .. LW - 1 /\ p[2] \in Int /\ q[1] \in 0 .. LW - 1 /\ q[2] \in Int
      /\ p = <<p[1], p[2]>> /\ q = <<q[1], q[2]>> /\ LW \in Nat \ {0}
  BY CanvasAssumption DEF visible, Screen
<1>2. p[2] * LW + p[1] = q[2] * LW + q[1]
  BY DEF offset, Screen
<1>3. p[1] = q[1] /\ p[2] = q[2]
  BY <1>1, <1>2, MixedRadix
<1> QED
  BY <1>1, <1>3

\* cart_presentation_upscale fills the square of every point drawn, and
\* nothing else.
LEMMA UpscaleSquares ==
  ASSUME NEW points \in SUBSET visible(Screen), NEW i
  PROVE  i \in cart_presentation_upscale({offset(Screen, p) : p \in points})
           <=> \E p \in points : \E k, j \in 0 .. SCALE - 1 : i = shown_at(p, k, j)
<1> DEFINE V == (0 .. LW - 1) \X (0 .. LH - 1)
           logical == {offset(Screen, p) : p \in points}
<1>1. visible(Screen) = V
  BY DEF visible, Screen
<1>2. ASSUME NEW q \in V PROVE q[2] * LW + q[1] \in logical <=> q \in points
  <2>1. q[2] * LW + q[1] = offset(Screen, q)
    BY DEF offset, Screen
  <2>2. ASSUME offset(Screen, q) \in logical PROVE q \in points
    <3>1. PICK p \in points : offset(Screen, q) = offset(Screen, p)
      BY <2>2
    <3>2. p \in visible(Screen) /\ q \in visible(Screen)
      BY <1>1
    <3>3. q = p
      BY <3>1, <3>2, OffsetsDiffer
    <3> QED
      BY <3>3
  <2> QED
    BY <2>1, <2>2
<1>3. {q \in V : q[2] * LW + q[1] \in logical} = points
  BY <1>1, <1>2
<1> DEFINE square(p) == {(p[2] * SCALE + k) * FW + p[1] * SCALE + j : k, j \in 0 .. SCALE - 1}
<1>4. cart_presentation_upscale(logical) = UNION {square(p) : p \in points}
  BY <1>3 DEF cart_presentation_upscale
<1>5. ASSUME NEW p \in points
      PROVE  i \in square(p) <=> \E k, j \in 0 .. SCALE - 1 :
                                   i = (p[2] * SCALE + k) * FW + p[1] * SCALE + j
  OBVIOUS
<1>6. ASSUME NEW p \in points, NEW k \in 0 .. SCALE - 1, NEW j \in 0 .. SCALE - 1
      PROVE  (p[2] * SCALE + k) * FW + p[1] * SCALE + j = shown_at(p, k, j)
  <2>1. p[1] \in Int /\ p[2] \in Int /\ k \in Int /\ j \in Int /\ SCALE \in Int /\ FW \in Int
    BY <1>1, CanvasAssumption DEF FW
  <2>2. (p[2] * SCALE + k) * FW \in Int /\ p[1] * SCALE \in Int
    BY <2>1
  <2> QED
    BY <2>1, <2>2 DEF shown_at
<1>7. i \in cart_presentation_upscale(logical) <=> \E p \in points : i \in square(p)
  <2> HIDE DEF square
  <2> QED
    BY <1>4
<1> HIDE DEF square
<1> QED
  BY <1>5, <1>6, <1>7

\* Where a framebuffer pixel is shown: column and row come back by division.
LEMMA SquareOf ==
  ASSUME NEW p \in visible(Screen), NEW k \in 0 .. SCALE - 1, NEW j \in 0 .. SCALE - 1
  PROVE  /\ p[1] \in 0 .. LW - 1 /\ p[2] \in 0 .. LH - 1 /\ p = <<p[1], p[2]>>
         /\ FW \in Nat \ {0} /\ FH \in Nat \ {0}
         /\ p[1] * SCALE + j \in 0 .. FW - 1
         /\ p[2] * SCALE + k \in 0 .. FH - 1
         /\ shown_at(p, k, j) \in 0 .. FH * FW - 1
<1>1. /\ p[1] \in 0 .. LW - 1 /\ p[2] \in 0 .. LH - 1 /\ p = <<p[1], p[2]>>
      /\ LW \in Nat \ {0} /\ LH \in Nat \ {0} /\ SCALE \in Nat \ {0}
  BY CanvasAssumption DEF visible, Screen
<1>2. p[1] * SCALE + j \in 0 .. FW - 1 /\ p[2] * SCALE + k \in 0 .. FH - 1
  BY <1>1, DigitBelow DEF FW, FH
<1>3. FW \in Nat \ {0} /\ FH \in Nat \ {0}
  BY <1>1, <1>2 DEF FW, FH
<1> HIDE DEF FW, FH
<1>4. (p[2] * SCALE + k) * FW + (p[1] * SCALE + j) \in 0 .. FH * FW - 1
  BY <1>2, <1>3, DigitBelow
<1> QED
  BY <1>1, <1>2, <1>3, <1>4 DEF shown_at

\* The inverse of SquareOf for the first pixel of a square.
LEMMA CornerOf ==
  ASSUME NEW p \in visible(Screen), NEW q \in visible(Screen),
         NEW k \in 0 .. SCALE - 1, NEW j \in 0 .. SCALE - 1,
         shown_at(p, 0, 0) = shown_at(q, k, j)
  PROVE  p = q
<1>1. SCALE \in Nat \ {0} /\ 0 \in 0 .. SCALE - 1
  BY CanvasAssumption
<1>2. /\ p[1] \in Int /\ p[2] \in Int /\ p = <<p[1], p[2]>> /\ FW \in Nat \ {0}
      /\ p[1] * SCALE + 0 \in 0 .. FW - 1 /\ p[2] * SCALE + 0 \in Int
  BY <1>1, SquareOf
<1>3. /\ q[1] \in Int /\ q[2] \in Int /\ q = <<q[1], q[2]>>
      /\ q[1] * SCALE + j \in 0 .. FW - 1 /\ q[2] * SCALE + k \in Int
  BY <1>1, SquareOf
<1>4. p[1] * SCALE + 0 = q[1] * SCALE + j /\ p[2] * SCALE + 0 = q[2] * SCALE + k
  <2>1. (p[2] * SCALE + 0) * FW + (p[1] * SCALE + 0) = (q[2] * SCALE + k) * FW + (q[1] * SCALE + j)
    BY DEF shown_at
  <2> HIDE DEF FW
  <2> QED
    BY <1>2, <1>3, <2>1, MixedRadix
<1>s. ASSUME NEW a \in Int, NEW c \in Int, NEW d \in 0 .. SCALE - 1, a * SCALE + 0 = c * SCALE + d
      PROVE  a = c
  BY <1>1, <1>s, MixedRadix
<1>5. p[1] = q[1]
  BY <1>2, <1>3, <1>4, <1>s
<1>6. p[2] = q[2]
  BY <1>2, <1>3, <1>4, <1>s
<1> QED
  BY <1>2, <1>3, <1>5, <1>6

\* Turned over by build_bitmap and again by the viewer, every point of the
\* screen is where it was drawn.
LEMMA SnapshotShowsPoints ==
  ASSUME NEW points \in SUBSET visible(Screen)
  PROVE  {<<p[1], LH - 1 - p[2]>> :
            p \in build_bitmap(cart_presentation_upscale({offset(Screen, p) : p \in points}))}
           = points
<1> DEFINE shown == cart_presentation_upscale({offset(Screen, p) : p \in points})
           flip(p) == <<p[1], LH - 1 - p[2]>>
<1>1. ASSUME NEW p \in visible(Screen)
      PROVE  /\ flip(p) \in visible(Screen) /\ flip(flip(p)) = p
             /\ flip(p)[1] = p[1] /\ flip(p)[2] = LH - 1 - p[2]
  <2>1. p[1] \in 0 .. LW - 1 /\ p[2] \in 0 .. LH - 1 /\ p = <<p[1], p[2]>> /\ LH \in Nat
    BY CanvasAssumption DEF visible, Screen
  <2>2. LH - 1 - p[2] \in 0 .. LH - 1 /\ LH - 1 - (LH - 1 - p[2]) = p[2]
    BY <2>1
  <2> QED
    BY <2>1, <2>2 DEF visible, Screen
<1>2. ASSUME NEW p \in visible(Screen)
      PROVE  p \in build_bitmap(shown) <=> flip(p) \in points
  <2> DEFINE n == (LH - 1 - p[2]) * SCALE * FW + p[1] * SCALE
  <2>1. p \in build_bitmap(shown) <=> n \in shown
    BY DEF build_bitmap, visible, Screen
  <2>2. n = shown_at(flip(p), 0, 0)
    <3>1. /\ flip(p)[1] = p[1] /\ flip(p)[2] = LH - 1 - p[2]
      BY <1>1
    <3>2. p[1] \in Int /\ LH - 1 - p[2] \in Int /\ SCALE \in Int /\ FW \in Int
      BY CanvasAssumption DEF visible, Screen, FW
    <3> HIDE DEF flip, FW
    <3>3. shown_at(flip(p), 0, 0) = ((LH - 1 - p[2]) * SCALE + 0) * FW + (p[1] * SCALE + 0)
      BY <3>1 DEF shown_at
    <3>4. /\ (LH - 1 - p[2]) * SCALE + 0 = (LH - 1 - p[2]) * SCALE
          /\ p[1] * SCALE + 0 = p[1] * SCALE
      BY <3>2
    <3> QED
      BY <3>3, <3>4
  <2> HIDE DEF n, flip
  <2>3. n \in shown <=> \E q \in points : \E k, j \in 0 .. SCALE - 1 : n = shown_at(q, k, j)
    BY UpscaleSquares
  <2>4. flip(p) \in visible(Screen) /\ 0 \in 0 .. SCALE - 1
    BY <1>1, CanvasAssumption
  <2>5. ASSUME NEW q \in points, NEW k \in 0 .. SCALE - 1, NEW j \in 0 .. SCALE - 1,
               n = shown_at(q, k, j)
        PROVE  flip(p) = q
    BY <2>2, <2>4, <2>5, CornerOf
  <2> QED
    BY <2>1, <2>2, <2>3, <2>4, <2>5
<1>3. build_bitmap(shown) \subseteq visible(Screen)
  BY DEF build_bitmap, visible, Screen
<1> HIDE DEF shown, flip
<1>4. {flip(p) : p \in build_bitmap(shown)} = points
  BY <1>1, <1>2, <1>3
<1> QED
  BY <1>4 DEF shown, flip

\* The rays and diagonals of a star, cut off at the canvas.
THEOREM StarIsClipped ==
  ASSUME NEW c \in cart_canvas, cart_canvas_valid(c),
         NEW x \in Int, NEW y \in Int, NEW r \in Nat \ {0}
  PROVE  star(c, x, y, r)
           = {p \in visible(c) : LET dx == dist(p[1], x)
                                     dy == dist(p[2], y)
                                 IN  \/ (dx = 0 /\ dy <= r) \/ (dy = 0 /\ dx <= r)
                                     \/ dx = dy /\ dx < r \div 2 + 1}
<1> DEFINE short == {i \in -r .. r : at_least(i, -i) < r \div 2 + 1}
           wanted(p) == LET dx == dist(p[1], x)
                            dy == dist(p[2], y)
                        IN  \/ (dx = 0 /\ dy <= r) \/ (dy = 0 /\ dx <= r)
                            \/ dx = dy /\ dx < r \div 2 + 1
<1>1. ASSUME NEW p, NEW u \in Int, NEW v \in Int
      PROVE  p \in cart_canvas_px(c, u, v) <=> p \in visible(c) /\ p[1] = u /\ p[2] = v
  BY PixelIsClipped
<1>2. ASSUME NEW i \in -r .. r
      PROVE  /\ x + i \in Int /\ y + i \in Int /\ y - i \in Int
             /\ dist(x + i, x) = at_least(i, -i) /\ dist(y + i, y) = at_least(i, -i)
             /\ dist(y - i, y) = at_least(i, -i) /\ at_least(i, -i) <= r
             /\ dist(x, x) = 0 /\ dist(y, y) = 0
  BY DEF dist, at_least
<1>3. ASSUME NEW p \in star(c, x, y, r) PROVE p \in visible(c) /\ wanted(p)
  <2>1. CASE \E i \in -r .. r : p \in cart_canvas_px(c, x + i, y) \/ p \in cart_canvas_px(c, x, y + i)
    <3>1. PICK i \in -r .. r : p \in cart_canvas_px(c, x + i, y) \/ p \in cart_canvas_px(c, x, y + i)
      BY <2>1
    <3>2. p \in visible(c) /\ ((p[1] = x + i /\ p[2] = y) \/ (p[1] = x /\ p[2] = y + i))
      BY <1>1, <1>2, <3>1
    <3> QED
      BY <1>2, <3>2
  <2>2. CASE \E i \in short : p \in cart_canvas_px(c, x + i, y + i) \/ p \in cart_canvas_px(c, x + i, y - i)
    <3>1. PICK i \in short : p \in cart_canvas_px(c, x + i, y + i) \/ p \in cart_canvas_px(c, x + i, y - i)
      BY <2>2
    <3>2. /\ i \in -r .. r /\ p \in visible(c) /\ p[1] = x + i /\ (p[2] = y + i \/ p[2] = y - i)
          /\ at_least(i, -i) < r \div 2 + 1
      BY <1>1, <1>2, <3>1
    <3> QED
      BY <1>2, <3>2
  <2> QED
    BY <1>3, <2>1, <2>2 DEF star
<1>4. ASSUME NEW p \in visible(c), wanted(p) PROVE p \in star(c, x, y, r)
  <2>1. p[1] \in Int /\ p[2] \in Int
    BY DEF visible, cart_canvas
  <2>2. r \div 2 + 1 <= r /\ r \div 2 + 1 \in Nat
    BY SMT
  <2>3. CASE dist(p[1], x) = 0 /\ dist(p[2], y) <= r
    <3>1. PICK i \in -r .. r : p[1] = x /\ p[2] = y + i
      <4>1. p[1] = x
        BY <2>1, <2>3 DEF dist
      <4>2. p[2] - y \in -r .. r
        BY <2>1, <2>3 DEF dist
      <4>3. p[2] = y + (p[2] - y)
        BY <2>1
      <4> QED
        BY <4>1, <4>2, <4>3
    <3>2. p \in cart_canvas_px(c, x, y + i)
      BY <1>1, <1>2, <3>1
    <3> QED
      BY <3>2 DEF star
  <2>4. CASE dist(p[2], y) = 0 /\ dist(p[1], x) <= r
    <3>1. PICK i \in -r .. r : p[2] = y /\ p[1] = x + i
      <4>1. p[1] - x \in -r .. r /\ p[2] = y /\ p[1] = x + (p[1] - x)
        BY <2>1, <2>4 DEF dist
      <4> QED
        BY <4>1
    <3>2. p \in cart_canvas_px(c, x + i, y)
      BY <1>1, <1>2, <3>1
    <3> QED
      BY <3>2 DEF star
  <2>5. CASE dist(p[1], x) = dist(p[2], y) /\ dist(p[1], x) < r \div 2 + 1
    <3> DEFINE h == r \div 2 + 1
    <3>1. PICK i \in -r .. r : p[1] = x + i /\ (p[2] = y + i \/ p[2] = y - i) /\ at_least(i, -i) < h
      <4> DEFINE i == p[1] - x
      <4>1. h \in Nat /\ h <= r /\ dist(p[1], x) < h
        BY <2>2, <2>5
      <4> HIDE DEF h
      <4>2. /\ i \in -r .. r /\ p[1] = x + i /\ at_least(i, -i) < h
            /\ (p[2] = y + i \/ p[2] = y - i)
        BY <2>1, <2>5, <4>1 DEF dist, at_least
      <4> QED
        BY <4>2
    <3>2. p \in cart_canvas_px(c, x + i, y + i) \/ p \in cart_canvas_px(c, x + i, y - i)
      BY <1>1, <1>2, <3>1
    <3>3. i \in short
      BY <3>1
    <3> HIDE DEF short
    <3>4. p \in UNION {cart_canvas_px(c, x + k, y + k) \cup cart_canvas_px(c, x + k, y - k) : k \in short}
      BY <3>2, <3>3
    <3> QED
      BY <3>4 DEF star, short
  <2> QED
    BY <1>4, <2>3, <2>4, <2>5
<1> HIDE DEF wanted
<1>5. star(c, x, y, r) = {p \in visible(c) : wanted(p)}
  BY <1>3, <1>4
<1> QED
  BY <1>5 DEF wanted

\* The middle of a flower lies in its petals: the disc in the centre, which the
\* code draws last, adds no point.
LEMMA CentreIsCovered ==
  ASSUME NEW u \in Int, NEW v \in Int, NEW s \in Nat, u * u + v * v <= s * s
  PROVE  \/ (u - s) * (u - s) + v * v <= s * s \/ (u + s) * (u + s) + v * v <= s * s
         \/ u * u + (v - s) * (v - s) <= s * s \/ u * u + (v + s) * (v + s) <= s * s
<1>1. u * u \in Nat /\ v * v \in Nat /\ s * s \in Nat
  BY SquareNatural
<1>2. /\ -s <= u /\ u <= s /\ -s <= v /\ v <= s
  BY <1>1, SquareBounds
\* for two coordinates of which the first is the larger one in size
<1>3. ASSUME NEW a \in Nat, NEW b \in Nat, b <= a, a <= s
      PROVE  (a - s) * (a - s) + b * b <= s * s
  <2>1. b * b <= a * b /\ a * b <= a * a /\ a * a <= a * s
    <3>1. b * b <= a * b
      BY <1>3, ProductGrows
    <3>2. b * a <= a * a /\ a * a <= s * a
      BY <1>3, ProductGrows
    <3>3. b * a = a * b /\ s * a = a * s
      OBVIOUS
    <3> QED
      BY <3>1, <3>2, <3>3
  <2>2. (a - s) * (a - s) = a * a - 2 * (a * s) + s * s
    OBVIOUS
  <2>3. a * a \in Nat /\ b * b \in Nat /\ a * b \in Nat /\ a * s \in Nat /\ s * s \in Nat
    OBVIOUS
  <2> QED
    BY <2>1, <2>2, <2>3
<1>4. PICK a \in Nat : (a = u \/ a = -u) /\ a <= s
  BY <1>2
<1>5. PICK b \in Nat : (b = v \/ b = -v) /\ b <= s
  BY <1>2
<1>6. /\ a * a = u * u /\ b * b = v * v
      /\ (a - s) * (a - s) = (u - s) * (u - s) \/ (a - s) * (a - s) = (u + s) * (u + s)
      /\ (b - s) * (b - s) = (v - s) * (v - s) \/ (b - s) * (b - s) = (v + s) * (v + s)
  <2>1. ASSUME NEW w \in Int
        PROVE  (-w) * (-w) = w * w /\ (-w - s) * (-w - s) = (w + s) * (w + s)
    OBVIOUS
  <2>2. a * a = u * u
    BY <1>4, <2>1
  <2>3. b * b = v * v
    BY <1>5, <2>1
  <2>4. (a - s) * (a - s) = (u - s) * (u - s) \/ (a - s) * (a - s) = (u + s) * (u + s)
    BY <1>4, <2>1
  <2>5. (b - s) * (b - s) = (v - s) * (v - s) \/ (b - s) * (b - s) = (v + s) * (v + s)
    BY <1>5, <2>1
  <2> QED
    BY <2>2, <2>3, <2>4, <2>5
<1>7. CASE b <= a
  <2>1. (a - s) * (a - s) + b * b <= s * s
    BY <1>3, <1>4, <1>7
  <2> QED
    BY <1>6, <2>1
<1>8. CASE a <= b
  <2>1. (b - s) * (b - s) + a * a <= s * s
    BY <1>3, <1>5, <1>8
  <2>2. (b - s) * (b - s) \in Int /\ a * a \in Int
    OBVIOUS
  <2>3. a * a + (b - s) * (b - s) <= s * s
    BY <1>1, <2>1, <2>2
  <2> QED
    BY <1>6, <2>3
<1> QED
  BY <1>7, <1>8

\* The four petals of a flower, cut off at the canvas.
THEOREM FlowerIsClipped ==
  ASSUME NEW c \in cart_canvas, cart_canvas_valid(c),
         NEW x \in Int, NEW y \in Int, NEW s \in Nat
  PROVE  flower(c, x, y, s)
           = {p \in visible(c) : \/ \E d \in {-s, s} : in_disc(p, x + d, y, s)
                                 \/ \E d \in {-s, s} : in_disc(p, x, y + d, s)}
<1>1. ASSUME NEW p, NEW u \in Int, NEW v \in Int
      PROVE  p \in cart_canvas_circle(c, u, v, s) <=> p \in visible(c) /\ in_disc(p, u, v, s)
  BY CircleIsClipped
<1>2. /\ x - s \in Int /\ x + s \in Int /\ y - s \in Int /\ y + s \in Int
      /\ x + (-s) = x - s /\ y + (-s) = y - s
  OBVIOUS
<1>3. ASSUME NEW p \in visible(c), in_disc(p, x, y, s)
      PROVE  \/ in_disc(p, x - s, y, s) \/ in_disc(p, x + s, y, s)
             \/ in_disc(p, x, y - s, s) \/ in_disc(p, x, y + s, s)
  <2> DEFINE u == p[1] - x
             v == p[2] - y
  <2>1. /\ u \in Int /\ v \in Int
        /\ p[1] - (x - s) = u + s /\ p[1] - (x + s) = u - s
        /\ p[2] - (y - s) = v + s /\ p[2] - (y + s) = v - s
    BY DEF visible, cart_canvas
  <2>2. u * u + v * v <= s * s
    BY <1>3 DEF in_disc
  <2> HIDE DEF u, v
  <2>3. \/ (u - s) * (u - s) + v * v <= s * s \/ (u + s) * (u + s) + v * v <= s * s
        \/ u * u + (v - s) * (v - s) <= s * s \/ u * u + (v + s) * (v + s) <= s * s
    BY <2>1, <2>2, CentreIsCovered
  <2>4. /\ in_disc(p, x + s, y, s) <=> (u - s) * (u - s) + v * v <= s * s
        /\ in_disc(p, x - s, y, s) <=> (u + s) * (u + s) + v * v <= s * s
        /\ in_disc(p, x, y + s, s) <=> u * u + (v - s) * (v - s) <= s * s
        /\ in_disc(p, x, y - s, s) <=> u * u + (v + s) * (v + s) <= s * s
    BY <2>1 DEF in_disc, u, v
  <2> QED
    BY <2>3, <2>4
<1> HIDE DEF in_disc
<1>4. ASSUME NEW p
      PROVE  p \in flower(c, x, y, s)
               <=> /\ p \in visible(c)
                   /\ \/ in_disc(p, x - s, y, s) \/ in_disc(p, x + s, y, s)
                      \/ in_disc(p, x, y - s, s) \/ in_disc(p, x, y + s, s)
  BY <1>1, <1>2, <1>3 DEF flower
<1> QED
  BY <1>2, <1>4

\* A framebuffer pixel has the colour exactly when the point it covers has it.
LEMMA ScreenShowsPoints ==
  ASSUME NEW points \in SUBSET visible(Screen)
  PROVE  cart_presentation_upscale({offset(Screen, p) : p \in points})
           = {i \in 0 .. FW * FH - 1 : <<(i % FW) \div SCALE, (i \div FW) \div SCALE>> \in points}
<1> DEFINE shown == cart_presentation_upscale({offset(Screen, p) : p \in points})
<1>1. ASSUME NEW i \in shown
      PROVE  /\ i \in 0 .. FW * FH - 1
             /\ <<(i % FW) \div SCALE, (i \div FW) \div SCALE>> \in points
  <2>1. PICK p \in points, k \in 0 .. SCALE - 1, j \in 0 .. SCALE - 1 : i = shown_at(p, k, j)
    BY <1>1, UpscaleSquares
  <2>2. /\ p[1] \in 0 .. LW - 1 /\ p[2] \in 0 .. LH - 1 /\ p = <<p[1], p[2]>>
        /\ FW \in Nat \ {0} /\ FH \in Nat \ {0}
        /\ p[1] * SCALE + j \in 0 .. FW - 1 /\ p[2] * SCALE + k \in 0 .. FH - 1
        /\ i \in 0 .. FH * FW - 1
    BY <2>1, SquareOf
  <2>3. FH * FW = FW * FH /\ SCALE \in Nat \ {0} /\ i \in Nat
    BY <2>2, CanvasAssumption
  <2> HIDE DEF FW, FH
  <2>4. i \div FW = p[2] * SCALE + k /\ i % FW = p[1] * SCALE + j
    <3>1. /\ i \div FW \in Nat /\ i % FW \in 0 .. FW - 1 /\ i = (i \div FW) * FW + (i % FW)
      BY <2>2, <2>3, DivMod
    <3>2. i = (p[2] * SCALE + k) * FW + (p[1] * SCALE + j)
      BY <2>1 DEF shown_at
    <3>3. p[2] * SCALE + k \in Int /\ i \div FW \in Int
      BY <2>2, <3>1
    <3>4. (i \div FW) * FW + (i % FW) = (p[2] * SCALE + k) * FW + (p[1] * SCALE + j)
      BY <3>1, <3>2
    <3> QED
      BY <2>2, <3>1, <3>3, <3>4, MixedRadix
  <2>5. ASSUME NEW a \in Nat, NEW d \in 0 .. SCALE - 1
        PROVE  (a * SCALE + d) \div SCALE = a
    <3> DEFINE n == a * SCALE + d
    <3>1. n \in Nat /\ n = a * SCALE + d
      BY <2>3
    <3> HIDE DEF n
    <3> DEFINE q == n \div SCALE
               e == n % SCALE
    <3>2. q \in Int /\ e \in 0 .. SCALE - 1 /\ n = q * SCALE + e
      BY <2>3, <3>1, DivMod
    <3> HIDE DEF q, e
    <3>3. q * SCALE + e = a * SCALE + d /\ a \in Int
      BY <3>1, <3>2
    <3>4. q = a
      BY <2>3, <3>2, <3>3, MixedRadix
    <3> QED
      BY <3>4 DEF n, q
  <2>6. (i \div FW) \div SCALE = p[2] /\ (i % FW) \div SCALE = p[1]
    BY <2>2, <2>4, <2>5
  <2> QED
    BY <2>2, <2>3, <2>6
<1>2. ASSUME NEW i \in 0 .. FW * FH - 1,
             <<(i % FW) \div SCALE, (i \div FW) \div SCALE>> \in points
      PROVE  i \in shown
  <2> DEFINE y == i \div FW
             x == i % FW
             p == <<x \div SCALE, y \div SCALE>>
             j == x % SCALE
             k == y % SCALE
  <2>1. SCALE \in Nat \ {0} /\ LW \in Nat \ {0} /\ LH \in Nat \ {0}
    BY CanvasAssumption
  <2>2. FW \in Nat \ {0} /\ FH \in Nat /\ FW * FH \in Nat
    BY <2>1 DEF FW, FH
  <2>3. y \in Nat /\ x \in Nat /\ i = y * FW + x
    <3> HIDE DEF FW
    <3>1. i \in Nat
      BY <2>2
    <3> QED
      BY <2>2, <3>1, DivMod
  <2> HIDE DEF x, y
  <2>4. /\ j \in 0 .. SCALE - 1 /\ x = (x \div SCALE) * SCALE + j
        /\ k \in 0 .. SCALE - 1 /\ y = (y \div SCALE) * SCALE + k
    BY <2>1, <2>3, DivMod
  <2> HIDE DEF j, k
  <2>5. p \in points /\ p[1] = x \div SCALE /\ p[2] = y \div SCALE
    BY <1>2 DEF x, y
  <2> HIDE DEF p
  <2>6. i = shown_at(p, k, j)
    BY <2>3, <2>4, <2>5 DEF shown_at
  <2> QED
    BY <2>4, <2>5, <2>6, UpscaleSquares
<1>3. shown \subseteq 0 .. FW * FH - 1
  BY <1>1
<1> HIDE DEF shown
<1>4. shown = {i \in 0 .. FW * FH - 1 : <<(i % FW) \div SCALE, (i \div FW) \div SCALE>> \in points}
  BY <1>1, <1>2, <1>3
<1> QED
  BY <1>4 DEF shown

----------------------------------------------------------------------------
\* What the state of Kernels can be: no call, or the result of one of them, on
\* arguments of the right type.
Drawing(op, c, a, points) == [op |-> op, canvas |-> c, args |-> a, points |-> points]

ShapeOn(c, x, y) ==
  \/ call = Drawing("px", c, <<x, y>>, cart_canvas_px(c, x, y))
  \/ \E w, h \in Int :
       call = Drawing("rect", c, <<x, y, w, h>>, cart_canvas_rect(c, x, y, w, h))
  \/ \E r \in Int : call = Drawing("circle", c, <<x, y, r>>, cart_canvas_circle(c, x, y, r))
  \/ \E r \in Nat \ {0} : call = Drawing("star", c, <<x, y, r>>, star(c, x, y, r))
  \/ \E s \in Nat : call = Drawing("flower", c, <<x, y, s>>, flower(c, x, y, s))

ShapeInv ==
  \/ ~drawing
  \/ \E c \in cart_canvas, x, y \in Int : ShapeOn(c, x, y)
  \/ \E a, b \in 0 .. LH : call = Drawing("rows", Screen, <<a, b>>, scene_rows(a, b))

\* Every drawing is one of these calls.
THEOREM DrawingsAreShapes == Spec => []ShapeInv
<1>1. Init => ShapeInv
  BY DEF Init, Idle, ShapeInv, drawing
<1>2. ShapeInv /\ [Next]_call => ShapeInv'
  <2> SUFFICES ASSUME ShapeInv, [Next]_call PROVE ShapeInv'
    OBVIOUS
  <2>k. /\ Canvases \subseteq cart_canvas /\ Coordinates \subseteq Int /\ Extents \subseteq Int
        /\ 1 .. 4 \subseteq Nat \ {0} /\ 1 .. 3 \subseteq Nat
    BY KernelsAssumption
  <2> USE DEF Drawn, Drawing
  <2> HIDE DEF drawing
  <2>1. CASE DrawPixel
    BY <2>1, <2>k DEF DrawPixel, ShapeInv, ShapeOn
  <2>2. CASE DrawRect
    BY <2>2, <2>k DEF DrawRect, ShapeInv, ShapeOn
  <2>3. CASE DrawCircle
    BY <2>3, <2>k DEF DrawCircle, ShapeInv, ShapeOn
  <2>4. CASE DrawStar
    BY <2>4, <2>k DEF DrawStar, ShapeInv, ShapeOn
  <2>5. CASE DrawFlower
    BY <2>5, <2>k DEF DrawFlower, ShapeInv, ShapeOn
  <2>6. CASE DrawRows
    BY <2>6 DEF DrawRows, ShapeInv
  <2>7. CASE Fade \/ Axis \/ Return
    <3>1. ~drawing'
      BY <2>7 DEF Fade, Axis, Return, Idle, drawing
    <3> QED
      BY <3>1 DEF ShapeInv
  <2>8. CASE UNCHANGED call
    BY <2>8 DEF ShapeInv, ShapeOn, drawing
  <2> QED
    BY <2>1, <2>2, <2>3, <2>4, <2>5, <2>6, <2>7, <2>8 DEF Next, Call
<1> QED
  BY <1>1, <1>2, PTL DEF Spec

\* A drawing on a valid canvas is what was asked for, cut off at the canvas; an
\* invalid canvas gets nothing.
LEMMA ShapesAreAskedFor ==
  ASSUME ShapeInv, drawing
  PROVE  /\ call.canvas \in cart_canvas
         /\ cart_canvas_valid(call.canvas)
              => call.points = {p \in visible(call.canvas) : asked_for(p)}
         /\ ~cart_canvas_valid(call.canvas) => call.points = {}
<1>1. ASSUME NEW c \in cart_canvas, NEW x \in Int, NEW y \in Int,
             call = Drawing("px", c, <<x, y>>, cart_canvas_px(c, x, y))
      PROVE  /\ call.canvas = c
             /\ cart_canvas_valid(c) => call.points = {p \in visible(c) : asked_for(p)}
             /\ ~cart_canvas_valid(c) => call.points = {}
  <2>1. call.op = "px" /\ call.canvas = c /\ call.args = <<x, y>> /\ call.points = cart_canvas_px(c, x, y)
    BY <1>1 DEF Drawing
  <2>2. ASSUME NEW p \in visible(c) PROVE asked_for(p) <=> p[1] = x /\ p[2] = y
    <3>1. asked_for(p) <=> dist(p[1], x) = 0 /\ dist(p[2], y) = 0
      BY <2>1 DEF asked_for
    <3>2. p[1] \in Int /\ p[2] \in Int
      BY DEF visible, cart_canvas
    <3>3. /\ dist(p[1], x) = 0 <=> p[1] = x
          /\ dist(p[2], y) = 0 <=> p[2] = y
      BY <3>2 DEF dist
    <3> QED
      BY <3>1, <3>3
  <2>3. cart_canvas_valid(c) => call.points = {p \in visible(c) : p[1] = x /\ p[2] = y}
    BY <2>1, PixelIsClipped
  <2>4. ~cart_canvas_valid(c) => call.points = {}
    BY <2>1 DEF cart_canvas_px
  <2> HIDE DEF asked_for
  <2> QED
    BY <2>1, <2>2, <2>3, <2>4
<1>2. ASSUME NEW c \in cart_canvas, NEW x \in Int, NEW y \in Int, NEW w \in Int, NEW h \in Int,
             call = Drawing("rect", c, <<x, y, w, h>>, cart_canvas_rect(c, x, y, w, h))
      PROVE  /\ call.canvas = c
             /\ cart_canvas_valid(c) => call.points = {p \in visible(c) : asked_for(p)}
             /\ ~cart_canvas_valid(c) => call.points = {}
  <2>1. /\ call.op = "rect" /\ call.canvas = c /\ call.args = <<x, y, w, h>>
        /\ call.points = cart_canvas_rect(c, x, y, w, h)
    BY <1>2 DEF Drawing
  <2>2. ASSUME NEW p \in visible(c)
        PROVE  asked_for(p) <=> p[1] - x \in 0 .. w - 1 /\ p[2] - y \in 0 .. h - 1
    BY <2>1 DEF asked_for
  <2>3. cart_canvas_valid(c)
          => call.points = {p \in visible(c) : p[1] - x \in 0 .. w - 1 /\ p[2] - y \in 0 .. h - 1}
    BY <2>1, RectIsClipped
  <2>4. ~cart_canvas_valid(c) => call.points = {}
    BY <2>1 DEF cart_canvas_rect
  <2> HIDE DEF asked_for
  <2> QED
    BY <2>1, <2>2, <2>3, <2>4
<1>3. ASSUME NEW c \in cart_canvas, NEW x \in Int, NEW y \in Int, NEW r \in Int,
             call = Drawing("circle", c, <<x, y, r>>, cart_canvas_circle(c, x, y, r))
      PROVE  /\ call.canvas = c
             /\ cart_canvas_valid(c) => call.points = {p \in visible(c) : asked_for(p)}
             /\ ~cart_canvas_valid(c) => call.points = {}
  <2>1. /\ call.op = "circle" /\ call.canvas = c /\ call.args = <<x, y, r>>
        /\ call.points = cart_canvas_circle(c, x, y, r)
    BY <1>3 DEF Drawing
  <2>2. ASSUME NEW p \in visible(c)
        PROVE  asked_for(p) <=> r >= 0 /\ in_disc(p, x, y, r)
    BY <2>1 DEF asked_for
  <2>3. cart_canvas_valid(c) => call.points = {p \in visible(c) : r >= 0 /\ in_disc(p, x, y, r)}
    <3>1. CASE r >= 0
      BY <2>1, <3>1, CircleIsClipped
    <3>2. CASE ~(r >= 0)
      BY <2>1, <3>2 DEF cart_canvas_circle
    <3> QED
      BY <3>1, <3>2
  <2>4. ~cart_canvas_valid(c) => call.points = {}
    BY <2>1 DEF cart_canvas_circle
  <2> HIDE DEF asked_for
  <2> QED
    BY <2>1, <2>2, <2>3, <2>4
<1>4. ASSUME NEW c \in cart_canvas, NEW x \in Int, NEW y \in Int, NEW r \in Nat \ {0},
             call = Drawing("star", c, <<x, y, r>>, star(c, x, y, r))
      PROVE  /\ call.canvas = c
             /\ cart_canvas_valid(c) => call.points = {p \in visible(c) : asked_for(p)}
             /\ ~cart_canvas_valid(c) => call.points = {}
  <2>1. /\ call.op = "star" /\ call.canvas = c /\ call.args = <<x, y, r>>
        /\ call.points = star(c, x, y, r)
    BY <1>4 DEF Drawing
  <2> DEFINE wanted(p) == LET dx == dist(p[1], x)
                              dy == dist(p[2], y)
                          IN  \/ (dx = 0 /\ dy <= r) \/ (dy = 0 /\ dx <= r)
                              \/ dx = dy /\ dx < r \div 2 + 1
  <2>2. ASSUME NEW p \in visible(c) PROVE asked_for(p) <=> wanted(p)
    BY <2>1 DEF asked_for
  <2>3. cart_canvas_valid(c) => call.points = {p \in visible(c) : wanted(p)}
    BY <2>1, StarIsClipped
  <2>4. ~cart_canvas_valid(c) => call.points = {}
    BY <2>1 DEF cart_canvas_px, star
  <2> HIDE DEF asked_for, wanted
  <2> QED
    BY <2>1, <2>2, <2>3, <2>4
<1>5. ASSUME NEW c \in cart_canvas, NEW x \in Int, NEW y \in Int, NEW s \in Nat,
             call = Drawing("flower", c, <<x, y, s>>, flower(c, x, y, s))
      PROVE  /\ call.canvas = c
             /\ cart_canvas_valid(c) => call.points = {p \in visible(c) : asked_for(p)}
             /\ ~cart_canvas_valid(c) => call.points = {}
  <2>1. /\ call.op = "flower" /\ call.canvas = c /\ call.args = <<x, y, s>>
        /\ call.points = flower(c, x, y, s)
    BY <1>5 DEF Drawing
  <2> DEFINE wanted(p) == \/ \E d \in {-s, s} : in_disc(p, x + d, y, s)
                          \/ \E d \in {-s, s} : in_disc(p, x, y + d, s)
  <2>2. ASSUME NEW p \in visible(c) PROVE asked_for(p) <=> wanted(p)
    BY <2>1 DEF asked_for
  <2>3. cart_canvas_valid(c) => call.points = {p \in visible(c) : wanted(p)}
    BY <2>1, FlowerIsClipped
  <2>4. ~cart_canvas_valid(c) => call.points = {}
    BY <2>1 DEF cart_canvas_circle, flower
  <2> HIDE DEF asked_for, wanted
  <2> QED
    BY <2>1, <2>2, <2>3, <2>4
<1>6. ASSUME NEW a \in 0 .. LH, NEW b \in 0 .. LH,
             call = Drawing("rows", Screen, <<a, b>>, scene_rows(a, b))
      PROVE  /\ call.canvas = Screen /\ Screen \in cart_canvas /\ cart_canvas_valid(Screen)
             /\ call.points = {p \in visible(Screen) : asked_for(p)}
  <2>1. /\ call.op = "rows" /\ call.canvas = Screen /\ call.args = <<a, b>>
        /\ call.points = scene_rows(a, b)
    BY <1>6 DEF Drawing
  <2>2. ASSUME NEW p \in visible(Screen) PROVE asked_for(p) <=> p[2] \in a .. b - 1
    BY <2>1 DEF asked_for
  <2>3. scene_rows(a, b) = {p \in visible(Screen) : p[2] \in a .. b - 1}
    BY CanvasAssumption DEF scene_rows, visible, Screen
  <2>4. Screen \in cart_canvas /\ cart_canvas_valid(Screen)
    BY CanvasAssumption, KernelsAssumption DEF Screen, cart_canvas
  <2> HIDE DEF asked_for
  <2> QED
    BY <2>1, <2>2, <2>3, <2>4
<1>7. CASE \E c \in cart_canvas, x, y \in Int : ShapeOn(c, x, y)
  <2>1. PICK c \in cart_canvas, x \in Int, y \in Int : ShapeOn(c, x, y)
    BY <1>7
  <2> HIDE DEF asked_for, Drawing
  <2>2. /\ call.canvas = c
        /\ cart_canvas_valid(c) => call.points = {p \in visible(c) : asked_for(p)}
        /\ ~cart_canvas_valid(c) => call.points = {}
    BY <1>1, <1>2, <1>3, <1>4, <1>5, <2>1, Zenon DEF ShapeOn
  <2> QED
    BY <2>2
<1>8. CASE \E a, b \in 0 .. LH : call = Drawing("rows", Screen, <<a, b>>, scene_rows(a, b))
  <2> HIDE DEF asked_for, Drawing
  <2>1. /\ call.canvas = Screen /\ Screen \in cart_canvas /\ cart_canvas_valid(Screen)
        /\ call.points = {p \in visible(Screen) : asked_for(p)}
    BY <1>6, <1>8, Zenon
  <2> QED
    BY <2>1
<1> QED
  BY <1>7, <1>8 DEF ShapeInv

\* A shape is drawn exactly, for every canvas, every position and extent and
\* every scale of the screen: cut off at the canvas, and each framebuffer pixel
\* shows the point it covers.
THEOREM ShapesAreShownExactly == Spec => []ShownExactly
<1>1. ShapeInv => ShownExactly
  <2> SUFFICES ASSUME ShapeInv, drawing PROVE ShownExactly
    BY DEF ShownExactly
  <2>1. /\ call.canvas \in cart_canvas
        /\ cart_canvas_valid(call.canvas)
             => call.points = {p \in visible(call.canvas) : asked_for(p)}
    BY ShapesAreAskedFor
  <2>2. ASSUME call.canvas = Screen
        PROVE  cart_presentation_upscale({offset(Screen, p) : p \in call.points})
                 = {i \in 0 .. FW * FH - 1 :
                      asked_for(<<(i % FW) \div SCALE, (i \div FW) \div SCALE>>)}
    <3>1. call.points = {p \in visible(Screen) : asked_for(p)}
      BY <2>1, <2>2, KernelsAssumption
    <3>2. cart_presentation_upscale({offset(Screen, p) : p \in call.points})
            = {i \in 0 .. FW * FH - 1 :
                 <<(i % FW) \div SCALE, (i \div FW) \div SCALE>> \in call.points}
      BY <3>1, ScreenShowsPoints
    <3>3. ASSUME NEW i \in 0 .. FW * FH - 1
          PROVE  <<(i % FW) \div SCALE, (i \div FW) \div SCALE>> \in visible(Screen)
      <4>1. SCALE \in Nat \ {0} /\ LW \in Nat \ {0} /\ LH \in Nat \ {0}
        BY CanvasAssumption
      <4>2. FW \in Nat \ {0} /\ FH \in Nat /\ FW * FH \in Nat /\ FW * FH = FH * FW
        BY <4>1 DEF FW, FH
      <4>3. i \div FW \in Nat /\ i % FW \in 0 .. FW - 1 /\ i \div FW < FH
        <5> HIDE DEF FW, FH
        <5>1. i \in Nat /\ i < FH * FW
          BY <4>2
        <5> QED
          BY <4>2, <5>1, DivMod, QuotientBelow
      <4>4. i % FW \in Nat /\ i % FW < LW * SCALE /\ i \div FW < LH * SCALE
        BY <4>2, <4>3 DEF FW, FH
      <4> DEFINE u == i % FW
                 v == i \div FW
      <4>5. u \in Nat /\ u < LW * SCALE /\ v \in Nat /\ v < LH * SCALE
        BY <4>3, <4>4
      <4> HIDE DEF u, v
      <4>6. u \div SCALE < LW /\ v \div SCALE < LH /\ u \div SCALE \in Nat /\ v \div SCALE \in Nat
        BY <4>1, <4>5, QuotientBelow, DivMod
      <4>7. <<u \div SCALE, v \div SCALE>> \in visible(Screen)
        BY <4>1, <4>6 DEF visible, Screen
      <4> QED
        BY <4>7 DEF u, v
    <3> HIDE DEF asked_for
    <3> QED
      BY <3>1, <3>2, <3>3
  <2> HIDE DEF asked_for
  <2> QED
    BY <2>1, <2>2 DEF ShownExactly
<1> QED
  BY <1>1, DrawingsAreShapes, PTL

\* The snapshot of vita-fbserve shows the logical frame, for every size of it
\* and every scale.
THEOREM SnapshotsAreTheFrame == Spec => []SnapshotIsTheFrame
<1>1. ShapeInv => SnapshotIsTheFrame
  <2> SUFFICES ASSUME ShapeInv, drawing, call.canvas = Screen PROVE SnapshotIsTheFrame
    BY DEF SnapshotIsTheFrame
  <2>1. call.points = {p \in visible(Screen) : asked_for(p)}
    BY ShapesAreAskedFor, KernelsAssumption
  <2> HIDE DEF asked_for
  <2>2. call.points \in SUBSET visible(Screen)
    BY <2>1
  <2> QED
    BY <2>2, SnapshotShowsPoints DEF SnapshotIsTheFrame
<1> QED
  BY <1>1, DrawingsAreShapes, PTL

----------------------------------------------------------------------------
\* The weights of a fade of 15 frames, CART_TRANSITION_FRAMES, as the fixed-point
\* arithmetic of cart_transition_weight rounds them.
LEMMA WeightTable ==
  ASSUME FRAMES = 15
  PROVE  /\ cart_transition_weight(0) = 0 /\ cart_transition_weight(1) = 3
         /\ cart_transition_weight(2) = 12 /\ cart_transition_weight(3) = 26
         /\ cart_transition_weight(4) = 45 /\ cart_transition_weight(5) = 66
         /\ cart_transition_weight(6) = 90 /\ cart_transition_weight(7) = 115
         /\ cart_transition_weight(8) = 141 /\ cart_transition_weight(9) = 166
         /\ cart_transition_weight(10) = 189 /\ cart_transition_weight(11) = 211
         /\ cart_transition_weight(12) = 229 /\ cart_transition_weight(13) = 243
         /\ cart_transition_weight(14) = 253 /\ cart_transition_weight(15) = 256
BY DEF cart_transition_weight, FIXED_ONE, WEIGHT_MAX

\* Consecutive weights do not fall, and differ by at most 26 of 256.
LEMMA WeightSteps ==
  ASSUME FRAMES = 15, NEW step \in 0 .. FRAMES - 1
  PROVE  /\ cart_transition_weight(step) \in 0 .. 256
         /\ cart_transition_weight(step + 1) \in 0 .. 256
         /\ cart_transition_weight(step + 1) - cart_transition_weight(step) \in 0 .. 26
<1>1. step \in {0, 1, 2, 3, 4, 5, 6, 7, 8, 9, 10, 11, 12, 13, 14}
  OBVIOUS
<1> QED
  BY <1>1, WeightTable

\* A pixel of a frame of a fade is the mix at the weight of its step, also
\* where the blend takes one of the two sources alone.
LEMMA BlendIsMix ==
  ASSUME FRAMES = 15, NEW from \in 0 .. 255, NEW to \in 0 .. 255, NEW step \in 0 .. FRAMES,
         cart_transition_weight(step) \in 0 .. 256
  PROVE  blended(from, to, step) = cart_mix(from, to, cart_transition_weight(step))
<1> DEFINE w == cart_transition_weight(step)
<1>1. /\ w \in Nat /\ w <= 256
      /\ cart_transition_blend(from, to, step)
           = IF w = 0 THEN [from |-> from, to |-> from, amount |-> 0]
             ELSE IF w >= 256 THEN [from |-> to, to |-> to, amount |-> 0]
             ELSE [from |-> from, to |-> to, amount |-> w]
  BY DEF cart_transition_blend, WEIGHT_MAX
<1> HIDE DEF w
<1>2. /\ cart_mix(from, from, 0) = from /\ cart_mix(to, to, 0) = to /\ cart_mix(from, to, 0) = from
      /\ w >= 256 => cart_mix(from, to, w) = to
  <2>1. 0 \in Nat /\ w \in Nat
    BY <1>1
  <2>2. cart_mix(from, from, 0) = from
    BY <2>1, MixStaysBetween, Zenon
  <2>3. cart_mix(to, to, 0) = to
    BY <2>1, MixStaysBetween, Zenon
  <2>4. cart_mix(from, to, 0) = from
    BY <2>1, MixStaysBetween, Zenon
  <2>5. w >= 256 => cart_mix(from, to, w) = to
    <3>1. cart_mix(from, to, 256) = to
      BY DEF cart_mix, clamp_channel, at_least, at_most
    <3>2. w >= 256 => w = 256
      BY <1>1
    <3> QED
      BY <3>1, <3>2
  <2> QED
    BY <2>2, <2>3, <2>4, <2>5
<1>3. CASE w = 0
  BY <1>1, <1>2, <1>3 DEF blended, w
<1>4. CASE w >= 256
  BY <1>1, <1>2, <1>4 DEF blended, w
<1>5. CASE w # 0 /\ ~(w >= 256)
  BY <1>1, <1>5 DEF blended, w
<1> QED
  BY <1>3, <1>4, <1>5 DEF w

\* How far a mix moves when its weight grows by at most 26 of 256.
LEMMA MixMovesGently ==
  ASSUME NEW from \in 0 .. 255, NEW to \in 0 .. 255,
         NEW w \in 0 .. 256, NEW v \in 0 .. 256, v - w \in 0 .. 26
  PROVE  LET way   == dist(to, from)
             moved == dist(to, cart_mix(from, to, w)) - dist(to, cart_mix(from, to, v))
         IN  /\ dist(from, cart_mix(from, to, v)) + dist(cart_mix(from, to, v), to) = way
             /\ moved \in 0 .. (3 * way) \div 30 + 2
<1>1. ASSUME NEW d \in 0 .. 255
      PROVE  /\ d * w \in Nat /\ d * w <= 256 * d /\ d * v \in Nat /\ d * v <= 256 * d
             /\ d * v - d * w \in 0 .. 26 * d
  <2>1. PICK g \in 0 .. 26 : v = w + g
    BY v - w \in 0 .. 26 /\ v = w + (v - w)
  <2>2. w * d <= 256 * d /\ v * d <= 256 * d /\ g * d <= 26 * d
    BY <2>1, ProductGrows
  <2>3. w * d = d * w /\ v * d = d * v /\ g * d \in Nat /\ d * w \in Nat /\ d * v \in Nat
        /\ v * d = w * d + g * d
    BY <2>1
  <2> QED
    BY <2>2, <2>3
<1>m. ASSUME NEW u \in 0 .. 256, NEW n \in Int, (to - from) * u = n, from + n \div 256 \in 0 .. 255
      PROVE  cart_mix(from, to, u) = from + n \div 256
  <2>1. at_most(256, u) = u
    BY DEF at_most
  <2> DEFINE m == from + n \div 256
  <2>2. cart_mix(from, to, u) = clamp_channel(m)
    BY <1>m, <2>1 DEF cart_mix
  <2>3. m \in 0 .. 255
    BY <1>m
  <2> HIDE DEF m
  <2>4. clamp_channel(m) = m
    BY <2>3 DEF clamp_channel, at_least, at_most
  <2> QED
    BY <2>2, <2>4 DEF m
<1>2. CASE from <= to
  <2>1. PICK d \in 0 .. 255 : d = to - from
    BY <1>2
  <2> DEFINE a == d * w
             b == d * v
  <2>2. /\ a \in Nat /\ a <= 256 * d /\ b \in Nat /\ b <= 256 * d /\ b - a \in 0 .. 26 * d
        /\ (to - from) * w = a /\ (to - from) * v = b
    <3>1. /\ a \in Nat /\ a <= 256 * d /\ b \in Nat /\ b <= 256 * d /\ b - a \in 0 .. 26 * d
      BY <1>1, Zenon
    <3>2. (to - from) * w = a /\ (to - from) * v = b
      BY <2>1
    <3> QED
      BY <3>1, <3>2
  <2> HIDE DEF a, b
  <2>3. /\ a \div 256 \in 0 .. d /\ b \div 256 \in 0 .. d
        /\ b \div 256 - a \div 256 \in 0 .. (3 * d) \div 30 + 2
    BY <2>1, <2>2
  <2>4. /\ cart_mix(from, to, w) = from + a \div 256
        /\ cart_mix(from, to, v) = from + b \div 256
    <3> DEFINE p == a \div 256
               q == b \div 256
    <3>1. p \in 0 .. d /\ q \in 0 .. d
      BY <2>3
    <3> HIDE DEF p, q
    <3>2. from + p \in 0 .. 255 /\ from + q \in 0 .. 255
      BY <1>2, <2>1, <3>1
    <3>3. a \in Int /\ (to - from) * w = a /\ from + a \div 256 \in 0 .. 255
      BY <2>2, <3>2 DEF p
    <3>4. b \in Int /\ (to - from) * v = b /\ from + b \div 256 \in 0 .. 255
      BY <2>2, <3>2 DEF q
    <3>5. cart_mix(from, to, w) = from + a \div 256
      BY <1>m, <3>3, ZenonT(30)
    <3>6. cart_mix(from, to, v) = from + b \div 256
      BY <1>m, <3>4, ZenonT(30)
    <3> QED
      BY <3>5, <3>6
  <2> QED
    BY <1>2, <2>1, <2>3, <2>4 DEF dist
<1>3. CASE to < from
  <2>1. PICK d \in 0 .. 255 : d = from - to /\ d # 0
    BY <1>3
  <2> DEFINE a == d * w
             b == d * v
  <2>2. /\ a \in Nat /\ a <= 256 * d /\ b \in Nat /\ b <= 256 * d /\ b - a \in 0 .. 26 * d
        /\ (to - from) * w = -a /\ (to - from) * v = -b
    <3>1. to - from = -d /\ (-d) * w = -(d * w) /\ (-d) * v = -(d * v)
      BY <2>1
    <3>2. /\ a \in Nat /\ a <= 256 * d /\ b \in Nat /\ b <= 256 * d /\ b - a \in 0 .. 26 * d
      BY <1>1, Zenon
    <3> QED
      BY <3>1, <3>2
  <2> HIDE DEF a, b
  <2>3. /\ (-a) \div 256 \in -d .. 0 /\ (-b) \div 256 \in -d .. 0
        /\ (-a) \div 256 - (-b) \div 256 \in 0 .. (3 * d) \div 30 + 2
    BY <2>1, <2>2
  <2>4. /\ cart_mix(from, to, w) = from + (-a) \div 256
        /\ cart_mix(from, to, v) = from + (-b) \div 256
    <3> DEFINE p == (-a) \div 256
               q == (-b) \div 256
    <3>1. p \in -d .. 0 /\ q \in -d .. 0
      BY <2>3
    <3> HIDE DEF p, q
    <3>2. from + p \in 0 .. 255 /\ from + q \in 0 .. 255
      BY <1>3, <2>1, <3>1
    <3>3. -a \in Int /\ (to - from) * w = -a /\ from + (-a) \div 256 \in 0 .. 255
      BY <2>2, <3>2 DEF p
    <3>4. -b \in Int /\ (to - from) * v = -b /\ from + (-b) \div 256 \in 0 .. 255
      BY <2>2, <3>2 DEF q
    <3>5. cart_mix(from, to, w) = from + (-a) \div 256
      BY <1>m, <3>3, ZenonT(30)
    <3>6. cart_mix(from, to, v) = from + (-b) \div 256
      BY <1>m, <3>4, ZenonT(30)
    <3> QED
      BY <3>5, <3>6
  <2> QED
    BY <1>3, <2>1, <2>3, <2>4 DEF dist
<1> QED
  BY <1>2, <1>3

\* A fade of the program's 15 frames is gentle, for all pairs of channel values.
THEOREM FadesAreGentle ==
  ASSUME FRAMES = 15
  PROVE  Spec => []FadeGentle
<1>1. Init => FadeGentle
  BY DEF Init, Idle, FadeGentle
<1>2. FadeGentle /\ [Next]_call => FadeGentle'
  <2> SUFFICES ASSUME FadeGentle, [Next]_call PROVE FadeGentle'
    OBVIOUS
  <2>1. CASE Fade
    <3>1. PICK from \in Channels, to \in Channels, step \in 0 .. FRAMES - 1 :
            call' = [op |-> "fade", from |-> from, to |-> to,
                     before |-> blended(from, to, step), after |-> blended(from, to, step + 1)]
      BY <2>1 DEF Fade
    <3> DEFINE w == cart_transition_weight(step)
               v == cart_transition_weight(step + 1)
    <3>2. from \in 0 .. 255 /\ to \in 0 .. 255 /\ step \in 0 .. FRAMES /\ step + 1 \in 0 .. FRAMES
      BY KernelsAssumption
    <3>3. w \in 0 .. 256 /\ v \in 0 .. 256 /\ v - w \in 0 .. 26
      BY WeightSteps
    <3>4. blended(from, to, step) = cart_mix(from, to, w)
      BY <3>2, <3>3, BlendIsMix
    <3>5. blended(from, to, step + 1) = cart_mix(from, to, v)
      BY <3>2, <3>3, BlendIsMix
    <3> HIDE DEF w, v
    <3>6. /\ call'.from = from /\ call'.to = to
          /\ call'.before = cart_mix(from, to, w) /\ call'.after = cart_mix(from, to, v)
      BY <3>1, <3>4, <3>5
    <3> HIDE DEF cart_mix
    <3>7. LET way   == dist(to, from)
              moved == dist(to, cart_mix(from, to, w)) - dist(to, cart_mix(from, to, v))
          IN  /\ dist(from, cart_mix(from, to, v)) + dist(cart_mix(from, to, v), to) = way
              /\ moved \in 0 .. (3 * way) \div 30 + 2
      BY <3>2, <3>3, MixMovesGently
    <3>8. 2 * FRAMES = 30
      OBVIOUS
    <3> QED
      BY <3>6, <3>7, <3>8 DEF FadeGentle, dist
  <2>2. CASE ~Fade
    <3>1. call' = call \/ call'.op # "fade"
      BY <2>2 DEF Next, Call, Return, Idle, DrawPixel, DrawRect, DrawCircle, DrawStar, DrawFlower,
                  DrawRows, Drawn, Axis
    <3> QED
      BY <3>1 DEF FadeGentle, dist
  <2> QED
    BY <2>1, <2>2
<1> QED
  BY <1>1, <1>2, PTL DEF Spec

----------------------------------------------------------------------------
\* A range whose span fits into an int32_t: the difference does not wrap.
SpanFits(r) ==
  /\ r.min \in Int /\ r.max \in Int
  /\ r.max > r.min /\ r.max - r.min <= IntMax /\ r.deadzone_pct \in 0 .. 50

\* The dead zone lies inside the range, leaves an upper band in every case and a
\* lower one unless the range has only two positions, and is at least as wide as
\* asked for less the rounding.
LEMMA DeadZone ==
  ASSUME NEW r, SpanFits(r)
  PROVE  /\ low(r) \in Int /\ high(r) \in Int
         /\ r.min <= low(r) /\ low(r) <= high(r) /\ high(r) < r.max
         /\ r.max - r.min >= 2 => r.min < low(r)
         /\ \A raw \in Int :
              dist(2 * raw, r.min + r.max) * 100 <= (r.max - r.min) * r.deadzone_pct - 300
                => low(r) <= raw /\ raw <= high(r)
<1> DEFINE width == r.max - r.min
           pct == r.deadzone_pct
           area == width * pct
           h == area \div 200
<1>1. /\ r.min \in Int /\ r.max \in Int /\ width \in Nat \ {0} /\ width <= IntMax
      /\ pct \in 0 .. 50 /\ IntMax \in Nat \ {0}
  BY NormalizeAssumption DEF SpanFits
<1>2. span(r) = width
  <2> DEFINE m == 2 * (IntMax + 1)
             n == width + IntMax + 1
  <2>1. m \in Nat /\ n \in Nat /\ n < m
    BY <1>1
  <2>2. n % m = n
    <3> HIDE DEF m, n
    <3> QED
      BY <2>1
  <2>3. span(r) = (n % m) - (IntMax + 1)
    BY DEF span, int32
  <2>4. n - (IntMax + 1) = width
    BY <1>1
  <2> QED
    BY <2>2, <2>3, <2>4
<1>3. area \in Nat /\ area <= 50 * width
  <2> HIDE DEF width, pct
  <2>1. pct * width <= 50 * width /\ width * pct = pct * width /\ width * pct \in Nat
    BY <1>1, ProductGrows
  <2> QED
    BY <2>1
<1>4. half(r) = h
  BY <1>2, <1>3 DEF half, quotient
<1>5. quotient(span(r), 2) = width \div 2
  BY <1>1, <1>2 DEF quotient
<1>6. low(r) = r.min + width \div 2 - h /\ high(r) = low(r) + 2 * h
  BY <1>4, <1>5 DEF low, high
<1>7. r.max = r.min + width
  BY <1>1
<1>8. (r.max - r.min) * r.deadzone_pct = area
  OBVIOUS
<1> HIDE DEF width, pct, area
<1>9. h \in Nat /\ 200 * h <= area /\ area < 200 * h + 200
  BY <1>3
<1> HIDE DEF h
<1> DEFINE q == width \div 2
<1>10. q \in Nat /\ (width = 2 * q \/ width = 2 * q + 1)
  BY <1>1
<1> HIDE DEF q
<1>11. low(r) = r.min + q - h /\ high(r) = r.min + q + h
  BY <1>1, <1>6, <1>9, <1>10 DEF q
<1>12. 4 * h <= width
  BY <1>1, <1>3, <1>9
<1> HIDE DEF low, high
<1>13. /\ low(r) \in Int /\ high(r) \in Int
       /\ r.min <= low(r) /\ low(r) <= high(r) /\ high(r) < r.max
  BY <1>1, <1>7, <1>9, <1>10, <1>11, <1>12
<1>14. r.max - r.min >= 2 => r.min < low(r)
  BY <1>1, <1>7, <1>9, <1>10, <1>11, <1>12
<1>15. ASSUME NEW raw \in Int,
              dist(2 * raw, r.min + r.max) * 100 <= (r.max - r.min) * r.deadzone_pct - 300
       PROVE  low(r) <= raw /\ raw <= high(r)
  <2> DEFINE d == dist(2 * raw, r.min + r.max)
  <2>1. d \in Nat /\ (d = 2 * raw - (r.min + r.max) \/ d = (r.min + r.max) - 2 * raw)
    BY <1>1 DEF dist
  <2>2. d * 100 <= area - 300
    BY <1>8, <1>15
  <2> HIDE DEF d
  <2>3. d <= 2 * h - 2
    BY <1>3, <1>9, <2>1, <2>2
  <2> QED
    BY <1>1, <1>7, <1>9, <1>10, <1>11, <2>1, <2>3
<1> QED
  BY <1>13, <1>14, <1>15

\* A part of a band in percent lies between 0 and 100 and does not fall.
LEMMA Percent ==
  ASSUME NEW band \in Nat \ {0}, NEW a \in 0 .. band
  PROVE  /\ (a * 100) \div band \in 0 .. 100
         /\ (band * 100) \div band = 100
         /\ \A b \in 0 .. a : (b * 100) \div band <= (a * 100) \div band
<1>1. ASSUME NEW x \in 0 .. band
      PROVE  (x * 100) \div band \in Nat /\ ((x * 100) \div band) * band <= x * 100
             /\ x * 100 < ((x * 100) \div band) * band + band
  <2> DEFINE n == x * 100
  <2>1. n \in Nat
    OBVIOUS
  <2> HIDE DEF n
  <2>2. /\ n \div band \in Nat /\ n % band \in 0 .. band - 1
        /\ n = (n \div band) * band + (n % band)
    BY <2>1, DivMod
  <2> DEFINE q == n \div band
             e == n % band
  <2>3. q \in Nat /\ e \in 0 .. band - 1 /\ n = q * band + e /\ q * band \in Nat
    BY <2>2
  <2> HIDE DEF q, e
  <2>4. q \in Nat /\ q * band <= n /\ n < q * band + band
    BY <2>3
  <2> QED
    BY <2>4 DEF q, n
<1>2. ASSUME NEW x \in 0 .. band, NEW k \in Nat, x * 100 < k * band + band
      PROVE  (x * 100) \div band <= k
  <2>1. x * 100 < (k + 1) * band
    BY <1>2
  <2>2. x * 100 \in Nat /\ k + 1 \in Nat
    OBVIOUS
  <2>3. (x * 100) \div band < k + 1
    BY <2>1, <2>2, QuotientBelow
  <2> QED
    BY <1>1, <2>3
<1>3. (a * 100) \div band \in 0 .. 100
  <2>1. a * 100 < 100 * band + band
    OBVIOUS
  <2>2. (a * 100) \div band <= 100
    BY <1>2, <2>1
  <2> QED
    BY <1>1, <2>2
<1>4. (band * 100) \div band = 100
  <2> DEFINE n == band * 100
  <2>1. n \in Nat
    OBVIOUS
  <2>2. n = 100 * band + 0
    OBVIOUS
  <2> HIDE DEF n
  <2>3. /\ n \div band \in Nat /\ n % band \in 0 .. band - 1
        /\ n = (n \div band) * band + (n % band)
    BY <2>1, DivMod
  <2> DEFINE q == n \div band
             e == n % band
  <2>4. q \in Int /\ e \in 0 .. band - 1 /\ n = q * band + e
    BY <2>3
  <2> HIDE DEF q, e
  <2>5. q * band + e = 100 * band + 0
    BY <2>2, <2>4
  <2>6. q = 100
    BY <2>4, <2>5, MixedRadix
  <2> QED
    BY <2>6 DEF q, n
<1>5. ASSUME NEW b \in 0 .. a PROVE (b * 100) \div band <= (a * 100) \div band
  <2> DEFINE k == (a * 100) \div band
  <2>1. k \in Nat /\ a * 100 < k * band + band
    BY <1>1
  <2> HIDE DEF k
  <2>2. b * 100 <= a * 100 /\ b * 100 \in Nat /\ a * 100 \in Nat /\ k * band \in Nat
    BY <2>1
  <2>3. b * 100 < k * band + band
    BY <2>1, <2>2
  <2>4. (b * 100) \div band <= k
    BY <1>2, <2>1, <2>3
  <2> QED
    BY <2>4 DEF k
<1> QED
  BY <1>3, <1>4, <1>5

\* What cart_input_axis_normalize returns below, in and above the dead zone.
LEMMA NormalizeBands ==
  ASSUME NEW r, SpanFits(r), NEW raw \in Int, NEW c, c = clamped(raw, r)
  PROVE  /\ c \in r.min .. r.max
         /\ low(r) <= c /\ c <= high(r) => cart_input_axis_normalize(raw, r) = 0
         /\ c < low(r) => /\ low(r) - r.min \in Nat \ {0} /\ low(r) - c \in 0 .. low(r) - r.min
                          /\ cart_input_axis_normalize(raw, r)
                               = -(((low(r) - c) * 100) \div (low(r) - r.min))
         /\ high(r) < c => /\ r.max - high(r) \in Nat \ {0} /\ c - high(r) \in 0 .. r.max - high(r)
                           /\ cart_input_axis_normalize(raw, r)
                                = ((c - high(r)) * 100) \div (r.max - high(r))
<1>1. /\ low(r) \in Int /\ high(r) \in Int
      /\ r.min <= low(r) /\ low(r) <= high(r) /\ high(r) < r.max
  BY DeadZone
<1>2. r.min \in Int /\ r.max \in Int /\ r.max > r.min /\ range_valid(r)
  BY DEF SpanFits, range_valid
<1>3. c \in r.min .. r.max
  BY <1>2 DEF clamped
<1>4. cart_input_axis_normalize(raw, r)
        = IF c >= low(r) /\ c <= high(r) THEN 0
          ELSE IF c < low(r) THEN quotient((c - low(r)) * 100, low(r) - r.min)
          ELSE quotient((c - high(r)) * 100, r.max - high(r))
  BY <1>2 DEF cart_input_axis_normalize
<1> HIDE DEF low, high, cart_input_axis_normalize
<1>5. low(r) <= c /\ c <= high(r) => cart_input_axis_normalize(raw, r) = 0
  BY <1>1, <1>3, <1>4
<1>6. ASSUME c < low(r)
      PROVE  /\ low(r) - r.min \in Nat \ {0} /\ low(r) - c \in 0 .. low(r) - r.min
             /\ cart_input_axis_normalize(raw, r)
                  = -(((low(r) - c) * 100) \div (low(r) - r.min))
  <2>1. /\ ~(c >= low(r)) /\ (c - low(r)) * 100 < 0
        /\ -((c - low(r)) * 100) = (low(r) - c) * 100
    BY <1>1, <1>2, <1>3, <1>6
  <2>2. quotient((c - low(r)) * 100, low(r) - r.min)
          = -(((low(r) - c) * 100) \div (low(r) - r.min))
    <3>1. ~((c - low(r)) * 100 >= 0)
      BY <1>1, <1>2, <1>3, <1>6
    <3> QED
      BY <2>1, <3>1 DEF quotient
  <2> QED
    BY <1>1, <1>2, <1>3, <1>4, <1>6, <2>1, <2>2
<1>7. ASSUME high(r) < c
      PROVE  /\ r.max - high(r) \in Nat \ {0} /\ c - high(r) \in 0 .. r.max - high(r)
             /\ cart_input_axis_normalize(raw, r)
                  = ((c - high(r)) * 100) \div (r.max - high(r))
  <2>1. ~(c <= high(r)) /\ ~(c < low(r)) /\ (c - high(r)) * 100 >= 0
    BY <1>1, <1>2, <1>3, <1>7
  <2>2. quotient((c - high(r)) * 100, r.max - high(r))
          = ((c - high(r)) * 100) \div (r.max - high(r))
    BY <2>1 DEF quotient
  <2> QED
    BY <1>1, <1>2, <1>3, <1>4, <1>7, <2>1, <2>2
<1> QED
  BY <1>3, <1>5, <1>6, <1>7

\* The sign and the size of a normalised value in each band.
LEMMA NormalizeSigns ==
  ASSUME NEW r, SpanFits(r), NEW raw \in Int, NEW c, c = clamped(raw, r)
  PROVE  /\ c < low(r) => cart_input_axis_normalize(raw, r) \in -100 .. 0
         /\ high(r) < c => cart_input_axis_normalize(raw, r) \in 0 .. 100
<1> HIDE DEF low, high, cart_input_axis_normalize
<1>1. ASSUME c < low(r) PROVE cart_input_axis_normalize(raw, r) \in -100 .. 0
  <2> DEFINE band == low(r) - r.min
             a == low(r) - c
             z == (a * 100) \div band
  <2>1. band \in Nat \ {0} /\ a \in 0 .. band /\ cart_input_axis_normalize(raw, r) = -z
    BY <1>1, NormalizeBands
  <2> HIDE DEF band, a
  <2>2. z \in 0 .. 100
    BY <2>1, Percent
  <2> HIDE DEF z
  <2> QED
    BY <2>1, <2>2
<1>2. ASSUME high(r) < c PROVE cart_input_axis_normalize(raw, r) \in 0 .. 100
  <2> DEFINE band == r.max - high(r)
             a == c - high(r)
             z == (a * 100) \div band
  <2>1. band \in Nat \ {0} /\ a \in 0 .. band /\ cart_input_axis_normalize(raw, r) = z
    BY <1>2, NormalizeBands
  <2> HIDE DEF band, a
  <2>2. z \in 0 .. 100
    BY <2>1, Percent
  <2> QED
    BY <2>1, <2>2
<1> QED
  BY <1>1, <1>2

\* cart_input_axis_normalize on a range that fits: bounded, full at the upper end
\* and, with more than two positions, at the lower one, zero at rest, and never
\* falling.
THEOREM NormalizeIsFaithful ==
  ASSUME NEW r, SpanFits(r), NEW raw \in Int
  PROVE  LET value == cart_input_axis_normalize(raw, r) IN
         /\ value \in -100 .. 100
         /\ raw <= r.min /\ r.max - r.min >= 2 => value = -100
         /\ raw >= r.max => value = 100
         /\ dist(2 * raw, r.min + r.max) * 100 <= (r.max - r.min) * r.deadzone_pct - 300
              => value = 0
         /\ value <= cart_input_axis_normalize(raw + 1, r)
<1> DEFINE value == cart_input_axis_normalize(raw, r)
           after == cart_input_axis_normalize(raw + 1, r)
           c == clamped(raw, r)
           d == clamped(raw + 1, r)
<1>1. /\ low(r) \in Int /\ high(r) \in Int
      /\ r.min <= low(r) /\ low(r) <= high(r) /\ high(r) < r.max
  BY DeadZone
<1>2. r.min \in Int /\ r.max \in Int /\ raw + 1 \in Int
  BY DEF SpanFits
<1>3. /\ c \in r.min .. r.max /\ d \in r.min .. r.max /\ c <= d
      /\ raw <= r.min => c = r.min
      /\ raw >= r.max => c = r.max
      /\ r.min <= raw /\ raw <= r.max => c = raw
  BY <1>1, <1>2 DEF clamped
<1>4. /\ low(r) <= c /\ c <= high(r) => value = 0
      /\ c < low(r) => value \in -100 .. 0
      /\ high(r) < c => value \in 0 .. 100
  BY NormalizeBands, NormalizeSigns
<1>5. /\ low(r) <= d /\ d <= high(r) => after = 0
      /\ d < low(r) => after \in -100 .. 0
      /\ high(r) < d => after \in 0 .. 100
  BY <1>2, NormalizeBands, NormalizeSigns
<1>6. /\ c < low(r) => /\ low(r) - r.min \in Nat \ {0} /\ low(r) - c \in 0 .. low(r) - r.min
                       /\ value = -(((low(r) - c) * 100) \div (low(r) - r.min))
      /\ high(r) < c => /\ r.max - high(r) \in Nat \ {0} /\ c - high(r) \in 0 .. r.max - high(r)
                        /\ value = ((c - high(r)) * 100) \div (r.max - high(r))
  BY NormalizeBands
<1>7. /\ d < low(r) => after = -(((low(r) - d) * 100) \div (low(r) - r.min))
      /\ high(r) < d => /\ d - high(r) \in 0 .. r.max - high(r)
                        /\ after = ((d - high(r)) * 100) \div (r.max - high(r))
  BY <1>2, NormalizeBands
<1> HIDE DEF low, high, value, after, c, d
<1>8. value \in -100 .. 100
  BY <1>1, <1>2, <1>3, <1>4
<1>9. ASSUME raw <= r.min, r.max - r.min >= 2 PROVE value = -100
  <2> DEFINE band == low(r) - r.min
  <2>1. c = r.min
    BY <1>3, <1>9
  <2>2. low(r) > r.min
    BY <1>1, <1>2, <1>9, DeadZone
  <2>3. band \in Nat \ {0} /\ value = -((band * 100) \div band)
    BY <1>1, <1>2, <1>6, <2>1, <2>2
  <2> HIDE DEF band
  <2>4. (band * 100) \div band = 100
    BY <2>3, Percent
  <2> QED
    BY <2>3, <2>4
<1>10. ASSUME raw >= r.max PROVE value = 100
  <2> DEFINE band == r.max - high(r)
  <2>1. band \in Nat \ {0} /\ value = (band * 100) \div band
    BY <1>1, <1>2, <1>3, <1>6, <1>10
  <2> HIDE DEF band
  <2>2. (band * 100) \div band = 100
    BY <2>1, Percent
  <2> QED
    BY <2>1, <2>2
<1>11. ASSUME dist(2 * raw, r.min + r.max) * 100 <= (r.max - r.min) * r.deadzone_pct - 300
       PROVE  value = 0
  <2>1. low(r) <= raw /\ raw <= high(r)
    BY <1>11, DeadZone
  <2>2. c = raw
    BY <1>1, <1>2, <1>3, <2>1
  <2> QED
    BY <1>4, <2>1, <2>2
<1>12. value <= after
  <2>1. CASE d < low(r)
    <3> DEFINE band == low(r) - r.min
               a == low(r) - c
               b == low(r) - d
               za == (a * 100) \div band
               zb == (b * 100) \div band
    <3>1. /\ band \in Nat \ {0} /\ a \in 0 .. band /\ b \in 0 .. a
          /\ value = -za /\ after = -zb
      <4>1. c < low(r)
        BY <1>1, <1>2, <1>3, <2>1
      <4>2. band \in Nat \ {0} /\ a \in 0 .. band /\ value = -za
        BY <1>6, <4>1
      <4>3. after = -zb
        BY <1>7, <2>1
      <4>4. b \in 0 .. a
        BY <1>1, <1>2, <1>3, <2>1
      <4> QED
        BY <4>2, <4>3, <4>4
    <3> HIDE DEF band, a, b
    <3>2. zb <= za /\ za \in 0 .. 100 /\ zb \in 0 .. 100
      <4>1. b \in 0 .. band
        BY <3>1
      <4> QED
        BY <3>1, <4>1, Percent
    <3> HIDE DEF za, zb
    <3> QED
      BY <3>1, <3>2
  <2>2. CASE high(r) < c
    <3> DEFINE band == r.max - high(r)
               a == d - high(r)
               b == c - high(r)
               za == (a * 100) \div band
               zb == (b * 100) \div band
    <3>1. /\ band \in Nat \ {0} /\ a \in 0 .. band /\ b \in 0 .. a
          /\ value = zb /\ after = za
      <4>1. high(r) < d
        BY <1>1, <1>2, <1>3, <2>2
      <4>2. band \in Nat \ {0} /\ value = zb
        BY <1>6, <2>2
      <4>3. a \in 0 .. band /\ after = za
        BY <1>7, <4>1
      <4>4. b \in 0 .. a
        BY <1>1, <1>2, <1>3, <2>2
      <4> QED
        BY <4>2, <4>3, <4>4
    <3> HIDE DEF band, a, b
    <3> QED
      BY <3>1, Percent
  <2>3. CASE low(r) <= d /\ c <= high(r)
    <3>1. value \in -100 .. 0
      BY <1>1, <1>2, <1>3, <1>4, <2>3
    <3>2. after \in 0 .. 100
      BY <1>1, <1>2, <1>3, <1>5, <2>3
    <3> QED
      BY <3>1, <3>2
  <2> QED
    BY <1>1, <1>2, <1>3, <2>1, <2>2, <2>3
<1> QED
  BY <1>8, <1>9, <1>10, <1>11, <1>12 DEF value, after

\* The inductive invariant of an axis call: the value belongs to the raw value
\* and the range beside it.
AxisInv ==
  call.op = "axis" => /\ call.raw \in Int /\ call.range.min \in Int /\ call.range.max \in Int
                      /\ call.value = cart_input_axis_normalize(call.raw, call.range)

\* The stick is faithful for every raw value and every range, calibrated or set
\* by a caller, whose span an int32_t can hold.
THEOREM AxesAreFaithful == Spec => []AxisFaithful
<1>1. Init => AxisInv
  BY DEF Init, Idle, AxisInv
<1>2. AxisInv /\ [Next]_call => AxisInv'
  <2> SUFFICES ASSUME AxisInv, [Next]_call PROVE AxisInv'
    OBVIOUS
  <2> HIDE DEF cart_input_axis_normalize
  <2>1. CASE Axis
    <3>1. PICK raw \in Raws, limits \in Limits :
            \E range \in {cart_input_axis_range(limits[1], limits[2], pct) : pct \in Percents}
                         \cup {calibrated(limits[1], limits[2], flat) : flat \in Flats} :
              call' = [op |-> "axis", raw |-> raw, range |-> range,
                       value |-> cart_input_axis_normalize(raw, range)]
      BY <2>1 DEF Axis
    <3>2. raw \in Int /\ limits[1] \in Int /\ limits[2] \in Int
      BY KernelsAssumption, NormalizeAssumption
    <3>3. PICK range : /\ range.min = limits[1] /\ range.max = limits[2]
                       /\ call' = [op |-> "axis", raw |-> raw, range |-> range,
                                   value |-> cart_input_axis_normalize(raw, range)]
      BY <3>1 DEF cart_input_axis_range, calibrated
    <3>4. /\ call'.raw = raw /\ call'.range = range
          /\ call'.value = cart_input_axis_normalize(raw, range)
      BY <3>3
    <3> QED
      BY <3>2, <3>3, <3>4 DEF AxisInv, cart_input_axis_normalize
  <2>2. CASE ~Axis
    <3>1. call' = call \/ call'.op # "axis"
      BY <2>2 DEF Next, Call, Return, Idle, DrawPixel, DrawRect, DrawCircle, DrawStar, DrawFlower,
                  DrawRows, Drawn, Fade
    <3> QED
      BY <3>1 DEF AxisInv, cart_input_axis_normalize
  <2> QED
    BY <2>1, <2>2
<1>3. AxisInv => AxisFaithful
  <2> SUFFICES ASSUME AxisInv, call.op = "axis",
                      call.range.max > call.range.min, call.range.max - call.range.min <= IntMax,
                      call.range.deadzone_pct \in 0 .. 50
               PROVE  AxisFaithful
    BY DEF AxisFaithful
  <2>1. SpanFits(call.range) /\ call.raw \in Int
    BY DEF AxisInv, SpanFits
  <2>2. call.value = cart_input_axis_normalize(call.raw, call.range)
    BY DEF AxisInv
  <2> HIDE DEF cart_input_axis_normalize, low, dist
  <2> QED
    BY <2>1, <2>2, NormalizeIsFaithful DEF AxisFaithful
<1> QED
  BY <1>1, <1>2, <1>3, PTL DEF Spec
=============================================================================
