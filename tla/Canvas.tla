------------------------------- MODULE Canvas -------------------------------
(***************************************************************************)
(* cart/src/canvas.c, the shapes of cart/scenes/scene_2d_legacy.c that are  *)
(* drawn with it, cart/src/presentation.c, and the image that               *)
(* toolkit/share/vita-fbserve.c takes of the screen.                        *)
(*                                                                          *)
(* Drawing in one colour is the set of points <<x, y>> that are written; an *)
(* offset is the index of a point in the pixel buffer.  Coordinates are     *)
(* ints; where the code widens them to int64 the model computes exactly.    *)
(* size_t ends at SizeMax.                                                  *)
(***************************************************************************)
EXTENDS Integers, FiniteSets

CONSTANTS
  SizeMax,    \* SIZE_MAX
  LW, LH,     \* CART_PRESENTATION_LOGICAL_WIDTH and _HEIGHT
  SCALE       \* CART_PRESENTATION_SCALE

PixelSize == 4  \* sizeof(*canvas->pixels)

ASSUME CanvasAssumption ==
  /\ SizeMax \in Nat
  /\ LW \in Nat \ {0} /\ LH \in Nat \ {0} /\ SCALE \in Nat \ {0}

cart_canvas == [width : Nat, height : Nat, stride : Nat]

\* A check of the whole product, which may have wrapped (mutant).
cart_canvas_valid_wrapping(c) ==
  /\ c.width # 0 /\ c.height # 0 /\ c.stride >= c.width
  /\ (c.stride * c.height * PixelSize) % (SizeMax + 1) # 0

\* A caller that has no pixels has no canvas.
cart_canvas_valid(c) ==
  /\ c.width # 0 /\ c.height # 0 /\ c.stride >= c.width
  /\ c.height <= SizeMax \div c.stride
  /\ c.stride * c.height <= SizeMax \div PixelSize

cart_canvas_byte_size(c) ==
  IF cart_canvas_valid(c) THEN (c.stride * c.height * PixelSize) % (SizeMax + 1) ELSE 0

offset(c, p) == p[2] * c.stride + p[1]

----------------------------------------------------------------------------
(* Shapes *)

cart_canvas_px(c, x, y) ==
  IF cart_canvas_valid(c) /\ x >= 0 /\ y >= 0 /\ x < c.width /\ y < c.height
  THEN {<<x, y>>} ELSE {}

at_least(low, value)  == IF value < low THEN low ELSE value
at_most(high, value)  == IF value > high THEN high ELSE value

cart_canvas_rect(c, x, y, width, height) ==
  LET x0 == at_least(0, x)  x1 == at_most(c.width, x + width)
      y0 == at_least(0, y)  y1 == at_most(c.height, y + height)
  IN  IF cart_canvas_valid(c) /\ width > 0 /\ height > 0
      THEN (x0 .. x1 - 1) \X (y0 .. y1 - 1) ELSE {}

\* A circle whose columns end at the width (mutant).
cart_canvas_circle_wide(c, cx, cy, radius) ==
  IF cart_canvas_valid(c) /\ radius >= 0
  THEN {p \in (at_least(0, cx - radius) .. at_most(c.width, cx + radius))
                \X (at_least(0, cy - radius) .. at_most(c.height - 1, cy + radius)) :
          (p[1] - cx) * (p[1] - cx) + (p[2] - cy) * (p[2] - cy) <= radius * radius}
  ELSE {}

cart_canvas_circle(c, cx, cy, radius) ==
  IF cart_canvas_valid(c) /\ radius >= 0
  THEN {p \in (at_least(0, cx - radius) .. at_most(c.width - 1, cx + radius))
                \X (at_least(0, cy - radius) .. at_most(c.height - 1, cy + radius)) :
          (p[1] - cx) * (p[1] - cx) + (p[2] - cy) * (p[2] - cy) <= radius * radius}
  ELSE {}

star(c, cx, cy, r) ==
  (UNION {cart_canvas_px(c, cx + i, cy) \cup cart_canvas_px(c, cx, cy + i) : i \in -r .. r})
  \cup (UNION {cart_canvas_px(c, cx + i, cy + i) \cup cart_canvas_px(c, cx + i, cy - i) :
                 i \in {j \in -r .. r : at_least(j, -j) < r \div 2 + 1}})

flower(c, cx, cy, s) ==
  cart_canvas_circle(c, cx - s, cy, s) \cup cart_canvas_circle(c, cx + s, cy, s)
  \cup cart_canvas_circle(c, cx, cy - s, s) \cup cart_canvas_circle(c, cx, cy + s, s)
  \cup cart_canvas_circle(c, cx, cy, s)

\* The row loops of the six scenes: every pixel of the rows of a band, at the
\* offset y * LW + x, whatever the canvas is.
scene_rows(row_start, row_end) == (0 .. LW - 1) \X (row_start .. row_end - 1)

----------------------------------------------------------------------------
(* Colours, channel by channel, and the screen *)

clamp_channel(value) == at_least(0, at_most(255, value))

\* The shift by 8 rounds towards minus infinity, as \div does.
cart_mix(from, to, amount) ==
  clamp_channel(from + ((to - from) * at_most(256, amount)) \div 256)

FW == LW * SCALE
FH == LH * SCALE

\* From the offsets in the logical frame that have a colour to the offsets in
\* the framebuffer that have it.
cart_presentation_upscale(logical) ==
  UNION {{(p[2] * SCALE + k) * FW + p[1] * SCALE + j : k, j \in 0 .. SCALE - 1} :
           p \in {q \in (0 .. LW - 1) \X (0 .. LH - 1) : q[2] * LW + q[1] \in logical}}

\* A bitmap stored from the top (mutant).
build_bitmap_upright(shown) ==
  {p \in (0 .. LW - 1) \X (0 .. LH - 1) : p[2] * SCALE * FW + p[1] * SCALE \in shown}

\* The snapshot of vita-fbserve: every SCALE-th pixel of every SCALE-th row,
\* the bottom row first.
build_bitmap(shown) ==
  {p \in (0 .. LW - 1) \X (0 .. LH - 1) :
     (LH - 1 - p[2]) * SCALE * FW + p[1] * SCALE \in shown}
=============================================================================
