------------------------------ MODULE Kernels ------------------------------
(***************************************************************************)
(* The pure functions of the cart, one call at a time: what they return for *)
(* every argument of a bounded set is compared with what the picture, the   *)
(* fade or the stick should be.                                             *)
(***************************************************************************)
EXTENDS Canvas, InputNormalize, Transition

CONSTANTS
  Canvases,     \* width, height and stride of the canvases a caller may set up
  Coordinates,  \* ints, for positions
  Extents,      \* ints, for widths, heights and radii
  Channels,     \* channel values
  Raws,         \* int32 values of an axis
  Limits,       \* pairs <<min, max>> of an axis
  Flats,        \* flat zones a device reports
  Percents      \* dead zones a caller may ask for directly

Screen == [width |-> LW, height |-> LH, stride |-> LW]  \* low_canvas

ASSUME KernelsAssumption ==
  /\ cart_canvas_valid(Screen)
  /\ Canvases \subseteq cart_canvas
  /\ Coordinates \subseteq Int /\ Extents \subseteq Int
  /\ Channels \subseteq 0 .. 255
  /\ Raws \subseteq -IntMax - 1 .. IntMax /\ Flats \subseteq 0 .. IntMax
  /\ Limits \subseteq (-IntMax - 1 .. IntMax) \X (-IntMax - 1 .. IntMax)
  /\ Percents \subseteq -IntMax - 1 .. IntMax

VARIABLE call

Idle == [op |-> "idle"]

Drawn(op, c, a, points) == call' = [op |-> op, canvas |-> c, args |-> a, points |-> points]

DrawPixel == \E c \in Canvases, x, y \in Coordinates :
  Drawn("px", c, <<x, y>>, cart_canvas_px(c, x, y))

DrawRect == \E c \in Canvases, x, y \in Coordinates, w, h \in Extents :
  Drawn("rect", c, <<x, y, w, h>>, cart_canvas_rect(c, x, y, w, h))

DrawCircle == \E c \in Canvases, x, y \in Coordinates, r \in Extents :
  Drawn("circle", c, <<x, y, r>>, cart_canvas_circle(c, x, y, r))

DrawStar == \E c \in Canvases, x, y \in Coordinates, r \in 1 .. 4 :
  Drawn("star", c, <<x, y, r>>, star(c, x, y, r))

DrawFlower == \E c \in Canvases, x, y \in Coordinates, s \in 1 .. 3 :
  Drawn("flower", c, <<x, y, s>>, flower(c, x, y, s))

DrawRows == \E a, b \in 0 .. LH :
  a < b /\ Drawn("rows", Screen, <<a, b>>, scene_rows(a, b))

\* One channel of a pixel in a frame of a fade.
blended(from, to, step) ==
  LET shown == cart_transition_blend(from, to, step)
  IN  cart_mix(shown.from, shown.to, shown.amount)

Fade == \E from, to \in Channels, step \in 0 .. FRAMES - 1 :
  call' = [op |-> "fade", from |-> from, to |-> to,
           before |-> blended(from, to, step), after |-> blended(from, to, step + 1)]

Axis == \E raw \in Raws, limits \in Limits :
  \E range \in {cart_input_axis_range(limits[1], limits[2], pct) : pct \in Percents}
               \cup {calibrated(limits[1], limits[2], flat) : flat \in Flats} :
    call' = [op |-> "axis", raw |-> raw, range |-> range,
             value |-> cart_input_axis_normalize(raw, range)]

Init == call = Idle

Call == call = Idle /\ (DrawPixel \/ DrawRect \/ DrawCircle \/ DrawStar \/ DrawFlower
                         \/ DrawRows \/ Fade \/ Axis)
Return == call # Idle /\ call' = Idle

Next == Call \/ Return

Spec == Init /\ [][Next]_call

----------------------------------------------------------------------------
(* Properties *)

drawing == call.op \in {"px", "rect", "circle", "star", "flower", "rows"}

visible(c) == (0 .. c.width - 1) \X (0 .. c.height - 1)

dist(a, b) == IF a < b THEN b - a ELSE a - b

in_disc(p, x, y, r) == (p[1] - x) * (p[1] - x) + (p[2] - y) * (p[2] - y) <= r * r

\* Whether a point of the plane belongs to the shape that was asked for.
asked_for(p) ==
  LET a  == call.args
      dx == dist(p[1], a[1])
      dy == dist(p[2], a[2])
  IN  CASE call.op = "px"     -> dx = 0 /\ dy = 0
        [] call.op = "rect"   -> p[1] - a[1] \in 0 .. a[3] - 1 /\ p[2] - a[2] \in 0 .. a[4] - 1
        [] call.op = "circle" -> a[3] >= 0 /\ in_disc(p, a[1], a[2], a[3])
        [] call.op = "star"   -> \/ (dx = 0 /\ dy <= a[3]) \/ (dy = 0 /\ dx <= a[3])
                                 \/ dx = dy /\ dx < a[3] \div 2 + 1
        [] call.op = "flower" -> \/ \E s \in {-a[3], a[3]} : in_disc(p, a[1] + s, a[2], a[3])
                                 \/ \E s \in {-a[3], a[3]} : in_disc(p, a[1], a[2] + s, a[3])
        [] call.op = "rows"   -> p[2] \in a[1] .. a[2] - 1

\* A drawing is the shape that was asked for, cut off at the canvas, however
\* far outside it reaches, and on the screen every pixel of the framebuffer
\* shows the point it covers: no row or column is shifted by the clipping or
\* the scaling.
ShownExactly ==
  drawing =>
    LET c == call.canvas IN
    /\ cart_canvas_valid(c) => call.points = {p \in visible(c) : asked_for(p)}
    /\ c = Screen => cart_presentation_upscale({offset(c, p) : p \in call.points})
                       = {i \in 0 .. FW * FH - 1 :
                            asked_for(<<(i % FW) \div SCALE, (i \div FW) \div SCALE>>)}

\* vita-fbserve undoes the scaling: a viewer, who shows the last row of a
\* bitmap at the top, sees the points that were drawn on the logical frame.
SnapshotIsTheFrame ==
  drawing /\ call.canvas = Screen =>
    LET shown == cart_presentation_upscale({offset(Screen, p) : p \in call.points})
    IN  {<<p[1], LH - 1 - p[2]>> : p \in build_bitmap(shown)} = call.points

\* Nothing is written outside the bytes cart_canvas_byte_size speaks of, and a
\* canvas whose size cannot be represented in a size_t is never drawn on.
InsideBuffer ==
  drawing =>
    \A p \in call.points :
      offset(call.canvas, p) * PixelSize + PixelSize <= cart_canvas_byte_size(call.canvas)

\* A frame of a fade moves every channel towards its new value, never past it
\* or back, and by at most the slope of the smoothstep, 1.5 / FRAMES of the
\* way, with one level of rounding in the weight and one in the mix.
FadeGentle ==
  call.op = "fade" =>
    LET way   == dist(call.to, call.from)
        moved == dist(call.to, call.before) - dist(call.to, call.after)
    IN  /\ dist(call.from, call.after) + dist(call.after, call.to) = way
        /\ moved \in 0 .. (3 * way) \div (2 * FRAMES) + 2

\* The stick of a device whose limits fit into an int32_t span reads -100 .. 100,
\* zero in the dead zone and 100 at its upper end, and pushed further it never
\* reads less.  Every calibration is accepted.  The lower end reads -100 if the
\* range has at least three positions: one of two has no band below its dead
\* zone, and of its lower end, where input_normalize.c:17-18 promises full throw,
\* nothing is claimed.
AxisFaithful ==
  LET r == call.range IN
  call.op = "axis" /\ r.max > r.min /\ r.max - r.min <= IntMax /\ r.deadzone_pct \in 0 .. 50 =>
    /\ call.value \in -100 .. 100
    /\ call.raw <= r.min /\ r.max - r.min >= 2 => call.value = -100
    /\ call.raw >= r.max => call.value = 100
    /\ dist(2 * call.raw, r.min + r.max) * 100 <= (r.max - r.min) * r.deadzone_pct - 300
         => call.value = 0
    /\ call.value <= cart_input_axis_normalize(call.raw + 1, r)
=============================================================================
