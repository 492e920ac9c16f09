--------------------------- MODULE InputNormalize ---------------------------
(***************************************************************************)
(* cart/src/input_normalize.c and the calibration of an axis in             *)
(* probe_snapshot_axes.  An int32_t ends at IntMax; a difference or product *)
(* the code leaves in an int32_t wraps, which is what the build does with   *)
(* it, and what it widens to int64_t is exact.                              *)
(***************************************************************************)
EXTENDS Integers

CONSTANT IntMax  \* INT32_MAX

ASSUME NormalizeAssumption == IntMax \in Nat \ {0}

DEFAULT_DEADZONE_PCT == 15
AXIS_INVALID == -IntMax - 1

int32(n) == ((n + IntMax + 1) % (2 * (IntMax + 1))) - (IntMax + 1)

\* Division of C, towards zero, by a positive number.
quotient(a, b) == IF a >= 0 THEN a \div b ELSE -((-a) \div b)

cart_input_axis_range(minimum, maximum, pct) ==
  [min |-> minimum, max |-> maximum, deadzone_pct |-> pct]

\* What a probe keeps of the limits and the flat zone a device reports.
calibrated(minimum, maximum, flat) ==
  LET span      == int32(maximum - minimum)
      suggested == quotient(int32(flat * 200), span)
      wider     == span > 0 /\ flat > 0 /\ suggested > DEFAULT_DEADZONE_PCT /\ suggested <= 50
  IN  cart_input_axis_range(minimum, maximum, IF wider THEN suggested ELSE DEFAULT_DEADZONE_PCT)

clamped(raw, range) ==
  IF raw < range.min THEN range.min ELSE IF raw > range.max THEN range.max ELSE raw

span(range) == int32(range.max - range.min)
half(range) == quotient(span(range) * range.deadzone_pct, 200)
low(range)  == range.min + quotient(span(range), 2) - half(range)
high(range) == low(range) + 2 * half(range)

range_valid(range) == range.max > range.min /\ range.deadzone_pct \in 0 .. 50

\* The upper band measured from the middle of the dead zone (mutant).
cart_input_axis_normalize_step(raw, range) ==
  LET c == clamped(raw, range) IN
  IF ~range_valid(range) THEN AXIS_INVALID
  ELSE IF c >= low(range) /\ c <= high(range) THEN 0
  ELSE IF c < low(range) THEN quotient((c - low(range)) * 100, low(range) - range.min)
  ELSE quotient((c - low(range)) * 100, range.max - high(range))

cart_input_axis_normalize(raw, range) ==
  LET c == clamped(raw, range) IN
  IF ~range_valid(range) THEN AXIS_INVALID
  ELSE IF c >= low(range) /\ c <= high(range) THEN 0
  ELSE IF c < low(range) THEN quotient((c - low(range)) * 100, low(range) - range.min)
  ELSE quotient((c - high(range)) * 100, range.max - high(range))
=============================================================================
