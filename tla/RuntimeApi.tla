----------------------------- MODULE RuntimeApi -----------------------------
(***************************************************************************)
(* A caller of cart/src/runtime.c that may call the three entry points in   *)
(* any order, at times that never go backwards (CLOCK_MONOTONIC), and stops *)
(* when a tick fails, as the main loop does.                                *)
(*                                                                          *)
(* last_cut and pinned_until observe the runtime from outside: the time of  *)
(* the last change of the scene that really happened, and the time up to    *)
(* which the last accepted request asked for its scene.  They are computed  *)
(* in unbounded arithmetic and never read by the runtime.                   *)
(***************************************************************************)
EXTENDS Runtime

CONSTANTS
  Steps,  \* by how much the clock may advance between two calls
  Holds   \* the hold_ns arguments of the requests

ASSUME ApiAssumption == Steps \subseteq Nat \ {0} /\ Holds \subseteq Nat

VARIABLES rt, clock, status, last_cut, pinned_until

vars == <<rt, clock, status, last_cut, pinned_until>>

NoCut == -1

TypeOK ==
  /\ rt \in cart_runtime
  /\ clock \in Origin .. Max
  /\ status \in {"ok", "exhausted"}
  /\ last_cut \in Nat \cup {NoCut}
  /\ pinned_until \in Nat

Init ==
  /\ rt = RuntimeInit
  /\ clock = Origin
  /\ status = "ok"
  /\ last_cut = NoCut
  /\ pinned_until = 0

Observe ==
  last_cut' = IF rt'.scene_index # rt.scene_index THEN clock ELSE last_cut

AdvanceClock ==
  \E d \in Steps :
    /\ clock + d <= Max
    /\ clock' = clock + d
    /\ UNCHANGED <<rt, status, last_cut, pinned_until>>

Tick ==
  /\ status = "ok"
  /\ rt' = cart_runtime_tick(rt, clock)
  /\ status' = IF tick_fails(rt, clock) THEN "exhausted" ELSE "ok"
  /\ Observe
  /\ UNCHANGED <<clock, pinned_until>>

Pin(hold) ==
  pinned_until' = IF change_allowed(rt, clock)
                  THEN IF hold = 0 THEN 0 ELSE clock + hold
                  ELSE pinned_until

RequestNext ==
  \E hold \in Holds :
    /\ status = "ok"
    /\ rt' = cart_runtime_request_next(rt, clock, hold)
    /\ Observe
    /\ Pin(hold)
    /\ UNCHANGED <<clock, status>>

RequestPrevious ==
  \E hold \in Holds :
    /\ status = "ok"
    /\ rt' = cart_runtime_request_previous(rt, clock, hold)
    /\ Observe
    /\ Pin(hold)
    /\ UNCHANGED <<clock, status>>

Next == AdvanceClock \/ Tick \/ RequestNext \/ RequestPrevious

Spec == Init /\ [][Next]_vars

----------------------------------------------------------------------------
(***************************************************************************)
(* The photosensitivity guard (runtime.h:7-12, PHOTOSENSITIVITY.md, Defect  *)
(* 2): whatever mix of ticks and requests arrives, two changes of the scene *)
(* that really happen are at least MinChange apart.  The hold branch of the *)
(* tick assigns scene_index without asking the guard: it is safe only       *)
(* because it never changes it.                                             *)
(***************************************************************************)
CutsSpaced ==
  [][rt'.scene_index # rt.scene_index /\ last_cut # NoCut
       => clock - last_cut >= MinChange]_vars

(***************************************************************************)
(* A successful tick returns a positive sleep of at most one frame          *)
(* (test_runtime.c, "positive bounded sleep"), after any lateness and near  *)
(* the end of the clock's range.                                            *)
(***************************************************************************)
SleepBounded == status = "ok" => rt.sleep \in 1 .. FramePeriod

(***************************************************************************)
(* The scheduler gives up only in the last frame of the clock's range: the  *)
(* second overflow check of the tick (runtime.c:94) is never what fails.    *)
(***************************************************************************)
ExhaustedOnlyAtEnd == status = "exhausted" => clock > Max - FramePeriod

(***************************************************************************)
(* Lateness below one period does not shift the cadence: until a deadline   *)
(* has been dropped, deadlines stay on the grid laid at init.               *)
(* (runtime.c:99 starts a new one at now + period when one is dropped.)     *)
(***************************************************************************)
OnGrid == rt.dropped_deadlines = 0 => (rt.next_deadline - Origin) % FramePeriod = 0

(***************************************************************************)
(* A scene picked by hand stays until its hold has run out: no tick moves   *)
(* away from it earlier, also when the sum of now and hold saturates.       *)
(***************************************************************************)
HoldKept ==
  [][Tick /\ clock < pinned_until /\ clock < Max
       => rt'.scene_index = rt.scene_index]_vars
=============================================================================
