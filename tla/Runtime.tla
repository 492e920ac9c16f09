------------------------------ MODULE Runtime ------------------------------
(***************************************************************************)
(* cart/src/runtime.c: the frame scheduler of the demo cart and its         *)
(* photosensitivity guard, as operators on a cart_runtime record.           *)
(*                                                                          *)
(* Times are the code's uint64_t nanoseconds.  Max stands for UINT64_MAX;   *)
(* every addition the code guards against overflow is guarded here by the   *)
(* same comparison with Max, so a small Max exercises the end of the range. *)
(***************************************************************************)
EXTENDS Integers

CONSTANTS
  SceneCount,   \* scene_count
  Origin,       \* origin_ns, the reading of the clock at cart_runtime_init
  FramePeriod,  \* frame_period_ns
  ScenePeriod,  \* scene_period_ns
  MinChange,    \* min_change_ns; 0 disables the guard
  Max           \* UINT64_MAX

(***************************************************************************)
(* The argument checks of cart_runtime_init: nothing else is a runtime.     *)
(***************************************************************************)
ASSUME RuntimeAssumption ==
  /\ SceneCount \in Nat \ {0}
  /\ FramePeriod \in Nat \ {0}
  /\ ScenePeriod \in Nat \ {0}
  /\ MinChange \in Nat
  /\ Origin \in Nat
  /\ Max \in Nat
  /\ Origin < Max - FramePeriod

Scenes == 0 .. SceneCount - 1

cart_runtime ==
  [scene_index : Scenes, manual_scene_index : Scenes,
   manual_hold_until : Nat, manual_hold_active : BOOLEAN,
   last_change : Nat, had_change : BOOLEAN,
   next_deadline : Nat, sleep : Int, frame : Nat, dropped_deadlines : Nat]

\* uint64_t addition without the saturation (mutant).
add_wrapping(left, right) == (left + right) % (Max + 1)

add_saturating(left, right) == IF left > Max - right THEN Max ELSE left + right

\* cart_runtime_init: the memset and the assignments of the success path
RuntimeInit ==
  [scene_index |-> 0, manual_scene_index |-> 0,
   manual_hold_until |-> 0, manual_hold_active |-> FALSE,
   last_change |-> 0, had_change |-> FALSE,
   next_deadline |-> Origin + FramePeriod, sleep |-> FramePeriod,
   frame |-> 0, dropped_deadlines |-> 0]

change_allowed(rt, now) ==
  \/ MinChange = 0
  \/ ~rt.had_change
  \/ now >= rt.last_change /\ now - rt.last_change >= MinChange

\* The scene the attract loop wants at a time.
automatic(now) == ((now - Origin) \div ScenePeriod) % SceneCount

----------------------------------------------------------------------------
(* cart_runtime_tick, first half: the frame counter, the hold and the scene *)

held(rt, now) == rt.manual_hold_active /\ now < rt.manual_hold_until

\* A tick that rotates without asking the guard (mutant).
rotates_unlimited(rt, now) ==
  /\ ~held(rt, now)
  /\ automatic(now) # rt.scene_index

rotates(rt, now) ==
  /\ ~held(rt, now)
  /\ automatic(now) # rt.scene_index
  /\ change_allowed(rt, now)

TickScene(rt, now) ==
  [rt EXCEPT
     !.frame = (now - Origin) \div FramePeriod,
     !.manual_hold_active = held(rt, now),
     !.scene_index = IF held(rt, now) THEN rt.manual_scene_index
                     ELSE IF rotates(rt, now) THEN automatic(now) ELSE @,
     !.last_change = IF rotates(rt, now) THEN now ELSE @,
     !.had_change = @ \/ rotates(rt, now)]

(* cart_runtime_tick, second half: the next deadline and the sleep *)

late(rt, now) == now - rt.next_deadline

\* The three ways the deadline arithmetic of a tick can end.
early(rt, now) == now < rt.next_deadline

\* Checking that the deadline after the next one fits as well (mutant).
exhausted_early(rt, now) ==
  /\ ~early(rt, now)
  /\ \/ now > Max - FramePeriod
     \/ late(rt, now) < FramePeriod /\ rt.next_deadline > Max - 2 * FramePeriod

exhausted(rt, now) ==
  /\ ~early(rt, now)
  /\ \/ now > Max - FramePeriod
     \/ late(rt, now) < FramePeriod /\ rt.next_deadline > Max - FramePeriod

\* Always moving the deadline by one period (mutant): a long stall leaves it
\* in the past.
next_deadline_catchup(rt, now) ==
  IF early(rt, now) THEN rt.next_deadline ELSE rt.next_deadline + FramePeriod

\* Restarting the grid from the time of the call on every late frame (mutant).
next_deadline_drift(rt, now) ==
  IF early(rt, now) THEN rt.next_deadline ELSE now + FramePeriod

next_deadline(rt, now) ==
  IF early(rt, now) THEN rt.next_deadline
  ELSE IF late(rt, now) < FramePeriod THEN rt.next_deadline + FramePeriod
  ELSE now + FramePeriod

TickDeadline(rt, now) ==
  [rt EXCEPT
     !.dropped_deadlines = IF early(rt, now) \/ late(rt, now) < FramePeriod THEN @
                           ELSE @ + late(rt, now) \div FramePeriod,
     !.next_deadline = next_deadline(rt, now),
     !.sleep = next_deadline(rt, now) - now]

\* What a tick leaves in the runtime, and whether it returned -1.  A failing
\* tick has already updated the frame, the hold and the scene.
clamp(now) == IF now < Origin THEN Origin ELSE now
tick_fails(rt, now) == exhausted(rt, clamp(now))
cart_runtime_tick(rt, now) ==
  LET scene == TickScene(rt, clamp(now))
  IN  IF tick_fails(rt, now) THEN scene ELSE TickDeadline(scene, clamp(now))

----------------------------------------------------------------------------
(* cart_runtime_request_next and cart_runtime_request_previous *)

\* A manual change the guard is not told about (mutant).
commit_unrecorded(rt, now, hold, manual) ==
  [rt EXCEPT
     !.manual_scene_index = manual,
     !.scene_index = manual,
     !.manual_hold_active = hold # 0,
     !.manual_hold_until = IF hold # 0 THEN add_saturating(now, hold) ELSE @]

\* The common body: commit to a scene by hand and pin it for hold.
commit(rt, now, hold, manual) ==
  [rt EXCEPT
     !.manual_scene_index = manual,
     !.scene_index = manual,
     !.last_change = IF manual # rt.scene_index THEN now ELSE @,
     !.had_change = @ \/ manual # rt.scene_index,
     !.manual_hold_active = hold # 0,
     !.manual_hold_until = IF hold # 0 THEN add_saturating(now, hold) ELSE @]

cart_runtime_request_next(rt, now, hold) ==
  IF change_allowed(rt, now)
  THEN commit(rt, now, hold, (rt.scene_index + 1) % SceneCount)
  ELSE rt

cart_runtime_request_previous(rt, now, hold) ==
  IF change_allowed(rt, now)
  THEN commit(rt, now, hold, (rt.scene_index + SceneCount - 1) % SceneCount)
  ELSE rt
=============================================================================
