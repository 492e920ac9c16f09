----------------------------- MODULE Transition -----------------------------
(***************************************************************************)
(* cart/src/transition.c: the crossfade between two scenes, as operators on *)
(* a cart_transition record.  A picture is a pair of scenes and the step of *)
(* the fade between them; cart_transition_blend shows the first scene alone *)
(* at weight 0 and the second one alone at the full weight.                 *)
(***************************************************************************)
EXTENDS Integers

CONSTANT FRAMES  \* CART_TRANSITION_FRAMES

ASSUME TransitionAssumption == FRAMES \in Nat /\ FRAMES >= 2

cart_transition(Scene) ==
  [from_scene : Scene, to_scene : Scene, elapsed_frames : 0 .. FRAMES,
   active : BOOLEAN, sources_ready : BOOLEAN]

\* The memset of the main program.
NoTransition ==
  [from_scene |-> 0, to_scene |-> 0, elapsed_frames |-> 0,
   active |-> FALSE, sources_ready |-> FALSE]

cart_transition_begin(from, to) ==
  [from_scene |-> from, to_scene |-> to, elapsed_frames |-> 0,
   active |-> from # to, sources_ready |-> FALSE]

\* Ending a fade one frame early (mutant).
advance_short(tr) ==
  IF tr.active
  THEN [tr EXCEPT !.elapsed_frames = @ + 1,
                  !.active = tr.elapsed_frames + 2 < FRAMES]
  ELSE tr

cart_transition_advance(tr) ==
  IF tr.active
  THEN [tr EXCEPT !.elapsed_frames = @ + 1,
                  !.active = tr.elapsed_frames + 1 < FRAMES]
  ELSE tr

cart_transition_sources_need_render(tr) == tr.active /\ ~tr.sources_ready

cart_transition_mark_sources_rendered(tr) ==
  IF tr.active THEN [tr EXCEPT !.sources_ready = TRUE] ELSE tr

----------------------------------------------------------------------------
FIXED_ONE  == 1024
WEIGHT_MAX == 256

\* A smoothstep 3t^2 - t^3 (mutant).
weight_steep(step) ==
  LET t      == (step * FIXED_ONE) \div FRAMES
      eased  == (t * t * (3 * FIXED_ONE - t)) \div (FIXED_ONE * FIXED_ONE)
      scaled == (eased * WEIGHT_MAX + FIXED_ONE \div 2) \div FIXED_ONE
  IN  IF step = 0 THEN 0
      ELSE IF step >= FRAMES \/ scaled > WEIGHT_MAX THEN WEIGHT_MAX
      ELSE scaled

\* The smoothstep 3t^2 - 2t^3 in fixed point, with t^2 factored out of the
\* code's two products.
cart_transition_weight(step) ==
  LET t      == (step * FIXED_ONE) \div FRAMES
      eased  == (t * t * (3 * FIXED_ONE - 2 * t)) \div (FIXED_ONE * FIXED_ONE)
      scaled == (eased * WEIGHT_MAX + FIXED_ONE \div 2) \div FIXED_ONE
  IN  IF step = 0 THEN 0
      ELSE IF step >= FRAMES \/ scaled > WEIGHT_MAX THEN WEIGHT_MAX
      ELSE scaled

\* What a picture of the scenes from and to at a step shows.
cart_transition_blend(from, to, step) ==
  LET amount == cart_transition_weight(step)
  IN  IF amount = 0 THEN [from |-> from, to |-> from, amount |-> 0]
      ELSE IF amount >= WEIGHT_MAX THEN [from |-> to, to |-> to, amount |-> 0]
      ELSE [from |-> from, to |-> to, amount |-> amount]
=============================================================================
