------------------------------ MODULE DemoCart ------------------------------
(***************************************************************************)
(* cart/src/pstv-demo-cart.c: the main loop of the demo cart, composed of   *)
(* the scheduler (Runtime) and the crossfade (Transition), with the signals *)
(* that interrupt it and the time its frames take.                          *)
(*                                                                          *)
(* One action per block of the loop body.  The clock moves where time is    *)
(* spent, in drawing and in sleeping; a signal handler runs between any two *)
(* blocks, also between the test of next_scene_requested and its clearing.  *)
(* The worker pool is a call that returns (module WorkerPool); the polled   *)
(* input is any of its four results.                                        *)
(***************************************************************************)
EXTENDS Runtime, Transition

CONSTANTS
  Works,       \* how long polling, rendering and blitting one frame may take
  Oversleeps,  \* how much later than asked a sleep may end
  SignalHold,  \* the hold of a scene requested with SIGUSR1
  InputHold    \* the hold of a scene requested on an input device

ASSUME CartAssumption ==
  /\ Works \subseteq Nat /\ Oversleeps \subseteq Nat
  /\ SignalHold \in Nat /\ InputHold \in Nat

VARIABLES
  pc, rt, clock, running, next_scene_requested,
  tr, displayed_scene,
  low_from, low_to,  \* which scene each staging buffer holds
  fb                 \* what the framebuffer shows

\* Observers, which the program does not have: the start of the current frame,
\* the start of the first frame of the fade in flight, whether a signal cut
\* one of its sleeps short, whether any frame ever took longer than its
\* period, from its start to the end of its drawing or to the next start, and
\* whether SIGUSR1 arrived outside a cooldown and no change has followed yet.
VARIABLES frame_start, fade_start, interrupted, slow, asked

loop_vars  == <<rt, clock, frame_start, slow>>
flag_vars  == <<running, next_scene_requested>>
fade_vars  == <<tr, displayed_scene, low_from, low_to, fb, fade_start>>
vars == <<pc, loop_vars, flag_vars, fade_vars, interrupted, asked>>

Steady(scene) == [from |-> scene, to |-> scene, amount |-> 0]
Blank == Steady(SceneCount)  \* what was on the screen before the cart

TypeOK ==
  /\ pc \in {"tick", "usr1", "clear", "poll", "draw", "tick2", "sleep", "exit"}
  /\ rt \in cart_runtime
  /\ clock \in Nat /\ frame_start \in Nat /\ fade_start \in Nat
  /\ running \in BOOLEAN /\ next_scene_requested \in BOOLEAN
  /\ interrupted \in BOOLEAN /\ slow \in BOOLEAN /\ asked \in BOOLEAN
  /\ tr \in cart_transition(Scenes)
  /\ displayed_scene \in Scenes /\ low_from \in Scenes /\ low_to \in Scenes
  /\ fb \in [from : Scenes \cup {SceneCount}, to : Scenes \cup {SceneCount}, amount : Nat]

Init ==
  /\ pc = "tick"
  /\ rt = RuntimeInit
  /\ clock = Origin /\ frame_start = Origin /\ fade_start = Origin
  /\ running = TRUE /\ next_scene_requested = FALSE
  /\ tr = NoTransition
  /\ displayed_scene = 0
  /\ low_from = 0 /\ low_to = 0
  /\ fb = Blank
  /\ interrupted = FALSE /\ slow = FALSE /\ asked = FALSE

----------------------------------------------------------------------------
(* on_signal, between two blocks of the loop *)

SigUsr1 ==
  /\ pc # "exit"
  /\ next_scene_requested' = TRUE
  /\ asked' = (asked \/ change_allowed(rt, clock))
  /\ UNCHANGED <<pc, loop_vars, running, fade_vars, interrupted>>

SigTerm ==
  /\ pc # "exit"
  /\ running' = FALSE
  /\ UNCHANGED <<pc, loop_vars, next_scene_requested, fade_vars, interrupted, asked>>

----------------------------------------------------------------------------
(* The loop *)

\* A change of the scene, whoever wanted it, answers what was asked.
AskedUntilChange == asked' = (asked /\ rt'.scene_index = rt.scene_index)

LoopEnds ==
  /\ pc = "tick" /\ ~running
  /\ pc' = "exit"
  /\ UNCHANGED <<loop_vars, flag_vars, fade_vars, interrupted, asked>>

\* Lines 229-236.
Tick ==
  /\ pc = "tick" /\ running
  /\ rt' = cart_runtime_tick(rt, clock)
  /\ pc' = IF tick_fails(rt, clock) THEN "exit" ELSE "usr1"
  /\ frame_start' = clock
  /\ slow' = (slow \/ clock - frame_start > FramePeriod)
  /\ AskedUntilChange
  /\ UNCHANGED <<clock, flag_vars, fade_vars, interrupted>>

\* Lines 237-239, and the test that skips them.
TakeSignal ==
  /\ pc = "usr1" /\ next_scene_requested
  /\ rt' = cart_runtime_request_next(rt, clock, SignalHold)
  /\ pc' = "clear"
  /\ AskedUntilChange
  /\ UNCHANGED <<clock, frame_start, slow, flag_vars, fade_vars, interrupted>>

NoSignal ==
  /\ pc = "usr1" /\ ~next_scene_requested
  /\ pc' = "poll"
  /\ UNCHANGED <<loop_vars, flag_vars, fade_vars, interrupted, asked>>

\* Line 240: also clears a request that arrived since line 237.
ClearSignal ==
  /\ pc = "clear"
  /\ next_scene_requested' = FALSE
  /\ pc' = "poll"
  /\ UNCHANGED <<loop_vars, running, fade_vars, interrupted, asked>>

\* Lines 242-258; a failing poll shuts the input down and acts like no input.
Poll(polled) ==
  /\ pc = "poll"
  /\ running' = (running /\ polled # "QUIT")
  /\ rt' = CASE polled = "NEXT"     -> cart_runtime_request_next(rt, clock, InputHold)
             [] polled = "PREVIOUS" -> cart_runtime_request_previous(rt, clock, InputHold)
             [] OTHER               -> rt
  /\ pc' = "draw"
  /\ AskedUntilChange
  /\ UNCHANGED <<clock, frame_start, slow, next_scene_requested, fade_vars, interrupted>>

\* Beginning a fade over one in flight (mutant).
fade_due_always == rt.scene_index # displayed_scene /\ rt.scene_index # tr.to_scene

\* Lines 264-275: whether a fade begins in this frame, and the transition and
\* the staging buffers after that.
fade_due == rt.scene_index # displayed_scene /\ ~tr.active

staged ==
  IF fade_due
  THEN LET begun == cart_transition_begin(displayed_scene, rt.scene_index)
       IN  IF cart_transition_sources_need_render(begun)
           THEN [tr   |-> cart_transition_mark_sources_rendered(begun),
                 from |-> begun.from_scene, to |-> begun.to_scene]
           ELSE [tr |-> begun, from |-> low_from, to |-> low_to]
  ELSE [tr |-> tr, from |-> low_from, to |-> low_to]

\* Lines 259-287: begin a fade if one is due, compose the frame, show it.
Draw(work) ==
  /\ pc = "draw"
  /\ low_from' = staged.from /\ low_to' = staged.to
  /\ IF staged.tr.active
     THEN /\ fb' = cart_transition_blend(staged.from, staged.to, staged.tr.elapsed_frames)
          /\ tr' = cart_transition_advance(staged.tr)
          /\ displayed_scene' = IF tr'.active THEN displayed_scene ELSE tr'.to_scene
     ELSE /\ fb' = Steady(displayed_scene)
          /\ tr' = staged.tr
          /\ UNCHANGED displayed_scene
  /\ fade_start' = IF fade_due THEN frame_start ELSE IF tr'.active THEN fade_start ELSE Origin
  /\ interrupted' = (interrupted /\ ~fade_due /\ tr'.active)
  /\ clock' = clock + work
  /\ slow' = (slow \/ work > FramePeriod)
  /\ pc' = "tick2"
  /\ UNCHANGED <<rt, frame_start, flag_vars, asked>>

\* Lines 298-305.
TickAgain ==
  /\ pc = "tick2"
  /\ rt' = cart_runtime_tick(rt, clock)
  /\ pc' = IF tick_fails(rt, clock) THEN "exit" ELSE "sleep"
  /\ AskedUntilChange
  /\ UNCHANGED <<clock, frame_start, slow, flag_vars, fade_vars, interrupted>>

\* Lines 306-312: the sleep runs its full length ...
Sleep(late_by) ==
  /\ pc = "sleep"
  /\ clock' = clock + rt.sleep + late_by
  /\ pc' = "tick"
  /\ UNCHANGED <<rt, frame_start, slow, flag_vars, fade_vars, interrupted, asked>>

\* ... or a signal ends it with EINTR, which starts the next frame early.
SleepInterrupted(slept) ==
  /\ pc = "sleep" /\ slept < rt.sleep
  /\ clock' = clock + slept
  /\ \/ /\ next_scene_requested' = TRUE
        /\ asked' = (asked \/ change_allowed(rt, clock + slept))
        /\ UNCHANGED running
     \/ running' = FALSE /\ UNCHANGED <<next_scene_requested, asked>>
  /\ interrupted' = (interrupted \/ tr.active)
  /\ pc' = "tick"
  /\ UNCHANGED <<rt, frame_start, slow, fade_vars>>

\* After the loop the program shuts its parts down and returns.
Exited == pc = "exit" /\ UNCHANGED vars

Next ==
  \/ SigUsr1 \/ SigTerm
  \/ LoopEnds \/ Tick \/ TakeSignal \/ NoSignal \/ ClearSignal
  \/ \E polled \in {"NONE", "QUIT", "NEXT", "PREVIOUS"} : Poll(polled)
  \/ \E work \in Works : Draw(work)
  \/ TickAgain
  \/ \E late_by \in Oversleeps : Sleep(late_by)
  \/ \E slept \in 0 .. FramePeriod - 1 : SleepInterrupted(slept)
  \/ Exited

Spec == Init /\ [][Next]_vars

----------------------------------------------------------------------------
\* Two pictures that may follow each other: the same one, or two successive
\* steps of one fade.
Adjacent(a, b) ==
  \/ a = b
  \/ \E from, to \in Scenes, step \in 0 .. FRAMES - 1 :
       /\ a = cart_transition_blend(from, to, step)
       /\ b = cart_transition_blend(from, to, step + 1)

(***************************************************************************)
(* "Scene changes are never hard cuts" (pstv-demo-cart.c:51): once the cart *)
(* has drawn its first frame, every frame is a picture adjacent to the one  *)
(* before it, whatever signals, inputs, late frames or rotations do to the  *)
(* scheduler while a fade is in flight.                                     *)
(***************************************************************************)
NoHardCut == [][fb # Blank => Adjacent(fb, fb')]_fb

(***************************************************************************)
(* The fade is what the flash measurements are about, so it may not run     *)
(* faster than the frame rate: unless a signal cut a sleep short, the last  *)
(* frame of a fade starts more than FRAMES - 2 periods after the first one, *)
(* also when a late frame is followed by one on time.                       *)
(***************************************************************************)
FadeTakesTime ==
  [][tr.active /\ ~tr'.active /\ ~interrupted
       => frame_start - fade_start > (FRAMES - 2) * FramePeriod]_vars

(***************************************************************************)
(* As long as every frame is on time, the rate limiter keeps the next       *)
(* change of the scene out of a fade in flight (pstv-demo-cart.c:259-262).  *)
(* The comment there says so without the condition; a late frame stretches  *)
(* the fade and not the cooldown, so it needs it.                           *)
(***************************************************************************)
OnTimeFadeIsExclusive == ~slow /\ tr.active => rt.scene_index = tr.to_scene

(***************************************************************************)
(* A SIGUSR1 that arrives when no cooldown is running is kept until the     *)
(* scene has changed, wherever in the loop it arrives, also between the     *)
(* test of the flag and its clearing.  (One that arrives in a cooldown may  *)
(* be lost there, although the next frame might have honoured it.  Time is  *)
(* what the loop's last reading of the clock, or the sleep it is in, says.) *)
(***************************************************************************)
TimelySignalKept == asked => next_scene_requested

=============================================================================
