--------------------------- MODULE DemoCartProofs ---------------------------
(***************************************************************************)
(* Proofs about the main loop of cart/src/pstv-demo-cart.c, for every       *)
(* length of the fade, every timing of the frames and every sequence of     *)
(* signals and inputs: the screen never jumps from one scene to another.    *)
(***************************************************************************)
EXTENDS DemoCart, RuntimeLemmas

(***************************************************************************)
(* The weight of a step is a number, zero at the start of a fade and full   *)
(* at its end.                                                              *)
(***************************************************************************)
LEMMA WeightFacts ==
  /\ \A step \in 0 .. FRAMES : cart_transition_weight(step) \in Nat
  /\ cart_transition_weight(0) = 0
  /\ cart_transition_weight(FRAMES) = WEIGHT_MAX
  <1>1. ASSUME NEW step \in 0 .. FRAMES
        PROVE  cart_transition_weight(step) \in Nat
    <2> DEFINE t     == (step * FIXED_ONE) \div FRAMES
               eased == (t * t * (3 * FIXED_ONE - 2 * t)) \div (FIXED_ONE * FIXED_ONE)
               scaled == (eased * WEIGHT_MAX + FIXED_ONE \div 2) \div FIXED_ONE
    <2>1. t \in Nat /\ t <= FIXED_ONE
      BY TransitionAssumption DEF FIXED_ONE
    <2> HIDE DEF t
    <2>2. t * t \in Nat /\ 3 * FIXED_ONE - 2 * t \in Nat
      BY <2>1 DEF FIXED_ONE
    <2>3. t * t * (3 * FIXED_ONE - 2 * t) \in Nat
      BY <2>2
    <2>4. eased \in Nat
      BY <2>3 DEF FIXED_ONE
    <2> HIDE DEF eased
    <2>5. scaled \in Nat
      BY <2>4 DEF FIXED_ONE, WEIGHT_MAX
    <2> HIDE DEF scaled
    <2>6. cart_transition_weight(step)
            = IF step = 0 THEN 0
              ELSE IF step >= FRAMES \/ scaled > WEIGHT_MAX THEN WEIGHT_MAX ELSE scaled
      BY DEF cart_transition_weight, scaled, eased, t
    <2> QED
      BY <2>5, <2>6 DEF WEIGHT_MAX
  <1>2. cart_transition_weight(0) = 0
    BY DEF cart_transition_weight
  <1>3. cart_transition_weight(FRAMES) = WEIGHT_MAX
    BY TransitionAssumption DEF cart_transition_weight
  <1> QED
    BY <1>1, <1>2, <1>3

(***************************************************************************)
(* A fade begins with the outgoing scene and ends with the incoming one.    *)
(***************************************************************************)
LEMMA BlendFacts ==
  ASSUME NEW from \in Scenes, NEW to \in Scenes
  PROVE  /\ cart_transition_blend(from, to, 0) = Steady(from)
         /\ cart_transition_blend(from, to, FRAMES) = Steady(to)
         /\ \A step \in 0 .. FRAMES :
              cart_transition_blend(from, to, step) \in [from : Scenes, to : Scenes, amount : Nat]
  <1>1. cart_transition_blend(from, to, 0) = Steady(from)
    BY WeightFacts DEF cart_transition_blend, Steady
  <1>2. cart_transition_blend(from, to, FRAMES) = Steady(to)
    BY WeightFacts DEF cart_transition_blend, Steady, WEIGHT_MAX
  <1>3. ASSUME NEW step \in 0 .. FRAMES
        PROVE  cart_transition_blend(from, to, step) \in [from : Scenes, to : Scenes, amount : Nat]
    BY WeightFacts DEF cart_transition_blend
  <1> QED
    BY <1>1, <1>2, <1>3

----------------------------------------------------------------------------
(***************************************************************************)
(* The inductive invariant: what is on the screen is determined by the      *)
(* transition, the staging buffers and the displayed scene.  While a fade   *)
(* is in flight it is the step before elapsed_frames; afterwards it is the  *)
(* displayed scene, or still the last step of the fade that led to it.      *)
(***************************************************************************)
InFlight ==
  tr.active => /\ tr.from_scene = displayed_scene
               /\ low_from = tr.from_scene /\ low_to = tr.to_scene
               /\ tr.elapsed_frames \in 1 .. FRAMES - 1
               /\ fb = cart_transition_blend(low_from, low_to, tr.elapsed_frames - 1)

AtRest ==
  ~tr.active => \/ fb = Blank
                \/ fb = Steady(displayed_scene)
                \/ /\ fb = cart_transition_blend(low_from, low_to, FRAMES - 1)
                   /\ low_to = displayed_scene

CartInv ==
  /\ TypeOK
  /\ clock >= Origin
  /\ RtInv(rt, clock)
  /\ pc = "sleep" => rt.sleep \in Nat
  /\ InFlight
  /\ AtRest

\* A step that leaves the picture and what determines it alone.
Elsewhere == UNCHANGED <<tr, displayed_scene, low_from, low_to, fb>>

(***************************************************************************)
(* The state at the top of the loop satisfies the invariant.                *)
(***************************************************************************)
LEMMA InitCartInv == Init => CartInv
  <1> SUFFICES ASSUME Init PROVE CartInv
    OBVIOUS
  <1>1. 0 \in Scenes /\ SceneCount \in Nat /\ Origin \in Nat
    BY RuntimeAssumption DEF Scenes
  <1>2. rt \in cart_runtime
    BY RuntimeAssumption, <1>1 DEF Init, RuntimeInit, cart_runtime
  <1>3. RtInv(rt, clock)
    BY <1>1, <1>2, RuntimeAssumption DEF Init, RtInv, RuntimeInit
  <1>4. tr \in cart_transition(Scenes) /\ ~tr.active
    BY <1>1, TransitionAssumption DEF Init, NoTransition, cart_transition
  <1>5. /\ running \in BOOLEAN /\ next_scene_requested \in BOOLEAN
        /\ interrupted \in BOOLEAN /\ slow \in BOOLEAN /\ asked \in BOOLEAN
    BY Zenon DEF Init
  <1>6. fb \in [from : Scenes \cup {SceneCount}, to : Scenes \cup {SceneCount}, amount : Nat]
    BY DEF Init, Blank, Steady
  <1>7. TypeOK
    BY <1>1, <1>2, <1>4, <1>5, <1>6 DEF Init, TypeOK
  <1> QED
    BY <1>1, <1>3, <1>4, <1>7 DEF Init, CartInv, InFlight, AtRest

(***************************************************************************)
(* The last step of a fade may be followed by the incoming scene alone.     *)
(***************************************************************************)
LEMMA LastStepIsAdjacent ==
  ASSUME NEW from \in Scenes, NEW to \in Scenes
  PROVE  Adjacent(cart_transition_blend(from, to, FRAMES - 1), Steady(to))
  <1>1. FRAMES - 1 \in 0 .. FRAMES - 1 /\ (FRAMES - 1) + 1 = FRAMES
    BY TransitionAssumption
  <1>2. Steady(to) = cart_transition_blend(from, to, (FRAMES - 1) + 1)
    BY <1>1, BlendFacts
  <1> QED
    BY <1>1, <1>2, Zenon DEF Adjacent

(***************************************************************************)
(* Drawing the first frame of a fade: the sources are staged, the displayed *)
(* scene is shown once more, and the transition stands at its first step.   *)
(***************************************************************************)
LEMMA DrawBegins ==
  ASSUME CartInv, NEW work \in Works, Draw(work), fade_due
  PROVE  /\ tr' = [from_scene |-> displayed_scene, to_scene |-> rt.scene_index,
                   elapsed_frames |-> 1, active |-> TRUE, sources_ready |-> TRUE]
         /\ fb' = Steady(displayed_scene)
         /\ low_from' = displayed_scene /\ low_to' = rt.scene_index
         /\ displayed_scene' = displayed_scene
  <1>1. /\ rt.scene_index \in Scenes /\ displayed_scene \in Scenes
        /\ FRAMES \in Nat /\ FRAMES >= 2
    BY TransitionAssumption DEF CartInv, TypeOK, cart_runtime
  <1> DEFINE to == rt.scene_index
             b == [from_scene |-> displayed_scene, to_scene |-> to, elapsed_frames |-> 0,
                   active |-> TRUE, sources_ready |-> FALSE]
             m == [from_scene |-> displayed_scene, to_scene |-> to, elapsed_frames |-> 0,
                   active |-> TRUE, sources_ready |-> TRUE]
             e == [from_scene |-> displayed_scene, to_scene |-> to, elapsed_frames |-> 1,
                   active |-> TRUE, sources_ready |-> TRUE]
  <1>2. cart_transition_begin(displayed_scene, rt.scene_index) = b
    BY DEF fade_due, cart_transition_begin
  <1>3. staged = [tr |-> m, from |-> displayed_scene, to |-> to]
    <2>1. cart_transition_sources_need_render(b)
      BY DEF cart_transition_sources_need_render
    <2>2. cart_transition_mark_sources_rendered(b) = m
      BY DEF cart_transition_mark_sources_rendered
    <2>3. b.from_scene = displayed_scene /\ b.to_scene = to
      OBVIOUS
    <2> HIDE DEF b, m
    <2> QED
      BY <1>2, <2>1, <2>2, <2>3 DEF staged
  <1>4. /\ staged.tr = m /\ staged.from = displayed_scene /\ staged.to = to
        /\ m.active /\ m.elapsed_frames = 0
    BY <1>3
  <1>5. cart_transition_advance(m) = e
    <2>1. (m.elapsed_frames + 1 < FRAMES) = TRUE
      BY <1>1, <1>4
    <2>2. cart_transition_advance(m) = [m EXCEPT !.elapsed_frames = @ + 1, !.active = TRUE]
      BY <1>4, <2>1 DEF cart_transition_advance
    <2>3. m.elapsed_frames + 1 = 1
      BY <1>4
    <2> QED
      BY <2>2, <2>3
  <1>6. cart_transition_blend(displayed_scene, to, 0) = Steady(displayed_scene)
    BY <1>1, BlendFacts
  <1>7. e.active
    OBVIOUS
  <1>8. /\ tr' = e
        /\ fb' = Steady(displayed_scene)
        /\ low_from' = displayed_scene /\ low_to' = to
        /\ displayed_scene' = displayed_scene
    <2> HIDE DEF m, e
    <2> QED
      BY <1>4, <1>5, <1>6, <1>7 DEF Draw
  <1> QED
    BY <1>8

(***************************************************************************)
(* Drawing a later frame of a fade: the picture and the transition move on  *)
(* by one step, and the last one makes the incoming scene the displayed     *)
(* one, whatever the runtime wants by then.                                 *)
(***************************************************************************)
LEMMA DrawContinues ==
  ASSUME CartInv, NEW work \in Works, Draw(work), tr.active
  PROVE  /\ ~fade_due
         /\ tr'.from_scene = tr.from_scene /\ tr'.to_scene = tr.to_scene
         /\ tr'.elapsed_frames = tr.elapsed_frames + 1
         /\ tr'.active <=> tr.elapsed_frames + 1 < FRAMES
         /\ tr' \in cart_transition(Scenes)
         /\ fb' = cart_transition_blend(low_from, low_to, tr.elapsed_frames)
         /\ low_from' = low_from /\ low_to' = low_to
         /\ displayed_scene' = IF tr'.active THEN displayed_scene ELSE tr'.to_scene
  <1>1. /\ tr \in cart_transition(Scenes) /\ FRAMES \in Nat
        /\ tr.elapsed_frames \in 1 .. FRAMES - 1
    BY TransitionAssumption DEF CartInv, TypeOK, InFlight
  <1>2. ~fade_due /\ staged = [tr |-> tr, from |-> low_from, to |-> low_to]
    BY DEF fade_due, staged
  <1>3. /\ tr' = [tr EXCEPT !.elapsed_frames = @ + 1, !.active = tr.elapsed_frames + 1 < FRAMES]
        /\ fb' = cart_transition_blend(low_from, low_to, tr.elapsed_frames)
        /\ low_from' = low_from /\ low_to' = low_to
        /\ displayed_scene' = IF tr'.active THEN displayed_scene ELSE tr'.to_scene
    BY <1>2 DEF Draw, cart_transition_advance
  <1> DEFINE more == tr.elapsed_frames + 1 < FRAMES
  <1>4. more \in BOOLEAN /\ tr.elapsed_frames + 1 \in 0 .. FRAMES
    BY <1>1
  <1>5. tr' = [tr EXCEPT !.elapsed_frames = @ + 1, !.active = more]
    BY <1>3
  <1> HIDE DEF more
  <1>6. /\ tr'.from_scene = tr.from_scene /\ tr'.to_scene = tr.to_scene
        /\ tr'.elapsed_frames = tr.elapsed_frames + 1
        /\ tr'.active = more
        /\ tr' \in cart_transition(Scenes)
    BY <1>1, <1>4, <1>5 DEF cart_transition
  <1> QED
    BY <1>2, <1>3, <1>6 DEF more

(***************************************************************************)
(* Drawing a frame keeps the invariant and shows an adjacent picture:       *)
(* a fade that begins shows the displayed scene alone, one in flight shows  *)
(* its next step, and otherwise the displayed scene is shown.               *)
(***************************************************************************)
LEMMA DrawFacts ==
  ASSUME CartInv, NEW work \in Works, Draw(work)
  PROVE  InFlight' /\ AtRest' /\ (fb # Blank => Adjacent(fb, fb'))
         /\ tr' \in cart_transition(Scenes) /\ displayed_scene' \in Scenes
         /\ low_from' \in Scenes /\ low_to' \in Scenes
         /\ fb' \in [from : Scenes \cup {SceneCount}, to : Scenes \cup {SceneCount}, amount : Nat]
  <1>1. /\ rt.scene_index \in Scenes /\ displayed_scene \in Scenes
        /\ low_from \in Scenes /\ low_to \in Scenes
        /\ tr \in cart_transition(Scenes)
        /\ FRAMES \in Nat /\ FRAMES >= 2
    BY TransitionAssumption DEF CartInv, TypeOK, cart_runtime
  <1>2. CASE fade_due
    <2> DEFINE to == rt.scene_index
    <2>1. /\ tr' = [from_scene |-> displayed_scene, to_scene |-> to, elapsed_frames |-> 1,
                    active |-> TRUE, sources_ready |-> TRUE]
          /\ fb' = Steady(displayed_scene)
          /\ low_from' = displayed_scene /\ low_to' = to
          /\ displayed_scene' = displayed_scene
      BY <1>2, DrawBegins
    <2>2. ~tr.active /\ tr'.active
      BY <1>2, <2>1 DEF fade_due
    <2>3. fb # Blank => Adjacent(fb, fb')
      <3>1. CASE fb = cart_transition_blend(low_from, low_to, FRAMES - 1) /\ low_to = displayed_scene
        BY <1>1, <2>1, <3>1, LastStepIsAdjacent
      <3> QED
        BY <2>1, <2>2, <3>1 DEF CartInv, AtRest, Adjacent
    <2>4. tr' \in cart_transition(Scenes)
      <3>1. tr' = [from_scene |-> displayed_scene, to_scene |-> to, elapsed_frames |-> 1,
                   active |-> TRUE, sources_ready |-> TRUE]
        BY <2>1
      <3>2. 1 \in 0 .. FRAMES /\ TRUE \in BOOLEAN
        BY <1>1
      <3> HIDE DEF to
      <3>3. to \in Scenes
        BY <1>1 DEF to
      <3> QED
        BY <1>1, <3>1, <3>2, <3>3, Zenon DEF cart_transition
    <2>5. InFlight'
      <3>1. tr'.from_scene = displayed_scene /\ tr'.to_scene = to /\ tr'.elapsed_frames = 1
        BY <2>1
      <3>2. fb' = cart_transition_blend(low_from', low_to', tr'.elapsed_frames - 1)
        <4>1. tr'.elapsed_frames - 1 = 0
          BY <3>1
        <4>2. cart_transition_blend(displayed_scene, to, 0) = Steady(displayed_scene)
          BY <1>1, BlendFacts
        <4>3. fb' = Steady(displayed_scene) /\ low_from' = displayed_scene /\ low_to' = to
          BY <2>1
        <4> HIDE DEF to
        <4> QED
          BY <4>1, <4>2, <4>3
      <3> QED
        BY <1>1, <2>1, <3>1, <3>2 DEF InFlight
    <2> QED
      BY <1>1, <2>1, <2>2, <2>3, <2>4, <2>5, RuntimeAssumption DEF AtRest, Steady
  <1>3. CASE ~fade_due /\ tr.active
    <2>1. /\ fb' = cart_transition_blend(low_from, low_to, tr.elapsed_frames)
          /\ low_from' = low_from /\ low_to' = low_to
          /\ displayed_scene' = IF tr'.active THEN displayed_scene ELSE tr'.to_scene
      BY <1>3, DrawContinues
    <2>2. /\ tr.from_scene = displayed_scene
          /\ low_from = tr.from_scene /\ low_to = tr.to_scene
          /\ tr.elapsed_frames \in 1 .. FRAMES - 1
          /\ fb = cart_transition_blend(low_from, low_to, tr.elapsed_frames - 1)
      BY <1>3 DEF CartInv, InFlight
    <2>3. /\ tr'.from_scene = tr.from_scene /\ tr'.to_scene = tr.to_scene
          /\ tr'.elapsed_frames = tr.elapsed_frames + 1
          /\ tr'.active <=> tr.elapsed_frames + 1 < FRAMES
          /\ tr' \in cart_transition(Scenes)
      BY <1>3, DrawContinues
    <2>4. Adjacent(fb, fb')
      <3>1. tr.elapsed_frames - 1 \in 0 .. FRAMES - 1 /\ tr.elapsed_frames - 1 + 1 = tr.elapsed_frames
        BY <1>1, <2>2
      <3> QED
        BY <1>1, <2>1, <2>2, <3>1 DEF Adjacent
    <2>5. InFlight'
      BY <1>1, <2>1, <2>2, <2>3 DEF InFlight
    <2>6. AtRest'
      BY <1>1, <2>1, <2>2, <2>3 DEF AtRest
    <2>7. fb' \in [from : Scenes \cup {SceneCount}, to : Scenes \cup {SceneCount}, amount : Nat]
      <3>1. fb' \in [from : Scenes, to : Scenes, amount : Nat]
        <4>1. tr.elapsed_frames \in 0 .. FRAMES
          BY <1>1, <2>2
        <4> QED
          BY <1>1, <2>1, <4>1, BlendFacts
      <3> QED
        BY <3>1
    <2> QED
      BY <1>1, <2>1, <2>2, <2>3, <2>4, <2>5, <2>6, <2>7
  <1>4. CASE ~fade_due /\ ~tr.active
    <2>1. staged = [tr |-> tr, from |-> low_from, to |-> low_to]
      BY <1>4 DEF staged
    <2>2. /\ tr' = tr /\ displayed_scene' = displayed_scene
          /\ fb' = Steady(displayed_scene)
          /\ low_from' = low_from /\ low_to' = low_to
      BY <1>4, <2>1 DEF Draw
    <2>3. fb # Blank => Adjacent(fb, fb')
      <3>1. CASE fb = cart_transition_blend(low_from, low_to, FRAMES - 1) /\ low_to = displayed_scene
        BY <1>1, <2>2, <3>1, LastStepIsAdjacent
      <3> QED
        BY <1>4, <2>2, <3>1 DEF CartInv, AtRest, Adjacent
    <2>4. InFlight' /\ AtRest'
      BY <1>4, <2>2 DEF InFlight, AtRest
    <2> QED
      BY <1>1, <2>2, <2>3, <2>4, RuntimeAssumption DEF Steady
  <1> QED
    BY <1>2, <1>3, <1>4

(***************************************************************************)
(* Whatever the loop does to the runtime, it stays well formed: the lemmas  *)
(* on runtime.c, at the times the loop calls it.                            *)
(***************************************************************************)
LEMMA TickKeepsRuntime ==
  ASSUME CartInv, rt' = cart_runtime_tick(rt, clock)
  PROVE  /\ RtInv(rt', clock)
         /\ ~tick_fails(rt, clock) => rt'.sleep \in Nat
  <1>1. clock \in Nat /\ clock >= Origin /\ RtInv(rt, clock)
    BY DEF CartInv, TypeOK
  <1>2. RtInv(rt', clock) /\ (~tick_fails(rt, clock) => rt'.sleep \in 1 .. FramePeriod)
    BY <1>1, TickFacts
  <1> QED
    BY <1>2, RuntimeAssumption

(***************************************************************************)
(* The same for the requests of SIGUSR1 and of the input devices.           *)
(***************************************************************************)
LEMMA RequestKeepsRuntime ==
  ASSUME CartInv, NEW hold \in Nat,
         \/ rt' = cart_runtime_request_next(rt, clock, hold)
         \/ rt' = cart_runtime_request_previous(rt, clock, hold)
  PROVE  RtInv(rt', clock)
  <1>1. clock \in Nat /\ RtInv(rt, clock)
    BY DEF CartInv, TypeOK
  <1>2. \/ rt' = rt
        \/ \E m \in Scenes : rt' = commit(rt, clock, hold, m)
    BY <1>1, RequestIsCommit
  <1> QED
    BY <1>1, <1>2, CommitFacts

(***************************************************************************)
(* A step that does not draw leaves the picture and its causes alone.       *)
(***************************************************************************)
LEMMA ElsewhereKeepsPicture ==
  ASSUME CartInv, Elsewhere
  PROVE  /\ InFlight' /\ AtRest'
         /\ tr' \in cart_transition(Scenes) /\ displayed_scene' \in Scenes
         /\ low_from' \in Scenes /\ low_to' \in Scenes
         /\ fb' \in [from : Scenes \cup {SceneCount}, to : Scenes \cup {SceneCount}, amount : Nat]
  <1>1. InFlight' /\ AtRest'
    BY DEF CartInv, Elsewhere, InFlight, AtRest
  <1> QED
    BY <1>1, Zenon DEF CartInv, TypeOK, Elsewhere

(***************************************************************************)
(* Every step keeps the invariant.                                          *)
(***************************************************************************)
LEMMA CartInvStep ==
  ASSUME CartInv, [Next]_vars
  PROVE  CartInv'
  <1> USE DEF loop_vars, flag_vars, fade_vars
  <1>t. /\ TypeOK /\ clock \in Nat /\ clock >= Origin /\ RtInv(rt, clock) /\ rt \in cart_runtime
        /\ pc = "sleep" => rt.sleep \in Nat
    BY DEF CartInv, TypeOK
  <1>later. ASSUME clock' \in Nat, clock' >= clock, rt' = rt
            PROVE  RtInv(rt', clock') /\ clock' >= Origin /\ rt' \in cart_runtime
    BY <1>t, <1>later, RuntimeAssumption DEF RtInv, cart_runtime
  <1>1. CASE SigUsr1
    <2>1. Elsewhere /\ clock' = clock /\ rt' = rt
      BY <1>1 DEF SigUsr1, Elsewhere
    <2>2. next_scene_requested' \in BOOLEAN /\ asked' \in BOOLEAN
      BY <1>1, Zenon DEF SigUsr1
    <2>3. TypeOK'
      BY <1>1, <1>t, <2>1, <2>2, ElsewhereKeepsPicture DEF SigUsr1, TypeOK
    <2> QED
      BY <1>1, <1>t, <2>1, <2>3, ElsewhereKeepsPicture DEF SigUsr1, CartInv
  <1>2. CASE SigTerm
    <2>1. Elsewhere /\ clock' = clock /\ rt' = rt
      BY <1>2 DEF SigTerm, Elsewhere
    <2>2. running' \in BOOLEAN
      BY <1>2, Zenon DEF SigTerm
    <2>3. TypeOK'
      BY <1>2, <1>t, <2>1, <2>2, ElsewhereKeepsPicture DEF SigTerm, TypeOK
    <2> QED
      BY <1>2, <1>t, <2>1, <2>3, ElsewhereKeepsPicture DEF SigTerm, CartInv
  <1>3. CASE LoopEnds \/ NoSignal
    <2>1. Elsewhere /\ clock' = clock /\ rt' = rt /\ pc' \in {"exit", "poll"}
      BY <1>3 DEF LoopEnds, NoSignal, Elsewhere
    <2>2. TypeOK'
      BY <1>3, <1>t, <2>1, ElsewhereKeepsPicture DEF LoopEnds, NoSignal, TypeOK
    <2> QED
      BY <1>t, <2>1, <2>2, ElsewhereKeepsPicture DEF CartInv
  <1>4. CASE ClearSignal
    <2>1. Elsewhere /\ clock' = clock /\ rt' = rt /\ pc' = "poll"
      BY <1>4 DEF ClearSignal, Elsewhere
    <2>2. next_scene_requested' \in BOOLEAN
      BY <1>4, Zenon DEF ClearSignal
    <2>3. TypeOK'
      BY <1>4, <1>t, <2>1, <2>2, ElsewhereKeepsPicture DEF ClearSignal, TypeOK
    <2> QED
      BY <1>t, <2>1, <2>3, ElsewhereKeepsPicture DEF CartInv
  <1>5. CASE Tick
    <2>1. Elsewhere /\ clock' = clock /\ pc' \in {"exit", "usr1"}
      BY <1>5 DEF Tick, Elsewhere
    <2>2. RtInv(rt', clock) /\ rt' \in cart_runtime
      BY <1>5, TickKeepsRuntime DEF Tick, RtInv
    <2>3. slow' \in BOOLEAN /\ asked' \in BOOLEAN
      BY <1>5, <1>t DEF Tick, AskedUntilChange, TypeOK
    <2>4. TypeOK'
      BY <1>5, <1>t, <2>1, <2>2, <2>3, ElsewhereKeepsPicture DEF Tick, TypeOK
    <2> QED
      BY <1>t, <2>1, <2>2, <2>4, ElsewhereKeepsPicture DEF CartInv
  <1>6. CASE TickAgain
    <2>1. Elsewhere /\ clock' = clock /\ pc' \in {"exit", "sleep"}
      BY <1>6 DEF TickAgain, Elsewhere
    <2>2. RtInv(rt', clock) /\ rt' \in cart_runtime /\ (pc' = "sleep" => rt'.sleep \in Nat)
      BY <1>6, TickKeepsRuntime DEF TickAgain, RtInv
    <2>3. asked' \in BOOLEAN
      BY <1>6, <1>t DEF TickAgain, AskedUntilChange, TypeOK
    <2>4. TypeOK'
      BY <1>6, <1>t, <2>1, <2>2, <2>3, ElsewhereKeepsPicture DEF TickAgain, TypeOK
    <2> QED
      BY <1>t, <2>1, <2>2, <2>4, ElsewhereKeepsPicture DEF CartInv
  <1>7. CASE TakeSignal
    <2>1. Elsewhere /\ clock' = clock /\ pc' = "clear"
      BY <1>7 DEF TakeSignal, Elsewhere
    <2>2. RtInv(rt', clock) /\ rt' \in cart_runtime
      BY <1>7, CartAssumption, RequestKeepsRuntime DEF TakeSignal, RtInv
    <2>3. asked' \in BOOLEAN
      BY <1>7, <1>t DEF TakeSignal, AskedUntilChange, TypeOK
    <2>4. TypeOK'
      BY <1>7, <1>t, <2>1, <2>2, <2>3, ElsewhereKeepsPicture DEF TakeSignal, TypeOK
    <2> QED
      BY <1>t, <2>1, <2>2, <2>4, ElsewhereKeepsPicture DEF CartInv
  <1>8. ASSUME NEW polled \in {"NONE", "QUIT", "NEXT", "PREVIOUS"}, Poll(polled)
        PROVE  CartInv'
    <2>1. Elsewhere /\ clock' = clock /\ pc' = "draw"
      BY <1>8 DEF Poll, Elsewhere
    <2>2. \/ rt' = rt
          \/ rt' = cart_runtime_request_next(rt, clock, InputHold)
          \/ rt' = cart_runtime_request_previous(rt, clock, InputHold)
      BY <1>8 DEF Poll
    <2>3. RtInv(rt', clock) /\ rt' \in cart_runtime
      BY <1>t, <2>2, CartAssumption, RequestKeepsRuntime DEF RtInv
    <2>4. running' \in BOOLEAN /\ asked' \in BOOLEAN
      BY <1>8, <1>t DEF Poll, AskedUntilChange, TypeOK
    <2>5. TypeOK'
      BY <1>8, <1>t, <2>1, <2>3, <2>4, ElsewhereKeepsPicture DEF Poll, TypeOK
    <2> QED
      BY <1>t, <2>1, <2>3, <2>5, ElsewhereKeepsPicture DEF CartInv
  <1>9. ASSUME NEW work \in Works, Draw(work)
        PROVE  CartInv'
    <2>1. clock' \in Nat /\ clock' >= clock /\ rt' = rt /\ pc' = "tick2"
      BY <1>9, <1>t, CartAssumption DEF Draw
    <2>2. fade_start' \in Nat /\ interrupted' \in BOOLEAN /\ slow' \in BOOLEAN
      BY <1>9, <1>t, RuntimeAssumption DEF Draw, TypeOK
    <2>3. TypeOK'
      BY <1>9, <1>t, <2>1, <2>2, DrawFacts DEF Draw, TypeOK
    <2> QED
      BY <1>9, <1>later, <2>1, <2>3, DrawFacts DEF CartInv
  <1>10. ASSUME NEW late_by \in Oversleeps, Sleep(late_by)
         PROVE  CartInv'
    <2>1. Elsewhere /\ clock' \in Nat /\ clock' >= clock /\ rt' = rt /\ pc' = "tick"
      BY <1>10, <1>t, CartAssumption DEF Sleep, Elsewhere
    <2>2. TypeOK'
      BY <1>10, <1>t, <2>1, ElsewhereKeepsPicture DEF Sleep, TypeOK
    <2> QED
      BY <1>later, <2>1, <2>2, ElsewhereKeepsPicture DEF CartInv
  <1>11. ASSUME NEW slept \in 0 .. FramePeriod - 1, SleepInterrupted(slept)
         PROVE  CartInv'
    <2>1. Elsewhere /\ clock' \in Nat /\ clock' >= clock /\ rt' = rt /\ pc' = "tick"
      BY <1>11, <1>t, RuntimeAssumption DEF SleepInterrupted, Elsewhere
    <2>2. /\ running' \in BOOLEAN /\ next_scene_requested' \in BOOLEAN
          /\ interrupted' \in BOOLEAN /\ asked' \in BOOLEAN
      BY <1>11, <1>t, Zenon DEF SleepInterrupted, TypeOK
    <2>3. TypeOK'
      BY <1>11, <1>t, <2>1, <2>2, ElsewhereKeepsPicture DEF SleepInterrupted, TypeOK
    <2> QED
      BY <1>later, <2>1, <2>3, ElsewhereKeepsPicture DEF CartInv
  <1>12. CASE UNCHANGED vars
    <2>1. Elsewhere
      BY <1>12 DEF vars, Elsewhere
    <2>2. TypeOK'
      BY <1>12, <1>t DEF vars, TypeOK
    <2> QED
      BY <1>12, <1>t, <2>1, <2>2, ElsewhereKeepsPicture DEF vars, CartInv
  <1> QED
    BY <1>1, <1>2, <1>3, <1>4, <1>5, <1>6, <1>7, <1>8, <1>9, <1>10, <1>11, <1>12
    DEF Next, Exited

(***************************************************************************)
(* The invariant, and with it type correctness, in every reachable state of *)
(* the main loop.                                                           *)
(***************************************************************************)
THEOREM CartInvariant == Spec => []CartInv
  BY InitCartInv, CartInvStep, PTL DEF Spec

(***************************************************************************)
(* Type correctness of the main loop: the scene indices stay in the scene   *)
(* table and a fade never runs past its last step.                          *)
(***************************************************************************)
THEOREM CartTypeCorrect == Spec => []TypeOK
  <1>1. CartInv => TypeOK
    BY DEF CartInv
  <1> QED
    BY <1>1, CartInvariant, PTL

(***************************************************************************)
(* No hard cuts (pstv-demo-cart.c:51-54): every frame after the first shows *)
(* the same picture as the frame before or the next step of one fade, for   *)
(* any timing, any signals and any inputs.                                  *)
(***************************************************************************)
THEOREM ScreenNeverCuts == Spec => NoHardCut
  <1>1. ASSUME CartInv, [Next]_vars
        PROVE  [fb # Blank => Adjacent(fb, fb')]_fb
    <2>1. CASE \E work \in Works : Draw(work)
      BY <1>1, <2>1, DrawFacts
    <2>2. CASE ~ \E work \in Works : Draw(work)
      BY <1>1, <2>2
      DEF Next, vars, loop_vars, flag_vars, fade_vars, SigUsr1, SigTerm, LoopEnds, Tick, TakeSignal,
          NoSignal, ClearSignal, Poll, TickAgain, Sleep, SleepInterrupted, Exited
    <2> QED
      BY <2>1, <2>2
  <1> QED
    BY <1>1, CartInvariant, PTL DEF Spec, NoHardCut

----------------------------------------------------------------------------
(***************************************************************************)
(* How the time of the frames relates to the deadlines and to the fade.     *)
(* drawn is where the last frame drawn of a fade would start if every frame *)
(* took exactly one period.                                                 *)
(***************************************************************************)
BeforeDraw == {"usr1", "clear", "poll", "draw"}

drawn == fade_start + (tr.elapsed_frames - 1) * FramePeriod

ClockInv ==
  /\ clock >= frame_start
  /\ pc \in BeforeDraw => clock = frame_start /\ rt.next_deadline > frame_start
  /\ pc = "sleep" => clock + rt.sleep = rt.next_deadline

(***************************************************************************)
(* Unless a sleep was cut short, the frames of a fade are not ahead of      *)
(* their deadlines, and the deadlines move on by a period for each of them. *)
(***************************************************************************)
PaceInv ==
  tr.active /\ ~interrupted =>
    /\ pc \in BeforeDraw => frame_start > drawn /\ rt.next_deadline > drawn + FramePeriod
    /\ pc \in {"tick2", "sleep", "tick"} => rt.next_deadline > drawn
    /\ pc = "tick" => clock >= rt.next_deadline

(***************************************************************************)
(* The numbers the proofs calculate with.                                   *)
(***************************************************************************)
LEMMA TimeTypes ==
  ASSUME CartInv
  PROVE  /\ clock \in Nat /\ clock >= Origin /\ RtInv(rt, clock)
         /\ frame_start \in Nat /\ fade_start \in Nat
         /\ rt.next_deadline \in Nat /\ rt.last_change \in Nat
         /\ FramePeriod \in Nat \ {0} /\ FRAMES \in Nat
         /\ tr.elapsed_frames \in Nat /\ drawn \in Int
  <1>1. /\ clock \in Nat /\ clock >= Origin /\ RtInv(rt, clock)
        /\ frame_start \in Nat /\ fade_start \in Nat
        /\ FramePeriod \in Nat \ {0} /\ FRAMES \in Nat
    BY RuntimeAssumption, TransitionAssumption DEF CartInv, TypeOK
  <1>2. rt.next_deadline \in Nat /\ rt.last_change \in Nat
    BY <1>1 DEF RtInv, cart_runtime
  <1>3. tr.elapsed_frames \in Nat
    BY TransitionAssumption DEF CartInv, TypeOK, cart_transition
  <1>4. drawn \in Int
    BY <1>1, <1>3 DEF drawn
  <1> QED
    BY <1>1, <1>2, <1>3, <1>4

(***************************************************************************)
(* A draw that begins a fade sets drawn to the start of this frame, one     *)
(* that continues it adds a period.                                         *)
(***************************************************************************)
LEMMA DrawMovesDrawn ==
  ASSUME CartInv, NEW work \in Works, Draw(work)
  PROVE  /\ fade_due => /\ tr'.active /\ ~interrupted' /\ drawn' = frame_start
                        /\ fade_start' = frame_start /\ tr'.to_scene = rt.scene_index
         /\ tr.active /\ tr'.active => /\ ~fade_due /\ drawn' = drawn + FramePeriod
                                       /\ fade_start' = fade_start
                                       /\ tr'.to_scene = tr.to_scene
                                       /\ interrupted' = interrupted
         /\ ~fade_due /\ ~tr.active => tr' = tr /\ displayed_scene' = displayed_scene
  <1>1. CASE fade_due
    <2>1. /\ tr'.active /\ tr'.elapsed_frames = 1 /\ tr'.to_scene = rt.scene_index
      BY <1>1, DrawBegins
    <2>2. fade_start' = frame_start /\ ~interrupted'
      BY <1>1 DEF Draw
    <2>3. drawn' = frame_start
      BY <2>1, <2>2, TimeTypes DEF drawn
    <2> QED
      BY <1>1, <2>1, <2>2, <2>3 DEF fade_due
  <1>2. CASE ~fade_due /\ tr.active
    <2> SUFFICES ASSUME tr'.active
                 PROVE  /\ drawn' = drawn + FramePeriod /\ fade_start' = fade_start
                        /\ tr'.to_scene = tr.to_scene /\ interrupted' = interrupted
      BY <1>2
    <2>1. tr'.elapsed_frames = tr.elapsed_frames + 1 /\ tr'.to_scene = tr.to_scene
      BY <1>2, DrawContinues
    <2>2. fade_start' = fade_start
      BY <1>2 DEF Draw
    <2>3. interrupted' = interrupted
      BY <1>2, Zenon DEF Draw, CartInv, TypeOK
    <2>4. drawn' = drawn + FramePeriod
      <3> DEFINE e == tr.elapsed_frames
      <3>1. e \in Nat /\ fade_start \in Nat /\ FramePeriod \in Nat
        BY TimeTypes
      <3>2. drawn' = fade_start' + (tr'.elapsed_frames - 1) * FramePeriod
        BY DEF drawn
      <3>3. drawn = fade_start + (e - 1) * FramePeriod
        BY DEF drawn
      <3> HIDE DEF e
      <3>4. tr'.elapsed_frames - 1 = (e - 1) + 1
        BY <2>1, <3>1 DEF e
      <3>5. ((e - 1) + 1) * FramePeriod = (e - 1) * FramePeriod + FramePeriod
        BY <3>1
      <3> QED
        BY <2>2, <3>1, <3>2, <3>3, <3>4, <3>5
    <2> QED
      BY <2>1, <2>2, <2>3, <2>4
  <1>3. CASE ~fade_due /\ ~tr.active
    <2>1. staged.tr = tr
      BY <1>3 DEF staged
    <2> QED
      BY <1>3, <2>1 DEF Draw
  <1> QED
    BY <1>1, <1>2, <1>3

(***************************************************************************)
(* A request leaves the deadline and the sleep alone, and changes the scene *)
(* only when the guard allows it, which it then remembers.                  *)
(***************************************************************************)
LEMMA RequestTimes ==
  ASSUME CartInv, NEW hold \in Nat,
         \/ rt' = rt
         \/ rt' = cart_runtime_request_next(rt, clock, hold)
         \/ rt' = cart_runtime_request_previous(rt, clock, hold)
  PROVE  /\ rt'.next_deadline = rt.next_deadline /\ rt'.sleep = rt.sleep
         /\ rt'.scene_index # rt.scene_index
              => change_allowed(rt, clock) /\ rt'.had_change /\ rt'.last_change = clock
         /\ rt'.scene_index = rt.scene_index
              => rt'.had_change = rt.had_change /\ rt'.last_change = rt.last_change
  <1>1. clock \in Nat /\ RtInv(rt, clock)
    BY DEF CartInv, TypeOK
  <1>2. \/ rt' = rt
        \/ change_allowed(rt, clock) /\ \E m \in Scenes : rt' = commit(rt, clock, hold, m)
    BY <1>1, RequestIsCommit
  <1> QED
    BY <1>1, <1>2, CommitFacts

(***************************************************************************)
(* A request that the guard allows changes the scene, and after any request *)
(* a cooldown is running: the one it has started or the one it fell into.   *)
(***************************************************************************)
LEMMA GrantStartsCooldown ==
  ASSUME CartInv, SceneCount > 1, MinChange > 0,
         rt' = cart_runtime_request_next(rt, clock, SignalHold)
  PROVE  /\ ~change_allowed(rt', clock)
         /\ change_allowed(rt, clock) => rt'.scene_index # rt.scene_index
  <1>1. clock \in Nat /\ RtInv(rt, clock) /\ rt.scene_index \in Scenes
    BY DEF CartInv, TypeOK, cart_runtime
  <1>2. CASE ~change_allowed(rt, clock)
    BY <1>2 DEF cart_runtime_request_next
  <1>3. CASE change_allowed(rt, clock)
    <2> DEFINE m == (rt.scene_index + 1) % SceneCount
    <2>1. m \in Scenes /\ m # rt.scene_index
      <3>1. SceneCount \in Nat /\ rt.scene_index \in 0 .. SceneCount - 1
        BY <1>1, RuntimeAssumption DEF Scenes
      <3>2. m \in Scenes
        BY <3>1, SceneArithmetic
      <3>3. CASE rt.scene_index + 1 < SceneCount
        <4>1. m = rt.scene_index + 1
          BY <3>1, <3>3
        <4> QED
          BY <3>1, <3>2, <4>1
      <3>4. CASE rt.scene_index + 1 = SceneCount
        <4>1. m = 0
          BY <3>1, <3>4
        <4> QED
          BY <3>1, <3>2, <3>4, <4>1
      <3>5. rt.scene_index + 1 < SceneCount \/ rt.scene_index + 1 = SceneCount
        BY <3>1
      <3> HIDE DEF m
      <3> QED
        BY <3>3, <3>4, <3>5
    <2>2. rt' = commit(rt, clock, SignalHold, m)
      BY <1>3 DEF cart_runtime_request_next
    <2> HIDE DEF m
    <2>3. rt'.scene_index = m
      BY <1>1, <2>1, <2>2 DEF RtInv, commit, cart_runtime
    <2>4. rt'.had_change /\ rt'.last_change = clock
      BY <1>1, <2>1, <2>2 DEF RtInv, commit, cart_runtime
    <2> QED
      BY <1>1, <2>1, <2>3, <2>4, RuntimeAssumption DEF change_allowed
  <1> QED
    BY <1>2, <1>3

(***************************************************************************)
(* A cooldown that is over stays over until the scene changes.              *)
(***************************************************************************)
LEMMA AllowedStays ==
  ASSUME CartInv, change_allowed(rt, clock), NEW now \in Nat, now >= clock,
         NEW t, t.had_change = rt.had_change, t.last_change = rt.last_change
  PROVE  change_allowed(t, now)
  <1>1. clock \in Nat /\ rt.last_change \in Nat
    BY DEF CartInv, TypeOK, RtInv, cart_runtime
  <1>2. MinChange \in Nat
    BY RuntimeAssumption
  <1>3. CASE MinChange = 0
    BY <1>3 DEF change_allowed
  <1>4. CASE ~rt.had_change
    BY <1>4 DEF change_allowed
  <1>5. CASE clock >= rt.last_change /\ clock - rt.last_change >= MinChange
    <2>1. now >= t.last_change /\ now - t.last_change >= MinChange
      BY <1>1, <1>2, <1>5
    <2> QED
      BY <2>1 DEF change_allowed
  <1> QED
    BY <1>3, <1>4, <1>5 DEF change_allowed

\* Where the flag is about to be cleared a cooldown is running, and while a
\* timely signal is unanswered none is.
AskedInv ==
  /\ pc = "clear" => ~change_allowed(rt, clock)
  /\ asked => next_scene_requested /\ change_allowed(rt, clock)

(***************************************************************************)
(* A SIGUSR1 that arrives outside a cooldown is kept until the scene has    *)
(* changed (pstv-demo-cart.c:237-240), for every cooldown, timing and input *)
(* as long as there is a cooldown and a scene to change to.                 *)
(***************************************************************************)
THEOREM TimelySignalsAreKept ==
  ASSUME SceneCount > 1, MinChange > 0
  PROVE  Spec => []TimelySignalKept
  <1> USE DEF loop_vars, flag_vars, fade_vars
  <1>1. Init => AskedInv
    BY DEF Init, AskedInv
  <1>2. ASSUME CartInv, AskedInv, [Next]_vars
        PROVE  AskedInv'
    <2>t. /\ clock \in Nat /\ clock >= Origin /\ RtInv(rt, clock) /\ rt \in cart_runtime
          /\ pc = "sleep" => rt.sleep \in Nat
      BY <1>2 DEF CartInv, TypeOK
    <2>same. ASSUME asked' = (asked /\ rt'.scene_index = rt.scene_index),
                    pc' # "clear", clock' = clock, next_scene_requested' = next_scene_requested,
                    rt'.scene_index = rt.scene_index
                      => rt'.had_change = rt.had_change /\ rt'.last_change = rt.last_change
             PROVE  AskedInv'
      <3>1. asked' => asked /\ rt'.scene_index = rt.scene_index
        BY <2>same, Zenon
      <3>2. asked' => change_allowed(rt', clock')
        BY <1>2, <2>t, <2>same, <3>1, AllowedStays DEF AskedInv
      <3>3. asked' => next_scene_requested'
        BY <1>2, <2>same, <3>1, Zenon DEF AskedInv
      <3> QED
        BY <2>same, <3>2, <3>3, Zenon DEF AskedInv
    <2>later. ASSUME asked' = asked, pc' # "clear", clock' \in Nat, clock' >= clock, rt' = rt,
                     asked => next_scene_requested'
              PROVE  AskedInv'
      BY <1>2, <2>later, AllowedStays DEF AskedInv
    <2>1. CASE SigUsr1
      BY <1>2, <2>1 DEF SigUsr1, AskedInv
    <2>2. CASE SigTerm \/ UNCHANGED vars
      BY <1>2, <2>2 DEF SigTerm, vars, AskedInv
    <2>3. CASE LoopEnds \/ NoSignal
      BY <2>t, <2>3, <2>later, <1>2 DEF LoopEnds, NoSignal, AskedInv
    <2>4. CASE ClearSignal
      BY <1>2, <2>4 DEF ClearSignal, AskedInv
    <2>5. CASE Tick
      <3>1. rt'.scene_index = rt.scene_index
              => rt'.had_change = rt.had_change /\ rt'.last_change = rt.last_change
        BY <2>5, <2>t, TickFacts DEF Tick
      <3> QED
        BY <2>5, <2>same, <3>1 DEF Tick, AskedUntilChange
    <2>6. CASE TickAgain
      <3>1. rt'.scene_index = rt.scene_index
              => rt'.had_change = rt.had_change /\ rt'.last_change = rt.last_change
        BY <2>6, <2>t, TickFacts DEF TickAgain
      <3> QED
        BY <2>6, <2>same, <3>1 DEF TickAgain, AskedUntilChange
    <2>7. CASE TakeSignal
      <3>1. /\ ~change_allowed(rt', clock)
            /\ change_allowed(rt, clock) => rt'.scene_index # rt.scene_index
        BY <1>2, <2>7, GrantStartsCooldown DEF TakeSignal
      <3> QED
        BY <1>2, <2>7, <3>1 DEF TakeSignal, AskedUntilChange, AskedInv
    <2>8. ASSUME NEW polled \in {"NONE", "QUIT", "NEXT", "PREVIOUS"}, Poll(polled)
          PROVE  AskedInv'
      <3>1. \/ rt' = rt
            \/ rt' = cart_runtime_request_next(rt, clock, InputHold)
            \/ rt' = cart_runtime_request_previous(rt, clock, InputHold)
        BY <2>8 DEF Poll
      <3>2. rt'.scene_index = rt.scene_index
              => rt'.had_change = rt.had_change /\ rt'.last_change = rt.last_change
        BY <1>2, <3>1, CartAssumption, RequestTimes
      <3> QED
        BY <2>8, <2>same, <3>2 DEF Poll, AskedUntilChange
    <2>9. ASSUME NEW work \in Works, Draw(work)
          PROVE  AskedInv'
      BY <1>2, <2>9, <2>t, <2>later, CartAssumption DEF Draw, AskedInv
    <2>10. ASSUME NEW late_by \in Oversleeps, Sleep(late_by)
           PROVE  AskedInv'
      BY <1>2, <2>10, <2>t, <2>later, CartAssumption DEF Sleep, AskedInv
    <2>11. ASSUME NEW slept \in 0 .. FramePeriod - 1, SleepInterrupted(slept)
           PROVE  AskedInv'
      <3>1. clock' = clock + slept /\ clock' \in Nat /\ clock' >= clock /\ rt' = rt /\ pc' = "tick"
        BY <2>11, <2>t, RuntimeAssumption DEF SleepInterrupted
      <3>2. asked => change_allowed(rt', clock')
        BY <1>2, <3>1, AllowedStays DEF AskedInv
      <3>3. asked' => asked \/ (next_scene_requested' /\ change_allowed(rt, clock + slept))
        BY <2>11, Zenon DEF SleepInterrupted
      <3>4. asked => next_scene_requested'
        <4>1. next_scene_requested' = TRUE \/ next_scene_requested' = next_scene_requested
          BY <2>11, SMT DEF SleepInterrupted
        <4> QED
          BY <1>2, <4>1, Zenon DEF AskedInv
      <3>5. change_allowed(rt, clock + slept) => change_allowed(rt', clock')
        BY <3>1, Zenon
      <3>6. pc' # "clear"
        BY <3>1
      <3> QED
        BY <3>2, <3>3, <3>4, <3>5, <3>6, Zenon DEF AskedInv
    <2> QED
      BY <1>2, <2>1, <2>2, <2>3, <2>4, <2>5, <2>6, <2>7, <2>8, <2>9, <2>10, <2>11
      DEF Next, Exited
  <1>3. AskedInv => TimelySignalKept
    BY DEF AskedInv, TimelySignalKept
  <1> QED
    BY <1>1, <1>2, <1>3, CartInvariant, PTL DEF Spec

\* A step that moves neither the clock nor the fade.
SameTime == UNCHANGED <<clock, frame_start, slow, tr, displayed_scene, fade_start, interrupted>>

(***************************************************************************)
(* Every step keeps the relation between frames and deadlines.              *)
(***************************************************************************)
LEMMA PaceStep ==
  ASSUME CartInv, ClockInv, PaceInv, [Next]_vars
  PROVE  ClockInv' /\ PaceInv'
  <1> USE DEF loop_vars, flag_vars, fade_vars
  <1>t. /\ clock \in Nat /\ clock >= Origin /\ RtInv(rt, clock)
        /\ frame_start \in Nat /\ rt.next_deadline \in Nat
        /\ FramePeriod \in Nat \ {0} /\ drawn \in Int
    BY TimeTypes
  <1>same. ASSUME SameTime PROVE drawn' = drawn
    BY <1>same DEF SameTime, drawn
  <1>1. CASE SigUsr1 \/ SigTerm \/ LoopEnds \/ NoSignal \/ ClearSignal \/ UNCHANGED vars
    <2>1. SameTime /\ rt' = rt
      BY <1>1 DEF SameTime, SigUsr1, SigTerm, LoopEnds, NoSignal, ClearSignal, vars
    <2>2. pc' = pc \/ pc' = "exit" \/ (pc \in BeforeDraw /\ pc' \in BeforeDraw)
      BY <1>1 DEF SigUsr1, SigTerm, LoopEnds, NoSignal, ClearSignal, vars, BeforeDraw
    <2>3. ClockInv'
      BY <2>1, <2>2 DEF ClockInv, SameTime, BeforeDraw
    <2>4. PaceInv'
      BY <1>same, <2>1, <2>2 DEF PaceInv, SameTime, BeforeDraw
    <2> QED
      BY <2>3, <2>4
  <1>2. ASSUME TakeSignal \/ \E polled \in {"NONE", "QUIT", "NEXT", "PREVIOUS"} : Poll(polled)
        PROVE  ClockInv' /\ PaceInv'
    <2>1. SameTime /\ pc \in BeforeDraw /\ pc' \in BeforeDraw
      BY <1>2 DEF SameTime, TakeSignal, Poll, BeforeDraw
    <2>2. rt'.next_deadline = rt.next_deadline /\ rt'.sleep = rt.sleep
      BY <1>2, CartAssumption, RequestTimes DEF TakeSignal, Poll
    <2>3. ClockInv'
      BY <2>1, <2>2 DEF ClockInv, SameTime, BeforeDraw
    <2>4. PaceInv'
      BY <1>same, <2>1, <2>2 DEF PaceInv, SameTime, BeforeDraw
    <2> QED
      BY <2>3, <2>4
  <1>3. CASE Tick
    <2>1. /\ UNCHANGED <<tr, fade_start, interrupted, clock>> /\ frame_start' = clock
          /\ pc = "tick" /\ pc' = IF tick_fails(rt, clock) THEN "exit" ELSE "usr1"
      BY <1>3 DEF Tick
    <2>2. drawn' = drawn
      BY <2>1 DEF drawn
    <2>3. CASE tick_fails(rt, clock)
      BY <1>t, <2>1, <2>3 DEF ClockInv, PaceInv, BeforeDraw
    <2>4. CASE ~tick_fails(rt, clock)
      <3>1. /\ rt'.next_deadline > clock
            /\ clock >= rt.next_deadline => rt'.next_deadline >= rt.next_deadline + FramePeriod
        BY <1>3, <1>t, <2>4, TickTimes DEF Tick
      <3>2. rt'.next_deadline \in Nat
        BY <1>3, TickKeepsRuntime DEF Tick, RtInv, cart_runtime
      <3>3. ClockInv'
        BY <1>t, <2>1, <2>4, <3>1 DEF ClockInv, BeforeDraw
      <3>4. PaceInv'
        BY <1>t, <2>1, <2>2, <2>4, <3>1, <3>2 DEF PaceInv, BeforeDraw
      <3> QED
        BY <3>3, <3>4
    <2> QED
      BY <2>3, <2>4
  <1>4. ASSUME NEW work \in Works, Draw(work)
        PROVE  ClockInv' /\ PaceInv'
    <2>1. /\ pc = "draw" /\ pc' = "tick2" /\ rt' = rt /\ frame_start' = frame_start
          /\ clock' = clock + work /\ work \in Nat
      BY <1>4, CartAssumption DEF Draw
    <2>2. ClockInv'
      BY <1>t, <2>1 DEF ClockInv, BeforeDraw
    <2>3. PaceInv'
      <3> SUFFICES ASSUME tr'.active, ~interrupted' PROVE rt.next_deadline > drawn'
        BY <2>1 DEF PaceInv, BeforeDraw
      <3>1. CASE fade_due
        BY <1>4, <2>1, <3>1, DrawMovesDrawn DEF ClockInv, BeforeDraw
      <3>2. CASE tr.active
        BY <1>4, <2>1, <3>2, DrawMovesDrawn DEF PaceInv, BeforeDraw
      <3>3. CASE ~fade_due /\ ~tr.active
        BY <1>4, <3>3, DrawMovesDrawn
      <3> QED
        BY <3>1, <3>2, <3>3
    <2> QED
      BY <2>2, <2>3
  <1>5. CASE TickAgain
    <2>1. SameTime /\ pc = "tick2" /\ pc' = IF tick_fails(rt, clock) THEN "exit" ELSE "sleep"
      BY <1>5 DEF TickAgain, SameTime
    <2>2. CASE tick_fails(rt, clock)
      BY <1>t, <2>1, <2>2 DEF ClockInv, PaceInv, BeforeDraw, SameTime
    <2>3. CASE ~tick_fails(rt, clock)
      <3>1. clock + rt'.sleep = rt'.next_deadline /\ rt'.next_deadline >= rt.next_deadline
        BY <1>5, <1>t, <2>3, TickTimes DEF TickAgain
      <3>2. rt'.next_deadline \in Nat
        BY <1>5, TickKeepsRuntime DEF TickAgain, RtInv, cart_runtime
      <3>3. ClockInv'
        BY <1>t, <2>1, <2>3, <3>1 DEF ClockInv, BeforeDraw, SameTime
      <3>4. PaceInv'
        BY <1>t, <1>same, <2>1, <2>3, <3>1, <3>2 DEF PaceInv, BeforeDraw, SameTime
      <3> QED
        BY <3>3, <3>4
    <2> QED
      BY <2>2, <2>3
  <1>6. ASSUME NEW late_by \in Oversleeps, Sleep(late_by)
        PROVE  ClockInv' /\ PaceInv'
    <2>1. /\ UNCHANGED <<tr, fade_start, interrupted, rt, frame_start>>
          /\ pc = "sleep" /\ pc' = "tick" /\ late_by \in Nat
          /\ rt.sleep \in Nat /\ clock' = clock + rt.sleep + late_by
      BY <1>6, CartAssumption DEF Sleep, CartInv
    <2>2. drawn' = drawn
      BY <2>1 DEF drawn
    <2>3. ClockInv'
      BY <1>t, <2>1 DEF ClockInv, BeforeDraw
    <2>4. clock' >= rt.next_deadline
      BY <1>t, <2>1 DEF ClockInv
    <2>5. PaceInv'
      BY <2>1, <2>2, <2>4 DEF PaceInv, BeforeDraw
    <2> QED
      BY <2>3, <2>5
  <1>7. ASSUME NEW slept \in 0 .. FramePeriod - 1, SleepInterrupted(slept)
        PROVE  ClockInv' /\ PaceInv'
    <2>1. /\ UNCHANGED <<tr, fade_start, rt, frame_start>>
          /\ pc' = "tick" /\ clock' = clock + slept
          /\ tr'.active => interrupted'
      BY <1>7 DEF SleepInterrupted
    <2>2. ClockInv'
      BY <1>t, <2>1 DEF ClockInv, BeforeDraw
    <2>3. PaceInv'
      BY <2>1 DEF PaceInv
    <2> QED
      BY <2>2, <2>3
  <1> QED
    BY <1>1, <1>2, <1>3, <1>4, <1>5, <1>6, <1>7 DEF Next, Exited

(***************************************************************************)
(* A fade does not run faster than the frame rate: whatever the lateness of *)
(* its frames, the last one starts more than FRAMES - 2 periods after the   *)
(* first, unless a signal cut a sleep of the fade short.                    *)
(***************************************************************************)
THEOREM FadesTakeTime == Spec => FadeTakesTime
  <1>1. Init => ClockInv /\ PaceInv
    BY RuntimeAssumption DEF Init, ClockInv, PaceInv, BeforeDraw, NoTransition
  <1>2. ASSUME CartInv, ClockInv, PaceInv, [Next]_vars
        PROVE  [tr.active /\ ~tr'.active /\ ~interrupted
                  => frame_start - fade_start > (FRAMES - 2) * FramePeriod]_vars
    <2> SUFFICES ASSUME Next, tr.active, ~tr'.active, ~interrupted
                 PROVE  frame_start - fade_start > (FRAMES - 2) * FramePeriod
      BY <1>2
    <2>1. PICK work \in Works : Draw(work)
      BY DEF Next, vars, loop_vars, flag_vars, fade_vars, SigUsr1, SigTerm, LoopEnds, Tick,
          TakeSignal, NoSignal, ClearSignal, Poll, TickAgain, Sleep, SleepInterrupted, Exited
    <2>2. tr.elapsed_frames = FRAMES - 1
      <3>1. tr.elapsed_frames \in 1 .. FRAMES - 1 /\ FRAMES \in Nat
        BY <1>2, TransitionAssumption DEF CartInv, InFlight
      <3>2. ~(tr.elapsed_frames + 1 < FRAMES)
        BY <1>2, <2>1, DrawContinues
      <3> QED
        BY <3>1, <3>2
    <2>3. frame_start > drawn
      BY <1>2, <2>1 DEF PaceInv, BeforeDraw, Draw
    <2>4. drawn = fade_start + (FRAMES - 2) * FramePeriod
      <3>1. FRAMES - 1 - 1 = FRAMES - 2
        BY TransitionAssumption
      <3> QED
        BY <2>2, <3>1 DEF drawn
    <2>5. (FRAMES - 2) * FramePeriod \in Int /\ frame_start \in Nat /\ fade_start \in Nat
      BY <1>2, TimeTypes
    <2> DEFINE span == (FRAMES - 2) * FramePeriod
    <2>6. frame_start > fade_start + span /\ span \in Int
      BY <2>3, <2>4, <2>5
    <2> HIDE DEF span
    <2>7. frame_start - fade_start > span
      BY <2>5, <2>6
    <2> QED
      BY <2>7 DEF span
  <1>3. ASSUME CartInv, ClockInv, PaceInv, [Next]_vars
        PROVE  ClockInv' /\ PaceInv'
    BY <1>3, PaceStep
  <1> QED
    BY <1>1, <1>2, <1>3, CartInvariant, PTL DEF Spec, FadeTakesTime

----------------------------------------------------------------------------
(***************************************************************************)
(* What frames on time add.  A fade in flight leads to the scene the        *)
(* runtime wants, the guard remembers a change at most one period before    *)
(* its first frame, and its frames are not behind drawn by more than the    *)
(* one that has begun since.                                                *)
(***************************************************************************)
FadeOnTime ==
  tr.active => /\ rt.scene_index = tr.to_scene
               /\ rt.had_change /\ rt.last_change + FramePeriod >= fade_start
               /\ frame_start <= drawn + FramePeriod
               /\ pc \in {"tick2", "sleep", "tick"} => frame_start <= drawn

(***************************************************************************)
(* A change that no fade has taken up yet happened in this frame, or in the *)
(* second tick of the frame before.                                         *)
(***************************************************************************)
WaitOnTime ==
  ~tr.active /\ rt.scene_index # displayed_scene =>
    /\ pc # "tick2"
    /\ rt.had_change
    /\ pc \in BeforeDraw => rt.last_change + FramePeriod >= frame_start
    /\ pc \in {"sleep", "tick"} => rt.last_change >= frame_start

OnTimeInv ==
  ~slow => /\ pc = "tick2" => clock <= frame_start + FramePeriod
           /\ FadeOnTime
           /\ WaitOnTime

(***************************************************************************)
(* A cooldown longer than FRAMES periods covers a fade: at most FRAMES - 1  *)
(* of them are between its first frame and any frame before it ends, and    *)
(* one more can lie between the change and the first frame.                 *)
(***************************************************************************)
LEMMA CooldownCoversFade ==
  ASSUME CartInv, MinChange > FRAMES * FramePeriod, tr.active,
         rt.had_change, rt.last_change + FramePeriod >= fade_start,
         clock <= drawn + FramePeriod
  PROVE  ~change_allowed(rt, clock)
  <1> DEFINE e == tr.elapsed_frames
             full == FRAMES * FramePeriod
             done == (e - 1) * FramePeriod
  <1>t. /\ clock \in Nat /\ RtInv(rt, clock) /\ fade_start \in Nat /\ rt.last_change \in Nat
        /\ FramePeriod \in Nat \ {0} /\ FRAMES \in Nat /\ MinChange \in Nat
    BY TimeTypes, RuntimeAssumption
  <1>1. e \in 1 .. FRAMES - 1
    BY DEF CartInv, InFlight
  <1>2. drawn = fade_start + done
    BY DEF drawn
  <1> HIDE DEF e
  <1>3. done + 2 * FramePeriod <= full /\ done \in Int /\ full \in Int
    <2>1. done + 2 * FramePeriod = (e + 1) * FramePeriod
      BY <1>t, <1>1
    <2>2. full = (e + 1) * FramePeriod + (FRAMES - e - 1) * FramePeriod
      BY <1>t, <1>1
    <2>3. FRAMES - e - 1 \in Nat
      BY <1>t, <1>1
    <2> DEFINE rest == FRAMES - e - 1
    <2>4. rest * FramePeriod \in Nat
      <3>1. rest \in Nat
        BY <2>3
      <3> HIDE DEF rest
      <3> QED
        BY <1>t, <3>1
    <2>5. done \in Int /\ full \in Int /\ (e + 1) * FramePeriod \in Int
      BY <1>t, <1>1
    <2> QED
      BY <2>1, <2>2, <2>4, <2>5
  <1>4. MinChange > full
    OBVIOUS
  <1> HIDE DEF full, done
  <1>5. clock - rt.last_change < MinChange /\ MinChange # 0
    BY <1>t, <1>2, <1>3, <1>4
  <1> QED
    BY <1>t, <1>5 DEF change_allowed

(***************************************************************************)
(* With such a cooldown and frames on time, every step keeps a fade and the *)
(* scene the runtime wants together.                                        *)
(***************************************************************************)
LEMMA OnTimeStep ==
  ASSUME CartInv, ClockInv, OnTimeInv, MinChange > FRAMES * FramePeriod, [Next]_vars
  PROVE  OnTimeInv'
  <1> USE DEF loop_vars, flag_vars, fade_vars
  <1>t. /\ clock \in Nat /\ clock >= Origin /\ RtInv(rt, clock)
        /\ frame_start \in Nat /\ fade_start \in Nat /\ rt.last_change \in Nat
        /\ FramePeriod \in Nat \ {0} /\ drawn \in Int
    BY TimeTypes
  <1> SUFFICES ASSUME ~slow'
               PROVE  /\ pc' = "tick2" => clock' <= frame_start' + FramePeriod
                      /\ FadeOnTime' /\ WaitOnTime'
    BY DEF OnTimeInv
  <1>same. ASSUME SameTime
           PROVE  drawn' = drawn /\ ~slow
    BY <1>same DEF SameTime, drawn
  <1>1. CASE SigUsr1 \/ SigTerm \/ LoopEnds \/ NoSignal \/ ClearSignal \/ UNCHANGED vars
    <2>1. SameTime /\ rt' = rt
      BY <1>1 DEF SameTime, SigUsr1, SigTerm, LoopEnds, NoSignal, ClearSignal, vars
    <2>2. pc' = pc \/ pc' = "exit" \/ (pc \in BeforeDraw /\ pc' \in BeforeDraw)
      BY <1>1 DEF SigUsr1, SigTerm, LoopEnds, NoSignal, ClearSignal, vars, BeforeDraw
    <2>3. drawn' = drawn /\ ~slow
      BY <1>same, <2>1
    <2>4. FadeOnTime'
      BY <2>1, <2>2, <2>3 DEF OnTimeInv, FadeOnTime, SameTime, BeforeDraw
    <2>5. WaitOnTime'
      BY <2>1, <2>2, <2>3 DEF OnTimeInv, WaitOnTime, SameTime, BeforeDraw
    <2>6. pc' = "tick2" => clock' <= frame_start' + FramePeriod
      BY <2>1, <2>2, <2>3 DEF OnTimeInv, SameTime, BeforeDraw
    <2> QED
      BY <2>4, <2>5, <2>6
  <1>2. ASSUME TakeSignal \/ \E polled \in {"NONE", "QUIT", "NEXT", "PREVIOUS"} : Poll(polled)
        PROVE  (pc' = "tick2" => clock' <= frame_start' + FramePeriod) /\ FadeOnTime' /\ WaitOnTime'
    <2>1. SameTime /\ pc \in BeforeDraw /\ pc' \in BeforeDraw /\ clock = frame_start
      BY <1>2 DEF SameTime, TakeSignal, Poll, BeforeDraw, ClockInv
    <2>2. /\ rt'.scene_index # rt.scene_index
               => change_allowed(rt, clock) /\ rt'.had_change /\ rt'.last_change = clock
          /\ rt'.scene_index = rt.scene_index
               => rt'.had_change = rt.had_change /\ rt'.last_change = rt.last_change
      BY <1>2, CartAssumption, RequestTimes DEF TakeSignal, Poll
    <2>3. drawn' = drawn /\ ~slow
      BY <1>same, <2>1
    <2>4. tr.active => rt'.scene_index = rt.scene_index
      BY <2>1, <2>2, <2>3, CooldownCoversFade DEF OnTimeInv, FadeOnTime
    <2>5. FadeOnTime'
      BY <2>1, <2>2, <2>3, <2>4 DEF OnTimeInv, FadeOnTime, SameTime, BeforeDraw
    <2>6. WaitOnTime'
      <3> SUFFICES ASSUME ~tr.active, rt'.scene_index # displayed_scene
                   PROVE  rt'.had_change /\ rt'.last_change + FramePeriod >= frame_start
        BY <2>1 DEF WaitOnTime, SameTime, BeforeDraw
      <3>1. CASE rt'.scene_index # rt.scene_index
        BY <1>t, <2>1, <2>2, <3>1
      <3>2. CASE rt'.scene_index = rt.scene_index
        BY <2>1, <2>2, <2>3, <3>2 DEF OnTimeInv, WaitOnTime
      <3> QED
        BY <3>1, <3>2
    <2> QED
      BY <2>1, <2>5, <2>6 DEF BeforeDraw
  <1>3. CASE Tick
    <2>1. /\ UNCHANGED <<tr, displayed_scene, fade_start, clock>> /\ frame_start' = clock
          /\ pc = "tick" /\ pc' \in {"exit", "usr1"}
          /\ ~slow /\ clock - frame_start <= FramePeriod
      <3>1. ~slow /\ ~(clock - frame_start > FramePeriod)
        BY <1>3, Zenon DEF Tick
      <3>2. clock - frame_start <= FramePeriod
        BY <1>t, <3>1
      <3> QED
        BY <1>3, <3>1, <3>2 DEF Tick
    <2>2. drawn' = drawn
      BY <2>1 DEF drawn
    <2>3. /\ rt'.scene_index # rt.scene_index
               => change_allowed(rt, clock) /\ rt'.had_change /\ rt'.last_change = clock
          /\ rt'.scene_index = rt.scene_index
               => rt'.had_change = rt.had_change /\ rt'.last_change = rt.last_change
      BY <1>3, <1>t, TickFacts DEF Tick
    <2>4. tr.active => frame_start <= drawn /\ clock <= drawn + FramePeriod
      BY <1>t, <2>1 DEF OnTimeInv, FadeOnTime
    <2>5. tr.active => rt'.scene_index = rt.scene_index
      BY <2>1, <2>3, <2>4, CooldownCoversFade DEF OnTimeInv, FadeOnTime
    <2>6. FadeOnTime'
      BY <2>1, <2>2, <2>3, <2>4, <2>5 DEF OnTimeInv, FadeOnTime
    <2>7. WaitOnTime'
      <3> SUFFICES ASSUME ~tr.active, rt'.scene_index # displayed_scene
                   PROVE  rt'.had_change /\ rt'.last_change + FramePeriod >= clock
        BY <2>1 DEF WaitOnTime, BeforeDraw
      <3>1. CASE rt'.scene_index # rt.scene_index
        BY <1>t, <2>3, <3>1
      <3>2. CASE rt'.scene_index = rt.scene_index
        <4>1. rt.had_change /\ rt.last_change >= frame_start
          BY <2>1, <3>2 DEF OnTimeInv, WaitOnTime
        <4>2. rt'.had_change /\ rt'.last_change = rt.last_change
          BY <2>3, <3>2, <4>1
        <4>3. clock - frame_start <= FramePeriod
          BY <2>1
        <4>4. rt.last_change + FramePeriod >= clock
          BY <1>t, <4>1, <4>3
        <4> QED
          BY <4>2, <4>4
      <3> QED
        BY <3>1, <3>2
    <2> QED
      BY <2>1, <2>6, <2>7
  <1>4. ASSUME NEW work \in Works, Draw(work)
        PROVE  (pc' = "tick2" => clock' <= frame_start' + FramePeriod) /\ FadeOnTime' /\ WaitOnTime'
    <2>1. /\ pc = "draw" /\ pc' = "tick2" /\ rt' = rt /\ frame_start' = frame_start
          /\ clock' = clock + work /\ work \in Nat /\ work <= FramePeriod /\ ~slow
          /\ clock = frame_start
      <3>1. ~slow /\ ~(work > FramePeriod)
        BY <1>4, Zenon DEF Draw
      <3>2. work \in Nat /\ work <= FramePeriod
        BY <1>t, <3>1, CartAssumption
      <3> QED
        BY <1>4, <3>1, <3>2 DEF Draw, ClockInv, BeforeDraw
    <2>2. clock' <= frame_start' + FramePeriod
      BY <1>t, <2>1
    <2>3. CASE fade_due
      <3>1. /\ tr'.active /\ drawn' = frame_start /\ fade_start' = frame_start
            /\ tr'.to_scene = rt.scene_index
        BY <1>4, <2>3, DrawMovesDrawn
      <3>2. rt.had_change /\ rt.last_change + FramePeriod >= frame_start
        BY <2>1, <2>3 DEF fade_due, OnTimeInv, WaitOnTime, BeforeDraw
      <3> QED
        BY <1>t, <2>1, <2>2, <3>1, <3>2 DEF FadeOnTime, WaitOnTime
    <2>4. CASE tr.active /\ tr'.active
      <3>1. /\ drawn' = drawn + FramePeriod /\ fade_start' = fade_start
            /\ tr'.to_scene = tr.to_scene
        BY <1>4, <2>4, DrawMovesDrawn
      <3>2. /\ rt.scene_index = tr.to_scene /\ rt.had_change
            /\ rt.last_change + FramePeriod >= fade_start /\ frame_start <= drawn + FramePeriod
        BY <2>1, <2>4 DEF OnTimeInv, FadeOnTime
      <3> QED
        BY <1>t, <2>1, <2>2, <2>4, <3>1, <3>2 DEF FadeOnTime, WaitOnTime
    <2>5. CASE tr.active /\ ~tr'.active
      <3>1. displayed_scene' = tr.to_scene
        BY <1>4, <2>5, DrawContinues
      <3>2. rt.scene_index = tr.to_scene
        BY <2>1, <2>5 DEF OnTimeInv, FadeOnTime
      <3> QED
        BY <2>1, <2>2, <2>5, <3>1, <3>2 DEF FadeOnTime, WaitOnTime
    <2>6. CASE ~fade_due /\ ~tr.active
      <3>1. tr' = tr /\ displayed_scene' = displayed_scene
        BY <1>4, <2>6, DrawMovesDrawn
      <3> QED
        BY <2>1, <2>2, <2>6, <3>1 DEF fade_due, FadeOnTime, WaitOnTime
    <2> QED
      BY <2>3, <2>4, <2>5, <2>6
  <1>5. CASE TickAgain
    <2>1. SameTime /\ pc = "tick2" /\ pc' \in {"exit", "sleep"}
      BY <1>5 DEF TickAgain, SameTime
    <2>2. drawn' = drawn /\ ~slow
      BY <1>same, <2>1
    <2>3. /\ rt'.scene_index # rt.scene_index
               => change_allowed(rt, clock) /\ rt'.had_change /\ rt'.last_change = clock
          /\ rt'.scene_index = rt.scene_index
               => rt'.had_change = rt.had_change /\ rt'.last_change = rt.last_change
      BY <1>5, <1>t, TickFacts DEF TickAgain
    <2>4. tr.active => frame_start <= drawn /\ clock <= drawn + FramePeriod
      BY <1>t, <2>1, <2>2 DEF OnTimeInv, FadeOnTime
    <2>5. tr.active => rt'.scene_index = rt.scene_index
      BY <2>1, <2>2, <2>3, <2>4, CooldownCoversFade DEF OnTimeInv, FadeOnTime
    <2>6. FadeOnTime'
      BY <1>t, <2>1, <2>2, <2>3, <2>4, <2>5 DEF OnTimeInv, FadeOnTime, SameTime
    <2>7. WaitOnTime'
      <3> SUFFICES ASSUME ~tr.active, rt'.scene_index # displayed_scene
                   PROVE  rt'.had_change /\ rt'.last_change >= frame_start
        BY <2>1 DEF WaitOnTime, BeforeDraw, SameTime
      <3>1. rt.scene_index = displayed_scene
        BY <2>1, <2>2 DEF OnTimeInv, WaitOnTime
      <3> QED
        BY <2>3, <3>1 DEF ClockInv
    <2> QED
      BY <2>1, <2>6, <2>7
  <1>6. ASSUME \/ \E late_by \in Oversleeps : Sleep(late_by)
               \/ \E slept \in 0 .. FramePeriod - 1 : SleepInterrupted(slept)
        PROVE  (pc' = "tick2" => clock' <= frame_start' + FramePeriod) /\ FadeOnTime' /\ WaitOnTime'
    <2>1. /\ UNCHANGED <<tr, displayed_scene, fade_start, rt, frame_start, slow>>
          /\ pc = "sleep" /\ pc' = "tick"
      BY <1>6 DEF Sleep, SleepInterrupted
    <2>2. drawn' = drawn
      BY <2>1 DEF drawn
    <2>3. FadeOnTime'
      BY <2>1, <2>2 DEF OnTimeInv, FadeOnTime
    <2>4. WaitOnTime'
      BY <2>1 DEF OnTimeInv, WaitOnTime, BeforeDraw
    <2> QED
      BY <2>1, <2>3, <2>4
  <1> QED
    BY <1>1, <1>2, <1>3, <1>4, <1>5, <1>6 DEF Next, Exited

(***************************************************************************)
(* While frames are on time, the cooldown keeps changes out of fades        *)
(* (pstv-demo-cart.c:259-262), if it is longer than FRAMES periods.  The    *)
(* program's is, by 5 ns: 500000000 against 15 * 33333333.                  *)
(***************************************************************************)
THEOREM OnTimeFadesAreExclusive ==
  ASSUME MinChange > FRAMES * FramePeriod
  PROVE  Spec => []OnTimeFadeIsExclusive
  <1>1. Init => ClockInv /\ PaceInv /\ OnTimeInv
    <2> SUFFICES ASSUME Init PROVE ClockInv /\ PaceInv /\ OnTimeInv
      OBVIOUS
    <2>1. ClockInv /\ PaceInv
      BY RuntimeAssumption DEF Init, ClockInv, PaceInv, BeforeDraw, NoTransition
    <2>2. FadeOnTime
      BY DEF Init, FadeOnTime, NoTransition
    <2>3. WaitOnTime
      BY DEF Init, WaitOnTime, RuntimeInit
    <2> QED
      BY <2>1, <2>2, <2>3 DEF Init, OnTimeInv
  <1>2. ASSUME CartInv, ClockInv, PaceInv, OnTimeInv, [Next]_vars
        PROVE  (ClockInv /\ PaceInv /\ OnTimeInv)'
    BY <1>2, PaceStep, OnTimeStep
  <1>3. OnTimeInv => OnTimeFadeIsExclusive
    BY DEF OnTimeInv, FadeOnTime, OnTimeFadeIsExclusive
  <1> QED
    BY <1>1, <1>2, <1>3, CartInvariant, PTL DEF Spec
=============================================================================
