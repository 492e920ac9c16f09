--------------------------- MODULE RuntimeLemmas ---------------------------
(***************************************************************************)
(* Lemmas about the operators of cart/src/runtime.c, for every number of    *)
(* scenes, every period, every cooldown and every width of the clock: what  *)
(* a tick and a request preserve.  RuntimeProofs and DemoCartProofs cite    *)
(* them.                                                                    *)
(***************************************************************************)
EXTENDS Runtime, TLAPS

(***************************************************************************)
(* What every runtime entry point preserves.  The last conjunct is why the  *)
(* hold branch of the tick may assign scene_index without asking the guard. *)
(***************************************************************************)
RtInv(r, now) ==
  /\ r \in cart_runtime
  /\ r.next_deadline <= now + FramePeriod
  /\ r.had_change => r.last_change <= now
  /\ r.manual_hold_active => r.manual_scene_index = r.scene_index

(***************************************************************************)
(* The remainders and quotients of the tick are in range: the attract       *)
(* loop's choice is a scene, and so are the successors of a scene.          *)
(***************************************************************************)
LEMMA SceneArithmetic ==
  /\ \A n \in Nat : n % SceneCount \in Scenes
  /\ \A n \in Nat : n \div ScenePeriod \in Nat
  /\ \A n \in Nat : n \div FramePeriod \in Nat
  BY RuntimeAssumption DEF Scenes

(***************************************************************************)
(* The attract loop's scene is an index of the scene table.                 *)
(***************************************************************************)
LEMMA AutomaticIsScene ==
  ASSUME NEW now \in Nat, now >= Origin
  PROVE  automatic(now) \in Scenes
  <1>1. now - Origin \in Nat
    BY RuntimeAssumption
  <1>2. (now - Origin) \div ScenePeriod \in Nat
    BY <1>1, SceneArithmetic
  <1> QED
    BY <1>2, SceneArithmetic DEF automatic

(***************************************************************************)
(* A tick at a time that is not before the earlier ones keeps the runtime   *)
(* well formed, succeeds or fails.                                          *)
(***************************************************************************)
LEMMA TickSceneInv ==
  ASSUME NEW r, NEW now \in Nat, now >= Origin, RtInv(r, now)
  PROVE  /\ RtInv(TickScene(r, now), now)
         /\ TickScene(r, now).next_deadline = r.next_deadline
         /\ TickScene(r, now).sleep = r.sleep
  <1>1. automatic(now) \in Scenes
    BY AutomaticIsScene
  <1>2. (now - Origin) \div FramePeriod \in Nat
    BY RuntimeAssumption, SceneArithmetic
  <1>3. TickScene(r, now) \in cart_runtime
    BY <1>1, <1>2 DEF RtInv, TickScene, cart_runtime, held, rotates
  <1>4. /\ TickScene(r, now).next_deadline = r.next_deadline
        /\ TickScene(r, now).sleep = r.sleep
    BY DEF RtInv, TickScene, cart_runtime
  <1>5. TickScene(r, now).had_change => TickScene(r, now).last_change <= now
    <2>1. CASE rotates(r, now)
      BY <2>1 DEF RtInv, TickScene, cart_runtime
    <2>2. CASE ~rotates(r, now)
      BY <2>2 DEF RtInv, TickScene, cart_runtime
    <2> QED
      BY <2>1, <2>2
  <1>6. TickScene(r, now).manual_hold_active
          => TickScene(r, now).manual_scene_index = TickScene(r, now).scene_index
    BY DEF RtInv, TickScene, cart_runtime
  <1> QED
    BY <1>3, <1>4, <1>5, <1>6 DEF RtInv

(***************************************************************************)
(* The second half of a tick leaves a well-typed runtime whose sleep is     *)
(* positive and at most one frame.                                          *)
(***************************************************************************)
LEMMA TickDeadlineInv ==
  ASSUME NEW r, NEW now \in Nat, now >= Origin, RtInv(r, now), ~exhausted(r, now)
  PROVE  /\ RtInv(TickDeadline(r, now), now)
         /\ TickDeadline(r, now).sleep \in 1 .. FramePeriod
         /\ TickDeadline(r, now).scene_index = r.scene_index
         /\ TickDeadline(r, now).had_change = r.had_change
         /\ TickDeadline(r, now).last_change = r.last_change
         /\ TickDeadline(r, now).manual_hold_active = r.manual_hold_active
         /\ TickDeadline(r, now).manual_hold_until = r.manual_hold_until
  <1>1. /\ next_deadline(r, now) \in Nat
        /\ next_deadline(r, now) <= now + FramePeriod
        /\ next_deadline(r, now) - now \in 1 .. FramePeriod
    BY RuntimeAssumption DEF RtInv, cart_runtime, next_deadline, early, late
  <1>2. ~early(r, now) /\ ~(late(r, now) < FramePeriod)
           => late(r, now) \div FramePeriod \in Nat
    <2> SUFFICES ASSUME ~early(r, now), ~(late(r, now) < FramePeriod)
                 PROVE  late(r, now) \div FramePeriod \in Nat
      OBVIOUS
    <2>1. late(r, now) \in Nat
      BY RuntimeAssumption DEF RtInv, cart_runtime, late, early
    <2> QED
      BY <2>1, SceneArithmetic
  <1>3. TickDeadline(r, now) \in cart_runtime
    <2> DEFINE d == IF early(r, now) \/ late(r, now) < FramePeriod THEN r.dropped_deadlines
                    ELSE r.dropped_deadlines + late(r, now) \div FramePeriod
               n == next_deadline(r, now)
    <2>1. d \in Nat
      BY <1>2 DEF RtInv, cart_runtime
    <2>2. TickDeadline(r, now)
            = [r EXCEPT !.dropped_deadlines = d, !.next_deadline = n, !.sleep = n - now]
      BY DEF TickDeadline
    <2>3. n \in Nat /\ n - now \in Int
      BY <1>1
    <2> HIDE DEF d, n
    <2> QED
      BY <2>1, <2>2, <2>3 DEF RtInv, cart_runtime
  <1>4. /\ TickDeadline(r, now).next_deadline = next_deadline(r, now)
        /\ TickDeadline(r, now).sleep = next_deadline(r, now) - now
        /\ TickDeadline(r, now).scene_index = r.scene_index
        /\ TickDeadline(r, now).manual_scene_index = r.manual_scene_index
        /\ TickDeadline(r, now).had_change = r.had_change
        /\ TickDeadline(r, now).last_change = r.last_change
        /\ TickDeadline(r, now).manual_hold_active = r.manual_hold_active
        /\ TickDeadline(r, now).manual_hold_until = r.manual_hold_until
    BY DEF RtInv, TickDeadline, cart_runtime
  <1> QED
    BY <1>1, <1>3, <1>4 DEF RtInv

(***************************************************************************)
(* A tick fails only in the last frame period of the clock's range: the     *)
(* overflow check on the deadline itself (runtime.c:94) is unreachable,     *)
(* because a deadline that has passed is not later than now.                *)
(***************************************************************************)
LEMMA ExhaustedMeansEnd ==
  ASSUME NEW r, NEW now \in Nat, RtInv(r, now), exhausted(r, now)
  PROVE  now > Max - FramePeriod
  BY RuntimeAssumption DEF RtInv, cart_runtime, exhausted, early, late

(***************************************************************************)
(* What a whole tick does, in the words the invariants need.                *)
(***************************************************************************)
LEMMA TickFacts ==
  ASSUME NEW r, NEW now \in Nat, now >= Origin, RtInv(r, now),
         NEW t, t = cart_runtime_tick(r, now)
  PROVE  /\ RtInv(t, now)
         /\ tick_fails(r, now) => now > Max - FramePeriod
         /\ ~tick_fails(r, now) => t.sleep \in 1 .. FramePeriod
         /\ t.scene_index # r.scene_index
              => change_allowed(r, now) /\ t.had_change /\ t.last_change = now
         /\ t.scene_index = r.scene_index
              => t.had_change = r.had_change /\ t.last_change = r.last_change
         /\ held(r, now) => /\ t.scene_index = r.scene_index
                            /\ t.manual_hold_active
                            /\ t.manual_hold_until = r.manual_hold_until
  <1> DEFINE s == TickScene(r, now)
  <1>1. clamp(now) = now
    BY RuntimeAssumption DEF clamp
  <1>2. /\ RtInv(s, now)
        /\ s.next_deadline = r.next_deadline
        /\ s.sleep = r.sleep
    BY TickSceneInv
  <1>3. tick_fails(r, now) <=> exhausted(s, now)
    BY <1>1, <1>2 DEF tick_fails, exhausted, early, late
  <1>4. /\ s.scene_index # r.scene_index
             => change_allowed(r, now) /\ s.had_change /\ s.last_change = now
        /\ s.scene_index = r.scene_index
             => s.had_change = r.had_change /\ s.last_change = r.last_change
        /\ held(r, now) => /\ s.scene_index = r.scene_index
                           /\ s.manual_hold_active
                           /\ s.manual_hold_until = r.manual_hold_until
    BY DEF RtInv, TickScene, cart_runtime, held, rotates
  <1> HIDE DEF s
  <1>5. CASE tick_fails(r, now)
    <2>1. t = s
      BY <1>1, <1>5 DEF cart_runtime_tick, s
    <2>2. now > Max - FramePeriod
      BY <1>2, <1>3, <1>5, ExhaustedMeansEnd
    <2> QED
      BY <1>2, <1>4, <1>5, <2>1, <2>2
  <1>6. CASE ~tick_fails(r, now)
    <2>1. t = TickDeadline(s, now)
      BY <1>1, <1>6 DEF cart_runtime_tick, s
    <2>2. ~exhausted(s, now)
      BY <1>3, <1>6
    <2> QED
      BY <1>2, <1>4, <1>6, <2>1, <2>2, TickDeadlineInv
  <1> QED
    BY <1>5, <1>6

(***************************************************************************)
(* What a successful tick does to the deadline: it lies ahead, the sleep    *)
(* ends at it, it never moves back, and one that had been reached moves on  *)
(* by a period at least.                                                    *)
(***************************************************************************)
LEMMA TickTimes ==
  ASSUME NEW r, NEW now \in Nat, now >= Origin, RtInv(r, now), ~tick_fails(r, now),
         NEW t, t = cart_runtime_tick(r, now)
  PROVE  /\ now + t.sleep = t.next_deadline
         /\ t.next_deadline > now
         /\ t.next_deadline >= r.next_deadline
         /\ now >= r.next_deadline => t.next_deadline >= r.next_deadline + FramePeriod
  <1> DEFINE s == TickScene(r, now)
             n == next_deadline(s, now)
  <1>1. clamp(now) = now
    BY RuntimeAssumption DEF clamp
  <1>2. RtInv(s, now) /\ s.next_deadline = r.next_deadline
    BY TickSceneInv
  <1>3. t = TickDeadline(s, now)
    BY <1>1 DEF cart_runtime_tick
  <1> HIDE DEF s
  <1>4. t.next_deadline = n /\ t.sleep = n - now
    BY <1>2, <1>3 DEF TickDeadline, RtInv, cart_runtime
  <1>5. r.next_deadline \in Nat /\ FramePeriod \in Nat \ {0}
    BY RuntimeAssumption DEF RtInv, cart_runtime
  <1>6. n = IF now < r.next_deadline THEN r.next_deadline
            ELSE IF now - r.next_deadline < FramePeriod THEN r.next_deadline + FramePeriod
            ELSE now + FramePeriod
    BY <1>2 DEF next_deadline, early, late
  <1> HIDE DEF n
  <1> QED
    BY <1>4, <1>5, <1>6

(***************************************************************************)
(* A manual step keeps the runtime well formed, records itself when it      *)
(* changes the scene, and pins the scene until now + hold or the end of the *)
(* clock's range, whichever comes first.                                    *)
(***************************************************************************)
LEMMA CommitFacts ==
  ASSUME NEW r, NEW now \in Nat, RtInv(r, now),
         NEW hold \in Nat, NEW m \in Scenes,
         NEW t, t = commit(r, now, hold, m)
  PROVE  /\ RtInv(t, now)
         /\ t.sleep = r.sleep /\ t.next_deadline = r.next_deadline
         /\ t.scene_index # r.scene_index => t.had_change /\ t.last_change = now
         /\ t.scene_index = r.scene_index
              => t.had_change = r.had_change /\ t.last_change = r.last_change
         /\ hold # 0 => /\ t.manual_hold_active
                        /\ \/ t.manual_hold_until >= Max
                           \/ t.manual_hold_until >= now + hold
  <1>1. add_saturating(now, hold) \in Nat
    BY RuntimeAssumption DEF add_saturating
  <1>2. t \in cart_runtime
    BY <1>1 DEF RtInv, commit, cart_runtime
  <1>3. /\ t.sleep = r.sleep
        /\ t.next_deadline = r.next_deadline
        /\ t.scene_index = m
        /\ t.manual_scene_index = m
    BY DEF RtInv, commit, cart_runtime
  <1>4. CASE m # r.scene_index
    <2>1. t.had_change /\ t.last_change = now
      BY <1>4 DEF RtInv, commit, cart_runtime
    <2>2. hold # 0 => t.manual_hold_active /\ t.manual_hold_until = add_saturating(now, hold)
      BY DEF RtInv, commit, cart_runtime
    <2>3. RtInv(t, now)
      BY <1>2, <1>3, <2>1 DEF RtInv
    <2>4. hold # 0 => \/ t.manual_hold_until >= Max
                      \/ t.manual_hold_until >= now + hold
      BY <2>2, RuntimeAssumption DEF add_saturating
    <2> QED
      BY <1>3, <1>4, <2>1, <2>2, <2>3, <2>4
  <1>5. CASE m = r.scene_index
    <2>1. t.had_change = r.had_change /\ t.last_change = r.last_change
      BY <1>5 DEF RtInv, commit, cart_runtime
    <2>2. hold # 0 => t.manual_hold_active /\ t.manual_hold_until = add_saturating(now, hold)
      BY DEF RtInv, commit, cart_runtime
    <2>3. t.had_change => t.last_change <= now
      BY <2>1 DEF RtInv
    <2>4. RtInv(t, now)
      BY <1>2, <1>3, <2>3 DEF RtInv
    <2>5. hold # 0 => \/ t.manual_hold_until >= Max
                      \/ t.manual_hold_until >= now + hold
      BY <2>2, RuntimeAssumption DEF add_saturating
    <2> QED
      BY <1>3, <1>5, <2>1, <2>2, <2>4, <2>5
  <1> QED
    BY <1>4, <1>5

(***************************************************************************)
(* Both requests are a refusal, which changes nothing, or a commit.         *)
(***************************************************************************)
LEMMA RequestIsCommit ==
  ASSUME NEW r, NEW now \in Nat, RtInv(r, now), NEW hold \in Nat,
         NEW t, \/ t = cart_runtime_request_next(r, now, hold)
                \/ t = cart_runtime_request_previous(r, now, hold)
  PROVE  \/ ~change_allowed(r, now) /\ t = r
         \/ change_allowed(r, now) /\ \E m \in Scenes : t = commit(r, now, hold, m)
  <1>1. (r.scene_index + 1) % SceneCount \in Scenes
    BY SceneArithmetic DEF RtInv, cart_runtime, Scenes
  <1>2. (r.scene_index + SceneCount - 1) % SceneCount \in Scenes
    <2>1. r.scene_index + SceneCount - 1 \in Nat
      BY RuntimeAssumption DEF RtInv, cart_runtime, Scenes
    <2> QED
      BY <2>1, SceneArithmetic
  <1> QED
    BY <1>1, <1>2 DEF cart_runtime_request_next, cart_runtime_request_previous
=============================================================================
