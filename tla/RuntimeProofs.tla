--------------------------- MODULE RuntimeProofs ---------------------------
(***************************************************************************)
(* Proofs about cart/src/runtime.c under any sequence of calls, for every   *)
(* number of scenes, every period, every cooldown and every width of the    *)
(* clock: the inductive invariant of RuntimeApi and what follows from it.   *)
(***************************************************************************)
EXTENDS RuntimeApi, RuntimeLemmas

----------------------------------------------------------------------------
(***************************************************************************)
(* The inductive invariant of the API: the runtime is well formed, the      *)
(* guard's record of the last change is the truth, and a pinned scene is    *)
(* held at least as long as it was asked for.                               *)
(***************************************************************************)
GuardKnows ==
  last_cut # NoCut => rt.had_change /\ rt.last_change = last_cut

PinHeld ==
  clock < pinned_until /\ clock < Max
    => /\ rt.manual_hold_active
       /\ rt.manual_hold_until >= pinned_until \/ rt.manual_hold_until >= Max

IInv ==
  /\ TypeOK
  /\ RtInv(rt, clock)
  /\ GuardKnows
  /\ PinHeld
  /\ SleepBounded
  /\ ExhaustedOnlyAtEnd

(***************************************************************************)
(* The invariant holds after cart_runtime_init.                             *)
(***************************************************************************)
LEMMA InitIInv == Init => IInv
  <1> SUFFICES ASSUME Init PROVE IInv
    OBVIOUS
  <1>1. rt \in cart_runtime
    BY RuntimeAssumption DEF Init, RuntimeInit, cart_runtime, Scenes
  <1>2. TypeOK
    BY <1>1, RuntimeAssumption DEF Init, TypeOK
  <1>3. RtInv(rt, clock)
    BY <1>1, RuntimeAssumption DEF Init, RtInv, RuntimeInit
  <1>4. GuardKnows /\ PinHeld
    BY RuntimeAssumption DEF Init, GuardKnows, PinHeld
  <1>5. SleepBounded /\ ExhaustedOnlyAtEnd
    BY RuntimeAssumption DEF Init, RuntimeInit, SleepBounded, ExhaustedOnlyAtEnd
  <1> QED
    BY <1>2, <1>3, <1>4, <1>5 DEF IInv

(***************************************************************************)
(* Time passing preserves it: every bound on the runtime is an upper bound. *)
(***************************************************************************)
LEMMA AdvanceClockIInv == IInv /\ AdvanceClock => IInv'
  <1> SUFFICES ASSUME IInv, AdvanceClock PROVE IInv'
    OBVIOUS
  <1>1. PICK d \in Steps :
          /\ clock + d <= Max
          /\ clock' = clock + d
          /\ UNCHANGED <<rt, status, last_cut, pinned_until>>
    BY DEF AdvanceClock
  <1>2. d \in Nat \ {0} /\ clock \in Nat /\ Origin \in Nat /\ Max \in Nat
           /\ FramePeriod \in Nat
    BY ApiAssumption, RuntimeAssumption DEF IInv, TypeOK
  <1>3. TypeOK'
    BY <1>1, <1>2 DEF IInv, TypeOK
  <1>4. RtInv(rt, clock)'
    BY <1>1, <1>2 DEF IInv, RtInv, cart_runtime
  <1>5. GuardKnows' /\ SleepBounded'
    BY <1>1 DEF IInv, GuardKnows, SleepBounded
  <1>6. PinHeld'
    BY <1>1, <1>2 DEF IInv, TypeOK, PinHeld
  <1>7. ExhaustedOnlyAtEnd'
    BY <1>1, <1>2 DEF IInv, ExhaustedOnlyAtEnd
  <1> QED
    BY <1>3, <1>4, <1>5, <1>6, <1>7 DEF IInv

(***************************************************************************)
(* A tick, also one that reports exhaustion, keeps the invariant.           *)
(***************************************************************************)
LEMMA TickIInv == IInv /\ Tick => IInv'
  <1> SUFFICES ASSUME IInv, Tick PROVE IInv'
    OBVIOUS
  <1>1. /\ clock \in Nat /\ clock >= Origin /\ clock <= Max
        /\ Origin \in Nat /\ Max \in Nat /\ FramePeriod \in Nat
    BY RuntimeAssumption DEF IInv, TypeOK
  <1>2. /\ RtInv(rt', clock)
        /\ tick_fails(rt, clock) => clock > Max - FramePeriod
        /\ ~tick_fails(rt, clock) => rt'.sleep \in 1 .. FramePeriod
        /\ rt'.scene_index # rt.scene_index
             => rt'.had_change /\ rt'.last_change = clock
        /\ rt'.scene_index = rt.scene_index
             => rt'.had_change = rt.had_change /\ rt'.last_change = rt.last_change
        /\ held(rt, clock) => /\ rt'.manual_hold_active
                              /\ rt'.manual_hold_until = rt.manual_hold_until
    BY <1>1, TickFacts DEF IInv, Tick
  <1>3. TypeOK'
    BY <1>1, <1>2 DEF IInv, TypeOK, Tick, Observe, RtInv
  <1>4. RtInv(rt, clock)'
    BY <1>2 DEF Tick
  <1>5. GuardKnows'
    <2>1. CASE rt'.scene_index # rt.scene_index
      BY <1>2, <2>1 DEF GuardKnows, Tick, Observe
    <2>2. CASE rt'.scene_index = rt.scene_index
      BY <1>2, <2>2 DEF IInv, GuardKnows, Tick, Observe
    <2> QED
      BY <2>1, <2>2
  <1>6. PinHeld'
    <2> SUFFICES ASSUME clock < pinned_until, clock < Max
                 PROVE  /\ rt'.manual_hold_active
                        /\ \/ rt'.manual_hold_until >= pinned_until
                           \/ rt'.manual_hold_until >= Max
      BY DEF PinHeld, Tick
    <2>1. /\ rt.manual_hold_active
          /\ rt.manual_hold_until >= pinned_until \/ rt.manual_hold_until >= Max
      BY DEF IInv, PinHeld
    <2>2. held(rt, clock)
      BY <1>1, <2>1 DEF held, IInv, TypeOK, cart_runtime
    <2> QED
      BY <1>2, <2>1, <2>2
  <1>7. SleepBounded' /\ ExhaustedOnlyAtEnd'
    BY <1>2 DEF Tick, SleepBounded, ExhaustedOnlyAtEnd
  <1> QED
    BY <1>3, <1>4, <1>5, <1>6, <1>7 DEF IInv

\* A request, next or previous, with the observers that go with it.
Request(hold) ==
  /\ status = "ok"
  /\ \/ rt' = cart_runtime_request_next(rt, clock, hold)
     \/ rt' = cart_runtime_request_previous(rt, clock, hold)
  /\ Observe
  /\ Pin(hold)
  /\ UNCHANGED <<clock, status>>

(***************************************************************************)
(* A request for another scene, granted or refused, keeps the invariant.    *)
(***************************************************************************)
LEMMA RequestIInv ==
  ASSUME IInv, NEW hold \in Holds, Request(hold)
  PROVE  IInv'
  <1>1. /\ clock \in Nat /\ clock <= Max /\ hold \in Nat
        /\ Origin \in Nat /\ Max \in Nat /\ FramePeriod \in Nat
    BY RuntimeAssumption, ApiAssumption DEF IInv, TypeOK
  <1>2. \/ ~change_allowed(rt, clock) /\ rt' = rt
        \/ change_allowed(rt, clock) /\ \E m \in Scenes : rt' = commit(rt, clock, hold, m)
    BY <1>1, RequestIsCommit DEF Request, IInv
  <1>3. CASE ~change_allowed(rt, clock)
    <2>1. UNCHANGED vars
      BY <1>2, <1>3 DEF Request, Observe, Pin, vars
    <2> QED
      BY <2>1 DEF IInv, TypeOK, vars, GuardKnows, PinHeld, SleepBounded, ExhaustedOnlyAtEnd
  <1>4. CASE change_allowed(rt, clock)
    <2>1. PICK m \in Scenes : rt' = commit(rt, clock, hold, m)
      BY <1>2, <1>4
    <2>2. /\ RtInv(rt', clock)
          /\ rt'.sleep = rt.sleep
          /\ rt'.scene_index # rt.scene_index => rt'.had_change /\ rt'.last_change = clock
          /\ rt'.scene_index = rt.scene_index
               => rt'.had_change = rt.had_change /\ rt'.last_change = rt.last_change
          /\ hold # 0 => /\ rt'.manual_hold_active
                         /\ \/ rt'.manual_hold_until >= Max
                            \/ rt'.manual_hold_until >= clock + hold
      BY <1>1, <2>1, CommitFacts DEF IInv
    <2>3. pinned_until' = IF hold = 0 THEN 0 ELSE clock + hold
      BY <1>4 DEF Request, Pin
    <2>4. TypeOK'
      BY <1>1, <2>2, <2>3 DEF IInv, TypeOK, Request, Observe, RtInv
    <2>5. RtInv(rt, clock)'
      BY <2>2 DEF Request
    <2>6. GuardKnows'
      <3>1. CASE rt'.scene_index # rt.scene_index
        BY <2>2, <3>1 DEF GuardKnows, Request, Observe
      <3>2. CASE rt'.scene_index = rt.scene_index
        BY <2>2, <3>2 DEF IInv, GuardKnows, Request, Observe
      <3> QED
        BY <3>1, <3>2
    <2>7. PinHeld'
      BY <1>1, <2>2, <2>3 DEF PinHeld, Request
    <2>8. SleepBounded' /\ ExhaustedOnlyAtEnd'
      BY <2>2 DEF IInv, Request, SleepBounded, ExhaustedOnlyAtEnd
    <2> QED
      BY <2>4, <2>5, <2>6, <2>7, <2>8 DEF IInv
  <1> QED
    BY <1>3, <1>4

(***************************************************************************)
(* The invariant is inductive, and holds of every behaviour of the API.     *)
(***************************************************************************)
THEOREM RuntimeInvariant == Spec => []IInv
  <1>1. IInv /\ [Next]_vars => IInv'
    <2> SUFFICES ASSUME IInv, [Next]_vars PROVE IInv'
      OBVIOUS
    <2>1. CASE AdvanceClock
      BY <2>1, AdvanceClockIInv
    <2>2. CASE Tick
      BY <2>2, TickIInv
    <2>3. CASE RequestNext \/ RequestPrevious
      <3>1. PICK hold \in Holds : Request(hold)
        BY <2>3 DEF RequestNext, RequestPrevious, Request
      <3> QED
        BY <3>1, RequestIInv
    <2>4. CASE UNCHANGED vars
      BY <2>4 DEF IInv, TypeOK, vars, GuardKnows, PinHeld, SleepBounded, ExhaustedOnlyAtEnd
    <2> QED
      BY <2>1, <2>2, <2>3, <2>4 DEF Next
  <1> QED
    BY InitIInv, <1>1, PTL DEF Spec

(***************************************************************************)
(* Type correctness of the runtime: no entry point leaves the scene table   *)
(* or the clock's range, for every number of scenes.                        *)
(***************************************************************************)
THEOREM RuntimeTypeCorrect == Spec => []TypeOK
  BY RuntimeInvariant, PTL DEF IInv

(***************************************************************************)
(* The sleep a successful tick asks for is positive and at most one frame.  *)
(***************************************************************************)
THEOREM SleepIsBounded == Spec => []SleepBounded
  BY RuntimeInvariant, PTL DEF IInv

(***************************************************************************)
(* The scheduler gives up only in the last frame of the clock's range.      *)
(***************************************************************************)
THEOREM ExhaustionIsTheEnd == Spec => []ExhaustedOnlyAtEnd
  BY RuntimeInvariant, PTL DEF IInv

(***************************************************************************)
(* The photosensitivity guard: two changes of the scene are at least        *)
(* MinChange apart, whoever asks for them.                                  *)
(***************************************************************************)
THEOREM CutsAreSpaced == Spec => CutsSpaced
  <1>1. IInv /\ [Next]_vars
          => [rt'.scene_index # rt.scene_index /\ last_cut # NoCut
                => clock - last_cut >= MinChange]_vars
    <2> SUFFICES ASSUME IInv, Next, rt'.scene_index # rt.scene_index, last_cut # NoCut
                 PROVE  clock - last_cut >= MinChange
      OBVIOUS
    <2>1. change_allowed(rt, clock)
      <3>1. CASE AdvanceClock
        BY <3>1 DEF AdvanceClock
      <3>2. CASE Tick
        BY <3>2, TickFacts, RuntimeAssumption DEF IInv, TypeOK, Tick
      <3>3. CASE RequestNext
        BY <3>3 DEF RequestNext, cart_runtime_request_next
      <3>4. CASE RequestPrevious
        BY <3>4 DEF RequestPrevious, cart_runtime_request_previous
      <3> QED
        BY <3>1, <3>2, <3>3, <3>4 DEF Next
    <2>2. rt.had_change /\ rt.last_change = last_cut /\ last_cut <= clock
      BY DEF IInv, GuardKnows, RtInv
    <2> QED
      BY <2>1, <2>2, RuntimeAssumption DEF change_allowed, IInv, TypeOK
  <1> QED
    BY RuntimeInvariant, <1>1, PTL DEF Spec, CutsSpaced

(***************************************************************************)
(* A scene picked by hand is kept by every tick until its hold has run out. *)
(***************************************************************************)
THEOREM HoldIsKept == Spec => HoldKept
  <1>1. IInv => [Tick /\ clock < pinned_until /\ clock < Max
                   => rt'.scene_index = rt.scene_index]_vars
    <2> SUFFICES ASSUME IInv, Tick, clock < pinned_until, clock < Max
                 PROVE  rt'.scene_index = rt.scene_index
      OBVIOUS
    <2>1. /\ rt.manual_hold_active
          /\ rt.manual_hold_until >= pinned_until \/ rt.manual_hold_until >= Max
      BY DEF IInv, PinHeld
    <2>2. held(rt, clock)
      BY <2>1, RuntimeAssumption DEF held, IInv, TypeOK, cart_runtime
    <2> QED
      BY <2>2, TickFacts, RuntimeAssumption DEF IInv, TypeOK, Tick
  <1> QED
    BY RuntimeInvariant, <1>1, PTL DEF HoldKept

(***************************************************************************)
(* A multiple of the period is on the grid ...                              *)
(***************************************************************************)
LEMMA MultipleOf ==
  ASSUME NEW period \in Nat \ {0}, NEW k \in Int
  PROVE  (period * k) % period = 0
  OBVIOUS

(***************************************************************************)
(* ... and one more period keeps a time on the grid.                        *)
(***************************************************************************)
LEMMA GridStep ==
  ASSUME NEW period \in Nat \ {0}, NEW x \in Int, x % period = 0
  PROVE  (x + period) % period = 0
  <1> DEFINE k == x \div period
  <1>1. x = period * k /\ k \in Int
    BY SMT
  <1> HIDE DEF k
  <1>2. x + period = period * (k + 1) /\ k + 1 \in Int
    BY <1>1, SMT
  <1> QED
    BY <1>2, MultipleOf

(***************************************************************************)
(* A lateness of a period or more counts at least one dropped deadline, so  *)
(* a tick that counts none leaves the deadline or moves it by one period.   *)
(***************************************************************************)
LEMMA TickKeepsGrid ==
  ASSUME NEW r, NEW now \in Nat, now >= Origin, RtInv(r, now),
         NEW t, t = cart_runtime_tick(r, now), t.dropped_deadlines = 0
  PROVE  /\ r.dropped_deadlines = 0
         /\ \/ t.next_deadline = r.next_deadline
            \/ t.next_deadline = r.next_deadline + FramePeriod
  <1> DEFINE s == TickScene(r, now)
  <1>1. clamp(now) = now
    BY RuntimeAssumption DEF clamp
  <1>2. /\ s \in cart_runtime
        /\ s.next_deadline = r.next_deadline
        /\ s.dropped_deadlines = r.dropped_deadlines
    <2>1. s \in cart_runtime /\ s.next_deadline = r.next_deadline
      BY TickSceneInv DEF RtInv
    <2>2. s.dropped_deadlines = r.dropped_deadlines
      BY DEF RtInv, TickScene, cart_runtime
    <2> QED
      BY <2>1, <2>2
  <1> HIDE DEF s
  <1>3. CASE tick_fails(r, now)
    BY <1>1, <1>2, <1>3 DEF cart_runtime_tick, s
  <1>4. CASE ~tick_fails(r, now)
    <2>1. t = TickDeadline(s, now)
      BY <1>1, <1>4 DEF cart_runtime_tick, s
    <2>2. /\ t.next_deadline = next_deadline(s, now)
          /\ t.dropped_deadlines
               = IF early(s, now) \/ late(s, now) < FramePeriod THEN s.dropped_deadlines
                 ELSE s.dropped_deadlines + late(s, now) \div FramePeriod
      BY <1>2, <2>1 DEF TickDeadline, cart_runtime
    <2>3. CASE early(s, now) \/ late(s, now) < FramePeriod
      BY <1>2, <2>2, <2>3 DEF next_deadline
    <2>4. CASE ~early(s, now) /\ ~(late(s, now) < FramePeriod)
      <3> DEFINE l == late(s, now)
                 q == l \div FramePeriod
      <3>1. l \in Nat /\ l >= FramePeriod /\ FramePeriod \in Nat \ {0}
        BY <1>2, <2>4, RuntimeAssumption DEF late, early, cart_runtime
      <3> HIDE DEF l
      <3>2. q \in Nat /\ q # 0
        BY <3>1, SMT
      <3>3. s.dropped_deadlines \in Nat
        BY <1>2 DEF cart_runtime
      <3>4. t.dropped_deadlines = s.dropped_deadlines + q
        BY <2>2, <2>4 DEF l
      <3> HIDE DEF q
      <3> QED
        BY <3>2, <3>3, <3>4
    <2> QED
      BY <2>3, <2>4
  <1> QED
    BY <1>3, <1>4

(***************************************************************************)
(* Lateness below one period does not shift the cadence, however often it   *)
(* occurs: as long as no deadline has been dropped, deadlines stay on the   *)
(* grid laid at init.  (A dropped one starts a new grid at now + period,    *)
(* runtime.c:99, of which nothing is said.)                                 *)
(***************************************************************************)
THEOREM CadenceIsOnGrid == Spec => []OnGrid
  <1>1. Init => OnGrid
    <2> SUFFICES ASSUME Init PROVE (rt.next_deadline - Origin) % FramePeriod = 0
      BY DEF OnGrid
    <2>1. rt.next_deadline - Origin = FramePeriod * 1
      BY RuntimeAssumption DEF Init, RuntimeInit
    <2> QED
      BY <2>1, RuntimeAssumption, MultipleOf
  <1>2. IInv /\ OnGrid /\ [Next]_vars => OnGrid'
    <2> SUFFICES ASSUME IInv, OnGrid, [Next]_vars, rt'.dropped_deadlines = 0
                 PROVE  (rt'.next_deadline - Origin) % FramePeriod = 0
      BY DEF OnGrid
    <2>1. /\ clock \in Nat /\ clock >= Origin /\ rt.next_deadline \in Nat
          /\ Origin \in Nat /\ FramePeriod \in Nat \ {0}
      BY RuntimeAssumption DEF IInv, TypeOK, cart_runtime
    <2>2. /\ rt.dropped_deadlines = 0
          /\ \/ rt'.next_deadline = rt.next_deadline
             \/ rt'.next_deadline = rt.next_deadline + FramePeriod
      <3>1. CASE Tick
        BY <2>1, <3>1, TickKeepsGrid DEF IInv, Tick
      <3>2. CASE RequestNext \/ RequestPrevious
        <4>1. PICK hold \in Holds : Request(hold)
          BY <3>2 DEF RequestNext, RequestPrevious, Request
        <4>2. rt' = rt \/ \E m \in Scenes : rt' = commit(rt, clock, hold, m)
          BY <2>1, <4>1, RequestIsCommit, ApiAssumption DEF Request, IInv
        <4> QED
          BY <4>2 DEF commit, IInv, TypeOK, cart_runtime
      <3>3. CASE AdvanceClock \/ UNCHANGED vars
        BY <3>3 DEF AdvanceClock, vars
      <3> QED
        BY <3>1, <3>2, <3>3 DEF Next
    <2>3. (rt.next_deadline - Origin) % FramePeriod = 0
      BY <2>2 DEF OnGrid
    <2>4. CASE rt'.next_deadline = rt.next_deadline
      BY <2>3, <2>4
    <2>5. CASE rt'.next_deadline = rt.next_deadline + FramePeriod
      <3> DEFINE x == rt.next_deadline - Origin
      <3>1. x \in Int /\ rt'.next_deadline - Origin = x + FramePeriod
        BY <2>1, <2>5
      <3>2. x % FramePeriod = 0
        BY <2>3
      <3> HIDE DEF x
      <3> QED
        BY <2>1, <3>1, <3>2, GridStep
    <2> QED
      BY <2>2, <2>4, <2>5
  <1> QED
    BY RuntimeInvariant, <1>1, <1>2, PTL DEF Spec
=============================================================================
