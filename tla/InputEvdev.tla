----------------------------- MODULE InputEvdev -----------------------------
(***************************************************************************)
(* cart/src/input_evdev.c: up to MaxSources evdev devices behind one poll.  *)
(*                                                                          *)
(* Discovery is one action; a poll is taken apart into its reads and the    *)
(* events it consumes, because the devices go on while it runs: keys are    *)
(* pressed, queues overflow, devices go away and come back.  The kernel's   *)
(* side (one queue per open descriptor, SYN_DROPPED when it overflows) is   *)
(* modelled as far as the code relies on it.  A device has at most one axis  *)
(* (the eight slots are treated alike).  A read returns whole events, and   *)
(* only events up to the last SYN_REPORT in the queue, as mainline evdev    *)
(* does, but no more of them than the buffer of the source has room for.    *)
(***************************************************************************)
EXTENDS Integers, Sequences, FiniteSets, FiniteSetsExt, InputNormalize

CONSTANTS
  Devices,      \* the numbers N of the nodes eventN that pass classification
  Rank,         \* what classify_source says of each of them, 1 .. 4
  Keys,         \* the keys of the devices
  KeysOf,       \* which of them each device has
  AxisDevices,  \* the devices whose axis can be read
  Axis,         \* min, max and flat of it, as EVIOCGABS reports them
  Positions,    \* where an axis may be
  LowKeys,      \* those with a code below 64, which have a bit in held_keys
  KeyAction,    \* what cart_input_map_key says of each of them
  MaxSources,   \* CART_INPUT_MAX_SOURCES
  CandidateCap, \* CANDIDATE_CAP
  BufCap,       \* how many events fit into the buffer of a source
  QueueCap,     \* how many events the kernel queues for one descriptor
  MaxKeys, MaxPlugs, MaxRescans  \* bounds on the environment

ASSUME InputAssumption ==
  /\ Devices \subseteq Nat /\ IsFiniteSet(Devices)
  /\ Rank \in [Devices -> 1 .. 4]
  /\ LowKeys \subseteq Keys /\ KeysOf \in [Devices -> SUBSET Keys]
  /\ AxisDevices \subseteq Devices /\ Axis \in [Devices -> [min : Int, max : Int, flat : Nat]]
  /\ Positions \subseteq Int /\ Positions # {}
  /\ KeyAction \in [Keys -> {"NONE", "NEXT", "PREVIOUS", "SELECT", "BACK", "MENU", "QUIT"}]
  /\ MaxSources \in Nat \ {0} /\ CandidateCap \in Nat \ {0}
  /\ BufCap \in Nat \ {0} /\ QueueCap \in Nat /\ QueueCap >= 3
  /\ MaxKeys \in Nat /\ MaxPlugs \in Nat /\ MaxRescans \in Nat

Slots   == 0 .. MaxSources - 1
NoNode  == -1
Pending == 2 * MaxSources  \* sizeof pending.item

VARIABLES
  pc,       \* "new", "idle", "walk" and "pump" inside a poll, "closed"
  cur,      \* the slot a poll has come to
  source, partial, pending,
  action    \* what the last poll returned

\* The devices: which are plugged in, which keys are down, where the axes are,
\* which owe a SYN_REPORT, the queue of each slot's descriptor and whether it
\* is dead.
VARIABLES attached, down, pos, unreported, queue, dead

\* What happened so far: the presses that were queued for a descriptor and have
\* an action, the actions the polls returned, whether a press may have been
\* lost on the way, the slots whose key state was read while later events of
\* the slot were still in its buffer, and the keys of each slot that were down
\* when it was opened and have not been heard of since.
VARIABLES presses, taken, lossy, raced, early

\* How much of the environment's bounds is used up.
VARIABLES keys_used, plugs_used, rescans_used

input_vars  == <<source, partial, pending, action>>
device_vars == <<attached, down, pos, unreported>>
ghost_vars  == <<presses, taken, lossy, raced, early>>
bound_vars  == <<keys_used, plugs_used, rescans_used>>
vars == <<pc, cur, input_vars, device_vars, queue, dead, ghost_vars, bound_vars>>

Events == [type : {"KEY"}, key : Keys, value : 0 .. 2] \cup [type : {"DROPPED", "REPORT"}]
          \cup [type : {"ABS"}, value : Positions]
Dropped == [type |-> "DROPPED"]
Report  == [type |-> "REPORT"]

cart_input_source ==
  [node : Devices \cup {NoNode}, state : {"ABSENT", "CONNECTED", "DESYNC"},
   held : SUBSET LowKeys, generation : Nat,
   axis : [min : Int, max : Int, deadzone_pct : Int], axis_valid : BOOLEAN, raw : Int]

\* reset_source; fd is -1 exactly when the node is NoNode.
reset_source ==
  [node |-> NoNode, state |-> "ABSENT", held |-> {}, generation |-> 0,
   axis |-> cart_input_axis_range(0, 0, 0), axis_valid |-> FALSE, raw |-> 0]

slot_empty(s) == source[s].node = NoNode

TypeOK ==
  /\ pc \in {"new", "idle", "walk", "pump", "closed"}
  /\ cur \in 0 .. MaxSources
  /\ source \in [Slots -> cart_input_source]
  /\ \A s \in Slots : slot_empty(s) <=> source[s].state = "ABSENT"
  /\ partial \in [Slots -> Seq(Events)] /\ \A s \in Slots : Len(partial[s]) <= BufCap
  /\ pending \in Seq({KeyAction[k] : k \in Keys} \ {"NONE"}) /\ Len(pending) <= Pending
  /\ action \in {KeyAction[k] : k \in Keys} \cup {"NONE"}
  /\ attached \subseteq Devices /\ unreported \subseteq Devices
  /\ down \in [Devices -> SUBSET Keys] /\ pos \in [Devices -> Positions]
  /\ queue \in [Slots -> Seq(Events)] /\ \A s \in Slots : Len(queue[s]) <= QueueCap
  /\ dead \in [Slots -> BOOLEAN]
  /\ presses \in Nat /\ taken \in Nat /\ lossy \in BOOLEAN /\ raced \subseteq Slots
  /\ early \in [Slots -> SUBSET Keys]

Init ==
  /\ pc = "new" /\ cur = 0
  /\ source = [s \in Slots |-> reset_source]
  /\ partial = [s \in Slots |-> <<>>]
  /\ pending = <<>> /\ action = "NONE"
  /\ attached = Devices /\ unreported = {}
  /\ down = [d \in Devices |-> {}] /\ pos \in [Devices -> {CHOOSE v \in Positions : TRUE}]
  /\ queue = [s \in Slots |-> <<>>]
  /\ dead = [s \in Slots |-> FALSE]
  /\ presses = 0 /\ taken = 0 /\ lossy = FALSE /\ raced = {}
  /\ early = [s \in Slots |-> {}]
  /\ keys_used = 0 /\ plugs_used = 0 /\ rescans_used = 0

----------------------------------------------------------------------------
(* The devices *)

\* What the kernel queues when an event finds the queue full: the oldest
\* events are gone, SYN_DROPPED says so, the new event is kept.
Enqueued(q, e) == IF Len(q) < QueueCap THEN Append(q, e) ELSE <<Dropped, e>>

listens(s, d) == source[s].node = d /\ ~dead[s]
heard(d) == \E s \in Slots : listens(s, d)

Deliver(d, e) ==
  /\ queue' = [s \in Slots |-> IF listens(s, d) THEN Enqueued(queue[s], e) ELSE queue[s]]
  /\ lossy' = (lossy \/ \E s \in Slots : listens(s, d) /\ Len(queue[s]) = QueueCap)

\* A key goes down or up; the driver reports it and owes a SYN_REPORT.
DeviceKey(d, k) ==
  /\ d \in attached /\ d \notin unreported /\ k \in KeysOf[d]
  /\ keys_used < MaxKeys /\ keys_used' = keys_used + 1
  /\ down' = [down EXCEPT ![d] = IF k \in @ THEN @ \ {k} ELSE @ \cup {k}]
  /\ Deliver(d, [type |-> "KEY", key |-> k, value |-> IF k \in down[d] THEN 0 ELSE 1])
  /\ unreported' = unreported \cup {d}
  /\ presses' = presses + IF k \notin down[d] /\ KeyAction[k] # "NONE" /\ heard(d) THEN 1 ELSE 0
  /\ UNCHANGED <<pc, cur, input_vars, attached, pos, dead, taken, raced, early, plugs_used,
                 rescans_used>>

\* The axis moves.
DeviceAbs(d, v) ==
  /\ d \in attached /\ d \in AxisDevices /\ d \notin unreported /\ v # pos[d]
  /\ keys_used < MaxKeys /\ keys_used' = keys_used + 1
  /\ pos' = [pos EXCEPT ![d] = v]
  /\ Deliver(d, [type |-> "ABS", value |-> v])
  /\ unreported' = unreported \cup {d}
  /\ UNCHANGED <<pc, cur, input_vars, attached, down, dead, presses, taken, raced, early,
                 plugs_used, rescans_used>>

\* A key that is down repeats.
DeviceRepeat(d, k) ==
  /\ d \in attached /\ d \notin unreported /\ k \in down[d]
  /\ keys_used < MaxKeys /\ keys_used' = keys_used + 1
  /\ Deliver(d, [type |-> "KEY", key |-> k, value |-> 2])
  /\ unreported' = unreported \cup {d}
  /\ UNCHANGED <<pc, cur, input_vars, attached, down, pos, dead, presses, taken, raced, early,
                 plugs_used, rescans_used>>

DeviceReport(d) ==
  /\ d \in unreported
  /\ unreported' = unreported \ {d}
  /\ Deliver(d, Report)
  /\ UNCHANGED <<pc, cur, input_vars, attached, down, pos, dead, presses, taken, raced, early,
                 bound_vars>>

\* Unplugging kills every descriptor of the device.
DeviceRemoved(d) ==
  /\ d \in attached
  /\ plugs_used < MaxPlugs /\ plugs_used' = plugs_used + 1
  /\ attached' = attached \ {d} /\ unreported' = unreported \ {d}
  /\ down' = [down EXCEPT ![d] = {}]
  /\ dead' = [s \in Slots |-> dead[s] \/ source[s].node = d]
  /\ lossy' = TRUE
  /\ UNCHANGED <<pc, cur, input_vars, pos, queue, presses, taken, raced, early, keys_used,
                 rescans_used>>

DevicePlugged(d) ==
  /\ d \notin attached
  /\ attached' = attached \cup {d}
  /\ UNCHANGED <<pc, cur, input_vars, down, pos, unreported, queue, dead, ghost_vars, bound_vars>>

----------------------------------------------------------------------------
(* Discovery: discover_pass, _cart_input_plan *)

\* The elements of a finite set in the order that the pairs of R say: each one
\* comes after as many as precede it.
in_order(S, R) ==
  [i \in 1 .. Cardinality(S) |->
     CHOOSE x \in S : Cardinality({y \in S : <<y, x>> \in R}) = i - 1]

better(a, b) == Rank[a] > Rank[b] \/ (Rank[a] = Rank[b] /\ a < b)

_cart_input_plan(candidates) ==
  in_order(candidates, {p \in candidates \X candidates : better(p[1], p[2])})

\* The axis of a node: probe_snapshot_axes.
probe_snapshot_axes(d) ==
  IF d \in AxisDevices
  THEN [range |-> calibrated(Axis[d].min, Axis[d].max, Axis[d].flat), valid |-> TRUE, raw |-> pos[d]]
  ELSE [range |-> cart_input_axis_range(0, 0, 0), valid |-> FALSE, raw |-> 0]

connected(d) ==
  LET axis == probe_snapshot_axes(d)
  IN  [node |-> d, state |-> "CONNECTED", held |-> {}, generation |-> 1,
       axis |-> axis.range, axis_valid |-> axis.valid, raw |-> axis.raw]

\* The candidates fill the free slots from the lowest; what does not fit is
\* closed again.  before is the table the pass starts from.
discover_pass(before, candidates) ==
  LET plan == _cart_input_plan(candidates)
      free == {s \in Slots : before[s].node = NoNode}
      rank_of(s) == Cardinality({f \in free : f <= s})
      claims(s) == s \in free /\ rank_of(s) <= Len(plan)
  IN  /\ source' = [s \in Slots |-> IF claims(s) THEN connected(plan[rank_of(s)]) ELSE before[s]]
      /\ queue' = [s \in Slots |-> IF claims(s) THEN <<>> ELSE queue[s]]
      /\ dead' = [s \in Slots |-> dead[s] /\ ~claims(s)]
      /\ raced' = {s \in raced : ~claims(s)}
      /\ early' = [s \in Slots |-> IF claims(s) THEN down[plan[rank_of(s)]] ELSE early[s]]

\* The nodes of a pass: those that open, up to CandidateCap of them in the
\* order of the directory.
Found == {c \in SUBSET attached : Cardinality(c) <= CandidateCap}

cart_input_init ==
  /\ pc = "new"
  /\ \E candidates \in Found : discover_pass([s \in Slots |-> reset_source], candidates)
  /\ pc' = "idle"
  /\ UNCHANGED <<cur, partial, pending, action, device_vars, presses, taken, lossy, bound_vars>>

cart_input_rescan ==
  /\ pc = "idle"
  /\ rescans_used < MaxRescans /\ rescans_used' = rescans_used + 1
  /\ \E candidates \in Found : discover_pass(source, candidates)
  /\ UNCHANGED <<pc, cur, partial, pending, action, device_vars, presses, taken, lossy,
                 keys_used, plugs_used>>

cart_input_shutdown ==
  /\ pc = "idle" /\ pc' = "closed"
  /\ source' = [s \in Slots |-> reset_source]
  /\ pending' = <<>>
  /\ partial' = [s \in Slots |-> <<>>]
  /\ queue' = [s \in Slots |-> <<>>]
  /\ dead' = [s \in Slots |-> FALSE]
  /\ UNCHANGED <<cur, action, device_vars, ghost_vars, bound_vars>>

----------------------------------------------------------------------------
(* The poll *)

PollBegin ==
  /\ pc = "idle"
  /\ pc' = "walk" /\ cur' = 0
  /\ action' = "NONE"
  /\ UNCHANGED <<source, partial, pending, device_vars, queue, dead, ghost_vars, bound_vars>>

\* A slot the poll passes over, lines 701-704.
skipped(s) == slot_empty(s) \/ source[s].state = "DESYNC"

PollSkip ==
  /\ pc = "walk" /\ cur < MaxSources
  /\ skipped(cur)
  /\ cur' = cur + 1
  /\ UNCHANGED <<pc, input_vars, device_vars, queue, dead, ghost_vars, bound_vars>>

PollEnter ==
  /\ pc = "walk" /\ cur < MaxSources
  /\ ~skipped(cur)
  /\ pc' = "pump"
  /\ UNCHANGED <<cur, input_vars, device_vars, queue, dead, ghost_vars, bound_vars>>

\* The keys of a slot after a key event.
held_after(src, e) ==
  IF e.key \notin LowKeys THEN src.held
  ELSE IF e.value # 0 THEN src.held \cup {e.key} ELSE src.held \ {e.key}

\* A filter that lets a repeating key through (mutant).
emits_repeats(e) == e.value # 0 /\ KeyAction[e.key] # "NONE"

\* cart_input_key_emits_action and the filter of enqueue_action.
emits(e) == e.value = 1 /\ KeyAction[e.key] # "NONE"

\* A queue of one action (mutant).
enqueue_action_single(e) ==
  IF emits(e) /\ pending = <<>> THEN Append(pending, KeyAction[e.key]) ELSE pending

enqueue_action(e) ==
  IF emits(e) /\ Len(pending) < Pending THEN Append(pending, KeyAction[e.key]) ELSE pending

process_key_event(e) ==
  /\ source' = [source EXCEPT ![cur].held = held_after(source[cur], e)]
  /\ pending' = enqueue_action(e)
  /\ lossy' = (lossy \/ (emits(e) /\ Len(pending) = Pending))
  /\ early' = [early EXCEPT ![cur] = @ \ {e.key}]
  /\ UNCHANGED <<queue, raced>>

\* A resync that keeps the keys from before the overflow (mutant).
resync_after_desync_keeps_keys ==
  /\ source' = [source EXCEPT ![cur].state = "CONNECTED"]
  /\ UNCHANGED <<pending, queue, lossy, raced, early>>

\* An axis that stays as it was before the overflow (mutant).
raw_now_stale(s) == source[s].raw

\* The axis part of the resync.
raw_now(s) ==
  IF dead[s] \/ ~source[s].axis_valid THEN source[s].raw ELSE pos[source[s].node]

\* EVIOCGKEY: the kernel takes the key events it has still queued for the
\* descriptor out of the queue.
flushed(q) ==
  LET stay == {i \in 1 .. Len(q) : q[i].type # "KEY"}
      nth  == in_order(stay, {p \in stay \X stay : p[1] < p[2]})
  IN  [i \in 1 .. Cardinality(stay) |-> q[nth[i]]]

\* resync_after_desync: the keys that are down and the axes as they are now.
\* The ioctls fail on a dead descriptor.
resync_after_desync ==
  /\ source' = [source EXCEPT ![cur].state = "CONNECTED",
                              ![cur].held = IF dead[cur] THEN @
                                            ELSE down[source[cur].node] \cap LowKeys,
                              ![cur].raw = raw_now(cur)]
  /\ early' = IF dead[cur] THEN early ELSE [early EXCEPT ![cur] = {}]
  /\ queue' = IF dead[cur] THEN queue
              ELSE [queue EXCEPT ![cur] = flushed(@)]
  /\ raced' = IF Len(partial[cur]) > 1 THEN raced \cup {cur} ELSE raced \ {cur}
  /\ UNCHANGED <<pending, lossy>>

desync ==
  /\ source' = [source EXCEPT ![cur].state = "DESYNC"]
  /\ UNCHANGED <<pending, queue, lossy, raced, early>>

move(e) ==
  /\ source' = [source EXCEPT ![cur].raw = e.value]
  /\ UNCHANGED <<pending, queue, lossy, raced, early>>

\* An event that does not matter in the state the slot is in.
ignored(e, state) ==
  \/ e.type = "DROPPED" /\ state # "CONNECTED"
  \/ e.type = "REPORT" /\ state # "DESYNC"
  \/ e.type \in {"KEY", "ABS"} /\ state # "CONNECTED"

consume_event(e) ==
  LET state == source[cur].state IN
  \/ e.type = "DROPPED" /\ state = "CONNECTED" /\ desync
  \/ e.type = "REPORT" /\ state = "DESYNC" /\ resync_after_desync
  \/ e.type = "KEY" /\ state = "CONNECTED" /\ process_key_event(e)
  \/ e.type = "ABS" /\ state = "CONNECTED" /\ move(e)
  \/ ignored(e, state) /\ UNCHANGED <<source, pending, queue, lossy, raced, early>>

PumpConsume ==
  /\ pc = "pump" /\ partial[cur] # <<>>
  /\ consume_event(Head(partial[cur]))
  /\ partial' = [partial EXCEPT ![cur] = Tail(@)]
  /\ UNCHANGED <<pc, cur, action, device_vars, dead, presses, taken, bound_vars>>

\* How many of the queued events a read may return.
readable(q) == Max({0} \cup {i \in 1 .. Len(q) : q[i] = Report})

PumpRead ==
  /\ pc = "pump" /\ partial[cur] = <<>> /\ ~dead[cur]
  /\ LET n == Min({BufCap, readable(queue[cur])})
     IN  /\ n > 0
         /\ partial' = [partial EXCEPT ![cur] = SubSeq(queue[cur], 1, n)]
         /\ queue' = [queue EXCEPT ![cur] = SubSeq(@, n + 1, Len(@))]
  /\ UNCHANGED <<pc, cur, source, pending, action, device_vars, dead, ghost_vars, bound_vars>>

\* A pump that reads only once (mutant).
PumpAgainEarly ==
  /\ pc = "pump" /\ partial[cur] = <<>> /\ ~dead[cur]
  /\ pc' = "walk" /\ cur' = cur + 1
  /\ UNCHANGED <<input_vars, device_vars, queue, dead, ghost_vars, bound_vars>>

\* EAGAIN: on to the next slot.
PumpAgain ==
  /\ pc = "pump" /\ partial[cur] = <<>> /\ ~dead[cur]
  /\ readable(queue[cur]) = 0
  /\ pc' = "walk" /\ cur' = cur + 1
  /\ UNCHANGED <<input_vars, device_vars, queue, dead, ghost_vars, bound_vars>>

\* A disconnect that leaves the slot in the state it was in (mutant).
handle_disconnect_keeps_state(src) ==
  [src EXCEPT !.node = NoNode, !.generation = @ + 1, !.held = {},
              !.raw = 0]

handle_disconnect(src) ==
  [src EXCEPT !.node = NoNode, !.state = "ABSENT", !.generation = @ + 1, !.held = {}, !.raw = 0]

\* End of file or ENODEV: the slot is free again.
PumpHangup ==
  /\ pc = "pump" /\ partial[cur] = <<>> /\ dead[cur]
  /\ source' = [source EXCEPT ![cur] = handle_disconnect(@)]
  /\ partial' = [partial EXCEPT ![cur] = <<>>]
  /\ queue' = [queue EXCEPT ![cur] = <<>>]
  /\ dead' = [dead EXCEPT ![cur] = FALSE]
  /\ pc' = "walk" /\ cur' = cur + 1
  /\ UNCHANGED <<pending, action, device_vars, ghost_vars, bound_vars>>

\* The poll returns the oldest pending action.
PollEnd ==
  /\ pc = "walk" /\ cur = MaxSources
  /\ pc' = "idle" /\ cur' = 0
  /\ IF pending = <<>> THEN UNCHANGED <<pending, action, taken>>
     ELSE /\ action' = Head(pending) /\ pending' = Tail(pending)
          /\ taken' = taken + 1
  /\ UNCHANGED <<source, partial, device_vars, queue, dead, presses, lossy, raced, early,
                 bound_vars>>

\* The frame a poll hands out: the keys of all sources, and the axis of the
\* first source that has one in a range that makes sense.
normalized(s) == cart_input_axis_normalize(source[s].raw, source[s].axis)
present  == {s \in Slots : source[s].state # "ABSENT"}
claiming == {s \in present : source[s].axis_valid /\ normalized(s) # AXIS_INVALID}

build_frame ==
  LET owners == claiming
      owner  == IF owners = {} THEN MaxSources ELSE Min(owners)
  IN  [held_keys |-> UNION {source[s].held : s \in present},
       connected_mask |-> present,
       axis_present |-> owners # {},
       axis_owner |-> owner,
       axis |-> IF owners = {} THEN 0 ELSE normalized(owner)]

Closed == pc = "closed" /\ UNCHANGED vars

Poll == PollBegin \/ PollSkip \/ PollEnter \/ PumpConsume \/ PumpRead \/ PumpAgain
        \/ PumpHangup \/ PollEnd

Next ==
  \/ \E d \in Devices, v \in Positions : DeviceAbs(d, v)
  \/ \E d \in Devices, k \in Keys : DeviceKey(d, k) \/ DeviceRepeat(d, k)
  \/ \E d \in Devices : DeviceReport(d) \/ DeviceRemoved(d) \/ DevicePlugged(d)
  \/ cart_input_init \/ cart_input_rescan \/ cart_input_shutdown
  \/ Poll
  \/ Closed

\* The main loop polls once per frame until it shuts the input down, and a
\* driver that reported a key goes on to report the end of the packet.
Fairness == WF_vars(Poll) /\ \A d \in Devices : WF_vars(DeviceReport(d))

Spec == Init /\ [][Next]_vars /\ Fairness

----------------------------------------------------------------------------
(* Properties *)

drained(s) == queue[s] = <<>> /\ partial[s] = <<>> /\ ~dead[s] /\ source[s].node \notin unreported

\* held_keys is the truth once everything a device said has been read.  No key
\* that is up is kept: not after an overflow (the resync replaces the mask), not
\* after a reconnect.  No key that is down is missing.  The two exceptions the
\* code has are spelled out: a resync taken while later events of the slot sit
\* in its buffer, and keys that were down already when the node was opened.
HeldIsTheTruth ==
  \A s \in Slots : pc = "idle" /\ ~slot_empty(s) /\ drained(s) /\ s \notin raced =>
    LET keys == down[source[s].node] \cap LowKeys
    IN  source[s].held \subseteq keys /\ keys \ early[s] \subseteq source[s].held

\* The axis of a frame is where the stick of its owner is, once everything the
\* owner said has been read, whatever overflowed before; and until the first
\* rescan the owner is the source of the highest rank whose axis can be read
\* ("Lower source index == higher-or-equal rank").
FrameFollowsStick ==
  LET frame == build_frame IN
  pc = "idle" /\ frame.axis_present =>
    LET owner == frame.axis_owner
        node  == source[owner].node
    IN  /\ drained(owner) =>
             frame.axis = cart_input_axis_normalize(pos[node], source[owner].axis)
        /\ rescans_used = 0 => \A s \in claiming : Rank[source[s].node] <= Rank[node]

\* A poll that has read SYN_DROPPED goes on to read the SYN_REPORT after it,
\* so that the test at line 703 loses no source, except in one case: the queue
\* overflowed again while the poll was at it, and begins with the next
\* SYN_DROPPED.
DesyncOnlyAfterRelapse ==
  pc = "idle" => \A s \in Slots :
    source[s].state = "DESYNC" => queue[s] # <<>> /\ queue[s][1] = Dropped

\* The input in the states the two properties below speak of: each device open
\* at most once, nothing overflowed or unplugged.
lossless == ~lossy /\ rescans_used = 0

\* No action is made up or doubled, and none is left behind by a poll: when
\* all that was reported has been read, the presses are the actions returned
\* and the actions still queued.
EveryPressOnce ==
  /\ rescans_used = 0 /\ pc # "closed" => taken + Len(pending) <= presses
  /\ lossless /\ pc = "idle" /\ (\A s \in Slots : slot_empty(s) \/ drained(s))
       => taken + Len(pending) = presses

\* Every press comes out of some poll in the end, unless the input is shut
\* down: one action per poll is enough to empty the queue.
PressesArrive == <>[](lossless /\ pc # "closed" => taken = presses)

\* Line 704: "swallow until SYN_REPORT arrives"; the state machine of the
\* design has DESYNC --SYN_REPORT--> CONNECTED.
DesyncEnds == \A s \in Slots : source[s].state = "DESYNC" ~> source[s].state # "DESYNC"
=============================================================================
