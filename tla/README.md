# Verification of the PSTV demo cart and its controls

TLA+ modules, TLC configurations and TLAPS proofs for the parts of this
repository in which something can go wrong that a test would hardly reach: the
demo cart's scheduler and crossfade, its render threads, its input and its pixel
arithmetic, the program that steers it from outside, the scripts that hand the
framebuffer to it and back, the server that sends snapshots of the screen, and
the bridge that runs commands over the serial console.

- [The system](#the-system)
- [Modules and the code](#modules-and-the-code)
- [Runs](#runs)
- [Fairness](#fairness)
- [Proofs](#proofs)
- [What the checks found](#what-the-checks-found)
- [Not modelled](#not-modelled)
- [Plan](#plan)

Run a check inside this directory with `tlc -config X.cfg M`, a proof with
`tlapm M.tla`. `PROJECT.json` lists the runs, the lines every definition
translates, the hazards, and for every property a mutation of the code that it
detects.

## The system

The cart is one process that draws scenes on `/dev/fb0` of a PlayStation TV at
30 frames a second. Scenes follow each other by rotation, on `SIGUSR1` and on
keys and buttons; every change is a crossfade, and changes are rate limited,
because a measured flash rate made the first version unsafe for photosensitive
viewers (`cart/hardware/PHOTOSENSITIVITY.md`).

| Component | State it keeps | Operations | Talks to |
|---|---|---|---|
| Scheduler, `cart/src/runtime.c` | scene shown, manual hold, time of the last change, next deadline, sleep | `init`, `tick`, `request_next`, `request_previous` | called by the main loop, twice per frame |
| Crossfade, `cart/src/transition.c` | the two scenes, elapsed frames, whether the two sources are rendered | `begin`, `advance`, `blend`, `weight`, `mark_sources_rendered` | called by the main loop |
| Worker pool, `cart/src/worker_pool.c` | threads, startup gate (mutex and condition variable), two barriers, published job | `init`, `dispatch`, `shutdown`, `worker_main` | called by the main thread; workers run the scene's row function |
| Main loop, `cart/src/pstv-demo-cart.c` | two flags set by signal handlers, displayed scene, staging buffers | the frame loop | all of the above, the kernel's clock, signals, framebuffer |
| Evdev input, `cart/src/input_evdev.c`, `input_actions.c`, `input_normalize.c` | four sources (descriptor, state, held keys, axes), read buffers, queue of actions | `init`, `rescan`, `poll`, `shutdown` | kernel evdev queues; polled once per frame |
| `vita-control`, `toolkit/share/vita-control.c` | one number in a locked file of `/run` | `status`, `next` | the PID file, `/proc`, `SIGUSR1` to the cart |
| Start and stop scripts, `cart/scripts/` | saved frame, console mark and PID file in `/run` | start, its exit trap, stop | framebuffer, `vtcon1`, the cart process |
| Canvas, scenes, presentation: `canvas.c`, `scene_2d_legacy.c`, `presentation.c` | none but the pixels | shapes, colours, row loops, upscale | called by the workers and the main loop |
| `vita-fbserve`, `toolkit/share/vita-fbserve.c` | one client, its request buffer, one static copy of the screen | accept, receive, answer, close | HTTP clients, `/dev/fb0` while the cart draws |
| Serial tools, `vita_cmd.sh`, `serial-bridge.sh` | a FIFO, a temporary file, a log and its copy | run a command, relay, copy the log | the shell on the Vita's serial console |
| `vita-inputwatch`, `vita-bench`, toolkit scripts, build and boot files | none that another part reads, or files of their own | reports, captures, builds | – |

What is hard, and what makes each part correct:

- *Scheduler.* Any mix of ticks and requests, lateness from nothing to minutes,
  arithmetic at the end of 64 bits. Correct: changes are spaced by the cooldown
  in every path, holds are kept, a sleep is positive and at most one frame,
  lateness below a frame does not shift the cadence.
- *Worker pool.* Threads that start late, wake spuriously, or cannot be created;
  fields published without a lock; two reusable barriers. Correct: a dispatch
  renders every row once and returns; nothing is destroyed while in use; every
  call returns.
- *Main loop and crossfade.* Signals between any two statements, sleeps cut
  short, frames that take too long, scene changes during a fade. Correct: two
  consecutive pictures are the same or neighbouring steps of one fade, and a
  fade does not run faster than the frame rate.
- *Input.* Kernel queues that overflow while they are read, devices that come
  and go, several events per read. Correct: each press gives one action, no key
  stays held, a source recovers from an overflow.
- *vita-control.* Concurrent calls, a lock taken after the clock was read, a
  process that exits between validation and signal. Correct: accepted calls are
  spaced, the signal goes to the cart, no call blocks for ever.
- *Pixels and axes.* Clipping at every edge, sizes whose product wraps, 32-bit
  spans, rounding. Correct: what was asked for is drawn, inside the buffer and
  at the right place of the screen; a fade moves gently; an axis is monotone.
- *vita-fbserve.* Requests in pieces, at the limit of the buffer, broken off;
  reads that fail halfway into a buffer that is reused. Correct: each client gets
  the reply to its own request, no stale frame is sent, nobody is kept out by a
  client that went away. (One that stays and does nothing does keep others out.)
- *Serial tools.* A tunnel that fails after delivering, a retry, callers that
  overlap, a prompt as the only sign of the end. Correct: an undisturbed caller
  gets its own output, a command is not run more often than the retry allows,
  callers end.
- *Scripts.* Commands that fail, scripts that are killed, a renderer that dies
  or does not stop. Correct: what start took away, stop gives back, and the
  means to do so are never lost.

## Modules and the code

| Module | Models | Shape |
|---|---|---|
| `Runtime` | `runtime.c` | operators on a `cart_runtime` record; `Max` stands for `UINT64_MAX` |
| `RuntimeApi` | a caller of `runtime.c` | state machine: the three entry points in any order, times that do not go back |
| `WorkerPool` | `worker_pool.c` | one `pc` per thread; one action per critical section, barrier arrival and barrier release |
| `ParallelFor` | the contract in `worker_pool.h` | abstract specification, refined by `WorkerPool` |
| `Transition` | `transition.c` | operators on a `cart_transition` record |
| `DemoCart` | the loop of `pstv-demo-cart.c` | composes `Runtime` and `Transition`; one action per block of the loop body |
| `InputEvdev` | `input_evdev.c`, the press filter of `input_actions.c` | a poll taken apart into reads and consumed events, interleaved with the devices |
| `VitaControl` | `vita-control next` | any number of calls, one action per system call whose order matters |
| `FbOwnership` | `start-demo-cart.sh`, `stop-demo-cart.sh` | one action per command that changes something; commands fail, kills fall in or between any two |
| `Canvas` | `canvas.c`, the shapes and row loops of `scene_2d_legacy.c`, `presentation.c`, `build_bitmap` of `vita-fbserve.c` | operators: a drawing is the set of points it writes, an image the set of offsets that have the colour |
| `InputNormalize` | `input_normalize.c`, the calibration in `input_evdev.c` | operators with wrapping 32-bit arithmetic; used by `InputEvdev` and `Kernels` |
| `Kernels` | calls of the operators of `Canvas`, `InputNormalize`, `Transition` | one call at a time, compared with a reference definition |
| `FbServe` | `vita-fbserve.c` | the server, its clients and the renderer; one action per system call |
| `SerialBridge` | `vita_cmd.sh` and the loops of `serial-bridge.sh` | composes callers, relay, tunnel, serial shell and log copy |
| `RuntimeLemmas`, `RuntimeProofs`, `WorkerPoolProofs`, `DemoCartProofs`, `InputEvdevProofs`, `KernelsProofs`, `VitaControlProofs`, `OperationsProofs` | – | proofs; `OperationsProofs` has those about `FbOwnership`, `FbServe` and `SerialBridge` |
| `MCRuntime`, `MCWorkerPool`, `MCDemoCart`, `MCInputEvdev`, `MCKernels`, `MCFbServe` | – | constants of the TLC runs |

Definitions carry the names of the functions and fields they translate.
Operators whose comment ends in "(mutant)" are plausible mistakes in the
definition that follows them; they are used by nothing, and exist so that every
property can be seen to fail on a broken variant of the code.

What is abstracted, and why it may be:

- *Pictures.* A frame is a pair of scenes and the weight between them
  (`cart_transition_blend`); the weights are computed with the code's fixed-point
  arithmetic. In `Kernels` the same weights mix channel values. A scene's own
  animation is not a cut and is left out, and so are its colours: of a scene's
  row loop the pixels it writes remain.
- *Coordinates.* Where the code widens to 64 bits the model computes exactly;
  `int32` wraps where it does not, and `SizeMax` stands for `SIZE_MAX`.
- *HTTP.* A request is a length, the byte at which its header ends, and what it
  asks for; receiving any number of its bytes is a step. A text reply fits into
  the socket's buffer and is sent at once; a bitmap of 173 KB is sent only if
  its client reads it, and `send_all` waits for that without a limit. The screen
  is two halves, each with the number of times it was drawn, so that a read can be torn
  between them.
- *Serial line.* A command is named after its caller; the log is a sequence of
  command outputs, prompts and kernel messages. The tunnel is external: it may
  refuse, break off at any command, report a failure after delivering, or drop.
  A command written while the relay closes the FIFO reaches the next reader, is
  lost, or ends its writer with `SIGPIPE`.
- *Rows and jobs.* A job increments the hit count of each row of its band; the
  bands are computed as in the code.
- *Synchronisation.* A mutex-protected section is one action. A condition wait
  that finds its predicate false is a waiting state that a broadcast, or a
  spurious wakeup, ends. A barrier collects arrivals and, when full, releases
  its threads one at a time, so that a fast thread can reach the next barrier
  before a slow one has left this one.
- *Kernel evdev* is external: one bounded queue per descriptor that is replaced
  by `SYN_DROPPED` and the newest event when it overflows; `EVIOCGKEY` flushes
  the queued key events; a read returns what is queued up to the last complete
  packet, as far as it fits into the buffer, so it can end inside a packet. The
  eight axes are treated alike by the code, and one is modelled.
- *Processes.* A PID is free, runs the cart, or runs something else. The state
  file holds a number or nothing that parses; a short write leaves a prefix,
  which is a much older time and so acts like nothing.
- *Scripts.* Writing the frame, removing the save, binding the console and
  removing the mark are four steps. A `dd` that fails or is killed leaves the
  screen as it was or torn. `rm -f` of a file in `/run` does not fail.
- *Calls that do not fail* on this system (`clock_gettime(CLOCK_MONOTONIC)`,
  `clock_nanosleep` other than `EINTR`) are taken to succeed in `DemoCart`.

Variables named as observers in the modules (`last_cut`, `pinned_until`,
`fade_start`, `slow`, `asked`, `presses`, `taken`, `early`, `accepted`, `orphaned`, `overdrawn`,
`since`, `alone`, `lost`, `resent`, ...)
record what happened so that a property can speak of it; no modelled code reads
them.

## Runs

| Run | Config | Distinct states | Question |
|---|---|---|---|
| `scheduler` | `MCRuntime.cfg` | 307,747 | can any sequence of calls cut too early, break a hold, shift the cadence, or sleep wrongly? |
| `worker_pool` | `MCWorkerPool.cfg` | 5,326 | does every dispatch do all rows once, does everything return, does it refine `ParallelFor`? |
| `cart_loop` | `MCDemoCart.cfg` | 1,911,559 | can signals, input and lateness make the picture cut or a fade run too fast, or a signal vanish? |
| `input_poll` | `MCInputEvdev.cfg` | 528,799 | are presses lost or doubled, do held keys and axis follow the device, when is a source left in DESYNC, does every press arrive? |
| `input_desync` | `MCInputDesync.cfg` | violation | does DESYNC end if the queue overflows again while a poll reads it? |
| `control` | `VitaControl.cfg` | 402,978 | what can concurrent calls get past the limiter, whom can they signal, do they end? |
| `control_readme` | `VitaControlReadme.cfg` | violation | are accepted requests spaced, as the README says? |
| `framebuffer` | `FbOwnership.cfg` | 10,433 | is what start took away always recoverable? |
| `framebuffer_restart` | `FbOwnershipRestart.cfg` | violation | does stop's success message hold after a crash and a restart? |
| `kernels` | `MCKernels.cfg` | 509,383 | are the pure functions what the picture, the fade and the stick need? |
| `fbserve` | `MCFbServe.cfg` | 593,656 | can pieces, limits, hang-ups and failed reads give a wrong reply, an old frame or a waiting client? |
| `serial` | `SerialBridge.cfg` | 200,239 | whose output does a caller get, how often does a command run, do calls end? |

Properties and what they guard:

- `CutsSpaced` – two changes of the scene that really happen are `MinChange`
  apart. The hold branch of `tick` sets the scene without asking the guard; the
  property says it never changes it.
- `HoldKept` – no tick leaves a scene picked by hand before its hold ends, also
  when `now + hold` saturates. `SleepBounded`, `ExhaustedOnlyAtEnd` – the
  deadline arithmetic under every lateness and at the end of the range. `OnGrid` –
  until a deadline is dropped, lateness does not shift the grid; a dropped one
  starts a new grid at `now + period`, and the property says no more.
- `EveryRowOnce`, `PublishedAlone`, `ThroughGate`, `BarriersEmptyAtDestroy` –
  the four obligations of the pool's protocol; `CallsReturn` – no lost wakeup, no
  barrier that waits for ever; `ImplementsParallelFor` – the refinement.
- `NoHardCut` – every frame is adjacent to the one before. `FadeTakesTime` –
  unless a signal cut a sleep short, a fade of n frames takes more than n-2
  periods between its first and last frame. `OnTimeFadeIsExclusive` – with
  frames on time the limiter keeps changes out of fades.
  `TimelySignalKept` – a `SIGUSR1` that arrives when no cooldown is running stays
  requested until the scene has changed, wherever in the loop it arrives; the
  clearing of the flag at line 240 can only swallow one that arrives in a
  cooldown.
- `HeldIsTheTruth`, `FrameFollowsStick`, `DesyncOnlyAfterRelapse`, `EveryPressOnce`,
  `PressesArrive` – input. `DesyncOnlyAfterRelapse` says that a poll leaves a source
  in DESYNC only if its queue overflowed again during that poll. `HeldIsTheTruth` says that, once everything a device
  said has been read, the mask holds exactly its keys, and names the two
  exceptions the code has: a resync reads the key state of now while older
  events are still in the source's buffer, and consuming those can set a bit
  whose release the kernel has already flushed; and keys that were down when a
  node was opened are not asked for. `FrameFollowsStick` says the same of the
  axis of a frame, and that its owner has the highest rank before any rescan.
- `ShownExactly`, `InsideBuffer`, `SnapshotIsTheFrame` – a shape is the shape
  asked for cut off at the canvas, in the buffer, scaled on the screen, and in a
  viewer of the snapshot. `FadeGentle` – with the program's 15 frames and
  fixed-point weights, each channel moves towards its new value by at most the
  slope of the smoothstep plus rounding. `AxisFaithful` – the stick reads
  -100..100, monotone, full at the upper end and, if the range has at least three
  positions, at the lower one, zero at rest.
- `RightReply`, `FrameIsFresh`, `OnceServesOne`, `EveryoneIsServed` – the server.
  A frame may be torn between two pictures of the renderer; it is never older
  than the request. `OnceServesOne` – with `--once` a client that got what it
  asked for is the only one answered. `EveryoneIsServed` – nothing but a client
  that for ever neither goes on nor hangs up (`held_up`) keeps the others out.
- `OwnOutput`, `RunsTwiceOnlyIfResent`, `CallsEndAndRun` – the bridge. `OwnOutput`
  is about callers that have the bridge to themselves, with nothing of an earlier
  call under way; `lost` in `CallsEndAndRun` names the three ways in which a
  command can vanish.
- `SerialCallsSpaced`, `OnlyInversionsPass` – what the limiter does promise: calls
  that do not overlap are spaced even if writes fail or calls are killed, and
  overlapping ones get past it only by an inversion of clock readings and lock
  order. `NeverMisdirected` – only a PID reused after the validation can send
  the signal elsewhere. `CallsEnd` – no path leaves the file locked.
- `NothingLost`, `StopRestores`, `RendererAlone` – the scripts, between any two
  of their commands, up to the two situations the scripts do not handle, which
  the observers name: a start that removes the mark of an unbound console or
  overwrites the save of another picture, left by a crash (`orphaned`), and a restore under a running renderer
  (`overdrawn`: a start interrupted in its last second, or a stop that gave up
  waiting).

Bounds. `MCRuntime`: frames of 2, rotation every 5, cooldown 4, so that frames,
rotation and cooldown fall out of step, the clock advances by half a frame, one
frame and more than two; holds of 0, one within the range and one that
saturates; `Max` = 18 allows three rotations and reaches both overflow checks.
`MCWorkerPool`: four workers as in the program, seven rows so that bands differ
in size, two dispatches so that barriers are reused, failure at each thread.
`MCDemoCart`: a fade of three frames and a cooldown just longer, work of 0 to
more than a frame, so that a fade can be overtaken; three scenes so that next
and previous differ. `MCInputEvdev`: two devices of different rank, a keyboard
and a pad with a stick, a queue of three and a buffer of two, so that queues
overflow, reads split batches and both slots are used; one unplugging, one
rescan, three key or axis events. (Two sticks, and so the ranks in
`FrameFollowsStick`, are left to the theorem.) `MCKernels`: a `size_t` of six
bits and canvases around the largest one it can address, coordinates inside, at
and far beyond the edges, a screen of 3 x 2 points scaled by two, an `int32` of
eight bits with every raw value, spans from one to the whole of it, the real 15
frames. `MCFbServe`: a buffer of three bytes and requests that are shorter, fill
it, go on after the header, or never end; two clients, a backlog of one, each
half of the screen drawn once. `SerialBridge`: two callers and one kernel
message. `VitaControl`: two clients, three calls, one PID that can be reused
once, one fault, an interval of two in a clock of four. `FbOwnership`: five
script runs and three faults, enough for a crash, a restart and a stop with a
failure in each.

`CHECK_DEADLOCK FALSE` is set where the system may stop: when the clock has
reached the end of its range (`MCRuntime`), or when the bounded number of calls
or script runs is used up (`VitaControl`, `FbOwnership`).

## Fairness

- `WorkerPool`: weak fairness of each worker's steps and of the main thread
  inside a call. The operating system schedules runnable threads; the caller
  need not call, and spurious wakeups are not relied upon.
- `InputEvdev`: weak fairness of the poll, because the main loop polls every
  frame until it shuts the input down, and of `SYN_REPORT`, because a driver
  that reported a key ends its packet. Keys, plugs and rescans owe nothing.
- `FbServe`: weak fairness of the server's steps, and nothing else. Clients need
  not connect, send, read or hang up, and the renderer need not draw. The server
  has no timeout, in `recv` nor in `send`, so a client can hold it for ever;
  `EveryoneIsServed` names that case (`held_up`) instead of assuming it away.
- `SerialBridge`: weak fairness of the relay, the log copy, the shell and a
  call's polling; strong fairness of opening the FIFO, because the relay opens
  it again and again and a blocked writer wakes when it does. The tunnel owes
  nothing: any send may fail.
- `VitaControl`: weak fairness of a call's own steps. The lock is taken under
  weak fairness only: a waiter is enabled continuously once the bounded number
  of other calls is over.

## Proofs

TLAPS proves the following for all values of the constants that satisfy the
assumptions named in the modules: `RuntimeAssumption` (the argument checks of
`cart_runtime_init`), `ApiAssumption`, `PoolAssumption` (those of
`cart_worker_pool_init`), `TransitionAssumption` (a fade has at least two
frames), `CartAssumption`, `InputAssumption` (room in buffers and queues, a rank
for every device), `OwnershipAssumption`, `ControlAssumption`,
`FbServeAssumption`, `SerialAssumption`, `CanvasAssumption`, `NormalizeAssumption`,
`KernelsAssumption`. Three theorems assume more, and say so in their statements.
The program's constants satisfy it.

- `RuntimeProofs`: `RuntimeInvariant`, and from it `RuntimeTypeCorrect`,
  `SleepIsBounded`, `ExhaustionIsTheEnd`, `CutsAreSpaced`, `HoldIsKept`. None of
  the properties is inductive alone. `RtInv` (in `RuntimeLemmas`, shared with
  `DemoCartProofs`) relates the record to the clock: the last change is not in
  the future, while a hold is active the manual scene is the shown one, and a
  deadline lies ahead by at most a period. `GuardKnows` says the guard's
  memory is the observed last cut; `PinHeld` says an unexpired request is still
  recorded as a hold, up to saturation. `CadenceIsOnGrid` holds while no
  deadline has been dropped: a tick that drops none leaves the deadline where it
  is or moves it on by one period (`TickKeepsGrid`), and adding a period keeps a
  multiple of the period one (`GridStep`, `MultipleOf`). After a drop the
  deadline is `now + period` and nothing is claimed.
- `WorkerPoolProofs`: `PoolInvariant` gives the place of every thread in gate and
  barriers for each place of the main thread. `EveryRowIsRenderedOnce` also
  needs that the bands `index * rows / count` partition the rows for every count,
  which is proved from the properties of integer division (`BandsCover`,
  `BandsDisjoint`). `PublicationIsUnobserved`, `GateIsPassed`,
  `BarriersAreEmptyAtDestroy` follow; `PoolImplementsParallelFor` maps every step
  to a step of `ParallelFor` or a stutter.
- `DemoCartProofs`: `CartInvariant` says what is on the screen in terms of the
  transition (`InFlight`, `AtRest`). `ScreenNeverCuts` follows step by step;
  `TimelySignalsAreKept` assumes more than one scene and a cooldown above zero, as
  the program has, and rests on `AskedInv`: while a timely signal is unanswered the
  flag is set, the guard still allows a change (`AllowedStays`: time alone never
  takes that back); and where the flag is about to be cleared the guard allows none,
  so that no such signal is waiting there. Two theorems are about time.
  `FadesTakeTime` rests on `PaceInv`: as long as no sleep was cut short, a frame of
  a fade does not start before the deadline it slept for, and the deadlines move
  on by a period per frame, also after one was missed.
  `OnTimeFadesAreExclusive` rests on the opposite bound, for frames that are on
  time: `FadeOnTime` (the fade's first frame is at most a period after the change
  the guard remembers, and later frames do not fall behind) and `WaitOnTime` (a
  change that no fade has taken up is at most a frame old). It assumes
  `MinChange > FRAMES * FramePeriod`. The program has 500,000,000 ns against
  15 * 33,333,333 ns, which is a margin of 5 ns: with one frame more, or a cooldown
  shorter by a microsecond, the comment at `pstv-demo-cart.c:260` has no such
  argument behind it even for frames on time.
- `InputEvdevProofs`: `InputInvariant`, about the *stream* of a slot: what a poll
  has read and not consumed, followed by what the kernel still queues.
  `TruthInv` says the stream leads from what the program holds to what the device
  has: the last event of each key, or of the axis since the last `SYN_DROPPED`,
  is the device's state, and where there is no event the program is right
  already. Held keys are claimed only where no `SYN_DROPPED` is on its way;
  a resync establishes it anew unless events read before it are still buffered.
  `DesyncInv` says a `SYN_REPORT` follows every `SYN_DROPPED`, or the queue begins
  with another one, and only then a poll leaves the slot. `OrderInv` keeps slots
  in the order of the ranks until a rescan, `LossInv` and `PressInv` account for
  the presses (taken, pending, in a stream) by counting. `HeldKeysTrue`,
  `FrameAxisTrue`, `DesyncRelapses`, `PressesCounted` and `InputTypes` follow, for
  any devices, ranks, keys, slots and sizes.
- `VitaControlProofs`: `ControlInvariant`. `TargetInv` follows the process number
  from the validation to the signal. `IntactInv` says an intact file holds the
  last accepted reading, except between truncation and write. `SerialInv` is why
  failed writes do not matter without overlap: an empty file means that the last
  accepted call is an interval old. `SerialCallsAreSpaced`, `OnlyInversions`,
  `SignalsFindTheCart` follow, for any number of callers.
- `OperationsProofs`, scripts: `OwnershipInvariant` is the conjunction of what is
  known at each command of start (`StartInv`) and of stop (`StopInv`), between
  the commands that give screen and console back (`GiveBackInv`: the save goes
  only when the screen has its picture, the mark only when the console is
  bound), and where picture and console mark are (`KeepInv`). `NothingIsLost`, `StopReallyRestores`
  and `RendererIsAlone` follow.
- `OperationsProofs`, server: `ServeInvariant`. `BytesInv` ties the buffer to what
  its client sent, `BacklogInv` keeps clients that wait apart from the one
  served, `DecisionInv` says a decided response is deserved (`DecidedIsDeserved`: a
  decision on a prefix is right for the whole request), `FreshInv` that the
  halves read so far are not older than the request, and `AnsweredEnds` that
  with `--once` a server that has answered anyone has ended. `RepliesAreRight`,
  `FramesAreFresh`, `OnceIsOnce` follow, for any clients, requests and buffer.
- `OperationsProofs`, bridge: `BridgeInvariant`. A command is in one place of
  the way from the FIFO over the relay's file to the line and the log, and in two
  only once its batch has failed or been sent again (`OnceOnItsWay`, by counting
  occurrences in sequences), from which `TwiceOnlyIfResent` follows; and while a caller has the bridge to itself only
  its own output and kernel messages enter the log (`OnlyItsOwn`), from which
  `OutputIsOwn` follows, for any number of callers and messages.
- `KernelsProofs`: `PixelIsClipped`, `RectIsClipped`, `CircleIsClipped`,
  `StarIsClipped`, `FlowerIsClipped` say for every canvas and every integer
  argument what a shape writes. `ShapesAreShownExactly` and
  `SnapshotsAreTheFrame` add the scaling, for every screen, scale and stride: the
  offsets of two points differ (`OffsetsDiffer`), a pixel of the framebuffer
  belongs to the square of one point (`UpscaleSquares`, `SquareOf`), and
  `build_bitmap` reads that square's corner (`CornerOf`); all three come down to
  one fact about mixed radix numbers (`MixedRadix`). `DrawingStaysInside` proves
  `InsideBuffer` for every `SIZE_MAX`, from `ByteSizeExact` (the two divisions
  exclude a wrapped product) and `OffsetBelowArea`. `MixStaysBetween` bounds a
  mixed channel; `FadesAreGentle` assumes the program's `FRAMES = 15`, because the
  bound is about its table of rounded weights (`WeightTable`), whose largest step
  is 26 of 256. `AxesAreFaithful` follows from `NormalizeIsFaithful`, where
  `DeadZone` shows that the dead zone leaves an upper band in every range and a
  lower one from three positions on, and so that nothing is divided by zero, and `Percent` that a band's part in percent is
  bounded and monotone.

Only model-checked are the liveness properties (`CallsReturn`, `PressesArrive`,
`CallsEnd`, `EveryoneIsServed`, `CallsEndAndRun`), because fairness and `ENABLED` are
out of the prover's reach, and the three violations. `SpanFits` in the axis
theorems, as in `AxisFaithful`, leaves out ranges wider than `INT32_MAX`, for which
the code overflows.

## What the checks found

1. `input_desync`. `cart_input_poll` skips a source in DESYNC before reading it, so
   it cannot "swallow until SYN_REPORT arrives" (`input_evdev.c:704`) if a poll
   ends in that state. A poll does in one case: a read that fills the buffer ends
   between `SYN_DROPPED` and its `SYN_REPORT`, and the queue overflows again before the
   next read of that poll. The source is then never read again. Nothing else leaves a source so
   (`DesyncOnlyAfterRelapse`, proved).
2. `control_readme`. `vita-control` reads the clock before it takes the lock and
   ignores a recorded time in the future of its reading. Two overlapping calls can
   both be accepted.
3. `framebuffer_restart`. `start-demo-cart.sh` removes the console mark of a cart
   that died. After the next stop the console stays unbound although stop says
   it was restored.

Smaller disagreements between comments and code, met while modelling; the
conditions of the properties named here are what the code does:

- The comment at `pstv-demo-cart.c:260` credits the rate limiter with keeping
  changes out of a fade. The limiter counts time and the fade counts frames;
  with late frames a change does arrive, and the test at line 265 defers it
  (`NoHardCut`). `OnTimeFadeIsExclusive` holds for frames on time.
- `input_normalize.c:17` says full throw always reaches exactly +-100. A range of
  two positions has no lower band and reads 0 at its lower end; a range wider than
  `INT32_MAX` overflows `span` at line 38. `AxisFaithful` claims nothing of either.
- A second `SIGUSR1` that arrives while the loop is handling a first one is
  cleared with it at `pstv-demo-cart.c:240`. If the first was refused near the end
  of a cooldown, the second might have been honoured at the next frame;
  `TimelySignalKept` claims nothing of signals in a cooldown.
- `recv` and `send` in `vita-fbserve.c` have no timeout (lines 62 and 180): a
  client that stops sending, or stops reading its bitmap, and stays connected keeps
  all others out.
- `input_evdev.c:682` says a lower source index has a higher or equal rank. A
  rescan fills free slots in order of arrival (`FrameFollowsStick`).
- `input.h:40` says `generation` bumps on every successful connect. A reconnect
  starts from a zeroed record, so it is 1 again.
- `vita-fbserve --once` is documented as "serve one valid request, then exit"; it
  exits after any request it answered, refusals included. `OnceServesOne` claims
  nothing of refusals.
- `serial-bridge.sh:172` says buffering prevents data loss if the send fails; a
  second failure drops the batch, and a failure after delivery runs it twice
  (`RunsTwiceOnlyIfResent`, `CallsEndAndRun`).

## Not modelled

- The `--dump` mode, framebuffer setup and fps report of the cart; colours,
  animation, text and hearts of the scenes; writing PPM files: pictures that no
  other part reads.
- How evdev nodes are classified from names and capability bits, and events that
  a read splits: the model takes the ranks as parameters and reads whole events.
- `cart/src/input.c`: superseded by `input_evdev.c` and not linked into the cart.
  `cart/provenance/`: the first version, kept as a record.
- `vita-inputwatch`, `vita-bench` and the toolkit's report scripts: diagnostic
  output and measurements; what they print depends on the machine.
- Setting up and tearing down the bridge, the device handling of `serial_log.py`,
  `boot_watch.sh`: process management around the loops that are modelled.
- `vita-toolkit-mount`, release verification, build and boot files.

`PROJECT.json` gives the reason for each. The kernel is in submodules that are
not part of the repository.

## Plan

Done, in this order: `Runtime` and its proofs; `WorkerPool`, `ParallelFor` and the
refinement; `Transition` and `DemoCart`; `InputEvdev`, with axes and frames;
`VitaControl`; `FbOwnership`; `Canvas`, `InputNormalize` and `Kernels`; `FbServe`;
`SerialBridge`; the proofs about `VitaControl`, `FbServe` and `Kernels`; those about
`InputEvdev` and `SerialBridge`, and the timing of the loop. Every invariant and every
action property of the passing runs is now also a theorem.

What would come next: `vita-toolkit-mount` with its checks against the mount
table; `vita-control` composed with `DemoCart` (which accepted requests change the
scene).
