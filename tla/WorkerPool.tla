----------------------------- MODULE WorkerPool -----------------------------
(***************************************************************************)
(* cart/src/worker_pool.c: the persistent render workers, the gate that     *)
(* holds them until all have been created, and the two barriers that fan a  *)
(* job out over bands of rows and join it again.                            *)
(*                                                                          *)
(* The pool has one caller, the main thread (thread Main below).  A section *)
(* under startup_mutex is one step; waiting on startup_cond is a state of   *)
(* its own that only a broadcast (or a spurious wakeup) leaves, so that a   *)
(* missing broadcast is a deadlock here as it is in the code.  A thread     *)
(* that waits at a barrier is released by the last arrival but leaves in a  *)
(* step of its own.                                                         *)
(***************************************************************************)
EXTENDS Integers, FiniteSets

CONSTANTS
  N,           \* worker_count asked of cart_worker_pool_init, unless it is 0
  RowCount,    \* rows asked of cart_worker_pool_init
  MaxDispatch  \* bound on the number of dispatches

\* CART_WORKER_POOL_MAX bounds N in the code; nothing here depends on it.
ASSUME PoolAssumption ==
  /\ N \in Nat
  /\ RowCount \in Nat \ {0}
  /\ MaxDispatch \in Nat

Workers == 0 .. N - 1
Main    == N
Threads == 0 .. N
Rows    == 0 .. RowCount - 1

VARIABLES
  main,              \* where the main thread is
  wpc,               \* where each worker is
  created,           \* the loop index of pthread_create
  active, shutting_down, startup_ready, startup_released,
  worker_count, rows,
  start_in, start_out,  \* start_barrier: who waits, who is released and has to leave
  stop_in, stop_out,    \* stop_barrier
  generation,           \* how many dispatches were published
  hits                  \* how often each row was rendered in the last dispatch

gate_vars  == <<active, shutting_down, startup_ready, startup_released>>
start_vars == <<start_in, start_out>>
stop_vars  == <<stop_in, stop_out>>
geometry   == <<worker_count, rows>>
work_vars  == <<generation, hits>>

vars == <<main, wpc, created, gate_vars, geometry, start_vars, stop_vars, work_vars>>

InitPCs     == {"create", "await_check", "await_wait", "fail_join"}
DispatchPCs == {"d_start", "d_start_wait", "d_stop", "d_stop_wait"}
ShutdownPCs == {"s_start", "s_start_wait", "s_join"}

TypeOK ==
  /\ main \in {"new", "ready"} \cup InitPCs \cup DispatchPCs \cup ShutdownPCs
  /\ wpc \in [Workers -> {"none", "gate", "gate_wait", "loop", "start", "check",
                          "job", "stop_arrive", "stop", "exited"}]
  /\ created \in 0 .. N
  /\ active \in BOOLEAN /\ shutting_down \in BOOLEAN /\ startup_ready \in BOOLEAN
  /\ startup_released \in Nat
  /\ worker_count \in {0, N} /\ rows \in {0, RowCount}
  /\ start_in \subseteq Threads /\ start_out \subseteq Threads
  /\ stop_in \subseteq Threads /\ stop_out \subseteq Threads
  /\ generation \in Nat
  /\ hits \in [Rows -> Nat]

Init ==
  /\ main = "new"
  /\ wpc = [w \in Workers |-> "none"]
  /\ created = 0
  /\ active = FALSE /\ shutting_down = FALSE /\ startup_ready = FALSE
  /\ startup_released = 0
  /\ worker_count = 0 /\ rows = 0
  /\ start_in = {} /\ start_out = {} /\ stop_in = {} /\ stop_out = {}
  /\ generation = 0
  /\ hits = [r \in Rows |-> 0]

----------------------------------------------------------------------------
(* The startup gate *)

\* pthread_cond_broadcast(&startup_cond), seen from one waiting worker.
Woken(pc) == IF pc = "gate_wait" THEN "gate" ELSE pc

\* Signalling nobody (mutant).
BroadcastNone == wpc' = wpc

Broadcast == wpc' = [w \in Workers |-> Woken(wpc[w])]

\* worker_main, lines 25-34: one look at the gate.
GateClosed(w) ==
  /\ wpc[w] = "gate" /\ ~startup_ready
  /\ wpc' = [wpc EXCEPT ![w] = "gate_wait"]
  /\ UNCHANGED <<main, created, gate_vars, geometry, start_vars, stop_vars, work_vars>>

GateAbandoned(w) ==
  /\ wpc[w] = "gate" /\ startup_ready /\ shutting_down
  /\ wpc' = [wpc EXCEPT ![w] = "exited"]
  /\ UNCHANGED <<main, created, gate_vars, geometry, start_vars, stop_vars, work_vars>>

GatePassed(w) ==
  /\ wpc[w] = "gate" /\ startup_ready /\ ~shutting_down
  /\ startup_released' = startup_released + 1
  /\ wpc' = [v \in Workers |-> IF v = w THEN "loop" ELSE Woken(wpc[v])]
  /\ main' = IF main = "await_wait" THEN "await_check" ELSE main
  /\ UNCHANGED <<created, active, shutting_down, startup_ready, geometry,
                 start_vars, stop_vars, work_vars>>

\* POSIX allows pthread_cond_wait to return without a broadcast.
SpuriousWakeup(w) ==
  /\ wpc[w] = "gate_wait"
  /\ wpc' = [wpc EXCEPT ![w] = "gate"]
  /\ UNCHANGED <<main, created, gate_vars, geometry, start_vars, stop_vars, work_vars>>

MainSpuriousWakeup ==
  /\ main = "await_wait"
  /\ main' = "await_check"
  /\ UNCHANGED <<wpc, created, gate_vars, geometry, start_vars, stop_vars, work_vars>>

----------------------------------------------------------------------------
(* The barriers (pthread_barrier_wait of N + 1 threads) *)

ArriveStart(t) ==
  IF start_in \cup {t} = Threads
  THEN start_in' = {} /\ start_out' = Threads
  ELSE start_in' = start_in \cup {t} /\ UNCHANGED start_out

LeaveStart(t) ==
  /\ t \in start_out
  /\ start_out' = start_out \ {t}
  /\ UNCHANGED start_in

\* A stop barrier that counts the workers but not the dispatcher (mutant).
ArriveStopShort(t) ==
  IF Cardinality(stop_in \cup {t}) = N
  THEN stop_in' = {} /\ stop_out' = stop_out \cup stop_in \cup {t}
  ELSE stop_in' = stop_in \cup {t} /\ UNCHANGED stop_out

ArriveStop(t) ==
  IF stop_in \cup {t} = Threads
  THEN stop_in' = {} /\ stop_out' = Threads
  ELSE stop_in' = stop_in \cup {t} /\ UNCHANGED stop_out

LeaveStop(t) ==
  /\ t \in stop_out
  /\ stop_out' = stop_out \ {t}
  /\ UNCHANGED stop_in

----------------------------------------------------------------------------
(* worker_main, lines 36-48 *)

WorkerArrivesStart(w) ==
  /\ wpc[w] = "loop"
  /\ ArriveStart(w)
  /\ wpc' = [wpc EXCEPT ![w] = "start"]
  /\ UNCHANGED <<main, created, gate_vars, geometry, stop_vars, work_vars>>

WorkerLeavesStart(w) ==
  /\ wpc[w] = "start"
  /\ LeaveStart(w)
  /\ wpc' = [wpc EXCEPT ![w] = "check"]
  /\ UNCHANGED <<main, created, gate_vars, geometry, stop_vars, work_vars>>

WorkerChecksShutdown(w) ==
  /\ wpc[w] = "check"
  /\ wpc' = [wpc EXCEPT ![w] = IF shutting_down THEN "exited" ELSE "job"]
  /\ UNCHANGED <<main, created, gate_vars, geometry, start_vars, stop_vars, work_vars>>

\* The rows a worker renders: index * rows / worker_count up to the next
\* worker's first row.
BandStart(w) == (w * rows) \div worker_count

\* Sharing the remainder out with a truncated band height (mutant).
BandEndShort(w) == BandStart(w) + rows \div worker_count

BandEnd(w) == ((w + 1) * rows) \div worker_count
InBand(w, r) == BandStart(w) <= r /\ r < BandEnd(w)

Render(w) == hits' = [r \in Rows |-> IF InBand(w, r) THEN hits[r] + 1 ELSE hits[r]]

WorkerRunsJob(w) ==
  /\ wpc[w] = "job"
  /\ Render(w)
  /\ wpc' = [wpc EXCEPT ![w] = "stop_arrive"]
  /\ UNCHANGED <<main, created, gate_vars, geometry, start_vars, stop_vars, generation>>

WorkerArrivesStop(w) ==
  /\ wpc[w] = "stop_arrive"
  /\ ArriveStop(w)
  /\ wpc' = [wpc EXCEPT ![w] = "stop"]
  /\ UNCHANGED <<main, created, gate_vars, geometry, start_vars, work_vars>>

WorkerLeavesStop(w) ==
  /\ wpc[w] = "stop"
  /\ LeaveStop(w)
  /\ wpc' = [wpc EXCEPT ![w] = "loop"]
  /\ UNCHANGED <<main, created, gate_vars, geometry, start_vars, work_vars>>

----------------------------------------------------------------------------
(* cart_worker_pool_init *)

\* Lines 58-65: worker_count is 0 and every dispatch runs on the caller.
InitInline ==
  /\ main = "new"
  /\ worker_count' = 0 /\ rows' = RowCount
  /\ active' = TRUE
  /\ main' = "ready"
  /\ UNCHANGED <<wpc, created, shutting_down, startup_ready, startup_released,
                 start_vars, stop_vars, work_vars>>

\* Lines 67-86: one of the four synchronisation objects cannot be created.
\* The caller gets -1 and an inactive pool whose geometry is already set.
InitSyncFails ==
  /\ main = "new" /\ N > 0
  /\ worker_count' = N /\ rows' = RowCount
  /\ main' = "ready"
  /\ UNCHANGED <<wpc, created, gate_vars, start_vars, stop_vars, work_vars>>

InitSync ==
  /\ main = "new" /\ N > 0
  /\ worker_count' = N /\ rows' = RowCount
  /\ main' = "create"
  /\ UNCHANGED <<wpc, created, gate_vars, start_vars, stop_vars, work_vars>>

CreateThread ==
  /\ main = "create" /\ created < N
  /\ created' = created + 1
  /\ wpc' = [wpc EXCEPT ![created] = "gate"]
  /\ UNCHANGED <<main, gate_vars, geometry, start_vars, stop_vars, work_vars>>

\* Opening the gate before telling the workers to give up (mutant).
CreateFailsOpen ==
  /\ main = "create" /\ created < N
  /\ startup_ready' = TRUE
  /\ Broadcast
  /\ main' = "fail_join"
  /\ UNCHANGED <<created, active, shutting_down, startup_released, geometry,
                 start_vars, stop_vars, work_vars>>

\* Lines 94-101: pthread_create failed for worker number created.
CreateFails ==
  /\ main = "create" /\ created < N
  /\ shutting_down' = TRUE
  /\ startup_ready' = TRUE
  /\ Broadcast
  /\ main' = "fail_join"
  /\ UNCHANGED <<created, active, startup_released, geometry,
                 start_vars, stop_vars, work_vars>>

\* Lines 102-110: join the workers that exist, destroy, report -1.
FailJoin ==
  /\ main = "fail_join"
  /\ \A w \in Workers : w < created => wpc[w] = "exited"
  /\ worker_count' = 0 /\ rows' = 0
  /\ main' = "ready"
  /\ UNCHANGED <<wpc, created, gate_vars, start_vars, stop_vars, work_vars>>

\* Lines 113-117: open the gate and wait, in the same critical section, for
\* the workers to come through.
OpenGate ==
  /\ main = "create" /\ created = N
  /\ startup_ready' = TRUE
  /\ Broadcast
  /\ main' = IF startup_released < N THEN "await_wait" ELSE "await_check"
  /\ UNCHANGED <<created, active, shutting_down, startup_released, geometry,
                 start_vars, stop_vars, work_vars>>

AwaitAgain ==
  /\ main = "await_check" /\ startup_released < N
  /\ main' = "await_wait"
  /\ UNCHANGED <<wpc, created, gate_vars, geometry, start_vars, stop_vars, work_vars>>

\* Returning as soon as one worker has come through (mutant).
AwaitDoneEarly ==
  /\ main = "await_check"
  /\ active' = TRUE
  /\ main' = "ready"
  /\ UNCHANGED <<wpc, created, shutting_down, startup_ready, startup_released,
                 geometry, start_vars, stop_vars, work_vars>>

AwaitDone ==
  /\ main = "await_check" /\ startup_released = N
  /\ active' = TRUE
  /\ main' = "ready"
  /\ UNCHANGED <<wpc, created, shutting_down, startup_ready, startup_released,
                 geometry, start_vars, stop_vars, work_vars>>

----------------------------------------------------------------------------
(* cart_worker_pool_dispatch; an inactive pool refuses and changes nothing *)

DispatchInline ==
  /\ main = "ready" /\ active /\ worker_count = 0
  /\ generation < MaxDispatch
  /\ generation' = generation + 1
  /\ hits' = [r \in Rows |-> IF r < rows THEN 1 ELSE 0]
  /\ UNCHANGED <<main, wpc, created, gate_vars, geometry, start_vars, stop_vars>>

\* Lines 135-137: publish the job, the slots and the generation.
DispatchPublish ==
  /\ main = "ready" /\ active /\ worker_count > 0
  /\ generation < MaxDispatch
  /\ generation' = generation + 1
  /\ hits' = [r \in Rows |-> 0]
  /\ main' = "d_start"
  /\ UNCHANGED <<wpc, created, gate_vars, geometry, start_vars, stop_vars>>

DispatchArrivesStart ==
  /\ main = "d_start"
  /\ ArriveStart(Main)
  /\ main' = "d_start_wait"
  /\ UNCHANGED <<wpc, created, gate_vars, geometry, stop_vars, work_vars>>

\* Returning after the workers were started (mutant).
DispatchLeavesStartEarly ==
  /\ main = "d_start_wait"
  /\ LeaveStart(Main)
  /\ main' = "ready"
  /\ UNCHANGED <<wpc, created, gate_vars, geometry, stop_vars, work_vars>>

DispatchLeavesStart ==
  /\ main = "d_start_wait"
  /\ LeaveStart(Main)
  /\ main' = "d_stop"
  /\ UNCHANGED <<wpc, created, gate_vars, geometry, stop_vars, work_vars>>

DispatchArrivesStop ==
  /\ main = "d_stop"
  /\ ArriveStop(Main)
  /\ main' = "d_stop_wait"
  /\ UNCHANGED <<wpc, created, gate_vars, geometry, start_vars, work_vars>>

DispatchReturns ==
  /\ main = "d_stop_wait"
  /\ LeaveStop(Main)
  /\ main' = "ready"
  /\ UNCHANGED <<wpc, created, gate_vars, geometry, start_vars, work_vars>>

----------------------------------------------------------------------------
(* cart_worker_pool_shutdown; on an inactive pool it returns at once *)

ShutdownInline ==
  /\ main = "ready" /\ active /\ worker_count = 0
  /\ active' = FALSE
  /\ UNCHANGED <<main, wpc, created, shutting_down, startup_ready, startup_released,
                 geometry, start_vars, stop_vars, work_vars>>

\* Joining workers nobody told to stop (mutant).
ShutdownBeginsSilent ==
  /\ main = "ready" /\ active /\ worker_count > 0
  /\ active' = FALSE
  /\ main' = "s_start"
  /\ UNCHANGED <<wpc, created, shutting_down, startup_ready, startup_released, geometry,
                 start_vars, stop_vars, work_vars>>

ShutdownBegins ==
  /\ main = "ready" /\ active /\ worker_count > 0
  /\ active' = FALSE
  /\ shutting_down' = TRUE
  /\ main' = "s_start"
  /\ UNCHANGED <<wpc, created, startup_ready, startup_released, geometry,
                 start_vars, stop_vars, work_vars>>

ShutdownArrivesStart ==
  /\ main = "s_start"
  /\ ArriveStart(Main)
  /\ main' = "s_start_wait"
  /\ UNCHANGED <<wpc, created, gate_vars, geometry, stop_vars, work_vars>>

ShutdownLeavesStart ==
  /\ main = "s_start_wait"
  /\ LeaveStart(Main)
  /\ main' = "s_join"
  /\ UNCHANGED <<wpc, created, gate_vars, geometry, stop_vars, work_vars>>

ShutdownJoins ==
  /\ main = "s_join"
  /\ \A w \in Workers : wpc[w] = "exited"
  /\ worker_count' = 0 /\ rows' = 0
  /\ main' = "ready"
  /\ UNCHANGED <<wpc, created, gate_vars, start_vars, stop_vars, work_vars>>

----------------------------------------------------------------------------
\* The caller has an inactive pool and makes no further call that does anything.
Finished == main = "ready" /\ ~active /\ UNCHANGED vars

WorkerStep(w) ==
  \/ GateClosed(w) \/ GateAbandoned(w) \/ GatePassed(w)
  \/ WorkerArrivesStart(w) \/ WorkerLeavesStart(w) \/ WorkerChecksShutdown(w)
  \/ WorkerRunsJob(w) \/ WorkerArrivesStop(w) \/ WorkerLeavesStop(w)

\* The steps of the main thread inside a call.
CallStep ==
  \/ CreateThread \/ CreateFails \/ FailJoin \/ OpenGate \/ AwaitAgain \/ AwaitDone
  \/ DispatchArrivesStart \/ DispatchLeavesStart \/ DispatchArrivesStop \/ DispatchReturns
  \/ ShutdownArrivesStart \/ ShutdownLeavesStart \/ ShutdownJoins

\* The steps with which the main thread enters a call, or that are a whole one.
CallerStep ==
  \/ InitInline \/ InitSyncFails \/ InitSync
  \/ DispatchInline \/ DispatchPublish
  \/ ShutdownInline \/ ShutdownBegins

Next ==
  \/ \E w \in Workers : WorkerStep(w) \/ SpuriousWakeup(w)
  \/ MainSpuriousWakeup
  \/ CallStep
  \/ CallerStep
  \/ Finished

Spec == Init /\ [][Next]_vars

\* Threads are scheduled; the caller need not call, and nothing wakes a
\* waiter by chance.
FairSpec == Spec /\ (\A w \in Workers : WF_vars(WorkerStep(w))) /\ WF_vars(CallStep)

----------------------------------------------------------------------------
(***************************************************************************)
(* worker_pool.h:23-25, "a dispatch returns only after every band has       *)
(* completed": between two calls, each row has been rendered exactly once   *)
(* in the last dispatch, whatever the split of the rows.                    *)
(***************************************************************************)
EveryRowOnce == main = "ready" /\ generation > 0 => \A r \in Rows : hits[r] = 1

(***************************************************************************)
(* The caller writes job, slots and generation before the start barrier     *)
(* without a lock: no worker may be anywhere it could read them.            *)
(***************************************************************************)
PublishedAlone ==
  main \in {"ready", "d_start", "s_start"} /\ active
    => \A w \in Workers : wpc[w] \notin {"check", "job"}

(***************************************************************************)
(* init returns success only when every worker has come through the gate    *)
(* (worker_pool.c:116): a worker still at the gate when shutting_down is    *)
(* set would leave without ever arriving at the start barrier.              *)
(***************************************************************************)
ThroughGate ==
  active /\ worker_count > 0
    => \A w \in Workers : wpc[w] \notin {"none", "gate", "gate_wait"}

(***************************************************************************)
(* When init fails on a thread, the workers it joins "have not entered the  *)
(* render barriers yet" (worker_pool.c:94-96), where they would wait for    *)
(* ever; and the barriers are empty whenever the pool's owner could free it.*)
(***************************************************************************)
BarriersEmptyAtDestroy ==
  /\ main = "fail_join"
       => \A w \in Workers : wpc[w] \in {"none", "gate", "gate_wait", "exited"}
  /\ main = "ready" /\ ~active
       => /\ start_in = {} /\ start_out = {} /\ stop_in = {} /\ stop_out = {}
          /\ \A w \in Workers : wpc[w] \in {"none", "exited"}

(***************************************************************************)
(* Every call returns: init (also when a thread cannot be created),         *)
(* dispatch and shutdown.  No wakeup is lost and no barrier waits for ever. *)
(***************************************************************************)
CallsReturn == main \in InitPCs \cup DispatchPCs \cup ShutdownPCs ~> main = "ready"

----------------------------------------------------------------------------
(***************************************************************************)
(* What the pool promises its caller: a parallel loop over the rows.  A row *)
(* is still to do while its hits in the current dispatch are zero.          *)
(***************************************************************************)
loop_phase ==
  IF main \in DispatchPCs THEN "busy" ELSE IF active THEN "idle" ELSE "off"
loop_todo == {r \in Rows : generation > 0 /\ hits[r] = 0}

Loop == INSTANCE ParallelFor WITH
          Items <- Rows, phase <- loop_phase, todo <- loop_todo, loops <- generation

(***************************************************************************)
(* The pool implements the parallel loop: a dispatch begins with every row  *)
(* to do, rows are only done while it runs, and it ends when none is left.  *)
(***************************************************************************)
ImplementsParallelFor == Loop!Spec
=============================================================================
