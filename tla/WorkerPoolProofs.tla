-------------------------- MODULE WorkerPoolProofs --------------------------
(***************************************************************************)
(* Proofs about cart/src/worker_pool.c, for every number of workers and     *)
(* rows and any number of dispatches: the bands partition the rows, and the *)
(* two barriers make a dispatch render every row exactly once.              *)
(***************************************************************************)
EXTENDS WorkerPool, FiniteSetTheorems, TLAPS

(***************************************************************************)
(* Integer division, as the code's truncating / on non-negative operands.   *)
(***************************************************************************)
LEMMA Division ==
  ASSUME NEW a \in Nat, NEW b \in Nat \ {0}
  PROVE  /\ a \div b \in Nat
         /\ b * (a \div b) <= a
         /\ a < b * (a \div b) + b
  BY SMT

(***************************************************************************)
(* Multiplying by a number of rows or workers keeps the order.              *)
(***************************************************************************)
LEMMA ScalingIsMonotone == \A x, y \in Int, b \in Nat : x <= y => b * x <= b * y
  BY SMT

(***************************************************************************)
(* One more band adds one more multiplier (the worker_index + 1 of the      *)
(* code).                                                                   *)
(***************************************************************************)
LEMMA Distribute == \A x, b \in Int : b * (x + 1) = b * x + b
  BY SMT

(***************************************************************************)
(* The code's index * rows is the proofs' rows * index.                     *)
(***************************************************************************)
LEMMA Commute == \A x, y \in Int : x * y = y * x
  BY SMT

(***************************************************************************)
(* A truncated quotient is at most c exactly when the dividend lies below   *)
(* the next multiple of the divisor.                                        *)
(***************************************************************************)
LEMMA QuotientAtMost ==
  ASSUME NEW a \in Nat, NEW b \in Nat \ {0}, NEW c \in Nat
  PROVE  a \div b <= c <=> a < b * c + b
  <1> DEFINE q == a \div b
  <1>1. q \in Nat /\ b * q <= a /\ a < b * q + b
    BY Division
  <1> HIDE DEF q
  <1>2. ASSUME q <= c PROVE a < b * c + b
    <2>1. b * q <= b * c
      BY <1>1, <1>2, ScalingIsMonotone
    <2> QED
      BY <1>1, <2>1
  <1>3. ASSUME ~(q <= c) PROVE ~(a < b * c + b)
    <2>1. b * (c + 1) <= b * q
      BY <1>1, <1>3, ScalingIsMonotone
    <2>2. b * (c + 1) = b * c + b
      BY Distribute
    <2> QED
      BY <1>1, <2>1, <2>2
  <1> QED
    BY <1>2, <1>3 DEF q

----------------------------------------------------------------------------
(* The bands of a pool that runs: worker_count = N and rows = RowCount *)

First(w) == (w * RowCount) \div N
Owns(w, r) == First(w) <= r /\ r < First(w + 1)

(***************************************************************************)
(* When the band of worker w begins at or before row r, without division.   *)
(***************************************************************************)
LEMMA FirstAtMost ==
  ASSUME N > 0, NEW w \in Nat, NEW r \in Nat
  PROVE  First(w) <= r <=> RowCount * w < N * r + N
  <1>1. w * RowCount = RowCount * w /\ RowCount * w \in Nat
    BY PoolAssumption, Commute
  <1> QED
    BY <1>1, PoolAssumption, QuotientAtMost DEF First

(***************************************************************************)
(* Every row has a worker: the one whose band holds it (worker_pool.c:41). *)
(***************************************************************************)
LEMMA BandsCover ==
  ASSUME N > 0, NEW r \in Rows
  PROVE  \E w \in Workers : Owns(w, r)
  <1> DEFINE a == N * r + N - 1
             w == a \div RowCount
  <1>1. r \in Nat /\ r + 1 <= RowCount /\ N \in Nat /\ RowCount \in Nat \ {0}
    BY PoolAssumption DEF Rows
  <1>2. a \in Nat
    <2>1. N * r \in Nat
      BY <1>1
    <2> QED
      BY <1>1, <2>1
  <1>3. w \in Nat /\ RowCount * w <= a /\ a < RowCount * w + RowCount
    BY <1>1, <1>2, Division
  <1> HIDE DEF w
  <1>4. w <= N - 1
    <2>1. N * (r + 1) <= N * RowCount
      BY <1>1, ScalingIsMonotone
    <2>2. N * (r + 1) = N * r + N /\ N * RowCount = RowCount * N
      BY <1>1, Distribute, Commute
    <2>3. RowCount * N = RowCount * (N - 1) + RowCount
      BY <1>1, Distribute
    <2>4. N * r \in Int /\ RowCount * (N - 1) \in Int
      BY <1>1
    <2>5. a < RowCount * (N - 1) + RowCount
      BY <1>1, <2>1, <2>2, <2>3, <2>4
    <2> QED
      BY <1>1, <1>2, <2>5, QuotientAtMost DEF w
  <1>5. First(w) <= r
    <2>1. N * r \in Int /\ RowCount * w \in Int
      BY <1>1, <1>3
    <2> QED
      BY <1>1, <1>3, <2>1, FirstAtMost
  <1>6. ~(First(w + 1) <= r)
    <2>1. RowCount * (w + 1) = RowCount * w + RowCount
      BY <1>1, <1>3, Distribute
    <2>2. N * r \in Int /\ RowCount * w \in Int
      BY <1>1, <1>3
    <2> QED
      BY <1>1, <1>3, <2>1, <2>2, FirstAtMost
  <1>7. First(w + 1) \in Nat
    <2>1. (w + 1) * RowCount \in Nat
      BY <1>1, <1>3
    <2> QED
      BY <1>1, <2>1, Division DEF First
  <1>8. w \in Workers
    BY <1>1, <1>3, <1>4 DEF Workers
  <1> QED
    BY <1>1, <1>5, <1>6, <1>7, <1>8 DEF Owns

(***************************************************************************)
(* No row has two workers.                                                  *)
(***************************************************************************)
LEMMA BandsDisjoint ==
  ASSUME N > 0, NEW r \in Rows, NEW v \in Workers, NEW w \in Workers,
         Owns(v, r), Owns(w, r)
  PROVE  v = w
  <1>1. r \in Nat /\ v \in Nat /\ w \in Nat /\ N \in Nat /\ RowCount \in Nat \ {0}
    BY PoolAssumption DEF Rows, Workers
  <1>2. ASSUME NEW x \in Workers, NEW y \in Workers, x < y, Owns(x, r), Owns(y, r)
        PROVE  FALSE
    <2>1. x \in Nat /\ y \in Nat /\ x + 1 <= y
      BY <1>2 DEF Workers
    <2>2. RowCount * y < N * r + N
      BY <1>1, <1>2, <2>1, FirstAtMost DEF Owns
    <2>3. RowCount * (x + 1) <= RowCount * y
      BY <1>1, <2>1, ScalingIsMonotone
    <2>4. RowCount * (x + 1) \in Int /\ RowCount * y \in Int /\ N * r \in Int
      BY <1>1, <2>1
    <2>5. First(x + 1) <= r
      BY <1>1, <2>1, <2>2, <2>3, <2>4, FirstAtMost
    <2>6. First(x + 1) \in Nat
      <3>1. (x + 1) * RowCount \in Nat
        BY <1>1, <2>1
      <3> QED
        BY <1>1, <3>1, Division DEF First
    <2> QED
      BY <1>1, <1>2, <2>5, <2>6 DEF Owns
  <1> QED
    BY <1>1, <1>2

----------------------------------------------------------------------------
(***************************************************************************)
(* The inductive invariant.  A pool with workers goes round three stages:   *)
(* Before (the main thread is not yet through the start barrier), Running   *)
(* (between the barriers) and After (released from the stop barrier, not    *)
(* yet back in the caller).  In each stage the sets of the barriers are     *)
(* determined by where the threads are.                                     *)
(***************************************************************************)
MainWaits == {"d_start_wait", "s_start_wait"}

Before ==
  \/ main \in {"await_check", "await_wait", "d_start", "s_start"}
  \/ main = "ready" /\ active /\ worker_count # 0
  \/ main \in MainWaits /\ Main \in start_in

Running ==
  \/ main = "d_start_wait" /\ Main \notin start_in
  \/ main = "d_stop"
  \/ main = "d_stop_wait" /\ Main \in stop_in

After == main = "d_stop_wait" /\ Main \notin stop_in

Stopping ==
  \/ main = "s_start_wait" /\ Main \notin start_in
  \/ main = "s_join"

Quiet == start_in = {} /\ start_out = {} /\ stop_in = {} /\ stop_out = {}

Sized == N > 0 /\ worker_count = N /\ rows = RowCount

\* Who is in a set of a barrier: the workers at a place, and maybe Main.
Holds(S, pc, mainIn) ==
  /\ \A w \in Workers : w \in S <=> wpc[w] = pc
  /\ Main \in S <=> mainIn

FreshInv ==
  main = "new" => /\ Quiet /\ ~active /\ ~shutting_down /\ ~startup_ready
                  /\ created = 0
                  /\ \A w \in Workers : wpc[w] = "none"

CreateInv ==
  main = "create" => /\ Quiet /\ ~active /\ ~shutting_down /\ ~startup_ready /\ Sized
                     /\ \A w \in Workers : IF w < created THEN wpc[w] \in {"gate", "gate_wait"}
                                           ELSE wpc[w] = "none"

FailInv ==
  main = "fail_join" => /\ Quiet /\ ~active /\ shutting_down
                        /\ \A w \in Workers :
                             IF w < created THEN wpc[w] \in {"gate", "gate_wait", "exited"}
                             ELSE wpc[w] = "none"

OffInv ==
  main = "ready" /\ ~active => Quiet /\ \A w \in Workers : wpc[w] \in {"none", "exited"}

InlineInv ==
  main = "ready" /\ active /\ worker_count = 0
    => Quiet /\ rows = RowCount /\ \A w \in Workers : wpc[w] = "none"

BeforeInv ==
  Before => /\ Sized
            /\ \A w \in Workers : wpc[w] \in {"gate", "gate_wait", "loop", "start",
                                              "stop", "exited"}
            /\ Holds(start_in, "start", main \in MainWaits)
            /\ start_out = {}
            /\ stop_in = {}
            /\ Holds(stop_out, "stop", FALSE)

RunningInv ==
  Running => /\ Sized
             /\ \A w \in Workers : wpc[w] \in {"start", "check", "job", "stop_arrive", "stop"}
             /\ start_in = {}
             /\ Holds(start_out, "start", main = "d_start_wait")
             /\ Holds(stop_in, "stop", main = "d_stop_wait")
             /\ stop_out = {}
             /\ \A w \in Workers, r \in Rows :
                  Owns(w, r) => hits[r] = IF wpc[w] \in {"stop_arrive", "stop"} THEN 1 ELSE 0

AfterInv ==
  After => /\ Sized
           /\ \A w \in Workers : wpc[w] \in {"loop", "start", "stop"}
           /\ Holds(start_in, "start", FALSE)
           /\ start_out = {}
           /\ stop_in = {}
           /\ Holds(stop_out, "stop", TRUE)
           /\ \A r \in Rows : hits[r] = 1

StoppingInv ==
  Stopping => /\ \A w \in Workers : wpc[w] \in {"start", "check", "exited"}
              /\ start_in = {}
              /\ Holds(start_out, "start", main = "s_start_wait")
              /\ stop_in = {}
              /\ stop_out = {}

FlagsInv ==
  /\ main \in DispatchPCs => active /\ ~shutting_down
  /\ main \in ShutdownPCs => ~active /\ shutting_down
  /\ main \in InitPCs \cup {"new"} => ~active /\ generation = 0
  /\ active => ~shutting_down
  /\ main \in {"await_check", "await_wait"} => ~shutting_down

HitsInv ==
  /\ main \in {"ready"} \cup ShutdownPCs /\ generation > 0 => \A r \in Rows : hits[r] = 1
  /\ main = "d_start" \/ (main = "d_start_wait" /\ Main \in start_in)
       => \A r \in Rows : hits[r] = 0

PoolInv ==
  /\ TypeOK /\ FreshInv /\ CreateInv /\ FailInv /\ OffInv /\ InlineInv
  /\ BeforeInv /\ RunningInv /\ AfterInv /\ StoppingInv /\ FlagsInv /\ HitsInv

----------------------------------------------------------------------------
(***************************************************************************)
(* pthread_barrier_wait(&start_barrier): the last arrival releases all the  *)
(* threads, any other one is added to the waiting ones.                     *)
(***************************************************************************)
LEMMA ArriveStartFacts ==
  ASSUME start_in \subseteq Threads, start_out \subseteq Threads,
         NEW t \in Threads, ArriveStart(t)
  PROVE  /\ start_in' \subseteq Threads /\ start_out' \subseteq Threads
         /\ \/ /\ \A u \in Threads : u # t => u \in start_in
               /\ start_in' = {}
               /\ \A u \in Threads : u \in start_out'
            \/ /\ \E u \in Threads : u # t /\ u \notin start_in
               /\ \A u \in Threads : u \in start_in' <=> u \in start_in \/ u = t
               /\ start_out' = start_out
  <1>1. CASE start_in \cup {t} = Threads
    BY <1>1 DEF ArriveStart
  <1>2. CASE start_in \cup {t} # Threads
    BY <1>2 DEF ArriveStart
  <1> QED
    BY <1>1, <1>2

(***************************************************************************)
(* pthread_barrier_wait(&stop_barrier), likewise.                           *)
(***************************************************************************)
LEMMA ArriveStopFacts ==
  ASSUME stop_in \subseteq Threads, stop_out \subseteq Threads,
         NEW t \in Threads, ArriveStop(t)
  PROVE  /\ stop_in' \subseteq Threads /\ stop_out' \subseteq Threads
         /\ \/ /\ \A u \in Threads : u # t => u \in stop_in
               /\ stop_in' = {}
               /\ \A u \in Threads : u \in stop_out'
            \/ /\ \E u \in Threads : u # t /\ u \notin stop_in
               /\ \A u \in Threads : u \in stop_in' <=> u \in stop_in \/ u = t
               /\ stop_out' = stop_out
  <1>1. CASE stop_in \cup {t} = Threads
    BY <1>1 DEF ArriveStop
  <1>2. CASE stop_in \cup {t} # Threads
    BY <1>2 DEF ArriveStop
  <1> QED
    BY <1>1, <1>2

\* The layout of the state, and the invariant, are expanded from here on.
USE PoolAssumption
USE DEF gate_vars, start_vars, stop_vars, geometry, work_vars, Workers, Main, Threads, Rows,
        InitPCs, DispatchPCs, ShutdownPCs, MainWaits, Quiet, Sized
USE DEF PoolInv, TypeOK, FreshInv, CreateInv, FailInv, OffInv, InlineInv, BeforeInv, RunningInv,
        AfterInv, StoppingInv, FlagsInv, HitsInv, Before, Running, After, Stopping, Holds

(***************************************************************************)
(* A worker comes to the start barrier (worker_pool.c:37).  It is the last  *)
(* one only if the main thread waits there, in a dispatch or in a shutdown. *)
(***************************************************************************)
LEMMA WorkerArrivesStartInv ==
  ASSUME PoolInv, NEW w \in Workers, WorkerArrivesStart(w)
  PROVE  PoolInv'
  <1>1. w \in Threads /\ Main \in Threads /\ w # Main /\ wpc[w] = "loop"
    BY DEF WorkerArrivesStart
  <1>2. Before \/ After
    BY <1>1, SMTT(20) DEF WorkerArrivesStart
  <1>3. CASE \A u \in Threads : u # w => u \in start_in
    <2>1. main \in MainWaits /\ Main \in start_in /\ Before
      BY <1>1, <1>2, <1>3
    <2>2. \A v \in Workers : wpc'[v] = "start"
      BY <1>1, <1>3, <2>1, SMTT(20) DEF WorkerArrivesStart
    <2>3. start_in' = {} /\ (\A u \in Threads : u \in start_out') /\ start_out' \subseteq Threads
      BY <1>1, <1>3, ArriveStartFacts DEF WorkerArrivesStart
    <2> QED
      BY <1>1, <1>3, <2>1, <2>2, <2>3, SMTT(20) DEF WorkerArrivesStart
  <1>4. CASE \E u \in Threads : u # w /\ u \notin start_in
    <2>1. /\ \A u \in Threads : u \in start_in' <=> u \in start_in \/ u = w
          /\ start_out' = start_out
          /\ start_in' \subseteq Threads
      BY <1>1, <1>4, ArriveStartFacts DEF WorkerArrivesStart
    <2> QED
      BY <1>1, <1>2, <2>1, SMTT(20) DEF WorkerArrivesStart
  <1> QED
    BY <1>3, <1>4

(***************************************************************************)
(* Once every worker has rendered its band, every row has been rendered     *)
(* exactly once: the bands cover the rows.                                  *)
(***************************************************************************)
LEMMA AllOwned ==
  ASSUME PoolInv, Running, \A w \in Workers : wpc[w] \in {"stop", "stop_arrive"}
  PROVE  \A r \in Rows : hits[r] = 1
  BY BandsCover

(***************************************************************************)
(* A worker comes to the stop barrier (worker_pool.c:47) with its band      *)
(* done.                                                                    *)
(***************************************************************************)
LEMMA WorkerArrivesStopInv ==
  ASSUME PoolInv, NEW w \in Workers, WorkerArrivesStop(w)
  PROVE  PoolInv'
  <1>1. w \in Threads /\ Main \in Threads /\ w # Main /\ wpc[w] = "stop_arrive"
    BY DEF WorkerArrivesStop
  <1>2. Running
    BY <1>1, SMTT(20) DEF WorkerArrivesStop
  <1>3. CASE \A u \in Threads : u # w => u \in stop_in
    <2>1. main = "d_stop_wait" /\ Main \in stop_in
      BY <1>1, <1>2, <1>3
    <2>2. \A v \in Workers : wpc[v] \in {"stop", "stop_arrive"} /\ wpc'[v] = "stop"
      BY <1>1, <1>2, <1>3, <2>1, SMTT(20) DEF WorkerArrivesStop
    <2>3. stop_in' = {} /\ (\A u \in Threads : u \in stop_out') /\ stop_out' \subseteq Threads
      BY <1>1, <1>3, ArriveStopFacts DEF WorkerArrivesStop
    <2>4. \A r \in Rows : hits[r] = 1
      BY <1>2, <2>2, AllOwned
    <2> QED
      BY <1>1, <1>2, <1>3, <2>1, <2>2, <2>3, <2>4, SMTT(20) DEF WorkerArrivesStop
  <1>4. CASE \E u \in Threads : u # w /\ u \notin stop_in
    <2>1. /\ \A u \in Threads : u \in stop_in' <=> u \in stop_in \/ u = w
          /\ stop_out' = stop_out
          /\ stop_in' \subseteq Threads
      BY <1>1, <1>4, ArriveStopFacts DEF WorkerArrivesStop
    <2> QED
      BY <1>1, <1>2, <2>1, SMTT(20) DEF WorkerArrivesStop
  <1> QED
    BY <1>3, <1>4

(***************************************************************************)
(* The dispatcher comes to the stop barrier (worker_pool.c:140).            *)
(***************************************************************************)
LEMMA DispatchArrivesStopInv ==
  ASSUME PoolInv, DispatchArrivesStop
  PROVE  PoolInv'
  <1>1. Main \in Threads /\ main = "d_stop" /\ Running
    BY DEF DispatchArrivesStop
  <1>3. CASE \A u \in Threads : u # Main => u \in stop_in
    <2>2. \A v \in Workers : wpc[v] = "stop"
      BY <1>1, <1>3, SMTT(20) DEF DispatchArrivesStop
    <2>3. stop_in' = {} /\ (\A u \in Threads : u \in stop_out') /\ stop_out' \subseteq Threads
      BY <1>1, <1>3, ArriveStopFacts DEF DispatchArrivesStop
    <2>4. \A r \in Rows : hits[r] = 1
      BY <1>1, <2>2, AllOwned
    <2> QED
      BY <1>1, <1>3, <2>2, <2>3, <2>4, SMTT(20) DEF DispatchArrivesStop
  <1>4. CASE \E u \in Threads : u # Main /\ u \notin stop_in
    <2>1. /\ \A u \in Threads : u \in stop_in' <=> u \in stop_in \/ u = Main
          /\ stop_out' = stop_out
          /\ stop_in' \subseteq Threads
      BY <1>1, <1>4, ArriveStopFacts DEF DispatchArrivesStop
    <2> QED
      BY <1>1, <2>1, SMTT(20) DEF DispatchArrivesStop
  <1> QED
    BY <1>3, <1>4

(***************************************************************************)
(* A worker renders its band (worker_pool.c:40-46): no other worker's rows  *)
(* are touched, because the bands are disjoint.                             *)
(***************************************************************************)
LEMMA WorkerRunsJobInv ==
  ASSUME PoolInv, NEW w \in Workers, WorkerRunsJob(w)
  PROVE  PoolInv'
  <1>1. Running /\ wpc[w] = "job"
    BY DEF WorkerRunsJob
  <1>2. \A r \in Rows : InBand(w, r) <=> Owns(w, r)
    BY <1>1 DEF InBand, BandStart, BandEnd, Owns, First
  <1>3. \A r \in Rows : hits'[r] = IF Owns(w, r) THEN hits[r] + 1 ELSE hits[r]
    BY <1>2 DEF WorkerRunsJob, Render
  <1>4. hits' \in [Rows -> Nat]
    BY <1>2 DEF WorkerRunsJob, Render
  <1>5. ASSUME NEW v \in Workers, NEW r \in Rows, Owns(v, r)
        PROVE  hits'[r] = IF wpc'[v] \in {"stop_arrive", "stop"} THEN 1 ELSE 0
    <2>1. CASE v = w
      BY <1>1, <1>3, <1>5, <2>1 DEF WorkerRunsJob
    <2>2. CASE v # w
      <3>1. ~Owns(w, r)
        BY <1>1, <1>5, <2>2, BandsDisjoint
      <3> QED
        BY <1>1, <1>3, <1>5, <2>2, <3>1 DEF WorkerRunsJob
    <2> QED
      BY <2>1, <2>2
  <1>6. RunningInv'
    BY <1>1, <1>5, SMTT(20) DEF WorkerRunsJob
  <1> QED
   BY <1>1, <1>4, <1>6, SMTT(20) DEF WorkerRunsJob

(***************************************************************************)
(* Every step of the pool keeps the invariant: one case per action.         *)
(***************************************************************************)
LEMMA PoolInvStep ==
  ASSUME PoolInv, [Next]_vars
  PROVE  PoolInv'
  <1>1. ASSUME NEW w \in Workers, WorkerStep(w) \/ SpuriousWakeup(w)
        PROVE  PoolInv'
    <2>1. CASE GateClosed(w)
      BY <2>1, SMTT(20) DEF GateClosed
    <2>2. CASE GateAbandoned(w)
      BY <2>2, SMTT(20) DEF GateAbandoned
    <2>3. CASE GatePassed(w)
      BY <2>3, SMTT(20) DEF GatePassed, Woken
    <2>4. CASE WorkerArrivesStart(w)
      BY <2>4, WorkerArrivesStartInv
    <2>5. CASE WorkerLeavesStart(w)
      BY <2>5, SMTT(20) DEF WorkerLeavesStart, LeaveStart
    <2>6. CASE WorkerChecksShutdown(w)
      <3>1. CASE shutting_down
        BY <2>6, <3>1, SMTT(20) DEF WorkerChecksShutdown
      <3>2. CASE ~shutting_down
        BY <2>6, <3>2, SMTT(20) DEF WorkerChecksShutdown
      <3> QED
        BY <3>1, <3>2
    <2>7. CASE WorkerRunsJob(w)
      BY <2>7, WorkerRunsJobInv
    <2>8. CASE WorkerArrivesStop(w)
      BY <2>8, WorkerArrivesStopInv
    <2>9. CASE WorkerLeavesStop(w)
      BY <2>9, SMTT(20) DEF WorkerLeavesStop, LeaveStop
    <2>10. CASE SpuriousWakeup(w)
      BY <2>10, SMTT(20) DEF SpuriousWakeup
    <2> HIDE DEF PoolInv
    <2> QED
      BY <1>1, <2>1, <2>2, <2>3, <2>4, <2>5, <2>6, <2>7, <2>8, <2>9, <2>10 DEF WorkerStep
  <1>2. CASE MainSpuriousWakeup
    BY <1>2, SMTT(20) DEF MainSpuriousWakeup
  <1>3. CASE InitInline
    BY <1>3, SMTT(20) DEF InitInline
  <1>4. CASE InitSyncFails
    BY <1>4, SMTT(20) DEF InitSyncFails
  <1>5. CASE InitSync
    BY <1>5, SMTT(20) DEF InitSync
  <1>6. CASE CreateThread
    BY <1>6, SMTT(20) DEF CreateThread
  <1>7. CASE CreateFails
    BY <1>7, SMTT(20) DEF CreateFails, Broadcast, Woken
  <1>8. CASE FailJoin
    BY <1>8, SMTT(20) DEF FailJoin
  <1>9. CASE OpenGate
    BY <1>9, SMTT(20) DEF OpenGate, Broadcast, Woken
  <1>10. CASE AwaitAgain
    BY <1>10, SMTT(20) DEF AwaitAgain
  <1>11. CASE AwaitDone
    BY <1>11, SMTT(20) DEF AwaitDone
  <1>12. CASE DispatchInline
    BY <1>12, SMTT(20) DEF DispatchInline
  <1>13. CASE DispatchPublish
    BY <1>13, SMTT(20) DEF DispatchPublish
  <1>14. CASE DispatchArrivesStart
    BY <1>14, ArriveStartFacts, SMTT(20) DEF DispatchArrivesStart
  <1>15. CASE DispatchLeavesStart
    BY <1>15, SMTT(20) DEF DispatchLeavesStart, LeaveStart
  <1>16. CASE DispatchArrivesStop
    BY <1>16, DispatchArrivesStopInv
  <1>17. CASE DispatchReturns
    BY <1>17, SMTT(20) DEF DispatchReturns, LeaveStop
  <1>18. CASE ShutdownInline
    <2>1. active' \in BOOLEAN
      BY <1>18, Zenon DEF ShutdownInline
    <2> QED
      BY <1>18, <2>1, SMTT(20) DEF ShutdownInline
  <1>19. CASE ShutdownBegins
    <2>1. active' \in BOOLEAN /\ shutting_down' \in BOOLEAN
      BY <1>19, Zenon DEF ShutdownBegins
    <2> QED
      BY <1>19, <2>1, SMTT(20) DEF ShutdownBegins
  <1>20. CASE ShutdownArrivesStart
    BY <1>20, ArriveStartFacts, SMTT(20) DEF ShutdownArrivesStart
  <1>21. CASE ShutdownLeavesStart
    BY <1>21, SMTT(20) DEF ShutdownLeavesStart, LeaveStart
  <1>22. CASE ShutdownJoins
    BY <1>22, SMTT(20) DEF ShutdownJoins
  <1>23. CASE UNCHANGED vars
    BY <1>23, SMTT(20) DEF vars
  <1> HIDE DEF PoolInv
  <1> QED
    BY <1>1, <1>2, <1>3, <1>4, <1>5, <1>6, <1>7, <1>8, <1>9, <1>10, <1>11,
       <1>12, <1>13, <1>14, <1>15, <1>16, <1>17, <1>18, <1>19, <1>20, <1>21,
       <1>22, <1>23
    DEF Next, CallStep, CallerStep, Finished

(***************************************************************************)
(* The zeroed pool before cart_worker_pool_init satisfies the invariant.    *)
(***************************************************************************)
LEMMA InitPoolInv == Init => PoolInv
  <1> SUFFICES ASSUME Init PROVE PoolInv
    OBVIOUS
  <1>1. active \in BOOLEAN /\ shutting_down \in BOOLEAN /\ startup_ready \in BOOLEAN
    BY Zenon DEF Init
  <1>2. TypeOK
    BY <1>1 DEF Init
  <1> QED
    BY <1>2, SMTT(20) DEF Init

HIDE DEF PoolInv, TypeOK

(***************************************************************************)
(* The inductive invariant holds in every reachable state of the pool, for  *)
(* any number of workers, rows and dispatches.                              *)
(***************************************************************************)
THEOREM PoolInvariant == Spec => []PoolInv
  BY InitPoolInv, PoolInvStep, PTL DEF Spec

(***************************************************************************)
(* Type correctness; in particular the creation loop never indexes past the *)
(* last thread and the barriers only ever hold threads of the pool.         *)
(***************************************************************************)
THEOREM PoolTypeCorrect == Spec => []TypeOK
  <1>1. PoolInv => TypeOK
    BY DEF PoolInv
  <1> QED
    BY <1>1, PoolInvariant, PTL

(***************************************************************************)
(* A dispatch returns only when each row has been rendered exactly once     *)
(* (worker_pool.h:23-25), for every split of rows over workers.             *)
(***************************************************************************)
THEOREM EveryRowIsRenderedOnce == Spec => []EveryRowOnce
  <1>1. PoolInv => EveryRowOnce
    BY DEF PoolInv, EveryRowOnce
  <1> QED
    BY <1>1, PoolInvariant, PTL

(***************************************************************************)
(* The unlocked writes of job, slots and generation (worker_pool.c:135-137) *)
(* happen while no worker can read them.                                    *)
(***************************************************************************)
THEOREM PublicationIsUnobserved == Spec => []PublishedAlone
  <1>1. PoolInv => PublishedAlone
    BY DEF PoolInv, PublishedAlone
  <1> QED
    BY <1>1, PoolInvariant, PTL

(***************************************************************************)
(* No barrier is destroyed with a thread in it, and a failed init joins     *)
(* only workers that never entered a barrier (worker_pool.c:94-107).        *)
(***************************************************************************)
THEOREM BarriersAreEmptyAtDestroy == Spec => []BarriersEmptyAtDestroy
  <1>1. PoolInv => BarriersEmptyAtDestroy
    BY DEF PoolInv, BarriersEmptyAtDestroy
  <1> QED
    BY <1>1, PoolInvariant, PTL

----------------------------------------------------------------------------
(***************************************************************************)
(* The startup gate counts: while init waits, startup_released is the       *)
(* number of workers that came through.  Afterwards none is left there.     *)
(***************************************************************************)
AtGate == {"none", "gate", "gate_wait"}
Passed == {w \in Workers : wpc[w] \notin AtGate}

\* A step that neither lets a worker through the gate nor ends the wait for them.
Starting == {"new", "create", "await_check", "await_wait"}
GateStill ==
  /\ \A w \in Workers : wpc[w] \notin AtGate => wpc'[w] \notin AtGate
  /\ main' \in Starting => /\ main \in Starting /\ startup_released' = startup_released
                           /\ \A w \in Workers : wpc'[w] \in AtGate <=> wpc[w] \in AtGate
  /\ active' /\ worker_count' # 0 => active /\ worker_count # 0

GateInv ==
  /\ main \in Starting
       => startup_released = Cardinality(Passed)
  /\ active /\ worker_count # 0 => \A w \in Workers : wpc[w] \notin AtGate

(***************************************************************************)
(* A count of N workers through the gate means all of them.                 *)
(***************************************************************************)
LEMMA PassedIsFinite ==
  /\ IsFiniteSet(Workers) /\ Cardinality(Workers) = N
  /\ IsFiniteSet(Passed)
  /\ Cardinality(Passed) = N => Passed = Workers
  <1>1. IsFiniteSet(Workers) /\ Cardinality(Workers) = N
    BY FS_Interval
  <1>2. Passed \subseteq Workers
    BY DEF Passed
  <1> QED
    BY <1>1, <1>2, FS_Subset, Zenon

(***************************************************************************)
(* Before init nobody is through the gate and the count is zero.            *)
(***************************************************************************)
LEMMA InitGateInv == Init => GateInv
  <1> SUFFICES ASSUME Init PROVE GateInv
    OBVIOUS
  <1>1. Passed = {}
    BY DEF Init, Passed, AtGate
  <1>2. Cardinality(Passed) = 0
    BY <1>1, FS_EmptySet
  <1> QED
    BY <1>2 DEF Init, GateInv, Starting

(***************************************************************************)
(* Every step keeps the count of the gate right: GatePassed adds one worker *)
(* to both sides, AwaitDone is where the count is used, and every other     *)
(* step leaves the gate as it is.                                           *)
(***************************************************************************)
LEMMA GateInvStep ==
  ASSUME PoolInv, GateInv, [Next]_vars
  PROVE  GateInv'
  <1> USE DEF PoolInv, TypeOK, AtGate, Starting
  <1>1. ASSUME NEW w \in Workers, GatePassed(w)
        PROVE  GateInv'
    <2>1. w \notin Passed /\ Passed' = Passed \cup {w}
      BY <1>1, SMTT(20) DEF GatePassed, Woken, Passed
    <2>2. Cardinality(Passed') = Cardinality(Passed) + 1
      BY <2>1, PassedIsFinite, FS_AddElement
    <2> QED
      BY <1>1, <2>2, SMTT(20) DEF GatePassed, Woken, GateInv
  <1>2. CASE AwaitDone
    <2>1. Passed = Workers
      BY <1>2, PassedIsFinite DEF AwaitDone, GateInv
    <2> QED
      BY <1>2, <2>1 DEF AwaitDone, GateInv, Passed
  <1>3. ASSUME GateStill
        PROVE  GateInv'
    <2>1. main' \in Starting => Passed' = Passed
      BY <1>3 DEF GateStill, Passed
    <2> QED
      BY <1>3, <2>1, SMTT(20) DEF GateStill, GateInv
  <1>4. ASSUME NEW w \in Workers,
               \/ GateClosed(w) \/ GateAbandoned(w) \/ SpuriousWakeup(w)
               \/ WorkerArrivesStart(w) \/ WorkerLeavesStart(w) \/ WorkerChecksShutdown(w)
               \/ WorkerRunsJob(w) \/ WorkerArrivesStop(w) \/ WorkerLeavesStop(w)
        PROVE  GateStill
    BY <1>4, SMTT(20)
    DEF GateStill, GateClosed, GateAbandoned, SpuriousWakeup, WorkerArrivesStart, WorkerLeavesStart,
        WorkerChecksShutdown, WorkerRunsJob, WorkerArrivesStop, WorkerLeavesStop
  <1>5. CASE CreateThread \/ CreateFails \/ OpenGate
    BY <1>3, <1>5, SMTT(20) DEF GateStill, CreateThread, CreateFails, OpenGate, Broadcast, Woken
  <1>6. CASE \/ MainSpuriousWakeup \/ InitInline \/ InitSyncFails \/ InitSync
             \/ FailJoin \/ AwaitAgain
    BY <1>3, <1>6, SMTT(20)
    DEF GateStill, MainSpuriousWakeup, InitInline, InitSyncFails, InitSync, FailJoin, AwaitAgain
  <1>7. CASE \/ DispatchInline \/ DispatchPublish \/ DispatchArrivesStart
             \/ DispatchLeavesStart \/ DispatchArrivesStop \/ DispatchReturns
    BY <1>3, <1>7, SMTT(20)
    DEF GateStill, DispatchInline, DispatchPublish, DispatchArrivesStart, DispatchLeavesStart,
        DispatchArrivesStop, DispatchReturns
  <1>8. CASE \/ ShutdownInline \/ ShutdownBegins \/ ShutdownArrivesStart
             \/ ShutdownLeavesStart \/ ShutdownJoins
    BY <1>3, <1>8, SMTT(20)
    DEF GateStill, ShutdownInline, ShutdownBegins, ShutdownArrivesStart, ShutdownLeavesStart,
        ShutdownJoins
  <1>9. CASE UNCHANGED vars
    BY <1>3, <1>9, SMTT(20) DEF GateStill, vars
  <1> HIDE DEF PoolInv, TypeOK
  <1> QED
    BY <1>1, <1>2, <1>3, <1>4, <1>5, <1>6, <1>7, <1>8, <1>9
    DEF Next, WorkerStep, CallStep, CallerStep, Finished

(***************************************************************************)
(* A pool that init reported as usable has no worker at the gate: the wait  *)
(* for startup_released = worker_count (worker_pool.c:116) suffices.        *)
(***************************************************************************)
THEOREM GateIsPassed == Spec => []ThroughGate
  <1>1. PoolInv /\ GateInv => ThroughGate
    BY DEF GateInv, ThroughGate, PoolInv, TypeOK, AtGate
  <1>2. Spec => []GateInv
    BY InitGateInv, GateInvStep, PoolInvariant, PTL DEF Spec
  <1> QED
    BY <1>1, <1>2, PoolInvariant, PTL

----------------------------------------------------------------------------
(***************************************************************************)
(* The pool of threads implements the parallel loop of worker_pool.h: each  *)
(* step of the threads is a step of the loop or none at all.                *)
(***************************************************************************)
THEOREM PoolImplementsParallelFor == Spec => ImplementsParallelFor
  <1> DEFINE LoopNext == \/ Loop!Open \/ Loop!Begin \/ Loop!Do \/ Loop!End
                         \/ Loop!RunInline \/ Loop!Close
  <1> USE DEF loop_phase, loop_todo
  <1>1. Init => Loop!LoopInit
    BY DEF Init, Loop!LoopInit
  <1>2. ASSUME PoolInv, [Next]_vars
        PROVE  [LoopNext]_(Loop!loop_vars)
    <2> USE <1>2 DEF PoolInv, TypeOK, Loop!loop_vars
    <2>1. CASE InitInline \/ AwaitDone
      <3>1. Loop!Open
        BY <2>1, SMTT(20) DEF InitInline, AwaitDone, Loop!Open
      <3> QED
        BY <3>1
    <2>2. CASE DispatchPublish
      <3>1. Loop!Begin
        BY <2>2, SMTT(20) DEF DispatchPublish, Loop!Begin
      <3> QED
        BY <3>1
    <2>3. CASE DispatchInline
      <3>1. Loop!RunInline
        BY <2>3, SMTT(20) DEF DispatchInline, Loop!RunInline
      <3> QED
        BY <3>1
    <2>4. ASSUME NEW w \in Workers, WorkerRunsJob(w)
          PROVE  Loop!Do
      BY <2>4, SMTT(20) DEF WorkerRunsJob, Render, Loop!Do
    <2>5. CASE DispatchReturns
      <3>1. Loop!End
        BY <2>5, SMTT(20) DEF DispatchReturns, LeaveStop, Loop!End
      <3> QED
        BY <3>1
    <2>6. CASE ShutdownInline \/ ShutdownBegins
      <3>1. Loop!Close
        BY <2>6, SMTT(20) DEF ShutdownInline, ShutdownBegins, Loop!Close
      <3> QED
        BY <3>1
    <2>7. ASSUME NEW w \in Workers,
               \/ GateClosed(w) \/ GateAbandoned(w) \/ GatePassed(w) \/ SpuriousWakeup(w)
               \/ WorkerArrivesStart(w) \/ WorkerLeavesStart(w) \/ WorkerChecksShutdown(w)
               \/ WorkerArrivesStop(w) \/ WorkerLeavesStop(w)
          PROVE  UNCHANGED Loop!loop_vars
      BY <2>7, SMTT(20)
      DEF GateClosed, GateAbandoned, GatePassed, SpuriousWakeup, WorkerArrivesStart,
          WorkerLeavesStart, WorkerChecksShutdown, WorkerArrivesStop, WorkerLeavesStop
    <2>8. CASE \/ MainSpuriousWakeup \/ InitSyncFails \/ InitSync \/ CreateThread \/ CreateFails
               \/ FailJoin \/ OpenGate \/ AwaitAgain
      BY <2>8, SMTT(20)
      DEF MainSpuriousWakeup, InitSyncFails, InitSync, CreateThread, CreateFails, FailJoin,
          OpenGate, AwaitAgain
    <2>9. CASE \/ DispatchArrivesStart \/ DispatchLeavesStart \/ DispatchArrivesStop
               \/ ShutdownArrivesStart \/ ShutdownLeavesStart \/ ShutdownJoins
      BY <2>9, SMTT(20)
      DEF DispatchArrivesStart, DispatchLeavesStart, DispatchArrivesStop,
          ShutdownArrivesStart, ShutdownLeavesStart, ShutdownJoins
    <2>10. CASE UNCHANGED vars
      BY <2>10 DEF vars
    <2> HIDE DEF PoolInv, TypeOK
    <2> QED
      BY <2>1, <2>2, <2>3, <2>4, <2>5, <2>6, <2>7, <2>8, <2>9, <2>10
      DEF Next, WorkerStep, CallStep, CallerStep, Finished
  <1> QED
    BY <1>1, <1>2, PoolInvariant, PTL DEF Spec, ImplementsParallelFor, Loop!Spec
=============================================================================
