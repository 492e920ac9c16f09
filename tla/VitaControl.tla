---------------------------- MODULE VitaControl ----------------------------
(***************************************************************************)
(* toolkit/share/vita-control.c, `vita-control next`: any number of calls,  *)
(* each a process of its own, validate the cart behind the PID file, pass a *)
(* rate limit kept in a flocked state file, and send SIGUSR1.               *)
(*                                                                          *)
(* One action per system call whose order matters.  The processes of the    *)
(* system come and go and PIDs are reused; a call may be killed anywhere.   *)
(***************************************************************************)
EXTENDS Integers, Sequences, FiniteSets

CONSTANTS
  Clients,   \* who runs `vita-control next`
  Pids,      \* process numbers
  Interval,  \* min_interval_ms, in ticks of the monotonic clock
  MaxClock, MaxCalls, MaxStarts, MaxFaults  \* bounds

ASSUME ControlAssumption ==
  /\ Pids \subseteq Nat \ {0} /\ "nobody" \notin Clients
  /\ Interval \in Nat
  /\ MaxClock \in Nat /\ MaxCalls \in Nat /\ MaxStarts \in Nat /\ MaxFaults \in Nat

NoPid    == 0    \* also a PID file that is missing or holds no number
NoClient == "nobody"
Empty    == -1   \* a state file that is missing, truncated or unparsable

VARIABLES
  clock,    \* CLOCK_MONOTONIC
  exe,      \* what runs under each process number: "none", "cart", "other"
  pidfile,  \* what the PID file names
  state,    \* the number in the state file, or Empty
  lock,     \* who holds the flock
  pc, pid, now

\* What happened so far: the clock readings of the accepted calls in the order
\* they were accepted; whether two calls overlapped between reading the clock
\* and the unlock; whether a write of the state file failed or was cut short;
\* the calls whose PID was given to a new process after the validation; whether
\* another program got the signal although no PID was reused.
VARIABLES accepted, overlapped, torn, reused, misdirected

VARIABLES calls_used, starts_used, faults_used

system_vars == <<exe, pidfile>>
ghost_vars  == <<accepted, overlapped, torn, reused, misdirected>>
bound_vars  == <<calls_used, starts_used, faults_used>>
vars == <<clock, system_vars, state, lock, pc, pid, now, ghost_vars, bound_vars>>

\* Where a call stands: the states from "locking" to "unlocking" are the ones
\* between its clock reading and the release of the file.
Steps == {"idle", "alive", "inspect", "sample", "locking", "check", "write", "unlocking", "signal"}
InRateState == {"locking", "check", "write", "unlocking"}

TypeOK ==
  /\ clock \in 0 .. MaxClock
  /\ exe \in [Pids -> {"none", "cart", "other"}]
  /\ pidfile \in Pids \cup {NoPid}
  /\ state \in 0 .. MaxClock \cup {Empty}
  /\ lock \in Clients \cup {NoClient}
  /\ pc \in [Clients -> Steps]
  /\ \A c \in Clients : pc[c] \in {"check", "write", "unlocking"} => lock = c
  /\ pid \in [Clients -> Pids \cup {NoPid}]
  /\ now \in [Clients -> 0 .. MaxClock]
  /\ accepted \in Seq(0 .. MaxClock)
  /\ overlapped \in BOOLEAN /\ torn \in BOOLEAN /\ misdirected \in BOOLEAN
  /\ reused \subseteq Clients

Init ==
  /\ clock = 0
  /\ \E p \in Pids :
       /\ exe = [q \in Pids |-> IF q = p THEN "cart" ELSE "none"]
       /\ pidfile = p
  /\ state = Empty /\ lock = NoClient
  /\ pc = [c \in Clients |-> "idle"]
  /\ pid = [c \in Clients |-> NoPid]
  /\ now = [c \in Clients |-> 0]
  /\ accepted = <<>> /\ overlapped = FALSE /\ torn = FALSE
  /\ reused = {} /\ misdirected = FALSE
  /\ calls_used = 0 /\ starts_used = 0 /\ faults_used = 0

----------------------------------------------------------------------------
(* The system around the calls *)

ClockAdvances ==
  /\ clock < MaxClock /\ clock' = clock + 1
  /\ UNCHANGED <<system_vars, state, lock, pc, pid, now, ghost_vars, bound_vars>>

ProcessExits(p) ==
  /\ exe[p] # "none"
  /\ exe' = [exe EXCEPT ![p] = "none"]
  /\ UNCHANGED <<clock, pidfile, state, lock, pc, pid, now, ghost_vars, bound_vars>>

\* A process is started under a free number; start-demo-cart.sh also writes
\* the PID file.
ProcessStarts(p) ==
  /\ exe[p] = "none"
  /\ starts_used < MaxStarts /\ starts_used' = starts_used + 1
  /\ \E kind \in {"cart", "other"} :
       /\ exe' = [exe EXCEPT ![p] = kind]
       /\ pidfile' = IF kind = "cart" THEN p ELSE pidfile
  /\ reused' = reused \cup {c \in Clients : pid[c] = p /\ pc[c] \in InRateState \cup {"sample", "signal"}}
  /\ UNCHANGED <<clock, state, lock, pc, pid, now, accepted, overlapped, torn, misdirected,
                 calls_used, faults_used>>

\* stop-demo-cart.sh removes the PID file.
PidfileRemoved ==
  /\ pidfile # NoPid /\ pidfile' = NoPid
  /\ UNCHANGED <<clock, exe, state, lock, pc, pid, now, ghost_vars, bound_vars>>

----------------------------------------------------------------------------
(* One call *)

GoTo(c, step) == pc' = [pc EXCEPT ![c] = step]

\* The call is over, with whatever message.
Ends(c) ==
  /\ GoTo(c, "idle") /\ pid' = [pid EXCEPT ![c] = NoPid] /\ now' = [now EXCEPT ![c] = 0]
  /\ reused' = reused \ {c}

\* load_target, the PID file: without a number in it the call ends at once.
ReadPidfile(c) ==
  /\ pc[c] = "idle"
  /\ calls_used < MaxCalls /\ calls_used' = calls_used + 1
  /\ pidfile # NoPid
  /\ pid' = [pid EXCEPT ![c] = pidfile]
  /\ GoTo(c, "alive")
  /\ UNCHANGED <<clock, system_vars, state, lock, now, ghost_vars, starts_used, faults_used>>

\* load_target, kill(pid, 0).
CheckAlive(c) ==
  /\ pc[c] = "alive"
  /\ IF exe[pid[c]] = "none" THEN Ends(c) ELSE GoTo(c, "inspect") /\ UNCHANGED <<pid, now, reused>>
  /\ UNCHANGED <<clock, system_vars, state, lock, accepted, overlapped, torn, misdirected,
                 bound_vars>>

\* An inspection that only asks for a running process (mutant).
exe_matches_any(p) == exe[p] # "none"

\* load_target, readlink and strcmp.
exe_matches(p) == exe[p] = "cart"

InspectExe(c) ==
  /\ pc[c] = "inspect"
  /\ IF exe_matches(pid[c]) THEN GoTo(c, "sample") /\ UNCHANGED <<pid, now, reused>> ELSE Ends(c)
  /\ UNCHANGED <<clock, system_vars, state, lock, accepted, overlapped, torn, misdirected,
                 bound_vars>>

\* main reads the clock before update_rate_state takes the lock.
SampleClock(c) ==
  /\ pc[c] = "sample"
  /\ now' = [now EXCEPT ![c] = clock]
  /\ GoTo(c, "locking")
  /\ overlapped' = (overlapped \/ \E d \in Clients : pc[d] \in InRateState)
  /\ UNCHANGED <<clock, system_vars, state, lock, pid, accepted, torn, reused, misdirected,
                 bound_vars>>

TakeLock(c) ==
  /\ pc[c] = "locking" /\ lock = NoClient
  /\ lock' = c
  /\ GoTo(c, "check")
  /\ UNCHANGED <<clock, system_vars, state, pid, now, ghost_vars, bound_vars>>

\* open or flock fails: rate_state_unavailable.
LockFails(c) ==
  /\ pc[c] = "locking"
  /\ faults_used < MaxFaults /\ faults_used' = faults_used + 1
  /\ Ends(c)
  /\ UNCHANGED <<clock, system_vars, state, lock, accepted, overlapped, torn, misdirected,
                 calls_used, starts_used>>

\* A limit one tick too short (mutant).
rate_limited_short(t) == state # Empty /\ t >= state /\ t - state < Interval - 1

\* Lines 178-180: a reading before the recorded one passes.
rate_limited(t) == state # Empty /\ t >= state /\ t - state < Interval

\* A refusal that waits for its turn with the file locked (mutant).
RefuseWaits(c) ==
  /\ pc[c] = "check" /\ rate_limited(now[c])
  /\ now' = [now EXCEPT ![c] = clock]
  /\ UNCHANGED <<clock, system_vars, state, lock, pc, pid, ghost_vars, bound_vars>>

\* rate_limited: the call unlocks the file and ends.
Refuse(c) ==
  /\ pc[c] = "check" /\ rate_limited(now[c])
  /\ lock' = NoClient
  /\ Ends(c)
  /\ UNCHANGED <<clock, system_vars, state, accepted, overlapped, torn, misdirected,
                 bound_vars>>

\* ftruncate empties the file before the new number is written.
Truncate(c) ==
  /\ pc[c] = "check" /\ ~rate_limited(now[c])
  /\ state' = Empty
  /\ GoTo(c, "write")
  /\ UNCHANGED <<clock, system_vars, lock, pid, now, ghost_vars, bound_vars>>

\* A write that leaves the file as it was truncated (mutant).
written_nothing(c) == Empty

written(c) == now[c]

Write(c) ==
  /\ pc[c] = "write"
  /\ state' = written(c)
  /\ accepted' = Append(accepted, now[c])
  /\ GoTo(c, "unlocking")
  /\ UNCHANGED <<clock, system_vars, lock, pid, now, overlapped, torn, reused, misdirected,
                 bound_vars>>

\* rate_state_write_failed: the file stays empty, the call is refused.
WriteFails(c) ==
  /\ pc[c] = "write"
  /\ faults_used < MaxFaults /\ faults_used' = faults_used + 1
  /\ torn' = TRUE
  /\ lock' = NoClient
  /\ Ends(c)
  /\ UNCHANGED <<clock, system_vars, state, accepted, overlapped, misdirected,
                 calls_used, starts_used>>

Unlock(c) ==
  /\ pc[c] = "unlocking"
  /\ lock' = NoClient
  /\ GoTo(c, "signal")
  /\ UNCHANGED <<clock, system_vars, state, pid, now, ghost_vars, bound_vars>>

\* kill(pid, SIGUSR1), to whoever has the number now.
Signal(c) ==
  /\ pc[c] = "signal"
  /\ misdirected' = (misdirected \/ (exe[pid[c]] = "other" /\ c \notin reused))
  /\ Ends(c)
  /\ UNCHANGED <<clock, system_vars, state, lock, accepted, overlapped, torn, bound_vars>>

\* The call itself is killed; the kernel closes its descriptor.
Killed(c) ==
  /\ pc[c] # "idle"
  /\ faults_used < MaxFaults /\ faults_used' = faults_used + 1
  /\ lock' = IF lock = c THEN NoClient ELSE lock
  /\ torn' = (torn \/ pc[c] = "write")
  /\ Ends(c)
  /\ UNCHANGED <<clock, system_vars, state, accepted, overlapped, misdirected,
                 calls_used, starts_used>>

Call(c) ==
  CheckAlive(c) \/ InspectExe(c) \/ SampleClock(c) \/ TakeLock(c) \/ Refuse(c)
  \/ Truncate(c) \/ Write(c) \/ Unlock(c) \/ Signal(c)

Next ==
  \/ ClockAdvances
  \/ \E p \in Pids : ProcessExits(p) \/ ProcessStarts(p)
  \/ PidfileRemoved
  \/ \E c \in Clients : ReadPidfile(c) \/ Call(c) \/ LockFails(c) \/ WriteFails(c) \/ Killed(c)

\* A call that has been started runs on; the clock, the other processes and
\* the faults owe nothing.
Fairness == \A c \in Clients : WF_vars(Call(c))

Spec == Init /\ [][Next]_vars /\ Fairness

----------------------------------------------------------------------------
(* Properties *)

spaced(i) == accepted[i + 1] - accepted[i] >= Interval

\* Calls that do not overlap are spaced by the interval, whatever writes fail
\* and wherever calls are killed: a truncated file forgets an acceptance only
\* when that one is old enough.
SerialCallsSpaced ==
  ~overlapped => \A i \in 1 .. Len(accepted) - 1 : spaced(i)

\* With an intact state file, two calls accepted one after the other are too
\* close only if the second read the clock before the first.
OnlyInversionsPass ==
  ~torn => \A i \in 1 .. Len(accepted) - 1 : accepted[i + 1] >= accepted[i] => spaced(i)

\* Another program gets the signal only if it was started under the cart's
\* number after the validation.
NeverMisdirected == ~misdirected

\* Every call ends: no path leaves the state file locked behind it.
CallsEnd == \A c \in Clients : pc[c] # "idle" ~> pc[c] = "idle"

\* toolkit/README.md: "accepted requests are rate-limited to 500 ms across
\* invocations using a locked state file in /run".
AcceptedAreSpaced ==
  \A i, j \in 1 .. Len(accepted) :
    i < j => accepted[j] - accepted[i] >= Interval \/ accepted[i] - accepted[j] >= Interval
=============================================================================
