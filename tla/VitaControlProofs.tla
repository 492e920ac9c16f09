------------------------- MODULE VitaControlProofs -------------------------
(***************************************************************************)
(* Proofs about VitaControl, for any number of callers, processes, calls    *)
(* and faults and any interval.                                             *)
(***************************************************************************)
EXTENDS VitaControl, TLAPS

Validated == InRateState \cup {"sample", "signal"}

\* A call has a process number from reading the PID file on; once validated,
\* the number is the cart's or nobody's, unless it was given away again.
TargetInv ==
  /\ \A c \in Clients : pc[c] # "idle" => pid[c] \in Pids
  /\ \A c \in Clients : pc[c] \in Validated /\ c \notin reused => exe[pid[c]] \in {"cart", "none"}

last == accepted[Len(accepted)]

\* A reading that may follow the last accepted one.
follows(t) == accepted # <<>> /\ t >= last => t - last >= Interval

\* With an intact file the state is the last accepted reading, except between
\* the truncation and the write of a call that has passed the check.
IntactInv ==
  ~torn =>
    /\ (\A c \in Clients : pc[c] # "write") =>
         state = IF accepted = <<>> THEN Empty ELSE last
    /\ \A c \in Clients : pc[c] = "write" => follows(now[c])

\* Without overlaps one call at most is between its clock reading and the
\* unlock; its reading is not before the last accepted one; and an empty file
\* means that the last accepted one is an interval old.
SerialInv ==
  ~overlapped =>
    /\ \A c, d \in Clients : pc[c] \in InRateState /\ pc[d] \in InRateState => c = d
    /\ state # Empty => accepted # <<>> /\ state = last
    /\ accepted # <<>> => clock >= last /\ (state = Empty => clock - last >= Interval)
    /\ accepted # <<>> => \A c \in Clients :
         /\ pc[c] \in {"locking", "check"} =>
              now[c] >= last /\ (state = Empty => now[c] - last >= Interval)
         /\ pc[c] = "write" => now[c] - last >= Interval

ControlInv ==
  /\ TypeOK /\ \A c \in Clients : now[c] <= clock
  /\ TargetInv /\ IntactInv /\ SerialInv
  /\ NeverMisdirected /\ OnlyInversionsPass /\ SerialCallsSpaced

\* Every reachable state satisfies the inductive invariant.
THEOREM ControlInvariant == Spec => []ControlInv
<1> USE ControlAssumption
<1>1. Init => ControlInv
  <2> SUFFICES ASSUME Init PROVE ControlInv
    OBVIOUS
  <2>1. TypeOK /\ \A c \in Clients : now[c] <= clock
    <3>1. PICK p \in Pids : exe = [q \in Pids |-> IF q = p THEN "cart" ELSE "none"] /\ pidfile = p
      BY DEF Init
    <3>2. overlapped \in BOOLEAN /\ torn \in BOOLEAN /\ misdirected \in BOOLEAN
      BY Zenon DEF Init
    <3> QED
      BY <3>1, <3>2 DEF Init, TypeOK, Steps, Empty, NoClient, NoPid
  <2> QED
    BY <2>1 DEF Init, ControlInv, TargetInv, Validated, InRateState, IntactInv, SerialInv,
       NeverMisdirected, OnlyInversionsPass, SerialCallsSpaced
<1>2. ControlInv /\ [Next]_vars => ControlInv'
  <2> SUFFICES ASSUME ControlInv, [Next]_vars PROVE ControlInv'
    OBVIOUS
  <2> USE DEF ControlInv, system_vars, ghost_vars, bound_vars
  <2>0. /\ clock \in Nat /\ state \in Int /\ \A c \in Clients : now[c] \in Nat
        /\ \A i \in 1 .. Len(accepted) : accepted[i] \in Nat
        /\ Len(accepted) \in Nat /\ (accepted # <<>> => Len(accepted) > 0 /\ last \in Nat)
    BY DEF TypeOK, last, Empty
  <2>1. CASE ClockAdvances
    <3>1. TypeOK' /\ \A d \in Clients : now'[d] <= clock'
      BY <2>1, <2>0 DEF ClockAdvances, TypeOK, Steps, Empty, NoClient, NoPid
    <3>2. TargetInv' /\ NeverMisdirected'
      BY <2>1 DEF ClockAdvances, TypeOK, TargetInv, Validated, InRateState, NeverMisdirected
    <3>3. IntactInv'
      BY <2>1, <2>0 DEF ClockAdvances, TypeOK, IntactInv, follows, last, Empty
    <3>4. SerialInv'
      BY <2>1, <2>0 DEF ClockAdvances, TypeOK, SerialInv, InRateState, last, Empty
    <3>5. OnlyInversionsPass' /\ SerialCallsSpaced'
      BY <2>1 DEF ClockAdvances, OnlyInversionsPass, SerialCallsSpaced, spaced
    <3> QED
      BY <3>1, <3>2, <3>3, <3>4, <3>5
  <2>2. ASSUME NEW p \in Pids, ProcessExits(p) PROVE ControlInv'
    <3>1. TypeOK' /\ \A d \in Clients : now'[d] <= clock'
      BY <2>2, <2>0 DEF ProcessExits, TypeOK, Steps, Empty, NoClient, NoPid
    <3>2. TargetInv' /\ NeverMisdirected'
      BY <2>2 DEF ProcessExits, TypeOK, TargetInv, Validated, InRateState, NeverMisdirected
    <3>3. IntactInv'
      BY <2>2, <2>0 DEF ProcessExits, TypeOK, IntactInv, follows, last, Empty
    <3>4. SerialInv'
      BY <2>2, <2>0 DEF ProcessExits, TypeOK, SerialInv, InRateState, last, Empty
    <3>5. OnlyInversionsPass' /\ SerialCallsSpaced'
      BY <2>2 DEF ProcessExits, OnlyInversionsPass, SerialCallsSpaced, spaced
    <3> QED
      BY <3>1, <3>2, <3>3, <3>4, <3>5
  <2>3. ASSUME NEW p \in Pids, ProcessStarts(p) PROVE ControlInv'
    <3>1. TypeOK' /\ \A d \in Clients : now'[d] <= clock'
      BY <2>3, <2>0 DEF ProcessStarts, TypeOK, Steps, Empty, NoClient, NoPid
    <3>2. TargetInv' /\ NeverMisdirected'
      BY <2>3 DEF ProcessStarts, TypeOK, TargetInv, Validated, InRateState, NeverMisdirected
    <3>3. IntactInv'
      BY <2>3, <2>0 DEF ProcessStarts, TypeOK, IntactInv, follows, last, Empty
    <3>4. SerialInv'
      BY <2>3, <2>0 DEF ProcessStarts, TypeOK, SerialInv, InRateState, last, Empty
    <3>5. OnlyInversionsPass' /\ SerialCallsSpaced'
      BY <2>3 DEF ProcessStarts, OnlyInversionsPass, SerialCallsSpaced, spaced
    <3> QED
      BY <3>1, <3>2, <3>3, <3>4, <3>5
  <2>4. CASE PidfileRemoved
    <3>1. TypeOK' /\ \A d \in Clients : now'[d] <= clock'
      BY <2>4, <2>0 DEF PidfileRemoved, TypeOK, Steps, Empty, NoClient, NoPid
    <3>2. TargetInv' /\ NeverMisdirected'
      BY <2>4 DEF PidfileRemoved, TypeOK, TargetInv, Validated, InRateState, NeverMisdirected
    <3>3. IntactInv'
      BY <2>4, <2>0 DEF PidfileRemoved, TypeOK, IntactInv, follows, last, Empty
    <3>4. SerialInv'
      BY <2>4, <2>0 DEF PidfileRemoved, TypeOK, SerialInv, InRateState, last, Empty
    <3>5. OnlyInversionsPass' /\ SerialCallsSpaced'
      BY <2>4 DEF PidfileRemoved, OnlyInversionsPass, SerialCallsSpaced, spaced
    <3> QED
      BY <3>1, <3>2, <3>3, <3>4, <3>5
  <2>5. ASSUME NEW c \in Clients, ReadPidfile(c) PROVE ControlInv'
    <3>1. TypeOK' /\ \A d \in Clients : now'[d] <= clock'
      BY <2>5, <2>0 DEF ReadPidfile, GoTo, TypeOK, Steps, Empty, NoClient, NoPid
    <3>2. TargetInv' /\ NeverMisdirected'
      BY <2>5 DEF ReadPidfile, GoTo, TypeOK, TargetInv, Validated, InRateState, NeverMisdirected
    <3>3. IntactInv'
      BY <2>5, <2>0 DEF ReadPidfile, GoTo, TypeOK, IntactInv, follows, last, Empty
    <3>4. SerialInv'
      BY <2>5, <2>0 DEF ReadPidfile, GoTo, TypeOK, SerialInv, InRateState, last, Empty
    <3>5. OnlyInversionsPass' /\ SerialCallsSpaced'
      BY <2>5 DEF ReadPidfile, GoTo, OnlyInversionsPass, SerialCallsSpaced, spaced
    <3> QED
      BY <3>1, <3>2, <3>3, <3>4, <3>5
  <2>6. ASSUME NEW c \in Clients, CheckAlive(c) PROVE ControlInv'
    <3>0. /\ pc[c] = "alive"
          /\ UNCHANGED <<clock, exe, pidfile, state, lock, accepted, overlapped, torn, misdirected>>
      BY <2>6 DEF CheckAlive
    <3>1. CASE Ends(c)
      <4>1. TypeOK' /\ \A d \in Clients : now'[d] <= clock'
        BY <3>0, <3>1, <2>0 DEF Ends, GoTo, TypeOK, Steps, Empty, NoClient, NoPid
      <4>2. TargetInv' /\ NeverMisdirected'
        BY <3>0, <3>1 DEF Ends, GoTo, TypeOK, TargetInv, Validated, InRateState, NeverMisdirected
      <4>3. IntactInv' /\ SerialInv'
        BY <3>0, <3>1, <2>0 DEF Ends, GoTo, TypeOK, IntactInv, SerialInv, InRateState, follows, last
      <4> QED
        BY <3>0, <4>1, <4>2, <4>3 DEF OnlyInversionsPass, SerialCallsSpaced, spaced
    <3>2. CASE /\ exe[pid[c]] # "none" /\ pc' = [pc EXCEPT ![c] = "inspect"]
               /\ UNCHANGED <<pid, now, reused>>
      <4>1. TypeOK' /\ \A d \in Clients : now'[d] <= clock'
        BY <3>0, <3>2, <2>0 DEF TypeOK, Steps
      <4>2. TargetInv' /\ NeverMisdirected'
        BY <3>0, <3>2 DEF TypeOK, TargetInv, Validated, InRateState, NeverMisdirected
      <4>3. IntactInv' /\ SerialInv'
        BY <3>0, <3>2, <2>0 DEF TypeOK, IntactInv, SerialInv, InRateState, follows, last
      <4> QED
        BY <3>0, <4>1, <4>2, <4>3 DEF OnlyInversionsPass, SerialCallsSpaced, spaced
    <3> QED
      BY <2>6, <3>1, <3>2, Zenon DEF CheckAlive, GoTo
  <2>7. ASSUME NEW c \in Clients, InspectExe(c) PROVE ControlInv'
    <3>0. /\ pc[c] = "inspect"
          /\ UNCHANGED <<clock, exe, pidfile, state, lock, accepted, overlapped, torn, misdirected>>
      BY <2>7 DEF InspectExe
    <3>1. CASE Ends(c)
      <4>1. TypeOK' /\ \A d \in Clients : now'[d] <= clock'
        BY <3>0, <3>1, <2>0 DEF Ends, GoTo, TypeOK, Steps, Empty, NoClient, NoPid
      <4>2. TargetInv' /\ NeverMisdirected'
        BY <3>0, <3>1 DEF Ends, GoTo, TypeOK, TargetInv, Validated, InRateState, NeverMisdirected
      <4>3. IntactInv' /\ SerialInv'
        BY <3>0, <3>1, <2>0 DEF Ends, GoTo, TypeOK, IntactInv, SerialInv, InRateState, follows, last
      <4> QED
        BY <3>0, <4>1, <4>2, <4>3 DEF OnlyInversionsPass, SerialCallsSpaced, spaced
    <3>2. CASE /\ exe[pid[c]] = "cart" /\ pc' = [pc EXCEPT ![c] = "sample"]
               /\ UNCHANGED <<pid, now, reused>>
      <4>1. TypeOK' /\ \A d \in Clients : now'[d] <= clock'
        BY <3>0, <3>2, <2>0 DEF TypeOK, Steps
      <4>2. TargetInv' /\ NeverMisdirected'
        BY <3>0, <3>2 DEF TypeOK, TargetInv, Validated, InRateState, NeverMisdirected
      <4>3. IntactInv' /\ SerialInv'
        BY <3>0, <3>2, <2>0 DEF TypeOK, IntactInv, SerialInv, InRateState, follows, last
      <4> QED
        BY <3>0, <4>1, <4>2, <4>3 DEF OnlyInversionsPass, SerialCallsSpaced, spaced
    <3> QED
      BY <2>7, <3>1, <3>2, Zenon DEF InspectExe, GoTo, exe_matches
  <2>8. ASSUME NEW c \in Clients, SampleClock(c) PROVE ControlInv'
    <3>1. TypeOK' /\ \A d \in Clients : now'[d] <= clock'
      BY <2>8, <2>0 DEF SampleClock, GoTo, TypeOK, Steps, Empty, NoClient, NoPid
    <3>2. TargetInv' /\ NeverMisdirected'
      BY <2>8 DEF SampleClock, GoTo, TypeOK, TargetInv, Validated, InRateState, NeverMisdirected
    <3>3. IntactInv'
      BY <2>8, <2>0 DEF SampleClock, GoTo, TypeOK, IntactInv, follows, last, Empty
    <3>4. SerialInv'
      BY <2>8, <2>0 DEF SampleClock, GoTo, TypeOK, SerialInv, InRateState, last, Empty
    <3>5. OnlyInversionsPass' /\ SerialCallsSpaced'
      BY <2>8 DEF SampleClock, GoTo, OnlyInversionsPass, SerialCallsSpaced, spaced
    <3> QED
      BY <3>1, <3>2, <3>3, <3>4, <3>5
  <2>9. ASSUME NEW c \in Clients, TakeLock(c) PROVE ControlInv'
    <3>1. TypeOK' /\ \A d \in Clients : now'[d] <= clock'
      BY <2>9, <2>0 DEF TakeLock, GoTo, TypeOK, Steps, Empty, NoClient, NoPid
    <3>2. TargetInv' /\ NeverMisdirected'
      BY <2>9 DEF TakeLock, GoTo, TypeOK, TargetInv, Validated, InRateState, NeverMisdirected
    <3>3. IntactInv'
      BY <2>9, <2>0 DEF TakeLock, GoTo, TypeOK, IntactInv, follows, last, Empty
    <3>4. SerialInv'
      BY <2>9, <2>0 DEF TakeLock, GoTo, TypeOK, SerialInv, InRateState, last, Empty
    <3>5. OnlyInversionsPass' /\ SerialCallsSpaced'
      BY <2>9 DEF TakeLock, GoTo, OnlyInversionsPass, SerialCallsSpaced, spaced
    <3> QED
      BY <3>1, <3>2, <3>3, <3>4, <3>5
  <2>10. ASSUME NEW c \in Clients, LockFails(c) PROVE ControlInv'
    <3>1. TypeOK' /\ \A d \in Clients : now'[d] <= clock'
      BY <2>10, <2>0 DEF LockFails, Ends, GoTo, TypeOK, Steps, Empty, NoClient, NoPid
    <3>2. TargetInv' /\ NeverMisdirected'
      BY <2>10 DEF LockFails, Ends, GoTo, TypeOK, TargetInv, Validated, InRateState, NeverMisdirected
    <3>3. IntactInv'
      BY <2>10, <2>0 DEF LockFails, Ends, GoTo, TypeOK, IntactInv, follows, last, Empty
    <3>4. SerialInv'
      BY <2>10, <2>0 DEF LockFails, Ends, GoTo, TypeOK, SerialInv, InRateState, last, Empty
    <3>5. OnlyInversionsPass' /\ SerialCallsSpaced'
      BY <2>10 DEF LockFails, Ends, GoTo, OnlyInversionsPass, SerialCallsSpaced, spaced
    <3> QED
      BY <3>1, <3>2, <3>3, <3>4, <3>5
  <2>11. ASSUME NEW c \in Clients, Refuse(c) PROVE ControlInv'
    <3>1. TypeOK' /\ \A d \in Clients : now'[d] <= clock'
      BY <2>11, <2>0 DEF Refuse, Ends, GoTo, rate_limited, TypeOK, Steps, Empty, NoClient, NoPid
    <3>2. TargetInv' /\ NeverMisdirected'
      BY <2>11 DEF Refuse, Ends, GoTo, rate_limited, TypeOK, TargetInv, Validated, InRateState, NeverMisdirected
    <3>3. IntactInv'
      BY <2>11, <2>0 DEF Refuse, Ends, GoTo, rate_limited, TypeOK, IntactInv, follows, last, Empty
    <3>4. SerialInv'
      BY <2>11, <2>0 DEF Refuse, Ends, GoTo, rate_limited, TypeOK, SerialInv, InRateState, last, Empty
    <3>5. OnlyInversionsPass' /\ SerialCallsSpaced'
      BY <2>11 DEF Refuse, Ends, GoTo, rate_limited, OnlyInversionsPass, SerialCallsSpaced, spaced
    <3> QED
      BY <3>1, <3>2, <3>3, <3>4, <3>5
  <2>12. ASSUME NEW c \in Clients, Truncate(c) PROVE ControlInv'
    <3>1. TypeOK' /\ \A d \in Clients : now'[d] <= clock'
      BY <2>12, <2>0 DEF Truncate, GoTo, rate_limited, TypeOK, Steps, Empty, NoClient, NoPid
    <3>2. TargetInv' /\ NeverMisdirected'
      BY <2>12 DEF Truncate, GoTo, rate_limited, TypeOK, TargetInv, Validated, InRateState, NeverMisdirected
    <3>3. IntactInv'
      BY <2>12, <2>0 DEF Truncate, GoTo, rate_limited, TypeOK, IntactInv, follows, last, Empty
    <3>4. SerialInv'
      BY <2>12, <2>0 DEF Truncate, GoTo, rate_limited, TypeOK, SerialInv, InRateState, last, Empty
    <3>5. OnlyInversionsPass' /\ SerialCallsSpaced'
      BY <2>12 DEF Truncate, GoTo, rate_limited, OnlyInversionsPass, SerialCallsSpaced, spaced
    <3> QED
      BY <3>1, <3>2, <3>3, <3>4, <3>5
  <2>13. ASSUME NEW c \in Clients, Write(c) PROVE ControlInv'
    <3>1. TypeOK' /\ \A d \in Clients : now'[d] <= clock'
      BY <2>13, <2>0 DEF Write, GoTo, written, TypeOK, Steps, Empty, NoClient, NoPid
    <3>2. TargetInv' /\ NeverMisdirected'
      BY <2>13 DEF Write, GoTo, written, TypeOK, TargetInv, Validated, InRateState, NeverMisdirected
    <3>3. IntactInv'
      BY <2>13, <2>0 DEF Write, GoTo, written, TypeOK, IntactInv, follows, last, Empty
    <3>4. SerialInv'
      <4>1. /\ pc[c] = "write" /\ pc' = [pc EXCEPT ![c] = "unlocking"] /\ state' = now[c]
            /\ accepted' = Append(accepted, now[c]) /\ UNCHANGED <<clock, now, overlapped>>
        BY <2>13 DEF Write, GoTo, written
      <4>2. accepted' # <<>> /\ last' = now[c]
        <5>1. accepted \in Seq(0 .. MaxClock) /\ now[c] \in 0 .. MaxClock
          BY DEF TypeOK
        <5> HIDE DEF ControlInv
        <5>2. Len(accepted') = Len(accepted) + 1 /\ accepted'[Len(accepted) + 1] = now[c]
          BY <4>1, <5>1
        <5> QED
          BY <2>0, <5>2 DEF last
      <4>3. \A d \in Clients : d # c => pc'[d] = pc[d]
        BY <4>1 DEF TypeOK
      <4>4. pc'[c] = "unlocking"
        BY <4>1 DEF TypeOK
      <4>5. now[c] <= clock /\ now[c] # Empty
        BY <2>0 DEF Empty
      <4>6. ~overlapped => \A d \in Clients : pc[d] \in InRateState => d = c
        BY <4>1 DEF SerialInv, InRateState
      <4> HIDE DEF ControlInv
      <4> QED
        BY <4>1, <4>2, <4>3, <4>4, <4>5, <4>6 DEF SerialInv, InRateState
    <3>5. OnlyInversionsPass' /\ SerialCallsSpaced'
      <4>1. /\ Len(accepted') = Len(accepted) + 1 /\ accepted'[Len(accepted) + 1] = now[c]
            /\ \A i \in 1 .. Len(accepted) : accepted'[i] = accepted[i]
            /\ accepted # <<>> <=> Len(accepted) > 0
            /\ pc[c] = "write" /\ UNCHANGED <<torn, overlapped>>
        BY <2>13, <2>0 DEF Write, TypeOK
      <4>2. OnlyInversionsPass'
        <5> SUFFICES ASSUME ~torn, NEW i \in 1 .. Len(accepted), accepted'[i + 1] >= accepted'[i]
                     PROVE  accepted'[i + 1] - accepted'[i] >= Interval
          <6> HIDE DEF ControlInv
          <6> QED
            BY <2>0, <4>1 DEF OnlyInversionsPass, spaced
        <5>1. CASE i < Len(accepted)
          <6>1. OnlyInversionsPass
            OBVIOUS
          <6> HIDE DEF ControlInv
          <6> QED
            BY <2>0, <4>1, <5>1, <6>1 DEF OnlyInversionsPass, spaced
        <5>2. CASE i = Len(accepted)
          <6>1. accepted # <<>> /\ follows(now[c])
            BY <2>0, <4>1, <5>2 DEF IntactInv
          <6> QED
            BY <2>0, <4>1, <5>2, <6>1 DEF follows, last
        <5> QED
          BY <2>0, <5>1, <5>2
      <4>3. SerialCallsSpaced'
        <5> SUFFICES ASSUME ~overlapped, NEW i \in 1 .. Len(accepted)
                     PROVE  accepted'[i + 1] - accepted'[i] >= Interval
          <6> HIDE DEF ControlInv
          <6> QED
            BY <2>0, <4>1 DEF SerialCallsSpaced, spaced
        <5>1. CASE i < Len(accepted)
          <6>1. SerialCallsSpaced
            OBVIOUS
          <6> HIDE DEF ControlInv
          <6> QED
            BY <2>0, <4>1, <5>1, <6>1 DEF SerialCallsSpaced, spaced
        <5>2. CASE i = Len(accepted)
          <6>1. accepted # <<>> /\ now[c] - last >= Interval
            BY <2>0, <4>1, <5>2 DEF SerialInv
          <6> QED
            BY <2>0, <4>1, <5>2, <6>1 DEF last
        <5> QED
          BY <2>0, <5>1, <5>2
      <4> QED
        BY <4>2, <4>3
    <3> QED
      BY <3>1, <3>2, <3>3, <3>4, <3>5
  <2>14. ASSUME NEW c \in Clients, WriteFails(c) PROVE ControlInv'
    <3>1. TypeOK' /\ \A d \in Clients : now'[d] <= clock'
      BY <2>14, <2>0 DEF WriteFails, Ends, GoTo, TypeOK, Steps, Empty, NoClient, NoPid
    <3>2. TargetInv' /\ NeverMisdirected'
      BY <2>14 DEF WriteFails, Ends, GoTo, TypeOK, TargetInv, Validated, InRateState, NeverMisdirected
    <3>3. IntactInv'
      BY <2>14, <2>0 DEF WriteFails, Ends, GoTo, TypeOK, IntactInv, follows, last, Empty
    <3>4. SerialInv'
      BY <2>14, <2>0 DEF WriteFails, Ends, GoTo, TypeOK, SerialInv, InRateState, last, Empty
    <3>5. OnlyInversionsPass' /\ SerialCallsSpaced'
      BY <2>14 DEF WriteFails, Ends, GoTo, OnlyInversionsPass, SerialCallsSpaced, spaced
    <3> QED
      BY <3>1, <3>2, <3>3, <3>4, <3>5
  <2>15. ASSUME NEW c \in Clients, Unlock(c) PROVE ControlInv'
    <3>1. TypeOK' /\ \A d \in Clients : now'[d] <= clock'
      BY <2>15, <2>0 DEF Unlock, GoTo, TypeOK, Steps, Empty, NoClient, NoPid
    <3>2. TargetInv' /\ NeverMisdirected'
      BY <2>15 DEF Unlock, GoTo, TypeOK, TargetInv, Validated, InRateState, NeverMisdirected
    <3>3. IntactInv'
      BY <2>15, <2>0 DEF Unlock, GoTo, TypeOK, IntactInv, follows, last, Empty
    <3>4. SerialInv'
      BY <2>15, <2>0 DEF Unlock, GoTo, TypeOK, SerialInv, InRateState, last, Empty
    <3>5. OnlyInversionsPass' /\ SerialCallsSpaced'
      BY <2>15 DEF Unlock, GoTo, OnlyInversionsPass, SerialCallsSpaced, spaced
    <3> QED
      BY <3>1, <3>2, <3>3, <3>4, <3>5
  <2>16. ASSUME NEW c \in Clients, Signal(c) PROVE ControlInv'
    <3>1. TypeOK' /\ \A d \in Clients : now'[d] <= clock'
      BY <2>16, <2>0 DEF Signal, Ends, GoTo, TypeOK, Steps, Empty, NoClient, NoPid
    <3>2. TargetInv' /\ NeverMisdirected'
      BY <2>16 DEF Signal, Ends, GoTo, TypeOK, TargetInv, Validated, InRateState, NeverMisdirected
    <3>3. IntactInv'
      BY <2>16, <2>0 DEF Signal, Ends, GoTo, TypeOK, IntactInv, follows, last, Empty
    <3>4. SerialInv'
      BY <2>16, <2>0 DEF Signal, Ends, GoTo, TypeOK, SerialInv, InRateState, last, Empty
    <3>5. OnlyInversionsPass' /\ SerialCallsSpaced'
      BY <2>16 DEF Signal, Ends, GoTo, OnlyInversionsPass, SerialCallsSpaced, spaced
    <3> QED
      BY <3>1, <3>2, <3>3, <3>4, <3>5
  <2>17. ASSUME NEW c \in Clients, Killed(c) PROVE ControlInv'
    <3>1. TypeOK' /\ \A d \in Clients : now'[d] <= clock'
      BY <2>17, <2>0 DEF Killed, Ends, GoTo, TypeOK, Steps, Empty, NoClient, NoPid
    <3>2. TargetInv' /\ NeverMisdirected'
      BY <2>17 DEF Killed, Ends, GoTo, TypeOK, TargetInv, Validated, InRateState, NeverMisdirected
    <3>3. IntactInv'
      BY <2>17, <2>0 DEF Killed, Ends, GoTo, TypeOK, IntactInv, follows, last, Empty
    <3>4. SerialInv'
      BY <2>17, <2>0 DEF Killed, Ends, GoTo, TypeOK, SerialInv, InRateState, last, Empty
    <3>5. OnlyInversionsPass' /\ SerialCallsSpaced'
      BY <2>17 DEF Killed, Ends, GoTo, OnlyInversionsPass, SerialCallsSpaced, spaced
    <3> QED
      BY <3>1, <3>2, <3>3, <3>4, <3>5
  <2>18. CASE UNCHANGED vars
    BY <2>18 DEF vars, TypeOK, TargetInv, Validated, IntactInv, follows, SerialInv, last,
       NeverMisdirected, OnlyInversionsPass, SerialCallsSpaced, spaced
  <2> QED
    BY <2>1, <2>2, <2>3, <2>4, <2>5, <2>6, <2>7, <2>8, <2>9,
       <2>10, <2>11, <2>12, <2>13, <2>14, <2>15, <2>16, <2>17, <2>18 DEF Next, Call
<1> QED
  BY <1>1, <1>2, PTL DEF Spec

\* Type correctness, and mutual exclusion in the state file: a call between
\* taking the lock and releasing it is the one that holds it.
THEOREM ControlTypeCorrect == Spec => []TypeOK
BY ControlInvariant, PTL DEF ControlInv

\* Calls that do not overlap are spaced by the interval.
THEOREM SerialCallsAreSpaced == Spec => []SerialCallsSpaced
BY ControlInvariant, PTL DEF ControlInv

\* Only an inversion of clock reading and locking gets past the limit.
THEOREM OnlyInversions == Spec => []OnlyInversionsPass
BY ControlInvariant, PTL DEF ControlInv

\* Only a number reused after the validation misdirects a signal.
THEOREM SignalsFindTheCart == Spec => []NeverMisdirected
BY ControlInvariant, PTL DEF ControlInv
=============================================================================
