-------------------------- MODULE OperationsProofs --------------------------
(***************************************************************************)
(* Proofs about what operates the demo: the scripts that hand over the      *)
(* framebuffer (FbOwnership), the frame server (FbServe) and the serial     *)
(* bridge (SerialBridge), for any number of script runs, failures, clients, *)
(* requests and callers.  The three have no state in common.                *)
(***************************************************************************)
EXTENDS FbOwnership, FbServe, SerialBridge, FiniteSetTheorems, SequenceTheorems, TLAPS

----------------------------------------------------------------------------
(* The framebuffer scripts *)

\* A renderer that runs has its PID file, so a start that finds no match finds
\* no renderer; and a start works on files it has made itself.
StartInv ==
  /\ renderer = "on" => pidfile
  /\ step \in {"clear", "save", "mark", "unbind", "launch"} => renderer = "off"
  /\ step \in {"save", "mark"} => ~mark
  /\ step \in {"mark", "unbind", "launch", "settle"} => save # "none"
  /\ step = "unbind" => mark
  /\ step = "launch" => ~bound
  /\ step = "save" /\ ~orphaned => save \in {"none", screen}

\* SAVE is removed only when its picture is on the screen and will stay there,
\* and MARK only when the console is bound.
GiveBackInv ==
  /\ step \in {"unsave", "drop"} /\ ~overdrawn => renderer = "off" /\ screen = save
  /\ step \in {"unmark", "forget"} => bound /\ mark

\* What a stop knows after each of its steps as long as nothing failed in it.
StopInv ==
  /\ step \in {"restore", "drop", "console", "forget"} /\ status = 0 => renderer = "off"
  /\ step \in {"console", "forget"} /\ status = 0 => save = "none"
  /\ stopped => step = "idle" /\ renderer = "off" /\ save = "none" /\ ~mark

\* Where the picture and the console are while they can be put back.
KeepInv ==
  ~orphaned /\ ~overdrawn =>
    /\ save # "none" => save = "console"
    /\ screen = "cart" \/ renderer = "on" => save = "console"
    /\ mark => was_bound
    /\ bound = was_bound \/ mark

OwnershipInv ==
  OwnershipTypeOK /\ StartInv /\ GiveBackInv /\ StopInv /\ KeepInv /\ RendererAlone

\* Every reachable state satisfies the inductive invariant.
THEOREM OwnershipInvariant == OwnershipSpec => []OwnershipInv
<1> USE OwnershipAssumption
<1>1. OwnershipInit => OwnershipInv
  <2> SUFFICES ASSUME OwnershipInit PROVE OwnershipInv
    OBVIOUS
  <2>1. OwnershipTypeOK
    <3>1. /\ bound \in BOOLEAN
          /\ mark \in BOOLEAN
          /\ pidfile \in BOOLEAN
          /\ was_bound \in BOOLEAN
          /\ orphaned \in BOOLEAN
          /\ overdrawn \in BOOLEAN
          /\ stopped \in BOOLEAN
      BY Zenon DEF OwnershipInit
    <3> QED
      BY <3>1 DEF OwnershipInit, OwnershipTypeOK, StartSteps, CleanupSteps, StopSteps
  <2>2. StartInv /\ GiveBackInv /\ StopInv /\ KeepInv /\ RendererAlone
    BY DEF OwnershipInit, StartInv, GiveBackInv, StopInv, KeepInv, RendererAlone
  <2> QED
    BY <2>1, <2>2 DEF OwnershipInv
<1>2. OwnershipInv /\ [OwnershipNext]_ownership_vars => OwnershipInv'
  <2> SUFFICES ASSUME OwnershipInv, [OwnershipNext]_ownership_vars PROVE OwnershipInv'
    OBVIOUS
  <2> USE DEF OwnershipInv, OwnershipTypeOK, StartInv, GiveBackInv, StopInv, KeepInv,
              RendererAlone, StartSteps, CleanupSteps, StopSteps, screen_vars, file_vars,
              ghost_vars, Fault, cart_pid_matches
  <2>1. CASE RendererDraws
    BY <2>1 DEF RendererDraws
  <2>2. CASE RendererDies
    BY <2>2 DEF RendererDies
  <2>3. CASE StartBegins
    <3>1. OwnershipTypeOK'
      <4>1. stopped' \in BOOLEAN
        BY <2>3, Zenon DEF StartBegins
      <4>2. overdrawn' \in BOOLEAN
        BY <2>3, Zenon DEF StartBegins
      <4> QED
        BY <2>3, <4>1, <4>2 DEF StartBegins
    <3>2. StartInv'
      BY <2>3 DEF StartBegins
    <3>3. GiveBackInv'
      BY <2>3 DEF StartBegins
    <3>4. StopInv'
      BY <2>3 DEF StartBegins
    <3>5. KeepInv'
      BY <2>3 DEF StartBegins
    <3>6. RendererAlone'
      BY <2>3 DEF StartBegins
    <3> QED
      BY <3>1, <3>2, <3>3, <3>4, <3>5, <3>6
  <2>4. CASE StartCheck
    BY <2>4 DEF StartCheck
  <2>5. CASE StartClear
    <3>1. OwnershipTypeOK'
      <4>1. orphaned' \in BOOLEAN
        BY <2>5, Zenon DEF StartClear
      <4> QED
        BY <2>5, <4>1 DEF StartClear
    <3>2. StartInv'
      BY <2>5 DEF StartClear
    <3>3. GiveBackInv'
      BY <2>5 DEF StartClear
    <3>4. StopInv'
      BY <2>5 DEF StartClear
    <3>5. KeepInv'
      BY <2>5 DEF StartClear
    <3>6. RendererAlone'
      BY <2>5 DEF StartClear
    <3> QED
      BY <3>1, <3>2, <3>3, <3>4, <3>5, <3>6
  <2>6. CASE StartSave
    <3>1. OwnershipTypeOK'
      BY <2>6 DEF StartSave
    <3>2. StartInv'
      BY <2>6 DEF StartSave
    <3>3. GiveBackInv'
      BY <2>6 DEF StartSave
    <3>4. StopInv'
      BY <2>6 DEF StartSave
    <3>5. KeepInv'
      BY <2>6 DEF StartSave
    <3>6. RendererAlone'
      BY <2>6 DEF StartSave
    <3> QED
      BY <3>1, <3>2, <3>3, <3>4, <3>5, <3>6
  <2>7. CASE StartMark
    BY <2>7 DEF StartMark
  <2>8. CASE StartUnbind
    <3>1. OwnershipTypeOK'
      BY <2>8 DEF StartUnbind
    <3>2. StartInv'
      BY <2>8 DEF StartUnbind
    <3>3. GiveBackInv'
      BY <2>8 DEF StartUnbind
    <3>4. StopInv'
      BY <2>8 DEF StartUnbind
    <3>5. KeepInv'
      BY <2>8 DEF StartUnbind
    <3>6. RendererAlone'
      BY <2>8 DEF StartUnbind
    <3> QED
      BY <3>1, <3>2, <3>3, <3>4, <3>5, <3>6
  <2>9. CASE StartLaunch
    BY <2>9 DEF StartLaunch
  <2>10. CASE StartSettle
    <3>1. OwnershipTypeOK'
      BY <2>10 DEF StartSettle
    <3>2. StartInv'
      BY <2>10 DEF StartSettle
    <3>3. GiveBackInv'
      BY <2>10 DEF StartSettle
    <3>4. StopInv'
      BY <2>10 DEF StartSettle
    <3>5. KeepInv'
      BY <2>10 DEF StartSettle
    <3>6. RendererAlone'
      BY <2>10 DEF StartSettle
    <3> QED
      BY <3>1, <3>2, <3>3, <3>4, <3>5, <3>6
  <2>11. CASE StartFails
    BY <2>11 DEF StartFails
  <2>12. CASE ScriptKilled
    <3>1. OwnershipTypeOK'
      BY <2>12 DEF ScriptKilled, torn
    <3>2. StartInv'
      BY <2>12 DEF ScriptKilled, torn
    <3>3. GiveBackInv'
      BY <2>12 DEF ScriptKilled, torn
    <3>4. StopInv'
      BY <2>12 DEF ScriptKilled, torn
    <3>5. KeepInv'
      BY <2>12 DEF ScriptKilled, torn
    <3>6. RendererAlone'
      BY <2>12 DEF ScriptKilled, torn
    <3> QED
      BY <3>1, <3>2, <3>3, <3>4, <3>5, <3>6
  <2>13. CASE PutFrame("putback", "unsave", "rebind")
    <3>1. OwnershipTypeOK'
      BY <2>13 DEF PutFrame, torn
    <3>2. StartInv'
      BY <2>13 DEF PutFrame, torn
    <3>3. GiveBackInv'
      BY <2>13 DEF PutFrame, torn
    <3>4. StopInv'
      BY <2>13 DEF PutFrame, torn
    <3>5. KeepInv'
      BY <2>13 DEF PutFrame, torn
    <3>6. RendererAlone'
      BY <2>13 DEF PutFrame, torn
    <3> QED
      BY <3>1, <3>2, <3>3, <3>4, <3>5, <3>6
  <2>14. CASE DropSave("unsave", "rebind")
    <3>1. OwnershipTypeOK'
      BY <2>14 DEF DropSave
    <3>2. StartInv'
      BY <2>14 DEF DropSave
    <3>3. GiveBackInv'
      BY <2>14 DEF DropSave
    <3>4. StopInv'
      BY <2>14 DEF DropSave
    <3>5. KeepInv'
      BY <2>14 DEF DropSave
    <3>6. RendererAlone'
      BY <2>14 DEF DropSave
    <3> QED
      BY <3>1, <3>2, <3>3, <3>4, <3>5, <3>6
  <2>15. CASE BindConsole("rebind", "unmark")
    <3>1. OwnershipTypeOK'
      <4>1. stopped' \in BOOLEAN
        BY <2>15, Zenon DEF BindConsole, Reports
      <4>2. overdrawn' \in BOOLEAN
        BY <2>15, Zenon DEF BindConsole, Reports
      <4>3. bound' \in BOOLEAN /\ mark' \in BOOLEAN
        BY <2>15, Zenon DEF BindConsole, Reports
      <4>4. status' \in {0, 1} /\ faults_used' \in 0 .. MaxFaults
        BY <2>15 DEF BindConsole, Reports
      <4>5. step' \in {"idle", "unmark", "forget"}
        BY <2>15 DEF BindConsole, Reports
      <4>6. UNCHANGED <<screen, file_vars, renderer, was_bound, orphaned, scripts_used>>
        BY <2>15 DEF BindConsole, Reports
      <4> QED
        BY <4>1, <4>2, <4>3, <4>4, <4>5, <4>6
    <3>2. StartInv'
      BY <2>15 DEF BindConsole, Reports
    <3>3. GiveBackInv'
      BY <2>15 DEF BindConsole, Reports
    <3>4. StopInv'
      BY <2>15 DEF BindConsole, Reports
    <3>5. KeepInv'
      BY <2>15 DEF BindConsole, Reports
    <3>6. RendererAlone'
      BY <2>15 DEF BindConsole, Reports
    <3> QED
      BY <3>1, <3>2, <3>3, <3>4, <3>5, <3>6
  <2>16. CASE DropMark("unmark")
    <3>1. OwnershipTypeOK'
      <4>1. stopped' \in BOOLEAN
        BY <2>16, Zenon DEF DropMark, Reports
      <4>2. overdrawn' \in BOOLEAN
        BY <2>16, Zenon DEF DropMark, Reports
      <4>3. bound' \in BOOLEAN /\ mark' \in BOOLEAN
        BY <2>16, Zenon DEF DropMark, Reports
      <4>4. status' \in {0, 1} /\ faults_used' \in 0 .. MaxFaults
        BY <2>16 DEF DropMark, Reports
      <4>5. step' \in {"idle", "unmark", "forget"}
        BY <2>16 DEF DropMark, Reports
      <4>6. UNCHANGED <<screen_vars, save, pidfile, renderer, was_bound, orphaned, scripts_used>>
        BY <2>16 DEF DropMark, Reports
      <4> QED
        BY <4>1, <4>2, <4>3, <4>4, <4>5, <4>6
    <3>2. StartInv'
      BY <2>16 DEF DropMark, Reports
    <3>3. GiveBackInv'
      BY <2>16 DEF DropMark, Reports
    <3>4. StopInv'
      BY <2>16 DEF DropMark, Reports
    <3>5. KeepInv'
      BY <2>16 DEF DropMark, Reports
    <3>6. RendererAlone'
      BY <2>16 DEF DropMark, Reports
    <3> QED
      BY <3>1, <3>2, <3>3, <3>4, <3>5, <3>6
  <2>17. CASE StopBegins
    <3>1. OwnershipTypeOK'
      <4>1. stopped' \in BOOLEAN
        BY <2>17, Zenon DEF StopBegins
      <4>2. overdrawn' \in BOOLEAN
        BY <2>17, Zenon DEF StopBegins
      <4> QED
        BY <2>17, <4>1, <4>2 DEF StopBegins
    <3>2. StartInv'
      BY <2>17 DEF StopBegins
    <3>3. GiveBackInv'
      BY <2>17 DEF StopBegins
    <3>4. StopInv'
      BY <2>17 DEF StopBegins
    <3>5. KeepInv'
      BY <2>17 DEF StopBegins
    <3>6. RendererAlone'
      BY <2>17 DEF StopBegins
    <3> QED
      BY <3>1, <3>2, <3>3, <3>4, <3>5, <3>6
  <2>18. CASE StopMatch
    <3>1. OwnershipTypeOK'
      <4>1. pidfile' \in BOOLEAN
        BY <2>18 DEF StopMatch
      <4> QED
        BY <2>18, <4>1 DEF StopMatch
    <3>2. StartInv'
      BY <2>18 DEF StopMatch
    <3>3. GiveBackInv'
      BY <2>18 DEF StopMatch
    <3>4. StopInv'
      BY <2>18 DEF StopMatch
    <3>5. KeepInv'
      BY <2>18 DEF StopMatch
    <3>6. RendererAlone'
      BY <2>18 DEF StopMatch
    <3> QED
      BY <3>1, <3>2, <3>3, <3>4, <3>5, <3>6
  <2>19. CASE StopTermFails
    BY <2>19 DEF StopTermFails
  <2>20. CASE RendererStops
    BY <2>20 DEF RendererStops
  <2>21. CASE StopWait
    BY <2>21 DEF StopWait
  <2>22. CASE StopGivesUp
    BY <2>22 DEF StopGivesUp
  <2>23. CASE PutFrame("restore", "drop", "console")
    <3>1. OwnershipTypeOK'
      BY <2>23 DEF PutFrame, torn
    <3>2. StartInv'
      BY <2>23 DEF PutFrame, torn
    <3>3. GiveBackInv'
      BY <2>23 DEF PutFrame, torn
    <3>4. StopInv'
      BY <2>23 DEF PutFrame, torn
    <3>5. KeepInv'
      BY <2>23 DEF PutFrame, torn
    <3>6. RendererAlone'
      BY <2>23 DEF PutFrame, torn
    <3> QED
      BY <3>1, <3>2, <3>3, <3>4, <3>5, <3>6
  <2>24. CASE DropSave("drop", "console")
    <3>1. OwnershipTypeOK'
      BY <2>24 DEF DropSave
    <3>2. StartInv'
      BY <2>24 DEF DropSave
    <3>3. GiveBackInv'
      BY <2>24 DEF DropSave
    <3>4. StopInv'
      BY <2>24 DEF DropSave
    <3>5. KeepInv'
      BY <2>24 DEF DropSave
    <3>6. RendererAlone'
      BY <2>24 DEF DropSave
    <3> QED
      BY <3>1, <3>2, <3>3, <3>4, <3>5, <3>6
  <2>25. CASE BindConsole("console", "forget")
    <3>1. OwnershipTypeOK'
      <4>1. stopped' \in BOOLEAN
        BY <2>25, Zenon DEF BindConsole, Reports
      <4>2. overdrawn' \in BOOLEAN
        BY <2>25, Zenon DEF BindConsole, Reports
      <4>3. bound' \in BOOLEAN /\ mark' \in BOOLEAN
        BY <2>25, Zenon DEF BindConsole, Reports
      <4>4. status' \in {0, 1} /\ faults_used' \in 0 .. MaxFaults
        BY <2>25 DEF BindConsole, Reports
      <4>5. step' \in {"idle", "unmark", "forget"}
        BY <2>25 DEF BindConsole, Reports
      <4>6. UNCHANGED <<screen, file_vars, renderer, was_bound, orphaned, scripts_used>>
        BY <2>25 DEF BindConsole, Reports
      <4> QED
        BY <4>1, <4>2, <4>3, <4>4, <4>5, <4>6
    <3>2. StartInv'
      BY <2>25 DEF BindConsole, Reports
    <3>3. GiveBackInv'
      BY <2>25 DEF BindConsole, Reports
    <3>4. StopInv'
      BY <2>25 DEF BindConsole, Reports
    <3>5. KeepInv'
      BY <2>25 DEF BindConsole, Reports
    <3>6. RendererAlone'
      BY <2>25 DEF BindConsole, Reports
    <3> QED
      BY <3>1, <3>2, <3>3, <3>4, <3>5, <3>6
  <2>26. CASE DropMark("forget")
    <3>1. OwnershipTypeOK'
      <4>1. stopped' \in BOOLEAN
        BY <2>26, Zenon DEF DropMark, Reports
      <4>2. overdrawn' \in BOOLEAN
        BY <2>26, Zenon DEF DropMark, Reports
      <4>3. bound' \in BOOLEAN /\ mark' \in BOOLEAN
        BY <2>26, Zenon DEF DropMark, Reports
      <4>4. status' \in {0, 1} /\ faults_used' \in 0 .. MaxFaults
        BY <2>26 DEF DropMark, Reports
      <4>5. step' \in {"idle", "unmark", "forget"}
        BY <2>26 DEF DropMark, Reports
      <4>6. UNCHANGED <<screen_vars, save, pidfile, renderer, was_bound, orphaned, scripts_used>>
        BY <2>26 DEF DropMark, Reports
      <4> QED
        BY <4>1, <4>2, <4>3, <4>4, <4>5, <4>6
    <3>2. StartInv'
      BY <2>26 DEF DropMark, Reports
    <3>3. GiveBackInv'
      BY <2>26 DEF DropMark, Reports
    <3>4. StopInv'
      BY <2>26 DEF DropMark, Reports
    <3>5. KeepInv'
      BY <2>26 DEF DropMark, Reports
    <3>6. RendererAlone'
      BY <2>26 DEF DropMark, Reports
    <3> QED
      BY <3>1, <3>2, <3>3, <3>4, <3>5, <3>6
  <2>27. CASE UNCHANGED ownership_vars
    BY <2>27 DEF ownership_vars
  <2> QED
    BY <2>1, <2>2, <2>3, <2>4, <2>5, <2>6, <2>7, <2>8, <2>9, <2>10, <2>11, <2>12, <2>13,
       <2>14, <2>15, <2>16, <2>17, <2>18, <2>19, <2>20, <2>21, <2>22, <2>23, <2>24, <2>25, <2>26, <2>27
       DEF OwnershipNext, Start, Stop, Cleanup
<1> QED
  BY <1>1, <1>2, PTL DEF OwnershipSpec

\* Types, and that a launch always has a saved frame behind it.
THEOREM OwnershipTypeCorrect == OwnershipSpec => []OwnershipTypeOK
<1>1. OwnershipInv => OwnershipTypeOK
  BY DEF OwnershipInv
<1> QED
  BY <1>1, OwnershipInvariant, PTL

\* The picture and the console can be put back at every moment, between any two
\* commands of the scripts and after one that failed or was killed halfway,
\* unless a start destroyed leftovers or a restore ran under a live renderer.
THEOREM NothingIsLost == OwnershipSpec => []NothingLost
<1>1. OwnershipInv => NothingLost
  BY DEF OwnershipInv, OwnershipTypeOK, KeepInv, NothingLost
<1> QED
  BY <1>1, OwnershipInvariant, PTL

\* A stop that reports success has restored the picture and the console.
THEOREM StopReallyRestores == OwnershipSpec => []StopRestores
<1>1. OwnershipInv => StopRestores
  BY DEF OwnershipInv, OwnershipTypeOK, StopInv, KeepInv, StopRestores
<1> QED
  BY <1>1, OwnershipInvariant, PTL

\* The renderer never shares the screen with the console.
THEOREM RendererIsAlone == OwnershipSpec => []RendererAlone
<1>1. OwnershipInv => RendererAlone
  BY DEF OwnershipInv
<1> QED
  BY <1>1, OwnershipInvariant, PTL

----------------------------------------------------------------------------
(* The frame server *)

busy == pc \in {"recv", "read", "send"}

\* Received bytes were sent, and the server counts those of its client.
BytesInv ==
  /\ \A c \in Clients : received[c] <= sent[c] /\ sent[c] <= request[c].length
  /\ pc = "recv" => used = received[client]

\* Nothing has been received from a client that has not been accepted, and
\* each of those is in the backlog once at most.
BacklogInv ==
  /\ \A i \in 1 .. Len(backlog) :
       /\ received[backlog[i]] = 0 /\ backlog[i] # client /\ state[backlog[i]] # "away"
       /\ \A j \in 1 .. Len(backlog) : backlog[i] = backlog[j] => i = j
  /\ \A c \in Clients : state[c] = "away" => received[c] = 0
  /\ busy => client \in Clients /\ state[client] # "away"
  /\ ~busy /\ pc # "exited" => client = None

\* What the server has decided on is what its client deserves.
DecisionInv ==
  /\ pc \in {"read", "send"} => response \in deserved(request[client])
  /\ pc = "read" => response = "ok_bitmap" /\ halves < 2

\* The halves read so far are not older than the request.
FreshInv ==
  /\ \A h \in Halves : fb[h] >= since[h]
  /\ pc = "read" => \A h \in Halves : h <= halves => framebuffer[h] >= since[h]

\* With --once any answer, a refusal too, is the only one, and the end.
AnsweredEnds ==
  once => /\ \A c, d \in answered : c = d
          /\ answered # {} => pc = "exited"

ServeInv ==
  TypeOK /\ BytesInv /\ BacklogInv /\ DecisionInv /\ FreshInv
  /\ RightReply /\ FrameIsFresh /\ AnsweredEnds

\* A decision on the bytes received is one the whole request deserves, and a
\* request that deserves a bitmap deserves the report of a failed read.
LEMMA DecidedIsDeserved ==
  ASSUME NEW r \in Requests, NEW n \in 0 .. REQUEST_BYTES, n <= r.length
  PROVE  /\ decided(r, n) \in Replies \cup {None}
         /\ decided(r, n) # None => decided(r, n) \in deserved(r)
         /\ "ok_bitmap" \in deserved(r) => "unavailable" \in deserved(r)
<1>1. r \in Request /\ r.head <= r.length /\ (r.head = 0 \/ r.head >= 2) /\ REQUEST_BYTES \in Nat
  BY FbServeAssumption
<1>2. r.asks \in Asks /\ r.head \in Nat /\ r.length \in Nat
  BY <1>1 DEF Request
<1>3. r.asks # "bitmap" => TextReply[r.asks] \in {"ok_text", "bad_request", "not_found", "not_allowed"}
  BY <1>2, Zenon DEF TextReply, Asks
<1> QED
  BY <1>1, <1>2, <1>3 DEF decided, deserved, Replies, None

\* What a request deserves is a reply.
LEMMA DeservedIsReply ==
  ASSUME NEW r \in Requests
  PROVE  deserved(r) \subseteq Replies
<1>1. r.asks \in Asks
  BY FbServeAssumption DEF Request
<1>2. r.asks # "bitmap" => TextReply[r.asks] \in {"ok_text", "bad_request", "not_found", "not_allowed"}
  BY <1>1, Zenon DEF TextReply, Asks
<1> QED
  BY <1>2 DEF deserved, Replies

\* Every reachable state satisfies the inductive invariant.
THEOREM ServeInvariant == Spec => []ServeInv
<1> USE FbServeAssumption DEF None
<1>1. Init => ServeInv
  <2> SUFFICES ASSUME Init PROVE ServeInv
    OBVIOUS
  <2>1. TypeOK
    <3>1. once \in BOOLEAN
      BY Zenon DEF Init
    <3> QED
      BY <3>1 DEF Init, TypeOK
  <2>2. \A c \in Clients : request[c].length \in Nat
    BY DEF Init, Request
  <2> QED
    BY <2>1, <2>2 DEF Init, ServeInv, BytesInv, BacklogInv, DecisionInv, FreshInv, busy,
       RightReply, FrameIsFresh, AnsweredEnds, answered, Halves
<1>2. ServeInv /\ [Next]_vars => ServeInv'
  <2> SUFFICES ASSUME ServeInv, [Next]_vars PROVE ServeInv'
    OBVIOUS
  <2> USE DEF ServeInv, TypeOK, server_vars, client_vars
  <2>0. /\ \A c \in Clients : request[c] \in Requests /\ request[c].length \in Nat
        /\ \A h \in Halves : fb[h] \in Nat /\ since[h] \in Nat
    BY DEF Request
  <2>1. ASSUME NEW c \in Clients, Connect(c) PROVE ServeInv'
    <3>1. c # client /\ \A i \in 1 .. Len(backlog) : backlog[i] # c
      BY <2>1 DEF Connect, BacklogInv, busy
    <3>2. /\ backlog' \in Seq(Clients) /\ Len(backlog') = Len(backlog) + 1
          /\ \A i \in 1 .. Len(backlog') : backlog'[i] = IF i <= Len(backlog) THEN backlog[i] ELSE c
      BY <2>1 DEF Connect
    <3>3. /\ pc # "exited" /\ Len(backlog) < Backlog /\ state[c] = "away"
          /\ state' = [state EXCEPT ![c] = "connected"]
          /\ UNCHANGED <<server_vars, request, sent, received, reply, fb, since>>
      BY <2>1 DEF Connect
    <3>4. TypeOK'
      <4>1. state' \in [Clients -> {"away", "connected", "reading", "hung_up", "closed"}]
        BY <3>3
      <4>2. Len(backlog') <= Backlog
        BY <3>2, <3>3
      <4> QED
        BY <3>2, <3>3, <4>1, <4>2
    <3>5. BacklogInv'
      <4>1. \A d \in Clients : state'[d] = "away" => state[d] = "away"
        BY <3>3
      <4>2. received[c] = 0
        BY <3>3 DEF BacklogInv
      <4>3. \A d \in Clients : state[d] # "away" => state'[d] # "away"
        BY <3>3
      <4>4. \A i \in 1 .. Len(backlog') :
              /\ received[backlog'[i]] = 0 /\ backlog'[i] # client /\ state'[backlog'[i]] # "away"
              /\ \A j \in 1 .. Len(backlog') : backlog'[i] = backlog'[j] => i = j
        <5>1. \A i \in 1 .. Len(backlog) : backlog[i] \in Clients
          OBVIOUS
        <5>2. Len(backlog) \in Nat /\ state'[c] # "away"
          BY <3>3
        <5>3. BacklogInv
          OBVIOUS
        <5> HIDE DEF ServeInv, TypeOK
        <5>4. \A i \in 1 .. Len(backlog) :
                /\ received[backlog[i]] = 0 /\ backlog[i] # client /\ state[backlog[i]] # "away"
                /\ \A j \in 1 .. Len(backlog) : backlog[i] = backlog[j] => i = j
          BY <5>3 DEF BacklogInv
        <5> QED
          BY <3>1, <3>2, <4>2, <4>3, <5>1, <5>2, <5>4
      <4> QED
        BY <3>3, <4>1, <4>3, <4>4 DEF BacklogInv, busy
    <3>6. BytesInv' /\ FreshInv' /\ FrameIsFresh'
      BY <3>3 DEF BytesInv, FreshInv, FrameIsFresh
    <3>7. DecisionInv' /\ RightReply' /\ AnsweredEnds'
      BY <3>3 DEF DecisionInv, RightReply, AnsweredEnds, answered, deserved
    <3> QED
      BY <3>4, <3>5, <3>6, <3>7
  <2>2. ASSUME NEW c \in Clients, Send(c) PROVE ServeInv'
    <3>1. sent'[c] \in Nat /\ sent'[c] > sent[c] /\ sent'[c] <= request[c].length
      BY <2>2, <2>0 DEF Send, BytesInv
    <3>2. TypeOK'
      BY <2>2, <3>1, <2>0 DEF Send
    <3>3. BytesInv'
      BY <2>2, <2>0, <3>1 DEF Send, BytesInv
    <3> QED
      BY <2>2, <3>2, <3>3 DEF Send, BacklogInv, busy, DecisionInv, FreshInv, RightReply,
         FrameIsFresh, AnsweredEnds, answered, deserved
  <2>3. ASSUME NEW c \in Clients, HangUp(c) PROVE ServeInv'
    <3>1. /\ state[c] \in {"connected", "reading"} /\ state' = [state EXCEPT ![c] = "hung_up"]
          /\ UNCHANGED <<server_vars, backlog, request, sent, received, reply, fb, since>>
      BY <2>3 DEF HangUp
    <3>2. \A d \in Clients : state'[d] = "away" <=> state[d] = "away"
      BY <3>1
    <3>3. TypeOK'
      BY <3>1
    <3>4. BacklogInv'
      <4>1. BacklogInv /\ \A i \in 1 .. Len(backlog) : backlog[i] \in Clients
        OBVIOUS
      <4> HIDE DEF ServeInv, TypeOK
      <4> QED
        BY <3>1, <3>2, <4>1 DEF BacklogInv, busy
    <3>5. BytesInv' /\ FreshInv' /\ FrameIsFresh'
      BY <3>1 DEF BytesInv, FreshInv, FrameIsFresh
    <3>6. DecisionInv' /\ RightReply' /\ AnsweredEnds'
      BY <3>1 DEF DecisionInv, RightReply, AnsweredEnds, answered, deserved
    <3> QED
      BY <3>3, <3>4, <3>5, <3>6
  <2>4. ASSUME NEW h \in Halves, Draw(h) PROVE ServeInv'
    <3>1. FreshInv'
      BY <2>4, <2>0 DEF Draw, FreshInv
    <3>2. TypeOK'
      BY <2>4 DEF Draw
    <3>3. UNCHANGED <<server_vars, client_vars, since>>
      BY <2>4 DEF Draw
    <3>4. BytesInv' /\ BacklogInv' /\ FrameIsFresh'
      BY <3>3 DEF BytesInv, BacklogInv, busy, FrameIsFresh
    <3>5. DecisionInv' /\ RightReply' /\ AnsweredEnds'
      BY <3>3 DEF DecisionInv, RightReply, AnsweredEnds, answered, deserved
    <3> QED
      BY <3>1, <3>2, <3>4, <3>5
  <2>5. CASE Accept
    <3>1. /\ Head(backlog) = backlog[1] /\ 1 \in 1 .. Len(backlog) /\ Head(backlog) \in Clients
          /\ Tail(backlog) \in Seq(Clients) /\ Len(Tail(backlog)) = Len(backlog) - 1
          /\ \A i \in 1 .. Len(Tail(backlog)) :
               Tail(backlog)[i] = backlog[i + 1] /\ i + 1 \in 1 .. Len(backlog) /\ i + 1 # 1
      BY <2>5 DEF Accept
    <3>2. TypeOK'
      <4>1. /\ pc' = "recv" /\ client' = Head(backlog) /\ backlog' = Tail(backlog) /\ used' = 0
            /\ since' = fb
            /\ UNCHANGED <<response, framebuffer, halves, once, state, request, sent, received,
                           reply, fb>>
        BY <2>5 DEF Accept
      <4>2. used' \in 0 .. REQUEST_BYTES /\ Len(backlog') <= Backlog
        BY <3>1, <4>1
      <4> QED
        BY <3>1, <4>1, <4>2
    <3>3. BytesInv'
      BY <2>5, <3>1 DEF Accept, BytesInv, BacklogInv
    <3>4. BacklogInv'
      <4>1. /\ pc' = "recv" /\ client' = backlog[1] /\ backlog' = Tail(backlog)
            /\ UNCHANGED <<state, received>>
        BY <2>5, <3>1 DEF Accept
      <4>2. /\ \A i \in 1 .. Len(backlog) :
                 /\ received[backlog[i]] = 0 /\ state[backlog[i]] # "away"
                 /\ \A j \in 1 .. Len(backlog) : backlog[i] = backlog[j] => i = j
            /\ \A c \in Clients : state[c] = "away" => received[c] = 0
        BY DEF BacklogInv
      <4>3. \A i \in 1 .. Len(Tail(backlog)) : i \in Int
        OBVIOUS
      <4> HIDE DEF ServeInv, TypeOK
      <4>4. \A i \in 1 .. Len(Tail(backlog)) :
              /\ received[Tail(backlog)[i]] = 0 /\ Tail(backlog)[i] # backlog[1]
              /\ state[Tail(backlog)[i]] # "away"
              /\ \A j \in 1 .. Len(Tail(backlog)) : Tail(backlog)[i] = Tail(backlog)[j] => i = j
        BY <3>1, <4>2, <4>3
      <4> QED
        BY <3>1, <4>1, <4>2, <4>4 DEF BacklogInv, busy
    <3>5. /\ pc' = "recv" /\ since' = fb
          /\ pc = "accept" /\ UNCHANGED <<once, request, reply, fb>>
      BY <2>5 DEF Accept
    <3>6. DecisionInv' /\ FreshInv' /\ FrameIsFresh'
      BY <2>0, <3>5 DEF DecisionInv, FreshInv, FrameIsFresh
    <3>7. RightReply' /\ AnsweredEnds'
      BY <3>5 DEF RightReply, AnsweredEnds, answered, deserved
    <3> QED
      BY <3>2, <3>3, <3>4, <3>6, <3>7
  <2>6. CASE AcceptFails
    BY <2>6 DEF AcceptFails, BytesInv, BacklogInv, busy, DecisionInv, FreshInv, RightReply,
       FrameIsFresh, AnsweredEnds, answered, deserved
  <2>7. CASE Recv
    <3>1. PICK n \in 1 .. REQUEST_BYTES - used :
            /\ n <= sent[client] - received[client]
            /\ used' = used + n
            /\ received' = [received EXCEPT ![client] = @ + n]
      BY <2>7 DEF Recv
    <3>2. client \in Clients /\ used = received[client]
      BY <2>7 DEF Recv, BacklogInv, busy, BytesInv
    <3>3. used' \in 0 .. REQUEST_BYTES /\ used' <= request[client].length
      BY <3>1, <3>2, <2>0 DEF BytesInv
    <3>4. /\ response' = decided(request[client], used')
          /\ response' \in Replies \cup {None}
          /\ response' # None => response' \in deserved(request[client])
      BY <2>7, <2>0, <3>2, <3>3, DecidedIsDeserved DEF Recv
    <3>5. /\ pc' \in {"recv", "read", "send"}
          /\ pc' \in {"read", "send"} => response' # None
          /\ pc' = "read" => response' = "ok_bitmap"
          /\ pc' = "send" => response' # "ok_bitmap"
      BY <2>7 DEF Recv
    <3>6. TypeOK'
      <4>1. received' \in [Clients -> Nat]
        BY <3>1, <3>2, <2>0
      <4>2. halves' \in 0 .. 2
        BY <2>7 DEF Recv
      <4>3. UNCHANGED <<client, framebuffer, once, backlog, state, request, sent, reply, fb, since>>
        BY <2>7 DEF Recv
      <4> QED
        BY <3>3, <3>4, <3>5, <4>1, <4>2, <4>3
    <3>7. BytesInv'
      BY <2>7, <3>1, <3>2, <3>5, <2>0 DEF Recv, BytesInv
    <3>8. BacklogInv'
      <4>1. \A d \in Clients : d # client => received'[d] = received[d]
        BY <3>1, <3>2
      <4>2. UNCHANGED <<backlog, state, client>>
        BY <2>7 DEF Recv
      <4>3. pc = "recv" /\ \A i \in 1 .. Len(backlog) : backlog[i] \in Clients
        BY <2>7 DEF Recv
      <4> QED
        BY <3>2, <3>5, <4>1, <4>2, <4>3 DEF BacklogInv, busy
    <3>9. DecisionInv'
      <4>1. deserved(request[client])' = deserved(request[client]) /\ halves' = 0
        BY <2>7, Zenon DEF Recv, deserved
      <4> HIDE DEF ServeInv
      <4> QED
        BY <3>4, <3>5, <4>1 DEF DecisionInv
    <3>10. FreshInv' /\ FrameIsFresh'
      BY <2>7, <3>5 DEF Recv, FreshInv, FrameIsFresh, Halves
    <3>11. RightReply' /\ AnsweredEnds'
      BY <2>7 DEF Recv, RightReply, AnsweredEnds, answered, deserved
    <3> QED
      BY <3>6, <3>7, <3>8, <3>9, <3>10, <3>11
  <2>8. CASE RecvEnds
    BY <2>8 DEF RecvEnds, BytesInv, BacklogInv, busy, DecisionInv, FreshInv, RightReply,
       FrameIsFresh, AnsweredEnds, answered, deserved
  <2>9. CASE ReadFails
    <3>1. client \in Clients /\ "unavailable" \in deserved(request[client])
      <4>1. client \in Clients /\ "ok_bitmap" \in deserved(request[client])
        BY <2>9 DEF ReadFails, BacklogInv, busy, DecisionInv
      <4> QED
        BY <4>1, <2>0, DecidedIsDeserved, 0 \in 0 .. REQUEST_BYTES, 0 <= request[client].length
    <3> QED
      BY <2>9, <3>1 DEF ReadFails, BytesInv, BacklogInv, busy, DecisionInv, FreshInv, RightReply,
         FrameIsFresh, AnsweredEnds, answered, deserved, Replies
  <2>10. CASE ReadHalf
    <3>1. halves + 1 \in Halves
      BY <2>10 DEF ReadHalf, Halves
    <3>2. TypeOK'
      BY <2>10, <3>1 DEF ReadHalf
    <3>3. FreshInv' /\ FrameIsFresh'
      BY <2>10, <2>0, <3>1 DEF ReadHalf, FreshInv, FrameIsFresh, Halves
    <3> QED
      BY <2>10, <3>2, <3>3 DEF ReadHalf, BytesInv, BacklogInv, busy, DecisionInv, RightReply,
         AnsweredEnds, answered, deserved
  <2>11. CASE Respond
    <3>1. /\ client \in Clients /\ response \in deserved(request[client]) /\ response \in Replies
          /\ pc' = after_response /\ client' = None /\ response' = None
          /\ pc' \in {"accept", "exited"} /\ (once => pc' = "exited")
      BY <2>11, <2>0, DeservedIsReply DEF Respond, BacklogInv, busy, DecisionInv, after_response
    <3>2. reply' = reply \/ reply' = [reply EXCEPT ![client] = response]
      BY <2>11 DEF Respond
    <3>3. TypeOK'
      <4>1. reply' \in [Clients -> Replies \cup {None}]
        BY <3>1, <3>2
      <4>2. state' \in [Clients -> {"away", "connected", "reading", "hung_up", "closed"}]
        BY <2>11 DEF Respond
      <4> QED
        BY <2>11, <3>1, <4>1, <4>2 DEF Respond
    <3>4. BytesInv' /\ DecisionInv' /\ FreshInv' /\ FrameIsFresh'
      BY <2>11, <3>1 DEF Respond, BytesInv, DecisionInv, FreshInv, FrameIsFresh
    <3>5. BacklogInv'
      BY <2>11, <3>1 DEF Respond, BacklogInv, busy
    <3>6. RightReply'
      <4>1. \A c \in Clients : deserved(request[c])' = deserved(request[c])
        BY <2>11, Zenon DEF Respond, deserved
      <4>2. SUFFICES ASSUME NEW c \in Clients, reply'[c] # None
                     PROVE  reply'[c] \in deserved(request[c])
        BY <4>1 DEF RightReply
      <4>3. CASE reply' = reply
        BY <4>2, <4>3 DEF RightReply
      <4>4. CASE reply' = [reply EXCEPT ![client] = response]
        <5>1. c = client => reply'[c] = response
          BY <3>1, <4>4
        <5>2. c # client => reply'[c] = reply[c]
          BY <3>1, <4>4
        <5> QED
          BY <3>1, <4>2, <5>1, <5>2 DEF RightReply
      <4> QED
        BY <3>2, <4>3, <4>4
    <3>7. AnsweredEnds'
      <4>1. once => \A c \in Clients : reply[c] = None
        BY <2>11 DEF Respond, AnsweredEnds, answered
      <4> QED
        BY <2>11, <3>1, <3>2, <4>1 DEF Respond, AnsweredEnds, answered
    <3> QED
      BY <3>3, <3>4, <3>5, <3>6, <3>7
  <2>12. CASE UNCHANGED vars
    BY <2>12 DEF vars, BytesInv, BacklogInv, busy, DecisionInv, FreshInv, RightReply,
       FrameIsFresh, AnsweredEnds, answered, deserved
  <2>13. CASE Exited
    BY <2>12, <2>13 DEF Exited
  <2>14. ASSUME NEW c \in Clients, Read(c) PROVE ServeInv'
    <3>1. /\ state[c] = "connected" /\ state' = [state EXCEPT ![c] = "reading"]
          /\ UNCHANGED <<server_vars, backlog, request, sent, received, reply, fb, since>>
      BY <2>14 DEF Read
    <3>2. \A d \in Clients : state'[d] = "away" <=> state[d] = "away"
      BY <3>1
    <3>3. TypeOK'
      BY <3>1
    <3>4. BacklogInv'
      <4>1. BacklogInv /\ \A i \in 1 .. Len(backlog) : backlog[i] \in Clients
        OBVIOUS
      <4> HIDE DEF ServeInv, TypeOK
      <4> QED
        BY <3>1, <3>2, <4>1 DEF BacklogInv, busy
    <3>5. BytesInv' /\ FreshInv' /\ FrameIsFresh'
      BY <3>1 DEF BytesInv, FreshInv, FrameIsFresh
    <3>6. DecisionInv' /\ RightReply' /\ AnsweredEnds'
      BY <3>1 DEF DecisionInv, RightReply, AnsweredEnds, answered, deserved
    <3> QED
      BY <3>3, <3>4, <3>5, <3>6
  <2> QED
    BY <2>1, <2>2, <2>3, <2>4, <2>5, <2>6, <2>7, <2>8, <2>9, <2>10, <2>11, <2>12, <2>13,
       <2>14 DEF Next, Serve
<1> QED
  BY <1>1, <1>2, PTL DEF Spec

\* Type correctness: among others, used never exceeds the request buffer and
\* the backlog never exceeds its limit.
THEOREM ServeTypeCorrect == Spec => []TypeOK
BY ServeInvariant, PTL DEF ServeInv

\* Every client gets only the reply its own request deserves.
THEOREM RepliesAreRight == Spec => []RightReply
BY ServeInvariant, PTL DEF ServeInv

\* No half of a bitmap that is sent is older than its request.
THEOREM FramesAreFresh == Spec => []FrameIsFresh
BY ServeInvariant, PTL DEF ServeInv

\* With --once a client whose valid request was served is the only one answered,
\* and the program has ended.
THEOREM OnceIsOnce == Spec => []OnceServesOne
<1>1. ServeInv => OnceServesOne
  <2>1. ServeInv => AnsweredEnds
    BY DEF ServeInv
  <2> QED
    BY <2>1 DEF AnsweredEnds, OnceServesOne, served
<1> QED
  BY <1>1, ServeInvariant, PTL

----------------------------------------------------------------------------
(* The serial bridge *)

\* The states of a call, and what the log may hold.
BridgeType ==
  /\ st \in [Callers -> {"idle", "snapped", "waiting", "ok", "timed_out", "broken"}]
  /\ start \in [Callers -> Nat]
  /\ fifo \in Seq(Callers) /\ tmp \in Seq(Callers) /\ tty \in Seq(Callers)
  /\ relay \in {"cat", "closing", "send", "retry"}
  /\ shell \in Callers \cup {NoCommand}
  /\ log \in Seq(Callers \cup {Prompt, Noise})
  /\ copied \in 1 .. Len(log)

\* How often the command of a caller is where: it moves from the FIFO to the
\* relay's file and from there, twice at most, to the line and into the log.
OnceOnItsWay(c) ==
  LET arrived == occurrences(tty, c) + times(c) IN
  /\ occurrences(fifo, c) <= 1 /\ occurrences(tmp, c) <= 1
  /\ occurrences(fifo, c) = 1 => occurrences(tmp, c) + arrived = 0
  /\ occurrences(tmp, c) = 1 => arrived <= IF relay = "retry" THEN 1 ELSE 0
  /\ arrived <= 2
  /\ occurrences(tmp, c) + arrived = 2 => resent
  /\ st[c] \in {"idle", "snapped", "broken"} =>
       occurrences(fifo, c) + occurrences(tmp, c) + arrived = 0

\* While a caller has the bridge to itself, only its command is under way, and
\* no prompt has appeared since its position that does not follow its command.
OnlyItsOwn(c) ==
  /\ start[c] <= copied
  /\ \A d \in Callers : active(d) => d = c
  /\ \A i \in 1 .. Len(fifo) : fifo[i] = c
  /\ \A i \in 1 .. Len(tmp) : tmp[i] = c
  /\ \A i \in 1 .. Len(tty) : tty[i] = c
  /\ shell # NoCommand => \E j \in start[c] + 1 .. Len(log) : log[j] = c
  /\ \A i \in start[c] + 1 .. Len(log) :
       log[i] = Prompt => \E j \in start[c] + 1 .. i : log[j] = c

BridgeInv ==
  /\ BridgeType
  /\ relay = "cat" => tmp = <<>>
  /\ \A c \in Callers : OnceOnItsWay(c)
  /\ \A c \in Callers : active(c) /\ alone[c] => OnlyItsOwn(c)
  /\ OwnOutput

----------------------------------------------------------------------------
(* Counting the occurrences of a command in a sequence *)

\* The places where a value occurs are finitely many.
LEMMA OccurrencesFinite ==
  ASSUME NEW S, NEW s \in Seq(S), NEW c
  PROVE  /\ IsFiniteSet({i \in 1 .. Len(s) : s[i] = c})
         /\ occurrences(s, c) \in Nat
<1>1. IsFiniteSet(1 .. Len(s))
  BY FS_Interval
<1>2. {i \in 1 .. Len(s) : s[i] = c} \in SUBSET (1 .. Len(s))
  OBVIOUS
<1>3. IsFiniteSet({i \in 1 .. Len(s) : s[i] = c})
  BY <1>1, <1>2, FS_Subset
<1> QED
  BY <1>3, FS_CardinalityType DEF occurrences

\* An empty sequence has none.
LEMMA OccurrencesEmpty == \A c : occurrences(<<>>, c) = 0
<1> SUFFICES ASSUME NEW c PROVE occurrences(<<>>, c) = 0
  OBVIOUS
<1>1. {i \in 1 .. Len(<<>>) : <<>>[i] = c} = {}
  OBVIOUS
<1> QED
  BY <1>1, FS_EmptySet DEF occurrences

\* Appending a value adds one occurrence of it.
LEMMA OccurrencesAppend ==
  ASSUME NEW S, NEW s \in Seq(S), NEW x \in S, NEW c
  PROVE  occurrences(Append(s, x), c) = occurrences(s, c) + IF x = c THEN 1 ELSE 0
<1> DEFINE A == {i \in 1 .. Len(s) : s[i] = c}
           B == {i \in 1 .. Len(Append(s, x)) : Append(s, x)[i] = c}
<1>1. B = IF x = c THEN A \cup {Len(s) + 1} ELSE A
  OBVIOUS
<1>2. IsFiniteSet(A) /\ Len(s) + 1 \notin A /\ Cardinality(A) \in Nat
  <2>1. Len(s) + 1 \notin A
    OBVIOUS
  <2>2. IsFiniteSet(A)
    BY OccurrencesFinite
  <2> QED
    BY <2>1, <2>2, FS_CardinalityType
<1>3. Cardinality(A \cup {Len(s) + 1}) = Cardinality(A) + 1
  BY <1>2, FS_AddElement
<1> HIDE DEF A, B
<1>4. Cardinality(B) = Cardinality(A) + IF x = c THEN 1 ELSE 0
  BY <1>1, <1>2, <1>3
<1> QED
  BY <1>4 DEF A, B, occurrences

\* The occurrences in a concatenation are those in its two parts.
LEMMA OccurrencesConcat ==
  ASSUME NEW S, NEW s \in Seq(S), NEW t \in Seq(S), NEW c
  PROVE  occurrences(s \o t, c) = occurrences(s, c) + occurrences(t, c)
<1> DEFINE A == {i \in 1 .. Len(s) : s[i] = c}
           B == {i \in 1 .. Len(t) : t[i] = c}
           C == {i \in Len(s) + 1 .. Len(s) + Len(t) : t[i - Len(s)] = c}
           D == {i \in 1 .. Len(s \o t) : (s \o t)[i] = c}
           f == [i \in B |-> i + Len(s)]
<1>1. D = A \cup C /\ A \cap C = {}
  OBVIOUS
<1>2. IsFiniteSet(A) /\ IsFiniteSet(B) /\ Cardinality(A) \in Nat /\ Cardinality(B) \in Nat
  <2>1. IsFiniteSet(A) /\ IsFiniteSet(B)
    BY OccurrencesFinite
  <2> QED
    BY <2>1, FS_CardinalityType
<1>3. f \in Bijection(B, C)
  <2>1. f \in [B -> C] /\ \A i, j \in B : f[i] = f[j] => i = j
    OBVIOUS
  <2>2. ASSUME NEW k \in C PROVE \E i \in B : f[i] = k
    <3>1. k - Len(s) \in B /\ f[k - Len(s)] = k
      OBVIOUS
    <3> QED
      BY <3>1
  <2> HIDE DEF f, B, C
  <2> QED
    BY <2>1, <2>2 DEF Bijection, Injection, Surjection, IsInjective
<1>4. IsFiniteSet(C) /\ Cardinality(C) = Cardinality(B)
  BY <1>2, <1>3, FS_Bijection DEF ExistsBijection
<1>5. Cardinality(A \cup C) = Cardinality(A) + Cardinality(C) - Cardinality(A \cap C)
  BY <1>2, <1>4, FS_Union
<1> HIDE DEF A, B, C, D
<1>6. Cardinality(A \cap C) = 0
  BY <1>1, FS_EmptySet
<1>7. Cardinality(D) = Cardinality(A) + Cardinality(B)
  BY <1>1, <1>2, <1>4, <1>5, <1>6
<1> QED
  BY <1>7 DEF A, B, D, occurrences

\* Taking the first value away takes one occurrence of it away.
LEMMA OccurrencesTail ==
  ASSUME NEW S, NEW s \in Seq(S), s # <<>>, NEW c
  PROVE  occurrences(s, c) = occurrences(Tail(s), c) + IF Head(s) = c THEN 1 ELSE 0
<1> DEFINE h == Head(s)
           t == Tail(s)
           e == <<>>
<1>1. h \in S /\ t \in Seq(S) /\ e \in Seq(S) /\ Append(e, h) \in Seq(S)
  OBVIOUS
<1>2. s = Append(e, h) \o t
  OBVIOUS
<1> HIDE DEF h, t, e
<1>3. occurrences(Append(e, h), c) = occurrences(e, c) + IF h = c THEN 1 ELSE 0
  BY <1>1, OccurrencesAppend
<1>4. occurrences(Append(e, h) \o t, c) = occurrences(Append(e, h), c) + occurrences(t, c)
  BY <1>1, OccurrencesConcat
<1>5. occurrences(s, c) = occurrences(Append(e, h) \o t, c)
  BY <1>2
<1>6. occurrences(t, c) \in Nat /\ occurrences(e, c) = 0
  BY <1>1, OccurrencesFinite, OccurrencesEmpty DEF e
<1>7. occurrences(s, c) = occurrences(t, c) + IF h = c THEN 1 ELSE 0
  BY <1>3, <1>4, <1>5, <1>6
<1> QED
  BY <1>7 DEF h, t

\* A prefix has no more occurrences than the whole.
LEMMA OccurrencesPrefix ==
  ASSUME NEW S, NEW s \in Seq(S), NEW n \in 0 .. Len(s), NEW c
  PROVE  /\ SubSeq(s, 1, n) \in Seq(S)
         /\ occurrences(SubSeq(s, 1, n), c) <= occurrences(s, c)
         /\ n = 0 => occurrences(SubSeq(s, 1, n), c) = 0
<1>1. /\ SubSeq(s, 1, n) \in Seq(S) /\ Len(SubSeq(s, 1, n)) = n
      /\ \A i \in 1 .. n : SubSeq(s, 1, n)[i] = s[i]
  OBVIOUS
<1>2. /\ {i \in 1 .. Len(SubSeq(s, 1, n)) : SubSeq(s, 1, n)[i] = c}
           \in SUBSET {i \in 1 .. Len(s) : s[i] = c}
      /\ n = 0 => {i \in 1 .. Len(SubSeq(s, 1, n)) : SubSeq(s, 1, n)[i] = c} = {}
  BY <1>1
<1>3. IsFiniteSet({i \in 1 .. Len(s) : s[i] = c})
  BY OccurrencesFinite
<1> QED
  BY <1>1, <1>2, <1>3, FS_Subset, FS_EmptySet DEF occurrences

----------------------------------------------------------------------------
(* The bridge *)

\* The counts of every command are numbers.
LEMMA CountsAreNaturals ==
  ASSUME BridgeType, NEW c
  PROVE  /\ occurrences(fifo, c) \in Nat /\ occurrences(tmp, c) \in Nat
         /\ occurrences(tty, c) \in Nat /\ times(c) \in Nat
BY OccurrencesFinite DEF BridgeType, times

\* Every reachable state satisfies the inductive invariant.
THEOREM BridgeInvariant == BridgeSpec => []BridgeInv
<1> USE SerialAssumption DEF NoCommand, Prompt, Noise
<1>1. BridgeInit => BridgeInv
  <2> SUFFICES ASSUME BridgeInit PROVE BridgeInv
    OBVIOUS
  <2>1. BridgeType
    BY DEF BridgeInit, BridgeType
  <2>2. ASSUME NEW c \in Callers PROVE OnceOnItsWay(c)
    <3>1. log = Append(<<>>, Prompt) /\ fifo = <<>> /\ tmp = <<>> /\ tty = <<>>
      BY DEF BridgeInit
    <3>2. {i \in 1 .. Len(log) : log[i] = c} = {}
      BY DEF BridgeInit
    <3>3. times(c) = 0
      BY <3>2, FS_EmptySet DEF times, occurrences
    <3> QED
      BY <3>1, <3>3, OccurrencesEmpty DEF OnceOnItsWay
  <2> QED
    BY <2>1, <2>2 DEF BridgeInit, BridgeInv, active, OwnOutput
<1>2. BridgeInv /\ [BridgeNext]_bridge_vars => BridgeInv'
  <2> SUFFICES ASSUME BridgeInv, [BridgeNext]_bridge_vars PROVE BridgeInv'
    OBVIOUS
  <2> USE DEF caller_vars, relay_vars, vita_vars
  <2>t. BridgeType /\ BridgeInv
    BY DEF BridgeInv
  <2>n. ASSUME NEW c
        PROVE  /\ occurrences(fifo, c) \in Nat /\ occurrences(tmp, c) \in Nat
               /\ occurrences(tty, c) \in Nat /\ times(c) \in Nat
    BY <2>t, CountsAreNaturals
  <2> USE DEF active
  <2>i. /\ relay = "cat" => tmp = <<>>
        /\ \A c \in Callers : OnceOnItsWay(c)
        /\ \A c \in Callers : active(c) /\ alone[c] => OnlyItsOwn(c)
        /\ OwnOutput
    BY DEF BridgeInv
  <2>1. ASSUME NEW c \in Callers, Snapshot(c) PROVE BridgeInv'
    <3>0. /\ st[c] = "idle" /\ st' = [st EXCEPT ![c] = "snapped"]
          /\ start' = [start EXCEPT ![c] = copied]
          /\ alone' = [d \in Callers |-> IF d = c THEN quiet ELSE alone[d] /\ ~active(d)]
          /\ UNCHANGED <<relay_vars, vita_vars, copied>>
      BY <2>1 DEF Snapshot, log_position
    <3>1. BridgeType'
      BY <2>t, <3>0 DEF BridgeType
    <3>2. ASSUME NEW d \in Callers PROVE OnceOnItsWay(d)'
      <4>1. OnceOnItsWay(d) /\ times(d)' = times(d)
        BY <2>i, <3>0 DEF times
      <4> QED
        BY <2>t, <3>0, <4>1 DEF OnceOnItsWay, BridgeType
    <3>3. ASSUME NEW d \in Callers, active(d)', alone'[d] PROVE OnlyItsOwn(d)'
      <4>1. d = c /\ quiet
        BY <2>t, <3>0, <3>3 DEF BridgeType
      <4> QED
        BY <2>t, <2>i, <3>0, <4>1 DEF BridgeType, OnlyItsOwn, quiet
    <3>4. OwnOutput'
      BY <2>t, <2>i, <3>0 DEF BridgeType, OwnOutput
    <3> QED
      BY <2>i, <3>0, <3>1, <3>2, <3>3, <3>4 DEF BridgeInv
  <2>2. ASSUME NEW c \in Callers, Write(c) PROVE BridgeInv'
    <3>0. /\ st[c] = "snapped" /\ st' = [st EXCEPT ![c] = "waiting"]
          /\ relay \in {"cat", "closing"}
          /\ UNCHANGED <<start, alone, relay, tmp, resent, vita_vars, copied>>
      BY <2>2 DEF Write
    <3>a. fifo' = Append(fifo, c) \/ fifo' = fifo
      BY <2>2 DEF Write
    <3>f. /\ fifo' \in Seq(Callers)
          /\ \A i \in 1 .. Len(fifo') : fifo'[i] = c \/ (i \in 1 .. Len(fifo) /\ fifo'[i] = fifo[i])
      <4>1. CASE fifo' = fifo
        BY <2>t, <4>1 DEF BridgeType
      <4>2. CASE fifo' = Append(fifo, c)
        <5>1. fifo \in Seq(Callers)
          BY <2>t DEF BridgeType
        <5>2. /\ fifo' \in Seq(Callers) /\ Len(fifo') = Len(fifo) + 1
              /\ \A i \in 1 .. Len(fifo) : fifo'[i] = fifo[i]
              /\ fifo'[Len(fifo) + 1] = c
          BY <4>2, <5>1, AppendProperties
        <5> QED
          BY <5>1, <5>2
      <4> QED
        BY <3>a, <4>1, <4>2, Zenon
    <3>1. BridgeType'
      BY <2>t, <3>0, <3>f DEF BridgeType
    <3>2. ASSUME NEW d \in Callers PROVE OnceOnItsWay(d)'
      <4>1. OnceOnItsWay(d) /\ OnceOnItsWay(c) /\ times(d)' = times(d)
        BY <2>i, <3>0 DEF times
      <4>2. fifo' = Append(fifo, c) =>
              occurrences(fifo', d) = occurrences(fifo, d) + IF c = d THEN 1 ELSE 0
        BY <2>t, OccurrencesAppend DEF BridgeType
      <4>4. CASE d = c
        <5>1. /\ occurrences(fifo, d) + occurrences(tmp, d) + (occurrences(tty, d) + times(d)) = 0
              /\ st'[d] = "waiting"
          BY <2>t, <3>0, <4>1, <4>4 DEF OnceOnItsWay, BridgeType
        <5>2. /\ occurrences(fifo, d) = 0 /\ occurrences(tmp, d) = 0
              /\ occurrences(tty, d) = 0 /\ times(d) = 0
          BY <2>n, <5>1
        <5>3. occurrences(fifo', d) \in {0, 1}
          BY <3>a, <4>2, <4>4, <5>2
        <5> QED
          BY <3>0, <4>1, <5>1, <5>2, <5>3 DEF OnceOnItsWay
      <4>5. CASE d # c
        <5>1. occurrences(fifo', d) = occurrences(fifo, d) /\ st'[d] = st[d]
          BY <2>t, <2>n, <3>0, <3>a, <4>2, <4>5 DEF BridgeType
        <5> QED
          BY <3>0, <4>1, <5>1 DEF OnceOnItsWay
      <4> QED
        BY <4>4, <4>5
    <3>3. ASSUME NEW d \in Callers, active(d)', alone'[d] PROVE OnlyItsOwn(d)'
      <4>1. active(d) /\ alone[d] /\ active(c)
        BY <2>t, <3>0, <3>3 DEF BridgeType
      <4>2. OnlyItsOwn(d) /\ d = c
        BY <2>i, <4>1 DEF OnlyItsOwn
      <4>3. \A i \in 1 .. Len(fifo') : fifo'[i] = c
        BY <3>f, <4>2 DEF OnlyItsOwn
      <4> QED
        BY <2>t, <3>0, <4>2, <4>3 DEF BridgeType, OnlyItsOwn
    <3>4. OwnOutput'
      BY <2>t, <2>i, <3>0 DEF BridgeType, OwnOutput
    <3> QED
      BY <2>i, <3>0, <3>1, <3>2, <3>3, <3>4 DEF BridgeInv
  <2>3. ASSUME NEW c \in Callers, NEW last \in {"broken", "ok", "timed_out"},
               active(c), last = "broken" => st[c] = "snapped",
               last = "ok" => prompt_seen(c),
               st' = [st EXCEPT ![c] = last],
               UNCHANGED <<start, alone, fifo, relay, tmp, resent, vita_vars, copied>>
        PROVE  BridgeInv'
    <3>1. BridgeType'
      BY <2>t, <2>3 DEF BridgeType
    <3>2. ASSUME NEW d \in Callers PROVE OnceOnItsWay(d)'
      <4>1. OnceOnItsWay(d) /\ OnceOnItsWay(c) /\ times(d)' = times(d)
        BY <2>i, <2>3 DEF times
      <4> QED
        BY <2>t, <2>3, <4>1 DEF OnceOnItsWay, BridgeType
    <3>3. ASSUME NEW d \in Callers, active(d)', alone'[d] PROVE OnlyItsOwn(d)'
      <4>1. active(d) /\ alone[d] /\ d # c
        BY <2>t, <2>3, <3>3 DEF BridgeType
      <4> QED
        BY <2>i, <2>3, <4>1 DEF OnlyItsOwn
    <3>4. OwnOutput'
      <4>1. ASSUME last = "ok", alone[c] PROVE \E i \in start[c] + 1 .. copied : log[i] = c
        <5>1. OnlyItsOwn(c) /\ copied > start[c] /\ log[copied] = Prompt
          BY <2>i, <2>3, <4>1 DEF prompt_seen
        <5>2. copied \in start[c] + 1 .. Len(log)
          BY <2>t, <5>1 DEF BridgeType
        <5> QED
          BY <5>1, <5>2 DEF OnlyItsOwn
      <4> QED
        BY <2>t, <2>i, <2>3, <4>1 DEF BridgeType, OwnOutput
    <3> QED
      BY <2>i, <2>3, <3>1, <3>2, <3>3, <3>4 DEF BridgeInv
  <2>4. ASSUME NEW c \in Callers, Call(c) PROVE BridgeInv'
    <3>1. CASE WriteBreaks(c)
      BY <2>3, <3>1 DEF WriteBreaks
    <3>2. CASE SeePrompt(c)
      BY <2>3, <3>2 DEF SeePrompt
    <3>3. CASE TimeOut(c)
      BY <2>3, <3>3 DEF TimeOut
    <3> QED
      BY <2>1, <2>2, <2>4, <3>1, <3>2, <3>3 DEF Call
  <2>5. CASE Collect
    <3>0. /\ relay = "cat" /\ tmp = <<>> /\ tmp' = fifo /\ fifo' = <<>> /\ relay' = "closing"
          /\ UNCHANGED <<caller_vars, lost, resent, vita_vars, copied>>
      BY <2>5, <2>i DEF Collect
    <3>1. BridgeType'
      BY <2>t, <3>0 DEF BridgeType
    <3>2. ASSUME NEW d \in Callers PROVE OnceOnItsWay(d)'
      <4>1. OnceOnItsWay(d) /\ times(d)' = times(d)
        BY <2>i, <3>0 DEF times
      <4>2. /\ occurrences(tmp, d) = 0 /\ occurrences(tmp', d) = occurrences(fifo, d)
            /\ occurrences(fifo', d) = 0
        BY <3>0, OccurrencesEmpty
      <4>3. occurrences(fifo, d) \in {0, 1}
        BY <2>n, <4>1 DEF OnceOnItsWay
      <4> QED
        BY <2>n, <3>0, <4>1, <4>2, <4>3 DEF OnceOnItsWay
    <3>3. ASSUME NEW d \in Callers, active(d)', alone'[d] PROVE OnlyItsOwn(d)'
      BY <2>i, <3>0, <3>3 DEF OnlyItsOwn
    <3>4. OwnOutput'
      BY <2>i, <3>0 DEF OwnOutput
    <3> QED
      BY <3>0, <3>1, <3>2, <3>3, <3>4 DEF BridgeInv
  <2>6. CASE CloseFifo
    <3>0. /\ relay = "closing" /\ relay' = "send"
          /\ UNCHANGED <<caller_vars, fifo, tmp, lost, resent, vita_vars, copied>>
      BY <2>6 DEF CloseFifo
    <3>1. BridgeType'
      BY <2>t, <3>0 DEF BridgeType
    <3>2. ASSUME NEW d \in Callers PROVE OnceOnItsWay(d)'
      BY <2>i, <3>0 DEF OnceOnItsWay, times
    <3>3. ASSUME NEW d \in Callers, active(d)', alone'[d] PROVE OnlyItsOwn(d)'
      BY <2>i, <3>0, <3>3 DEF OnlyItsOwn
    <3>4. OwnOutput'
      BY <2>i, <3>0 DEF OwnOutput
    <3> QED
      BY <3>0, <3>1, <3>2, <3>3, <3>4 DEF BridgeInv
  \* A send puts a prefix of the batch on the line, and keeps the batch for one
  \* retry or drops it.
  <2>7. ASSUME sending, NEW n \in 0 .. Len(tmp), tty' = tty \o SubSeq(tmp, 1, n),
               \/ tmp' = <<>> /\ relay' = "cat" /\ (resent => resent')
               \/ /\ tmp' = tmp /\ relay = "send" /\ relay' = "retry"
                  /\ n > 0 \/ resent => resent',
               UNCHANGED <<caller_vars, fifo, shell, log, copied>>
        PROVE  BridgeInv'
    <3>s. fifo \in Seq(Callers) /\ tmp \in Seq(Callers) /\ tty \in Seq(Callers)
      BY <2>t DEF BridgeType
    <3>b. tmp' \in Seq(Callers)
      <4>1. CASE tmp' = <<>>
        BY <4>1
      <4>2. CASE tmp' = tmp
        BY <3>s, <4>2
      <4> QED
        BY <2>7, <4>1, <4>2
    <3>0. /\ SubSeq(tmp, 1, n) \in Seq(Callers) /\ Len(SubSeq(tmp, 1, n)) = n
          /\ \A i \in 1 .. n : SubSeq(tmp, 1, n)[i] = tmp[i]
      BY <3>s, SubSeqProperties
    <3>a. /\ tty' \in Seq(Callers) /\ Len(tty') = Len(tty) + n
          /\ \A i \in 1 .. Len(tty') : tty'[i] = IF i <= Len(tty) THEN tty[i] ELSE tmp[i - Len(tty)]
      BY <2>7, <3>s, <3>0, ConcatProperties
    <3>1. BridgeType'
      BY <2>t, <2>7, <3>a, <3>b DEF BridgeType
    <3>2. ASSUME NEW d \in Callers PROVE OnceOnItsWay(d)'
      <4> DEFINE k == occurrences(SubSeq(tmp, 1, n), d)
      <4>1. OnceOnItsWay(d) /\ times(d)' = times(d)
        BY <2>i, <2>7 DEF times
      <4>2. k \in Nat /\ k <= occurrences(tmp, d) /\ (n = 0 => k = 0)
        BY <3>s, <3>0, OccurrencesPrefix, OccurrencesFinite
      <4>3. occurrences(tty', d) = occurrences(tty, d) + k
        <5>1. occurrences(tty \o SubSeq(tmp, 1, n), d)
                = occurrences(tty, d) + occurrences(SubSeq(tmp, 1, n), d)
          <6> DEFINE first == SubSeq(tmp, 1, n)
          <6>1. first \in Seq(Callers) /\ tty \in Seq(Callers)
            BY <3>s, <3>0
          <6> HIDE DEF first
          <6>2. occurrences(tty \o first, d) = occurrences(tty, d) + occurrences(first, d)
            BY <6>1, OccurrencesConcat
          <6> QED
            BY <6>2 DEF first
        <5> QED
          BY <2>7, <5>1
      <4> HIDE DEF k
      <4>4. occurrences(tmp, d) \in {0, 1} /\ k \in {0, 1}
        BY <2>n, <4>1, <4>2 DEF OnceOnItsWay
      <4>5. CASE tmp' = <<>> /\ relay' = "cat" /\ (resent => resent')
        <5>1. occurrences(tmp', d) = 0
          BY <4>5, OccurrencesEmpty
        <5> QED
          BY <2>n, <2>7, <4>1, <4>2, <4>3, <4>4, <4>5, <5>1 DEF OnceOnItsWay
      <4>6. CASE tmp' = tmp /\ relay = "send" /\ relay' = "retry" /\ (n > 0 \/ resent => resent')
        BY <2>n, <2>7, <4>1, <4>2, <4>3, <4>4, <4>6 DEF OnceOnItsWay
      <4> QED
        BY <2>7, <4>5, <4>6
    <3>3. ASSUME NEW d \in Callers, active(d)', alone'[d] PROVE OnlyItsOwn(d)'
      <4>1. OnlyItsOwn(d)
        BY <2>i, <2>7, <3>3
      <4>2. ASSUME NEW i \in 1 .. Len(tty') PROVE tty'[i] = d
        <5>1. CASE i <= Len(tty)
          BY <3>s, <3>a, <4>1, <5>1 DEF OnlyItsOwn
        <5>2. CASE i > Len(tty)
          <6>1. i - Len(tty) \in 1 .. Len(tmp)
            BY <3>s, <3>a, <5>2
          <6>2. tty'[i] = tmp[i - Len(tty)]
            BY <3>s, <3>a, <5>2
          <6> QED
            BY <4>1, <6>1, <6>2 DEF OnlyItsOwn
        <5> QED
          BY <3>s, <3>a, <5>1, <5>2
      <4>3. \A i \in 1 .. Len(tmp') : tmp'[i] = d
        BY <2>7, <4>1 DEF OnlyItsOwn
      <4> QED
        BY <2>7, <4>1, <4>2, <4>3 DEF OnlyItsOwn
    <3>4. OwnOutput'
      BY <2>i, <2>7 DEF OwnOutput
    <3> QED
      BY <2>7, <3>1, <3>2, <3>3, <3>4 DEF BridgeInv
  <2>8. CASE SendDelivers
    <3>1. tmp \in Seq(Callers) /\ SubSeq(tmp, 1, Len(tmp)) = tmp /\ Len(tmp) \in 0 .. Len(tmp)
      BY <2>t DEF BridgeType
    <3> QED
      BY <2>7, <2>8, <3>1 DEF SendDelivers, again
  <2>9. CASE SendSwallowed
    <3>1. /\ tty \in Seq(Callers) /\ tty \o SubSeq(tmp, 1, 0) = tty /\ 0 \in 0 .. Len(tmp)
      BY <2>t DEF BridgeType
    <3> QED
      BY <2>7, <2>9, <3>1 DEF SendSwallowed, again
  <2>10. CASE SendFails
    <3>1. PICK n \in 0 .. Len(tmp) :
            /\ tty' = tty \o SubSeq(tmp, 1, n)
            /\ resent' = (resent \/ (relay = "send" /\ n > 0))
      BY <2>10 DEF SendFails
    <3> QED
      BY <2>7, <2>10, <3>1 DEF SendFails, after_failure, again, sending
  \* The log grows by one entry, or a longer part of it is copied.
  <2>11. ASSUME NEW x \in Callers \cup {Prompt, Noise}, log' = Append(log, x),
                tty' \in Seq(Callers), shell' \in Callers \cup {NoCommand},
                \A d \in Callers :
                  occurrences(tty, d) = occurrences(tty', d) + IF x = d THEN 1 ELSE 0,
                \A i \in 1 .. Len(tty') : \E j \in 1 .. Len(tty) : tty'[i] = tty[j],
                x \in Callers => \E j \in 1 .. Len(tty) : x = tty[j],
                x = Prompt => shell # NoCommand,
                shell' = NoCommand \/ shell' = x \/ shell' = shell,
                UNCHANGED <<caller_vars, relay_vars, copied>>
         PROVE  BridgeInv'
    <3>0. log \in Seq(Callers \cup {Prompt, Noise}) /\ tty \in Seq(Callers)
      BY <2>t DEF BridgeType
    <3>a. /\ log' \in Seq(Callers \cup {Prompt, Noise}) /\ Len(log') = Len(log) + 1
          /\ \A i \in 1 .. Len(log) : log'[i] = log[i]
          /\ log'[Len(log) + 1] = x
      BY <2>11, <3>0, AppendProperties
    <3>1. BridgeType'
      BY <2>t, <2>11, <3>0, <3>a DEF BridgeType
    <3>2. ASSUME NEW d \in Callers PROVE OnceOnItsWay(d)'
      <4>1. OnceOnItsWay(d)
        BY <2>i
      <4>2. times(d)' = times(d) + IF x = d THEN 1 ELSE 0
        BY <2>11, <3>0, OccurrencesAppend DEF times
      <4>3. occurrences(tty', d) \in Nat
        BY <2>11, OccurrencesFinite
      <4>5. occurrences(tty', d) + times(d)' = occurrences(tty, d) + times(d)
        BY <2>n, <2>11, <4>2, <4>3
      <4> QED
        BY <2>11, <4>1, <4>5 DEF OnceOnItsWay
    <3>3. ASSUME NEW d \in Callers, active(d)', alone'[d] PROVE OnlyItsOwn(d)'
      <4>1. OnlyItsOwn(d) /\ start'[d] = start[d] /\ start[d] \in Nat
        BY <2>t, <2>i, <2>11, <3>3 DEF BridgeType
      <4>2. \A i \in 1 .. Len(tty') : tty'[i] = d
        BY <2>11, <4>1 DEF OnlyItsOwn
      <4>3. /\ x \in Callers => x = d
            /\ x = Prompt => \E j \in start[d] + 1 .. Len(log) : log[j] = d
        BY <2>11, <4>1 DEF OnlyItsOwn
      <4>4. Len(log) \in Nat /\ start[d] <= Len(log)
        BY <2>t, <3>0, <4>1 DEF BridgeType, OnlyItsOwn
      <4>5. ASSUME NEW i \in start[d] + 1 .. Len(log'), log'[i] = Prompt
            PROVE  \E j \in start[d] + 1 .. i : log'[j] = d
        <5>1. CASE i \in start[d] + 1 .. Len(log)
          <6>1. PICK j \in start[d] + 1 .. i : log[j] = d
            BY <3>a, <4>1, <4>4, <4>5, <5>1 DEF OnlyItsOwn
          <6>2. log'[j] = d
            BY <3>a, <4>1, <4>4, <5>1, <6>1
          <6> QED
            BY <6>2
        <5>2. CASE i = Len(log) + 1
          <6>1. x = Prompt
            BY <3>a, <4>5, <5>2
          <6>2. PICK j \in start[d] + 1 .. Len(log) : log[j] = d
            BY <4>3, <6>1
          <6>3. log'[j] = d /\ j \in start[d] + 1 .. i
            BY <3>a, <4>1, <4>4, <5>2, <6>2
          <6> QED
            BY <6>3
        <5> QED
          BY <3>a, <4>1, <4>4, <5>1, <5>2
      <4>6. shell' # NoCommand => \E j \in start[d] + 1 .. Len(log') : log'[j] = d
        <5> SUFFICES ASSUME shell' # NoCommand PROVE \E j \in start[d] + 1 .. Len(log') : log'[j] = d
          OBVIOUS
        <5>1. CASE shell' = x
          <6>1. x = d
            BY <2>11, <4>3, <5>1
          <6>2. Len(log) + 1 \in start[d] + 1 .. Len(log')
            BY <3>a, <4>1, <4>4
          <6> QED
            BY <3>a, <6>1, <6>2
        <5>2. CASE shell' = shell
          <6>1. PICK j \in start[d] + 1 .. Len(log) : log[j] = d
            BY <4>1, <5>2 DEF OnlyItsOwn
          <6>2. log'[j] = d /\ j \in start[d] + 1 .. Len(log')
            BY <3>a, <4>1, <4>4, <6>1
          <6> QED
            BY <6>2
        <5> QED
          BY <2>11, <5>1, <5>2
      <4> QED
        BY <2>11, <4>1, <4>2, <4>5, <4>6 DEF OnlyItsOwn
    <3>4. OwnOutput'
      <4> SUFFICES ASSUME NEW d \in Callers, st[d] = "ok", alone[d]
                   PROVE  \E i \in start[d] + 1 .. copied : log'[i] = d
        BY <2>11 DEF OwnOutput
      <4>1. PICK i \in start[d] + 1 .. copied : log[i] = d
        BY <2>i DEF OwnOutput
      <4>2. i \in 1 .. Len(log)
        BY <2>t, <3>0, <4>1 DEF BridgeType
      <4>3. log'[i] = d
        BY <3>a, <4>1, <4>2
      <4> QED
        BY <4>3
    <3> QED
      BY <2>i, <2>11, <3>1, <3>2, <3>3, <3>4 DEF BridgeInv
  <2>12. CASE Run
    <3>0. /\ tty \in Seq(Callers) /\ tty # <<>> /\ shell' = Head(tty) /\ tty' = Tail(tty)
          /\ log' = Append(log, Head(tty)) /\ UNCHANGED <<caller_vars, relay_vars, copied>>
      BY <2>t, <2>12 DEF Run, BridgeType
    <3>1. /\ Head(tty) \in Callers /\ Tail(tty) \in Seq(Callers)
          /\ Len(Tail(tty)) = Len(tty) - 1 /\ Head(tty) = tty[1] /\ Len(tty) \in Nat /\ Len(tty) >= 1
          /\ \A i \in 1 .. Len(tty) - 1 : Tail(tty)[i] = tty[i + 1]
      BY <3>0
    <3>2. \A i \in 1 .. Len(tty') : \E j \in 1 .. Len(tty) : tty'[i] = tty[j]
      <4> SUFFICES ASSUME NEW i \in 1 .. Len(tty') PROVE \E j \in 1 .. Len(tty) : tty'[i] = tty[j]
        OBVIOUS
      <4>1. i + 1 \in 1 .. Len(tty) /\ tty'[i] = tty[i + 1]
        BY <3>0, <3>1
      <4> QED
        BY <4>1
    <3>3. \E j \in 1 .. Len(tty) : Head(tty) = tty[j]
      BY <3>1
    <3>4. \A d \in Callers :
            occurrences(tty, d) = occurrences(tty', d) + IF Head(tty) = d THEN 1 ELSE 0
      BY <3>0, OccurrencesTail
    <3>5. Head(tty) # Prompt
      BY <3>1
    <3> QED
      BY <2>11, <3>0, <3>1, <3>2, <3>3, <3>4, <3>5
  <2>13. CASE Finish
    <3>1. \A d \in Callers : occurrences(tty, d) = occurrences(tty, d) + IF Prompt = d THEN 1 ELSE 0
      BY <2>n
    <3> QED
      BY <2>t, <2>11, <2>13, <3>1 DEF Finish, BridgeType
  <2>14. CASE KernelMessage
    <3>1. \A d \in Callers : occurrences(tty, d) = occurrences(tty, d) + IF Noise = d THEN 1 ELSE 0
      BY <2>n
    <3> QED
      BY <2>t, <2>11, <2>14, <3>1 DEF KernelMessage, BridgeType
  <2>15. CASE CopyLog
    <3>0. /\ copied' \in Nat /\ copied < copied' /\ copied' <= Len(log)
          /\ UNCHANGED <<caller_vars, relay_vars, vita_vars>>
      BY <2>t, <2>15 DEF CopyLog, BridgeType
    <3>1. BridgeType'
      BY <2>t, <3>0 DEF BridgeType
    <3>2. ASSUME NEW d \in Callers PROVE OnceOnItsWay(d)'
      BY <2>i, <3>0 DEF OnceOnItsWay, times
    <3>3. ASSUME NEW d \in Callers, active(d)', alone'[d] PROVE OnlyItsOwn(d)'
      <4>1. OnlyItsOwn(d)
        BY <2>i, <3>0, <3>3
      <4>2. start[d] <= copied'
        BY <2>t, <3>0, <4>1 DEF OnlyItsOwn, BridgeType
      <4> QED
        BY <3>0, <4>1, <4>2 DEF OnlyItsOwn
    <3>4. OwnOutput'
      <4> SUFFICES ASSUME NEW d \in Callers, st[d] = "ok", alone[d]
                   PROVE  \E i \in start[d] + 1 .. copied' : log[i] = d
        BY <3>0 DEF OwnOutput
      <4>1. PICK i \in start[d] + 1 .. copied : log[i] = d
        BY <2>i DEF OwnOutput
      <4>2. i \in start[d] + 1 .. copied'
        BY <2>t, <3>0, <4>1 DEF BridgeType
      <4> QED
        BY <4>1, <4>2
    <3> QED
      BY <2>i, <3>0, <3>1, <3>2, <3>3, <3>4 DEF BridgeInv
  <2>16. CASE UNCHANGED bridge_vars
    BY <2>i, <2>t, <2>16 DEF bridge_vars, BridgeInv, BridgeType, OnceOnItsWay, OnlyItsOwn, OwnOutput, times
  <2> QED
    BY <2>4, <2>5, <2>6, <2>8, <2>9, <2>10, <2>12, <2>13, <2>14, <2>15, <2>16
       DEF BridgeNext, Relay, Vita, Over
<1> QED
  BY <1>1, <1>2, PTL DEF BridgeSpec

\* A call that ends well, and had the bridge to itself, has its own output
\* (vita_cmd.sh: "Run a command on the Vita via serial and print its output"),
\* for any number of callers and kernel messages.
THEOREM OutputIsOwn == BridgeSpec => []OwnOutput
<1>1. BridgeInv => OwnOutput
  BY DEF BridgeInv
<1> QED
  BY <1>1, BridgeInvariant, PTL

\* However the tunnel fails, a command runs at most twice, and twice only if a
\* batch that had arrived, in part at least, was sent again.
THEOREM TwiceOnlyIfResent == BridgeSpec => []RunsTwiceOnlyIfResent
<1>1. BridgeInv => RunsTwiceOnlyIfResent
  <2> SUFFICES ASSUME BridgeInv, NEW c \in Callers PROVE times(c) <= 2 /\ (times(c) = 2 => resent)
    BY DEF RunsTwiceOnlyIfResent
  <2>1. BridgeType /\ OnceOnItsWay(c)
    BY DEF BridgeInv
  <2>2. occurrences(tmp, c) \in Nat /\ occurrences(tty, c) \in Nat /\ times(c) \in Nat
    BY <2>1, CountsAreNaturals
  <2> QED
    BY <2>1, <2>2 DEF OnceOnItsWay
<1> QED
  BY <1>1, BridgeInvariant, PTL
=============================================================================
