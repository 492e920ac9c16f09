---------------------------- MODULE FbOwnership ----------------------------
(***************************************************************************)
(* cart/scripts/start-demo-cart.sh and stop-demo-cart.sh: who owns the      *)
(* framebuffer.  start saves the frame on the screen, takes the console off *)
(* it and launches the renderer; stop, and the exit trap of a start that    *)
(* fails, put both back.  What must survive between the two is in files of  *)
(* /run: the saved frame and the mark that the console was bound.           *)
(*                                                                          *)
(* The scripts run one at a time, one action per command that changes       *)
(* something, so that a kill can fall between any two; commands fail, a     *)
(* start is interrupted, the renderer dies.  rm -f of a file in /run does   *)
(* not fail.                                                                *)
(***************************************************************************)
EXTENDS Naturals

CONSTANTS MaxScripts, MaxFaults  \* bounds: script runs, and failures among them

ASSUME OwnershipAssumption == MaxScripts \in Nat /\ MaxFaults \in Nat

VARIABLES
  screen,    \* the picture that was there first ("console"), or any other ("cart")
  bound,     \* vtcon1 is bound to the framebuffer
  save,      \* SAVE: "none" or the picture in it
  mark,      \* MARK exists
  pidfile,   \* PID exists
  renderer,  \* "off" or "on"
  step,      \* the command a script has come to, or "idle"
  status     \* the exit status the script is going to have

\* was_bound: what bound was before the first start.  orphaned: a start found
\* the mark of an unbound console or the save of another picture, left by an
\* earlier one, and removed or overwrote it.  overdrawn: screen or console were
\* given back while the renderer was running.  stopped: the last script was a
\* stop that reported success.
VARIABLES was_bound, orphaned, overdrawn, stopped, scripts_used, faults_used

screen_vars == <<screen, bound>>
file_vars   == <<save, mark, pidfile>>
ghost_vars  == <<was_bound, orphaned, overdrawn, stopped, scripts_used>>
ownership_vars == <<screen_vars, file_vars, renderer, step, status, ghost_vars, faults_used>>

StartSteps   == {"check", "clear", "save", "mark", "unbind", "launch", "settle"}
CleanupSteps == {"putback", "unsave", "rebind", "unmark"}
StopSteps    == {"match", "wait", "restore", "drop", "console", "forget"}

OwnershipTypeOK ==
  /\ screen \in {"console", "cart"} /\ save \in {"none", "console", "cart"}
  /\ bound \in BOOLEAN /\ mark \in BOOLEAN /\ pidfile \in BOOLEAN
  /\ renderer \in {"off", "on"}
  /\ step \in {"idle"} \cup StartSteps \cup CleanupSteps \cup StopSteps
  /\ status \in {0, 1}
  /\ step \in {"launch", "settle"} => save # "none"
  /\ was_bound \in BOOLEAN /\ orphaned \in BOOLEAN /\ overdrawn \in BOOLEAN /\ stopped \in BOOLEAN
  /\ scripts_used \in 0 .. MaxScripts /\ faults_used \in 0 .. MaxFaults

OwnershipInit ==
  /\ screen = "console" /\ bound \in BOOLEAN /\ was_bound = bound
  /\ save = "none" /\ mark = FALSE /\ pidfile = FALSE /\ renderer = "off"
  /\ step = "idle" /\ status = 0
  /\ orphaned = FALSE /\ overdrawn = FALSE /\ stopped = FALSE
  /\ scripts_used = 0 /\ faults_used = 0

Fault == faults_used < MaxFaults /\ faults_used' = faults_used + 1

----------------------------------------------------------------------------
(* The renderer and the console *)

RendererDraws ==
  /\ renderer = "on" /\ screen # "cart" /\ screen' = "cart"
  /\ UNCHANGED <<bound, file_vars, renderer, step, status, ghost_vars, faults_used>>

RendererDies ==
  /\ renderer = "on" /\ renderer' = "off" /\ Fault
  /\ UNCHANGED <<screen_vars, file_vars, step, status, ghost_vars>>

----------------------------------------------------------------------------
(* start-demo-cart.sh *)

cart_pid_matches == pidfile /\ renderer = "on"

StartBegins ==
  /\ step = "idle" /\ scripts_used < MaxScripts /\ scripts_used' = scripts_used + 1
  /\ step' = "check" /\ status' = 0 /\ stopped' = FALSE
  /\ UNCHANGED <<screen_vars, file_vars, renderer, was_bound, orphaned, overdrawn, faults_used>>

StartCheck ==
  /\ step = "check"
  /\ step' = IF cart_pid_matches THEN "idle" ELSE "clear"
  /\ UNCHANGED <<screen_vars, file_vars, renderer, status, ghost_vars, faults_used>>

\* rm -f PID LOG MARK
StartClear ==
  /\ step = "clear" /\ step' = "save"
  /\ pidfile' = FALSE /\ mark' = FALSE
  /\ orphaned' = (orphaned \/ (mark /\ ~bound) \/ save \notin {"none", screen})
  /\ UNCHANGED <<screen_vars, save, renderer, status, was_bound, overdrawn, stopped, scripts_used,
                 faults_used>>

\* dd into SAVE_TMP, the size test, mv to SAVE
StartSave ==
  /\ step = "save" /\ step' = "mark"
  /\ save' = screen
  /\ UNCHANGED <<screen_vars, mark, pidfile, renderer, status, ghost_vars, faults_used>>

\* A start that unbinds the console without a mark (mutant).
StartMarkForgets ==
  /\ step = "mark"
  /\ step' = IF bound THEN "unbind" ELSE "launch"
  /\ UNCHANGED <<screen_vars, file_vars, renderer, status, ghost_vars, faults_used>>

StartMark ==
  /\ step = "mark"
  /\ mark' = bound
  /\ step' = IF bound THEN "unbind" ELSE "launch"
  /\ UNCHANGED <<screen_vars, save, pidfile, renderer, status, ghost_vars, faults_used>>

\* An unbind that is not one (mutant).
StartUnbindNot ==
  /\ step = "unbind" /\ step' = "launch"
  /\ UNCHANGED <<screen_vars, file_vars, renderer, status, ghost_vars, faults_used>>

StartUnbind ==
  /\ step = "unbind" /\ step' = "launch"
  /\ bound' = FALSE
  /\ UNCHANGED <<screen, file_vars, renderer, status, ghost_vars, faults_used>>

\* start-stop-daemon -S
StartLaunch ==
  /\ step = "launch" /\ step' = "settle"
  /\ pidfile' = TRUE /\ renderer' = "on"
  /\ UNCHANGED <<screen_vars, save, mark, status, ghost_vars, faults_used>>

\* After the second's sleep: done, or "failed to stay running".
StartSettle ==
  /\ step = "settle"
  /\ IF cart_pid_matches THEN step' = "idle" /\ UNCHANGED <<pidfile, status>>
     ELSE step' = "putback" /\ pidfile' = FALSE /\ status' = 1
  /\ UNCHANGED <<screen_vars, save, mark, renderer, ghost_vars, faults_used>>

\* A command of start fails or a signal arrives: the exit trap takes over.
StartFails ==
  /\ step \in StartSteps /\ Fault
  /\ step' = "putback" /\ status' = 1
  /\ UNCHANGED <<screen_vars, file_vars, renderer, ghost_vars>>

\* What a dd of the saved frame that does not come to its end leaves on the
\* screen: nothing or part of it written.
torn == {screen, IF save = screen THEN screen ELSE "cart"}

\* A script is killed outright, in a command or between two; no trap runs.
ScriptKilled ==
  /\ step # "idle" /\ Fault
  /\ step' = "idle"
  /\ screen' \in IF step \in {"putback", "restore"} /\ save # "none" THEN torn ELSE {screen}
  /\ UNCHANGED <<bound, file_vars, renderer, status, ghost_vars>>

----------------------------------------------------------------------------
(* Giving the screen back: cleanup of start, and the second half of stop.   *)
(* Each command goes on to the next one, or past it when there is nothing   *)
(* to do or it failed.                                                      *)

\* dd of SAVE to the framebuffer, if there is a SAVE
PutFrame(from, to, past) ==
  /\ step = from
  /\ \/ save = "none" /\ step' = past /\ UNCHANGED <<screen, status, overdrawn, faults_used>>
     \/ /\ save # "none" /\ step' = to
        /\ screen' = save /\ overdrawn' = (overdrawn \/ renderer = "on")
        /\ UNCHANGED <<status, faults_used>>
     \/ /\ save # "none" /\ Fault /\ step' = past
        /\ screen' \in torn /\ status' = 1
        /\ UNCHANGED overdrawn
  /\ UNCHANGED <<bound, file_vars, renderer, was_bound, orphaned, stopped, scripts_used>>

\* rm -f SAVE
DropSave(from, to) ==
  /\ step = from /\ step' = to
  /\ save' = "none"
  /\ UNCHANGED <<screen_vars, mark, pidfile, renderer, status, ghost_vars, faults_used>>

\* stop ends with its last command, and says that everything is restored if
\* nothing has failed.
Reports == stopped' = (step \in StopSteps /\ step' = "idle" /\ status' = 0)

\* printf 1 to BIND, if there is a MARK
BindConsole(from, to) ==
  /\ step = from
  /\ \/ ~mark /\ step' = "idle" /\ UNCHANGED <<bound, status, overdrawn, faults_used>>
     \/ /\ mark /\ step' = to
        /\ bound' = TRUE /\ overdrawn' = (overdrawn \/ renderer = "on")
        /\ UNCHANGED <<status, faults_used>>
     \/ mark /\ Fault /\ step' = "idle" /\ status' = 1 /\ UNCHANGED <<bound, overdrawn>>
  /\ Reports
  /\ UNCHANGED <<screen, file_vars, renderer, was_bound, orphaned, scripts_used>>

\* rm -f MARK
DropMark(from) ==
  /\ step = from /\ step' = "idle"
  /\ mark' = FALSE
  /\ UNCHANGED <<screen_vars, save, pidfile, renderer, status, was_bound, orphaned, overdrawn,
                 scripts_used, faults_used>>
  /\ Reports

\* A cleanup that removes the mark and then binds the console (mutant).
CleanupUnmarksFirst ==
  \/ PutFrame("putback", "unsave", "rebind") \/ DropSave("unsave", "rebind")
  \/ /\ step = "rebind" /\ step' = IF mark THEN "unmark" ELSE "idle"
     /\ mark' = FALSE
     /\ UNCHANGED <<screen_vars, save, pidfile, renderer, status, ghost_vars, faults_used>>
  \/ /\ step = "unmark" /\ step' = "idle"
     /\ bound' = TRUE
     /\ UNCHANGED <<screen, file_vars, renderer, status, ghost_vars, faults_used>>

Cleanup ==
  \/ PutFrame("putback", "unsave", "rebind") \/ DropSave("unsave", "rebind")
  \/ BindConsole("rebind", "unmark") \/ DropMark("unmark")

----------------------------------------------------------------------------
(* stop-demo-cart.sh *)

StopBegins ==
  /\ step = "idle" /\ scripts_used < MaxScripts /\ scripts_used' = scripts_used + 1
  /\ step' = "match" /\ status' = 0 /\ stopped' = FALSE
  /\ UNCHANGED <<screen_vars, file_vars, renderer, was_bound, orphaned, overdrawn, faults_used>>

\* TERM to a renderer that is there; a PID file that names none is removed.
StopMatch ==
  /\ step = "match"
  /\ IF cart_pid_matches THEN step' = "wait" /\ UNCHANGED pidfile
     ELSE step' = "restore" /\ pidfile' = FALSE
  /\ UNCHANGED <<screen_vars, save, mark, renderer, status, ghost_vars, faults_used>>

\* The TERM cannot be sent; stop waits as if it had been.
StopTermFails ==
  /\ step = "match" /\ cart_pid_matches /\ Fault
  /\ step' = "wait" /\ status' = 1
  /\ UNCHANGED <<screen_vars, file_vars, renderer, ghost_vars>>

\* The TERM that was sent ends the renderer.
RendererStops ==
  /\ step = "wait" /\ status = 0 /\ renderer = "on"
  /\ renderer' = "off"
  /\ UNCHANGED <<screen_vars, file_vars, step, status, ghost_vars, faults_used>>

\* Within three seconds the renderer is gone, and the PID file is removed.
StopWait ==
  /\ step = "wait" /\ renderer = "off"
  /\ step' = "restore" /\ pidfile' = FALSE
  /\ UNCHANGED <<screen_vars, save, mark, renderer, status, ghost_vars, faults_used>>

\* It is not: the PID file stays, and stop goes on all the same.
StopGivesUp ==
  /\ step = "wait" /\ step' = "restore" /\ Fault
  /\ cart_pid_matches /\ status' = 1
  /\ UNCHANGED <<screen_vars, file_vars, renderer, ghost_vars>>

Stop ==
  \/ StopMatch \/ StopTermFails \/ RendererStops \/ StopWait \/ StopGivesUp
  \/ PutFrame("restore", "drop", "console") \/ DropSave("drop", "console")
  \/ BindConsole("console", "forget") \/ DropMark("forget")

Start == StartCheck \/ StartClear \/ StartSave \/ StartMark \/ StartUnbind \/ StartLaunch
         \/ StartSettle

OwnershipNext ==
  \/ RendererDraws \/ RendererDies
  \/ StartBegins \/ Start \/ StartFails \/ ScriptKilled \/ Cleanup
  \/ StopBegins \/ Stop

OwnershipSpec == OwnershipInit /\ [][OwnershipNext]_ownership_vars

----------------------------------------------------------------------------
(* Properties *)

\* A stop that says so has put everything back, whatever failed, died or was
\* killed before it, unless a start destroyed what an earlier one had left or the
\* screen was given back under a running renderer.
StopRestores ==
  stopped /\ ~orphaned /\ ~overdrawn => screen = "console" /\ bound = was_bound

\* Under the same conditions, at every moment the picture and the console can
\* still be put back from what is in /run: also between writing the frame and
\* removing SAVE, between binding the console and removing MARK, and after a
\* write that failed halfway.
NothingLost ==
  ~orphaned /\ ~overdrawn =>
    /\ screen = "console" \/ save = "console"
    /\ bound = was_bound \/ mark

\* While the renderer runs the console is off the screen, unless it was given
\* back under it.
RendererAlone == ~overdrawn /\ renderer = "on" => ~bound

\* cart/scripts/stop-demo-cart.sh: "PSTV Demo Cart stopped; framebuffer console
\* restored", printed when the script exits with 0.
StopSaysRestored == stopped => bound = was_bound
=============================================================================
