---------------------------- MODULE SerialBridge ----------------------------
(***************************************************************************)
(* vita_cmd.sh over serial-bridge.sh: a caller writes a command to a FIFO,  *)
(* the relay loop sends it through a tunnel to the machine with the serial  *)
(* port, the shell on the Vita runs it, and the growing log comes back as a *)
(* copy in which the caller looks for the prompt.                           *)
(*                                                                          *)
(* The log is a sequence of the commands whose output it holds, of prompts  *)
(* and of kernel messages.  The tunnel may refuse a batch, break off in the *)
(* middle, report a failure for what it has delivered, or accept what it    *)
(* then drops.                                                              *)
(***************************************************************************)
EXTENDS Integers, Sequences, FiniteSets

CONSTANTS
  Callers,  \* each runs one command, which is named after it
  MaxNoise  \* how many kernel messages there are (a bound)

NoCommand == "none"
Prompt    == "prompt"
Noise     == "noise"

ASSUME SerialAssumption ==
  /\ {NoCommand, Prompt, Noise} \cap Callers = {}
  /\ MaxNoise \in Nat

VARIABLES
  st, start,  \* of each caller: "idle", "snapped", "waiting", "ok", "timed_out"
              \* or "broken", and start_bytes
  fifo, tmp,  \* the commands in the FIFO and in the relay's temporary file
  relay,      \* the relay loop: "cat", "closing", "send" or "retry"
  tty, shell, \* what the serial line has taken, the command that runs or NoCommand
  log, copied \* the log, and how much of it the copy has

\* Whether a caller had the bridge to itself, with nothing of earlier calls
\* under way; whether a command may have got lost; and whether a batch was
\* sent again that had been delivered, in part at least.
VARIABLES alone, lost, resent

caller_vars == <<st, start, alone>>
relay_vars  == <<fifo, relay, tmp, lost, resent>>
vita_vars   == <<tty, shell, log>>
bridge_vars == <<caller_vars, relay_vars, vita_vars, copied>>

BridgeInit ==
  /\ st = [c \in Callers |-> "idle"] /\ start = [c \in Callers |-> 0]
  /\ alone = [c \in Callers |-> FALSE]
  /\ fifo = <<>> /\ relay = "cat" /\ tmp = <<>> /\ lost = FALSE /\ resent = FALSE
  /\ tty = <<>> /\ shell = NoCommand /\ log = <<Prompt>> /\ copied = 1

----------------------------------------------------------------------------
(* vita_cmd.sh *)

active(c) == st[c] \in {"snapped", "waiting"}

quiet == /\ fifo = <<>> /\ relay = "cat" /\ tty = <<>> /\ shell = NoCommand
         /\ copied = Len(log) /\ \A c \in Callers : ~active(c)

\* Output counted from the beginning of the log (mutant).
log_position_start == 0

log_position == copied

Snapshot(c) ==
  /\ st[c] = "idle"
  /\ st' = [st EXCEPT ![c] = "snapped"]
  /\ start' = [start EXCEPT ![c] = log_position]
  /\ alone' = [d \in Callers |-> IF d = c THEN quiet ELSE alone[d] /\ ~active(d)]
  /\ UNCHANGED <<relay_vars, vita_vars, copied>>

\* Opening the FIFO waits for a reader, and a reader that has seen the end of
\* the file still counts as one until it closes.  What is written then is there
\* for the next reader if the writer is still there when that one opens, and is
\* dropped otherwise.
Write(c) ==
  /\ st[c] = "snapped" /\ relay \in {"cat", "closing"}
  /\ st' = [st EXCEPT ![c] = "waiting"]
  /\ \/ fifo' = Append(fifo, c) /\ UNCHANGED lost
     \/ relay = "closing" /\ lost' = TRUE /\ UNCHANGED fifo
  /\ UNCHANGED <<start, alone, relay, tmp, resent, vita_vars, copied>>

\* The reader is gone between the open and the write: SIGPIPE ends the caller.
WriteBreaks(c) ==
  /\ st[c] = "snapped" /\ relay = "closing"
  /\ st' = [st EXCEPT ![c] = "broken"] /\ lost' = TRUE
  /\ UNCHANGED <<start, alone, fifo, relay, tmp, resent, vita_vars, copied>>

\* The copy has new data and its last bytes are the prompt.
prompt_seen(c) == copied > start[c] /\ log[copied] = Prompt

SeePrompt(c) ==
  /\ st[c] = "waiting" /\ prompt_seen(c)
  /\ st' = [st EXCEPT ![c] = "ok"]
  /\ UNCHANGED <<start, alone, relay_vars, vita_vars, copied>>

TimeOut(c) ==
  /\ st[c] = "waiting" /\ ~prompt_seen(c)
  /\ st' = [st EXCEPT ![c] = "timed_out"]
  /\ UNCHANGED <<start, alone, relay_vars, vita_vars, copied>>

----------------------------------------------------------------------------
(* serial-bridge.sh: the relay loop, the tunnel and the copy of the log *)

\* cat ends when the last writer has closed the FIFO.
Collect ==
  /\ relay = "cat" /\ fifo # <<>>
  /\ tmp' = fifo /\ fifo' = <<>> /\ relay' = "closing"
  /\ UNCHANGED <<caller_vars, lost, resent, vita_vars, copied>>

CloseFifo ==
  /\ relay = "closing" /\ relay' = "send"
  /\ UNCHANGED <<caller_vars, fifo, tmp, lost, resent, vita_vars, copied>>

sending == relay \in {"send", "retry"}

\* The loop is at its top again, the temporary file removed.
again == relay' = "cat" /\ tmp' = <<>>

\* A loop that sends every batch twice (mutant).
SendDeliversTwice ==
  /\ sending /\ tty' = tty \o tmp
  /\ relay' = IF relay = "send" THEN "retry" ELSE "cat"
  /\ UNCHANGED <<caller_vars, fifo, tmp, lost, resent, shell, log, copied>>

SendDelivers ==
  /\ sending /\ again
  /\ tty' = tty \o tmp
  /\ UNCHANGED <<caller_vars, fifo, lost, resent, shell, log, copied>>

\* The tunnel takes the batch and the far end is not listening.
SendSwallowed ==
  /\ sending /\ again
  /\ lost' = TRUE
  /\ UNCHANGED <<caller_vars, fifo, resent, vita_vars, copied>>

\* Giving up after the first failure (mutant).
after_failure_none == relay' = "cat" /\ tmp' = <<>>

\* The first failure is followed by one retry, the second one by || true.
after_failure == IF relay = "send" THEN relay' = "retry" /\ UNCHANGED tmp ELSE again

SendFails ==
  /\ sending /\ after_failure
  /\ \E n \in 0 .. Len(tmp) :
       /\ tty' = tty \o SubSeq(tmp, 1, n)
       /\ resent' = (resent \/ (relay = "send" /\ n > 0))
       /\ lost' = (lost \/ (relay = "retry" /\ n < Len(tmp)))
  /\ UNCHANGED <<caller_vars, fifo, shell, log, copied>>

CopyLog ==
  /\ copied < Len(log) /\ copied' \in copied + 1 .. Len(log)
  /\ UNCHANGED <<caller_vars, relay_vars, vita_vars>>

----------------------------------------------------------------------------
(* The Vita *)

Run ==
  /\ shell = NoCommand /\ tty # <<>>
  /\ shell' = Head(tty) /\ tty' = Tail(tty)
  /\ log' = Append(log, Head(tty))
  /\ UNCHANGED <<caller_vars, relay_vars, copied>>

Finish ==
  /\ shell # NoCommand /\ shell' = NoCommand
  /\ log' = Append(log, Prompt)
  /\ UNCHANGED <<caller_vars, relay_vars, tty, copied>>

occurrences(s, x) == Cardinality({i \in 1 .. Len(s) : s[i] = x})
times(x) == occurrences(log, x)

KernelMessage ==
  /\ times(Noise) < MaxNoise
  /\ log' = Append(log, Noise)
  /\ UNCHANGED <<caller_vars, relay_vars, tty, shell, copied>>

Relay == Collect \/ CloseFifo \/ SendDelivers \/ SendSwallowed \/ SendFails
Vita  == Run \/ Finish
Call(c) == Snapshot(c) \/ Write(c) \/ WriteBreaks(c) \/ SeePrompt(c) \/ TimeOut(c)

Over == (\A c \in Callers : ~active(c) /\ st[c] # "idle") /\ UNCHANGED bridge_vars

BridgeNext ==
  \/ \E c \in Callers : Call(c)
  \/ Relay \/ CopyLog \/ Vita \/ KernelMessage \/ Over

\* The loops of the bridge and the shell go on, and so does a call once begun.
BridgeFairness ==
  /\ WF_bridge_vars(Relay) /\ WF_bridge_vars(CopyLog) /\ WF_bridge_vars(Vita)
  /\ \A c \in Callers : SF_bridge_vars(Write(c)) /\ WF_bridge_vars(SeePrompt(c)) /\ WF_bridge_vars(TimeOut(c))

BridgeSpec == BridgeInit /\ [][BridgeNext]_bridge_vars /\ BridgeFairness

----------------------------------------------------------------------------
(* Properties *)

\* "Run a command on the Vita via serial and print its output."  A call that
\* ends well has its own output, provided nobody else used the bridge and
\* nothing of an earlier call was under way when it took its position: not a
\* command that timed out, not a batch sent twice, not a log not yet copied.
OwnOutput ==
  \A c \in Callers : st[c] = "ok" /\ alone[c] =>
    \E i \in start[c] + 1 .. copied : log[i] = c

\* A command runs twice only if a batch was sent again after it had arrived,
\* and never more often: the relay retries once.
RunsTwiceOnlyIfResent ==
  \A c \in Callers : times(c) <= 2 /\ (times(c) = 2 => resent)

\* Every call ends, and a command that was written runs, unless a send was
\* swallowed, a batch failed twice, or the FIFO was written while it closed.
CallsEndAndRun ==
  \A c \in Callers : st[c] = "snapped" ~> ~active(c) /\ (lost \/ times(c) > 0)
=============================================================================
