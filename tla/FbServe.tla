------------------------------ MODULE FbServe ------------------------------
(***************************************************************************)
(* toolkit/share/vita-fbserve.c: an HTTP server that sends snapshots of the *)
(* framebuffer to one client at a time, while a renderer draws on it.       *)
(*                                                                          *)
(* A request is a number of bytes; its header ends at byte head, or never   *)
(* when head is 0, and more may follow.  What it asks for stands for the    *)
(* text that sscanf and strcmp look at.  The framebuffer is two halves,     *)
(* each with the number of times it has been drawn.  A text reply fits into *)
(* the socket's buffer; a bitmap (173 KB) does not, and is sent only as     *)
(* fast as its client reads.                                                *)
(***************************************************************************)
EXTENDS Integers, Sequences

CONSTANTS
  Clients,
  Requests,       \* what a client may send
  REQUEST_BYTES,  \* the size of the request buffer
  Backlog,        \* of listen
  MaxDraws        \* how often each half is drawn (a bound)

Asks == {"bitmap", "health", "other_path", "other_method", "junk"}
Request == [asks : Asks, head : Nat, length : Nat]

ASSUME FbServeAssumption ==
  /\ Requests \subseteq Request
  /\ \A r \in Requests : r.head <= r.length /\ (r.head = 0 \/ r.head >= 2)
  /\ "none" \notin Clients
  /\ REQUEST_BYTES \in Nat \ {0} /\ Backlog \in Nat \ {0} /\ MaxDraws \in Nat

TextReply == [asks \in Asks \ {"bitmap"} |->
              CASE asks = "health" -> "ok_text" [] asks = "other_path" -> "not_found"
                [] asks = "other_method" -> "not_allowed" [] asks = "junk" -> "bad_request"]
Replies == {"ok_bitmap", "ok_text", "bad_request", "not_found", "not_allowed", "too_large",
            "unavailable"}
Halves == {1, 2}

\* The server: where it is, the client it has accepted, how much of the request
\* it has, the response it has decided on, its copy of the framebuffer, how
\* many halves of it are read, and the option --once.
VARIABLES pc, client, used, response, framebuffer, halves, once

\* The clients: connected and waiting to be accepted, their connection ("reading"
\* while they take a bitmap), what they ask, how much they have sent, how much of
\* it is received, and the reply; and the screen.
VARIABLES backlog, state, request, sent, received, reply, fb

\* The screen when the request was accepted.
VARIABLE since

server_vars == <<pc, client, used, response, framebuffer, halves, once>>
client_vars == <<backlog, state, request, sent, received, reply>>
vars == <<server_vars, client_vars, fb, since>>

None == "none"

TypeOK ==
  /\ pc \in {"accept", "recv", "read", "send", "exited"}
  /\ client \in Clients \cup {None}
  /\ used \in 0 .. REQUEST_BYTES
  /\ response \in Replies \cup {None}
  /\ framebuffer \in [Halves -> 0 .. MaxDraws] /\ halves \in 0 .. 2
  /\ once \in BOOLEAN
  /\ backlog \in Seq(Clients) /\ Len(backlog) <= Backlog
  /\ state \in [Clients -> {"away", "connected", "reading", "hung_up", "closed"}]
  /\ request \in [Clients -> Requests]
  /\ sent \in [Clients -> Nat] /\ received \in [Clients -> Nat]
  /\ reply \in [Clients -> Replies \cup {None}]
  /\ fb \in [Halves -> 0 .. MaxDraws] /\ since \in [Halves -> 0 .. MaxDraws]

Init ==
  /\ pc = "accept" /\ client = None /\ used = 0 /\ response = None
  /\ framebuffer = [h \in Halves |-> 0] /\ halves = 0
  /\ once \in BOOLEAN
  /\ backlog = <<>> /\ state = [c \in Clients |-> "away"]
  /\ request \in [Clients -> Requests]
  /\ sent = [c \in Clients |-> 0] /\ received = [c \in Clients |-> 0]
  /\ reply = [c \in Clients |-> None]
  /\ fb = [h \in Halves |-> 0] /\ since = [h \in Halves |-> 0]

----------------------------------------------------------------------------
(* The clients and the renderer *)

Connect(c) ==
  /\ state[c] = "away" /\ pc # "exited" /\ Len(backlog) < Backlog
  /\ state' = [state EXCEPT ![c] = "connected"]
  /\ backlog' = Append(backlog, c)
  /\ UNCHANGED <<server_vars, request, sent, received, reply, fb, since>>

\* More of the request leaves the client, a byte or all the rest.
Send(c) ==
  /\ state[c] = "connected" /\ sent[c] < request[c].length
  /\ \E n \in {sent[c] + 1, request[c].length} : sent' = [sent EXCEPT ![c] = n]
  /\ UNCHANGED <<server_vars, backlog, state, request, received, reply, fb, since>>

\* A client reads the bitmap that is being sent to it, to the end.  It need not.
Read(c) ==
  /\ pc = "send" /\ client = c /\ response = "ok_bitmap" /\ state[c] = "connected"
  /\ state' = [state EXCEPT ![c] = "reading"]
  /\ UNCHANGED <<server_vars, backlog, request, sent, received, reply, fb, since>>

\* The client closes the connection, whatever it has sent or read so far.
HangUp(c) ==
  /\ state[c] \in {"connected", "reading"}
  /\ state' = [state EXCEPT ![c] = "hung_up"]
  /\ UNCHANGED <<server_vars, backlog, request, sent, received, reply, fb, since>>

Draw(h) ==
  /\ fb[h] < MaxDraws
  /\ fb' = [fb EXCEPT ![h] = @ + 1]
  /\ UNCHANGED <<server_vars, client_vars, since>>

----------------------------------------------------------------------------
(* The server *)

Accept ==
  /\ pc = "accept" /\ backlog # <<>>
  /\ client' = Head(backlog) /\ backlog' = Tail(backlog)
  /\ used' = 0 /\ pc' = "recv" /\ since' = fb
  /\ UNCHANGED <<response, framebuffer, halves, once, state, request, sent, received, reply, fb>>

\* Any error but EINTR ends the program.
AcceptFails ==
  /\ pc = "accept" /\ pc' = "exited"
  /\ UNCHANGED <<client, used, response, framebuffer, halves, once, client_vars, fb, since>>

\* A response before the header is complete (mutant).
decided_early(r, n) ==
  IF n = REQUEST_BYTES THEN "too_large"
  ELSE IF r.head = 0 \/ n < r.head THEN "bad_request"
  ELSE IF r.asks = "bitmap" THEN "ok_bitmap"
  ELSE TextReply[r.asks]

\* The response to n bytes of a request; None while more is to be received.
decided(r, n) ==
  IF n = REQUEST_BYTES THEN "too_large"
  ELSE IF r.head = 0 \/ n < r.head THEN None
  ELSE IF r.asks = "bitmap" THEN "ok_bitmap"
  ELSE TextReply[r.asks]

Recv ==
  /\ pc = "recv"
  /\ \E n \in 1 .. REQUEST_BYTES - used :
       /\ n <= sent[client] - received[client]
       /\ used' = used + n
       /\ received' = [received EXCEPT ![client] = @ + n]
  /\ response' = decided(request[client], used')
  /\ pc' = IF response' = None THEN "recv" ELSE IF response' = "ok_bitmap" THEN "read" ELSE "send"
  /\ halves' = 0
  /\ UNCHANGED <<client, framebuffer, once, backlog, state, request, sent, reply, fb, since>>

\* A server that waits for more from a client that hung up (mutant).
RecvEndsWaiting == FALSE /\ UNCHANGED vars

\* End of file, or the error of a reset connection that may have discarded
\* bytes, before the request is complete: no response.
RecvEnds ==
  /\ pc = "recv" /\ state[client] = "hung_up"
  /\ pc' = "accept" /\ client' = None
  /\ state' = [state EXCEPT ![client] = "closed"]
  /\ UNCHANGED <<used, response, framebuffer, halves, once, backlog, request, sent, received,
                 reply, fb, since>>

\* A read of the framebuffer in which the end of the file counts as success
\* and the rest of the copy stays what it was (mutant).
ReadFailsKept ==
  /\ pc = "read" /\ pc' = "send"
  /\ UNCHANGED <<client, used, response, framebuffer, halves, once, client_vars, fb, since>>

ReadFails ==
  /\ pc = "read" /\ response' = "unavailable" /\ pc' = "send"
  /\ UNCHANGED <<client, used, framebuffer, halves, once, client_vars, fb, since>>

ReadHalf ==
  /\ pc = "read" /\ halves < 2
  /\ framebuffer' = [framebuffer EXCEPT ![halves + 1] = fb[halves + 1]]
  /\ halves' = halves + 1
  /\ pc' = IF halves + 1 = 2 THEN "send" ELSE "read"
  /\ UNCHANGED <<client, used, response, once, client_vars, fb, since>>

\* A server that goes on after its one request (mutant).
after_response_forever == "accept"

after_response == IF once THEN "exited" ELSE "accept"

\* send_all blocks, without a limit, while the client does not take the bitmap.
send_blocks == response = "ok_bitmap" /\ state[client] = "connected"

\* send_response and close.  A client that is gone does not get the reply; one
\* that has sent more than was received may have its connection reset by the
\* close before it has read the reply.
Respond ==
  /\ pc = "send" /\ ~send_blocks
  /\ \/ /\ state[client] # "hung_up"
        /\ reply' = [reply EXCEPT ![client] = response]
     \/ /\ state[client] = "hung_up" \/ received[client] < sent[client]
        /\ UNCHANGED reply
  /\ state' = [state EXCEPT ![client] = "closed"]
  /\ client' = None /\ response' = None /\ pc' = after_response
  /\ UNCHANGED <<used, framebuffer, halves, once, backlog, request, sent, received, fb, since>>

Exited == pc = "exited" /\ UNCHANGED vars

Serve == Accept \/ Recv \/ RecvEnds \/ ReadHalf \/ ReadFails \/ Respond

Next ==
  \/ \E c \in Clients : Connect(c) \/ Send(c) \/ Read(c) \/ HangUp(c)
  \/ \E h \in Halves : Draw(h)
  \/ Serve \/ AcceptFails \/ Exited

\* The server goes on whenever it can.  The clients owe nothing.
Spec == Init /\ [][Next]_vars /\ WF_vars(Serve)

----------------------------------------------------------------------------
(* Properties *)

\* What a request deserves, seen from outside: the requested thing if all of
\* it is shorter than the buffer, too_large (413) if the header does not fit.  When a
\* complete header is followed by enough other bytes it depends on what the
\* first reads returned.
deserved(r) ==
  LET own == IF r.asks = "bitmap" THEN {"ok_bitmap", "unavailable"} ELSE {TextReply[r.asks]}
  IN  (IF r.head \in 1 .. REQUEST_BYTES - 1 THEN own ELSE {})
      \cup (IF r.length >= REQUEST_BYTES THEN {"too_large"} ELSE {})

\* However the request arrives, in pieces or with other clients waiting, a
\* client gets only the reply its own request deserves.
RightReply == \A c \in Clients : reply[c] # None => reply[c] \in deserved(request[c])

\* The copy of the framebuffer is a static buffer that every request reuses.
\* A bitmap that is sent is never older than the request, in either half, also
\* after reads that failed halfway.  (The two halves need not be of one frame.)
FrameIsFresh ==
  pc = "send" /\ response = "ok_bitmap" => \A h \in Halves : framebuffer[h] >= since[h]

answered == {c \in Clients : reply[c] # None}
served   == {c \in answered : reply[c] \in {"ok_bitmap", "ok_text"}}

\* "--once serve one valid request, then exit" (vita-fbserve.c:39), as far as it
\* is so: a client that got what it asked for is the only one answered, and
\* the program has ended.  (It also ends after an answer that refuses a request,
\* which the text does not say; nothing is claimed of that.)
OnceServesOne == once => \A c \in served : answered = {c} /\ pc = "exited"

\* The server waits for its client: for more of the request, or for it to read.
held_up ==
  \/ pc = "recv" /\ state[client] = "connected" /\ received[client] = sent[client]
  \/ pc = "send" /\ send_blocks

\* Whoever connects is served while the server runs, unless one client that
\* neither goes on nor hangs up holds the server for ever.  So a request in
\* pieces, one that never ends, a hang-up in the middle of the request or of the
\* reply, and a failed read keep the next client waiting only as long as
\* their own client does.
EveryoneIsServed ==
  \/ <>[]held_up
  \/ \A c \in Clients : state[c] # "away" ~> state[c] = "closed" \/ pc = "exited"
=============================================================================
