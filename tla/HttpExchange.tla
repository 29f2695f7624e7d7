---------------------------- MODULE HttpExchange ----------------------------
(***************************************************************************)
(* HttpConnection::send_request of src/http/connection.rs, on either       *)
(* protocol: HTTP/1.1 as in Http1Exchange, or HTTP/2, where the requests   *)
(* of all tasks are streams of one connection.                             *)
(*                                                                         *)
(* A request has a body, and its response has one, which the caller reads  *)
(* after send_request has returned.  Chunks that are accepted change       *)
(* nothing and are no steps.  The h2 library and the peer are external:    *)
(* the peer takes MaxStreams streams at a time, the others wait.           *)
(***************************************************************************)
EXTENDS Http1Exchange, FiniteSets

CONSTANT MaxStreams  \* SETTINGS_MAX_CONCURRENT_STREAMS of the peer

ASSUME HttpExchangeAssumption == MaxStreams \in Nat \ {0}

VARIABLES
  conn_error,  \* the HTTP/2 connection has failed
  stream,      \* per request, its stream, as far as the peer's half goes
  reader       \* per request, the task that holds the unread body of its response

h2Vars == <<conn_error, stream, reader>>
allVars == <<vars, h2Vars>>

StreamStates == {"none", "queued", "open", "answered", "ended", "reset", "cut"}

\* Awaits of Http2Connection::send_request: ready(), next_data() and the response.
SendingH2 == {"opening", "body", "response"}

Sender(r) == {t \in Tasks : pc[t] \in SendingH2 /\ req[t] = r}

\* Streams the peer counts: those on which either half is still open.
Active ==
  {r \in Reqs : \/ stream[r] \in {"open", "answered"}
                \/ stream[r] = "ended" /\ \E t \in Sender(r) : pc[t] = "body"}

HttpInit ==
  /\ Init
  /\ conn_error = FALSE
  /\ stream = [r \in Reqs |-> "none"]
  /\ reader = [r \in Reqs |-> None]
-----------------------------------------------------------------------------
(* The clone of the connection that a task holds. *)

ConnectH2(t) ==
  /\ pc[t] = "out"
  /\ ~conn_error
  /\ pc' = [pc EXCEPT ![t] = "shared"]
  /\ UNCHANGED <<pool, conn, req, open, result, link, h2Vars>>

DropH2(t) ==
  /\ pc[t] = "shared"
  /\ pc' = [pc EXCEPT ![t] = "out"]
  /\ UNCHANGED <<pool, conn, req, open, result, link, h2Vars>>
-----------------------------------------------------------------------------
(* Http2Connection::send_request. *)

SendRequestH2(t, r) ==
  /\ pc[t] = "shared"
  /\ result[r].outcome = "unsent"
  /\ result' = [result EXCEPT ![r] = [outcome |-> "pending", of |-> None, on |-> None]]
  /\ pc' = [pc EXCEPT ![t] = "opening"]
  /\ req' = [req EXCEPT ![t] = r]
  /\ UNCHANGED <<pool, conn, open, link, h2Vars>>

\* send_request returns; the sending half and the response future are dropped.
ReturnsH2(t, outcome, of) ==
  /\ result' = [result EXCEPT ![req[t]] = [outcome |-> outcome, of |-> of, on |-> None]]
  /\ pc' = [pc EXCEPT ![t] = "shared"]
  /\ req' = [req EXCEPT ![t] = None]
  /\ UNCHANGED <<pool, conn, open, link, conn_error>>

\* ... before the response was taken: a stream that is dropped so is reset.
DropStream(r) ==
  /\ stream' = [stream EXCEPT ![r] = IF @ = "none" THEN @ ELSE "reset"]
  /\ UNCHANGED reader

\* ready() and send_request of the clone: the stream is opened, or queued by the library.
Opened(t) ==
  /\ pc[t] = "opening"
  /\ ~conn_error
  /\ stream' = [stream EXCEPT ![req[t]] = "queued"]
  /\ pc' = [pc EXCEPT ![t] = "body"]
  /\ UNCHANGED <<pool, conn, req, open, result, link, conn_error, reader>>

OpenFails(t) ==
  /\ pc[t] = "opening"
  /\ conn_error
  /\ ReturnsH2(t, "error", None)
  /\ DropStream(req[t])

\* send_data fails on a stream that was reset, also if a response has come before that.
SendDataFails(t) ==
  /\ pc[t] = "body"
  /\ stream[req[t]] \in {"reset", "cut"}
  /\ ReturnsH2(t, "error", None)
  /\ DropStream(req[t])

\* Fault: the stream outlives the request it was opened for.
BodyFailsKeepingStream(t) ==
  /\ pc[t] = "body"
  /\ ReturnsH2(t, "error", None)
  /\ UNCHANGED <<stream, reader>>

\* The request's own body fails.
BodyFails(t) ==
  /\ pc[t] = "body"
  /\ ReturnsH2(t, "error", None)
  /\ DropStream(req[t])

\* The body ends; whether the end can be sent is not looked at.
BodyEnds(t) ==
  /\ pc[t] = "body"
  /\ pc' = [pc EXCEPT ![t] = "response"]
  /\ UNCHANGED <<pool, conn, req, open, result, link, h2Vars>>

\* The response is there, and its body goes to the caller.
Response(t) ==
  /\ pc[t] = "response"
  /\ stream[req[t]] \in {"answered", "ended", "cut"}
  /\ ReturnsH2(t, "ok", req[t])
  /\ reader' = [reader EXCEPT ![req[t]] = IF stream[req[t]] = "answered" THEN t ELSE None]
  /\ UNCHANGED stream

ResponseFails(t) ==
  /\ pc[t] = "response"
  /\ stream[req[t]] = "reset"
  /\ ReturnsH2(t, "error", None)
  /\ DropStream(req[t])

CancelH2(t) ==
  /\ pc[t] \in SendingH2
  /\ ReturnsH2(t, "cancelled", None)
  /\ DropStream(req[t])
-----------------------------------------------------------------------------
(* The response's body, with its caller. *)

\* It is read to its end, by a task that is not inside another send_request.
ReadBody(t, r) ==
  /\ reader[r] = t
  /\ pc[t] \notin Sending \cup SendingH2
  /\ reader' = [reader EXCEPT ![r] = None]
  /\ stream' = [stream EXCEPT ![r] = IF @ = "answered" THEN "ended" ELSE @]
  /\ UNCHANGED <<vars, conn_error>>

\* It is dropped.
DropBody(t, r) ==
  /\ reader[r] = t
  /\ reader' = [reader EXCEPT ![r] = None]
  /\ stream' = [stream EXCEPT ![r] = IF @ = "answered" THEN "reset" ELSE @]
  /\ UNCHANGED <<vars, conn_error>>
-----------------------------------------------------------------------------
(* The h2 library and the peer. *)

StreamStep(r, s) ==
  /\ stream' = [stream EXCEPT ![r] = s]
  /\ UNCHANGED <<vars, conn_error, reader>>

Cut(s) == IF s \in {"answered", "ended"} THEN "cut" ELSE IF s \in {"queued", "open"} THEN "reset" ELSE s

Admit(r) == stream[r] = "queued" /\ Cardinality(Active) < MaxStreams /\ StreamStep(r, "open")
Respond(r) == stream[r] = "open" /\ StreamStep(r, "answered")
EndResponse(r) == stream[r] = "answered" /\ StreamStep(r, "ended")
Reset(r) == r \in Active /\ StreamStep(r, Cut(stream[r]))

\* The connection fails, and every stream that is open with it.
ConnError ==
  /\ ~conn_error
  /\ conn_error' = TRUE
  /\ stream' = [r \in Reqs |-> IF stream[r] = "queued" \/ r \in Active THEN Cut(stream[r]) ELSE stream[r]]
  /\ UNCHANGED <<vars, reader>>
-----------------------------------------------------------------------------
PollH2(t) ==
  \/ Opened(t) \/ OpenFails(t)
  \/ SendDataFails(t) \/ BodyFails(t) \/ BodyEnds(t)
  \/ Response(t) \/ ResponseFails(t)

Http1Poll(t) == Poll(t) /\ UNCHANGED h2Vars
Http1Peer(c) == Obliged(c) /\ Peer(c) /\ UNCHANGED h2Vars

NextH2 ==
  \/ \E t \in Tasks :
       \/ ConnectH2(t) \/ DropH2(t) \/ CancelH2(t) \/ PollH2(t)
       \/ \E r \in Reqs : SendRequestH2(t, r) \/ ReadBody(t, r) \/ DropBody(t, r)
  \/ \E r \in Reqs : Admit(r) \/ Respond(r) \/ EndResponse(r) \/ Reset(r)
  \/ ConnError

HttpNext == NextH2 \/ (Next /\ UNCHANGED h2Vars)

HttpSpec == HttpInit /\ [][HttpNext]_allVars

\* Ready operations are polled; the body of a request ends or fails; a task reads the
\* responses it has once it is not inside send_request.  Of the peers: over HTTP/1.1 one that
\* has a request, or an answer it has begun, gets on with it or closes, unless the connection
\* has a read timeout, and then it need do nothing; one that owes nothing may stay connected
\* for ever.  Over HTTP/2 it admits a stream when it has room and answers it, and need not
\* end a body that nobody reads.
HttpLiveSpec ==
  /\ HttpSpec
  /\ \A t \in Tasks :
       WF_allVars(Http1Poll(t)) /\ WF_allVars(PollH2(t)) /\ \A r \in Reqs : WF_allVars(ReadBody(t, r))
  /\ \A c \in Conns \ Timed : WF_allVars(Http1Peer(c))
  /\ \A r \in Reqs : WF_allVars(Admit(r)) /\ WF_allVars(Respond(r))
-----------------------------------------------------------------------------
\* Every stream that takes up room at the peer belongs to a send_request that is under way or
\* to a response whose body somebody holds: errors in the middle of a body, cancellations and
\* dropped bodies leave none behind, which would keep others out for ever.
SlotsHaveOwners == \A r \in Active : Sender(r) # {} \/ reader[r] # None

\* The request waits for room that only responses take up which their holders cannot read:
\* each of them waits for room itself.
Starved(r) ==
  /\ stream[r] = "queued"
  /\ \A a \in Active :
       /\ stream[a] = "answered"
       /\ \E t \in Tasks, b \in Reqs :
            reader[a] = t /\ t \in Sender(b) /\ stream[b] = "queued"

\* On either protocol every request ends: with a read timeout whatever the HTTP/1.1 peer does,
\* without one as long as it answers, in full, or closes; unless callers keep unread responses
\* while they send, in which case a request over HTTP/2 may starve.
RequestEnds ==
  \A r \in Reqs :
    (result[r].outcome = "pending") ~> (result[r].outcome # "pending" \/ Starved(r))
=============================================================================
