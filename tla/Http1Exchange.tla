--------------------------- MODULE Http1Exchange ---------------------------
(***************************************************************************)
(* Http1Connection::send_request of src/http/connection.rs on connections  *)
(* that H1Connector::connect (src/http/connector.rs) takes from a pool and *)
(* that go back to it: what is on the wire when a connection is reused.    *)
(*                                                                         *)
(* The peer answers the requests of a connection in order, and may close   *)
(* it at any time.  A response is its head and the frames of its body; an  *)
(* interim (1xx) response before it is left out, as what the codec makes   *)
(* of one is not to be seen from this code.                                *)
(* One key is enough: a key's queue never meets another's.                 *)
(***************************************************************************)
EXTENDS PoolQueue

CONSTANTS
  Conns,  \* connection identities, each opened at most once
  Tasks,  \* tasks that send requests
  Reqs,   \* requests, each sent at most once
  Timed   \* connections made while H1Connector::read_timeout is Some

ASSUME ExchangeAssumption ==
  /\ Timed \subseteq Conns
  /\ None \notin Conns \cup Tasks \cup Reqs

VARIABLES
  pool,    \* the idle connections
  pc,      \* per task, where it is in connect or send_request
  conn,    \* per task, the connection it holds
  req,     \* per task, the request it is sending
  open,    \* Http1Connection::open
  peer,    \* per connection: "unborn", "up", "closed"
  sent,    \* per connection, the requests the peer has not answered yet
  owed,    \* per connection, the body frames of the current answer yet to be written
  wire,    \* per connection, the frames the codec has not read yet
  result   \* per request, how its send_request ended, what it was answered, and where

client == <<pool, pc, conn, req, open, result>>
link == <<peer, sent, owed, wire>>
vars == <<client, link>>

\* What follows the head of a response, by the payload decoder it selects.
Bodies == [none |-> <<>>, fixed |-> <<"data">>, streamed |-> <<"data", "end">>, garbage |-> <<>>]
Frame == [of: Reqs, part: DOMAIN Bodies \cup {"data", "end"}]

Outcomes == {"unsent", "pending", "ok", "body_error", "error", "cancelled"}
Sending == {"sending", "head", "fixed", "streamed"}

Init ==
  /\ pool = <<>>
  /\ pc = [t \in Tasks |-> "out"]
  /\ conn = [t \in Tasks |-> None]
  /\ req = [t \in Tasks |-> None]
  /\ open = [c \in Conns |-> TRUE]
  /\ peer = [c \in Conns |-> "unborn"]
  /\ sent = [c \in Conns |-> <<>>]
  /\ owed = [c \in Conns |-> <<>>]
  /\ wire = [c \in Conns |-> <<>>]
  /\ result = [r \in Reqs |-> [outcome |-> "unsent", of |-> None, on |-> None]]
-----------------------------------------------------------------------------
(* H1Connector::connect, and the drop of what it returns. *)

Connect(t) ==
  /\ pc[t] = "out"
  /\ IF pool # <<>>
     THEN /\ pool' = PopFront(pool, 1)
          /\ conn' = [conn EXCEPT ![t] = Head(pool)]
          /\ pc' = [pc EXCEPT ![t] = "ready"]
     ELSE /\ pc' = [pc EXCEPT ![t] = "dialling"]
          /\ UNCHANGED <<pool, conn>>
  /\ UNCHANGED <<req, open, result, link>>

Dialled(t, c) ==
  /\ pc[t] = "dialling"
  /\ peer[c] = "unborn"
  /\ peer' = [peer EXCEPT ![c] = "up"]
  /\ conn' = [conn EXCEPT ![t] = c]
  /\ pc' = [pc EXCEPT ![t] = "ready"]
  /\ UNCHANGED <<pool, req, open, result, sent, owed, wire>>

DialFailed(t) ==
  /\ pc[t] = "dialling"
  /\ pc' = [pc EXCEPT ![t] = "out"]
  /\ UNCHANGED <<pool, conn, req, open, result, link>>

\* Drop for Pooled: back to the pool if is_open, which is `open` as `using` is never set.
Drop(t) ==
  /\ pc[t] = "ready"
  /\ pool' = IF open[conn[t]] THEN DropInsert(pool, conn[t]) ELSE pool
  /\ pc' = [pc EXCEPT ![t] = "out"]
  /\ conn' = [conn EXCEPT ![t] = None]
  /\ UNCHANGED <<req, open, result, link>>
-----------------------------------------------------------------------------
(* Http1Connection::send_request: one step per await. *)

\* send_request returns to its caller, having read the head of an answer to `of`.
Returns(t, outcome, of, stays_open) ==
  /\ result' = [result EXCEPT ![req[t]] = [outcome |-> outcome, of |-> of, on |-> conn[t]]]
  /\ open' = [open EXCEPT ![conn[t]] = @ /\ stays_open]
  /\ pc' = [pc EXCEPT ![t] = "ready"]
  /\ req' = [req EXCEPT ![t] = None]
  /\ UNCHANGED <<pool, conn>>

SendRequest(t, r) ==
  /\ pc[t] = "ready"
  /\ result[r].outcome = "unsent"
  /\ result' = [result EXCEPT ![r] = [outcome |-> "pending", of |-> None, on |-> conn[t]]]
  /\ pc' = [pc EXCEPT ![t] = "sending"]
  /\ req' = [req EXCEPT ![t] = r]
  /\ UNCHANGED <<pool, conn, open, link>>

\* send_and_flush ends; on a connection the peer has closed it may or may not notice.
Flushed(t) ==
  /\ pc[t] = "sending"
  /\ sent' = [sent EXCEPT ![conn[t]] = Append(@, req[t])]
  /\ pc' = [pc EXCEPT ![t] = "head"]
  /\ UNCHANGED <<pool, conn, req, open, result, peer, owed, wire>>

\* Of a request that was still being written the peer gets nothing, a part (None), or all.
CutShort(t) ==
  \/ UNCHANGED link
  \/ /\ pc[t] = "sending"
     /\ \E m \in {None, req[t]} : sent' = [sent EXCEPT ![conn[t]] = Append(@, m)]
     /\ UNCHANGED <<peer, owed, wire>>

\* It fails with the connection, or because the request's own body or encoding does.
SendFailed(t) ==
  /\ pc[t] = "sending"
  /\ Returns(t, "error", None, FALSE)
  /\ CutShort(t)

\* The codec has a frame for the task, or finds that there will be none.
Arrived(t) == wire[conn[t]] # <<>>
Fails(t) == ~Arrived(t) /\ (peer[conn[t]] = "closed" \/ conn[t] \in Timed)

Consume(t) ==
  /\ wire' = [wire EXCEPT ![conn[t]] = Tail(@)]
  /\ UNCHANGED <<peer, sent, owed>>

\* Fault: the head is looked at and left in the codec.
ReadHeadByPeeking(t) ==
  LET f == Head(wire[conn[t]]) IN
  /\ pc[t] = "head"
  /\ Arrived(t)
  /\ Returns(t, IF f.part = "none" THEN "ok" ELSE "error", f.of, f.part = "none")
  /\ UNCHANGED link

\* Fault: what does not decode as a head is taken for the start of a body.
ReadHeadUnchecked(t) ==
  LET f == Head(wire[conn[t]]) IN
  /\ pc[t] = "head"
  /\ Arrived(t)
  /\ Consume(t)
  /\ pc' = [pc EXCEPT ![t] = f.part]
  /\ result' = [result EXCEPT ![req[t]].of = f.of]
  /\ UNCHANGED <<pool, conn, req, open>>

\* The next response: a head, by its decoder, or something that does not decode as one.
ReadHead(t) ==
  LET f == Head(wire[conn[t]]) IN
  /\ pc[t] = "head"
  /\ Arrived(t)
  /\ Consume(t)
  /\ CASE f.part = "none" -> Returns(t, "ok", f.of, TRUE)
       [] f.part \in {"fixed", "streamed"} ->
            /\ pc' = [pc EXCEPT ![t] = f.part]
            /\ result' = [result EXCEPT ![req[t]].of = f.of]
            /\ UNCHANGED <<pool, conn, req, open>>
       [] OTHER -> Returns(t, "error", None, FALSE)

HeadFails(t) ==
  /\ pc[t] = "head"
  /\ Fails(t)
  /\ Returns(t, "error", None, FALSE)
  /\ UNCHANGED link

\* A body of known length is read at once; when that fails the error is fed to the payload,
\* and the response is returned all the same.
ReadFixed(t) ==
  /\ pc[t] = "fixed"
  /\ Arrived(t)
  /\ Consume(t)
  /\ Returns(t, "ok", result[req[t]].of, TRUE)

FixedFails(t) ==
  /\ pc[t] = "fixed"
  /\ Fails(t)
  /\ Returns(t, "body_error", result[req[t]].of, TRUE)
  /\ UNCHANGED link

\* Fault: the loop over the chunks stops at the first one.
ReadStreamedOnce(t) ==
  /\ pc[t] = "streamed"
  /\ Arrived(t)
  /\ Consume(t)
  /\ Returns(t, "ok", result[req[t]].of, TRUE)

\* Fault: the loop does not stop at the end of the body.
ReadStreamedOn(t) ==
  /\ pc[t] = "streamed"
  /\ Arrived(t)
  /\ Consume(t)
  /\ UNCHANGED client

\* A chunked body is read to its end before send_request returns.
ReadStreamed(t) ==
  /\ pc[t] = "streamed"
  /\ Arrived(t)
  /\ Consume(t)
  /\ IF Head(wire[conn[t]]).part = "end"
     THEN Returns(t, "ok", result[req[t]].of, TRUE)
     ELSE UNCHANGED client

\* Fault: the failure does not clear `open`.
StreamedFailsOpen(t) ==
  /\ pc[t] = "streamed"
  /\ Fails(t)
  /\ Returns(t, "error", None, TRUE)
  /\ UNCHANGED link


StreamedFails(t) ==
  /\ pc[t] = "streamed"
  /\ Fails(t)
  /\ Returns(t, "error", None, FALSE)
  /\ UNCHANGED link

\* The caller drops the future of send_request at an await and keeps the connection.
Cancel(t) ==
  /\ pc[t] \in Sending
  /\ Returns(t, "cancelled", None, TRUE)
  /\ CutShort(t)
-----------------------------------------------------------------------------
(* The peer. *)

\* It starts the answer to the first request: one head, whatever follows it.  A request that
\* came in part is never answered.
Answer(c, b) ==
  /\ peer[c] = "up"
  /\ owed[c] = <<>>
  /\ sent[c] # <<>>
  /\ Head(sent[c]) # None
  /\ wire' = [wire EXCEPT ![c] = Append(@, [of |-> Head(sent[c]), part |-> b])]
  /\ owed' = [owed EXCEPT ![c] = [i \in DOMAIN Bodies[b] |-> [of |-> Head(sent[c]), part |-> Bodies[b][i]]]]
  /\ sent' = [sent EXCEPT ![c] = Tail(@)]
  /\ UNCHANGED <<peer, client>>

\* It writes the next frame of the answer's body.
Write(c) ==
  /\ peer[c] = "up"
  /\ owed[c] # <<>>
  /\ wire' = [wire EXCEPT ![c] = Append(@, Head(owed[c]))]
  /\ owed' = [owed EXCEPT ![c] = Tail(@)]
  /\ UNCHANGED <<peer, sent, client>>

Close(c) ==
  /\ peer[c] = "up"
  /\ peer' = [peer EXCEPT ![c] = "closed"]
  /\ UNCHANGED <<sent, owed, wire, client>>

Peer(c) == Write(c) \/ Close(c) \/ \E b \in DOMAIN Bodies : Answer(c, b)

\* It has a request, or the rest of an answer, to do something about.
Obliged(c) == sent[c] # <<>> \/ owed[c] # <<>>
-----------------------------------------------------------------------------
\* What a task does without being asked: its operation gets on.
Poll(t) ==
  \/ Flushed(t) \/ SendFailed(t)
  \/ ReadHead(t) \/ HeadFails(t)
  \/ ReadFixed(t) \/ FixedFails(t)
  \/ ReadStreamed(t) \/ StreamedFails(t)

Next ==
  \/ \E t \in Tasks :
       \/ Connect(t) \/ DialFailed(t) \/ Drop(t) \/ Cancel(t) \/ Poll(t)
       \/ \E c \in Conns : Dialled(t, c)
       \/ \E r \in Reqs : SendRequest(t, r)
  \/ \E c \in Conns : Peer(c)

Spec == Init /\ [][Next]_vars

\* The runtime polls an operation that is ready, its timers included.  Of the peers nothing
\* is assumed: they may stay connected and never write again.
PolledSpec == Spec /\ \A t \in Tasks : WF_vars(Poll(t))
-----------------------------------------------------------------------------
TypeOK ==
  /\ pool \in Seq(Conns)
  /\ pc \in [Tasks -> Sending \cup {"out", "dialling", "ready"}]
  /\ conn \in [Tasks -> Conns \cup {None}]
  /\ req \in [Tasks -> Reqs \cup {None}]
  /\ open \in [Conns -> BOOLEAN]
  /\ peer \in [Conns -> {"unborn", "up", "closed"}]
  /\ sent \in [Conns -> Seq(Reqs \cup {None})]
  /\ owed \in [Conns -> Seq(Frame)]
  /\ wire \in [Conns -> Seq(Frame)]
  /\ result \in [Reqs -> [outcome: Outcomes, of: Reqs \cup {None}, on: Conns \cup {None}]]

\* Exchanges on c that ended with the given outcomes.
Had(c, outcomes) == {r \in Reqs : result[r].on = c /\ result[r].outcome \in outcomes}

\* A connection on which every exchange ran to its end goes back clean, also if the peer
\* has closed it: no request is unanswered and no frame unread, so that the next user finds
\* nothing of the last one's.
CleanWhenReused ==
  \A c \in Elements(pool) :
    Had(c, {"cancelled", "body_error"}) = {}
      => sent[c] = <<>> /\ owed[c] = <<>> /\ wire[c] = <<>>

\* And a response on a connection on which no exchange went wrong before is the answer to
\* its own request.
AnswersMatch ==
  \A r \in Reqs :
    result[r].outcome = "ok" /\ Had(result[r].on, {"cancelled", "body_error", "error"}) = {}
      => result[r].of = r

\* A connection on which send_request returned an error is never in the pool again.
ErrorsRetire == \A c \in Elements(pool) : Had(c, {"error"}) = {}

-----------------------------------------------------------------------------
(* What comments of the source say and the code does not do. *)

\* src/src/http/connection.rs:266: send_request returns "The HTTP response or an error":
\* the response to the request it was given.
AnswersOwnRequest == \A r \in Reqs : result[r].outcome = "ok" => result[r].of = r

\* src/src/pool/mod.rs:152: "If we *already* know the connection is done here, it shouldn't
\* be re-inserted back into the pool": an exchange that failed on it is how we know.
FailedNotPooled == \A c \in Elements(pool) : Had(c, {"error", "body_error"}) = {}
=============================================================================
