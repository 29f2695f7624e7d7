------------------------- MODULE HttpExchangeProofs -------------------------
(***************************************************************************)
(* The safety properties of Http1Exchange and HttpExchange, for every set  *)
(* of tasks, connections and requests, every capacity of the pool, with or *)
(* without a read timeout: of HTTP/1.1 alone and of both protocols side by *)
(* side.                                                                   *)
(***************************************************************************)
EXTENDS HttpExchange, PoolQueueProofs

Reading == {"head", "fixed", "streamed"}
Holding == Sending \cup {"ready"}
Places == Sending \cup SendingH2 \cup {"out", "dialling", "ready", "shared"}

\* Types of the variables of Http1Exchange, with the places of both protocols.
Types ==
  /\ pool \in Seq(Conns)
  /\ pc \in [Tasks -> Places]
  /\ conn \in [Tasks -> Conns \cup {None}]
  /\ req \in [Tasks -> Reqs \cup {None}]
  /\ open \in [Conns -> BOOLEAN]
  /\ peer \in [Conns -> {"unborn", "up", "closed"}]
  /\ sent \in [Conns -> Seq(Reqs \cup {None})]
  /\ owed \in [Conns -> Seq(Frame)]
  /\ wire \in [Conns -> Seq(Frame)]
  /\ result \in [Reqs -> [outcome: Outcomes, of: Reqs \cup {None}, on: Conns \cup {None}]]

\* A connection is with one task or at one position of the pool, and those of the pool are
\* open.
OneOwner ==
  /\ \A t \in Tasks : pc[t] \in Holding =>
       conn[t] \in Conns /\ peer[conn[t]] # "unborn" /\ conn[t] \notin Elements(pool)
  /\ \A s, t \in Tasks : pc[s] \in Holding /\ pc[t] \in Holding /\ conn[s] = conn[t] => s = t
  /\ NoRepeats(pool)
  /\ \A c \in Elements(pool) : open[c] /\ peer[c] # "unborn"

\* A request that is being sent is pending, on the connection of the one task that sends it.
OneSender ==
  /\ \A t \in Tasks : pc[t] \in Sending \cup SendingH2 =>
       /\ req[t] \in Reqs
       /\ result[req[t]].outcome = "pending"
       /\ result[req[t]].on = IF pc[t] \in Sending THEN conn[t] ELSE None
  /\ \A s, t \in Tasks :
       /\ pc[s] \in Sending \cup SendingH2 /\ pc[t] \in Sending \cup SendingH2
       /\ req[s] = req[t]
       => s = t

\* An error closes the connection it happened on.
ErrorsClose ==
  \A r \in Reqs : result[r].outcome = "error" /\ result[r].on # None => ~open[result[r].on]

\* Connections on which every exchange so far ran to its end.
Good(c) == Had(c, {"cancelled", "body_error", "error"}) = {}

\* Nothing of an exchange is on its way, in either direction.
Quiet(c) == sent[c] = <<>> /\ owed[c] = <<>> /\ wire[c] = <<>>

\* q is what a task that has got to s has yet to read of an answer to r.
FrameOf(r, p) == [of |-> r, part |-> p]

IsRest(q, r, s) ==
  \/ s = "head" /\ q = <<FrameOf(r, "none")>>
  \/ s = "head" /\ q = <<FrameOf(r, "garbage")>>
  \/ s = "head" /\ q = <<FrameOf(r, "fixed"), FrameOf(r, "data")>>
  \/ s = "head" /\ q = <<FrameOf(r, "streamed"), FrameOf(r, "data"), FrameOf(r, "end")>>
  \/ s = "fixed" /\ q = <<FrameOf(r, "data")>>
  \/ s = "streamed" /\ q = <<FrameOf(r, "data"), FrameOf(r, "end")>>
  \/ s = "streamed" /\ q = <<FrameOf(r, "end")>>

\* The task and the peer agree: the request is unanswered, or what is on the wire and what
\* the peer has yet to write are the rest of its answer, whose head was the request's own.
InStep(t) ==
  LET c == conn[t] IN
  \/ pc[t] = "head" /\ sent[c] = <<req[t]>> /\ owed[c] = <<>> /\ wire[c] = <<>>
  \/ /\ sent[c] = <<>>
     /\ IsRest(wire[c] \o owed[c], req[t], pc[t])
     /\ pc[t] # "head" => result[req[t]].of = req[t]

\* On a good connection they always do, and between exchanges nothing is on its way.
Synchronized ==
  /\ \A t \in Tasks : pc[t] \in Reading /\ Good(conn[t]) => InStep(t)
  /\ \A c \in Conns :
       Good(c) /\ (\A t \in Tasks : pc[t] \in Reading => conn[t] # c) => Quiet(c)

\* The inductive invariant.
Inv ==
  /\ Types
  /\ OneOwner
  /\ OneSender
  /\ ErrorsClose
  /\ Synchronized
  /\ AnswersMatch
-----------------------------------------------------------------------------
(* Frames and places. *)

\* The places, told apart.
LEMMA PlacesListed ==
  /\ Sending = {"sending", "head", "fixed", "streamed"}
  /\ SendingH2 = {"opening", "body", "response"}
  /\ Holding = {"sending", "head", "fixed", "streamed", "ready"}
  /\ Reading = {"head", "fixed", "streamed"}
  /\ Places = {"sending", "head", "fixed", "streamed", "opening", "body", "response",
               "out", "dialling", "ready", "shared"}
BY DEF Sending, SendingH2, Holding, Reading, Places

\* The connection taken from the front of the pool is not in what is left.
LEMMA FrontTaken ==
  ASSUME NEW S, NEW q \in Seq(S), q # <<>>, NoRepeats(q), NEW r, r = PopFront(q, 1)
  PROVE  /\ r \in Seq(S) /\ NoRepeats(r) /\ Elements(r) \subseteq Elements(q)
         /\ Head(q) \in S /\ Head(q) \in Elements(q) /\ Head(q) \notin Elements(r)
<1>1. /\ r \in Seq(S) /\ IsSubqueue(r, q)
      /\ \A i \in DOMAIN r : 1 + i \in DOMAIN q /\ r[i] = q[1 + i]
  BY PopFrontProperties
<1>2. Head(q) = q[1] /\ 1 \in DOMAIN q /\ q[1] \in S
  BY HeadAndTail
<1>3. NoRepeats(r) /\ Elements(r) \subseteq Elements(q)
  BY <1>1, SubqueueDistinct
<1>4. ASSUME NEW i \in DOMAIN r PROVE r[i] # q[1]
  <2>1. 1 + i \in DOMAIN q /\ r[i] = q[1 + i] /\ i \in Nat \ {0}
    BY <1>1, LenProperties
  <2> QED
    BY <1>2, <2>1 DEF NoRepeats
<1> QED
  BY <1>1, <1>2, <1>3, <1>4 DEF Elements

\* What follows a head.
LEMMA BodiesListed ==
  /\ DOMAIN Bodies = {"none", "fixed", "streamed", "garbage"}
  /\ Bodies["none"] = <<>> /\ Bodies["garbage"] = <<>>
  /\ Bodies["fixed"] = <<"data">> /\ Bodies["streamed"] = <<"data", "end">>
  /\ Frame = [of: Reqs, part: {"none", "fixed", "streamed", "garbage", "data", "end"}]
BY DEF Bodies, Frame

\* Writing the next frame leaves what there is to read as it was.
LEMMA WriteMoves ==
  ASSUME NEW S, NEW w \in Seq(S), NEW o \in Seq(S), o # <<>>
  PROVE  /\ Append(w, Head(o)) \in Seq(S) /\ Tail(o) \in Seq(S)
         /\ Append(w, Head(o)) \o Tail(o) = w \o o
<1>1. Head(o) \in S /\ Tail(o) \in Seq(S) /\ Append(w, Head(o)) \in Seq(S)
  BY HeadAndTail, AppendProperties
<1>2. Append(w, Head(o)) \o Tail(o) = w \o o
  BY <1>1
<1> QED
  BY <1>1, <1>2

\* Reading a frame takes it off what there is to read.
LEMMA ReadMoves ==
  ASSUME NEW S, NEW w \in Seq(S), NEW o \in Seq(S), w # <<>>
  PROVE  /\ Tail(w) \in Seq(S) /\ Head(w) \in S
         /\ Head(w \o o) = Head(w) /\ Tail(w) \o o = Tail(w \o o)
OBVIOUS

\* There is nothing to read.
LEMMA NothingLeft ==
  ASSUME NEW S, NEW w \in Seq(S), NEW o \in Seq(S), w \o o = <<>>
  PROVE  w = <<>> /\ o = <<>>
OBVIOUS

\* The front of a short queue, and the rest of it.
LEMMA ShortTails ==
  ASSUME NEW a, NEW b, NEW c
  PROVE  /\ Head(<<a>>) = a /\ Tail(<<a>>) = <<>> /\ <<a>> # <<>>
         /\ Head(<<a, b>>) = a /\ Tail(<<a, b>>) = <<b>> /\ <<a, b>> # <<>>
         /\ Head(<<a, b, c>>) = a /\ Tail(<<a, b, c>>) = <<b, c>> /\ <<a, b, c>> # <<>>
OBVIOUS

\* Reading the next frame of an answer.
LEMMA RestRead ==
  ASSUME NEW q, NEW r, NEW s, IsRest(q, r, s)
  PROVE  /\ q # <<>> /\ Head(q).of = r
         /\ s = "head" =>
              /\ Head(q).part \in {"none", "garbage", "fixed", "streamed"}
              /\ Head(q).part = "none" => Tail(q) = <<>>
              /\ Head(q).part \in {"fixed", "streamed"} => IsRest(Tail(q), r, Head(q).part)
         /\ s = "fixed" => Tail(q) = <<>>
         /\ s = "streamed" => IF Head(q).part = "end" THEN Tail(q) = <<>>
                              ELSE IsRest(Tail(q), r, "streamed")
<1>1. ASSUME NEW p PROVE FrameOf(r, p).of = r /\ FrameOf(r, p).part = p
  <2>1. PICK f : f = [of |-> r, part |-> p]
    OBVIOUS
  <2>2. f.of = r /\ f.part = p
    BY <2>1
  <2> QED
    BY <2>1, <2>2 DEF FrameOf
<1>2. CASE s = "head" /\ (q = <<FrameOf(r, "none")>> \/ q = <<FrameOf(r, "garbage")>>)
  <2>1. PICK p \in {"none", "garbage"} : q = <<FrameOf(r, p)>>
    BY <1>2
  <2>2. Head(q) = FrameOf(r, p) /\ Tail(q) = <<>> /\ q # <<>>
    BY <2>1, ShortTails
  <2>3. Head(q).of = r /\ Head(q).part = p
    BY <1>1, <2>2
  <2> QED
    BY <1>2, <2>2, <2>3
<1>3. CASE s = "head" /\ q = <<FrameOf(r, "fixed"), FrameOf(r, "data")>>
  <2>1. Head(q) = FrameOf(r, "fixed") /\ Tail(q) = <<FrameOf(r, "data")>> /\ q # <<>>
    BY <1>3, ShortTails
  <2>2. IsRest(Tail(q), r, "fixed")
    BY <2>1 DEF IsRest
  <2> QED
    BY <1>1, <1>3, <2>1, <2>2
<1>4. CASE /\ s = "head"
           /\ q = <<FrameOf(r, "streamed"), FrameOf(r, "data"), FrameOf(r, "end")>>
  <2>1. /\ Head(q) = FrameOf(r, "streamed") /\ q # <<>>
        /\ Tail(q) = <<FrameOf(r, "data"), FrameOf(r, "end")>>
    BY <1>4, ShortTails
  <2>2. IsRest(Tail(q), r, "streamed")
    BY <2>1 DEF IsRest
  <2> QED
    BY <1>1, <1>4, <2>1, <2>2
<1>5. CASE s = "fixed" /\ q = <<FrameOf(r, "data")>>
  BY <1>1, <1>5, ShortTails
<1>6. CASE s = "streamed" /\ q = <<FrameOf(r, "data"), FrameOf(r, "end")>>
  <2>1. Head(q) = FrameOf(r, "data") /\ Tail(q) = <<FrameOf(r, "end")>> /\ q # <<>>
    BY <1>6, ShortTails
  <2>2. IsRest(Tail(q), r, "streamed")
    BY <2>1 DEF IsRest
  <2> QED
    BY <1>1, <1>6, <2>1, <2>2
<1>7. CASE s = "streamed" /\ q = <<FrameOf(r, "end")>>
  BY <1>1, <1>7, ShortTails
<1> QED
  BY <1>2, <1>3, <1>4, <1>5, <1>6, <1>7 DEF IsRest
-----------------------------------------------------------------------------
(* What a step of one task, or of the peer of one connection, must show. *)

\* The others are where they were.
OthersStay(t) ==
  \A u \in Tasks \ {t} : pc'[u] = pc[u] /\ conn'[u] = conn[u] /\ req'[u] = req[u]

\* What is on its way on other connections stays as it is.
OtherLinksStay(c) ==
  \A d \in Conns \ {c} : sent'[d] = sent[d] /\ owed'[d] = owed[d] /\ wire'[d] = wire[d]

\* The results of other requests stay.
OtherResultsStay(r0) == \A r \in Reqs \ {r0} : result'[r] = result[r]

\* What a task that is sending has.
LEMMA SenderFacts ==
  ASSUME Inv, NEW t \in Tasks, pc[t] \in Sending
  PROVE  /\ conn[t] \in Conns /\ conn[t] # None /\ req[t] \in Reqs /\ req[t] # None
         /\ result[req[t]].outcome = "pending" /\ result[req[t]].on = conn[t]
         /\ conn[t] \notin Elements(pool) /\ peer[conn[t]] # "unborn"
         /\ \A u \in Tasks \ {t} : pc[u] \in Holding => conn[u] # conn[t]
         /\ \A u \in Tasks \ {t} : pc[u] \in Sending \cup SendingH2 => req[u] # req[t]
BY ExchangeAssumption DEF Inv, OneOwner, OneSender, Holding

\* No step makes a connection good again: only pending requests get results.
LEMMA GoodBefore ==
  ASSUME NEW r0 \in Reqs, result[r0].outcome \in {"unsent", "pending"}, OtherResultsStay(r0),
         NEW d, Good(d)'
  PROVE  Good(d)
<1>1. \A r \in Reqs : result[r].on = d /\ result[r].outcome \in {"cancelled", "body_error", "error"}
                        => /\ result'[r].on = d
                           /\ result'[r].outcome \in {"cancelled", "body_error", "error"}
  BY DEF OtherResultsStay
<1> QED
  BY <1>1 DEF Good, Had

\* The task connects or lets its connection go; no exchange is touched.
LEMMA HandleStep ==
  ASSUME Inv, Types', NEW t \in Tasks, OthersStay(t),
         pc[t] \notin Sending \cup SendingH2, pc'[t] \notin Sending \cup SendingH2,
         UNCHANGED <<open, result, sent, owed, wire>>,
         \A c \in Conns : peer[c] # "unborn" => peer'[c] # "unborn",
         pc'[t] = "ready" =>
           /\ conn'[t] \in Conns /\ peer'[conn'[t]] # "unborn" /\ conn'[t] \notin Elements(pool')
           /\ \A u \in Tasks \ {t} : pc[u] \in Holding => conn[u] # conn'[t],
         NoRepeats(pool'), \A c \in Elements(pool') : open[c] /\ peer'[c] # "unborn",
         \A u \in Tasks \ {t} : pc[u] \in Holding => conn[u] \notin Elements(pool')
  PROVE  Inv'
<1>1. \A u \in Tasks \ {t} : pc'[u] = pc[u] /\ conn'[u] = conn[u] /\ req'[u] = req[u]
  BY DEF OthersStay
<1>2. pc'[t] \notin Reading /\ pc[t] \notin Reading /\ (pc'[t] \in Holding => pc'[t] = "ready")
  BY PlacesListed
<1>3. OneOwner'
  <2>1. ASSUME NEW u \in Tasks, pc'[u] \in Holding
        PROVE  conn'[u] \in Conns /\ peer'[conn'[u]] # "unborn" /\ conn'[u] \notin Elements(pool')
    BY <1>1, <1>2, <2>1 DEF Inv, OneOwner
  <2>2. ASSUME NEW r \in Tasks, NEW u \in Tasks, pc'[r] \in Holding, pc'[u] \in Holding,
               conn'[r] = conn'[u]
        PROVE  r = u
    BY <1>1, <1>2, <2>2 DEF Inv, OneOwner
  <2> QED
    BY <2>1, <2>2 DEF OneOwner
<1>4. OneSender'
  BY <1>1 DEF Inv, OneSender
<1>5. ErrorsClose' /\ AnswersMatch'
  BY DEF Inv, ErrorsClose, AnswersMatch, Had
<1>6. \A c : Good(c)' <=> Good(c)
  BY DEF Good, Had
<1>7. Synchronized'
  <2>1. ASSUME NEW u \in Tasks, pc'[u] \in Reading, Good(conn'[u]) PROVE InStep(u)'
    <3>1. u # t /\ pc[u] \in Reading /\ conn'[u] = conn[u] /\ pc'[u] = pc[u] /\ req'[u] = req[u]
      BY <1>1, <1>2, <2>1
    <3>2. InStep(u)
      BY <2>1, <3>1 DEF Inv, Synchronized
    <3> QED
      BY <3>1, <3>2 DEF InStep
  <2>2. ASSUME NEW c \in Conns, Good(c), \A u \in Tasks : pc'[u] \in Reading => conn'[u] # c
        PROVE  Quiet(c)'
    <3>1. \A u \in Tasks : pc[u] \in Reading => conn[u] # c
      BY <1>1, <1>2, <2>2
    <3> QED
      BY <2>2, <3>1 DEF Inv, Synchronized, Quiet
  <2>3. \A u \in Tasks : Good(conn[u])' <=> Good(conn'[u])
    BY DEF Good, Had
  <2> QED
    BY <1>6, <2>1, <2>2, <2>3 DEF Synchronized
<1> QED
  BY <1>3, <1>4, <1>5, <1>7 DEF Inv

\* send_request returns: its connection is no longer good, or nothing is left on its way.
LEMMA ReturnStep ==
  ASSUME Inv, NEW t \in Tasks, pc[t] \in Sending, NEW c, c = conn[t],
         NEW outcome \in {"ok", "body_error", "error", "cancelled"}, NEW of \in Reqs \cup {None},
         NEW stays \in BOOLEAN, Returns(t, outcome, of, stays), outcome = "error" => ~stays,
         UNCHANGED peer,
         sent' \in [Conns -> Seq(Reqs \cup {None})], owed' \in [Conns -> Seq(Frame)],
         wire' \in [Conns -> Seq(Frame)], OtherLinksStay(c),
         outcome = "ok" /\ Good(c) =>
           of = req[t] /\ sent'[c] = <<>> /\ owed'[c] = <<>> /\ wire'[c] = <<>>
  PROVE  Inv'
<1>1. PICK r0 \in Reqs : r0 = req[t]
  BY SenderFacts
<1>2. c \in Conns
  BY SenderFacts
<1>3. PICK x : x = [outcome |-> outcome, of |-> of, on |-> c]
  OBVIOUS
<1>4. x.outcome = outcome /\ x.of = of /\ x.on = c
  BY <1>3
<1>5. /\ result' = [result EXCEPT ![r0] = x]
      /\ open' = [open EXCEPT ![c] = open[c] /\ stays]
      /\ pc' = [pc EXCEPT ![t] = "ready"] /\ req' = [req EXCEPT ![t] = None]
      /\ pool' = pool /\ conn' = conn
  BY <1>1, <1>3 DEF Returns
<1>6. Types'
  <2>1. x \in [outcome: Outcomes, of: Reqs \cup {None}, on: Conns \cup {None}]
    BY <1>2, <1>3 DEF Outcomes
  <2>2. open' \in [Conns -> BOOLEAN]
    BY <1>5 DEF Inv, Types
  <2>3. pc' \in [Tasks -> Places] /\ req' \in [Tasks -> Reqs \cup {None}]
    BY <1>5, PlacesListed DEF Inv, Types
  <2> QED
    BY <1>5, <2>1, <2>2, <2>3 DEF Inv, Types
<1>7. /\ result'[r0] = x /\ OtherResultsStay(r0)
      /\ open'[c] = (open[c] /\ stays) /\ \A d \in Conns \ {c} : open'[d] = open[d]
      /\ pc'[t] = "ready" /\ OthersStay(t)
  BY <1>2, <1>5 DEF Inv, Types, OtherResultsStay, OthersStay
<1>8. /\ result[r0].outcome = "pending" /\ c \notin Elements(pool)
      /\ \A u \in Tasks \ {t} : pc[u] \in Holding => conn[u] # c
      /\ \A u \in Tasks \ {t} : pc[u] \in Sending \cup SendingH2 => req[u] # r0
  BY <1>1, SenderFacts
<1>9. \A u \in Tasks \ {t} : pc'[u] = pc[u] /\ conn'[u] = conn[u] /\ req'[u] = req[u]
  BY <1>7 DEF OthersStay
<1>10. "ready" \in Holding /\ "ready" \notin Sending \cup SendingH2 \cup Reading
  BY PlacesListed
<1>11. Reading \subseteq Sending /\ Sending \subseteq Holding
  BY PlacesListed
<1>12. OneOwner'
  <2>1. \A d \in Elements(pool) : d \in Conns
    BY ElementOfSeq, LenProperties DEF Inv, Types, Elements
  <2>2. \A d \in Elements(pool) : open'[d] /\ peer[d] # "unborn"
    BY <1>7, <1>8, <2>1 DEF Inv, OneOwner
  <2>3. \A u \in Tasks : pc'[u] \in Holding => pc[u] \in Holding
    BY <1>9, <1>11
  <2> QED
    BY <1>5, <2>2, <2>3 DEF Inv, OneOwner
<1>13. OneSender'
  <2>1. ASSUME NEW u \in Tasks, pc'[u] \in Sending \cup SendingH2
        PROVE  /\ u # t /\ pc[u] = pc'[u] /\ req'[u] = req[u] /\ conn'[u] = conn[u]
               /\ req[u] \in Reqs /\ result'[req[u]] = result[req[u]]
    BY <1>7, <1>8, <1>9, <1>10, <2>1 DEF Inv, OneSender, OtherResultsStay
  <2>2. ASSUME NEW u \in Tasks, pc'[u] \in Sending \cup SendingH2
        PROVE  /\ req'[u] \in Reqs
               /\ result'[req'[u]].outcome = "pending"
               /\ result'[req'[u]].on = IF pc'[u] \in Sending THEN conn'[u] ELSE None
    <3>1. /\ u # t /\ pc[u] = pc'[u] /\ req'[u] = req[u] /\ conn'[u] = conn[u]
          /\ req[u] \in Reqs /\ result'[req[u]] = result[req[u]]
      BY <2>1, <2>2
    <3>2. /\ result[req[u]].outcome = "pending"
          /\ result[req[u]].on = IF pc[u] \in Sending THEN conn[u] ELSE None
      BY <2>2, <3>1 DEF Inv, OneSender
    <3> QED
      BY <3>1, <3>2
  <2>3. ASSUME NEW v \in Tasks, NEW u \in Tasks, pc'[v] \in Sending \cup SendingH2,
               pc'[u] \in Sending \cup SendingH2, req'[v] = req'[u]
        PROVE  v = u
    <3>1. pc[u] = pc'[u] /\ req'[u] = req[u] /\ pc[v] = pc'[v] /\ req'[v] = req[v]
      BY <2>1, <2>3
    <3> QED
      BY <2>3, <3>1 DEF Inv, OneSender
  <2> QED
    BY <2>2, <2>3 DEF OneSender
<1>14. ErrorsClose'
  <2>1. ASSUME NEW r \in Reqs, result'[r].outcome = "error", result'[r].on # None
        PROVE  ~open'[result'[r].on]
    <3>1. CASE r = r0
      BY <1>4, <1>7, <2>1, <3>1
    <3>2. CASE r # r0
      <4>1. result'[r] = result[r] /\ result[r].on \in Conns /\ ~open[result[r].on]
        BY <1>7, <2>1, <3>2 DEF OtherResultsStay, Inv, Types, ErrorsClose
      <4> QED
        BY <1>7, <4>1
    <3> QED
      BY <3>1, <3>2
  <2> QED
    BY <2>1 DEF ErrorsClose
<1>15. ASSUME NEW d, Good(d)' PROVE Good(d)
  BY <1>7, <1>8, <1>15, GoodBefore
<1>16. ASSUME Good(c)' PROVE outcome = "ok"
  <2>1. r0 \notin Had(c, {"cancelled", "body_error", "error"})'
    BY <1>16 DEF Good
  <2>2. outcome \notin {"cancelled", "body_error", "error"}
    BY <1>4, <1>7, <2>1 DEF Had
  <2> QED
    BY <2>2
<1>17. Synchronized'
  <2>1. ASSUME NEW u \in Tasks, pc'[u] \in Reading, Good(conn[u])' PROVE InStep(u)'
    <3>1. /\ u # t /\ pc[u] = pc'[u] /\ req'[u] = req[u] /\ conn'[u] = conn[u]
          /\ conn[u] # c /\ conn[u] \in Conns
          /\ req[u] \in Reqs /\ result'[req[u]] = result[req[u]]
      BY <1>7, <1>8, <1>9, <1>10, <1>11, <2>1 DEF Inv, OneSender, OneOwner, OtherResultsStay
    <3>2. Good(conn[u])
      <4>1. PICK d : d = conn[u]
        OBVIOUS
      <4>2. Good(d)'
        BY <2>1, <3>1, <4>1 DEF Good, Had
      <4> QED
        BY <1>15, <4>1, <4>2
    <3>3. InStep(u)
      BY <2>1, <3>1, <3>2 DEF Inv, Synchronized
    <3> QED
      BY <3>1, <3>3 DEF InStep, OtherLinksStay
  <2>2. ASSUME NEW d \in Conns, Good(d)', \A u \in Tasks : pc'[u] \in Reading => conn'[u] # d
        PROVE  Quiet(d)'
    <3>1. CASE d = c
      BY <1>15, <1>16, <2>2, <3>1 DEF Quiet
    <3>2. CASE d # c
      <4>1. \A u \in Tasks : pc[u] \in Reading => conn[u] # d
        BY <1>9, <2>2, <3>2
      <4>2. Quiet(d)
        BY <1>15, <2>2, <4>1 DEF Inv, Synchronized
      <4> QED
        BY <3>2, <4>2 DEF Quiet, OtherLinksStay
    <3> QED
      BY <3>1, <3>2
  <2> QED
    BY <2>1, <2>2 DEF Synchronized
<1>18. AnswersMatch'
  <2>1. ASSUME NEW r \in Reqs, result'[r].outcome = "ok", NEW d, d = result'[r].on, Good(d)'
        PROVE  result'[r].of = r
    <3>1. CASE r = r0
      BY <1>1, <1>4, <1>7, <1>15, <2>1, <3>1
    <3>2. CASE r # r0
      <4>1. result'[r] = result[r] /\ Good(d)
        BY <1>7, <1>15, <2>1, <3>2 DEF OtherResultsStay
      <4> QED
        BY <2>1, <4>1 DEF Inv, AnswersMatch, Good
    <3> QED
      BY <3>1, <3>2
  <2> QED
    BY <2>1 DEF AnswersMatch, Good, Had
<1> QED
  BY <1>6, <1>12, <1>13, <1>14, <1>17, <1>18 DEF Inv

\* The task gets on with its exchange.
LEMMA GoOnStep ==
  ASSUME Inv, NEW t \in Tasks, pc[t] \in Sending, NEW c, c = conn[t], NEW r0, r0 = req[t],
         Types', pc'[t] \in Reading, OthersStay(t), conn'[t] = c, req'[t] = r0,
         UNCHANGED <<pool, open, peer>>,
         OtherResultsStay(r0), result'[r0].outcome = "pending", result'[r0].on = c,
         OtherLinksStay(c), Good(c) => InStep(t)'
  PROVE  Inv'
<1>1. /\ c \in Conns /\ r0 \in Reqs /\ result[r0].outcome = "pending" /\ result[r0].on = c
      /\ \A u \in Tasks \ {t} : pc[u] \in Holding => conn[u] # c
      /\ \A u \in Tasks \ {t} : pc[u] \in Sending \cup SendingH2 => req[u] # r0
  BY SenderFacts
<1>2. \A u \in Tasks \ {t} : pc'[u] = pc[u] /\ conn'[u] = conn[u] /\ req'[u] = req[u]
  BY DEF OthersStay
<1>3. Reading \subseteq Sending /\ Sending \subseteq Holding
  BY PlacesListed
<1>4. /\ \A r \in Reqs : result'[r].outcome = result[r].outcome /\ result'[r].on = result[r].on
      /\ \A r \in Reqs : result[r].outcome # "pending" => result'[r] = result[r]
  BY <1>1 DEF OtherResultsStay
<1>5. \A d : Good(d)' <=> Good(d)
  BY <1>4 DEF Good, Had
<1>6. \A u \in Tasks : conn'[u] = conn[u] /\ req'[u] = req[u]
  BY <1>2
<1>7. ASSUME NEW u \in Tasks
      PROVE  \/ pc'[u] = pc[u]
             \/ /\ pc'[u] \in Sending /\ pc'[u] \in Holding
                /\ pc[u] \in Sending /\ pc[u] \in Holding
  <2>1. CASE u = t
    BY <2>1, PlacesListed
  <2>2. CASE u # t
    BY <1>2, <2>2
  <2> QED
    BY <2>1, <2>2
<1>8. OneOwner'
  <2>1. OneOwner
    BY DEF Inv
  <2> QED
    BY <1>6, <1>7, <2>1 DEF OneOwner
<1>9. OneSender'
  <2>1. ASSUME NEW u \in Tasks, pc'[u] \in Sending \cup SendingH2
        PROVE  /\ req'[u] \in Reqs
               /\ result'[req'[u]].outcome = "pending"
               /\ result'[req'[u]].on = IF pc'[u] \in Sending THEN conn'[u] ELSE None
    <3>1. /\ pc[u] \in Sending \cup SendingH2 /\ req'[u] = req[u] /\ conn'[u] = conn[u]
          /\ pc'[u] \in Sending => pc[u] \in Sending
          /\ pc[u] \in Sending => pc'[u] \in Sending
      BY <1>6, <1>7, <2>1
    <3>2. /\ req[u] \in Reqs /\ result[req[u]].outcome = "pending"
          /\ result[req[u]].on = IF pc[u] \in Sending THEN conn[u] ELSE None
      BY <3>1 DEF Inv, OneSender
    <3> QED
      BY <1>4, <3>1, <3>2
  <2>2. ASSUME NEW v \in Tasks, NEW u \in Tasks, pc'[v] \in Sending \cup SendingH2,
               pc'[u] \in Sending \cup SendingH2, req'[v] = req'[u]
        PROVE  v = u
    <3>1. /\ pc[u] \in Sending \cup SendingH2 /\ req'[u] = req[u]
          /\ pc[v] \in Sending \cup SendingH2 /\ req'[v] = req[v]
      BY <1>6, <1>7, <2>2
    <3> QED
      BY <2>2, <3>1 DEF Inv, OneSender
  <2> QED
    BY <2>1, <2>2 DEF OneSender
<1>10. ErrorsClose'
  BY <1>4 DEF Inv, ErrorsClose
<1>11. AnswersMatch'
  <2>1. ASSUME NEW r \in Reqs, result'[r].outcome = "ok", NEW d, d = result'[r].on, Good(d)'
        PROVE  result'[r].of = r
    BY <1>4, <1>5, <2>1 DEF Inv, AnswersMatch, Good
  <2> QED
    BY <2>1 DEF AnswersMatch, Good, Had
<1>12. Synchronized'
  <2>1. ASSUME NEW u \in Tasks, pc'[u] \in Reading, Good(conn[u])' PROVE InStep(u)'
    <3>1. Good(conn[u])
      <4>1. PICK d : d = conn[u]
        OBVIOUS
      <4>2. Good(d)'
        BY <1>6, <2>1, <4>1 DEF Good, Had
      <4> QED
        BY <1>5, <4>1, <4>2
    <3>2. CASE u = t
      BY <3>1, <3>2
    <3>3. CASE u # t
      <4>1. /\ pc[u] = pc'[u] /\ conn[u] # c /\ conn[u] \in Conns
            /\ req[u] \in Reqs /\ result'[req[u]] = result[req[u]]
        BY <1>1, <1>2, <1>3, <2>1, <3>3 DEF Inv, OneSender, OneOwner, OtherResultsStay
      <4>2. InStep(u)
        BY <2>1, <3>1, <4>1 DEF Inv, Synchronized
      <4> QED
        BY <1>6, <4>1, <4>2 DEF InStep, OtherLinksStay
    <3> QED
      BY <3>2, <3>3
  <2>2. ASSUME NEW d \in Conns, Good(d)', \A u \in Tasks : pc'[u] \in Reading => conn'[u] # d
        PROVE  Quiet(d)'
    <3>1. d # c
      BY <2>2
    <3>2. \A u \in Tasks : pc[u] \in Reading => conn[u] # d
      BY <1>2, <2>2, <3>1
    <3>3. Quiet(d)
      BY <1>5, <2>2, <3>2 DEF Inv, Synchronized
    <3> QED
      BY <3>1, <3>3 DEF Quiet, OtherLinksStay
  <2> QED
    BY <2>1, <2>2 DEF Synchronized
<1> QED
  BY <1>8, <1>9, <1>10, <1>11, <1>12 DEF Inv

\* The peer of connection c does something.
LEMMA PeerStep ==
  ASSUME Inv, Types', UNCHANGED client, NEW c \in Conns, OtherLinksStay(c),
         \A d \in Conns : peer[d] # "unborn" => peer'[d] # "unborn",
         \A t \in Tasks : pc[t] \in Reading /\ conn[t] = c /\ Good(c) => InStep(t)',
         Good(c) /\ (\A t \in Tasks : pc[t] \in Reading => conn[t] # c) =>
           sent'[c] = <<>> /\ owed'[c] = <<>> /\ wire'[c] = <<>>
  PROVE  Inv'
<1>1. UNCHANGED <<pool, pc, conn, req, open, result>>
  BY DEF client
<1>2. OneOwner'
  <2>1. \A d \in Elements(pool) : d \in Conns
    BY ElementOfSeq, LenProperties DEF Inv, Types, Elements
  <2> QED
    BY <1>1, <2>1 DEF Inv, OneOwner
<1>3. OneSender' /\ ErrorsClose' /\ AnswersMatch'
  BY <1>1 DEF Inv, OneSender, ErrorsClose, AnswersMatch, Had
<1>4. \A d : Good(d)' <=> Good(d)
  BY <1>1 DEF Good, Had
<1>5. Synchronized'
  <2>1. ASSUME NEW u \in Tasks, pc[u] \in Reading, Good(conn[u]) PROVE InStep(u)'
    <3>1. CASE conn[u] = c
      BY <2>1, <3>1
    <3>2. CASE conn[u] # c
      <4>1. InStep(u) /\ conn[u] \in Conns
        BY <2>1, PlacesListed DEF Inv, Synchronized, OneOwner
      <4> QED
        BY <1>1, <3>2, <4>1 DEF InStep, OtherLinksStay
    <3> QED
      BY <3>1, <3>2
  <2>2. ASSUME NEW d \in Conns, Good(d), \A u \in Tasks : pc[u] \in Reading => conn[u] # d
        PROVE  Quiet(d)'
    <3>1. CASE d = c
      BY <2>2, <3>1 DEF Quiet
    <3>2. CASE d # c
      BY <2>2, <3>2 DEF Inv, Synchronized, Quiet, OtherLinksStay
    <3> QED
      BY <3>1, <3>2
  <2>3. \A u \in Tasks : Good(conn[u])' <=> Good(conn[u])
    BY <1>1 DEF Good, Had
  <2> QED
    BY <1>1, <1>4, <2>1, <2>2, <2>3 DEF Synchronized
<1> QED
  BY <1>2, <1>3, <1>5 DEF Inv
-----------------------------------------------------------------------------
(* The steps of a task, one by one. *)

\* connect takes the front of the pool, or dials.
LEMMA ConnectKeeps ==
  ASSUME Inv, NEW t \in Tasks, Connect(t)
  PROVE  Inv'
<1>1. /\ pc[t] = "out" /\ UNCHANGED <<req, open, result, peer, sent, owed, wire>>
      /\ pc[t] \notin Sending \cup SendingH2
  BY PlacesListed DEF Connect, link
<1>2. CASE pool = <<>>
  <2>1. pc' = [pc EXCEPT ![t] = "dialling"] /\ UNCHANGED <<pool, conn>>
    BY <1>2 DEF Connect
  <2>2. /\ Types' /\ OthersStay(t) /\ pc'[t] = "dialling"
        /\ "dialling" \notin Sending \cup SendingH2 /\ "dialling" # "ready"
    BY <1>1, <2>1, PlacesListed DEF Inv, Types, OthersStay
  <2>3. OneOwner
    BY DEF Inv
  <2>4. /\ \A c \in Conns : peer[c] # "unborn" => peer'[c] # "unborn"
        /\ NoRepeats(pool') /\ \A c \in Elements(pool') : open[c] /\ peer'[c] # "unborn"
        /\ \A u \in Tasks \ {t} : pc[u] \in Holding => conn[u] \notin Elements(pool')
    BY <1>1, <2>1, <2>3 DEF OneOwner
  <2> QED
    BY <1>1, <2>2, <2>4, HandleStep
<1>3. CASE pool # <<>>
  <2>1. /\ pool' = PopFront(pool, 1) /\ conn' = [conn EXCEPT ![t] = Head(pool)]
        /\ pc' = [pc EXCEPT ![t] = "ready"]
    BY <1>3 DEF Connect
  <2>2. /\ pool \in Seq(Conns) /\ OneOwner
    BY DEF Inv, Types
  <2>3. /\ pool' \in Seq(Conns) /\ Head(pool) \in Conns /\ Head(pool) \in Elements(pool)
        /\ Elements(pool') \subseteq Elements(pool) /\ Head(pool) \notin Elements(pool')
        /\ NoRepeats(pool')
    BY <1>3, <2>1, <2>2, FrontTaken DEF OneOwner
  <2>4. /\ Types' /\ OthersStay(t) /\ pc'[t] = "ready" /\ conn'[t] = Head(pool)
        /\ "ready" \notin Sending \cup SendingH2
    BY <1>1, <2>1, <2>3, PlacesListed DEF Inv, Types, OthersStay
  <2>5. /\ \A c \in Conns : peer[c] # "unborn" => peer'[c] # "unborn"
        /\ \A c \in Elements(pool') : open[c] /\ peer'[c] # "unborn"
        /\ \A u \in Tasks \ {t} : pc[u] \in Holding => conn[u] \notin Elements(pool')
        /\ conn'[t] \in Conns /\ peer'[conn'[t]] # "unborn" /\ conn'[t] \notin Elements(pool')
        /\ \A u \in Tasks \ {t} : pc[u] \in Holding => conn[u] # conn'[t]
    BY <1>1, <2>2, <2>3, <2>4 DEF OneOwner
  <2> QED
    BY <1>1, <2>3, <2>4, <2>5, HandleStep
<1> QED
  BY <1>2, <1>3

\* A connection is new: nobody has it.
LEMMA DialledKeeps ==
  ASSUME Inv, NEW t \in Tasks, NEW c \in Conns, Dialled(t, c)
  PROVE  Inv'
<1>1. /\ pc[t] = "dialling" /\ peer[c] = "unborn" /\ peer' = [peer EXCEPT ![c] = "up"]
      /\ conn' = [conn EXCEPT ![t] = c] /\ pc' = [pc EXCEPT ![t] = "ready"]
      /\ UNCHANGED <<pool, req, open, result, sent, owed, wire>>
  BY DEF Dialled
<1>2. OneOwner
  BY DEF Inv
<1>3. /\ Types' /\ OthersStay(t) /\ pc'[t] = "ready" /\ conn'[t] = c /\ peer'[c] = "up"
      /\ \A d \in Conns : peer[d] # "unborn" => peer'[d] # "unborn"
      /\ pc[t] \notin Sending \cup SendingH2 /\ "ready" \notin Sending \cup SendingH2
  BY <1>1, PlacesListed DEF Inv, Types, OthersStay
<1>4. \A d \in Elements(pool) : d \in Conns
  BY ElementOfSeq, LenProperties DEF Inv, Types, Elements
<1>5. /\ NoRepeats(pool') /\ \A d \in Elements(pool') : open[d] /\ peer'[d] # "unborn"
      /\ \A u \in Tasks \ {t} : pc[u] \in Holding => conn[u] \notin Elements(pool')
      /\ conn'[t] \in Conns /\ peer'[conn'[t]] # "unborn" /\ conn'[t] \notin Elements(pool')
      /\ \A u \in Tasks \ {t} : pc[u] \in Holding => conn[u] # conn'[t]
  BY <1>1, <1>2, <1>3, <1>4 DEF OneOwner
<1> QED
  BY <1>1, <1>3, <1>5, HandleStep

\* Dialling fails.
LEMMA DialFailedKeeps ==
  ASSUME Inv, NEW t \in Tasks, DialFailed(t)
  PROVE  Inv'
<1>1. /\ pc[t] = "dialling" /\ pc' = [pc EXCEPT ![t] = "out"]
      /\ UNCHANGED <<pool, conn, req, open, result, peer, sent, owed, wire>>
  BY DEF DialFailed, link
<1>2. OneOwner
  BY DEF Inv
<1>3. /\ Types' /\ OthersStay(t) /\ pc'[t] = "out" /\ "out" # "ready"
      /\ pc[t] \notin Sending \cup SendingH2 /\ "out" \notin Sending \cup SendingH2
  BY <1>1, PlacesListed DEF Inv, Types, OthersStay
<1>4. /\ NoRepeats(pool') /\ \A d \in Elements(pool') : open[d] /\ peer'[d] # "unborn"
      /\ \A u \in Tasks \ {t} : pc[u] \in Holding => conn[u] \notin Elements(pool')
      /\ \A d \in Conns : peer[d] # "unborn" => peer'[d] # "unborn"
  BY <1>1, <1>2 DEF OneOwner
<1> QED
  BY <1>1, <1>3, <1>4, HandleStep

\* The connection goes back, or is closed.
LEMMA DropKeeps ==
  ASSUME Inv, NEW t \in Tasks, Drop(t)
  PROVE  Inv'
<1>1. PICK c : c = conn[t]
  OBVIOUS
<1>2. /\ pc[t] = "ready" /\ pool' = (IF open[c] THEN DropInsert(pool, c) ELSE pool)
      /\ pc' = [pc EXCEPT ![t] = "out"] /\ conn' = [conn EXCEPT ![t] = None]
      /\ UNCHANGED <<req, open, result, peer, sent, owed, wire>>
  BY <1>1 DEF Drop, link
<1>3. /\ OneOwner /\ pool \in Seq(Conns) /\ "ready" \in Holding
  BY PlacesListed DEF Inv, Types
<1>4. /\ c \in Conns /\ peer[c] # "unborn" /\ c \notin Elements(pool)
      /\ \A u \in Tasks \ {t} : pc[u] \in Holding => conn[u] # c
  BY <1>1, <1>2, <1>3 DEF OneOwner
<1>5. /\ pool' \in Seq(Conns) /\ NoRepeats(pool')
      /\ Elements(pool') \subseteq Elements(pool) \cup {c}
      /\ ~open[c] => Elements(pool') = Elements(pool)
  <2>1. CASE open[c]
    BY <1>2, <1>3, <1>4, <2>1, InsertDistinct DEF OneOwner
  <2>2. CASE ~open[c]
    BY <1>2, <1>3, <2>2 DEF OneOwner
  <2> QED
    BY <2>1, <2>2
<1>6. /\ Types' /\ OthersStay(t) /\ pc'[t] = "out" /\ "out" # "ready"
      /\ pc[t] \notin Sending \cup SendingH2 /\ "out" \notin Sending \cup SendingH2
  BY <1>2, <1>5, PlacesListed DEF Inv, Types, OthersStay
<1>7. /\ \A d \in Elements(pool') : open[d] /\ peer'[d] # "unborn"
      /\ \A u \in Tasks \ {t} : pc[u] \in Holding => conn[u] \notin Elements(pool')
      /\ \A d \in Conns : peer[d] # "unborn" => peer'[d] # "unborn"
  BY <1>2, <1>3, <1>4, <1>5 DEF OneOwner
<1> QED
  BY <1>2, <1>5, <1>6, <1>7, HandleStep

\* A request nobody has sent is taken up, on a quiet connection if it is good.
LEMMA SendRequestKeeps ==
  ASSUME Inv, NEW t \in Tasks, NEW r0 \in Reqs, SendRequest(t, r0)
  PROVE  Inv'
<1>1. PICK c : c = conn[t]
  OBVIOUS
<1>2. PICK x : x = [outcome |-> "pending", of |-> None, on |-> c]
  OBVIOUS
<1>3. x.outcome = "pending" /\ x.of = None /\ x.on = c
  BY <1>2
<1>4. /\ pc[t] = "ready" /\ result[r0].outcome = "unsent"
      /\ result' = [result EXCEPT ![r0] = x]
      /\ pc' = [pc EXCEPT ![t] = "sending"] /\ req' = [req EXCEPT ![t] = r0]
      /\ UNCHANGED <<pool, conn, open, peer, sent, owed, wire>>
  BY <1>1, <1>2 DEF SendRequest, link
<1>5. OneOwner /\ OneSender /\ "ready" \in Holding
  BY PlacesListed DEF Inv
<1>6. c \in Conns
  BY <1>1, <1>4, <1>5 DEF OneOwner
<1>7. Types'
  <2>1. x \in [outcome: Outcomes, of: Reqs \cup {None}, on: Conns \cup {None}]
    BY <1>2, <1>6 DEF Outcomes
  <2>2. pc' \in [Tasks -> Places] /\ req' \in [Tasks -> Reqs \cup {None}]
    BY <1>4, PlacesListed DEF Inv, Types
  <2> QED
    BY <1>4, <2>1, <2>2 DEF Inv, Types
<1>8. /\ result'[r0] = x /\ OtherResultsStay(r0) /\ pc'[t] = "sending" /\ req'[t] = r0
      /\ OthersStay(t)
  BY <1>4 DEF Inv, Types, OtherResultsStay, OthersStay
<1>9. \A u \in Tasks \ {t} : pc'[u] = pc[u] /\ conn'[u] = conn[u] /\ req'[u] = req[u]
  BY <1>8 DEF OthersStay
<1>10. \A u \in Tasks : pc[u] \in Sending \cup SendingH2 => req[u] # r0
  BY <1>4, <1>5 DEF OneSender
<1>11. ASSUME NEW u \in Tasks
       PROVE  \/ pc'[u] = pc[u]
              \/ pc'[u] \in Holding /\ pc[u] \in Holding
  <2>1. CASE u = t
    BY <1>4, <1>8, <2>1, PlacesListed
  <2>2. CASE u # t
    BY <1>9, <2>2
  <2> QED
    BY <2>1, <2>2
<1>12. OneOwner'
  BY <1>4, <1>5, <1>11 DEF OneOwner
<1>13. OneSender'
  <2>1. ASSUME NEW u \in Tasks, u # t, pc'[u] \in Sending \cup SendingH2
        PROVE  /\ pc[u] = pc'[u] /\ req'[u] = req[u] /\ conn'[u] = conn[u]
               /\ req[u] \in Reqs /\ req[u] # r0 /\ result'[req[u]] = result[req[u]]
    BY <1>5, <1>8, <1>9, <1>10, <2>1 DEF OneSender, OtherResultsStay
  <2>2. ASSUME NEW u \in Tasks, pc'[u] \in Sending \cup SendingH2
        PROVE  /\ req'[u] \in Reqs
               /\ result'[req'[u]].outcome = "pending"
               /\ result'[req'[u]].on = IF pc'[u] \in Sending THEN conn'[u] ELSE None
    <3>1. CASE u = t
      BY <1>1, <1>3, <1>4, <1>8, <3>1, PlacesListed
    <3>2. CASE u # t
      <4>1. /\ pc[u] = pc'[u] /\ req'[u] = req[u] /\ conn'[u] = conn[u]
            /\ req[u] \in Reqs /\ result'[req[u]] = result[req[u]]
        BY <2>1, <2>2, <3>2
      <4>2. /\ result[req[u]].outcome = "pending"
            /\ result[req[u]].on = IF pc[u] \in Sending THEN conn[u] ELSE None
        BY <1>5, <2>2, <4>1 DEF OneSender
      <4> QED
        BY <4>1, <4>2
    <3> QED
      BY <3>1, <3>2
  <2>3. ASSUME NEW v \in Tasks, NEW u \in Tasks, pc'[v] \in Sending \cup SendingH2,
               pc'[u] \in Sending \cup SendingH2, req'[v] = req'[u]
        PROVE  v = u
    <3>1. CASE u = t \/ v = t
      BY <1>8, <2>1, <2>3, <3>1
    <3>2. CASE u # t /\ v # t
      <4>1. pc[u] = pc'[u] /\ req'[u] = req[u] /\ pc[v] = pc'[v] /\ req'[v] = req[v]
        BY <2>1, <2>3, <3>2
      <4> QED
        BY <1>5, <2>3, <4>1 DEF OneSender
    <3> QED
      BY <3>1, <3>2
  <2> QED
    BY <2>2, <2>3 DEF OneSender
<1>14. ASSUME NEW r \in Reqs, result'[r].outcome # "pending" PROVE result'[r] = result[r]
  BY <1>3, <1>8, <1>14 DEF OtherResultsStay
<1>15. ErrorsClose'
  BY <1>4, <1>14 DEF Inv, ErrorsClose
<1>16. ASSUME NEW d, Good(d)' PROVE Good(d)
  BY <1>4, <1>8, <1>16, GoodBefore
<1>17. AnswersMatch'
  <2>1. ASSUME NEW r \in Reqs, result'[r].outcome = "ok", NEW d, d = result'[r].on, Good(d)'
        PROVE  result'[r].of = r
    BY <1>14, <1>16, <2>1 DEF Inv, AnswersMatch, Good
  <2> QED
    BY <2>1 DEF AnswersMatch, Good, Had
<1>18. Synchronized'
  <2>1. ASSUME NEW u \in Tasks, pc'[u] \in Reading, Good(conn[u])' PROVE InStep(u)'
    <3>1. u # t
      BY <1>8, <2>1, PlacesListed
    <3>2. /\ pc[u] = pc'[u] /\ req'[u] = req[u] /\ conn'[u] = conn[u] /\ pc[u] \in Sending
      BY <1>9, <2>1, <3>1, PlacesListed
    <3>3. req[u] \in Reqs /\ result'[req[u]] = result[req[u]]
      BY <1>5, <1>8, <1>10, <3>2 DEF OneSender, OtherResultsStay
    <3>4. Good(conn[u])
      <4>1. PICK d : d = conn[u]
        OBVIOUS
      <4>2. Good(d)'
        BY <2>1, <3>2, <4>1 DEF Good, Had
      <4> QED
        BY <1>16, <4>1, <4>2
    <3>5. InStep(u)
      BY <2>1, <3>2, <3>4 DEF Inv, Synchronized
    <3> QED
      BY <1>4, <3>2, <3>3, <3>5 DEF InStep
  <2>2. ASSUME NEW d \in Conns, Good(d)', \A u \in Tasks : pc'[u] \in Reading => conn'[u] # d
        PROVE  Quiet(d)'
    <3>1. \A u \in Tasks : pc[u] \in Reading => conn[u] # d
      BY <1>4, <1>9, <2>2, PlacesListed
    <3>2. Quiet(d)
      BY <1>16, <2>2, <3>1 DEF Inv, Synchronized
    <3> QED
      BY <1>4, <3>2 DEF Quiet
  <2> QED
    BY <2>1, <2>2 DEF Synchronized
<1> QED
  BY <1>7, <1>12, <1>13, <1>15, <1>17, <1>18 DEF Inv

\* The request is with the peer.
LEMMA FlushedKeeps ==
  ASSUME Inv, NEW t \in Tasks, Flushed(t)
  PROVE  Inv'
<1>1. PICK c, r : c = conn[t] /\ r = req[t]
  OBVIOUS
<1>2. /\ pc[t] = "sending" /\ pc' = [pc EXCEPT ![t] = "head"]
      /\ sent' = [sent EXCEPT ![c] = Append(sent[c], r)]
      /\ UNCHANGED <<pool, conn, req, open, result, peer, owed, wire>>
  BY <1>1 DEF Flushed
<1>3. pc[t] \in Sending /\ "head" \in Reading
  BY <1>2, PlacesListed
<1>4. /\ c \in Conns /\ r \in Reqs /\ result[r].outcome = "pending" /\ result[r].on = c
      /\ \A u \in Tasks \ {t} : pc[u] \in Holding => conn[u] # c
  BY <1>1, <1>3, SenderFacts
<1>5. Append(sent[c], r) \in Seq(Reqs \cup {None})
  BY <1>4, AppendProperties DEF Inv, Types
<1>6. Types' /\ pc'[t] = "head" /\ OthersStay(t)
  BY <1>2, <1>5, PlacesListed DEF Inv, Types, OthersStay
<1>7. OtherResultsStay(r) /\ OtherLinksStay(c)
  BY <1>2, <1>4 DEF OtherResultsStay, OtherLinksStay, Inv, Types
<1>8. ASSUME Good(c) PROVE InStep(t)'
  <2>1. \A u \in Tasks : pc[u] \in Reading => conn[u] # c
    BY <1>2, <1>4, PlacesListed
  <2>2. sent[c] = <<>> /\ owed[c] = <<>> /\ wire[c] = <<>>
    BY <1>4, <1>8, <2>1 DEF Inv, Synchronized, Quiet
  <2>3. sent'[c] = <<r>>
    BY <1>2, <1>4, <2>2 DEF Inv, Types
  <2> QED
    BY <1>1, <1>2, <1>6, <2>2, <2>3 DEF InStep
<1> QED
  BY <1>1, <1>2, <1>3, <1>4, <1>6, <1>7, <1>8, GoOnStep

\* send_request returns and has left the connection's queues alone.
LEMMA ReturnKeeps ==
  ASSUME Inv, NEW t \in Tasks, pc[t] \in Sending, UNCHANGED link,
         NEW outcome \in {"body_error", "error", "cancelled"}, NEW of \in Reqs \cup {None},
         NEW stays \in BOOLEAN, Returns(t, outcome, of, stays), outcome = "error" => ~stays
  PROVE  Inv'
<1>1. PICK c : c = conn[t]
  OBVIOUS
<1>2. UNCHANGED <<peer, sent, owed, wire>>
  BY DEF link
<1>3. /\ sent' \in [Conns -> Seq(Reqs \cup {None})] /\ owed' \in [Conns -> Seq(Frame)]
      /\ wire' \in [Conns -> Seq(Frame)] /\ OtherLinksStay(c)
  BY <1>2 DEF Inv, Types, OtherLinksStay
<1> QED
  BY <1>1, <1>2, <1>3, ReturnStep

\* No head comes.
LEMMA HeadFailsKeeps ==
  ASSUME Inv, NEW t \in Tasks, HeadFails(t)
  PROVE  Inv'
BY ReturnKeeps, PlacesListed DEF HeadFails

\* The body breaks off.
LEMMA StreamedFailsKeeps ==
  ASSUME Inv, NEW t \in Tasks, StreamedFails(t)
  PROVE  Inv'
BY ReturnKeeps, PlacesListed DEF StreamedFails

\* The body of known length breaks off.
LEMMA FixedFailsKeeps ==
  ASSUME Inv, NEW t \in Tasks, FixedFails(t)
  PROVE  Inv'
<1>1. pc[t] \in Sending
  BY PlacesListed DEF FixedFails
<1>2. PICK of \in Reqs \cup {None} : of = result[req[t]].of
  <2>1. req[t] \in Reqs
    BY <1>1, SenderFacts
  <2> QED
    BY <2>1 DEF Inv, Types
<1> QED
  BY <1>1, <1>2, ReturnKeeps DEF FixedFails

\* It ends with the request written in part, or in full, or not at all.
LEMMA CutShortKeeps ==
  ASSUME Inv, NEW t \in Tasks, pc[t] \in Sending, NEW outcome \in {"error", "cancelled"},
         NEW stays \in BOOLEAN, Returns(t, outcome, None, stays), outcome = "error" => ~stays,
         CutShort(t)
  PROVE  Inv'
<1>1. PICK c, r : c = conn[t] /\ r = req[t]
  OBVIOUS
<1>2. /\ UNCHANGED <<peer, owed, wire>>
      /\ \/ UNCHANGED sent
         \/ \E m \in {None, r} : sent' = [sent EXCEPT ![c] = Append(sent[c], m)]
  BY <1>1 DEF CutShort, link
<1>3. c \in Conns /\ r \in Reqs
  BY <1>1, SenderFacts
<1>4. sent' \in [Conns -> Seq(Reqs \cup {None})] /\ OtherLinksStay(c)
  <2>1. CASE UNCHANGED sent
    BY <1>2, <2>1 DEF Inv, Types, OtherLinksStay
  <2>2. CASE \E m \in {None, r} : sent' = [sent EXCEPT ![c] = Append(sent[c], m)]
    <3>1. PICK m \in Reqs \cup {None} : sent' = [sent EXCEPT ![c] = Append(sent[c], m)]
      BY <1>3, <2>2
    <3>2. Append(sent[c], m) \in Seq(Reqs \cup {None})
      BY <1>3, AppendProperties DEF Inv, Types
    <3> QED
      BY <1>2, <3>1, <3>2 DEF Inv, Types, OtherLinksStay
  <2> QED
    BY <1>2, <2>1, <2>2
<1>5. owed' \in [Conns -> Seq(Frame)] /\ wire' \in [Conns -> Seq(Frame)]
  BY <1>2 DEF Inv, Types
<1>6. /\ outcome \in {"ok", "body_error", "error", "cancelled"} /\ outcome # "ok"
      /\ None \in Reqs \cup {None} /\ UNCHANGED peer
  BY <1>2
<1> QED
  BY <1>1, <1>4, <1>5, <1>6, ReturnStep

\* The request cannot be written.
LEMMA SendFailedKeeps ==
  ASSUME Inv, NEW t \in Tasks, SendFailed(t)
  PROVE  Inv'
BY CutShortKeeps, PlacesListed DEF SendFailed

\* The caller drops send_request.
LEMMA CancelKeeps ==
  ASSUME Inv, NEW t \in Tasks, Cancel(t)
  PROVE  Inv'
<1>1. pc[t] \in Sending /\ Returns(t, "cancelled", None, TRUE) /\ CutShort(t)
  BY DEF Cancel
<1> QED
  BY <1>1, CutShortKeeps

\* What there is to read on connection c, from the wire and from the peer.
Left(c) == wire[c] \o owed[c]

\* The task reads a frame: on a good connection it is the next one of its answer.
LEMMA FrameRead ==
  ASSUME Inv, NEW t \in Tasks, pc[t] \in Reading, NEW c, c = conn[t], Arrived(t), Consume(t)
  PROVE  /\ UNCHANGED <<peer, sent, owed>>
         /\ wire' \in [Conns -> Seq(Frame)] /\ OtherLinksStay(c) /\ Head(wire[c]) \in Frame
         /\ Good(c) => /\ sent'[c] = <<>> /\ IsRest(Left(c), req[t], pc[t])
                       /\ Head(Left(c)) = Head(wire[c]) /\ wire'[c] \o owed'[c] = Tail(Left(c))
                       /\ pc[t] # "head" => result[req[t]].of = req[t]
                       /\ Tail(Left(c)) = <<>> => wire'[c] = <<>> /\ owed'[c] = <<>>
<1>1. pc[t] \in Sending
  BY PlacesListed
<1>2. c \in Conns
  BY <1>1, SenderFacts
<1>3. PICK w \in Seq(Frame), o \in Seq(Frame) : w = wire[c] /\ o = owed[c]
  BY <1>2 DEF Inv, Types
<1>4. w # <<>> /\ UNCHANGED <<peer, sent, owed>> /\ wire' = [wire EXCEPT ![c] = Tail(w)]
  BY <1>3 DEF Arrived, Consume
<1>5. /\ Tail(w) \in Seq(Frame) /\ Head(w) \in Frame
      /\ Head(w \o o) = Head(w) /\ Tail(w) \o o = Tail(w \o o)
  BY <1>4, ReadMoves
<1>6. wire' \in [Conns -> Seq(Frame)] /\ OtherLinksStay(c) /\ wire'[c] = Tail(w) /\ owed'[c] = o
  BY <1>2, <1>3, <1>4, <1>5 DEF Inv, Types, OtherLinksStay
<1>7. ASSUME Good(c)
      PROVE  /\ sent[c] = <<>> /\ IsRest(Left(c), req[t], pc[t])
             /\ pc[t] # "head" => result[req[t]].of = req[t]
  <2>1. InStep(t)
    BY <1>7 DEF Inv, Synchronized
  <2> QED
    BY <1>3, <1>4, <2>1 DEF InStep, Left
<1>8. Tail(w \o o) = <<>> => Tail(w) = <<>> /\ o = <<>>
  BY <1>5, NothingLeft
<1>9. Left(c) = w \o o
  BY <1>3 DEF Left
<1> QED
  BY <1>3, <1>4, <1>5, <1>6, <1>7, <1>8, <1>9

\* It was the last frame of the answer.
LEMMA LastFrameRead ==
  ASSUME Inv, NEW t \in Tasks, pc[t] \in Reading, Arrived(t), Consume(t),
         NEW of \in Reqs \cup {None}, Returns(t, "ok", of, TRUE),
         Good(conn[t]) => of = req[t] /\ Tail(Left(conn[t])) = <<>>
  PROVE  Inv'
<1>1. PICK c : c = conn[t]
  OBVIOUS
<1>2. pc[t] \in Sending
  BY PlacesListed
<1>3. /\ UNCHANGED <<peer, sent, owed>>
      /\ wire' \in [Conns -> Seq(Frame)] /\ OtherLinksStay(c)
      /\ Good(c) => /\ sent'[c] = <<>>
                    /\ Tail(Left(c)) = <<>> => wire'[c] = <<>> /\ owed'[c] = <<>>
  BY <1>1, FrameRead
<1>4. sent' \in [Conns -> Seq(Reqs \cup {None})] /\ owed' \in [Conns -> Seq(Frame)]
  BY <1>3 DEF Inv, Types
<1> QED
  BY <1>1, <1>2, <1>3, <1>4, ReturnStep

\* A body of known length is read: its one frame is the last.
LEMMA ReadFixedKeeps ==
  ASSUME Inv, NEW t \in Tasks, ReadFixed(t)
  PROVE  Inv'
<1>1. PICK c : c = conn[t]
  OBVIOUS
<1>2. /\ pc[t] = "fixed" /\ pc[t] \in Reading /\ pc[t] \in Sending /\ Arrived(t) /\ Consume(t)
  BY PlacesListed DEF ReadFixed
<1>3. PICK of \in Reqs \cup {None} : of = result[req[t]].of
  <2>1. req[t] \in Reqs
    BY <1>2, SenderFacts
  <2> QED
    BY <2>1 DEF Inv, Types
<1>4. ASSUME Good(c) PROVE of = req[t] /\ Tail(Left(c)) = <<>>
  <2>1. IsRest(Left(c), req[t], pc[t]) /\ of = req[t]
    BY <1>1, <1>2, <1>3, <1>4, FrameRead
  <2> QED
    BY <1>2, <2>1, RestRead
<1>5. Returns(t, "ok", of, TRUE)
  BY <1>3 DEF ReadFixed
<1> QED
  BY <1>1, <1>2, <1>4, <1>5, LastFrameRead

\* A chunk is read: the end of the body, or more of it follows.
LEMMA ReadStreamedKeeps ==
  ASSUME Inv, NEW t \in Tasks, ReadStreamed(t)
  PROVE  Inv'
<1>1. PICK c, r : c = conn[t] /\ r = req[t]
  OBVIOUS
<1>2. /\ pc[t] = "streamed" /\ pc[t] \in Reading /\ pc[t] \in Sending /\ Arrived(t)
      /\ Consume(t)
  BY PlacesListed DEF ReadStreamed
<1>3. PICK of : of = result[req[t]].of
  OBVIOUS
<1>4. /\ r \in Reqs /\ c \in Conns /\ result[r].outcome = "pending" /\ result[r].on = c
      /\ of \in Reqs \cup {None}
  <2>1. /\ r \in Reqs /\ c \in Conns /\ result[r].outcome = "pending" /\ result[r].on = c
    BY <1>1, <1>2, SenderFacts
  <2> QED
    BY <1>1, <1>3, <2>1 DEF Inv, Types
<1>5. ASSUME Good(c)
      PROVE  /\ of = r
             /\ IF Head(wire[c]).part = "end" THEN Tail(Left(c)) = <<>>
                ELSE IsRest(wire'[c] \o owed'[c], r, "streamed") /\ sent'[c] = <<>>
  <2>1. /\ IsRest(Left(c), r, "streamed") /\ of = r /\ Head(Left(c)) = Head(wire[c])
        /\ wire'[c] \o owed'[c] = Tail(Left(c)) /\ sent'[c] = <<>>
    BY <1>1, <1>2, <1>3, <1>5, FrameRead
  <2>2. IF Head(Left(c)).part = "end" THEN Tail(Left(c)) = <<>>
        ELSE IsRest(Tail(Left(c)), r, "streamed")
    BY <2>1, RestRead
  <2> QED
    BY <2>1, <2>2
<1>6. CASE Head(wire[c]).part = "end"
  <2>1. Returns(t, "ok", of, TRUE)
    BY <1>1, <1>3, <1>6 DEF ReadStreamed
  <2> QED
    BY <1>1, <1>2, <1>4, <1>5, <1>6, <2>1, LastFrameRead
<1>7. CASE Head(wire[c]).part # "end"
  <2>1. UNCHANGED <<pool, pc, conn, req, open, result>>
    BY <1>1, <1>7 DEF ReadStreamed, client
  <2>2. /\ UNCHANGED <<peer, sent, owed>> /\ wire' \in [Conns -> Seq(Frame)]
        /\ OtherLinksStay(c)
    BY <1>1, <1>2, FrameRead
  <2>3. Types' /\ OthersStay(t) /\ OtherResultsStay(r)
    BY <2>1, <2>2 DEF Inv, Types, OthersStay, OtherResultsStay
  <2>4. ASSUME Good(c) PROVE InStep(t)'
    <3>1. /\ IsRest(wire'[c] \o owed'[c], r, "streamed") /\ sent'[c] = <<>>
          /\ result[req[t]].of = req[t]
      BY <1>1, <1>3, <1>5, <1>7, <2>4
    <3> QED
      BY <1>1, <1>2, <2>1, <3>1 DEF InStep
  <2> QED
    BY <1>1, <1>2, <1>4, <2>1, <2>2, <2>3, <2>4, GoOnStep
<1> QED
  BY <1>6, <1>7

\* A head is read: of an empty answer, of one whose body follows, or not a head.
LEMMA ReadHeadKeeps ==
  ASSUME Inv, NEW t \in Tasks, ReadHead(t)
  PROVE  Inv'
<1>1. PICK c, r, f : c = conn[t] /\ r = req[t] /\ f = Head(wire[c])
  OBVIOUS
<1>2. /\ pc[t] = "head" /\ pc[t] \in Reading /\ pc[t] \in Sending /\ Arrived(t) /\ Consume(t)
  BY PlacesListed DEF ReadHead
<1>3. r \in Reqs /\ c \in Conns /\ result[r].outcome = "pending" /\ result[r].on = c
  BY <1>1, <1>2, SenderFacts
<1>4. /\ UNCHANGED <<peer, sent, owed>> /\ wire' \in [Conns -> Seq(Frame)]
      /\ OtherLinksStay(c) /\ f \in Frame
  BY <1>1, <1>2, FrameRead
<1>5. f.of \in Reqs
  BY <1>4, BodiesListed
<1>6. ASSUME Good(c)
      PROVE  /\ f.of = r /\ sent'[c] = <<>>
             /\ f.part = "none" => Tail(Left(c)) = <<>>
             /\ f.part \in {"fixed", "streamed"} => IsRest(wire'[c] \o owed'[c], r, f.part)
  <2>1. /\ IsRest(Left(c), r, "head") /\ Head(Left(c)) = f /\ sent'[c] = <<>>
        /\ wire'[c] \o owed'[c] = Tail(Left(c))
    BY <1>1, <1>2, <1>6, FrameRead
  <2>2. /\ Head(Left(c)).of = r
        /\ Head(Left(c)).part = "none" => Tail(Left(c)) = <<>>
        /\ Head(Left(c)).part \in {"fixed", "streamed"} =>
             IsRest(Tail(Left(c)), r, Head(Left(c)).part)
    BY <2>1, RestRead
  <2> QED
    BY <2>1, <2>2
<1>7. CASE f.part = "none"
  <2>1. Returns(t, "ok", f.of, TRUE)
    BY <1>1, <1>7 DEF ReadHead
  <2> QED
    BY <1>1, <1>2, <1>5, <1>6, <1>7, <2>1, LastFrameRead
<1>8. CASE f.part \in {"fixed", "streamed"}
  <2>1. PICK p : p = f.part
    OBVIOUS
  <2>2. /\ pc' = [pc EXCEPT ![t] = p] /\ result' = [result EXCEPT ![r].of = f.of]
        /\ UNCHANGED <<pool, conn, req, open>>
    BY <1>1, <1>8, <2>1 DEF ReadHead
  <2>3. p \in {"fixed", "streamed"} /\ p \in Reading /\ p \in Places /\ p # "head"
    BY <1>8, <2>1, PlacesListed
  <2>4. PICK x : x = [result[r] EXCEPT !.of = f.of]
    OBVIOUS
  <2>5. /\ x \in [outcome: Outcomes, of: Reqs \cup {None}, on: Conns \cup {None}]
        /\ x.outcome = "pending" /\ x.on = c /\ x.of = f.of
    BY <1>3, <1>5, <2>4 DEF Inv, Types
  <2>6. result' = [result EXCEPT ![r] = x]
    BY <2>2, <2>4
  <2>7. /\ Types' /\ OthersStay(t) /\ OtherResultsStay(r) /\ pc'[t] = p /\ result'[r] = x
    BY <1>3, <1>4, <2>2, <2>3, <2>5, <2>6 DEF Inv, Types, OthersStay, OtherResultsStay
  <2>8. ASSUME Good(c) PROVE InStep(t)'
    <3>1. IsRest(wire'[c] \o owed'[c], r, p) /\ sent'[c] = <<>> /\ f.of = r
      BY <1>6, <1>8, <2>1, <2>8
    <3> QED
      BY <1>1, <2>2, <2>5, <2>7, <3>1 DEF InStep
  <2> QED
    BY <1>1, <1>2, <1>3, <1>4, <2>2, <2>3, <2>5, <2>7, <2>8, GoOnStep
<1>9. CASE f.part \notin {"none", "fixed", "streamed"}
  <2>1. Returns(t, "error", None, FALSE)
    BY <1>1, <1>9 DEF ReadHead
  <2>2. sent' \in [Conns -> Seq(Reqs \cup {None})] /\ owed' \in [Conns -> Seq(Frame)]
    BY <1>4 DEF Inv, Types
  <2> QED
    BY <1>1, <1>2, <1>4, <2>1, <2>2, ReturnStep
<1> QED
  BY <1>7, <1>8, <1>9
-----------------------------------------------------------------------------
(* The steps of a peer. *)

\* An entry put before a queue.
LEMMA PutBefore ==
  ASSUME NEW S, NEW h \in S, NEW b \in Seq(S)
  PROVE  /\ <<h>> \o b \in Seq(S) /\ Len(<<h>> \o b) = 1 + Len(b)
         /\ \A i \in 1..(1 + Len(b)) : (<<h>> \o b)[i] = IF i = 1 THEN h ELSE b[i - 1]
<1>1. PICK a : a = <<h>>
  OBVIOUS
<1>2. a \in Seq(S) /\ Len(a) = 1 /\ a[1] = h /\ Len(b) \in Nat
  BY <1>1, LenProperties
<1>3. /\ a \o b \in Seq(S) /\ Len(a \o b) = Len(a) + Len(b)
      /\ \A i \in 1..(Len(a) + Len(b)) : (a \o b)[i] = IF i <= Len(a) THEN a[i] ELSE b[i - Len(a)]
  BY <1>2, ConcatProperties
<1>4. PICK n \in Nat : n = Len(b)
  BY <1>2
<1>5. ASSUME NEW i \in 1..(1 + n) PROVE (a \o b)[i] = IF i = 1 THEN h ELSE b[i - 1]
  <2>1. (a \o b)[i] = IF i <= 1 THEN a[i] ELSE b[i - 1]
    BY <1>2, <1>3, <1>4
  <2>2. i <= 1 <=> i = 1
    OBVIOUS
  <2> QED
    BY <1>2, <2>1, <2>2
<1> QED
  BY <1>1, <1>2, <1>3, <1>4, <1>5

\* Short queues.
LEMMA QueueOfTwo ==
  ASSUME NEW S, NEW h \in S, NEW d \in S
  PROVE  <<d>> \in Seq(S) /\ <<h>> \o <<d>> = <<h, d>>
<1>1. PICK b, q, x : b = <<d>> /\ q = <<h, d>> /\ x = <<h>> \o b
  OBVIOUS
<1>2. /\ b \in Seq(S) /\ q \in Seq(S) /\ Len(b) = 1 /\ b[1] = d
      /\ Len(q) = 2 /\ q[1] = h /\ q[2] = d
  BY <1>1
<1>3. /\ x \in Seq(S) /\ Len(x) = 2
      /\ \A i \in 1..2 : x[i] = IF i = 1 THEN h ELSE b[i - 1]
  BY <1>1, <1>2, PutBefore
<1>4. \A i \in 1..2 : x[i] = q[i]
  BY <1>2, <1>3
<1>5. x = q
  BY <1>2, <1>3, <1>4, SeqEqual
<1> QED
  BY <1>1, <1>2, <1>5

\* The same, of three.
LEMMA QueueOfThree ==
  ASSUME NEW S, NEW h \in S, NEW d \in S, NEW e \in S
  PROVE  <<d, e>> \in Seq(S) /\ <<h>> \o <<d, e>> = <<h, d, e>>
<1>1. PICK b, q, x : b = <<d, e>> /\ q = <<h, d, e>> /\ x = <<h>> \o b
  OBVIOUS
<1>2. /\ b \in Seq(S) /\ q \in Seq(S) /\ Len(b) = 2 /\ b[1] = d /\ b[2] = e
      /\ Len(q) = 3 /\ q[1] = h /\ q[2] = d /\ q[3] = e
  BY <1>1
<1>3. /\ x \in Seq(S) /\ Len(x) = 3
      /\ \A i \in 1..3 : x[i] = IF i = 1 THEN h ELSE b[i - 1]
  BY <1>1, <1>2, PutBefore
<1>4. \A i \in 1..3 : x[i] = q[i]
  BY <1>2, <1>3
<1>5. x = q
  BY <1>2, <1>3, <1>4, SeqEqual
<1> QED
  BY <1>1, <1>2, <1>5

\* The frames that follow a head, written out.
LEMMA BodyFrames ==
  ASSUME NEW r \in Reqs, NEW b \in DOMAIN Bodies, NEW o,
         o = [i \in DOMAIN Bodies[b] |-> [of |-> r, part |-> Bodies[b][i]]]
  PROVE  /\ o \in Seq(Frame) /\ FrameOf(r, b) \in Frame
         /\ IsRest(<<FrameOf(r, b)>> \o o, r, "head")
<1>1. \A p \in {"none", "fixed", "streamed", "garbage", "data", "end"} : FrameOf(r, p) \in Frame
  BY BodiesListed DEF FrameOf
<1>2. b \in {"none", "fixed", "streamed", "garbage"}
  BY BodiesListed
<1>3. CASE b \in {"none", "garbage"}
  <2>1. o = <<>>
    <3>1. Bodies[b] = <<>> /\ DOMAIN <<>> = {}
      BY <1>3, BodiesListed
    <3> QED
      BY <3>1
  <2>2. <<FrameOf(r, b)>> \o o = <<FrameOf(r, b)>>
    BY <2>1
  <2> QED
    BY <1>1, <1>3, <2>1, <2>2 DEF IsRest
<1>4. CASE b = "fixed"
  <2>1. o = <<FrameOf(r, "data")>>
    <3>1. PICK B, d : B = <<"data">> /\ d = FrameOf(r, "data")
      OBVIOUS
    <3>2. Bodies[b] = B /\ DOMAIN B = {1} /\ B[1] = "data"
      BY <1>4, <3>1, BodiesListed
    <3>3. o = [i \in {1} |-> d]
      BY <3>1, <3>2 DEF FrameOf
    <3>4. <<d>> = [i \in {1} |-> d]
      OBVIOUS
    <3> QED
      BY <3>1, <3>3, <3>4
  <2>2. <<FrameOf(r, b)>> \o o = <<FrameOf(r, "fixed"), FrameOf(r, "data")>> /\ o \in Seq(Frame)
    <3>1. PICK h \in Frame, d \in Frame : h = FrameOf(r, "fixed") /\ d = FrameOf(r, "data")
      BY <1>1
    <3>2. <<h>> \o <<d>> = <<h, d>> /\ <<d>> \in Seq(Frame)
      BY QueueOfTwo
    <3>3. o = <<d>> /\ FrameOf(r, b) = h
      BY <1>4, <2>1, <3>1
    <3>4. <<FrameOf(r, b)>> \o o = <<h, d>>
      BY <3>2, <3>3
    <3> QED
      BY <3>1, <3>2, <3>3, <3>4
  <2> QED
    BY <1>1, <1>4, <2>2 DEF IsRest
<1>5. CASE b = "streamed"
  <2>1. o = <<FrameOf(r, "data"), FrameOf(r, "end")>>
    <3>1. PICK B, d, e : B = <<"data", "end">> /\ d = FrameOf(r, "data") /\ e = FrameOf(r, "end")
      OBVIOUS
    <3>2. Bodies[b] = B /\ DOMAIN B = {1, 2} /\ B[1] = "data" /\ B[2] = "end"
      BY <1>5, <3>1, BodiesListed
    <3>3. o = [i \in {1, 2} |-> IF i = 1 THEN d ELSE e]
      BY <3>1, <3>2 DEF FrameOf
    <3>4. <<d, e>> = [i \in {1, 2} |-> IF i = 1 THEN d ELSE e]
      OBVIOUS
    <3> QED
      BY <3>1, <3>3, <3>4
  <2>2. /\ <<FrameOf(r, b)>> \o o =
             <<FrameOf(r, "streamed"), FrameOf(r, "data"), FrameOf(r, "end")>>
        /\ o \in Seq(Frame)
    <3>1. PICK h \in Frame, d \in Frame, e \in Frame :
            h = FrameOf(r, "streamed") /\ d = FrameOf(r, "data") /\ e = FrameOf(r, "end")
      BY <1>1
    <3>2. <<h>> \o <<d, e>> = <<h, d, e>> /\ <<d, e>> \in Seq(Frame)
      BY QueueOfThree
    <3> QED
      BY <1>5, <2>1, <3>1, <3>2
  <2> QED
    BY <1>1, <1>5, <2>2 DEF IsRest
<1> QED
  BY <1>2, <1>3, <1>4, <1>5

\* The peer answers the request that is read for.
LEMMA AnswerKeeps ==
  ASSUME Inv, NEW c \in Conns, NEW b \in DOMAIN Bodies, Answer(c, b)
  PROVE  Inv'
<1>1. PICK r : r = Head(sent[c])
  OBVIOUS
<1>2. PICK o : o = [i \in DOMAIN Bodies[b] |-> [of |-> r, part |-> Bodies[b][i]]]
  OBVIOUS
<1>3. /\ peer[c] = "up" /\ owed[c] = <<>> /\ sent[c] # <<>> /\ r # None
      /\ wire' = [wire EXCEPT ![c] = Append(wire[c], FrameOf(r, b))]
      /\ owed' = [owed EXCEPT ![c] = o] /\ sent' = [sent EXCEPT ![c] = Tail(sent[c])]
      /\ UNCHANGED peer /\ UNCHANGED client
  BY <1>1, <1>2 DEF Answer, FrameOf
<1>4. UNCHANGED <<pool, pc, conn, req, open, result>>
  BY <1>3 DEF client
<1>5. r \in Reqs /\ Tail(sent[c]) \in Seq(Reqs \cup {None})
  <2>1. sent[c] \in Seq(Reqs \cup {None})
    BY DEF Inv, Types
  <2>2. Head(sent[c]) \in Reqs \cup {None} /\ Tail(sent[c]) \in Seq(Reqs \cup {None})
    BY <1>3, <2>1, HeadAndTail
  <2> QED
    BY <1>1, <1>3, <2>2
<1>6. o \in Seq(Frame) /\ FrameOf(r, b) \in Frame /\ IsRest(<<FrameOf(r, b)>> \o o, r, "head")
  BY <1>2, <1>5, BodyFrames
<1>7. Append(wire[c], FrameOf(r, b)) \in Seq(Frame)
  BY <1>6, AppendProperties DEF Inv, Types
<1>8. /\ wire'[c] = Append(wire[c], FrameOf(r, b)) /\ owed'[c] = o /\ sent'[c] = Tail(sent[c])
      /\ Types' /\ OtherLinksStay(c)
  BY <1>3, <1>4, <1>5, <1>6, <1>7 DEF Inv, Types, OtherLinksStay
<1>9. ASSUME NEW t \in Tasks, pc[t] \in Reading, conn[t] = c, Good(c) PROVE InStep(t)'
  <2>1. InStep(t)
    BY <1>9 DEF Inv, Synchronized
  <2>2. pc[t] = "head" /\ sent[c] = <<req[t]>> /\ wire[c] = <<>>
    BY <1>3, <1>9, <2>1 DEF InStep
  <2>3. r = req[t] /\ sent'[c] = <<>> /\ wire'[c] = <<FrameOf(r, b)>>
    BY <1>1, <1>8, <2>2, ShortTails
  <2>4. IsRest(wire'[c] \o owed'[c], req[t], pc[t])
    BY <1>6, <1>8, <2>2, <2>3
  <2> QED
    BY <1>4, <1>9, <2>2, <2>3, <2>4 DEF InStep
<1>10. ASSUME Good(c), \A t \in Tasks : pc[t] \in Reading => conn[t] # c PROVE FALSE
  BY <1>3, <1>10 DEF Inv, Synchronized, Quiet
<1> QED
  BY <1>3, <1>8, <1>9, <1>10, PeerStep

\* The peer writes more of the answer: there is as much to read as before.
LEMMA WriteKeeps ==
  ASSUME Inv, NEW c \in Conns, Write(c)
  PROVE  Inv'
<1>1. PICK w \in Seq(Frame), o \in Seq(Frame) : w = wire[c] /\ o = owed[c]
  BY DEF Inv, Types
<1>2. /\ o # <<>> /\ wire' = [wire EXCEPT ![c] = Append(w, Head(o))]
      /\ owed' = [owed EXCEPT ![c] = Tail(o)] /\ UNCHANGED <<peer, sent>> /\ UNCHANGED client
  BY <1>1 DEF Write
<1>3. UNCHANGED <<pool, pc, conn, req, open, result>>
  BY <1>2 DEF client
<1>4. /\ Append(w, Head(o)) \in Seq(Frame) /\ Tail(o) \in Seq(Frame)
      /\ Append(w, Head(o)) \o Tail(o) = w \o o
  BY <1>2, WriteMoves
<1>5. /\ wire'[c] = Append(w, Head(o)) /\ owed'[c] = Tail(o) /\ Types' /\ OtherLinksStay(c)
  BY <1>2, <1>3, <1>4 DEF Inv, Types, OtherLinksStay
<1>6. ASSUME NEW t \in Tasks, pc[t] \in Reading, conn[t] = c, Good(c) PROVE InStep(t)'
  <2>1. InStep(t)
    BY <1>6 DEF Inv, Synchronized
  <2>2. /\ sent[c] = <<>> /\ IsRest(w \o o, req[t], pc[t])
        /\ pc[t] # "head" => result[req[t]].of = req[t]
    BY <1>1, <1>2, <1>6, <2>1 DEF InStep
  <2>3. wire'[c] \o owed'[c] = w \o o
    BY <1>4, <1>5
  <2> QED
    BY <1>2, <1>3, <1>6, <2>2, <2>3 DEF InStep
<1>7. ASSUME Good(c), \A t \in Tasks : pc[t] \in Reading => conn[t] # c PROVE FALSE
  BY <1>1, <1>2, <1>7 DEF Inv, Synchronized, Quiet
<1> QED
  BY <1>2, <1>5, <1>6, <1>7, PeerStep

\* The peer closes: what it wrote stays readable.
LEMMA CloseKeeps ==
  ASSUME Inv, NEW c \in Conns, Close(c)
  PROVE  Inv'
<1>1. /\ peer' = [peer EXCEPT ![c] = "closed"] /\ UNCHANGED <<sent, owed, wire>>
      /\ UNCHANGED client
  BY DEF Close
<1>2. UNCHANGED <<pool, pc, conn, req, open, result>>
  BY <1>1 DEF client
<1>3. /\ Types' /\ OtherLinksStay(c)
      /\ \A d \in Conns : peer[d] # "unborn" => peer'[d] # "unborn"
  BY <1>1, <1>2 DEF Inv, Types, OtherLinksStay
<1>4. ASSUME NEW t \in Tasks, pc[t] \in Reading, conn[t] = c, Good(c) PROVE InStep(t)'
  <2>1. InStep(t)
    BY <1>4 DEF Inv, Synchronized
  <2> QED
    BY <1>1, <1>2, <2>1 DEF InStep
<1>5. ASSUME Good(c), \A t \in Tasks : pc[t] \in Reading => conn[t] # c
      PROVE  sent'[c] = <<>> /\ owed'[c] = <<>> /\ wire'[c] = <<>>
  BY <1>1, <1>5 DEF Inv, Synchronized, Quiet
<1> QED
  BY <1>1, <1>3, <1>4, <1>5, PeerStep

\* A task's step of Http1Exchange keeps the invariant.
LEMMA TaskKeeps ==
  ASSUME Inv, NEW t \in Tasks,
         \/ Connect(t) \/ DialFailed(t) \/ Drop(t) \/ Cancel(t) \/ Poll(t)
         \/ \E c \in Conns : Dialled(t, c)
         \/ \E r \in Reqs : SendRequest(t, r)
  PROVE  Inv'
<1>1. CASE Poll(t)
  BY <1>1, FlushedKeeps, SendFailedKeeps, ReadHeadKeeps, HeadFailsKeeps, ReadFixedKeeps,
     FixedFailsKeeps, ReadStreamedKeeps, StreamedFailsKeeps DEF Poll
<1>2. CASE Connect(t) \/ DialFailed(t) \/ Drop(t) \/ Cancel(t)
  BY <1>2, ConnectKeeps, DialFailedKeeps, DropKeeps, CancelKeeps
<1>3. CASE \E c \in Conns : Dialled(t, c)
  BY <1>3, DialledKeeps
<1>4. CASE \E r \in Reqs : SendRequest(t, r)
  BY <1>4, SendRequestKeeps
<1> QED
  BY <1>1, <1>2, <1>3, <1>4

\* Every step of Http1Exchange does.
LEMMA NextKeeps ==
  ASSUME Inv, Next
  PROVE  Inv'
<1>1. CASE \E c \in Conns : Peer(c)
  BY <1>1, WriteKeeps, CloseKeeps, AnswerKeeps DEF Peer
<1>2. CASE \E t \in Tasks :
             \/ Connect(t) \/ DialFailed(t) \/ Drop(t) \/ Cancel(t) \/ Poll(t)
             \/ \E c \in Conns : Dialled(t, c)
             \/ \E r \in Reqs : SendRequest(t, r)
  BY <1>2, TaskKeeps
<1> QED
  BY <1>1, <1>2 DEF Next

\* A step of other variables.
LEMMA StutterKeeps ==
  ASSUME Inv, UNCHANGED vars
  PROVE  Inv'
<1>1. UNCHANGED <<pool, pc, conn, req, open, result, peer, sent, owed, wire>>
  BY DEF vars, client, link
<1>2. Types' /\ OneOwner' /\ OneSender' /\ ErrorsClose' /\ AnswersMatch'
  BY <1>1 DEF Inv, Types, OneOwner, OneSender, ErrorsClose, AnswersMatch, Had
<1>3. \A d : Good(d)' <=> Good(d)
  BY <1>1 DEF Good, Had
<1>4. \A u \in Tasks : Good(conn[u])' <=> Good(conn[u])
  BY <1>1 DEF Good, Had
<1>5. \A u \in Tasks : InStep(u)' <=> InStep(u)
  BY <1>1 DEF InStep
<1>6. \A d \in Conns : Quiet(d)' <=> Quiet(d)
  BY <1>1 DEF Quiet
<1>7. Synchronized'
  BY <1>1, <1>3, <1>4, <1>5, <1>6 DEF Inv, Synchronized
<1> QED
  BY <1>2, <1>7 DEF Inv

\* At first nothing is sent and nobody holds anything.
LEMMA InitEstablishes ==
  ASSUME Init
  PROVE  Inv
<1>1. /\ \A t \in Tasks : pc[t] = "out"
      /\ \A r \in Reqs : result[r].outcome = "unsent"
      /\ Elements(pool) = {} /\ NoRepeats(pool)
  BY DEF Init, Elements, NoRepeats
<1>2. Types
  <2>1. <<>> \in Seq(Conns) /\ <<>> \in Seq(Frame) /\ <<>> \in Seq(Reqs \cup {None})
    OBVIOUS
  <2>2. [outcome |-> "unsent", of |-> None, on |-> None]
          \in [outcome: Outcomes, of: Reqs \cup {None}, on: Conns \cup {None}]
    BY DEF Outcomes
  <2> QED
    BY <2>1, <2>2, PlacesListed DEF Init, Types
<1>3. OneOwner /\ OneSender
  BY <1>1, PlacesListed DEF OneOwner, OneSender
<1>4. ErrorsClose /\ AnswersMatch
  BY <1>1 DEF ErrorsClose, AnswersMatch
<1>5. Synchronized
  BY <1>1, PlacesListed DEF Synchronized, Init, Quiet
<1> QED
  BY <1>2, <1>3, <1>4, <1>5 DEF Inv

\* What the invariant says of a connection in the pool: no exchange on it returned an error,
\* and if none was cancelled or lost its body, nothing is on its way.
LEMMA PooledFacts ==
  ASSUME Inv
  PROVE  CleanWhenReused /\ AnswersMatch /\ ErrorsRetire
<1>1. \A c \in Elements(pool) : c \in Conns /\ c # None
  BY ElementOfSeq, LenProperties, ExchangeAssumption DEF Inv, Types, Elements
<1>2. ASSUME NEW c \in Elements(pool) PROVE Had(c, {"error"}) = {}
  <2>1. open[c]
    BY DEF Inv, OneOwner
  <2>2. ASSUME NEW r \in Reqs, result[r].on = c, result[r].outcome = "error" PROVE FALSE
    BY <1>1, <2>1, <2>2 DEF Inv, ErrorsClose
  <2> QED
    BY <2>2 DEF Had
<1>3. ASSUME NEW c \in Elements(pool), Had(c, {"cancelled", "body_error"}) = {}
      PROVE  sent[c] = <<>> /\ owed[c] = <<>> /\ wire[c] = <<>>
  <2>1. Good(c)
    BY <1>2, <1>3 DEF Good, Had
  <2>2. \A t \in Tasks : pc[t] \in Reading => conn[t] # c
    BY PlacesListed DEF Inv, OneOwner
  <2> QED
    BY <1>1, <2>1, <2>2 DEF Inv, Synchronized, Quiet
<1> QED
  BY <1>2, <1>3 DEF CleanWhenReused, ErrorsRetire, Inv
-----------------------------------------------------------------------------
(* HTTP/1.1 alone. *)

\* The invariant holds.
THEOREM Invariance == Spec => []Inv
<1>1. Init => Inv
  BY InitEstablishes
<1>2. Inv /\ [Next]_vars => Inv'
  BY NextKeeps, StutterKeeps
<1> QED
  BY <1>1, <1>2, PTL DEF Spec

\* The places of Http1Exchange alone.
Http1Places == Sending \cup {"out", "dialling", "ready"}

\* No step of Http1Exchange leaves them.
LEMMA PlacesKept ==
  ASSUME Types, pc \in [Tasks -> Http1Places], [Next]_vars
  PROVE  pc' \in [Tasks -> Http1Places]
<1>1. Http1Places = {"sending", "head", "fixed", "streamed", "out", "dialling", "ready"}
  BY PlacesListed DEF Http1Places
<1>2. ASSUME NEW t \in Tasks, NEW s \in Http1Places, pc' = [pc EXCEPT ![t] = s]
      PROVE  pc' \in [Tasks -> Http1Places]
  BY <1>2
<1>3. CASE UNCHANGED pc
  BY <1>3
<1>4. CASE Next
  <2>1. CASE \E c \in Conns : Peer(c)
    BY <2>1 DEF Peer, Answer, Write, Close, client
  <2>2. ASSUME NEW t \in Tasks, Connect(t) \/ DialFailed(t) \/ Drop(t) PROVE pc' \in [Tasks -> Http1Places]
    BY <1>1, <1>2, <2>2 DEF Connect, DialFailed, Drop
  <2>3. ASSUME NEW t \in Tasks, Cancel(t) PROVE pc' \in [Tasks -> Http1Places]
    BY <1>1, <1>2, <2>3 DEF Cancel, Returns
  <2>4. ASSUME NEW t \in Tasks, Poll(t) PROVE pc' \in [Tasks -> Http1Places]
    <3>1. CASE ReadHead(t)
      BY <1>1, <1>2, <3>1 DEF ReadHead, Returns
    <3>2. CASE Flushed(t) \/ SendFailed(t) \/ HeadFails(t) \/ ReadFixed(t)
      BY <1>1, <1>2, <3>2 DEF Flushed, SendFailed, HeadFails, ReadFixed, Returns
    <3>3. CASE FixedFails(t) \/ ReadStreamed(t) \/ StreamedFails(t)
      BY <1>1, <1>2, <3>3 DEF FixedFails, ReadStreamed, StreamedFails, Returns, client
    <3> QED
      BY <2>4, <3>1, <3>2, <3>3 DEF Poll
  <2>5. ASSUME NEW t \in Tasks, NEW c \in Conns, Dialled(t, c) PROVE pc' \in [Tasks -> Http1Places]
    BY <1>1, <1>2, <2>5 DEF Dialled
  <2>6. ASSUME NEW t \in Tasks, NEW r \in Reqs, SendRequest(t, r) PROVE pc' \in [Tasks -> Http1Places]
    BY <1>1, <1>2, <2>6 DEF SendRequest
  <2> QED
    BY <1>4, <2>1, <2>2, <2>3, <2>4, <2>5, <2>6 DEF Next
<1> QED
  BY <1>3, <1>4 DEF vars, client

\* The types of the variables of Http1Exchange.
THEOREM TypeCorrectness == Spec => []TypeOK
<1> DEFINE P == pc \in [Tasks -> Http1Places]
<1>1. Init => P
  BY DEF Init, Http1Places
<1>2. Inv /\ P /\ [Next]_vars => P'
  BY PlacesKept DEF Inv
<1>3. Inv /\ P => TypeOK
  BY DEF Inv, Types, TypeOK, Http1Places
<1> HIDE DEF P
<1> QED
  BY <1>1, <1>2, <1>3, Invariance, PTL DEF Spec

\* A connection on which every exchange ran to its end goes back to the pool clean: what
\* send_request leaves unread or unanswered is left by a cancellation or a failed body only.
THEOREM CleanReuse == Spec => []CleanWhenReused
<1>1. Inv => CleanWhenReused
  BY PooledFacts
<1> QED
  BY <1>1, Invariance, PTL

\* On a connection on which nothing went wrong before, send_request returns the answer to its
\* own request.
THEOREM Answers == Spec => []AnswersMatch
<1>1. Inv => AnswersMatch
  BY DEF Inv
<1> QED
  BY <1>1, Invariance, PTL

\* A connection on which send_request returned an error is never in the pool again.
THEOREM Retired == Spec => []ErrorsRetire
<1>1. Inv => ErrorsRetire
  BY PooledFacts
<1> QED
  BY <1>1, Invariance, PTL
-----------------------------------------------------------------------------
(* Both protocols side by side: what HTTP/2 does leaves the connections of HTTP/1.1 alone. *)

\* A step of an HTTP/2 exchange of r0, whose result is of no HTTP/1.1 connection.
LEMMA StreamTaskStep ==
  ASSUME Inv, Types', NEW t \in Tasks, OthersStay(t), NEW r0 \in Reqs, OtherResultsStay(r0),
         UNCHANGED <<pool, conn, open, peer, sent, owed, wire>>,
         pc[t] \notin Holding, pc'[t] \notin Holding,
         result[r0].outcome \in {"unsent", "pending"}, result'[r0].on = None,
         \A u \in Tasks \ {t} : pc[u] \in Sending \cup SendingH2 => req[u] # r0,
         pc'[t] \in SendingH2 => req'[t] = r0 /\ result'[r0].outcome = "pending",
         result'[r0].outcome = "ok" => result'[r0].of = r0
  PROVE  Inv'
<1>1. \A u \in Tasks \ {t} : pc'[u] = pc[u] /\ req'[u] = req[u]
  BY DEF OthersStay
<1>2. OneOwner /\ OneSender
  BY DEF Inv
<1>3. /\ pc'[t] \notin Sending /\ pc[t] \notin Sending /\ pc'[t] \notin Reading
      /\ pc[t] \notin Reading /\ Reading \subseteq Sending
  BY PlacesListed
<1>4. ASSUME NEW u \in Tasks, pc'[u] \in Holding PROVE pc[u] \in Holding
  BY <1>1, <1>4
<1>5. OneOwner'
  BY <1>2, <1>4 DEF OneOwner
<1>6. ASSUME NEW u \in Tasks, u # t, pc'[u] \in Sending \cup SendingH2
      PROVE  /\ pc[u] = pc'[u] /\ req'[u] = req[u]
             /\ req[u] \in Reqs /\ req[u] # r0 /\ result'[req[u]] = result[req[u]]
  <2>1. pc[u] = pc'[u] /\ req'[u] = req[u]
    BY <1>1, <1>6
  <2>2. req[u] \in Reqs /\ req[u] # r0
    BY <1>2, <1>6, <2>1 DEF OneSender
  <2> QED
    BY <2>1, <2>2 DEF OtherResultsStay
<1>7. OneSender'
  <2>1. ASSUME NEW u \in Tasks, pc'[u] \in Sending \cup SendingH2
        PROVE  /\ req'[u] \in Reqs
               /\ result'[req'[u]].outcome = "pending"
               /\ result'[req'[u]].on = IF pc'[u] \in Sending THEN conn'[u] ELSE None
    <3>1. CASE u = t
      BY <1>3, <2>1, <3>1
    <3>2. CASE u # t
      <4>1. /\ pc[u] = pc'[u] /\ req'[u] = req[u]
            /\ req[u] \in Reqs /\ result'[req[u]] = result[req[u]]
        BY <1>6, <2>1, <3>2
      <4>2. /\ result[req[u]].outcome = "pending"
            /\ result[req[u]].on = IF pc[u] \in Sending THEN conn[u] ELSE None
        BY <1>2, <2>1, <4>1 DEF OneSender
      <4> QED
        BY <4>1, <4>2
    <3> QED
      BY <3>1, <3>2
  <2>2. ASSUME NEW v \in Tasks, NEW u \in Tasks, pc'[v] \in Sending \cup SendingH2,
               pc'[u] \in Sending \cup SendingH2, req'[v] = req'[u]
        PROVE  v = u
    <3>1. CASE u = t \/ v = t
      BY <1>3, <1>6, <2>2, <3>1
    <3>2. CASE u # t /\ v # t
      <4>1. pc[u] = pc'[u] /\ req'[u] = req[u] /\ pc[v] = pc'[v] /\ req'[v] = req[v]
        BY <1>6, <2>2, <3>2
      <4> QED
        BY <1>2, <2>2, <4>1 DEF OneSender
    <3> QED
      BY <3>1, <3>2
  <2> QED
    BY <2>1, <2>2 DEF OneSender
<1>8. ErrorsClose'
  <2>1. ASSUME NEW r \in Reqs, result'[r].outcome = "error", result'[r].on # None
        PROVE  ~open'[result'[r].on]
    BY <2>1 DEF Inv, ErrorsClose, OtherResultsStay
  <2> QED
    BY <2>1 DEF ErrorsClose
<1>9. ASSUME NEW d, Good(d)' PROVE Good(d)
  BY <1>9, GoodBefore
<1>10. AnswersMatch'
  <2>1. ASSUME NEW r \in Reqs, result'[r].outcome = "ok", NEW d, d = result'[r].on, Good(d)'
        PROVE  result'[r].of = r
    <3>1. CASE r = r0
      BY <2>1, <3>1
    <3>2. CASE r # r0
      BY <1>9, <2>1, <3>2 DEF Inv, AnswersMatch, Good, OtherResultsStay
    <3> QED
      BY <3>1, <3>2
  <2> QED
    BY <2>1 DEF AnswersMatch, Good, Had
<1>11. Synchronized'
  <2>1. ASSUME NEW u \in Tasks, pc'[u] \in Reading, Good(conn[u])' PROVE InStep(u)'
    <3>1. u # t /\ pc'[u] \in Sending
      BY <1>3, <2>1
    <3>2. /\ pc[u] = pc'[u] /\ req'[u] = req[u] /\ result'[req[u]] = result[req[u]]
      BY <1>6, <3>1
    <3>3. Good(conn[u])
      <4>1. PICK d : d = conn[u]
        OBVIOUS
      <4>2. Good(d)'
        BY <2>1, <4>1 DEF Good, Had
      <4> QED
        BY <1>9, <4>1, <4>2
    <3>4. InStep(u)
      BY <2>1, <3>2, <3>3 DEF Inv, Synchronized
    <3> QED
      BY <3>2, <3>4 DEF InStep
  <2>2. ASSUME NEW d \in Conns, Good(d)', \A u \in Tasks : pc'[u] \in Reading => conn'[u] # d
        PROVE  Quiet(d)'
    <3>1. \A u \in Tasks : pc[u] \in Reading => conn[u] # d
      BY <1>1, <1>3, <2>2
    <3>2. Quiet(d)
      BY <1>9, <2>2, <3>1 DEF Inv, Synchronized
    <3> QED
      BY <3>2 DEF Quiet
  <2> QED
    BY <2>1, <2>2 DEF Synchronized
<1> QED
  BY <1>5, <1>7, <1>8, <1>10, <1>11 DEF Inv

\* What a task that is sending on a stream has.
LEMMA StreamSenderFacts ==
  ASSUME Inv, NEW t \in Tasks, pc[t] \in SendingH2
  PROVE  /\ req[t] \in Reqs /\ result[req[t]].outcome = "pending" /\ result[req[t]].on = None
         /\ pc[t] \notin Holding /\ "shared" \notin Holding /\ "shared" \notin SendingH2
         /\ \A u \in Tasks \ {t} : pc[u] \in Sending \cup SendingH2 => req[u] # req[t]
BY PlacesListed DEF Inv, OneSender

\* An exchange of HTTP/2 goes on.
LEMMA StreamGoesOn ==
  ASSUME Inv, NEW t \in Tasks, pc[t] \in SendingH2, NEW s \in SendingH2,
         pc' = [pc EXCEPT ![t] = s],
         UNCHANGED <<pool, conn, req, open, result, peer, sent, owed, wire>>
  PROVE  Inv'
<1>1. PICK r0 \in Reqs : r0 = req[t]
  BY StreamSenderFacts
<1>2. /\ s \in Places /\ s \notin Holding /\ pc[t] \notin Holding
  BY PlacesListed
<1>3. /\ Types' /\ OthersStay(t) /\ OtherResultsStay(r0) /\ pc'[t] = s
  BY <1>2 DEF Inv, Types, OthersStay, OtherResultsStay
<1>4. /\ result[r0].outcome = "pending" /\ result[r0].on = None
      /\ \A u \in Tasks \ {t} : pc[u] \in Sending \cup SendingH2 => req[u] # r0
  BY <1>1, StreamSenderFacts
<1> QED
  BY <1>1, <1>2, <1>3, <1>4, StreamTaskStep

\* An exchange of HTTP/2 ends.
LEMMA StreamReturns ==
  ASSUME Inv, NEW t \in Tasks, pc[t] \in SendingH2, NEW outcome \in {"ok", "error", "cancelled"},
         NEW of \in Reqs \cup {None}, ReturnsH2(t, outcome, of), outcome = "ok" => of = req[t]
  PROVE  Inv'
<1>1. PICK r0 \in Reqs : r0 = req[t]
  BY StreamSenderFacts
<1>2. PICK x : x = [outcome |-> outcome, of |-> of, on |-> None]
  OBVIOUS
<1>3. /\ x.outcome = outcome /\ x.of = of /\ x.on = None
      /\ x \in [outcome: Outcomes, of: Reqs \cup {None}, on: Conns \cup {None}]
  BY <1>2 DEF Outcomes
<1>4. /\ result' = [result EXCEPT ![r0] = x] /\ pc' = [pc EXCEPT ![t] = "shared"]
      /\ req' = [req EXCEPT ![t] = None]
      /\ UNCHANGED <<pool, conn, open, peer, sent, owed, wire>>
  BY <1>1, <1>2 DEF ReturnsH2, link
<1>5. /\ Types' /\ OthersStay(t) /\ OtherResultsStay(r0) /\ pc'[t] = "shared" /\ result'[r0] = x
  BY <1>3, <1>4, PlacesListed DEF Inv, Types, OthersStay, OtherResultsStay
<1>6. /\ result[r0].outcome = "pending" /\ pc[t] \notin Holding /\ "shared" \notin Holding
      /\ "shared" \notin SendingH2
      /\ \A u \in Tasks \ {t} : pc[u] \in Sending \cup SendingH2 => req[u] # r0
  BY <1>1, StreamSenderFacts
<1> QED
  BY <1>1, <1>3, <1>4, <1>5, <1>6, StreamTaskStep

\* Every step of HTTP/2 keeps the invariant of HTTP/1.1.
LEMMA StreamsKeep ==
  ASSUME Inv, NextH2
  PROVE  Inv'
<1>1. OneOwner
  BY DEF Inv
<1>2. ASSUME NEW t \in Tasks, ConnectH2(t) \/ DropH2(t) PROVE Inv'
  <2>1. PICK s \in {"out", "shared"} : pc' = [pc EXCEPT ![t] = s]
    BY <1>2 DEF ConnectH2, DropH2
  <2>2. /\ pc[t] \in {"out", "shared"}
        /\ UNCHANGED <<pool, conn, req, open, result, peer, sent, owed, wire>>
    BY <1>2 DEF ConnectH2, DropH2, link
  <2>3. /\ Types' /\ OthersStay(t) /\ pc'[t] = s /\ s # "ready"
        /\ pc[t] \notin Sending \cup SendingH2 /\ s \notin Sending \cup SendingH2
    BY <2>1, <2>2, PlacesListed DEF Inv, Types, OthersStay
  <2>4. /\ NoRepeats(pool') /\ \A d \in Elements(pool') : open[d] /\ peer'[d] # "unborn"
        /\ \A u \in Tasks \ {t} : pc[u] \in Holding => conn[u] \notin Elements(pool')
        /\ \A d \in Conns : peer[d] # "unborn" => peer'[d] # "unborn"
    BY <1>1, <2>2 DEF OneOwner
  <2> QED
    BY <2>2, <2>3, <2>4, HandleStep
<1>3. ASSUME NEW t \in Tasks, CancelH2(t) \/ OpenFails(t) \/ SendDataFails(t) \/ BodyFails(t)
                                \/ ResponseFails(t)
      PROVE  Inv'
  <2>1. pc[t] \in SendingH2
    BY <1>3, PlacesListed DEF CancelH2, OpenFails, SendDataFails, BodyFails, ResponseFails
  <2>2. ReturnsH2(t, "cancelled", None) \/ ReturnsH2(t, "error", None)
    BY <1>3 DEF CancelH2, OpenFails, SendDataFails, BodyFails, ResponseFails
  <2> QED
    BY <2>1, <2>2, StreamReturns
<1>4. ASSUME NEW t \in Tasks, Response(t) PROVE Inv'
  <2>1. pc[t] \in SendingH2
    BY <1>4, PlacesListed DEF Response
  <2>2. PICK of \in Reqs : of = req[t]
    BY <2>1, StreamSenderFacts
  <2>3. ReturnsH2(t, "ok", of)
    BY <1>4, <2>2 DEF Response
  <2> QED
    BY <2>1, <2>2, <2>3, StreamReturns
<1>5. ASSUME NEW t \in Tasks, Opened(t) \/ BodyEnds(t) PROVE Inv'
  <2>1. PICK s \in {"body", "response"} : pc' = [pc EXCEPT ![t] = s]
    BY <1>5 DEF Opened, BodyEnds
  <2>2. /\ pc[t] \in SendingH2 /\ s \in SendingH2
        /\ UNCHANGED <<pool, conn, req, open, result, peer, sent, owed, wire>>
    BY <1>5, PlacesListed DEF Opened, BodyEnds, link
  <2> QED
    BY <2>1, <2>2, StreamGoesOn
<1>6. ASSUME NEW t \in Tasks, NEW r0 \in Reqs, SendRequestH2(t, r0) PROVE Inv'
  <2>1. PICK x : x = [outcome |-> "pending", of |-> None, on |-> None]
    OBVIOUS
  <2>2. /\ x.outcome = "pending" /\ x.on = None
        /\ x \in [outcome: Outcomes, of: Reqs \cup {None}, on: Conns \cup {None}]
    BY <2>1 DEF Outcomes
  <2>3. /\ pc[t] = "shared" /\ result[r0].outcome = "unsent"
        /\ result' = [result EXCEPT ![r0] = x] /\ pc' = [pc EXCEPT ![t] = "opening"]
        /\ req' = [req EXCEPT ![t] = r0]
        /\ UNCHANGED <<pool, conn, open, peer, sent, owed, wire>>
    BY <1>6, <2>1 DEF SendRequestH2, link
  <2>4. /\ Types' /\ OthersStay(t) /\ OtherResultsStay(r0) /\ pc'[t] = "opening"
        /\ req'[t] = r0 /\ result'[r0] = x
    BY <2>2, <2>3, PlacesListed DEF Inv, Types, OthersStay, OtherResultsStay
  <2>5. \A u \in Tasks \ {t} : pc[u] \in Sending \cup SendingH2 => req[u] # r0
    BY <2>3 DEF Inv, OneSender
  <2>6. pc[t] \notin Holding /\ pc'[t] \notin Holding
    BY <2>3, <2>4, PlacesListed
  <2> QED
    BY <2>2, <2>3, <2>4, <2>5, <2>6, StreamTaskStep
<1>7. CASE UNCHANGED vars
  BY <1>7, StutterKeeps
<1>8. ASSUME NEW t \in Tasks, PollH2(t) PROVE Inv'
  BY <1>3, <1>4, <1>5, <1>8 DEF PollH2
<1>9. ASSUME NEW t \in Tasks, NEW r \in Reqs, ReadBody(t, r) \/ DropBody(t, r) PROVE UNCHANGED vars
  BY <1>9 DEF ReadBody, DropBody
<1>10. ASSUME NEW r \in Reqs, Admit(r) \/ Respond(r) \/ EndResponse(r) \/ Reset(r)
       PROVE  UNCHANGED vars
  BY <1>10 DEF Admit, Respond, EndResponse, Reset, StreamStep
<1>11. ConnError => UNCHANGED vars
  BY DEF ConnError
<1> QED
  BY <1>2, <1>3, <1>6, <1>7, <1>8, <1>9, <1>10, <1>11 DEF NextH2

\* The streams that count, or wait to, have an owner; one on which the response has come may
\* be held by its reader alone.
Accounted ==
  /\ stream \in [Reqs -> StreamStates]
  /\ reader \in [Reqs -> Tasks \cup {None}]
  /\ \A r \in Reqs : stream[r] \in {"queued", "open"} => Sender(r) # {}
  /\ \A r \in Reqs : stream[r] = "answered" => Sender(r) # {} \/ reader[r] # None

\* Senders that keep sending.
LEMMA SendersStay ==
  ASSUME NEW r, \A u \in Tasks : pc[u] \in SendingH2 /\ req[u] = r
                                   => pc'[u] \in SendingH2 /\ req'[u] = r,
         Sender(r) # {}
  PROVE  Sender(r)' # {}
<1>1. PICK u \in Tasks : pc[u] \in SendingH2 /\ req[u] = r
  BY DEF Sender
<1> QED
  BY <1>1 DEF Sender

\* A step on the stream of one request.
LEMMA AccountStep ==
  ASSUME Accounted, NEW r0 \in Reqs, stream' \in [Reqs -> StreamStates],
         reader' \in [Reqs -> Tasks \cup {None}],
         \A r \in Reqs \ {r0} : /\ stream'[r] = stream[r] /\ reader'[r] = reader[r]
                                /\ Sender(r) # {} => Sender(r)' # {},
         stream'[r0] \in {"queued", "open"} => Sender(r0)' # {},
         stream'[r0] = "answered" => Sender(r0)' # {} \/ reader'[r0] # None
  PROVE  Accounted'
<1>1. ASSUME NEW r \in Reqs
      PROVE  /\ stream'[r] \in {"queued", "open"} => Sender(r)' # {}
             /\ stream'[r] = "answered" => Sender(r)' # {} \/ reader'[r] # None
  <2>1. CASE r = r0
    BY <2>1
  <2>2. CASE r # r0
    BY <2>2 DEF Accounted
  <2> QED
    BY <2>1, <2>2
<1> QED
  BY <1>1 DEF Accounted

\* No step on any stream.
LEMMA AccountStays ==
  ASSUME Accounted, UNCHANGED <<stream, reader>>,
         \A u \in Tasks : pc[u] \in SendingH2 => pc'[u] \in SendingH2 /\ req'[u] = req[u]
  PROVE  Accounted'
<1>1. ASSUME NEW r, Sender(r) # {} PROVE Sender(r)' # {}
  BY <1>1, SendersStay
<1> QED
  BY <1>1 DEF Accounted

\* A step of Http1Exchange is no step of a task that sends on a stream.
LEMMA Http1LeavesSenders ==
  ASSUME Types, Next
  PROVE  \A u \in Tasks : pc[u] \in SendingH2 => pc'[u] \in SendingH2 /\ req'[u] = req[u]
<1>1. ASSUME NEW t \in Tasks, pc[t] \notin SendingH2, OthersStay(t)
      PROVE  \A u \in Tasks : pc[u] \in SendingH2 => pc'[u] \in SendingH2 /\ req'[u] = req[u]
  BY <1>1 DEF OthersStay
<1>2. ASSUME NEW t \in Tasks, Connect(t) \/ DialFailed(t) \/ Drop(t)
      PROVE  pc[t] \notin SendingH2 /\ OthersStay(t)
  BY <1>2, PlacesListed DEF Connect, DialFailed, Drop, Types, OthersStay
<1>3. ASSUME NEW t \in Tasks, NEW o, NEW of, NEW st, Returns(t, o, of, st) PROVE OthersStay(t)
  BY <1>3 DEF Returns, Types, OthersStay
<1>4. ASSUME NEW t \in Tasks, Poll(t) \/ Cancel(t)
      PROVE  pc[t] \notin SendingH2 /\ OthersStay(t)
  <2>1. pc[t] \in Sending
    BY <1>4, PlacesListed
       DEF Poll, Cancel, Flushed, SendFailed, ReadHead, HeadFails, ReadFixed, FixedFails,
           ReadStreamed, StreamedFails
  <2>2. pc[t] \notin SendingH2
    BY <2>1, PlacesListed
  <2>3. CASE Flushed(t)
    BY <2>2, <2>3 DEF Flushed, Types, OthersStay
  <2>4. CASE ReadHead(t)
    <3>1. CASE \E o, of, st : Returns(t, o, of, st)
      BY <1>3, <2>2, <3>1
    <3>2. CASE \E s : pc' = [pc EXCEPT ![t] = s] /\ UNCHANGED <<conn, req>>
      BY <2>2, <3>2 DEF Types, OthersStay
    <3> QED
      BY <2>4, <3>1, <3>2 DEF ReadHead
  <2>5. CASE ReadStreamed(t)
    <3>1. CASE \E o, of, st : Returns(t, o, of, st)
      BY <1>3, <2>2, <3>1
    <3>2. CASE UNCHANGED client
      BY <2>2, <3>2 DEF client, OthersStay
    <3> QED
      BY <2>5, <3>1, <3>2 DEF ReadStreamed
  <2>6. CASE SendFailed(t) \/ HeadFails(t) \/ ReadFixed(t) \/ FixedFails(t) \/ StreamedFails(t)
               \/ Cancel(t)
    BY <1>3, <2>2, <2>6 DEF SendFailed, HeadFails, ReadFixed, FixedFails, StreamedFails, Cancel
  <2> QED
    BY <1>4, <2>3, <2>4, <2>5, <2>6 DEF Poll
<1>5. ASSUME NEW t \in Tasks, NEW c \in Conns, Dialled(t, c)
      PROVE  pc[t] \notin SendingH2 /\ OthersStay(t)
  BY <1>5, PlacesListed DEF Dialled, Types, OthersStay
<1>6. ASSUME NEW t \in Tasks, NEW r \in Reqs, SendRequest(t, r)
      PROVE  pc[t] \notin SendingH2 /\ OthersStay(t)
  BY <1>6, PlacesListed DEF SendRequest, Types, OthersStay
<1>7. ASSUME NEW c \in Conns, Peer(c)
      PROVE  UNCHANGED <<pc, req>>
  BY <1>7 DEF Peer, Write, Close, Answer, client
<1> QED
  BY <1>1, <1>2, <1>4, <1>5, <1>6, <1>7 DEF Next

\* send_request returns before it has the response: its stream goes with it.
LEMMA DroppedAccounted ==
  ASSUME Inv, Accounted, NEW t \in Tasks, pc[t] \in SendingH2, NEW outcome, NEW of,
         ReturnsH2(t, outcome, of), DropStream(req[t])
  PROVE  Accounted'
<1>1. PICK r0 \in Reqs : r0 = req[t]
  BY StreamSenderFacts
<1>2. /\ pc' = [pc EXCEPT ![t] = "shared"] /\ req' = [req EXCEPT ![t] = None]
      /\ stream' = [stream EXCEPT ![r0] = IF stream[r0] = "none" THEN stream[r0] ELSE "reset"]
      /\ UNCHANGED reader
  BY <1>1 DEF ReturnsH2, DropStream
<1>3. OthersStay(t)
  BY <1>2 DEF Inv, Types, OthersStay, ReturnsH2
<1>4. ASSUME NEW r \in Reqs \ {r0}, Sender(r) # {} PROVE Sender(r)' # {}
  BY <1>1, <1>3, <1>4, SendersStay DEF OthersStay
<1>5. /\ stream' \in [Reqs -> StreamStates] /\ stream'[r0] \in {"none", "reset"}
      /\ \A r \in Reqs \ {r0} : stream'[r] = stream[r]
  BY <1>2 DEF Accounted, StreamStates
<1>6. reader' \in [Reqs -> Tasks \cup {None}]
  BY <1>2 DEF Accounted
<1> QED
  BY <1>2, <1>4, <1>5, <1>6, AccountStep

\* A step of the library, the peer or the reader of one stream.
LEMMA StreamAccounted ==
  ASSUME Accounted, NEW r0 \in Reqs, NEW s \in StreamStates, stream' = [stream EXCEPT ![r0] = s],
         UNCHANGED <<pc, req>>, NEW w \in Tasks \cup {None}, reader' = [reader EXCEPT ![r0] = w],
         s \in {"queued", "open"} => Sender(r0) # {},
         s = "answered" => Sender(r0) # {} \/ w # None
  PROVE  Accounted'
<1>1. ASSUME NEW r, Sender(r) # {} PROVE Sender(r)' # {}
  BY <1>1, SendersStay
<1>2. /\ stream' \in [Reqs -> StreamStates] /\ reader' \in [Reqs -> Tasks \cup {None}]
      /\ stream'[r0] = s /\ reader'[r0] = w
      /\ \A r \in Reqs \ {r0} : stream'[r] = stream[r] /\ reader'[r] = reader[r]
  BY DEF Accounted
<1> QED
  BY <1>1, <1>2, AccountStep

\* Every step of HTTP/2 keeps the account.
LEMMA StreamsAccounted ==
  ASSUME Inv, Accounted, NextH2
  PROVE  Accounted'
<1>1. ASSUME NEW t \in Tasks, CancelH2(t) \/ OpenFails(t) \/ SendDataFails(t) \/ BodyFails(t)
                                \/ ResponseFails(t)
      PROVE  Accounted'
  <2>1. pc[t] \in SendingH2 /\ DropStream(req[t])
    BY <1>1, PlacesListed DEF CancelH2, OpenFails, SendDataFails, BodyFails, ResponseFails
  <2>2. ReturnsH2(t, "cancelled", None) \/ ReturnsH2(t, "error", None)
    BY <1>1 DEF CancelH2, OpenFails, SendDataFails, BodyFails, ResponseFails
  <2> QED
    BY <2>1, <2>2, DroppedAccounted
<1>2. ASSUME NEW t \in Tasks, Response(t) PROVE Accounted'
  <2>1. pc[t] \in SendingH2
    BY <1>2, PlacesListed DEF Response
  <2>2. PICK r0 \in Reqs : r0 = req[t]
    BY <2>1, StreamSenderFacts
  <2>3. /\ stream[r0] \in {"answered", "ended", "cut"} /\ UNCHANGED stream
        /\ reader' = [reader EXCEPT ![r0] = IF stream[r0] = "answered" THEN t ELSE None]
        /\ pc' = [pc EXCEPT ![t] = "shared"] /\ req' = [req EXCEPT ![t] = None]
        /\ UNCHANGED conn
    BY <1>2, <2>2 DEF Response, ReturnsH2
  <2>4. OthersStay(t)
    BY <2>3 DEF Inv, Types, OthersStay
  <2>5. ASSUME NEW r \in Reqs \ {r0}, Sender(r) # {} PROVE Sender(r)' # {}
    BY <2>2, <2>4, <2>5, SendersStay DEF OthersStay
  <2>6. /\ reader' \in [Reqs -> Tasks \cup {None}] /\ stream' \in [Reqs -> StreamStates]
        /\ \A r \in Reqs \ {r0} : stream'[r] = stream[r] /\ reader'[r] = reader[r]
        /\ stream'[r0] \notin {"queued", "open"}
        /\ stream'[r0] = "answered" => reader'[r0] = t
    BY <2>3 DEF Accounted
  <2>7. t # None
    BY ExchangeAssumption
  <2> QED
    BY <2>5, <2>6, <2>7, AccountStep
<1>3. ASSUME NEW t \in Tasks, Opened(t) PROVE Accounted'
  <2>1. pc[t] \in SendingH2 /\ "body" \in SendingH2 /\ "queued" \in StreamStates
    BY <1>3, PlacesListed DEF Opened, StreamStates
  <2>2. PICK r0 \in Reqs : r0 = req[t]
    BY <2>1, StreamSenderFacts
  <2>3. /\ stream' = [stream EXCEPT ![r0] = "queued"] /\ pc' = [pc EXCEPT ![t] = "body"]
        /\ UNCHANGED <<req, reader>>
    BY <1>3, <2>2 DEF Opened
  <2>4. /\ pc'[t] = "body" /\ \A u \in Tasks \ {t} : pc'[u] = pc[u]
    BY <2>3 DEF Inv, Types
  <2>5. ASSUME NEW r, Sender(r) # {} PROVE Sender(r)' # {}
    BY <2>1, <2>3, <2>4, <2>5, SendersStay
  <2>6. Sender(r0)' # {}
    BY <2>1, <2>2, <2>3, <2>4 DEF Sender
  <2>7. /\ reader' \in [Reqs -> Tasks \cup {None}] /\ stream' \in [Reqs -> StreamStates]
        /\ \A r \in Reqs \ {r0} : stream'[r] = stream[r] /\ reader'[r] = reader[r]
    BY <2>1, <2>3 DEF Accounted
  <2> QED
    BY <2>5, <2>6, <2>7, AccountStep
<1>4. ASSUME NEW t \in Tasks, ConnectH2(t) \/ DropH2(t) \/ BodyEnds(t) PROVE Accounted'
  <2>1. UNCHANGED <<stream, reader, req>>
    BY <1>4 DEF ConnectH2, DropH2, BodyEnds, h2Vars
  <2>2. \A u \in Tasks : pc[u] \in SendingH2 => pc'[u] \in SendingH2
    BY <1>4, PlacesListed DEF ConnectH2, DropH2, BodyEnds, Inv, Types
  <2> QED
    BY <2>1, <2>2, AccountStays
<1>5. ASSUME NEW t \in Tasks, NEW r \in Reqs, SendRequestH2(t, r) PROVE Accounted'
  <2>1. /\ UNCHANGED <<stream, reader>> /\ pc[t] = "shared"
        /\ pc' = [pc EXCEPT ![t] = "opening"] /\ req' = [req EXCEPT ![t] = r]
    BY <1>5 DEF SendRequestH2, h2Vars
  <2>2. \A u \in Tasks : pc[u] \in SendingH2 => pc'[u] \in SendingH2 /\ req'[u] = req[u]
    BY <2>1, PlacesListed DEF Inv, Types
  <2> QED
    BY <2>1, <2>2, AccountStays
<1>6. ASSUME NEW t \in Tasks, NEW r \in Reqs, ReadBody(t, r) \/ DropBody(t, r) PROVE Accounted'
  <2>1. PICK s : s = stream'[r]
    OBVIOUS
  <2>2. /\ reader' = [reader EXCEPT ![r] = None] /\ UNCHANGED <<pc, req>>
    BY <1>6 DEF ReadBody, DropBody, vars, client
  <2>3. /\ stream' = [stream EXCEPT ![r] = s] /\ s \in StreamStates
        /\ (s = stream[r] /\ s # "answered") \/ s \in {"ended", "reset"}
    BY <1>6, <2>1 DEF ReadBody, DropBody, Accounted, StreamStates
  <2> QED
    BY <2>2, <2>3, StreamAccounted DEF Accounted
<1>7. ASSUME NEW r \in Reqs, Admit(r) \/ Respond(r) \/ EndResponse(r) \/ Reset(r)
      PROVE  Accounted'
  <2>1. PICK s : /\ stream' = [stream EXCEPT ![r] = s] /\ s \in StreamStates
                 /\ \/ s \in {"open", "answered"} /\ stream[r] \in {"queued", "open"}
                    \/ s \in {"ended", "cut", "reset"}
    <3>1. r \in Active => stream[r] \in {"open", "answered", "ended"}
      BY DEF Active
    <3>2. r \in Active => Cut(stream[r]) \in {"cut", "reset"}
      BY <3>1 DEF Cut
    <3> QED
      BY <1>7, <3>2 DEF Admit, Respond, EndResponse, Reset, StreamStep, StreamStates
  <2>2. UNCHANGED <<pc, req, reader>>
    BY <1>7 DEF Admit, Respond, EndResponse, Reset, StreamStep, vars, client
  <2>3. PICK w \in Tasks \cup {None} : reader' = [reader EXCEPT ![r] = w]
    <3>1. reader' = [reader EXCEPT ![r] = reader[r]] /\ reader[r] \in Tasks \cup {None}
      BY <2>2 DEF Accounted
    <3> QED
      BY <3>1
  <2> QED
    BY <2>1, <2>2, <2>3, StreamAccounted DEF Accounted
<1>8. ASSUME ConnError PROVE Accounted'
  <2>1. UNCHANGED <<pc, req, reader>>
    BY <1>8 DEF ConnError, vars, client
  <2>2. stream' = [r \in Reqs |-> IF stream[r] = "queued" \/ r \in Active THEN Cut(stream[r])
                                  ELSE stream[r]]
    BY <1>8 DEF ConnError
  <2>3. ASSUME NEW r \in Reqs PROVE stream'[r] \in StreamStates \ {"queued", "open", "answered"}
    BY <2>2, <2>3 DEF Accounted, Active, Cut, StreamStates
  <2>4. stream' \in [Reqs -> StreamStates]
    BY <2>2, <2>3
  <2> QED
    BY <2>1, <2>3, <2>4 DEF Accounted
<1>9. ASSUME NEW t \in Tasks, PollH2(t) PROVE Accounted'
  BY <1>1, <1>2, <1>3, <1>4, <1>9 DEF PollH2
<1> QED
  BY <1>1, <1>4, <1>5, <1>6, <1>7, <1>8, <1>9 DEF NextH2

\* The two invariants hold of both protocols together.
THEOREM HttpInvariance == HttpSpec => [](Inv /\ Accounted)
<1>1. HttpInit => Inv /\ Accounted
  <2>1. HttpInit => Inv
    BY InitEstablishes DEF HttpInit
  <2>2. HttpInit => Accounted
    BY DEF HttpInit, Accounted, StreamStates
  <2> QED
    BY <2>1, <2>2
<1>2. Inv /\ Accounted /\ [HttpNext]_allVars => (Inv /\ Accounted)'
  <2>1. ASSUME Inv, Accounted, NextH2 PROVE Inv' /\ Accounted'
    BY <2>1, StreamsKeep, StreamsAccounted
  <2>2. ASSUME Inv, Accounted, Next, UNCHANGED h2Vars PROVE Inv' /\ Accounted'
    BY <2>2, NextKeeps, Http1LeavesSenders, AccountStays DEF Inv, h2Vars
  <2>3. ASSUME Inv, Accounted, UNCHANGED allVars PROVE Inv' /\ Accounted'
    <3>1. Inv'
      BY <2>3, StutterKeeps DEF allVars
    <3>2. UNCHANGED <<stream, reader, pc, req>>
      BY <2>3 DEF allVars, h2Vars, vars, client
    <3> QED
      BY <2>3, <3>1, <3>2, AccountStays
  <2> QED
    BY <2>1, <2>2, <2>3 DEF HttpNext
<1> QED
  BY <1>1, <1>2, PTL DEF HttpSpec

\* Every stream that takes up room at the peer belongs to a send_request under way or to a
\* response whose body somebody holds, whatever fails, is cancelled or is dropped.
THEOREM Slots == HttpSpec => []SlotsHaveOwners
<1>1. Accounted => SlotsHaveOwners
  BY DEF Accounted, SlotsHaveOwners, Active
<1> QED
  BY <1>1, HttpInvariance, PTL

\* HTTP/1.1 keeps its promises when the same tasks use HTTP/2 as well.
THEOREM SideBySide == HttpSpec => [](CleanWhenReused /\ AnswersMatch /\ ErrorsRetire)
<1>1. Inv => CleanWhenReused /\ AnswersMatch /\ ErrorsRetire
  BY PooledFacts
<1> QED
  BY <1>1, HttpInvariance, PTL
=============================================================================
