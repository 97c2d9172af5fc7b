--------------------------- MODULE ServicesProofs ---------------------------
(***************************************************************************)
(* Theorems about what serves apps and their callers, for any values of    *)
(* the constants: the context bus, the tool calls of an MCP session, the   *)
(* runtime of the apps and the SQL connectors.  Each part is proved from   *)
(* an inductive invariant of its own; the last section states, of the      *)
(* parts side by side, the properties that the run of MCServices checks.   *)
(***************************************************************************)
EXTENDS MCServices, SequenceTheorems, FiniteSetTheorems, WellFoundedInduction, TLAPS

-----------------------------------------------------------------------------
(* The context bus. *)


\* A non-empty sequence is its head and a tail over the same set.
LEMMA HeadTail ==
  ASSUME NEW S, NEW q \in Seq(S), q # <<>>
  PROVE  Head(q) \in S /\ Tail(q) \in Seq(S) /\ Len(Tail(q)) = Len(q) - 1
BY HeadTailProperties

\* try_send_payload() leaves a queue of payloads within its capacity.
LEMMA TrySendBounded ==
  ASSUME NEW c, NEW q \in Seq(Payload), Len(q) <= Capacity, NEW p \in Payload
  PROVE  TrySend(c, q, p) \in Seq(Payload) /\ Len(TrySend(c, q, p)) <= Capacity
<1>1. Append(q, p) \in Seq(Payload) /\ Len(Append(q, p)) = Len(q) + 1
  BY AppendProperties
<1>2. Len(q) \in Nat
  BY LenProperties
<1> QED
  BY <1>1, <1>2, BusAssumption DEF TrySend

\* A request is answered and its event queued within every queue's capacity.
LEMMA SentBounded ==
  ASSUME TypeOK, NEW c \in Conn, NEW R, NEW p \in Payload
  PROVE  /\ Sent(c, R, p) \in [Conn -> Seq(Payload)]
         /\ \A d \in Conn : Len(Sent(c, R, p)[d]) <= Capacity
<1>1. ASSUME NEW d \in Conn
      PROVE  Sent(c, R, p)[d] \in Seq(Payload) /\ Len(Sent(c, R, p)[d]) <= Capacity
  <2>1. queue[d] \in Seq(Payload) /\ Len(queue[d]) <= Capacity
    BY DEF TypeOK
  <2>2. Ack \in Payload
    BY DEF Payload
  <2>3. /\ TrySend(d, queue[d], Ack) \in Seq(Payload)
        /\ Len(TrySend(d, queue[d], Ack)) <= Capacity
    BY <2>1, <2>2, TrySendBounded
  <2>4. /\ TrySend(d, queue[d], p) \in Seq(Payload)
        /\ Len(TrySend(d, queue[d], p)) <= Capacity
    BY <2>1, TrySendBounded
  <2> QED
    BY <2>1, <2>3, <2>4 DEF Sent
<1>2. Sent(c, R, p) \in [Conn -> Seq(Payload)]
  <2> DEFINE f(d) == IF d = c THEN TrySend(c, queue[c], Ack)
                     ELSE IF d \in R THEN TrySend(d, queue[d], p) ELSE queue[d]
  <2>1. Sent(c, R, p) = [d \in Conn |-> f(d)]
    BY DEF Sent
  <2>2. \A d \in Conn : f(d) \in Seq(Payload)
    BY <1>1, <2>1
  <2> QED
    BY <2>1, <2>2
<1> QED
  BY <1>1, <1>2

\* The event of the request at the head of the socket is an event.
LEMMA EventOfHead ==
  ASSUME TypeOK, NEW c \in Conn, up[c] # <<>>
  PROVE  /\ Head(up[c]) \in Request
         /\ EventOf(c, Head(up[c])) \in Event
         /\ EventOf(c, Head(up[c])).by = c
<1>1. Head(up[c]) \in Request
  BY HeadTail DEF TypeOK
<1> QED
  BY <1>1 DEF Request, Event, EventOf

\* A request that is read leaves the others on the socket.
LEMMA ReadsType ==
  ASSUME TypeOK, NEW c \in Conn, NEW op, Reads(c, op)
  PROVE  up' \in [Conn -> Seq(Request)]
<1>1. up[c] \in Seq(Request) /\ up[c] # <<>>
  BY DEF TypeOK, Reads
<1>2. Tail(up[c]) \in Seq(Request)
  BY <1>1, HeadTail
<1> QED
  BY <1>2 DEF TypeOK, Reads

\* A request that is sent is one more on the socket.
LEMMA SendType ==
  ASSUME TypeOK, NEW c \in Conn, NEW op \in Op, NEW t \in Topic, Send(c, op, t)
  PROVE  sent' \in 0 .. MaxRequests /\ up' \in [Conn -> Seq(Request)]
<1>1. sent' \in 1 .. MaxRequests
  BY BusAssumption DEF TypeOK, Send
<1>2. [op |-> op, topic |-> t, n |-> sent'] \in Request
  BY <1>1 DEF Request
<1>3. Append(up[c], [op |-> op, topic |-> t, n |-> sent']) \in Seq(Request)
  BY <1>2, AppendProperties DEF TypeOK
<1> QED
  BY <1>1, <1>3 DEF TypeOK, Send

LEMMA TypeInit == Init => TypeOK
BY BusAssumption DEF Init, TypeOK

LEMMA TypeStep == TypeOK /\ [Next]_vars => TypeOK'
<1> SUFFICES ASSUME TypeOK, [Next]_vars PROVE TypeOK'
  OBVIOUS
<1>1. CASE UNCHANGED vars
  BY <1>1 DEF TypeOK, vars
<1>2. ASSUME NEW c \in Conn, AppSide(c) PROVE TypeOK'
  <2>1. CASE Connect(c)
    BY <2>1 DEF TypeOK, Connect
  <2>2. ASSUME NEW op \in Op, NEW t \in Topic, SendRequest(c, op, t) PROVE TypeOK'
    <3>1. sent' \in 0 .. MaxRequests /\ up' \in [Conn -> Seq(Request)]
      BY <2>2, SendType DEF SendRequest
    <3> QED
      BY <2>2, <3>1 DEF TypeOK, SendRequest
  <2>3. ASSUME NEW t \in Topic, NEW h \in Handler, Subscribe(c, t, h) PROVE TypeOK'
    <3>1. sent' \in 0 .. MaxRequests /\ up' \in [Conn -> Seq(Request)]
      BY <2>3, SendType DEF Subscribe, Op, TypeOK
    <3>2. want' \in [Conn -> [Topic -> SUBSET Handler]]
      BY <2>3 DEF TypeOK, Subscribe
    <3> QED
      BY <2>3, <3>1, <3>2 DEF TypeOK, Subscribe
  <2>4. ASSUME NEW t \in Topic, NEW h \in Handler, Unsubscribe(c, t, h) PROVE TypeOK'
    <3>1. sent' \in 0 .. MaxRequests /\ up' \in [Conn -> Seq(Request)]
      BY <2>4, SendType DEF Unsubscribe, Op, TypeOK
    <3>2. want' \in [Conn -> [Topic -> SUBSET Handler]]
      BY <2>4 DEF TypeOK, Unsubscribe
    <3> QED
      BY <2>4, <3>1, <3>2 DEF TypeOK, Unsubscribe
  <2>5. CASE Receive(c)
    <3>1. Head(wire[c]) \in Payload /\ Tail(wire[c]) \in Seq(Payload)
      BY <2>5, HeadTail DEF TypeOK, Receive
    <3>2. Head(wire[c]) # Ack => Append(heard[c], Head(wire[c])) \in Seq(Event)
      BY <3>1, AppendProperties DEF TypeOK, Payload
    <3>3. wire' \in [Conn -> Seq(Payload)]
      BY <2>5, <3>1 DEF TypeOK, Receive
    <3>4. heard' \in [Conn -> Seq(Event)]
      BY <2>5, <3>2 DEF TypeOK, Receive
    <3> QED
      BY <2>5, <3>3, <3>4 DEF TypeOK, Receive
  <2>6. CASE Leave(c)
    BY <2>6 DEF TypeOK, Leave
  <2> QED
    BY <1>2, <2>1, <2>2, <2>3, <2>4, <2>5, <2>6 DEF AppSide
<1>3. ASSUME NEW c \in Conn, Reader(c) PROVE TypeOK'
  <2>1. CASE ReadRegister(c)
    <3>1. Ack \in Payload
      BY DEF Payload
    <3>2. up' \in [Conn -> Seq(Request)]
      BY <2>1, ReadsType DEF ReadRegister
    <3>3. /\ queue' \in [Conn -> Seq(Payload)]
          /\ \A d \in Conn : Len(queue'[d]) <= Capacity
      BY <2>1, <3>1, SentBounded DEF ReadRegister
    <3> QED
      BY <2>1, <3>2, <3>3 DEF TypeOK, ReadRegister, Reads
  <2>2. CASE ReadSubscribe(c)
    <3>1. Ack \in Payload
      BY DEF Payload
    <3>2. up' \in [Conn -> Seq(Request)]
      BY <2>2, ReadsType DEF ReadSubscribe
    <3>3. /\ queue' \in [Conn -> Seq(Payload)]
          /\ \A d \in Conn : Len(queue'[d]) <= Capacity
      BY <2>2, <3>1, SentBounded DEF ReadSubscribe
    <3>4. subs' \in [Topic -> SUBSET Conn]
      BY <2>2 DEF TypeOK, ReadSubscribe
    <3> QED
      BY <2>2, <3>2, <3>3, <3>4 DEF TypeOK, ReadSubscribe, Reads
  <2>3. CASE ReadUnsubscribe(c)
    <3>1. Ack \in Payload
      BY DEF Payload
    <3>2. up' \in [Conn -> Seq(Request)]
      BY <2>3, ReadsType DEF ReadUnsubscribe
    <3>3. /\ queue' \in [Conn -> Seq(Payload)]
          /\ \A d \in Conn : Len(queue'[d]) <= Capacity
      BY <2>3, <3>1, SentBounded DEF ReadUnsubscribe
    <3>4. subs' \in [Topic -> SUBSET Conn]
      BY <2>3 DEF TypeOK, ReadUnsubscribe
    <3> QED
      BY <2>3, <3>2, <3>3, <3>4 DEF TypeOK, ReadUnsubscribe, Reads
  <2>4. CASE ReadPublish(c)
    <3>1. EventOf(c, Head(up[c])) \in Payload
      BY <2>4, EventOfHead DEF Payload, ReadPublish, Reads
    <3>2. up' \in [Conn -> Seq(Request)]
      BY <2>4, ReadsType DEF ReadPublish
    <3>3. /\ queue' \in [Conn -> Seq(Payload)]
          /\ \A d \in Conn : Len(queue'[d]) <= Capacity
      BY <2>4, <3>1, SentBounded DEF ReadPublish
    <3> QED
      BY <2>4, <3>2, <3>3 DEF TypeOK, ReadPublish, Reads
  <2>5. CASE ReadEnds(c)
    BY <2>5 DEF TypeOK, ReadEnds
  <2>6. CASE CleanUp(c)
    BY <2>6 DEF TypeOK, CleanUp
  <2>7. CASE Done(c)
    BY <2>7 DEF TypeOK, Done
  <2> QED
    BY <1>3, <2>1, <2>2, <2>3, <2>4, <2>5, <2>6, <2>7 DEF Reader
<1>4. ASSUME NEW c \in Conn, Writer(c) PROVE TypeOK'
  <2>1. CASE Write(c)
    <3>1. /\ Head(queue[c]) \in Payload
          /\ Tail(queue[c]) \in Seq(Payload)
          /\ Len(Tail(queue[c])) <= Capacity
      <4>1. queue[c] \in Seq(Payload) /\ Len(queue[c]) <= Capacity /\ queue[c] # <<>>
        BY <2>1 DEF TypeOK, Write
      <4>2. Len(queue[c]) \in Nat
        BY <4>1, LenProperties
      <4> QED
        BY <4>1, <4>2, HeadTail, BusAssumption
    <3>2. Append(wire[c], Head(queue[c])) \in Seq(Payload)
      BY <3>1, AppendProperties DEF TypeOK
    <3>3. wire' \in [Conn -> Seq(Payload)]
      BY <2>1, <3>2 DEF TypeOK, Write
    <3>4. /\ queue' \in [Conn -> Seq(Payload)]
          /\ \A d \in Conn : Len(queue'[d]) <= Capacity
      BY <2>1, <3>1 DEF TypeOK, Write
    <3> QED
      BY <2>1, <3>3, <3>4 DEF TypeOK, Write
  <2>2. CASE WriterEnds(c)
    BY <2>2, BusAssumption DEF TypeOK, WriterEnds
  <2> QED
    BY <1>4, <2>1, <2>2 DEF Writer
<1> QED
  BY <1>1, <1>2, <1>3, <1>4 DEF Next

\* Every variable keeps its type, and however slow an app reads and however
\* much is published to it, its queue in the daemon stays within its capacity.
THEOREM BusTypeCorrect == Spec => []TypeOK
BY TypeInit, TypeStep, PTL DEF Spec

-----------------------------------------------------------------------------
(* The table of subscribers. *)

LEMMA SenderStep == TypeOK /\ NoSenderLeft /\ [Next]_vars => NoSenderLeft'
<1> SUFFICES ASSUME TypeOK, NoSenderLeft, [Next]_vars PROVE NoSenderLeft'
  OBVIOUS
<1>1. CASE UNCHANGED vars
  BY <1>1 DEF NoSenderLeft, vars
<1>2. ASSUME NEW c \in Conn, AppSide(c) PROVE NoSenderLeft'
  <2>1. CASE Connect(c)
    BY <2>1 DEF TypeOK, NoSenderLeft, Connect
  <2>2. CASE ~Connect(c)
    <3>1. UNCHANGED <<task, subs>>
      BY <1>2, <2>2 DEF AppSide, SendRequest, Subscribe, Unsubscribe, Receive, Leave
    <3> QED
      BY <3>1 DEF NoSenderLeft
  <2> QED
    BY <2>1, <2>2
<1>3. ASSUME NEW c \in Conn, Reader(c) PROVE NoSenderLeft'
  <2>1. CASE ReadRegister(c) \/ ReadPublish(c)
    BY <2>1 DEF NoSenderLeft, ReadRegister, ReadPublish, Reads
  <2>2. CASE ReadSubscribe(c)
    BY <2>2 DEF TypeOK, NoSenderLeft, ReadSubscribe, Reads
  <2>3. CASE ReadUnsubscribe(c)
    BY <2>3 DEF TypeOK, NoSenderLeft, ReadUnsubscribe, Reads
  <2>4. CASE ReadEnds(c)
    BY <2>4 DEF TypeOK, NoSenderLeft, ReadEnds
  <2>5. CASE CleanUp(c)
    BY <2>5 DEF TypeOK, NoSenderLeft, CleanUp
  <2>6. CASE Done(c)
    BY <2>6 DEF TypeOK, NoSenderLeft, Done
  <2> QED
    BY <1>3, <2>1, <2>2, <2>3, <2>4, <2>5, <2>6 DEF Reader
<1>4. ASSUME NEW c \in Conn, Writer(c) PROVE NoSenderLeft'
  BY <1>4 DEF NoSenderLeft, Writer, Write, WriterEnds
<1> QED
  BY <1>1, <1>2, <1>3, <1>4 DEF Next

\* handle_connection() leaves no sender of its connection in the table when it
\* goes on to wait for its writer, and none can be put there afterwards.
THEOREM NoSenderOutlives == Spec => []NoSenderLeft
<1>1. Init => NoSenderLeft
  BY DEF Init, NoSenderLeft
<1> QED
  BY <1>1, TypeInit, TypeStep, SenderStep, PTL DEF Spec

-----------------------------------------------------------------------------
(* No event comes back to its publisher. *)

\* A payload that is not an event of c can be added to what c is sent.
LEMMA EchoAppend ==
  ASSUME NEW c, NEW S, NEW q \in Seq(S), NoEchoIn(c, q), NEW p \in S,
         p # Ack => p.by # c
  PROVE  NoEchoIn(c, Append(q, p))
BY AppendProperties DEF NoEchoIn

\* What is empty holds no event at all.
LEMMA EchoEmpty == ASSUME NEW c PROVE NoEchoIn(c, <<>>)
<1>1. Len(<<>>) = 0
  OBVIOUS
<1> QED
  BY <1>1 DEF NoEchoIn

\* Dropping the head of a sequence brings in nothing new.
LEMMA EchoTail ==
  ASSUME NEW c, NEW S, NEW q \in Seq(S), q # <<>>, NoEchoIn(c, q)
  PROVE  /\ NoEchoIn(c, Tail(q))
         /\ Head(q) # Ack => Head(q).by # c
BY HeadTailProperties DEF NoEchoIn

\* A request puts its event only into queues of other connections.
LEMMA EchoSent ==
  ASSUME TypeOK, NoEcho, NEW c \in Conn, NEW R, c \notin R, NEW p \in Payload,
         p # Ack => p.by = c, NEW d \in Conn
  PROVE  NoEchoIn(d, Sent(c, R, p)[d])
<1>1. queue[d] \in Seq(Payload) /\ NoEchoIn(d, queue[d]) /\ Ack \in Payload
  BY DEF TypeOK, NoEcho, Payload
<1>2. NoEchoIn(d, TrySend(d, queue[d], Ack))
  BY <1>1, EchoAppend DEF TrySend
<1>3. d # c => NoEchoIn(d, TrySend(d, queue[d], p))
  <2>1. d # c => NoEchoIn(d, Append(queue[d], p))
    BY <1>1, EchoAppend
  <2> QED
    BY <1>1, <2>1 DEF TrySend
<1> QED
  BY <1>1, <1>2, <1>3 DEF Sent

LEMMA EchoStep == TypeOK /\ NoEcho /\ [Next]_vars => NoEcho'
<1> SUFFICES ASSUME TypeOK, NoEcho, [Next]_vars PROVE NoEcho'
  OBVIOUS
<1>1. CASE UNCHANGED vars
  BY <1>1 DEF NoEcho, NoEchoIn, vars
<1>2. CASE UNCHANGED <<queue, wire, heard>>
  BY <1>2 DEF NoEcho, NoEchoIn
<1>3. ASSUME NEW c \in Conn, AppSide(c) PROVE NoEcho'
  <2>1. CASE Receive(c)
    <3>1. wire[c] \in Seq(Payload) /\ wire[c] # <<>> /\ NoEchoIn(c, wire[c])
      BY <2>1 DEF TypeOK, NoEcho, Receive
    <3>2. NoEchoIn(c, Tail(wire[c])) /\ (Head(wire[c]) # Ack => Head(wire[c]).by # c)
      BY <3>1, EchoTail
    <3>3. Head(wire[c]) \in Payload
      BY <3>1, HeadTail
    <3>4. Head(wire[c]) # Ack => NoEchoIn(c, Append(heard[c], Head(wire[c])))
      <4>1. heard[c] \in Seq(Event) /\ NoEchoIn(c, heard[c])
        BY DEF TypeOK, NoEcho
      <4>2. Head(wire[c]) # Ack => Head(wire[c]) \in Event
        BY <3>3 DEF Payload
      <4> QED
        BY <3>2, <4>1, <4>2, EchoAppend
    <3>5. ASSUME NEW d \in Conn PROVE NoEchoIn(d, wire'[d])
      BY <2>1, <3>2 DEF TypeOK, NoEcho, Receive
    <3>6. ASSUME NEW d \in Conn PROVE NoEchoIn(d, heard'[d])
      BY <2>1, <3>4 DEF TypeOK, NoEcho, Receive
    <3>7. queue' = queue
      BY <2>1 DEF Receive
    <3> QED
      BY <3>5, <3>6, <3>7 DEF NoEcho, NoEchoIn
  <2>2. CASE Leave(c)
    <3>1. ASSUME NEW d \in Conn PROVE NoEchoIn(d, wire'[d])
      BY <2>2, EchoEmpty DEF TypeOK, NoEcho, Leave
    <3>2. queue' = queue /\ heard' = heard
      BY <2>2 DEF Leave
    <3> QED
      BY <3>1, <3>2 DEF NoEcho, NoEchoIn
  <2>3. CASE ~Receive(c) /\ ~Leave(c)
    BY <1>2, <1>3, <2>3 DEF AppSide, Connect, SendRequest, Subscribe, Unsubscribe
  <2> QED
    BY <2>1, <2>2, <2>3
<1>4. ASSUME NEW c \in Conn, Reader(c) PROVE NoEcho'
  <2>1. ASSUME NEW R, c \notin R, NEW p \in Payload, p # Ack => p.by = c,
               queue' = Sent(c, R, p), UNCHANGED <<wire, heard>>
        PROVE  NoEcho'
    <3>1. \A d \in Conn : NoEchoIn(d, queue'[d])
      BY <2>1, EchoSent
    <3> QED
      BY <2>1, <3>1 DEF NoEcho, NoEchoIn
  <2>2. CASE ReadRegister(c) \/ ReadSubscribe(c) \/ ReadUnsubscribe(c)
    <3>1. queue' = Sent(c, {}, Ack) /\ UNCHANGED <<wire, heard>> /\ Ack \in Payload
      BY <2>2 DEF ReadRegister, ReadSubscribe, ReadUnsubscribe, Reads, Payload
    <3> QED
      BY <2>1, <3>1
  <2>3. CASE ReadPublish(c)
    <3> DEFINE r == Head(up[c])
    <3>1. EventOf(c, r) \in Payload /\ EventOf(c, r).by = c
      BY <2>3, EventOfHead DEF ReadPublish, Reads, Payload
    <3>2. queue' = Sent(c, subs[r.topic] \ {c}, EventOf(c, r)) /\ UNCHANGED <<wire, heard>>
      BY <2>3 DEF ReadPublish, Reads
    <3> QED
      BY <2>1, <3>1, <3>2
  <2>4. CASE ReadEnds(c) \/ CleanUp(c) \/ Done(c)
    BY <1>2, <2>4 DEF ReadEnds, CleanUp, Done
  <2> QED
    BY <1>4, <2>2, <2>3, <2>4 DEF Reader
<1>5. ASSUME NEW c \in Conn, Writer(c) PROVE NoEcho'
  <2>1. CASE Write(c)
    <3>1. queue[c] \in Seq(Payload) /\ queue[c] # <<>> /\ NoEchoIn(c, queue[c])
      BY <2>1 DEF TypeOK, NoEcho, Write
    <3>2. NoEchoIn(c, Tail(queue[c])) /\ (Head(queue[c]) # Ack => Head(queue[c]).by # c)
      BY <3>1, EchoTail
    <3>3. Head(queue[c]) \in Payload
      BY <3>1, HeadTail
    <3>4. NoEchoIn(c, Append(wire[c], Head(queue[c])))
      <4>1. wire[c] \in Seq(Payload) /\ NoEchoIn(c, wire[c])
        BY DEF TypeOK, NoEcho
      <4> QED
        BY <3>2, <3>3, <4>1, EchoAppend
    <3>5. ASSUME NEW d \in Conn PROVE NoEchoIn(d, queue'[d]) /\ NoEchoIn(d, wire'[d])
      BY <2>1, <3>2, <3>4 DEF TypeOK, NoEcho, Write
    <3>6. heard' = heard
      BY <2>1 DEF Write
    <3> QED
      BY <3>5, <3>6 DEF NoEcho, NoEchoIn
  <2>2. CASE WriterEnds(c)
    <3>1. ASSUME NEW d \in Conn PROVE NoEchoIn(d, queue'[d])
      BY <2>2, EchoEmpty DEF TypeOK, NoEcho, WriterEnds
    <3>2. wire' = wire /\ heard' = heard
      BY <2>2 DEF WriterEnds
    <3> QED
      BY <3>1, <3>2 DEF NoEcho, NoEchoIn
  <2> QED
    BY <1>5, <2>1, <2>2 DEF Writer
<1> QED
  BY <1>1, <1>3, <1>4, <1>5 DEF Next

\* An event is never queued for, written to or handled by the app that
\* published it, although that app may be subscribed to its topic.
THEOREM NeverEchoed == Spec => []NoEcho
<1>1. Init => NoEcho
  BY EchoEmpty DEF Init, NoEcho
<1> QED
  BY <1>1, TypeInit, TypeStep, EchoStep, PTL DEF Spec

-----------------------------------------------------------------------------
(* The table follows the handlers.                                         *)

\* What the requests u still to be read leave of the table's entry for t, if
\* it is b now: the last word of them is w.
SaysOf(r, t) == r.topic = t /\ r.op \in {"subscribe", "unsubscribe"}

AboutIn(u, t) == {i \in 1 .. Len(u) : SaysOf(u[i], t)}

EndsAs(u, t, b, w) ==
  IF AboutIn(u, t) = {} THEN b <=> w
  ELSE \A i \in AboutIn(u, t) :
         (\A j \in AboutIn(u, t) : j <= i) => (u[i].op = "subscribe" <=> w)

\* A request about another topic changes nothing of it, sent or read.
LEMMA EndsAppendOther ==
  ASSUME NEW u \in Seq(Request), NEW r \in Request, NEW t, NEW b, NEW w,
         ~SaysOf(r, t), EndsAs(u, t, b, w)
  PROVE  EndsAs(Append(u, r), t, b, w)
<1>1. /\ Len(Append(u, r)) = Len(u) + 1 /\ Len(u) \in Nat
      /\ \A i \in 1 .. Len(u) : Append(u, r)[i] = u[i]
      /\ Append(u, r)[Len(u) + 1] = r
  BY AppendProperties, LenProperties
<1>2. AboutIn(Append(u, r), t) = AboutIn(u, t)
  BY <1>1 DEF AboutIn
<1> QED
  BY <1>1, <1>2 DEF EndsAs, AboutIn

LEMMA EndsTailOther ==
  ASSUME NEW u \in Seq(Request), u # <<>>, NEW t, NEW b, NEW w,
         ~SaysOf(Head(u), t), EndsAs(u, t, b, w)
  PROVE  EndsAs(Tail(u), t, b, w)
<1>1. /\ Len(u) \in Nat \ {0} /\ Len(Tail(u)) = Len(u) - 1 /\ Head(u) = u[1]
      /\ \A i \in 1 .. Len(u) - 1 : Tail(u)[i] = u[i + 1]
  BY HeadTailProperties, LenProperties, EmptySeq
<1>2. \A i \in AboutIn(u, t) : i - 1 \in AboutIn(Tail(u), t) /\ Tail(u)[i - 1] = u[i]
  BY <1>1 DEF AboutIn
<1>3. \A i \in AboutIn(Tail(u), t) : i + 1 \in AboutIn(u, t) /\ Tail(u)[i] = u[i + 1]
  BY <1>1 DEF AboutIn
<1>4. AboutIn(u, t) \subseteq Nat /\ AboutIn(Tail(u), t) \subseteq Nat
  BY <1>1 DEF AboutIn
<1>5. CASE AboutIn(u, t) = {}
  BY <1>3, <1>5 DEF EndsAs
<1>6. CASE AboutIn(u, t) # {}
  <2>1. AboutIn(Tail(u), t) # {}
    BY <1>2, <1>6
  <2>2. ASSUME NEW i \in AboutIn(Tail(u), t), \A j \in AboutIn(Tail(u), t) : j <= i
        PROVE  Tail(u)[i].op = "subscribe" <=> w
    <3>1. \A j \in AboutIn(u, t) : j <= i + 1
      BY <1>2, <1>4, <2>2
    <3>2. i + 1 \in AboutIn(u, t) /\ Tail(u)[i] = u[i + 1]
      BY <1>3
    <3>3. u[i + 1].op = "subscribe" <=> w
      BY <1>6, <3>1, <3>2 DEF EndsAs
    <3> QED
      BY <3>2, <3>3
  <2> QED
    BY <2>1, <2>2 DEF EndsAs
<1> QED
  BY <1>5, <1>6

\* A request about the topic has the last word when it is sent...
LEMMA EndsAppend ==
  ASSUME NEW u \in Seq(Request), NEW r \in Request, NEW t, NEW b, SaysOf(r, t)
  PROVE  EndsAs(Append(u, r), t, b, r.op = "subscribe")
<1>1. /\ Len(Append(u, r)) = Len(u) + 1 /\ Len(u) \in Nat
      /\ Append(u, r)[Len(u) + 1] = r
  BY AppendProperties, LenProperties
<1>2. /\ Len(u) + 1 \in AboutIn(Append(u, r), t)
      /\ AboutIn(Append(u, r), t) \subseteq 1 .. Len(u) + 1
  BY <1>1 DEF AboutIn
<1>3. ASSUME NEW i \in AboutIn(Append(u, r), t), \A j \in AboutIn(Append(u, r), t) : j <= i
      PROVE  Append(u, r)[i].op = "subscribe" <=> r.op = "subscribe"
  <2>1. i = Len(u) + 1
    BY <1>1, <1>2, <1>3
  <2> QED
    BY <1>1, <2>1
<1> QED
  BY <1>2, <1>3 DEF EndsAs

\* ...and says what the table has when it is read.
LEMMA EndsTail ==
  ASSUME NEW u \in Seq(Request), u # <<>>, NEW t, NEW b, NEW w,
         SaysOf(Head(u), t), EndsAs(u, t, b, w)
  PROVE  EndsAs(Tail(u), t, Head(u).op = "subscribe", w)
<1>1. /\ Len(u) \in Nat \ {0} /\ Len(Tail(u)) = Len(u) - 1 /\ Head(u) = u[1]
      /\ \A i \in 1 .. Len(u) - 1 : Tail(u)[i] = u[i + 1]
  BY HeadTailProperties, LenProperties, EmptySeq
<1>2. 1 \in AboutIn(u, t) /\ AboutIn(u, t) \subseteq Nat
  BY <1>1 DEF AboutIn
<1>3. \A i \in AboutIn(u, t) : i = 1 \/ (i - 1 \in AboutIn(Tail(u), t) /\ Tail(u)[i - 1] = u[i])
  BY <1>1 DEF AboutIn
<1>4. \A i \in AboutIn(Tail(u), t) : /\ i \in Nat /\ i + 1 \in AboutIn(u, t)
                                     /\ Tail(u)[i] = u[i + 1]
  BY <1>1 DEF AboutIn
<1>5. CASE AboutIn(Tail(u), t) = {}
  <2>1. \A j \in AboutIn(u, t) : j <= 1
    BY <1>3, <1>5
  <2>2. u[1].op = "subscribe" <=> w
    BY <1>2, <2>1 DEF EndsAs
  <2> QED
    BY <1>1, <1>5, <2>2 DEF EndsAs
<1>6. CASE AboutIn(Tail(u), t) # {}
  <2>1. ASSUME NEW i \in AboutIn(Tail(u), t), \A j \in AboutIn(Tail(u), t) : j <= i
        PROVE  Tail(u)[i].op = "subscribe" <=> w
    <3>1. \A j \in AboutIn(u, t) : j <= i + 1
      BY <1>2, <1>3, <1>4, <2>1
    <3>2. i + 1 \in AboutIn(u, t) /\ Tail(u)[i] = u[i + 1]
      BY <1>4
    <3>3. u[i + 1].op = "subscribe" <=> w
      BY <3>1, <3>2 DEF EndsAs
    <3> QED
      BY <3>2, <3>3
  <2> QED
    BY <1>6, <2>1 DEF EndsAs
<1> QED
  BY <1>5, <1>6

\* An app that is not gone has its handler's attention, and one that has not
\* connected yet has asked for nothing.
Follows(c, t) == EndsAs(up[c], t, c \in subs[t], want[c][t] # {})

FollowInv ==
  \A c \in Conn :
    /\ client[c] = "new" => task[c] = "none"
    /\ client[c] = "open" => task[c] = "reading"
    /\ client[c] # "gone" => \A t \in Topic : Follows(c, t)

LEMMA FollowInit == Init => FollowInv
<1> SUFFICES ASSUME Init PROVE FollowInv
  OBVIOUS
<1>1. ASSUME NEW t PROVE AboutIn(<<>>, t) = {}
  <2>1. Len(<<>>) = 0
    OBVIOUS
  <2> QED
    BY <2>1 DEF AboutIn
<1> QED
  BY <1>1 DEF Init, FollowInv, Follows, EndsAs

\* A request sent or not: what the app wants of a topic is what it says last.
LEMMA FollowSend ==
  ASSUME TypeOK, NEW c \in Conn, NEW op \in Op, NEW t \in Topic, Send(c, op, t),
         NEW x \in Topic, NEW b, NEW w, EndsAs(up[c], x, b, w)
  PROVE  IF x = t /\ op \in {"subscribe", "unsubscribe"}
         THEN EndsAs(up'[c], x, b, op = "subscribe") ELSE EndsAs(up'[c], x, b, w)
<1> DEFINE r == [op |-> op, topic |-> t, n |-> sent']
<1>1. r \in Request
  BY BusAssumption DEF TypeOK, Send, Request
<1>2. up[c] \in Seq(Request) /\ up'[c] = Append(up[c], r)
  BY DEF TypeOK, Send
<1>3. SaysOf(r, x) <=> x = t /\ op \in {"subscribe", "unsubscribe"}
  BY DEF SaysOf
<1>4. r.op = op
  OBVIOUS
<1> HIDE DEF r
<1> QED
  BY <1>1, <1>2, <1>3, <1>4, EndsAppend, EndsAppendOther

\* A request is read: the table is changed as it says, if it is about it.
LEMMA FollowRead ==
  ASSUME TypeOK, NEW c \in Conn, NEW op, Reads(c, op),
         NEW x \in Topic, NEW b, NEW w, EndsAs(up[c], x, b, w)
  PROVE  IF x = Head(up[c]).topic /\ op \in {"subscribe", "unsubscribe"}
         THEN EndsAs(up'[c], x, op = "subscribe", w) ELSE EndsAs(up'[c], x, b, w)
<1>1. up[c] \in Seq(Request) /\ up[c] # <<>> /\ up'[c] = Tail(up[c]) /\ Head(up[c]).op = op
  BY DEF TypeOK, Reads
<1>2. SaysOf(Head(up[c]), x) <=> x = Head(up[c]).topic /\ op \in {"subscribe", "unsubscribe"}
  BY <1>1 DEF SaysOf
<1> QED
  BY <1>1, <1>2, EndsTail, EndsTailOther

LEMMA FollowStep == TypeOK /\ FollowInv /\ [Next]_vars => FollowInv'
<1> SUFFICES ASSUME TypeOK, FollowInv, [Next]_vars PROVE FollowInv'
  OBVIOUS
<1>1. CASE UNCHANGED vars
  BY <1>1 DEF FollowInv, Follows, vars
<1>2. CASE UNCHANGED <<client, task, up, subs, want>>
  BY <1>2 DEF FollowInv, Follows
\* What a step of one connection has to show: its own part.
<1>3. ASSUME NEW c \in Conn,
             \A d \in Conn \ {c} : /\ client'[d] = client[d] /\ task'[d] = task[d]
                                   /\ up'[d] = up[d] /\ want'[d] = want[d]
                                   /\ \A t \in Topic : d \in subs'[t] <=> d \in subs[t],
             client'[c] = "new" => task'[c] = "none",
             client'[c] = "open" => task'[c] = "reading",
             client'[c] # "gone" => \A t \in Topic : Follows(c, t)'
      PROVE  FollowInv'
  <2>1. ASSUME NEW d \in Conn \ {c}, client'[d] # "gone", NEW t \in Topic PROVE Follows(d, t)'
    <3>1. Follows(d, t)
      BY <1>3, <2>1 DEF FollowInv
    <3> QED
      BY <1>3, <3>1 DEF Follows, EndsAs
  <2> QED
    BY <1>3, <2>1 DEF FollowInv
<1>4. ASSUME NEW c \in Conn, AppSide(c) PROVE FollowInv'
  <2>1. CASE Connect(c)
    BY <1>3, <2>1 DEF TypeOK, FollowInv, Follows, Connect
  <2>2. ASSUME NEW op \in Op, NEW t \in Topic, SendRequest(c, op, t) PROVE FollowInv'
    <3>1. op \notin {"subscribe", "unsubscribe"} /\ Send(c, op, t)
      BY <2>2 DEF SendRequest
    <3>2. ASSUME NEW x \in Topic PROVE Follows(c, x)'
      <4>1. EndsAs(up[c], x, c \in subs[x], want[c][x] # {})
        BY <2>2 DEF FollowInv, Follows, SendRequest
      <4>2. EndsAs(up'[c], x, c \in subs[x], want[c][x] # {})
        BY <3>1, <4>1, FollowSend
      <4> QED
        BY <2>2, <4>2 DEF Follows, SendRequest
    <3> QED
      BY <1>3, <2>2, <3>2 DEF TypeOK, FollowInv, SendRequest, Send
  <2>3. ASSUME NEW t \in Topic, NEW h \in Handler, Subscribe(c, t, h) PROVE FollowInv'
    <3>1. ASSUME NEW x \in Topic PROVE Follows(c, x)'
      <4>1. EndsAs(up[c], x, c \in subs[x], want[c][x] # {})
        BY <2>3 DEF FollowInv, Follows, Subscribe
      <4>2. /\ want'[c][t] # {} /\ subs' = subs
            /\ x # t => want'[c][x] = want[c][x]
        BY <2>3 DEF TypeOK, Subscribe
      <4>3. CASE want[c][t] = {}
        <5>1. Send(c, "subscribe", t) /\ "subscribe" \in Op
          BY <2>3, <4>3 DEF Subscribe, Op
        <5>2. IF x = t THEN EndsAs(up'[c], x, c \in subs[x], TRUE)
              ELSE EndsAs(up'[c], x, c \in subs[x], want[c][x] # {})
          BY <4>1, <5>1, FollowSend, ZenonT(60)
        <5> QED
          BY <4>2, <5>2 DEF Follows, EndsAs
      <4>4. CASE want[c][t] # {}
        BY <2>3, <4>1, <4>2, <4>4 DEF Follows, EndsAs, Subscribe
      <4> QED
        BY <4>3, <4>4
    <3> QED
      BY <1>3, <2>3, <3>1 DEF TypeOK, FollowInv, Subscribe, Send
  <2>4. ASSUME NEW t \in Topic, NEW h \in Handler, Unsubscribe(c, t, h) PROVE FollowInv'
    <3>1. ASSUME NEW x \in Topic PROVE Follows(c, x)'
      <4>1. EndsAs(up[c], x, c \in subs[x], want[c][x] # {})
        BY <2>4 DEF FollowInv, Follows, Unsubscribe
      <4>2. /\ want'[c][t] = want[c][t] \ {h} /\ h \in want[c][t] /\ subs' = subs
            /\ x # t => want'[c][x] = want[c][x]
        BY <2>4 DEF TypeOK, Unsubscribe
      <4>3. CASE want[c][t] = {h}
        <5>1. Send(c, "unsubscribe", t) /\ "unsubscribe" \in Op
          BY <2>4, <4>3 DEF Unsubscribe, Op
        <5>2. IF x = t THEN EndsAs(up'[c], x, c \in subs[x], FALSE)
              ELSE EndsAs(up'[c], x, c \in subs[x], want[c][x] # {})
          BY <4>1, <5>1, FollowSend, ZenonT(60)
        <5>3. want'[c][t] = {}
          BY <4>2, <4>3
        <5> QED
          BY <4>2, <5>2, <5>3 DEF Follows, EndsAs
      <4>4. CASE want[c][t] # {h}
        <5>1. want'[c][t] # {} /\ up' = up
          BY <2>4, <4>2, <4>4 DEF Unsubscribe
        <5> QED
          BY <4>1, <4>2, <5>1 DEF Follows, EndsAs
      <4> QED
        BY <4>3, <4>4
    <3> QED
      BY <1>3, <2>4, <3>1 DEF TypeOK, FollowInv, Unsubscribe, Send
  <2>5. CASE Receive(c)
    BY <1>2, <2>5 DEF Receive
  <2>6. CASE Leave(c)
    BY <1>3, <2>6 DEF TypeOK, FollowInv, Leave
  <2> QED
    BY <1>4, <2>1, <2>2, <2>3, <2>4, <2>5, <2>6 DEF AppSide
<1>5. ASSUME NEW c \in Conn, Reader(c) PROVE FollowInv'
  <2>1. CASE ReadRegister(c) \/ ReadPublish(c)
    <3>1. PICK op \in {"register", "publish"} : Reads(c, op)
      BY <2>1 DEF ReadRegister, ReadPublish
    <3>2. ASSUME NEW x \in Topic, client'[c] # "gone" PROVE Follows(c, x)'
      <4>1. EndsAs(up[c], x, c \in subs[x], want[c][x] # {})
        BY <3>1, <3>2 DEF FollowInv, Follows, Reads
      <4>2. EndsAs(up'[c], x, c \in subs[x], want[c][x] # {})
        BY <3>1, <4>1, FollowRead
      <4> QED
        BY <2>1, <4>2 DEF Follows, ReadRegister, ReadPublish, Reads
    <3> QED
      BY <1>3, <2>1, <3>2 DEF TypeOK, FollowInv, ReadRegister, ReadPublish, Reads
  <2>2. CASE ReadSubscribe(c)
    <3>1. ASSUME NEW x \in Topic, client'[c] # "gone" PROVE Follows(c, x)'
      <4>1. EndsAs(up[c], x, c \in subs[x], want[c][x] # {}) /\ Reads(c, "subscribe")
        BY <2>2, <3>1 DEF FollowInv, Follows, ReadSubscribe, Reads
      <4>2. IF x = Head(up[c]).topic THEN EndsAs(up'[c], x, TRUE, want[c][x] # {})
            ELSE EndsAs(up'[c], x, c \in subs[x], want[c][x] # {})
        BY <4>1, FollowRead
      <4>3. c \in subs'[x] <=> (x = Head(up[c]).topic \/ c \in subs[x])
        BY <2>2 DEF TypeOK, ReadSubscribe
      <4>4. want' = want
        BY <4>1 DEF Reads
      <4> QED
        BY <4>2, <4>3, <4>4 DEF Follows, EndsAs
    <3> QED
      BY <1>3, <2>2, <3>1 DEF TypeOK, FollowInv, ReadSubscribe, Reads
  <2>3. CASE ReadUnsubscribe(c)
    <3>1. ASSUME NEW x \in Topic, client'[c] # "gone" PROVE Follows(c, x)'
      <4>1. EndsAs(up[c], x, c \in subs[x], want[c][x] # {}) /\ Reads(c, "unsubscribe")
        BY <2>3, <3>1 DEF FollowInv, Follows, ReadUnsubscribe, Reads
      <4>2. IF x = Head(up[c]).topic THEN EndsAs(up'[c], x, FALSE, want[c][x] # {})
            ELSE EndsAs(up'[c], x, c \in subs[x], want[c][x] # {})
        BY <4>1, FollowRead
      <4>3. c \in subs'[x] <=> (x # Head(up[c]).topic /\ c \in subs[x])
        BY <2>3 DEF TypeOK, ReadUnsubscribe
      <4>4. want' = want
        BY <4>1 DEF Reads
      <4> QED
        BY <4>2, <4>3, <4>4 DEF Follows, EndsAs
    <3> QED
      BY <1>3, <2>3, <3>1 DEF TypeOK, FollowInv, ReadUnsubscribe, Reads
  <2>4. CASE ReadEnds(c)
    BY <1>3, <2>4 DEF TypeOK, FollowInv, ReadEnds
  <2>5. CASE CleanUp(c) \/ Done(c)
    <3>1. client'[c] = "gone" /\ client' = client
      BY <2>5 DEF TypeOK, FollowInv, CleanUp, Done
    <3>2. /\ up' = up /\ want' = want
          /\ \A d \in Conn \ {c} : /\ task'[d] = task[d]
                                  /\ \A t \in Topic : d \in subs'[t] <=> d \in subs[t]
      BY <2>5 DEF TypeOK, CleanUp, Done
    <3> QED
      BY <1>3, <3>1, <3>2
  <2> QED
    BY <1>5, <2>1, <2>2, <2>3, <2>4, <2>5 DEF Reader
<1>6. ASSUME NEW c \in Conn, Writer(c) PROVE FollowInv'
  BY <1>2, <1>6 DEF Writer, Write, WriterEnds
<1> QED
  BY <1>1, <1>4, <1>5, <1>6 DEF Next

-----------------------------------------------------------------------------
(* Delivery at most once and in order.                                     *)

\* The events of d in s are older than k; b may follow a; and s, t and u one
\* after another are in order.
Older(a, d, k) == a # Ack /\ a.by = d => a.n < k
Under(s, d, k) == \A i \in 1 .. Len(s) : Older(s[i], d, k)

MayFollow(a, b) == a # Ack /\ b # Ack /\ a.by = b.by => a.n < b.n
Sorted(s) == \A i, j \in 1 .. Len(s) : i < j => MayFollow(s[i], s[j])
Ahead(s, t) == \A i \in 1 .. Len(s), j \in 1 .. Len(t) : MayFollow(s[i], t[j])
Flow(s, t, u) ==
  /\ Sorted(s) /\ Sorted(t) /\ Sorted(u)
  /\ Ahead(s, t) /\ Ahead(s, u) /\ Ahead(t, u)

\* What Append, Tail and the empty sequence are, index by index.
LEMMA AppendAt ==
  ASSUME NEW S, NEW s \in Seq(S), NEW a \in S
  PROVE  /\ Append(s, a) \in Seq(S)
         /\ Len(s) \in Nat /\ Len(Append(s, a)) = Len(s) + 1
         /\ \A i \in 1 .. Len(s) : Append(s, a)[i] = s[i]
         /\ Append(s, a)[Len(s) + 1] = a
BY AppendProperties, LenProperties

LEMMA TailAt ==
  ASSUME NEW S, NEW s \in Seq(S), s # <<>>
  PROVE  /\ Tail(s) \in Seq(S) /\ Head(s) \in S
         /\ Len(s) \in Nat \ {0} /\ Len(Tail(s)) = Len(s) - 1
         /\ Head(s) = s[1]
         /\ \A i \in 1 .. Len(s) - 1 : Tail(s)[i] = s[i + 1]
BY HeadTailProperties, EmptySeq, LenProperties

LEMMA UnderAppend ==
  ASSUME NEW S, NEW s \in Seq(S), NEW a \in S, NEW d, NEW k, Under(s, d, k), Older(a, d, k)
  PROVE  Under(Append(s, a), d, k)
BY AppendAt DEF Under

LEMMA UnderTail ==
  ASSUME NEW S, NEW s \in Seq(S), s # <<>>, NEW d, NEW k, Under(s, d, k)
  PROVE  Under(Tail(s), d, k) /\ Older(Head(s), d, k)
BY TailAt DEF Under

LEMMA UnderEmpty == ASSUME NEW d, NEW k PROVE Under(<<>>, d, k)
<1>1. Len(<<>>) = 0
  OBVIOUS
<1> QED
  BY <1>1 DEF Under

\* A payload goes into the queue behind everything that is older.
LEMMA FlowQueue ==
  ASSUME NEW S, NEW s \in Seq(S), NEW t \in Seq(S), NEW u \in Seq(S), NEW p \in S,
         Flow(s, t, u),
         p # Ack => Under(s, p.by, p.n) /\ Under(t, p.by, p.n) /\ Under(u, p.by, p.n)
  PROVE  Flow(s, t, Append(u, p))
<1> DEFINE v == Append(u, p)
<1>1. /\ Len(u) \in Nat /\ Len(v) = Len(u) + 1
      /\ \A i \in 1 .. Len(u) : v[i] = u[i]
      /\ v[Len(u) + 1] = p
  BY AppendAt
<1> HIDE DEF v
<1>2. /\ \A i \in 1 .. Len(s) : MayFollow(s[i], p)
      /\ \A i \in 1 .. Len(t) : MayFollow(t[i], p)
      /\ \A i \in 1 .. Len(u) : MayFollow(u[i], p)
  BY DEF Under, Older, MayFollow
<1>3. ASSUME NEW i \in 1 .. Len(v), NEW j \in 1 .. Len(v), i < j PROVE MayFollow(v[i], v[j])
  <2>1. i \in 1 .. Len(u) /\ v[i] = u[i]
    BY <1>1, <1>3
  <2>2. (j \in 1 .. Len(u) /\ v[j] = u[j]) \/ v[j] = p
    BY <1>1
  <2> QED
    BY <1>2, <1>3, <2>1, <2>2 DEF Flow, Sorted
<1>4. ASSUME NEW j \in 1 .. Len(v) PROVE (j \in 1 .. Len(u) /\ v[j] = u[j]) \/ v[j] = p
  BY <1>1
<1>5. Ahead(s, v) /\ Ahead(t, v)
  BY <1>2, <1>4 DEF Flow, Ahead
<1> QED
  BY <1>3, <1>5 DEF Flow, Sorted, v

\* The head of the queue goes to the end of the wire...
LEMMA FlowWrite ==
  ASSUME NEW S, NEW s \in Seq(S), NEW t \in Seq(S), NEW u \in Seq(S), u # <<>>, Flow(s, t, u)
  PROVE  Flow(s, Append(t, Head(u)), Tail(u))
<1> DEFINE v == Append(t, Head(u))
           w == Tail(u)
<1>1. /\ Len(u) \in Nat \ {0} /\ Len(w) = Len(u) - 1 /\ Head(u) = u[1] /\ Head(u) \in S
      /\ \A i \in 1 .. Len(u) - 1 : w[i] = u[i + 1]
  BY TailAt
<1>2. /\ Len(t) \in Nat /\ Len(v) = Len(t) + 1
      /\ \A i \in 1 .. Len(t) : v[i] = t[i]
      /\ v[Len(t) + 1] = u[1]
  BY <1>1, AppendAt
<1> HIDE DEF v, w
<1>3. \A j \in 1 .. Len(v) : (j \in 1 .. Len(t) /\ v[j] = t[j]) \/ (j = Len(t) + 1 /\ v[j] = u[1])
  BY <1>2
<1>4. \A j \in 1 .. Len(w) : j + 1 \in 1 .. Len(u) /\ w[j] = u[j + 1]
  BY <1>1
<1>5. 1 \in 1 .. Len(u) /\ \A j \in 1 .. Len(w) : 1 < j + 1
  BY <1>1
<1>6. ASSUME NEW i \in 1 .. Len(v), NEW j \in 1 .. Len(v), i < j PROVE MayFollow(v[i], v[j])
  <2>1. i \in 1 .. Len(t) /\ v[i] = t[i]
    BY <1>2, <1>6
  <2> QED
    BY <1>3, <1>5, <1>6, <2>1 DEF Flow, Sorted, Ahead
<1>7. ASSUME NEW i \in 1 .. Len(w), NEW j \in 1 .. Len(w), i < j PROVE MayFollow(w[i], w[j])
  <2>1. i + 1 < j + 1
    BY <1>1, <1>7
  <2> QED
    BY <1>4, <2>1 DEF Flow, Sorted
<1>8. Ahead(s, v) /\ Ahead(s, w)
  BY <1>3, <1>4, <1>5 DEF Flow, Ahead
<1>9. Ahead(v, w)
  BY <1>3, <1>4, <1>5 DEF Flow, Sorted, Ahead
<1> QED
  BY <1>6, <1>7, <1>8, <1>9 DEF Flow, Sorted, v, w

\* ...and the head of the wire to the handlers, or nowhere.
LEMMA FlowReceive ==
  ASSUME NEW S, NEW s \in Seq(S), NEW t \in Seq(S), NEW u \in Seq(S), t # <<>>, Flow(s, t, u)
  PROVE  Flow(Append(s, Head(t)), Tail(t), u) /\ Flow(s, Tail(t), u)
<1> DEFINE v == Append(s, Head(t))
           w == Tail(t)
<1>1. /\ Len(t) \in Nat \ {0} /\ Len(w) = Len(t) - 1 /\ Head(t) = t[1] /\ Head(t) \in S
      /\ \A i \in 1 .. Len(t) - 1 : w[i] = t[i + 1]
  BY TailAt
<1>2. /\ Len(s) \in Nat /\ Len(v) = Len(s) + 1
      /\ \A i \in 1 .. Len(s) : v[i] = s[i]
      /\ v[Len(s) + 1] = t[1]
  BY <1>1, AppendAt
<1> HIDE DEF v, w
<1>3. \A j \in 1 .. Len(v) : (j \in 1 .. Len(s) /\ v[j] = s[j]) \/ (j = Len(s) + 1 /\ v[j] = t[1])
  BY <1>2
<1>4. \A j \in 1 .. Len(w) : j + 1 \in 1 .. Len(t) /\ w[j] = t[j + 1]
  BY <1>1
<1>5. 1 \in 1 .. Len(t) /\ \A j \in 1 .. Len(w) : 1 < j + 1
  BY <1>1
<1>6. ASSUME NEW i \in 1 .. Len(v), NEW j \in 1 .. Len(v), i < j PROVE MayFollow(v[i], v[j])
  <2>1. i \in 1 .. Len(s) /\ v[i] = s[i]
    BY <1>2, <1>6
  <2> QED
    BY <1>3, <1>5, <1>6, <2>1 DEF Flow, Sorted, Ahead
<1>7. ASSUME NEW i \in 1 .. Len(w), NEW j \in 1 .. Len(w), i < j PROVE MayFollow(w[i], w[j])
  <2>1. i + 1 < j + 1
    BY <1>1, <1>7
  <2> QED
    BY <1>4, <2>1 DEF Flow, Sorted
<1>8. Ahead(v, u) /\ Ahead(w, u)
  BY <1>3, <1>4, <1>5 DEF Flow, Ahead
<1>9. Ahead(v, w) /\ Ahead(s, w)
  BY <1>3, <1>4, <1>5 DEF Flow, Sorted, Ahead
<1> QED
  BY <1>6, <1>7, <1>8, <1>9 DEF Flow, Sorted, v, w

\* What is dropped with a connection leaves the rest in order.
LEMMA FlowDrop ==
  ASSUME NEW s, NEW t, NEW u, Flow(s, t, u)
  PROVE  Flow(s, <<>>, u) /\ Flow(s, t, <<>>)
<1>1. Len(<<>>) = 0
  OBVIOUS
<1> QED
  BY <1>1, SMTT(30) DEF Flow, Sorted, Ahead

\* In order piece by piece is in order as a whole.
LEMMA FlowSorted ==
  ASSUME NEW S, NEW s \in Seq(S), NEW t \in Seq(S), NEW u \in Seq(S), Flow(s, t, u)
  PROVE  Sorted(s \o t \o u)
<1> DEFINE st == s \o t
           all == st \o u
<1>1. /\ st \in Seq(S) /\ Len(st) = Len(s) + Len(t)
      /\ \A i \in 1 .. Len(s) + Len(t) : st[i] = IF i <= Len(s) THEN s[i] ELSE t[i - Len(s)]
  BY ConcatProperties
<1> HIDE DEF st
<1>2. /\ Len(all) = Len(st) + Len(u)
      /\ \A i \in 1 .. Len(st) + Len(u) : all[i] = IF i <= Len(st) THEN st[i] ELSE u[i - Len(st)]
  <2>1. st \in Seq(S)
    BY <1>1
  <2> QED
    BY <2>1, ConcatProperties
<1> HIDE DEF all
<1>3. Len(s) \in Nat /\ Len(t) \in Nat /\ Len(u) \in Nat
  BY LenProperties
<1>4. ASSUME NEW i \in 1 .. Len(all), NEW j \in 1 .. Len(all), i < j
      PROVE  MayFollow(all[i], all[j])
  <2>1. CASE j <= Len(s)
    <3>1. i \in 1 .. Len(s) /\ j \in 1 .. Len(s) /\ all[i] = s[i] /\ all[j] = s[j]
      BY <1>1, <1>2, <1>3, <1>4, <2>1
    <3> QED
      BY <3>1, <1>4 DEF Flow, Sorted
  <2>2. CASE i > Len(st)
    <3>1. /\ i - Len(st) \in 1 .. Len(u) /\ j - Len(st) \in 1 .. Len(u)
          /\ all[i] = u[i - Len(st)] /\ all[j] = u[j - Len(st)]
      BY <1>1, <1>2, <1>3, <1>4, <2>2
    <3>2. i - Len(st) < j - Len(st)
      BY <1>1, <1>2, <1>3, <1>4
    <3> QED
      BY <3>1, <3>2 DEF Flow, Sorted
  <2>3. CASE i <= Len(st) /\ j > Len(st)
    <3>1. /\ j - Len(st) \in 1 .. Len(u) /\ all[j] = u[j - Len(st)]
          /\ all[i] = IF i <= Len(s) THEN s[i] ELSE t[i - Len(s)]
          /\ IF i <= Len(s) THEN i \in 1 .. Len(s) ELSE i - Len(s) \in 1 .. Len(t)
      BY <1>1, <1>2, <1>3, <2>3
    <3> QED
      BY <3>1 DEF Flow, Ahead
  <2>4. CASE i > Len(s) /\ j <= Len(st)
    <3>1. /\ i - Len(s) \in 1 .. Len(t) /\ j - Len(s) \in 1 .. Len(t)
          /\ all[i] = t[i - Len(s)] /\ all[j] = t[j - Len(s)] /\ i - Len(s) < j - Len(s)
      BY <1>1, <1>2, <1>3, <1>4, <2>4
    <3> QED
      BY <3>1 DEF Flow, Sorted
  <2>5. CASE i <= Len(s) /\ j > Len(s) /\ j <= Len(st)
    <3>1. /\ i \in 1 .. Len(s) /\ j - Len(s) \in 1 .. Len(t)
          /\ all[i] = s[i] /\ all[j] = t[j - Len(s)]
      BY <1>1, <1>2, <1>3, <2>5
    <3> QED
      BY <3>1 DEF Flow, Ahead
  <2> QED
    BY <1>1, <1>2, <1>3, <2>1, <2>2, <2>3, <2>4, <2>5
<1> QED
  BY <1>4 DEF Sorted, st, all

\* What is on its way to c, and nothing in it from d being as young as k.
Stream(c) == <<heard[c], wire[c], queue[c]>>
Carries(z, d, k) == Under(z[1], d, k) /\ Under(z[2], d, k) /\ Under(z[3], d, k)

\* The inductive invariant: the events on their way to an app are in order;
\* they are older than those their publishers have yet to get through; and
\* requests are numbered in the order of their socket, up to sent.
OrderInv ==
  /\ \A c \in Conn : Flow(heard[c], wire[c], queue[c])
  /\ \A d \in Conn : \A i \in 1 .. Len(up[d]) :
       /\ up[d][i].n <= sent
       /\ \A j \in 1 .. Len(up[d]) : i < j => up[d][i].n < up[d][j].n
       /\ \A c \in Conn : Carries(Stream(c), d, up[d][i].n)
  /\ \A c, d \in Conn : Carries(Stream(c), d, sent + 1)

LEMMA OrderInit == Init => OrderInv
<1>1. Len(<<>>) = 0
  OBVIOUS
<1>2. Flow(<<>>, <<>>, <<>>)
  BY <1>1 DEF Flow, Sorted, Ahead
<1> QED
  BY <1>1, <1>2, UnderEmpty DEF Init, OrderInv, Carries, Stream

\* A younger bound is a bound.
LEMMA UnderLater ==
  ASSUME NEW S, NEW s \in Seq(S), \A a \in S : a # Ack => a.n \in Nat,
         NEW d, NEW k \in Nat, NEW m \in Nat, k <= m, Under(s, d, k)
  PROVE  Under(s, d, m)
<1>1. ASSUME NEW i \in 1 .. Len(s) PROVE Older(s[i], d, m)
  <2>1. s[i] \in S
    BY ElementOfSeq
  <2> QED
    BY <2>1 DEF Under, Older
<1> QED
  BY <1>1 DEF Under

\* What goes into d's queue when c's request is read does not disturb a bound
\* that it is under itself.
LEMMA SentUnder ==
  ASSUME TypeOK, NEW c \in Conn, NEW R, NEW p \in Payload, NEW d \in Conn,
         NEW e, NEW k, Under(queue[d], e, k), Older(p, e, k)
  PROVE  Under(Sent(c, R, p)[d], e, k)
<1>1. queue[d] \in Seq(Payload) /\ Ack \in Payload /\ Older(Ack, e, k)
  BY DEF TypeOK, Payload, Older
<1>2. Under(Append(queue[d], Ack), e, k) /\ Under(Append(queue[d], p), e, k)
  BY <1>1, UnderAppend
<1> QED
  BY <1>2 DEF Sent, TrySend

\* Nor does it get in front of anything.
LEMMA SentFlow ==
  ASSUME TypeOK, NEW c \in Conn, NEW R, NEW p \in Payload, NEW d \in Conn,
         Flow(heard[d], wire[d], queue[d]), p # Ack => Carries(Stream(d), p.by, p.n)
  PROVE  Flow(heard[d], wire[d], Sent(c, R, p)[d])
<1>1. /\ queue[d] \in Seq(Payload) /\ wire[d] \in Seq(Payload) /\ Ack \in Payload
      /\ heard[d] \in Seq(Payload)
  BY SeqMonotonic DEF TypeOK, Payload
<1>2. Flow(heard[d], wire[d], Append(queue[d], Ack))
  BY <1>1, FlowQueue
<1>3. Flow(heard[d], wire[d], Append(queue[d], p))
  BY <1>1, FlowQueue DEF Carries, Stream
<1> QED
  BY <1>2, <1>3 DEF Sent, TrySend

\* Steps that only take from what connections carry, or move it on.
LEMMA OrderMoves ==
  ASSUME TypeOK, OrderInv, sent' = sent, NEW c \in Conn,
         \A d \in Conn \ {c} : heard'[d] = heard[d] /\ wire'[d] = wire[d] /\ queue'[d] = queue[d],
         \A d \in Conn : up'[d] = up[d] \/ up'[d] = <<>>,
         Flow(heard[c], wire[c], queue[c]) => Flow(heard'[c], wire'[c], queue'[c]),
         \A d, k : Carries(Stream(c), d, k) => Carries(Stream(c)', d, k)
  PROVE  OrderInv'
<1>1. \A d, e, k : d \in Conn /\ Carries(Stream(d), e, k) => Carries(Stream(d)', e, k)
  BY DEF Carries, Stream
<1>2. Len(<<>>) = 0
  OBVIOUS
<1> QED
  BY <1>1, <1>2 DEF OrderInv

\* A request more on a socket is the youngest of all.
LEMMA OrderSends ==
  ASSUME TypeOK, OrderInv, NEW c \in Conn, NEW op \in Op, NEW t \in Topic, Send(c, op, t),
         UNCHANGED <<heard, wire, queue>>
  PROVE  OrderInv'
<1> DEFINE r == [op |-> op, topic |-> t, n |-> sent']
<1>1. /\ r \in Request /\ r.n = sent + 1 /\ sent \in Nat /\ sent' = sent + 1
  BY BusAssumption DEF TypeOK, Send, Request
<1>2. /\ up'[c] = Append(up[c], r) /\ up[c] \in Seq(Request)
      /\ \A d \in Conn \ {c} : up'[d] = up[d]
  BY DEF TypeOK, Send
<1> HIDE DEF r
<1>3. /\ Len(up[c]) \in Nat /\ Len(up'[c]) = Len(up[c]) + 1
      /\ \A i \in 1 .. Len(up[c]) : up'[c][i] = up[c][i]
      /\ up'[c][Len(up[c]) + 1] = r
  BY <1>1, <1>2, AppendAt
<1>4. \A d, e, k : Carries(Stream(d)', e, k) <=> Carries(Stream(d), e, k)
  BY DEF Carries, Stream
<1>5. ASSUME NEW d \in Conn, NEW e \in Conn PROVE Carries(Stream(d), e, sent + 2)
  <2>1. \A a \in Payload : a # Ack => a.n \in Nat
    BY BusAssumption DEF Payload, Event
  <2>2. heard[d] \in Seq(Payload) /\ wire[d] \in Seq(Payload) /\ queue[d] \in Seq(Payload)
    BY SeqMonotonic DEF TypeOK, Payload
  <2>3. /\ Carries(Stream(d), e, sent + 1)
        /\ sent + 1 \in Nat /\ sent + 2 \in Nat /\ sent + 1 <= sent + 2
    BY <1>1 DEF OrderInv
  <2> QED
    BY <2>1, <2>2, <2>3, UnderLater DEF Carries, Stream
<1>6. ASSUME NEW d \in Conn, NEW i \in 1 .. Len(up[d])
      PROVE  up[d][i].n \in Nat /\ up[d][i].n <= sent
  <2>1. up[d][i] \in Request
    BY ElementOfSeq DEF TypeOK
  <2> QED
    BY <2>1, BusAssumption DEF OrderInv, Request
<1>7. ASSUME NEW d \in Conn, NEW i \in 1 .. Len(up'[d])
      PROVE  /\ up'[d][i].n <= sent'
             /\ \A j \in 1 .. Len(up'[d]) : i < j => up'[d][i].n < up'[d][j].n
             /\ \A e \in Conn : Carries(Stream(e)', d, up'[d][i].n)
  <2>1. CASE d # c
    BY <1>1, <1>2, <1>4, <1>6, <1>7, <2>1, SMTT(30) DEF OrderInv
  <2>2. CASE d = c /\ i \in 1 .. Len(up[c])
    <3>1. up'[c][i].n <= sent' /\ \A e \in Conn : Carries(Stream(e)', c, up'[c][i].n)
      BY <1>1, <1>3, <1>4, <1>6, <2>2, SMTT(30) DEF OrderInv
    <3>2. ASSUME NEW j \in 1 .. Len(up'[c]), i < j PROVE up'[c][i].n < up'[c][j].n
      <4>1. CASE j \in 1 .. Len(up[c])
        <5>1. up'[c][i] = up[c][i] /\ up'[c][j] = up[c][j]
          BY <1>3, <2>2, <4>1
        <5>2. up[c][i].n < up[c][j].n
          BY <2>2, <3>2, <4>1 DEF OrderInv
        <5> QED
          BY <5>1, <5>2
      <4>2. CASE j = Len(up[c]) + 1
        <5>1. up'[c][i] = up[c][i] /\ up'[c][j].n = sent + 1
          BY <1>1, <1>3, <2>2, <4>2
        <5>2. up[c][i].n \in Nat /\ up[c][i].n <= sent
          BY <1>6, <2>2
        <5> QED
          BY <1>1, <5>1, <5>2
      <4> QED
        BY <1>3, <4>1, <4>2
    <3> QED
      BY <2>2, <3>1, <3>2
  <2>3. CASE d = c /\ i = Len(up[c]) + 1
    <3>1. up'[c][i].n = sent + 1
      BY <1>1, <1>3, <2>3
    <3>2. \A e \in Conn : Carries(Stream(e)', c, sent + 1)
      BY <1>4 DEF OrderInv
    <3> QED
      BY <1>1, <1>3, <2>3, <3>1, <3>2
  <2> QED
    BY <1>2, <1>3, <1>7, <2>1, <2>2, <2>3
<1>8. \A d, e \in Conn : Carries(Stream(d)', e, sent' + 1)
  <2>1. sent' + 1 = sent + 2
    BY <1>1
  <2> QED
    BY <1>4, <1>5, <2>1
<1>9. \A d \in Conn : Flow(heard[d], wire[d], queue[d])'
  BY DEF OrderInv
<1> QED
  BY <1>7, <1>8, <1>9 DEF OrderInv

\* A request is read: its event is the youngest from its publisher so far, and
\* older than those it has still to get through.
LEMMA OrderReads ==
  ASSUME TypeOK, OrderInv, NEW c \in Conn, NEW op, Reads(c, op), NEW R, NEW p \in Payload,
         p # Ack => p.by = c /\ p.n = Head(up[c]).n, queue' = Sent(c, R, p)
  PROVE  OrderInv'
<1>1. /\ up[c] \in Seq(Request) /\ up[c] # <<>> /\ up'[c] = Tail(up[c])
      /\ \A d \in Conn \ {c} : up'[d] = up[d]
      /\ sent' = sent /\ heard' = heard /\ wire' = wire
  BY DEF TypeOK, Reads
<1>2. /\ Len(up[c]) \in Nat \ {0} /\ Len(up'[c]) = Len(up[c]) - 1 /\ Head(up[c]) = up[c][1]
      /\ \A i \in 1 .. Len(up[c]) - 1 : up'[c][i] = up[c][i + 1]
      /\ Head(up[c]) \in Request
  BY <1>1, TailAt
<1>3. sent \in Nat /\ Head(up[c]).n \in Nat
  BY <1>2, BusAssumption DEF TypeOK, Request
<1>4. 1 \in 1 .. Len(up[c]) /\ \A i \in 1 .. Len(up'[c]) : i + 1 \in 1 .. Len(up[c]) /\ 1 < i + 1
  BY <1>2
<1>5. ASSUME NEW d \in Conn PROVE Flow(heard[d], wire[d], queue[d])'
  <2>1. Flow(heard[d], wire[d], queue[d]) /\ (p # Ack => Carries(Stream(d), p.by, p.n))
    BY <1>2, <1>4 DEF OrderInv
  <2> QED
    BY <1>1, <2>1, SentFlow
<1>6. ASSUME NEW d \in Conn, NEW e, NEW k, Carries(Stream(d), e, k), Older(p, e, k)
      PROVE  Carries(Stream(d)', e, k)
  <2>1. Under(queue'[d], e, k)
    BY <1>6, SentUnder DEF Carries, Stream
  <2> QED
    BY <1>1, <1>6, <2>1 DEF Carries, Stream
<1>7. ASSUME NEW d \in Conn, NEW i \in 1 .. Len(up'[d])
      PROVE  /\ up'[d][i].n <= sent'
             /\ \A j \in 1 .. Len(up'[d]) : i < j => up'[d][i].n < up'[d][j].n
             /\ \A e \in Conn : Carries(Stream(e)', d, up'[d][i].n)
  <2>1. CASE d # c
    <3>1. Older(p, d, up[d][i].n) /\ up'[d] = up[d]
      BY <1>1, <2>1 DEF Older
    <3> QED
      BY <1>1, <1>6, <1>7, <3>1 DEF OrderInv
  <2>2. CASE d = c
    <3>1. up'[c][i] = up[c][i + 1] /\ i + 1 \in 1 .. Len(up[c])
      BY <1>2, <1>4, <1>7, <2>2
    <3>2. up[c][1].n < up[c][i + 1].n
      BY <1>4, <2>2, <1>7, <3>1 DEF OrderInv
    <3>3. Older(p, c, up[c][i + 1].n)
      BY <1>2, <3>2 DEF Older
    <3>4. ASSUME NEW j \in 1 .. Len(up'[c]), i < j PROVE up'[c][i].n < up'[c][j].n
      <4>1. up'[c][j] = up[c][j + 1] /\ j + 1 \in 1 .. Len(up[c]) /\ i + 1 < j + 1
        BY <1>2, <1>4, <2>2, <1>7, <3>4, SMTT(30)
      <4> QED
        BY <3>1, <4>1 DEF OrderInv
    <3>5. up[c][i + 1].n <= sent /\ \A e \in Conn : Carries(Stream(e), c, up[c][i + 1].n)
      BY <3>1 DEF OrderInv
    <3> QED
      BY <1>1, <1>6, <2>2, <3>1, <3>3, <3>4, <3>5
  <2> QED
    BY <2>1, <2>2
<1>8. ASSUME NEW d \in Conn, NEW e \in Conn PROVE Carries(Stream(d)', e, sent' + 1)
  <2>1. Head(up[c]).n <= sent
    BY <1>2, <1>4 DEF OrderInv
  <2>2. Head(up[c]).n < sent + 1
    BY <1>3, <2>1
  <2>3. Older(p, e, sent + 1)
    BY <2>2 DEF Older
  <2>4. Carries(Stream(d), e, sent + 1)
    BY DEF OrderInv
  <2> QED
    BY <1>1, <1>6, <2>3, <2>4
<1> QED
  BY <1>5, <1>7, <1>8 DEF OrderInv

LEMMA OrderStep == TypeOK /\ OrderInv /\ [Next]_vars => OrderInv'
<1> SUFFICES ASSUME TypeOK, OrderInv, [Next]_vars PROVE OrderInv'
  OBVIOUS
<1>1. CASE UNCHANGED <<sent, up, queue, wire, heard>>
  BY <1>1 DEF OrderInv, Carries, Stream
<1>2. CASE UNCHANGED vars
  BY <1>1, <1>2 DEF vars
<1>3. ASSUME NEW c \in Conn, AppSide(c) PROVE OrderInv'
  <2>1. CASE Connect(c)
    BY <1>1, <2>1 DEF Connect
  <2>2. ASSUME NEW op \in Op, NEW t \in Topic, SendRequest(c, op, t) PROVE OrderInv'
    BY <2>2, OrderSends DEF SendRequest
  <2>3. ASSUME NEW t \in Topic, NEW h \in Handler, Subscribe(c, t, h) \/ Unsubscribe(c, t, h)
        PROVE  OrderInv'
    <3>1. CASE \E op \in Op : Send(c, op, t)
      BY <2>3, <3>1, OrderSends DEF Subscribe, Unsubscribe
    <3>2. CASE UNCHANGED <<sent, up>>
      BY <1>1, <2>3, <3>2 DEF Subscribe, Unsubscribe
    <3> QED
      BY <2>3, <3>1, <3>2 DEF Subscribe, Unsubscribe, Op
  <2>4. CASE Receive(c)
    <3> DEFINE p == Head(wire[c])
    <3>1. /\ wire[c] \in Seq(Payload) /\ wire[c] # <<>> /\ queue[c] \in Seq(Payload)
          /\ heard[c] \in Seq(Payload)
      BY <2>4, SeqMonotonic DEF TypeOK, Receive, Payload
    <3>2. /\ wire'[c] = Tail(wire[c]) /\ queue' = queue /\ sent' = sent /\ up' = up
          /\ heard'[c] = heard[c] \/ heard'[c] = Append(heard[c], p)
          /\ \A d \in Conn \ {c} : heard'[d] = heard[d] /\ wire'[d] = wire[d]
      BY <2>4 DEF TypeOK, Receive
    <3>3. Flow(heard[c], wire[c], queue[c]) => Flow(heard'[c], wire'[c], queue'[c])
      BY <3>1, <3>2, FlowReceive
    <3>4. ASSUME NEW d, NEW k, Carries(Stream(c), d, k) PROVE Carries(Stream(c)', d, k)
      <4>1. Under(Tail(wire[c]), d, k) /\ Older(p, d, k) /\ p \in Payload
        BY <3>1, <3>4, UnderTail, HeadTail DEF Carries, Stream
      <4>2. Under(Append(heard[c], p), d, k)
        BY <3>1, <3>4, <4>1, UnderAppend DEF Carries, Stream
      <4> QED
        BY <3>2, <3>4, <4>1, <4>2 DEF Carries, Stream
    <3> QED
      BY <3>2, <3>3, <3>4, OrderMoves
  <2>5. CASE Leave(c)
    <3>1. /\ wire'[c] = <<>> /\ \A d \in Conn \ {c} : wire'[d] = wire[d]
          /\ UNCHANGED <<sent, up, queue, heard>>
      BY <2>5 DEF TypeOK, Leave
    <3>2. Flow(heard[c], wire[c], queue[c]) => Flow(heard'[c], wire'[c], queue'[c])
      BY <3>1, FlowDrop
    <3>3. \A d, k : Carries(Stream(c), d, k) => Carries(Stream(c)', d, k)
      BY <3>1, UnderEmpty DEF Carries, Stream
    <3> QED
      BY <3>1, <3>2, <3>3, OrderMoves
  <2> QED
    BY <1>3, <2>1, <2>2, <2>3, <2>4, <2>5 DEF AppSide
<1>4. ASSUME NEW c \in Conn, Reader(c) PROVE OrderInv'
  <2>1. CASE ReadRegister(c) \/ ReadSubscribe(c) \/ ReadUnsubscribe(c)
    <3>1. /\ \E op \in Op : Reads(c, op)
          /\ queue' = Sent(c, {}, Ack) /\ Ack \in Payload
      BY <2>1 DEF ReadRegister, ReadSubscribe, ReadUnsubscribe, Payload, Op
    <3> QED
      BY <3>1, OrderReads
  <2>2. CASE ReadPublish(c)
    <3> DEFINE r == Head(up[c])
    <3>1. EventOf(c, r) \in Payload /\ EventOf(c, r).by = c /\ EventOf(c, r).n = r.n
      BY <2>2, EventOfHead DEF ReadPublish, Reads, Payload, EventOf
    <3>2. queue' = Sent(c, subs[r.topic] \ {c}, EventOf(c, r)) /\ Reads(c, "publish")
      BY <2>2 DEF ReadPublish
    <3> QED
      BY <3>1, <3>2, OrderReads
  <2>3. CASE ReadEnds(c)
    <3>1. /\ UNCHANGED <<sent, queue, wire, heard>>
          /\ \A d \in Conn : up'[d] = up[d] \/ up'[d] = <<>>
      BY <2>3 DEF TypeOK, ReadEnds
    <3>2. \A d, k : Carries(Stream(c), d, k) => Carries(Stream(c)', d, k)
      BY <3>1 DEF Carries, Stream
    <3> QED
      BY <3>1, <3>2, OrderMoves
  <2>4. CASE CleanUp(c) \/ Done(c)
    BY <1>1, <2>4 DEF CleanUp, Done
  <2> QED
    BY <1>4, <2>1, <2>2, <2>3, <2>4 DEF Reader
<1>5. ASSUME NEW c \in Conn, Writer(c) PROVE OrderInv'
  <2>1. CASE Write(c)
    <3>1. /\ queue[c] \in Seq(Payload) /\ queue[c] # <<>> /\ wire[c] \in Seq(Payload)
          /\ heard[c] \in Seq(Payload)
      BY <2>1, SeqMonotonic DEF TypeOK, Write, Payload
    <3>2. /\ wire'[c] = Append(wire[c], Head(queue[c])) /\ queue'[c] = Tail(queue[c])
          /\ UNCHANGED <<sent, up, heard>>
          /\ \A d \in Conn \ {c} : queue'[d] = queue[d] /\ wire'[d] = wire[d]
      BY <2>1 DEF TypeOK, Write
    <3>3. Flow(heard[c], wire[c], queue[c]) => Flow(heard'[c], wire'[c], queue'[c])
      BY <3>1, <3>2, FlowWrite
    <3>4. ASSUME NEW d, NEW k, Carries(Stream(c), d, k) PROVE Carries(Stream(c)', d, k)
      <4>1. Under(Tail(queue[c]), d, k) /\ Older(Head(queue[c]), d, k) /\ Head(queue[c]) \in Payload
        BY <3>1, <3>4, UnderTail, HeadTail DEF Carries, Stream
      <4>2. Under(Append(wire[c], Head(queue[c])), d, k)
        BY <3>1, <3>4, <4>1, UnderAppend DEF Carries, Stream
      <4> QED
        BY <3>2, <3>4, <4>1, <4>2 DEF Carries, Stream
    <3> QED
      BY <3>2, <3>3, <3>4, OrderMoves
  <2>2. CASE WriterEnds(c)
    <3>1. /\ queue'[c] = <<>> /\ \A d \in Conn \ {c} : queue'[d] = queue[d]
          /\ UNCHANGED <<sent, up, wire, heard>>
      BY <2>2 DEF TypeOK, WriterEnds
    <3>2. Flow(heard[c], wire[c], queue[c]) => Flow(heard'[c], wire'[c], queue'[c])
      BY <3>1, FlowDrop
    <3>3. \A d, k : Carries(Stream(c), d, k) => Carries(Stream(c)', d, k)
      BY <3>1, UnderEmpty DEF Carries, Stream
    <3> QED
      BY <3>1, <3>2, <3>3, OrderMoves
  <2> QED
    BY <1>5, <2>1, <2>2 DEF Writer
<1> QED
  BY <1>2, <1>3, <1>4, <1>5 DEF Next

\* What the bus passes on arrives at most once and in its publisher's order,
\* and its table ends up as the apps' handlers have it: for any apps, topics,
\* handlers and queue sizes, and however many requests they make.
THEOREM BusKeepsItsPromise == Spec => []BusDelivers
<1>1. TypeOK /\ OrderInv => InOrderOnce
  <2> SUFFICES ASSUME TypeOK, OrderInv, NEW c \in Conn
               PROVE  Sorted(heard[c] \o wire[c] \o queue[c])
    BY DEF InOrderOnce, Sorted, MayFollow
  <2>1. heard[c] \in Seq(Payload) /\ wire[c] \in Seq(Payload) /\ queue[c] \in Seq(Payload)
    BY SeqMonotonic DEF TypeOK, Payload
  <2>2. Flow(heard[c], wire[c], queue[c])
    BY DEF OrderInv
  <2> QED
    BY <2>1, <2>2, FlowSorted
<1>2. FollowInv => TableFollowsHandlers
  BY DEF FollowInv, Follows, EndsAs, TableFollowsHandlers, About, AboutIn, SaysOf
<1>3. TypeOK /\ OrderInv /\ FollowInv => BusDelivers
  BY <1>1, <1>2 DEF BusDelivers
<1> QED
  BY <1>3, TypeInit, TypeStep, FollowInit, FollowStep, OrderInit, OrderStep, PTL DEF Spec

-----------------------------------------------------------------------------
(* The tool calls of an MCP session. *)


-----------------------------------------------------------------------------
(* The inductive invariant. *)

Going == {"opening", "calling", "waiting"}

\* The connections opened so far are the first ones.
OpenedInOrder == \E k \in 0..MaxConns[runtime] : Calls!Opened = 1..k

\* Nothing has been opened or started before the sandbox is ready, and the
\* client has a connection from then on.
ReadyFirst ==
  /\ sandbox # "ready" => Calls!Opened = {} /\ \A c \in Call : ~Calls!Started(c)
  /\ sandbox = "ready" => cur \in Calls!Links

\* Only a session that owns its sandbox stops it, and one that does not has
\* interrupted what was in flight by the time it has exited.
EndsInterrupted ==
  /\ phase = "stopping" => owns
  /\ phase = "exited" /\ ~owns => inFlight = {}

\* A call that has not been started has left no trace.
UnstartedIsClean(c) ==
  ~Calls!Started(c) => /\ records[c] = <<>> /\ c \notin inFlight
                       /\ sentOn[c] = {} /\ c \notin resend

\* One in flight is not settled nor recorded; another one has one record, its
\* own or the interrupt's.
RecordedOnce(c) ==
  Calls!Started(c) =>
    IF c \in inFlight THEN stage[c] \in Going /\ records[c] = <<>>
    ELSE \/ records[c] = <<"interrupted">>
         \/ stage[c] = "done" /\ records[c] = <<Calls!RecordOf(outcome[c])>>

\* A call's waiter is in `pending` from its first write on, on a connection.
WaitsOnLink(c) ==
  /\ c \in pending <=> stage[c] = "waiting"
  /\ stage[c] \in {"calling", "waiting"} => target[c] \in Calls!Links
  /\ stage[c] # "done" => outcome[c] = "none"

\* Its line is written from then on, and a second time only if it was refused.
WrittenAsSaid(c) ==
  /\ stage[c] \in {"opening", "calling"} => sentOn[c] = {} /\ c \notin resend
  /\ outcome[c] = "notSent" => sentOn[c] = {}
  /\ Calls!Believable => /\ sentOn[c] \subseteq {target[c]}
                         /\ c \in resend \cap pending => sentOn[c] = {}
                         /\ outcome[c] = "notWritten" => sentOn[c] = {}
  /\ outcome[c] = "closed" => /\ runtime = "vm" /\ target[c] \in Calls!Links
                              /\ conn[target[c]] = "closed"

CallInv(c) == UnstartedIsClean(c) /\ RecordedOnce(c) /\ WaitsOnLink(c) /\ WrittenAsSaid(c)

CallsInv ==
  /\ Calls!TypeOK /\ OpenedInOrder /\ ReadyFirst /\ EndsInterrupted
  /\ \A c \in Call : CallInv(c)

-----------------------------------------------------------------------------
(* The connections. *)

(* The connections opened are the same when none comes into use.           *)
LEMMA SameOpened ==
    ASSUME OpenedInOrder, runtime' = runtime,
           \A n \in Calls!Links : conn'[n] = "unused" <=> conn[n] = "unused"
    PROVE  Calls!Opened' = Calls!Opened /\ OpenedInOrder'
  <1>1. Calls!Opened' = Calls!Opened
    BY DEF Calls!Opened, Calls!Links
  <1> QED
    BY <1>1 DEF OpenedInOrder

\* An instance's cardinality is the one of the library.
LEMMA SameCount == ASSUME NEW S PROVE Calls!Cardinality(S) = Cardinality(S)
  BY DEF Calls!Cardinality, Cardinality, Calls!IsFiniteSet, IsFiniteSet

(* The next connection is one that has not been used, and opening it keeps *)
(* the order.                                                              *)
LEMMA NextLink ==
    ASSUME Calls!CallsAssumption, Calls!TypeOK, OpenedInOrder, Calls!NextConn \in Calls!Links,
           NEW held \in {"open", "refusing"}, runtime' = runtime,
           conn' = [conn EXCEPT ![Calls!NextConn] = held]
    PROVE  /\ conn[Calls!NextConn] = "unused"
           /\ OpenedInOrder'
           /\ conn' \in [Calls!Links -> {"unused", "open", "refusing", "closed"}]
           /\ \A n \in Calls!Links : conn[n] = "closed" => conn'[n] = "closed"
  <1> DEFINE m == MaxConns[runtime]
  <1>1. m \in Nat
    BY DEF Calls!CallsAssumption, Calls!TypeOK
  <1>2. PICK k \in 0..m : Calls!Opened = 1..k
    BY DEF OpenedInOrder
  <1>3. Calls!NextConn = k + 1
    <2>1. k \in Nat
      BY <1>1, <1>2
    <2>2. Cardinality(1..k) = IF 1 > k THEN 0 ELSE k - 1 + 1
      BY <2>1, FS_Interval
    <2>3. Cardinality(1..k) = k
      BY <2>1, <2>2
    <2> QED
      BY <1>2, <2>3, SameCount DEF Calls!NextConn
  <1>4. k + 1 \in 1..m
    BY <1>3 DEF Calls!Links
  <1>5. k + 1 \notin Calls!Opened
    BY <1>1, <1>2
  <1>6. conn[k + 1] = "unused"
    BY <1>4, <1>5 DEF Calls!Opened, Calls!Links
  <1>7. conn' \in [Calls!Links -> {"unused", "open", "refusing", "closed"}]
    BY DEF Calls!TypeOK
  <1>8. Calls!Opened' = Calls!Opened \cup {k + 1}
    BY <1>3, <1>4 DEF Calls!Opened, Calls!Links, Calls!TypeOK
  <1>9. Calls!Opened' = 1..(k + 1)
    BY <1>1, <1>2, <1>8
  <1>10. OpenedInOrder'
    BY <1>1, <1>4, <1>9 DEF OpenedInOrder
  <1> QED
    BY <1>3, <1>6, <1>7, <1>10 DEF Calls!TypeOK

-----------------------------------------------------------------------------
(* One call. *)

(* A call that nothing happens to keeps its invariant, whatever becomes of *)
(* the connections that are not closed yet.                                *)
LEMMA CallKeeps ==
    ASSUME NEW c \in Call, CallInv(c), runtime' = runtime,
           stage'[c] = stage[c], outcome'[c] = outcome[c], records'[c] = records[c],
           c \in inFlight' <=> c \in inFlight, c \in pending' <=> c \in pending,
           c \in resend' => c \in resend,
           target'[c] = target[c], sentOn'[c] = sentOn[c],
           \A n \in Calls!Links : conn[n] = "closed" => conn'[n] = "closed"
    PROVE  CallInv(c)'
  <1>1. UnstartedIsClean(c)'
    BY DEF CallInv, UnstartedIsClean, Calls!Started
  <1>2. RecordedOnce(c)'
    BY DEF CallInv, RecordedOnce, Calls!Started
  <1>3. WaitsOnLink(c)'
    BY DEF CallInv, WaitsOnLink, Calls!Links
  <1>4. WrittenAsSaid(c)'
    BY DEF CallInv, WrittenAsSaid, Calls!Links, Calls!Believable
  <1> QED
    BY <1>1, <1>2, <1>3, <1>4 DEF CallInv

(* Settling is well typed.                                                 *)
LEMMA SettleTyped ==
    ASSUME Calls!TypeOK, NEW S \in SUBSET Call, NEW why \in Calls!Outcomes, Calls!Settle(S, why)
    PROVE  /\ stage' \in [Call -> {"idle", "boot", "opening", "calling", "waiting", "done"}]
           /\ outcome' \in [Call -> Calls!Outcomes]
           /\ pending' \subseteq Call /\ inFlight' \subseteq Call
           /\ records' \in [Call -> Seq({"answer", "notSent", "unanswered", "interrupted"})]
  BY DEF Calls!TypeOK, Calls!Settle, Calls!RecordOf

(* A call that is settled was under way; it keeps its invariant when what  *)
(* it is settled with agrees with what was written.                        *)
LEMMA CallSettles ==
    ASSUME Calls!TypeOK, NEW c \in Call, CallInv(c), stage[c] \in Going,
           NEW S, NEW why \in Calls!Outcomes \ {"none", "unavailable"}, Calls!Settle(S, why), c \in S,
           runtime' = runtime,
           why = "notSent" => sentOn'[c] = {},
           Calls!Believable => sentOn'[c] \subseteq {target'[c]},
           Calls!Believable /\ why = "notWritten" => sentOn'[c] = {},
           why = "closed" => /\ runtime = "vm" /\ target'[c] \in Calls!Links
                             /\ conn'[target'[c]] = "closed"
    PROVE  CallInv(c)'
  <1>1. stage'[c] = "done" /\ outcome'[c] = why /\ c \notin inFlight' /\ c \notin pending'
    BY DEF Calls!Settle, Calls!TypeOK
  <1>2. Calls!Started(c) /\ Calls!Started(c)'
    BY <1>1 DEF Calls!Started, Going
  <1>3. records'[c] = IF c \in inFlight THEN Append(records[c], Calls!RecordOf(why)) ELSE records[c]
    BY DEF Calls!Settle
  <1>4. records'[c] = <<"interrupted">> \/ records'[c] = <<Calls!RecordOf(why)>>
    <2>1. CASE c \in inFlight
      <3>1. records[c] = <<>>
        BY <1>2, <2>1 DEF CallInv, RecordedOnce
      <3> QED
        BY <1>3, <2>1, <3>1
    <2>2. CASE c \notin inFlight
      BY <1>2, <1>3, <2>2 DEF CallInv, RecordedOnce, Going
    <2> QED
      BY <2>1, <2>2
  <1>5. UnstartedIsClean(c)'
    BY <1>2 DEF UnstartedIsClean
  <1>6. RecordedOnce(c)'
    BY <1>1, <1>4 DEF RecordedOnce
  <1>7. WaitsOnLink(c)'
    BY <1>1 DEF WaitsOnLink
  <1>8. WrittenAsSaid(c)'
    BY <1>1 DEF WrittenAsSaid, Calls!Links, Calls!Believable
  <1> QED
    BY <1>5, <1>6, <1>7, <1>8 DEF CallInv

(* When some calls settle and the others are left alone, every call keeps  *)
(* its invariant.                                                          *)
LEMMA AllSettle ==
    ASSUME CallsInv, NEW S \in SUBSET Call, NEW why \in Calls!Outcomes \ {"none", "unavailable"},
           Calls!Settle(S, why), runtime' = runtime, target' = target, sentOn' = sentOn,
           resend' \subseteq resend,
           \A n \in Calls!Links : conn[n] = "closed" => conn'[n] = "closed",
           \A c \in S : /\ stage[c] \in Going
                        /\ why = "notSent" => sentOn[c] = {}
                        /\ Calls!Believable /\ why = "notWritten" => sentOn[c] = {}
                        /\ why = "closed" => /\ runtime = "vm" /\ target[c] \in Calls!Links
                                             /\ conn'[target[c]] = "closed"
    PROVE  \A c \in Call : CallInv(c)'
  <1> SUFFICES ASSUME NEW c \in Call PROVE CallInv(c)'
    OBVIOUS
  <1>0. CallInv(c)
    BY DEF CallsInv
  <1>1. CASE c \in S
    <2>1. Calls!Believable => sentOn'[c] \subseteq {target'[c]}
      BY <1>0 DEF CallInv, WrittenAsSaid
    <2> QED
      BY <1>0, <1>1, <2>1, CallSettles DEF CallsInv
  <1>2. CASE c \notin S
    <2>1. /\ stage'[c] = stage[c] /\ outcome'[c] = outcome[c] /\ records'[c] = records[c]
          /\ c \in inFlight' <=> c \in inFlight
          /\ c \in pending' <=> c \in pending
      BY <1>2 DEF Calls!Settle
    <2> QED
      BY <1>0, <2>1, CallKeeps
  <1> QED
    BY <1>1, <1>2

(* A call that has just been started keeps its invariant.                  *)
LEMMA CallStarts ==
    ASSUME CallsInv, NEW S \in SUBSET Call, NEW usable \in BOOLEAN, NEW n,
           usable => n \in Calls!Links, Calls!Start(S, usable, n),
           \A c \in S : stage[c] \in {"idle", "boot"},
           runtime' = runtime, outcome' = outcome, records' = records, pending' = pending,
           resend' = resend, sentOn' = sentOn,
           \A m \in Calls!Links : conn[m] = "closed" => conn'[m] = "closed"
    PROVE  \A c \in Call : CallInv(c)'
  <1> SUFFICES ASSUME NEW c \in Call PROVE CallInv(c)'
    OBVIOUS
  <1>0. CallInv(c)
    BY DEF CallsInv
  <1>1. CASE c \in S
    <2>1. stage'[c] \in {"opening", "calling"} /\ c \in inFlight'
          /\ (stage'[c] = "calling" => target'[c] \in Calls!Links')
      BY <1>1 DEF Calls!Start, Calls!Links
    <2>2. ~Calls!Started(c) /\ stage[c] # "waiting" /\ stage[c] # "done"
      BY <1>1 DEF Calls!Started
    <2>3. records[c] = <<>> /\ sentOn[c] = {} /\ c \notin resend /\ outcome[c] = "none"
          /\ c \notin pending
      BY <1>0, <2>2 DEF CallInv, UnstartedIsClean, WaitsOnLink
    <2>4. UnstartedIsClean(c)'
      BY <2>1 DEF UnstartedIsClean, Calls!Started
    <2>5. RecordedOnce(c)'
      BY <2>1, <2>3 DEF RecordedOnce, Going
    <2>6. WaitsOnLink(c)'
      BY <2>1, <2>3 DEF WaitsOnLink
    <2>7. WrittenAsSaid(c)'
      BY <2>3 DEF WrittenAsSaid
    <2> QED
      BY <2>4, <2>5, <2>6, <2>7 DEF CallInv
  <1>2. CASE c \notin S
    <2>1. stage'[c] = stage[c] /\ target'[c] = target[c] /\ (c \in inFlight' <=> c \in inFlight)
      BY <1>2 DEF Calls!Start, CallsInv, Calls!TypeOK
    <2> QED
      BY <1>0, <2>1, CallKeeps
  <1> QED
    BY <1>1, <1>2

(* A call that is given up before it has been started keeps its invariant. *)
LEMMA CallUnavailable ==
    ASSUME CallsInv, NEW S \in SUBSET Call, \A c \in S : stage[c] \in {"idle", "boot"},
           stage' = [c \in Call |-> IF c \in S THEN "done" ELSE stage[c]],
           outcome' = [c \in Call |-> IF c \in S THEN "unavailable" ELSE outcome[c]],
           runtime' = runtime, inFlight' = inFlight, records' = records, Calls!client' = Calls!client,
           sentOn' = sentOn
    PROVE  \A c \in Call : CallInv(c)' /\ (Calls!Started(c)' <=> Calls!Started(c))
  <1> SUFFICES ASSUME NEW c \in Call PROVE CallInv(c)' /\ (Calls!Started(c)' <=> Calls!Started(c))
    OBVIOUS
  <1>0. CallInv(c) /\ pending' = pending /\ resend' = resend /\ target' = target /\ conn' = conn
    BY DEF CallsInv, Calls!client
  <1>1. CASE c \in S
    <2>1. stage'[c] = "done" /\ outcome'[c] = "unavailable"
      BY <1>1
    <2>2. ~Calls!Started(c) /\ ~Calls!Started(c)' /\ stage[c] # "waiting"
      BY <1>1, <2>1 DEF Calls!Started
    <2>3. records[c] = <<>> /\ sentOn[c] = {} /\ c \notin resend /\ c \notin pending
          /\ c \notin inFlight
      BY <1>0, <2>2 DEF CallInv, UnstartedIsClean, WaitsOnLink
    <2>4. UnstartedIsClean(c)' /\ RecordedOnce(c)'
      BY <1>0, <2>2, <2>3 DEF UnstartedIsClean, RecordedOnce
    <2>5. WaitsOnLink(c)'
      BY <1>0, <2>1, <2>3 DEF WaitsOnLink
    <2>6. WrittenAsSaid(c)'
      BY <1>0, <2>1, <2>3 DEF WrittenAsSaid
    <2> QED
      BY <2>2, <2>4, <2>5, <2>6 DEF CallInv
  <1>2. CASE c \notin S
    <2>1. stage'[c] = stage[c] /\ outcome'[c] = outcome[c]
      BY <1>2
    <2> QED
      BY <1>0, <2>1, CallKeeps DEF Calls!Started
  <1> QED
    BY <1>1, <1>2

-----------------------------------------------------------------------------
(* One step. *)

(* A call that is under way has a sandbox and a connection.                *)
LEMMA UnderWay ==
    ASSUME CallsInv, NEW c \in Call, stage[c] \in Going \/ c \in pending \/ c \in resend
    PROVE  Calls!Started(c) /\ sandbox = "ready" /\ cur \in Calls!Links
  <1>1. CallInv(c)
    BY DEF CallsInv
  <1>2. Calls!Started(c)
    BY <1>1 DEF CallInv, WaitsOnLink, UnstartedIsClean, Calls!Started, Going
  <1> QED
    BY <1>2 DEF CallsInv, ReadyFirst, Calls!TypeOK

(* What a step that neither boots nor ends the session has to show.        *)
LEMMA WhileUp ==
    ASSUME CallsInv, phase # "exited", phase' = phase, Calls!kind' = Calls!kind, sandbox' = sandbox,
           sandbox = "ready", cur' \in Calls!Links, OpenedInOrder', Calls!TypeOK',
           \A c \in Call : CallInv(c)'
    PROVE  CallsInv'
  <1>1. runtime' = runtime /\ owns' = owns
    BY DEF Calls!kind
  <1>2. ReadyFirst'
    BY <1>1 DEF ReadyFirst, Calls!Links
  <1>3. EndsInterrupted'
    BY <1>1 DEF CallsInv, EndsInterrupted
  <1> QED
    BY <1>2, <1>3 DEF CallsInv

(* A step that only settles calls that were under way.                     *)
LEMMA SettlesOnly ==
    ASSUME CallsInv, NEW S \in SUBSET Call, NEW why \in Calls!Outcomes \ {"none", "unavailable"},
           Calls!Settle(S, why), phase # "exited", sandbox = "ready", cur \in Calls!Links, Calls!TypeOK',
           UNCHANGED <<Calls!bridge, target, cur, sentOn>>, resend' \subseteq resend,
           \A n \in Calls!Links : conn'[n] = "unused" <=> conn[n] = "unused",
           \A n \in Calls!Links : conn[n] = "closed" => conn'[n] = "closed",
           \A c \in S : /\ stage[c] \in Going
                        /\ why = "notSent" => sentOn[c] = {}
                        /\ Calls!Believable /\ why = "notWritten" => sentOn[c] = {}
                        /\ why = "closed" => /\ runtime = "vm" /\ target[c] \in Calls!Links
                                             /\ conn'[target[c]] = "closed"
    PROVE  CallsInv'
  <1>1. runtime' = runtime /\ Calls!kind' = Calls!kind /\ phase' = phase /\ sandbox' = sandbox /\ cur' = cur
    BY DEF Calls!bridge, Calls!kind
  <1>2. OpenedInOrder'
    BY <1>1, SameOpened DEF CallsInv
  <1>3. \A c \in Call : CallInv(c)'
    BY <1>1, AllSettle
  <1> QED
    BY <1>1, <1>2, <1>3, WhileUp

(* A request arrives: it is given up, waits for the boot or is started.    *)
LEMMA ArriveStep ==
    ASSUME CallsInv, NEW c \in Call, Calls!Arrive(c)
    PROVE  CallsInv'
  <1>0. /\ runtime' = runtime /\ owns' = owns /\ sandbox' = sandbox /\ phase' = phase
        /\ pipe' = pipe /\ sentOn' = sentOn /\ conn' = conn /\ cur' = cur
        /\ answered' = answered /\ lines' = lines /\ pending' = pending /\ resend' = resend
        /\ cancelled' = cancelled /\ records' = records /\ stage[c] = "idle" /\ phase # "exited"
    BY DEF Calls!Arrive, Calls!bridge, Calls!kind, Calls!app, Calls!client, Calls!Unavailable
  <1>1. OpenedInOrder' /\ Calls!Opened' = Calls!Opened
    BY <1>0, SameOpened DEF CallsInv
  <1>2. CASE /\ sandbox = "starting" /\ stage' = [stage EXCEPT ![c] = "boot"]
             /\ UNCHANGED <<outcome, cancelled, inFlight, records, Calls!client>>
    <2>1. Calls!TypeOK'
      BY <1>0, <1>2 DEF CallsInv, Calls!TypeOK, Calls!Links, Calls!client
    <2>2. ASSUME NEW d \in Call PROVE CallInv(d)' /\ ~Calls!Started(d)'
      <3>0. CallInv(d) /\ ~Calls!Started(d)
        BY <1>2 DEF CallsInv, ReadyFirst
      <3>1. CASE d = c
        <4>1. stage'[d] = "boot" /\ stage[d] = "idle" /\ target' = target
              /\ outcome' = outcome /\ inFlight' = inFlight
          BY <1>0, <1>2, <3>1 DEF CallsInv, Calls!TypeOK, Calls!client
        <4>2. ~Calls!Started(d)'
          BY <4>1 DEF Calls!Started
        <4>3. UnstartedIsClean(d)' /\ RecordedOnce(d)'
          BY <1>0, <3>0, <4>1, <4>2 DEF CallInv, UnstartedIsClean, RecordedOnce
        <4>4. WaitsOnLink(d)'
          BY <1>0, <3>0, <4>1 DEF CallInv, WaitsOnLink
        <4>5. outcome'[d] = "none" /\ sentOn'[d] = {} /\ d \notin resend'
          BY <1>0, <3>0, <4>1 DEF CallInv, WaitsOnLink, UnstartedIsClean
        <4>6. WrittenAsSaid(d)'
          BY <4>5 DEF WrittenAsSaid
        <4> QED
          BY <4>2, <4>3, <4>4, <4>6 DEF CallInv
      <3>2. CASE d # c
        <4>1. stage'[d] = stage[d] /\ target' = target /\ outcome' = outcome
              /\ inFlight' = inFlight
          BY <1>2, <3>2 DEF CallsInv, Calls!TypeOK, Calls!client
        <4> QED
          BY <1>0, <3>0, <4>1, CallKeeps DEF Calls!Started
      <3> QED
        BY <3>1, <3>2
    <2>3. ReadyFirst' /\ EndsInterrupted'
      BY <1>0, <1>1, <1>2, <2>2 DEF CallsInv, ReadyFirst, EndsInterrupted
    <2> QED
      BY <1>1, <2>1, <2>2, <2>3 DEF CallsInv
  <1>3. CASE /\ sandbox = "ready" /\ Calls!Start({c}, conn[cur] = "open", cur)
             /\ UNCHANGED <<outcome, cancelled, records, pending, resend, conn, cur>>
    <2>1. cur \in Calls!Links
      BY <1>3 DEF CallsInv, ReadyFirst
    <2>2. Calls!TypeOK'
      BY <1>0, <1>3, <2>1 DEF CallsInv, Calls!TypeOK, Calls!Links, Calls!Start
    <2>3. \A d \in Call : CallInv(d)'
      <3>0. /\ {c} \in SUBSET Call /\ \A d \in {c} : stage[d] \in {"idle", "boot"}
            /\ outcome' = outcome /\ \A m \in Calls!Links : conn[m] = "closed" => conn'[m] = "closed"
        BY <1>0, <1>3
      <3>1. CASE conn[cur] = "open"
        <4>1. Calls!Start({c}, TRUE, cur)
          BY <1>3, <3>1 DEF Calls!Start
        <4> QED
          BY <1>0, <2>1, <3>0, <4>1, CallStarts
      <3>2. CASE conn[cur] # "open"
        <4>1. Calls!Start({c}, FALSE, cur)
          BY <1>3, <3>2 DEF Calls!Start
        <4> QED
          BY <1>0, <3>0, <4>1, CallStarts
      <3> QED
        BY <3>1, <3>2
    <2> QED
      BY <1>0, <1>1, <1>3, <2>1, <2>2, <2>3, WhileUp DEF Calls!kind, Calls!Links
  <1>4. CASE sandbox = "failed" /\ Calls!Unavailable({c}) /\ UNCHANGED Calls!client
    <2>1. Calls!TypeOK'
      BY <1>0, <1>4 DEF CallsInv, Calls!TypeOK, Calls!Links, Calls!Unavailable, Calls!Outcomes, Calls!client
    <2>2. \A d \in Call : CallInv(d)' /\ (Calls!Started(d)' <=> Calls!Started(d))
      BY <1>0, <1>4, CallUnavailable DEF Calls!Unavailable
    <2>3. ReadyFirst' /\ EndsInterrupted'
      BY <1>0, <1>1, <1>4, <2>2 DEF CallsInv, ReadyFirst, EndsInterrupted
    <2> QED
      BY <1>1, <2>1, <2>2, <2>3 DEF CallsInv
  <1> QED
    BY <1>2, <1>3, <1>4 DEF Calls!Arrive

(* The boot ends: the calls waiting for it are started, or given up.       *)
LEMMA BootStep ==
    ASSUME Calls!CallsAssumption, CallsInv, Calls!SandboxReady \/ Calls!SandboxFails
                       \/ \E c \in Call : Calls!BootWaitTimesOut(c)
    PROVE  CallsInv'
  <1>1. CASE Calls!SandboxReady
    <2>0. /\ runtime' = runtime /\ owns' = owns /\ sandbox' = "ready" /\ phase' = phase
          /\ cur' = 1 /\ conn' = [conn EXCEPT ![1] = "open"] /\ phase \in {"up", "pending"}
      BY <1>1 DEF Calls!SandboxReady, Calls!kind
    <2>1. 1 \in Calls!Links /\ MaxConns[runtime] \in Nat
      BY DEF CallsInv, Calls!TypeOK, Calls!CallsAssumption, Calls!Links
    <2>2. Calls!Opened = {}
      BY <1>1 DEF CallsInv, ReadyFirst, Calls!SandboxReady
    <2>a. /\ Calls!Booting \in SUBSET Call /\ Calls!Start(Calls!Booting, TRUE, 1)
          /\ \A c \in Calls!Booting : stage[c] \in {"idle", "boot"}
          /\ outcome' = outcome /\ cancelled' = cancelled /\ records' = records
          /\ pending' = pending /\ resend' = resend /\ pipe' = pipe /\ sentOn' = sentOn
          /\ answered' = answered /\ lines' = lines
      BY <1>1 DEF Calls!SandboxReady, Calls!Booting, Calls!app
    <2>b. conn' \in [Calls!Links -> {"unused", "open", "refusing", "closed"}]
      BY <2>0 DEF CallsInv, Calls!TypeOK
    <2>c. /\ stage' \in [Call -> {"idle", "boot", "opening", "calling", "waiting", "done"}]
          /\ target' \in [Call -> Calls!Links \cup {Calls!NoConn}] /\ inFlight' \subseteq Call
      BY <2>a, <2>1 DEF Calls!Start, CallsInv, Calls!TypeOK
    <2>3. Calls!TypeOK'
      BY <2>0, <2>1, <2>a, <2>b, <2>c DEF CallsInv, Calls!TypeOK, Calls!Links
    <2>4. \A n \in Calls!Links : conn[n] = "unused"
      BY <2>2 DEF Calls!Opened
    <2>5. Calls!Opened' = 1..1
      BY <2>0, <2>1, <2>4 DEF Calls!Opened, Calls!Links, CallsInv, Calls!TypeOK
    <2>6. OpenedInOrder'
      BY <2>0, <2>1, <2>5 DEF OpenedInOrder, Calls!Links
    <2>7. \A d \in Call : CallInv(d)'
      <3>1. \A m \in Calls!Links : conn[m] = "closed" => conn'[m] = "closed"
        BY <2>4
      <3> QED
        BY <2>0, <2>1, <2>a, <3>1, CallStarts
    <2>8. ReadyFirst' /\ EndsInterrupted'
      BY <2>0, <2>1 DEF ReadyFirst, EndsInterrupted, Calls!Links
    <2> QED
      BY <2>3, <2>6, <2>7, <2>8 DEF CallsInv
  <1>2. ASSUME NEW S \in SUBSET Call, \A c \in S : stage[c] = "boot", Calls!Unavailable(S),
               UNCHANGED <<Calls!kind, phase, pipe, Calls!client, Calls!app>>, phase # "exited",
               sandbox' \in {sandbox, "failed"}, sandbox' = "failed" => sandbox # "ready"
        PROVE  CallsInv'
    <2>0. /\ runtime' = runtime /\ owns' = owns /\ phase' = phase /\ conn' = conn /\ cur' = cur
          /\ sentOn' = sentOn
      BY <1>2 DEF Calls!kind, Calls!client, Calls!app
    <2>1. Calls!TypeOK'
      BY <1>2, <2>0 DEF CallsInv, Calls!TypeOK, Calls!Links, Calls!Unavailable, Calls!Outcomes, Calls!client, Calls!app, Calls!kind
    <2>2. OpenedInOrder' /\ Calls!Opened' = Calls!Opened
      BY <2>0, SameOpened DEF CallsInv
    <2>3. \A d \in Call : CallInv(d)' /\ (Calls!Started(d)' <=> Calls!Started(d))
      BY <1>2, <2>0, CallUnavailable DEF Calls!Unavailable
    <2>4. ReadyFirst' /\ EndsInterrupted'
      BY <1>2, <2>0, <2>2, <2>3 DEF CallsInv, ReadyFirst, EndsInterrupted, Calls!Links
    <2> QED
      BY <2>1, <2>2, <2>3, <2>4 DEF CallsInv
  <1>3. CASE Calls!SandboxFails
    BY <1>2, <1>3 DEF Calls!SandboxFails, Calls!Booting
  <1>4. ASSUME NEW c \in Call, Calls!BootWaitTimesOut(c) PROVE CallsInv'
    <2>1. sandbox' = "failed" => sandbox # "ready"
      BY <1>4 DEF Calls!BootWaitTimesOut, Calls!bridge
    <2> QED
      BY <1>2, <1>4, <2>1 DEF Calls!BootWaitTimesOut, Calls!bridge
  <1> QED
    BY <1>1, <1>3, <1>4

(* A call is settled from where it is suspended: it fails to connect or to *)
(* be written again, times out, or its answer comes.                       *)
LEMMA EndStep ==
    ASSUME CallsInv, NEW c \in Call,
           Calls!OpenFails(c) \/ Calls!ResendFails(c) \/ Calls!TimesOut(c) \/ \E n \in Calls!Links : Calls!Answer(n, c)
    PROVE  CallsInv'
  <1>0. CallInv(c)
    BY DEF CallsInv
  <1>1. CASE Calls!OpenFails(c)
    <2>1. {c} \in SUBSET Call /\ "noConnection" \in Calls!Outcomes \ {"none", "unavailable"}
          /\ Calls!Settle({c}, "noConnection") /\ stage[c] \in Going /\ phase # "exited"
          /\ UNCHANGED <<Calls!bridge, target, cur, sentOn>> /\ resend' = resend /\ conn' = conn
      BY <1>1 DEF Calls!OpenFails, Calls!Outcomes, Going, Calls!app
    <2>2. Calls!TypeOK'
      BY <1>1, <2>1, SettleTyped DEF Calls!OpenFails, CallsInv, Calls!TypeOK, Calls!Links, Calls!bridge, Calls!kind, Calls!app
    <2> QED
      BY <2>1, <2>2, UnderWay, SettlesOnly
  <1>2. CASE Calls!TimesOut(c)
    <2>1. {c} \in SUBSET Call /\ "timedOut" \in Calls!Outcomes \ {"none", "unavailable"}
          /\ Calls!Settle({c}, "timedOut") /\ stage[c] \in Going /\ phase # "exited"
          /\ UNCHANGED <<Calls!bridge, target, cur, sentOn>> /\ resend' = resend /\ conn' = conn
      BY <1>0, <1>2 DEF Calls!TimesOut, Calls!Outcomes, Going, Calls!app, CallInv, WaitsOnLink
    <2>2. Calls!TypeOK'
      BY <1>2, <2>1, SettleTyped DEF Calls!TimesOut, CallsInv, Calls!TypeOK, Calls!Links, Calls!bridge, Calls!kind, Calls!app
    <2> QED
      BY <2>1, <2>2, UnderWay, SettlesOnly
  <1>3. CASE Calls!ResendFails(c)
    <2> DEFINE S == {c} \cap pending
    <2>1. S \in SUBSET Call /\ "notWritten" \in Calls!Outcomes \ {"none", "unavailable"}
          /\ Calls!Settle(S, "notWritten") /\ phase # "exited" /\ c \in resend
          /\ UNCHANGED <<Calls!bridge, target, cur, sentOn>> /\ conn' = conn
          /\ resend' \subseteq resend
      BY <1>3 DEF Calls!ResendFails, Calls!Outcomes, Calls!app
    <2>2. \A d \in S : stage[d] \in Going /\ (Calls!Believable => sentOn[d] = {})
      BY <1>0, <2>1 DEF CallInv, WaitsOnLink, WrittenAsSaid, Going
    <2>3. Calls!TypeOK'
      BY <1>3, <2>1, SettleTyped DEF Calls!ResendFails, CallsInv, Calls!TypeOK, Calls!Links, Calls!bridge, Calls!kind, Calls!app
    <2> HIDE DEF S
    <2> QED
      BY <2>1, <2>2, <2>3, UnderWay, SettlesOnly
  <1>4. ASSUME NEW n \in Calls!Links, Calls!Answer(n, c) PROVE CallsInv'
    <2> DEFINE S == {c} \cap pending
    <2>1. S \in SUBSET Call /\ "answered" \in Calls!Outcomes \ {"none", "unavailable"}
          /\ Calls!Settle(S, "answered") /\ phase # "exited"
          /\ UNCHANGED <<Calls!bridge, target, cur, sentOn>> /\ conn' = conn /\ resend' = resend
      BY <1>4 DEF Calls!Answer, Calls!Outcomes
    <2>2. \A d \in S : stage[d] \in Going
      BY <1>0 DEF CallInv, WaitsOnLink, Going
    <2>3. Calls!TypeOK'
      BY <1>4, <2>1, SettleTyped DEF Calls!Answer, CallsInv, Calls!TypeOK, Calls!Links, Calls!bridge, Calls!kind
    <2>4. CASE c \in pending
      <3>1. sandbox = "ready" /\ cur \in Calls!Links
        BY <2>4, UnderWay
      <3> HIDE DEF S
      <3> QED
        BY <2>1, <2>2, <2>3, <3>1, SettlesOnly
    <2>5. CASE c \notin pending
      <3>1. S = {}
        BY <2>5
      <3>2. runtime' = runtime /\ owns' = owns /\ phase' = phase /\ sandbox' = sandbox
            /\ target' = target /\ sentOn' = sentOn /\ cur' = cur
        BY <2>1 DEF Calls!bridge, Calls!kind
      <3>3. \A d \in Call : stage'[d] = stage[d] /\ outcome'[d] = outcome[d]
                            /\ records'[d] = records[d]
        BY <2>1, <3>1 DEF Calls!Settle
      <3>4. inFlight' = inFlight /\ pending' = pending
        BY <2>1, <3>1 DEF Calls!Settle
      <3>5. \A d \in Call : CallInv(d)' /\ (Calls!Started(d)' <=> Calls!Started(d))
        BY <2>1, <3>2, <3>3, <3>4, CallKeeps DEF CallsInv, Calls!Started
      <3>6. OpenedInOrder' /\ Calls!Opened' = Calls!Opened
        BY <2>1, <3>2, SameOpened DEF CallsInv
      <3>7. ReadyFirst' /\ EndsInterrupted'
        BY <3>2, <3>4, <3>5, <3>6 DEF CallsInv, ReadyFirst, EndsInterrupted, Calls!Links
      <3> QED
        BY <2>3, <3>5, <3>6, <3>7 DEF CallsInv
    <2> QED
      BY <2>4, <2>5
  <1> QED
    BY <1>1, <1>2, <1>3, <1>4

(* A connection refuses, and then closes, failing the calls that wait on   *)
(* it.                                                                     *)
LEMMA ConnStep ==
    ASSUME CallsInv, NEW n \in Calls!Links, Calls!ConnRefuses(n) \/ Calls!ConnCloses(n)
    PROVE  CallsInv'
  <1>1. n \in Calls!Opened
    BY DEF Calls!ConnRefuses, Calls!ConnCloses, Calls!Opened
  <1>2. sandbox = "ready" /\ cur \in Calls!Links
    BY <1>1 DEF CallsInv, ReadyFirst
  <1>3. CASE Calls!ConnRefuses(n)
    <2>0. runtime' = runtime /\ Calls!kind' = Calls!kind /\ phase' = phase /\ sandbox' = sandbox
          /\ phase # "exited" /\ cur' = cur
      BY <1>3 DEF Calls!ConnRefuses, Calls!bridge, Calls!kind
    <2>1. Calls!TypeOK'
      BY <1>3 DEF Calls!ConnRefuses, CallsInv, Calls!TypeOK, Calls!Links, Calls!bridge, Calls!kind, Calls!handler, Calls!app
    <2>2. \A m \in Calls!Links : /\ conn'[m] = "unused" <=> conn[m] = "unused"
                                 /\ conn[m] = "closed" => conn'[m] = "closed"
      BY <1>3 DEF Calls!ConnRefuses, CallsInv, Calls!TypeOK
    <2>3. OpenedInOrder'
      BY <2>0, <2>2, SameOpened DEF CallsInv
    <2>4. stage' = stage /\ outcome' = outcome /\ records' = records /\ inFlight' = inFlight
          /\ pending' = pending /\ resend' = resend /\ target' = target /\ sentOn' = sentOn
      BY <1>3 DEF Calls!ConnRefuses, Calls!handler, Calls!app
    <2>5. \A d \in Call : CallInv(d)'
      BY <2>0, <2>2, <2>4, CallKeeps DEF CallsInv
    <2> QED
      BY <1>2, <2>0, <2>1, <2>3, <2>5, WhileUp
  <1>4. CASE Calls!ConnCloses(n)
    <2> DEFINE S == {c \in pending : runtime = "vm" /\ target[c] = n}
    <2>1. S \in SUBSET Call /\ "closed" \in Calls!Outcomes \ {"none", "unavailable"}
          /\ Calls!Settle(S, "closed") /\ phase # "exited"
          /\ UNCHANGED <<Calls!bridge, target, cur, sentOn>> /\ resend' = resend
      BY <1>4 DEF Calls!ConnCloses, Calls!Outcomes, CallsInv, Calls!TypeOK
    <2>2. conn' = [conn EXCEPT ![n] = "closed"] /\ conn[n] = "refusing" /\ conn'[n] = "closed"
      BY <1>4 DEF Calls!ConnCloses, CallsInv, Calls!TypeOK
    <2>3. \A m \in Calls!Links : /\ conn'[m] = "unused" <=> conn[m] = "unused"
                                 /\ conn[m] = "closed" => conn'[m] = "closed"
      BY <2>2 DEF CallsInv, Calls!TypeOK
    <2>4. \A d \in S : /\ stage[d] \in Going /\ runtime = "vm" /\ target[d] \in Calls!Links
                       /\ conn'[target[d]] = "closed"
      BY <2>2 DEF CallsInv, CallInv, WaitsOnLink, Going, Calls!TypeOK
    <2>5. conn' \in [Calls!Links -> {"unused", "open", "refusing", "closed"}]
      BY <2>2 DEF CallsInv, Calls!TypeOK
    <2>6. Calls!TypeOK'
      BY <1>4, <2>1, <2>5, SettleTyped DEF Calls!ConnCloses, CallsInv, Calls!TypeOK, Calls!Links, Calls!bridge, Calls!kind
    <2> HIDE DEF S
    <2> QED
      BY <1>2, <2>1, <2>3, <2>4, <2>6, SettlesOnly
  <1> QED
    BY <1>3, <1>4

(* The app answers: nothing changes on this side of the wire.              *)
LEMMA AppStep ==
    ASSUME CallsInv, NEW c \in Call, Calls!AppAnswers(c)
    PROVE  CallsInv'
  <1>0. UNCHANGED <<Calls!bridge, Calls!handler, Calls!client, sentOn>>
    BY DEF Calls!AppAnswers
  <1>1. runtime' = runtime /\ owns' = owns /\ phase' = phase /\ sandbox' = sandbox
        /\ cur' = cur /\ conn' = conn
    BY <1>0 DEF Calls!bridge, Calls!kind, Calls!client
  <1>2. stage' = stage /\ outcome' = outcome /\ records' = records /\ inFlight' = inFlight
        /\ pending' = pending /\ resend' = resend /\ target' = target /\ sentOn' = sentOn
    BY <1>0 DEF Calls!handler, Calls!client
  <1>3. Calls!TypeOK'
    BY <1>0, <1>1, <1>2 DEF Calls!AppAnswers, CallsInv, Calls!TypeOK, Calls!Links, Calls!bridge, Calls!kind, Calls!handler
  <1>4. \A d \in Call : CallInv(d)' /\ (Calls!Started(d)' <=> Calls!Started(d))
    BY <1>1, <1>2, CallKeeps DEF CallsInv, Calls!Started
  <1>5. OpenedInOrder' /\ Calls!Opened' = Calls!Opened
    BY <1>1, SameOpened DEF CallsInv
  <1>6. ReadyFirst' /\ EndsInterrupted'
    BY <1>1, <1>2, <1>4, <1>5 DEF CallsInv, ReadyFirst, EndsInterrupted, Calls!Links
  <1> QED
    BY <1>3, <1>4, <1>5, <1>6 DEF CallsInv

(* The client cancels a call: one that waits settles, of one that is being *)
(* sent it is only noted.                                                  *)
LEMMA CancelStep ==
    ASSUME CallsInv, NEW c \in Call, Calls!Cancel(c)
    PROVE  CallsInv'
  <1>0. /\ phase # "exited" /\ cancelled' = cancelled \cup {c} /\ conn' = conn /\ cur' = cur
        /\ runtime' = runtime /\ owns' = owns /\ phase' = phase /\ sandbox' = sandbox
        /\ pipe' = pipe /\ target' = target /\ resend' = resend /\ sentOn' = sentOn
        /\ answered' = answered /\ lines' = lines
    BY DEF Calls!Cancel, Calls!bridge, Calls!kind, Calls!app
  <1>1. OpenedInOrder' /\ Calls!Opened' = Calls!Opened
    BY <1>0, SameOpened DEF CallsInv
  <1>2. CASE /\ stage[c] = "boot" /\ stage' = [stage EXCEPT ![c] = "done"]
             /\ outcome' = [outcome EXCEPT ![c] = "unavailable"]
             /\ UNCHANGED <<inFlight, records, pending>>
    <2>1. /\ {c} \in SUBSET Call /\ \A d \in {c} : stage[d] \in {"idle", "boot"}
          /\ stage' = [d \in Call |-> IF d \in {c} THEN "done" ELSE stage[d]]
          /\ outcome' = [d \in Call |-> IF d \in {c} THEN "unavailable" ELSE outcome[d]]
          /\ inFlight' = inFlight /\ records' = records /\ Calls!client' = Calls!client
      BY <1>0, <1>2 DEF CallsInv, Calls!TypeOK, Calls!client
    <2>2. \A d \in Call : CallInv(d)' /\ (Calls!Started(d)' <=> Calls!Started(d))
      BY <1>0, <2>1, CallUnavailable
    <2>3. Calls!TypeOK'
      BY <1>0, <1>2 DEF CallsInv, Calls!TypeOK, Calls!Links, Calls!Outcomes
    <2>4. ReadyFirst' /\ EndsInterrupted'
      BY <1>0, <1>1, <2>1, <2>2 DEF CallsInv, ReadyFirst, EndsInterrupted, Calls!Links
    <2> QED
      BY <1>1, <2>2, <2>3, <2>4 DEF CallsInv
  <1>3. CASE /\ stage[c] \in {"opening", "calling"}
             /\ UNCHANGED <<stage, outcome, inFlight, records, pending>>
    <2>1. Calls!TypeOK'
      BY <1>0, <1>3 DEF CallsInv, Calls!TypeOK, Calls!Links
    <2>2. \A d \in Call : CallInv(d)'
      BY <1>0, <1>3, CallKeeps DEF CallsInv
    <2>3. sandbox = "ready" /\ cur \in Calls!Links
      BY <1>3, UnderWay DEF Going
    <2> QED
      BY <1>0, <1>1, <2>1, <2>2, <2>3, WhileUp DEF Calls!kind
  <1>4. CASE stage[c] = "waiting" /\ Calls!Settle({c}, "gaveUp")
    <2>1. {c} \in SUBSET Call /\ "gaveUp" \in Calls!Outcomes \ {"none", "unavailable"}
          /\ stage[c] \in Going /\ UNCHANGED <<Calls!bridge, target, cur, sentOn>>
      BY <1>0, <1>4 DEF Calls!Outcomes, Going, Calls!bridge, Calls!kind
    <2>2. Calls!TypeOK'
      BY <1>0, <1>4, <2>1, SettleTyped DEF CallsInv, Calls!TypeOK, Calls!Links
    <2> QED
      BY <1>0, <1>4, <2>1, <2>2, UnderWay, SettlesOnly
  <1> QED
    BY <1>2, <1>3, <1>4 DEF Calls!Cancel

(* The connection a call waited for is open: the call goes on with it.     *)
LEMMA OpenStep ==
    ASSUME Calls!CallsAssumption, CallsInv, NEW c \in Call, Calls!OpenDone(c)
    PROVE  CallsInv'
  <1>0. /\ phase # "exited" /\ stage[c] = "opening" /\ Calls!NextConn \in Calls!Links
        /\ conn' = [conn EXCEPT ![Calls!NextConn] = "open"] /\ cur' = Calls!NextConn
        /\ target' = [target EXCEPT ![c] = Calls!NextConn]
        /\ stage' = [stage EXCEPT ![c] = "calling"] /\ UNCHANGED Calls!bridge
        /\ runtime' = runtime /\ Calls!kind' = Calls!kind /\ phase' = phase /\ sandbox' = sandbox
        /\ outcome' = outcome /\ cancelled' = cancelled /\ inFlight' = inFlight
        /\ records' = records /\ pending' = pending /\ resend' = resend /\ sentOn' = sentOn
        /\ answered' = answered /\ lines' = lines
    BY DEF Calls!OpenDone, Calls!bridge, Calls!kind, Calls!app
  <1>1. /\ OpenedInOrder'
        /\ conn' \in [Calls!Links -> {"unused", "open", "refusing", "closed"}]
        /\ \A n \in Calls!Links : conn[n] = "closed" => conn'[n] = "closed"
    BY <1>0, NextLink DEF CallsInv
  <1>2. Calls!TypeOK'
    BY <1>0, <1>1 DEF CallsInv, Calls!TypeOK, Calls!Links, Calls!bridge, Calls!kind
  <1>3. ASSUME NEW d \in Call PROVE CallInv(d)'
    <2>0. CallInv(d)
      BY DEF CallsInv
    <2>1. CASE d = c
      <3>1. stage[d] = "opening" /\ stage'[d] = "calling" /\ target'[d] = Calls!NextConn
        BY <1>0, <2>1 DEF CallsInv, Calls!TypeOK
      <3>2. Calls!Started(d) /\ Calls!Started(d)' /\ outcome[d] = "none" /\ sentOn[d] = {} /\ d \notin resend
            /\ d \notin pending
        BY <2>0, <3>1 DEF Calls!Started, CallInv, WaitsOnLink, WrittenAsSaid
      <3>3. UnstartedIsClean(d)' /\ RecordedOnce(d)'
        BY <1>0, <2>0, <3>1, <3>2 DEF UnstartedIsClean, RecordedOnce, CallInv, Going
      <3>4. WaitsOnLink(d)'
        BY <1>0, <3>1, <3>2 DEF WaitsOnLink, Calls!Links
      <3>5. WrittenAsSaid(d)'
        BY <1>0, <3>1, <3>2 DEF WrittenAsSaid
      <3> QED
        BY <3>3, <3>4, <3>5 DEF CallInv
    <2>2. CASE d # c
      <3>1. stage'[d] = stage[d] /\ target'[d] = target[d]
        BY <1>0, <2>2 DEF CallsInv, Calls!TypeOK
      <3> QED
        BY <1>0, <1>1, <2>0, <3>1, CallKeeps
    <2> QED
      BY <2>1, <2>2
  <1>4. sandbox = "ready" /\ cur' \in Calls!Links
    BY <1>0, UnderWay DEF Going
  <1> QED
    BY <1>0, <1>1, <1>2, <1>3, <1>4, WhileUp

(* What a write may do: a refusal is believable unless the stream is       *)
(* Docker's and its requests are long.                                     *)
LEMMA WritesBelieved ==
    ASSUME Calls!CallsAssumption, NEW held, NEW w \in Calls!Writes(held)
    PROVE  /\ w.taken \in BOOLEAN /\ w.returned \in BOOLEAN
           /\ Calls!Believable => (w.taken <=> w.returned)
           /\ Calls!Believable /\ held = "open" => w.returned
  <1> DEFINE took == [taken |-> TRUE, returned |-> TRUE]
             dropped == [taken |-> FALSE, returned |-> FALSE]
             queued == [taken |-> TRUE, returned |-> FALSE]
  <1>1. CASE held = "open"
    <2>1. w \in {took} \cup (IF runtime = "docker" /\ LongLines THEN {queued} ELSE {})
      BY <1>1 DEF Calls!Writes
    <2>2. w = took \/ (w = queued /\ ~Calls!Believable)
      BY <2>1 DEF Calls!Believable
    <2>3. (w.taken = TRUE /\ w.returned = TRUE)
          \/ (w.taken = TRUE /\ w.returned = FALSE /\ ~Calls!Believable)
      BY <2>2
    <2> QED
      BY <2>3
  <1>2. CASE held = "refusing" /\ runtime = "docker"
    <2>1. w \in {took, dropped} \cup (IF LongLines THEN {queued} ELSE {})
      BY <1>2 DEF Calls!Writes
    <2>2. w = took \/ w = dropped \/ (w = queued /\ ~Calls!Believable)
      BY <1>2, <2>1 DEF Calls!Believable
    <2>3. (w.taken = TRUE /\ w.returned = TRUE) \/ (w.taken = FALSE /\ w.returned = FALSE)
          \/ (w.taken = TRUE /\ w.returned = FALSE /\ ~Calls!Believable)
      BY <2>2
    <2> QED
      BY <1>2, <2>3
  <1>3. CASE held # "open" /\ ~(held = "refusing" /\ runtime = "docker")
    <2>1. w = dropped
      BY <1>3 DEF Calls!Writes
    <2> QED
      BY <1>3, <2>1
  <1> QED
    BY <1>1, <1>2, <1>3

(* The rest of call(): the call is given up if it was cancelled meanwhile, *)
(* and otherwise written, or not, on its connection.                       *)
LEMMA SendStep ==
    ASSUME Calls!CallsAssumption, CallsInv, NEW c \in Call, Calls!Send(c)
    PROVE  CallsInv'
  <1> DEFINE n == target[c]
  <1>0. /\ phase # "exited" /\ stage[c] = "calling" /\ UNCHANGED Calls!bridge /\ Calls!kind' = Calls!kind
        /\ runtime' = runtime /\ phase' = phase /\ sandbox' = sandbox /\ cancelled' = cancelled
        /\ target' = target /\ conn' = conn /\ cur' = cur /\ answered' = answered
        /\ lines' = lines
    BY DEF Calls!Send, Calls!bridge, Calls!kind
  <1>1. /\ CallInv(c) /\ n \in Calls!Links /\ Calls!Started(c) /\ sandbox = "ready" /\ cur \in Calls!Links
        /\ sentOn[c] = {} /\ c \notin resend /\ outcome[c] = "none" /\ c \notin pending
    BY <1>0, UnderWay DEF CallsInv, CallInv, WaitsOnLink, WrittenAsSaid, Going
  <1>2. OpenedInOrder'
    BY <1>0, SameOpened DEF CallsInv
  <1>3. CASE c \in cancelled /\ Calls!Settle({c}, "notSent") /\ UNCHANGED <<resend, sentOn>>
    <2>1. {c} \in SUBSET Call /\ "notSent" \in Calls!Outcomes \ {"none", "unavailable"}
          /\ stage[c] \in Going
      BY <1>0 DEF Calls!Outcomes, Going
    <2>2. Calls!TypeOK'
      BY <1>0, <1>3, <2>1, SettleTyped DEF CallsInv, Calls!TypeOK, Calls!Links, Calls!bridge, Calls!kind
    <2> QED
      BY <1>0, <1>1, <1>3, <2>1, <2>2, SettlesOnly
  <1>4. ASSUME NEW w \in Calls!Writes(conn[n]), Calls!Sent(c, n, w),
               w.returned \/ conn[n] # "open",
               stage' = [stage EXCEPT ![c] = "waiting"], pending' = pending \cup {c},
               resend' = IF w.returned THEN resend ELSE resend \cup {c},
               UNCHANGED <<outcome, inFlight, records>>
        PROVE  CallsInv'
    <2>1. sentOn' = [sentOn EXCEPT ![c] = IF w.taken THEN @ \cup {n} ELSE @]
      BY <1>4 DEF Calls!Sent
    <2>2. Calls!TypeOK'
      BY <1>0, <1>1, <1>4, <2>1 DEF CallsInv, Calls!TypeOK, Calls!Links, Calls!bridge, Calls!kind
    <2>3. ASSUME NEW d \in Call PROVE CallInv(d)'
      <3>0. CallInv(d)
        BY DEF CallsInv
      <3>1. CASE d = c
        <4>1. stage'[c] = "waiting" /\ c \in pending' /\ Calls!Started(c)'
          BY <1>0, <1>4 DEF CallsInv, Calls!TypeOK, Calls!Started
        <4>2. sentOn'[c] = IF w.taken THEN {n} ELSE {}
          BY <1>1, <2>1 DEF CallsInv, Calls!TypeOK
        <4>3. UnstartedIsClean(c)'
          BY <4>1 DEF UnstartedIsClean
        <4>4. RecordedOnce(c)'
          BY <1>0, <1>1, <1>4, <4>1 DEF CallInv, RecordedOnce, Going
        <4>5. WaitsOnLink(c)'
          BY <1>0, <1>1, <1>4, <4>1 DEF WaitsOnLink, Calls!Links
        <4>6. Calls!Believable' <=> Calls!Believable
          BY <1>0 DEF Calls!Believable
        <4>7. Calls!Believable /\ c \in resend' => sentOn'[c] = {}
          BY <1>1, <1>4, <4>2, WritesBelieved
        <4>8. sentOn'[c] \subseteq {target'[c]}
          BY <1>0, <4>2
        <4>9. WrittenAsSaid(c)'
          BY <1>1, <1>4, <4>1, <4>6, <4>7, <4>8 DEF WrittenAsSaid
        <4> QED
          BY <3>1, <4>3, <4>4, <4>5, <4>9 DEF CallInv
      <3>2. CASE d # c
        <4>1. /\ stage'[d] = stage[d] /\ sentOn'[d] = sentOn[d] /\ (d \in pending' <=> d \in pending)
              /\ (d \in resend' <=> d \in resend) /\ outcome' = outcome /\ inFlight' = inFlight
              /\ records' = records
          BY <1>4, <2>1, <3>2 DEF CallsInv, Calls!TypeOK
        <4> QED
          BY <1>0, <3>0, <4>1, CallKeeps
      <3> QED
        BY <3>1, <3>2
    <2> QED
      BY <1>0, <1>1, <1>2, <2>2, <2>3, WhileUp
  <1>5. ASSUME NEW w \in Calls!Writes(conn[n]), Calls!Sent(c, n, w), ~w.returned, conn[n] = "open",
               Calls!Settle({c}, "notWritten"), UNCHANGED resend
        PROVE  CallsInv'
    <2>1. sentOn' = [sentOn EXCEPT ![c] = IF w.taken THEN @ \cup {n} ELSE @]
      BY <1>5 DEF Calls!Sent
    <2>2. {c} \in SUBSET Call /\ "notWritten" \in Calls!Outcomes \ {"none", "unavailable"}
          /\ stage[c] \in Going
      BY <1>0 DEF Calls!Outcomes, Going
    <2>3. Calls!TypeOK'
      BY <1>0, <1>1, <1>5, <2>1, <2>2, SettleTyped DEF CallsInv, Calls!TypeOK, Calls!Links, Calls!bridge, Calls!kind
    <2>4. ~Calls!Believable
      BY <1>5, WritesBelieved
    <2>5. ASSUME NEW d \in Call PROVE CallInv(d)'
      <3>0. CallInv(d)
        BY DEF CallsInv
      <3>1. CASE d = c
        BY <1>0, <1>5, <2>2, <2>4, <3>0, <3>1, CallSettles DEF CallsInv
      <3>2. CASE d # c
        <4>1. /\ stage'[d] = stage[d] /\ sentOn'[d] = sentOn[d] /\ (d \in pending' <=> d \in pending)
              /\ d \in inFlight' <=> d \in inFlight
              /\ outcome'[d] = outcome[d] /\ records'[d] = records[d] /\ resend' = resend
          BY <1>5, <2>1, <3>2 DEF CallsInv, Calls!TypeOK, Calls!Settle
        <4> QED
          BY <1>0, <3>0, <4>1, CallKeeps
      <3> QED
        BY <3>1, <3>2
    <2> QED
      BY <1>0, <1>1, <1>2, <2>3, <2>5, WhileUp
  <1> QED
    BY <1>3, <1>4, <1>5 DEF Calls!Send

(* A refused line's new connection: its waiter moves there and its line is *)
(* written again, if its call still waits.                                 *)
LEMMA ResendStep ==
    ASSUME Calls!CallsAssumption, CallsInv, NEW c \in Call, Calls!Resend(c)
    PROVE  CallsInv'
  <1> DEFINE n == Calls!NextConn
  <1>1. PICK held \in {"open", "refusing"} :
          /\ conn' = [conn EXCEPT ![n] = held]
          /\ \/ /\ c \notin pending
                /\ UNCHANGED <<stage, outcome, inFlight, records, pending, target, sentOn>>
             \/ /\ c \in pending
                /\ target' = [target EXCEPT ![c] = n]
                /\ \E w \in Calls!Writes(held) :
                     /\ Calls!Sent(c, n, w)
                     /\ \/ /\ w.returned
                           /\ UNCHANGED <<stage, outcome, inFlight, records, pending>>
                        \/ /\ ~w.returned
                           /\ Calls!Settle({c}, "notWritten")
    BY DEF Calls!Resend
  <1>2. /\ phase # "exited" /\ c \in resend /\ n \in Calls!Links /\ resend' = resend \ {c} /\ cur' = n
        /\ UNCHANGED Calls!bridge /\ Calls!kind' = Calls!kind /\ runtime' = runtime /\ phase' = phase
        /\ sandbox' = sandbox /\ cancelled' = cancelled /\ answered' = answered /\ lines' = lines
    BY DEF Calls!Resend, Calls!bridge, Calls!kind
  <1>3. /\ OpenedInOrder'
        /\ conn' \in [Calls!Links -> {"unused", "open", "refusing", "closed"}]
        /\ \A m \in Calls!Links : conn[m] = "closed" => conn'[m] = "closed"
    BY <1>1, <1>2, NextLink DEF CallsInv
  <1>4. sandbox = "ready" /\ cur' \in Calls!Links /\ Calls!Started(c) /\ CallInv(c)
    BY <1>2, UnderWay DEF CallsInv
  <1> HIDE DEF n
  <1>5. SUFFICES Calls!TypeOK' /\ \A d \in Call : CallInv(d)'
    BY <1>2, <1>3, <1>4, WhileUp
  <1>6. CASE /\ c \notin pending
             /\ UNCHANGED <<stage, outcome, inFlight, records, pending, target, sentOn>>
    <2>1. Calls!TypeOK'
      BY <1>2, <1>3, <1>6 DEF CallsInv, Calls!TypeOK, Calls!Links, Calls!bridge, Calls!kind
    <2>2. \A d \in Call : CallInv(d)'
      BY <1>2, <1>3, <1>6, CallKeeps DEF CallsInv
    <2> QED
      BY <2>1, <2>2
  <1>7. ASSUME c \in pending, target' = [target EXCEPT ![c] = n],
               NEW w \in Calls!Writes(held), Calls!Sent(c, n, w),
               w.returned, UNCHANGED <<stage, outcome, inFlight, records, pending>>
        PROVE  Calls!TypeOK' /\ \A d \in Call : CallInv(d)'
    <2>1. sentOn' = [sentOn EXCEPT ![c] = IF w.taken THEN @ \cup {n} ELSE @]
      BY <1>7 DEF Calls!Sent
    <2>2. Calls!TypeOK'
      BY <1>2, <1>3, <1>7, <2>1 DEF CallsInv, Calls!TypeOK, Calls!Links, Calls!bridge, Calls!kind
    <2>3. ASSUME NEW d \in Call PROVE CallInv(d)'
      <3>0. CallInv(d)
        BY DEF CallsInv
      <3>1. CASE d = c
        <4>1. target'[c] = n /\ stage'[c] = "waiting" /\ outcome'[c] = "none" /\ c \notin resend'
              /\ stage[c] = "waiting" /\ outcome[c] = "none" /\ c \in pending'
          BY <1>2, <1>4, <1>7 DEF CallsInv, Calls!TypeOK, CallInv, WaitsOnLink
        <4>2. Calls!Believable => sentOn[c] = {}
          BY <1>2, <1>4, <1>7 DEF CallInv, WrittenAsSaid
        <4>3. sentOn'[c] = sentOn[c] \/ sentOn'[c] = sentOn[c] \cup {n}
          BY <2>1 DEF CallsInv, Calls!TypeOK
        <4>4. Calls!Believable' <=> Calls!Believable
          BY <1>2 DEF Calls!Believable
        <4>5. UnstartedIsClean(c)' /\ RecordedOnce(c)'
          BY <1>4, <1>7, <4>1 DEF UnstartedIsClean, RecordedOnce, CallInv, Calls!Started, Going
        <4>6. WaitsOnLink(c)'
          BY <1>2, <4>1 DEF WaitsOnLink, Calls!Links
        <4>7. WrittenAsSaid(c)'
          BY <4>1, <4>2, <4>3, <4>4 DEF WrittenAsSaid
        <4> QED
          BY <3>1, <4>5, <4>6, <4>7 DEF CallInv
      <3>2. CASE d # c
        <4>1. /\ target'[d] = target[d] /\ sentOn'[d] = sentOn[d]
              /\ stage' = stage /\ outcome' = outcome /\ inFlight' = inFlight
              /\ records' = records /\ pending' = pending
          BY <1>7, <2>1, <3>2 DEF CallsInv, Calls!TypeOK
        <4> QED
          BY <1>2, <1>3, <3>0, <4>1, CallKeeps
      <3> QED
        BY <3>1, <3>2
    <2> QED
      BY <2>2, <2>3
  <1>8. ASSUME c \in pending, target' = [target EXCEPT ![c] = n],
               NEW w \in Calls!Writes(held), Calls!Sent(c, n, w),
               ~w.returned, Calls!Settle({c}, "notWritten")
        PROVE  Calls!TypeOK' /\ \A d \in Call : CallInv(d)'
    <2>1. sentOn' = [sentOn EXCEPT ![c] = IF w.taken THEN @ \cup {n} ELSE @]
      BY <1>8 DEF Calls!Sent
    <2>2. {c} \in SUBSET Call /\ "notWritten" \in Calls!Outcomes \ {"none", "unavailable"}
          /\ stage[c] \in Going
      BY <1>4, <1>8 DEF Calls!Outcomes, Going, CallInv, WaitsOnLink
    <2>3. Calls!TypeOK'
      BY <1>2, <1>3, <1>8, <2>1, <2>2, SettleTyped DEF CallsInv, Calls!TypeOK, Calls!Links, Calls!bridge, Calls!kind
    <2>4. Calls!Believable => sentOn'[c] = {}
      <3>1. Calls!Believable => sentOn[c] = {}
        BY <1>2, <1>4, <1>8 DEF CallInv, WrittenAsSaid
      <3>2. Calls!Believable => ~w.taken
        BY <1>8, WritesBelieved
      <3> QED
        BY <2>1, <3>1, <3>2 DEF CallsInv, Calls!TypeOK
    <2>5. ASSUME NEW d \in Call PROVE CallInv(d)'
      <3>0. CallInv(d)
        BY DEF CallsInv
      <3>1. CASE d = c
        BY <1>2, <1>8, <2>2, <2>4, <3>0, <3>1, CallSettles DEF CallsInv
      <3>2. CASE d # c
        <4>1. /\ stage'[d] = stage[d] /\ sentOn'[d] = sentOn[d] /\ (d \in pending' <=> d \in pending)
              /\ (d \in inFlight' <=> d \in inFlight) /\ target'[d] = target[d]
              /\ outcome'[d] = outcome[d] /\ records'[d] = records[d]
          BY <1>8, <2>1, <3>2 DEF CallsInv, Calls!TypeOK, Calls!Settle
        <4> QED
          BY <1>2, <1>3, <3>0, <4>1, CallKeeps
      <3> QED
        BY <3>1, <3>2
    <2> QED
      BY <2>3, <2>5
  <1> QED
    BY <1>1, <1>6, <1>7, <1>8

(* The session ends: what is in flight is recorded as interrupted.         *)
LEMMA ShutdownStep ==
    ASSUME CallsInv, Calls!ShutdownUrgently \/ Calls!ShutdownOnClose \/ Calls!PendingEnds \/ Calls!Exit
    PROVE  CallsInv'
  <1>1. /\ runtime' = runtime /\ owns' = owns /\ sandbox' = sandbox /\ pipe' \in {pipe, FALSE}
        /\ stage' = stage /\ outcome' = outcome /\ cancelled' = cancelled /\ pending' = pending
        /\ target' = target /\ resend' = resend /\ conn' = conn /\ cur' = cur
        /\ sentOn' = sentOn /\ answered' = answered /\ lines' = lines
    BY DEF Calls!ShutdownUrgently, Calls!ShutdownOnClose, Calls!PendingEnds, Calls!Exit, Calls!Interrupt, Calls!kind, Calls!handler, Calls!client, Calls!app
  <1>2. OpenedInOrder' /\ Calls!Opened' = Calls!Opened
    BY <1>1, SameOpened DEF CallsInv
  <1>3. \A c \in Call : Calls!Started(c)' <=> Calls!Started(c)
    BY <1>1 DEF Calls!Started
  <1>4. ReadyFirst'
    BY <1>1, <1>2, <1>3 DEF CallsInv, ReadyFirst, Calls!Links
  <1>5. CASE Calls!ShutdownOnClose \/ Calls!Exit
    <2>1. /\ inFlight' = inFlight /\ records' = records /\ phase' \in {"pending", "exited"}
          /\ phase' = "exited" => phase = "stopping"
      BY <1>5 DEF Calls!ShutdownOnClose, Calls!Exit, Calls!handler
    <2>2. Calls!TypeOK'
      BY <1>1, <2>1 DEF CallsInv, Calls!TypeOK, Calls!Links
    <2>3. \A c \in Call : CallInv(c)'
      BY <1>1, <2>1, CallKeeps DEF CallsInv
    <2>4. EndsInterrupted'
      BY <1>1, <2>1 DEF CallsInv, EndsInterrupted
    <2> QED
      BY <1>2, <1>4, <2>2, <2>3, <2>4 DEF CallsInv
  <1>6. CASE Calls!Interrupt
    <2>1. /\ records' = [c \in Call |-> IF c \in inFlight
                                       THEN Append(records[c], "interrupted") ELSE records[c]]
          /\ inFlight' = {} /\ phase' = IF owns THEN "stopping" ELSE "exited"
      BY <1>6 DEF Calls!Interrupt
    <2> DEFINE Kept == {"answer", "notSent", "unanswered", "interrupted"}
    <2>a. ASSUME NEW c \in Call PROVE Append(records[c], "interrupted") \in Seq(Kept)
      <3>1. records[c] \in Seq(Kept) /\ "interrupted" \in Kept
        BY DEF CallsInv, Calls!TypeOK
      <3> HIDE DEF Kept
      <3> QED
        BY <3>1
    <2>b. records' \in [Call -> Seq(Kept)]
      BY <2>1, <2>a DEF CallsInv, Calls!TypeOK
    <2>2. Calls!TypeOK'
      BY <1>1, <2>1, <2>b DEF CallsInv, Calls!TypeOK, Calls!Links
    <2>3. EndsInterrupted'
      BY <1>1, <2>1 DEF EndsInterrupted
    <2>4. ASSUME NEW c \in Call PROVE CallInv(c)'
      <3>0. CallInv(c)
        BY DEF CallsInv
      <3>1. CASE c \in inFlight
        <4>1. Calls!Started(c) /\ records[c] = <<>>
          BY <3>0, <3>1 DEF CallInv, UnstartedIsClean, RecordedOnce
        <4>a. records'[c] = Append(<<>>, "interrupted")
          BY <2>1, <3>1, <4>1
        <4>2. records'[c] = <<"interrupted">> /\ c \notin inFlight'
          BY <2>1, <4>a
        <4>3. UnstartedIsClean(c)' /\ RecordedOnce(c)'
          BY <1>3, <4>1, <4>2 DEF UnstartedIsClean, RecordedOnce
        <4>4. WaitsOnLink(c)' /\ WrittenAsSaid(c)'
          BY <1>1, <3>0 DEF CallInv, WaitsOnLink, WrittenAsSaid, Calls!Links, Calls!Believable
        <4> QED
          BY <4>3, <4>4 DEF CallInv
      <3>2. CASE c \notin inFlight
        <4>1. records'[c] = records[c] /\ (c \in inFlight' <=> c \in inFlight)
          BY <2>1, <3>2
        <4> QED
          BY <1>1, <3>0, <4>1, CallKeeps
      <3> QED
        BY <3>1, <3>2
    <2> QED
      BY <1>2, <1>4, <2>2, <2>3, <2>4 DEF CallsInv
  <1> QED
    BY <1>5, <1>6 DEF Calls!ShutdownUrgently, Calls!PendingEnds

-----------------------------------------------------------------------------
(* The theorems. *)

LEMMA CallsInvInit == Calls!CallsAssumption /\ Calls!Init => CallsInv
  <1> SUFFICES ASSUME Calls!CallsAssumption, Calls!Init PROVE CallsInv
    OBVIOUS
  <1>0. runtime \in {"vm", "docker"} /\ owns \in BOOLEAN /\ MaxConns[runtime] \in Nat
    BY DEF Calls!Init, Calls!CallsAssumption
  <1>1. Calls!TypeOK
    BY <1>0 DEF Calls!Init, Calls!TypeOK, Calls!Outcomes, Calls!Links
  <1>2. Calls!Opened = {} /\ Calls!Opened = 1..0
    BY DEF Calls!Init, Calls!Opened
  <1>3. OpenedInOrder
    BY <1>0, <1>2 DEF OpenedInOrder
  <1>4. ASSUME NEW c \in Call PROVE ~Calls!Started(c) /\ CallInv(c)
    <2>1. ~Calls!Started(c)
      BY DEF Calls!Init, Calls!Started
    <2> QED
      BY <2>1 DEF Calls!Init, CallInv, UnstartedIsClean, RecordedOnce, WaitsOnLink, WrittenAsSaid
  <1>5. ReadyFirst /\ EndsInterrupted
    BY <1>2, <1>4 DEF Calls!Init, ReadyFirst, EndsInterrupted
  <1> QED
    BY <1>1, <1>3, <1>4, <1>5 DEF CallsInv

(* A step that changes nothing.                                            *)
LEMMA IdleStep ==
    ASSUME CallsInv, UNCHANGED Calls!vars
    PROVE  CallsInv'
  <1>1. /\ UNCHANGED <<runtime, owns, sandbox, phase, pipe, stage, outcome, cancelled, inFlight>>
        /\ UNCHANGED <<records, pending, target, resend, conn, cur, sentOn, answered, lines>>
    BY DEF Calls!vars, Calls!bridge, Calls!kind, Calls!handler, Calls!client, Calls!app
  <1>2. Calls!TypeOK'
    BY <1>1 DEF CallsInv, Calls!TypeOK, Calls!Links
  <1>3. \A c \in Call : CallInv(c)' /\ (Calls!Started(c)' <=> Calls!Started(c))
    BY <1>1, CallKeeps DEF CallsInv, Calls!Started
  <1>4. OpenedInOrder' /\ Calls!Opened' = Calls!Opened
    BY <1>1, SameOpened DEF CallsInv
  <1>5. ReadyFirst' /\ EndsInterrupted'
    BY <1>1, <1>3, <1>4 DEF CallsInv, ReadyFirst, EndsInterrupted, Calls!Links
  <1> QED
    BY <1>2, <1>3, <1>4, <1>5 DEF CallsInv

LEMMA CallsStep == Calls!CallsAssumption /\ CallsInv /\ [Calls!Next]_Calls!vars => CallsInv'
  <1> SUFFICES ASSUME Calls!CallsAssumption, CallsInv, [Calls!Next]_Calls!vars PROVE CallsInv'
    OBVIOUS
  <1>1. CASE UNCHANGED Calls!vars \/ Calls!Exited
    BY <1>1, IdleStep DEF Calls!Exited
  <1>2. ASSUME NEW c \in Call,
               \/ Calls!Arrive(c) \/ Calls!BootWaitTimesOut(c) \/ Calls!Cancel(c)
               \/ Calls!OpenDone(c) \/ Calls!OpenFails(c) \/ Calls!Send(c) \/ Calls!Resend(c) \/ Calls!ResendFails(c)
               \/ Calls!TimesOut(c) \/ Calls!AppAnswers(c)
               \/ \E n \in Calls!Links : Calls!Answer(n, c)
        PROVE  CallsInv'
    BY <1>2, ArriveStep, BootStep, CancelStep, OpenStep, EndStep, SendStep, ResendStep, AppStep
  <1>3. ASSUME NEW n \in Calls!Links, Calls!ConnRefuses(n) \/ Calls!ConnCloses(n) PROVE CallsInv'
    BY <1>3, ConnStep
  <1>4. CASE Calls!SandboxReady \/ Calls!SandboxFails
    BY <1>4, BootStep
  <1>5. CASE Calls!ShutdownUrgently \/ Calls!ShutdownOnClose \/ Calls!PendingEnds \/ Calls!Exit
    BY <1>5, ShutdownStep
  <1> QED
    BY <1>1, <1>2, <1>3, <1>4, <1>5 DEF Calls!Next

LEMMA CallsInvariant == ASSUME Calls!CallsAssumption PROVE Calls!Spec => []CallsInv
  <1>1. Calls!Init => CallsInv
    BY CallsInvInit
  <1>2. CallsInv /\ [Calls!Next]_Calls!vars => CallsInv'
    BY CallsStep
  <1> QED
    BY <1>1, <1>2, PTL DEF Calls!Spec

(* However answers, timeouts, cancellations, closed connections and the    *)
(* shutdown race, a call the bridge has started is in flight or recorded   *)
(* exactly once, and at the exit of a session that only attached each call *)
(* whose line was taken has its record.                                    *)
THEOREM CallsAreAccounted == ASSUME Calls!CallsAssumption PROVE Calls!Spec => []Calls!EveryCallAccounted
  <1>1. CallsInv => Calls!EveryCallAccounted
    <2> SUFFICES ASSUME CallsInv PROVE Calls!EveryCallAccounted
      OBVIOUS
    <2>1. ASSUME NEW c \in Call
          PROVE  Len(records[c]) = IF Calls!Started(c) /\ c \notin inFlight THEN 1 ELSE 0
      <3>1. CallInv(c)
        BY DEF CallsInv
      <3>2. CASE ~Calls!Started(c)
        BY <3>1, <3>2 DEF CallInv, UnstartedIsClean
      <3>3. CASE Calls!Started(c) /\ c \in inFlight
        BY <3>1, <3>3 DEF CallInv, RecordedOnce
      <3>4. CASE Calls!Started(c) /\ c \notin inFlight
        <4>1. PICK r : records[c] = <<r>>
          BY <3>1, <3>4 DEF CallInv, RecordedOnce
        <4> QED
          BY <3>4, <4>1
      <3> QED
        BY <3>2, <3>3, <3>4
    <2>2. ASSUME phase = "exited", ~owns, NEW c \in Call, sentOn[c] # {}
          PROVE  Len(records[c]) = 1
      BY <2>1, <2>2 DEF CallsInv, CallInv, UnstartedIsClean, EndsInterrupted
    <2> QED
      BY <2>1, <2>2 DEF CallsInv, Calls!EveryCallAccounted, Calls!OneAccount, Calls!EverySentCallRecorded
  <1> QED
    BY <1>1, CallsInvariant, PTL

(* A call that is recorded as not sent, or told to be unwritten over a     *)
(* stream whose refusals can be believed, was never taken by a connection; *)
(* over such a stream no call is taken twice; and a close fails only calls *)
(* that were waiting on the connection that closed.                        *)
THEOREM CallsToldTheTruth == ASSUME Calls!CallsAssumption PROVE Calls!Spec => []Calls!WireAgreesWithRecord
  <1>1. CallsInv => Calls!WireAgreesWithRecord
    <2> SUFFICES ASSUME CallsInv PROVE Calls!WireAgreesWithRecord
      OBVIOUS
    <2>1. ASSUME NEW c \in Call, records[c] = <<"notSent">> PROVE sentOn[c] = {}
      <3>1. CASE ~Calls!Started(c)
        BY <3>1 DEF CallsInv, CallInv, UnstartedIsClean
      <3>2. CASE Calls!Started(c)
        <4>1. records[c] = <<Calls!RecordOf(outcome[c])>>
          BY <2>1, <3>2 DEF CallsInv, CallInv, RecordedOnce
        <4>2. Calls!RecordOf(outcome[c]) = "notSent"
          BY <2>1, <4>1
        <4>3. outcome[c] = "notSent"
          BY <4>2 DEF Calls!RecordOf
        <4> QED
          BY <4>3 DEF CallsInv, CallInv, WrittenAsSaid
      <3> QED
        BY <3>1, <3>2
    <2>2. Calls!NotSentNeverWritten
      BY <2>1 DEF Calls!NotSentNeverWritten, CallsInv, CallInv, WrittenAsSaid
    <2>3. ASSUME Calls!Believable, NEW c \in Call PROVE Cardinality(sentOn[c]) <= 1
      <3>1. sentOn[c] \in SUBSET {target[c]}
        BY <2>3 DEF CallsInv, CallInv, WrittenAsSaid
      <3>2. IsFiniteSet({target[c]}) /\ Cardinality({target[c]}) = 1
        BY FS_Singleton
      <3> QED
        BY <3>1, <3>2, FS_Subset
    <2>4. Calls!WrittenAtMostOnce
      BY <2>3, SameCount DEF Calls!WrittenAtMostOnce
    <2>5. Calls!CloseFailsItsOwn
      BY DEF Calls!CloseFailsItsOwn, CallsInv, CallInv, WrittenAsSaid, Calls!Believable
    <2> QED
      BY <2>2, <2>4, <2>5 DEF Calls!WireAgreesWithRecord
  <1> QED
    BY <1>1, CallsInvariant, PTL

(* Once its client has been told how a call ended, its line is not handed  *)
(* to a connection any more.                                               *)
LEMMA SettledUnwritten == CallsInv /\ [Calls!Next]_Calls!vars => [Calls!SettledStep]_Calls!vars
  <1> SUFFICES ASSUME CallsInv, Calls!Next, NEW c \in Call, stage[c] = "done"
               PROVE  sentOn'[c] = sentOn[c]
    BY DEF Calls!SettledStep
  <1>0. c \notin pending /\ sentOn \in [Call -> SUBSET Calls!Links]
    BY DEF CallsInv, CallInv, WaitsOnLink, Calls!TypeOK
  <1>1. ASSUME NEW d \in Call, Calls!Send(d) PROVE sentOn'[c] = sentOn[c]
    BY <1>0, <1>1 DEF Calls!Send, Calls!Sent
  <1>2. ASSUME NEW d \in Call, Calls!Resend(d) PROVE sentOn'[c] = sentOn[c]
    BY <1>0, <1>2 DEF Calls!Resend, Calls!Sent
  <1>3. ASSUME NEW d \in Call,
               \/ Calls!Arrive(d) \/ Calls!BootWaitTimesOut(d) \/ Calls!Cancel(d) \/ Calls!OpenDone(d)
               \/ Calls!OpenFails(d) \/ Calls!ResendFails(d) \/ Calls!TimesOut(d) \/ Calls!AppAnswers(d)
               \/ \E n \in Calls!Links : Calls!Answer(n, d)
        PROVE  sentOn' = sentOn
    BY <1>3 DEF Calls!Arrive, Calls!BootWaitTimesOut, Calls!Cancel, Calls!OpenDone, Calls!OpenFails, Calls!ResendFails, Calls!TimesOut,
                Calls!AppAnswers, Calls!Answer, Calls!app
  <1>4. ASSUME \/ \E n \in Calls!Links : Calls!ConnRefuses(n) \/ Calls!ConnCloses(n)
               \/ Calls!SandboxReady \/ Calls!SandboxFails
               \/ Calls!ShutdownUrgently \/ Calls!ShutdownOnClose \/ Calls!PendingEnds \/ Calls!Exit \/ Calls!Exited
        PROVE  sentOn' = sentOn
    BY <1>4 DEF Calls!ConnRefuses, Calls!ConnCloses, Calls!SandboxReady, Calls!SandboxFails, Calls!ShutdownUrgently,
                Calls!ShutdownOnClose, Calls!PendingEnds, Calls!Interrupt, Calls!Exit, Calls!Exited, Calls!vars, Calls!app
  <1> QED
    BY <1>1, <1>2, <1>3, <1>4 DEF Calls!Next

-----------------------------------------------------------------------------
(* The runtime of the apps.  What the governor is told of a request's sender*)
(* is the socket it came on, and the client of the index its app has is     *)
(* there before the app listens.                                            *)

Socket == {"host", "tcp", "http"} \cup App

\* An app's client of the index, inside of a sandbox or not.
IsClient(access, inside) ==
  access \in {"socket", "closed", "unavailable", "local"} /\ (inside => access # "local")

AppIsUp(a) ==
  /\ open[a] \subseteq Socket
  /\ phase[a] \in {"hooks", "ready"} \/ open[a] # {} => IsClient(index[a], sandboxed)

IsRequest(q) ==
  q = [at |-> q.at, to |-> q.to, via |-> q.via, from |-> q.from, says |-> q.says, op |-> q.op, verdict |-> q.verdict]

Came(q) == q.to \in App /\ q.via \in Socket /\ Runtime!CanOpen(q.from, q.to, q.via)

Underway == {"running", "storing", "stored", "done"}

\* Request r, which is q and of which asked was asked; marks are the stored ones.
Continues(r, q, asked, marks, inside) ==
  /\ IsRequest(q)
  /\ q.at # "unsent" => Came(q)
  /\ q.at \in {"unsent", "arrived"} => asked = None
  /\ asked # None => asked = [app |-> q.to, caller |-> q.via]
  /\ q.at = "asking" => asked # None
  /\ q.at \in Underway /\ Runtime!Governed(q.to) => q.verdict = "allowed" /\ asked # None
  /\ q.at \in {"storing", "stored"} => q.op = "tag"
  /\ q.at = "stored" => r \in marks
  /\ inside /\ q.op = "tag" /\ q.at = "done" => r \in marks

RuntimeInv ==
  /\ DOMAIN phase = App /\ DOMAIN index = App /\ DOMAIN open = App
  /\ DOMAIN req = Asking /\ DOMAIN question = Asking
  /\ \A a \in App : AppIsUp(a)
  /\ \A r \in Asking : /\ Continues(r, req[r], question[r], stored, sandboxed)
                       /\ req[r].at # "unsent" => IsClient(index[req[r].to], sandboxed)

\* An app has none of the names the runtime gives to senders and listeners,
\* only apps have directories of their own, and None is no question.
RuntimeAssumption ==
  /\ App \cap {"host", "tcp", "http", "root", "outside"} = {}
  /\ \A a \in App : Callers[a] \subseteq App
  /\ \A a, c : [app |-> a, caller |-> c] # None

\* The state and the verdict of a request that is q.
At(q, s) == [at |-> s, to |-> q.to, via |-> q.via, from |-> q.from, says |-> q.says, op |-> q.op, verdict |-> q.verdict]
Judge(q, s, v) == [at |-> s, to |-> q.to, via |-> q.via, from |-> q.from, says |-> q.says, op |-> q.op, verdict |-> v]

LEMMA RequestIsSet ==
  ASSUME NEW q, IsRequest(q), NEW s, NEW v
  PROVE  [q EXCEPT !.at = s] = At(q, s) /\ [q EXCEPT !.at = s, !.verdict = v] = Judge(q, s, v)
  <1>1. [q EXCEPT !.at = s] = At(q, s)
    BY DEF IsRequest, At
  <1>2. [At(q, s) EXCEPT !.verdict = v] = Judge(q, s, v)
    BY DEF At, Judge
  <1>3. [q EXCEPT !.at = s, !.verdict = v] = [[q EXCEPT !.at = s] EXCEPT !.verdict = v]
    OBVIOUS
  <1> QED
    BY <1>1, <1>2, <1>3

\* A request gets to be at s, with verdict v.
LEMMA GetsTo ==
  ASSUME NEW r, NEW q, NEW asked, NEW marks, NEW inside, Continues(r, q, asked, marks, inside), q.at # "unsent",
         NEW s, NEW v, NEW also, marks \subseteq also,
         s \notin {"unsent", "arrived", "asking"},
         s \in Underway /\ Runtime!Governed(q.to) => v = "allowed" /\ asked # None,
         s \in {"storing", "stored"} => q.op = "tag", s = "stored" => r \in also,
         inside /\ q.op = "tag" /\ s = "done" => r \in also
  PROVE  Continues(r, Judge(q, s, v), asked, also, inside)
  <1> DEFINE n == Judge(q, s, v)
  <1>1. /\ n.at = s /\ n.to = q.to /\ n.via = q.via /\ n.from = q.from /\ n.op = q.op /\ n.verdict = v
        /\ IsRequest(n)
    BY DEF IsRequest, Judge
  <1> HIDE DEF n
  <1>2. Came(n)
    BY <1>1 DEF Continues, Came
  <1>3. Continues(r, n, asked, also, inside)
    BY <1>1, <1>2 DEF Continues
  <1> QED
    BY <1>3 DEF n

\* A step of request r alone.
LEMMA RuntimeMoves ==
  ASSUME RuntimeInv, UNCHANGED <<sandboxed, phase, index, open>>, stored \subseteq stored',
         NEW r \in Asking, DOMAIN req' = Asking, DOMAIN question' = Asking,
         \A t \in Asking : t # r => req'[t] = req[t] /\ question'[t] = question[t],
         Continues(r, req'[r], question'[r], stored', sandboxed),
         req'[r].at # "unsent" => IsClient(index[req'[r].to], sandboxed)
  PROVE  RuntimeInv'
  <1>1. \A a \in App : AppIsUp(a)'
    BY DEF RuntimeInv, AppIsUp
  <1>2. ASSUME NEW t \in Asking, t # r
        PROVE  /\ Continues(t, req'[t], question'[t], stored', sandboxed)
               /\ req'[t].at # "unsent" => IsClient(index[req'[t].to], sandboxed)
    <2>1. Continues(t, req[t], question[t], stored, sandboxed)
          /\ (req[t].at # "unsent" => IsClient(index[req[t].to], sandboxed))
          /\ req'[t] = req[t] /\ question'[t] = question[t] /\ (t \in stored => t \in stored')
      BY <1>2 DEF RuntimeInv
    <2>2. Continues(t, req[t], question[t], stored', sandboxed)
      BY <2>1 DEF Continues
    <2> QED
      BY <2>1, <2>2
  <1>3. DOMAIN phase' = App /\ DOMAIN index' = App /\ DOMAIN open' = App
    BY DEF RuntimeInv
  <1> QED
    BY <1>1, <1>2, <1>3 DEF RuntimeInv

\* A request that was sent goes on, with what was asked of it as it is.
LEMMA RuntimeGoes ==
  ASSUME RuntimeInv, UNCHANGED <<sandboxed, phase, index, open, question>>, stored \subseteq stored',
         NEW r \in Asking, req[r].at # "unsent", NEW s, NEW v,
         req' = [req EXCEPT ![r] = Judge(req[r], s, v)],
         s \notin {"unsent", "arrived", "asking"},
         s \in Underway /\ Runtime!Governed(req[r].to) => v = "allowed" /\ question[r] # None,
         s \in {"storing", "stored"} => req[r].op = "tag", s = "stored" => r \in stored',
         sandboxed /\ req[r].op = "tag" /\ s = "done" => r \in stored'
  PROVE  RuntimeInv'
  <1>1. /\ Continues(r, req[r], question[r], stored, sandboxed) /\ IsClient(index[req[r].to], sandboxed)
        /\ DOMAIN req = Asking /\ DOMAIN question = Asking
    BY DEF RuntimeInv
  <1>2. DOMAIN req' = Asking /\ req'[r] = Judge(req[r], s, v) /\ \A t \in Asking : t # r => req'[t] = req[t]
    BY <1>1
  <1>3. Continues(r, Judge(req[r], s, v), question[r], stored', sandboxed)
    BY <1>1, GetsTo
  <1>4. Judge(req[r], s, v).to = req[r].to
    BY DEF Judge
  <1> QED
    BY <1>1, <1>2, <1>3, <1>4, RuntimeMoves

LEMMA RuntimeStep ==
  ASSUME RuntimeAssumption, RuntimeInv, Runtime!Next
  PROVE  RuntimeInv'
  <1>0. /\ DOMAIN phase = App /\ DOMAIN index = App /\ DOMAIN open = App
        /\ DOMAIN req = Asking /\ DOMAIN question = Asking
    BY DEF RuntimeInv
  <1>1. ASSUME NEW r \in Asking
        PROVE  /\ Continues(r, req[r], question[r], stored, sandboxed) /\ IsRequest(req[r])
               /\ req[r].at # "unsent" => IsClient(index[req[r].to], sandboxed)
    BY DEF RuntimeInv, Continues
  <1>2. ASSUME NEW a \in App, UNCHANGED <<sandboxed, index, req, question, stored>>,
               DOMAIN phase' = App, DOMAIN open' = App, AppIsUp(a)',
               \A b \in App : b # a => phase'[b] = phase[b] /\ open'[b] = open[b]
        PROVE  RuntimeInv'
    <2>1. \A b \in App : AppIsUp(b)'
      BY <1>2 DEF RuntimeInv, AppIsUp
    <2> QED
      BY <1>0, <1>2, <2>1 DEF RuntimeInv
  <1>3. ASSUME NEW a \in App, Runtime!Load(a) \/ Runtime!HooksFail(a) PROVE RuntimeInv'
    <2>1. /\ UNCHANGED <<sandboxed, index, open, req, question, stored>>
          /\ \E to \in {"loaded", "failed"} : phase' = [phase EXCEPT ![a] = to]
      BY <1>3 DEF Runtime!Load, Runtime!HooksFail
    <2>2. DOMAIN phase' = App /\ phase'[a] \in {"loaded", "failed"} /\ \A b \in App : b # a => phase'[b] = phase[b]
      BY <1>0, <2>1
    <2>3. AppIsUp(a)'
      BY <2>1, <2>2 DEF RuntimeInv, AppIsUp
    <2> QED
      BY <1>0, <1>2, <2>1, <2>2, <2>3
  <1>4. ASSUME NEW a \in App, Runtime!Connect(a) PROVE RuntimeInv'
    <2>1. /\ UNCHANGED <<sandboxed, open, req, question, stored>>
          /\ index' = [index EXCEPT ![a] = Runtime!CreateSemanticFs(a)]
          /\ phase' = [phase EXCEPT ![a] = "hooks"]
      BY <1>4 DEF Runtime!Connect
    <2>2. IsClient(Runtime!CreateSemanticFs(a), sandboxed)
      BY DEF Runtime!CreateSemanticFs, IsClient
    <2>3. /\ DOMAIN index' = App /\ DOMAIN phase' = App
          /\ \A b \in App : b # a => index'[b] = index[b] /\ phase'[b] = phase[b]
          /\ IsClient(index'[a], sandboxed)
      BY <1>0, <2>1, <2>2
    <2>4. ASSUME NEW b \in App PROVE AppIsUp(b)'
      BY <2>1, <2>3 DEF RuntimeInv, AppIsUp
    <2>5. ASSUME NEW r \in Asking PROVE req[r].at # "unsent" => IsClient(index'[req[r].to], sandboxed)
      BY <1>1, <2>3 DEF Continues, Came
    <2> QED
      BY <1>0, <1>1, <2>1, <2>3, <2>4, <2>5 DEF RuntimeInv
  <1>5. ASSUME NEW a \in App, Runtime!Listen(a) PROVE RuntimeInv'
    <2>1. UNCHANGED <<sandboxed, index, req, question, stored>> /\ phase[a] = "hooks"
      BY <1>5 DEF Runtime!Listen
    <2>2. IsClient(index[a], sandboxed) /\ open[a] \subseteq Socket
      BY <2>1 DEF RuntimeInv, AppIsUp
    <2>3. /\ \E to : phase' = [phase EXCEPT ![a] = to]
          /\ open' = open \/ \E tcp : open' = [open EXCEPT ![a] = Runtime!Listeners(a, tcp)]
      BY <1>5 DEF Runtime!Listen
    <2>4. \A tcp : Runtime!Listeners(a, tcp) \subseteq Socket
      BY DEF Runtime!Listeners, RuntimeAssumption, Socket
    <2>5. /\ DOMAIN phase' = App /\ DOMAIN open' = App /\ open'[a] \subseteq Socket
          /\ \A b \in App : b # a => phase'[b] = phase[b] /\ open'[b] = open[b]
      BY <1>0, <2>2, <2>3, <2>4
    <2>6. AppIsUp(a)'
      BY <2>1, <2>2, <2>5 DEF AppIsUp
    <2> QED
      BY <1>2, <2>1, <2>5, <2>6
  <1>6. ASSUME NEW a \in App, Runtime!Die(a) PROVE RuntimeInv'
    <2>1. /\ UNCHANGED <<sandboxed, index, question, stored>>
          /\ phase' = [phase EXCEPT ![a] = "dead"] /\ open' = [open EXCEPT ![a] = {}]
          /\ req' = [r \in Asking |-> IF req[r].to = a /\ req[r].at \in Runtime!InFlight
                                      THEN [req[r] EXCEPT !.at = "gone"] ELSE req[r]]
      BY <1>6 DEF Runtime!Die
    <2>2. ASSUME NEW b \in App PROVE AppIsUp(b)'
      BY <1>0, <2>1 DEF RuntimeInv, AppIsUp
    <2>3. ASSUME NEW r \in Asking
          PROVE  /\ Continues(r, req'[r], question[r], stored, sandboxed)
                 /\ req'[r].at # "unsent" => IsClient(index[req'[r].to], sandboxed)
      <3>1. CASE req[r].to = a /\ req[r].at \in Runtime!InFlight
        <4>1. req'[r] = Judge(req[r], "gone", req[r].verdict) /\ req[r].at # "unsent"
          <5>1. req'[r] = [req[r] EXCEPT !.at = "gone"] /\ req[r].at # "unsent"
            BY <2>1, <3>1 DEF Runtime!InFlight
          <5>2. [req[r] EXCEPT !.at = "gone"] = At(req[r], "gone")
            BY <1>1, RequestIsSet
          <5> QED
            BY <5>1, <5>2 DEF At, Judge
        <4>2. Continues(r, Judge(req[r], "gone", req[r].verdict), question[r], stored, sandboxed)
          BY <1>1, <4>1, GetsTo DEF Underway
        <4>3. Judge(req[r], "gone", req[r].verdict).to = req[r].to
          BY DEF Judge
        <4> QED
          BY <1>1, <4>1, <4>2, <4>3
      <3>2. CASE ~(req[r].to = a /\ req[r].at \in Runtime!InFlight)
        BY <1>1, <2>1, <3>2
      <3> QED
        BY <3>1, <3>2
    <2>4. DOMAIN phase' = App /\ DOMAIN open' = App /\ DOMAIN req' = Asking
      BY <1>0, <2>1
    <2> QED
      BY <1>0, <2>1, <2>2, <2>3, <2>4 DEF RuntimeInv
  <1>7. ASSUME NEW r \in Asking, NEW a \in App, NEW from, NEW says, NEW op, NEW via \in open[a],
               Runtime!Send(r, from, a, via, says, op)
        PROVE  RuntimeInv'
    <2> DEFINE q == [at |-> "arrived", to |-> a, via |-> via, from |-> from, says |-> says, op |-> op, verdict |-> None]
    <2>1. /\ UNCHANGED <<sandboxed, phase, index, open, question, stored>> /\ req[r].at = "unsent"
          /\ req' = [req EXCEPT ![r] = q] /\ Runtime!CanOpen(from, a, via)
      BY <1>7 DEF Runtime!Send
    <2>2. question[r] = None /\ via \in Socket /\ IsClient(index[a], sandboxed)
      BY <1>1, <2>1 DEF Continues, RuntimeInv, AppIsUp
    <2>3. /\ q.at = "arrived" /\ q.to = a /\ q.via = via /\ q.from = from /\ IsRequest(q)
      BY DEF IsRequest
    <2> HIDE DEF q
    <2>4. Came(q)
      BY <2>1, <2>2, <2>3 DEF Came
    <2>5. Continues(r, q, question[r], stored, sandboxed)
      BY <2>2, <2>3, <2>4 DEF Continues, Underway
    <2>6. DOMAIN req' = Asking /\ req'[r] = q /\ \A t \in Asking : t # r => req'[t] = req[t]
      BY <1>0, <2>1
    <2> QED
      BY <1>0, <2>1, <2>2, <2>3, <2>5, <2>6, RuntimeMoves
  <1>8. ASSUME NEW r \in Asking, NEW s, req' = [req EXCEPT ![r].at = s]
        PROVE  req' = [req EXCEPT ![r] = Judge(req[r], s, req[r].verdict)]
    <2>1. req' = [req EXCEPT ![r] = [req[r] EXCEPT !.at = s]]
      BY <1>0, <1>8
    <2>2. [req[r] EXCEPT !.at = s] = Judge(req[r], s, req[r].verdict)
      BY <1>1, RequestIsSet DEF At, Judge
    <2> QED
      BY <2>1, <2>2
  <1>9. ASSUME NEW r \in Asking, NEW s \in {"refused", "error", "denied"}, req[r].at # "unsent",
               req' = [req EXCEPT ![r].at = s],
               UNCHANGED <<sandboxed, phase, index, open, question, stored>>
        PROVE  RuntimeInv'
    <2>1. req' = [req EXCEPT ![r] = Judge(req[r], s, req[r].verdict)]
      BY <1>8, <1>9
    <2> QED
      BY <1>9, <2>1, RuntimeGoes DEF Underway
  <1>10. ASSUME NEW r \in Asking,
                Runtime!Unauthorized(r) \/ Runtime!NoExport(r) \/ Runtime!Unavailable(r) \/ Runtime!TagTimesOut(r)
         PROVE  RuntimeInv'
    <2>1. /\ req[r].at # "unsent" /\ UNCHANGED <<sandboxed, phase, index, open, question, stored>>
          /\ \E s \in {"refused", "error", "denied"} : req' = [req EXCEPT ![r].at = s]
      BY <1>10 DEF Runtime!Unauthorized, Runtime!NoExport, Runtime!Unavailable, Runtime!TagTimesOut
    <2> QED
      BY <1>9, <2>1
  <1>11. ASSUME NEW r \in Asking, Runtime!Invoke(r) PROVE RuntimeInv'
    <2> DEFINE a == req[r].to
    <2>1. UNCHANGED <<sandboxed, phase, index, open, stored>> /\ req[r].at = "arrived"
      BY <1>11 DEF Runtime!Invoke
    <2>2. \/ ~Runtime!Governed(a) /\ req' = [req EXCEPT ![r].at = "running"] /\ question' = question
          \/ /\ req' = [req EXCEPT ![r].at = "asking"]
             /\ question' = [question EXCEPT ![r] = [app |-> a, caller |-> req[r].via]]
          \/ req' = [req EXCEPT ![r].at = "denied"] /\ question' = question
      BY <1>11 DEF Runtime!Invoke, Runtime!Caller
    <2>3. CASE ~Runtime!Governed(a) /\ req' = [req EXCEPT ![r].at = "running"] /\ question' = question
      <3>1. PICK s : s = "running" /\ req' = [req EXCEPT ![r] = Judge(req[r], s, req[r].verdict)]
        BY <1>8, <2>3
      <3>2. /\ UNCHANGED <<sandboxed, phase, index, open, question>> /\ stored \subseteq stored' /\ req[r].at # "unsent"
            /\ s \notin {"unsent", "arrived", "asking"}
            /\ s \in Underway /\ Runtime!Governed(req[r].to) => req[r].verdict = "allowed" /\ question[r] # None
            /\ (s \in {"storing", "stored"} => req[r].op = "tag") /\ (s = "stored" => r \in stored')
            /\ sandboxed /\ req[r].op = "tag" /\ s = "done" => r \in stored'
        BY <2>1, <2>3, <3>1
      <3> QED
        BY <3>1, <3>2, RuntimeGoes
    <2>4. CASE req' = [req EXCEPT ![r].at = "denied"] /\ question' = question
      BY <1>9, <2>1, <2>4
    <2>5. CASE /\ req' = [req EXCEPT ![r].at = "asking"]
               /\ question' = [question EXCEPT ![r] = [app |-> a, caller |-> req[r].via]]
      <3> DEFINE q == Judge(req[r], "asking", req[r].verdict)
                 asked == [app |-> a, caller |-> req[r].via]
      <3>1. req' = [req EXCEPT ![r] = q]
        BY <1>8, <2>5
      <3>2. q.at = "asking" /\ q.to = a /\ q.via = req[r].via /\ q.from = req[r].from /\ IsRequest(q)
        BY DEF Judge, IsRequest
      <3>3. asked # None /\ asked = [app |-> q.to, caller |-> q.via]
        BY <3>2 DEF RuntimeAssumption
      <3>4. question' = [question EXCEPT ![r] = asked]
        BY <2>5
      <3> HIDE DEF q, asked
      <3>5. Came(q)
        BY <1>1, <2>1, <3>2 DEF Continues, Came
      <3>6. Continues(r, q, asked, stored, sandboxed)
        BY <3>2, <3>3, <3>5 DEF Continues, Underway
      <3>7. /\ DOMAIN req' = Asking /\ req'[r] = q /\ \A t \in Asking : t # r => req'[t] = req[t]
            /\ DOMAIN question' = Asking /\ question'[r] = asked
            /\ \A t \in Asking : t # r => question'[t] = question[t]
        BY <1>0, <3>1, <3>4
      <3> QED
        BY <1>1, <2>1, <3>2, <3>6, <3>7, RuntimeMoves
    <2> QED
      BY <2>2, <2>3, <2>4, <2>5
  <1>12. ASSUME NEW r \in Asking, Runtime!Verdict(r) PROVE RuntimeInv'
    <2>1. /\ UNCHANGED <<sandboxed, phase, index, open, question, stored>> /\ req[r].at = "asking"
          /\ \/ req' = [req EXCEPT ![r].at = "running", ![r].verdict = "allowed"]
             \/ req' = [req EXCEPT ![r].at = "denied", ![r].verdict = "denied"]
             \/ req' = [req EXCEPT ![r].at = "denied"]
      BY <1>12 DEF Runtime!Verdict
    <2>2. question[r] # None
      BY <1>1, <2>1 DEF Continues
    <2>3. ASSUME NEW s, NEW v, req' = [req EXCEPT ![r].at = s, ![r].verdict = v]
          PROVE  req' = [req EXCEPT ![r] = Judge(req[r], s, v)]
      <3>1. req' = [req EXCEPT ![r] = [req[r] EXCEPT !.at = s, !.verdict = v]]
        BY <1>0, <2>3
      <3>2. [req[r] EXCEPT !.at = s, !.verdict = v] = Judge(req[r], s, v)
        BY <1>1, RequestIsSet
      <3> QED
        BY <3>1, <3>2
    <2>4. CASE req' = [req EXCEPT ![r].at = "running", ![r].verdict = "allowed"]
      <3>1. PICK s, v : /\ s = "running" /\ v = "allowed"
                        /\ req' = [req EXCEPT ![r] = Judge(req[r], s, v)]
        BY <2>3, <2>4
      <3>2. /\ UNCHANGED <<sandboxed, phase, index, open, question>> /\ stored \subseteq stored' /\ req[r].at # "unsent"
            /\ s \notin {"unsent", "arrived", "asking"}
            /\ s \in Underway /\ Runtime!Governed(req[r].to) => v = "allowed" /\ question[r] # None
            /\ (s \in {"storing", "stored"} => req[r].op = "tag") /\ (s = "stored" => r \in stored')
            /\ sandboxed /\ req[r].op = "tag" /\ s = "done" => r \in stored'
        BY <2>1, <2>2, <3>1
      <3> QED
        BY <3>1, <3>2, RuntimeGoes
    <2>5. CASE req' = [req EXCEPT ![r].at = "denied", ![r].verdict = "denied"]
      <3>1. PICK s, v : s = "denied" /\ req' = [req EXCEPT ![r] = Judge(req[r], s, v)]
        BY <2>3, <2>5
      <3>2. /\ UNCHANGED <<sandboxed, phase, index, open, question>> /\ stored \subseteq stored' /\ req[r].at # "unsent"
            /\ s \notin {"unsent", "arrived", "asking"}
            /\ s \in Underway /\ Runtime!Governed(req[r].to) => v = "allowed" /\ question[r] # None
            /\ (s \in {"storing", "stored"} => req[r].op = "tag") /\ (s = "stored" => r \in stored')
            /\ sandboxed /\ req[r].op = "tag" /\ s = "done" => r \in stored'
        BY <2>1, <3>1 DEF Underway
      <3> QED
        BY <3>1, <3>2, RuntimeGoes
    <2>6. CASE req' = [req EXCEPT ![r].at = "denied"]
      BY <1>9, <2>1, <2>6
    <2> QED
      BY <2>1, <2>4, <2>5, <2>6
  <1>13. ASSUME NEW r \in Asking, Runtime!Handle(r) PROVE RuntimeInv'
    <2>1. UNCHANGED <<sandboxed, phase, index, open, question, stored>> /\ req[r].at = "running"
      BY <1>13 DEF Runtime!Handle
    <2>2. IsClient(index[req[r].to], sandboxed)
          /\ (Runtime!Governed(req[r].to) => req[r].verdict = "allowed" /\ question[r] # None)
      BY <1>1, <2>1 DEF Continues, Underway
    <2>3. \E s \in {"done", "error", "storing"} :
            /\ req' = [req EXCEPT ![r].at = s]
            /\ s = "storing" => req[r].op = "tag"
            /\ s = "done" /\ req[r].op = "tag" => ~sandboxed
      <3>1. CASE req[r].op = "plain"
        BY <1>13, <3>1 DEF Runtime!Handle
      <3>2. CASE req[r].op = "tag"
        <4> DEFINE access == index[req[r].to]
        <4>1. req' = [req EXCEPT ![r].at = CASE access = "socket" -> "storing"
                                             [] access = "local" -> "done"
                                             [] Runtime!ThrowingClient(access) -> "error"]
          BY <1>13, <3>2 DEF Runtime!Handle
        <4>2. CASE access = "socket"
          BY <3>2, <4>1, <4>2 DEF Runtime!ThrowingClient
        <4>3. CASE access = "local"
          BY <2>2, <4>1, <4>3 DEF Runtime!ThrowingClient, IsClient
        <4>4. CASE access \in {"unavailable", "closed"}
          BY <4>1, <4>4 DEF Runtime!ThrowingClient
        <4> QED
          BY <2>2, <4>2, <4>3, <4>4 DEF IsClient
      <3> QED
        BY <1>13, <3>1, <3>2 DEF Runtime!Handle
    <2>4. PICK s \in {"done", "error", "storing"} :
            /\ req' = [req EXCEPT ![r].at = s]
            /\ s = "storing" => req[r].op = "tag"
            /\ s = "done" /\ req[r].op = "tag" => ~sandboxed
      BY <2>3
    <2>5. PICK v : v = req[r].verdict /\ req' = [req EXCEPT ![r] = Judge(req[r], s, v)]
      BY <1>8, <2>4
    <2>6. /\ UNCHANGED <<sandboxed, phase, index, open, question>> /\ stored \subseteq stored' /\ req[r].at # "unsent"
          /\ s \notin {"unsent", "arrived", "asking"}
          /\ s \in Underway /\ Runtime!Governed(req[r].to) => v = "allowed" /\ question[r] # None
          /\ (s \in {"storing", "stored"} => req[r].op = "tag") /\ (s = "stored" => r \in stored')
          /\ sandboxed /\ req[r].op = "tag" /\ s = "done" => r \in stored'
      BY <2>1, <2>2, <2>4, <2>5
    <2> QED
      BY <2>5, <2>6, RuntimeGoes
  <1>14. ASSUME NEW r \in Asking, Runtime!DaemonStores(r) \/ Runtime!TagAnswered(r) PROVE RuntimeInv'
    <2>1. UNCHANGED <<sandboxed, phase, index, open, question>> /\ req[r].at \in {"storing", "stored"}
      BY <1>14 DEF Runtime!DaemonStores, Runtime!TagAnswered
    <2>2. PICK s \in {"stored", "error", "done"} :
            /\ req' = [req EXCEPT ![r].at = s] /\ stored \subseteq stored'
            /\ s = "stored" => r \in stored'
            /\ s = "done" => req[r].at = "stored"
      BY <1>14 DEF Runtime!DaemonStores, Runtime!TagAnswered
    <2>3. /\ req[r].op = "tag" /\ (req[r].at = "stored" => r \in stored)
          /\ (Runtime!Governed(req[r].to) => req[r].verdict = "allowed" /\ question[r] # None)
      BY <1>1, <2>1 DEF Continues, Underway
    <2>4. req' = [req EXCEPT ![r] = Judge(req[r], s, req[r].verdict)]
      BY <1>8, <2>2
    <2>5. s = "stored" \/ s = "done" => r \in stored'
      BY <2>2, <2>3
    <2>6. /\ UNCHANGED <<sandboxed, phase, index, open, question>> /\ stored \subseteq stored' /\ req[r].at # "unsent"
          /\ s \notin {"unsent", "arrived", "asking"}
          /\ s \in Underway /\ Runtime!Governed(req[r].to) => req[r].verdict = "allowed" /\ question[r] # None
          /\ (s \in {"storing", "stored"} => req[r].op = "tag") /\ (s = "stored" => r \in stored')
          /\ sandboxed /\ req[r].op = "tag" /\ s = "done" => r \in stored'
      BY <2>1, <2>2, <2>3, <2>5
    <2> QED
      BY <2>4, <2>6, RuntimeGoes
  <1>15. ASSUME Runtime!DaemonDies PROVE RuntimeInv'
    <2>1. /\ UNCHANGED <<sandboxed, phase, open, question, stored>>
          /\ index' = [a \in App |-> IF index[a] = "socket" THEN "closed" ELSE index[a]]
          /\ req' = [r \in Asking |-> IF req[r].at \in {"storing", "stored"}
                                      THEN [req[r] EXCEPT !.at = "error"] ELSE req[r]]
      BY <1>15 DEF Runtime!DaemonDies
    <2>2. ASSUME NEW a \in App PROVE AppIsUp(a)' /\ (IsClient(index[a], sandboxed) => IsClient(index'[a], sandboxed))
      BY <2>1 DEF RuntimeInv, AppIsUp, IsClient
    <2>3. ASSUME NEW r \in Asking
          PROVE  /\ Continues(r, req'[r], question[r], stored, sandboxed)
                 /\ req'[r].at # "unsent" => IsClient(index'[req'[r].to], sandboxed)
      <3>1. req[r].at # "unsent" => req[r].to \in App /\ IsClient(index'[req[r].to], sandboxed)
        BY <1>1, <2>2 DEF Continues, Came
      <3>2. CASE req[r].at \in {"storing", "stored"}
        <4>1. req'[r] = Judge(req[r], "error", req[r].verdict)
          <5>1. req'[r] = [req[r] EXCEPT !.at = "error"]
            BY <2>1, <3>2
          <5>2. [req[r] EXCEPT !.at = "error"] = At(req[r], "error")
            BY <1>1, RequestIsSet
          <5> QED
            BY <5>1, <5>2 DEF At, Judge
        <4>2. Continues(r, Judge(req[r], "error", req[r].verdict), question[r], stored, sandboxed)
          BY <1>1, <3>2, GetsTo DEF Underway
        <4>3. Judge(req[r], "error", req[r].verdict).to = req[r].to
          BY DEF Judge
        <4> QED
          BY <3>1, <3>2, <4>1, <4>2, <4>3
      <3>3. CASE req[r].at \notin {"storing", "stored"}
        BY <1>1, <2>1, <3>1, <3>3
      <3> QED
        BY <3>2, <3>3
    <2>4. DOMAIN index' = App /\ DOMAIN req' = Asking
      BY <2>1
    <2> QED
      BY <1>0, <2>1, <2>2, <2>3, <2>4 DEF RuntimeInv
  <1> QED
    BY <1>3, <1>4, <1>5, <1>6, <1>7, <1>10, <1>11, <1>12, <1>13, <1>14, <1>15 DEF Runtime!Next

(* What runs of a governed app was allowed by its governor, which was told  *)
(* who opened the socket and not what the request says; and in a sandbox a  *)
(* tag is reported stored only if it was, though the index's daemon dies    *)
(* (rpc.ts, governance-gate.ts, semantic-fs.ts of the SDK).                 *)
THEOREM RuntimeKeepsItsWord ==
  ASSUME RuntimeAssumption
  PROVE  Runtime!Spec => [](Runtime!JudgedAsItCame /\ Runtime!NoLostWrite)
  <1>1. Runtime!Init => RuntimeInv
    <2> SUFFICES ASSUME Runtime!Init PROVE RuntimeInv
      OBVIOUS
    <2>1. IsRequest(Runtime!Unsent) /\ Runtime!Unsent.at = "unsent"
      BY DEF IsRequest, Runtime!Unsent
    <2>2. \A r \in Asking : Continues(r, Runtime!Unsent, None, {}, sandboxed)
      BY <2>1 DEF Continues, Underway
    <2>3. \A a \in App : AppIsUp(a)
      BY DEF Runtime!Init, AppIsUp
    <2> HIDE DEF Continues
    <2> QED
      BY <2>1, <2>2, <2>3 DEF Runtime!Init, RuntimeInv
  <1>2. RuntimeInv /\ [Runtime!Next]_Runtime!vars => RuntimeInv'
    <2>1. ASSUME RuntimeInv, UNCHANGED Runtime!vars PROVE RuntimeInv'
      <3>1. \A a \in App : AppIsUp(a)'
        BY <2>1 DEF RuntimeInv, AppIsUp, Runtime!vars
      <3> QED
        BY <2>1, <3>1 DEF RuntimeInv, Runtime!vars
    <2> QED
      BY <2>1, RuntimeStep
  <1>3. RuntimeInv => Runtime!JudgedAsItCame /\ Runtime!NoLostWrite
    <2> SUFFICES ASSUME RuntimeInv, NEW r \in Asking
                 PROVE  /\ req[r].at \in Underway /\ Runtime!Governed(req[r].to) =>
                             req[r].verdict = "allowed" /\ question[r] # None /\ question[r].app = req[r].to
                        /\ question[r] # None /\ req[r].from \in App /\ req[r].via \notin {"tcp", "http"} =>
                             question[r].caller = req[r].from
                             \/ (question[r].caller = "host" /\ req[r].from = req[r].to)
                        /\ sandboxed /\ req[r].op = "tag" /\ req[r].at = "done" => r \in stored
      BY DEF Runtime!JudgedAsItCame, Runtime!NoLostWrite, Underway
    <2>1. Continues(r, req[r], question[r], stored, sandboxed)
      BY DEF RuntimeInv
    <2>2. question[r] # None => question[r].app = req[r].to /\ question[r].caller = req[r].via /\ Came(req[r])
      BY <2>1 DEF Continues
    <2>3. ASSUME Came(req[r]), req[r].from \in App, req[r].via \notin {"tcp", "http"}
          PROVE  req[r].via = req[r].from \/ (req[r].via = "host" /\ req[r].from = req[r].to)
      BY <2>3 DEF Came, Runtime!CanOpen, RuntimeAssumption, Socket
    <2> QED
      BY <2>1, <2>2, <2>3 DEF Continues
  <1> QED
    BY <1>1, <1>2, <1>3, PTL DEF Runtime!Spec

-----------------------------------------------------------------------------
(* The postgres and mysql apps.  A connection no call holds has a clean     *)
(* session, a statement runs in one that was guarded, and what is kept of a *)
(* call is known from how far the call is and what it was told.             *)

Holding == {"guard", "running", "commit", "stop", "back", "discard"}

IsSession(e) ==
  e = [tx |-> e.tx, readOnly |-> e.readOnly, limit |-> e.limit, left |-> e.left, changed |-> e.changed, lost |-> e.lost]

Clean(e) == IsSession(e) /\ e.tx = "none" /\ ~e.left /\ ~e.changed

\* The session a statement is given.
Ready(e, m, g) ==
  /\ ~e.left /\ ~e.changed /\ e.limit
  /\ m = "read-only" => e.tx = "ro" /\ (g = "mysql" => e.readOnly)
  /\ m # "read-only" /\ g = "mysql" => e.tx = "rw"

\* What a call may be told of what is kept.
MayKeep(s, m, g) == m = "read-write" /\ s \notin {"refused", "failed", "timeout"} /\ (s = "truncated" => g = "postgres")

CallOK(c) ==
  /\ on[c] \in PoolConn \cup {None} /\ (at[c] \in Holding <=> on[c] # None)
  /\ at[c] # "new" => stmt[c] \in Sql!Statement
  /\ at[c] \in Holding \cup {"pool"} => Sql!ServesRole
  /\ at[c] \in Holding => IsSession(sess[on[c]])
  /\ at[c] = "guard" => Clean(sess[on[c]])
  /\ at[c] = "running" => Ready(sess[on[c]], mode, engine)
  /\ at[c] = "commit" => said[c] = "ok" /\ mode = "read-write"
  /\ at[c] = "stop" => engine = "mysql" /\ sess[on[c]].tx # "none"
  /\ c \in kept => at[c] \in {"commit", "back", "discard", "done"} /\ MayKeep(said[c], mode, engine)

\* What runs on in a session the app left, and would be kept, was lost.
OrphanOK(o) ==
  /\ o.call \in Call /\ at[o.call] \in {"discard", "done"}
  /\ o.tx = "none" => said[o.call] = "lost" /\ mode = "read-write"

SqlInv ==
  /\ mode \in {"read-only", "read-write"} /\ engine \in {"postgres", "mysql"}
  /\ opened = "open" => Sql!ServesRole
  /\ DOMAIN at = Call /\ DOMAIN stmt = Call /\ DOMAIN on = Call /\ DOMAIN said = Call /\ DOMAIN sess = PoolConn
  /\ \A c \in Call : CallOK(c)
  /\ \A c, d \in Call : on[c] = on[d] /\ on[c] # None => c = d
  /\ \A k \in PoolConn : Sql!Free(k) /\ sess[k] # None => Clean(sess[k])
  /\ \A o \in orphans : OrphanOK(o)
  /\ kept \subseteq Call

\* No connection is the absence of one.
SqlAssumption == None \notin PoolConn

\* A step of call c alone.
LEMMA SqlMoves ==
  ASSUME SqlAssumption, SqlInv, UNCHANGED <<engine, mode, privileged>>, opened' = "open" => opened = "open", NEW c \in Call,
         DOMAIN at' = Call, DOMAIN stmt' = Call, DOMAIN on' = Call, DOMAIN said' = Call, DOMAIN sess' = PoolConn,
         \A d \in Call : d # c => /\ at'[d] = at[d] /\ stmt'[d] = stmt[d] /\ on'[d] = on[d] /\ said'[d] = said[d]
                                  /\ (d \in kept' => d \in kept),
         kept' \subseteq Call,
         \A k \in PoolConn : k # on[c] /\ k # on'[c] => sess'[k] = sess[k],
         \/ on'[c] = on[c] \/ on'[c] = None
         \/ on[c] = None /\ on'[c] \in PoolConn /\ Sql!Free(on'[c]),
         on[c] # None /\ on'[c] = None => sess'[on[c]] = None \/ Clean(sess'[on[c]]),
         at[c] \in {"discard", "done"} => at'[c] \in {"discard", "done"} /\ said'[c] = said[c],
         \A o \in orphans' : o \in orphans \/ OrphanOK(o)',
         CallOK(c)'
  PROVE  SqlInv'
  <1>1. ASSUME NEW d \in Call, d # c PROVE CallOK(d)'
    <2>1. CallOK(d) /\ (on[d] # None => on[d] \in PoolConn /\ on[d] # on[c] /\ on[d] # on'[c])
      BY <1>1 DEF SqlInv, CallOK, Sql!Free, SqlAssumption
    <2>2. on[d] # None => sess'[on[d]] = sess[on[d]]
      BY <2>1
    <2>3. /\ UNCHANGED <<mode, engine>> /\ Sql!ServesRole' = Sql!ServesRole
          /\ at'[d] = at[d] /\ stmt'[d] = stmt[d] /\ on'[d] = on[d] /\ said'[d] = said[d]
          /\ d \in kept' => d \in kept
      BY <1>1 DEF Sql!ServesRole
    <2>4. at[d] \in Holding => sess'[on'[d]] = sess[on[d]]
      BY <2>1, <2>2, <2>3 DEF CallOK
    <2>5. at[d] \in {"guard", "running", "stop"} => at[d] \in Holding
      BY DEF Holding
    <2> QED
      BY <2>1, <2>3, <2>4, <2>5 DEF CallOK
  <1>2. ASSUME NEW d \in Call, NEW e \in Call, on'[d] = on'[e], on'[d] # None PROVE d = e
    BY <1>2 DEF SqlInv, Sql!Free, SqlAssumption
  <1>3. ASSUME NEW k \in PoolConn, Sql!Free(k)', sess'[k] # None PROVE Clean(sess'[k])
    <2>1. k # on'[c] /\ \A d \in Call : d # c => on[d] # k
      BY <1>3 DEF Sql!Free
    <2>2. CASE k = on[c]
      BY <1>3, <2>1, <2>2 DEF SqlAssumption
    <2>3. CASE k # on[c]
      BY <1>3, <2>1, <2>3 DEF SqlInv, Sql!Free
    <2> QED
      BY <2>2, <2>3
  <1>4. ASSUME NEW o \in orphans' PROVE OrphanOK(o)'
    BY <1>4 DEF SqlInv, OrphanOK
  <1>5. /\ mode' \in {"read-only", "read-write"} /\ engine' \in {"postgres", "mysql"}
        /\ opened' = "open" => Sql!ServesRole'
    BY DEF SqlInv, Sql!ServesRole
  <1> QED
    BY <1>1, <1>2, <1>3, <1>4, <1>5 DEF SqlInv

\* What a statement does to its session leaves a session.
LEMMA SessionExcept ==
  ASSUME NEW e, IsSession(e)
  PROVE  /\ \A v : IsSession([e EXCEPT !.changed = v]) /\ IsSession([e EXCEPT !.tx = v]) /\ IsSession([e EXCEPT !.lost = v])
         /\ \A u, v, w : IsSession([e EXCEPT !.left = u, !.readOnly = v, !.limit = w])
  <1>1. ASSUME NEW v PROVE IsSession([e EXCEPT !.changed = v])
    BY DEF IsSession
  <1>2. ASSUME NEW v PROVE IsSession([e EXCEPT !.tx = v])
    BY DEF IsSession
  <1>3. ASSUME NEW v PROVE IsSession([e EXCEPT !.lost = v])
    BY DEF IsSession
  <1>4. ASSUME NEW u, NEW v, NEW w PROVE IsSession([e EXCEPT !.left = u, !.readOnly = v, !.limit = w])
    <2> DEFINE f == [e EXCEPT !.left = u, !.readOnly = v, !.limit = w]
               a == [e EXCEPT !.left = u]
               b == [a EXCEPT !.readOnly = v]
    <2>1. f = [b EXCEPT !.limit = w]
      OBVIOUS
    <2>2. IsSession(a)
      BY DEF IsSession
    <2>3. IsSession(a) => IsSession(b)
      <3> HIDE DEF a
      <3> QED
        BY DEF IsSession
    <2> HIDE DEF b, f
    <2>4. IsSession([b EXCEPT !.limit = w])
      BY <2>2, <2>3 DEF IsSession
    <2>5. IsSession(f)
      BY <2>1, <2>4
    <2> QED
      BY <2>5 DEF f
  <1> QED
    BY <1>1, <1>2, <1>3, <1>4

\* A call's statement, or its commit, comes to an end.
LEMMA SqlEnds ==
  ASSUME SqlAssumption, SqlInv, UNCHANGED <<engine, mode, privileged, opened, stmt, on>>, NEW c \in Call, at[c] \in Holding,
         at[c] # "discard", NEW s, NEW t \in {"commit", "stop", "back", "discard"}, NEW e, IsSession(e),
         said' = [said EXCEPT ![c] = s], sess' = [sess EXCEPT ![on[c]] = e], at' = [at EXCEPT ![c] = t],
         t = "commit" => s = "ok" /\ mode = "read-write",
         t = "stop" => engine = "mysql" /\ e.tx # "none",
         kept' = kept \/ kept' = kept \cup {c}, c \in kept' => t # "stop" /\ MayKeep(s, mode, engine),
         \A o \in orphans' : o \in orphans \/ OrphanOK(o)'
  PROVE  SqlInv'
  <1>1. /\ DOMAIN at = Call /\ DOMAIN stmt = Call /\ DOMAIN on = Call /\ DOMAIN said = Call /\ DOMAIN sess = PoolConn
        /\ CallOK(c) /\ kept \subseteq Call
    BY DEF SqlInv
  <1>2. on[c] \in PoolConn /\ on[c] # None /\ stmt[c] \in Sql!Statement /\ Sql!ServesRole
    BY <1>1 DEF CallOK, Holding
  <1>3. /\ DOMAIN at' = Call /\ DOMAIN said' = Call /\ DOMAIN sess' = PoolConn
        /\ at'[c] = t /\ said'[c] = s /\ sess'[on[c]] = e
        /\ \A d \in Call : d # c => at'[d] = at[d] /\ said'[d] = said[d]
        /\ \A k \in PoolConn : k # on[c] => sess'[k] = sess[k]
    BY <1>1, <1>2
  <1>4. CallOK(c)'
    BY <1>1, <1>2, <1>3 DEF CallOK, Holding, MayKeep, Sql!ServesRole
  <1>5. at[c] \notin {"discard", "done"} /\ kept' \subseteq Call
        /\ \A d \in Call : d # c => (d \in kept' => d \in kept)
    BY <1>1 DEF Holding
  <1> QED
    BY <1>1, <1>2, <1>3, <1>4, <1>5, SqlMoves

LEMMA SqlExecutes ==
  ASSUME SqlAssumption, SqlInv, NEW c \in Call, Sql!Executes(c)
  PROVE  SqlInv'
  <1> DEFINE e == sess[on[c]]
  <1>1. /\ CallOK(c) /\ at[c] = "running" /\ c \notin kept /\ mode \in {"read-only", "read-write"}
        /\ engine \in {"postgres", "mysql"}
    BY DEF SqlInv, CallOK, Sql!Executes
  <1>2. /\ IsSession(e) /\ Ready(e, mode, engine) /\ stmt[c] \in Sql!Statement /\ Sql!ServesRole
    BY <1>1 DEF CallOK, Holding
  <1>3. UNCHANGED <<engine, mode, privileged, opened, stmt, on, orphans>>
    BY DEF Sql!Executes, Sql!rigid
  <1>4. /\ IsSession([e EXCEPT !.changed = (e.tx = "rw")])
        /\ IsSession([e EXCEPT !.tx = "none"])
        /\ IsSession([e EXCEPT !.left = TRUE, !.readOnly = FALSE, !.limit = FALSE])
        /\ IsSession([e EXCEPT !.lost = TRUE])
    BY <1>2, SessionExcept
  <1>5. [e EXCEPT !.changed = (e.tx = "rw")].tx = e.tx
    BY <1>2 DEF IsSession
  <1> HIDE DEF e
  <1>6. ASSUME NEW s, NEW t \in {"commit", "stop", "back", "discard"}, NEW f, IsSession(f), Sql!Ends(c, s, t, f),
               t = "commit" => s = "ok" /\ mode = "read-write",
               t = "stop" => engine = "mysql" /\ f.tx # "none",
               kept' = kept \/ (kept' = kept \cup {c} /\ t # "stop" /\ MayKeep(s, mode, engine))
        PROVE  SqlInv'
    <2>1. /\ said' = [said EXCEPT ![c] = s] /\ sess' = [sess EXCEPT ![on[c]] = f] /\ at' = [at EXCEPT ![c] = t]
      BY <1>6 DEF Sql!Ends, Sql!Go
    <2>2. at[c] \in Holding /\ at[c] # "discard" /\ (kept' = kept \/ kept' = kept \cup {c})
          /\ (c \in kept' => t # "stop" /\ MayKeep(s, mode, engine))
      BY <1>1, <1>6 DEF Holding
    <2> QED
      BY <1>3, <1>6, <2>1, <2>2, SqlEnds
  <1>7. Sql!Refused(c) => SqlInv'
    <2> SUFFICES ASSUME Sql!Refused(c) PROVE SqlInv'
      OBVIOUS
    <2>1. PICK s, t : t = "back" /\ Sql!Ends(c, s, t, e) /\ kept' = kept
      BY DEF Sql!Refused, Sql!Sess, e
    <2> QED
      BY <1>2, <1>6, <2>1
  <1>8. Sql!AfterResult \in {"commit", "back"} /\ (Sql!AfterResult = "commit" => mode = "read-write" /\ engine = "mysql")
    BY DEF Sql!AfterResult
  <1>9. ASSUME NEW s \in {"ok", "truncated"}, NEW t \in {"commit", "stop", "back"}, Sql!Changes(c, s, t), ~Sql!ReadOnly(c),
               t = "commit" => s = "ok" /\ mode = "read-write",
               t = "stop" => engine = "mysql",
               s = "truncated" /\ engine = "mysql" => t = "stop"
        PROVE  SqlInv'
    <2> DEFINE f == [e EXCEPT !.changed = (e.tx = "rw")]
    <2>1. Sql!Ends(c, s, t, f) /\ kept' = IF e.tx = "none" THEN kept \cup {c} ELSE kept
      BY <1>9 DEF Sql!Changes, Sql!Sess, e
    <2>2. mode = "read-write" /\ (engine = "mysql" => e.tx = "rw")
      BY <1>1, <1>2, <1>9 DEF Ready, Sql!ReadOnly, Sql!Sess, e
    <2>3. IsSession(f) /\ f.tx = e.tx
      BY <1>4, <1>5
    <2>4. MayKeep(s, mode, engine) \/ (s = "truncated" /\ engine = "mysql")
      BY <1>1, <1>9, <2>2 DEF MayKeep
    <2> HIDE DEF f
    <2> QED
      BY <1>6, <1>9, <2>1, <2>2, <2>3, <2>4
  <1>10. CASE stmt[c] = "read"
    <2>1. PICK s, t : s = "ok" /\ t = Sql!AfterResult /\ Sql!Ends(c, s, t, e) /\ kept' = kept
      BY <1>10 DEF Sql!Executes, Sql!Sess, e
    <2> QED
      BY <1>2, <1>6, <1>8, <2>1
  <1>11. CASE stmt[c] \in {"write", "slow"}
    <2>1. \/ Sql!Refused(c)
          \/ ~Sql!ReadOnly(c) /\ \E s, t : s = "ok" /\ t = Sql!AfterResult /\ Sql!Changes(c, s, t)
      BY <1>11 DEF Sql!Executes
    <2> QED
      BY <1>7, <1>8, <1>9, <2>1
  <1>12. CASE stmt[c] = "many"
    <2>1. \/ Sql!Refused(c)
          \/ ~Sql!ReadOnly(c) /\ \E s, t : s = "truncated" /\ t = (IF engine = "mysql" THEN "stop" ELSE "back")
                                           /\ Sql!Changes(c, s, t)
      BY <1>12 DEF Sql!Executes
    <2> QED
      BY <1>7, <1>9, <2>1
  <1>13. CASE stmt[c] = "ddl"
    <2>1. CASE engine = "postgres"
      <3>1. \/ Sql!Refused(c)
            \/ ~Sql!ReadOnly(c) /\ \E s, t : s = "ok" /\ t = "back" /\ Sql!Changes(c, s, t)
        BY <1>13, <2>1 DEF Sql!Executes
      <3> QED
        BY <1>7, <1>9, <3>1
    <2>2. CASE engine = "mysql"
      <3>1. \/ Sql!Refused(c)
            \/ /\ ~e.readOnly /\ kept' = kept \cup {c}
               /\ \E s, t : s = "ok" /\ t = Sql!AfterResult /\ Sql!Ends(c, s, t, [e EXCEPT !.tx = "none"])
        BY <1>13, <2>2 DEF Sql!Executes, Sql!Sess, e
      <3>2. ~e.readOnly => mode = "read-write"
        BY <1>1, <1>2, <2>2 DEF Ready
      <3>3. IsSession([e EXCEPT !.tx = "none"])
        BY <1>4
      <3>4. mode = "read-write" => MayKeep("ok", mode, engine)
        BY DEF MayKeep
      <3> QED
        BY <1>6, <1>7, <1>8, <3>1, <3>2, <3>3, <3>4
    <2> QED
      BY <1>1, <2>1, <2>2
  <1>14. CASE stmt[c] = "set"
    <2> DEFINE f == [e EXCEPT !.left = TRUE, !.readOnly = FALSE, !.limit = FALSE]
    <2>1. PICK s, t : s = "ok" /\ t = Sql!AfterResult /\ Sql!Ends(c, s, t, f) /\ kept' = kept
      BY <1>14 DEF Sql!Executes, Sql!Sess, e
    <2>2. IsSession(f)
      BY <1>4
    <2> HIDE DEF f
    <2> QED
      BY <1>6, <1>8, <2>1, <2>2
  <1>15. CASE stmt[c] = "program"
    <2>1. \/ Sql!Refused(c)
          \/ /\ privileged /\ kept' = kept \cup {c}
             /\ \E s, t : s = "ok" /\ t = Sql!AfterResult /\ Sql!Ends(c, s, t, e)
      BY <1>15 DEF Sql!Executes, Sql!Sess, e
    <2>2. privileged => mode = "read-write" /\ MayKeep("ok", mode, engine)
      BY <1>2 DEF Sql!ServesRole, MayKeep
    <2> QED
      BY <1>2, <1>6, <1>7, <1>8, <2>1, <2>2
  <1>16. CASE stmt[c] = "end"
    <2> DEFINE f == [e EXCEPT !.lost = TRUE]
    <2>1. PICK s, t : t = "discard" /\ Sql!Ends(c, s, t, f) /\ kept' = kept
      BY <1>16 DEF Sql!Executes, Sql!Sess, e
    <2>2. IsSession(f)
      BY <1>4
    <2> HIDE DEF f
    <2> QED
      BY <1>6, <2>1, <2>2
  <1> QED
    BY <1>2, <1>10, <1>11, <1>12, <1>13, <1>14, <1>15, <1>16 DEF Sql!Statement


\* What a call's own steps have in common.
SqlShape ==
  /\ DOMAIN at = Call /\ DOMAIN stmt = Call /\ DOMAIN on = Call /\ DOMAIN said = Call /\ DOMAIN sess = PoolConn
  /\ kept \subseteq Call

LEMMA SqlStarts ==
  ASSUME SqlAssumption, SqlInv, NEW c \in Call, NEW s \in Sql!Statement, Sql!Start(c, s)
  PROVE  SqlInv'
  <1>1. SqlShape /\ CallOK(c) /\ at[c] = "new"
    BY DEF SqlInv, SqlShape, Sql!Start
  <1>2. on[c] = None /\ c \notin kept
    BY <1>1 DEF CallOK, Holding
  <1>3. /\ UNCHANGED <<engine, mode, privileged, on, said, sess, orphans, kept>>
        /\ stmt' = [stmt EXCEPT ![c] = s] /\ at' = [at EXCEPT ![c] = "connection"]
        /\ opened' = "open" => opened = "open"
    BY DEF Sql!Start, Sql!rigid, Sql!Go
  <1>4. CallOK(c)'
    BY <1>1, <1>2, <1>3 DEF SqlShape, CallOK, Holding
  <1> QED
    BY <1>1, <1>2, <1>3, <1>4, SqlMoves DEF SqlShape

LEMMA SqlOpens ==
  ASSUME SqlAssumption, SqlInv, Sql!OpenEnds
  PROVE  SqlInv'
  <1>1. UNCHANGED <<engine, mode, privileged, stmt, on, sess, orphans, kept>>
    BY DEF Sql!OpenEnds, Sql!rigid
  <1>2. CASE Sql!ServesRole /\ opened' = "open" /\ UNCHANGED <<pools, at, said>>
    <2>1. \A c \in Call : CallOK(c)'
      BY <1>1, <1>2 DEF SqlInv, CallOK, Ready, MayKeep, Sql!ServesRole
    <2>2. \A k \in PoolConn : (Sql!Free(k) /\ sess[k] # None => Clean(sess[k]))'
      BY <1>1, <1>2 DEF SqlInv, Sql!Free
    <2>3. \A o \in orphans' : OrphanOK(o)'
      BY <1>1, <1>2 DEF SqlInv, OrphanOK
    <2> QED
      BY <1>1, <1>2, <2>1, <2>2, <2>3 DEF SqlInv, Sql!ServesRole
  <1>3. CASE /\ opened' = "none"
             /\ at' = [c \in Call |-> IF at[c] = "connection" THEN "done" ELSE at[c]]
             /\ said' = [c \in Call |-> IF at[c] = "connection" THEN "failed" ELSE said[c]]
    <2>1. ASSUME NEW c \in Call PROVE CallOK(c)'
      <3>1. CallOK(c) /\ UNCHANGED <<engine, mode, privileged, stmt, on, sess, kept>>
        BY <1>1 DEF SqlInv
      <3>2. CASE at[c] = "connection"
        <4>1. at'[c] = "done" /\ on[c] = None /\ c \notin kept /\ stmt[c] \in Sql!Statement
          BY <1>3, <3>1, <3>2 DEF CallOK, Holding
        <4> QED
          BY <3>1, <4>1 DEF CallOK, Holding
      <3>3. CASE at[c] # "connection"
        <4>1. at'[c] = at[c] /\ said'[c] = said[c]
          BY <1>3, <3>3
        <4> QED
          BY <3>1, <4>1 DEF CallOK, Ready, MayKeep, Sql!ServesRole
      <3> QED
        BY <3>2, <3>3
    <2>2. \A k \in PoolConn : (Sql!Free(k) /\ sess[k] # None => Clean(sess[k]))'
      BY <1>1 DEF SqlInv, Sql!Free
    <2>3. \A o \in orphans' : OrphanOK(o)'
      BY <1>1, <1>3 DEF SqlInv, OrphanOK
    <2> QED
      BY <1>1, <1>3, <2>1, <2>2, <2>3 DEF SqlInv
  <1> QED
    BY <1>2, <1>3 DEF Sql!OpenEnds

\* A call is given its connection, and its session is made ready for it.
LEMMA SqlTakes ==
  ASSUME SqlAssumption, SqlInv, NEW c \in Call,
         Sql!Connected(c) \/ (\E k \in PoolConn : Sql!Take(c, k)) \/ Sql!Guard(c)
  PROVE  SqlInv'
  <1>1. /\ SqlShape /\ CallOK(c)
        /\ mode \in {"read-only", "read-write"} /\ engine \in {"postgres", "mysql"}
        /\ opened = "open" => Sql!ServesRole
    BY DEF SqlInv, SqlShape
  <1>2. UNCHANGED <<engine, mode, privileged, opened, stmt, orphans, kept>>
    BY DEF Sql!Connected, Sql!Take, Sql!Guard, Sql!rigid
  <1>3. CASE Sql!Connected(c)
    <2>1. at[c] = "connection" /\ opened = "open" /\ at' = [at EXCEPT ![c] = "pool"] /\ UNCHANGED <<on, said, sess>>
      BY <1>3 DEF Sql!Connected, Sql!Go
    <2>2. on[c] = None /\ c \notin kept /\ stmt[c] \in Sql!Statement /\ Sql!ServesRole
      BY <1>1, <2>1 DEF CallOK, Holding
    <2>3. CallOK(c)'
      BY <1>1, <1>2, <2>1, <2>2 DEF SqlShape, CallOK, Holding, Sql!ServesRole
    <2> QED
      BY <1>1, <1>2, <2>1, <2>2, <2>3, SqlMoves DEF SqlShape
  <1>4. ASSUME NEW k \in PoolConn, Sql!Take(c, k) PROVE SqlInv'
    <2> DEFINE f == IF sess[k] = None \/ sess[k].lost THEN Sql!Fresh ELSE sess[k]
    <2>1. /\ at[c] = "pool" /\ Sql!Free(k) /\ said' = said
          /\ at' = [at EXCEPT ![c] = "guard"] /\ on' = [on EXCEPT ![c] = k] /\ sess' = [sess EXCEPT ![k] = f]
      BY <1>4 DEF Sql!Take, Sql!Go
    <2>2. on[c] = None /\ c \notin kept /\ stmt[c] \in Sql!Statement /\ Sql!ServesRole
      BY <1>1, <2>1 DEF CallOK, Holding
    <2>3. Clean(f) /\ IsSession(f)
      BY <2>1 DEF SqlInv, Clean, IsSession, Sql!Fresh
    <2> HIDE DEF f
    <2>4. at'[c] = "guard" /\ on'[c] = k /\ sess'[k] = f /\ k # None
      BY <1>1, <2>1 DEF SqlShape, SqlAssumption
    <2>5. CallOK(c)'
      BY <1>2, <2>2, <2>3, <2>4 DEF CallOK, Holding, Sql!ServesRole
    <2>6. /\ DOMAIN at' = Call /\ DOMAIN stmt' = Call /\ DOMAIN on' = Call /\ DOMAIN said' = Call /\ DOMAIN sess' = PoolConn
          /\ \A d \in Call : d # c => /\ at'[d] = at[d] /\ stmt'[d] = stmt[d] /\ on'[d] = on[d] /\ said'[d] = said[d]
                                      /\ (d \in kept' => d \in kept)
          /\ kept' \subseteq Call
          /\ \A h \in PoolConn : h # k => sess'[h] = sess[h]
      BY <1>1, <1>2, <2>1 DEF SqlShape
    <2> QED
      BY <1>2, <2>1, <2>2, <2>4, <2>5, <2>6, SqlMoves
  <1>5. CASE Sql!Guard(c)
    <2> DEFINE e == sess[on[c]]
    <2>1. at[c] = "guard" /\ on' = on
      BY <1>5 DEF Sql!Guard
    <2>2. /\ on[c] # None /\ on[c] \in PoolConn /\ c \notin kept /\ stmt[c] \in Sql!Statement /\ Sql!ServesRole
          /\ Clean(e) /\ IsSession(e)
      BY <1>1, <2>1 DEF CallOK, Holding
    <2>3. CASE e.lost
      <3>1. /\ said' = [said EXCEPT ![c] = "lost"] /\ at' = [at EXCEPT ![c] = "discard"] /\ sess' = sess
        BY <1>5, <2>3 DEF Sql!Guard, Sql!Sess, Sql!Go
      <3>2. CallOK(c)'
        BY <1>1, <1>2, <2>1, <2>2, <3>1 DEF SqlShape, CallOK, Holding, Sql!ServesRole
      <3> QED
        BY <1>1, <1>2, <2>1, <2>2, <3>1, <3>2, SqlMoves DEF SqlShape
    <2>4. CASE ~e.lost
      <3>1. /\ said' = said /\ at' = [at EXCEPT ![c] = "running"] /\ sess' = [sess EXCEPT ![on[c]] = Sql!Guarded(c)]
        BY <1>5, <2>4 DEF Sql!Guard, Sql!Sess, Sql!Go
      <3>2. IsSession(Sql!Guarded(c)) /\ Ready(Sql!Guarded(c), mode, engine)
        <4> DEFINE ro == engine = "mysql" /\ mode = "read-only"
                   tx == IF mode = "read-only" THEN "ro" ELSE IF engine = "mysql" THEN "rw" ELSE "none"
        <4>1. Sql!Guarded(c) = [e EXCEPT !.limit = TRUE, !.readOnly = ro, !.tx = tx]
          BY DEF Sql!Guarded, Sql!Sess
        <4>2. Sql!Guarded(c) = [tx |-> tx, readOnly |-> ro, limit |-> TRUE,
                                left |-> e.left, changed |-> e.changed, lost |-> e.lost]
          BY <2>2, <4>1 DEF IsSession
        <4>3. ~e.left /\ ~e.changed
          BY <2>2 DEF Clean
        <4>4. IsSession(Sql!Guarded(c))
          BY <4>2 DEF IsSession
        <4>5. Ready(Sql!Guarded(c), mode, engine)
          <5>1. /\ Sql!Guarded(c).left = e.left /\ Sql!Guarded(c).changed = e.changed
                /\ Sql!Guarded(c).limit = TRUE /\ Sql!Guarded(c).readOnly = ro
            <6> DEFINE r == [tx |-> tx, readOnly |-> ro, limit |-> TRUE,
                             left |-> e.left, changed |-> e.changed, lost |-> e.lost]
            <6>1. r.left = e.left
              BY Zenon
            <6>2. r.changed = e.changed
              BY Zenon
            <6>3. r.limit = TRUE
              BY Zenon
            <6>4. r.readOnly = ro
              BY Zenon
            <6> QED
              BY <4>2, <6>1, <6>2, <6>3, <6>4, Zenon
          <5>2. Sql!Guarded(c).tx = tx
            BY <4>2
          <5>3. mode = "read-only" => tx = "ro" /\ (engine = "mysql" => ro)
            BY SMT
          <5>4. mode # "read-only" /\ engine = "mysql" => tx = "rw"
            BY SMT
          <5> HIDE DEF ro, tx
          <5> QED
            BY <4>3, <5>1, <5>2, <5>3, <5>4, Zenon DEF Ready
        <4> QED
          BY <4>4, <4>5
      <3>3. at'[c] = "running" /\ sess'[on[c]] = Sql!Guarded(c)
        BY <1>1, <2>2, <3>1 DEF SqlShape
      <3>4. Ready(sess'[on[c]], mode', engine')
        BY <1>2, <3>2, <3>3
      <3>5. CallOK(c)'
        BY <1>2, <2>1, <2>2, <3>2, <3>3, <3>4 DEF CallOK, Holding, Sql!ServesRole
      <3>6. /\ DOMAIN at' = Call /\ DOMAIN stmt' = Call /\ DOMAIN on' = Call /\ DOMAIN said' = Call /\ DOMAIN sess' = PoolConn
            /\ \A d \in Call : d # c => /\ at'[d] = at[d] /\ stmt'[d] = stmt[d] /\ on'[d] = on[d] /\ said'[d] = said[d]
                                        /\ (d \in kept' => d \in kept)
            /\ kept' \subseteq Call
            /\ \A h \in PoolConn : h # on[c] /\ h # on'[c] => sess'[h] = sess[h]
        BY <1>1, <1>2, <2>1, <3>1 DEF SqlShape
      <3> QED
        BY <1>2, <2>1, <2>2, <3>3, <3>5, <3>6, SqlMoves
    <2> QED
      BY <2>3, <2>4
  <1> QED
    BY <1>3, <1>4, <1>5

\* A statement is cut short, and a commit, a closed or a returned connection
\* ends the call.
LEMMA SqlFinishes ==
  ASSUME SqlAssumption, SqlInv, NEW c \in Call,
         Sql!Commit(c) \/ Sql!StopStatement(c) \/ Sql!Discard(c) \/ Sql!PutBack(c) \/ Sql!Timer(c) \/ Sql!ServerLimit(c)
  PROVE  SqlInv'
  <1> DEFINE e == sess[on[c]]
  <1>1. SqlShape /\ CallOK(c) /\ mode \in {"read-only", "read-write"} /\ at[c] \in Holding
    BY DEF SqlInv, SqlShape, Holding, Sql!Commit, Sql!StopStatement, Sql!Discard, Sql!PutBack, Sql!Timer, Sql!ServerLimit
  <1>2. UNCHANGED <<engine, mode, privileged, opened, stmt>>
    BY DEF Sql!Commit, Sql!StopStatement, Sql!Discard, Sql!PutBack, Sql!Timer, Sql!ServerLimit, Sql!rigid
  <1>3. /\ on[c] \in PoolConn /\ on[c] # None /\ stmt[c] \in Sql!Statement /\ Sql!ServesRole /\ IsSession(e)
        /\ at[c] = "running" => Ready(e, mode, engine)
    <2>1. on[c] \in PoolConn /\ on[c] # None /\ Sql!ServesRole /\ IsSession(e)
      BY <1>1 DEF CallOK
    <2>2. stmt[c] \in Sql!Statement
      BY <1>1 DEF CallOK, Holding
    <2>3. at[c] = "running" => Ready(e, mode, engine)
      BY <1>1 DEF CallOK
    <2> QED
      BY <2>1, <2>2, <2>3
  <1>4. Sql!ServesRole' = Sql!ServesRole
    BY <1>2 DEF Sql!ServesRole
  <1> HIDE DEF e
  <1>5. CASE Sql!Commit(c)
    <2>1. /\ at[c] = "commit" /\ on' = on /\ orphans' = orphans
          /\ kept' = kept \/ kept' = kept \cup {c}
          /\ sess' = [sess EXCEPT ![on[c]].tx = "none", ![on[c]].changed = FALSE]
          /\ \/ at' = [at EXCEPT ![c] = "back"] /\ said' = said
             \/ at' = [at EXCEPT ![c] = "discard"] /\ said' = [said EXCEPT ![c] = "lost"]
      BY <1>5 DEF Sql!Commit, Sql!Go
    <2>2. sess'[on[c]] = [[e EXCEPT !.tx = "none"] EXCEPT !.changed = FALSE]
      BY <1>1, <1>3, <2>1 DEF SqlShape, e
    <2>3. IsSession(sess'[on[c]])
      <3>1. PICK f : f = [e EXCEPT !.tx = "none"] /\ IsSession(f)
        BY <1>3, SessionExcept
      <3>2. \A v : IsSession([f EXCEPT !.changed = v])
        BY <3>1, SessionExcept
      <3>3. sess'[on[c]] = [f EXCEPT !.changed = FALSE]
        BY <2>2, <3>1, Zenon
      <3> QED
        BY <3>2, <3>3, Zenon
    <2>4. said[c] = "ok" /\ mode = "read-write"
      BY <1>1, <2>1 DEF CallOK
    <2>5. /\ at'[c] \in {"back", "discard"} /\ said'[c] \in {"ok", "lost"}
          /\ DOMAIN at' = Call /\ DOMAIN said' = Call /\ DOMAIN sess' = PoolConn /\ kept' \subseteq Call
          /\ \A d \in Call : d # c => /\ at'[d] = at[d] /\ said'[d] = said[d]
                                      /\ (d \in kept' => d \in kept)
          /\ \A h \in PoolConn : h # on[c] => sess'[h] = sess[h]
      BY <1>1, <2>1, <2>4 DEF SqlShape
    <2>6. MayKeep(said'[c], mode', engine')
      BY <1>2, <2>4, <2>5 DEF MayKeep
    <2>7. CallOK(c)'
      BY <1>1, <1>2, <1>3, <1>4, <2>1, <2>3, <2>5, <2>6 DEF CallOK, Holding
    <2>8. at[c] \notin {"discard", "done"} /\ DOMAIN stmt' = Call /\ DOMAIN on' = Call
          /\ \A d \in Call : stmt'[d] = stmt[d] /\ on'[d] = on[d]
      BY <1>1, <1>2, <2>1 DEF SqlShape
    <2> QED
      BY <1>2, <1>3, <2>1, <2>5, <2>7, <2>8, SqlMoves
  <1>6. CASE Sql!StopStatement(c)
    <2>1. /\ at[c] = "stop" /\ at' = [at EXCEPT ![c] = "discard"] /\ UNCHANGED <<on, said, sess, kept>>
          /\ orphans' = orphans \/ orphans' = orphans \cup {[call |-> c, tx |-> e.tx]}
      BY <1>6 DEF Sql!StopStatement, Sql!Go, Sql!Sess, e
    <2>2. e.tx # "none" /\ c \notin kept
      BY <1>1, <2>1 DEF CallOK, e
    <2>3. CallOK(c)'
      BY <1>1, <1>2, <1>3, <1>4, <2>1, <2>2 DEF SqlShape, CallOK, Holding, e
    <2>4. at'[c] = "discard" /\ DOMAIN at' = Call /\ \A d \in Call : d # c => at'[d] = at[d]
      BY <1>1, <2>1 DEF SqlShape
    <2>5. \A o \in orphans' : o \in orphans \/ OrphanOK(o)'
      BY <2>1, <2>2, <2>4 DEF OrphanOK
    <2> QED
      BY <1>1, <1>2, <1>3, <2>1, <2>3, <2>4, <2>5, SqlMoves DEF SqlShape
  <1>7. CASE Sql!Discard(c) \/ Sql!PutBack(c)
    <2>1. /\ at[c] \in {"discard", "back"} /\ at' = [at EXCEPT ![c] = "done"] /\ on' = [on EXCEPT ![c] = None]
          /\ UNCHANGED <<said, orphans, kept>>
          /\ \/ sess' = [sess EXCEPT ![on[c]] = None]
             \/ sess' = [sess EXCEPT ![on[c]] = Sql!Reset(e)]
      BY <1>1, <1>3, <1>7 DEF SqlShape, Sql!Discard, Sql!PutBack, Sql!Go, e
    <2>2. Clean(Sql!Reset(e))
      <3>1. PICK w : w = FALSE
        OBVIOUS
      <3>2. Sql!Fresh = [tx |-> "none", readOnly |-> w, limit |-> w, left |-> w, changed |-> w, lost |-> w]
        BY <3>1, Zenon DEF Sql!Fresh
      <3>3. Sql!Reset(e) = [[tx |-> "none", readOnly |-> w, limit |-> w, left |-> w, changed |-> w, lost |-> w]
                             EXCEPT !.lost = e.lost]
        BY <3>2, Zenon DEF Sql!Reset
      <3>4. Sql!Reset(e) = [tx |-> "none", readOnly |-> w, limit |-> w, left |-> w, changed |-> w, lost |-> e.lost]
        BY <3>3
      <3>5. IsSession(Sql!Reset(e))
        BY <3>4 DEF IsSession
      <3>6. Sql!Reset(e).tx = "none" /\ Sql!Reset(e).left = w /\ Sql!Reset(e).changed = w
        BY <3>4
      <3>7. ~Sql!Reset(e).left /\ ~Sql!Reset(e).changed
        BY <3>1, <3>6, Zenon
      <3> QED
        BY <3>5, <3>6, <3>7 DEF Clean
    <2>3. /\ at'[c] = "done" /\ on'[c] = None /\ (sess'[on[c]] = None \/ Clean(sess'[on[c]]))
          /\ DOMAIN at' = Call /\ DOMAIN on' = Call /\ DOMAIN sess' = PoolConn
          /\ \A d \in Call : d # c => at'[d] = at[d] /\ on'[d] = on[d]
          /\ \A h \in PoolConn : h # on[c] => sess'[h] = sess[h]
      BY <1>1, <1>3, <2>1, <2>2 DEF SqlShape
    <2>4. c \in kept => MayKeep(said[c], mode, engine)
      BY <1>1 DEF CallOK
    <2>5. CallOK(c)'
      BY <1>2, <1>3, <2>1, <2>3, <2>4 DEF CallOK, Holding
    <2>6. \A d \in Call : d # c => stmt'[d] = stmt[d] /\ said'[d] = said[d] /\ (d \in kept' => d \in kept)
      BY <1>2, <2>1
    <2>7. /\ DOMAIN stmt' = Call /\ DOMAIN said' = Call /\ kept' \subseteq Call
      BY <1>1, <1>2, <2>1 DEF SqlShape
    <2>8. on'[c] = None /\ said'[c] = said[c] /\ \A o \in orphans' : o \in orphans
      BY <2>1, <2>3
    <2> QED
      BY <1>2, <2>3, <2>5, <2>6, <2>7, <2>8, SqlMoves
  <1>8. CASE Sql!Timer(c) \/ Sql!ServerLimit(c)
    <2>1. PICK s, t : /\ s = "timeout" /\ t \in {"stop", "back"} /\ (t = "stop" => engine = "mysql")
                      /\ Sql!Ends(c, s, t, e) /\ UNCHANGED <<on, orphans, kept>> /\ at[c] = "running"
      BY <1>8 DEF Sql!Timer, Sql!ServerLimit, Sql!Sess, e
    <2>2. c \notin kept
      BY <1>1, <2>1 DEF CallOK
    <2>3. t = "stop" => e.tx # "none"
      BY <1>1, <1>3, <2>1 DEF Ready
    <2>4. /\ said' = [said EXCEPT ![c] = s] /\ sess' = [sess EXCEPT ![on[c]] = e] /\ at' = [at EXCEPT ![c] = t]
      BY <2>1 DEF Sql!Ends, Sql!Go
    <2>5. /\ UNCHANGED <<engine, mode, privileged, opened, stmt, on>> /\ at[c] # "discard"
          /\ t \in {"commit", "stop", "back", "discard"}
          /\ (t = "commit" => s = "ok" /\ mode = "read-write") /\ (t = "stop" => engine = "mysql" /\ e.tx # "none")
          /\ (kept' = kept \/ kept' = kept \cup {c}) /\ (c \in kept' => t # "stop" /\ MayKeep(s, mode, engine))
          /\ \A o \in orphans' : o \in orphans \/ OrphanOK(o)'
      BY <1>2, <2>1, <2>2, <2>3
    <2> QED
      BY <1>1, <1>3, <2>4, <2>5, SqlEnds
  <1> QED
    BY <1>5, <1>6, <1>7, <1>8

\* A connection drops, with the statement of the call that holds it or alone.
LEMMA SqlLoses ==
  ASSUME SqlAssumption, SqlInv, NEW k \in PoolConn, Sql!Lose(k)
  PROVE  SqlInv'
  <1> DEFINE e == sess[k]
             f == [e EXCEPT !.lost = TRUE]
  <1>1. /\ SqlShape /\ mode \in {"read-only", "read-write"} /\ \A c \in Call : CallOK(c)
        /\ \A c, d \in Call : on[c] = on[d] /\ on[c] # None => c = d
        /\ UNCHANGED <<engine, mode, privileged, opened, stmt, on, kept>>
        /\ k # None /\ e # None
    BY DEF SqlInv, SqlShape, Sql!Lose, Sql!rigid, SqlAssumption
  <1>2. IsSession(e)
    <2>1. CASE Sql!Free(k)
      BY <1>1, <2>1 DEF SqlInv, Clean
    <2>2. ASSUME NEW c \in Call, on[c] = k PROVE IsSession(e)
      BY <1>1, <2>2 DEF CallOK
    <2> QED
      BY <2>1, <2>2 DEF Sql!Free
  <1>3. IsSession(f) /\ f.tx = e.tx /\ (Clean(e) => Clean(f))
    <2>1. IsSession(f)
      BY <1>2, SessionExcept
    <2>2. f.tx = e.tx /\ f.left = e.left /\ f.changed = e.changed
      BY <1>2 DEF IsSession
    <2> HIDE DEF f, e
    <2> QED
      BY <2>1, <2>2 DEF Clean
  <1>4. CASE \E c \in Call : on[c] = k /\ at[c] \in {"running", "commit"}
    <2>1. PICK c \in Call : on[c] = k /\ at[c] \in {"running", "commit"}
      BY <1>4
    <2>2. c = CHOOSE d \in Call : on[d] = k
      <3>1. \A d \in Call : on[d] = k <=> d = c
        BY <1>1, <2>1
      <3> QED
        BY <3>1
    <2>3. PICK s, t : /\ s = "lost" /\ t = "discard" /\ Sql!Ends(c, s, t, f)
                      /\ \/ orphans' = orphans
                         \/ at[c] = "running" /\ orphans' = orphans \cup {[call |-> c, tx |-> e.tx]}
      BY <1>4, <2>2 DEF Sql!Lose
    <2>4. /\ said' = [said EXCEPT ![c] = s] /\ sess' = [sess EXCEPT ![on[c]] = f] /\ at' = [at EXCEPT ![c] = t]
      BY <2>3 DEF Sql!Ends, Sql!Go
    <2>5. at[c] \in Holding /\ at[c] # "discard" /\ CallOK(c) /\ (at[c] = "running" => Ready(e, mode, engine))
      BY <1>1, <2>1 DEF Holding, CallOK
    <2>6. \A o \in orphans' : o \in orphans \/ OrphanOK(o)'
      <3>1. at'[c] = "discard" /\ said'[c] = "lost" /\ mode' = mode
        BY <1>1, <2>3, <2>4 DEF SqlShape
      <3>2. at[c] = "running" /\ e.tx = "none" => mode = "read-write"
        BY <1>1, <2>5 DEF Ready
      <3> HIDE DEF e
      <3> QED
        BY <2>3, <3>1, <3>2 DEF OrphanOK
    <2>7. c \in kept => MayKeep(s, mode, engine)
      BY <2>3, <2>5 DEF CallOK, MayKeep
    <2>8. UNCHANGED <<engine, mode, privileged, opened, stmt, on>> /\ t \in {"commit", "stop", "back", "discard"}
          /\ (t = "commit" => s = "ok" /\ mode = "read-write") /\ (t = "stop" => engine = "mysql" /\ f.tx # "none")
          /\ (kept' = kept \/ kept' = kept \cup {c}) /\ (c \in kept' => t # "stop" /\ MayKeep(s, mode, engine))
      BY <1>1, <2>3, <2>7
    <2> HIDE DEF f
    <2> QED
      BY <1>3, <2>4, <2>5, <2>6, <2>8, SqlEnds
  <1>5. CASE ~\E c \in Call : on[c] = k /\ at[c] \in {"running", "commit"}
    <2>1. sess' = [sess EXCEPT ![k].lost = TRUE] /\ UNCHANGED <<said, at, orphans>>
      BY <1>5 DEF Sql!Lose
    <2>2. sess'[k] = f /\ DOMAIN sess' = PoolConn /\ \A h \in PoolConn : h # k => sess'[h] = sess[h]
      BY <1>1, <2>1 DEF SqlShape
    <2> HIDE DEF f
    <2>3. ASSUME NEW c \in Call PROVE CallOK(c)'
      <3>1. /\ CallOK(c) /\ UNCHANGED <<engine, mode, privileged, at, stmt, on, said, kept>>
            /\ Sql!ServesRole' = Sql!ServesRole
        BY <1>1, <2>1 DEF Sql!ServesRole
      <3>2. CASE on[c] = k
        <4>1. at[c] # "running" /\ sess[on[c]] = e /\ sess'[on[c]] = f
          BY <1>5, <2>2, <3>2
        <4> HIDE DEF e
        <4> QED
          BY <1>3, <3>1, <4>1 DEF CallOK
      <3>3. CASE on[c] # k
        <4>1. on[c] # None => sess'[on[c]] = sess[on[c]]
          BY <2>2, <3>1, <3>3 DEF CallOK
        <4>2. at[c] \in Holding => sess'[on'[c]] = sess[on[c]]
          BY <3>1, <4>1 DEF CallOK
        <4>3. at[c] \in {"guard", "running", "stop"} => at[c] \in Holding
          BY DEF Holding
        <4> QED
          BY <3>1, <4>2, <4>3 DEF CallOK
      <3> QED
        BY <3>2, <3>3
    <2>4. ASSUME NEW h \in PoolConn, Sql!Free(h)', sess'[h] # None PROVE Clean(sess'[h])
      <3>1. Sql!Free(h)
        BY <1>1, <2>4 DEF Sql!Free
      <3>2. CASE h = k
        BY <1>1, <1>3, <2>2, <3>1, <3>2 DEF SqlInv
      <3>3. CASE h # k
        BY <2>2, <2>4, <3>1, <3>3 DEF SqlInv
      <3> QED
        BY <3>2, <3>3
    <2>5. \A o \in orphans' : OrphanOK(o)'
      BY <1>1, <2>1 DEF SqlInv, OrphanOK
    <2>6. opened' = "open" => Sql!ServesRole'
      BY <1>1 DEF SqlInv, Sql!ServesRole
    <2> QED
      BY <1>1, <2>1, <2>2, <2>3, <2>4, <2>5, <2>6 DEF SqlInv, SqlShape
  <1> QED
    BY <1>4, <1>5

LEMMA SqlOrphans ==
  ASSUME SqlAssumption, SqlInv, NEW o \in orphans, Sql!OrphanEnds(o)
  PROVE  SqlInv'
  <1> DEFINE c == o.call
  <1>1. /\ SqlShape /\ OrphanOK(o) /\ c \in Call /\ CallOK(c)
        /\ UNCHANGED <<engine, mode, privileged, opened, at, stmt, on, said, sess>> /\ orphans' \subseteq orphans
        /\ kept' = kept \/ (kept' = kept \cup {c} /\ o.tx = "none")
    BY DEF SqlInv, SqlShape, OrphanOK, Sql!OrphanEnds, Sql!rigid
  <1>2. at[c] \in {"discard", "done"} /\ (o.tx = "none" => MayKeep(said[c], mode, engine))
    BY <1>1 DEF OrphanOK, MayKeep
  <1> HIDE DEF c
  <1>3. Sql!ServesRole' = Sql!ServesRole
    BY <1>1 DEF Sql!ServesRole
  <1>4. CallOK(c)'
    BY <1>1, <1>2, <1>3 DEF CallOK
  <1>5. kept' \subseteq Call /\ \A d \in Call : d # c => (d \in kept' => d \in kept)
    BY <1>1 DEF SqlShape
  <1>6. \A p \in orphans' : p \in orphans
    BY <1>1
  <1> QED
    BY <1>1, <1>4, <1>5, <1>6, SqlMoves DEF SqlShape

\* A statement meets nothing another agent's statement left in the session:
\* it runs with the limit of this call and no change or setting of an earlier
\* one (guard, reset, discard of apps/postgres and apps/mysql, index.ts); and
\* the database keeps nothing of a call that was told it was refused, timed
\* out or, in mysql, cut off, nor anything at all in read-only mode.
THEOREM SqlServesHonestly ==
  ASSUME SqlAssumption
  PROVE  Sql!Spec => [](Sql!FreshSession /\ Sql!NothingKeptUnsaid)
  <1>1. Sql!Init => SqlInv
    <2> SUFFICES ASSUME Sql!Init PROVE SqlInv
      OBVIOUS
    <2>1. \A c \in Call : CallOK(c)
      BY DEF Sql!Init, CallOK, Holding
    <2>2. \A k \in PoolConn : sess[k] = None
      BY DEF Sql!Init
    <2> QED
      BY <2>1, <2>2 DEF Sql!Init, SqlInv
  <1>2. SqlInv /\ [Sql!Next]_Sql!vars => SqlInv'
    <2> SUFFICES ASSUME SqlInv, [Sql!Next]_Sql!vars PROVE SqlInv'
      OBVIOUS
    <2>1. CASE UNCHANGED Sql!vars
      <3>1. UNCHANGED <<engine, mode, privileged, opened, at, stmt, on, said, sess, orphans, kept>>
        BY <2>1 DEF Sql!vars, Sql!rigid
      <3>2. \A c \in Call : CallOK(c)'
        BY <3>1 DEF SqlInv, CallOK, Sql!ServesRole
      <3>3. \A k \in PoolConn : (Sql!Free(k) /\ sess[k] # None => Clean(sess[k]))'
        BY <3>1 DEF SqlInv, Sql!Free
      <3> QED
        BY <3>1, <3>2, <3>3 DEF SqlInv, OrphanOK, Sql!ServesRole
    <2>2. CASE Sql!Next
      <3>1. \/ \E c \in Call, s \in Sql!Statement : Sql!Start(c, s)
            \/ Sql!OpenEnds
            \/ \E c \in Call : Sql!Caller(c) \/ Sql!Server(c)
            \/ \E k \in PoolConn : Sql!Lose(k)
            \/ \E o \in orphans : Sql!OrphanEnds(o)
        BY <2>2 DEF Sql!Next
      <3>2. ASSUME NEW c \in Call, Sql!Caller(c) \/ Sql!Server(c) PROVE SqlInv'
        <4>1. \/ Sql!Connected(c) \/ (\E k \in PoolConn : Sql!Take(c, k)) \/ Sql!Guard(c)
              \/ Sql!Commit(c) \/ Sql!StopStatement(c) \/ Sql!Discard(c) \/ Sql!PutBack(c)
              \/ Sql!Timer(c) \/ Sql!ServerLimit(c)
              \/ Sql!Executes(c)
          BY <3>2 DEF Sql!Caller, Sql!Server
        <4> QED
          BY <4>1, SqlTakes, SqlFinishes, SqlExecutes
      <3> QED
        BY <3>1, <3>2, SqlStarts, SqlOpens, SqlLoses, SqlOrphans
    <2> QED
      BY <2>1, <2>2
  <1>3. SqlInv => Sql!FreshSession
    <2>1. \A c \in Call : CallOK(c) /\ at[c] = "running" => Ready(sess[on[c]], mode, engine)
      BY DEF CallOK
    <2> QED
      BY <2>1 DEF SqlInv, Sql!FreshSession, Sql!Sess, Ready
  <1>4. SqlInv => Sql!NothingKeptUnsaid
    BY DEF SqlInv, CallOK, MayKeep, Sql!NothingKeptUnsaid
  <1> QED
    BY <1>1, <1>2, <1>3, <1>4, PTL DEF Sql!Spec

-----------------------------------------------------------------------------
(* The parts side by side.  A behaviour is one of the part it starts with,  *)
(* so what is proved of a part holds of it here.                            *)

LEMMA BusAlone ==
  /\ ServicesInit => Init
  /\ [ServicesNext]_state => [Next]_vars
  BY DEF ServicesInit, ServicesNext, state, Calls!Init, Runtime!Init, Sql!Init, Egress!Init

LEMMA CallsAlone ==
  /\ ServicesInit /\ part = "calls" => Calls!Init
  /\ part = "calls" /\ [ServicesNext]_state => (part = "calls")' /\ [Calls!Next]_Calls!vars
  /\ ~(part = "calls") /\ [ServicesNext]_state => (~(part = "calls"))'
  <1>1. ServicesInit /\ part = "calls" => Calls!Init
    BY DEF ServicesInit
  <1>2. UNCHANGED state => UNCHANGED <<part, phase, calling>>
    BY DEF state
  <1>3. UNCHANGED <<phase, calling>> => UNCHANGED Calls!vars
    BY DEF calling, Calls!vars, Calls!bridge, Calls!kind, Calls!handler, Calls!client, Calls!app
  <1>4. ServicesNext /\ part = "calls" => part' = part /\ Calls!Next
    BY DEF ServicesNext
  <1>5. ServicesNext => part' = part
    BY DEF ServicesNext
  <1> QED
    BY <1>1, <1>2, <1>3, <1>4, <1>5

LEMMA RuntimeAlone ==
  /\ ServicesInit /\ part = "runtime" => Runtime!Init
  /\ part = "runtime" /\ [ServicesNext]_state => (part = "runtime")' /\ [Runtime!Next]_Runtime!vars
  /\ ~(part = "runtime") /\ [ServicesNext]_state => (~(part = "runtime"))'
  BY DEF ServicesInit, ServicesNext, state, serving, Runtime!vars

LEMMA SqlAlone ==
  /\ ServicesInit /\ part = "sql" => Sql!Init
  /\ part = "sql" /\ [ServicesNext]_state => (part = "sql")' /\ [Sql!Next]_Sql!vars
  /\ ~(part = "sql") /\ [ServicesNext]_state => (~(part = "sql"))'
  BY DEF ServicesInit, ServicesNext, state, storing, Sql!vars, Sql!rigid

(* The bus keeps what BusKeepsItsPromise and the two theorems before it say *)
(* of it: its table has no connection that left, no app hears itself, and   *)
(* what it passes on arrives once, in order (berth-init/src/bus.rs).        *)
THEOREM BusServesHonestly == ServicesSpec => [](NoSenderLeft /\ NoEcho /\ BusDelivers)
  <1>1. ServicesSpec => Spec
    BY BusAlone, PTL DEF ServicesSpec, Spec
  <1> QED
    BY <1>1, NoSenderOutlives, NeverEchoed, BusKeepsItsPromise, PTL

(* A tool call of an MCP session is in flight or recorded exactly once, also *)
(* when the session ends under it (cli/src/commands/mcp.ts).                 *)
THEOREM EveryCallIsAccounted == ServicesSpec => []EveryCallAccounted
  <1>1. Calls!Spec => []Calls!EveryCallAccounted
    BY CallsAreAccounted, CallsConstants
  <1> QED
    BY <1>1, CallsAlone, PTL DEF ServicesSpec, Calls!Spec, EveryCallAccounted

(* What is said of a call agrees with what went over the wire: not sent means*)
(* not written, nothing is written twice, and a close fails its own calls.   *)
THEOREM WireAgrees == ServicesSpec => []WireAgreesWithRecord
  <1>1. Calls!Spec => []Calls!WireAgreesWithRecord
    BY CallsToldTheTruth, CallsConstants
  <1> QED
    BY <1>1, CallsAlone, PTL DEF ServicesSpec, Calls!Spec, WireAgreesWithRecord

(* A call that has settled is not written to the sandbox any more.           *)
THEOREM NothingIsWrittenAfterSettling == ServicesSpec => NothingAfterSettling
  <1>1. ServicesSpec => [](part = "calls" => CallsInv)
    <2>1. Calls!Spec => []CallsInv
      BY CallsInvariant, CallsConstants
    <2> QED
      BY <2>1, CallsAlone, PTL DEF ServicesSpec, Calls!Spec
  <1>2. ASSUME part = "calls" => CallsInv, [ServicesNext]_state
        PROVE  [part = "calls" => Calls!SettledStep]_state
    <2>1. part = "calls" => [Calls!Next]_Calls!vars
      BY <1>2, CallsAlone
    <2>2. part = "calls" => [Calls!SettledStep]_Calls!vars
      BY <1>2, <2>1, SettledUnwritten
    <2>3. UNCHANGED Calls!vars => Calls!SettledStep
      BY DEF Calls!vars, Calls!app, Calls!SettledStep
    <2> QED
      BY <2>2, <2>3
  <1> QED
    BY <1>1, <1>2, PTL DEF ServicesSpec, NothingAfterSettling

(* What runs of a governed app was allowed by the governor, which was told  *)
(* who asked; in a sandbox a tag that is reported stored was stored         *)
(* (sdk/src/server.ts, governance.ts).                                      *)
THEOREM RuntimeJudgesWhatRuns == ASSUME RuntimeAssumption PROVE ServicesSpec => []RuntimeIsJudged
  <1>1. Runtime!Spec => [](Runtime!JudgedAsItCame /\ Runtime!NoLostWrite)
    BY RuntimeKeepsItsWord
  <1> QED
    BY <1>1, RuntimeAlone, PTL DEF ServicesSpec, Runtime!Spec, RuntimeIsJudged

(* An agent's statement meets nothing an earlier call left in its session,  *)
(* and nothing is kept of a call that was reported to have come to nothing  *)
(* (apps/postgres/src/index.ts, apps/mysql/src/index.ts).                   *)
THEOREM SqlIsServedHonestly == ASSUME SqlAssumption PROVE ServicesSpec => []SqlKeepsItsWord
  <1>1. Sql!Spec => [](Sql!FreshSession /\ Sql!NothingKeptUnsaid)
    BY SqlServesHonestly
  <1> QED
    BY <1>1, SqlAlone, PTL DEF ServicesSpec, Sql!Spec, SqlKeepsItsWord
=============================================================================
