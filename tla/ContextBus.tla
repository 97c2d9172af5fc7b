----------------------------- MODULE ContextBus -----------------------------
(***************************************************************************)
(* The context bus of one sandbox: the daemon                              *)
(* (packages/context-bus-daemon/src/main.rs) with a reader and a writer    *)
(* task per connection around one table of subscribers, and the client of  *)
(* the resident apps (packages/sdk/src/context-bus/unix-socket.ts).  An    *)
(* app has one connection.  Whatever a task does under the table's lock is *)
(* one step.  The name an app registers under only goes to the log.        *)
(***************************************************************************)
EXTENDS Naturals, Sequences

CONSTANTS
  Conn,         \* the connections
  Topic,
  Handler,      \* the callbacks an app subscribes
  Capacity,     \* SUBSCRIBER_QUEUE_CAPACITY
  Ack,          \* the daemon's answer to any request
  WireSize,     \* frames a socket holds on their way to a client
  MaxRequests   \* bound: requests all apps make together

ASSUME BusAssumption ==
  /\ Capacity \in Nat \ {0} /\ WireSize \in Nat \ {0} /\ MaxRequests \in Nat

VARIABLES
  client,  \* per connection: the app: "new", "open", "gone"
  want,    \* per connection and topic: the app's handlers
  sent,    \* how many requests have been made, which numbers them
  up,      \* per connection: the requests on their way to the daemon
  task,    \* per connection: its handler: "none", "reading", "cleaning", "draining", "done"
  subs,    \* per topic: the connections in the table
  queue,   \* per connection: its outgoing queue
  writer,  \* per connection: whether its writer task runs
  wire,    \* per connection: the frames on their way to the app
  heard    \* per connection: the events its handlers were called with

vars == <<client, want, sent, up, task, subs, queue, writer, wire, heard>>

Op == {"register", "subscribe", "unsubscribe", "publish"}
Request == [op : Op, topic : Topic, n : 1 .. MaxRequests]
Event == [by : Conn, topic : Topic, n : 1 .. MaxRequests]
Payload == Event \cup {Ack}

ASSUME AckAssumption == Ack \notin Event

Init ==
  /\ client = [c \in Conn |-> "new"]
  /\ want = [c \in Conn |-> [t \in Topic |-> {}]]
  /\ sent = 0
  /\ up = [c \in Conn |-> <<>>]
  /\ task = [c \in Conn |-> "none"]
  /\ subs = [t \in Topic |-> {}]
  /\ queue = [c \in Conn |-> <<>>]
  /\ writer = [c \in Conn |-> FALSE]
  /\ wire = [c \in Conn |-> <<>>]
  /\ heard = [c \in Conn |-> <<>>]

-----------------------------------------------------------------------------
(* The app's side. *)

Connect(c) ==
  /\ client[c] = "new"
  /\ client' = [client EXCEPT ![c] = "open"]
  /\ task' = [task EXCEPT ![c] = "reading"]
  /\ writer' = [writer EXCEPT ![c] = TRUE]
  /\ UNCHANGED <<want, sent, up, subs, queue, wire, heard>>

\* send(): a frame written to the socket, nobody waits for its ack.
Send(c, op, t) ==
  /\ sent < MaxRequests
  /\ sent' = sent + 1
  /\ up' = [up EXCEPT ![c] = Append(@, [op |-> op, topic |-> t, n |-> sent'])]

SendRequest(c, op, t) ==
  /\ client[c] = "open" /\ op \in {"register", "publish"}
  /\ Send(c, op, t)
  /\ UNCHANGED <<client, want, task, subs, queue, writer, wire, heard>>

\* Only the first handler of a topic is news to the daemon.
Subscribe(c, t, h) ==
  /\ client[c] = "open" /\ h \notin want[c][t]
  /\ want' = [want EXCEPT ![c][t] = @ \cup {h}]
  /\ IF want[c][t] = {} THEN Send(c, "subscribe", t) ELSE UNCHANGED <<sent, up>>
  /\ UNCHANGED <<client, task, subs, queue, writer, wire, heard>>

\* An unsubscribe function that does not look at the other handlers.
UnsubscribeAlways(c, t, h) ==
  /\ client[c] = "open" /\ h \in want[c][t]
  /\ want' = [want EXCEPT ![c][t] = @ \ {h}]
  /\ Send(c, "unsubscribe", t)
  /\ UNCHANGED <<client, task, subs, queue, writer, wire, heard>>

\* The function subscribe() returned: only the last handler's is.
Unsubscribe(c, t, h) ==
  /\ client[c] = "open" /\ h \in want[c][t]
  /\ want' = [want EXCEPT ![c][t] = @ \ {h}]
  /\ IF want[c][t] = {h} THEN Send(c, "unsubscribe", t) ELSE UNCHANGED <<sent, up>>
  /\ UNCHANGED <<client, task, subs, queue, writer, wire, heard>>

\* A frame arrives: an event goes to the handlers its topic has now.
Receive(c) ==
  /\ client[c] = "open" /\ wire[c] # <<>>
  /\ wire' = [wire EXCEPT ![c] = Tail(@)]
  /\ LET p == Head(wire[c]) IN
     IF p # Ack /\ want[c][p.topic] # {}
     THEN heard' = [heard EXCEPT ![c] = Append(@, p)] ELSE UNCHANGED heard
  /\ UNCHANGED <<client, want, sent, up, task, subs, queue, writer>>

\* The app's process ends; what it has sent can still be read.
Leave(c) ==
  /\ client[c] = "open"
  /\ client' = [client EXCEPT ![c] = "gone"]
  /\ wire' = [wire EXCEPT ![c] = <<>>]
  /\ UNCHANGED <<want, sent, up, task, subs, queue, writer, heard>>

-----------------------------------------------------------------------------
(* The daemon's side. *)

\* A queue that takes whatever it is given.
TrySendUnbounded(c, q, p) == Append(q, p)

\* try_send_payload(): a full or closed queue drops this one payload.
TrySend(c, q, p) ==
  IF writer[c] /\ Len(q) < Capacity THEN Append(q, p) ELSE q

\* The queues after every connection in receivers was sent p, and c its ack.
Sent(c, receivers, p) ==
  [d \in Conn |-> IF d = c THEN TrySend(c, queue[c], Ack)
                  ELSE IF d \in receivers THEN TrySend(d, queue[d], p)
                  ELSE queue[d]]

EventOf(c, r) == [by |-> c, topic |-> r.topic, n |-> r.n]

\* The request at the head of the socket.
Reads(c, op) ==
  /\ task[c] = "reading" /\ up[c] # <<>> /\ Head(up[c]).op = op
  /\ up' = [up EXCEPT ![c] = Tail(@)]
  /\ UNCHANGED <<client, want, sent, task, writer, wire, heard>>

ReadRegister(c) ==
  /\ Reads(c, "register")
  /\ queue' = Sent(c, {}, Ack)
  /\ UNCHANGED subs

ReadSubscribe(c) ==
  /\ Reads(c, "subscribe")
  /\ subs' = [subs EXCEPT ![Head(up[c]).topic] = @ \cup {c}]
  /\ queue' = Sent(c, {}, Ack)

ReadUnsubscribe(c) ==
  /\ Reads(c, "unsubscribe")
  /\ subs' = [subs EXCEPT ![Head(up[c]).topic] = @ \ {c}]
  /\ queue' = Sent(c, {}, Ack)

\* A publish that sends to its own connection too.
ReadPublishEchoing(c) ==
  /\ Reads(c, "publish")
  /\ LET r == Head(up[c]) IN
     queue' = [d \in Conn |-> IF d \in subs[r.topic] THEN TrySend(d, queue[d], EventOf(c, r))
                              ELSE queue[d]]
  /\ UNCHANGED subs

\* A publish that waits for room in the queue of every subscriber.
ReadPublishBlocking(c) ==
  /\ Reads(c, "publish")
  /\ LET r == Head(up[c]) IN
     /\ \A d \in subs[r.topic] \ {c} : writer[d] => Len(queue[d]) < Capacity
     /\ queue' = Sent(c, subs[r.topic] \ {c}, EventOf(c, r))
  /\ UNCHANGED subs

ReadPublish(c) ==
  /\ Reads(c, "publish")
  /\ LET r == Head(up[c]) IN queue' = Sent(c, subs[r.topic] \ {c}, EventOf(c, r))
  /\ UNCHANGED subs

\* End of file after the last request, or a read error before it.
ReadEnds(c) ==
  /\ task[c] = "reading" /\ client[c] = "gone"
  /\ task' = [task EXCEPT ![c] = "cleaning"]
  /\ up' = [up EXCEPT ![c] = <<>>]
  /\ UNCHANGED <<client, want, sent, subs, queue, writer, wire, heard>>

\* A handler that leaves its senders in the table when it waits for its writer.
CleanUpLate(c) ==
  /\ task[c] = "cleaning"
  /\ task' = [task EXCEPT ![c] = "draining"]
  /\ UNCHANGED <<client, want, sent, up, subs, queue, writer, wire, heard>>

\* Every sender in the table is removed, then the handler's own is dropped.
CleanUp(c) ==
  /\ task[c] = "cleaning"
  /\ subs' = [t \in Topic |-> subs[t] \ {c}]
  /\ task' = [task EXCEPT ![c] = "draining"]
  /\ UNCHANGED <<client, want, sent, up, queue, writer, wire, heard>>

\* A writer that may write again what has already gone out.
WriteAgain(c) ==
  /\ writer[c] /\ queue[c] # <<>> /\ client[c] = "open" /\ Len(wire[c]) < WireSize
  /\ wire' = [wire EXCEPT ![c] = Append(@, Head(queue[c]))]
  /\ queue' = [queue EXCEPT ![c] = Tail(@)] \/ UNCHANGED queue
  /\ UNCHANGED <<client, want, sent, up, task, subs, writer, heard>>

\* The writer task writes a frame as soon as the socket has room for it.
Write(c) ==
  /\ writer[c] /\ queue[c] # <<>> /\ client[c] = "open" /\ Len(wire[c]) < WireSize
  /\ wire' = [wire EXCEPT ![c] = Append(@, Head(queue[c]))]
  /\ queue' = [queue EXCEPT ![c] = Tail(@)]
  /\ UNCHANGED <<client, want, sent, up, task, subs, writer, heard>>

\* A handler that drops its own sender after it has waited for the writer.
WriterEndsLast(c) ==
  /\ writer[c]
  /\ \/ queue[c] # <<>> /\ client[c] = "gone"
     \/ queue[c] = <<>> /\ task[c] = "done" /\ \A t \in Topic : c \notin subs[t]
  /\ writer' = [writer EXCEPT ![c] = FALSE]
  /\ queue' = [queue EXCEPT ![c] = <<>>]
  /\ UNCHANGED <<client, want, sent, up, task, subs, wire, heard>>

\* It ends when the client is gone and it has something to write, or when the
\* queue is empty and the last sender to it was dropped.
WriterEnds(c) ==
  /\ writer[c]
  /\ \/ queue[c] # <<>> /\ client[c] = "gone"
     \/ queue[c] = <<>> /\ task[c] = "draining" /\ \A t \in Topic : c \notin subs[t]
  /\ writer' = [writer EXCEPT ![c] = FALSE]
  /\ queue' = [queue EXCEPT ![c] = <<>>]
  /\ UNCHANGED <<client, want, sent, up, task, subs, wire, heard>>

\* writer.await has returned.
Done(c) ==
  /\ task[c] = "draining" /\ ~writer[c]
  /\ task' = [task EXCEPT ![c] = "done"]
  /\ UNCHANGED <<client, want, sent, up, subs, queue, writer, wire, heard>>

AppSide(c) ==
  \/ Connect(c) \/ Receive(c) \/ Leave(c)
  \/ \E op \in Op, t \in Topic : SendRequest(c, op, t)
  \/ \E t \in Topic, h \in Handler : Subscribe(c, t, h) \/ Unsubscribe(c, t, h)

Reader(c) ==
  \/ ReadRegister(c) \/ ReadSubscribe(c) \/ ReadUnsubscribe(c) \/ ReadPublish(c)
  \/ ReadEnds(c) \/ CleanUp(c) \/ Done(c)

Writer(c) == Write(c) \/ WriterEnds(c)

Next == \E c \in Conn : AppSide(c) \/ Reader(c) \/ Writer(c)

Spec == Init /\ [][Next]_vars

\* The daemon's tasks run; nothing makes an app read, or leave.
Fairness == \A c \in Conn : WF_vars(Reader(c)) /\ WF_vars(Writer(c))

-----------------------------------------------------------------------------
(* Properties. *)

\* Every variable has its type; a queue never holds more than its capacity,
\* however slow its app is and however much is published to it.
TypeOK ==
  /\ client \in [Conn -> {"new", "open", "gone"}]
  /\ want \in [Conn -> [Topic -> SUBSET Handler]]
  /\ sent \in 0 .. MaxRequests
  /\ up \in [Conn -> Seq(Request)]
  /\ task \in [Conn -> {"none", "reading", "cleaning", "draining", "done"}]
  /\ subs \in [Topic -> SUBSET Conn]
  /\ queue \in [Conn -> Seq(Payload)]
  /\ \A c \in Conn : Len(queue[c]) <= Capacity
  /\ writer \in [Conn -> BOOLEAN]
  /\ wire \in [Conn -> Seq(Payload)]
  /\ heard \in [Conn -> Seq(Event)]

\* No sender stays in the table for a connection whose handler has cleaned up:
\* the table does not grow with apps that come and go.
NoSenderLeft ==
  \A t \in Topic : \A c \in subs[t] : task[c] \in {"reading", "cleaning"}

\* An event never comes back to the app that published it.
NoEchoIn(c, s) == \A i \in 1 .. Len(s) : s[i] # Ack => s[i].by # c

NoEcho ==
  \A c \in Conn : NoEchoIn(c, queue[c]) /\ NoEchoIn(c, wire[c]) /\ NoEchoIn(c, heard[c])

\* At-most-once and in order: what an app has heard, what is on the wire and
\* what is still queued, in this order, has the events of each publisher
\* strictly in the order it published them.
InOrderOnce ==
  \A c \in Conn :
    LET s == heard[c] \o wire[c] \o queue[c] IN
    \A i, j \in 1 .. Len(s) :
      i < j /\ s[i] # Ack /\ s[j] # Ack /\ s[i].by = s[j].by => s[i].n < s[j].n

\* What the daemon does for a topic follows what the app wants of it, once the
\* requests on their way are read: after the last of them the connection is in
\* the table exactly if the app has a handler.
About(c, t) == {i \in 1 .. Len(up[c]) :
                  up[c][i].topic = t /\ up[c][i].op \in {"subscribe", "unsubscribe"}}

TableFollowsHandlers ==
  \A c \in Conn, t \in Topic :
    client[c] = "open" =>
      IF About(c, t) = {} THEN c \in subs[t] <=> want[c][t] # {}
      ELSE \A i \in About(c, t) :
             (\A j \in About(c, t) : j <= i)
               => (up[c][i].op = "subscribe" <=> want[c][t] # {})

\* What the bus promises of the events it passes on, and of its table.
BusDelivers == TypeOK /\ InOrderOnce /\ TableFollowsHandlers
=============================================================================
