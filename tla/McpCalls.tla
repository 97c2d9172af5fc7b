------------------------------ MODULE McpCalls ------------------------------
(***************************************************************************)
(* The tool calls of one `berth mcp` session, from the MCP request to the  *)
(* audit record: the bridge's handler (cli/src/util/mcp-call.ts and the    *)
(* callback in cli/src/commands/mcp.ts), the line-RPC client under it      *)
(* (docker-orchestrator/src/stdio-rpc.ts) over connections that are        *)
(* replaced when they fail, and the session's shutdown.                    *)
(*                                                                         *)
(* The bridge is one Node process, so what runs between two turns of its   *)
(* event loop is one step.  In particular sink.record() is synchronous:    *)
(* taking a call out of the in-flight set and recording it is atomic, and  *)
(* so is InterruptAll over every call.                                     *)
(***************************************************************************)
EXTENDS Naturals, Sequences, FiniteSets

CONSTANTS
  Call,       \* tool calls of the session; a call is its own request id
  MaxConns,   \* [runtimes -> bound on the connections a session opens]
  Kinds,      \* the sessions looked at: <<runtime, owns>>
  LongLines   \* whether a request can exceed the stream's high-water mark

\* What the theorems assume of them; an instance of the module assumes it of its own.
CallsAssumption ==
  /\ Kinds \subseteq {"vm", "docker"} \X BOOLEAN
  /\ \A r \in {"vm", "docker"} : MaxConns[r] \in Nat \ {0}
  /\ LongLines \in BOOLEAN

VARIABLES
  runtime,   \* "vm": the rpc socket; "docker": the attach stream
  owns,      \* whether the session booted the sandbox, and so stops it
  sandbox,   \* the background sandbox: "starting", "ready", "failed"
  phase,     \* the session: "up", "pending", "stopping", "exited"
  pipe,      \* the client's end of stdin is open
  stage,     \* per call: where its handler is suspended
  outcome,   \* per call: how it ended
  cancelled, \* calls whose AbortSignal has fired
  inFlight,  \* InFlightCalls
  records,   \* per call: the audit records written for it
  pending,   \* the client's `pending` map: calls waiting for an answer
  target,    \* per call: the connection its waiter names
  resend,    \* calls reconnecting to write their line a second time
  conn,      \* the connections opened so far
  cur,       \* the client's current connection
  sentOn,    \* per call: connections that took its line
  answered,  \* calls the app has answered
  lines      \* answers on their way: <<connection, call>>

kind == <<runtime, owns>>
bridge == <<kind, sandbox, phase, pipe>>
handler == <<stage, outcome, cancelled, inFlight, records>>
client == <<pending, target, resend, conn, cur>>
app == <<sentOn, answered, lines>>
vars == <<bridge, handler, client, app>>

Links == 1..MaxConns[runtime]
NoConn == 0
Outcomes == {"none", "unavailable", "notSent", "noConnection", "notWritten",
             "answered", "timedOut", "gaveUp", "closed"}

\* A recorder that has no kind for a cancelled call.
RecordOfRaw(why) == IF why = "answered" THEN "answer" ELSE why

\* What the audit record of a call that ended this way says of it.
RecordOf(why) ==
  CASE why = "answered" -> "answer"
    [] why = "notSent" -> "notSent"
    [] OTHER -> "unanswered"

Opened == {n \in Links : conn[n] # "unused"}
NextConn == Cardinality(Opened) + 1

Init ==
  /\ \E k \in Kinds : runtime = k[1] /\ owns = k[2]
  /\ sandbox = "starting" /\ phase = "up" /\ pipe = TRUE
  /\ stage = [c \in Call |-> "idle"]
  /\ outcome = [c \in Call |-> "none"]
  /\ cancelled = {} /\ inFlight = {}
  /\ records = [c \in Call |-> <<>>]
  /\ pending = {} /\ resend = {}
  /\ target = [c \in Call |-> NoConn]
  /\ conn = [n \in Links |-> "unused"]
  /\ cur = NoConn
  /\ sentOn = [c \in Call |-> {}]
  /\ answered = {} /\ lines = {}

-----------------------------------------------------------------------------
(* The handler's two ends: the call is put in flight, and the call settles. *)

\* inFlight.start() and the first lines of call(): live() hands back the
\* current connection, or opens another when that one is no longer open.
Start(S, usable, n) ==
  /\ inFlight' = inFlight \cup S
  /\ stage' = [c \in Call |-> IF c \notin S THEN stage[c]
                              ELSE IF usable THEN "calling" ELSE "opening"]
  /\ target' = [c \in Call |-> IF c \in S /\ usable THEN n ELSE target[c]]

\* The mutated done() of a handler that records whatever it says.
SettleAlways(S, why) ==
  /\ stage' = [c \in Call |-> IF c \in S THEN "done" ELSE stage[c]]
  /\ outcome' = [c \in Call |-> IF c \in S THEN why ELSE outcome[c]]
  /\ pending' = pending \ S
  /\ inFlight' = inFlight \ S
  /\ records' = [c \in Call |-> IF c \in S THEN Append(records[c], RecordOf(why))
                                ELSE records[c]]

\* The call's promise settles and its handler runs to the end: done() takes
\* it out of the in-flight set, and only if it was still there is it recorded.
Settle(S, why) ==
  /\ stage' = [c \in Call |-> IF c \in S THEN "done" ELSE stage[c]]
  /\ outcome' = [c \in Call |-> IF c \in S THEN why ELSE outcome[c]]
  /\ pending' = pending \ S
  /\ inFlight' = inFlight \ S
  /\ records' = [c \in Call |-> IF c \in S \cap inFlight
                                THEN Append(records[c], RecordOf(why))
                                ELSE records[c]]

\* A call the sandbox was never ready for: an error result and no record.
Unavailable(S) ==
  /\ stage' = [c \in Call |-> IF c \in S THEN "done" ELSE stage[c]]
  /\ outcome' = [c \in Call |-> IF c \in S THEN "unavailable" ELSE outcome[c]]
  /\ UNCHANGED <<cancelled, inFlight, records>>

-----------------------------------------------------------------------------
(* The MCP side. *)

Booting == {c \in Call : stage[c] = "boot"}

\* A tools/call request: it waits for the sandbox, or goes straight to the app.
Arrive(c) ==
  /\ phase # "exited" /\ pipe /\ stage[c] = "idle"
  /\ \/ /\ sandbox = "starting"
        /\ stage' = [stage EXCEPT ![c] = "boot"]
        /\ UNCHANGED <<outcome, cancelled, inFlight, records, client>>
     \/ /\ sandbox = "ready"
        /\ Start({c}, conn[cur] = "open", cur)
        /\ UNCHANGED <<outcome, cancelled, records, pending, resend, conn, cur>>
     \/ /\ sandbox = "failed" /\ Unavailable({c}) /\ UNCHANGED client
  /\ UNCHANGED <<bridge, app>>

\* The boot ends, with the client's first connection open: every call waiting
\* for it starts.  A session past its interrupt has aborted its boot.
SandboxReady ==
  /\ phase \in {"up", "pending"} /\ sandbox = "starting"
  /\ sandbox' = "ready"
  /\ conn' = [conn EXCEPT ![1] = "open"] /\ cur' = 1
  /\ Start(Booting, TRUE, 1)
  /\ UNCHANGED <<kind, phase, pipe, outcome, cancelled, records, pending, resend, app>>

SandboxFails ==
  /\ phase # "exited" /\ sandbox = "starting"
  /\ sandbox' = "failed"
  /\ Unavailable(Booting)
  /\ UNCHANGED <<kind, phase, pipe, client, app>>

\* A whenReady() that waits for the boot alone.
BootWaitNever(c) == FALSE /\ UNCHANGED vars

\* whenReady() gives up after --boot-timeout.
BootWaitTimesOut(c) ==
  /\ phase # "exited" /\ stage[c] = "boot"
  /\ Unavailable({c})
  /\ UNCHANGED <<bridge, client, app>>

\* A client that takes every cancelled call for one it never wrote.
CancelAsNotSent(c) ==
  /\ phase # "exited" /\ c \notin cancelled
  /\ stage[c] = "waiting"
  /\ Settle({c}, "notSent")
  /\ cancelled' = cancelled \cup {c}
  /\ UNCHANGED <<bridge, target, resend, conn, cur, app>>

\* The client cancels the call.  While its connection is being opened only
\* the signal notes it; once it waits for an answer it settles at once.
Cancel(c) ==
  /\ phase # "exited" /\ c \notin cancelled
  /\ \/ /\ stage[c] = "boot"
        /\ stage' = [stage EXCEPT ![c] = "done"]
        /\ outcome' = [outcome EXCEPT ![c] = "unavailable"]
        /\ UNCHANGED <<inFlight, records, pending>>
     \/ /\ stage[c] \in {"opening", "calling"}
        /\ UNCHANGED <<stage, outcome, inFlight, records, pending>>
     \/ /\ stage[c] = "waiting"
        /\ Settle({c}, "gaveUp")
  /\ cancelled' = cancelled \cup {c}
  /\ UNCHANGED <<bridge, target, resend, conn, cur, app>>

-----------------------------------------------------------------------------
(* The line-RPC client. *)

\* A socket wrapper that reports a line it did write as refused.
WritesRefusingTaken(state) ==
  {[taken |-> state = "open", returned |-> state = "open"],
   [taken |-> TRUE, returned |-> FALSE]}

\* What one write() on a connection in this state may do.  The socket's
\* wrapper refuses a line exactly when it drops it; Docker's passes on
\* stream.write(), whose false is backpressure on a line it has queued, and
\* whose stream can still take a line once its read side has ended.
Writes(state) ==
  LET took == [taken |-> TRUE, returned |-> TRUE]
      dropped == [taken |-> FALSE, returned |-> FALSE]
      queued == [taken |-> TRUE, returned |-> FALSE]
  IN  CASE state = "open" -> {took} \cup (IF runtime = "docker" /\ LongLines
                                          THEN {queued} ELSE {})
        [] state = "refusing" /\ runtime = "docker" ->
             {took, dropped} \cup (IF LongLines THEN {queued} ELSE {})
        [] OTHER -> {dropped}

Sent(c, n, w) == sentOn' = [sentOn EXCEPT ![c] = IF w.taken THEN @ \cup {n} ELSE @]

\* The connection live() waited for is open: it becomes the client's current
\* one.  One opened by another call at the same time stays open, unused.
OpenDone(c) ==
  /\ phase # "exited" /\ stage[c] = "opening" /\ NextConn \in Links
  /\ conn' = [conn EXCEPT ![NextConn] = "open"]
  /\ cur' = NextConn
  /\ target' = [target EXCEPT ![c] = NextConn]
  /\ stage' = [stage EXCEPT ![c] = "calling"]
  /\ UNCHANGED <<bridge, outcome, cancelled, inFlight, records, pending, resend, app>>

OpenFails(c) ==
  /\ phase # "exited" /\ stage[c] = "opening"
  /\ Settle({c}, "noConnection")
  /\ UNCHANGED <<bridge, cancelled, target, resend, conn, cur, app>>

\* The rest of call(): not sent if the caller has given up by now; otherwise
\* the waiter is entered, its timer started and the line written.  A refusal by
\* a connection that has gone away is retried once on a new one.
Send(c) ==
  LET n == target[c] IN
  /\ phase # "exited" /\ stage[c] = "calling"
  /\ \/ /\ c \in cancelled
        /\ Settle({c}, "notSent")
        /\ UNCHANGED <<resend, sentOn>>
     \/ /\ c \notin cancelled
        /\ \E w \in Writes(conn[n]) :
             /\ Sent(c, n, w)
             /\ \/ /\ w.returned \/ conn[n] # "open"
                   /\ stage' = [stage EXCEPT ![c] = "waiting"]
                   /\ pending' = pending \cup {c}
                   /\ resend' = IF w.returned THEN resend ELSE resend \cup {c}
                   /\ UNCHANGED <<outcome, inFlight, records>>
                \/ /\ ~w.returned /\ conn[n] = "open"
                   /\ Settle({c}, "notWritten")
                   /\ UNCHANGED resend
  /\ UNCHANGED <<bridge, cancelled, target, conn, cur, answered, lines>>

\* A retry that does not look whether its call is still waiting.
ResendBlindly(c) ==
  /\ phase # "exited" /\ c \in resend /\ NextConn \in Links
  /\ resend' = resend \ {c}
  /\ cur' = NextConn
  /\ conn' = [conn EXCEPT ![NextConn] = "open"]
  /\ target' = [target EXCEPT ![c] = NextConn]
  /\ sentOn' = [sentOn EXCEPT ![c] = @ \cup {NextConn}]
  /\ UNCHANGED <<bridge, handler, pending, answered, lines>>

\* A retry that leaves the waiter on the connection that refused it.
ResendSameWaiter(c) ==
  /\ phase # "exited" /\ c \in resend /\ NextConn \in Links
  /\ resend' = resend \ {c}
  /\ cur' = NextConn
  /\ conn' = [conn EXCEPT ![NextConn] = "open"]
  /\ sentOn' = [sentOn EXCEPT ![c] = IF c \in pending THEN @ \cup {NextConn} ELSE @]
  /\ UNCHANGED <<bridge, handler, pending, target, answered, lines>>

\* The reconnection of a refused line: the line is written again unless its
\* call has settled in the meantime, and its waiter moves to the new
\* connection, which the peer may already have closed.
Resend(c) ==
  LET n == NextConn IN
  /\ phase # "exited" /\ c \in resend /\ n \in Links
  /\ resend' = resend \ {c}
  /\ cur' = n
  /\ \E state \in {"open", "refusing"} :
       /\ conn' = [conn EXCEPT ![n] = state]
       /\ \/ /\ c \notin pending
             /\ UNCHANGED <<stage, outcome, inFlight, records, pending, target, sentOn>>
          \/ /\ c \in pending
             /\ target' = [target EXCEPT ![c] = n]
             /\ \E w \in Writes(state) :
                  /\ Sent(c, n, w)
                  /\ \/ /\ w.returned
                        /\ UNCHANGED <<stage, outcome, inFlight, records, pending>>
                     \/ /\ ~w.returned
                        /\ Settle({c}, "notWritten")
  /\ UNCHANGED <<bridge, cancelled, answered, lines>>

ResendFails(c) ==
  /\ phase # "exited" /\ c \in resend
  /\ resend' = resend \ {c}
  /\ Settle({c} \cap pending, "notWritten")
  /\ UNCHANGED <<bridge, cancelled, target, conn, cur, app>>

TimesOut(c) ==
  /\ phase # "exited" /\ c \in pending
  /\ Settle({c}, "timedOut")
  /\ UNCHANGED <<bridge, cancelled, target, resend, conn, cur, app>>

\* A response line: it resolves the call of its id if that one still waits.
Answer(n, c) ==
  /\ phase # "exited" /\ <<n, c>> \in lines
  /\ lines' = lines \ {<<n, c>>}
  /\ Settle({c} \cap pending, "answered")
  /\ UNCHANGED <<bridge, cancelled, target, resend, conn, cur, sentOn, answered>>

\* The connection stops taking requests, a while before its close is reported.
ConnRefuses(n) ==
  /\ phase # "exited" /\ conn[n] = "open"
  /\ conn' = [conn EXCEPT ![n] = "refusing"]
  /\ UNCHANGED <<bridge, handler, pending, target, resend, cur, app>>

\* Its close: on a socket (failPendingOnClose) the calls waiting on this
\* connection, and no others, fail; what it still carried is lost.
ConnCloses(n) ==
  /\ phase # "exited" /\ conn[n] = "refusing"
  /\ conn' = [conn EXCEPT ![n] = "closed"]
  /\ lines' = {l \in lines : l[1] # n}
  /\ Settle({c \in pending : runtime = "vm" /\ target[c] = n}, "closed")
  /\ UNCHANGED <<bridge, cancelled, target, resend, cur, sentOn, answered>>

-----------------------------------------------------------------------------
(* The app, external: it answers a request it got, on the socket that       *)
(* carried it, or to every stream attached to its container.                *)

AppAnswers(c) ==
  /\ phase # "exited" /\ sentOn[c] # {} /\ c \notin answered
  /\ answered' = answered \cup {c}
  /\ lines' = lines \cup {<<n, c>> : n \in {m \in Links :
                 conn[m] = "open" /\ (runtime = "docker" \/ m \in sentOn[c])}}
  /\ UNCHANGED <<bridge, handler, client, sentOn>>

-----------------------------------------------------------------------------
(* createShutdown. *)

\* A shutdown that goes straight on to the stop.
InterruptNothing ==
  /\ phase' = IF owns THEN "stopping" ELSE "exited"
  /\ UNCHANGED <<kind, sandbox, handler, client, app>>

\* interruptAll(), and the stop that follows it: nothing to wait for in a
\* session that only attached, so it exits in the same turn.
Interrupt ==
  /\ records' = [c \in Call |-> IF c \in inFlight
                                THEN Append(records[c], "interrupted") ELSE records[c]]
  /\ inFlight' = {}
  /\ phase' = IF owns THEN "stopping" ELSE "exited"
  /\ UNCHANGED <<kind, sandbox, stage, outcome, cancelled, client, app>>

\* A signal: no wait for pending writes, and the client's pipe may be open.
ShutdownUrgently ==
  /\ phase = "up" /\ pipe' = pipe /\ Interrupt

\* The pipe closes: pending writes are waited for first.
ShutdownOnClose ==
  /\ phase = "up" /\ phase' = "pending" /\ pipe' = FALSE
  /\ UNCHANGED <<kind, sandbox, handler, client, app>>

\* They landed, or timed out, or a signal hurried the wait.
PendingEnds ==
  /\ phase = "pending" /\ pipe' = pipe /\ Interrupt

Exit ==
  /\ phase = "stopping" /\ phase' = "exited"
  /\ UNCHANGED <<kind, sandbox, pipe, handler, client, app>>

Exited == phase = "exited" /\ UNCHANGED vars

Next ==
  \/ \E c \in Call :
       \/ Arrive(c) \/ BootWaitTimesOut(c) \/ Cancel(c)
       \/ OpenDone(c) \/ OpenFails(c) \/ Send(c) \/ Resend(c) \/ ResendFails(c)
       \/ TimesOut(c) \/ AppAnswers(c)
       \/ \E n \in Links : Answer(n, c)
  \/ \E n \in Links : ConnRefuses(n) \/ ConnCloses(n)
  \/ SandboxReady \/ SandboxFails
  \/ ShutdownUrgently \/ ShutdownOnClose \/ PendingEnds \/ Exit \/ Exited

Spec == Init /\ [][Next]_vars

-----------------------------------------------------------------------------
(* Properties. *)

\* Every variable has its type.
TypeOK ==
  /\ runtime \in {"vm", "docker"} /\ owns \in BOOLEAN
  /\ sandbox \in {"starting", "ready", "failed"}
  /\ phase \in {"up", "pending", "stopping", "exited"}
  /\ pipe \in BOOLEAN
  /\ stage \in [Call -> {"idle", "boot", "opening", "calling", "waiting", "done"}]
  /\ outcome \in [Call -> Outcomes]
  /\ cancelled \subseteq Call /\ inFlight \subseteq Call
  /\ records \in [Call -> Seq({"answer", "notSent", "unanswered", "interrupted"})]
  /\ pending \subseteq Call /\ resend \subseteq Call
  /\ target \in [Call -> Links \cup {NoConn}]
  /\ conn \in [Links -> {"unused", "open", "refusing", "closed"}]
  /\ cur \in Links \cup {NoConn}
  /\ sentOn \in [Call -> SUBSET Links]
  /\ answered \subseteq Call
  /\ lines \subseteq (Links \X Call)

Started(c) == stage[c] \in {"opening", "calling", "waiting"}
              \/ (stage[c] = "done" /\ outcome[c] # "unavailable")

\* The handler's account: however timeouts, late answers, closed connections,
\* cancellations and the shutdown race, a call the bridge has started is
\* either in flight or recorded exactly once, never both and never twice.
OneAccount ==
  \A c \in Call :
    Len(records[c]) = IF Started(c) /\ c \notin inFlight THEN 1 ELSE 0

\* A call recorded as not sent ("the call did not run") has never had its
\* line taken by a connection, and never will; nor has one that failed with
\* "could not write", over a stream whose refusals can be believed.
Believable == runtime = "vm" \/ ~LongLines

NotSentNeverWritten ==
  \A c \in Call :
    \/ records[c] = <<"notSent">>
    \/ outcome[c] = "notWritten" /\ Believable
    => sentOn[c] = {}

\* The retry of a refused write never hands the app the same request twice,
\* over a stream whose refusals can be believed.
WrittenAtMostOnce ==
  Believable => \A c \in Call : Cardinality(sentOn[c]) <= 1

\* Once its client has been told how a call ended, the call is not written.
SettledStep == \A c \in Call : stage[c] = "done" => sentOn'[c] = sentOn[c]

\* A close fails only calls that were waiting on the connection that closed:
\* neither a call on another connection nor one re-sent on a new one.
CloseFailsItsOwn ==
  \A c \in Call : outcome[c] = "closed" =>
    conn[target[c]] = "closed" /\ sentOn[c] \subseteq {target[c]}

\* When a session that only attached exits, every call whose line was handed to a connection
\* has its record: no call that may have run is missing from the audit trail.
EverySentCallRecorded ==
  phase = "exited" /\ ~owns => \A c \in Call : sentOn[c] # {} => Len(records[c]) = 1

(* A tool call of an MCP session is in flight or recorded exactly once, also *)
(* when the session ends under it.                                           *)
EveryCallAccounted == TypeOK /\ OneAccount /\ EverySentCallRecorded

(* What is said of a call agrees with what went over the wire: not sent means*)
(* not written, nothing is written twice, and a close fails its own calls.   *)
WireAgreesWithRecord == NotSentNeverWritten /\ WrittenAtMostOnce /\ CloseFailsItsOwn

(* A call that has settled is not written to the sandbox any more.           *)
NothingAfterSettling == [][SettledStep]_vars

\* Every tool call is answered, one way or another, unless the session ends:
\* once it has begun, it comes to be over.
Begun(c) == stage[c] # "idle"
Over(c) == stage[c] = "done" \/ phase = "exited"
=============================================================================
