----------------------------- MODULE MCServices -----------------------------
(***************************************************************************)
(* What serves apps and their callers, side by side: the context bus, the  *)
(* tool calls of an MCP session, the runtime every app is served by, the   *)
(* SQL connectors and the egress broker, which here are asked for an       *)
(* answer.  They share no state, so each behaviour is one of one component:*)
(* `part` says which.  The constants are those of all of them; the         *)
(* definitions below give the small instance that is checked.              *)
(***************************************************************************)
EXTENDS ContextBus

CONSTANTS
  Call, MaxConns, Kinds, LongLines,                     \* of McpCalls
  App, Governor, Exempt, Callers, TcpPort, HttpApps, HttpPort, Asking, Claims, \* of AppRuntime
  PoolConn,                                             \* of SqlConnector, with Call
  Req, Asks, Policies, ProxyPort, Literal, Address,     \* of EgressBroker
  None, Off

VARIABLES
  part,  \* the component of this behaviour
  runtime, owns, sandbox, pipe, stage, outcome, cancelled, inFlight, records,
  pending, target, resend, conn, cur, sentOn, answered, lines, \* of McpCalls, with phase
  sandboxed, daemon, phase, index, open, bound, req, question, stored, \* of AppRuntime
  engine, mode, privileged, opened, pools, at, stmt, on, said, sess, orphans, kept, \* of SqlConnector
  policy, alive, status, dialled                        \* of EgressBroker, with req

Calls == INSTANCE McpCalls
Runtime == INSTANCE AppRuntime WITH Request <- Asking
Sql == INSTANCE SqlConnector WITH Conn <- PoolConn
Egress == INSTANCE EgressBroker WITH Port <- ProxyPort, up <- alive, sent <- status

calling == <<runtime, owns, sandbox, pipe, stage, outcome, cancelled, inFlight, records,
             pending, target, resend, conn, cur, sentOn, answered, lines>>
serving == <<sandboxed, daemon, index, open, bound, question, stored>>
storing == <<engine, mode, privileged, opened, pools, at, stmt, on, said, sess, orphans, kept>>
leaving == <<policy, alive, status, dialled>>

state == <<part, vars, phase, req, calling, serving, storing, leaving>>

-----------------------------------------------------------------------------
\* A session attached to a VM, and one that stops its container.
MCKinds == {<<"vm", FALSE>>, <<"docker", TRUE>>}
MCMaxConns == [vm |-> 3, docker |-> 2]

\* An app and its governor, whose port may be the one of the app's HTTP bridge.
MCCallers == [g |-> {"a"}, a |-> {"g"}]
MCTcpPort == [g |-> 8080, a |-> 9000]

\* What a client may ask the egress broker, and the policies it may have.
MCAsks ==
  {[kind |-> k, host |-> h, port |-> "none"] : k \in {"http", "connect"}, h \in {"none", "site", "169.254"}}
MCPolicies ==
  [mode : {"direct", "proxy", "dialer"}, declared : {{<<"network", "host", "site">>}, {}}]
MCLiteral == [h \in {"169.254"} |-> <<169, 254>>]
MCAddress == {<<93, 184>>, <<127, 0>>}

\* What the theorems about the tool calls assume of their constants.
ASSUME CallsConstants == Calls!CallsAssumption

-----------------------------------------------------------------------------
NoCalls ==
  /\ runtime = Off /\ owns = Off /\ sandbox = Off /\ pipe = Off /\ stage = Off /\ outcome = Off
  /\ cancelled = Off /\ inFlight = Off /\ records = Off /\ pending = Off /\ target = Off
  /\ resend = Off /\ conn = Off /\ cur = Off /\ sentOn = Off /\ answered = Off /\ lines = Off
NoRuntime ==
  /\ sandboxed = Off /\ daemon = Off /\ index = Off /\ open = Off /\ bound = Off
  /\ question = Off /\ stored = Off
NoSql ==
  /\ engine = Off /\ mode = Off /\ privileged = Off /\ opened = Off /\ pools = Off /\ at = Off
  /\ stmt = Off /\ on = Off /\ said = Off /\ sess = Off /\ orphans = Off /\ kept = Off
NoEgress == policy = Off /\ alive = Off /\ status = Off /\ dialled = Off

ServicesInit ==
  /\ Init
  /\ \/ /\ part = "bus"
        /\ NoCalls /\ NoRuntime /\ NoSql /\ NoEgress /\ phase = Off /\ req = Off
     \/ /\ part = "calls" /\ Calls!Init
        /\ NoRuntime /\ NoSql /\ NoEgress /\ req = Off
     \/ /\ part = "runtime" /\ Runtime!Init
        /\ NoCalls /\ NoSql /\ NoEgress
     \/ /\ part = "sql" /\ Sql!Init
        /\ NoCalls /\ NoRuntime /\ NoEgress /\ phase = Off /\ req = Off
     \/ /\ part = "egress" /\ Egress!Init
        /\ NoCalls /\ NoRuntime /\ NoSql /\ phase = Off

ServicesNext ==
  /\ UNCHANGED part
  /\ \/ /\ part = "bus" /\ Next
        /\ UNCHANGED <<calling, serving, storing, leaving, phase, req>>
     \/ /\ part = "calls" /\ Calls!Next
        /\ UNCHANGED <<vars, serving, storing, leaving, req>>
     \/ /\ part = "runtime" /\ Runtime!Next
        /\ UNCHANGED <<vars, calling, storing, leaving>>
     \/ /\ part = "sql" /\ Sql!Next
        /\ UNCHANGED <<vars, calling, serving, leaving, phase, req>>
     \/ /\ part = "egress" /\ Egress!Next
        /\ UNCHANGED <<vars, calling, serving, storing, phase>>

ServicesSpec == ServicesInit /\ [][ServicesNext]_state

callsVars == Calls!vars
runtimeVars == Runtime!vars
sqlVars == Sql!vars
egressVars == Egress!vars

\* A call's timers fire, a connection attempt ends (connectUnix has a deadline)
\* and a suspended handler resumes; nothing obliges the app to answer.
CallsFairness ==
  \A c \in Call :
    /\ WF_callsVars(part = "calls" /\ Calls!BootWaitTimesOut(c))
    /\ WF_callsVars(part = "calls" /\ (Calls!OpenDone(c) \/ Calls!OpenFails(c)))
    /\ WF_callsVars(part = "calls" /\ Calls!Send(c))
    /\ WF_callsVars(part = "calls" /\ Calls!TimesOut(c))

\* A request the app has is worked on, and its timers go off.
RuntimeFairness ==
  /\ WF_runtimeVars(part = "runtime" /\ (Runtime!Invoke("r1") \/ Runtime!NoExport("r1")))
  /\ WF_runtimeVars(part = "runtime" /\ Runtime!Unavailable("r1"))
  /\ WF_runtimeVars(part = "runtime" /\ Runtime!Handle("r1"))
  /\ WF_runtimeVars(part = "runtime" /\ Runtime!TagTimesOut("r1"))

\* The app's steps are taken, and the server's that it has to take.
SqlFairness ==
  /\ WF_sqlVars(part = "sql" /\ Sql!OpenEnds)
  /\ \A c \in Call : /\ WF_sqlVars(part = "sql" /\ Sql!Caller(c))
                             /\ WF_sqlVars(part = "sql" /\ Sql!Settles(c))

\* Every wait of the broker has a timer.
EgressFairness ==
  /\ WF_egressVars(part = "egress" /\ \E ip \in Address : Egress!Resolved("r1", ip))
  /\ WF_egressVars(part = "egress" /\ Egress!ResolveFails("r1"))
  /\ WF_egressVars(part = "egress" /\ Egress!Dial("r1"))
  /\ WF_egressVars(part = "egress" /\ Egress!HostFails("r1"))
  /\ WF_egressVars(part = "egress" /\ Egress!ConnectFails("r1"))
  /\ WF_egressVars(part = "egress" /\ Egress!RequestFails("r1"))

ServicesFairSpec ==
  ServicesSpec /\ Fairness /\ CallsFairness /\ RuntimeFairness /\ SqlFairness /\ EgressFairness

-----------------------------------------------------------------------------
(* A tool call of an MCP session is in flight or recorded exactly once, also *)
(* when the session ends under it.                                           *)
EveryCallAccounted == part = "calls" => Calls!EveryCallAccounted

(* What is said of a call agrees with what went over the wire: not sent means*)
(* not written, nothing is written twice, and a close fails its own calls.   *)
WireAgreesWithRecord == part = "calls" => Calls!WireAgreesWithRecord

(* A call that has settled is not written to the sandbox any more.           *)
NothingAfterSettling == [][part = "calls" => Calls!SettledStep]_state

(* What runs of a governed app was allowed by the governor, which was told  *)
(* who asked; in a sandbox a tag that is reported stored was stored.        *)
RuntimeIsJudged == part = "runtime" => Runtime!JudgedAsItCame /\ Runtime!NoLostWrite

(* An agent's statement meets nothing an earlier call left in its session,  *)
(* and nothing is kept of a call that was reported to have come to nothing. *)
SqlKeepsItsWord == part = "sql" => Sql!FreshSession /\ Sql!NothingKeptUnsaid

\* The processes, connections and calls of one part are interchangeable: what
\* is awaited of one of them.
First == CHOOSE c \in Conn : TRUE

Awaited ==
  \/ part = "bus" /\ (client[First] = "gone" \/ up[First] # <<>>)
  \/ part = "calls" /\ Calls!Begun("c1")
  \/ part = "runtime" /\ Runtime!Arrived("r1")
  \/ part = "sql" /\ Sql!Begun("c1")
  \/ part = "egress" /\ Egress!Waits("r1")

Settled ==
  \/ part = "bus" /\ up[First] = <<>> /\ (client[First] = "gone" => task[First] = "done")
  \/ part = "calls" /\ Calls!Over("c1")
  \/ part = "runtime" /\ Runtime!Over("r1")
  \/ part = "sql" /\ Sql!Over("c1")
  \/ part = "egress" /\ Egress!Told("r1")

(* Nobody waits for ever: the bus reads the requests of an app, and releases *)
(* it when it is gone, whatever another app does; a tool call gets a result  *)
(* unless its session ends; an app answers a request, or is gone; every      *)
(* statement ends; the egress broker answers its client.                     *)
NobodyWaitsForEver == Awaited ~> Settled
=============================================================================
