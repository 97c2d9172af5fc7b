---------------------------- MODULE AgentComputer ----------------------------
(***************************************************************************)
(* A Computer of @berthos/agents, from its boot to its stop, and the tool  *)
(* calls made on it (computer.ts, fleet-computer.ts, network.ts, the entry *)
(* points createAgent() and runAgent() of agent.ts, mcp-client.ts), through*)
(* the two governance gates on their way: the Computer's (governance.ts)   *)
(* and the one in every resident app (sdk: governance-gate.ts, rpc.ts).    *)
(*                                                                         *)
(* A call that takes too long is not awaited but issued again, so several  *)
(* requests of one call may be under way in the container at a time.       *)
(***************************************************************************)
EXTENDS Naturals, FiniteSets

CONSTANTS
  Call,        \* bound: the tool calls of a behaviour
  Computers,   \* the ways a Computer may be made: records with the fields below
  MaxAttempts  \* how many attempts of withReadyRetry() fit its ceiling

(* kind: "boot", "connect" or "fleet"; many: more than one app; governors:  *)
(* apps declaring `governs`; mode: GovernanceGateOptions.mode; http: httpRpc *)
(* was asked for; mcp: MCP servers to connect to.                           *)

VARIABLES
  opt,      \* the member of Computers of this behaviour
  boot,     \* how far boot(), connect() or deploy() is, or how it ended
  held,     \* what exists on its behalf: image, container, attach, instance, mcp
  exited,   \* the container is gone
  noticed,  \* exitReason is set
  governor, \* whether the governing app is up
  call,     \* per call: state, target, verdict of the first gate, attempts
  request,  \* per call and attempt: where its request is
  said,     \* per call and attempt: what the governor told the app's gate
  offered   \* the verdicts given to the audit sink

vars == <<opt, boot, held, exited, noticed, governor, call, request, said, offered>>
machine == <<opt, boot, held, exited, noticed>>

Attempt == 1..MaxAttempts
NotMade == [st |-> "idle", target |-> "none", verdict |-> "none", n |-> 0]

Init ==
  /\ opt \in Computers
  /\ boot = "none" /\ held = {} /\ exited = FALSE /\ noticed = FALSE /\ governor = TRUE
  /\ call = [c \in Call |-> NotMade]
  /\ request = [c \in Call |-> [n \in Attempt |-> "none"]]
  /\ said = [c \in Call |-> [n \in Attempt |-> "nothing"]]
  /\ offered = {}

-----------------------------------------------------------------------------
(* boot(), connect() and deploy(), step by step.                            *)

Go(from, to) == boot = from /\ boot' = to
Rest == UNCHANGED <<opt, exited, noticed, governor, call, request, said, offered>>

BuildImage ==
  /\ opt.kind # "connect" /\ boot = "none"
  /\ \/ boot' = "built" /\ held' = {"image"}
     \/ boot' = "failed" /\ UNCHANGED held
  /\ Rest

\* startContainer(); its failure, or a bad httpRpc.app, leaves the image.
StartContainer ==
  /\ opt.kind = "boot" /\ boot = "built"
  /\ \/ boot' = "started" /\ held' = held \cup {"container"}
     \/ boot' = "failed" /\ UNCHANGED held
  /\ Rest

\* stopContainer() and removeImageKeepingCache(); Docker does as it is told.
CleanUp == held' = {}

\* describeContainerFailure(): a container that is gone already is cleaned up.
Inspect ==
  /\ boot = "started"
  /\ IF exited THEN boot' = "failed" /\ CleanUp
     ELSE boot' = "inspected" /\ UNCHANGED held
  /\ Rest

\* One app: attach to its stdio.  Nothing is undone when that fails.
Attach ==
  /\ boot = "inspected"
  /\ \/ boot' = "attached" /\ held' = held \cup (IF opt.many THEN {} ELSE {"attach"})
     \/ ~opt.many /\ boot' = "failed" /\ UNCHANGED held
  /\ Rest

\* connect() to a running `berth os up`; whatever it is, it is not ours.
Connect ==
  /\ opt.kind = "connect" /\ boot = "none"
  /\ boot' \in {"attached", "failed"} /\ UNCHANGED held
  /\ Rest

\* resolveGovernanceGate(): two governors are an error, after the start.
ResolveGate ==
  /\ boot = "attached"
  /\ boot' = IF opt.governors > 1 THEN "failed" ELSE "gated"
  /\ UNCHANGED held /\ Rest

\* The bridge answers /healthz, or the boot is undone.
CheckHealth ==
  /\ boot = "gated"
  /\ \/ boot' = "made" /\ (opt.http => ~exited) /\ UNCHANGED held
     \/ opt.http /\ boot' = "failed" /\ CleanUp
  /\ Rest

\* deploy(): upload, start, and the three waits of bringUpRpcBridge().
Deploy ==
  /\ opt.kind = "fleet" /\ boot = "built"
  /\ \/ boot' = "made" /\ opt.governors <= 1 /\ held' = held \cup {"instance"}
     \/ boot' = "failed" /\ held' \in {held, held \cup {"instance"}}
  /\ Rest

\* createAgent() connects to its MCP servers once it has the Computer.
ConnectMcp ==
  /\ boot = "made"
  /\ \/ boot' = "ready" /\ held' = held \cup (IF opt.mcp THEN {"mcp"} ELSE {})
     \/ opt.mcp /\ boot' \in {"failed"} /\ UNCHANGED held
  /\ Rest

\* stop() and the MCP handles' close(); a connected Computer is left alone.
Stop ==
  /\ Go("ready", "stopped")
  /\ \/ held' = IF opt.kind = "fleet" THEN held \cap {"image"} ELSE {}
     \/ opt.kind # "connect" /\ held' = held \ {"attach"}
  /\ exited' = (exited \/ (opt.kind = "boot" /\ "container" \notin held'))
  /\ UNCHANGED <<opt, noticed, governor, call, request, said, offered>>

-----------------------------------------------------------------------------
(* What may happen to the container and to the governing app.               *)

Exits ==
  /\ ~exited /\ boot \notin {"none", "built", "failed"} /\ exited' = TRUE
  /\ UNCHANGED <<opt, boot, held, noticed, governor, call, request, said, offered>>

\* container.wait() resolved and the failure was described.
NoticeExit ==
  /\ exited /\ ~noticed /\ opt.kind = "boot" /\ noticed' = TRUE
  /\ UNCHANGED <<opt, boot, held, exited, governor, call, request, said, offered>>

GovernorDies ==
  /\ governor /\ opt.governors = 1 /\ governor' = FALSE
  /\ UNCHANGED <<machine, call, request, said, offered>>

-----------------------------------------------------------------------------
(* The first gate: enforce().                                               *)

Gated(t) == opt.governors = 1 /\ t \in {"app", "external"}

Set(c, st) == call' = [call EXCEPT ![c].st = st]

\* A tool of an app, of an exempt app (the governor's too), or an external one.
Invoke(c, t) ==
  /\ boot = "ready" /\ call[c].st = "idle"
  /\ t = "external" => opt.mcp
  /\ t = "exempt" => opt.many
  /\ call' = [call EXCEPT ![c].target = t, ![c].st = IF Gated(t) THEN "asking" ELSE "trying"]
  /\ UNCHANGED <<machine, governor, request, said, offered>>

\* A bridge forwards every request to the one app bound to it: on a fleet the
\* governor is asked through an app that has no such export.
Reaches == governor /\ ~exited /\ opt.kind # "fleet"

Verdict(c, v) ==
  /\ call[c].st = "asking"
  /\ v \in {"allowed", "denied"} => Reaches
  /\ call' = [call EXCEPT ![c].st = "writing", ![c].verdict = v]
  /\ UNCHANGED <<machine, governor, request, said, offered>>

\* The answer is no object: reading its `allowed` throws past the record.
Misread(c) ==
  /\ call[c].st = "asking" /\ Reaches /\ Set(c, "done")
  /\ UNCHANGED <<machine, governor, request, said, offered>>

Passes(v) == v = "allowed" \/ (v = "unavailable" /\ opt.mode = "fail-open")

\* write() was awaited; the sink may have dropped the record.
Written(c) ==
  /\ call[c].st = "writing"
  /\ offered' = offered \cup {<<c, call[c].verdict>>}
  /\ Set(c, IF Passes(call[c].verdict) THEN "trying" ELSE "done")
  /\ UNCHANGED <<machine, governor, request, said>>

-----------------------------------------------------------------------------
(* The attempts of one call, and the requests they leave in the container.  *)

Retried(c) == opt.kind # "fleet" /\ call[c].target # "external"

\* withReadyRetry(): an exit that was noticed ends it before the next attempt.
Try(c) ==
  /\ call[c].st = "trying"
  /\ IF noticed /\ Retried(c) THEN Set(c, "done") /\ UNCHANGED request
     ELSE /\ call' = [call EXCEPT ![c].st = "waiting", ![c].n = @ + 1]
          /\ request' = [request EXCEPT ![c][call[c].n + 1] =
                           IF call[c].target = "external" THEN "running" ELSE "sent"]
  /\ UNCHANGED <<machine, governor, said, offered>>

Move(c, n, from, to) == request[c][n] = from /\ request' = [request EXCEPT ![c][n] = to]

\* invokeExport() of the app: its own gate first, unless it is exempt.
Arrives(c, n) ==
  /\ ~exited
  /\ Move(c, n, "sent", IF Gated(call[c].target) THEN "judging" ELSE "running")
  /\ UNCHANGED <<machine, governor, call, said, offered>>

JudgedOpen(c, n) ==
  /\ ~exited
  /\ \E answer \in {"yes", "no", "nothing"} :
       /\ answer # "nothing" => governor
       /\ said' = [said EXCEPT ![c][n] = answer]
       /\ Move(c, n, "judging", IF answer = "no" THEN "error" ELSE "running")
  /\ UNCHANGED <<machine, governor, call, offered>>

\* evaluateAction(): anything but a readable yes in time is a refusal.
Judged(c, n) ==
  /\ ~exited
  /\ \E answer \in {"yes", "no", "nothing"} :
       /\ answer # "nothing" => governor
       /\ said' = [said EXCEPT ![c][n] = answer]
       /\ Move(c, n, "judging", IF answer = "yes" THEN "running" ELSE "error")
  /\ UNCHANGED <<machine, governor, call, offered>>

Runs(c, n) ==
  /\ call[c].target = "external" \/ ~exited
  /\ \E end \in {"ok", "error"} : Move(c, n, "running", end)
  /\ UNCHANGED <<machine, governor, call, said, offered>>

TryAgainForever(c) ==
  call' = IF Retried(c) /\ call[c].n < MaxAttempts THEN [call EXCEPT ![c].st = "trying"]
          ELSE IF Retried(c) THEN [call EXCEPT ![c].st = "trying", ![c].n = 0]
          ELSE [call EXCEPT ![c].st = "done"]

TryAgain(c) == Set(c, IF Retried(c) /\ call[c].n < MaxAttempts THEN "trying" ELSE "done")

\* The attempt's answer; an error of the application is retried like any other.
Answered(c) ==
  /\ call[c].st = "waiting" /\ request[c][call[c].n] \in {"ok", "error"}
  /\ IF request[c][call[c].n] = "ok" THEN Set(c, "done") ELSE TryAgain(c)
  /\ UNCHANGED <<machine, governor, request, said, offered>>

\* READY_ATTEMPT_TIMEOUT_MS: the request it gave up may still run.
TimesOut(c) ==
  /\ call[c].st = "waiting" /\ Retried(c) /\ TryAgain(c)
  /\ UNCHANGED <<machine, governor, request, said, offered>>

\* The connection breaks: the only way out of a call to a silent bridge.
Breaks(c) ==
  /\ call[c].st = "waiting" /\ call[c].target # "external" /\ ~Retried(c) /\ TryAgain(c)
  /\ UNCHANGED <<machine, governor, request, said, offered>>

Next ==
  \/ BuildImage \/ StartContainer \/ Inspect \/ Attach \/ Connect \/ ResolveGate \/ CheckHealth
  \/ Deploy \/ ConnectMcp \/ Stop \/ Exits \/ NoticeExit \/ GovernorDies
  \/ \E c \in Call :
       \/ \E t \in {"app", "exempt", "external"} : Invoke(c, t)
       \/ \E v \in {"allowed", "denied", "unavailable"} : Verdict(c, v)
       \/ Misread(c) \/ Written(c) \/ Try(c) \/ Answered(c) \/ TimesOut(c) \/ Breaks(c)
       \/ \E n \in Attempt : Arrives(c, n) \/ Judged(c, n) \/ Runs(c, n)

Spec == Init /\ [][Next]_vars

-----------------------------------------------------------------------------
Began(c, n) == request[c][n] \in {"running", "ok"}

(* Whatever the first gate made of a silent or a dying governor, and however *)
(* often a call is issued again: an export of a governed app runs only for   *)
(* a request its governor said yes to, and what the first gate let through   *)
(* has its verdict in the audit trail before anything runs.                 *)
NothingUnjudged ==
  \A c \in Call, n \in Attempt :
    (Began(c, n) /\ Gated(call[c].target)) =>
       /\ call[c].target = "app" => said[c][n] = "yes"
       /\ \E v \in {"allowed", "unavailable"} : <<c, v>> \in offered

\* A call that is awaited with retries, and one that was answered.
Pending(c) == call[c].st # "idle" /\ Retried(c)
Settled(c) == call[c].st = "done"
=============================================================================
