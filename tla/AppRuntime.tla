----------------------------- MODULE AppRuntime -----------------------------
(***************************************************************************)
(* The runtime of the apps of one sandbox: how an app starts, what it      *)
(* listens on, and what becomes of a request that reaches it: who the      *)
(* governor is told is calling, the verdict, the handler, and the          *)
(* handler's use of the index of the semantic file system.                 *)
(*                                                                         *)
(* A request comes from an app or from outside, on a socket that its       *)
(* sender can open; what the sender says of itself is its own affair.      *)
(***************************************************************************)
EXTENDS Integers, FiniteSets

CONSTANTS
  App,
  Governor,     \* an app, or None
  Exempt,       \* the apps the governor is not asked about
  Callers,      \* app -> the apps that have a directory under its peers
  TcpPort,      \* app -> the port its environment names, or None
  HttpApps,     \* the apps whose environment has them serve the HTTP bridge
  HttpPort,
  Request,
  Claims,       \* the names a sender may give for itself
  None

VARIABLES
  sandboxed,   \* the apps run in a sandbox
  daemon,      \* the semantic file system's daemon runs
  phase,       \* app -> "new", "loaded", "hooks", "ready", "failed" or "dead"
  index,       \* app -> its client of the index: None, "socket", "closed", "unavailable" or "local"
  open,        \* app -> what it listens on: "host", "tcp", "http" and callers' names
  bound,       \* port -> the app that holds it
  req,         \* each request
  question,    \* request -> what the governor was asked: [app, caller], or None
  stored       \* the requests whose tag the daemon has stored

vars == <<sandboxed, daemon, phase, index, open, bound, req, question, stored>>

Port == {HttpPort} \cup ({TcpPort[a] : a \in App} \ {None})

Unsent == [at |-> "unsent", to |-> None, via |-> None, from |-> None, says |-> None, op |-> None, verdict |-> None]

Init ==
  /\ sandboxed \in BOOLEAN
  /\ daemon \in BOOLEAN
  /\ phase = [a \in App |-> "new"]
  /\ index = [a \in App |-> None]
  /\ open = [a \in App |-> {}]
  /\ bound = [p \in Port |-> None]
  /\ req = [r \in Request |-> Unsent]
  /\ question = [r \in Request |-> None]
  /\ stored = {}

---------------------------------------------------------------------------
(* Starting an app.                                                        *)

\* What the check of an app's code against its manifest may say.
ExportsMatch(a) == BOOLEAN

\* The manifest and the code, whose exports must agree.
Load(a) ==
  /\ phase[a] = "new"
  /\ \E match \in ExportsMatch(a) : phase' = [phase EXCEPT ![a] = IF match THEN "loaded" ELSE "failed"]
  /\ UNCHANGED <<sandboxed, daemon, index, open, bound, req, question, stored>>

FallsBackToLocal(a) == IF daemon THEN "socket" ELSE "local"

\* createSemanticFs(): without the daemon, a client that throws in a sandbox,
\* and one that does nothing outside.
CreateSemanticFs(a) == IF daemon THEN "socket" ELSE IF sandboxed THEN "unavailable" ELSE "local"

Connect(a) ==
  /\ phase[a] = "loaded"
  /\ index' = [index EXCEPT ![a] = CreateSemanticFs(a)]
  /\ phase' = [phase EXCEPT ![a] = "hooks"]
  /\ UNCHANGED <<sandboxed, daemon, open, bound, req, question, stored>>

\* The hooks; a throw ends the start, and leaves what is connected.
HooksFail(a) ==
  /\ phase[a] = "hooks"
  /\ phase' = [phase EXCEPT ![a] = "failed"]
  /\ UNCHANGED <<sandboxed, daemon, index, open, bound, req, question, stored>>

\* The TCP listener is given up where its port is taken.
TcpWhereFree(a) == IF TcpPort[a] # None /\ bound[TcpPort[a]] = None THEN {TcpPort[a]} ELSE {}

\* The relay's socket, one for each caller, TCP and the HTTP bridge.
Listeners(a, tcp) ==
  {"host"} \cup Callers[a] \cup (IF tcp = {} THEN {} ELSE {"tcp"}) \cup (IF a \in HttpApps THEN {"http"} ELSE {})

\* The app listens; the bridge's port being taken is an error nobody handles.
Listen(a) ==
  /\ phase[a] = "hooks"
  /\ LET tcp == TcpWhereFree(a)
         taken == a \in HttpApps /\ (bound[HttpPort] # None \/ HttpPort \in tcp)
         ports == tcp \cup (IF a \in HttpApps THEN {HttpPort} ELSE {})
     IN  IF taken
         THEN /\ phase' = [phase EXCEPT ![a] = "dead"]
              /\ UNCHANGED <<open, bound>>
         ELSE /\ phase' = [phase EXCEPT ![a] = "ready"]
              /\ open' = [open EXCEPT ![a] = Listeners(a, tcp)]
              /\ bound' = [p \in Port |-> IF p \in ports THEN a ELSE bound[p]]
  /\ UNCHANGED <<sandboxed, daemon, index, req, question, stored>>

InFlight == {"arrived", "asking", "running", "storing", "stored"}

\* An app dies: its sockets close, and those who wait for it see that.
Die(a) ==
  /\ phase[a] \in {"hooks", "ready"}
  /\ phase' = [phase EXCEPT ![a] = "dead"]
  /\ open' = [open EXCEPT ![a] = {}]
  /\ bound' = [p \in Port |-> IF bound[p] = a THEN None ELSE bound[p]]
  /\ req' = [r \in Request |-> IF req[r].to = a /\ req[r].at \in InFlight THEN [req[r] EXCEPT !.at = "gone"] ELSE req[r]]
  /\ UNCHANGED <<sandboxed, daemon, index, question, stored>>

---------------------------------------------------------------------------
(* A request.                                                              *)

\* Who can open which socket: a caller's own directory is the caller's, the
\* relay's socket is the app's and root's, the ports are everyone's.
CanOpen(from, a, via) ==
  CASE via = "host" -> from \in {"root", a}
    [] via \in {"tcp", "http"} -> TRUE
    [] OTHER -> from \in {"root", via}

CallerAsClaimed(via, says) == IF via \in App THEN says ELSE via

\* The caller is the socket it came on, and not what the request says.
Caller(via, says) == via

Send(r, from, a, via, says, op) ==
  /\ req[r].at = "unsent" /\ via \in open[a] /\ CanOpen(from, a, via)
  /\ req' = [req EXCEPT ![r] = [at |-> "arrived", to |-> a, via |-> via, from |-> from, says |-> says, op |-> op, verdict |-> None]]
  /\ UNCHANGED <<sandboxed, daemon, phase, index, open, bound, question, stored>>

\* The HTTP bridge turns away a request without its token.
Unauthorized(r) ==
  /\ req[r].at = "arrived" /\ req[r].via = "http"
  /\ req' = [req EXCEPT ![r].at = "refused"]
  /\ UNCHANGED <<sandboxed, daemon, phase, index, open, bound, question, stored>>

\* Whether the governor is asked about what reaches an app.
Governed(a) == Governor # None /\ a # Governor /\ a \notin Exempt

\* invokeExport(): the governor is asked over the caller's own socket to it,
\* and where that is not to be had the answer is no.
Invoke(r) ==
  /\ req[r].at = "arrived"
  /\ LET a == req[r].to
     IN  \/ /\ ~Governed(a)
            /\ req' = [req EXCEPT ![r].at = "running"]
            /\ UNCHANGED question
         \/ /\ Governed(a) /\ a \in open[Governor]
            /\ req' = [req EXCEPT ![r].at = "asking"]
            /\ question' = [question EXCEPT ![r] = [app |-> a, caller |-> Caller(req[r].via, req[r].says)]]
         \/ /\ Governed(a) /\ a \notin open[Governor]
            /\ req' = [req EXCEPT ![r].at = "denied"]
            /\ UNCHANGED question
  /\ UNCHANGED <<sandboxed, daemon, phase, index, open, bound, stored>>

\* No such export.
NoExport(r) ==
  /\ req[r].at = "arrived"
  /\ req' = [req EXCEPT ![r].at = "error"]
  /\ UNCHANGED <<sandboxed, daemon, phase, index, open, bound, question, stored>>

\* The governor's answer: a verdict; or an error, or something that is none.
Verdict(r) ==
  /\ req[r].at = "asking" /\ phase[Governor] = "ready"
  /\ \/ req' = [req EXCEPT ![r].at = "running", ![r].verdict = "allowed"]
     \/ req' = [req EXCEPT ![r].at = "denied", ![r].verdict = "denied"]
     \/ req' = [req EXCEPT ![r].at = "denied"]
  /\ UNCHANGED <<sandboxed, daemon, phase, index, open, bound, question, stored>>

GovernorGone(r) == phase[Governor] # "ready"

\* The governor is gone, or has said nothing for five seconds.
GovernorSilent(r) == req[r].at = "asking"

Unavailable(r) ==
  /\ req[r].at = "asking" /\ GovernorSilent(r)
  /\ req' = [req EXCEPT ![r].at = "denied"]
  /\ UNCHANGED <<sandboxed, daemon, phase, index, open, bound, question, stored>>

\* The client that throws, and the one whose daemon is gone.
ThrowingClient(client) == client \in {"unavailable", "closed"}

\* The handler: it answers, or fails, or has its app's client tag a file.
Handle(r) ==
  /\ req[r].at = "running"
  /\ LET client == index[req[r].to]
     IN  \/ /\ req[r].op = "plain"
            /\ \E how \in {"done", "error"} : req' = [req EXCEPT ![r].at = how]
         \/ /\ req[r].op = "tag"
            /\ req' = [req EXCEPT ![r].at = CASE client = "socket" -> "storing"
                                              [] client = "local" -> "done"
                                              [] ThrowingClient(client) -> "error"]
  /\ UNCHANGED <<sandboxed, daemon, phase, index, open, bound, question, stored>>

\* The daemon stores the tag; its answer comes back; or the client gives up.
DaemonStores(r) ==
  /\ req[r].at = "storing" /\ daemon
  /\ \/ stored' = stored \cup {r} /\ req' = [req EXCEPT ![r].at = "stored"]
     \/ UNCHANGED stored /\ req' = [req EXCEPT ![r].at = "error"]
  /\ UNCHANGED <<sandboxed, daemon, phase, index, open, bound, question>>

TagAnswered(r) ==
  /\ req[r].at = "stored"
  /\ req' = [req EXCEPT ![r].at = "done"]
  /\ UNCHANGED <<sandboxed, daemon, phase, index, open, bound, question, stored>>

TagTimesOut(r) ==
  /\ req[r].at \in {"storing", "stored"}
  /\ req' = [req EXCEPT ![r].at = "error"]
  /\ UNCHANGED <<sandboxed, daemon, phase, index, open, bound, question, stored>>

\* The daemon dies: the clients' sockets close, and what waits on them fails.
DaemonDies ==
  /\ daemon
  /\ daemon' = FALSE
  /\ index' = [a \in App |-> IF index[a] = "socket" THEN "closed" ELSE index[a]]
  /\ req' = [r \in Request |-> IF req[r].at \in {"storing", "stored"} THEN [req[r] EXCEPT !.at = "error"] ELSE req[r]]
  /\ UNCHANGED <<sandboxed, phase, open, bound, question, stored>>

Next ==
  \/ \E a \in App : Load(a) \/ Connect(a) \/ HooksFail(a) \/ Listen(a) \/ Die(a)
  \/ \E r \in Request, a \in App, from \in App \cup {"root", "outside"}, says \in Claims, op \in {"plain", "tag"} :
       \E via \in open[a] : Send(r, from, a, via, says, op)
  \/ \E r \in Request :
       Unauthorized(r) \/ Invoke(r) \/ NoExport(r) \/ Verdict(r) \/ Unavailable(r)
         \/ Handle(r) \/ DaemonStores(r) \/ TagAnswered(r) \/ TagTimesOut(r)
  \/ DaemonDies

Spec == Init /\ [][Next]_vars

---------------------------------------------------------------------------
\* What runs of a governed app was allowed by the governor, which was told who
\* opened the socket the request came on, whatever the request says.
JudgedAsItCame ==
  \A r \in Request :
    /\ req[r].at \in {"running", "storing", "stored", "done"} /\ Governed(req[r].to) =>
         req[r].verdict = "allowed" /\ question[r] # None /\ question[r].app = req[r].to
    /\ question[r] # None /\ req[r].from \in App /\ req[r].via \notin {"tcp", "http"} =>
         question[r].caller = req[r].from \/ (question[r].caller = "host" /\ req[r].from = req[r].to)

\* In a sandbox a tag that is reported stored was stored.
NoLostWrite == \A r \in Request : sandboxed /\ req[r].op = "tag" /\ req[r].at = "done" => r \in stored

\* A request that has arrived, and one that is over: answered, or its app gone.
Arrived(r) == req[r].at = "arrived"
Over(r) == req[r].at \in {"done", "error", "denied", "refused", "gone"}
=============================================================================
