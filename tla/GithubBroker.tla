---------------------------- MODULE GithubBroker ----------------------------
(***************************************************************************)
(* The broker that alone leads to api.github.com for an app declaring a    *)
(* github:* capability (docker/github-api-broker.cjs).  It ends the TLS of *)
(* the app, resolves the path that was asked for, derives the capability   *)
(* the request needs, and forwards what it judged.                         *)
(*                                                                         *)
(* A path is the sequence of its segments; a segment is what it decodes    *)
(* to: plain text, a dot segment ("%2e%2e" included), one that hides a     *)
(* separator ("sep": o%2f..), or a malformed escape ("bad").               *)
(***************************************************************************)
EXTENDS Naturals, Sequences

CONSTANTS
  Req,       \* bound: the requests of a behaviour
  Paths,     \* the paths a client may ask for
  Declared,  \* the sets of capabilities a policy may hold: <<action, scope>>
  Dialer     \* BOOLEAN choices of BERTH_GITHUB_API_DIALER_SOCKET

\* A path is a sequence of segments.
PathsAssumption == Paths \subseteq Seq(STRING)

VARIABLES
  caps,      \* GITHUB_CAPABILITIES
  dialer,    \* whether the outbound leg is a tunnel from the host
  up,        \* certificates are made and the broker listens
  req        \* per request: state, method, asked path, forwarded path, answer

vars == <<caps, dialer, up, req>>

-----------------------------------------------------------------------------
Null == [ok |-> FALSE, segs |-> <<>>]

\* One round of the loop of normalizeRequestPath().
Resolve(acc, s) ==
  IF ~acc.ok \/ s \in {"bad", "sep"} THEN Null
  ELSE IF s \in {"", "."} THEN acc
  ELSE IF s # ".." THEN [acc EXCEPT !.segs = Append(@, s)]
  ELSE IF acc.segs = <<>> THEN Null
  ELSE [acc EXCEPT !.segs = SubSeq(@, 1, Len(@) - 1)]

NormalizeRequestPath(raw) ==
  LET read[n \in 0 .. Len(raw)] ==
        IF n = 0 THEN [ok |-> TRUE, segs |-> <<>>] ELSE Resolve(read[n - 1], raw[n])
  IN  read[Len(raw)]

\* ROUTES, first match first; "none" is a path no route covers.
RouteScope(p) ==
  CASE Len(p) >= 3 /\ p[1] = "repos" -> IF Len(p) = 3 THEN "repos" ELSE p[4]
    [] p = <<"user">> -> "user"
    [] Len(p) >= 2 /\ p[1] \in {"user"} -> "user:" \o p[2]
    [] Len(p) >= 2 /\ p[1] \in {"users", "orgs"} -> IF Len(p) = 2 THEN p[1] ELSE p[1] \o ":" \o p[3]
    [] Len(p) >= 1 /\ p[1] \in {"gists", "notifications"} -> p[1]
    [] Len(p) = 2 /\ p[1] = "search" -> "search:" \o p[2]
    [] OTHER -> "none"

ActionFor(method) == IF method \in {"GET", "HEAD"} THEN "read" ELSE "write"

\* matchesCapability(): the scope of a capability is a glob.
IsAllowed(action, scope) == \E c \in caps : c[1] = action /\ c[2] \in {"*", scope}

-----------------------------------------------------------------------------
Idle == [st |-> "idle", method |-> "none", asked |-> <<>>, path |-> <<>>, answer |-> "none"]

Init ==
  /\ caps \in Declared /\ dialer \in Dialer /\ up = FALSE
  /\ req = [r \in Req |-> Idle]

\* generateCerts() runs before anything listens; a failing openssl ends it all.
GenerateCerts == ~up /\ up' = TRUE /\ UNCHANGED <<caps, dialer, req>>

To(r, st) == req' = [req EXCEPT ![r].st = st] /\ UNCHANGED <<caps, dialer, up>>
Done(r, answer) ==
  /\ req' = [req EXCEPT ![r].st = "done", ![r].answer = answer]
  /\ UNCHANGED <<caps, dialer, up>>

\* The proxy server: only a CONNECT, and only to GITHUB_API_HOST.
ConnectHost(r) == up /\ req[r].st = "idle" /\ To(r, "handshake")
ConnectOther(r) == up /\ req[r].st = "idle" /\ Done(r, "403")
NotConnect(r) == up /\ req[r].st = "idle" /\ Done(r, "400")
HandshakeFails(r) == req[r].st = "handshake" /\ Done(r, "closed")

ForwardedRaw(raw) == raw

\* The normalized path, not the one that was asked for.
Forwarded(raw) == NormalizeRequestPath(raw).segs

HandleRequest(r, m, raw) ==
  LET n == NormalizeRequestPath(raw)
      scope == IF n.ok THEN RouteScope(n.segs) ELSE "none"
  IN
  /\ req[r].st = "handshake"
  /\ IF scope = "none" \/ ~IsAllowed(ActionFor(m), scope)
     THEN req' = [req EXCEPT ![r] = [@ EXCEPT !.st = "done", !.method = m, !.asked = raw, !.answer = "403"]]
     ELSE req' = [req EXCEPT ![r] = [@ EXCEPT !.st = IF dialer THEN "dialling" ELSE "sent",
                                              !.method = m, !.asked = raw, !.path = Forwarded(raw)]]
  /\ UNCHANGED <<caps, dialer, up>>

\* dialViaHost(): OK, or an error, a close, a long answer, twenty seconds.
Dialled(r) == req[r].st = "dialling" /\ To(r, "sent")
DialFails(r) == req[r].st = "dialling" /\ Done(r, "502")

\* https.request() has no timeout of its own.
Responds(r) == req[r].st = "sent" /\ Done(r, "upstream")
BadGateway(r) == req[r].st = "sent" /\ Done(r, "502")

Next ==
  \/ GenerateCerts
  \/ \E r \in Req :
       \/ ConnectHost(r) \/ ConnectOther(r) \/ NotConnect(r) \/ HandshakeFails(r)
       \/ \E m \in {"GET", "POST"}, raw \in Paths : HandleRequest(r, m, raw)
       \/ Dialled(r) \/ DialFails(r) \/ Responds(r) \/ BadGateway(r)

Spec == Init /\ [][Next]_vars

-----------------------------------------------------------------------------
(* How the API's edge reads a path: separators that were hidden count, and a *)
(* ".." at the root stays there.                                             *)
EdgeSegment(segs, s) ==
  IF s \in {"", "."} THEN segs
  ELSE IF s = ".." THEN (IF segs = <<>> THEN segs ELSE SubSeq(segs, 1, Len(segs) - 1))
  ELSE Append(segs, s)
EdgeStep(segs, s) == IF s = "sep" THEN EdgeSegment(EdgeSegment(segs, "o"), "..") ELSE EdgeSegment(segs, s)
EdgePath(p) ==
  LET read[n \in 0 .. Len(p)] == IF n = 0 THEN <<>> ELSE EdgeStep(read[n - 1], p[n])
  IN  read[Len(p)]

(* However a path is written, what the API ends up being asked for needs a   *)
(* capability that was declared: the broker's reading of a path and the      *)
(* reading at the other end of its connection cannot be told apart.          *)
ReachesOnlyWhatIsDeclared ==
  \A r \in Req : req[r].path # <<>> =>
    /\ IsAllowed(ActionFor(req[r].method), RouteScope(EdgePath(req[r].path)))
    /\ NormalizeRequestPath(req[r].path).segs = req[r].path

=============================================================================
