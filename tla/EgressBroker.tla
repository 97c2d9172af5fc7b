---------------------------- MODULE EgressBroker ----------------------------
(***************************************************************************)
(* The egress broker of a sandbox (docker/egress-broker.cjs): the only way *)
(* out for an app that declared network:host:* or browser:navigate:*.      *)
(* Plain requests and CONNECTs are checked by name and port, then dialled  *)
(* directly at a pinned address, through an upstream proxy, or through the *)
(* host's dialer.                                                          *)
(*                                                                         *)
(* A capability is the sequence of its parts, so that the parsers of the   *)
(* broker are operators on sequences; a port is the text that names it. An *)
(* address is its first two octets, all that the block list looks at.      *)
(***************************************************************************)
EXTENDS Naturals, Sequences, FiniteSets

CONSTANTS
  Req,       \* bound: the requests of a behaviour
  Asks,      \* what a client may ask: [kind, host, port]; port "none" when unnamed
  Policies,  \* [mode, declared]: how upstream is reached, the capabilities
  Port,      \* the ports that are named anywhere
  Literal,   \* hosts that are addresses: a function to <<octet, octet>>
  Address    \* the addresses a resolver may answer

VARIABLES
  policy,    \* POLICY and the mode, read once at startup
  up,        \* the broker's process is alive
  req,       \* per request: what was asked, where it is, the pinned address
  sent,      \* per request: the status lines written to its client
  dialled    \* every connection the broker asked for: [r, host, port, at]

vars == <<policy, up, req, sent, dialled>>

-----------------------------------------------------------------------------
(* The policy.                                                              *)

ParseCapability(c) ==
  IF Len(c) < 3 THEN [namespace |-> "none", action |-> "none", scope |-> <<>>]
  ELSE [namespace |-> c[1], action |-> c[2], scope |-> SubSeq(c, 3, Len(c))]

DEFAULT_ALLOWED_PORTS == {"80", "443"}

\* The part after the last colon is a port only when it looks like one.
ParseScope(scope) ==
  LET n == Len(scope)
  IN  IF n > 1 /\ scope[n] \in Port \cup {"*"} THEN [host |-> SubSeq(scope, 1, n - 1), port |-> scope[n]]
      ELSE [host |-> scope, port |-> "none"]

GlobMatches(pattern, host) == pattern = <<"*">> \/ pattern = <<host>>

AllowedHostPatterns ==
  {ParseScope(ParseCapability(c).scope) : c \in
     {d \in policy.declared :
        LET p == ParseCapability(d) IN <<p.namespace, p.action>> \in
          {<<"browser", "navigate">>, <<"network", "host">>}}}

DedicatedBrokerHosts ==
  IF \E c \in policy.declared : ParseCapability(c).namespace = "github"
  THEN {"api.github.com"} ELSE {}

IsHostAllowed(host, port) ==
  \E p \in AllowedHostPatterns :
    /\ GlobMatches(p.host, host)
    /\ CASE p.port = "none" -> port \in DEFAULT_ALLOWED_PORTS
         [] p.port = "*" -> TRUE
         [] OTHER -> p.port = port

IsBlockedAddress(ip) ==
  LET a == ip[1]  b == ip[2] IN
    \/ a \in {0, 10, 127} \/ a >= 224
    \/ a = 169 /\ b = 254
    \/ a = 172 /\ b \in 16..31
    \/ a = 192 /\ b = 168
    \/ a = 100 /\ b \in 64..127

-----------------------------------------------------------------------------
NoAsk == [kind |-> "none", host |-> "none", port |-> "none"]
NoAddress == <<0, 0>>

Init ==
  /\ policy \in Policies /\ up = TRUE
  /\ req = [r \in Req |-> [ask |-> NoAsk, st |-> "idle", at |-> NoAddress]]
  /\ sent = [r \in Req |-> <<>>]
  /\ dialled = {}

\* A port left out is 443 for CONNECT and 80 for http.
TargetPort(a) == IF a.port # "none" THEN a.port ELSE IF a.kind = "connect" THEN "443" ELSE "80"
IsLiteral(h) == h \in DOMAIN Literal

Goes(r, a, st, at) == req' = [req EXCEPT ![r] = [ask |-> a, st |-> st, at |-> at]]
Says(r, status) == sent' = [sent EXCEPT ![r] = Append(@, status)]
Dials(r, a, at) ==
  dialled' = dialled \cup {[r |-> r, host |-> a.host, port |-> TargetPort(a), at |-> at]}
Ends(r, status) == Goes(r, req[r].ask, "done", req[r].at) /\ Says(r, status)

Refusal(a) ==
  IF a.host = "none" THEN IF a.kind = "http" THEN "400" ELSE "403"
  ELSE IF \/ a.host \in DedicatedBrokerHosts
          \/ ~IsHostAllowed(a.host, TargetPort(a))
          \/ policy.mode = "dialer" /\ IsLiteral(a.host) /\ IsBlockedAddress(Literal[a.host])
  THEN "403" ELSE "none"

\* Everything either handler does before its first await.
Receive(r, a) ==
  /\ up /\ req[r].st = "idle"
  /\ IF Refusal(a) # "none"
     THEN Goes(r, a, "done", NoAddress) /\ Says(r, Refusal(a)) /\ UNCHANGED dialled
     ELSE /\ Goes(r, a, CASE policy.mode = "dialer" -> "asking"
                          [] policy.mode = "direct" -> "resolving"
                          [] OTHER -> IF a.kind = "http" THEN "requesting" ELSE "proxying", NoAddress)
          /\ IF policy.mode = "proxy" THEN Dials(r, a, NoAddress) ELSE UNCHANGED dialled
          /\ UNCHANGED sent
  /\ UNCHANGED <<policy, up>>

At(r, st) == up /\ req[r].st = st
Rest == UNCHANGED <<policy, up>>

\* resolvePinnedAddress() settled: the answer is judged and, if good, kept.
Resolved(r, ip) ==
  /\ At(r, "resolving")
  /\ IsLiteral(req[r].ask.host) => ip = Literal[req[r].ask.host]
  /\ IF IsBlockedAddress(ip) THEN Ends(r, "403")
     ELSE Goes(r, req[r].ask, "pinned", ip) /\ UNCHANGED sent
  /\ UNCHANGED dialled /\ Rest

\* No answer, no record, or five seconds.
ResolveFails(r) ==
  At(r, "resolving") /\ ~IsLiteral(req[r].ask.host) /\ Ends(r, "502") /\ UNCHANGED dialled /\ Rest

\* net.connect() and http.request() given the name: the resolver runs again.
DialByName(r) ==
  /\ At(r, "pinned")
  /\ \E ip \in Address : Dials(r, req[r].ask, ip)
  /\ Goes(r, req[r].ask, IF req[r].ask.kind = "http" THEN "requesting" ELSE "connecting", req[r].at)
  /\ UNCHANGED sent /\ Rest

Dial(r) ==
  /\ At(r, "pinned")
  /\ Dials(r, req[r].ask, req[r].at)
  /\ Goes(r, req[r].ask, IF req[r].ask.kind = "http" THEN "requesting" ELSE "connecting", req[r].at)
  /\ UNCHANGED sent /\ Rest

\* dialViaHost(): the host looks at its own list, resolves and connects.
HostDials(r) ==
  /\ At(r, "asking")
  /\ Dials(r, req[r].ask, NoAddress)
  /\ IF req[r].ask.kind = "http" THEN Goes(r, req[r].ask, "requesting", NoAddress) /\ UNCHANGED sent
     ELSE Goes(r, req[r].ask, "tunnel", NoAddress) /\ Says(r, "200")
  /\ Rest

\* ERR denied; another ERR, a broken or closed dialer, a long answer, or 20 s.
HostRefuses(r) ==
  At(r, "asking") /\ Ends(r, "403") /\ UNCHANGED dialled /\ Rest

HostFails(r) ==
  At(r, "asking") /\ Ends(r, "502") /\ UNCHANGED dialled /\ Rest

\* CONNECT upstream: the socket is open, or the upstream proxy said 200.
Established(r) ==
  /\ At(r, "connecting") \/ At(r, "proxying")
  /\ Goes(r, req[r].ask, "tunnel", req[r].at) /\ Says(r, "200")
  /\ UNCHANGED dialled /\ Rest

\* An error, another status, or the ten seconds of connectTimeout.
ConnectFailsQuietly(r) ==
  /\ At(r, "connecting") \/ At(r, "proxying")
  /\ Goes(r, req[r].ask, "silent", req[r].at) /\ UNCHANGED <<sent, dialled>> /\ Rest

ConnectFails(r) ==
  (At(r, "connecting") \/ At(r, "proxying")) /\ Ends(r, "502") /\ UNCHANGED dialled /\ Rest

\* The upstream proxy closes before it answers: nothing listens for that, and
\* the timer's destroy() of a socket that is gone already emits nothing.
ProxyCloses(r) ==
  /\ At(r, "proxying")
  /\ Goes(r, req[r].ask, "silent", NoAddress) /\ UNCHANGED <<sent, dialled>> /\ Rest

\* http.request(): an answer is passed on; an error or ten idle seconds are not.
Responds(r) == At(r, "requesting") /\ Ends(r, "upstream") /\ UNCHANGED dialled /\ Rest
RequestFails(r) == At(r, "requesting") /\ Ends(r, "closed") /\ UNCHANGED dialled /\ Rest

\* An error of an open tunnel: the first handler is still there, and answers.
TunnelBreaks(r) ==
  /\ At(r, "tunnel")
  /\ Ends(r, IF policy.mode = "dialer" THEN "closed" ELSE "502")
  /\ UNCHANGED dialled /\ Rest

TunnelEnds(r) == At(r, "tunnel") /\ Ends(r, "closed") /\ UNCHANGED dialled /\ Rest

\* A throw in a handler: denyOnThrow() answers, whatever the handler was doing.
HandlerThrows(r) ==
  /\ At(r, "pinned")
  /\ Ends(r, "502") /\ UNCHANGED dialled /\ Rest

\* The client resets its connection.  Until a CONNECT is dialled its socket
\* has no error listener: Node exits, and with it every connection.
Unheard == {"resolving", "asking", "pinned"}

ClientResets(r) ==
  /\ up /\ req[r].st \notin {"idle", "done"}
  /\ IF req[r].ask.kind = "connect" /\ req[r].st \in Unheard
     THEN /\ up' = FALSE
          /\ req' = [q \in Req |-> IF req[q].st = "idle" THEN req[q] ELSE [req[q] EXCEPT !.st = "done"]]
     ELSE up' = up /\ Goes(r, req[r].ask, "done", req[r].at)
  /\ UNCHANGED <<policy, sent, dialled>>

Next ==
  \E r \in Req :
    \/ \E a \in Asks : Receive(r, a)
    \/ \E ip \in Address : Resolved(r, ip)
    \/ ResolveFails(r) \/ Dial(r) \/ HostDials(r) \/ HostRefuses(r) \/ HostFails(r)
    \/ Established(r) \/ ConnectFails(r) \/ ProxyCloses(r) \/ Responds(r) \/ RequestFails(r)
    \/ TunnelBreaks(r) \/ TunnelEnds(r) \/ HandlerThrows(r) \/ ClientResets(r)

Spec == Init /\ [][Next]_vars

-----------------------------------------------------------------------------
(* However the names resolve from one lookup to the next: a connection the   *)
(* broker opens is to a host and a port some capability names, never to one  *)
(* that a dedicated broker guards, and when the broker itself connects, to   *)
(* the very address it judged, which no capability could make internal.     *)
DialsWhatItJudged ==
  \A d \in dialled :
    /\ d.host \notin DedicatedBrokerHosts
    /\ \E c \in policy.declared :
         LET s == ParseScope(ParseCapability(c).scope) IN
           GlobMatches(s.host, d.host) /\ (s.port = "none" => d.port \in {"80", "443"})
    /\ policy.mode = "direct" =>
         d.at = req[d.r].at /\ d.at[1] \notin {0, 10, 127} /\ d.at # <<169, 254>>

(* A client that waits, unless for an upstream proxy, which may hang up     *)
(* without a word; and one that has an answer.                              *)
Waits(r) == req[r].st # "idle" /\ policy.mode # "proxy"
Told(r) == req[r].st = "done" \/ \E n \in DOMAIN sent[r] : sent[r][n] = "200"
=============================================================================
