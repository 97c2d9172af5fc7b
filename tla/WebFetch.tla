------------------------------ MODULE WebFetch ------------------------------
(***************************************************************************)
(* The web-fetch app (apps/web-fetch/src/index.ts, hosts.ts): requests     *)
(* that run side by side in one process, each following its redirects by   *)
(* hand.  Every hop is judged against the hosts of berth.yml before it is  *)
(* fetched, and carries the secret headers of its own host only.  The      *)
(* servers answer as they like: a redirect may name any URL, an answer may *)
(* never come, and the egress proxy may refuse what berth.yml allows.      *)
(*                                                                         *)
(* A URL is [host, secure, port]; of a chunk of a body only the size       *)
(* counts.                                                                 *)
(***************************************************************************)
EXTENDS Naturals

CONSTANTS Request,       \* the calls of get, request and read_page in flight
          Url,           \* the URLs a caller or a redirect names
          Pattern,       \* network:host:* of berth.yml, as [hosts, port]
          Loopback,      \* the hosts that are this machine
          HasHeaders,    \* the hosts WEB_FETCH_HEADERS has headers for
          Proxied,       \* whether BERTH_EGRESS_PROXY_URL is set
          MaxRedirects,  \* MAX_REDIRECTS
          MaxBytes,      \* MAX_BYTES, in the unit of the chunks
          MaxChars,      \* MAX_CHARS, in the same unit
          Chunk          \* the sizes a chunk of a body has

VARIABLES cached,   \* the promise of the patterns: "none", "loaded", "failed"
          req,      \* the local state of each request
          sent      \* what the last fetch sent, none before the first

vars == <<cached, req, sent>>

Method == {"GET", "POST", "PUT"}
NoPort == 0
AnyPort == 1

Idle == [pc |-> "idle"]

Init ==
  /\ cached = "none"
  /\ req = [r \in Request |-> Idle]
  /\ sent = {}

\* Request r settles, and how.
End(r, how) == req' = [req EXCEPT ![r] = [pc |-> how]]

-----------------------------------------------------------------------------
IsAllowed(u) ==
  \E p \in Pattern :
    /\ u.host \in p.hosts
    /\ IF p.port = NoPort THEN u.port \in {80, 443}
                          ELSE p.port \in {AnyPort, u.port}

\* The hosts whose secret headers a request to u carries.
SecretHeadersFor(u) ==
  IF u.secure \/ u.host \in Loopback THEN {u.host} \cap HasHeaders ELSE {}

\* MUTANT: only the cut at MAX_BYTES is reported.
ResultSayingBytes(whole, size, byteCapped) ==
  [pc |-> "done", whole |-> whole,
   shown |-> IF size > MaxChars THEN MaxChars ELSE size, truncated |-> byteCapped]

\* What is returned of a text, cut to MAX_CHARS (read_page parses what was
\* read and cuts the page's text): what has arrived of it, how much of that is
\* shown, and whether it says that it is not all.
Result(whole, size, byteCapped) ==
  LET over == size > MaxChars
  IN  [pc |-> "done", whole |-> whole,
       shown |-> IF over THEN MaxChars ELSE size, truncated |-> byteCapped \/ over]

\* What fetch sends for a hop; a GET has no body.
Message(q) ==
  [url |-> q.url, headersOf |-> SecretHeadersFor(q.url),
   body |-> q.body /\ q.method # "GET"]

-----------------------------------------------------------------------------
\* get, request and read_page call send().  The deadline runs from the first
\* hop; the manifest is read once, by whoever comes first, and the promise
\* is kept even when the reading failed.
Send(r, method, url, body) ==
  /\ req[r].pc = "idle"
  /\ method = "GET" => ~body
  /\ \E answer \in IF cached = "none" THEN {"loaded", "failed"} ELSE {cached} :
       /\ cached' = answer
       /\ IF answer = "failed"
          THEN End(r, "failed")
          ELSE req' = [req EXCEPT ![r] =
                 [pc |-> "hop", url |-> url, method |-> method, body |-> body,
                  hop |-> 0]]
  /\ UNCHANGED sent

\* MUTANT: only the URL the caller gave is judged.
FetchTrustingRedirects(r) ==
  /\ req[r].pc = "hop"
  /\ IF ~IsAllowed(req[r].url) /\ req[r].hop = 0
     THEN End(r, "refused") /\ UNCHANGED sent
     ELSE /\ req' = [req EXCEPT ![r].pc = "waiting"]
          /\ sent' = {Message(req[r])}
  /\ UNCHANGED cached

\* The top of the loop: judge this hop, then fetch it.
Fetch(r) ==
  /\ req[r].pc = "hop"
  /\ IF ~IsAllowed(req[r].url)
     THEN End(r, "refused") /\ UNCHANGED sent
     ELSE /\ req' = [req EXCEPT ![r].pc = "waiting"]
          /\ sent' = {Message(req[r])}
  /\ UNCHANGED cached

\* 303, and 301 or 302 after a POST, go on as a GET without the body.
BecomesGet(status, method) ==
  status = 303 \/ (status \in {301, 302} /\ method = "POST")

Redirected(r, status, location) ==
  /\ req[r].pc = "waiting"
  /\ LET q == req[r] IN
     IF q.hop = MaxRedirects
     THEN End(r, "failed")
     ELSE req' = [req EXCEPT ![r] =
            IF BecomesGet(status, q.method)
            THEN [q EXCEPT !.pc = "hop", !.url = location, !.hop = @ + 1,
                           !.method = "GET", !.body = FALSE]
            ELSE [q EXCEPT !.pc = "hop", !.url = location, !.hop = @ + 1]]
  /\ UNCHANGED <<cached, sent>>

\* Any other answer: its body is read.
Answered(r) ==
  /\ req[r].pc = "waiting"
  /\ req' = [req EXCEPT ![r] = [pc |-> "reading", size |-> 0]]
  /\ UNCHANGED <<cached, sent>>

\* readCapped(), as a chunk arrives: the first that goes beyond MAX_BYTES is
\* cut, and the last one read.
ReadCapped(r, c) ==
  /\ req[r].pc = "reading"
  /\ LET size == req[r].size + c
     IN  req' = [req EXCEPT ![r] =
           IF size > MaxBytes THEN Result(size, MaxBytes, TRUE)
                              ELSE [pc |-> "reading", size |-> size]]
  /\ UNCHANGED <<cached, sent>>

ReadAll(r) ==
  /\ req[r].pc = "reading"
  /\ req' = [req EXCEPT ![r] = Result(req[r].size, req[r].size, FALSE)]
  /\ UNCHANGED <<cached, sent>>

\* fetch or the reading of the body throws, or the proxy refuses the host:
\* a 403 to the CONNECT of an https URL, a text/plain 403 to an http one.
Fails(r) ==
  /\ req[r].pc \in {"waiting", "reading"}
  /\ \/ End(r, "failed")
     \/ Proxied /\ End(r, "refused")
  /\ UNCHANGED <<cached, sent>>

\* The one deadline over every hop and the body: it interrupts an await.
TimesOut(r) ==
  /\ req[r].pc \in {"waiting", "reading"}
  /\ End(r, "timedOut")
  /\ UNCHANGED <<cached, sent>>

Next ==
  \E r \in Request :
    \/ \E m \in Method, u \in Url, body \in BOOLEAN : Send(r, m, u, body)
    \/ Fetch(r)
    \/ \E s \in {301, 303, 307}, u \in Url : Redirected(r, s, u)
    \/ Answered(r)
    \/ \E c \in Chunk : ReadCapped(r, c)
    \/ ReadAll(r)
    \/ Fails(r)
    \/ TimesOut(r)

Spec == Init /\ [][Next]_vars

-----------------------------------------------------------------------------
(* Whatever the servers redirect to, every URL this app contacted is one   *)
(* berth.yml declares, and a host's secret headers have only gone to that  *)
(* host, over https or without leaving the machine.                        *)
SecretsStayHome ==
  \A m \in sent :
    /\ \E p \in Pattern : m.url.host \in p.hosts
                          /\ \/ p.port \in {AnyPort, m.url.port}
                             \/ p.port = NoPort /\ m.url.port \in {80, 443}
    /\ \A h \in m.headersOf :
         h = m.url.host /\ (m.url.secure \/ m.url.host \in Loopback)

(* A result that does not say it was truncated shows the whole answer,     *)
(* wherever the two caps and the ends of the chunks fall.                  *)
CutIsTold ==
  \A r \in Request :
    req[r].pc = "done" /\ ~req[r].truncated => req[r].shown = req[r].whole

=============================================================================
