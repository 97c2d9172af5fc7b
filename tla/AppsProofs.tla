----------------------------- MODULE AppsProofs -----------------------------
(***************************************************************************)
(* Theorems about the components around and inside an app, for any values  *)
(* of the constants: the brokers and the tunnel, the policy of an app, the *)
(* apps that keep notes, a terminal, a repository and secret headers, and  *)
(* the fleet, the registry and the mesh.  Each part is proved from an      *)
(* inductive invariant of its own; the last section states, of the parts   *)
(* side by side, the properties that the run of MCApps checks.             *)
(***************************************************************************)
EXTENDS MCApps, SequenceTheorems, WellFoundedInduction, FiniteSetTheorems, TLAPS

-----------------------------------------------------------------------------
(* Induction on the natural numbers, for sets, and what is defined along a  *)
(* sequence.                                                                *)

LEMMA LeastNumber ==
  ASSUME NEW T, T \subseteq Nat, T # {}
  PROVE  \E i \in T : \A j \in T : i <= j
  <1> DEFINE R == OpToRel(<, Nat)
  <1>1. \E i \in T : \A j \in T : ~ (<<j, i>> \in R)
    <2>1. IsWellFoundedOn(R, Nat)
      BY NatLessThanWellFounded
    <2> HIDE DEF R
    <2> QED
      BY <2>1, WFMin
  <1>2. PICK i \in T : \A j \in T : ~ (<<j, i>> \in R)
    BY <1>1
  <1>3. ASSUME NEW j \in T PROVE i <= j
    <2>1. i \in Nat /\ j \in Nat /\ <<j, i>> \in Nat \X Nat
      OBVIOUS
    <2>2. j < i => <<j, i>> \in R
      BY <2>1 DEF OpToRel
    <2> HIDE DEF R
    <2> QED
      BY <1>2, <2>1, <2>2
  <1> QED
    BY <1>3

LEMMA SetInduction ==
  ASSUME NEW B, 0 \in B, \A n \in Nat : n \in B => n + 1 \in B
  PROVE  Nat \subseteq B
  <1> SUFFICES ASSUME Nat \ B # {} PROVE FALSE
    OBVIOUS
  <1>1. PICK m \in Nat \ B : \A j \in Nat \ B : m <= j
    BY LeastNumber
  <1>2. m # 0 /\ m - 1 \in Nat /\ ~ (m <= m - 1)
    OBVIOUS
  <1>3. m - 1 \in B
    BY <1>1, <1>2
  <1> QED
    BY <1>2, <1>3

\* One step of what is defined from what came before and the number of the step.
RunStep(g, n, base, step) == IF n = 0 THEN base ELSE step[<<n, g[n - 1]>>]

HasRun(m, S, base, step) ==
  \E g \in [0 .. m -> S] : \A n \in 0 .. m : g[n] = RunStep(g, n, base, step)

LEMMA RunExists ==
  ASSUME NEW S, NEW base \in S, NEW m \in Nat, NEW step \in [(1 .. m) \X S -> S]
  PROVE  HasRun(m, S, base, step)
  <1> DEFINE Good(g, k) == g \in [0 .. k -> S] /\ \A n \in 0 .. k : g[n] = RunStep(g, n, base, step)
             B == {k \in Nat : k <= m => \E g : Good(g, k)}
  <1>1. 0 \in B
    <2> DEFINE g == [n \in 0 .. 0 |-> base]
    <2>1. Good(g, 0)
      BY DEF RunStep
    <2> QED
      BY <2>1
  <1>2. ASSUME NEW k \in Nat, k + 1 <= m, NEW g, Good(g, k) PROVE \E h : Good(h, k + 1)
    <2> DEFINE h == [n \in 0 .. k + 1 |-> IF n = k + 1 THEN step[<<k + 1, g[k]>>] ELSE g[n]]
    <2>1. g[k] \in S /\ <<k + 1, g[k]>> \in (1 .. m) \X S
      BY <1>2
    <2>2. h \in [0 .. k + 1 -> S]
      BY <1>2, <2>1
    <2>3. ASSUME NEW n \in 0 .. k + 1 PROVE h[n] = RunStep(h, n, base, step)
      <3>1. CASE n = k + 1
        <4>1. n # 0 /\ n - 1 = k /\ k \in 0 .. k + 1 /\ k # k + 1
          BY <3>1
        <4>2. h[k] = g[k] /\ h[n] = step[<<k + 1, g[k]>>]
          BY <3>1, <4>1
        <4> HIDE DEF h
        <4> QED
          BY <3>1, <4>1, <4>2 DEF RunStep
      <3>2. CASE n = 0
        <4>1. h[n] = g[0] /\ g[0] = RunStep(g, 0, base, step)
          BY <1>2, <3>2
        <4> HIDE DEF h
        <4> QED
          BY <3>2, <4>1 DEF RunStep
      <3>3. CASE n # 0 /\ n # k + 1
        <4>1. n \in 0 .. k /\ n - 1 \in 0 .. k + 1 /\ n - 1 # k + 1
          BY <3>3
        <4>2. h[n] = g[n] /\ h[n - 1] = g[n - 1] /\ g[n] = RunStep(g, n, base, step)
          BY <1>2, <3>3, <4>1
        <4> HIDE DEF h
        <4> QED
          BY <3>3, <4>2 DEF RunStep
      <3> QED
        BY <3>1, <3>2, <3>3
    <2> HIDE DEF h
    <2> QED
      BY <2>2, <2>3
  <1>3. \A k \in Nat : k \in B => k + 1 \in B
    <2> SUFFICES ASSUME NEW k \in Nat, k \in B, k + 1 <= m PROVE \E h : Good(h, k + 1)
      OBVIOUS
    <2>1. \E g : Good(g, k)
      OBVIOUS
    <2> HIDE DEF Good
    <2> QED
      BY <1>2, <2>1
  <1> HIDE DEF B
  <1>4. m \in B
    BY <1>1, <1>3, SetInduction
  <1> QED
    BY <1>4 DEF B, HasRun

LEMMA LongerByOne ==
  ASSUME NEW T, NEW p \in Seq(T), NEW n \in 1 .. Len(p)
  PROVE  Append(SubSeq(p, 1, n - 1), p[n]) = SubSeq(p, 1, n)
  <1>1. Len(p) \in Nat /\ n \in Int /\ 1 <= n /\ n <= Len(p)
    BY LenProperties
  <1>2. SubSeq(p, 1, n - 1) \in Seq(T) /\ Len(SubSeq(p, 1, n - 1)) = n - 1
    BY <1>1
  <1>3. SubSeq(p, 1, n) \in Seq(T) /\ Len(SubSeq(p, 1, n)) = n
    BY <1>1
  <1>4. p[n] \in T
    BY ElementOfSeq, <1>1
  <1>5. \A i \in 1 .. n : Append(SubSeq(p, 1, n - 1), p[n])[i] = SubSeq(p, 1, n)[i]
    <2> SUFFICES ASSUME NEW i \in 1 .. n PROVE Append(SubSeq(p, 1, n - 1), p[n])[i] = SubSeq(p, 1, n)[i]
      OBVIOUS
    <2>1. CASE i = n
      BY <1>1, <1>2, <2>1
    <2>2. CASE i # n
      BY <1>1, <1>2, <2>2
    <2> QED
      BY <2>1, <2>2
  <1>6. Append(SubSeq(p, 1, n - 1), p[n]) \in Seq(T) /\ Len(Append(SubSeq(p, 1, n - 1), p[n])) = n
    BY <1>1, <1>2, <1>4
  <1> QED
    BY <1>3, <1>5, <1>6, SeqEqual

\* What is kept of a path as a step of its reading at a time.
LEMMA ReadsWhole ==
  ASSUME NEW T, NEW p \in Seq(T), NEW g, g[0] = <<>>,
         \A n \in 1 .. Len(p) : g[n - 1] = SubSeq(p, 1, n - 1) => g[n] = Append(g[n - 1], p[n])
  PROVE  g[Len(p)] = p
  <1>1. Len(p) \in Nat
    BY LenProperties
  <1> DEFINE B == {n \in Nat : n <= Len(p) => g[n] = SubSeq(p, 1, n)}
  <1>2. 0 \in B
    <2>1. SubSeq(p, 1, 0) = <<>>
      BY <1>1
    <2> QED
      BY <2>1
  <1>3. ASSUME NEW n \in Nat, n \in B PROVE n + 1 \in B
    <2> SUFFICES ASSUME n + 1 <= Len(p) PROVE g[n + 1] = SubSeq(p, 1, n + 1)
      OBVIOUS
    <2>1. g[n] = SubSeq(p, 1, n) /\ n + 1 \in 1 .. Len(p) /\ (n + 1) - 1 = n
      BY <1>1, <1>3
    <2>2. g[n + 1] = Append(g[n], p[n + 1])
      BY <2>1
    <2>3. Append(SubSeq(p, 1, n), p[n + 1]) = SubSeq(p, 1, n + 1)
      BY <2>1, LongerByOne
    <2> QED
      BY <2>1, <2>2, <2>3
  <1> HIDE DEF B
  <1>4. Len(p) \in B
    BY <1>1, <1>2, <1>3, SetInduction
  <1>5. SubSeq(p, 1, Len(p)) = p
    BY <1>1
  <1> QED
    BY <1>1, <1>4, <1>5 DEF B

\* What puts the elements of a sequence one after the other, from the first on.
Collects(g, p) == g = [n \in 0 .. Len(p) |-> IF n = 0 THEN <<>> ELSE Append(g[n - 1], p[n])]

LEMMA CollectsWhole ==
  ASSUME NEW T, NEW p \in Seq(T)
  PROVE  (\E g : Collects(g, p)) /\ \A g : Collects(g, p) => g[Len(p)] = p
  <1>0. Len(p) \in Nat /\ \A n \in 1 .. Len(p) : p[n] \in T
    BY LenProperties, ElementOfSeq
  <1>1. \E g : Collects(g, p)
    <2> DEFINE g == [n \in 0 .. Len(p) |-> SubSeq(p, 1, n)]
    <2>1. ASSUME NEW n \in 0 .. Len(p)
          PROVE  SubSeq(p, 1, n) = IF n = 0 THEN <<>> ELSE Append(g[n - 1], p[n])
      <3>1. CASE n = 0
        BY <1>0, <3>1
      <3>2. CASE n # 0
        <4>1. n \in 1 .. Len(p) /\ n - 1 \in 0 .. Len(p)
          BY <1>0, <3>2
        <4>2. g[n - 1] = SubSeq(p, 1, n - 1)
          BY <4>1
        <4> HIDE DEF g
        <4> QED
          BY <3>2, <4>1, <4>2, LongerByOne
      <3> QED
        BY <3>1, <3>2
    <2>2. g = [n \in 0 .. Len(p) |-> IF n = 0 THEN <<>> ELSE Append(g[n - 1], p[n])]
      BY <2>1
    <2> HIDE DEF g
    <2> QED
      BY <2>2 DEF Collects
  <1>2. ASSUME NEW g, Collects(g, p) PROVE g[Len(p)] = p
    <2>1. \A n \in 0 .. Len(p) : g[n] = IF n = 0 THEN <<>> ELSE Append(g[n - 1], p[n])
      BY <1>2 DEF Collects
    <2>2. 0 \in 0 .. Len(p) /\ \A n \in 1 .. Len(p) : n \in 0 .. Len(p) /\ n # 0
      BY <1>0
    <2>3. g[0] = <<>> /\ \A n \in 1 .. Len(p) : g[n] = Append(g[n - 1], p[n])
      BY <2>1, <2>2
    <2> QED
      BY <2>3, ReadsWhole
  <1> QED
    BY <1>1, <1>2

-----------------------------------------------------------------------------
(* The egress broker.  A request that is not dialled yet was judged by the  *)
(* policy; one that is dialled directly was pinned to an address that is not*)
(* blocked, and keeps it.                                                   *)

Before == {"idle", "resolving", "asking", "pinned"}

\* A host and a port that the policy lets through.
Permitted(name, port) ==
  /\ name \notin Egress!DedicatedBrokerHosts
  /\ \E c \in rules.declared :
       LET s == Egress!ParseScope(Egress!ParseCapability(c).scope) IN
         Egress!GlobMatches(s.host, name) /\ (s.port = "none" => port \in {"80", "443"})

\* Request q, by how far it is.
ReqOK(q) ==
  /\ q = [ask |-> q.ask, st |-> q.st, at |-> q.at]
  /\ q.st \in {"resolving", "asking", "pinned"} => Permitted(q.ask.host, Egress!TargetPort(q.ask))
  /\ q.st \in {"resolving", "pinned"} => rules.mode = "direct"
  /\ q.st = "pinned" => ~Egress!IsBlockedAddress(q.at)
  /\ q.st = "asking" => rules.mode = "dialer"
  /\ q.st = "proxying" => rules.mode # "direct"

\* Connection d, which request d.r asked for.
DialOK(d) ==
  /\ d.r \in Req /\ asked[d.r].st \notin Before
  /\ Permitted(d.host, d.port)
  /\ rules.mode = "direct" => d.at = asked[d.r].at /\ ~Egress!IsBlockedAddress(d.at)

EgressInv ==
  /\ DOMAIN asked = Req
  /\ \A r \in Req : ReqOK(asked[r])
  /\ \A d \in dialled : DialOK(d)

LEMMA NotRefused ==
  ASSUME NEW a, Egress!Refusal(a) = "none"
  PROVE  Permitted(a.host, Egress!TargetPort(a))
  <1> DEFINE port == Egress!TargetPort(a)
  <1>1. a.host \notin Egress!DedicatedBrokerHosts /\ Egress!IsHostAllowed(a.host, port)
    BY DEF Egress!Refusal
  <1> HIDE DEF port
  <1>2. PICK p \in Egress!AllowedHostPatterns :
          /\ Egress!GlobMatches(p.host, a.host)
          /\ p.port = "none" => port \in {"80", "443"}
    BY <1>1 DEF Egress!IsHostAllowed, Egress!DEFAULT_ALLOWED_PORTS
  <1>3. PICK c \in rules.declared : p = Egress!ParseScope(Egress!ParseCapability(c).scope)
    BY DEF Egress!AllowedHostPatterns
  <1> QED
    BY <1>1, <1>2, <1>3 DEF Permitted, port

LEMMA PermittedStays ==
  ASSUME rules' = rules, NEW name, NEW port, Permitted(name, port)
  PROVE  Permitted(name, port)'
  BY DEF Permitted, Egress!DedicatedBrokerHosts

\* Request r goes on to a state that is as it should be, with the connections
\* it asked for.
LEMMA EgressGoes ==
  ASSUME EgressInv, rules' = rules, NEW r \in Req, NEW a, NEW s, NEW ip, Egress!Goes(r, a, s, ip),
         ReqOK([ask |-> a, st |-> s, at |-> ip]),
         asked[r].st \notin Before => s \notin Before /\ (rules.mode = "direct" => ip = asked[r].at),
         \A d \in dialled' : d \notin dialled =>
           /\ d.r = r /\ s \notin Before /\ Permitted(d.host, d.port)
           /\ rules.mode = "direct" => d.at = ip /\ ~Egress!IsBlockedAddress(ip)
  PROVE  EgressInv'
  <1> DEFINE new == [ask |-> a, st |-> s, at |-> ip]
  <1>1. /\ DOMAIN asked' = Req /\ asked'[r] = new
        /\ \A q \in Req : q # r => asked'[q] = asked[q]
    BY DEF EgressInv, Egress!Goes
  <1>2. new.ask = a /\ new.st = s /\ new.at = ip
    OBVIOUS
  <1> HIDE DEF new
  <1>3. ASSUME NEW q, ReqOK(q) PROVE ReqOK(q)'
    BY <1>3, PermittedStays DEF ReqOK
  <1>4. \A q \in Req : ReqOK(asked'[q])
    BY <1>1 DEF EgressInv, new
  <1>5. ASSUME NEW q \in Req PROVE ReqOK(asked[q])'
    <2>1. PICK k : k = asked'[q] /\ ReqOK(k)
      BY <1>4
    <2>2. ReqOK(k)'
      BY <1>3, <2>1
    <2> QED
      BY <2>1, <2>2 DEF ReqOK
  <1>6. ASSUME NEW d \in dialled' PROVE DialOK(d)'
    <2>1. CASE d \in dialled
      <3>1. /\ d.r \in Req /\ asked[d.r].st \notin Before /\ Permitted(d.host, d.port)
            /\ rules.mode = "direct" => d.at = asked[d.r].at /\ ~Egress!IsBlockedAddress(d.at)
        BY <2>1 DEF EgressInv, DialOK
      <3>2. asked'[d.r].st \notin Before /\ (rules.mode = "direct" => asked'[d.r].at = asked[d.r].at)
        BY <1>1, <1>2, <3>1
      <3> QED
        BY <3>1, <3>2, PermittedStays DEF DialOK
    <2>2. CASE d \notin dialled
      <3>1. /\ d.r = r /\ s \notin Before /\ Permitted(d.host, d.port)
            /\ rules.mode = "direct" => d.at = ip /\ ~Egress!IsBlockedAddress(ip)
        BY <2>2
      <3> QED
        BY <1>1, <1>2, <3>1, PermittedStays DEF DialOK
    <2> QED
      BY <2>1, <2>2
  <1> QED
    BY <1>1, <1>5, <1>6 DEF EgressInv

\* A request that is over, or on its way to be: nothing is asked of it.
LEMMA EgressEnds ==
  ASSUME EgressInv, UNCHANGED <<rules, dialled>>, NEW r \in Req,
         NEW s \in {"requesting", "connecting", "tunnel", "silent", "done"},
         Egress!Goes(r, asked[r].ask, s, asked[r].at)
  PROVE  EgressInv'
  <1>1. ReqOK([ask |-> asked[r].ask, st |-> s, at |-> asked[r].at])
    BY DEF ReqOK
  <1>2. s \notin Before
    BY DEF Before
  <1> QED
    BY <1>1, <1>2, EgressGoes

LEMMA EgressStep ==
  ASSUME EgressInv, Egress!Next
  PROVE  EgressInv'
  <1> USE DEF Egress!Rest, Egress!At
  <1>1. ASSUME NEW r \in Req, NEW a \in Asks, Egress!Receive(r, a) PROVE EgressInv'
    <2>1. rules' = rules /\ asked[r].st = "idle" /\ asked[r].st \in Before
      BY <1>1 DEF Egress!Receive, Before
    <2>2. CASE Egress!Refusal(a) # "none"
      <3>1. Egress!Goes(r, a, "done", Egress!NoAddress) /\ dialled' = dialled
        BY <1>1, <2>2 DEF Egress!Receive
      <3>2. ReqOK([ask |-> a, st |-> "done", at |-> Egress!NoAddress])
        BY DEF ReqOK
      <3> QED
        BY <2>1, <3>1, <3>2, EgressGoes
    <2>3. CASE Egress!Refusal(a) = "none"
      <3>1. Permitted(a.host, Egress!TargetPort(a))
        BY <2>3, NotRefused
      <3> DEFINE s == CASE rules.mode = "dialer" -> "asking"
                        [] rules.mode = "direct" -> "resolving"
                        [] OTHER -> IF a.kind = "http" THEN "requesting" ELSE "proxying"
      <3>a. Egress!Goes(r, a, s, Egress!NoAddress)
        BY <1>1, <2>3 DEF Egress!Receive
      <3>b. \/ s = "asking" /\ rules.mode = "dialer"
            \/ s = "resolving" /\ rules.mode = "direct"
            \/ s \in {"requesting", "proxying"} /\ rules.mode \notin {"dialer", "direct"}
        <4>1. CASE rules.mode = "dialer"
          BY <4>1
        <4>2. CASE rules.mode = "direct"
          BY <4>2
        <4>3. CASE rules.mode \notin {"dialer", "direct"}
          BY <4>3
        <4> QED
          BY <4>1, <4>2, <4>3
      <3> HIDE DEF s
      <3>2. /\ Egress!Goes(r, a, s, Egress!NoAddress)
            /\ \/ s = "asking" /\ rules.mode = "dialer"
               \/ s = "resolving" /\ rules.mode = "direct"
               \/ s \in {"requesting", "proxying"} /\ rules.mode \notin {"dialer", "direct"}
        BY <3>a, <3>b
      <3>3. ReqOK([ask |-> a, st |-> s, at |-> Egress!NoAddress])
        BY <3>1, <3>2 DEF ReqOK
      <3>4. IF rules.mode = "proxy" THEN Egress!Dials(r, a, Egress!NoAddress) ELSE dialled' = dialled
        BY <1>1, <2>3 DEF Egress!Receive
      <3>5. rules.mode = "proxy" => s \notin Before
        BY <3>2 DEF Before
      <3>6. \A d \in dialled' : d \notin dialled =>
              /\ d.r = r /\ s \notin Before /\ Permitted(d.host, d.port)
              /\ rules.mode # "direct"
        BY <3>1, <3>4, <3>5 DEF Egress!Dials
      <3> QED
        BY <2>1, <3>2, <3>3, <3>6, EgressGoes
    <2> QED
      BY <2>2, <2>3
  <1>2. ASSUME NEW r \in Req, NEW ip \in Address, Egress!Resolved(r, ip) PROVE EgressInv'
    <2>1. UNCHANGED <<rules, dialled>> /\ asked[r].st = "resolving" /\ ReqOK(asked[r])
      BY <1>2 DEF Egress!Resolved, EgressInv
    <2>2. CASE Egress!IsBlockedAddress(ip)
      <3>1. Egress!Goes(r, asked[r].ask, "done", asked[r].at)
        BY <1>2, <2>2 DEF Egress!Resolved, Egress!Ends
      <3> QED
        BY <2>1, <3>1, EgressEnds
    <2>3. CASE ~Egress!IsBlockedAddress(ip)
      <3>1. Egress!Goes(r, asked[r].ask, "pinned", ip)
        BY <1>2, <2>3 DEF Egress!Resolved
      <3>2. ReqOK([ask |-> asked[r].ask, st |-> "pinned", at |-> ip])
        BY <2>1, <2>3 DEF ReqOK
      <3> QED
        BY <2>1, <3>1, <3>2, EgressGoes DEF Before
    <2> QED
      BY <2>2, <2>3
  <1>3. ASSUME NEW r \in Req, Egress!Dial(r) PROVE EgressInv'
    <2>1. rules' = rules /\ asked[r].st = "pinned" /\ ReqOK(asked[r])
      BY <1>3 DEF Egress!Dial, EgressInv
    <2>2. PICK s \in {"requesting", "connecting"} : Egress!Goes(r, asked[r].ask, s, asked[r].at)
      BY <1>3 DEF Egress!Dial
    <2>3. ReqOK([ask |-> asked[r].ask, st |-> s, at |-> asked[r].at]) /\ s \notin Before /\ asked[r].st \in Before
      BY <2>1 DEF ReqOK, Before
    <2>4. \A d \in dialled' : d \notin dialled =>
            /\ d.r = r /\ Permitted(d.host, d.port)
            /\ d.at = asked[r].at /\ ~Egress!IsBlockedAddress(asked[r].at)
      BY <1>3, <2>1 DEF Egress!Dial, Egress!Dials, ReqOK
    <2> QED
      BY <2>1, <2>2, <2>3, <2>4, EgressGoes
  <1>4. ASSUME NEW r \in Req, Egress!HostDials(r) PROVE EgressInv'
    <2>1. rules' = rules /\ asked[r].st = "asking" /\ ReqOK(asked[r])
      BY <1>4 DEF Egress!HostDials, EgressInv
    <2>2. PICK s \in {"requesting", "tunnel"} : Egress!Goes(r, asked[r].ask, s, Egress!NoAddress)
      BY <1>4 DEF Egress!HostDials
    <2>3. ReqOK([ask |-> asked[r].ask, st |-> s, at |-> Egress!NoAddress]) /\ s \notin Before /\ asked[r].st \in Before
      BY <2>1 DEF ReqOK, Before
    <2>4. \A d \in dialled' : d \notin dialled =>
            d.r = r /\ Permitted(d.host, d.port) /\ rules.mode # "direct"
      BY <1>4, <2>1 DEF Egress!HostDials, Egress!Dials, ReqOK
    <2> QED
      BY <2>1, <2>2, <2>3, <2>4, EgressGoes
  <1>5. ASSUME NEW r \in Req, Egress!ProxyCloses(r) PROVE EgressInv'
    <2>1. /\ UNCHANGED <<rules, dialled>> /\ asked[r].st = "proxying" /\ ReqOK(asked[r])
          /\ Egress!Goes(r, asked[r].ask, "silent", Egress!NoAddress)
      BY <1>5 DEF Egress!ProxyCloses, EgressInv
    <2>2. ReqOK([ask |-> asked[r].ask, st |-> "silent", at |-> Egress!NoAddress])
      BY DEF ReqOK
    <2>3. rules.mode # "direct" /\ "silent" \notin Before
      BY <2>1 DEF ReqOK, Before
    <2> QED
      BY <2>1, <2>2, <2>3, EgressGoes
  <1>6. ASSUME NEW r \in Req,
               \/ Egress!ResolveFails(r) \/ Egress!HostRefuses(r) \/ Egress!HostFails(r)
               \/ Egress!ConnectFails(r) \/ Egress!Responds(r) \/ Egress!RequestFails(r)
               \/ Egress!TunnelBreaks(r) \/ Egress!TunnelEnds(r) \/ Egress!HandlerThrows(r)
        PROVE  EgressInv'
    <2>1. UNCHANGED <<rules, dialled>> /\ Egress!Goes(r, asked[r].ask, "done", asked[r].at)
      BY <1>6 DEF Egress!ResolveFails, Egress!HostRefuses, Egress!HostFails, Egress!ConnectFails, Egress!Responds,
                  Egress!RequestFails, Egress!TunnelBreaks, Egress!TunnelEnds, Egress!HandlerThrows, Egress!Ends
    <2> QED
      BY <2>1, EgressEnds
  <1>7. ASSUME NEW r \in Req, Egress!Established(r) PROVE EgressInv'
    <2>1. UNCHANGED <<rules, dialled>> /\ Egress!Goes(r, asked[r].ask, "tunnel", asked[r].at)
      BY <1>7 DEF Egress!Established
    <2> QED
      BY <2>1, EgressEnds
  <1>8. ASSUME NEW r \in Req, Egress!ClientResets(r) PROVE EgressInv'
    <2>1. UNCHANGED <<rules, dialled>>
      BY <1>8 DEF Egress!ClientResets
    <2>2. CASE Egress!Goes(r, asked[r].ask, "done", asked[r].at)
      BY <2>1, <2>2, EgressEnds
    <2>3. CASE asked' = [q \in Req |-> IF asked[q].st = "idle" THEN asked[q] ELSE [asked[q] EXCEPT !.st = "done"]]
      <3>1. ASSUME NEW q \in Req
            PROVE  /\ ReqOK(asked[q])'
                   /\ asked[q].st \notin Before => asked'[q].st \notin Before /\ asked'[q].at = asked[q].at
        <4>1. ReqOK(asked[q])
          BY DEF EgressInv
        <4>2. CASE asked[q].st = "idle"
          BY <2>3, <4>1, <4>2 DEF ReqOK, Before
        <4>3. CASE asked[q].st # "idle"
          <5>1. asked'[q] = [ask |-> asked[q].ask, st |-> "done", at |-> asked[q].at]
            BY <2>3, <4>1, <4>3 DEF ReqOK
          <5> QED
            BY <5>1 DEF ReqOK, Before
        <4> QED
          BY <4>2, <4>3
      <3>2. ASSUME NEW d \in dialled PROVE DialOK(d)'
        <4>1. DialOK(d)
          BY DEF EgressInv
        <4> QED
          BY <2>1, <3>1, <4>1, PermittedStays DEF DialOK
      <3>3. DOMAIN asked' = Req
        BY <2>3
      <3> QED
        BY <2>1, <3>1, <3>2, <3>3 DEF EgressInv
    <2> QED
      BY <1>8, <2>2, <2>3 DEF Egress!ClientResets
  <1> QED
    BY <1>1, <1>2, <1>3, <1>4, <1>5, <1>6, <1>7, <1>8 DEF Egress!Next

(* A connection the broker opens is to a host and a port some capability    *)
(* names, never to one a dedicated broker guards, and, where the broker     *)
(* connects itself, to the very address it judged, however names resolve    *)
(* from one lookup to the next (docker/egress-broker.cjs).                  *)
THEOREM OnlyJudgedIsDialled == Egress!Spec => []Egress!DialsWhatItJudged
  <1>1. Egress!Init => EgressInv
    BY DEF Egress!Init, EgressInv, ReqOK
  <1>2. EgressInv /\ [Egress!Next]_Egress!vars => EgressInv'
    <2>1. ASSUME EgressInv, UNCHANGED Egress!vars PROVE EgressInv'
      <3>1. \A d \in dialled : DialOK(d)'
        BY <2>1, PermittedStays DEF EgressInv, DialOK, Egress!vars
      <3>2. \A r \in Req : ReqOK(asked[r])'
        BY <2>1, PermittedStays DEF EgressInv, ReqOK, Egress!vars
      <3> QED
        BY <2>1, <3>1, <3>2 DEF EgressInv, Egress!vars
    <2> QED
      BY <2>1, EgressStep
  <1>3. EgressInv => Egress!DialsWhatItJudged
    BY DEF EgressInv, DialOK, Permitted, Egress!DialsWhatItJudged, Egress!IsBlockedAddress
  <1> QED
    BY <1>1, <1>2, <1>3, PTL DEF Egress!Spec

-----------------------------------------------------------------------------
(* The GitHub broker.  What it forwards has nothing left that the other end *)
(* of the connection would read another way.                                *)

Special == {"", ".", "..", "bad", "sep"}

\* A path of plain segments.
Clean(p) == p \in Seq(STRING) /\ \A i \in 1 .. Len(p) : p[i] \notin Special

Reading == [ok : BOOLEAN, segs : Seq(STRING)]

LEMMA FrontOfClean ==
  ASSUME NEW p, Clean(p), p # <<>>
  PROVE  Clean(SubSeq(p, 1, Len(p) - 1))
  <1>0. p \in Seq(STRING)
    BY DEF Clean
  <1>1. Len(p) \in Nat /\ Len(p) > 0
    BY <1>0, EmptySeq
  <1>2. /\ SubSeq(p, 1, Len(p) - 1) \in Seq(STRING)
        /\ Len(SubSeq(p, 1, Len(p) - 1)) = Len(p) - 1
        /\ \A i \in 1 .. Len(p) - 1 : SubSeq(p, 1, Len(p) - 1)[i] = p[i]
    <2> DEFINE m == Len(p) - 1
    <2>1. m \in Nat /\ m <= Len(p) /\ \A i \in 1 .. m : i \in 1 .. Len(p)
      BY <1>1
    <2> HIDE DEF m
    <2>2. SubSeq(p, 1, m) \in Seq(STRING) /\ Len(SubSeq(p, 1, m)) = m
      <3>1. \A i \in 1 .. m : p[i] \in STRING
        BY <1>0, <2>1, ElementOfSeq
      <3> QED
        BY <1>0, <2>1, <3>1, SubSeqProperties
    <2>3. \A i \in 1 .. m : SubSeq(p, 1, m)[i] = p[i]
      BY <1>0, <1>1, <2>1
    <2> QED
      BY <2>2, <2>3 DEF m
  <1>3. \A i \in 1 .. Len(p) - 1 : i \in 1 .. Len(p) /\ p[i] \notin Special
    BY <1>1 DEF Clean
  <1> QED
    BY <1>2, <1>3 DEF Clean

LEMMA MoreOfClean ==
  ASSUME NEW p, Clean(p), NEW s \in STRING, s \notin Special
  PROVE  Clean(Append(p, s))
  <1>1. p \in Seq(STRING) /\ Len(p) \in Nat
    BY DEF Clean
  <1>2. /\ Append(p, s) \in Seq(STRING) /\ Len(Append(p, s)) = Len(p) + 1
        /\ \A i \in 1 .. Len(p) : Append(p, s)[i] = p[i]
        /\ Append(p, s)[Len(p) + 1] = s
    BY <1>1, AppendProperties
  <1>3. \A i \in 1 .. Len(p) + 1 : i = Len(p) + 1 \/ i \in 1 .. Len(p)
    BY <1>1
  <1>4. \A i \in 1 .. Len(p) : p[i] \notin Special
    BY DEF Clean
  <1> QED
    BY <1>2, <1>3, <1>4 DEF Clean

LEMMA NothingIsClean == Clean(<<>>)
  BY DEF Clean

LEMMA ResolveIsClean ==
  ASSUME NEW r \in Reading, Clean(r.segs), NEW s \in STRING
  PROVE  Github!Resolve(r, s) \in Reading /\ Clean(Github!Resolve(r, s).segs)
  <1>1. Github!Null \in Reading /\ Clean(Github!Null.segs)
    BY NothingIsClean DEF Github!Null, Reading
  <1>2. CASE ~r.ok \/ s \in {"bad", "sep"}
    <2>1. Github!Resolve(r, s) = Github!Null
      BY <1>2, Zenon DEF Github!Resolve
    <2> QED
      BY <1>1, <2>1
  <1>3. CASE r.ok /\ s \in {"", "."}
    <2>1. s # "bad" /\ s # "sep"
      BY <1>3, Zenon
    <2>2. Github!Resolve(r, s) = r
      BY <1>3, <2>1, Zenon DEF Github!Resolve
    <2> QED
      BY <2>2
  <1>4. CASE r.ok /\ s = ".." /\ r.segs = <<>>
    <2>1. s # "bad" /\ s # "sep" /\ s # "" /\ s # "."
      BY <1>4
    <2>2. Github!Resolve(r, s) = Github!Null
      BY <1>4, <2>1, Zenon DEF Github!Resolve
    <2> QED
      BY <1>1, <2>2
  <1>5. CASE r.ok /\ s = ".." /\ r.segs # <<>>
    <2> DEFINE f == SubSeq(r.segs, 1, Len(r.segs) - 1)
    <2>1. Clean(f)
      BY <1>5, FrontOfClean
    <2>2. f \in Seq(STRING)
      BY <2>1 DEF Clean
    <2>3. s # "bad" /\ s # "sep" /\ s # "" /\ s # "."
      BY <1>5
    <2>4. Github!Resolve(r, s) = [r EXCEPT !.segs = f]
      BY <1>5, <2>3, Zenon DEF Github!Resolve
    <2> HIDE DEF f
    <2> QED
      BY <2>1, <2>2, <2>4 DEF Reading
  <1>6. CASE r.ok /\ s \notin Special
    <2> DEFINE f == Append(r.segs, s)
    <2>1. Clean(f)
      BY <1>6, MoreOfClean
    <2>2. f \in Seq(STRING)
      BY <2>1 DEF Clean
    <2>3. s # "bad" /\ s # "sep" /\ s # "" /\ s # "." /\ s # ".."
      BY <1>6, Zenon DEF Special
    <2>4. Github!Resolve(r, s) = [r EXCEPT !.segs = f]
      BY <1>6, <2>3, Zenon DEF Github!Resolve
    <2> HIDE DEF f
    <2> QED
      BY <2>1, <2>2, <2>4 DEF Reading
  <1>7. r.ok \in BOOLEAN
    BY DEF Reading
  <1>8. s \in {"bad", "sep", "", "."} \/ s = ".." \/ s \notin Special
    BY Zenon DEF Special
  <1> QED
    BY <1>2, <1>3, <1>4, <1>5, <1>6, <1>7, <1>8, Zenon

Nothing == [ok |-> TRUE, segs |-> <<>>]

\* The rounds of normalizeRequestPath().
LEMMA NormalizeSteps ==
  ASSUME NEW raw \in Seq(STRING)
  PROVE  \E g : /\ Github!NormalizeRequestPath(raw) = g[Len(raw)]
                /\ g[0] = Nothing
                /\ \A n \in 1 .. Len(raw) : g[n] = Github!Resolve(g[n - 1], raw[n])
                /\ g \in [0 .. Len(raw) -> {r \in Reading : Clean(r.segs)}]
  <1> DEFINE S == {r \in Reading : Clean(r.segs)}
             step == [x \in (1 .. Len(raw)) \X S |-> Github!Resolve(x[2], raw[x[1]])]
             Of(g) == g = [n \in 0 .. Len(raw) |->
                             IF n = 0 THEN [ok |-> TRUE, segs |-> <<>>] ELSE Github!Resolve(g[n - 1], raw[n])]
  <1>1. Len(raw) \in Nat /\ \A n \in 1 .. Len(raw) : raw[n] \in STRING
    BY LenProperties, ElementOfSeq
  <1>2. Nothing \in S
    BY NothingIsClean DEF Nothing, Reading
  <1>3. step \in [(1 .. Len(raw)) \X S -> S]
    <2> SUFFICES ASSUME NEW x \in (1 .. Len(raw)) \X S PROVE Github!Resolve(x[2], raw[x[1]]) \in S
      OBVIOUS
    <2>1. x[1] \in 1 .. Len(raw) /\ x[2] \in Reading /\ Clean(x[2].segs)
      OBVIOUS
    <2> QED
      BY <1>1, <2>1, ResolveIsClean
  <1>4. PICK g \in [0 .. Len(raw) -> S] : \A n \in 0 .. Len(raw) : g[n] = RunStep(g, n, Nothing, step)
    <2> HIDE DEF S, step
    <2>1. HasRun(Len(raw), S, Nothing, step)
      BY <1>1, <1>2, <1>3, RunExists
    <2> QED
      BY <2>1, Zenon DEF HasRun
  <1>5. Of(g)
    <2>1. ASSUME NEW n \in 0 .. Len(raw)
          PROVE  g[n] = IF n = 0 THEN Nothing ELSE Github!Resolve(g[n - 1], raw[n])
      <3>1. CASE n = 0
        BY <1>4, <3>1 DEF RunStep
      <3>2. CASE n # 0
        <4>1. n \in 1 .. Len(raw) /\ n - 1 \in 0 .. Len(raw)
          BY <1>1, <3>2
        <4>2. <<n, g[n - 1]>> \in (1 .. Len(raw)) \X S
          BY <1>4, <4>1
        <4>3. step[<<n, g[n - 1]>>] = Github!Resolve(g[n - 1], raw[n])
          BY <4>2
        <4> HIDE DEF step
        <4> QED
          BY <1>4, <3>2, <4>3 DEF RunStep
      <3> QED
        BY <3>1, <3>2
    <2>2. g = [n \in 0 .. Len(raw) |-> g[n]]
      BY <1>4
    <2> QED
      BY <2>1, <2>2 DEF Nothing
  <1> DEFINE h == CHOOSE g2 : Of(g2)
  <1>6. Of(h)
    BY <1>5
  <1>7. Github!NormalizeRequestPath(raw) = h[Len(raw)]
    BY DEF Github!NormalizeRequestPath
  <1> HIDE DEF h
  <1>8. h[0] = Nothing /\ \A n \in 1 .. Len(raw) : h[n] = Github!Resolve(h[n - 1], raw[n])
    <2>1. \A n \in 0 .. Len(raw) :
            h[n] = IF n = 0 THEN [ok |-> TRUE, segs |-> <<>>] ELSE Github!Resolve(h[n - 1], raw[n])
      BY <1>6
    <2>2. 0 \in 0 .. Len(raw) /\ \A n \in 1 .. Len(raw) : n \in 0 .. Len(raw) /\ n # 0
      BY <1>1
    <2>3. h[0] = Nothing
      BY <2>1, <2>2 DEF Nothing
    <2>4. \A n \in 1 .. Len(raw) : h[n] = Github!Resolve(h[n - 1], raw[n])
      BY <2>1, <2>2
    <2> QED
      BY <2>3, <2>4
  <1>9. \A n \in 0 .. Len(raw) : h[n] \in S
    <2> DEFINE B == {n \in Nat : n <= Len(raw) => h[n] \in S}
    <2>1. 0 \in B
      BY <1>2, <1>8
    <2>2. ASSUME NEW n \in Nat, n \in B PROVE n + 1 \in B
      <3> SUFFICES ASSUME n + 1 <= Len(raw) PROVE h[n + 1] \in S
        OBVIOUS
      <3>1. n + 1 \in 1 .. Len(raw) /\ (n + 1) - 1 = n /\ h[n] \in S
        BY <1>1, <2>2
      <3>2. h[n + 1] = Github!Resolve(h[n], raw[n + 1])
        BY <1>8, <3>1
      <3> QED
        BY <1>1, <3>1, <3>2, ResolveIsClean
    <2> HIDE DEF B
    <2>3. Nat \subseteq B
      BY <2>1, <2>2, SetInduction
    <2> QED
      BY <1>1, <2>3 DEF B
  <1>10. h \in [0 .. Len(raw) -> S]
    <2>1. h = [n \in 0 .. Len(raw) |-> h[n]]
      BY <1>6
    <2> HIDE DEF S
    <2> QED
      BY <1>9, <2>1
  <1> QED
    BY <1>7, <1>8, <1>10

\* Whatever is asked for, what comes out is a clean path.
LEMMA NormalizedIsClean ==
  ASSUME NEW raw \in Seq(STRING)
  PROVE  Clean(Github!NormalizeRequestPath(raw).segs)
  <1>1. Len(raw) \in 0 .. Len(raw)
    BY LenProperties
  <1> QED
    BY <1>1, NormalizeSteps

\* It is normalized already.
LEMMA CleanStays ==
  ASSUME NEW p, Clean(p)
  PROVE  Github!NormalizeRequestPath(p).segs = p
  <1>0. p \in Seq(STRING) /\ Len(p) \in Nat
    BY DEF Clean
  <1>1. PICK g : /\ Github!NormalizeRequestPath(p) = g[Len(p)]
                 /\ g[0] = Nothing
                 /\ \A n \in 1 .. Len(p) : g[n] = Github!Resolve(g[n - 1], p[n])
                 /\ g \in [0 .. Len(p) -> {r \in Reading : Clean(r.segs)}]
    BY <1>0, NormalizeSteps
  <1> DEFINE B == {n \in Nat : n <= Len(p) => g[n].ok}
             s == [n \in 0 .. Len(p) |-> g[n].segs]
  <1>2. ASSUME NEW n \in 1 .. Len(p), g[n - 1].ok
        PROVE  g[n] = [g[n - 1] EXCEPT !.segs = Append(g[n - 1].segs, p[n])]
    <2>1. p[n] # "bad" /\ p[n] # "sep" /\ p[n] # "" /\ p[n] # "." /\ p[n] # ".."
      BY Zenon DEF Clean, Special
    <2>2. g[n] = Github!Resolve(g[n - 1], p[n])
      BY <1>1
    <2> QED
      BY <1>2, <2>1, <2>2, Zenon DEF Github!Resolve
  <1>3. \A n \in 0 .. Len(p) : g[n] \in Reading
    BY <1>1
  <1>4. Nat \subseteq B
    <2>1. 0 \in B
      BY <1>1 DEF Nothing
    <2>2. ASSUME NEW n \in Nat, n \in B PROVE n + 1 \in B
      <3> SUFFICES ASSUME n + 1 <= Len(p) PROVE g[n + 1].ok
        OBVIOUS
      <3>1. n + 1 \in 1 .. Len(p) /\ (n + 1) - 1 = n /\ n \in 0 .. Len(p) /\ g[n].ok
        BY <1>0, <2>2
      <3>2. g[n + 1] = [g[n] EXCEPT !.segs = Append(g[n].segs, p[n + 1])]
        BY <1>2, <3>1
      <3> QED
        BY <1>3, <3>1, <3>2 DEF Reading
    <2> HIDE DEF B
    <2> QED
      BY <2>1, <2>2, SetInduction
  <1>5. \A n \in 1 .. Len(p) : s[n - 1] = SubSeq(p, 1, n - 1) => s[n] = Append(s[n - 1], p[n])
    <2> SUFFICES ASSUME NEW n \in 1 .. Len(p) PROVE s[n] = Append(s[n - 1], p[n])
      OBVIOUS
    <2>1. n \in 0 .. Len(p) /\ n - 1 \in 0 .. Len(p) /\ n - 1 \in Nat /\ n - 1 <= Len(p)
      BY <1>0
    <2>2. g[n] = [g[n - 1] EXCEPT !.segs = Append(g[n - 1].segs, p[n])]
      BY <1>2, <1>4, <2>1
    <2>3. s[n] = g[n].segs /\ s[n - 1] = g[n - 1].segs
      BY <2>1
    <2> HIDE DEF s
    <2> QED
      BY <1>3, <2>1, <2>2, <2>3 DEF Reading
  <1>6. s[0] = <<>> /\ s[Len(p)] = g[Len(p)].segs
    BY <1>0, <1>1 DEF Nothing
  <1> HIDE DEF s
  <1>7. s[Len(p)] = p
    BY <1>0, <1>5, <1>6, ReadsWhole
  <1> QED
    BY <1>1, <1>6, <1>7

\* The other end reads it as it is.
LEMMA EdgeReadsClean ==
  ASSUME NEW p, Clean(p)
  PROVE  Github!EdgePath(p) = p
  <1> DEFINE Of(g) == g = [n \in 0 .. Len(p) |-> IF n = 0 THEN <<>> ELSE Github!EdgeStep(g[n - 1], p[n])]
             h == CHOOSE g : Of(g)
  <1>1. p \in Seq(STRING) /\ Len(p) \in Nat
    BY DEF Clean
  <1>2. ASSUME NEW n \in 1 .. Len(p), NEW q PROVE Github!EdgeStep(q, p[n]) = Append(q, p[n])
    <2>1. p[n] # "sep" /\ p[n] # "" /\ p[n] # "." /\ p[n] # ".."
      BY Zenon DEF Clean, Special
    <2> QED
      BY <2>1, Zenon DEF Github!EdgeStep, Github!EdgeSegment
  <1>3. \A n \in 0 .. Len(p) : n # 0 => n \in 1 .. Len(p)
    BY <1>1
  <1>4. ASSUME NEW g
        PROVE  [n \in 0 .. Len(p) |-> IF n = 0 THEN <<>> ELSE Github!EdgeStep(g[n - 1], p[n])]
                 = [n \in 0 .. Len(p) |-> IF n = 0 THEN <<>> ELSE Append(g[n - 1], p[n])]
    BY <1>2, <1>3
  <1>5. \A g : Of(g) <=> Collects(g, p)
    BY <1>4 DEF Collects
  <1>6. Of(h)
    <2>1. \E g : Of(g)
      BY <1>1, <1>5, CollectsWhole
    <2> HIDE DEF Of
    <2> QED
      BY <2>1
  <1>7. Github!EdgePath(p) = h[Len(p)]
    BY DEF Github!EdgePath
  <1> HIDE DEF h, Of
  <1> QED
    BY <1>1, <1>5, <1>6, <1>7, CollectsWhole

\* A request, as the broker keeps it.
States == {"idle", "handshake", "dialling", "sent", "done"}
Answers == {"none", "403", "400", "closed", "502", "upstream"}
Forwardings ==
  [st : States, method : {"none", "GET", "POST"}, asked : Seq(STRING), path : Seq(STRING), answer : Answers]

\* It has no path to forward yet, or a clean one that a capability covers.
Covered(q, capabilities) ==
  /\ q \in Forwardings
  /\ q.st \in {"idle", "handshake"} => q.path = <<>>
  /\ q.path # <<>> =>
       /\ Clean(q.path)
       /\ \E c \in capabilities :
            c[1] = Github!ActionFor(q.method) /\ c[2] \in {"*", Github!RouteScope(q.path)}

GithubInv == DOMAIN forwarding = Asking /\ \A r \in Asking : Covered(forwarding[r], granted)

(* However a path is written, what the API is asked for needs a declared    *)
(* capability, in the broker's reading and in the API's                     *)
(* (github-api-broker.cjs).                                                 *)
THEOREM OnlyCoveredIsForwarded ==
  ASSUME Github!PathsAssumption
  PROVE  Github!Spec => []Github!ReachesOnlyWhatIsDeclared
  <1>1. Github!Init => GithubInv
    <2>1. Covered(Github!Idle, granted)
      BY DEF Covered, Forwardings, States, Answers, Github!Idle
    <2> QED
      BY <2>1 DEF Github!Init, GithubInv
  <1>2. GithubInv /\ [Github!Next]_Github!vars => GithubInv'
    <2>1. ASSUME GithubInv, granted' = granted, NEW r \in Asking, NEW q, Covered(q, granted),
                 forwarding' = [forwarding EXCEPT ![r] = q]
          PROVE  GithubInv'
      <3>1. DOMAIN forwarding' = Asking /\ forwarding'[r] = q /\ \A s \in Asking \ {r} : forwarding'[s] = forwarding[s]
        BY <2>1 DEF GithubInv
      <3>2. \A s \in Asking : Covered(forwarding'[s], granted')
        BY <2>1, <3>1 DEF GithubInv
      <3> QED
        BY <3>1, <3>2 DEF GithubInv
    <2>2. ASSUME GithubInv, UNCHANGED <<granted, forwarding>> PROVE GithubInv'
      BY <2>2 DEF GithubInv
    <2>3. ASSUME GithubInv, NEW r \in Asking, NEW k \in States, Github!To(r, k),
                 k \in {"idle", "handshake"} => forwarding[r].st \in {"idle", "handshake"}
          PROVE  GithubInv'
      <3> DEFINE q == forwarding[r]
                 e == [q EXCEPT !.st = k]
      <3>1. Covered(q, granted) /\ (k \in {"idle", "handshake"} => q.st \in {"idle", "handshake"})
        BY <2>3 DEF GithubInv
      <3>2. forwarding' = [forwarding EXCEPT ![r] = e] /\ granted' = granted
        BY <2>3 DEF Github!To, GithubInv
      <3> HIDE DEF q
      <3>3. e \in Forwardings /\ e.st = k /\ e.path = q.path /\ e.method = q.method
        BY <3>1 DEF Covered, Forwardings
      <3> HIDE DEF e
      <3>4. Covered(e, granted)
        BY <3>1, <3>3 DEF Covered
      <3> QED
        BY <2>1, <2>3, <3>2, <3>4
    <2>4. ASSUME GithubInv, NEW r \in Asking, NEW a \in Answers, Github!Done(r, a) PROVE GithubInv'
      <3> DEFINE q == forwarding[r]
                 e == [q EXCEPT !.st = "done", !.answer = a]
      <3>1. Covered(q, granted)
        BY <2>4 DEF GithubInv
      <3>2. forwarding' = [forwarding EXCEPT ![r] = e] /\ granted' = granted
        BY <2>4 DEF Github!Done, GithubInv
      <3> HIDE DEF q
      <3>3. e \in Forwardings /\ e.st = "done" /\ e.path = q.path /\ e.method = q.method
        BY <3>1 DEF Covered, Forwardings, States
      <3> HIDE DEF e
      <3>4. Covered(e, granted)
        BY <3>1, <3>3 DEF Covered
      <3> QED
        BY <2>1, <2>4, <3>2, <3>4
    <2>5. ASSUME GithubInv, NEW r \in Asking, NEW m \in {"GET", "POST"}, NEW raw \in Paths,
                 Github!HandleRequest(r, m, raw)
          PROVE  GithubInv'
      <3> DEFINE n == Github!NormalizeRequestPath(raw)
                 scope == IF n.ok THEN Github!RouteScope(n.segs) ELSE "none"
                 f == forwarding[r]
      <3>1. granted' = granted /\ f.st = "handshake"
        BY <2>5 DEF Github!HandleRequest
      <3>2. Covered(f, granted) /\ f.path = <<>>
        BY <2>5, <3>1 DEF GithubInv, Covered
      <3>3. f \in Forwardings /\ raw \in Seq(STRING)
        BY <3>2 DEF Covered, Github!PathsAssumption
      <3>4. CASE scope = "none" \/ ~Github!IsAllowed(Github!ActionFor(m), scope)
        <4> DEFINE q == [f EXCEPT !.st = "done", !.method = m, !.asked = raw, !.answer = "403"]
        <4>1. forwarding' = [forwarding EXCEPT ![r] = q]
          BY <2>5, <3>4 DEF Github!HandleRequest, GithubInv
        <4>2. q \in Forwardings /\ q.path = <<>>
          BY <3>2, <3>3 DEF Forwardings, States, Answers
        <4> HIDE DEF q
        <4>3. Covered(q, granted)
          BY <4>2 DEF Covered, Forwardings
        <4> QED
          BY <2>1, <2>5, <3>1, <4>1, <4>3
      <3>5. CASE ~(scope = "none" \/ ~Github!IsAllowed(Github!ActionFor(m), scope))
        <4> DEFINE k == IF dialer THEN "dialling" ELSE "sent"
                   q == [f EXCEPT !.st = k, !.method = m, !.asked = raw, !.path = n.segs]
        <4>1. forwarding' = [forwarding EXCEPT ![r] = q]
          BY <2>5, <3>5 DEF Github!HandleRequest, Github!Forwarded, GithubInv
        <4>3. k \in States /\ k \notin {"idle", "handshake"}
          BY DEF States
        <4>5. Clean(n.segs) /\ n.segs \in Seq(STRING)
          BY <3>3, NormalizedIsClean DEF Clean
        <4> HIDE DEF k, n
        <4>2. q \in Forwardings /\ q.st = k /\ q.method = m /\ q.path = n.segs
          BY <3>3, <4>3, <4>5 DEF Forwardings
        <4> USE DEF n
        <4>6. scope = Github!RouteScope(n.segs) /\ Github!IsAllowed(Github!ActionFor(m), scope)
          BY <3>5
        <4>7. \E c \in granted : c[1] = Github!ActionFor(m) /\ c[2] \in {"*", Github!RouteScope(n.segs)}
          BY <4>6 DEF Github!IsAllowed
        <4> HIDE DEF q, k, n
        <4>8. Covered(q, granted)
          BY <4>2, <4>3, <4>5, <4>7 DEF Covered, Forwardings
        <4> QED
          BY <2>1, <2>5, <3>1, <4>1, <4>8
      <3> QED
        BY <3>4, <3>5
    <2>6. ASSUME GithubInv, NEW r \in Asking,
                 \/ Github!ConnectHost(r) \/ Github!ConnectOther(r) \/ Github!NotConnect(r)
                 \/ Github!HandshakeFails(r) \/ Github!Dialled(r) \/ Github!DialFails(r)
                 \/ Github!Responds(r) \/ Github!BadGateway(r)
          PROVE  GithubInv'
      <3>1. CASE Github!ConnectHost(r)
        BY <2>3, <2>6, <3>1 DEF Github!ConnectHost, States
      <3>2. CASE Github!Dialled(r)
        BY <2>3, <2>6, <3>2 DEF Github!Dialled, States
      <3>3. CASE \E a \in Answers : Github!Done(r, a)
        BY <2>4, <2>6, <3>3
      <3> QED
        BY <2>6, <3>1, <3>2, <3>3
        DEF Answers, Github!ConnectOther, Github!NotConnect, Github!HandshakeFails, Github!DialFails,
            Github!Responds, Github!BadGateway
    <2> QED
      BY <2>2, <2>5, <2>6 DEF Github!Next, Github!vars, Github!GenerateCerts
  <1>3. GithubInv => Github!ReachesOnlyWhatIsDeclared
    <2> SUFFICES ASSUME GithubInv, NEW r \in Asking, forwarding[r].path # <<>>
                 PROVE  /\ Github!IsAllowed(Github!ActionFor(forwarding[r].method),
                                            Github!RouteScope(Github!EdgePath(forwarding[r].path)))
                        /\ Github!NormalizeRequestPath(forwarding[r].path).segs = forwarding[r].path
      BY DEF Github!ReachesOnlyWhatIsDeclared
    <2>1. Covered(forwarding[r], granted) /\ Clean(forwarding[r].path)
      BY DEF GithubInv, Covered
    <2>2. Github!EdgePath(forwarding[r].path) = forwarding[r].path
      BY <2>1, EdgeReadsClean
    <2>3. Github!NormalizeRequestPath(forwarding[r].path).segs = forwarding[r].path
      BY <2>1, CleanStays
    <2>4. \E c \in granted : /\ c[1] = Github!ActionFor(forwarding[r].method)
                             /\ c[2] \in {"*", Github!RouteScope(forwarding[r].path)}
      BY <2>1 DEF Covered
    <2> QED
      BY <2>2, <2>3, <2>4 DEF Github!IsAllowed
  <1> QED
    BY <1>1, <1>2, <1>3, PTL DEF Github!Spec

-----------------------------------------------------------------------------
(* The tunnel.  What was written before the proxy answered is in the queue, *)
(* and all that was written since is with the database.                     *)

Upto(n) == [i \in 1 .. n |-> i]

TunnelTypes ==
  /\ wrote \in Nat /\ spoke \in Nat /\ inner \in BOOLEAN
  /\ queued \in Seq(Nat) /\ got \in Seq(Nat) /\ read \in Seq(Nat) /\ flight \in Seq(Nat)

Written == inner => got = Upto(wrote)

Early ==
  ~inner => /\ queued = Upto(wrote) /\ got = <<>> /\ flight = <<>> /\ spoke = 0
            /\ sock # "up" /\ st # "open"

ReadSoFar == st = "open" => read \o flight = Upto(spoke)

TunnelInv == TunnelTypes /\ Written /\ Early /\ ReadSoFar

LEMMA UptoIsSeq ==
  ASSUME NEW n \in Nat
  PROVE  Upto(n) \in Seq(Nat) /\ Len(Upto(n)) = n /\ Upto(0) = <<>> /\ Append(Upto(n), n + 1) = Upto(n + 1)
  BY DEF Upto

LEMMA UptoExtends ==
  ASSUME NEW n \in Nat, NEW m \in Nat
  PROVE  Upto(n) \o [i \in 1 .. m |-> n + i] = Upto(n + m)
  BY DEF Upto

LEMMA PushKeepsOrder ==
  ASSUME NEW r \in Seq(Nat), NEW f \in Seq(Nat), f # <<>>
  PROVE  /\ Append(r, Head(f)) \in Seq(Nat) /\ Tail(f) \in Seq(Nat)
         /\ Append(r, Head(f)) \o Tail(f) = r \o f
  <1>1. Head(f) \in Nat /\ Tail(f) \in Seq(Nat) /\ Len(Tail(f)) = Len(f) - 1 /\ Len(f) > 0
    OBVIOUS
  <1> DEFINE u == Append(r, Head(f)) \o Tail(f)
             v == r \o f
  <1>2. Append(r, Head(f)) \in Seq(Nat) /\ Len(Append(r, Head(f))) = Len(r) + 1
    BY <1>1
  <1>3. u \in Seq(Nat) /\ v \in Seq(Nat) /\ Len(u) = Len(v)
    BY <1>1, <1>2
  <1>4. ASSUME NEW i \in 1 .. Len(v) PROVE u[i] = v[i]
    <2>1. CASE i <= Len(r)
      BY <1>1, <1>2, <2>1
    <2>2. CASE i = Len(r) + 1
      BY <1>1, <1>2, <2>2
    <2>3. CASE i > Len(r) + 1
      BY <1>1, <1>2, <2>3
    <2> QED
      BY <2>1, <2>2, <2>3
  <1>5. u = v
    <2> HIDE DEF u, v
    <2> QED
      BY <1>3, <1>4, SeqEqual
  <1> QED
    BY <1>1, <1>2, <1>5

LEMMA AppendKeepsOrder ==
  ASSUME NEW r \in Seq(Nat), NEW f \in Seq(Nat), NEW k \in Nat
  PROVE  r \o Append(f, k) = Append(r \o f, k)
  OBVIOUS

LEMMA TunnelStep ==
  ASSUME TunnelInv, Tunnel!Next
  PROVE  TunnelInv'
  <1> USE DEF TunnelInv
  <1>1. ASSUME Tunnel!Connect \/ Tunnel!Refused \/ Tunnel!Fails \/ Tunnel!HangsUp \/ Tunnel!Destroy
        PROVE  TunnelInv'
    <2>1. /\ UNCHANGED <<inner, queued, wrote, got, spoke, flight, read>>
          /\ sock' = "up" => sock = "up"
          /\ st' = "open" => st = "open"
      BY <1>1 DEF Tunnel!Connect, Tunnel!Refused, Tunnel!Fails, Tunnel!HangsUp, Tunnel!Destroy
    <2> QED
      BY <2>1 DEF TunnelTypes, Written, Early, ReadSoFar
  <1>2. ASSUME Tunnel!Write PROVE TunnelInv'
    <2>1. /\ UNCHANGED <<inner, sock, spoke, flight, read>>
          /\ st' \in {st, "destroyed"}
          /\ \/ UNCHANGED <<wrote, queued, got>>
             \/ inner /\ wrote' = wrote + 1 /\ got' = Append(got, wrote + 1) /\ queued' = queued
             \/ ~inner /\ wrote' = wrote + 1 /\ queued' = Append(queued, wrote + 1) /\ got' = got
      BY <1>2 DEF Tunnel!Write
    <2>2. TunnelTypes'
      <3>1. Append(got, wrote + 1) \in Seq(Nat) /\ Append(queued, wrote + 1) \in Seq(Nat) /\ wrote + 1 \in Nat
        BY DEF TunnelTypes
      <3> QED
        BY <2>1, <3>1 DEF TunnelTypes
    <2>3. Written'
      BY <2>1, UptoIsSeq DEF Written, TunnelTypes
    <2>4. Early'
      BY <2>1, UptoIsSeq DEF Early, TunnelTypes
    <2>5. ReadSoFar'
      BY <2>1 DEF ReadSoFar
    <2> QED
      BY <2>2, <2>3, <2>4, <2>5
  <1>3. ASSUME NEW n \in 0 .. MaxChunks, NEW rest \in 0 .. 1, Tunnel!Opened(n, rest) PROVE TunnelInv'
    <2>0. n \in Nat /\ rest \in Nat
      OBVIOUS
    <2>1. got = <<>> /\ queued = Upto(wrote) /\ flight = <<>> /\ st # "open"
      BY <1>3 DEF Early, Tunnel!Opened
    <2>2. queued \o [i \in 1 .. n |-> wrote + i] = Upto(wrote + n)
      BY <2>0, <2>1, UptoExtends DEF TunnelTypes
    <2>3. got' = Upto(wrote + n) /\ wrote' = wrote + n /\ queued' = <<>> /\ inner' /\ spoke' = rest
      <3>1. got' = got \o Tunnel!FlushThenEmit(n) /\ Tunnel!FlushThenEmit(n) = Upto(wrote + n)
        BY <1>3, <2>2 DEF Tunnel!Opened, Tunnel!FlushThenEmit
      <3>2. Upto(wrote + n) \in Seq(Nat)
        BY <2>0, UptoIsSeq DEF TunnelTypes
      <3>3. got' = Upto(wrote + n)
        BY <2>1, <3>1, <3>2
      <3> QED
        BY <1>3, <3>3 DEF Tunnel!Opened
    <2>4. /\ flight' = <<>>
          /\ \/ st' = "open" /\ read' = Upto(rest)
             \/ st' = st /\ read' = read
      BY <1>3, <2>1 DEF Tunnel!Opened, Upto
    <2>5. Upto(rest) \in Seq(Nat) /\ Upto(wrote + n) \in Seq(Nat) /\ wrote + n \in Nat
      <3>1. wrote + n \in Nat
        BY <2>0 DEF TunnelTypes
      <3> QED
        BY <2>0, <3>1, UptoIsSeq
    <2>6. TunnelTypes'
      BY <2>0, <2>3, <2>4, <2>5 DEF TunnelTypes
    <2>7. Written' /\ Early'
      BY <2>3 DEF Written, Early
    <2>8. ReadSoFar'
      BY <2>1, <2>3, <2>4, <2>5 DEF ReadSoFar
    <2> QED
      BY <2>6, <2>7, <2>8
  <1>4. ASSUME Tunnel!Speaks PROVE TunnelInv'
    <2>1. /\ UNCHANGED <<st, inner, sock, queued, wrote, got, read>> /\ sock = "up"
          /\ spoke' = spoke + 1 /\ flight' = Append(flight, spoke + 1)
      BY <1>4 DEF Tunnel!Speaks
    <2>2. TunnelTypes' /\ Written' /\ Early'
      BY <2>1 DEF TunnelTypes, Written, Early
    <2>3. read \o Append(flight, spoke + 1) = Append(read \o flight, spoke + 1)
      <3>1. read \in Seq(Nat) /\ flight \in Seq(Nat) /\ spoke + 1 \in Nat
        BY DEF TunnelTypes
      <3> QED
        BY <3>1, AppendKeepsOrder
    <2>4. Append(Upto(spoke), spoke + 1) = Upto(spoke + 1)
      BY UptoIsSeq DEF TunnelTypes
    <2>5. ReadSoFar'
      BY <2>1, <2>3, <2>4 DEF ReadSoFar
    <2> QED
      BY <2>2, <2>5
  <1>5. ASSUME Tunnel!Push PROVE TunnelInv'
    <2>1. /\ UNCHANGED <<st, inner, sock, queued, wrote, got, spoke>> /\ flight # <<>>
          /\ read' = Append(read, Head(flight)) /\ flight' = Tail(flight)
      BY <1>5 DEF Tunnel!Push
    <2>2. TunnelTypes' /\ ReadSoFar'
      BY <2>1, PushKeepsOrder DEF TunnelTypes, ReadSoFar
    <2>3. Written' /\ Early'
      BY <2>1 DEF Written, Early
    <2> QED
      BY <2>2, <2>3
  <1> QED
    BY <1>1, <1>2, <1>3, <1>4, <1>5 DEF Tunnel!Next

(* Early writes, writes made while "connect" is announced and later ones    *)
(* reach the database in the order the driver made them, none twice, and    *)
(* the driver reads the database's bytes from the first one on (tunnel.ts   *)
(* of the mysql and the postgres app).                                      *)
THEOREM TunnelKeepsOrder == Tunnel!Spec => []Tunnel!BytesInOrder
  <1>1. Tunnel!Init => TunnelInv
    <2>1. Upto(0) = <<>>
      BY UptoIsSeq
    <2> SUFFICES ASSUME Tunnel!Init PROVE TunnelInv
      OBVIOUS
    <2>2. TunnelTypes /\ ReadSoFar
      <3>1. <<>> \in Seq(Nat) /\ 0 \in Nat
        BY EmptySeq
      <3>2. wrote = 0 /\ spoke = 0 /\ inner = FALSE /\ queued = <<>> /\ got = <<>> /\ read = <<>> /\ flight = <<>>
            /\ st # "open"
        BY DEF Tunnel!Init
      <3> QED
        BY <3>1, <3>2 DEF TunnelTypes, ReadSoFar
    <2>3. Written /\ Early
      BY <2>1 DEF Tunnel!Init, Written, Early
    <2> QED
      BY <2>2, <2>3 DEF TunnelInv
  <1>2. TunnelInv /\ [Tunnel!Next]_Tunnel!vars => TunnelInv'
    <2>1. ASSUME TunnelInv, UNCHANGED Tunnel!vars PROVE TunnelInv'
      BY <2>1 DEF TunnelInv, TunnelTypes, Written, Early, ReadSoFar, Tunnel!vars
    <2> QED
      BY <2>1, TunnelStep
  <1>3. TunnelInv => Tunnel!BytesInOrder
    <2> SUFFICES ASSUME TunnelInv PROVE Tunnel!BytesInOrder
      OBVIOUS
    <2>1. got = Upto(Len(got)) /\ (inner => Len(got) = wrote)
      <3>1. CASE inner
        BY <3>1, UptoIsSeq DEF TunnelInv, TunnelTypes, Written
      <3>2. CASE ~inner
        BY <3>2, UptoIsSeq DEF TunnelInv, Early
      <3> QED
        BY <3>1, <3>2
    <2> QED
      BY <2>1 DEF TunnelInv, ReadSoFar, Tunnel!BytesInOrder, Upto
  <1> QED
    BY <1>1, <1>2, <1>3, PTL DEF Tunnel!Spec

-----------------------------------------------------------------------------
(* The policy of an app.  What it grants is the baseline, the app's own     *)
(* declarations, and dependencies that are in the workspace's store or are  *)
(* libraries, wherever the links lead.                                      *)

Names ==
  STRING \cup App \cup
  {"usr", "etc", "dev", "tmp", "null", "pts", "ptmx", "run", "berth", "github-api-broker",
   "node_modules", ".pnpm", "workspace", "context", "app"}

LEMMA PathsOfNames == ASSUME NEW p \in Seq(STRING) PROVE p \in Seq(Names)
  <1>1. p \in [1 .. Len(p) -> STRING] /\ Len(p) \in Nat
    BY LenProperties
  <1>2. p \in [1 .. Len(p) -> Names]
    BY <1>1 DEF Names
  <1> QED
    BY <1>1, <1>2, IsASeq

LEMMA PrefixAgrees ==
  ASSUME NEW g \in Seq(Names), NEW p \in Seq(Names), Policy!IsWithin(p, g)
  PROVE  Len(g) <= Len(p) /\ \A i \in 1 .. Len(g) : g[i] = p[i]
  <1>1. Len(g) \in Nat /\ Len(p) \in Nat /\ Len(g) <= Len(p)
    BY DEF Policy!IsWithin
  <1>2. SubSeq(p, 1, Len(g)) = g
    BY DEF Policy!IsWithin
  <1>3. ASSUME NEW i \in 1 .. Len(g) PROVE g[i] = p[i]
    <2>1. SubSeq(p, 1, Len(g))[i] = p[i]
      BY <1>1
    <2> QED
      BY <1>2, <2>1
  <1> QED
    BY <1>1, <1>3

LEMMA WithinByNames ==
  ASSUME NEW g \in Seq(Names), NEW p \in Seq(Names), Len(g) <= Len(p), \A i \in 1 .. Len(g) : g[i] = p[i]
  PROVE  Policy!IsWithin(p, g)
  <1>1. Len(g) \in Nat /\ Len(p) \in Nat
    OBVIOUS
  <1>2. SubSeq(p, 1, Len(g)) = g
    BY <1>1
  <1> QED
    BY <1>1, <1>2 DEF Policy!IsWithin

LEMMA WithinItself ==
  ASSUME NEW p \in Seq(Names)
  PROVE  Policy!IsWithin(p, p)
  <1>1. Len(p) \in Nat
    OBVIOUS
  <1> QED
    BY <1>1 DEF Policy!IsWithin

IsName(v) == v \notin {"", ".", ".."}
NoDots(p) == \A i \in 1 .. Len(p) : IsName(p[i])

LEMMA ResolvedStays ==
  ASSUME NEW p \in Seq(Names), NoDots(p)
  PROVE  Policy!Resolved(p) = p
  <1> DEFINE Of(g) == g = [n \in 0 .. Len(p) |-> IF n = 0 THEN <<>> ELSE Policy!Step(g[n - 1], p[n])]
             h == CHOOSE g : Of(g)
  <1>1. Len(p) \in Nat
    OBVIOUS
  <1>2. ASSUME NEW n \in 1 .. Len(p), NEW q PROVE Policy!Step(q, p[n]) = Append(q, p[n])
    <2>1. p[n] \notin {"", "."} /\ p[n] # ".."
      BY Zenon DEF NoDots, IsName
    <2> QED
      BY <2>1, Zenon DEF Policy!Step
  <1>3. \A n \in 0 .. Len(p) : n # 0 => n \in 1 .. Len(p)
    BY <1>1
  <1>4. ASSUME NEW g
        PROVE  [n \in 0 .. Len(p) |-> IF n = 0 THEN <<>> ELSE Policy!Step(g[n - 1], p[n])]
                 = [n \in 0 .. Len(p) |-> IF n = 0 THEN <<>> ELSE Append(g[n - 1], p[n])]
    BY <1>2, <1>3
  <1>5. \A g : Of(g) <=> Collects(g, p)
    BY <1>4 DEF Collects
  <1>6. Of(h)
    <2>1. \E g : Of(g)
      BY <1>5, CollectsWhole
    <2> HIDE DEF Of
    <2> QED
      BY <2>1
  <1>7. Policy!Resolved(p) = h[Len(p)]
    BY DEF Policy!Resolved
  <1> HIDE DEF h, Of
  <1> QED
    BY <1>5, <1>6, <1>7, CollectsWhole

LEMMA PlainPaths ==
  ASSUME NEW p, Policy!Plain(p)
  PROVE  p \in Seq(STRING) /\ p \in Seq(Names) /\ NoDots(p) /\ Policy!Resolved(p) = p
  <1>1. p \in Seq(STRING) /\ \A i \in DOMAIN p : IsName(p[i])
    BY Zenon DEF Policy!Plain, IsName
  <1>2. DOMAIN p = 1 .. Len(p)
    BY <1>1, LenProperties
  <1>3. NoDots(p)
    BY <1>1, <1>2, Zenon DEF NoDots
  <1>4. p \in Seq(Names)
    BY <1>1, PathsOfNames
  <1> QED
    BY <1>1, <1>3, <1>4, ResolvedStays

\* The names of two and of three.
LEMMA NoDotsIn ==
  ASSUME NEW x, NEW y, NEW z, IsName(x), IsName(y), IsName(z)
  PROVE  NoDots(<<x>>) /\ NoDots(<<x, y>>) /\ NoDots(<<x, y, z>>)
  BY DEF NoDots

\* The directories of an app.
LEMMA AppsAreNamed ==
  ASSUME Policy!LayoutAssumption, NEW a \in App
  PROVE  /\ Policy!AppRunDir(a) \in Seq(Names) /\ NoDots(Policy!AppRunDir(a))
         /\ Policy!AppTmpDir(a) \in Seq(Names) /\ NoDots(Policy!AppTmpDir(a))
         /\ Dir[a] \in Seq(Names) /\ NoDots(Dir[a]) /\ Len(Dir[a]) >= 1
         /\ Dir[a][1] \in {"workspace", "app"}
         /\ \A i \in 1 .. Len(Dir[a]) : Dir[a][i] # "node_modules"
         /\ IsName(a) /\ a # "github-api-broker"
  <1>1. IsName(a) /\ a # "github-api-broker"
    BY Zenon DEF Policy!LayoutAssumption, IsName
  <1>2. Policy!Plain(Dir[a]) /\ Dir[a] # <<>> /\ Dir[a][1] \in {"workspace", "app"}
        /\ \A i \in DOMAIN Dir[a] : Dir[a][i] # "node_modules"
    BY Zenon DEF Policy!LayoutAssumption
  <1>3. Dir[a] \in Seq(Names) /\ NoDots(Dir[a])
    BY <1>2, PlainPaths
  <1>4. Len(Dir[a]) \in Nat /\ Len(Dir[a]) # 0 /\ DOMAIN Dir[a] = 1 .. Len(Dir[a])
    BY <1>2, <1>3, EmptySeq
  <1>5. a \in Names /\ "run" \in Names /\ "berth" \in Names /\ "tmp" \in Names
    BY DEF Names
  <1>6. <<"run", "berth", a>> \in Seq(Names) /\ <<"tmp", a>> \in Seq(Names)
    BY <1>5
  <1>7. IsName("run") /\ IsName("berth") /\ IsName("tmp")
    BY Zenon DEF IsName
  <1>8. NoDots(<<"run", "berth", a>>)
    BY <1>1, <1>7, NoDotsIn
  <1>9. NoDots(<<"tmp", a>>)
    BY <1>1, <1>7, NoDotsIn
  <1>10. Len(Dir[a]) >= 1
    BY <1>4
  <1>11. \A i \in 1 .. Len(Dir[a]) : Dir[a][i] # "node_modules"
    BY <1>2, <1>4, Zenon
  <1> QED
    BY <1>1, <1>2, <1>3, <1>10, <1>6, <1>8, <1>9, <1>11, Zenon DEF Policy!AppRunDir, Policy!AppTmpDir

\* Another app's directory, runtime directory or scratch.
Theirs(b) == {Dir[b], Policy!AppRunDir(b), Policy!AppTmpDir(b)}

\* What every app is granted leads to none of them.
Fixed == {<<"dev", "null">>, <<"dev", "pts">>, <<"dev", "ptmx">>, <<"usr">>, <<"etc">>, <<"dev">>}

LEMMA FixedIsNobodys ==
  ASSUME Policy!LayoutAssumption, NEW b \in App, NEW p \in Theirs(b), NEW g \in Fixed
  PROVE  ~Policy!IsWithin(p, Policy!Resolved(g))
  <1>1. /\ "dev" \in Names /\ "null" \in Names /\ "pts" \in Names /\ "ptmx" \in Names
        /\ "usr" \in Names /\ "etc" \in Names
    BY DEF Names
  <1>2. /\ IsName("dev") /\ IsName("null") /\ IsName("pts") /\ IsName("ptmx")
        /\ IsName("usr") /\ IsName("etc")
    BY Zenon DEF IsName
  <1>3. g \in Seq(Names) /\ 1 \in 1 .. Len(g) /\ g[1] \in {"dev", "usr", "etc"}
    <2>1. \A x \in Names : <<x>> \in Seq(Names) /\ 1 \in 1 .. Len(<<x>>) /\ <<x>>[1] = x
      OBVIOUS
    <2>2. \A x, y \in Names : <<x, y>> \in Seq(Names) /\ 1 \in 1 .. Len(<<x, y>>) /\ <<x, y>>[1] = x
      OBVIOUS
    <2>3. (\E x \in {"dev", "usr", "etc"} : g = <<x>>) \/ (\E y \in {"null", "pts", "ptmx"} : g = <<"dev", y>>)
      BY Zenon DEF Fixed
    <2>4. ASSUME NEW x \in {"dev", "usr", "etc"}, g = <<x>> PROVE g \in Seq(Names) /\ 1 \in 1 .. Len(g) /\ g[1] = x
      BY <1>1, <2>1, <2>4
    <2>5. ASSUME NEW y \in {"null", "pts", "ptmx"}, g = <<"dev", y>>
          PROVE  g \in Seq(Names) /\ 1 \in 1 .. Len(g) /\ g[1] = "dev"
      BY <1>1, <2>2, <2>5
    <2> QED
      BY <2>3, <2>4, <2>5, Zenon
  <1>4. NoDots(g)
    BY <1>2, NoDotsIn, Zenon DEF Fixed
  <1>5. Policy!Resolved(g) = g
    BY <1>3, <1>4, ResolvedStays
  <1>6. p \in Seq(Names)
    BY AppsAreNamed, Zenon DEF Theirs
  <1>7. p[1] \in {"workspace", "app", "run", "tmp"}
    <2>1. Dir[b][1] \in {"workspace", "app"}
      BY AppsAreNamed
    <2> QED
      BY <2>1 DEF Theirs, Policy!AppRunDir, Policy!AppTmpDir
  <1>8. g[1] # p[1]
    BY <1>3, <1>7, Zenon
  <1> QED
    BY <1>3, <1>5, <1>6, <1>8, PrefixAgrees

\* Nor do an app's own directories.
LEMMA OwnAreApart ==
  ASSUME Policy!LayoutAssumption, NEW a \in App, NEW b \in App, a # b, NEW p \in Theirs(b),
         NEW g \in {Policy!AppTmpDir(a), Policy!AppRunDir(a), Dir[a]}
  PROVE  ~Policy!IsWithin(p, Policy!Resolved(g))
  <1> DEFINE da == Dir[a]  db == Dir[b]
  <1>1. /\ da \in Seq(Names) /\ NoDots(da) /\ Len(da) >= 1 /\ da[1] \in {"workspace", "app"}
        /\ Policy!AppRunDir(a) \in Seq(Names) /\ NoDots(Policy!AppRunDir(a))
        /\ Policy!AppTmpDir(a) \in Seq(Names) /\ NoDots(Policy!AppTmpDir(a))
    BY AppsAreNamed
  <1>2. /\ db \in Seq(Names) /\ NoDots(db) /\ Len(db) >= 1 /\ db[1] \in {"workspace", "app"}
        /\ Policy!AppRunDir(b) \in Seq(Names) /\ Policy!AppTmpDir(b) \in Seq(Names)
    BY AppsAreNamed
  <1>3. ~Policy!IsWithin(db, da)
    BY DEF Policy!LayoutAssumption
  <1> HIDE DEF da, db
  <1>4. g \in {Policy!AppTmpDir(a), Policy!AppRunDir(a), da} /\ p \in {db, Policy!AppRunDir(b), Policy!AppTmpDir(b)}
    BY DEF Theirs, da, db
  <1>5. g \in Seq(Names) /\ Policy!Resolved(g) = g /\ p \in Seq(Names)
    BY <1>1, <1>2, <1>4, ResolvedStays
  <1> SUFFICES ASSUME Policy!IsWithin(p, g) PROVE FALSE
    BY <1>5
  <1>6. Len(g) <= Len(p) /\ \A i \in 1 .. Len(g) : g[i] = p[i]
    BY <1>5, PrefixAgrees
  <1>7. g # Policy!AppTmpDir(a) \/ p # Policy!AppTmpDir(b)
    BY <1>6 DEF Policy!AppTmpDir
  <1>8. g # Policy!AppRunDir(a) \/ p # Policy!AppRunDir(b)
    BY <1>6 DEF Policy!AppRunDir
  <1>9. g # da \/ p # db
    BY <1>3
  <1>10. 1 \in 1 .. Len(g)
    <2>1. CASE g = da
      BY <1>1, <2>1
    <2>2. CASE g = <<"tmp", a>>
      BY <2>2
    <2>3. CASE g = <<"run", "berth", a>>
      BY <2>3
    <2> QED
      BY <1>4, <2>1, <2>2, <2>3, Zenon DEF Policy!AppTmpDir, Policy!AppRunDir
  <1>11. g[1] = p[1]
    BY <1>6, <1>10
  <1>12. Policy!AppTmpDir(a)[1] = "tmp" /\ Policy!AppRunDir(a)[1] = "run"
         /\ Policy!AppTmpDir(b)[1] = "tmp" /\ Policy!AppRunDir(b)[1] = "run"
    BY DEF Policy!AppTmpDir, Policy!AppRunDir
  <1> QED
    BY <1>1, <1>2, <1>4, <1>7, <1>8, <1>9, <1>11, <1>12

\* What an app may declare is what it names.
NamedIn(declared, p, actions) ==
  \E c \in declared :
    /\ c.ns = "filesystem" /\ c.action \in actions
    /\ c.scope.abs /\ c.scope.path # <<>> /\ Policy!IsWithin(p, c.scope.path)

LEMMA DeclaredIsNamed ==
  ASSUME Policy!InputsAssumption, caps \in Declarations, NEW a \in App, NEW c \in Policy!Effective(a),
         c.ns = "filesystem", NEW p, Policy!IsWithin(p, Policy!Resolved(c.scope.path)),
         NEW actions, c.action \in actions
  PROVE  NamedIn(caps[a], p, actions)
  <1> DEFINE q == c.scope.path
  <1>1. c \in caps[a] /\ ~Policy!CapabilityIssue(c)
    BY DEF Policy!Effective
  <1>2. ~Policy!FilesystemScopeIssue(c.scope)
    BY <1>1 DEF Policy!CapabilityIssue, Policy!FilesystemWriteScopeIssue
  <1>3. c.scope.abs /\ q # <<>> /\ \A i \in DOMAIN q : IsName(q[i])
    BY <1>2, Zenon DEF Policy!FilesystemScopeIssue, IsName
  <1>4. q \in Seq(STRING)
    BY <1>1 DEF Policy!InputsAssumption
  <1>5. q \in Seq(Names) /\ DOMAIN q = 1 .. Len(q)
    BY <1>4, PathsOfNames
  <1>6. NoDots(q)
    BY <1>3, <1>5, Zenon DEF NoDots
  <1>7. Policy!Resolved(q) = q
    BY <1>5, <1>6, ResolvedStays
  <1> HIDE DEF q
  <1>8. Policy!IsWithin(p, q)
    BY <1>7, Zenon DEF q
  <1> QED
    BY <1>1, <1>3, <1>8, Zenon DEF NamedIn, q

\* What an app may write that is another's, it declared.
LEMMA WritesAreNamed ==
  ASSUME Policy!LayoutAssumption, Policy!InputsAssumption, caps \in Declarations,
         NEW a \in App, NEW b \in App, a # b, NEW p \in Theirs(b),
         NEW g \in Policy!WritePaths(a), Policy!IsWithin(p, Policy!Resolved(g))
  PROVE  NamedIn(caps[a], p, {"write"})
  <1>1. g \notin Fixed
    BY FixedIsNobodys
  <1>2. g \notin {Policy!AppTmpDir(a), Policy!AppRunDir(a), Dir[a]}
    BY OwnAreApart
  <1>3. \E c \in Policy!Of(a, "filesystem", "write") : g = c.scope.path
    BY <1>1, <1>2 DEF Policy!WritePaths, Policy!BaselineWrite, Policy!TerminalWrite, Fixed
  <1>4. PICK c \in Policy!Of(a, "filesystem", "write") : g = c.scope.path
    BY <1>3
  <1>5. c \in Policy!Effective(a) /\ c.ns = "filesystem" /\ c.action = "write"
    BY DEF Policy!Of
  <1> QED
    BY <1>4, <1>5, DeclaredIsNamed

-----------------------------------------------------------------------------
(* What an app may read: the same, its dependencies and two certificates.   *)

LEMMA LargestNumber ==
  ASSUME NEW m \in Nat, NEW S, S \subseteq 1 .. m, S # {}
  PROVE  Policy!Max(S) \in S /\ \A n \in S : n <= Policy!Max(S)
  <1> DEFINE T == {m - n : n \in S}
  <1>1. T \subseteq Nat /\ T # {}
    <2>1. \A n \in S : m - n \in Nat
      OBVIOUS
    <2>2. PICK n \in S : TRUE
      OBVIOUS
    <2>3. m - n \in T
      BY <2>2
    <2> QED
      BY <2>1, <2>3
  <1>2. PICK k \in T : \A j \in T : k <= j
    BY <1>1, LeastNumber
  <1>3. PICK n \in S : k = m - n
    BY <1>2
  <1>4. ASSUME NEW j \in S PROVE j <= n
    <2>1. k <= m - j
      BY <1>2
    <2> QED
      BY <1>3, <2>1
  <1>5. \E x \in S : \A y \in S : x >= y
    BY <1>4
  <1>6. LET x == CHOOSE x \in S : \A y \in S : x >= y IN x \in S /\ \A y \in S : x >= y
    BY <1>5
  <1> QED
    BY <1>6 DEF Policy!Max

\* The workspace of an app is above it.
LEMMA WorkspaceIsAbove ==
  ASSUME Policy!LayoutAssumption, NEW a \in App, Policy!FindWorkspaceRoot(Dir[a]) # None
  PROVE  LET w == Policy!FindWorkspaceRoot(Dir[a])
         IN  w \in Seq(Names) /\ NoDots(w) /\ Len(w) >= 1 /\ w[1] \in {"workspace", "app"}
  <1> DEFINE d == Dir[a]
             up == {n \in 1 .. Len(d) - 1 : SubSeq(d, 1, n) \in HasWorkspaceYaml}
             m == Policy!Max(up)
  <1>1. d \in Seq(Names) /\ NoDots(d) /\ Len(d) >= 1 /\ d[1] \in {"workspace", "app"}
    BY AppsAreNamed
  <1> HIDE DEF d
  <1>2. up # {} /\ Policy!FindWorkspaceRoot(d) = SubSeq(d, 1, m)
    BY Zenon DEF Policy!FindWorkspaceRoot, d
  <1>3. Len(d) \in Nat
    BY <1>1
  <1>4. m \in up
    BY <1>2, <1>3, LargestNumber
  <1> HIDE DEF m
  <1>5. m \in 1 .. Len(d)
    BY <1>3, <1>4
  <1>6. SubSeq(d, 1, m) \in Seq(Names) /\ Len(SubSeq(d, 1, m)) = m /\ \A i \in 1 .. m : SubSeq(d, 1, m)[i] = d[i]
    BY <1>1, <1>5
  <1> QED
    BY <1>1, <1>2, <1>3, <1>5, <1>6 DEF NoDots, d

LEMMA StoreIsNobodys ==
  ASSUME Policy!LayoutAssumption, NEW a \in App, NEW b \in App, Policy!FindWorkspaceRoot(Dir[a]) # None,
         NEW p \in {Dir[b], Policy!AppRunDir(b)}
  PROVE  ~Policy!IsWithin(p, Policy!Resolved(Policy!Store(Policy!FindWorkspaceRoot(Dir[a]))))
  <1> DEFINE w == Policy!FindWorkspaceRoot(Dir[a])
             s == Policy!Store(w)
  <1>1. w \in Seq(Names) /\ NoDots(w) /\ Len(w) >= 1 /\ w[1] \in {"workspace", "app"}
    BY WorkspaceIsAbove
  <1>2. "node_modules" \in Names /\ ".pnpm" \in Names
    BY DEF Names
  <1>3. IsName("node_modules") /\ IsName(".pnpm")
    BY Zenon DEF IsName
  <1>4. s = w \o <<"node_modules", ".pnpm">>
    BY DEF Policy!Store
  <1>5. Dir[b] \in Seq(Names) /\ \A i \in 1 .. Len(Dir[b]) : Dir[b][i] # "node_modules"
    BY AppsAreNamed
  <1>6. Policy!AppRunDir(b) \in Seq(Names)
    BY AppsAreNamed
  <1> HIDE DEF w, s
  <1>7. <<"node_modules", ".pnpm">> \in Seq(Names)
    BY <1>2
  <1>8. /\ s \in Seq(Names) /\ Len(s) = Len(w) + 2 /\ Len(w) \in Nat
        /\ \A i \in 1 .. Len(w) : s[i] = w[i]
        /\ s[Len(w) + 1] = "node_modules" /\ s[Len(w) + 2] = ".pnpm"
    BY <1>1, <1>4, <1>7
  <1>9. NoDots(s)
    <2> SUFFICES ASSUME NEW i \in 1 .. Len(s) PROVE IsName(s[i])
      BY DEF NoDots
    <2>1. i \in 1 .. Len(w) \/ i = Len(w) + 1 \/ i = Len(w) + 2
      BY <1>8
    <2> QED
      BY <1>1, <1>3, <1>8, <2>1 DEF NoDots
  <1>10. Policy!Resolved(s) = s
    BY <1>8, <1>9, ResolvedStays
  <1> SUFFICES ASSUME Policy!IsWithin(p, s) PROVE FALSE
    BY <1>10 DEF s, w
  <1>11. p \in Seq(Names)
    BY <1>5, <1>6
  <1>12. Len(s) <= Len(p) /\ \A i \in 1 .. Len(s) : s[i] = p[i]
    BY <1>8, <1>11, PrefixAgrees
  <1>13. 1 \in 1 .. Len(s) /\ Len(w) + 1 \in 1 .. Len(s) /\ s[1] = w[1] /\ Len(p) \in Nat
    BY <1>1, <1>8, <1>11
  <1>14. p # Dir[b]
    <2>1. Len(w) + 1 \in 1 .. Len(p)
      BY <1>8, <1>12, <1>13
    <2> QED
      BY <1>5, <1>8, <1>12, <1>13, <2>1
  <1>15. p # Policy!AppRunDir(b)
    <2>1. p[1] = w[1]
      BY <1>12, <1>13
    <2>2. Policy!AppRunDir(b)[1] = "run"
      BY DEF Policy!AppRunDir
    <2> QED
      BY <1>1, <2>1, <2>2
  <1> QED
    BY <1>14, <1>15

\* A path under an allowed prefix is not a runtime directory.
LEMMA AllowedIsNotRun ==
  ASSUME NEW t \in Seq(Names), Policy!IsUnderPrefix(t, Policy!AllowedPrefixes)
  PROVE  Len(t) >= 1 /\ t[1] \in {"workspace", "context", "tmp", "app"}
  <1>1. PICK d \in Policy!AllowedPrefixes : Policy!IsWithin(t, d)
    BY DEF Policy!IsUnderPrefix
  <1>2. PICK x \in {"workspace", "context", "tmp", "app"} : d = <<x>>
    BY DEF Policy!AllowedPrefixes
  <1>3. x \in Names
    BY DEF Names
  <1>4. d \in Seq(Names) /\ 1 \in 1 .. Len(d) /\ d[1] = x /\ Len(d) = 1
    BY <1>2, <1>3
  <1>5. Len(d) <= Len(t) /\ d[1] = t[1]
    BY <1>1, <1>4, PrefixAgrees
  <1> QED
    BY <1>4, <1>5

LEMMA PackageIsNobodys ==
  ASSUME Policy!LayoutAssumption, NEW a \in App, NEW b \in App, NEW t, Policy!IsLibraryOf(t, a),
         Policy!IsUnderPrefix(t, Policy!AllowedPrefixes), NEW p \in {Dir[b], Policy!AppRunDir(b)}
  PROVE  ~Policy!IsWithin(p, Policy!Resolved(t))
  <1>1. t \in HasPackageJson
    BY DEF Policy!IsLibraryOf
  <1>2. Policy!Plain(t) /\ ~Policy!IsWithin(Dir[b], t)
    BY <1>1, Zenon DEF Policy!LayoutAssumption
  <1>3. t \in Seq(Names) /\ Policy!Resolved(t) = t
    BY <1>2, PlainPaths
  <1>4. Len(t) >= 1 /\ t[1] \in {"workspace", "context", "tmp", "app"}
    BY <1>3, AllowedIsNotRun
  <1>5. Policy!AppRunDir(b) \in Seq(Names)
    BY AppsAreNamed
  <1>6. Policy!AppRunDir(b)[1] = "run"
    BY DEF Policy!AppRunDir
  <1>7. ~Policy!IsWithin(Policy!AppRunDir(b), t)
    <2> SUFFICES ASSUME Policy!IsWithin(Policy!AppRunDir(b), t) PROVE FALSE
      OBVIOUS
    <2>1. 1 \in 1 .. Len(t)
      BY <1>3, <1>4
    <2>2. t[1] = "run"
      BY <1>3, <1>5, <1>6, <2>1, PrefixAgrees
    <2> QED
      BY <1>4, <2>2
  <1> QED
    BY <1>2, <1>3, <1>7, Zenon

\* What a link may grant: the store, or a library.
LEMMA GrantsAreAccepted ==
  ASSUME NEW a, NEW q, NEW d \in Policy!Granted(a, q)
  PROVE  /\ Policy!FindWorkspaceRoot(Dir[a]) # None
         /\ Policy!IsUnderPrefix(d.path, Policy!AllowedPrefixes)
         /\ \/ d.path = Policy!Store(Policy!FindWorkspaceRoot(Dir[a])) /\ d.kind = "store"
            \/ Policy!IsLibraryOf(d.path, a) /\ d.kind = "package"
  <1> DEFINE w == Policy!FindWorkspaceRoot(Dir[a])
             Fits(t) == w # None /\ t # <<>> /\ ~Policy!IsWithin(t, Dir[a])
             Kept(e) == e.kind # "refused" /\ Policy!IsUnderPrefix(e.path, Policy!AllowedPrefixes)
  <1>1. Policy!Granted(a, q) = {e \in {Policy!AcceptedDependency(t, w) : t \in {t \in links[q] : Fits(t)}} : Kept(e)}
    BY Zenon DEF Policy!Granted
  <1> HIDE DEF w
  <1>2. PICK t \in {t \in links[q] : Fits(t)} : d = Policy!AcceptedDependency(t, w)
    BY <1>1
  <1>3. Kept(d) /\ w # None
    BY <1>1, <1>2
  <1>4. \/ d = [path |-> Policy!Store(w), kind |-> "store"]
        \/ d = [path |-> t, kind |-> "package"] /\ Policy!Dirname(t) \in Policy!LibraryDirs(w)
             /\ t \in HasPackageJson /\ t \notin HasBerthYml
        \/ d = [path |-> <<>>, kind |-> "refused"]
    BY <1>2, Zenon DEF Policy!AcceptedDependency
  <1>5. d.kind # "refused"
    BY <1>3
  <1>6. \/ d.path = Policy!Store(w) /\ d.kind = "store"
        \/ d.path = t /\ d.kind = "package" /\ Policy!Dirname(t) \in Policy!LibraryDirs(w)
             /\ t \in HasPackageJson \ HasBerthYml
    BY <1>4, <1>5
  <1> QED
    BY <1>3, <1>6, Zenon DEF Policy!IsLibraryOf, w

\* What an app may read that is another's, it declared.
LEMMA ReadsAreNamed ==
  ASSUME Policy!LayoutAssumption, Policy!InputsAssumption, caps \in Declarations, env \in Environment,
         NEW a \in App, NEW b \in App, a # b, NEW p \in {Dir[b], Policy!AppRunDir(b)},
         NEW g \in Policy!ReadPaths(a) \cup Policy!HttpRpcTlsReadPaths(a), Policy!IsWithin(p, Policy!Resolved(g))
  PROVE  NamedIn(caps[a], p, {"read", "write"})
  <1>1. p \in Theirs(b)
    BY DEF Theirs
  <1>2. g \notin Fixed
    BY <1>1, FixedIsNobodys
  <1>3. g \notin {Policy!AppTmpDir(a), Policy!AppRunDir(a), Dir[a]}
    BY <1>1, OwnAreApart
  <1>4. /\ p \in Seq(Names) /\ p[1] \in {"workspace", "app", "run"}
        /\ p # Policy!GithubCertDir /\ (p[1] = "run" => p = Policy!AppRunDir(b))
    <2>1. Dir[b] \in Seq(Names) /\ Dir[b][1] \in {"workspace", "app"} /\ Policy!AppRunDir(b) \in Seq(Names)
          /\ b # "github-api-broker"
      BY AppsAreNamed
    <2>2. Policy!AppRunDir(b)[1] = "run" /\ Policy!AppRunDir(b)[3] = b
      BY DEF Policy!AppRunDir
    <2>3. Policy!GithubCertDir[1] = "run" /\ Policy!GithubCertDir[3] = "github-api-broker"
      BY DEF Policy!GithubCertDir
    <2> QED
      BY <2>1, <2>2, <2>3
  <1>5. g # <<"tmp">>
    <2> SUFFICES ASSUME g = <<"tmp">> PROVE FALSE
      OBVIOUS
    <2>1. "tmp" \in Names
      BY DEF Names
    <2>2. IsName("tmp")
      BY Zenon DEF IsName
    <2>3. <<"tmp">> \in Seq(Names) /\ 1 \in 1 .. Len(<<"tmp">>) /\ <<"tmp">>[1] = "tmp"
      BY <2>1
    <2>4. NoDots(<<"tmp">>)
      BY <2>2, NoDotsIn
    <2>5. Policy!Resolved(g) = g
      BY <2>3, <2>4, ResolvedStays
    <2>6. p[1] = "tmp"
      BY <1>4, <2>3, <2>5, PrefixAgrees
    <2> QED
      BY <1>4, <2>6
  <1>6. g # Policy!GithubCertDir
    <2> SUFFICES ASSUME g = Policy!GithubCertDir PROVE FALSE
      OBVIOUS
    <2>1. "run" \in Names /\ "berth" \in Names /\ "github-api-broker" \in Names
      BY DEF Names
    <2>2. IsName("run") /\ IsName("berth") /\ IsName("github-api-broker")
      BY Zenon DEF IsName
    <2> DEFINE c == Policy!GithubCertDir
    <2>3. c \in Seq(Names) /\ Len(c) = 3 /\ c[1] = "run" /\ c[3] = "github-api-broker"
      BY <2>1 DEF Policy!GithubCertDir
    <2>4. NoDots(c)
      BY <2>2, NoDotsIn DEF Policy!GithubCertDir
    <2> HIDE DEF c
    <2>5. Policy!Resolved(c) = c
      BY <2>3, <2>4, ResolvedStays
    <2>6. Policy!IsWithin(p, c)
      BY <2>5 DEF c
    <2>7. \A i \in 1 .. Len(c) : c[i] = p[i]
      BY <1>4, <2>3, <2>6, PrefixAgrees
    <2>8. p[1] = "run" /\ p[3] = "github-api-broker"
      BY <2>3, <2>7
    <2>9. p = Policy!AppRunDir(b) /\ b # "github-api-broker"
      BY <1>4, <2>8, AppsAreNamed
    <2> QED
      BY <2>8, <2>9 DEF Policy!AppRunDir
  <1>7. g \notin Policy!DependencyReadPaths(a)
    <2> SUFFICES ASSUME g \in Policy!DependencyReadPaths(a) PROVE FALSE
      OBVIOUS
    <2>1. PICK d \in UNION {Policy!Granted(a, q) : q \in Policy!Scanned(a)} : g = d.path
      BY DEF Policy!DependencyReadPaths
    <2>2. PICK q \in Policy!Scanned(a) : d \in Policy!Granted(a, q)
      BY <2>1
    <2>3. /\ Policy!FindWorkspaceRoot(Dir[a]) # None /\ Policy!IsUnderPrefix(g, Policy!AllowedPrefixes)
          /\ g = Policy!Store(Policy!FindWorkspaceRoot(Dir[a])) \/ Policy!IsLibraryOf(g, a)
      BY <2>1, <2>2, GrantsAreAccepted
    <2> QED
      BY <2>3, StoreIsNobodys, PackageIsNobodys
  <1>8. g \notin Policy!HttpRpcTlsReadPaths(a)
    <2> SUFFICES ASSUME g \in Policy!HttpRpcTlsReadPaths(a) PROVE FALSE
      OBVIOUS
    <2>1. env.tls # None /\ g = env.tls
      BY DEF Policy!HttpRpcTlsReadPaths
    <2>2. Policy!Plain(g) /\ ~Policy!IsWithin(Dir[b], g) /\ ~Policy!IsWithin(Policy!AppRunDir(b), g)
      BY <2>1, Zenon DEF Policy!InputsAssumption
    <2> QED
      BY <2>2, PlainPaths
  <1>9. CASE g \in Policy!WritePaths(a)
    <2>1. NamedIn(caps[a], p, {"write"})
      BY <1>1, <1>9, WritesAreNamed
    <2> QED
      BY <2>1 DEF NamedIn
  <1>10. CASE g \in {c.scope.path : c \in Policy!Of(a, "filesystem", "read")}
    <2>1. PICK c \in Policy!Of(a, "filesystem", "read") : g = c.scope.path
      BY <1>10
    <2>2. c \in Policy!Effective(a) /\ c.ns = "filesystem" /\ c.action = "read"
      BY DEF Policy!Of
    <2> QED
      BY <2>1, <2>2, DeclaredIsNamed
  <1> QED
    BY <1>2, <1>3, <1>5, <1>6, <1>7, <1>8, <1>9, <1>10 DEF Policy!ReadPaths, Policy!BaselineRead, Fixed

-----------------------------------------------------------------------------
(* The policies that are in force keep the apps apart.                      *)

Apart(declared, terms, b) ==
  /\ \A p \in Theirs(b) : Policy!Reaches(terms.write, p) => NamedIn(declared, p, {"write"})
  /\ \A p \in {Dir[b], Policy!AppRunDir(b)} : Policy!Reaches(terms.read, p) => NamedIn(declared, p, {"read", "write"})

PolicyInv ==
  /\ caps \in Declarations /\ env \in Environment
  /\ DOMAIN policy = App
  /\ Policy!KeepsApart

\* However its links lead, an app reaches what is another's only where its own
\* manifest names it, in every policy the entrypoint compiles.
THEOREM PoliciesKeepApart ==
  ASSUME Policy!LayoutAssumption, Policy!InputsAssumption
  PROVE  Policy!Spec => []Policy!KeepsApart
  <1>1. Policy!Init => PolicyInv
    BY DEF Policy!Init, PolicyInv, Policy!KeepsApart
  <1>2. PolicyInv /\ [Policy!Next]_Policy!vars => PolicyInv'
    <2> SUFFICES ASSUME PolicyInv, [Policy!Next]_Policy!vars PROVE PolicyInv'
      OBVIOUS
    <2> USE DEF PolicyInv
    <2>1. ASSUME UNCHANGED <<caps, policy>>, UNCHANGED env PROVE PolicyInv'
      BY <2>1 DEF Policy!KeepsApart, Policy!Named
    <2>2. ASSUME NEW e \in App, Policy!Boot(e) PROVE PolicyInv'
      <3>1. /\ caps' = caps /\ env' = env /\ DOMAIN policy' = App
            /\ policy'[e] = Policy!CompileCapabilityPolicy(e)
            /\ \A a \in App : a # e => policy'[a] = policy[a]
        BY <2>2 DEF Policy!Boot
      <3>2. \A a, b \in App : a # b /\ policy[a] # None => Apart(caps[a], policy[a], b)
        BY Zenon DEF Policy!KeepsApart, Policy!Named, NamedIn, Theirs, Apart
      <3>3. ASSUME NEW b \in App, e # b PROVE Apart(caps[e], policy'[e], b)
        <4> DEFINE pol == Policy!CompileCapabilityPolicy(e)
        <4>1. pol.write = Policy!WritePaths(e) /\ pol.read = Policy!ReadPaths(e) \cup Policy!HttpRpcTlsReadPaths(e)
          BY Zenon DEF Policy!CompileCapabilityPolicy
        <4> HIDE DEF pol
        <4>2. ASSUME NEW p \in Theirs(b), Policy!Reaches(pol.write, p) PROVE NamedIn(caps[e], p, {"write"})
          <5>1. PICK g \in Policy!WritePaths(e) : Policy!IsWithin(p, Policy!Resolved(g))
            BY <4>1, <4>2, Zenon DEF Policy!Reaches
          <5> QED
            BY <3>3, <4>2, <5>1, WritesAreNamed
        <4>3. ASSUME NEW p \in {Dir[b], Policy!AppRunDir(b)}, Policy!Reaches(pol.read, p)
              PROVE  NamedIn(caps[e], p, {"read", "write"})
          <5>1. PICK g \in Policy!ReadPaths(e) \cup Policy!HttpRpcTlsReadPaths(e) : Policy!IsWithin(p, Policy!Resolved(g))
            BY <4>1, <4>3, Zenon DEF Policy!Reaches
          <5> QED
            BY <3>3, <4>3, <5>1, ReadsAreNamed
        <4>4. Apart(caps[e], pol, b)
          BY <4>2, <4>3, Zenon DEF Apart
        <4> QED
          BY <3>1, <4>4, Zenon DEF pol
      <3>5. \A a, b \in App : a # b /\ policy'[a] # None => Apart(caps'[a], policy'[a], b)
        BY <3>1, <3>2, <3>3, Zenon
      <3>4. Policy!KeepsApart'
        BY <3>5, Zenon DEF Policy!KeepsApart, Policy!Named, NamedIn, Theirs, Apart
      <3> QED
        BY <3>1, <3>4
    <2>3. ASSUME NEW q \in Linked, NEW ts \in Policy!AtMostOneOf(Target), Policy!Relink(q, ts) PROVE PolicyInv'
      BY <2>1, <2>3 DEF Policy!Relink
    <2> QED
      BY <2>1, <2>2, <2>3 DEF Policy!Next, Policy!vars
  <1> QED
    BY <1>1, <1>2, PTL DEF Policy!Spec, PolicyInv

-----------------------------------------------------------------------------
(* The libraries an app depends on are scanned, so it may load them.        *)

\* What the packages of S lead to.
Reached(a, S) ==
  Policy!Holders \cap {d.path : d \in {d \in UNION {Policy!Granted(a, q) : q \in S} : d.kind = "package"}}

LEMMA ScanIsDefined ==
  ASSUME Policy!PackagesAssumption, NEW a \in App
  PROVE  \E g : /\ Cardinality(Package) \in Nat
                /\ \A n \in 0 .. Cardinality(Package) : g[n] = IF n = 0 THEN {Dir[a]} ELSE g[n - 1] \cup Reached(a, g[n - 1])
                /\ Policy!Scanned(a) = g[Cardinality(Package)]
  <1> DEFINE m == Cardinality(Package)
             S == SUBSET Policy!Holders
             base == {Dir[a]}
             step == [x \in (1 .. m) \X S |-> x[2] \cup Reached(a, x[2])]
             Defines(g) == g = [n \in 0 .. m |-> IF n = 0 THEN {Dir[a]} ELSE g[n - 1] \cup Reached(a, g[n - 1])]
             h == CHOOSE g : Defines(g)
  <1>1. Policy!Cardinality(Package) = m
    BY DEF Policy!Cardinality, Cardinality, Policy!IsFiniteSet, IsFiniteSet
  <1>2. m \in Nat
    <2>1. IsFiniteSet(Package)
      BY DEF Policy!PackagesAssumption, Policy!IsFiniteSet, IsFiniteSet
    <2> QED
      BY <2>1, FS_CardinalityType
  <1>3. base \in S
    BY DEF Policy!Holders
  <1> HIDE DEF m
  <1>4. ASSUME NEW s \in S, NEW n \in 1 .. m
        PROVE  step[<<n, s>>] = s \cup Reached(a, s) /\ step[<<n, s>>] \in S
    BY DEF Reached
  <1>5. step \in [(1 .. m) \X S -> S]
    <2> SUFFICES ASSUME NEW x \in (1 .. m) \X S PROVE x[2] \cup Reached(a, x[2]) \in S
      OBVIOUS
    <2> QED
      BY DEF Reached
  <1> HIDE DEF S, step, base
  <1>6. HasRun(m, S, base, step)
    BY <1>2, <1>3, <1>5, RunExists
  <1>7. PICK g \in [0 .. m -> S] : \A n \in 0 .. m : g[n] = RunStep(g, n, base, step)
    BY <1>6 DEF HasRun
  <1>8. Defines(g)
    <2>1. ASSUME NEW n \in 0 .. m PROVE g[n] = IF n = 0 THEN {Dir[a]} ELSE g[n - 1] \cup Reached(a, g[n - 1])
      <3>1. CASE n = 0
        BY <1>7, <3>1 DEF RunStep, base
      <3>2. CASE n # 0
        <4>1. n \in 1 .. m /\ n - 1 \in 0 .. m
          BY <1>2, <3>2
        <4>2. g[n - 1] \in S /\ g[n] = step[<<n, g[n - 1]>>]
          BY <1>7, <3>2, <4>1 DEF RunStep
        <4> QED
          BY <1>4, <3>2, <4>1, <4>2
      <3> QED
        BY <3>1, <3>2
    <2> QED
      BY <1>7, <2>1
  <1>9. Defines(h)
    <2> HIDE DEF Defines
    <2> QED
      BY <1>8
  <1>10. Policy!Scanned(a) = h[m]
    BY <1>1, Zenon DEF Policy!Scanned, Reached
  <1> HIDE DEF h
  <1>11. \A n \in 0 .. m : h[n] = IF n = 0 THEN {Dir[a]} ELSE h[n - 1] \cup Reached(a, h[n - 1])
    BY <1>9
  <1> QED
    BY <1>2, <1>10, <1>11 DEF m

\* The libraries its directory leads to.
Direct(a) == {t \in links[Dir[a]] : t \in Package /\ Policy!Library(t)}

LEMMA LibrariesAreGranted ==
  ASSUME Policy!PackagesAssumption, NEW a \in App, NEW q, NEW t \in links[q], t \in Package, Policy!Library(t)
  PROVE  [path |-> t, kind |-> "package"] \in Policy!Granted(a, q)
  <1> DEFINE w == Policy!FindWorkspaceRoot(Dir[a])
             d == [path |-> t, kind |-> "package"]
  <1>1. t \in HasPackageJson \ HasBerthYml
    BY DEF Policy!Library
  <1>2. /\ Policy!IsLibraryOf(t, a) /\ t # <<>> /\ Policy!IsUnderPrefix(t, Policy!AllowedPrefixes)
        /\ ~Policy!IsWithin(t, Dir[a]) /\ ~Policy!IsWithin(t, Policy!Store(w))
    BY <1>1, Zenon DEF Policy!PackagesAssumption
  <1>3. w # None /\ Policy!Dirname(t) \in Policy!LibraryDirs(w)
    BY <1>2, Zenon DEF Policy!IsLibraryOf
  <1>4. Policy!AcceptedDependency(t, w) = d
    BY <1>1, <1>2, <1>3, Zenon DEF Policy!AcceptedDependency
  <1>5. d.path = t /\ d.kind = "package"
    OBVIOUS
  <1>6. d.kind # "refused"
    BY <1>5
  <1> HIDE DEF d
  <1> QED
    BY <1>2, <1>3, <1>4, <1>5, <1>6, Zenon DEF Policy!Granted, w, d

LEMMA DirectIsScanned ==
  ASSUME Policy!PackagesAssumption, NEW a \in App
  PROVE  Dir[a] \in Policy!Scanned(a) /\ Direct(a) \subseteq Policy!Scanned(a)
  <1> DEFINE m == Cardinality(Package)
  <1>1. PICK g : /\ m \in Nat
                 /\ \A n \in 0 .. m : g[n] = IF n = 0 THEN {Dir[a]} ELSE g[n - 1] \cup Reached(a, g[n - 1])
                 /\ Policy!Scanned(a) = g[m]
    BY ScanIsDefined, Zenon
  <1>2. Direct(a) = {} \/ m # 0
    <2> SUFFICES ASSUME NEW t \in Direct(a), m = 0 PROVE FALSE
      OBVIOUS
    <2>1. t \in Package
      BY DEF Direct
    <2>2. IsFiniteSet(Package)
      BY DEF Policy!PackagesAssumption, Policy!IsFiniteSet, IsFiniteSet
    <2>3. Package = {}
      BY <2>2, FS_EmptySet
    <2> QED
      BY <2>1, <2>3
  <1> HIDE DEF m
  <1>3. Direct(a) \subseteq Reached(a, {Dir[a]})
    <2> SUFFICES ASSUME NEW t \in Direct(a) PROVE t \in Reached(a, {Dir[a]})
      OBVIOUS
    <2> DEFINE d == [path |-> t, kind |-> "package"]
    <2>1. t \in links[Dir[a]] /\ t \in Package /\ Policy!Library(t)
      BY DEF Direct
    <2>2. d \in Policy!Granted(a, Dir[a])
      BY <2>1, LibrariesAreGranted
    <2>3. d.path = t /\ d.kind = "package"
      OBVIOUS
    <2>4. t \in Policy!Holders
      BY <2>1 DEF Policy!Holders
    <2> HIDE DEF d
    <2> QED
      BY <2>2, <2>3, <2>4 DEF Reached
  <1> DEFINE B == {n \in Nat : n <= m => Dir[a] \in g[n] /\ (n # 0 => Direct(a) \subseteq g[n])}
  <1>0. g[0] = {Dir[a]}
    <2>1. 0 \in 0 .. m
      BY <1>1
    <2> QED
      BY <1>1, <2>1
  <1>4. 0 \in B
    BY <1>0
  <1>5. ASSUME NEW n \in Nat, n \in B PROVE n + 1 \in B
    <2> SUFFICES ASSUME n + 1 <= m PROVE Dir[a] \in g[n + 1] /\ Direct(a) \subseteq g[n + 1]
      OBVIOUS
    <2>1. n + 1 \in 0 .. m /\ n + 1 # 0 /\ (n + 1) - 1 = n /\ n \in 0 .. m /\ n <= m
      BY <1>1
    <2>2. g[n + 1] = g[n] \cup Reached(a, g[n])
      BY <1>1, <2>1
    <2>3. CASE n = 0
      BY <1>0, <1>3, <2>2, <2>3
    <2>4. CASE n # 0
      BY <1>5, <2>1, <2>2, <2>4
    <2> QED
      BY <2>3, <2>4
  <1> HIDE DEF B
  <1>6. m \in B
    BY <1>1, <1>4, <1>5, SetInduction
  <1> QED
    BY <1>1, <1>2, <1>6 DEF B

LEMMA DependsIsReadable ==
  ASSUME Policy!PackagesAssumption, NEW a \in App, NEW t \in Policy!Depends(a)
  PROVE  t \in Policy!DependencyReadPaths(a) /\ Policy!IsLibraryOf(t, a) /\ t \in HasPackageJson
  <1> DEFINE d == [path |-> t, kind |-> "package"]
  <1>1. \/ t \in Direct(a)
        \/ \E q \in Direct(a) : t \in links[q] /\ t \in Package /\ Policy!Library(t)
    BY DEF Policy!Depends, Direct
  <1>2. PICK q \in Policy!Scanned(a) : t \in links[q] /\ t \in Package /\ Policy!Library(t)
    BY <1>1, DirectIsScanned DEF Direct
  <1>3. d \in Policy!Granted(a, q)
    BY <1>2, LibrariesAreGranted
  <1>4. d.path = t
    OBVIOUS
  <1> HIDE DEF d
  <1>5. t \in HasPackageJson \ HasBerthYml
    BY <1>2 DEF Policy!Library
  <1>6. Policy!IsLibraryOf(t, a)
    BY <1>2, <1>5, Zenon DEF Policy!PackagesAssumption
  <1> QED
    BY <1>2, <1>3, <1>4, <1>5, <1>6 DEF Policy!DependencyReadPaths

LEMMA ReachesItself ==
  ASSUME NEW S, NEW p \in S, p \in Seq(Names), NoDots(p)
  PROVE  Policy!Reaches(S, p)
  BY ResolvedStays, WithinItself DEF Policy!Reaches

\* A capability of another kind than a path's is never refused.
LEMMA OthersAreEffective ==
  ASSUME NEW a, NEW c \in caps[a], c.ns # "filesystem"
  PROVE  c \in Policy!Effective(a)
  BY Zenon DEF Policy!Effective, Policy!CapabilityIssue

LEMMA BootLetsItRun ==
  ASSUME Policy!LayoutAssumption, Policy!InputsAssumption, Policy!PackagesAssumption,
         env \in Environment, DOMAIN policy = App, NEW a \in App, Policy!Boot(a)
  PROVE  /\ \A p \in Policy!Depends(a) \cup {Dir[a], Policy!AppTmpDir(a), Policy!AppRunDir(a)} :
              Policy!Reaches(policy'[a].read, p)
         /\ (env.port # None /\ (env.serves = None \/ env.serves = a)) =>
              /\ env.port \in policy'[a].bind
              /\ env.tls # None => Policy!Reaches(policy'[a].read, env.tls)
         /\ \A c \in caps[a] :
              /\ c.ns = "terminal" => Policy!TerminalPort \in policy'[a].bind /\ Policy!Reaches(policy'[a].write, <<"dev", "pts">>)
              /\ c.ns = "github" => Policy!Reaches(policy'[a].read, Policy!GithubCertDir)
              /\ c.ns = "network" /\ c.action = "peer" => Policy!CoordinatorPort \in policy'[a].connect
  <1> DEFINE pol == Policy!CompileCapabilityPolicy(a)
             readable == Policy!ReadPaths(a) \cup Policy!HttpRpcTlsReadPaths(a)
  <1>1. policy'[a] = pol
    BY DEF Policy!Boot
  <1>2. /\ pol.write = Policy!WritePaths(a) /\ pol.read = readable
        /\ pol.connect = Policy!Ports(Policy!Of(a, "network", "connect"))
                 \cup (IF Policy!Of(a, "network", "peer") # {} THEN {Policy!CoordinatorPort} ELSE {})
        /\ pol.bind = Policy!Ports(Policy!Of(a, "network", "bind")) \cup Policy!ComputeBindPorts(a)
    BY Zenon DEF Policy!CompileCapabilityPolicy
  <1> HIDE DEF pol
  <1>3. ASSUME NEW p \in Policy!Depends(a) PROVE Policy!Reaches(readable, p)
    <2>1. p \in readable /\ Policy!IsLibraryOf(p, a) /\ p \in HasPackageJson
      BY DependsIsReadable DEF Policy!ReadPaths
    <2>2. Policy!Plain(p)
      BY <2>1, Zenon DEF Policy!LayoutAssumption
    <2> QED
      BY <2>1, <2>2, PlainPaths, ReachesItself
  <1>4. Policy!Reaches(readable, Dir[a]) /\ Policy!Reaches(readable, Policy!AppRunDir(a))
    <2>1. Dir[a] \in readable /\ Policy!AppRunDir(a) \in readable
      BY DEF Policy!ReadPaths, Policy!BaselineRead
    <2>2. Dir[a] \in Seq(Names) /\ NoDots(Dir[a]) /\ Policy!AppRunDir(a) \in Seq(Names) /\ NoDots(Policy!AppRunDir(a))
      BY AppsAreNamed
    <2> QED
      BY <2>1, <2>2, ReachesItself
  <1>5. Policy!Reaches(readable, Policy!AppTmpDir(a))
    <2>1. <<"tmp">> \in readable
      BY DEF Policy!ReadPaths, Policy!BaselineRead
    <2>2. "tmp" \in Names
      BY DEF Names
    <2>3. IsName("tmp")
      BY Zenon DEF IsName
    <2>4. <<"tmp">> \in Seq(Names)
      BY <2>2
    <2>5. NoDots(<<"tmp">>)
      BY <2>3, NoDotsIn, Zenon
    <2>6. Policy!Resolved(<<"tmp">>) = <<"tmp">>
      BY <2>4, <2>5, ResolvedStays
    <2>7. Policy!IsWithin(Policy!AppTmpDir(a), <<"tmp">>)
      <3>1. Policy!AppTmpDir(a) \in Seq(Names) /\ Policy!AppTmpDir(a)[1] = "tmp" /\ Len(Policy!AppTmpDir(a)) = 2
        BY AppsAreNamed DEF Policy!AppTmpDir
      <3>2. Len(<<"tmp">>) = 1 /\ <<"tmp">>[1] = "tmp"
        OBVIOUS
      <3>3. \A i \in 1 .. Len(<<"tmp">>) : <<"tmp">>[i] = Policy!AppTmpDir(a)[i]
        BY <3>1, <3>2
      <3>4. Len(<<"tmp">>) <= Len(Policy!AppTmpDir(a))
        BY <3>1, <3>2
      <3> QED
        BY <2>4, <3>1, <3>3, <3>4, WithinByNames, Zenon
    <2> QED
      BY <2>1, <2>6, <2>7, Zenon DEF Policy!Reaches
  <1>6. ASSUME env.port # None, env.serves = None \/ env.serves = a
        PROVE  env.port \in pol.bind /\ (env.tls # None => Policy!Reaches(readable, env.tls))
    <2>1. Policy!ServesBridge(a)
      BY <1>6 DEF Policy!ServesBridge
    <2>2. env.port \in pol.bind
      BY <1>2, <2>1 DEF Policy!ComputeBindPorts
    <2>3. ASSUME env.tls # None PROVE Policy!Reaches(readable, env.tls)
      <3>1. env.tls \in readable
        BY <2>1, <2>3 DEF Policy!HttpRpcTlsReadPaths
      <3>2. Policy!Plain(env.tls)
        BY <2>3, Zenon DEF Policy!InputsAssumption
      <3> QED
        BY <3>1, <3>2, PlainPaths, ReachesItself
    <2> QED
      BY <2>2, <2>3
  <1>7. ASSUME NEW c \in caps[a], c.ns = "terminal"
        PROVE  Policy!TerminalPort \in pol.bind /\ Policy!Reaches(pol.write, <<"dev", "pts">>)
    <2>1. c \in Policy!Effective(a)
      <3>1. "terminal" # "filesystem"
        OBVIOUS
      <3> QED
        BY <1>7, <3>1, OthersAreEffective
    <2>2. Policy!TerminalPort \in pol.bind
      BY <1>2, <1>7 DEF Policy!ComputeBindPorts
    <2>3. <<"dev", "pts">> \in pol.write
      BY <1>2, <1>7, <2>1 DEF Policy!WritePaths, Policy!TerminalWrite
    <2>4. "dev" \in Names /\ "pts" \in Names
      BY DEF Names
    <2>5. IsName("dev") /\ IsName("pts")
      BY Zenon DEF IsName
    <2>6. <<"dev", "pts">> \in Seq(Names)
      BY <2>4
    <2>7. NoDots(<<"dev", "pts">>)
      BY <2>5, NoDotsIn, Zenon
    <2> QED
      BY <2>2, <2>3, <2>6, <2>7, ReachesItself
  <1>8. ASSUME NEW c \in caps[a], c.ns = "github" PROVE Policy!Reaches(readable, Policy!GithubCertDir)
    <2>1. c \in Policy!Effective(a)
      <3>1. "github" # "filesystem"
        OBVIOUS
      <3> QED
        BY <1>8, <3>1, OthersAreEffective
    <2>2. Policy!GithubCertDir \in readable
      BY <1>8, <2>1 DEF Policy!ReadPaths
    <2>4. "run" \in Names /\ "berth" \in Names /\ "github-api-broker" \in Names
      BY DEF Names
    <2>5. IsName("run") /\ IsName("berth") /\ IsName("github-api-broker")
      BY Zenon DEF IsName
    <2>6. Policy!GithubCertDir \in Seq(Names)
      BY <2>4 DEF Policy!GithubCertDir
    <2>7. NoDots(Policy!GithubCertDir)
      BY <2>5, NoDotsIn, Zenon DEF Policy!GithubCertDir
    <2> QED
      BY <2>2, <2>6, <2>7, ReachesItself
  <1>9. ASSUME NEW c \in caps[a], c.ns = "network", c.action = "peer" PROVE Policy!CoordinatorPort \in pol.connect
    <2>1. c \in Policy!Effective(a)
      <3>1. "network" # "filesystem"
        OBVIOUS
      <3> QED
        BY <1>9, <3>1, OthersAreEffective
    <2>2. c \in Policy!Of(a, "network", "peer")
      BY <1>9, <2>1 DEF Policy!Of
    <2> QED
      BY <1>2, <2>2
  <1> HIDE DEF readable
  <1> QED
    BY <1>1, <1>2, <1>3, <1>4, <1>5, <1>6, <1>7, <1>8, <1>9, Zenon

\* The policy an app is started under lets it load its libraries, serve the
\* bridge and use the terminal, certificate and coordinator it declared.
THEOREM BootsLetThemRun ==
  ASSUME Policy!LayoutAssumption, Policy!InputsAssumption, Policy!PackagesAssumption
  PROVE  Policy!Spec => [][Policy!BootStep]_Policy!vars
  <1> DEFINE Inv == env \in Environment /\ DOMAIN policy = App
  <1>1. Policy!Init => Inv
    BY DEF Policy!Init
  <1>2. Inv /\ [Policy!Next]_Policy!vars => Inv'
    BY DEF Policy!Next, Policy!vars, Policy!Boot, Policy!Relink
  <1>3. Inv /\ [Policy!Next]_Policy!vars => [Policy!BootStep]_Policy!vars
    BY BootLetsItRun, Zenon DEF Policy!BootStep
  <1> QED
    BY <1>1, <1>2, <1>3, PTL DEF Policy!Spec
-----------------------------------------------------------------------------
(* The notes app.  Of one dead process nobody breaks a lock before it died, *)
(* so the second lock is a live process's; and where two of three died, the *)
(* one that lives has nobody to take a lock from it.                        *)

NotesTypes ==
  /\ DOMAIN pc = Proc /\ DOMAIN lock = Notes!Path /\ DOMAIN list = Proc /\ DOMAIN note = Proc
  /\ DOMAIN mine = Proc /\ \A p \in Proc : DOMAIN mine[p] = Notes!Path
  /\ dead \subseteq Proc

IsLock(l) == l = [ino |-> l.ino, by |-> l.by, written |-> l.written]

LocksAreLocks == \A f \in Notes!Path : lock[f] # None => IsLock(lock[f])

OneDead == \A p, q \in dead : p = q
OneLives == \A p, q \in Proc \ dead : p = q

DeadAreDead == \A p \in Proc : p \in dead <=> pc[p] = "dead"

Holds(p, f) == lock[f] # None /\ lock[f].by = p /\ lock[f].ino = mine[p][f]

HoldsMain ==
  \A p \in Proc : pc[p] \in {"own", "read", "write", "release", "remove"} =>
    Holds(p, "main") /\ (pc[p] # "own" => lock["main"].written)

HoldsBreak ==
  \A p \in Proc : pc[p] \in {"ownBreak", "recheck", "unlink", "releaseBreak", "removeBreak"} =>
    Holds(p, "break") /\ (pc[p] # "ownBreak" => lock["break"].written)

\* The lock that is about to be unlinked is a dead process's.
UnlinksADeadOnes == \A p \in Proc : pc[p] = "unlink" => lock["main"] # None /\ lock["main"].by \in dead

\* Nobody breaks a lock before a process died.
BreaksAfterADeath ==
  OneDead =>
    /\ lock["break"] # None => dead # {} /\ lock["break"].by \notin dead
    /\ \A p \in Proc : pc[p] \in {"break", "lookBreak", "ownBreak", "recheck", "unlink", "releaseBreak", "removeBreak"} => dead # {}

\* A process that takes the second lock away is the only one that lives.
TakesItAlone == \A p \in Proc : pc[p] \in {"lookBreakAgain", "unlinkBreak"} => \A q \in Proc : q # p => q \in dead

\* What is read under the lock is what is there, and what is acknowledged too.
ListsAreWhole ==
  /\ acked \subseteq notes
  /\ \A p \in Proc : pc[p] = "write" => notes \subseteq list[p] /\ note[p] \in list[p]
  /\ \A p \in Proc : pc[p] \in {"release", "remove"} /\ list[p] # {} => note[p] \in notes

NotesParts ==
  /\ LocksAreLocks /\ HoldsMain /\ HoldsBreak /\ UnlinksADeadOnes /\ BreaksAfterADeath /\ TakesItAlone /\ ListsAreWhole

\* What is at the path of a lock file is no absence; the processes are so many.
NotesAssumption == IsFiniteSet(Proc) /\ "ino" \notin DOMAIN None

\* A lock file that was created is one.
LEMMA LockIsThere ==
  ASSUME NotesAssumption, NEW i, NEW p, NEW w
  PROVE  /\ [ino |-> i, by |-> p, written |-> w] # None
         /\ [ino |-> i, by |-> p, written |-> w].ino = i
         /\ [ino |-> i, by |-> p, written |-> w].by = p
         /\ [ino |-> i, by |-> p, written |-> w].written = w
         /\ IsLock([ino |-> i, by |-> p, written |-> w])
  <1>1. "ino" \in DOMAIN [ino |-> i, by |-> p, written |-> w]
    OBVIOUS
  <1>2. [ino |-> i, by |-> p, written |-> w] # None
    BY <1>1 DEF NotesAssumption
  <1> QED
    BY <1>2 DEF IsLock

\* One whose owner is written is the same one.
LEMMA WrittenLock ==
  ASSUME NotesAssumption, NEW l, IsLock(l), NEW w, NEW k, k = [l EXCEPT !.written = w]
  PROVE  k # None /\ k.ino = l.ino /\ k.by = l.by /\ k.written = w /\ IsLock(k)
  <1>1. PICK i : i = l.ino
    OBVIOUS
  <1>2. PICK b : b = l.by
    OBVIOUS
  <1>3. k = [ino |-> i, by |-> b, written |-> w]
    BY <1>1, <1>2 DEF IsLock
  <1>4. /\ [ino |-> i, by |-> b, written |-> w] # None /\ IsLock([ino |-> i, by |-> b, written |-> w])
        /\ [ino |-> i, by |-> b, written |-> w].ino = i /\ [ino |-> i, by |-> b, written |-> w].by = b
        /\ [ino |-> i, by |-> b, written |-> w].written = w
    BY LockIsThere
  <1> HIDE DEF IsLock
  <1> QED
    BY <1>1, <1>2, <1>3, <1>4

\* What the writing of the owner leaves.
LEMMA OwnLeaves ==
  ASSUME NotesAssumption, NotesTypes, LocksAreLocks, NEW p \in Proc, NEW f \in Notes!Path, Holds(p, f),
         lock' = [lock EXCEPT ![f].written = TRUE]
  PROVE  /\ lock'[f] # None /\ lock'[f].by = p /\ lock'[f].ino = mine[p][f] /\ lock'[f].written /\ IsLock(lock'[f])
         /\ DOMAIN lock' = Notes!Path
         /\ \A g \in Notes!Path : g # f => lock'[g] = lock[g]
  <1>1. PICK w : w = TRUE
    OBVIOUS
  <1>2. lock' = [lock EXCEPT ![f] = [lock[f] EXCEPT !.written = w]]
    BY <1>1
  <1>3. PICK k : k = [lock[f] EXCEPT !.written = w]
    OBVIOUS
  <1>4. IsLock(lock[f])
    BY DEF LocksAreLocks, Holds
  <1>5. k # None /\ k.ino = lock[f].ino /\ k.by = lock[f].by /\ k.written = w /\ IsLock(k)
    BY <1>3, <1>4, WrittenLock
  <1>6. lock' = [lock EXCEPT ![f] = k]
    BY <1>2, <1>3
  <1>7. lock'[f] = k /\ DOMAIN lock' = Notes!Path /\ \A g \in Notes!Path : g # f => lock'[g] = lock[g]
    BY <1>6 DEF NotesTypes
  <1>8. k.written
    BY <1>1, <1>5
  <1> QED
    BY <1>5, <1>7, <1>8 DEF Holds

LEMMA NotesStep ==
  ASSUME NotesAssumption, NotesTypes, DeadAreDead, NotesParts, OneDead \/ OneLives, Notes!Next
  PROVE  NotesParts'
  <1> USE DEF Notes!Go, Notes!Path
  <1>0. LocksAreLocks /\ HoldsMain /\ HoldsBreak /\ UnlinksADeadOnes /\ BreaksAfterADeath /\ TakesItAlone /\ ListsAreWhole
    BY DEF NotesParts
  <1>1. ASSUME NEW p \in Proc, Notes!Begin(p) PROVE NotesParts'
    <2>1. HoldsMain'
      BY <1>0, <1>1 DEF Notes!Begin, NotesTypes, DeadAreDead, HoldsMain, Holds, UnlinksADeadOnes
    <2>2. HoldsBreak'
      BY <1>0, <1>1 DEF Notes!Begin, NotesTypes, DeadAreDead, HoldsBreak, Holds, TakesItAlone
    <2>3. UnlinksADeadOnes'
      BY <1>0, <1>1 DEF Notes!Begin, NotesTypes, DeadAreDead, UnlinksADeadOnes, HoldsMain, HoldsBreak, Holds
    <2>4. BreaksAfterADeath'
      BY <1>0, <1>1 DEF Notes!Begin, NotesTypes, DeadAreDead, BreaksAfterADeath, OneDead
    <2>5. TakesItAlone'
      BY <1>0, <1>1 DEF Notes!Begin, NotesTypes, DeadAreDead, TakesItAlone, BreaksAfterADeath, OneLives
    <2>6. ListsAreWhole'
      BY <1>0, <1>1 DEF Notes!Begin, NotesTypes, DeadAreDead, ListsAreWhole, HoldsMain, Holds
    <2>7. LocksAreLocks'
      BY <1>0, <1>1 DEF Notes!Begin, NotesTypes, DeadAreDead, LocksAreLocks
    <2> QED
      BY <2>1, <2>2, <2>3, <2>4, <2>5, <2>6, <2>7 DEF NotesParts
  <1>2. ASSUME NEW p \in Proc, Notes!TryCreate(p) PROVE NotesParts'
    <2>1. HoldsMain'
      BY <1>0, <1>2, LockIsThere DEF Notes!TryCreate, Notes!Create, NotesTypes, DeadAreDead, HoldsMain, Holds, UnlinksADeadOnes
    <2>2. HoldsBreak'
      BY <1>0, <1>2, LockIsThere DEF Notes!TryCreate, Notes!Create, NotesTypes, DeadAreDead, HoldsBreak, Holds, TakesItAlone
    <2>3. UnlinksADeadOnes'
      BY <1>0, <1>2, LockIsThere DEF Notes!TryCreate, Notes!Create, NotesTypes, DeadAreDead, UnlinksADeadOnes, HoldsMain, HoldsBreak, Holds
    <2>4. BreaksAfterADeath'
      BY <1>0, <1>2, LockIsThere DEF Notes!TryCreate, Notes!Create, NotesTypes, DeadAreDead, BreaksAfterADeath, OneDead
    <2>5. TakesItAlone'
      BY <1>0, <1>2, LockIsThere DEF Notes!TryCreate, Notes!Create, NotesTypes, DeadAreDead, TakesItAlone, BreaksAfterADeath, OneLives
    <2>6. ListsAreWhole'
      BY <1>0, <1>2, LockIsThere DEF Notes!TryCreate, Notes!Create, NotesTypes, DeadAreDead, ListsAreWhole, HoldsMain, Holds
    <2>7. LocksAreLocks'
      BY <1>0, <1>2, LockIsThere DEF Notes!TryCreate, Notes!Create, NotesTypes, DeadAreDead, LocksAreLocks
    <2> QED
      BY <2>1, <2>2, <2>3, <2>4, <2>5, <2>6, <2>7 DEF NotesParts
  <1>3. ASSUME NEW p \in Proc, Notes!Own(p, "main", "own", "read") PROVE NotesParts'
    <2>1. Holds(p, "main") /\ p \notin dead /\ pc[p] = "own" /\ UNCHANGED <<saw, mine, nextIno, notes, list, note, begun, acked, dead>>
      BY <1>0, <1>3 DEF Notes!Own, NotesTypes, DeadAreDead, HoldsMain, HoldsBreak
    <2>2. CASE lock' = [lock EXCEPT !["main"].written = TRUE] /\ pc' = [pc EXCEPT ![p] = "read"]
      <3>1. PICK f \in Notes!Path : f = "main"
        OBVIOUS
      <3>2. Holds(p, f) /\ lock' = [lock EXCEPT ![f].written = TRUE]
        BY <2>1, <2>2, <3>1
      <3>3. /\ lock'[f] # None /\ lock'[f].by = p /\ lock'[f].ino = mine[p][f] /\ lock'[f].written /\ IsLock(lock'[f])
            /\ DOMAIN lock' = Notes!Path
            /\ \A g \in Notes!Path : g # f => lock'[g] = lock[g]
        BY <1>0, <3>2, OwnLeaves
      <3>4. /\ lock'["main"] # None <=> lock["main"] # None
            /\ lock'["main"].by = lock["main"].by /\ lock'["main"].ino = lock["main"].ino
            /\ lock'["break"] # None <=> lock["break"] # None
            /\ lock'["break"].by = lock["break"].by /\ lock'["break"].ino = lock["break"].ino
        BY <2>1, <3>1, <3>3 DEF Holds
      <3>5. /\ pc'[p] = "read" /\ \A q \in Proc : q # p => pc'[q] = pc[q]
        BY <2>2 DEF NotesTypes
      <3>6. HoldsMain'
        BY <1>0, <2>1, <3>1, <3>3, <3>4, <3>5 DEF HoldsMain, Holds
      <3>7. HoldsBreak'
        BY <1>0, <2>1, <3>1, <3>3, <3>4, <3>5 DEF HoldsBreak, Holds
      <3>8. UnlinksADeadOnes'
        BY <1>0, <2>1, <3>1, <3>3, <3>4, <3>5 DEF UnlinksADeadOnes
      <3>9. BreaksAfterADeath'
        BY <1>0, <2>1, <3>1, <3>3, <3>4, <3>5 DEF BreaksAfterADeath, OneDead
      <3>10. TakesItAlone'
        BY <1>0, <2>1, <3>1, <3>3, <3>4, <3>5 DEF TakesItAlone
      <3>11. ListsAreWhole'
        BY <1>0, <2>1, <3>1, <3>3, <3>4, <3>5 DEF ListsAreWhole
      <3>12. LocksAreLocks'
        BY <1>0, <2>1, <3>1, <3>3, <3>4, <3>5 DEF LocksAreLocks
      <3> QED
        BY <3>6, <3>7, <3>8, <3>9, <3>10, <3>11, <3>12 DEF NotesParts
    <2>3. CASE lock' = [lock EXCEPT !["main"] = None] /\ pc' = [pc EXCEPT ![p] = "idle"]
      <3>1. HoldsMain'
        BY <1>0, <2>1, <2>3 DEF NotesTypes, DeadAreDead, HoldsMain, Holds
      <3>2. HoldsBreak'
        BY <1>0, <2>1, <2>3 DEF NotesTypes, DeadAreDead, HoldsBreak, Holds
      <3>3. UnlinksADeadOnes'
        BY <1>0, <2>1, <2>3 DEF NotesTypes, DeadAreDead, UnlinksADeadOnes, Holds
      <3>4. BreaksAfterADeath'
        BY <1>0, <2>1, <2>3 DEF NotesTypes, DeadAreDead, BreaksAfterADeath, OneDead
      <3>5. TakesItAlone'
        BY <1>0, <2>1, <2>3 DEF NotesTypes, DeadAreDead, TakesItAlone
      <3>6. ListsAreWhole'
        BY <1>0, <2>1, <2>3 DEF NotesTypes, DeadAreDead, ListsAreWhole
      <3>7. LocksAreLocks'
        BY <1>0, <2>1, <2>3 DEF NotesTypes, DeadAreDead, LocksAreLocks
      <3> QED
        BY <3>1, <3>2, <3>3, <3>4, <3>5, <3>6, <3>7 DEF NotesParts
    <2> QED
      BY <1>3, <2>1, <2>2, <2>3 DEF Notes!Own, Holds
  <1>4. ASSUME NEW p \in Proc, Notes!Look(p) PROVE NotesParts'
    <2>1. HoldsMain'
      BY <1>0, <1>4 DEF Notes!Look, Notes!Judged, NotesTypes, DeadAreDead, HoldsMain, Holds, UnlinksADeadOnes
    <2>2. HoldsBreak'
      BY <1>0, <1>4 DEF Notes!Look, Notes!Judged, NotesTypes, DeadAreDead, HoldsBreak, Holds, TakesItAlone
    <2>3. UnlinksADeadOnes'
      BY <1>0, <1>4 DEF Notes!Look, Notes!Judged, NotesTypes, DeadAreDead, UnlinksADeadOnes, HoldsMain, HoldsBreak, Holds
    <2>4. BreaksAfterADeath'
      BY <1>0, <1>4 DEF Notes!Look, Notes!Judged, NotesTypes, DeadAreDead, BreaksAfterADeath, OneDead
    <2>5. TakesItAlone'
      BY <1>0, <1>4 DEF Notes!Look, Notes!Judged, NotesTypes, DeadAreDead, TakesItAlone, BreaksAfterADeath, OneLives
    <2>6. ListsAreWhole'
      BY <1>0, <1>4 DEF Notes!Look, Notes!Judged, NotesTypes, DeadAreDead, ListsAreWhole, HoldsMain, Holds
    <2>7. LocksAreLocks'
      BY <1>0, <1>4 DEF Notes!Look, Notes!Judged, NotesTypes, DeadAreDead, LocksAreLocks
    <2> QED
      BY <2>1, <2>2, <2>3, <2>4, <2>5, <2>6, <2>7 DEF NotesParts
  <1>5. ASSUME NEW p \in Proc, Notes!GiveUp(p) PROVE NotesParts'
    <2>1. HoldsMain'
      BY <1>0, <1>5 DEF Notes!GiveUp, NotesTypes, DeadAreDead, HoldsMain, Holds, UnlinksADeadOnes
    <2>2. HoldsBreak'
      BY <1>0, <1>5 DEF Notes!GiveUp, NotesTypes, DeadAreDead, HoldsBreak, Holds, TakesItAlone
    <2>3. UnlinksADeadOnes'
      BY <1>0, <1>5 DEF Notes!GiveUp, NotesTypes, DeadAreDead, UnlinksADeadOnes, HoldsMain, HoldsBreak, Holds
    <2>4. BreaksAfterADeath'
      BY <1>0, <1>5 DEF Notes!GiveUp, NotesTypes, DeadAreDead, BreaksAfterADeath, OneDead
    <2>5. TakesItAlone'
      BY <1>0, <1>5 DEF Notes!GiveUp, NotesTypes, DeadAreDead, TakesItAlone, BreaksAfterADeath, OneLives
    <2>6. ListsAreWhole'
      BY <1>0, <1>5 DEF Notes!GiveUp, NotesTypes, DeadAreDead, ListsAreWhole, HoldsMain, Holds
    <2>7. LocksAreLocks'
      BY <1>0, <1>5 DEF Notes!GiveUp, NotesTypes, DeadAreDead, LocksAreLocks
    <2> QED
      BY <2>1, <2>2, <2>3, <2>4, <2>5, <2>6, <2>7 DEF NotesParts
  <1>6. ASSUME NEW p \in Proc, Notes!TryBreak(p) PROVE NotesParts'
    <2>1. HoldsMain'
      BY <1>0, <1>6, LockIsThere DEF Notes!TryBreak, Notes!Create, NotesTypes, DeadAreDead, HoldsMain, Holds, UnlinksADeadOnes
    <2>2. HoldsBreak'
      BY <1>0, <1>6, LockIsThere DEF Notes!TryBreak, Notes!Create, NotesTypes, DeadAreDead, HoldsBreak, Holds, TakesItAlone
    <2>3. UnlinksADeadOnes'
      BY <1>0, <1>6, LockIsThere DEF Notes!TryBreak, Notes!Create, NotesTypes, DeadAreDead, UnlinksADeadOnes, HoldsMain, HoldsBreak, Holds
    <2>4. BreaksAfterADeath'
      BY <1>0, <1>6, LockIsThere DEF Notes!TryBreak, Notes!Create, NotesTypes, DeadAreDead, BreaksAfterADeath, OneDead
    <2>5. TakesItAlone'
      BY <1>0, <1>6, LockIsThere DEF Notes!TryBreak, Notes!Create, NotesTypes, DeadAreDead, TakesItAlone, BreaksAfterADeath, OneLives
    <2>6. ListsAreWhole'
      BY <1>0, <1>6, LockIsThere DEF Notes!TryBreak, Notes!Create, NotesTypes, DeadAreDead, ListsAreWhole, HoldsMain, Holds
    <2>7. LocksAreLocks'
      BY <1>0, <1>6, LockIsThere DEF Notes!TryBreak, Notes!Create, NotesTypes, DeadAreDead, LocksAreLocks
    <2> QED
      BY <2>1, <2>2, <2>3, <2>4, <2>5, <2>6, <2>7 DEF NotesParts
  <1>7. ASSUME NEW p \in Proc, Notes!Own(p, "break", "ownBreak", "recheck") PROVE NotesParts'
    <2>1. Holds(p, "break") /\ p \notin dead /\ pc[p] = "ownBreak" /\ UNCHANGED <<saw, mine, nextIno, notes, list, note, begun, acked, dead>>
      BY <1>0, <1>7 DEF Notes!Own, NotesTypes, DeadAreDead, HoldsMain, HoldsBreak
    <2>2. CASE lock' = [lock EXCEPT !["break"].written = TRUE] /\ pc' = [pc EXCEPT ![p] = "recheck"]
      <3>1. PICK f \in Notes!Path : f = "break"
        OBVIOUS
      <3>2. Holds(p, f) /\ lock' = [lock EXCEPT ![f].written = TRUE]
        BY <2>1, <2>2, <3>1
      <3>3. /\ lock'[f] # None /\ lock'[f].by = p /\ lock'[f].ino = mine[p][f] /\ lock'[f].written /\ IsLock(lock'[f])
            /\ DOMAIN lock' = Notes!Path
            /\ \A g \in Notes!Path : g # f => lock'[g] = lock[g]
        BY <1>0, <3>2, OwnLeaves
      <3>4. /\ lock'["main"] # None <=> lock["main"] # None
            /\ lock'["main"].by = lock["main"].by /\ lock'["main"].ino = lock["main"].ino
            /\ lock'["break"] # None <=> lock["break"] # None
            /\ lock'["break"].by = lock["break"].by /\ lock'["break"].ino = lock["break"].ino
        BY <2>1, <3>1, <3>3 DEF Holds
      <3>5. /\ pc'[p] = "recheck" /\ \A q \in Proc : q # p => pc'[q] = pc[q]
        BY <2>2 DEF NotesTypes
      <3>6. HoldsMain'
        BY <1>0, <2>1, <3>1, <3>3, <3>4, <3>5 DEF HoldsMain, Holds
      <3>7. HoldsBreak'
        BY <1>0, <2>1, <3>1, <3>3, <3>4, <3>5 DEF HoldsBreak, Holds
      <3>8. UnlinksADeadOnes'
        BY <1>0, <2>1, <3>1, <3>3, <3>4, <3>5 DEF UnlinksADeadOnes
      <3>9. BreaksAfterADeath'
        BY <1>0, <2>1, <3>1, <3>3, <3>4, <3>5 DEF BreaksAfterADeath, OneDead
      <3>10. TakesItAlone'
        BY <1>0, <2>1, <3>1, <3>3, <3>4, <3>5 DEF TakesItAlone
      <3>11. ListsAreWhole'
        BY <1>0, <2>1, <3>1, <3>3, <3>4, <3>5 DEF ListsAreWhole
      <3>12. LocksAreLocks'
        BY <1>0, <2>1, <3>1, <3>3, <3>4, <3>5 DEF LocksAreLocks
      <3> QED
        BY <3>6, <3>7, <3>8, <3>9, <3>10, <3>11, <3>12 DEF NotesParts
    <2>3. CASE lock' = [lock EXCEPT !["break"] = None] /\ pc' = [pc EXCEPT ![p] = "idle"]
      <3>1. HoldsMain'
        BY <1>0, <2>1, <2>3 DEF NotesTypes, DeadAreDead, HoldsMain, Holds
      <3>2. HoldsBreak'
        BY <1>0, <2>1, <2>3 DEF NotesTypes, DeadAreDead, HoldsBreak, Holds
      <3>3. UnlinksADeadOnes'
        BY <1>0, <2>1, <2>3 DEF NotesTypes, DeadAreDead, UnlinksADeadOnes, Holds
      <3>4. BreaksAfterADeath'
        BY <1>0, <2>1, <2>3 DEF NotesTypes, DeadAreDead, BreaksAfterADeath, OneDead
      <3>5. TakesItAlone'
        BY <1>0, <2>1, <2>3 DEF NotesTypes, DeadAreDead, TakesItAlone
      <3>6. ListsAreWhole'
        BY <1>0, <2>1, <2>3 DEF NotesTypes, DeadAreDead, ListsAreWhole
      <3>7. LocksAreLocks'
        BY <1>0, <2>1, <2>3 DEF NotesTypes, DeadAreDead, LocksAreLocks
      <3> QED
        BY <3>1, <3>2, <3>3, <3>4, <3>5, <3>6, <3>7 DEF NotesParts
    <2> QED
      BY <1>7, <2>1, <2>2, <2>3 DEF Notes!Own, Holds
  <1>8. ASSUME NEW p \in Proc, Notes!LookBreak(p) PROVE NotesParts'
    <2>1. HoldsMain'
      BY <1>0, <1>8 DEF Notes!LookBreak, Notes!Judged, NotesTypes, DeadAreDead, HoldsMain, Holds, UnlinksADeadOnes
    <2>2. HoldsBreak'
      BY <1>0, <1>8 DEF Notes!LookBreak, Notes!Judged, NotesTypes, DeadAreDead, HoldsBreak, Holds, TakesItAlone
    <2>3. UnlinksADeadOnes'
      BY <1>0, <1>8 DEF Notes!LookBreak, Notes!Judged, NotesTypes, DeadAreDead, UnlinksADeadOnes, HoldsMain, HoldsBreak, Holds
    <2>4. BreaksAfterADeath'
      BY <1>0, <1>8 DEF Notes!LookBreak, Notes!Judged, NotesTypes, DeadAreDead, BreaksAfterADeath, OneDead
    <2>5. TakesItAlone'
      BY <1>0, <1>8 DEF Notes!LookBreak, Notes!Judged, NotesTypes, DeadAreDead, TakesItAlone, BreaksAfterADeath, OneLives
    <2>6. ListsAreWhole'
      BY <1>0, <1>8 DEF Notes!LookBreak, Notes!Judged, NotesTypes, DeadAreDead, ListsAreWhole, HoldsMain, Holds
    <2>7. LocksAreLocks'
      BY <1>0, <1>8 DEF Notes!LookBreak, Notes!Judged, NotesTypes, DeadAreDead, LocksAreLocks
    <2> QED
      BY <2>1, <2>2, <2>3, <2>4, <2>5, <2>6, <2>7 DEF NotesParts
  <1>9. ASSUME NEW p \in Proc, Notes!LookBreakAgain(p) PROVE NotesParts'
    <2>1. HoldsMain'
      BY <1>0, <1>9 DEF Notes!LookBreakAgain, NotesTypes, DeadAreDead, HoldsMain, Holds, UnlinksADeadOnes
    <2>2. HoldsBreak'
      BY <1>0, <1>9 DEF Notes!LookBreakAgain, NotesTypes, DeadAreDead, HoldsBreak, Holds, TakesItAlone
    <2>3. UnlinksADeadOnes'
      BY <1>0, <1>9 DEF Notes!LookBreakAgain, NotesTypes, DeadAreDead, UnlinksADeadOnes, HoldsMain, HoldsBreak, Holds
    <2>4. BreaksAfterADeath'
      BY <1>0, <1>9 DEF Notes!LookBreakAgain, NotesTypes, DeadAreDead, BreaksAfterADeath, OneDead
    <2>5. TakesItAlone'
      BY <1>0, <1>9 DEF Notes!LookBreakAgain, NotesTypes, DeadAreDead, TakesItAlone, BreaksAfterADeath, OneLives
    <2>6. ListsAreWhole'
      BY <1>0, <1>9 DEF Notes!LookBreakAgain, NotesTypes, DeadAreDead, ListsAreWhole, HoldsMain, Holds
    <2>7. LocksAreLocks'
      BY <1>0, <1>9 DEF Notes!LookBreakAgain, NotesTypes, DeadAreDead, LocksAreLocks
    <2> QED
      BY <2>1, <2>2, <2>3, <2>4, <2>5, <2>6, <2>7 DEF NotesParts
  <1>10. ASSUME NEW p \in Proc, Notes!UnlinkBreak(p) PROVE NotesParts'
    <2>1. HoldsMain'
      BY <1>0, <1>10 DEF Notes!UnlinkBreak, NotesTypes, DeadAreDead, HoldsMain, Holds, UnlinksADeadOnes
    <2>2. HoldsBreak'
      BY <1>0, <1>10 DEF Notes!UnlinkBreak, NotesTypes, DeadAreDead, HoldsBreak, Holds, TakesItAlone
    <2>3. UnlinksADeadOnes'
      BY <1>0, <1>10 DEF Notes!UnlinkBreak, NotesTypes, DeadAreDead, UnlinksADeadOnes, HoldsMain, HoldsBreak, Holds
    <2>4. BreaksAfterADeath'
      BY <1>0, <1>10 DEF Notes!UnlinkBreak, NotesTypes, DeadAreDead, BreaksAfterADeath, OneDead
    <2>5. TakesItAlone'
      BY <1>0, <1>10 DEF Notes!UnlinkBreak, NotesTypes, DeadAreDead, TakesItAlone, BreaksAfterADeath, OneLives
    <2>6. ListsAreWhole'
      BY <1>0, <1>10 DEF Notes!UnlinkBreak, NotesTypes, DeadAreDead, ListsAreWhole, HoldsMain, Holds
    <2>7. LocksAreLocks'
      BY <1>0, <1>10 DEF Notes!UnlinkBreak, NotesTypes, DeadAreDead, LocksAreLocks
    <2> QED
      BY <2>1, <2>2, <2>3, <2>4, <2>5, <2>6, <2>7 DEF NotesParts
  <1>11. ASSUME NEW p \in Proc, Notes!BreakStale(p) PROVE NotesParts'
    <2>1. HoldsMain'
      BY <1>0, <1>11 DEF Notes!BreakStale, Notes!Recheck, Notes!Same, Notes!Judged, NotesTypes, DeadAreDead, HoldsMain, Holds, UnlinksADeadOnes
    <2>2. HoldsBreak'
      BY <1>0, <1>11 DEF Notes!BreakStale, Notes!Recheck, Notes!Same, Notes!Judged, NotesTypes, DeadAreDead, HoldsBreak, Holds, TakesItAlone
    <2>3. UnlinksADeadOnes'
      BY <1>0, <1>11 DEF Notes!BreakStale, Notes!Recheck, Notes!Same, Notes!Judged, NotesTypes, DeadAreDead, UnlinksADeadOnes, HoldsMain, HoldsBreak, Holds
    <2>4. BreaksAfterADeath'
      BY <1>0, <1>11 DEF Notes!BreakStale, Notes!Recheck, Notes!Same, Notes!Judged, NotesTypes, DeadAreDead, BreaksAfterADeath, OneDead
    <2>5. TakesItAlone'
      BY <1>0, <1>11 DEF Notes!BreakStale, Notes!Recheck, Notes!Same, Notes!Judged, NotesTypes, DeadAreDead, TakesItAlone, BreaksAfterADeath, OneLives
    <2>6. ListsAreWhole'
      BY <1>0, <1>11 DEF Notes!BreakStale, Notes!Recheck, Notes!Same, Notes!Judged, NotesTypes, DeadAreDead, ListsAreWhole, HoldsMain, Holds
    <2>7. LocksAreLocks'
      BY <1>0, <1>11 DEF Notes!BreakStale, Notes!Recheck, Notes!Same, Notes!Judged, NotesTypes, DeadAreDead, LocksAreLocks
    <2> QED
      BY <2>1, <2>2, <2>3, <2>4, <2>5, <2>6, <2>7 DEF NotesParts
  <1>12. ASSUME NEW p \in Proc, Notes!Unlink(p) PROVE NotesParts'
    <2>1. HoldsMain'
      BY <1>0, <1>12 DEF Notes!Unlink, NotesTypes, DeadAreDead, HoldsMain, Holds, UnlinksADeadOnes
    <2>2. HoldsBreak'
      BY <1>0, <1>12 DEF Notes!Unlink, NotesTypes, DeadAreDead, HoldsBreak, Holds, TakesItAlone
    <2>3. UnlinksADeadOnes'
      BY <1>0, <1>12 DEF Notes!Unlink, NotesTypes, DeadAreDead, UnlinksADeadOnes, HoldsMain, HoldsBreak, Holds
    <2>4. BreaksAfterADeath'
      BY <1>0, <1>12 DEF Notes!Unlink, NotesTypes, DeadAreDead, BreaksAfterADeath, OneDead
    <2>5. TakesItAlone'
      BY <1>0, <1>12 DEF Notes!Unlink, NotesTypes, DeadAreDead, TakesItAlone, BreaksAfterADeath, OneLives
    <2>6. ListsAreWhole'
      BY <1>0, <1>12 DEF Notes!Unlink, NotesTypes, DeadAreDead, ListsAreWhole, HoldsMain, Holds
    <2>7. LocksAreLocks'
      BY <1>0, <1>12 DEF Notes!Unlink, NotesTypes, DeadAreDead, LocksAreLocks
    <2> QED
      BY <2>1, <2>2, <2>3, <2>4, <2>5, <2>6, <2>7 DEF NotesParts
  <1>13. ASSUME NEW p \in Proc, Notes!Release(p, "break", "releaseBreak", "removeBreak", "try") PROVE NotesParts'
    <2>1. HoldsMain'
      BY <1>0, <1>13 DEF Notes!Release, Notes!IsMine, NotesTypes, DeadAreDead, HoldsMain, Holds, UnlinksADeadOnes
    <2>2. HoldsBreak'
      BY <1>0, <1>13 DEF Notes!Release, Notes!IsMine, NotesTypes, DeadAreDead, HoldsBreak, Holds, TakesItAlone
    <2>3. UnlinksADeadOnes'
      BY <1>0, <1>13 DEF Notes!Release, Notes!IsMine, NotesTypes, DeadAreDead, UnlinksADeadOnes, HoldsMain, HoldsBreak, Holds
    <2>4. BreaksAfterADeath'
      BY <1>0, <1>13 DEF Notes!Release, Notes!IsMine, NotesTypes, DeadAreDead, BreaksAfterADeath, OneDead
    <2>5. TakesItAlone'
      BY <1>0, <1>13 DEF Notes!Release, Notes!IsMine, NotesTypes, DeadAreDead, TakesItAlone, BreaksAfterADeath, OneLives
    <2>6. ListsAreWhole'
      BY <1>0, <1>13 DEF Notes!Release, Notes!IsMine, NotesTypes, DeadAreDead, ListsAreWhole, HoldsMain, Holds
    <2>7. LocksAreLocks'
      BY <1>0, <1>13 DEF Notes!Release, Notes!IsMine, NotesTypes, DeadAreDead, LocksAreLocks
    <2> QED
      BY <2>1, <2>2, <2>3, <2>4, <2>5, <2>6, <2>7 DEF NotesParts
  <1>14. ASSUME NEW p \in Proc, Notes!ReleaseNow(p, "break", "removeBreak", "try") PROVE NotesParts'
    <2>1. HoldsMain'
      BY <1>0, <1>14 DEF Notes!ReleaseNow, NotesTypes, DeadAreDead, HoldsMain, Holds, UnlinksADeadOnes
    <2>2. HoldsBreak'
      BY <1>0, <1>14 DEF Notes!ReleaseNow, NotesTypes, DeadAreDead, HoldsBreak, Holds, TakesItAlone
    <2>3. UnlinksADeadOnes'
      BY <1>0, <1>14 DEF Notes!ReleaseNow, NotesTypes, DeadAreDead, UnlinksADeadOnes, HoldsMain, HoldsBreak, Holds
    <2>4. BreaksAfterADeath'
      BY <1>0, <1>14 DEF Notes!ReleaseNow, NotesTypes, DeadAreDead, BreaksAfterADeath, OneDead
    <2>5. TakesItAlone'
      BY <1>0, <1>14 DEF Notes!ReleaseNow, NotesTypes, DeadAreDead, TakesItAlone, BreaksAfterADeath, OneLives
    <2>6. ListsAreWhole'
      BY <1>0, <1>14 DEF Notes!ReleaseNow, NotesTypes, DeadAreDead, ListsAreWhole, HoldsMain, Holds
    <2>7. LocksAreLocks'
      BY <1>0, <1>14 DEF Notes!ReleaseNow, NotesTypes, DeadAreDead, LocksAreLocks
    <2> QED
      BY <2>1, <2>2, <2>3, <2>4, <2>5, <2>6, <2>7 DEF NotesParts
  <1>15. ASSUME NEW p \in Proc, Notes!ReadNotes(p) PROVE NotesParts'
    <2>1. HoldsMain'
      BY <1>0, <1>15 DEF Notes!ReadNotes, NotesTypes, DeadAreDead, HoldsMain, Holds, UnlinksADeadOnes
    <2>2. HoldsBreak'
      BY <1>0, <1>15 DEF Notes!ReadNotes, NotesTypes, DeadAreDead, HoldsBreak, Holds, TakesItAlone
    <2>3. UnlinksADeadOnes'
      BY <1>0, <1>15 DEF Notes!ReadNotes, NotesTypes, DeadAreDead, UnlinksADeadOnes, HoldsMain, HoldsBreak, Holds
    <2>4. BreaksAfterADeath'
      BY <1>0, <1>15 DEF Notes!ReadNotes, NotesTypes, DeadAreDead, BreaksAfterADeath, OneDead
    <2>5. TakesItAlone'
      BY <1>0, <1>15 DEF Notes!ReadNotes, NotesTypes, DeadAreDead, TakesItAlone, BreaksAfterADeath, OneLives
    <2>6. ListsAreWhole'
      BY <1>0, <1>15 DEF Notes!ReadNotes, NotesTypes, DeadAreDead, ListsAreWhole, HoldsMain, Holds
    <2>7. LocksAreLocks'
      BY <1>0, <1>15 DEF Notes!ReadNotes, NotesTypes, DeadAreDead, LocksAreLocks
    <2> QED
      BY <2>1, <2>2, <2>3, <2>4, <2>5, <2>6, <2>7 DEF NotesParts
  <1>16. ASSUME NEW p \in Proc, Notes!WriteNotes(p) PROVE NotesParts'
    <2>1. HoldsMain'
      BY <1>0, <1>16 DEF Notes!WriteNotes, NotesTypes, DeadAreDead, HoldsMain, Holds, UnlinksADeadOnes
    <2>2. HoldsBreak'
      BY <1>0, <1>16 DEF Notes!WriteNotes, NotesTypes, DeadAreDead, HoldsBreak, Holds, TakesItAlone
    <2>3. UnlinksADeadOnes'
      BY <1>0, <1>16 DEF Notes!WriteNotes, NotesTypes, DeadAreDead, UnlinksADeadOnes, HoldsMain, HoldsBreak, Holds
    <2>4. BreaksAfterADeath'
      BY <1>0, <1>16 DEF Notes!WriteNotes, NotesTypes, DeadAreDead, BreaksAfterADeath, OneDead
    <2>5. TakesItAlone'
      BY <1>0, <1>16 DEF Notes!WriteNotes, NotesTypes, DeadAreDead, TakesItAlone, BreaksAfterADeath, OneLives
    <2>6. ListsAreWhole'
      BY <1>0, <1>16 DEF Notes!WriteNotes, NotesTypes, DeadAreDead, ListsAreWhole, HoldsMain, Holds
    <2>7. LocksAreLocks'
      BY <1>0, <1>16 DEF Notes!WriteNotes, NotesTypes, DeadAreDead, LocksAreLocks
    <2> QED
      BY <2>1, <2>2, <2>3, <2>4, <2>5, <2>6, <2>7 DEF NotesParts
  <1>17. ASSUME NEW p \in Proc, Notes!Release(p, "main", "release", "remove", "idle") PROVE NotesParts'
    <2>1. HoldsMain'
      BY <1>0, <1>17 DEF Notes!Release, Notes!IsMine, NotesTypes, DeadAreDead, HoldsMain, Holds, UnlinksADeadOnes
    <2>2. HoldsBreak'
      BY <1>0, <1>17 DEF Notes!Release, Notes!IsMine, NotesTypes, DeadAreDead, HoldsBreak, Holds, TakesItAlone
    <2>3. UnlinksADeadOnes'
      BY <1>0, <1>17 DEF Notes!Release, Notes!IsMine, NotesTypes, DeadAreDead, UnlinksADeadOnes, HoldsMain, HoldsBreak, Holds
    <2>4. BreaksAfterADeath'
      BY <1>0, <1>17 DEF Notes!Release, Notes!IsMine, NotesTypes, DeadAreDead, BreaksAfterADeath, OneDead
    <2>5. TakesItAlone'
      BY <1>0, <1>17 DEF Notes!Release, Notes!IsMine, NotesTypes, DeadAreDead, TakesItAlone, BreaksAfterADeath, OneLives
    <2>6. ListsAreWhole'
      BY <1>0, <1>17 DEF Notes!Release, Notes!IsMine, NotesTypes, DeadAreDead, ListsAreWhole, HoldsMain, Holds
    <2>7. LocksAreLocks'
      BY <1>0, <1>17 DEF Notes!Release, Notes!IsMine, NotesTypes, DeadAreDead, LocksAreLocks
    <2> QED
      BY <2>1, <2>2, <2>3, <2>4, <2>5, <2>6, <2>7 DEF NotesParts
  <1>18. ASSUME NEW p \in Proc, Notes!ReleaseNow(p, "main", "remove", "idle") PROVE NotesParts'
    <2>1. HoldsMain'
      BY <1>0, <1>18 DEF Notes!ReleaseNow, NotesTypes, DeadAreDead, HoldsMain, Holds, UnlinksADeadOnes
    <2>2. HoldsBreak'
      BY <1>0, <1>18 DEF Notes!ReleaseNow, NotesTypes, DeadAreDead, HoldsBreak, Holds, TakesItAlone
    <2>3. UnlinksADeadOnes'
      BY <1>0, <1>18 DEF Notes!ReleaseNow, NotesTypes, DeadAreDead, UnlinksADeadOnes, HoldsMain, HoldsBreak, Holds
    <2>4. BreaksAfterADeath'
      BY <1>0, <1>18 DEF Notes!ReleaseNow, NotesTypes, DeadAreDead, BreaksAfterADeath, OneDead
    <2>5. TakesItAlone'
      BY <1>0, <1>18 DEF Notes!ReleaseNow, NotesTypes, DeadAreDead, TakesItAlone, BreaksAfterADeath, OneLives
    <2>6. ListsAreWhole'
      BY <1>0, <1>18 DEF Notes!ReleaseNow, NotesTypes, DeadAreDead, ListsAreWhole, HoldsMain, Holds
    <2>7. LocksAreLocks'
      BY <1>0, <1>18 DEF Notes!ReleaseNow, NotesTypes, DeadAreDead, LocksAreLocks
    <2> QED
      BY <2>1, <2>2, <2>3, <2>4, <2>5, <2>6, <2>7 DEF NotesParts
  <1>19. ASSUME NEW p \in Proc, Notes!Die(p) PROVE NotesParts'
    <2>1. HoldsMain'
      BY <1>0, <1>19 DEF Notes!Die, NotesTypes, DeadAreDead, HoldsMain, Holds
    <2>2. HoldsBreak'
      BY <1>0, <1>19 DEF Notes!Die, NotesTypes, DeadAreDead, HoldsBreak, Holds
    <2>3. UnlinksADeadOnes'
      BY <1>0, <1>19 DEF Notes!Die, NotesTypes, DeadAreDead, UnlinksADeadOnes
    <2>4. BreaksAfterADeath'
      BY <1>0, <1>19 DEF Notes!Die, NotesTypes, DeadAreDead, BreaksAfterADeath, OneDead
    <2>5. TakesItAlone'
      BY <1>0, <1>19 DEF Notes!Die, NotesTypes, DeadAreDead, TakesItAlone
    <2>6. ListsAreWhole'
      BY <1>0, <1>19 DEF Notes!Die, NotesTypes, DeadAreDead, ListsAreWhole
    <2>7. LocksAreLocks'
      BY <1>0, <1>19 DEF Notes!Die, NotesTypes, DeadAreDead, LocksAreLocks
    <2> QED
      BY <2>1, <2>2, <2>3, <2>4, <2>5, <2>6, <2>7 DEF NotesParts
  <1> QED
    BY <1>1, <1>2, <1>3, <1>4, <1>5, <1>6, <1>7, <1>8, <1>9, <1>10, <1>11, <1>12, <1>13, <1>14, <1>15, <1>16, <1>17, <1>18, <1>19 DEF Notes!Next

LEMMA NotesTypesKept ==
  ASSUME NotesTypes, DeadAreDead, Notes!Next
  PROVE  NotesTypes' /\ DeadAreDead'
  <1>1. ASSUME NEW p \in Proc, Notes!Begin(p) PROVE NotesTypes' /\ DeadAreDead'
    BY <1>1 DEF Notes!Begin, Notes!Go, Notes!Path, NotesTypes, DeadAreDead
  <1>2. ASSUME NEW p \in Proc, Notes!TryCreate(p) PROVE NotesTypes' /\ DeadAreDead'
    BY <1>2 DEF Notes!TryCreate, Notes!Create, Notes!Go, Notes!Path, NotesTypes, DeadAreDead
  <1>3. ASSUME NEW p \in Proc, Notes!Own(p, "main", "own", "read") PROVE NotesTypes' /\ DeadAreDead'
    BY <1>3 DEF Notes!Own, Notes!Go, Notes!Path, NotesTypes, DeadAreDead
  <1>4. ASSUME NEW p \in Proc, Notes!Look(p) PROVE NotesTypes' /\ DeadAreDead'
    BY <1>4 DEF Notes!Look, Notes!Go, Notes!Path, NotesTypes, DeadAreDead
  <1>5. ASSUME NEW p \in Proc, Notes!GiveUp(p) PROVE NotesTypes' /\ DeadAreDead'
    BY <1>5 DEF Notes!GiveUp, Notes!Go, Notes!Path, NotesTypes, DeadAreDead
  <1>6. ASSUME NEW p \in Proc, Notes!TryBreak(p) PROVE NotesTypes' /\ DeadAreDead'
    BY <1>6 DEF Notes!TryBreak, Notes!Create, Notes!Go, Notes!Path, NotesTypes, DeadAreDead
  <1>7. ASSUME NEW p \in Proc, Notes!Own(p, "break", "ownBreak", "recheck") PROVE NotesTypes' /\ DeadAreDead'
    BY <1>7 DEF Notes!Own, Notes!Go, Notes!Path, NotesTypes, DeadAreDead
  <1>8. ASSUME NEW p \in Proc, Notes!LookBreak(p) PROVE NotesTypes' /\ DeadAreDead'
    BY <1>8 DEF Notes!LookBreak, Notes!Go, Notes!Path, NotesTypes, DeadAreDead
  <1>9. ASSUME NEW p \in Proc, Notes!LookBreakAgain(p) PROVE NotesTypes' /\ DeadAreDead'
    BY <1>9 DEF Notes!LookBreakAgain, Notes!Go, Notes!Path, NotesTypes, DeadAreDead
  <1>10. ASSUME NEW p \in Proc, Notes!UnlinkBreak(p) PROVE NotesTypes' /\ DeadAreDead'
    BY <1>10 DEF Notes!UnlinkBreak, Notes!Go, Notes!Path, NotesTypes, DeadAreDead
  <1>11. ASSUME NEW p \in Proc, Notes!BreakStale(p) PROVE NotesTypes' /\ DeadAreDead'
    BY <1>11 DEF Notes!BreakStale, Notes!Go, Notes!Path, NotesTypes, DeadAreDead
  <1>12. ASSUME NEW p \in Proc, Notes!Unlink(p) PROVE NotesTypes' /\ DeadAreDead'
    BY <1>12 DEF Notes!Unlink, Notes!Go, Notes!Path, NotesTypes, DeadAreDead
  <1>13. ASSUME NEW p \in Proc, Notes!Release(p, "break", "releaseBreak", "removeBreak", "try") PROVE NotesTypes' /\ DeadAreDead'
    BY <1>13 DEF Notes!Release, Notes!Go, Notes!Path, NotesTypes, DeadAreDead
  <1>14. ASSUME NEW p \in Proc, Notes!ReleaseNow(p, "break", "removeBreak", "try") PROVE NotesTypes' /\ DeadAreDead'
    BY <1>14 DEF Notes!ReleaseNow, Notes!Go, Notes!Path, NotesTypes, DeadAreDead
  <1>15. ASSUME NEW p \in Proc, Notes!ReadNotes(p) PROVE NotesTypes' /\ DeadAreDead'
    BY <1>15 DEF Notes!ReadNotes, Notes!Go, Notes!Path, NotesTypes, DeadAreDead
  <1>16. ASSUME NEW p \in Proc, Notes!WriteNotes(p) PROVE NotesTypes' /\ DeadAreDead'
    BY <1>16 DEF Notes!WriteNotes, Notes!Go, Notes!Path, NotesTypes, DeadAreDead
  <1>17. ASSUME NEW p \in Proc, Notes!Release(p, "main", "release", "remove", "idle") PROVE NotesTypes' /\ DeadAreDead'
    BY <1>17 DEF Notes!Release, Notes!Go, Notes!Path, NotesTypes, DeadAreDead
  <1>18. ASSUME NEW p \in Proc, Notes!ReleaseNow(p, "main", "remove", "idle") PROVE NotesTypes' /\ DeadAreDead'
    BY <1>18 DEF Notes!ReleaseNow, Notes!Go, Notes!Path, NotesTypes, DeadAreDead
  <1>19. ASSUME NEW p \in Proc, Notes!Die(p) PROVE NotesTypes' /\ DeadAreDead'
    BY <1>19 DEF Notes!Die, Notes!Go, Notes!Path, NotesTypes, DeadAreDead
  <1> QED
    BY <1>1, <1>2, <1>3, <1>4, <1>5, <1>6, <1>7, <1>8, <1>9, <1>10, <1>11, <1>12, <1>13, <1>14, <1>15, <1>16, <1>17, <1>18, <1>19 DEF Notes!Next

\* One more is counted.
LEMMA OneMore ==
  ASSUME NEW S, IsFiniteSet(S), NEW x, x \notin S, NEW n \in Nat, Cardinality(S) = n
  PROVE  IsFiniteSet(S \cup {x}) /\ Cardinality(S \cup {x}) = n + 1
  BY FS_AddElement

\* Two of three processes are dead.
LEMMA TwoOfThree ==
  ASSUME IsFiniteSet(Proc), Cardinality(Proc) <= 3, dead \subseteq Proc
  PROVE  OneDead \/ OneLives
  <1>1. SUFFICES ASSUME NEW p \in dead, NEW q \in dead, p # q, NEW a \in Proc \ dead, NEW b \in Proc \ dead, a # b
                 PROVE  FALSE
    BY DEF OneDead, OneLives
  <1>2. IsFiniteSet({p}) /\ Cardinality({p}) = 1
    BY FS_Singleton
  <1>3. IsFiniteSet({p} \cup {q}) /\ Cardinality({p} \cup {q}) = 2
    <2>1. q \notin {p}
      BY <1>1
    <2>2. IsFiniteSet({p} \cup {q}) /\ Cardinality({p} \cup {q}) = 1 + 1
      BY <1>2, <2>1, OneMore
    <2> QED
      BY <2>2
  <1>4. IsFiniteSet({p} \cup {q} \cup {a}) /\ Cardinality({p} \cup {q} \cup {a}) = 3
    <2>1. a \notin {p} \cup {q}
      BY <1>1
    <2>2. IsFiniteSet({p} \cup {q} \cup {a}) /\ Cardinality({p} \cup {q} \cup {a}) = 2 + 1
      BY <1>3, <2>1, OneMore
    <2> QED
      BY <2>2
  <1>5. IsFiniteSet({p} \cup {q} \cup {a} \cup {b}) /\ Cardinality({p} \cup {q} \cup {a} \cup {b}) = 4
    <2>1. b \notin {p} \cup {q} \cup {a}
      BY <1>1
    <2>2. IsFiniteSet({p} \cup {q} \cup {a} \cup {b}) /\ Cardinality({p} \cup {q} \cup {a} \cup {b}) = 3 + 1
      BY <1>4, <2>1, OneMore
    <2> QED
      BY <2>2
  <1>6. {p} \cup {q} \cup {a} \cup {b} \subseteq Proc
    BY <1>1
  <1>7. Cardinality({p} \cup {q} \cup {a} \cup {b}) <= Cardinality(Proc)
    BY <1>6, FS_Subset
  <1>8. Cardinality(Proc) \in Nat
    BY FS_CardinalityType
  <1> QED
    BY <1>5, <1>7, <1>8

LEMMA OneIsDead ==
  ASSUME IsFiniteSet(dead), Cardinality(dead) <= 1
  PROVE  OneDead
  <1>1. SUFFICES ASSUME NEW p \in dead, NEW q \in dead, p # q PROVE FALSE
    BY DEF OneDead
  <1>2. IsFiniteSet({p}) /\ Cardinality({p}) = 1
    BY FS_Singleton
  <1>3. IsFiniteSet({p} \cup {q}) /\ Cardinality({p} \cup {q}) = 2
    <2>1. q \notin {p}
      BY <1>1
    <2>2. IsFiniteSet({p} \cup {q}) /\ Cardinality({p} \cup {q}) = 1 + 1
      BY <1>2, <2>1, OneMore
    <2> QED
      BY <2>2
  <1>4. {p} \cup {q} \subseteq dead
    BY <1>1
  <1>5. Cardinality({p} \cup {q}) <= Cardinality(dead) /\ Cardinality(dead) \in Nat
    BY <1>4, FS_Subset, FS_CardinalityType
  <1> QED
    BY <1>3, <1>5

NotesInv ==
  /\ NotesTypes /\ DeadAreDead
  /\ OneDead \/ Cardinality(Proc) <= 3 => NotesParts

(* A note whose update was acknowledged stays in the file: with any number  *)
(* of processes of which one dies, and with three of which any die          *)
(* (notes/src/index.ts, lock.ts).                                           *)
THEOREM AcknowledgedNotesStay ==
  ASSUME NotesAssumption
  PROVE  Notes!Spec => []Notes!NoNoteLost
  <1>1. Notes!Init => NotesInv
    BY DEF Notes!Init, Notes!Path, NotesInv, NotesTypes, DeadAreDead, NotesParts, LocksAreLocks, HoldsMain, HoldsBreak,
           UnlinksADeadOnes, BreaksAfterADeath, TakesItAlone, ListsAreWhole
  <1>2. NotesInv /\ [Notes!Next]_Notes!vars => NotesInv'
    <2>1. ASSUME NotesInv, UNCHANGED Notes!vars PROVE NotesInv'
      BY <2>1 DEF Notes!vars, NotesInv, NotesTypes, DeadAreDead, NotesParts, LocksAreLocks, HoldsMain, HoldsBreak, Holds,
             UnlinksADeadOnes, BreaksAfterADeath, TakesItAlone, ListsAreWhole, OneDead
    <2>2. ASSUME NotesInv, Notes!Next PROVE NotesInv'
      <3>1. NotesTypes' /\ DeadAreDead' /\ dead \subseteq Proc
        BY <2>2, NotesTypesKept DEF NotesInv, NotesTypes
      <3>2. dead \subseteq dead'
        BY <2>2 DEF Notes!Next, Notes!Begin, Notes!TryCreate, Notes!TryBreak, Notes!Create, Notes!Own, Notes!Look, Notes!GiveUp, Notes!LookBreak,
               Notes!LookBreakAgain, Notes!UnlinkBreak, Notes!BreakStale, Notes!Unlink, Notes!Release, Notes!ReleaseNow,
               Notes!ReadNotes, Notes!WriteNotes, Notes!Die, Notes!Go
      <3>3. ASSUME OneDead' \/ Cardinality(Proc) <= 3 PROVE NotesParts'
        <4>1. OneDead' => OneDead
          BY <3>2 DEF OneDead
        <4>2. OneDead \/ OneLives
          BY <3>1, <3>3, <4>1, TwoOfThree DEF NotesAssumption
        <4>3. NotesTypes /\ DeadAreDead /\ NotesParts
          BY <2>2, <3>3, <4>1 DEF NotesInv
        <4> QED
          BY <2>2, <4>2, <4>3, NotesStep
      <3> QED
        BY <3>1, <3>3 DEF NotesInv
    <2> QED
      BY <2>1, <2>2
  <1>3. NotesInv => Notes!NoNoteLost
    <2>1. ASSUME NotesInv, Notes!Cardinality(dead) <= 1 \/ Notes!Cardinality(Proc) <= 3 PROVE acked \subseteq notes
      <3>1. Notes!Cardinality(dead) = Cardinality(dead) /\ Notes!Cardinality(Proc) = Cardinality(Proc)
        BY DEF Notes!Cardinality, Cardinality, Notes!IsFiniteSet, IsFiniteSet
      <3>2. Cardinality(dead) <= 1 => OneDead
        BY <2>1, OneIsDead, FS_Subset DEF NotesInv, NotesTypes, NotesAssumption
      <3> QED
        BY <2>1, <3>1, <3>2 DEF NotesInv, NotesParts, ListsAreWhole
    <2> QED
      BY <2>1 DEF Notes!NoNoteLost
  <1> QED
    BY <1>1, <1>2, <1>3, PTL DEF Notes!Spec

-----------------------------------------------------------------------------
(* The terminal.  The lines after the last place where the command that runs*)
(* was typed are its own, and so are those before the word it ends with.    *)

Shown(kind, c) == [kind |-> kind, call |-> c]

OnPane == [kind : {"typed", "line", "word"}, call : Call]

\* From place m to before place w there are lines of c only.
LinesOf(p, m, w, c) == \A k \in 1..Len(p) : m < k /\ k < w /\ p[k].kind = "line" => p[k].call = c

\* The command c runs: what it shows follows what was typed.
Runs(p, c) == \E m \in 1..Len(p) : p[m] = Shown("typed", c) /\ LinesOf(p, m, Len(p) + 1, c)

\* It ran: the word at w.
Ran(p, w) == \E m \in 1..Len(p) : m < w /\ p[m] = Shown("typed", p[w].call) /\ LinesOf(p, m, w, p[w].call)

WordsEnd(p) == \A w \in 1..Len(p) : p[w].kind = "word" => Ran(p, w)

TerminalInv ==
  /\ pane \in Seq(OnPane) /\ typed \in Seq(Call) /\ current \in Call \cup {None} /\ DOMAIN answer = Call
  /\ current # None => Runs(pane, current)
  /\ WordsEnd(pane)
  /\ Terminal!AnswerIsItsOwn

\* Max and Min are of a set of places what their names say.
LEMMA MaxOfPlaces ==
  ASSUME NEW n \in Nat, NEW T, T \subseteq 1..n, T # {}
  PROVE  Terminal!Max(T) \in T /\ \A x \in T : x <= Terminal!Max(T)
  <1> DEFINE U == {n - x : x \in T}
  <1>1. \A x \in T : x \in Int /\ n - x \in Nat /\ n - x \in U
    OBVIOUS
  <1>2. U \subseteq Nat /\ U # {}
    BY <1>1
  <1>3. PICK u \in U : \A v \in U : u <= v
    BY <1>2, LeastNumber
  <1>4. PICK x \in T : u = n - x
    BY <1>3
  <1>5. ASSUME NEW y \in T PROVE x >= y
    <2>1. u <= n - y
      BY <1>3, <1>1
    <2> QED
      BY <1>4, <1>1, <2>1
  <1>6. \A y \in T : x >= y
    BY <1>5
  <1> QED
    BY <1>6 DEF Terminal!Max

LEMMA MinOfPlaces ==
  ASSUME NEW n \in Nat, NEW T, T \subseteq 1..n, T # {}
  PROVE  Terminal!Min(T) \in T
  <1>1. T \subseteq Nat
    OBVIOUS
  <1>2. \E x \in T : \A y \in T : x =< y
    BY <1>1, LeastNumber
  <1> QED
    BY <1>2 DEF Terminal!Min

\* One more thing is shown.
LEMMA ShownAfter ==
  ASSUME NEW p \in Seq(OnPane), NEW e \in OnPane, WordsEnd(p)
  PROVE  /\ Append(p, e) \in Seq(OnPane)
         /\ e.kind # "word" => WordsEnd(Append(p, e))
         /\ e.kind = "word" /\ Runs(p, e.call) => WordsEnd(Append(p, e))
         /\ \A c : Runs(p, c) /\ (e.kind # "line" \/ e.call = c) => Runs(Append(p, e), c)
         /\ \A c : e = Shown("typed", c) => Runs(Append(p, e), c)
  <1> DEFINE q == Append(p, e)
             n == Len(p)
  <1>1. /\ n \in Nat /\ Len(q) = n + 1 /\ q[n + 1] = e /\ q \in Seq(OnPane)
        /\ \A i \in 1..n : q[i] = p[i]
    OBVIOUS
  <1> HIDE DEF q, n
  <1>2. 1..Len(p) = 1..n /\ 1..Len(q) = 1..(n + 1) /\ \A i \in 1..(n + 1) : i \in 1..n \/ i = n + 1
    BY <1>1 DEF n
  <1>3. ASSUME NEW w \in 1..n, Ran(p, w) PROVE Ran(q, w)
    <2>1. PICK m \in 1..n : m < w /\ p[m] = Shown("typed", p[w].call) /\ LinesOf(p, m, w, p[w].call)
      BY <1>2, <1>3 DEF Ran
    <2>2. LinesOf(q, m, w, q[w].call)
      BY <1>1, <1>2, <2>1 DEF LinesOf
    <2> QED
      BY <1>1, <1>2, <2>1, <2>2 DEF Ran
  <1>4. e.kind # "word" => WordsEnd(q)
    BY <1>1, <1>2, <1>3 DEF WordsEnd
  <1>5. ASSUME NEW c, Runs(p, c), e.kind = "word", e.call = c PROVE Ran(q, n + 1)
    <2>1. PICK m \in 1..n : p[m] = Shown("typed", c) /\ LinesOf(p, m, n + 1, c)
      BY <1>2, <1>5 DEF Runs, n
    <2>2. LinesOf(q, m, n + 1, c)
      BY <1>1, <1>2, <2>1 DEF LinesOf
    <2>3. m \in 1..(n + 1) /\ m < n + 1 /\ q[m] = Shown("typed", c) /\ q[n + 1].call = c
      BY <1>1, <1>5, <2>1
    <2> QED
      BY <1>2, <2>2, <2>3 DEF Ran
  <1>6. e.kind = "word" /\ Runs(p, e.call) => WordsEnd(q)
    BY <1>1, <1>2, <1>3, <1>5 DEF WordsEnd
  <1>7. ASSUME NEW c, Runs(p, c), e.kind # "line" \/ e.call = c PROVE Runs(q, c)
    <2>1. PICK m \in 1..n : p[m] = Shown("typed", c) /\ LinesOf(p, m, n + 1, c)
      BY <1>2, <1>7 DEF Runs, n
    <2>2. LinesOf(q, m, Len(q) + 1, c)
      BY <1>1, <1>2, <1>7, <2>1 DEF LinesOf
    <2> QED
      BY <1>1, <1>2, <2>1, <2>2 DEF Runs
  <1>8. ASSUME NEW c, e = Shown("typed", c) PROVE Runs(q, c)
    <2>1. LinesOf(q, n + 1, Len(q) + 1, c)
      BY <1>1, <1>2 DEF LinesOf
    <2> QED
      BY <1>1, <1>2, <1>8, <2>1 DEF Runs
  <1> QED
    BY <1>1, <1>4, <1>6, <1>7, <1>8 DEF q

\* A poll that finds the word of its command takes that command's lines.
LEMMA PollTakesItsOwn ==
  ASSUME TerminalInv, NEW c \in Call, Terminal!Poll(c)
  PROVE  Terminal!AnswerIsItsOwn' /\ DOMAIN answer' = Call
  <1>1. CASE answer' = answer
    BY <1>1 DEF TerminalInv, Terminal!AnswerIsItsOwn
  <1>2. CASE answer' # answer
    <2> DEFINE M == Terminal!Places("typed", c)
               W == {i \in Terminal!Places("word", c) : i > Terminal!Marker(c)}
               m == Terminal!Max(M)
               w == Terminal!Min(W)
    <2>1. M # {} /\ W # {} /\ answer' = [answer EXCEPT ![c] = SubSeq(pane, m + 1, w - 1)]
      BY <1>2 DEF Terminal!Poll, Terminal!Marker
    <2>2. pane \in Seq(OnPane) /\ Len(pane) \in Nat /\ M \subseteq 1..Len(pane) /\ W \subseteq 1..Len(pane)
      BY DEF TerminalInv, Terminal!Places
    <2>3. m \in M /\ \A x \in M : x <= m
      BY <2>1, <2>2, MaxOfPlaces
    <2>4. w \in W
      BY <2>1, <2>2, MinOfPlaces
    <2>5. w \in 1..Len(pane) /\ pane[w] = Shown("word", c) /\ w > m
      BY <2>2, <2>4 DEF Terminal!Places, Terminal!Marker, Shown
    <2>6. pane[w].kind = "word" /\ pane[w].call = c
      BY <2>5 DEF Shown
    <2>7. Ran(pane, w)
      BY <2>5, <2>6 DEF TerminalInv, WordsEnd
    <2>8. PICK k \in 1..Len(pane) : k < w /\ pane[k] = Shown("typed", c) /\ LinesOf(pane, k, w, c)
      BY <2>6, <2>7 DEF Ran
    <2>9. k <= m
      BY <2>2, <2>3, <2>8 DEF Terminal!Places, Shown
    <2> DEFINE s == SubSeq(pane, m + 1, w - 1)
    <2>10. m \in 1..Len(pane) /\ w \in 1..Len(pane) /\ m < w
      BY <2>2, <2>3, <2>5
    <2> HIDE DEF m, w, M, W
    <2>11. ASSUME NEW i \in DOMAIN s, s[i].kind = "line" PROVE s[i].call = c
      <3>1. i \in 1..(w - 1 - m) /\ s[i] = pane[m + i]
        BY <2>2, <2>10, <2>11
      <3> HIDE DEF s
      <3>2. m + i \in 1..Len(pane) /\ k < m + i /\ m + i < w
        BY <2>2, <2>9, <2>10, <3>1
      <3> QED
        BY <2>8, <2>11, <3>1, <3>2 DEF LinesOf
    <2> HIDE DEF s
    <2>12. answer' = [answer EXCEPT ![c] = s]
      BY <2>1 DEF s, m, w
    <2> QED
      BY <2>11, <2>12 DEF TerminalInv, Terminal!AnswerIsItsOwn
  <1> QED
    BY <1>1, <1>2

LEMMA TerminalStep ==
  ASSUME TerminalInv, Terminal!Next
  PROVE  TerminalInv'
  <1>1. /\ pane \in Seq(OnPane) /\ typed \in Seq(Call) /\ current \in Call \cup {None} /\ DOMAIN answer = Call
        /\ current # None => Runs(pane, current)
        /\ WordsEnd(pane)
    BY DEF TerminalInv
  <1>2. (\E c \in Call : Terminal!Poll(c)) \/ answer' = answer
    BY DEF Terminal!Next, Terminal!EnsureSession, Terminal!SendKeys, Terminal!TimesOut, Terminal!HasSession,
           Terminal!NewSession, Terminal!StartTtyd, Terminal!TtydExits, Terminal!SessionEnds, Terminal!ShellReads,
           Terminal!ShellPrints, Terminal!ShellEchoes, Terminal!Interrupt
  <1>3. Terminal!AnswerIsItsOwn' /\ DOMAIN answer' = Call
    <2>1. CASE answer' = answer
      BY <2>1 DEF TerminalInv, Terminal!AnswerIsItsOwn
    <2> QED
      BY <1>2, <2>1, PollTakesItsOwn
  <1>4. CASE UNCHANGED <<pane, typed, current>>
    BY <1>1, <1>3, <1>4 DEF TerminalInv
  <1>5. ASSUME NEW c \in Call, Terminal!SendKeys(c) PROVE TerminalInv'
    <2>1. CASE UNCHANGED <<pane, typed, current>>
      BY <1>4, <2>1
    <2>2. CASE pane' = Append(pane, Shown("typed", c)) /\ typed' = Append(typed, c) /\ current' = current
      <3>1. Shown("typed", c) \in OnPane /\ Shown("typed", c).kind = "typed"
        BY DEF OnPane, Shown
      <3>2. PICK e \in OnPane : e = Shown("typed", c) /\ e.kind = "typed"
        BY <3>1
      <3>3. pane' \in Seq(OnPane) /\ WordsEnd(pane') /\ (current # None => Runs(pane', current))
        BY <1>1, <2>2, <3>2, ShownAfter
      <3>4. typed' \in Seq(Call)
        BY <1>1, <2>2
      <3> QED
        BY <1>1, <1>3, <2>2, <3>3, <3>4 DEF TerminalInv
    <2> QED
      BY <1>5, <2>1, <2>2 DEF Terminal!SendKeys, Terminal!Shows, Shown
  <1>6. CASE Terminal!SessionEnds
    <2>1. pane' = <<>> /\ typed' = <<>> /\ current' = None
      BY <1>6 DEF Terminal!SessionEnds
    <2>2. pane' \in Seq(OnPane) /\ typed' \in Seq(Call) /\ WordsEnd(pane')
      BY <2>1 DEF WordsEnd
    <2> QED
      BY <1>3, <2>1, <2>2 DEF TerminalInv
  <1>7. CASE Terminal!ShellReads
    <2> DEFINE c == Head(typed)
    <2>1. /\ typed # <<>> /\ current' = c /\ typed' = Tail(typed)
          /\ \/ pane' = Append(pane, Shown("typed", c))
             \/ pane # <<>> /\ pane[Len(pane)] = Shown("typed", c) /\ pane' = pane
      BY <1>7 DEF Terminal!ShellReads, Terminal!Shows, Shown
    <2>2. c \in Call /\ typed' \in Seq(Call)
      BY <1>1, <2>1
    <2> HIDE DEF c
    <2>3. CASE pane' = Append(pane, Shown("typed", c))
      <3>1. Shown("typed", c) \in OnPane /\ Shown("typed", c).kind = "typed"
        BY <2>2 DEF OnPane, Shown
      <3>2. PICK e \in OnPane : e = Shown("typed", c) /\ e.kind = "typed"
        BY <3>1
      <3>3. pane' \in Seq(OnPane) /\ WordsEnd(pane') /\ Runs(pane', c)
        BY <1>1, <2>3, <3>2, ShownAfter
      <3> QED
        BY <1>3, <2>1, <2>2, <3>3 DEF TerminalInv
    <2>4. CASE pane # <<>> /\ pane[Len(pane)] = Shown("typed", c) /\ pane' = pane
      <3>1. Len(pane) \in 1..Len(pane) /\ pane[Len(pane)] = Shown("typed", c)
        BY <1>1, <2>4
      <3>2. LinesOf(pane, Len(pane), Len(pane) + 1, c)
        BY <3>1 DEF LinesOf
      <3>3. Runs(pane', c)
        BY <2>4, <3>1, <3>2 DEF Runs
      <3> QED
        BY <1>1, <1>3, <2>1, <2>2, <2>4, <3>3 DEF TerminalInv
    <2> QED
      BY <2>1, <2>3, <2>4
  <1>8. CASE Terminal!ShellPrints
    <2>1. current # None /\ pane' = Append(pane, Shown("line", current)) /\ UNCHANGED <<typed, current>>
      BY <1>8 DEF Terminal!ShellPrints, Terminal!Shows, Shown
    <2>2. PICK e \in OnPane : e = Shown("line", current) /\ e.kind = "line" /\ e.call = current
      BY <1>1, <2>1 DEF OnPane, Shown
    <2>3. pane' \in Seq(OnPane) /\ WordsEnd(pane') /\ Runs(pane', current)
      BY <1>1, <2>1, <2>2, ShownAfter
    <2> QED
      BY <1>1, <1>3, <2>1, <2>3 DEF TerminalInv
  <1>9. CASE Terminal!ShellEchoes
    <2>1. current # None /\ pane' = Append(pane, Shown("word", current)) /\ current' = None /\ typed' = typed
      BY <1>9 DEF Terminal!ShellEchoes, Terminal!Shows, Shown
    <2>2. PICK e \in OnPane : e = Shown("word", current) /\ e.kind = "word" /\ e.call = current
      BY <1>1, <2>1 DEF OnPane, Shown
    <2>3. pane' \in Seq(OnPane) /\ WordsEnd(pane')
      BY <1>1, <2>1, <2>2, ShownAfter
    <2> QED
      BY <1>1, <1>3, <2>1, <2>3 DEF TerminalInv
  <1>10. CASE Terminal!Interrupt
    <2>1. pane' = pane /\ typed' = <<>> /\ current' = None
      BY <1>10 DEF Terminal!Interrupt
    <2> QED
      BY <1>1, <1>3, <2>1 DEF TerminalInv
  <1>11. CASE \/ Terminal!HasSession \/ Terminal!NewSession \/ Terminal!StartTtyd \/ Terminal!TtydExits
              \/ \E c \in Call : Terminal!EnsureSession(c) \/ Terminal!Poll(c) \/ Terminal!TimesOut(c)
    BY <1>4, <1>11 DEF Terminal!HasSession, Terminal!NewSession, Terminal!StartTtyd, Terminal!TtydExits,
       Terminal!EnsureSession, Terminal!Poll, Terminal!TimesOut
  <1> QED
    BY <1>5, <1>6, <1>7, <1>8, <1>9, <1>10, <1>11 DEF Terminal!Next

\* For any number of calls, lines and people at the one pane: what run_command
\* returns has no line of another command, however the shell redraws what was
\* typed ahead and the session ends and is made again (apps/terminal).
THEOREM AnswersAreTheirOwn == Terminal!Spec => []Terminal!AnswerIsItsOwn
  <1>1. Terminal!Init => TerminalInv
    <2> SUFFICES ASSUME Terminal!Init PROVE TerminalInv
      OBVIOUS
    <2>1. pane = <<>> /\ typed = <<>> /\ current = None /\ answer = [c \in Call |-> None]
      BY DEF Terminal!Init
    <2>2. pane \in Seq(OnPane) /\ typed \in Seq(Call) /\ WordsEnd(pane)
      BY <2>1 DEF WordsEnd
    <2> QED
      BY <2>1, <2>2 DEF TerminalInv, Terminal!AnswerIsItsOwn
  <1>2. TerminalInv /\ [Terminal!Next]_Terminal!vars => TerminalInv'
    <2>1. ASSUME TerminalInv, UNCHANGED Terminal!vars PROVE TerminalInv'
      BY <2>1 DEF Terminal!vars, TerminalInv, Terminal!AnswerIsItsOwn
    <2> QED
      BY <2>1, TerminalStep
  <1>3. TerminalInv => Terminal!AnswerIsItsOwn
    BY DEF TerminalInv
  <1> QED
    BY <1>1, <1>2, <1>3, PTL DEF Terminal!Spec

-----------------------------------------------------------------------------
(* The web-fetch app.  A hop is a URL, whoever named it.                    *)

(* Wherever the servers redirect to, only the hosts and ports berth.yml     *)
(* declares are contacted, and a host's secret headers have only gone to    *)
(* that host, encrypted or inside the machine (hosts.ts, index.ts).         *)
THEOREM SecretsGoNowhereElse ==
  Web!Spec => []Web!SecretsStayHome
  <1>1. Web!Init => Web!SecretsStayHome
    BY DEF Web!Init, Web!SecretsStayHome
  <1>2. Web!SecretsStayHome /\ [Web!Next]_Web!vars => Web!SecretsStayHome'
    <2>1. ASSUME Web!SecretsStayHome, NEW r \in Request, Web!Fetch(r) PROVE Web!SecretsStayHome'
      <3>1. CASE sent' = sent
        BY <2>1, <3>1 DEF Web!SecretsStayHome
      <3>2. CASE Web!IsAllowed(req[r].url) /\ sent' = {Web!Message(req[r])}
        <4> DEFINE m == Web!Message(req[r])
        <4>1. m.url = req[r].url /\ m.headersOf = Web!SecretHeadersFor(m.url)
          BY DEF Web!Message
        <4>2. \E p \in Pattern : m.url.host \in p.hosts
                                 /\ \/ p.port \in {Web!AnyPort, m.url.port}
                                    \/ p.port = Web!NoPort /\ m.url.port \in {80, 443}
          BY <3>2, <4>1 DEF Web!IsAllowed
        <4>3. \A h \in m.headersOf : h = m.url.host /\ (m.url.secure \/ m.url.host \in Loopback)
          BY <4>1 DEF Web!SecretHeadersFor
        <4> HIDE DEF m
        <4>4. sent' = {m}
          BY <3>2 DEF m
        <4> QED
          BY <4>2, <4>3, <4>4 DEF Web!SecretsStayHome
      <3> QED
        BY <2>1, <3>1, <3>2 DEF Web!Fetch
    <2>2. ASSUME Web!SecretsStayHome, UNCHANGED sent PROVE Web!SecretsStayHome'
      BY <2>2 DEF Web!SecretsStayHome
    <2>3. ASSUME NEW r \in Request
          PROVE  /\ \A m \in Web!Method, u \in Url, body \in BOOLEAN : Web!Send(r, m, u, body) => UNCHANGED sent
                 /\ \A s \in {301, 303, 307}, u \in Url : Web!Redirected(r, s, u) => UNCHANGED sent
                 /\ \A c \in Chunk : Web!ReadCapped(r, c) => UNCHANGED sent
                 /\ Web!Answered(r) \/ Web!ReadAll(r) \/ Web!Fails(r) \/ Web!TimesOut(r) => UNCHANGED sent
      <3>1. \A m \in Web!Method, u \in Url, body \in BOOLEAN : Web!Send(r, m, u, body) => UNCHANGED sent
        BY DEF Web!Send
      <3>2. \A s \in {301, 303, 307}, u \in Url : Web!Redirected(r, s, u) => UNCHANGED sent
        BY Zenon DEF Web!Redirected
      <3>3. \A c \in Chunk : Web!ReadCapped(r, c) => UNCHANGED sent
        BY Zenon DEF Web!ReadCapped
      <3>4. Web!Answered(r) \/ Web!ReadAll(r) \/ Web!Fails(r) \/ Web!TimesOut(r) => UNCHANGED sent
        BY Zenon DEF Web!Answered, Web!ReadAll, Web!Fails, Web!TimesOut
      <3> QED
        BY <3>1, <3>2, <3>3, <3>4
    <2>4. Web!Next => (\E r \in Request : Web!Fetch(r)) \/ UNCHANGED sent
      BY <2>3 DEF Web!Next
    <2> QED
      BY <2>1, <2>2, <2>4 DEF Web!vars
  <1> QED
    BY <1>1, <1>2, PTL DEF Web!Spec

\* A request, as long as it goes on, has nothing to show; its result says what
\* it left out.
IsTold(q) == q.pc = "done" /\ ~q.truncated => q.shown = q.whole

LEMMA ResultIsTold ==
  ASSUME NEW whole, NEW byteCapped \in BOOLEAN
  PROVE  /\ IsTold(Web!Result(whole, whole, byteCapped))
         /\ \A size : IsTold(Web!Result(whole, size, TRUE))
  BY DEF IsTold, Web!Result

(* A result that does not say it was truncated shows the whole answer,      *)
(* wherever the caps and the ends of the chunks fall (readCapped(), send()  *)
(* in index.ts).                                                            *)
THEOREM CutsAreTold == Web!Spec => []Web!CutIsTold
  <1> DEFINE Inv == DOMAIN req = Request /\ \A r \in Request : IsTold(req[r])
  <1>1. Web!Init => Inv
    BY DEF Web!Init, Web!Idle, IsTold
  <1>2. Inv /\ [Web!Next]_Web!vars => Inv'
    <2>1. ASSUME Inv, NEW r \in Request, NEW q, IsTold(q), req' = [req EXCEPT ![r] = q] PROVE Inv'
      <3>1. DOMAIN req' = Request /\ \A s \in Request : req'[s] = IF s = r THEN q ELSE req[s]
        BY <2>1
      <3> QED
        BY <2>1, <3>1
    <2>2. ASSUME Inv, UNCHANGED req PROVE Inv'
      BY <2>2
    <2>3. ASSUME Inv, NEW r \in Request, NEW how \in {"failed", "refused", "timedOut"}, Web!End(r, how) PROVE Inv'
      <3>1. IsTold([pc |-> how])
        BY DEF IsTold
      <3> HIDE DEF Inv
      <3> QED
        BY <2>1, <2>3, <3>1 DEF Web!End
    <2>4. ASSUME Inv, NEW r \in Request, NEW m \in Web!Method, NEW u \in Url, NEW body \in BOOLEAN,
                 Web!Send(r, m, u, body)
          PROVE  Inv'
      <3> DEFINE q == [pc |-> "hop", url |-> u, method |-> m, body |-> body, hop |-> 0]
      <3>1. IsTold(q)
        BY DEF IsTold
      <3> HIDE DEF Inv, q
      <3>2. Web!End(r, "failed") \/ req' = [req EXCEPT ![r] = q]
        BY <2>4 DEF Web!Send, q
      <3> QED
        BY <2>1, <2>3, <2>4, <3>1, <3>2
    <2>5. ASSUME Inv, NEW r \in Request, Web!Fetch(r) PROVE Inv'
      <3> DEFINE q == [req[r] EXCEPT !.pc = "waiting"]
      <3>1. CASE Web!End(r, "refused")
        BY <2>3, <2>5, <3>1
      <3>2. CASE req' = [req EXCEPT ![r] = q]
        <4>1. req'[r].pc # "done" /\ DOMAIN req' = Request /\ \A s \in Request \ {r} : req'[s] = req[s]
          BY <2>5, <3>2 DEF Web!Fetch
        <4> QED
          BY <2>5, <4>1 DEF IsTold
      <3>3. Web!End(r, "refused") \/ req' = [req EXCEPT ![r] = q]
        BY <2>5 DEF Web!Fetch
      <3> QED
        BY <3>1, <3>2, <3>3
    <2>6. ASSUME Inv, NEW r \in Request, NEW s \in {301, 303, 307}, NEW u \in Url, Web!Redirected(r, s, u)
          PROVE  Inv'
      <3>1. CASE Web!End(r, "failed")
        BY <2>3, <2>6, <3>1
      <3>2. CASE ~Web!End(r, "failed")
        <4> DEFINE q == req[r]
                   n == IF Web!BecomesGet(s, q.method)
                        THEN [q EXCEPT !.pc = "hop", !.url = u, !.hop = @ + 1, !.method = "GET", !.body = FALSE]
                        ELSE [q EXCEPT !.pc = "hop", !.url = u, !.hop = @ + 1]
        <4>1. req' = [req EXCEPT ![r] = n] /\ q.pc = "waiting"
          BY <2>6, <3>2 DEF Web!Redirected
        <4>2. n.pc # "done"
          BY <4>1
        <4> HIDE DEF n
        <4>3. IsTold(n)
          BY <4>2 DEF IsTold
        <4> HIDE DEF Inv
        <4> QED
          BY <2>1, <2>6, <4>1, <4>3
      <3> QED
        BY <3>1, <3>2
    <2>7. ASSUME Inv, NEW r \in Request, Web!Answered(r) PROVE Inv'
      <3>1. IsTold([pc |-> "reading", size |-> 0])
        BY DEF IsTold
      <3> HIDE DEF Inv
      <3> QED
        BY <2>1, <2>7, <3>1 DEF Web!Answered
    <2>8. ASSUME Inv, NEW r \in Request, NEW c \in Chunk, Web!ReadCapped(r, c) PROVE Inv'
      <3> DEFINE size == req[r].size + c
      <3>1. IsTold([pc |-> "reading", size |-> size]) /\ IsTold(Web!Result(size, MaxBytes, TRUE))
        BY ResultIsTold DEF IsTold
      <3> HIDE DEF Inv
      <3>2. \/ req' = [req EXCEPT ![r] = [pc |-> "reading", size |-> size]]
            \/ req' = [req EXCEPT ![r] = Web!Result(size, MaxBytes, TRUE)]
        BY <2>8 DEF Web!ReadCapped
      <3> HIDE DEF size
      <3> QED
        BY <2>1, <2>8, <3>1, <3>2
    <2>9. ASSUME Inv, NEW r \in Request, Web!ReadAll(r) PROVE Inv'
      <3>1. IsTold(Web!Result(req[r].size, req[r].size, FALSE))
        BY ResultIsTold
      <3> HIDE DEF Inv
      <3> QED
        BY <2>1, <2>9, <3>1 DEF Web!ReadAll
    <2> HIDE DEF Inv
    <2> QED
      BY <2>2, <2>3, <2>4, <2>5, <2>6, <2>7, <2>8, <2>9 DEF Web!Next, Web!Fails, Web!TimesOut, Web!vars
  <1>3. Inv => Web!CutIsTold
    BY DEF IsTold, Web!CutIsTold
  <1> HIDE DEF Inv
  <1> QED
    BY <1>1, <1>2, <1>3, PTL DEF Web!Spec

-----------------------------------------------------------------------------
(* The git app.  What a push has read of the branch is still in it when the *)
(* branch is pushed, and on a server once the push was answered.            *)

Published == UNION {remote[h] : h \in Declared}

IsCall(q) == q = [op |-> q.op, pc |-> q.pc, remote |-> q.remote, sha |-> q.sha]

\* What a push knows, by how far it is.
PushKnows(q, there, here, published) ==
  q.op = "push" =>
    /\ q.pc # "idle" => there
    /\ q.pc = "parsed" => q.sha \subseteq here
    /\ q.pc = "pushed" => q.sha \subseteq published

GitInv ==
  /\ DOMAIN remote = Declared /\ DOMAIN call = Call /\ cloned \in BOOLEAN
  /\ Git!TrackingIsPublished
  /\ \A c \in Call : IsCall(call[c]) /\ PushKnows(call[c], cloned, local, Published)

\* Branches only grow: on a server, and here once there is a repository.
Grows ==
  /\ DOMAIN remote' = Declared /\ cloned' \in BOOLEAN
  /\ \A h \in Declared : remote[h] \subseteq remote'[h]
  /\ cloned => (cloned' /\ local \subseteq local')

\* Only call c goes on, and what it knows then is so.
GoesOn(c) ==
  /\ DOMAIN call' = Call
  /\ \A d \in Call : d # c => call'[d] = call[d]
  /\ IsCall(call'[c]) /\ PushKnows(call'[c], cloned', local', Published')

LEMMA GitGoesOn ==
  ASSUME GitInv, Grows, (\E c \in Call : GoesOn(c)) \/ call' = call, tracking' \subseteq Published'
  PROVE  GitInv'
  <1>1. Published \subseteq Published'
    BY DEF Grows, Published
  <1>2. ASSUME NEW q, PushKnows(q, cloned, local, Published) PROVE PushKnows(q, cloned', local', Published')
    BY <1>1, <1>2 DEF PushKnows, Grows
  <1>3. \A d \in Call : IsCall(call[d]) /\ PushKnows(call[d], cloned, local, Published)
    BY DEF GitInv
  <1>4. \A d \in Call : IsCall(call'[d]) /\ PushKnows(call'[d], cloned', local', Published')
    BY <1>2, <1>3 DEF GoesOn
  <1>5. DOMAIN remote' = Declared /\ DOMAIN call' = Call /\ cloned' \in BOOLEAN /\ Git!TrackingIsPublished'
    BY DEF GitInv, Grows, GoesOn, Git!TrackingIsPublished, Published
  <1> QED
    BY <1>4, <1>5 DEF GitInv

\* A call that goes to its next step.
LEMMA GitGoes ==
  ASSUME GitInv, Grows, tracking' \subseteq Published',
         NEW c \in Call, NEW to, Git!Go(c, to),
         call[c].op = "push" => /\ to # "done" => cloned'
                                /\ to = "parsed" => call[c].sha \subseteq local'
                                /\ to = "pushed" => call[c].sha \subseteq Published'
  PROVE  GitInv'
  <1>1. IsCall(call[c]) /\ PushKnows(call[c], cloned, local, Published) /\ DOMAIN call = Call
    BY DEF GitInv
  <1>2. DOMAIN call' = Call /\ \A d \in Call : d # c => call'[d] = call[d]
    BY <1>1 DEF Git!Go
  <1>3. CASE to = "done"
    <2>1. call'[c] = Git!Idle
      BY <1>1, <1>3 DEF Git!Go
    <2>2. IsCall(call'[c]) /\ PushKnows(call'[c], cloned', local', Published')
      BY <2>1 DEF Git!Idle, IsCall, PushKnows
    <2> QED
      BY <1>2, <2>2, GitGoesOn DEF GoesOn
  <1>4. CASE to # "done"
    <2>1. call'[c] = [call[c] EXCEPT !.pc = to]
      BY <1>1, <1>4 DEF Git!Go
    <2>2. /\ IsCall(call'[c])
          /\ call'[c].op = call[c].op /\ call'[c].pc = to /\ call'[c].sha = call[c].sha
      BY <1>1, <2>1 DEF IsCall
    <2>3. PushKnows(call'[c], cloned', local', Published')
      BY <1>4, <2>2 DEF PushKnows
    <2> QED
      BY <1>2, <2>2, <2>3, GitGoesOn DEF GoesOn
  <1> QED
    BY <1>3, <1>4

LEMMA GitStep ==
  ASSUME GitInv, Git!Next
  PROVE  GitInv'
  <1> USE DEF Git!repo
  <1>1. /\ DOMAIN remote = Declared /\ DOMAIN call = Call /\ cloned \in BOOLEAN
        /\ tracking \subseteq Published
        /\ \A c \in Call : IsCall(call[c]) /\ PushKnows(call[c], cloned, local, Published)
    BY DEF GitInv, Git!TrackingIsPublished, Published
  <1>2. ASSUME UNCHANGED Git!repo PROVE Grows /\ tracking' \subseteq Published' /\ Published' = Published
    BY <1>1, <1>2 DEF Grows, Published
  <1>3. ASSUME NEW c \in Call, NEW op, Git!Begin(c, op) PROVE GitInv'
    <2>1. Grows /\ tracking' \subseteq Published' /\ Published' = Published /\ cloned' = cloned
      BY <1>2, <1>3 DEF Git!Begin
    <2>2. /\ DOMAIN call' = Call /\ \A d \in Call : d # c => call'[d] = call[d]
          /\ call'[c].op = op /\ call'[c].pc = "checked" /\ IsCall(call'[c])
      BY <1>1, <1>3 DEF Git!Begin, IsCall
    <2>3. op = "push" => cloned
      BY <1>3 DEF Git!Begin, Git!CheckedRepo
    <2>4. PushKnows(call'[c], cloned', local', Published')
      BY <2>1, <2>2, <2>3 DEF PushKnows
    <2> QED
      BY <2>1, <2>2, <2>4, GitGoesOn DEF GoesOn
  <1>4. ASSUME NEW c \in Call, NEW h \in RemoteHost, Git!Clone(c, h) PROVE GitInv'
    <2>1. Grows /\ tracking' \subseteq Published'
      BY <1>1, <1>4 DEF Git!Clone, Grows, Published
    <2>2. Git!Go(c, "cloned") /\ call[c].op # "push"
      BY <1>4 DEF Git!Clone, Git!At
    <2> QED
      BY <2>1, <2>2, GitGoes
  <1>5. ASSUME NEW c \in Call, Git!CloneCheck(c) \/ Git!Work(c) \/ Git!PullCheck(c) \/ Git!Fails(c)
        PROVE  GitInv'
    <2>1. Grows /\ tracking' \subseteq Published'
      BY <1>2, <1>5 DEF Git!CloneCheck, Git!Work, Git!PullCheck, Git!Fails
    <2>2. PICK to : Git!Go(c, to) /\ (call[c].op = "push" => to = "done")
      BY <1>5 DEF Git!CloneCheck, Git!Work, Git!PullCheck, Git!Fails, Git!At
    <2> QED
      BY <2>1, <2>2, GitGoes
  <1>6. ASSUME NEW c \in Call, Git!Commit(c) PROVE GitInv'
    <2>1. Grows /\ tracking' \subseteq Published'
      BY <1>1, <1>6 DEF Git!Commit, Grows, Published
    <2>2. Git!Go(c, "done")
      BY <1>6 DEF Git!Commit
    <2> QED
      BY <2>1, <2>2, GitGoes
  <1>7. ASSUME NEW c \in Call, Git!Origin(c) PROVE GitInv'
    <2>1. Grows /\ tracking' \subseteq Published' /\ Published' = Published /\ cloned' = cloned
      BY <1>2, <1>7 DEF Git!Origin
    <2>2. CASE config.origin \in Declared
      <3>1. /\ DOMAIN call' = Call /\ \A d \in Call : d # c => call'[d] = call[d]
            /\ call'[c].op = call[c].op /\ call'[c].pc = "origin" /\ IsCall(call'[c]) /\ call[c].pc = "checked"
        BY <1>1, <1>7, <2>2 DEF Git!Origin, IsCall
      <3>2. PushKnows(call'[c], cloned', local', Published')
        BY <1>1, <2>1, <3>1 DEF PushKnows
      <3> QED
        BY <2>1, <3>1, <3>2, GitGoesOn DEF GoesOn
    <2>3. CASE config.origin \notin Declared
      <3>1. Git!Go(c, "done")
        BY <1>7, <2>3 DEF Git!Origin
      <3> QED
        BY <2>1, <3>1, GitGoes
    <2> QED
      BY <2>2, <2>3
  <1>8. ASSUME NEW c \in Call, Git!RevParse(c) PROVE GitInv'
    <2>1. Grows /\ tracking' \subseteq Published' /\ cloned' = cloned /\ local' = local
      BY <1>2, <1>8 DEF Git!RevParse
    <2>2. /\ DOMAIN call' = Call /\ \A d \in Call : d # c => call'[d] = call[d]
          /\ call'[c].pc = "parsed" /\ call'[c].sha = local /\ IsCall(call'[c])
          /\ call[c].op = "push" /\ call[c].pc = "origin"
      BY <1>1, <1>8 DEF Git!RevParse, IsCall, Git!At
    <2>3. PushKnows(call'[c], cloned', local', Published')
      BY <1>1, <2>1, <2>2 DEF PushKnows
    <2> QED
      BY <2>1, <2>2, <2>3, GitGoesOn DEF GoesOn
  <1>9. ASSUME NEW c \in Call, NEW h \in Declared, NEW reply \in BOOLEAN, Git!Push(c, h, reply)
        PROVE  GitInv'
    <2>1. Grows
      BY <1>1, <1>9 DEF Git!Push, Grows
    <2>2. Published \subseteq Published' /\ tracking' = tracking /\ local \subseteq Published'
      BY <1>1, <1>9 DEF Git!Push, Published
    <2>3. call[c].op = "push" /\ call[c].pc = "parsed" /\ cloned' = cloned
      BY <1>9 DEF Git!Push, Git!At
    <2>4. cloned /\ call[c].sha \subseteq Published'
      BY <1>1, <2>2, <2>3 DEF PushKnows
    <2>5. PICK to \in {"pushed", "done"} : Git!Go(c, to)
      BY <1>9 DEF Git!Push
    <2> QED
      BY <1>1, <2>1, <2>2, <2>3, <2>4, <2>5, GitGoes
  <1>10. ASSUME NEW c \in Call, Git!UpdateRef(c) PROVE GitInv'
    <2>1. Grows /\ Published' = Published
      BY <1>1, <1>10 DEF Git!UpdateRef, Grows, Published
    <2>2. tracking' \subseteq Published'
      BY <1>1, <1>10, <2>1 DEF Git!UpdateRef, Git!At, PushKnows
    <2>3. Git!Go(c, "done")
      BY <1>10 DEF Git!UpdateRef
    <2> QED
      BY <2>1, <2>2, <2>3, GitGoes
  <1>11. ASSUME NEW c \in Call, NEW h \in Declared, Git!Fetch(c, h) PROVE GitInv'
    <2>1. Grows /\ tracking' \subseteq Published'
      BY <1>1, <1>11 DEF Git!Fetch, Grows, Published
    <2>2. Git!Go(c, "fetched") /\ call[c].op # "push"
      BY <1>11 DEF Git!Fetch, Git!At
    <2> QED
      BY <2>1, <2>2, GitGoes
  <1>12. ASSUME NEW c \in Call, Git!Merge(c) PROVE GitInv'
    <2>1. Grows /\ tracking' \subseteq Published'
      BY <1>1, <1>12 DEF Git!Merge, Grows, Published
    <2>2. Git!Go(c, "done")
      BY <1>12 DEF Git!Merge
    <2> QED
      BY <2>1, <2>2, GitGoes
  <1>13. ASSUME NEW h, NEW extra, Git!Rewrite(h, extra) PROVE GitInv'
    <2>1. Grows /\ tracking' \subseteq Published' /\ call' = call
      BY <1>1, <1>13 DEF Git!Rewrite, Grows, Published
    <2> QED
      BY <2>1, GitGoesOn
  <1>14. ASSUME NEW h \in Declared, Git!OtherPushes(h) PROVE GitInv'
    <2>1. Grows /\ tracking' = tracking /\ call' = call
      BY <1>1, <1>14 DEF Git!OtherPushes, Grows
    <2>2. Published \subseteq Published'
      BY <2>1 DEF Grows, Published
    <2> QED
      BY <1>1, <2>1, <2>2, GitGoesOn
  <1> QED
    BY <1>3, <1>4, <1>5, <1>6, <1>7, <1>8, <1>9, <1>10, <1>11, <1>12, <1>13, <1>14 DEF Git!Next

(* The remote branch the app shows never claims a commit that no server     *)
(* has, however calls, other apps and other clones interleave and whichever *)
(* answers are lost (apps/git/src/index.ts).                                *)
THEOREM TrackedIsPublished == Git!Spec => []Git!TrackingIsPublished
  <1>1. Git!Init => GitInv
    <2> SUFFICES ASSUME Git!Init PROVE GitInv
      OBVIOUS
    <2>1. IsCall(Git!Idle) /\ PushKnows(Git!Idle, cloned, local, Published)
      BY DEF Git!Idle, IsCall, PushKnows
    <2>2. \A c \in Call : call[c] = Git!Idle
      BY DEF Git!Init
    <2> QED
      BY <2>1, <2>2 DEF Git!Init, GitInv, Git!TrackingIsPublished
  <1>2. GitInv /\ [Git!Next]_Git!vars => GitInv'
    <2>1. ASSUME GitInv, UNCHANGED Git!vars PROVE GitInv'
      BY <2>1 DEF GitInv, Git!vars, Git!TrackingIsPublished, Published
    <2> QED
      BY <2>1, GitStep
  <1>3. GitInv => Git!TrackingIsPublished
    BY DEF GitInv
  <1> QED
    BY <1>1, <1>2, <1>3, PTL DEF Git!Spec

(* GIT_TOKEN is only ever given to the declared host the call checked, and  *)
(* is never in the environment of a command that runs a filter driver,      *)
(* however .git/config is rewritten (apps/git/src/index.ts).                *)
THEOREM TokenKeepsHome == Git!Spec => []Git!TokenStaysHome
  <1>1. Git!Init => Git!TokenStaysHome
    BY DEF Git!Init, Git!TokenStaysHome
  <1>2. Git!TokenStaysHome /\ [Git!Next]_Git!vars => Git!TokenStaysHome'
    <2> SUFFICES ASSUME Git!TokenStaysHome, [Git!Next]_Git!vars PROVE Git!TokenStaysHome'
      OBVIOUS
    <2> USE DEF Git!repo, Git!TokenStaysHome
    <2>1. ASSUME ran' = ran PROVE Git!TokenStaysHome'
      BY <2>1
    <2>2. ASSUME NEW h, NEW reached \in Declared, Git!Git(h, reached, FALSE) PROVE Git!TokenStaysHome'
      BY <2>2 DEF Git!Git, Git!CredentialHelper
    <2>3. ASSUME Git!Git(Git!NoHost, Git!NoHost, TRUE) PROVE Git!TokenStaysHome'
      BY <2>3 DEF Git!Git
    <2>4. \/ ran' = ran
          \/ \E h, reached : reached \in Declared /\ Git!Git(h, reached, FALSE)
          \/ Git!Git(Git!NoHost, Git!NoHost, TRUE)
      <3>1. CASE UNCHANGED Git!vars
        BY <3>1 DEF Git!vars
      <3>2. ASSUME NEW c \in Call, NEW h \in RemoteHost, Git!Clone(c, h) PROVE h \in Declared /\ Git!Git(h, h, FALSE)
        BY <3>2 DEF Git!Clone
      <3>3. ASSUME NEW c \in Call, Git!Work(c) \/ Git!Commit(c) \/ Git!Merge(c)
            PROVE  Git!Git(Git!NoHost, Git!NoHost, TRUE)
        BY <3>3 DEF Git!Work, Git!Commit, Git!Merge
      <3>4. ASSUME NEW c \in Call, NEW h \in Declared,
                   Git!Fetch(c, h) \/ \E reply \in BOOLEAN : Git!Push(c, h, reply)
            PROVE  Git!Git(call[c].remote, h, FALSE)
        BY <3>4 DEF Git!Fetch, Git!Push
      <3>5. ASSUME NEW c \in Call,
                   \/ \E op : Git!Begin(c, op)
                   \/ Git!CloneCheck(c) \/ Git!PullCheck(c) \/ Git!Fails(c)
                   \/ Git!Origin(c) \/ Git!RevParse(c) \/ Git!UpdateRef(c)
            PROVE  ran' = ran
        BY <3>5 DEF Git!Begin, Git!CloneCheck, Git!PullCheck, Git!Fails, Git!Origin, Git!RevParse, Git!UpdateRef
      <3>6. ASSUME NEW h, (\E extra : Git!Rewrite(h, extra)) \/ Git!OtherPushes(h) PROVE ran' = ran
        BY <3>6 DEF Git!Rewrite, Git!OtherPushes
      <3> QED
        BY <3>1, <3>2, <3>3, <3>4, <3>5, <3>6 DEF Git!Next
    <2> QED
      BY <2>1, <2>2, <2>3, <2>4
  <1> QED
    BY <1>1, <1>2, PTL DEF Git!Spec

-----------------------------------------------------------------------------
(* The fleet.  Lists of different instances: what is in them, those of an   *)
(* app, and how many these are.                                             *)

Listed(s) == {s[k] : k \in 1 .. Len(s)}
Distinct(s) == \A j, k \in 1 .. Len(s) : s[j] = s[k] => j = k
OfApp(s, apps_, a) == {i \in Listed(s) : apps_[i] = a}

LEMMA ListedAreCounted ==
  ASSUME NEW S, NEW s \in Seq(S), Distinct(s)
  PROVE  IsFiniteSet(Listed(s)) /\ Cardinality(Listed(s)) = Len(s)
  <1>1. Len(s) \in Nat /\ s \in [1 .. Len(s) -> Listed(s)]
    <2>1. s \in [1 .. Len(s) -> S] /\ Len(s) \in Nat
      BY LenProperties
    <2> QED
      BY <2>1 DEF Listed
  <1>2. s \in Bijection(1 .. Len(s), Listed(s))
    <2>1. s \in Injection(1 .. Len(s), Listed(s))
      BY <1>1 DEF Distinct, Injection, IsInjective
    <2>2. s \in Surjection(1 .. Len(s), Listed(s))
      BY <1>1 DEF Listed, Surjection
    <2> QED
      BY <2>1, <2>2 DEF Bijection
  <1>3. ExistsBijection(1 .. Len(s), Listed(s))
    BY <1>2 DEF ExistsBijection
  <1> QED
    BY <1>1, <1>3, FS_CountingElements, FS_NatBijection

LEMMA PlacesAreCounted ==
  ASSUME NEW S, NEW s \in Seq(S), Distinct(s), NEW apps_, NEW a
  PROVE  Cardinality({k \in DOMAIN s : apps_[s[k]] = a}) = Cardinality(OfApp(s, apps_, a))
  <1> DEFINE P == {k \in DOMAIN s : apps_[s[k]] = a}
             Q == OfApp(s, apps_, a)
             f == [k \in P |-> s[k]]
  <1>1. DOMAIN s = 1 .. Len(s) /\ Len(s) \in Nat
    BY LenProperties
  <1>2. IsFiniteSet(P)
    <2>1. IsFiniteSet(1 .. Len(s))
      BY <1>1, FS_Interval
    <2> QED
      BY <1>1, <2>1, FS_Subset
  <1>3. f \in Bijection(P, Q)
    <2>1. f \in [P -> Q]
      BY <1>1 DEF OfApp, Listed
    <2>2. \A j, k \in P : f[j] = f[k] => j = k
      BY <1>1 DEF Distinct
    <2>3. \A i \in Q : \E k \in P : f[k] = i
      BY <1>1 DEF OfApp, Listed
    <2> HIDE DEF f, P, Q
    <2> QED
      BY <2>1, <2>2, <2>3 DEF Bijection, Injection, IsInjective, Surjection
  <1> HIDE DEF f, P, Q
  <1>4. ExistsBijection(P, Q)
    BY <1>3 DEF ExistsBijection
  <1> QED
    BY <1>2, <1>4, FS_Bijection DEF P, Q

LEMMA OneMoreListed ==
  ASSUME NEW S, NEW s \in Seq(S), NEW i \in S
  PROVE  /\ Listed(s \o <<i>>) = Listed(s) \cup {i} /\ s \o <<i>> \in Seq(S)
         /\ Distinct(s) /\ i \notin Listed(s) => Distinct(s \o <<i>>)
  <1> DEFINE t == s \o <<i>>
  <1>1. /\ Len(s) \in Nat /\ t \in Seq(S) /\ Len(t) = Len(s) + 1
        /\ t[Len(s) + 1] = i /\ \A k \in 1 .. Len(s) : t[k] = s[k]
    OBVIOUS
  <1> HIDE DEF t
  <1>2. \A k \in 1 .. Len(t) : k \in 1 .. Len(s) \/ k = Len(s) + 1
    BY <1>1
  <1>3. \A k \in 1 .. Len(s) : k \in 1 .. Len(t)
    BY <1>1
  <1>4. Len(s) + 1 \in 1 .. Len(t)
    BY <1>1
  <1>5. Listed(t) = Listed(s) \cup {i}
    BY <1>1, <1>2, <1>3, <1>4 DEF Listed
  <1>6. Distinct(s) /\ i \notin Listed(s) => Distinct(t)
    BY <1>1, <1>2 DEF Distinct, Listed
  <1> QED
    BY <1>1, <1>5, <1>6 DEF t

LEMMA AmongKeeps ==
  ASSUME NEW T, NEW s \in Seq(T), Distinct(s), NEW A
  PROVE  /\ Fleet!Among(s, A) \in Seq(T) /\ Distinct(Fleet!Among(s, A))
         /\ Listed(Fleet!Among(s, A)) = Listed(s) \cap A
  <1> DEFINE m == Len(s)
             S == Seq(T)
             step == [x \in (1 .. m) \X S |-> IF s[x[1]] \in A THEN Append(x[2], s[x[1]]) ELSE x[2]]
             Defines(g) == g = [n \in 0 .. m |-> IF n = 0 THEN <<>>
                                                 ELSE IF s[n] \in A THEN Append(g[n - 1], s[n]) ELSE g[n - 1]]
             h == CHOOSE g : Defines(g)
  <1>1. m \in Nat /\ \A n \in 1 .. m : s[n] \in T
    BY LenProperties, ElementOfSeq
  <1>2. <<>> \in S
    OBVIOUS
  <1> HIDE DEF m
  <1>3. step \in [(1 .. m) \X S -> S]
    <2> SUFFICES ASSUME NEW x \in (1 .. m) \X S
                 PROVE  (IF s[x[1]] \in A THEN Append(x[2], s[x[1]]) ELSE x[2]) \in S
      OBVIOUS
    <2>1. x[1] \in 1 .. m /\ x[2] \in Seq(T) /\ s[x[1]] \in T
      BY <1>1
    <2> QED
      BY <2>1
  <1>4. ASSUME NEW n \in 1 .. m, NEW q \in S
        PROVE  step[<<n, q>>] = IF s[n] \in A THEN Append(q, s[n]) ELSE q
    OBVIOUS
  <1> HIDE DEF S, step
  <1>5. HasRun(m, S, <<>>, step)
    BY <1>1, <1>2, <1>3, RunExists
  <1>6. PICK g \in [0 .. m -> S] : \A n \in 0 .. m : g[n] = RunStep(g, n, <<>>, step)
    BY <1>5 DEF HasRun
  <1>7. Defines(g)
    <2>1. ASSUME NEW n \in 0 .. m
          PROVE  g[n] = IF n = 0 THEN <<>> ELSE IF s[n] \in A THEN Append(g[n - 1], s[n]) ELSE g[n - 1]
      <3>1. CASE n = 0
        BY <1>6, <3>1 DEF RunStep
      <3>2. CASE n # 0
        <4>1. n \in 1 .. m /\ n - 1 \in 0 .. m
          BY <1>1, <3>2
        <4>2. g[n - 1] \in S /\ g[n] = step[<<n, g[n - 1]>>]
          BY <1>6, <3>2, <4>1 DEF RunStep
        <4> QED
          BY <1>4, <3>2, <4>1, <4>2
      <3> QED
        BY <3>1, <3>2
    <2> QED
      BY <1>6, <2>1
  <1>8. Defines(h)
    <2> HIDE DEF Defines
    <2> QED
      BY <1>7
  <1>9. Fleet!Among(s, A) = h[m]
    BY Zenon DEF Fleet!Among, m
  <1> HIDE DEF h
  <1>10. /\ h[0] = <<>>
         /\ \A n \in 1 .. m : h[n] = IF s[n] \in A THEN Append(h[n - 1], s[n]) ELSE h[n - 1]
    <2>1. \A n \in 0 .. m : h[n] = IF n = 0 THEN <<>> ELSE IF s[n] \in A THEN Append(h[n - 1], s[n]) ELSE h[n - 1]
      BY <1>8
    <2>2. 0 \in 0 .. m /\ \A n \in 1 .. m : n \in 0 .. m /\ n # 0
      BY <1>1
    <2> QED
      BY <2>1, <2>2
  <1> HIDE DEF Defines
  <1> DEFINE Prior(n) == {s[k] : k \in 1 .. n} \cap A
             Kept(n) == h[n] \in Seq(T) /\ Distinct(h[n]) /\ Listed(h[n]) = Prior(n)
             B == {n \in Nat : n <= m => Kept(n)}
  <1>11. 0 \in B
    <2>1. Distinct(<<>>) /\ Listed(<<>>) = {}
      BY DEF Distinct, Listed
    <2>2. Prior(0) = {}
      OBVIOUS
    <2>3. h[0] \in Seq(T)
      BY <1>10
    <2>4. Kept(0)
      BY <1>10, <2>1, <2>2, <2>3, Zenon
    <2> HIDE DEF Kept
    <2> QED
      BY <2>4
  <1>12. ASSUME NEW n \in Nat, n \in B PROVE n + 1 \in B
    <2> SUFFICES ASSUME n + 1 <= m PROVE Kept(n + 1)
      OBVIOUS
    <2>1. n + 1 \in 1 .. m /\ (n + 1) - 1 = n /\ Kept(n)
      BY <1>1, <1>12
    <2> DEFINE x == s[n + 1]
    <2>2. x \in T /\ x \notin Prior(n)
      BY <1>1, <2>1 DEF Distinct, m
    <2>3. Prior(n + 1) = Prior(n) \cup ({x} \cap A)
      <3>1. 1 .. n + 1 = (1 .. n) \cup {n + 1}
        OBVIOUS
      <3> QED
        BY <3>1
    <2>4. h[n + 1] = IF x \in A THEN Append(h[n], x) ELSE h[n]
      BY <1>10, <2>1
    <2> HIDE DEF x, Prior
    <2>5. CASE x \notin A
      BY <2>1, <2>3, <2>4, <2>5
    <2>6. CASE x \in A
      <3> DEFINE q == h[n]
      <3>1. q \in Seq(T) /\ Distinct(q) /\ Listed(q) = Prior(n)
        BY <2>1
      <3>2. h[n + 1] = Append(q, x)
        BY <2>4, <2>6
      <3> HIDE DEF q
      <3>3. Append(q, x) = q \o <<x>>
        BY <2>2, <3>1
      <3>4. Listed(q \o <<x>>) = Listed(q) \cup {x} /\ q \o <<x>> \in Seq(T) /\ Distinct(q \o <<x>>)
        BY <2>2, <3>1, OneMoreListed
      <3>5. Prior(n + 1) = Prior(n) \cup {x}
        BY <2>3, <2>6
      <3> QED
        BY <3>1, <3>2, <3>3, <3>4, <3>5, Zenon
    <2> QED
      BY <2>5, <2>6
  <1> HIDE DEF B
  <1>13. m \in B
    BY <1>1, <1>11, <1>12, SetInduction
  <1>14. Kept(m)
    BY <1>1, <1>13 DEF B
  <1> QED
    BY <1>9, <1>14 DEF m, Listed

LEMMA RestIsCounted ==
  ASSUME NEW T, NEW s \in Seq(T), Distinct(s), NEW n \in Nat, n < Len(s)
  PROVE  LET rest == SubSeq(s, n + 1, Len(s))
         IN  /\ rest \in Seq(T) /\ Listed(rest) \subseteq Listed(s)
             /\ Cardinality(Listed(s) \ Listed(rest)) = n
  <1> DEFINE front == SubSeq(s, 1, n)
             rest == SubSeq(s, n + 1, Len(s))
  <1>1. /\ Len(s) \in Nat /\ front \in Seq(T) /\ rest \in Seq(T) /\ Len(front) = n /\ Len(rest) = Len(s) - n
        /\ \A k \in 1 .. n : front[k] = s[k]
        /\ \A k \in 1 .. Len(s) - n : rest[k] = s[n + k]
    OBVIOUS
  <1> HIDE DEF front, rest
  <1>2. Distinct(front)
    BY <1>1 DEF Distinct
  <1>3. ASSUME NEW i \in Listed(rest) PROVE i \in Listed(s) /\ i \notin Listed(front)
    <2>1. PICK k \in 1 .. Len(s) - n : i = s[n + k]
      BY <1>1 DEF Listed
    <2>2. n + k \in 1 .. Len(s) /\ \A j \in 1 .. n : j \in 1 .. Len(s) /\ j # n + k
      BY <1>1
    <2> QED
      BY <1>1, <2>1, <2>2 DEF Listed, Distinct
  <1>4. ASSUME NEW i \in Listed(s), i \notin Listed(rest) PROVE i \in Listed(front)
    <2>1. PICK k \in 1 .. Len(s) : i = s[k]
      BY DEF Listed
    <2>2. CASE k <= n
      BY <1>1, <2>1, <2>2 DEF Listed
    <2>3. CASE ~(k <= n)
      <3>1. k - n \in 1 .. Len(s) - n /\ n + (k - n) = k
        BY <1>1, <2>3
      <3> QED
        BY <1>1, <1>4, <2>1, <3>1 DEF Listed
    <2> QED
      BY <2>2, <2>3
  <1>5. ASSUME NEW i \in Listed(front) PROVE i \in Listed(s)
    BY <1>1 DEF Listed
  <1>6. Listed(s) \ Listed(rest) = Listed(front)
    BY <1>3, <1>4, <1>5
  <1>7. Cardinality(Listed(front)) = n
    BY <1>1, <1>2, ListedAreCounted
  <1> QED
    BY <1>1, <1>3, <1>6, <1>7 DEF rest


-----------------------------------------------------------------------------
(* What holds of a fleet whose commands run one after the other: whatever   *)
(* was answered and still runs is recorded, or in the hands of the command  *)
(* that is about to record it; and a scale that has so many to go has the   *)
(* rest of its count recorded.                                              *)

CmdRec ==
  [at : {"new", "upload", "start", "append", "remove", "write", "written", "preview", "stop", "done", "failed"},
   op : {None, "deploy", "scale", "snapshot", "restore", "fork"}, app : App \cup {None},
   count : Nat, left : Nat, hand : Seq(Instance) \cup {None}, todo : Seq(Instance), read : Seq(Instance)]

Stages == {"none", "running", "paused", "gone"}
LiveOf(ans, cl) == {i \in ans : cl[i] \in {"running", "paused"}}
GoodList(s, cl) == s \in Seq(Instance) /\ Distinct(s) /\ \A i \in Listed(s) : cl[i] # "none"
IsOver(q) == q.at \in {"new", "done", "failed"}

CountIs(q, s, ap) == q.op = "scale" => Cardinality(OfApp(s, ap, q.app)) + q.left = q.count

Settled(f, cl, ans) == f # Fleet!Torn /\ LiveOf(ans, cl) \subseteq Listed(f)

FitsStart(q, f, cl, ap, ans) == Settled(f, cl, ans) /\ CountIs(q, f, ap)
FitsAppend(q, f, cl, ap, ans) ==
  /\ f # Fleet!Torn /\ q.left > 0 /\ CountIs(q, f, ap)
  /\ \E i \in Instance :
       /\ q.hand = <<i>> /\ i \notin Listed(f) /\ cl[i] # "none" /\ ap[i] = q.app
       /\ LiveOf(ans, cl) \subseteq Listed(f) \cup {i}
FitsWrite(q, cl, ap, ans) ==
  GoodList(q.read, cl) /\ LiveOf(ans, cl) \subseteq Listed(q.read) /\ CountIs(q, q.read, ap)
FitsStop(q, f, cl, ap, ans) ==
  /\ Settled(f, cl, ans) /\ q.op = "scale" /\ q.left = 0 /\ q.hand \in Seq(Instance)
  /\ Listed(q.hand) \subseteq OfApp(f, ap, q.app)
  /\ Cardinality(OfApp(f, ap, q.app) \ Listed(q.hand)) = q.count
  /\ Listed(q.todo) \subseteq Listed(q.hand)
  /\ \A i \in Listed(q.hand) : cl[i] = "gone" \/ (q.at = "stop" /\ i \in Listed(q.todo))

Fits(q, f, cl, ap, ans) ==
  /\ q.at \in {"upload", "start", "preview"} => FitsStart(q, f, cl, ap, ans)
  /\ q.at = "preview" => q.op = "deploy"
  /\ q.at = "append" => FitsAppend(q, f, cl, ap, ans)
  /\ q.at \in {"write", "written"} => FitsWrite(q, cl, ap, ans)
  /\ q.at \in {"stop", "remove"} => FitsStop(q, f, cl, ap, ans)

FleetInv ==
  /\ cloud \in [Instance -> Stages] /\ DOMAIN app = Instance
  /\ answered \subseteq {i \in Instance : cloud[i] # "none"}
  /\ cmd \in [Cmd -> CmdRec]
  /\ file = Fleet!Torn \/ GoodList(file, cloud)
  /\ \A c \in Cmd : Fits(cmd[c], file, cloud, app, answered)
  /\ \A c, d \in Cmd : ~IsOver(cmd[c]) /\ ~IsOver(cmd[d]) => c = d
  /\ (\A c \in Cmd : IsOver(cmd[c])) => Settled(file, cloud, answered)

LEMMA TornIsNoList ==
  ASSUME Fleet!FleetAssumption, NEW s \in Seq(Instance)
  PROVE  s # Fleet!Torn
  <1> SUFFICES ASSUME s = <<None>> PROVE FALSE
    BY DEF Fleet!Torn
  <1>1. s[1] \in Instance
    BY ElementOfSeq
  <1> QED
    BY <1>1 DEF Fleet!FleetAssumption

LEMMA FleetStarts == Fleet!Init => FleetInv
  <1> SUFFICES ASSUME Fleet!Init PROVE FleetInv
    OBVIOUS
  <1> DEFINE q == Fleet!Idle
  <1>1. q \in CmdRec /\ q.at = "new"
    BY DEF Fleet!Idle, CmdRec
  <1> HIDE DEF q
  <1>2. Listed(<<>>) = {} /\ Distinct(<<>>) /\ <<>> \in Seq(Instance) /\ <<>> # Fleet!Torn
    BY DEF Listed, Distinct, Fleet!Torn
  <1>3. /\ cloud = [i \in Instance |-> "none"] /\ app = [i \in Instance |-> None] /\ answered = {}
        /\ file = <<>> /\ cmd = [c \in Cmd |-> q]
    BY DEF Fleet!Init, q
  <1>4. LiveOf(answered, cloud) = {}
    BY <1>3 DEF LiveOf
  <1>5. cloud \in [Instance -> Stages]
    BY <1>3 DEF Stages
  <1>6. GoodList(file, cloud) /\ Settled(file, cloud, answered)
    BY <1>2, <1>3, <1>4 DEF GoodList, Settled
  <1>7. Fits(q, file, cloud, app, answered) /\ IsOver(q)
    BY <1>1 DEF Fits, IsOver
  <1>8. cmd \in [Cmd -> CmdRec] /\ \A c \in Cmd : cmd[c] = q
    BY <1>1, <1>3
  <1> QED
    BY <1>3, <1>5, <1>6, <1>7, <1>8 DEF FleetInv

\* Instances that are started, stopped or paused beside a command do not
\* disturb it, as long as those that were answered do not start running.
LEMMA FitsStays ==
  ASSUME NEW q \in CmdRec, NEW f, NEW cl, NEW cl2, NEW ap, NEW ap2, NEW ans \in SUBSET Instance,
         f = Fleet!Torn \/ GoodList(f, cl), Fits(q, f, cl, ap, ans),
         \A i \in Instance : cl[i] # "none" => cl2[i] # "none" /\ ap2[i] = ap[i],
         \A i \in ans : cl2[i] \in {"running", "paused"} => cl[i] \in {"running", "paused"},
         \A i \in Instance : cl[i] = "gone" => cl2[i] = "gone"
  PROVE  Fits(q, f, cl2, ap2, ans) /\ (f = Fleet!Torn \/ GoodList(f, cl2))
  <1>1. LiveOf(ans, cl2) \subseteq LiveOf(ans, cl)
    BY DEF LiveOf
  <1>2. ASSUME NEW s, GoodList(s, cl) PROVE GoodList(s, cl2) /\ \A a : OfApp(s, ap2, a) = OfApp(s, ap, a)
    <2>1. ASSUME NEW i \in Listed(s) PROVE i \in Instance
      BY <1>2, ElementOfSeq DEF GoodList, Listed
    <2> QED
      BY <1>2, <2>1 DEF GoodList, OfApp
  <1>3. f # Fleet!Torn => GoodList(f, cl) /\ GoodList(f, cl2) /\ \A a : OfApp(f, ap2, a) = OfApp(f, ap, a)
    BY <1>2
  <1>4. FitsStart(q, f, cl, ap, ans) => FitsStart(q, f, cl2, ap2, ans)
    BY <1>1, <1>3 DEF FitsStart, Settled, CountIs
  <1>5. FitsAppend(q, f, cl, ap, ans) => FitsAppend(q, f, cl2, ap2, ans)
    <2> SUFFICES ASSUME FitsAppend(q, f, cl, ap, ans) PROVE FitsAppend(q, f, cl2, ap2, ans)
      OBVIOUS
    <2>1. f # Fleet!Torn /\ q.left > 0 /\ CountIs(q, f, ap)
      BY DEF FitsAppend
    <2>2. PICK i \in Instance :
            /\ q.hand = <<i>> /\ i \notin Listed(f) /\ cl[i] # "none" /\ ap[i] = q.app
            /\ LiveOf(ans, cl) \subseteq Listed(f) \cup {i}
      BY DEF FitsAppend
    <2>3. cl2[i] # "none" /\ ap2[i] = q.app /\ LiveOf(ans, cl2) \subseteq Listed(f) \cup {i}
      BY <1>1, <2>2
    <2>4. CountIs(q, f, ap2)
      BY <1>3, <2>1 DEF CountIs
    <2> QED
      BY <2>1, <2>2, <2>3, <2>4 DEF FitsAppend
  <1>6. FitsWrite(q, cl, ap, ans) => FitsWrite(q, cl2, ap2, ans)
    BY <1>1, <1>2 DEF FitsWrite, CountIs
  <1>7. FitsStop(q, f, cl, ap, ans) => FitsStop(q, f, cl2, ap2, ans)
    <2> SUFFICES ASSUME FitsStop(q, f, cl, ap, ans) PROVE FitsStop(q, f, cl2, ap2, ans)
      OBVIOUS
    <2>1. OfApp(f, ap2, q.app) = OfApp(f, ap, q.app) /\ Settled(f, cl2, ans)
      BY <1>1, <1>3 DEF FitsStop, Settled
    <2>2. \A i \in Listed(q.hand) : i \in Instance
      BY ElementOfSeq DEF FitsStop, Listed
    <2> QED
      BY <2>1, <2>2 DEF FitsStop
  <1>8. q.at = "preview" => q.op = "deploy"
    BY DEF Fits
  <1> QED
    BY <1>3, <1>4, <1>5, <1>6, <1>7, <1>8 DEF Fits

\* A command's own step.
LEMMA FleetSteps ==
  ASSUME FleetInv, NEW c \in Cmd, \A d \in Cmd : d # c => IsOver(cmd[d]),
         NEW q \in CmdRec, cmd' = [cmd EXCEPT ![c] = q],
         cloud' \in [Instance -> Stages], DOMAIN app' = Instance,
         answered' \subseteq {i \in Instance : cloud'[i] # "none"},
         file' = Fleet!Torn \/ GoodList(file', cloud'),
         Fits(q, file', cloud', app', answered'),
         IsOver(q) => Settled(file', cloud', answered')
  PROVE  FleetInv'
  <1>1. cmd \in [Cmd -> CmdRec]
    BY DEF FleetInv
  <1>2. cmd' \in [Cmd -> CmdRec] /\ cmd'[c] = q /\ \A d \in Cmd : d # c => cmd'[d] = cmd[d]
    BY <1>1
  <1>3. ASSUME NEW d \in Cmd PROVE Fits(cmd'[d], file', cloud', app', answered')
    <2>1. CASE d = c
      BY <1>2, <2>1
    <2>2. CASE d # c
      BY <1>2, <2>2 DEF Fits, IsOver
    <2> QED
      BY <2>1, <2>2
  <1>4. \A d, e \in Cmd : ~IsOver(cmd'[d]) /\ ~IsOver(cmd'[e]) => d = e
    BY <1>2
  <1> QED
    BY <1>2, <1>3, <1>4 DEF FleetInv

LEMMA OneCommand ==
  ASSUME FleetInv, ~Together, NEW c \in Cmd
  PROVE  /\ ~IsOver(cmd[c]) \/ Fleet!MayBegin(c) => \A d \in Cmd : d # c => IsOver(cmd[d])
         /\ Fleet!MayBegin(c) => Settled(file, cloud, answered) /\ cmd[c].at = "new"
  BY DEF FleetInv, Fleet!MayBegin, Fleet!Ended, IsOver

LEMMA OverIsOver ==
  ASSUME FleetInv, NEW c \in Cmd, NEW how \in {"done", "failed"}
  PROVE  LET q == Fleet!Over(c, how)
         IN  q \in CmdRec /\ IsOver(q) /\ q.at = how /\ q.op = cmd[c].op /\ q.app = cmd[c].app /\ q.count = cmd[c].count
             /\ \A f, cl, ap, ans : Fits(q, f, cl, ap, ans)
  <1> DEFINE q == Fleet!Over(c, how)
             p == cmd[c]
             i == Fleet!Idle
  <1>1. p \in CmdRec
    BY DEF FleetInv
  <1>4. i \in CmdRec
    BY DEF Fleet!Idle, CmdRec
  <1>5. q = [i EXCEPT !.at = how, !.op = p.op, !.app = p.app, !.count = p.count]
    BY DEF Fleet!Over
  <1> HIDE DEF p, i
  <1>2. q \in CmdRec /\ q.at = how /\ q.op = p.op /\ q.app = p.app /\ q.count = p.count
    BY <1>1, <1>4, <1>5 DEF CmdRec
  <1> HIDE DEF q
  <1>3. IsOver(q) /\ \A f, cl, ap, ans : Fits(q, f, cl, ap, ans)
    BY <1>2 DEF IsOver, Fits
  <1> QED
    BY <1>2, <1>3 DEF q, p

\* A command that fails leaves what was settled.
LEMMA FleetFails ==
  ASSUME FleetInv, ~Together, NEW c \in Cmd, ~IsOver(cmd[c]), Fleet!Fail(c),
         Settled(file, cloud', answered), file' = file, answered' = answered,
         cloud' \in [Instance -> Stages], DOMAIN app' = Instance,
         \A i \in Instance : cloud[i] # "none" => cloud'[i] # "none"
  PROVE  FleetInv'
  <1> DEFINE q == Fleet!Over(c, "failed")
  <1>1. q \in CmdRec /\ IsOver(q) /\ Fits(q, file', cloud', app', answered')
    BY OverIsOver
  <1>2. cmd' = [cmd EXCEPT ![c] = q]
    BY DEF Fleet!Fail, Fleet!Set
  <1> HIDE DEF q
  <1>3. \A d \in Cmd : d # c => IsOver(cmd[d])
    BY OneCommand
  <1>4. answered' \subseteq {i \in Instance : cloud'[i] # "none"}
    BY DEF FleetInv
  <1>5. GoodList(file', cloud')
    <2>1. GoodList(file, cloud)
      BY DEF FleetInv, Settled
    <2>2. \A i \in Listed(file) : i \in Instance
      BY <2>1, ElementOfSeq DEF GoodList, Listed
    <2> QED
      BY <2>1, <2>2 DEF GoodList
  <1> QED
    BY <1>1, <1>2, <1>3, <1>4, <1>5, FleetSteps

LEMMA NextIsFree ==
  ASSUME Fleet!FleetAssumption, Fleet!Room
  PROVE  Fleet!NextInstance \in Instance /\ cloud[Fleet!NextInstance] = "none"
  <1> DEFINE S == {i \in Instance : cloud[i] = "none"}
  <1>1. S \subseteq Nat /\ S # {}
    BY DEF Fleet!FleetAssumption, Fleet!Room
  <1>2. PICK i \in S : \A j \in S : i <= j
    BY <1>1, LeastNumber
  <1>3. i \in Instance /\ cloud[i] = "none" /\ \A j \in Instance : cloud[j] = "none" => i <= j
    BY <1>2
  <1> QED
    BY <1>3 DEF Fleet!NextInstance

\* What happens beside the commands, and what they leave as it is.
LEMMA FleetShifts ==
  ASSUME FleetInv, cmd' = cmd, file' = file, answered' = answered,
         cloud' \in [Instance -> Stages], DOMAIN app' = Instance,
         \A i \in Instance : cloud[i] # "none" => cloud'[i] # "none" /\ app'[i] = app[i],
         \A i \in answered : cloud'[i] \in {"running", "paused"} => cloud[i] \in {"running", "paused"},
         \A i \in Instance : cloud[i] = "gone" => cloud'[i] = "gone"
  PROVE  FleetInv'
  <1>1. answered \in SUBSET Instance /\ answered' \subseteq {i \in Instance : cloud'[i] # "none"}
    BY DEF FleetInv
  <1>2. ASSUME NEW c \in Cmd
        PROVE  Fits(cmd[c], file, cloud', app', answered) /\ (file = Fleet!Torn \/ GoodList(file, cloud'))
    <2>1. cmd[c] \in CmdRec /\ Fits(cmd[c], file, cloud, app, answered) /\ (file = Fleet!Torn \/ GoodList(file, cloud))
      BY DEF FleetInv
    <2> QED
      BY <1>1, <2>1, FitsStays
  <1>3. file = Fleet!Torn \/ GoodList(file, cloud')
    <2>1. file = Fleet!Torn \/ GoodList(file, cloud)
      BY DEF FleetInv
    <2>2. GoodList(file, cloud) => \A i \in Listed(file) : i \in Instance
      BY ElementOfSeq DEF GoodList, Listed
    <2> QED
      BY <2>1, <2>2 DEF GoodList
  <1>4. LiveOf(answered, cloud') \subseteq LiveOf(answered, cloud)
    BY DEF LiveOf
  <1>5. Settled(file, cloud, answered) => Settled(file, cloud', answered)
    BY <1>4 DEF Settled
  <1> QED
    BY <1>1, <1>2, <1>3, <1>5 DEF FleetInv

LEMMA BesideKeeps ==
  ASSUME Fleet!FleetAssumption, FleetInv,
         (\E a \in App : Fleet!PeerStart(a)) \/ Fleet!RpcUrl \/ Fleet!Teardown
  PROVE  FleetInv'
  <1>1. cloud \in [Instance -> Stages] /\ DOMAIN app = Instance /\ answered \subseteq {i \in Instance : cloud[i] # "none"}
    BY DEF FleetInv
  <1>2. ASSUME NEW a \in App, Fleet!PeerStart(a) PROVE FleetInv'
    <2> DEFINE n == Fleet!NextInstance
    <2>1. n \in Instance /\ cloud[n] = "none"
      BY <1>2, NextIsFree DEF Fleet!PeerStart
    <2>2. /\ cloud' = [cloud EXCEPT ![n] = "running"] /\ app' = [app EXCEPT ![n] = a]
          /\ cmd' = cmd /\ file' = file /\ answered' = answered
      BY <1>2 DEF Fleet!PeerStart, Fleet!Starts
    <2> HIDE DEF n
    <2>3. cloud' \in [Instance -> Stages] /\ DOMAIN app' = Instance
      BY <1>1, <2>2 DEF Stages
    <2>4. \A i \in Instance : cloud[i] # "none" => cloud'[i] = cloud[i] /\ app'[i] = app[i]
      BY <1>1, <2>1, <2>2
    <2> QED
      BY <1>1, <2>2, <2>3, <2>4, FleetShifts
  <1>3. ASSUME Fleet!RpcUrl PROVE FleetInv'
    BY <1>1, <1>3, FleetShifts DEF Fleet!RpcUrl
  <1>4. ASSUME Fleet!Teardown PROVE FleetInv'
    <2> DEFINE n == peer.on
    <2>1. /\ cloud' = [cloud EXCEPT ![n] = "gone"] /\ app' = app /\ cmd' = cmd /\ file' = file /\ answered' = answered
      BY <1>4 DEF Fleet!Teardown
    <2> HIDE DEF n
    <2>2. cloud' \in [Instance -> Stages] /\ \A i \in Instance : cloud'[i] = cloud[i] \/ cloud'[i] = "gone"
      BY <1>1, <2>1 DEF Stages
    <2> QED
      BY <1>1, <2>1, <2>2, FleetShifts
  <1> QED
    BY <1>2, <1>3, <1>4

\* Snapshots are over in a call.
LEMMA SnapshotsKeep ==
  ASSUME Fleet!FleetAssumption, FleetInv, ~Together, NEW c \in Cmd, NEW n \in Instance,
         Fleet!Snapshot(c, n) \/ Fleet!Restore(c, n) \/ Fleet!Fork(c, n)
  PROVE  FleetInv'
  <1>1. /\ cloud \in [Instance -> Stages] /\ DOMAIN app = Instance /\ answered \subseteq {i \in Instance : cloud[i] # "none"}
        /\ Fleet!MayBegin(c)
    BY DEF FleetInv, Fleet!Snapshot, Fleet!Restore, Fleet!Fork
  <1>2. Settled(file, cloud, answered) /\ \A d \in Cmd : d # c => IsOver(cmd[d])
    BY <1>1, OneCommand
  <1>3. GoodList(file, cloud)
    BY <1>2 DEF FleetInv, Settled
  <1>4. PICK o \in {"snapshot", "restore", "fork"} : cmd' = [cmd EXCEPT ![c] = [Fleet!Idle EXCEPT !.op = o, !.at = "done"]]
    BY DEF Fleet!Snapshot, Fleet!Restore, Fleet!Fork, Fleet!Set
  <1> DEFINE i0 == Fleet!Idle
             q == [i0 EXCEPT !.op = o, !.at = "done"]
  <1>5. i0 \in CmdRec
    BY DEF Fleet!Idle, CmdRec
  <1> HIDE DEF i0
  <1>6. q \in CmdRec /\ q.at = "done"
    BY <1>5 DEF CmdRec
  <1>7. cmd' = [cmd EXCEPT ![c] = q]
    BY <1>4 DEF i0
  <1> HIDE DEF q
  <1>8. IsOver(q) /\ \A f, cl, ap, ans : Fits(q, f, cl, ap, ans)
    BY <1>6 DEF IsOver, Fits
  <1>9. /\ cloud' \in [Instance -> Stages] /\ DOMAIN app' = Instance /\ file' = file /\ answered' = answered
        /\ \A i \in Instance : cloud[i] # "none" => cloud'[i] # "none"
        /\ \A i \in answered : cloud'[i] \in {"running", "paused"} => cloud[i] \in {"running", "paused"}
    <2>1. CASE Fleet!Snapshot(c, n)
      BY <1>1, <2>1 DEF Fleet!Snapshot, Stages
    <2>2. CASE Fleet!Restore(c, n)
      BY <1>1, <2>2 DEF Fleet!Restore, Stages
    <2>3. CASE Fleet!Fork(c, n)
      <3> DEFINE m == Fleet!NextInstance
      <3>1. m \in Instance /\ cloud[m] = "none"
        BY <2>3, NextIsFree DEF Fleet!Fork
      <3>2. /\ cloud' = [cloud EXCEPT ![m] = "running"] /\ app' = [app EXCEPT ![m] = app[n]]
            /\ file' = file /\ answered' = answered
        BY <2>3 DEF Fleet!Fork, Fleet!Starts
      <3> HIDE DEF m
      <3> QED
        BY <1>1, <3>1, <3>2 DEF Stages
    <2> QED
      BY <2>1, <2>2, <2>3
  <1>10. GoodList(file', cloud') /\ Settled(file', cloud', answered')
    <2>1. \A i \in Listed(file) : i \in Instance
      BY <1>3, ElementOfSeq DEF GoodList, Listed
    <2>2. LiveOf(answered', cloud') \subseteq LiveOf(answered, cloud)
      BY <1>9 DEF LiveOf
    <2> QED
      BY <1>2, <1>3, <1>9, <2>1, <2>2 DEF GoodList, Settled
  <1>11. answered' \subseteq {i \in Instance : cloud'[i] # "none"}
    BY <1>1, <1>9
  <1> QED
    BY <1>2, <1>6, <1>7, <1>8, <1>9, <1>10, <1>11, FleetSteps

LEMMA CurrentIsCounted ==
  ASSUME Fleet!FleetAssumption, GoodList(file, cloud), NEW a
  PROVE  LET now == Fleet!Current(a)
         IN  /\ Fleet!Recorded = file
             /\ now \in Seq(Instance) /\ Distinct(now) /\ Listed(now) = OfApp(file, app, a)
             /\ Len(now) = Cardinality(OfApp(file, app, a)) /\ Len(now) \in Nat
  <1> DEFINE A == {i \in Instance : app[i] = a}
             cur == Fleet!Among(file, A)
  <1>1. file \in Seq(Instance) /\ Distinct(file)
    BY DEF GoodList
  <1>2. Fleet!Recorded = file
    BY <1>1, TornIsNoList DEF Fleet!Recorded
  <1>3. Fleet!Current(a) = cur
    BY <1>2 DEF Fleet!Current
  <1>4. cur \in Seq(Instance) /\ Distinct(cur) /\ Listed(cur) = Listed(file) \cap A
    BY <1>1, AmongKeeps
  <1>5. Listed(file) \cap A = OfApp(file, app, a)
    BY <1>1, ElementOfSeq DEF OfApp, Listed
  <1> HIDE DEF cur, A
  <1>6. Cardinality(Listed(cur)) = Len(cur)
    BY <1>4, ListedAreCounted, Zenon
  <1>7. Len(cur) \in Nat
    BY <1>4, LenProperties
  <1> QED
    BY <1>2, <1>3, <1>4, <1>5, <1>6, <1>7

LEMMA DeployKeeps ==
  ASSUME Fleet!FleetAssumption, FleetInv, ~Together, NEW c \in Cmd, NEW a \in App, NEW n \in 0 .. MaxCount,
         Fleet!Deploy(c, a, n)
  PROVE  FleetInv'
  <1> DEFINE i0 == Fleet!Idle
             q == [i0 EXCEPT !.at = "upload", !.op = "deploy", !.app = a, !.count = n, !.left = n]
  <1>1. Fleet!MayBegin(c)
    BY DEF Fleet!Deploy
  <1>2. Settled(file, cloud, answered) /\ \A d \in Cmd : d # c => IsOver(cmd[d])
    BY <1>1, OneCommand
  <1>3. i0 \in CmdRec
    BY DEF Fleet!Idle, CmdRec
  <1>4. cmd' = [cmd EXCEPT ![c] = q]
    BY DEF Fleet!Deploy, Fleet!Set
  <1> HIDE DEF i0
  <1>9. n \in Nat
    BY DEF Fleet!FleetAssumption
  <1>5. q \in CmdRec /\ q.at = "upload" /\ q.op = "deploy"
    BY <1>3, <1>9 DEF CmdRec
  <1> HIDE DEF q
  <1>6. UNCHANGED <<cloud, app, answered, file>>
    BY DEF Fleet!Deploy
  <1>7. Fits(q, file, cloud, app, answered) /\ ~IsOver(q)
    BY <1>2, <1>5 DEF Fits, FitsStart, CountIs, IsOver
  <1>8. /\ cloud \in [Instance -> Stages] /\ DOMAIN app = Instance /\ answered \subseteq {i \in Instance : cloud[i] # "none"}
        /\ file = Fleet!Torn \/ GoodList(file, cloud)
    BY DEF FleetInv
  <1> QED
    BY <1>2, <1>4, <1>5, <1>6, <1>7, <1>8, FleetSteps

LEMMA ScaleKeeps ==
  ASSUME Fleet!FleetAssumption, FleetInv, ~Together, NEW c \in Cmd, NEW a \in App, NEW n \in 0 .. MaxCount,
         Fleet!Scale(c, a, n)
  PROVE  /\ FleetInv'
         /\ cmd'[c].at = "done" => cmd'[c].app = a /\ cmd'[c].count = n /\ file' = file /\ app' = app
                                    /\ GoodList(file, cloud) /\ Cardinality(OfApp(file, app, a)) = n
  <1> DEFINE i0 == Fleet!Idle
             base == [i0 EXCEPT !.op = "scale", !.app = a, !.count = n]
             cur == Fleet!Current(a)
  <1>1. Fleet!MayBegin(c) /\ UNCHANGED <<cloud, app, answered, file>> /\ n \in Nat
    BY DEF Fleet!Scale, Fleet!FleetAssumption
  <1>2. Settled(file, cloud, answered) /\ \A d \in Cmd : d # c => IsOver(cmd[d])
    BY <1>1, OneCommand
  <1>3. /\ cloud \in [Instance -> Stages] /\ DOMAIN app = Instance /\ answered \subseteq {i \in Instance : cloud[i] # "none"}
        /\ GoodList(file, cloud) /\ cmd \in [Cmd -> CmdRec]
    BY <1>2 DEF FleetInv, Settled
  <1>4. /\ cur \in Seq(Instance) /\ Distinct(cur) /\ Listed(cur) = OfApp(file, app, a)
        /\ Len(cur) = Cardinality(OfApp(file, app, a)) /\ Len(cur) \in Nat
    BY <1>3, CurrentIsCounted
  <1>5. i0 \in CmdRec /\ i0.left = 0
    BY DEF Fleet!Idle, CmdRec
  <1> HIDE DEF i0
  <1>6. base \in CmdRec /\ base.op = "scale" /\ base.app = a /\ base.count = n /\ base.left = 0
    BY <1>1, <1>5 DEF CmdRec
  <1>7. \/ Len(cur) = n /\ Fleet!Set(c, [base EXCEPT !.at = "done"])
        \/ /\ Len(cur) > n
           /\ Fleet!Set(c, IF Fleet!HasConnect
                           THEN [base EXCEPT !.at = "stop", !.todo = SubSeq(cur, n + 1, Len(cur)), !.hand = SubSeq(cur, n + 1, Len(cur))]
                           ELSE [base EXCEPT !.at = "failed"])
        \/ Len(cur) < n /\ Fleet!Set(c, [base EXCEPT !.at = "upload", !.left = n - Len(cur)])
    BY DEF Fleet!Scale, i0
  <1> HIDE DEF base, cur
  <1>8. ASSUME NEW q \in CmdRec, Fleet!Set(c, q), Fits(q, file, cloud, app, answered)
        PROVE  FleetInv' /\ cmd'[c] = q
    <2>1. cmd' = [cmd EXCEPT ![c] = q]
      BY <1>8 DEF Fleet!Set
    <2> QED
      BY <1>1, <1>2, <1>3, <1>8, <2>1, FleetSteps
  <1>9. CASE Len(cur) = n /\ Fleet!Set(c, [base EXCEPT !.at = "done"])
    <2> DEFINE q == [base EXCEPT !.at = "done"]
    <2>1. q \in CmdRec /\ q.at = "done" /\ q.app = a /\ q.count = n
      BY <1>6 DEF CmdRec
    <2>2. Fleet!Set(c, q)
      BY <1>9
    <2> HIDE DEF q
    <2>3. Fits(q, file, cloud, app, answered)
      BY <2>1 DEF Fits
    <2> QED
      BY <1>1, <1>3, <1>4, <1>8, <1>9, <2>1, <2>2, <2>3
  <1>10. CASE Len(cur) > n /\ Fleet!HasConnect
              /\ Fleet!Set(c, [base EXCEPT !.at = "stop", !.todo = SubSeq(cur, n + 1, Len(cur)), !.hand = SubSeq(cur, n + 1, Len(cur))])
    <2> DEFINE rest == SubSeq(cur, n + 1, Len(cur))
               q == [base EXCEPT !.at = "stop", !.todo = rest, !.hand = rest]
    <2>1. rest \in Seq(Instance) /\ Listed(rest) \subseteq Listed(cur) /\ Cardinality(Listed(cur) \ Listed(rest)) = n
      BY <1>1, <1>4, <1>10, RestIsCounted
    <2>2. Fleet!Set(c, q)
      BY <1>10
    <2> HIDE DEF rest
    <2>3. q \in CmdRec /\ q.at = "stop" /\ q.app = a /\ q.count = n /\ q.left = 0 /\ q.op = "scale" /\ q.hand = rest /\ q.todo = rest
      BY <1>6, <2>1 DEF CmdRec
    <2> HIDE DEF q
    <2>4. FitsStop(q, file, cloud, app, answered)
      BY <1>2, <1>4, <2>1, <2>3 DEF FitsStop
    <2>5. Fits(q, file, cloud, app, answered)
      BY <2>3, <2>4 DEF Fits
    <2> QED
      BY <1>8, <2>2, <2>3, <2>5
  <1>11. CASE Fleet!Set(c, [base EXCEPT !.at = "failed"])
    <2> DEFINE q == [base EXCEPT !.at = "failed"]
    <2>1. q \in CmdRec /\ q.at = "failed"
      BY <1>6 DEF CmdRec
    <2>2. Fleet!Set(c, q)
      BY <1>11
    <2> HIDE DEF q
    <2>3. Fits(q, file, cloud, app, answered)
      BY <2>1 DEF Fits
    <2> QED
      BY <1>8, <2>1, <2>2, <2>3
  <1>12. CASE Len(cur) < n /\ Fleet!Set(c, [base EXCEPT !.at = "upload", !.left = n - Len(cur)])
    <2> DEFINE q == [base EXCEPT !.at = "upload", !.left = n - Len(cur)]
    <2>1. n - Len(cur) \in Nat /\ Len(cur) + (n - Len(cur)) = n
      BY <1>1, <1>4, <1>12
    <2>2. q \in CmdRec /\ q.at = "upload" /\ q.app = a /\ q.count = n /\ q.left = n - Len(cur)
      BY <1>6, <2>1 DEF CmdRec
    <2>3. Fleet!Set(c, q)
      BY <1>12
    <2> HIDE DEF q
    <2>4. CountIs(q, file, app)
      BY <1>4, <2>1, <2>2 DEF CountIs
    <2>5. Fits(q, file, cloud, app, answered)
      BY <1>2, <2>2, <2>4 DEF Fits, FitsStart
    <2> QED
      BY <1>8, <2>2, <2>3, <2>5
  <1> QED
    BY <1>7, <1>9, <1>10, <1>11, <1>12

LEMMA UploadKeeps ==
  ASSUME FleetInv, ~Together, NEW c \in Cmd, Fleet!Upload(c)
  PROVE  FleetInv'
  <1> DEFINE p == cmd[c]
             q == [p EXCEPT !.at = "start"]
  <1>1. /\ p \in CmdRec /\ Fits(p, file, cloud, app, answered)
        /\ cloud \in [Instance -> Stages] /\ DOMAIN app = Instance /\ answered \subseteq {i \in Instance : cloud[i] # "none"}
        /\ file = Fleet!Torn \/ GoodList(file, cloud)
    BY DEF FleetInv
  <1>2. p.at = "upload" /\ UNCHANGED <<cloud, app, answered, file>> /\ (Fleet!Set(c, q) \/ Fleet!Fail(c))
    BY DEF Fleet!Upload
  <1>3. ~IsOver(cmd[c])
    BY <1>2 DEF IsOver
  <1>4. \A d \in Cmd : d # c => IsOver(cmd[d])
    BY <1>3, OneCommand
  <1> HIDE DEF p
  <1>5. FitsStart(p, file, cloud, app, answered)
    BY <1>1, <1>2 DEF Fits
  <1>6. CASE Fleet!Fail(c)
    BY <1>1, <1>2, <1>3, <1>5, <1>6, FleetFails DEF FitsStart
  <1>7. CASE Fleet!Set(c, q)
    <2>1. cmd' = [cmd EXCEPT ![c] = q]
      BY <1>7 DEF Fleet!Set
    <2>2. q \in CmdRec /\ q.at = "start" /\ q.op = p.op /\ q.app = p.app /\ q.left = p.left /\ q.count = p.count
      BY <1>1 DEF CmdRec
    <2> HIDE DEF q
    <2>3. Fits(q, file, cloud, app, answered) /\ ~IsOver(q)
      BY <1>5, <2>2 DEF Fits, FitsStart, CountIs, IsOver
    <2> QED
      BY <1>1, <1>2, <1>4, <2>1, <2>2, <2>3, FleetSteps
  <1> QED
    BY <1>2, <1>6, <1>7

LEMMA StartKeeps ==
  ASSUME Fleet!FleetAssumption, FleetInv, ~Together, NEW c \in Cmd, Fleet!Start(c)
  PROVE  FleetInv'
  <1> DEFINE p == cmd[c]
             n == Fleet!NextInstance
  <1>1. /\ p \in CmdRec /\ Fits(p, file, cloud, app, answered)
        /\ cloud \in [Instance -> Stages] /\ DOMAIN app = Instance /\ answered \subseteq {i \in Instance : cloud[i] # "none"}
    BY DEF FleetInv
  <1>2. p.at = "start" /\ p.left > 0 /\ file' = file
    BY DEF Fleet!Start
  <1>3. ~IsOver(cmd[c])
    BY <1>2 DEF IsOver
  <1>4. \A d \in Cmd : d # c => IsOver(cmd[d])
    BY <1>3, OneCommand
  <1>5. \/ /\ Fleet!Room /\ cloud' = [cloud EXCEPT ![n] = "running"] /\ app' = [app EXCEPT ![n] = p.app]
           /\ answered' = answered \cup {n}
           /\ cmd' = [cmd EXCEPT ![c] = [p EXCEPT !.at = "append", !.hand = <<n>>]]
        \/ /\ Fleet!Fail(c) /\ answered' = answered
           /\ \/ UNCHANGED <<cloud, app>>
              \/ Fleet!Room /\ cloud' = [cloud EXCEPT ![n] = "running"] /\ app' = [app EXCEPT ![n] = p.app]
    BY DEF Fleet!Start, Fleet!Starts, Fleet!Set
  <1>6. Fleet!Room => n \in Instance /\ cloud[n] = "none"
    BY NextIsFree
  <1> HIDE DEF p, n
  <1>7. FitsStart(p, file, cloud, app, answered)
    BY <1>1, <1>2 DEF Fits
  <1>8. GoodList(file, cloud) /\ Settled(file, cloud, answered) /\ CountIs(p, file, app)
    BY <1>7 DEF FleetInv, FitsStart, Settled
  <1>9. \A i \in Listed(file) : i \in Instance /\ cloud[i] # "none"
    BY <1>8, ElementOfSeq DEF GoodList, Listed
  <1>10. ASSUME Fleet!Room, cloud' = [cloud EXCEPT ![n] = "running"], app' = [app EXCEPT ![n] = p.app]
         PROVE  /\ cloud' \in [Instance -> Stages] /\ DOMAIN app' = Instance
                /\ \A i \in Instance : cloud[i] # "none" => cloud'[i] = cloud[i] /\ app'[i] = app[i]
                /\ cloud'[n] = "running" /\ app'[n] = p.app /\ n \notin Listed(file) /\ n \in Instance
    BY <1>1, <1>6, <1>9, <1>10 DEF Stages
  <1>11. CASE Fleet!Fail(c) /\ answered' = answered /\ UNCHANGED <<cloud, app>>
    BY <1>1, <1>2, <1>3, <1>8, <1>11, FleetFails
  <1>12. CASE /\ Fleet!Fail(c) /\ answered' = answered
              /\ Fleet!Room /\ cloud' = [cloud EXCEPT ![n] = "running"] /\ app' = [app EXCEPT ![n] = p.app]
    <2>1. LiveOf(answered, cloud') = LiveOf(answered, cloud)
      BY <1>1, <1>10, <1>12 DEF LiveOf
    <2>2. Settled(file, cloud', answered)
      BY <1>8, <2>1 DEF Settled
    <2> QED
      BY <1>1, <1>2, <1>3, <1>10, <1>12, <2>2, FleetFails
  <1>13. CASE /\ Fleet!Room /\ cloud' = [cloud EXCEPT ![n] = "running"] /\ app' = [app EXCEPT ![n] = p.app]
              /\ answered' = answered \cup {n}
              /\ cmd' = [cmd EXCEPT ![c] = [p EXCEPT !.at = "append", !.hand = <<n>>]]
    <2> DEFINE q == [p EXCEPT !.at = "append", !.hand = <<n>>]
    <2>1. /\ cloud' \in [Instance -> Stages] /\ DOMAIN app' = Instance
          /\ \A i \in Instance : cloud[i] # "none" => cloud'[i] = cloud[i] /\ app'[i] = app[i]
          /\ cloud'[n] = "running" /\ app'[n] = p.app /\ n \notin Listed(file) /\ n \in Instance
      BY <1>10, <1>13
    <2>11. <<n>> \in Seq(Instance)
      BY <2>1
    <2>2. /\ q \in CmdRec /\ q.at = "append" /\ q.op = p.op /\ q.app = p.app /\ q.left = p.left /\ q.count = p.count
          /\ q.hand = <<n>>
      BY <1>1, <2>11 DEF CmdRec
    <2>3. cmd' = [cmd EXCEPT ![c] = q]
      BY <1>13
    <2> HIDE DEF q
    <2>4. OfApp(file, app', p.app) = OfApp(file, app, p.app)
      BY <1>9, <2>1 DEF OfApp
    <2>5. CountIs(q, file, app')
      BY <1>8, <2>2, <2>4 DEF CountIs
    <2>6. LiveOf(answered', cloud') \subseteq Listed(file) \cup {n}
      BY <1>1, <1>8, <1>13, <2>1 DEF LiveOf, Settled
    <2>7. GoodList(file, cloud')
      BY <1>8, <1>9, <2>1 DEF GoodList
    <2>8. FitsAppend(q, file, cloud', app', answered')
      BY <1>2, <1>8, <2>1, <2>2, <2>5, <2>6 DEF FitsAppend, Settled
    <2>9. Fits(q, file, cloud', app', answered') /\ ~IsOver(q)
      BY <2>2, <2>8 DEF Fits, IsOver
    <2>10. answered' \subseteq {i \in Instance : cloud'[i] # "none"}
      BY <1>1, <1>13, <2>1
    <2> QED
      BY <1>2, <1>4, <2>1, <2>2, <2>3, <2>7, <2>9, <2>10, FleetSteps
  <1> QED
    BY <1>5, <1>11, <1>12, <1>13

\* appendFleetInstances() and removeFleetInstances(): what they read.
LEMMA RecordKeeps ==
  ASSUME Fleet!FleetAssumption, FleetInv, ~Together, NEW c \in Cmd, Fleet!Record(c)
  PROVE  FleetInv'
  <1> DEFINE p == cmd[c]
             l == p.left - 1
             r == Fleet!Recorded \o p.hand
             q == [p EXCEPT !.at = "write", !.left = l, !.read = r]
  <1>1. /\ p \in CmdRec /\ Fits(p, file, cloud, app, answered)
        /\ cloud \in [Instance -> Stages] /\ DOMAIN app = Instance /\ answered \subseteq {i \in Instance : cloud[i] # "none"}
        /\ file = Fleet!Torn \/ GoodList(file, cloud)
    BY DEF FleetInv
  <1>2. p.at = "append" /\ UNCHANGED <<cloud, app, answered, file>> /\ cmd' = [cmd EXCEPT ![c] = q]
    BY DEF Fleet!Record, Fleet!Set
  <1>3. ~IsOver(cmd[c])
    BY <1>2 DEF IsOver
  <1>4. \A d \in Cmd : d # c => IsOver(cmd[d])
    BY <1>3, OneCommand
  <1> HIDE DEF p
  <1>5. FitsAppend(p, file, cloud, app, answered)
    BY <1>1, <1>2 DEF Fits
  <1>6. PICK i \in Instance :
          /\ p.hand = <<i>> /\ i \notin Listed(file) /\ cloud[i] # "none" /\ app[i] = p.app
          /\ LiveOf(answered, cloud) \subseteq Listed(file) \cup {i}
    BY <1>5 DEF FitsAppend
  <1>7. file # Fleet!Torn /\ GoodList(file, cloud) /\ CountIs(p, file, app) /\ p.left > 0
    BY <1>1, <1>5 DEF FitsAppend
  <1>8. file \in Seq(Instance) /\ Distinct(file)
    BY <1>7 DEF GoodList
  <1>9. r = file \o <<i>>
    BY <1>6, <1>7 DEF Fleet!Recorded
  <1>10. Listed(r) = Listed(file) \cup {i} /\ r \in Seq(Instance) /\ Distinct(r)
    <2>1. \A s \in Seq(Instance), j \in Instance :
            /\ Listed(s \o <<j>>) = Listed(s) \cup {j} /\ s \o <<j>> \in Seq(Instance)
            /\ Distinct(s) /\ j \notin Listed(s) => Distinct(s \o <<j>>)
      BY OneMoreListed, Zenon
    <2>2. i \notin Listed(file)
      BY <1>6
    <2> QED
      BY <1>8, <1>9, <2>1, <2>2, Zenon
  <1>11. l \in Nat /\ p.left = l + 1
    <2>1. p.left \in Nat
      BY <1>1 DEF CmdRec
    <2> QED
      BY <1>7, <2>1
  <1> HIDE DEF r, l
  <1>12. q \in CmdRec /\ q.at = "write" /\ q.op = p.op /\ q.app = p.app /\ q.left = l /\ q.count = p.count /\ q.read = r
    BY <1>1, <1>10, <1>11 DEF CmdRec
  <1> HIDE DEF q
  <1>13. CountIs(q, r, app)
    <2> SUFFICES ASSUME q.op = "scale" PROVE Cardinality(OfApp(r, app, q.app)) + q.left = q.count
      BY DEF CountIs
    <2> DEFINE M == OfApp(file, app, p.app)
    <2>1. OfApp(r, app, q.app) = M \cup {i}
      BY <1>6, <1>10, <1>12 DEF OfApp
    <2>2. IsFiniteSet(Listed(file))
      BY <1>8, ListedAreCounted, Zenon
    <2>3. IsFiniteSet(M) /\ i \notin M
      <3>1. M \subseteq Listed(file)
        BY DEF OfApp
      <3> QED
        BY <1>6, <2>2, <3>1, FS_Subset
    <2>4. Cardinality(M) + p.left = p.count
      BY <1>7, <1>12 DEF CountIs
    <2> HIDE DEF M
    <2>5. Cardinality(M \cup {i}) = Cardinality(M) + 1 /\ Cardinality(M) \in Nat
      BY <2>3, FS_AddElement, FS_CardinalityType
    <2> QED
      BY <1>11, <1>12, <2>1, <2>4, <2>5
  <1>14. GoodList(r, cloud) /\ LiveOf(answered, cloud) \subseteq Listed(r)
    BY <1>6, <1>7, <1>10 DEF GoodList
  <1>15. Fits(q, file, cloud, app, answered) /\ ~IsOver(q)
    BY <1>12, <1>13, <1>14 DEF Fits, FitsWrite, IsOver
  <1> QED
    BY <1>1, <1>2, <1>4, <1>12, <1>15, FleetSteps

LEMMA UnrecordKeeps ==
  ASSUME Fleet!FleetAssumption, FleetInv, ~Together, NEW c \in Cmd, Fleet!Unrecord(c)
  PROVE  FleetInv'
  <1> DEFINE p == cmd[c]
             stopped == {p.hand[k] : k \in DOMAIN p.hand}
             r == Fleet!Among(Fleet!Recorded, Instance \ stopped)
             q == [p EXCEPT !.at = "write", !.read = r]
  <1>1. /\ p \in CmdRec /\ Fits(p, file, cloud, app, answered)
        /\ cloud \in [Instance -> Stages] /\ DOMAIN app = Instance /\ answered \subseteq {i \in Instance : cloud[i] # "none"}
        /\ file = Fleet!Torn \/ GoodList(file, cloud)
    BY DEF FleetInv
  <1>2. p.at = "remove" /\ UNCHANGED <<cloud, app, answered, file>> /\ cmd' = [cmd EXCEPT ![c] = q]
    BY DEF Fleet!Unrecord, Fleet!Set
  <1>3. ~IsOver(cmd[c])
    BY <1>2 DEF IsOver
  <1>4. \A d \in Cmd : d # c => IsOver(cmd[d])
    BY <1>3, OneCommand
  <1> HIDE DEF p
  <1>5. FitsStop(p, file, cloud, app, answered)
    BY <1>1, <1>2 DEF Fits
  <1>6. Settled(file, cloud, answered) /\ GoodList(file, cloud)
    BY <1>1, <1>5 DEF FitsStop, Settled
  <1>7. file \in Seq(Instance) /\ Distinct(file) /\ Fleet!Recorded = file
    BY <1>6 DEF GoodList, Settled, Fleet!Recorded
  <1>8. stopped = Listed(p.hand)
    <2>1. p.hand \in Seq(Instance)
      BY <1>5 DEF FitsStop
    <2>2. DOMAIN p.hand = 1 .. Len(p.hand)
      BY <2>1, LenProperties
    <2> QED
      BY <2>2 DEF Listed
  <1>9. r \in Seq(Instance) /\ Distinct(r) /\ Listed(r) = Listed(file) \cap (Instance \ stopped)
    BY <1>7, AmongKeeps
  <1>10. \A i \in Listed(file) : i \in Instance /\ cloud[i] # "none"
    BY <1>6, ElementOfSeq DEF GoodList, Listed
  <1> HIDE DEF stopped, r
  <1>11. Listed(r) = Listed(file) \ Listed(p.hand)
    BY <1>8, <1>9, <1>10
  <1>12. q \in CmdRec /\ q.at = "write" /\ q.op = p.op /\ q.app = p.app /\ q.left = p.left /\ q.count = p.count /\ q.read = r
    BY <1>1, <1>9 DEF CmdRec
  <1> HIDE DEF q
  <1>13. CountIs(q, r, app)
    <2>1. OfApp(r, app, p.app) = OfApp(file, app, p.app) \ Listed(p.hand)
      BY <1>11 DEF OfApp
    <2>2. Cardinality(OfApp(r, app, p.app)) = p.count /\ p.left = 0 /\ p.count \in Nat
      BY <1>1, <1>5, <2>1 DEF FitsStop, CmdRec
    <2> QED
      BY <1>12, <2>2 DEF CountIs
  <1>14. GoodList(r, cloud)
    BY <1>9, <1>10, <1>11 DEF GoodList
  <1>15. LiveOf(answered, cloud) \subseteq Listed(r)
    <2>1. \A i \in Listed(p.hand) : cloud[i] = "gone"
      BY <1>2, <1>5 DEF FitsStop
    <2> QED
      BY <1>6, <1>11, <2>1 DEF LiveOf, Settled
  <1>16. Fits(q, file, cloud, app, answered) /\ ~IsOver(q)
    BY <1>12, <1>13, <1>14, <1>15 DEF Fits, FitsWrite, IsOver
  <1> QED
    BY <1>1, <1>2, <1>4, <1>12, <1>16, FleetSteps

LEMMA WriteKeeps ==
  ASSUME FleetInv, ~Together, NEW c \in Cmd, Fleet!Write(c)
  PROVE  FleetInv'
  <1> DEFINE p == cmd[c]
             q == [p EXCEPT !.at = "written"]
  <1>1. /\ p \in CmdRec /\ Fits(p, file, cloud, app, answered)
        /\ cloud \in [Instance -> Stages] /\ DOMAIN app = Instance /\ answered \subseteq {i \in Instance : cloud[i] # "none"}
    BY DEF FleetInv
  <1>2. p.at = "write" /\ UNCHANGED <<cloud, app, answered>> /\ file' = Fleet!Torn /\ cmd' = [cmd EXCEPT ![c] = q]
    BY DEF Fleet!Write, Fleet!Set
  <1>3. ~IsOver(cmd[c])
    BY <1>2 DEF IsOver
  <1>4. \A d \in Cmd : d # c => IsOver(cmd[d])
    BY <1>3, OneCommand
  <1> HIDE DEF p
  <1>5. FitsWrite(p, cloud, app, answered)
    BY <1>1, <1>2 DEF Fits
  <1>6. /\ q \in CmdRec /\ q.at = "written" /\ q.op = p.op /\ q.app = p.app /\ q.left = p.left /\ q.count = p.count
        /\ q.read = p.read
    BY <1>1 DEF CmdRec
  <1> HIDE DEF q
  <1>7. FitsWrite(q, cloud, app, answered)
    BY <1>5, <1>6 DEF FitsWrite, CountIs
  <1>8. Fits(q, file', cloud, app, answered) /\ ~IsOver(q)
    BY <1>6, <1>7 DEF Fits, IsOver
  <1> QED
    BY <1>1, <1>2, <1>4, <1>6, <1>8, FleetSteps

\* Where a command goes once an instance is recorded.
LEMMA OnwardKeeps ==
  ASSUME Fleet!FleetAssumption, FleetInv, ~Together, NEW c \in Cmd, ~IsOver(cmd[c]),
         UNCHANGED <<cloud, app, answered>>, cmd' = [cmd EXCEPT ![c] = Fleet!Onward(c)],
         GoodList(file', cloud), FitsStart(cmd[c], file', cloud, app, answered)
  PROVE  FleetInv' /\ cmd'[c].op = cmd[c].op
         /\ (cmd'[c].at = "done" => cmd[c].left = 0 /\ cmd'[c].app = cmd[c].app /\ cmd'[c].count = cmd[c].count)
  <1> DEFINE p == cmd[c]
             q == [p EXCEPT !.at = "start", !.hand = None, !.read = <<>>]
             o == Fleet!Over(c, "done")
  <1>1. /\ p \in CmdRec /\ cmd \in [Cmd -> CmdRec]
        /\ cloud \in [Instance -> Stages] /\ DOMAIN app = Instance /\ answered \subseteq {i \in Instance : cloud[i] # "none"}
    BY DEF FleetInv
  <1>2. \A d \in Cmd : d # c => IsOver(cmd[d])
    BY OneCommand
  <1>3. cmd' = [cmd EXCEPT ![c] = IF p.left > 0 THEN q ELSE o]
    BY DEF Fleet!Onward
  <1>4. o \in CmdRec /\ IsOver(o) /\ o.at = "done" /\ o.op = p.op /\ o.app = p.app /\ o.count = p.count
        /\ Fits(o, file', cloud, app, answered)
    BY OverIsOver
  <1>5. FitsStart(p, file', cloud, app, answered)
    OBVIOUS
  <1> HIDE DEF p, o
  <1>11. <<>> \in Seq(Instance)
    OBVIOUS
  <1>6. q \in CmdRec /\ q.at = "start" /\ q.op = p.op /\ q.app = p.app /\ q.left = p.left /\ q.count = p.count
    BY <1>1, <1>11 DEF CmdRec
  <1> HIDE DEF q
  <1>7. Fits(q, file', cloud, app, answered) /\ ~IsOver(q)
    BY <1>5, <1>6 DEF Fits, FitsStart, CountIs, IsOver
  <1>8. Settled(file', cloud, answered)
    BY <1>5 DEF FitsStart
  <1>9. CASE p.left > 0
    <2>1. cmd' = [cmd EXCEPT ![c] = q] /\ cmd'[c] = q
      BY <1>1, <1>3, <1>9
    <2>2. FleetInv'
      BY <1>1, <1>2, <1>6, <1>7, <2>1, FleetSteps
    <2> QED
      BY <1>6, <2>1, <2>2 DEF p
  <1>10. CASE ~(p.left > 0)
    <2>1. cmd' = [cmd EXCEPT ![c] = o] /\ cmd'[c] = o
      BY <1>1, <1>3, <1>10
    <2>2. FleetInv'
      BY <1>1, <1>2, <1>4, <1>8, <2>1, FleetSteps
    <2>3. p.left = 0
      BY <1>1, <1>10 DEF CmdRec
    <2> QED
      BY <1>4, <2>1, <2>2, <2>3 DEF p
  <1> QED
    BY <1>9, <1>10

LEMMA WrittenKeeps ==
  ASSUME Fleet!FleetAssumption, FleetInv, ~Together, NEW c \in Cmd, Fleet!Written(c)
  PROVE  /\ FleetInv' /\ cmd'[c].op = cmd[c].op
         /\ cmd'[c].at = "done" /\ cmd'[c].op = "scale" =>
              /\ file' = cmd[c].read /\ app' = app /\ GoodList(cmd[c].read, cloud)
              /\ Cardinality(OfApp(cmd[c].read, app, cmd'[c].app)) = cmd'[c].count
  <1> DEFINE p == cmd[c]
             q == [p EXCEPT !.at = "preview", !.read = <<>>]
  <1>1. /\ p \in CmdRec /\ Fits(p, file, cloud, app, answered) /\ cmd \in [Cmd -> CmdRec]
        /\ cloud \in [Instance -> Stages] /\ DOMAIN app = Instance /\ answered \subseteq {i \in Instance : cloud[i] # "none"}
    BY DEF FleetInv
  <1>2. /\ p.at = "written" /\ UNCHANGED <<cloud, app, answered>> /\ file' = p.read
        /\ cmd' = [cmd EXCEPT ![c] = IF p.op = "deploy" THEN q ELSE Fleet!Onward(c)]
    BY DEF Fleet!Written, Fleet!Set
  <1>3. ~IsOver(cmd[c])
    BY <1>2 DEF IsOver
  <1>4. \A d \in Cmd : d # c => IsOver(cmd[d])
    BY <1>3, OneCommand
  <1>14. FitsStart(p, file', cloud, app, answered) => FitsStart(cmd[c], file', cloud, app, answered)
    OBVIOUS
  <1> HIDE DEF p
  <1>5. FitsWrite(p, cloud, app, answered)
    BY <1>1, <1>2 DEF Fits
  <1>6. GoodList(file', cloud) /\ file' # Fleet!Torn
    BY <1>2, <1>5, TornIsNoList DEF FitsWrite, GoodList
  <1>7. FitsStart(p, file', cloud, app, answered)
    BY <1>2, <1>5, <1>6 DEF FitsWrite, FitsStart, Settled
  <1>8. CASE p.op = "deploy"
    <2>1. cmd' = [cmd EXCEPT ![c] = q]
      BY <1>2, <1>8
    <2>6. <<>> \in Seq(Instance)
      OBVIOUS
    <2>2. q \in CmdRec /\ q.at = "preview" /\ q.op = p.op /\ q.app = p.app /\ q.left = p.left /\ q.count = p.count
      BY <1>1, <2>6 DEF CmdRec
    <2> HIDE DEF q
    <2>3. Fits(q, file', cloud, app, answered) /\ ~IsOver(q)
      BY <1>7, <1>8, <2>2 DEF Fits, FitsStart, CountIs, IsOver
    <2>4. FleetInv'
      BY <1>1, <1>2, <1>4, <1>6, <2>1, <2>2, <2>3, FleetSteps
    <2>5. cmd'[c] = q
      BY <1>1, <2>1
    <2> QED
      BY <2>2, <2>4, <2>5 DEF p
  <1>9. CASE p.op # "deploy"
    <2>1. cmd' = [cmd EXCEPT ![c] = Fleet!Onward(c)]
      BY <1>2, <1>9
    <2>2. /\ FleetInv' /\ cmd'[c].op = cmd[c].op
          /\ (cmd'[c].at = "done" => cmd[c].left = 0 /\ cmd'[c].app = cmd[c].app /\ cmd'[c].count = cmd[c].count)
      BY <1>2, <1>3, <1>6, <1>7, <1>14, <2>1, OnwardKeeps
    <2>3. CountIs(p, p.read, app) /\ GoodList(p.read, cloud)
      BY <1>5 DEF FitsWrite
    <2>4. IsFiniteSet(OfApp(p.read, app, p.app))
      <3>1. IsFiniteSet(Listed(p.read))
        BY <2>3, ListedAreCounted, Zenon DEF GoodList
      <3>2. OfApp(p.read, app, p.app) \subseteq Listed(p.read)
        BY DEF OfApp
      <3> QED
        BY <3>1, <3>2, FS_Subset
    <2>5. Cardinality(OfApp(p.read, app, p.app)) \in Nat
      BY <2>4, FS_CardinalityType
    <2>6. ASSUME cmd'[c].at = "done", cmd'[c].op = "scale"
          PROVE  Cardinality(OfApp(p.read, app, cmd'[c].app)) = cmd'[c].count
      <3>1. p.left = 0 /\ cmd'[c].app = p.app /\ cmd'[c].count = p.count /\ p.op = "scale"
        BY <2>2, <2>6 DEF p
      <3>2. Cardinality(OfApp(p.read, app, p.app)) + p.left = p.count
        BY <2>3, <3>1 DEF CountIs
      <3> QED
        BY <2>5, <3>1, <3>2
    <2> QED
      BY <1>2, <2>2, <2>3, <2>6 DEF p
  <1> QED
    BY <1>8, <1>9

LEMMA PreviewKeeps ==
  ASSUME Fleet!FleetAssumption, FleetInv, ~Together, NEW c \in Cmd, Fleet!Preview(c)
  PROVE  FleetInv' /\ cmd'[c].op = "deploy"
  <1> DEFINE p == cmd[c]
  <1>1. p \in CmdRec /\ Fits(p, file, cloud, app, answered) /\ cmd \in [Cmd -> CmdRec]
        /\ cloud \in [Instance -> Stages] /\ DOMAIN app = Instance
    BY DEF FleetInv
  <1>2. p.at = "preview" /\ UNCHANGED <<cloud, app, answered, file>> /\ (Fleet!Set(c, Fleet!Onward(c)) \/ Fleet!Fail(c))
    BY DEF Fleet!Preview
  <1>3. ~IsOver(cmd[c])
    BY <1>2 DEF IsOver
  <1>4. FitsStart(cmd[c], file, cloud, app, answered) /\ cmd[c].op = "deploy"
    BY <1>1, <1>2 DEF Fits
  <1>5. GoodList(file, cloud) /\ Settled(file, cloud, answered)
    BY <1>4 DEF FleetInv, FitsStart, Settled
  <1>6. CASE Fleet!Fail(c)
    <2>1. FleetInv'
      BY <1>1, <1>2, <1>3, <1>5, <1>6, FleetFails
    <2>2. cmd'[c] = Fleet!Over(c, "failed")
      BY <1>1, <1>6 DEF Fleet!Fail, Fleet!Set
    <2>3. Fleet!Over(c, "failed").op = cmd[c].op
      BY OverIsOver
    <2> QED
      BY <1>4, <2>1, <2>2, <2>3
  <1>7. CASE Fleet!Set(c, Fleet!Onward(c))
    <2>1. cmd' = [cmd EXCEPT ![c] = Fleet!Onward(c)]
      BY <1>7 DEF Fleet!Set
    <2> QED
      BY <1>2, <1>3, <1>4, <1>5, <2>1, OnwardKeeps
  <1> QED
    BY <1>2, <1>6, <1>7

LEMMA StopKeeps ==
  ASSUME FleetInv, ~Together, NEW c \in Cmd, Fleet!Stop(c)
  PROVE  FleetInv' /\ \A i \in Instance : cloud'[i] = "gone" /\ cloud[i] # "gone" => app[i] = cmd[c].app
  <1> DEFINE p == cmd[c]
             i == Head(p.todo)
             t == Tail(p.todo)
  <1>1. /\ p \in CmdRec /\ Fits(p, file, cloud, app, answered)
        /\ cloud \in [Instance -> Stages] /\ DOMAIN app = Instance /\ answered \subseteq {j \in Instance : cloud[j] # "none"}
        /\ file = Fleet!Torn \/ GoodList(file, cloud)
    BY DEF FleetInv
  <1>2. p.at = "stop" /\ UNCHANGED <<app, answered, file>>
    BY DEF Fleet!Stop
  <1>3. ~IsOver(cmd[c])
    BY <1>2 DEF IsOver
  <1>4. \A d \in Cmd : d # c => IsOver(cmd[d])
    BY <1>3, OneCommand
  <1>5. \/ p.todo = <<>> /\ cmd' = [cmd EXCEPT ![c] = [p EXCEPT !.at = "remove"]] /\ UNCHANGED cloud
        \/ /\ p.todo # <<>> /\ cloud' = [cloud EXCEPT ![i] = "gone"]
           /\ cmd' = [cmd EXCEPT ![c] = [p EXCEPT !.todo = t]] \/ Fleet!Fail(c)
        \/ p.todo # <<>> /\ Fleet!Fail(c) /\ UNCHANGED cloud
    BY DEF Fleet!Stop, Fleet!Set
  <1>20. p.app = cmd[c].app
    OBVIOUS
  <1> HIDE DEF p
  <1>6. FitsStop(p, file, cloud, app, answered)
    BY <1>1, <1>2 DEF Fits
  <1>7. p.todo \in Seq(Instance) /\ Settled(file, cloud, answered) /\ GoodList(file, cloud)
    BY <1>1, <1>6 DEF CmdRec, FitsStop, Settled
  <1>8. p.todo # <<>> =>
          /\ Len(p.todo) >= 1 /\ i = p.todo[1] /\ t \in Seq(Instance) /\ Len(t) = Len(p.todo) - 1
          /\ \A k \in 1 .. Len(t) : t[k] = p.todo[k + 1]
    BY <1>7
  <1> HIDE DEF i, t
  <1>9. ASSUME p.todo # <<>>
        PROVE  i \in Listed(p.todo) /\ Listed(p.todo) \subseteq Listed(t) \cup {i} /\ Listed(t) \subseteq Listed(p.todo)
    <2>1. Len(p.todo) \in Nat
      BY <1>7
    <2>2. \A k \in 1 .. Len(p.todo) : k = 1 \/ (k - 1 \in 1 .. Len(t) /\ p.todo[k] = t[k - 1])
      BY <1>8, <1>9, <2>1
    <2>3. \A k \in 1 .. Len(t) : k + 1 \in 1 .. Len(p.todo) /\ t[k] = p.todo[k + 1]
      BY <1>8, <1>9, <2>1
    <2>4. 1 \in 1 .. Len(p.todo)
      BY <1>8, <1>9, <2>1
    <2>5. i \in Listed(p.todo)
      BY <1>8, <1>9, <2>4 DEF Listed
    <2>6. Listed(t) \subseteq Listed(p.todo)
      BY <2>3 DEF Listed
    <2>7. ASSUME NEW j \in Listed(p.todo) PROVE j \in Listed(t) \cup {i}
      <3>1. PICK k \in 1 .. Len(p.todo) : j = p.todo[k]
        BY DEF Listed
      <3>2. CASE k = 1
        BY <1>8, <1>9, <3>1, <3>2
      <3>3. CASE k - 1 \in 1 .. Len(t) /\ p.todo[k] = t[k - 1]
        BY <3>1, <3>3 DEF Listed
      <3> QED
        BY <2>2, <3>2, <3>3
    <2> QED
      BY <2>5, <2>6, <2>7
  <1>10. ASSUME p.todo # <<>> PROVE i \in Instance /\ i \in Listed(p.hand) /\ app[i] = p.app
    <2>1. i \in OfApp(file, app, p.app) /\ i \in Listed(p.hand)
      BY <1>6, <1>9, <1>10 DEF FitsStop
    <2>2. i \in Instance
      BY <1>7, <1>9, <1>10, ElementOfSeq DEF Listed
    <2> QED
      BY <2>1, <2>2 DEF OfApp
  <1>11. CASE p.todo = <<>> /\ cmd' = [cmd EXCEPT ![c] = [p EXCEPT !.at = "remove"]] /\ UNCHANGED cloud
    <2> DEFINE q == [p EXCEPT !.at = "remove"]
    <2>1. /\ q \in CmdRec /\ q.at = "remove" /\ q.op = p.op /\ q.app = p.app /\ q.left = p.left /\ q.count = p.count
          /\ q.hand = p.hand /\ q.todo = p.todo
      BY <1>1 DEF CmdRec
    <2>2. cmd' = [cmd EXCEPT ![c] = q]
      BY <1>11
    <2> HIDE DEF q
    <2>3. Listed(p.todo) = {}
      BY <1>11 DEF Listed
    <2>4. FitsStop(q, file, cloud, app, answered)
      BY <1>6, <2>1, <2>3 DEF FitsStop
    <2>5. Fits(q, file, cloud, app, answered) /\ ~IsOver(q)
      BY <2>1, <2>4 DEF Fits, IsOver
    <2>6. FleetInv'
      BY <1>1, <1>2, <1>4, <1>11, <2>1, <2>2, <2>5, FleetSteps
    <2> QED
      BY <1>11, <2>6
  <1>12. ASSUME p.todo # <<>>, cloud' = [cloud EXCEPT ![i] = "gone"]
         PROVE  /\ cloud' \in [Instance -> Stages] /\ \A j \in Instance : cloud'[j] = IF j = i THEN "gone" ELSE cloud[j]
                /\ LiveOf(answered, cloud') \subseteq LiveOf(answered, cloud) /\ Settled(file, cloud', answered)
                /\ GoodList(file, cloud')
    <2>1. cloud' \in [Instance -> Stages] /\ \A j \in Instance : cloud'[j] = IF j = i THEN "gone" ELSE cloud[j]
      BY <1>1, <1>12 DEF Stages
    <2>2. LiveOf(answered, cloud') \subseteq LiveOf(answered, cloud)
      BY <1>1, <2>1 DEF LiveOf
    <2>3. \A j \in Listed(file) : j \in Instance
      BY <1>7, ElementOfSeq DEF GoodList, Listed
    <2> QED
      BY <1>7, <2>1, <2>2, <2>3 DEF Settled, GoodList
  <1>13. CASE p.todo # <<>> /\ cloud' = [cloud EXCEPT ![i] = "gone"] /\ cmd' = [cmd EXCEPT ![c] = [p EXCEPT !.todo = t]]
    <2> DEFINE q == [p EXCEPT !.todo = t]
    <2>1. /\ q \in CmdRec /\ q.at = "stop" /\ q.op = p.op /\ q.app = p.app /\ q.left = p.left /\ q.count = p.count
          /\ q.hand = p.hand /\ q.todo = t
      BY <1>1, <1>2, <1>8, <1>13 DEF CmdRec
    <2>2. cmd' = [cmd EXCEPT ![c] = q]
      BY <1>13
    <2> HIDE DEF q
    <2>3. \A j \in Listed(p.hand) : j \in Instance
      BY <1>6, ElementOfSeq DEF FitsStop, Listed
    <2>4. \A j \in Listed(p.hand) : cloud'[j] = "gone" \/ j \in Listed(t)
      BY <1>6, <1>9, <1>12, <1>13, <2>3 DEF FitsStop
    <2>5. FitsStop(q, file, cloud', app, answered)
      BY <1>6, <1>9, <1>12, <1>13, <2>1, <2>4 DEF FitsStop
    <2>6. Fits(q, file, cloud', app, answered) /\ ~IsOver(q)
      BY <2>1, <2>5 DEF Fits, IsOver
    <2>7. answered \subseteq {j \in Instance : cloud'[j] # "none"}
      BY <1>1, <1>12, <1>13
    <2>8. FleetInv'
      BY <1>1, <1>2, <1>4, <1>12, <1>13, <2>1, <2>2, <2>6, <2>7, FleetSteps
    <2> QED
      BY <1>10, <1>12, <1>13, <1>20, <2>8
  <1>14. CASE p.todo # <<>> /\ cloud' = [cloud EXCEPT ![i] = "gone"] /\ Fleet!Fail(c)
    <2>1. \A j \in Instance : cloud[j] # "none" => cloud'[j] # "none"
      BY <1>12, <1>14
    <2>2. FleetInv'
      BY <1>1, <1>2, <1>3, <1>12, <1>14, <2>1, FleetFails
    <2> QED
      BY <1>10, <1>12, <1>14, <1>20, <2>2
  <1>15. CASE Fleet!Fail(c) /\ UNCHANGED cloud
    <2>1. FleetInv'
      BY <1>1, <1>2, <1>3, <1>7, <1>15, FleetFails
    <2> QED
      BY <1>15, <2>1
  <1> QED
    BY <1>5, <1>11, <1>13, <1>14, <1>15

-----------------------------------------------------------------------------
(* The fleet's theorems.                                                    *)

LEMMA FleetKeeps == ASSUME Fleet!FleetAssumption, ~Together PROVE FleetInv /\ [Fleet!Next]_Fleet!vars => FleetInv'
  <1> SUFFICES ASSUME FleetInv, [Fleet!Next]_Fleet!vars PROVE FleetInv'
    OBVIOUS
  <1>1. CASE UNCHANGED Fleet!vars
    BY <1>1 DEF Fleet!vars, FleetInv
  <1>2. CASE Fleet!Next
    <2>1. ASSUME NEW c \in Cmd, NEW a \in App, NEW n \in 0 .. MaxCount, (n > 0 /\ Fleet!Deploy(c, a, n)) \/ Fleet!Scale(c, a, n)
          PROVE  FleetInv'
      BY <2>1, DeployKeeps, ScaleKeeps
    <2>2. ASSUME NEW c \in Cmd,
                 \/ Fleet!Upload(c) \/ Fleet!Start(c) \/ Fleet!Record(c) \/ Fleet!Unrecord(c)
                 \/ Fleet!Write(c) \/ Fleet!Written(c) \/ Fleet!Preview(c) \/ Fleet!Stop(c)
          PROVE  FleetInv'
      BY <2>2, UploadKeeps, StartKeeps, RecordKeeps, UnrecordKeeps, WriteKeeps, WrittenKeeps, PreviewKeeps, StopKeeps
    <2>3. ASSUME NEW c \in Cmd, NEW i \in Instance, Fleet!Snapshot(c, i) \/ Fleet!Restore(c, i) \/ Fleet!Fork(c, i)
          PROVE  FleetInv'
      BY <2>3, SnapshotsKeep
    <2> QED
      BY <1>2, <2>1, <2>2, <2>3, BesideKeeps DEF Fleet!Next
  <1> QED
    BY <1>1, <1>2

LEMMA FleetIsTracked == FleetInv => Fleet!StartedAreTracked
  <1> SUFFICES ASSUME FleetInv, \A c \in Cmd : IsOver(cmd[c]), NEW i \in answered, cloud[i] \in {"running", "paused"}
               PROVE  \E k \in DOMAIN Fleet!Recorded : Fleet!Recorded[k] = i
    BY DEF Fleet!StartedAreTracked, Fleet!Ended, IsOver
  <1>1. Settled(file, cloud, answered) /\ GoodList(file, cloud)
    BY DEF FleetInv, Settled
  <1>2. Fleet!Recorded = file /\ i \in Listed(file)
    BY <1>1 DEF Fleet!Recorded, Settled, LiveOf
  <1>3. DOMAIN file = 1 .. Len(file)
    BY <1>1, LenProperties DEF GoodList
  <1> QED
    BY <1>2, <1>3 DEF Listed

\* What a scale that is done leaves recorded.
LEMMA DoneIsCounted ==
  ASSUME Fleet!FleetAssumption, GoodList(file', cloud), NEW a
  PROVE  Fleet!Cardinality({k \in DOMAIN Fleet!Recorded' : app'[Fleet!Recorded'[k]] = a}) = Cardinality(OfApp(file', app', a))
  <1>1. file' \in Seq(Instance) /\ Distinct(file')
    BY DEF GoodList
  <1>2. Fleet!Recorded' = file'
    BY <1>1, TornIsNoList DEF Fleet!Recorded
  <1>3. Cardinality({k \in DOMAIN file' : app'[file'[k]] = a}) = Cardinality(OfApp(file', app', a))
    BY <1>1, PlacesAreCounted
  <1>4. \A S : Fleet!Cardinality(S) = Cardinality(S)
    BY DEF Fleet!Cardinality, Cardinality, Fleet!IsFiniteSet, IsFiniteSet
  <1> QED
    BY <1>2, <1>3, <1>4

\* The steps of a command, and what they leave of the others.
LEMMA StepsThatAreNotLast ==
  ASSUME FleetInv, NEW d \in Cmd,
         \/ Fleet!Upload(d) \/ Fleet!Start(d) \/ Fleet!Record(d) \/ Fleet!Unrecord(d) \/ Fleet!Write(d) \/ Fleet!Stop(d)
  PROVE  cmd'[d].at # "done" /\ \A c \in Cmd : c # d => cmd'[c] = cmd[c]
  <1> DEFINE p == cmd[d]
  <1>1. p \in CmdRec /\ cmd \in [Cmd -> CmdRec]
    BY DEF FleetInv
  <1>2. ASSUME NEW q, Fleet!Set(d, q) PROVE cmd'[d] = q /\ \A c \in Cmd : c # d => cmd'[c] = cmd[c]
    BY <1>1, <1>2 DEF Fleet!Set
  <1>3. ASSUME Fleet!Fail(d) PROVE cmd'[d].at = "failed" /\ \A c \in Cmd : c # d => cmd'[c] = cmd[c]
    <2>1. Fleet!Set(d, Fleet!Over(d, "failed"))
      BY <1>3 DEF Fleet!Fail
    <2>2. Fleet!Over(d, "failed").at = "failed"
      BY OverIsOver
    <2> QED
      BY <1>2, <2>1, <2>2
  <1>4. CASE Fleet!Fail(d)
    BY <1>3, <1>4
  <1>5. CASE Fleet!Upload(d) /\ ~Fleet!Fail(d)
    <2>1. Fleet!Set(d, [p EXCEPT !.at = "start"])
      BY <1>5 DEF Fleet!Upload
    <2>2. [p EXCEPT !.at = "start"].at = "start"
      BY <1>1 DEF CmdRec
    <2> QED
      BY <1>2, <2>1, <2>2
  <1>6. CASE Fleet!Start(d) /\ ~Fleet!Fail(d)
    <2> DEFINE h == <<Fleet!NextInstance>>
    <2>1. Fleet!Set(d, [p EXCEPT !.at = "append", !.hand = h])
      BY <1>6 DEF Fleet!Start
    <2> HIDE DEF h
    <2>2. [p EXCEPT !.at = "append", !.hand = h].at = "append"
      BY <1>1 DEF CmdRec
    <2> QED
      BY <1>2, <2>1, <2>2
  <1>7. CASE Fleet!Record(d)
    <2> DEFINE l == p.left - 1
               r == Fleet!Recorded \o p.hand
    <2>1. Fleet!Set(d, [p EXCEPT !.at = "write", !.left = l, !.read = r])
      BY <1>7 DEF Fleet!Record
    <2> HIDE DEF l, r
    <2>2. [p EXCEPT !.at = "write", !.left = l, !.read = r].at = "write"
      BY <1>1 DEF CmdRec
    <2> QED
      BY <1>2, <2>1, <2>2
  <1>8. CASE Fleet!Unrecord(d)
    <2> DEFINE r == Fleet!Among(Fleet!Recorded, Instance \ {p.hand[k] : k \in DOMAIN p.hand})
    <2>1. Fleet!Set(d, [p EXCEPT !.at = "write", !.read = r])
      BY <1>8 DEF Fleet!Unrecord
    <2> HIDE DEF r
    <2>2. [p EXCEPT !.at = "write", !.read = r].at = "write"
      BY <1>1 DEF CmdRec
    <2> QED
      BY <1>2, <2>1, <2>2
  <1>9. CASE Fleet!Write(d)
    <2>1. Fleet!Set(d, [p EXCEPT !.at = "written"])
      BY <1>9 DEF Fleet!Write
    <2>2. [p EXCEPT !.at = "written"].at = "written"
      BY <1>1 DEF CmdRec
    <2> QED
      BY <1>2, <2>1, <2>2
  <1>10. CASE Fleet!Stop(d) /\ ~Fleet!Fail(d)
    <2> DEFINE t == Tail(p.todo)
    <2>1. Fleet!Set(d, [p EXCEPT !.at = "remove"]) \/ Fleet!Set(d, [p EXCEPT !.todo = t])
      BY <1>10 DEF Fleet!Stop
    <2> HIDE DEF t
    <2>2. p.at = "stop"
      BY <1>10 DEF Fleet!Stop
    <2>3. [p EXCEPT !.at = "remove"].at = "remove" /\ [p EXCEPT !.todo = t].at = "stop"
      BY <1>1, <2>2 DEF CmdRec
    <2> QED
      BY <1>2, <2>1, <2>3
  <1> QED
    BY <1>4, <1>5, <1>6, <1>7, <1>8, <1>9, <1>10

LEMMA SnapshotsAreNoScale ==
  ASSUME FleetInv, NEW d \in Cmd, NEW n \in Instance, Fleet!Snapshot(d, n) \/ Fleet!Restore(d, n) \/ Fleet!Fork(d, n)
  PROVE  cmd'[d].op # "scale" /\ \A c \in Cmd : c # d => cmd'[c] = cmd[c]
  <1> DEFINE i0 == Fleet!Idle
  <1>1. PICK o \in {"snapshot", "restore", "fork"} : cmd' = [cmd EXCEPT ![d] = [i0 EXCEPT !.op = o, !.at = "done"]]
    BY DEF Fleet!Snapshot, Fleet!Restore, Fleet!Fork, Fleet!Set
  <1>2. i0 \in CmdRec /\ cmd \in [Cmd -> CmdRec]
    BY DEF Fleet!Idle, CmdRec, FleetInv
  <1> HIDE DEF i0
  <1>3. [i0 EXCEPT !.op = o, !.at = "done"].op = o
    BY <1>2 DEF CmdRec
  <1> QED
    BY <1>1, <1>2, <1>3

PeerInv == DOMAIN peer = {"at", "on"}

\* What stops an instance is a scale, of its own app's, or the peer's teardown.
LEMMA OnlyStopsStop ==
  ASSUME Fleet!FleetAssumption, FleetInv, PeerInv, Fleet!Next, NEW i \in Instance, cloud'[i] = "gone", cloud[i] # "gone"
  PROVE  (\E d \in Cmd : Fleet!Stop(d)) \/ peer' # peer
  <1>1. cloud \in [Instance -> Stages] /\ cloud' # cloud
    BY DEF FleetInv
  <1>2. ASSUME NEW n, NEW s \in {"running", "paused"}, cloud' = [cloud EXCEPT ![n] = s] PROVE FALSE
    BY <1>1, <1>2
  <1>3. ASSUME NEW c \in Cmd, NEW a \in App, NEW n \in 0 .. MaxCount PROVE ~Fleet!Deploy(c, a, n) /\ ~Fleet!Scale(c, a, n)
    BY <1>1 DEF Fleet!Deploy, Fleet!Scale
  <1>4. ASSUME NEW c \in Cmd
        PROVE  /\ ~Fleet!Upload(c) /\ ~Fleet!Record(c) /\ ~Fleet!Unrecord(c)
               /\ ~Fleet!Write(c) /\ ~Fleet!Written(c) /\ ~Fleet!Preview(c)
    BY <1>1 DEF Fleet!Upload, Fleet!Record, Fleet!Unrecord, Fleet!Write, Fleet!Written, Fleet!Preview
  <1>5. ASSUME NEW c \in Cmd PROVE ~Fleet!Start(c)
    BY <1>1, <1>2 DEF Fleet!Start, Fleet!Starts
  <1>6. ASSUME NEW c \in Cmd, NEW n \in Instance
        PROVE  ~Fleet!Snapshot(c, n) /\ ~Fleet!Restore(c, n) /\ ~Fleet!Fork(c, n)
    BY <1>1, <1>2 DEF Fleet!Snapshot, Fleet!Restore, Fleet!Fork, Fleet!Starts
  <1>7. ASSUME NEW a \in App PROVE ~Fleet!PeerStart(a)
    BY <1>1, <1>2 DEF Fleet!PeerStart, Fleet!Starts
  <1>8. ~Fleet!RpcUrl
    BY <1>1 DEF Fleet!RpcUrl
  <1>9. Fleet!Teardown => peer' # peer
    <2> SUFFICES ASSUME Fleet!Teardown PROVE peer'.at = "stopped" /\ peer.at # "stopped"
      OBVIOUS
    <2> QED
      BY DEF Fleet!Teardown, PeerInv
  <1> QED
    BY <1>3, <1>4, <1>5, <1>6, <1>7, <1>8, <1>9 DEF Fleet!Next

LEMMA ScaleKeepsItsWord ==
  ASSUME Fleet!FleetAssumption, ~Together, FleetInv, PeerInv, Fleet!Next
  PROVE  Fleet!ScaleStep
  <1> SUFFICES ASSUME NEW c \in Cmd, cmd'[c].op = "scale"
               PROVE  /\ cmd[c].at # "done" /\ cmd'[c].at = "done" =>
                           Fleet!Cardinality({k \in DOMAIN Fleet!Recorded' : app'[Fleet!Recorded'[k]] = cmd'[c].app}) = cmd'[c].count
                      /\ cmd[c].at = "stop" /\ peer' = peer =>
                           \A i \in Instance : cloud'[i] = "gone" /\ cloud[i] # "gone" => app[i] = cmd[c].app
    BY Zenon DEF Fleet!ScaleStep
  <1>1. ASSUME cmd[c].at = "stop", peer' = peer, NEW i \in Instance, cloud'[i] = "gone", cloud[i] # "gone"
        PROVE  app[i] = cmd[c].app
    <2>1. PICK d \in Cmd : Fleet!Stop(d)
      BY <1>1, OnlyStopsStop
    <2>2. cmd[d].at = "stop"
      BY <2>1 DEF Fleet!Stop
    <2>3. d = c
      BY <1>1, <2>2 DEF FleetInv, IsOver
    <2> QED
      BY <1>1, <2>1, <2>3, StopKeeps
  <1>2. ASSUME cmd[c].at # "done", cmd'[c].at = "done"
        PROVE  GoodList(file', cloud) /\ Cardinality(OfApp(file', app', cmd'[c].app)) = cmd'[c].count
    <2>1. cmd \in [Cmd -> CmdRec]
      BY DEF FleetInv
    <2>2. ASSUME NEW d \in Cmd, NEW a \in App, NEW n \in 0 .. MaxCount PROVE ~Fleet!Deploy(d, a, n)
      <3> SUFFICES ASSUME Fleet!Deploy(d, a, n) PROVE FALSE
        OBVIOUS
      <3> DEFINE i0 == Fleet!Idle
                 q == [i0 EXCEPT !.at = "upload", !.op = "deploy", !.app = a, !.count = n, !.left = n]
      <3>1. i0 \in CmdRec
        BY DEF Fleet!Idle, CmdRec
      <3>2. cmd' = [cmd EXCEPT ![d] = q]
        BY DEF Fleet!Deploy, Fleet!Set
      <3> HIDE DEF i0
      <3>3. q.at = "upload"
        BY <3>1 DEF CmdRec
      <3> HIDE DEF q
      <3>4. cmd'[c] = q \/ cmd'[c] = cmd[c]
        BY <2>1, <3>2
      <3> QED
        BY <1>2, <3>3, <3>4
    <2>3. ASSUME NEW d \in Cmd, NEW a \in App, NEW n \in 0 .. MaxCount, Fleet!Scale(d, a, n)
          PROVE  GoodList(file', cloud) /\ Cardinality(OfApp(file', app', cmd'[c].app)) = cmd'[c].count
      <3>1. d = c
        <4>1. PICK q : cmd' = [cmd EXCEPT ![d] = q]
          BY <2>3 DEF Fleet!Scale, Fleet!Set
        <4> QED
          BY <1>2, <2>1, <4>1
      <3> QED
        BY <1>2, <2>3, <3>1, ScaleKeeps
    <2>4. ASSUME NEW d \in Cmd,
                 \/ Fleet!Upload(d) \/ Fleet!Start(d) \/ Fleet!Record(d) \/ Fleet!Unrecord(d) \/ Fleet!Write(d) \/ Fleet!Stop(d)
          PROVE  FALSE
      BY <1>2, <2>4, StepsThatAreNotLast, Zenon
    <2>5. ASSUME NEW d \in Cmd, Fleet!Written(d)
          PROVE  GoodList(file', cloud) /\ Cardinality(OfApp(file', app', cmd'[c].app)) = cmd'[c].count
      <3>1. d = c
        <4>1. PICK q : cmd' = [cmd EXCEPT ![d] = q]
          BY <2>5 DEF Fleet!Written, Fleet!Set
        <4> QED
          BY <1>2, <2>1, <4>1
      <3>2. /\ file' = cmd[c].read /\ app' = app /\ GoodList(cmd[c].read, cloud)
            /\ Cardinality(OfApp(cmd[c].read, app, cmd'[c].app)) = cmd'[c].count
        BY <1>2, <2>5, <3>1, WrittenKeeps
      <3> QED
        BY <3>2
    <2>6. ASSUME NEW d \in Cmd PROVE ~Fleet!Preview(d)
      <3> SUFFICES ASSUME Fleet!Preview(d) PROVE FALSE
        OBVIOUS
      <3>1. d = c
        <4>1. PICK q : cmd' = [cmd EXCEPT ![d] = q]
          BY DEF Fleet!Preview, Fleet!Set, Fleet!Fail
        <4> QED
          BY <1>2, <2>1, <4>1
      <3> QED
        BY <3>1, PreviewKeeps
    <2>7. ASSUME NEW d \in Cmd, NEW i \in Instance, Fleet!Snapshot(d, i) \/ Fleet!Restore(d, i) \/ Fleet!Fork(d, i)
          PROVE  FALSE
      BY <1>2, <2>7, SnapshotsAreNoScale
    <2>8. ASSUME (\E a \in App : Fleet!PeerStart(a)) \/ Fleet!RpcUrl \/ Fleet!Teardown PROVE FALSE
      BY <1>2, <2>8 DEF Fleet!PeerStart, Fleet!RpcUrl, Fleet!Teardown
    <2> QED
      BY <2>2, <2>3, <2>4, <2>5, <2>6, <2>7, <2>8 DEF Fleet!Next
  <1>3. cmd[c].at # "done" /\ cmd'[c].at = "done" =>
          Fleet!Cardinality({k \in DOMAIN Fleet!Recorded' : app'[Fleet!Recorded'[k]] = cmd'[c].app}) = cmd'[c].count
    BY <1>2, DoneIsCounted
  <1> QED
    BY <1>1, <1>3, Zenon

\* When commands run one after the other, every instance they were told of that
\* still runs is in the fleet's file once they have ended.
THEOREM StartedAreInTheFile ==
  ASSUME Fleet!FleetAssumption, ~Together
  PROVE  Fleet!Spec => []Fleet!StartedAreTracked
  <1> QED
    BY FleetStarts, FleetKeeps, FleetIsTracked, PTL DEF Fleet!Spec

\* A scale that reports success leaves its count recorded, and stops only its
\* own app's instances.
THEOREM ScalesDoWhatTheySay ==
  ASSUME Fleet!FleetAssumption, ~Together
  PROVE  Fleet!Spec => [][Fleet!ScaleStep]_Fleet!vars
  <1>1. Fleet!Init => PeerInv
    BY DEF Fleet!Init, PeerInv
  <1>2. PeerInv /\ [Fleet!Next]_Fleet!vars => PeerInv'
    <2> SUFFICES ASSUME PeerInv, [Fleet!Next]_Fleet!vars PROVE PeerInv'
      OBVIOUS
    <2>1. \/ peer' = peer \/ (\E a \in App : Fleet!PeerStart(a)) \/ Fleet!RpcUrl \/ Fleet!Teardown
      BY DEF Fleet!Next, Fleet!vars, Fleet!Deploy, Fleet!Scale, Fleet!Upload, Fleet!Start, Fleet!Record, Fleet!Unrecord,
             Fleet!Write, Fleet!Written, Fleet!Preview, Fleet!Stop, Fleet!Snapshot, Fleet!Restore, Fleet!Fork
    <2>2. CASE peer' = peer
      BY <2>2 DEF PeerInv
    <2>3. ASSUME NEW a \in App, Fleet!PeerStart(a) PROVE PeerInv'
      BY <2>3 DEF Fleet!PeerStart, PeerInv
    <2>4. CASE Fleet!RpcUrl
      BY <2>4 DEF Fleet!RpcUrl, PeerInv
    <2>5. CASE Fleet!Teardown
      BY <2>5 DEF Fleet!Teardown, PeerInv
    <2> QED
      BY <2>1, <2>2, <2>3, <2>4, <2>5
  <1>3. FleetInv /\ PeerInv /\ [Fleet!Next]_Fleet!vars => [Fleet!ScaleStep]_Fleet!vars
    BY ScaleKeepsItsWord
  <1> QED
    BY <1>1, <1>2, <1>3, FleetStarts, FleetKeeps, PTL DEF Fleet!Spec

-----------------------------------------------------------------------------
(* The registry.  From the create of a bundle's file until the row of the   *)
(* database, or the removal of the file, the version is one request's alone.*)

InHand(r) == stage[r] \in {"write", "insert", "remove"}

RegistryTypes ==
  /\ DOMAIN stage = Publishing /\ DOMAIN blobs = Version /\ DOMAIN apps = Version
  /\ \A r \in Publishing : publish[r].version \in Version
  /\ \A v \in Version : apps[v] \in Publishing \cup {None}

\* A request at work on a version: no row is there yet, and what the file has.
HasVersion ==
  \A r \in Publishing : InHand(r) =>
    /\ apps[publish[r].version] = None
    /\ stage[r] = "write" => blobs[publish[r].version] = Registry!Partial
    /\ stage[r] # "write" => blobs[publish[r].version] = r

Alone ==
  \A r, s \in Publishing : InHand(r) /\ InHand(s) /\ publish[r].version = publish[s].version => r = s

RegistryInv == RegistryTypes /\ Registry!ServedAsPublished /\ HasVersion /\ Alone

\* A request is neither the absence of a file nor a part of one.
RequestsAreNamed == None \notin Publishing /\ Registry!Partial \notin Publishing /\ None # Registry!Partial

LEMMA RegistryStep ==
  ASSUME RequestsAreNamed, RegistryInv, Registry!Next
  PROVE  RegistryInv'
  <1> USE DEF RegistryInv, RegistryTypes, Registry!ServedAsPublished, HasVersion, Alone, InHand,
              Registry!V, Registry!Go
  <1>1. ASSUME NEW r \in Publishing, Registry!Check(r) PROVE RegistryInv'
    <2>1. RegistryTypes'
      BY <1>1 DEF Registry!Check
    <2>2. Registry!ServedAsPublished'
      BY <1>1 DEF Registry!Check, RequestsAreNamed
    <2>3. HasVersion'
      BY <1>1 DEF Registry!Check, RequestsAreNamed
    <2>4. Alone'
      BY <1>1 DEF Registry!Check, RequestsAreNamed
    <2> QED
      BY <2>1, <2>2, <2>3, <2>4
  <1>2. ASSUME NEW r \in Publishing, Registry!Create(r) PROVE RegistryInv'
    <2>1. RegistryTypes'
      BY <1>2 DEF Registry!Create
    <2>2. Registry!ServedAsPublished'
      BY <1>2 DEF Registry!Create, RequestsAreNamed
    <2>3. HasVersion'
      BY <1>2 DEF Registry!Create, RequestsAreNamed
    <2>4. Alone'
      BY <1>2 DEF Registry!Create, RequestsAreNamed
    <2> QED
      BY <2>1, <2>2, <2>3, <2>4
  <1>3. ASSUME NEW r \in Publishing, Registry!WriteBytes(r) PROVE RegistryInv'
    <2>1. RegistryTypes'
      BY <1>3 DEF Registry!WriteBytes
    <2>2. Registry!ServedAsPublished'
      BY <1>3 DEF Registry!WriteBytes, RequestsAreNamed
    <2>3. HasVersion'
      BY <1>3 DEF Registry!WriteBytes, RequestsAreNamed
    <2>4. Alone'
      BY <1>3 DEF Registry!WriteBytes, RequestsAreNamed
    <2> QED
      BY <2>1, <2>2, <2>3, <2>4
  <1>4. ASSUME NEW r \in Publishing, Registry!Insert(r) PROVE RegistryInv'
    <2>1. RegistryTypes'
      BY <1>4 DEF Registry!Insert
    <2>2. Registry!ServedAsPublished'
      BY <1>4 DEF Registry!Insert, RequestsAreNamed
    <2>3. HasVersion'
      BY <1>4 DEF Registry!Insert, RequestsAreNamed
    <2>4. Alone'
      BY <1>4 DEF Registry!Insert, RequestsAreNamed
    <2> QED
      BY <2>1, <2>2, <2>3, <2>4
  <1>5. ASSUME NEW r \in Publishing, Registry!InsertFails(r) PROVE RegistryInv'
    <2>1. RegistryTypes'
      BY <1>5 DEF Registry!InsertFails
    <2>2. Registry!ServedAsPublished'
      BY <1>5 DEF Registry!InsertFails, RequestsAreNamed
    <2>3. HasVersion'
      BY <1>5 DEF Registry!InsertFails, RequestsAreNamed
    <2>4. Alone'
      BY <1>5 DEF Registry!InsertFails, RequestsAreNamed
    <2> QED
      BY <2>1, <2>2, <2>3, <2>4
  <1>6. ASSUME NEW r \in Publishing, Registry!RemoveBundle(r) PROVE RegistryInv'
    <2>1. RegistryTypes'
      BY <1>6 DEF Registry!RemoveBundle
    <2>2. Registry!ServedAsPublished'
      BY <1>6 DEF Registry!RemoveBundle, RequestsAreNamed
    <2>3. HasVersion'
      BY <1>6 DEF Registry!RemoveBundle, RequestsAreNamed
    <2>4. Alone'
      BY <1>6 DEF Registry!RemoveBundle, RequestsAreNamed
    <2> QED
      BY <2>1, <2>2, <2>3, <2>4
  <1>7. ASSUME Registry!Restart PROVE RegistryInv'
    BY <1>7 DEF Registry!Restart
  <1> QED
    BY <1>1, <1>2, <1>3, <1>4, <1>5, <1>6, <1>7 DEF Registry!Next

(* What is served of a published version is the whole bundle of the publish *)
(* that was recorded for it, for any requests of any publishers, writes that*)
(* fail and restarts (routes.ts, storage.ts).                               *)
THEOREM PublishedStaysServed ==
  ASSUME RequestsAreNamed
  PROVE  Registry!Spec => []Registry!ServedAsPublished
  <1>1. Registry!Init => RegistryInv
    BY DEF Registry!Init, Registry!ServedAsPublished, RegistryInv, RegistryTypes, HasVersion, Alone, InHand
  <1>2. RegistryInv /\ [Registry!Next]_Registry!vars => RegistryInv'
    <2>1. ASSUME RegistryInv, UNCHANGED Registry!vars PROVE RegistryInv'
      BY <2>1 DEF Registry!vars, Registry!ServedAsPublished, RegistryInv, RegistryTypes, HasVersion, Alone, InHand
    <2> QED
      BY <2>1, RegistryStep
  <1>3. RegistryInv => Registry!ServedAsPublished
    BY DEF RegistryInv
  <1> QED
    BY <1>1, <1>2, <1>3, PTL DEF Registry!Spec

-----------------------------------------------------------------------------
(* The mesh.  An address was counted before it is anybody's.                *)

Row == [key : Container, ip : Nat, patterns : SUBSET Name, token : Nat]

MeshInv ==
  /\ nextSeq \in Nat
  /\ DOMAIN row = Name /\ DOMAIN known = Container
  /\ \A n \in Name : row[n] # None => row[n] \in Row /\ row[n].ip < nextSeq
  /\ \A m, n \in Name : row[m] # None /\ row[n] # None /\ row[m].ip = row[n].ip => m = n
  /\ \A c \in Container : \A p \in known[c] : p.ip \in Nat /\ p.ip < nextSeq
  /\ Mesh!StaleAddressIsNobodyElses

LEMMA MeshStep ==
  ASSUME MeshInv, Mesh!Next
  PROVE  MeshInv'
  <1> USE DEF MeshInv, Mesh!StaleAddressIsNobodyElses
  <1>0. \A x \in Row : x.ip \in Nat
    BY DEF Row
  <1>1. ASSUME NEW c \in Container, NEW n \in Name, NEW ps \in SUBSET Name, Mesh!Register(c, n, ps)
        PROVE  MeshInv'
    <2>1. /\ nextSeq' \in Nat /\ nextSeq <= nextSeq'
          /\ DOMAIN row' = Name /\ DOMAIN known' = Container
      BY <1>1 DEF Mesh!Register
    <2>2. \A m \in Name : row'[m] # None =>
            \/ row[m] # None /\ row'[m] \in Row /\ row'[m].ip = row[m].ip
            \/ m = n /\ row'[m] \in Row /\ row'[m].ip = nextSeq /\ nextSeq' = nextSeq + 1
      <3>1. CASE row[n] # None
        BY <1>1, <3>1 DEF Mesh!Register, Row
      <3>2. CASE row[n] = None
        BY <1>1, <3>2 DEF Mesh!Register, Mesh!NextMeshSeq, Row
      <3> QED
        BY <3>1, <3>2
    <2>3. /\ \A m \in Name : row'[m] # None => row'[m] \in Row /\ row'[m].ip < nextSeq'
          /\ \A l, m \in Name : row'[l] # None /\ row'[m] # None /\ row'[l].ip = row'[m].ip => l = m
      BY <1>0, <2>1, <2>2
    <2>4. \A d \in Container : \A p \in known'[d] :
            \/ p \in known[d]
            \/ \E o \in Name : row'[o] # None /\ p.name = o /\ p.ip = row'[o].ip
      BY <1>1 DEF Mesh!Register, Mesh!MutualPeers
    <2>5. \A d \in Container : \A p \in known'[d] :
            /\ p.ip \in Nat /\ p.ip < nextSeq'
            /\ \A m \in Name : row'[m] # None /\ row'[m].ip = p.ip => m = p.name
      <3> SUFFICES ASSUME NEW d \in Container, NEW p \in known'[d]
                   PROVE  /\ p.ip \in Nat /\ p.ip < nextSeq'
                          /\ \A m \in Name : row'[m] # None /\ row'[m].ip = p.ip => m = p.name
        OBVIOUS
      <3>1. CASE p \in known[d]
        BY <1>0, <2>1, <2>2, <3>1
      <3>2. CASE \E o \in Name : row'[o] # None /\ p.name = o /\ p.ip = row'[o].ip
        BY <1>0, <2>1, <2>3, <3>2
      <3> QED
        BY <2>4, <3>1, <3>2
    <2> QED
      BY <2>1, <2>3, <2>5
  <1>2. ASSUME NEW c \in Container, Mesh!Refresh(c) PROVE MeshInv'
    <2>1. \A d \in Container : \A p \in known'[d] :
            \/ p \in known[d]
            \/ \E o \in Name : row[o] # None /\ p.name = o /\ p.ip = row[o].ip
      BY <1>2 DEF Mesh!Refresh, Mesh!MutualPeers
    <2>2. DOMAIN known' = Container /\ row' = row /\ nextSeq' = nextSeq
      BY <1>2 DEF Mesh!Refresh
    <2> QED
      BY <1>0, <2>1, <2>2
  <1>3. ASSUME NEW c \in Container, Mesh!Remove(c) PROVE MeshInv'
    <2>1. \A m \in Name : row'[m] # None => row'[m] = row[m]
      BY <1>3 DEF Mesh!Remove
    <2>2. DOMAIN row' = Name /\ known' = known /\ nextSeq' = nextSeq
      BY <1>3 DEF Mesh!Remove
    <2> QED
      BY <2>1, <2>2
  <1> QED
    BY <1>1, <1>2, <1>3 DEF Mesh!Next

(* An address in anybody's configuration, however old, is of the            *)
(* registration it was given for, or of none: whoever registers, refreshes  *)
(* or removes, it never leads to another container (routes.ts, db.ts).      *)
THEOREM AddressesKeepTheirMeaning == Mesh!Spec => []Mesh!StaleAddressIsNobodyElses
  <1>1. Mesh!Init => MeshInv
    BY DEF Mesh!Init, MeshInv, Mesh!StaleAddressIsNobodyElses
  <1>2. MeshInv /\ [Mesh!Next]_Mesh!vars => MeshInv'
    <2>1. ASSUME MeshInv, UNCHANGED Mesh!vars PROVE MeshInv'
      BY <2>1 DEF MeshInv, Mesh!vars, Mesh!StaleAddressIsNobodyElses
    <2> QED
      BY <2>1, MeshStep
  <1>3. MeshInv => Mesh!StaleAddressIsNobodyElses
    BY DEF MeshInv
  <1> QED
    BY <1>1, <1>2, <1>3, PTL DEF Mesh!Spec


-----------------------------------------------------------------------------
(* The components side by side.  A behaviour of AppsSpec is one of the     *)
(* component that `part` names, so what holds of the component's own       *)
(* specification holds of it here.                                         *)

LEMMA EgressAlone ==
  /\ AppsInit /\ part = "egress" => Egress!Init
  /\ part = "egress" /\ [AppsNext]_state => (part = "egress")' /\ [Egress!Next]_Egress!vars
  /\ ~(part = "egress") /\ [AppsNext]_state => (~(part = "egress"))'
  BY DEF AppsInit, AppsNext, state, proxying, Egress!vars

LEMMA GithubAlone ==
  /\ AppsInit /\ part = "github" => Github!Init
  /\ part = "github" /\ [AppsNext]_state => (part = "github")' /\ [Github!Next]_Github!vars
  /\ ~(part = "github") /\ [AppsNext]_state => (~(part = "github"))'
  BY DEF AppsInit, AppsNext, state, brokering, Github!vars

LEMMA TunnelAlone ==
  /\ AppsInit /\ part = "tunnel" => Tunnel!Init
  /\ part = "tunnel" /\ [AppsNext]_state => (part = "tunnel")' /\ [Tunnel!Next]_Tunnel!vars
  /\ ~(part = "tunnel") /\ [AppsNext]_state => (~(part = "tunnel"))'
  BY DEF AppsInit, AppsNext, state, tunnelling, Tunnel!vars

LEMMA PolicyAlone ==
  /\ AppsInit /\ part = "policy" => Policy!Init
  /\ part = "policy" /\ [AppsNext]_state => (part = "policy")' /\ [Policy!Next]_Policy!vars
  /\ ~(part = "policy") /\ [AppsNext]_state => (~(part = "policy"))'
  BY DEF AppsInit, AppsNext, state, governing, Policy!vars

LEMMA NotesAlone ==
  /\ AppsInit /\ part = "notes" => Notes!Init
  /\ part = "notes" /\ [AppsNext]_state => (part = "notes")' /\ [Notes!Next]_Notes!vars
  /\ ~(part = "notes") /\ [AppsNext]_state => (~(part = "notes"))'
  BY DEF AppsInit, AppsNext, state, noting, Notes!vars

LEMMA TerminalAlone ==
  /\ AppsInit /\ part = "terminal" => Terminal!Init
  /\ part = "terminal" /\ [AppsNext]_state => (part = "terminal")' /\ [Terminal!Next]_Terminal!vars
  /\ ~(part = "terminal") /\ [AppsNext]_state => (~(part = "terminal"))'
  BY DEF AppsInit, AppsNext, state, typing, Terminal!vars

LEMMA WebAlone ==
  /\ AppsInit /\ part = "web" => Web!Init
  /\ part = "web" /\ [AppsNext]_state => (part = "web")' /\ [Web!Next]_Web!vars
  /\ ~(part = "web") /\ [AppsNext]_state => (~(part = "web"))'
  BY DEF AppsInit, AppsNext, state, fetching, Web!vars

LEMMA GitAlone ==
  /\ AppsInit /\ part = "git" => Git!Init
  /\ part = "git" /\ [AppsNext]_state => (part = "git")' /\ [Git!Next]_Git!vars
  /\ ~(part = "git") /\ [AppsNext]_state => (~(part = "git"))'
  BY DEF AppsInit, AppsNext, state, versioning, Git!vars

LEMMA FleetAlone ==
  /\ AppsInit /\ part = "fleet" => Fleet!Init
  /\ part = "fleet" /\ [AppsNext]_state => (part = "fleet")' /\ [Fleet!Next]_Fleet!vars
  /\ ~(part = "fleet") /\ [AppsNext]_state => (~(part = "fleet"))'
  BY DEF AppsInit, AppsNext, state, deploying, Fleet!vars

LEMMA RegistryAlone ==
  /\ AppsInit /\ part = "registry" => Registry!Init
  /\ part = "registry" /\ [AppsNext]_state => (part = "registry")' /\ [Registry!Next]_Registry!vars
  /\ ~(part = "registry") /\ [AppsNext]_state => (~(part = "registry"))'
  BY DEF AppsInit, AppsNext, state, registering, Registry!vars

LEMMA MeshAlone ==
  /\ AppsInit /\ part = "mesh" => Mesh!Init
  /\ part = "mesh" /\ [AppsNext]_state => (part = "mesh")' /\ [Mesh!Next]_Mesh!vars
  /\ ~(part = "mesh") /\ [AppsNext]_state => (~(part = "mesh"))'
  BY DEF AppsInit, AppsNext, state, meshing, Mesh!vars

(* The egress broker dials only what it judged, and the GitHub broker       *)
(* forwards only what a declared capability covers (netbroker/src/broker.ts,*)
(* github-broker/src/index.ts).                                             *)
THEOREM BrokersReachTheDeclared ==
  ASSUME Github!PathsAssumption
  PROVE  AppsSpec => []OnlyDeclaredIsReached
  <1>1. Github!Spec => []Github!ReachesOnlyWhatIsDeclared
    BY OnlyCoveredIsForwarded
  <1>2. AppsSpec => [](part = "egress" => Egress!DialsWhatItJudged)
    BY OnlyJudgedIsDialled, EgressAlone, PTL DEF AppsSpec, Egress!Spec
  <1>3. AppsSpec => [](part = "github" => Github!ReachesOnlyWhatIsDeclared)
    BY <1>1, GithubAlone, PTL DEF AppsSpec, Github!Spec
  <1> QED
    BY <1>2, <1>3, PTL DEF OnlyDeclaredIsReached

(* The bytes of a tunnelled connection arrive in the order they were        *)
(* written, and a command is answered with its own output only              *)
(* (sdk/src/egress.ts, apps/terminal/src/index.ts).                         *)
THEOREM StreamsStayInOrder == AppsSpec => []StreamsKeepOrder
  <1>1. AppsSpec => [](part = "tunnel" => Tunnel!BytesInOrder)
    BY TunnelKeepsOrder, TunnelAlone, PTL DEF AppsSpec, Tunnel!Spec
  <1>2. AppsSpec => [](part = "terminal" => Terminal!AnswerIsItsOwn)
    BY AnswersAreTheirOwn, TerminalAlone, PTL DEF AppsSpec, Terminal!Spec
  <1> QED
    BY <1>1, <1>2, PTL DEF StreamsKeepOrder

(* A Landlock policy reaches another app's directories only where the app's *)
(* own manifest names them, whatever the links between them are             *)
(* (capability-daemon/src/policy.ts).                                       *)
THEOREM PoliciesStayApart ==
  ASSUME Policy!LayoutAssumption, Policy!InputsAssumption
  PROVE  AppsSpec => []AppsKeptApart
  <1>1. Policy!Spec => []Policy!KeepsApart
    BY PoliciesKeepApart
  <1> QED
    BY <1>1, PolicyAlone, PTL DEF AppsSpec, Policy!Spec, AppsKeptApart

(* A note whose add_note was acknowledged stays in the file                 *)
(* (apps/notes/src/index.ts).                                               *)
THEOREM NotesStay ==
  ASSUME NotesAssumption
  PROVE  AppsSpec => []NoNoteLost
  <1>1. Notes!Spec => []Notes!NoNoteLost
    BY AcknowledgedNotesStay
  <1> QED
    BY <1>1, NotesAlone, PTL DEF AppsSpec, Notes!Spec, NoNoteLost

(* Secret headers and tokens go to the host they are for only, and what the *)
(* two apps report of their work is so (apps/web-fetch/src/index.ts,        *)
(* apps/git/src/index.ts).                                                  *)
THEOREM SecretsAreKept == AppsSpec => []CredentialsStayHome
  <1>1. AppsSpec => [](part = "web" => Web!SecretsStayHome)
    BY SecretsGoNowhereElse, WebAlone, PTL DEF AppsSpec, Web!Spec
  <1>2. AppsSpec => [](part = "web" => Web!CutIsTold)
    BY CutsAreTold, WebAlone, PTL DEF AppsSpec, Web!Spec
  <1>3. AppsSpec => [](part = "git" => Git!TokenStaysHome)
    BY TokenKeepsHome, GitAlone, PTL DEF AppsSpec, Git!Spec
  <1>4. AppsSpec => [](part = "git" => Git!TrackingIsPublished)
    BY TrackedIsPublished, GitAlone, PTL DEF AppsSpec, Git!Spec
  <1> QED
    BY <1>1, <1>2, <1>3, <1>4, PTL DEF CredentialsStayHome

(* Where the commands of a fleet run one after the other, every instance    *)
(* they were told of and that still runs is in the fleet's file once they   *)
(* have ended (cli/src/util/fleet.ts).                                      *)
THEOREM FleetsAreTracked ==
  ASSUME Fleet!FleetAssumption, ~Together
  PROVE  AppsSpec => []StartedAreTracked
  <1>1. Fleet!Spec => []Fleet!StartedAreTracked
    BY StartedAreInTheFile
  <1> QED
    BY <1>1, FleetAlone, PTL DEF AppsSpec, Fleet!Spec, StartedAreTracked

(* A version is served as its one publisher published it, and an address    *)
(* that is still in use is nobody else's (the registry's and the mesh's     *)
(* servers).                                                                *)
THEOREM NamesStay ==
  ASSUME RequestsAreNamed
  PROVE  AppsSpec => []NamesKeepTheirMeaning
  <1>1. Registry!Spec => []Registry!ServedAsPublished
    BY PublishedStaysServed
  <1>2. AppsSpec => [](part = "registry" => Registry!ServedAsPublished)
    BY <1>1, RegistryAlone, PTL DEF AppsSpec, Registry!Spec
  <1>3. AppsSpec => [](part = "mesh" => Mesh!StaleAddressIsNobodyElses)
    BY AddressesKeepTheirMeaning, MeshAlone, PTL DEF AppsSpec, Mesh!Spec
  <1> QED
    BY <1>2, <1>3, PTL DEF NamesKeepTheirMeaning

(* A scale that reports success leaves as many instances recorded as it was *)
(* asked for and stops only its own app's; and the policy an app boots      *)
(* under lets its runtime do what it does next (cli/src/util/fleet.ts,      *)
(* capability-daemon/src/policy.ts).                                        *)
THEOREM StepsKeepTheirWord ==
  ASSUME Fleet!FleetAssumption, ~Together,
         Policy!LayoutAssumption, Policy!InputsAssumption, Policy!PackagesAssumption
  PROVE  AppsSpec => StepsDoWhatTheySay
  <1>1. Fleet!Spec => [][Fleet!ScaleStep]_Fleet!vars
    BY ScalesDoWhatTheySay
  <1>2. Policy!Spec => [][Policy!BootStep]_Policy!vars
    BY BootsLetThemRun
  <1>3. part = "fleet" /\ [AppsNext]_state /\ UNCHANGED Fleet!vars => UNCHANGED state
    BY DEF AppsNext, state, deploying, Fleet!vars
  <1>4. part = "policy" /\ [AppsNext]_state /\ UNCHANGED Policy!vars => UNCHANGED state
    BY DEF AppsNext, state, governing, Policy!vars
  <1>5. AppsSpec => [][part = "fleet" => Fleet!ScaleStep]_state
    BY <1>1, <1>3, FleetAlone, PTL DEF AppsSpec, Fleet!Spec
  <1>6. AppsSpec => [][part = "policy" => Policy!BootStep]_state
    BY <1>2, <1>4, PolicyAlone, PTL DEF AppsSpec, Policy!Spec
  <1> QED
    BY <1>5, <1>6, PTL DEF StepsDoWhatTheySay

=============================================================================
