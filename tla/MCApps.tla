------------------------------- MODULE MCApps -------------------------------
(***************************************************************************)
(* The components around and inside an app, side by side: the brokers, the *)
(* tunnel through them, the capability policy, the notes, terminal,        *)
(* web-fetch and git apps, and the fleet, the registry and the mesh they   *)
(* are deployed with.  They share no state, so each behaviour is one of    *)
(* one component: `part` says which.  The constants are those of all of    *)
(* them; the definitions below give the small instance that is checked.    *)
(***************************************************************************)
EXTENDS Integers, Sequences, FiniteSets

CONSTANTS
  Req, Asks, Policies, Port, Literal, Address,          \* of EgressBroker
  Asking, Paths, Grants, Dialer,                        \* of GithubBroker
  MaxChunks,                                            \* of ProxyTunnel
  App, Dir, Package, Linked, Target, HasPackageJson, HasBerthYml, HasWorkspaceYaml,
  Declarations, Environment,                            \* of CapabilityPolicy
  Proc, Host, MaxUpdates, MaxDeaths,                    \* of Notes
  Call, MaxLines, MaxPane, MaxEnds,                     \* of Terminal
  Request, Url, Pattern, Loopback, HasHeaders, Proxied, MaxRedirects, MaxBytes, MaxChars,
  Chunk,                                                \* of WebFetch
  RemoteHost, Declared, MaxCommits,                     \* of GitApp, with Call
  Cmd, Instance, MaxCount, Together,                    \* of Fleet, with App
  Publishing, Publisher, Version,                       \* of Registry
  Container, Name, MaxSeq,                              \* of Mesh
  None, Off

VARIABLES
  part,  \* the component of this behaviour
  rules, alive, asked, status, dialled,  \* of EgressBroker
  granted, dialer, listening, forwarding,  \* of GithubBroker
  queues, st, inner, sock, queued, wrote, got, spoke, flight, read,  \* of ProxyTunnel
  caps, env, links, policy,  \* of CapabilityPolicy
  pc, lock, saw, mine, nextIno, notes, list, note, begun, acked, dead,  \* of Notes
  session, ends, pane, typed, current, printed, at, starting, ttyd, flag, answer,  \* of Terminal
  cached, req, sent,  \* of WebFetch
  config, cloned, local, tracking, remote, commits, call, ran,  \* of GitApp
  provider, cloud, app, answered, file, cmd, services, peer,  \* of Fleet
  stage, publish, isNew, blobs, apps, owner, told,  \* of Registry
  row, nextSeq, held, known  \* of Mesh

Egress == INSTANCE EgressBroker WITH policy <- rules, up <- alive, req <- asked, sent <- status
Github == INSTANCE GithubBroker WITH
  Req <- Asking, Declared <- Grants, caps <- granted, up <- listening, req <- forwarding
Tunnel == INSTANCE ProxyTunnel
Policy == INSTANCE CapabilityPolicy
Notes == INSTANCE Notes
Terminal == INSTANCE Terminal
Web == INSTANCE WebFetch
Git == INSTANCE GitApp WITH Host <- RemoteHost
Fleet == INSTANCE Fleet
Registry == INSTANCE Registry WITH Request <- Publishing, at <- stage, req <- publish
Mesh == INSTANCE Mesh WITH config <- known

proxying == <<rules, alive, asked, status, dialled>>
brokering == <<granted, dialer, listening, forwarding>>
tunnelling == <<queues, st, inner, sock, queued, wrote, got, spoke, flight, read>>
governing == <<caps, env, links, policy>>
noting == <<pc, lock, saw, mine, nextIno, notes, list, note, begun, acked, dead>>
typing == <<session, ends, pane, typed, current, printed, at, starting, ttyd, flag, answer>>
fetching == <<cached, req, sent>>
versioning == <<config, cloned, local, tracking, remote, commits, call, ran>>
deploying == <<provider, cloud, app, answered, file, cmd, services, peer>>
registering == <<stage, publish, isNew, blobs, apps, owner, told>>
meshing == <<row, nextSeq, held, known>>

state == <<part, proxying, brokering, tunnelling, governing, noting, typing, fetching,
           versioning, deploying, registering, meshing>>

-----------------------------------------------------------------------------
\* The egress broker's requests: by name, by address, and malformed.
MCPolicies ==
  [mode : {"direct", "proxy", "dialer"},
   declared : { {<<"network", "host", "site">>, <<"fs", "write">>},
                {<<"network", "host", "site", "5432">>, <<"github", "read", "repos">>},
                {<<"browser", "navigate", "*", "*">>, <<"github", "read", "repos">>},
                {} }]
MCAsks ==
  {[kind |-> k, host |-> h, port |-> p] :
     k \in {"http", "connect"}, h \in {"site", "api.github.com", "169.254"}, p \in {"none", "5432"}}
  \cup {[kind |-> k, host |-> "none", port |-> "none"] : k \in {"http", "connect"}}
MCLiteral == [h \in {"169.254"} |-> <<169, 254>>]
MCAddress == {<<93, 184>>, <<127, 0>>, <<169, 254>>}

\* Paths of the GitHub API, with the ways of writing one twice.
Segment == {"repos", "o", "..", "user"}
MCPaths ==
  UNION {[1..n -> Segment] : n \in 0..4}
  \cup {<<"repos", "o", "o", "sep">>, <<"user", "bad">>, <<"user", ".", "">>, <<"search", "o">>}
MCGrants == {{<<"read", "repos">>}, {<<"write", "*">>}, {<<"read", "user:o">>, <<"write", "repos">>}}

\* A workspace of two apps and two libraries.
Root == <<"workspace">>
MCDir == [a |-> Root \o <<"apps", "a">>, b |-> Root \o <<"packages", "b">>]
Sdk == Root \o <<"packages", "sdk">>
Schema == Root \o <<"packages", "schema">>
Zod == Root \o <<"node_modules", ".pnpm", "zod">>
MCPackage == {Sdk, Schema}
MCLinked == {MCDir["a"], Sdk}
MCTarget == {<<>>, <<"run", "berth", "b">>, MCDir["b"], Sdk, Schema, Zod}
MCHasPackageJson == {MCDir["a"], MCDir["b"], Sdk, Schema}
MCHasBerthYml == {MCDir["a"], MCDir["b"]}
MCHasWorkspaceYaml == {Root, MCDir["a"]}
Fs(action, path) == [ns |-> "filesystem", action |-> action, scope |-> [abs |-> TRUE, path |-> path]]
Other(ns, action, scope) == [ns |-> ns, action |-> action, scope |-> scope]
AnyScope == -1
MCDeclarations ==
  {[a |-> s, b |-> {}] : s \in
    {{}, {Fs("write", Root)}, {Fs("read", Root \o <<"packages">>)}, {Fs("read", <<>>)},
     {Fs("write", Root \o <<"node_modules">>)}, {Fs("write", Root \o <<"..", "run">>)}, {Fs("write", <<"tmp">>)},
     {Other("terminal", "session", AnyScope), Other("github", "repo", AnyScope)},
     {Other("network", "connect", 443), Other("network", "peer", AnyScope)},
     {Other("network", "connect", AnyScope), Other("network", "bind", 0)}}}
MCEnvironment ==
  {[port |-> p[1], serves |-> p[2], tls |-> p[3]] :
     p \in {<<None, None, None>>, <<8080, None, None>>, <<8080, "a", <<"app", "certs">>>>, <<8080, "b", None>>}}

\* Two processes of a container and one of another.
MCWhere == [p1 |-> "h1", p2 |-> "h1", p3 |-> "h2"]

UrlOf(h, s, p) == [host |-> h, secure |-> s, port |-> p]
MCUrl ==
  {UrlOf("api", TRUE, 443), UrlOf("api", FALSE, 80), UrlOf("api", TRUE, 8443),
   UrlOf("localhost", FALSE, 8080), UrlOf("other", TRUE, 443)}
MCPattern == {[hosts |-> {"api"}, port |-> 0], [hosts |-> {"localhost"}, port |-> 8080]}

\* What is assumed of the constants.
ASSUME AppsConstants ==
  /\ Github!PathsAssumption
  /\ Policy!LayoutAssumption /\ Policy!InputsAssumption /\ Policy!PackagesAssumption
  /\ Fleet!FleetAssumption

-----------------------------------------------------------------------------
NoEgress ==
  /\ rules = Off /\ alive = Off /\ asked = Off /\ status = Off /\ dialled = Off
NoGithub ==
  /\ granted = Off /\ dialer = Off /\ listening = Off /\ forwarding = Off
NoTunnel ==
  /\ queues = Off /\ st = Off /\ inner = Off /\ sock = Off /\ queued = Off /\ wrote = Off
  /\ got = Off /\ spoke = Off /\ flight = Off /\ read = Off
NoPolicy ==
  /\ caps = Off /\ env = Off /\ links = Off /\ policy = Off
NoNotes ==
  /\ pc = Off /\ lock = Off /\ saw = Off /\ mine = Off /\ nextIno = Off /\ notes = Off
  /\ list = Off /\ note = Off /\ begun = Off /\ acked = Off /\ dead = Off
NoTerminal ==
  /\ session = Off /\ ends = Off /\ pane = Off /\ typed = Off /\ current = Off /\ printed = Off
  /\ at = Off /\ starting = Off /\ ttyd = Off /\ flag = Off /\ answer = Off
NoFetches ==
  /\ cached = Off /\ req = Off /\ sent = Off
NoGit ==
  /\ config = Off /\ cloned = Off /\ local = Off /\ tracking = Off /\ remote = Off
  /\ commits = Off /\ call = Off /\ ran = Off
NoFleet ==
  /\ provider = Off /\ cloud = Off /\ app = Off /\ answered = Off /\ file = Off /\ cmd = Off
  /\ services = Off /\ peer = Off
NoRegistry ==
  /\ stage = Off /\ publish = Off /\ isNew = Off /\ blobs = Off /\ apps = Off /\ owner = Off
  /\ told = Off
NoMesh ==
  /\ row = Off /\ nextSeq = Off /\ held = Off /\ known = Off

AppsInit ==
  \/ /\ part = "egress" /\ Egress!Init
     /\ NoGithub /\ NoTunnel /\ NoPolicy /\ NoNotes /\ NoTerminal /\ NoFetches /\ NoGit
     /\ NoFleet /\ NoRegistry /\ NoMesh
  \/ /\ part = "github" /\ Github!Init
     /\ NoEgress /\ NoTunnel /\ NoPolicy /\ NoNotes /\ NoTerminal /\ NoFetches /\ NoGit
     /\ NoFleet /\ NoRegistry /\ NoMesh
  \/ /\ part = "tunnel" /\ Tunnel!Init
     /\ NoEgress /\ NoGithub /\ NoPolicy /\ NoNotes /\ NoTerminal /\ NoFetches /\ NoGit
     /\ NoFleet /\ NoRegistry /\ NoMesh
  \/ /\ part = "policy" /\ Policy!Init
     /\ NoEgress /\ NoGithub /\ NoTunnel /\ NoNotes /\ NoTerminal /\ NoFetches /\ NoGit
     /\ NoFleet /\ NoRegistry /\ NoMesh
  \/ /\ part = "notes" /\ Notes!Init
     /\ NoEgress /\ NoGithub /\ NoTunnel /\ NoPolicy /\ NoTerminal /\ NoFetches /\ NoGit
     /\ NoFleet /\ NoRegistry /\ NoMesh
  \/ /\ part = "terminal" /\ Terminal!Init
     /\ NoEgress /\ NoGithub /\ NoTunnel /\ NoPolicy /\ NoNotes /\ NoFetches /\ NoGit
     /\ NoFleet /\ NoRegistry /\ NoMesh
  \/ /\ part = "web" /\ Web!Init
     /\ NoEgress /\ NoGithub /\ NoTunnel /\ NoPolicy /\ NoNotes /\ NoTerminal /\ NoGit
     /\ NoFleet /\ NoRegistry /\ NoMesh
  \/ /\ part = "git" /\ Git!Init
     /\ NoEgress /\ NoGithub /\ NoTunnel /\ NoPolicy /\ NoNotes /\ NoTerminal /\ NoFetches
     /\ NoFleet /\ NoRegistry /\ NoMesh
  \/ /\ part = "fleet" /\ Fleet!Init
     /\ NoEgress /\ NoGithub /\ NoTunnel /\ NoPolicy /\ NoNotes /\ NoTerminal /\ NoFetches
     /\ NoGit /\ NoRegistry /\ NoMesh
  \/ /\ part = "registry" /\ Registry!Init
     /\ NoEgress /\ NoGithub /\ NoTunnel /\ NoPolicy /\ NoNotes /\ NoTerminal /\ NoFetches
     /\ NoGit /\ NoFleet /\ NoMesh
  \/ /\ part = "mesh" /\ Mesh!Init
     /\ NoEgress /\ NoGithub /\ NoTunnel /\ NoPolicy /\ NoNotes /\ NoTerminal /\ NoFetches
     /\ NoGit /\ NoFleet /\ NoRegistry

AppsNext ==
  /\ UNCHANGED part
  /\ \/ /\ part = "egress" /\ Egress!Next
        /\ UNCHANGED <<brokering, tunnelling, governing, noting, typing, fetching, versioning,
                       deploying, registering, meshing>>
     \/ /\ part = "github" /\ Github!Next
        /\ UNCHANGED <<proxying, tunnelling, governing, noting, typing, fetching, versioning,
                       deploying, registering, meshing>>
     \/ /\ part = "tunnel" /\ Tunnel!Next
        /\ UNCHANGED <<proxying, brokering, governing, noting, typing, fetching, versioning,
                       deploying, registering, meshing>>
     \/ /\ part = "policy" /\ Policy!Next
        /\ UNCHANGED <<proxying, brokering, tunnelling, noting, typing, fetching, versioning,
                       deploying, registering, meshing>>
     \/ /\ part = "notes" /\ Notes!Next
        /\ UNCHANGED <<proxying, brokering, tunnelling, governing, typing, fetching,
                       versioning, deploying, registering, meshing>>
     \/ /\ part = "terminal" /\ Terminal!Next
        /\ UNCHANGED <<proxying, brokering, tunnelling, governing, noting, fetching,
                       versioning, deploying, registering, meshing>>
     \/ /\ part = "web" /\ Web!Next
        /\ UNCHANGED <<proxying, brokering, tunnelling, governing, noting, typing, versioning,
                       deploying, registering, meshing>>
     \/ /\ part = "git" /\ Git!Next
        /\ UNCHANGED <<proxying, brokering, tunnelling, governing, noting, typing, fetching,
                       deploying, registering, meshing>>
     \/ /\ part = "fleet" /\ Fleet!Next
        /\ UNCHANGED <<proxying, brokering, tunnelling, governing, noting, typing, fetching,
                       versioning, registering, meshing>>
     \/ /\ part = "registry" /\ Registry!Next
        /\ UNCHANGED <<proxying, brokering, tunnelling, governing, noting, typing, fetching,
                       versioning, deploying, meshing>>
     \/ /\ part = "mesh" /\ Mesh!Next
        /\ UNCHANGED <<proxying, brokering, tunnelling, governing, noting, typing, fetching,
                       versioning, deploying, registering>>

AppsSpec == AppsInit /\ [][AppsNext]_state

-----------------------------------------------------------------------------
(* The two brokers on the way out of a sandbox: however names resolve and  *)
(* paths are written, the egress broker dials only what it judged, and the *)
(* GitHub broker forwards only what a declared capability covers.          *)
OnlyDeclaredIsReached ==
  /\ part = "egress" => Egress!DialsWhatItJudged
  /\ part = "github" => Github!ReachesOnlyWhatIsDeclared

(* Two streams that several writers share: the bytes of a tunnelled        *)
(* connection arrive in the order they were written, around the proxy's    *)
(* answer; and what run_command returns is what its own command printed.   *)
StreamsKeepOrder ==
  /\ part = "tunnel" => Tunnel!BytesInOrder
  /\ part = "terminal" => Terminal!AnswerIsItsOwn

(* However links lead between them, an app's Landlock policy reaches       *)
(* another app's directories only where its own manifest names them.       *)
AppsKeptApart == part = "policy" => Policy!KeepsApart

(* A note whose add_note was acknowledged is never lost, though processes  *)
(* die holding the lock file and others break it together.                 *)
NoNoteLost == part = "notes" => Notes!NoNoteLost

(* The apps that hold credentials: web-fetch's secret headers and git's    *)
(* token only go to the declared host they are for, whatever servers       *)
(* redirect to and other apps write into .git/config; and what the two     *)
(* report of their work (a cut answer, a published branch) is so.          *)
CredentialsStayHome ==
  /\ part = "web" => Web!SecretsStayHome /\ Web!CutIsTold
  /\ part = "git" => Git!TokenStaysHome /\ Git!TrackingIsPublished

(* Once the commands of a fleet have ended, every instance they were told  *)
(* of that still runs is in the fleet's file.                              *)
StartedAreTracked == part = "fleet" => Fleet!StartedAreTracked

(* Names keep their meaning: a version of an app is served as its one      *)
(* publisher published it, and a mesh address somebody still uses never    *)
(* becomes another container's.                                            *)
NamesKeepTheirMeaning ==
  /\ part = "registry" => Registry!ServedAsPublished
  /\ part = "mesh" => Mesh!StaleAddressIsNobodyElses

(* A scale that reports success leaves as many instances recorded as it    *)
(* was asked for and stops only its own app's; and the policy an app is    *)
(* started under lets it do what its runtime does next.                    *)
StepsDoWhatTheySay ==
  [][/\ part = "fleet" => Fleet!ScaleStep
     /\ part = "policy" => Policy!BootStep]_state
=============================================================================
