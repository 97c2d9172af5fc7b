-------------------------- MODULE CapabilityPolicy --------------------------
(***************************************************************************)
(* What each app of a sandbox may touch.  Before an app starts, its         *)
(* manifest's capabilities, the links its package manager made under its    *)
(* node_modules and the container's environment are compiled into the       *)
(* policy the kernel then enforces; the links are the app's own content     *)
(* and may point anywhere.  A path is the sequence of its names, and a      *)
(* grant on one is a grant on all beneath it.                               *)
(***************************************************************************)
EXTENDS Integers, Sequences, FiniteSets, FiniteSetsExt

CONSTANTS
  App,
  Dir,                \* app -> its directory
  Package,            \* the library packages whose links a scan may reach
  Linked, Target,     \* whose links change, and where they may point
  HasPackageJson, HasBerthYml, HasWorkspaceYaml,   \* the directories that hold one
  Declarations,       \* what the manifests may declare: app -> capabilities
  Environment,        \* [port, serves, tls]: the HTTP bridge, or port None
  None

VARIABLES
  caps,     \* app -> what its manifest declares
  env,      \* the container's environment
  links,    \* app directory or package -> where its dependencies' links lead
  policy    \* app -> None or the policy it was started under

vars == <<caps, env, links, policy>>

Holders == {Dir[a] : a \in App} \cup Package

AtMostOneOf(S) == {{}} \cup {{t} : t \in S}

Init ==
  /\ caps \in Declarations
  /\ env \in Environment
  /\ links = [p \in Holders |-> {}]
  /\ policy = [a \in App |-> None]

---------------------------------------------------------------------------
(* Paths.                                                                  *)

IsWithin(p, d) == Len(d) <= Len(p) /\ SubSeq(p, 1, Len(d)) = d

Dirname(p) == SubSeq(p, 1, Len(p) - 1)

IsUnderPrefix(p, prefixes) == p # <<>> /\ \E d \in prefixes : d # <<>> /\ IsWithin(p, d)

AllowedPrefixes == {<<"workspace">>, <<"context">>, <<"tmp">>, <<"app">>}

AppTmpDir(a) == <<"tmp", a>>
AppRunDir(a) == <<"run", "berth", a>>
GithubCertDir == <<"run", "berth", "github-api-broker">>

BaselineWrite(a) == {<<"dev", "null">>, AppTmpDir(a), AppRunDir(a)}
TerminalWrite == {<<"dev", "pts">>, <<"dev", "ptmx">>}
BaselineRead(a) == {<<"usr">>, <<"etc">>, <<"dev">>, <<"tmp">>, AppRunDir(a), Dir[a]}

TerminalPort == 7681
CoordinatorPort == 4875

---------------------------------------------------------------------------
(* Dependencies.                                                           *)

\* The nearest proper ancestor that is a workspace.
FindWorkspaceRoot(d) ==
  LET up == {n \in 1 .. Len(d) - 1 : SubSeq(d, 1, n) \in HasWorkspaceYaml}
  IN  IF up = {} THEN None ELSE SubSeq(d, 1, Max(up))

Store(w) == w \o <<"node_modules", ".pnpm">>
LibraryDirs(w) == {w \o <<"packages">>, w \o <<"packages", "adapters">>, w \o <<"experimental">>}

AcceptedWithoutManifestCheck(t, w) ==
  IF IsWithin(t, Store(w)) /\ t # Store(w) THEN [path |-> Store(w), kind |-> "store"]
  ELSE IF Dirname(t) \in LibraryDirs(w) /\ t \in HasPackageJson THEN [path |-> t, kind |-> "package"]
  ELSE [path |-> <<>>, kind |-> "refused"]

\* A target is of the workspace's store, or a library that is no app.
AcceptedDependency(t, w) ==
  IF IsWithin(t, Store(w)) /\ t # Store(w) THEN [path |-> Store(w), kind |-> "store"]
  ELSE IF Dirname(t) \in LibraryDirs(w) /\ t \in HasPackageJson /\ t \notin HasBerthYml THEN [path |-> t, kind |-> "package"]
  ELSE [path |-> <<>>, kind |-> "refused"]

\* One package's links: what they grant, and the packages to scan next.
Granted(a, p) ==
  LET w == FindWorkspaceRoot(Dir[a])
  IN  {d \in {AcceptedDependency(t, w) : t \in {t \in links[p] : w # None /\ t # <<>> /\ ~IsWithin(t, Dir[a])}} :
         d.kind # "refused" /\ IsUnderPrefix(d.path, AllowedPrefixes)}

\* The packages reached in so many links; a package is scanned once.
Scanned(a) ==
  LET upTo[n \in 0 .. Cardinality(Package)] ==
        IF n = 0 THEN {Dir[a]}
        ELSE upTo[n - 1] \cup (Holders \cap {d.path : d \in {d \in UNION {Granted(a, p) : p \in upTo[n - 1]} : d.kind = "package"}})
  IN  upTo[Cardinality(Package)]

DependencyReadPaths(a) == {d.path : d \in UNION {Granted(a, p) : p \in Scanned(a)}}

---------------------------------------------------------------------------
(* Capabilities: [ns, action, scope], where the scope of a filesystem one   *)
(* is [abs, path], a trailing glob taken off, and of others a port or AnyScope.  *)

AnyScope == -1

FilesystemScopeIssue(s) ==
  \/ ~s.abs \/ s.path = <<>>
  \/ \E i \in DOMAIN s.path : s.path[i] \in {"*", "", ".", ".."}
  \/ ~IsUnderPrefix(s.path, AllowedPrefixes)

FilesystemWriteScopeIssue(s) ==
  FilesystemScopeIssue(s) \/ \E i \in DOMAIN s.path : s.path[i] = "node_modules"

CapabilityIssue(c) ==
  /\ c.ns = "filesystem"
  /\ IF c.action = "write" THEN FilesystemWriteScopeIssue(c.scope) ELSE FilesystemScopeIssue(c.scope)

Effective(a) == {c \in caps[a] : ~CapabilityIssue(c)}

Of(a, ns, action) == {c \in Effective(a) : c.ns = ns /\ c.action = action}
Ports(cs) == {c.scope : c \in {c \in cs : c.scope \in 1 .. 65535}}

\* Who serves the HTTP bridge, as the policy has it.
ServesBridge(a) == env.port # None /\ env.serves \in {None, a}

ComputeBindPortsOfNamed(a) ==
  (IF env.port # None /\ env.serves = a THEN {env.port} ELSE {})
    \cup (IF \E c \in caps[a] : c.ns = "terminal" THEN {TerminalPort} ELSE {})

ComputeBindPorts(a) ==
  (IF ServesBridge(a) THEN {env.port} ELSE {})
    \cup (IF \E c \in caps[a] : c.ns = "terminal" THEN {TerminalPort} ELSE {})

HttpRpcTlsReadPaths(a) == IF ServesBridge(a) /\ env.tls # None THEN {env.tls} ELSE {}

WritePaths(a) ==
  BaselineWrite(a) \cup {c.scope.path : c \in Of(a, "filesystem", "write")}
    \cup (IF \E c \in Effective(a) : c.ns = "terminal" THEN TerminalWrite ELSE {})

\* What an app may write it may read, where the baseline does not cover it.
ReadPaths(a) ==
  LET uncovered(p) == \A b \in BaselineRead(a) : ~IsWithin(p, b)
  IN  BaselineRead(a) \cup DependencyReadPaths(a) \cup {p \in WritePaths(a) : uncovered(p)}
        \cup (IF \E c \in Effective(a) : c.ns = "github" THEN {GithubCertDir} ELSE {})
        \cup {c.scope.path : c \in Of(a, "filesystem", "read")}

CompileCapabilityPolicy(a) ==
  [write |-> WritePaths(a),
   read |-> ReadPaths(a) \cup HttpRpcTlsReadPaths(a),
   connect |-> Ports(Of(a, "network", "connect"))
                 \cup (IF Of(a, "network", "peer") # {} THEN {CoordinatorPort} ELSE {}),
   unrestricted |-> \E c \in Of(a, "network", "connect") : c.scope = AnyScope,
   bind |-> Ports(Of(a, "network", "bind")) \cup ComputeBindPorts(a)]

\* The entrypoint compiles the policy, and starts the app under it.
Boot(a) ==
  /\ policy' = [policy EXCEPT ![a] = CompileCapabilityPolicy(a)]
  /\ UNCHANGED <<caps, env, links>>

\* An install, or the app itself, makes a package's links anew.
Relink(p, ts) ==
  /\ links' = [links EXCEPT ![p] = ts]
  /\ UNCHANGED <<caps, env, policy>>

Next ==
  \/ \E a \in App : Boot(a)
  \/ \E p \in Linked, ts \in AtMostOneOf(Target) : Relink(p, ts)

Spec == Init /\ [][Next]_vars

---------------------------------------------------------------------------
(* What is assumed of the image: its directories are real paths, an app's   *)
(* is below /workspace or /app, outside other apps', the store and the      *)
(* libraries, and is called as it may be; so are the files of the bridge.   *)

Plain(p) == p \in Seq(STRING) /\ \A i \in DOMAIN p : p[i] \notin {"", ".", ".."}

IsLibraryOf(t, a) ==
  LET w == FindWorkspaceRoot(Dir[a])
  IN  t \in HasPackageJson \ HasBerthYml /\ w # None /\ Dirname(t) \in LibraryDirs(w)

LayoutAssumption ==
  /\ \A a \in App : a \notin {"", ".", "..", "github-api-broker"}
  /\ \A a \in App : Plain(Dir[a]) /\ Dir[a] # <<>> /\ Dir[a][1] \in {"workspace", "app"}
  /\ \A a \in App : \A i \in DOMAIN Dir[a] : Dir[a][i] # "node_modules"
  /\ \A a, b \in App : a # b => ~IsWithin(Dir[b], Dir[a])
  /\ \A t \in HasPackageJson, a, b \in App : IsLibraryOf(t, a) => Plain(t) /\ ~IsWithin(Dir[b], t)

InputsAssumption ==
  /\ \A declared \in Declarations, a \in App : \A c \in declared[a] :
       c.ns = "filesystem" => c.scope.path \in Seq(STRING)
  /\ \A e \in Environment : e.tls # None =>
       Plain(e.tls) /\ \A a \in App : ~IsWithin(Dir[a], e.tls) /\ ~IsWithin(AppRunDir(a), e.tls)

\* The libraries are finitely many, and an app's workspace has them where it
\* looks for them.
PackagesAssumption ==
  /\ IsFiniteSet(Package)
  /\ \A t \in Package, a \in App : t \in HasPackageJson \ HasBerthYml =>
       /\ IsLibraryOf(t, a) /\ t # <<>> /\ IsUnderPrefix(t, AllowedPrefixes)
       /\ ~IsWithin(t, Dir[a]) /\ ~IsWithin(t, Store(FindWorkspaceRoot(Dir[a])))

---------------------------------------------------------------------------
\* The kernel's reading of a path, where ".." leads up.
Step(path, s) ==
  IF s \in {"", "."} THEN path
  ELSE IF s # ".." THEN Append(path, s)
  ELSE IF path = <<>> THEN path ELSE Dirname(path)
Resolved(p) ==
  LET walk[n \in 0 .. Len(p)] == IF n = 0 THEN <<>> ELSE Step(walk[n - 1], p[n])
  IN  walk[Len(p)]

Reaches(grants, p) == \E g \in grants : IsWithin(p, Resolved(g))

\* A path an app names in its own manifest, under a plain path or a parent.
Named(a, p, actions) ==
  \E c \in caps[a] :
    /\ c.ns = "filesystem" /\ c.action \in actions
    /\ c.scope.abs /\ c.scope.path # <<>> /\ IsWithin(p, c.scope.path)

\* However its links lead, an app reaches another app's directory, runtime
\* directory or scratch only where its own manifest names them, and never
\* the whole file system.
KeepsApart ==
  \A a, b \in App : a # b /\ policy[a] # None =>
    /\ \A p \in {Dir[b], AppRunDir(b), AppTmpDir(b)} : Reaches(policy[a].write, p) => Named(a, p, {"write"})
    /\ \A p \in {Dir[b], AppRunDir(b)} : Reaches(policy[a].read, p) => Named(a, p, {"read", "write"})

\* The libraries a link of the workspace leads to, and theirs in turn.
Library(p) == p \in HasPackageJson /\ p \notin HasBerthYml
Depends(a) ==
  LET direct == {t \in links[Dir[a]] : t \in Package /\ Library(t)}
  IN  direct \cup {t \in UNION {links[p] : p \in direct} : t \in Package /\ Library(t) /\ t # Dir[a]}

\* The policy an app is started under lets it do what its runtime does next:
\* load its libraries, bind the bridge it serves and read its certificate, and
\* use the terminal, the certificate and the coordinator it declared.
BootStep ==
  \A a \in App : Boot(a) =>
    /\ \A p \in Depends(a) \cup {Dir[a], AppTmpDir(a), AppRunDir(a)} : Reaches(policy'[a].read, p)
    /\ (env.port # None /\ (env.serves = None \/ env.serves = a)) =>
         /\ env.port \in policy'[a].bind
         /\ env.tls # None => Reaches(policy'[a].read, env.tls)
    /\ \A c \in caps[a] :
         /\ c.ns = "terminal" => TerminalPort \in policy'[a].bind /\ Reaches(policy'[a].write, <<"dev", "pts">>)
         /\ c.ns = "github" => Reaches(policy'[a].read, GithubCertDir)
         /\ c.ns = "network" /\ c.action = "peer" => CoordinatorPort \in policy'[a].connect
=============================================================================
