------------------------------ MODULE GuestInit ------------------------------
(***************************************************************************)
(* berth-init, PID 1 of a microVM guest (packages/vmm/init/src/main.rs,    *)
(* hub.rs): the main thread boots the daemons and the apps, reaps them,    *)
(* and shuts the guest down; a thread per app reads its log lines; the     *)
(* control threads replay and stream events to the host and take requests. *)
(*                                                                         *)
(* The table of apps, the daemons' table, the shutdown reason and the      *)
(* event list each have a mutex of their own, so what runs under one of    *)
(* them is one step, and steps of different threads interleave between.    *)
(* Events that only describe (phases, cgroups, digests) are left out.      *)
(***************************************************************************)
EXTENDS Naturals, Sequences, FiniteSets

CONSTANTS
  Shares,     \* the apps a sandbox may have, in the order they are started
  Configs,    \* the sandboxes looked at: its apps, and the daemons of its image
  Reader,     \* control connections of the host
  MaxLines    \* [apps -> bound on the ready lines printed and not yet read]

Late == <<"context-bus", "egress-broker", "github-api-broker", "embeddings", "display">>

ASSUME GuestAssumption ==
  /\ Shares \in Seq({Shares[i] : i \in DOMAIN Shares}) /\ Shares # <<>>
  /\ \A i, j \in DOMAIN Shares : Shares[i] = Shares[j] => i = j
  /\ MaxLines \in [{Shares[i] : i \in DOMAIN Shares} -> Nat]
  /\ Configs \subseteq [apps : SUBSET {Shares[i] : i \in DOMAIN Shares},
                         image : SUBSET ({"semantic-fs"} \cup {Late[i] : i \in DOMAIN Late})]

VARIABLES
  image,     \* the daemons of the image
  pc,        \* where the main thread is
  next,      \* while booting: the next daemon of Late
  after,     \* where the main thread goes on once it has recorded the exits
  todo,      \* processes reaped and not yet recorded
  cur,       \* the app being started, or the exit to be reported
  got,       \* the signal the last wait_signal() returned
  reason,    \* why the guest shuts down
  proc,      \* the processes: "none", "up", "zombie", "reaped"
  state,     \* AppRec.state
  exit,      \* apps whose AppRec.exit is set
  ready,     \* AppRec.ready_ms is set
  daemons,   \* Supervisor.daemons: the daemons with a recorded pid
  shutdown,  \* Supervisor.shutdown
  served,    \* semantic-fs serves /context
  wanted,    \* daemons the compiled policies call for
  lines,     \* ready lines printed and not yet read
  attached,  \* apps whose log thread has been started
  announce,  \* apps whose log thread has an app_ready to send
  sig,       \* a termination signal is pending
  events,    \* CtlState.events
  readers,   \* CtlState.readers
  conn,      \* control connections: "none", "open", "closed"
  stream     \* the events a connection has been sent whole

main == <<pc, next, after, todo, cur, got, reason>>
table == <<state, exit, ready, daemons>>
boot == <<image, served, wanted>>
logs == <<lines, attached, announce>>
hub == <<events, readers, conn, stream>>
vars == <<main, proc, table, shutdown, boot, logs, sig, hub>>

App == {Shares[i] : i \in DOMAIN Shares}
Daemon == {"semantic-fs"} \cup {Late[i] : i \in DOMAIN Late}
Proc == App \cup Daemon

\* Processes are told apart by their pids: no app's is a daemon's.
ASSUME NamesApart == App \cap Daemon = {}
Event(kind, who) == <<kind, who>>

\* The processes shutdown() sends signals to.
Pids == {a \in App \ exit : state[a] \notin {"absent", "pending", "refused"}} \cup daemons
Pending == {a \in App : state[a] = "pending"}
Live == {a \in App : state[a] \in {"running", "ready"}}
Zombies == {p \in Proc : proc[p] = "zombie"}
On == pc # "off"

Init ==
  /\ pc = "prepare" /\ next = 1 /\ after = "check" /\ todo = {} /\ cur = {}
  /\ got = FALSE /\ reason = "none"
  /\ proc = [p \in Proc |-> "none"]
  /\ \E c \in Configs :
       /\ image = c.image
       /\ state = [a \in App |-> IF a \in c.apps THEN "pending" ELSE "absent"]
  /\ exit = {}
  /\ ready = [a \in App |-> FALSE]
  /\ daemons = {} /\ shutdown = "none"
  /\ served = FALSE /\ wanted = {}
  /\ lines = [a \in App |-> 0]
  /\ attached = {} /\ announce = {} /\ sig = FALSE
  /\ events = <<>> /\ readers = {}
  /\ conn = [r \in Reader |-> "none"] /\ stream = [r \in Reader |-> <<>>]

-----------------------------------------------------------------------------
(* The hub. *)

\* hub::event(): recorded and written to every reader under the control lock.
\* A reader whose write fails, or times out half-way, is dropped.
Post(e) ==
  \E slow \in SUBSET readers :
    /\ events' = Append(events, e)
    /\ readers' = readers \ slow
    /\ stream' = [r \in Reader |-> IF r \in readers \ slow
                                   THEN Append(stream[r], e) ELSE stream[r]]
    /\ UNCHANGED conn

\* An accept that takes its copy of the backlog before it takes the lock, and
\* misses the event being sent.
AcceptStale(r) ==
  /\ On /\ conn[r] = "none"
  /\ conn' = [conn EXCEPT ![r] = "open"]
  /\ stream' = [stream EXCEPT ![r] = SubSeq(events, 1, Len(events) - 1)]
  /\ readers' = readers \cup {r}
  /\ UNCHANGED <<main, proc, table, shutdown, boot, logs, sig, events>>

\* A new control connection: the hello and the backlog are written, and the
\* connection is registered, under the control lock.
Accept(r) ==
  /\ On /\ conn[r] = "none"
  /\ \/ /\ conn' = [conn EXCEPT ![r] = "open"]
        /\ stream' = [stream EXCEPT ![r] = events]
        /\ readers' = readers \cup {r}
     \/ /\ conn' = [conn EXCEPT ![r] = "closed"]
        /\ UNCHANGED <<stream, readers>>
  /\ UNCHANGED <<main, proc, table, shutdown, boot, logs, sig, events>>

\* {"op":"shutdown"}: the first reason stays.  A host that has hung up asks no
\* more, and the hub keeps its connection until a write on it fails.
RequestShutdown(r) ==
  /\ On /\ conn[r] = "open" /\ shutdown = "none"
  /\ shutdown' = "host"
  /\ UNCHANGED <<main, proc, table, boot, logs, sig, hub>>

-----------------------------------------------------------------------------
(* The boot, on the main thread. *)

Goto(label) == pc' = label /\ UNCHANGED <<next, after, todo, cur, got, reason>>

\* What boot() knew is out of scope.
BootReturns == served' = FALSE /\ wanted' = {} /\ UNCHANGED image

\* fail_boot(): the event, then shutdown().
FailBoot ==
  /\ Post(Event("boot_failed", "init"))
  /\ pc' = "term" /\ reason' = "boot_failed" /\ next' = 1
  /\ BootReturns
  /\ UNCHANGED <<after, todo, cur, got>>

\* The configuration, the secrets disk, the layers, the mounts and the
\* cgroups: nothing has been started, and any of them may fail the boot.
Prepare ==
  /\ pc = "prepare"
  /\ \/ Goto("semantic-fs") /\ UNCHANGED <<boot, hub>>
     \/ FailBoot
  /\ UNCHANGED <<proc, table, shutdown, logs, sig>>

\* A daemon that was spawned is in the table, whether or not it came up.
Spawned(d) ==
  /\ proc' = [proc EXCEPT ![d] = "up"]
  /\ daemons' = daemons \cup {d}
  /\ Post(Event("daemon_started", d))
  /\ UNCHANGED <<state, exit, ready>>

\* start_semantic_fs(): it cannot be started, it does not mount in time, or
\* it serves /context.  What that means is decided after the policies.
StartSemanticFs ==
  /\ pc = "semantic-fs" /\ Goto("policies")
  /\ \/ "semantic-fs" \in image /\ Spawned("semantic-fs") /\ served' \in BOOLEAN
     \/ UNCHANGED <<proc, table, hub, served>>
  /\ UNCHANGED <<shutdown, image, wanted, logs, sig>>

\* compile_policies() and what the policies call for: an app whose policy does
\* not compile is refused; two of one name, none compiled, or a /context that
\* is declared, in the image and not served, fail the boot.
CompilePolicies ==
  /\ pc = "policies"
  /\ \E ok \in SUBSET Pending : \E ctx \in SUBSET ok :
       /\ state' = [a \in App |-> IF a \in Pending \ ok THEN "refused" ELSE state[a]]
       /\ \/ /\ ok # {}
             /\ ctx = {} \/ served \/ "semantic-fs" \notin image
             /\ \E calls \in SUBSET (image \ {"semantic-fs", "context-bus"}) :
                  /\ "embeddings" \in calls => served /\ ctx # {}
                  /\ wanted' = calls \cup (image \cap {"context-bus"})
             /\ pc' = "daemons" /\ next' = 1
             /\ UNCHANGED <<after, todo, cur, got, reason, image, served, hub>>
          \/ /\ ok = {} \/ Cardinality(ok) > 1
                \/ (ctx # {} /\ ~served /\ "semantic-fs" \in image)
             /\ FailBoot
  /\ UNCHANGED <<proc, exit, ready, daemons, shutdown, logs, sig>>

\* start_context_bus() and its like, in the order of Late (the display's three
\* processes count as one): prepared and spawned, then waited for with a bound;
\* or refused, which fails nothing.
StartDaemon ==
  /\ pc = "daemons" /\ next \in DOMAIN Late
  /\ next' = next + 1
  /\ \/ Late[next] \in wanted /\ Spawned(Late[next])
     \/ UNCHANGED <<proc, table, hub>>
  /\ UNCHANGED <<pc, after, todo, cur, got, reason, shutdown, boot, logs, sig>>

DaemonsStarted ==
  /\ pc = "daemons" /\ next \notin DOMAIN Late
  /\ Goto("apps")
  /\ UNCHANGED <<proc, table, shutdown, boot, logs, sig, hub>>

\* The next app to start: the first, in the order of the shares, whose policy
\* compiled and which was not started yet.
Starting == Shares[CHOOSE i \in DOMAIN Shares :
  /\ Shares[i] \in Pending
  /\ \A j \in DOMAIN Shares : Shares[j] \in Pending => i <= j]

\* start_app() gives up: the cgroup's limits, the runtime or the spawn.
RefuseApp ==
  /\ pc = "apps" /\ Pending # {}
  /\ Post(Event("app_refused", Starting))
  /\ state' = [state EXCEPT ![Starting] = "refused"]
  /\ UNCHANGED <<main, proc, exit, ready, daemons, shutdown, boot, logs, sig>>

\* The process runs and the table has its pid.
SpawnApp ==
  /\ pc = "apps" /\ Pending # {}
  /\ proc' = [proc EXCEPT ![Starting] = "up"]
  /\ state' = [state EXCEPT ![Starting] = "running"]
  /\ pc' = "started" /\ cur' = {Starting}
  /\ UNCHANGED <<next, after, todo, got, reason, exit, ready, daemons, shutdown, boot,
                 logs, sig, hub>>

\* The app_started event.
AppStarted ==
  /\ pc = "started"
  /\ \E a \in cur : Post(Event("app_started", a))
  /\ Goto("attach")
  /\ UNCHANGED <<proc, table, shutdown, boot, logs, sig>>

\* Its log thread and its RPC relay; then the next app.
Attach ==
  /\ pc = "attach"
  /\ attached' = attached \cup cur
  /\ pc' = "apps" /\ cur' = {}
  /\ UNCHANGED <<next, after, todo, got, reason, proc, table, shutdown, boot,
                 lines, announce, sig, hub>>

BootComplete ==
  /\ pc = "apps" /\ Pending = {}
  /\ Post(Event("boot_complete", "init"))
  /\ pc' = "wait" /\ next' = 1 /\ BootReturns
  /\ UNCHANGED <<after, todo, cur, got, reason, proc, table, shutdown, logs, sig>>

-----------------------------------------------------------------------------
(* The apps, the daemons and the log threads. *)

\* A child prints its ready line.
PrintReady(a) ==
  /\ On /\ proc[a] = "up" /\ lines[a] < MaxLines[a]
  /\ lines' = [lines EXCEPT ![a] = @ + 1]
  /\ UNCHANGED <<main, proc, table, shutdown, boot, attached, announce, sig, hub>>

\* A child exits, by itself or by a signal.
ProcessExits(p) ==
  /\ On /\ proc[p] = "up"
  /\ proc' = [proc EXCEPT ![p] = "zombie"]
  /\ UNCHANGED <<main, table, shutdown, boot, logs, sig, hub>>

\* A log thread that announces every ready line.
ReadLineAgain(a) ==
  /\ On /\ a \in attached /\ lines[a] > 0 /\ a \notin announce
  /\ lines' = [lines EXCEPT ![a] = @ - 1]
  /\ ready' = [ready EXCEPT ![a] = TRUE]
  /\ state' = [state EXCEPT ![a] = "ready"]
  /\ announce' = announce \cup {a}
  /\ UNCHANGED <<main, proc, exit, daemons, shutdown, boot, attached, sig, hub>>

\* pipe_logs() with start_app()'s on_line: the first ready line makes the app
\* ready, whatever its state is by then.
ReadLine(a) ==
  /\ On /\ a \in attached /\ lines[a] > 0 /\ a \notin announce
  /\ lines' = [lines EXCEPT ![a] = @ - 1]
  /\ \/ /\ ~ready[a]
        /\ ready' = [ready EXCEPT ![a] = TRUE]
        /\ state' = [state EXCEPT ![a] = "ready"]
        /\ announce' = announce \cup {a}
     \/ /\ ready[a] /\ UNCHANGED <<ready, state, announce>>
  /\ UNCHANGED <<main, proc, exit, daemons, shutdown, boot, attached, sig, hub>>

\* The app_ready event, after the table's lock was let go.
Announce(a) ==
  /\ On /\ a \in announce
  /\ announce' = announce \ {a}
  /\ Post(Event("app_ready", a))
  /\ UNCHANGED <<main, proc, table, shutdown, boot, lines, attached, sig>>

\* The host, or the kernel, signals PID 1; the signal stays pending.  Once the
\* guest shuts down the waits drop what they get.
Signal ==
  /\ reason = "none" /\ ~sig /\ sig' = TRUE
  /\ UNCHANGED <<main, proc, table, shutdown, boot, logs, hub>>

-----------------------------------------------------------------------------
(* supervise() and reap_and_record(), on the main thread. *)

\* sys::reap(): every zombie, to be recorded; control returns to `back'.
Reap(back) ==
  /\ todo' = Zombies
  /\ proc' = [p \in Proc |-> IF p \in Zombies THEN "reaped" ELSE proc[p]]
  /\ pc' = "record" /\ after' = back

\* wait_signal() returns: a termination signal if one is pending and it is its
\* turn, another signal (a child's exit, a request's SIGUSR1), or none in 500 ms.
Wait ==
  /\ pc = "wait" /\ Reap("check")
  /\ got' \in {FALSE, sig} /\ sig' = (sig /\ ~got')
  /\ UNCHANGED <<next, cur, reason, table, shutdown, boot, logs, hub>>

\* A supervisor that keeps a dead daemon's pid.
RecordApps ==
  /\ pc = "record" /\ cur = {}
  /\ \E p \in todo :
       /\ todo' = todo \ {p} /\ cur' = {p}
       /\ exit' = exit \cup ({p} \cap App)
       /\ state' = [a \in App |-> IF a = p THEN "exited" ELSE state[a]]
  /\ UNCHANGED <<pc, next, after, got, reason, proc, ready, daemons, shutdown, boot,
                 logs, sig, hub>>

\* One reaped process: an app's exit is recorded, a daemon leaves its table.
Record ==
  /\ pc = "record" /\ cur = {}
  /\ \E p \in todo :
       /\ todo' = todo \ {p} /\ cur' = {p}
       /\ exit' = exit \cup ({p} \cap App)
       /\ state' = [a \in App |-> IF a = p THEN "exited" ELSE state[a]]
       /\ daemons' = daemons \ {p}
  /\ UNCHANGED <<pc, next, after, got, reason, proc, ready, shutdown, boot, logs, sig, hub>>

\* Its event, after the lock was let go.
Report ==
  /\ pc = "record" /\ cur # {}
  /\ cur' = {}
  /\ \E p \in cur : Post(Event(IF p \in App THEN "app_exited" ELSE "daemon_exited", p))
  /\ UNCHANGED <<pc, next, after, todo, got, reason, proc, table, shutdown, boot, logs, sig>>

Recorded ==
  /\ pc = "record" /\ cur = {} /\ todo = {}
  /\ pc' = after /\ after' = "check"
  /\ UNCHANGED <<next, todo, cur, got, reason>>
  /\ UNCHANGED <<proc, table, shutdown, boot, logs, sig, hub>>

\* A loop that looks at the signals alone.
CheckSignal ==
  LET why == IF got THEN "signal" ELSE "none" IN
  /\ pc = "check" /\ shutdown' = (IF got /\ shutdown = "none" THEN "signal" ELSE shutdown)
  /\ pc' = (IF why = "none" THEN "live" ELSE "term")
  /\ reason' = (IF why = "none" THEN reason ELSE why)
  /\ got' = FALSE
  /\ UNCHANGED <<next, after, todo, cur, proc, table, boot, logs, sig, hub>>

\* The shutdown reason: a signal's, unless there is one already.
Check ==
  LET why == IF got /\ shutdown = "none" THEN "signal" ELSE shutdown IN
  /\ pc = "check" /\ shutdown' = why
  /\ pc' = (IF why = "none" THEN "live" ELSE "term")
  /\ reason' = (IF why = "none" THEN reason ELSE why)
  /\ got' = FALSE
  /\ UNCHANGED <<next, after, todo, cur, proc, table, boot, logs, sig, hub>>

\* A loop that looks for ready apps alone.
CheckReady ==
  /\ pc = "live"
  /\ pc' = IF \A a \in App : state[a] # "ready" THEN "term" ELSE "wait"
  /\ reason' = IF \A a \in App : state[a] # "ready" THEN "exited" ELSE reason
  /\ UNCHANGED <<next, after, todo, cur, got, proc, table, shutdown, boot, logs, sig, hub>>

\* A loop that waits for the exit of an app that was refused.
CheckExited ==
  LET over == \A a \in App : state[a] \in {"absent", "exited"} IN
  /\ pc = "live"
  /\ pc' = IF over THEN "term" ELSE "wait"
  /\ reason' = IF over THEN "exited" ELSE reason
  /\ UNCHANGED <<next, after, todo, cur, got, proc, table, shutdown, boot, logs, sig, hub>>

\* No app running or ready: every app has exited, or was never started.
CheckLive ==
  /\ pc = "live"
  /\ pc' = IF Live = {} THEN "term" ELSE "wait"
  /\ reason' = IF Live = {} THEN "exited" ELSE reason
  /\ UNCHANGED <<next, after, todo, cur, got, proc, table, shutdown, boot, logs, sig, hub>>

-----------------------------------------------------------------------------
(* shutdown(), on the main thread.  Signals only hasten what ProcessExits   *)
(* may do anyway.                                                           *)

ShuttingDown ==
  /\ pc = "term"
  /\ Post(Event("shutting_down", reason))
  /\ Goto("grace")
  /\ UNCHANGED <<proc, table, shutdown, boot, logs, sig>>

\* SIGTERM has been sent: wait, reap and look again ...
Grace ==
  /\ pc = "grace" /\ Pids # {} /\ Reap("grace")
  /\ UNCHANGED <<next, cur, got, reason, table, shutdown, boot, logs, sig, hub>>

\* ... until nothing is left or the grace is over; then SIGKILL to all, and
\* reap once more.
GraceEnds ==
  /\ pc = "grace" /\ Reap("drained")
  /\ UNCHANGED <<next, cur, got, reason, table, shutdown, boot, logs, sig, hub>>

\* For at most 500 ms; then the last reap before the unmounts.
Drain ==
  /\ pc = "drained"
  /\ \/ Pids # {} /\ Reap("drained")
     \/ Reap("unmount")
  /\ UNCHANGED <<next, cur, got, reason, table, shutdown, boot, logs, sig, hub>>

\* stop_relay(), the unmounts and the last event.
PowerOff ==
  /\ pc = "unmount"
  /\ Post(Event("power_off", reason))
  /\ Goto("off")
  /\ UNCHANGED <<proc, table, shutdown, boot, logs, sig>>

Off == pc = "off" /\ UNCHANGED vars

Main ==
  \/ Prepare \/ StartSemanticFs \/ CompilePolicies \/ StartDaemon \/ DaemonsStarted
   \/ RefuseApp \/ SpawnApp \/ AppStarted \/ Attach \/ BootComplete
  \/ Wait \/ Record \/ Report \/ Recorded \/ Check \/ CheckLive
  \/ ShuttingDown \/ Grace \/ GraceEnds \/ Drain \/ PowerOff

Next ==
  \/ Main
  \/ \E a \in App : PrintReady(a) \/ ReadLine(a) \/ Announce(a)
  \/ \E p \in Proc : ProcessExits(p)
  \/ Signal
  \/ \E r \in Reader : Accept(r) \/ RequestShutdown(r)
  \/ Off

Spec == Init /\ [][Next]_vars

-----------------------------------------------------------------------------
(* Properties. *)

Labels == {"prepare", "semantic-fs", "policies", "daemons", "apps", "started",
           "attach", "wait", "record", "check", "live", "term", "grace",
           "drained", "unmount", "off"}
Kinds == {"boot_failed", "daemon_started", "app_refused", "app_started", "app_ready",
          "boot_complete", "app_exited", "daemon_exited", "shutting_down", "power_off"}
Reasons == {"none", "boot_failed", "host", "signal", "exited"}

\* Every variable has its type.
TypeOK ==
  /\ pc \in Labels /\ after \in Labels /\ next \in Nat
  /\ todo \subseteq Proc /\ cur \subseteq Proc
  /\ got \in BOOLEAN /\ sig \in BOOLEAN
  /\ reason \in Reasons /\ shutdown \in {"none", "host", "signal"}
  /\ proc \in [Proc -> {"none", "up", "zombie", "reaped"}]
  /\ state \in [App -> {"absent", "pending", "refused", "running", "ready", "exited"}]
  /\ exit \subseteq App
  /\ ready \in [App -> BOOLEAN] /\ daemons \subseteq Daemon
  /\ image \subseteq Daemon /\ served \in BOOLEAN /\ wanted \subseteq Daemon
  /\ lines \in [App -> Nat]
  /\ attached \subseteq App /\ announce \subseteq App
  /\ events \in Seq(Kinds \X (Proc \cup {"init"} \cup Reasons))
  /\ readers \subseteq Reader
  /\ conn \in [Reader -> {"none", "open", "closed"}]
  /\ stream \in [Reader -> Seq(Kinds \X (Proc \cup {"init"} \cup Reasons))]

\* hub.rs: every connection, whenever it is made, is sent the events from the
\* start of the boot, in order, without a gap, and one that is still a reader
\* has been sent all of them.
StreamFromTheStart ==
  \A r \in Reader :
    /\ Len(stream[r]) <= Len(events)
    /\ stream[r] = SubSeq(events, 1, Len(stream[r]))
    /\ r \in readers => Len(stream[r]) = Len(events)

At(kind, who) == {i \in DOMAIN events : events[i] = Event(kind, who)}
Before(S, T) == \A j \in T : \E i \in S : i < j

\* What the host is told of an app is its life: it is started, ready and gone
\* at most once each, never before it was started, and nothing starts once
\* the guest is shutting down.
LifeIsTold ==
  /\ \A a \in App :
       /\ \A k \in {"app_started", "app_ready", "app_exited"} : Cardinality(At(k, a)) <= 1
       /\ Before(At("app_started", a), At("app_ready", a) \cup At("app_exited", a))
  /\ \A i, j \in DOMAIN events :
       events[i][1] = "shutting_down" /\ events[j][1] = "app_started" => j < i

\* shutdown() signals process groups by recorded pids: none of them belongs to
\* a process that was reaped, whose pid the kernel may have given to another.
SignalsItsOwn == pc \in {"term", "grace", "drained"} => \A p \in Pids : proc[p] \in {"up", "zombie"}

\* The guest that shuts down of its own accord leaves no app running: each
\* was refused, or has exited and been reaped.
NoAppCutOff == reason = "exited" => \A a \in App : proc[a] \in {"none", "reaped"}

\* The host is told one gapless story of the boot and of every app's life, no
\* signal goes to a pid that was reaped, and a guest that powers off of its own
\* accord cuts no app off.
GuestIsFaithful == TypeOK /\ StreamFromTheStart /\ LifeIsTold /\ SignalsItsOwn /\ NoAppCutOff

\* Every app has exited or was refused: unless a ready line was read after its
\* app's exit had been recorded, which makes the app ready again for good.
AllExited ==
  pc = "wait" /\ \A a \in App : /\ proc[a] # "up" /\ lines[a] = 0
                                /\ a \in exit => state[a] = "exited"
=============================================================================
