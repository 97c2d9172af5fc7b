---------------------------- MODULE DockerSandbox ----------------------------
(***************************************************************************)
(* BackgroundSandbox over Docker: the SandboxSteps of                      *)
(* cli/src/commands/mcp.ts, the boot of util/dev-boot.ts and               *)
(* docker-orchestrator (container.ts, semantic-fs-sidecar.ts) and          *)
(* stopByName().  The daemon keeps one container and one sidecar under the *)
(* sandbox's name, the host one secrets directory; each remembers which    *)
(* session made it.  A request to the daemon is one step.                  *)
(***************************************************************************)
EXTENDS BackgroundSandbox

VARIABLES
  seen,       \* per session: the daemon's answer to its find(), until it is read
  step,       \* per session: where its boot() is suspended
  degraded,   \* sessions whose boot goes on without a sidecar
  container,  \* [by, st] or None; st is "created", "running" or "exited"
  sidecar,    \* the session whose sidecar has the name, or None
  secrets,    \* the session whose secrets files are in the run dir, or None
  halt        \* per session and flow: where its stopByName() is suspended

\* A container is told from its absence.
ASSUME ContainersAssumption ==
  None \notin [by : Session, st : {"created", "running", "exited"}]

docker == <<container, sidecar, secrets>>
vars == <<session, seen, step, degraded, docker, halt>>

Init ==
  /\ SessionInit
  /\ seen = [s \in Session |-> "unasked"]
  /\ step = [s \in Session |-> "build"]
  /\ degraded = {}
  /\ container = None /\ sidecar = None /\ secrets = None
  /\ halt = [s \in Session |-> [f \in Flow |-> "sidecar"]]

\* What a process that has ended no longer knows.
Memory(s) ==
  IF life'[s] = "alive" THEN UNCHANGED <<seen, step, degraded, halt>>
  ELSE /\ seen' = [seen EXCEPT ![s] = "unasked"]
       /\ step' = [step EXCEPT ![s] = "build"]
       /\ degraded' = degraded \ {s}
       /\ halt' = [halt EXCEPT ![s] = [f \in Flow |-> "sidecar"]]

Exists == container # None
Running == Exists /\ container.st = "running"
Mine(s) == Exists /\ container.by = s

-----------------------------------------------------------------------------
(* find() asks whether a container with the name exists.  Its answer can be *)
(* out of date when the session goes on with it.                            *)

Inspect(s) ==
  /\ Alive(s) /\ main[s] \in {"find", "claimed"} /\ seen[s] = "unasked"
  /\ seen' = [seen EXCEPT ![s] = IF Exists THEN "there" ELSE "absent"]
  /\ UNCHANGED <<session, step, degraded, docker, halt>>

Find(s) ==
  /\ seen[s] # "unasked"
  /\ Looked(s, seen[s] = "there") \/ LookedAgain(s, seen[s] = "there")
  /\ seen' = [seen EXCEPT ![s] = "unasked"]
  /\ UNCHANGED <<step, degraded, docker, halt>>

\* attach(): a session that waited for another's boot also waits for the
\* app's ready line, which a container that is not running never prints.
Attach(s) ==
  /\ Attached(s)
  /\ s \in waited /\ main'[s] = "ready" => Running
  /\ UNCHANGED <<seen, step, degraded, docker, halt>>

-----------------------------------------------------------------------------
(* boot() *)

At(s, pc) == Alive(s) /\ main[s] = "boot" /\ step[s] = pc
StepTo(s, pc) == step' = [step EXCEPT ![s] = pc]

\* The image is built and the volumes are there; the signal is checked last.
Build(s) ==
  /\ At(s, "build") /\ s \notin aborted
  /\ StepTo(s, "clearSidecar")
  /\ UNCHANGED <<session, seen, degraded, docker, halt>>

\* startSemanticFsSidecar removes any sidecar of the name...
ClearSidecar(s) ==
  /\ At(s, "clearSidecar")
  /\ sidecar' = None
  /\ StepTo(s, "sidecar")
  /\ UNCHANGED <<session, seen, degraded, container, secrets, halt>>

\* ...and creates its own.  Any failure, and a mount that never appears, is a
\* boot without /context rather than a failed one.
StartSidecar(s) ==
  /\ At(s, "sidecar")
  /\ StepTo(s, "secrets")
  /\ \/ /\ sidecar = None
        /\ sidecar' = s /\ UNCHANGED degraded
     \/ degraded' = degraded \cup {s} /\ UNCHANGED sidecar
  /\ UNCHANGED <<session, seen, container, secrets, halt>>

WriteSecrets(s) ==
  /\ At(s, "secrets")
  /\ secrets' = s
  /\ StepTo(s, "create")
  /\ UNCHANGED <<session, seen, degraded, container, sidecar, halt>>

CreateContainer(s) ==
  /\ At(s, "create")
  /\ \/ /\ ~Exists
        /\ container' = [by |-> s, st |-> "created"]
        /\ StepTo(s, "start") /\ UNCHANGED session
     \/ /\ Exists
        /\ NameConflict(s) /\ UNCHANGED <<step, container>>
  /\ UNCHANGED <<seen, degraded, sidecar, secrets, halt>>

StartContainer(s) ==
  /\ At(s, "start") /\ Mine(s)
  /\ container' = [container EXCEPT !.st = "running"]
  /\ StepTo(s, "ready")
  /\ UNCHANGED <<session, seen, degraded, sidecar, secrets, halt>>

\* The runtime reports ready, the RPC stream is attached, nobody has left.
Ready(s) ==
  /\ At(s, "ready") /\ Mine(s) /\ Running
  /\ Booted(s)
  /\ UNCHANGED <<seen, step, degraded, docker, halt>>

\* Any of these steps can fail, and one that finds the session aborted or its
\* container gone does; only the sidecar's failures are caught.
BootFails(s) ==
  /\ step[s] \in {"build", "secrets", "create", "start", "ready"}
  /\ BootThrows(s)
  /\ UNCHANGED <<seen, step, degraded, docker, halt>>

-----------------------------------------------------------------------------
(* stopByName(): the sidecar, then stopContainer(), which looks the         *)
(* container up, stops and removes it, then the secrets directory.  All of  *)
(* it by name.                                                              *)

HaltAt(s, f, pc) == Halting(s, f) /\ halt[s][f] = pc
HaltGoto(s, f, pc) == halt' = [halt EXCEPT ![s][f] = pc]

HaltSidecar(s, f) ==
  /\ HaltAt(s, f, "sidecar")
  /\ sidecar' = None
  /\ HaltGoto(s, f, "inspect")
  /\ UNCHANGED <<session, seen, step, degraded, container, secrets>>

HaltInspect(s, f) ==
  /\ HaltAt(s, f, "inspect")
  /\ IF Exists THEN sidecar' = None /\ HaltGoto(s, f, "stop")
               ELSE HaltGoto(s, f, "secrets") /\ UNCHANGED sidecar
  /\ UNCHANGED <<session, seen, step, degraded, container, secrets>>

HaltStop(s, f) ==
  /\ HaltAt(s, f, "stop")
  /\ IF Exists
     THEN container' = [container EXCEPT !.st = "exited"] /\ HaltGoto(s, f, "remove")
     ELSE HaltGoto(s, f, "secrets") /\ UNCHANGED container
  /\ UNCHANGED <<session, seen, step, degraded, sidecar, secrets>>

HaltRemove(s, f) ==
  /\ HaltAt(s, f, "remove")
  /\ container' = None
  /\ HaltGoto(s, f, "secrets")
  /\ UNCHANGED <<session, seen, step, degraded, sidecar, secrets>>

\* The end of stopByName(): the flow it belongs to goes on.
HaltReturns(s, f) ==
  /\ IF f = "main" THEN CleanedUp(s) ELSE Stopped(s)
  /\ IF life'[s] = "alive" THEN HaltGoto(s, f, "sidecar") /\ UNCHANGED <<seen, step, degraded>>
                           ELSE Memory(s)

\* The last step, and what its flow does next.
HaltSecrets(s, f) ==
  /\ HaltAt(s, f, "secrets")
  /\ secrets' = None
  /\ HaltReturns(s, f)
  /\ UNCHANGED <<container, sidecar>>

-----------------------------------------------------------------------------
\* The container exits by itself (the app ends, the host restarts); it is not
\* an AutoRemove one, so its name stays taken.
ContainerExits ==
  /\ Running
  /\ container' = [container EXCEPT !.st = "exited"]
  /\ UNCHANGED <<session, seen, step, degraded, sidecar, secrets, halt>>

Steps(s) ==
  \/ Inspect(s) \/ Find(s) \/ Attach(s)
  \/ Poll(s) /\ UNCHANGED <<seen, step, degraded, docker, halt>>
  \/ Build(s) \/ ClearSidecar(s) \/ StartSidecar(s) \/ WriteSecrets(s)
  \/ CreateContainer(s) \/ StartContainer(s) \/ Ready(s) \/ BootFails(s)

Halts(s, f) ==
  \/ HaltSidecar(s, f) \/ HaltInspect(s, f) \/ HaltStop(s, f)
  \/ HaltRemove(s, f) \/ HaltSecrets(s, f)

Next ==
  \/ \E s \in Session :
       \/ Steps(s)
       \/ \E f \in Flow : Halts(s, f)
       \/ /\ Begin(s) \/ Stop(s) \/ BootSettles(s) \/ Kill(s)
          /\ Memory(s) /\ UNCHANGED docker
  \/ ContainerExits

Spec == Init /\ [][Next]_vars

\* A session's boot flow goes on: every request to the daemon is answered, and
\* a boot ends one way or the other (waitForRuntime has a deadline).  Nothing
\* makes a session start or end, nor its stop flow go on.
Fairness ==
  \A s \in Session : WF_vars(Steps(s) \/ Halts(s, "main"))

FairSpec == Spec /\ Fairness

-----------------------------------------------------------------------------
(* Properties. *)

\* Every variable has its type.
TypeOK ==
  /\ SessionTypeOK
  /\ step \in [Session -> {"build", "clearSidecar", "sidecar", "secrets",
                           "create", "start", "ready"}]
  /\ seen \in [Session -> {"unasked", "there", "absent"}]
  /\ degraded \subseteq Session
  /\ container \in [by : Session, st : {"created", "running", "exited"}] \cup {None}
  /\ sidecar \in Session \cup {None}
  /\ secrets \in Session \cup {None}
  /\ halt \in [Session -> [Flow -> {"sidecar", "inspect", "stop", "remove", "secrets"}]]

\* Claiming the name and looking again under the claim is enough: a session
\* that boots is the only one and finds the name free, so that no boot
\* replaces the sidecar of a container that is already there.
BootFindsNameFree ==
  /\ OneBooter
  /\ \A s \in Session : Alive(s) /\ main[s] = "boot" /\ step[s] # "start" /\ step[s] # "ready"
                        => ~Exists

\* A session that was not killed leaves nothing behind: its container, its
\* sidecar and its credentials file are gone when its process exits, also when
\* its client left in the middle of the boot.
NothingLeftBehind ==
  \A s \in Session : life[s] = "exited" => ~Mine(s) /\ sidecar # s /\ secrets # s

\* However sessions start, fail and are killed around one name: one of them
\* boots, on a free name, and what it made goes with it.
SandboxIsClean == TypeOK /\ BootFindsNameFree /\ NothingLeftBehind

\* Sessions do not take each other's sandbox down: one that booted its own,
\* and has not been told to end, still has its container and its sidecar.
ServingSandboxIntact ==
  \A s \in Session : Serving(s) => Mine(s) /\ (sidecar = s \/ s \in degraded)
=============================================================================
