---------------------------- MODULE ContainerBoot ----------------------------
(***************************************************************************)
(* A named sandbox container and what surrounds it: startContainer() and   *)
(* stopContainer() of docker-orchestrator (container.ts), the split of its *)
(* environment (secrets.ts), its sidecar (semantic-fs-sidecar.ts), its     *)
(* snapshots (snapshot.ts) and the commands that drive them: `berth os up` *)
(* and `down`, `berth snapshot create` and `restore`.                      *)
(*                                                                         *)
(* An environment is the set of its names: what matters of a value is      *)
(* where it is recorded.  A request to the daemon is one step.  The boot   *)
(* and teardown commands come one at a time (DockerSandbox has sessions    *)
(* that race for one name); a snapshot runs beside them.                   *)
(***************************************************************************)
EXTENDS Naturals, FiniteSets

CONSTANTS
  Name,         \* names of environment variables a caller may pass
  LooksSecret,  \* the ones isSecretEnvName() recognises
  App,          \* the apps of the sandbox
  Manifests,    \* per app: the names it may list under secrets:
  Boots,        \* what `os up` may be asked: [env, fs, strict, rpc]
  MaxCommands,  \* bound: the commands of a behaviour
  None

Box == {"os", "restored"}
RpcToken == "RPC_TOKEN"

VARIABLES
  declares,   \* per app: the names its manifest lists under secrets:
  oldDaemon,  \* the Docker daemon does not know writable-cgroups
  boot,       \* the boot or teardown command under way, or None
  container,  \* per box: its container [st, env, admin, cgroups, asked], or None
  sidecar,    \* per box: "none", "up" or "dead"
  mounted,    \* boxes whose FUSE mount is in the host's mount table
  dir,        \* per box: its run directory [app : names], or None
  record,     \* the state file of the OS instance is there
  snap,       \* the snapshot directory: files, environment, image environment
  taking,     \* where `snapshot create` is suspended: [pc, env], or None
  last,       \* how the last boot or teardown command ended
  given       \* the commands given so far

vars == <<declares, oldDaemon, boot, container, sidecar, mounted, dir, record,
          snap, taking, last, given>>
fixed == <<declares, oldDaemon>>
host == <<container, sidecar, mounted, dir>>

NoSnap == [files |-> {}, env |-> {}, image |-> {}]

Init ==
  /\ declares \in Manifests
  /\ oldDaemon \in BOOLEAN
  /\ boot = None /\ taking = None /\ last = "none"
  /\ container = [b \in Box |-> None]
  /\ sidecar = [b \in Box |-> "none"]
  /\ mounted = {} /\ dir = [b \in Box |-> None]
  /\ record = FALSE /\ snap = NoSnap /\ given = 0

-----------------------------------------------------------------------------
(* The environment.                                                         *)

IsSecretEnvName(n) == n \in LooksSecret \cup {RpcToken}

Declared == UNION {declares[a] : a \in App}

\* The split that looks only at names: a mutant.
PartitionByName(env, declared) == {n \in env : IsSecretEnvName(n)}

\* The secret half; the rest is plain.
PartitionSecretEnv(env, declared) ==
  {n \in env : n \in declared \/ IsSecretEnvName(n)}

\* What is written for the processes of the sandbox: per app the names it
\* declared, under "shared" the secrets nobody declared.
PartitionSecretsPerApp(secret) ==
  [x \in App \cup {"shared"} |->
     IF x = "shared" THEN secret \ Declared ELSE secret \cap declares[x]]

\* Nothing is known of the apps here: the names' shapes decide.
StripSecretEnv(env) == env \ PartitionSecretEnv(env, {})

Exists(b) == container[b] # None
Running(b) == Exists(b) /\ container[b].st = "running"

-----------------------------------------------------------------------------
(* Commands that boot.                                                      *)

Command == given < MaxCommands /\ given' = given + 1

At(pc) == boot # None /\ boot.pc = pc
Step(pc) == boot' = [boot EXCEPT !.pc = pc] /\ UNCHANGED given
End(how) == boot' = None /\ last' = how /\ UNCHANGED given

\* `os up`: a recorded instance that is not running still has its name.
Up(o) ==
  /\ Command
  /\ boot = None /\ ~(record /\ Running("os"))
  /\ boot' = [pc |-> "probe", box |-> "os", image |-> {}, delegate |-> FALSE,
              env |-> o.env \cup (IF o.rpc THEN {RpcToken} ELSE {}),
              fs |-> o.fs, strict |-> o.strict, rpc |-> o.rpc, asked |-> o]
  /\ container' = [container EXCEPT !["os"] = IF record THEN None ELSE @]
  /\ UNCHANGED <<fixed, sidecar, mounted, dir, record, snap, taking, last>>

\* restoreSnapshot() reads every file; startContainer() gets the environment
\* of env.json over the one the committed image keeps.
Restore ==
  /\ Command
  /\ boot = None
  /\ snap.files = {"image", "data", "index", "meta", "env"}
  /\ boot' = [pc |-> "probe", box |-> "restored", env |-> snap.env, image |-> snap.image,
              fs |-> "sidecar", strict |-> FALSE, rpc |-> FALSE, delegate |-> FALSE,
              asked |-> [env |-> snap.env, fs |-> "sidecar", strict |-> FALSE, rpc |-> FALSE]]
  /\ UNCHANGED <<fixed, host, record, snap, taking, last>>

\* Before anything exists: is a cgroup subtree delegated, must it be?
Probe ==
  /\ At("probe")
  /\ \E delegate \in BOOLEAN :
       IF boot.strict /\ ~delegate THEN End("failed")
       ELSE /\ boot' = [boot EXCEPT !.pc = "sidecar", !.delegate = delegate]
            /\ UNCHANGED <<last, given>>
  /\ UNCHANGED <<fixed, host, record, snap, taking>>

\* The sidecar that fails leaves its work to the sandbox: a mutant.
SidecarFailsMounting ==
  /\ At("sidecar") /\ boot.fs = "sidecar"
  /\ boot' = [boot EXCEPT !.pc = "secrets", !.fs = "inSandbox"] /\ UNCHANGED given
  /\ sidecar' = [sidecar EXCEPT ![boot.box] = "none"]
  /\ UNCHANGED <<fixed, container, mounted, dir, record, snap, taking, last>>

\* A sidecar of the name is removed first, its directory made; a failure
\* turns the semantic file system off.
SidecarFails ==
  /\ At("sidecar") /\ boot.fs = "sidecar"
  /\ boot' = [boot EXCEPT !.pc = "secrets", !.fs = "none"] /\ UNCHANGED given
  /\ sidecar' = [sidecar EXCEPT ![boot.box] = "none"]
  /\ dir' = [dir EXCEPT ![boot.box] = IF @ = None THEN [x \in App \cup {"shared"} |-> {}] ELSE @]
  /\ UNCHANGED <<fixed, container, mounted, record, snap, taking, last>>

StartSidecar ==
  /\ At("sidecar")
  /\ Step("secrets")
  /\ IF boot.fs # "sidecar" THEN UNCHANGED <<sidecar, mounted, dir>>
     ELSE /\ sidecar' = [sidecar EXCEPT ![boot.box] = "up"]
          /\ mounted' = mounted \cup {boot.box}
          /\ dir' = [dir EXCEPT ![boot.box] = IF @ = None THEN [x \in App \cup {"shared"} |-> {}] ELSE @]
  /\ UNCHANGED <<fixed, container, record, snap, taking, last>>

\* Each file is written only when it has something to hold.
WriteSecrets ==
  /\ At("secrets")
  /\ Step("create")
  /\ LET files == PartitionSecretsPerApp(PartitionSecretEnv(boot.env, Declared))
         old == IF dir[boot.box] = None THEN [x \in App \cup {"shared"} |-> {}] ELSE dir[boot.box]
     IN IF \A x \in DOMAIN files : files[x] = {} THEN UNCHANGED dir
        ELSE dir' = [dir EXCEPT ![boot.box] =
               [x \in DOMAIN files |-> IF files[x] = {} THEN old[x] ELSE files[x]]]
  /\ UNCHANGED <<fixed, container, sidecar, mounted, record, snap, taking, last>>

\* stopSemanticFsSidecar(): unmounts from inside, which a dead sidecar cannot,
\* then removes it.
StopSidecar(b) ==
  /\ mounted' = IF sidecar[b] = "up" THEN mounted \ {b} ELSE mounted
  /\ sidecar' = [sidecar EXCEPT ![b] = "none"]

\* removeContainerSecretsDir(): the mount inside it makes the removal fail,
\* which is ignored.
RemoveDir(b, mounts) == dir' = [dir EXCEPT ![b] = IF b \in mounts THEN @ ELSE None]

\* What the daemon and any commit of the container record.
ConfigEnv == boot.image \cup (boot.env \ PartitionSecretEnv(boot.env, Declared))

AppCgroupsRefusal == boot.strict /\ oldDaemon /\ boot.delegate

\* Nothing was created, but the sidecar and the secrets were.
CreateRefused ==
  /\ At("create") /\ AppCgroupsRefusal
  /\ StopSidecar(boot.box)
  /\ RemoveDir(boot.box, mounted')
  /\ End("refused")
  /\ UNCHANGED <<fixed, container, record, snap, taking>>

\* A daemon that does not know the option is asked again without it.
CreateContainer ==
  /\ At("create") /\ ~AppCgroupsRefusal /\ ~Exists(boot.box)
  /\ Step("start")
  /\ container' = [container EXCEPT ![boot.box] =
       [st |-> "created", env |-> ConfigEnv, admin |-> boot.fs = "inSandbox",
        cgroups |-> boot.delegate /\ ~oldDaemon,
        asked |-> boot.asked]]
  /\ UNCHANGED <<fixed, sidecar, mounted, dir, record, snap, taking, last>>

StartContainer ==
  /\ At("start") /\ Exists(boot.box)
  /\ container' = [container EXCEPT ![boot.box].st = "running"]
  /\ Step("health")
  /\ UNCHANGED <<fixed, sidecar, mounted, dir, record, snap, taking, last>>

\* The ports are mapped, the bridge is healthy if one was asked for; `os up`
\* writes the state file.
Finish ==
  /\ At("health") /\ (boot.rpc => Running("os"))
  /\ record' = (record \/ boot.box = "os")
  /\ End("up")
  /\ UNCHANGED <<fixed, host, snap, taking>>

\* The name is taken, the daemon fails, the health check never succeeds: the
\* command throws and leaves what there is.
Throws ==
  /\ boot # None /\ boot.pc \in {"sidecar", "secrets", "create", "start", "health"}
  /\ End("failed")
  /\ UNCHANGED <<fixed, host, record, snap, taking>>

-----------------------------------------------------------------------------
(* `os down`.                                                               *)

Down ==
  /\ Command
  /\ boot = None /\ record
  /\ boot' = [pc |-> IF Exists("os") THEN "downSidecar" ELSE "unrecord", box |-> "os", ok |-> Exists("os")]
  /\ UNCHANGED <<fixed, host, record, snap, taking, last>>

\* The directory is removed while the sidecar still has it mounted: a mutant.
StopContainerDirFirst ==
  \/ /\ At("downSidecar")
     /\ RemoveDir("os", mounted)
     /\ StopSidecar("os")
     /\ Step("downStop") /\ UNCHANGED container
  \/ /\ At("downStop")
     /\ container' = [container EXCEPT !["os"] = None]
     /\ Step("unrecord") /\ UNCHANGED <<sidecar, mounted, dir>>

\* stopContainer(): sidecar, stop, remove, and the directory last.
StopContainerSteps ==
  \/ /\ At("downSidecar")
     /\ StopSidecar("os")
     /\ Step("downStop") /\ UNCHANGED <<container, dir>>
  \/ /\ At("downStop")
     /\ container' = [container EXCEPT !["os"].st = "exited"]
     /\ Step("downRemove") /\ UNCHANGED <<sidecar, mounted, dir>>
  \/ /\ At("downRemove")
     /\ container' = [container EXCEPT !["os"] = None]
     /\ Step("downDir") /\ UNCHANGED <<sidecar, mounted, dir>>
  \/ /\ At("downDir")
     /\ RemoveDir("os", mounted)
     /\ Step("unrecord") /\ UNCHANGED <<container, sidecar, mounted>>

StopContainer == StopContainerSteps /\ UNCHANGED <<fixed, record, snap, taking, last>>

\* A stop that fails for any other reason than being stopped already is a
\* warning, and the record goes all the same.
StopFails ==
  /\ At("downStop")
  /\ boot' = [boot EXCEPT !.pc = "unrecord", !.ok = FALSE]
  /\ UNCHANGED <<fixed, host, record, snap, taking, last, given>>

RemoveOsState ==
  /\ At("unrecord")
  /\ record' = FALSE
  /\ End(IF boot.ok THEN "down" ELSE "failed")
  /\ UNCHANGED <<fixed, host, snap, taking>>

-----------------------------------------------------------------------------
(* `snapshot create`: the environment is inspected first, everything else   *)
(* is asked for by the container's name afterwards.                         *)

FilesMetaFirst == <<"meta", "image", "data", "index", "env">>

\* In the order they are written; manifest.json is one with metadata.json.
Files == <<"image", "data", "index", "meta", "env">>

SnapshotCreate ==
  /\ Command
  /\ taking = None /\ Exists("os")
  /\ taking' = [pc |-> 1, env |-> container["os"].env]
  /\ snap' = NoSnap
  /\ UNCHANGED <<fixed, boot, host, record, last>>

\* container.commit() and getArchive() need the container, the JSON files do not.
WriteFile ==
  /\ taking # None
  /\ LET f == Files[taking.pc] IN
     /\ f \in {"image", "data", "index"} => Exists("os")
     /\ snap' = [files |-> snap.files \cup {f},
                 env |-> IF f = "env" THEN StripSecretEnv(taking.env) ELSE snap.env,
                 image |-> IF f = "image" THEN container["os"].env ELSE snap.image]
  /\ taking' = IF taking.pc = 5 THEN None ELSE [taking EXCEPT !.pc = @ + 1]
  /\ UNCHANGED <<fixed, boot, host, record, last, given>>

\* The container is gone, the disk is full, or the process dies.
SnapshotFails ==
  /\ taking # None /\ taking' = None
  /\ UNCHANGED <<fixed, boot, host, record, snap, last, given>>

-----------------------------------------------------------------------------
(* What happens outside.                                                    *)

ContainerExits ==
  /\ Running("os")
  /\ container' = [container EXCEPT !["os"].st = "exited"]
  /\ UNCHANGED <<fixed, boot, sidecar, mounted, dir, record, snap, taking, last, given>>

\* A sidecar that is killed does not unmount.
SidecarDies ==
  /\ sidecar["os"] = "up"
  /\ sidecar' = [sidecar EXCEPT !["os"] = "dead"]
  /\ UNCHANGED <<fixed, boot, container, mounted, dir, record, snap, taking, last, given>>

\* The command's process dies.
Crash ==
  /\ boot # None /\ End("failed")
  /\ UNCHANGED <<fixed, host, record, snap, taking>>

Next ==
  \/ \E o \in Boots : Up(o)
  \/ Restore \/ Probe \/ StartSidecar \/ SidecarFails \/ WriteSecrets
  \/ CreateRefused \/ CreateContainer \/ StartContainer \/ Finish \/ Throws
  \/ Down \/ StopContainer \/ StopFails \/ RemoveOsState
  \/ SnapshotCreate \/ WriteFile \/ SnapshotFails
  \/ ContainerExits \/ SidecarDies \/ Crash

Spec == Init /\ [][Next]_vars

-----------------------------------------------------------------------------
(* Properties.                                                              *)

Secret(n) == IsSecretEnvName(n) \/ n \in Declared

\* No value of a secret is recorded where it outlives the boot: not in a
\* container's configuration, a committed image or a snapshot's env.json,
\* also not after a restore.  env.json is stripped by the names' shapes
\* alone, so a declared name that looks harmless depends on the boot before.
NoSecretRecorded ==
  \A n \in Name \cup {RpcToken} : Secret(n) =>
    /\ n \notin snap.env \cup snap.image
    /\ \A b \in Box : Exists(b) => n \notin container[b].env

\* A teardown that met no error, and a boot refused after its sidecar and
\* secrets were made, leave no container, no sidecar and no secrets on the
\* host; only a mount that a killed sidecar left keeps the directory.
DownLeavesNothing ==
  /\ boot = None /\ last = "down" => ~Exists("os")
  /\ boot = None /\ last \in {"down", "refused"} =>
       /\ sidecar["os"] = "none"
       /\ "os" \notin mounted => dir["os"] = None

\* A container has CAP_SYS_ADMIN only when the mount inside the sandbox was
\* asked for, never because a sidecar failed; and a strict boot has cgroups
\* for its apps or no container, on a daemon that cannot give them too.
PostureAsAsked ==
  \A b \in Box : Exists(b) =>
    /\ container[b].admin => container[b].asked.fs = "inSandbox"
    /\ container[b].asked.strict => container[b].cgroups

\* `snapshot list` shows what has a metadata.json: such a snapshot has its
\* image and both archives, whenever create was cut short.
ListedHasState ==
  "meta" \in snap.files => {"image", "data", "index"} \subseteq snap.files
=============================================================================
