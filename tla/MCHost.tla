------------------------------- MODULE MCHost -------------------------------
(***************************************************************************)
(* What commands keep on the host, side by side: the audit trail, the run  *)
(* directory of microVMs, containers with their secrets, records and       *)
(* snapshots, images, boot evidence and the reloads of `berth dev`.  They  *)
(* share no state, so each behaviour is one of one component: `part` says  *)
(* which.  The constants are those of all of them; the definitions below   *)
(* give the small instance that is checked.                                *)
(***************************************************************************)
EXTENDS AuditSink, FiniteSets

CONSTANTS
  Stalling, Verifier, Roomy, StallRecords, StallTorn, StallsAt, \* of a second AuditSink
  Session, NoBoot, Kills, SettleTimesOut,               \* of VmSandbox
  App, Name, LooksSecret, Manifests, Boots, MaxCommands, \* of ContainerBoot
  Dir, Repo, Workspace, Sources, MaxBuilds,             \* of ImageBuild
  Kernel, KernelRelease, ContainerRuntime, Answer, Governed, NetworkApp, Booting, MaxStarts, \* of BootEvidence
  Version, Broken, Runtime, KeepShares, MaxEdits, MaxKills, \* of VmDev
  Off

VARIABLES
  part,  \* the component of this behaviour
  life, main, waited, aborted, owns, claim, stopper, vm, pidFile, record, sockets, disk, step,
  dial, halt,  \* of VmSandbox
  declares, oldDaemon, boot, container, sidecar, mounted, dir, osRecord, snap, taking, last, given,  \* of ContainerBoot
  images, tags, young, lockfile, deploying, build, latest,  \* of ImageBuild
  host, cache, box, boots, gather, attached, trail, verdicts,  \* of BootEvidence
  src, seen, index, tmp, shares, bundling, got, hashed, devPc, running, current, due, queue,
  watching, closing, told, edits, kills  \* of VmDev

\* The same sink, as two of its writers: a lock that is broken under a live
\* writer, and a reader that verifies meanwhile.
Stall == INSTANCE AuditSink WITH
  Proc <- Stalling, Reader <- Verifier, MaxLines <- Roomy, MaxRecords <- StallRecords,
  MaxTorn <- StallTorn, Stalls <- StallsAt

Vm == INSTANCE VmSandbox
Boot == INSTANCE ContainerBoot WITH record <- osRecord
Images == INSTANCE ImageBuild WITH Version <- Sources, queue <- deploying
Evidence == INSTANCE BootEvidence WITH Session <- Booting, App <- Governed, Runtime <- ContainerRuntime
Dev == INSTANCE VmDev WITH step <- bundling, pc <- devPc, vm <- running

machine == <<life, main, waited, aborted, owns, claim, stopper, vm, pidFile, record, sockets,
             disk, step, dial, halt>>
containers == <<declares, oldDaemon, boot, container, sidecar, mounted, dir, osRecord, snap,
                taking, last, given>>
building == <<images, tags, young, lockfile, deploying, build, latest>>
attesting == <<host, cache, box, boots, gather, attached, trail, verdicts>>
developing == <<src, seen, index, tmp, shares, bundling, got, hashed, devPc, running, current,
                due, queue, watching, closing, told, edits, kills>>

state == <<part, vars, machine, containers, building, attesting, developing>>

-----------------------------------------------------------------------------
\* Writers, and the sessions that may boot, are interchangeable.
Symmetric == Permutations(Proc) \cup Permutations(Booting)

\* FLAG is declared and does not look like a secret.
MCManifests == {[a |-> {"FLAG"}, b |-> {"FLAG", "API_KEY"}], [a |-> {}, b |-> {}]}
MCBoots ==
  {[env |-> {"FLAG", "API_KEY"}, fs |-> "sidecar", strict |-> TRUE, rpc |-> TRUE],
   [env |-> {"MODE"}, fs |-> "inSandbox", strict |-> FALSE, rpc |-> FALSE]}

\* Two directories of one repository and one workspace.
MCRepo == [notes |-> "notes", copy |-> "notes"]
MCWorkspace == [notes |-> 1, copy |-> 1]
MCMaxBuilds == [notes |-> 2, copy |-> 1]

\* A kernel with all that Berth's policy needs, and an older one whose
\* Landlock has no network rules and whose cgroups are not delegated.
MCKernelRelease == [full |-> 2, older |-> 1]
Found(s, a, d) == [status |-> s, abi |-> a, nsdelegate |-> d]
MCAnswer ==
  [k \in {"full", "older"} |-> [r \in {"runc"} |->
    IF k = "full" THEN Found("enforcing", 4, TRUE) ELSE Found("enforcing", 3, FALSE)]]

\* What is assumed of the constants of both sinks.
ASSUME TrailConstants == SinkConstants /\ Stall!SinkConstants

-----------------------------------------------------------------------------
NoMachine ==
  /\ life = Off /\ main = Off /\ waited = Off /\ aborted = Off /\ owns = Off /\ claim = Off
  /\ stopper = Off /\ vm = Off /\ pidFile = Off /\ record = Off /\ sockets = Off /\ disk = Off
  /\ step = Off /\ dial = Off /\ halt = Off
NoContainers ==
  /\ declares = Off /\ oldDaemon = Off /\ boot = Off /\ container = Off /\ sidecar = Off
  /\ mounted = Off /\ dir = Off /\ osRecord = Off /\ snap = Off /\ taking = Off /\ last = Off
  /\ given = Off
NoBuilds ==
  /\ images = Off /\ tags = Off /\ young = Off /\ lockfile = Off /\ deploying = Off
  /\ build = Off /\ latest = Off
NoEvidence ==
  /\ host = Off /\ cache = Off /\ box = Off /\ boots = Off /\ gather = Off /\ attached = Off
  /\ trail = Off /\ verdicts = Off
NoDev ==
  /\ src = Off /\ seen = Off /\ index = Off /\ tmp = Off /\ shares = Off /\ bundling = Off
  /\ got = Off /\ hashed = Off /\ devPc = Off /\ running = Off /\ current = Off /\ due = Off
  /\ queue = Off /\ watching = Off /\ closing = Off /\ told = Off /\ edits = Off /\ kills = Off

HostInit ==
  \/ /\ part = "trail" /\ Init
     /\ NoMachine /\ NoContainers /\ NoBuilds /\ NoEvidence /\ NoDev
  \/ /\ part = "stall" /\ Stall!Init
     /\ NoMachine /\ NoContainers /\ NoBuilds /\ NoEvidence /\ NoDev
  \/ /\ part = "vm" /\ Vm!Init /\ Init
     /\ NoContainers /\ NoBuilds /\ NoEvidence /\ NoDev
  \/ /\ part = "boot" /\ Boot!Init /\ Init
     /\ NoMachine /\ NoBuilds /\ NoEvidence /\ NoDev
  \/ /\ part = "images" /\ Images!Init /\ Init
     /\ NoMachine /\ NoContainers /\ NoEvidence /\ NoDev
  \/ /\ part = "evidence" /\ Evidence!Init /\ Init
     /\ NoMachine /\ NoContainers /\ NoBuilds /\ NoDev
  \/ /\ part = "dev" /\ Dev!Init /\ Init
     /\ NoMachine /\ NoContainers /\ NoBuilds /\ NoEvidence

HostNext ==
  /\ UNCHANGED part
  /\ \/ /\ part = "trail" /\ Next
        /\ UNCHANGED <<machine, containers, building, attesting, developing>>
     \/ /\ part = "stall" /\ Stall!Next
        /\ UNCHANGED <<machine, containers, building, attesting, developing>>
     \/ /\ part = "vm" /\ Vm!Next
        /\ UNCHANGED <<vars, containers, building, attesting, developing>>
     \/ /\ part = "boot" /\ Boot!Next
        /\ UNCHANGED <<vars, machine, building, attesting, developing>>
     \/ /\ part = "images" /\ Images!Next
        /\ UNCHANGED <<vars, machine, containers, attesting, developing>>
     \/ /\ part = "evidence" /\ Evidence!Next
        /\ UNCHANGED <<vars, machine, containers, building, developing>>
     \/ /\ part = "dev" /\ Dev!Next
        /\ UNCHANGED <<vars, machine, containers, building, attesting>>

HostSpec == HostInit /\ [][HostNext]_state

-----------------------------------------------------------------------------
(* The audit trail: a cached head that a writer would trust is the end of  *)
(* the chain on disk and every record follows from the one before it, also *)
(* with a lock broken under a live writer, and then verification accepts.  *)
TrailHolds ==
  /\ part = "trail" => TypeOK /\ TrustedCacheIsCurrent /\ OneChain
  /\ part = "stall" => Stall!OneChain /\ Stall!VerifyAccepts

(* One VM runs under a sandbox name, and a session that exits leaves       *)
(* neither a VM nor a secrets disk behind.                                 *)
OneCleanVm == part = "vm" => Vm!TypeOK /\ Vm!OneVm /\ Vm!NothingLeftBehind

(* No secret's value is in a container's configuration, a record or a      *)
(* snapshot, and a boot or a teardown leaves what it said it would: no     *)
(* leftovers, no more privileges than asked for, no snapshot without state.*)
BootIsClean ==
  part = "boot" => /\ Boot!NoSecretRecorded /\ Boot!DownLeavesNothing
                   /\ Boot!PostureAsAsked /\ Boot!ListedHasState

(* While directories of one repository build, retire and sweep images, the *)
(* latest build of each stays, and the developer's lockfile is restored.   *)
BuildsAreKept == part = "images" => Images!LatestBuildKept /\ Images!LockfileRestored

(* What is attested of a boot was measured, of that boot.                  *)
EvidenceIsMeasured == part = "evidence" => Evidence!EvidenceIsMeasured

(* `berth dev` over a VM, at rest, runs the sources its watcher reported   *)
(* last, or has said that it does not; shut down, it leaves no VM.         *)
DevRunsWhatItSaw == part = "dev" => Dev!RunsWhatItSaw /\ Dev!NoVmLeft
=============================================================================
