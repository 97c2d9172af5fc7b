------------------------------ MODULE VmSandbox ------------------------------
(***************************************************************************)
(* BackgroundSandbox over local microVMs: the SandboxSteps of              *)
(* cli/src/vm/mcp.ts, bootVm (vm/runtime.ts) and the VmSandbox class       *)
(* (vm/sandbox.ts).  Sessions meet in one run directory: the pid file,     *)
(* vm.json, the sockets and the secrets disk.  A session boots at most one *)
(* VM, a detached process that outlives it, and the VM is named after it.  *)
(* What the code does without an await is one step.                        *)
(***************************************************************************)
EXTENDS BackgroundSandbox, FiniteSets, Naturals

VARIABLES
  vm,       \* per session: its VM: "none", "spawned", "measured", "serving", "dead"
  pidFile,  \* the VM the pid file names, or None
  record,   \* the VM vm.json names, or None
  sockets,  \* the VM whose sockets are in the run dir, or None
  disk,     \* the VM whose secrets disk is in the run dir, or None
  step,     \* per session: where its boot() is suspended
  dial,     \* per session and flow: the VM whose control port find() is trying
  halt      \* per session and flow: where its stopByName() is suspended

runDir == <<pidFile, record, sockets, disk>>
flows == <<step, dial, halt>>
vars == <<session, vm, runDir, flows>>

Init ==
  /\ SessionInit
  /\ vm = [s \in Session |-> "none"]
  /\ pidFile = None /\ record = None /\ sockets = None /\ disk = None
  /\ step = [s \in Session |-> "bundle"]
  /\ dial = [s \in Session |-> [f \in Flow |-> None]]
  /\ halt = [s \in Session |-> [f \in Flow |-> "look"]]

Up(v) == vm[v] \in {"spawned", "measured", "serving"}
Answers(v) == vm[v] = "serving" /\ sockets = v

CleanRunDir == pidFile' = None /\ record' = None /\ sockets' = None /\ disk' = None

\* What a process that has ended no longer knows.
Memory(s) ==
  IF life'[s] = "alive" THEN UNCHANGED flows
  ELSE /\ step' = [step EXCEPT ![s] = "bundle"]
       /\ dial' = [dial EXCEPT ![s] = [f \in Flow |-> None]]
       /\ halt' = [halt EXCEPT ![s] = [f \in Flow |-> "look"]]

-----------------------------------------------------------------------------
(* VmSandbox.find(): up to the control port it does not wait for anything.  *)

NothingThere == pidFile = None /\ record = None
Named == IF record # None THEN record ELSE pidFile
\* Judged stale: the VM is gone, or there is no vm.json.
Stale == ~NothingThere /\ (~Up(Named) \/ record = None)
Dials == ~NothingThere /\ ~Stale

FindIdle(s) == main[s] \in {"find", "claimed"} /\ dial[s]["main"] = None

FindNothing(s) ==
  /\ FindIdle(s)
  /\ \/ NothingThere /\ UNCHANGED runDir
     \/ Stale /\ CleanRunDir
  /\ Looked(s, FALSE) \/ LookedAgain(s, FALSE)
  /\ UNCHANGED <<vm, flows>>

FindDials(s) ==
  /\ Alive(s) /\ FindIdle(s) /\ Dials
  /\ dial' = [dial EXCEPT ![s]["main"] = Named]
  /\ UNCHANGED <<session, vm, runDir, step, halt>>

\* openControl() is greeted, or gives up after three seconds and throws.
FindEnds(s) ==
  LET v == dial[s]["main"] IN
  /\ main[s] \in {"find", "claimed"} /\ v # None
  /\ \/ Answers(v) /\ (Looked(s, TRUE) \/ LookedAgain(s, TRUE))
     \/ ~Answers(v) /\ FindThrows(s)
  /\ dial' = [dial EXCEPT ![s]["main"] = None]
  /\ UNCHANGED <<vm, runDir, step, halt>>

Attach(s) ==
  /\ Attached(s)
  /\ UNCHANGED <<vm, runDir, flows>>

-----------------------------------------------------------------------------
(* boot(): bootVm and VmSandbox.start().                                    *)

At(s, pc) == Alive(s) /\ main[s] = "boot" /\ step[s] = pc
StepTo(s, pc) == step' = [step EXCEPT ![s] = pc] /\ UNCHANGED <<dial, halt>>

\* The apps are bundled, and the signal is checked.
Bundle(s) ==
  /\ At(s, "bundle") /\ s \notin aborted
  /\ StepTo(s, "spawn")
  /\ UNCHANGED <<session, vm, runDir>>

\* The layers are there: the run dir is cleaned, the secrets disk written,
\* berth-vmm spawned and its pid file written, without looking at the signal.
Spawn(s) ==
  /\ At(s, "spawn")
  /\ vm' = [vm EXCEPT ![s] = "spawned"]
  /\ pidFile' = s /\ record' = None /\ sockets' = None /\ disk' = s
  /\ StepTo(s, "lines")
  /\ UNCHANGED session

\* waitForVmmLines() has seen the measurements: vm.json is written.
WriteRecord(s) ==
  /\ At(s, "lines") /\ vm[s] \in {"measured", "serving"}
  /\ record' = s
  /\ StepTo(s, "control")
  /\ UNCHANGED <<session, vm, pidFile, sockets, disk>>

OpenControl(s) ==
  /\ At(s, "control") /\ Answers(s)
  /\ StepTo(s, "apps")
  /\ UNCHANGED <<session, vm, runDir>>

\* Every app is ready: the secrets disk has been read.
AppsReady(s) ==
  /\ At(s, "apps") /\ vm[s] = "serving"
  /\ disk' = None
  /\ StepTo(s, "connect")
  /\ UNCHANGED <<session, vm, pidFile, record, sockets>>

Connect(s) ==
  /\ At(s, "connect")
  /\ Booted(s)
  /\ UNCHANGED <<vm, runDir, flows>>

\* Before the spawn, and after start() has returned, a failure throws as it is.
BootFails(s) ==
  /\ step[s] \in {"bundle", "spawn", "connect"}
  /\ BootThrows(s)
  /\ UNCHANGED <<vm, runDir, flows>>

\* In between start() catches it: timeouts, the signal, a VM that exited...
StartFails(s) ==
  /\ step[s] \in {"lines", "control", "apps"} /\ At(s, step[s])
  /\ StepTo(s, "undo")
  /\ UNCHANGED <<session, vm, runDir>>

\* A catch block that only rethrows.
UndoNothing(s) ==
  /\ At(s, "undo")
  /\ BootThrows(s)
  /\ UNCHANGED <<vm, runDir, flows>>

\* ...and stops the VM it spawned, by the pid it knows, before it rethrows.
Undo(s) ==
  /\ At(s, "undo")
  /\ vm' = [vm EXCEPT ![s] = "dead"]
  /\ CleanRunDir
  /\ BootThrows(s)
  /\ UNCHANGED flows

-----------------------------------------------------------------------------
(* VmSandbox.stopByName()                                                   *)

HaltAt(s, f, pc) == Halting(s, f) /\ halt[s][f] = pc

HaltReturns(s, f) ==
  /\ IF f = "main" THEN CleanedUp(s) ELSE Stopped(s)
  /\ IF life'[s] = "alive"
     THEN /\ halt' = [halt EXCEPT ![s][f] = "look"]
          /\ dial' = [dial EXCEPT ![s][f] = None]
          /\ UNCHANGED step
     ELSE Memory(s)

\* Its find() comes back with nothing, having cleaned what it judged stale;
\* what the pid file names now is killed, and the run dir cleaned again.
HaltNothing(s, f) ==
  /\ HaltAt(s, f, "look") /\ ~Dials
  /\ CleanRunDir
  /\ HaltReturns(s, f)
  /\ UNCHANGED vm

HaltDials(s, f) ==
  /\ HaltAt(s, f, "look") /\ Dials
  /\ dial' = [dial EXCEPT ![s][f] = Named]
  /\ halt' = [halt EXCEPT ![s][f] = "dial"]
  /\ UNCHANGED <<session, vm, runDir, step>>

\* Greeted: stop() it.  Not greeted: SIGKILL to the pid in the pid file.
HaltDialled(s, f) ==
  LET v == dial[s][f] IN
  /\ HaltAt(s, f, "dial")
  /\ \/ /\ Answers(v)
        /\ halt' = [halt EXCEPT ![s][f] = "stop"]
        /\ UNCHANGED <<session, vm, runDir, step, dial>>
     \/ /\ ~Answers(v)
        /\ vm' = [w \in Session |-> IF w = pidFile /\ Up(w) THEN "dead" ELSE vm[w]]
        /\ CleanRunDir
        /\ HaltReturns(s, f)

\* stop(): the guest powers off, or is killed by its pid; then the clean-up.
HaltStop(s, f) ==
  LET v == dial[s][f] IN
  /\ HaltAt(s, f, "stop")
  /\ vm' = [vm EXCEPT ![v] = "dead"]
  /\ CleanRunDir
  /\ HaltReturns(s, f)

-----------------------------------------------------------------------------
(* berth-vmm: external to the CLI.  It binds its sockets in the run dir,    *)
(* prints its measurements and boots; it may end at any time.               *)

VmMeasures(v) ==
  /\ vm[v] = "spawned"
  /\ vm' = [vm EXCEPT ![v] = "measured"]
  /\ sockets' = v
  /\ UNCHANGED <<session, pidFile, record, disk, flows>>

VmServes(v) ==
  /\ vm[v] = "measured"
  /\ vm' = [vm EXCEPT ![v] = "serving"]
  /\ UNCHANGED <<session, runDir, flows>>

VmExits(v) ==
  /\ Up(v)
  /\ vm' = [vm EXCEPT ![v] = "dead"]
  /\ UNCHANGED <<session, runDir, flows>>

Steps(s) ==
  \/ FindNothing(s) \/ FindDials(s) \/ FindEnds(s) \/ Attach(s)
  \/ Poll(s) /\ UNCHANGED <<vm, runDir, flows>>
  \/ Bundle(s) \/ Spawn(s) \/ WriteRecord(s) \/ OpenControl(s) \/ AppsReady(s)
  \/ Connect(s) \/ BootFails(s) \/ StartFails(s) \/ Undo(s)

Halts(s, f) ==
  HaltNothing(s, f) \/ HaltDials(s, f) \/ HaltDialled(s, f) \/ HaltStop(s, f)

Next ==
  \E s \in Session :
    \/ Steps(s)
    \/ \E f \in Flow : Halts(s, f)
    \/ /\ Begin(s) \/ Stop(s) \/ BootSettles(s) \/ Kill(s)
       /\ Memory(s) /\ UNCHANGED <<vm, runDir>>
    \/ VmMeasures(s) \/ VmServes(s) \/ VmExits(s)

Spec == Init /\ [][Next]_vars

\* A session's boot flow goes on: each of its waits has a deadline.
Fairness ==
  \A s \in Session : WF_vars(Steps(s) \/ Halts(s, "main"))

FairSpec == Spec /\ Fairness

-----------------------------------------------------------------------------
(* Properties. *)

\* Every variable has its type.
TypeOK ==
  /\ SessionTypeOK
  /\ vm \in [Session -> {"none", "spawned", "measured", "serving", "dead"}]
  /\ pidFile \in Session \cup {None} /\ record \in Session \cup {None}
  /\ sockets \in Session \cup {None} /\ disk \in Session \cup {None}
  /\ step \in [Session -> {"bundle", "spawn", "lines", "control", "apps",
                           "connect", "undo"}]
  /\ dial \in [Session -> [Flow -> Session \cup {None}]]
  /\ halt \in [Session -> [Flow -> {"look", "dial", "stop"}]]

\* One VM per sandbox name, of two sessions that may boot and are not killed in
\* the middle of it: two VMs would write the same state disk.  (A third session
\* finds nothing where one's late stopByName() has cleaned the run directory of
\* the other's VM, and boots a second.)
OneVm ==
  /\ Cardinality({s \in Session \ NoBoot : life[s] # "new"}) <= 2
  /\ \A s \in Session : life[s] # "killed"
  => Cardinality({v \in Session : Up(v)}) <= 1

\* The only session that has booted a VM leaves none running when it exits,
\* at whatever point of the boot its client left.  (With two, one's late
\* stopByName() can clean the run directory of the other's VM.)  And values
\* that were put on a secrets disk are off the host's disk as soon as the boot
\* that needed them has ended, well or badly.
NothingLeftBehind ==
  \A s \in Session :
    /\ life[s] = "exited" /\ (\A t \in Session \ {s} : vm[t] = "none") => ~Up(s)
    /\ main[s] \in Settled => disk # s
=============================================================================
