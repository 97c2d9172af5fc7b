---------------------------- MODULE BootEvidence ----------------------------
(***************************************************************************)
(* What Berth says about enforcement: the probe of the container kernel    *)
(* and its cache (docker-orchestrator/src/doctor.ts), `berth doctor`, the  *)
(* delegation of cgroups a boot decides from the cache, the evidence of a  *)
(* boot (docker-orchestrator/src/attest.ts) that an MCP session records in *)
(* its run, and the verdict `berth attest` derives (audit/src/attest.ts).  *)
(*                                                                         *)
(* One sandbox name and one run id, which several sessions may share.  The *)
(* host can be restarted with another kernel, or with the same version     *)
(* configured differently.                                                 *)
(***************************************************************************)
EXTENDS Naturals, Sequences, FiniteSets

CONSTANTS
  Kernel,      \* kernels the host can be started with
  KernelRelease,  \* per kernel: the version docker.info() reports
  Runtime,     \* container runtimes of the daemon
  Answer,      \* per kernel and runtime: what the probe finds [status, abi, nsdelegate]
  App,         \* apps of the sandbox
  NetworkApp,  \* the ones whose policy has network rules
  Session,     \* `berth mcp` sessions of the run
  MaxStarts,   \* bound: boots of the sandbox, restarts of the host, sessions connected
  None

MIN_LANDLOCK_ABI == 4

VARIABLES
  host,     \* [kernel, epoch]: what runs now, and how often it was restarted
  cache,    \* enforcement-cache.json: per key the answer of a probe, or None
  box,      \* the container of the name [boot, runtime, up, delegated, log], or None
  boots,    \* the boots so far, in order [epoch, kernel, release, runtime, by, delegated, banner]
  gather,   \* per session: the evidence it reads [pc, runtime, boot, reports, probe]
  attached, \* per session: the boot its calls go to, or None
  trail,    \* the audit records of the run
  verdicts  \* what was concluded: attestations and doctor reports

vars == <<host, cache, box, boots, gather, attached, trail, verdicts>>

Unknown == [status |-> "unknown", abi |-> None, nsdelegate |-> None, epoch |-> None,
            release |-> None, runtime |-> None]

NoEvidence == [pc |-> "start", runtime |-> None, boot |-> None, reports |-> {},
               probe |-> Unknown]

Init ==
  /\ host \in [kernel : Kernel, epoch : {0}]
  /\ cache = [k \in {KernelRelease[x] : x \in Kernel} \X Runtime |-> None]
  /\ box = None
  /\ boots = <<>>
  /\ gather = [g \in Session |-> NoEvidence]
  /\ attached = [s \in Session |-> None]
  /\ trail = {}
  /\ verdicts = {}

\* The bound is not reached.
Room == Len(boots) + host.epoch + Cardinality({s \in Session : attached[s] # None}) < MaxStarts

-----------------------------------------------------------------------------
(* The kernel probe and its cache: enforcementStatusForBoot().             *)

\* The cache without the kernel in its key: a mutant.
CacheKeyOfRuntime(r) == <<CHOOSE v \in {KernelRelease[x] : x \in Kernel} : TRUE, r>>

CacheKey(r) == <<KernelRelease[host.kernel], r>>

\* What probeKernel() finds when its container runs under runtime r.
ProbeKernel(r) ==
  [status |-> Answer[host.kernel][r].status, abi |-> Answer[host.kernel][r].abi,
   nsdelegate |-> Answer[host.kernel][r].nsdelegate,
   epoch |-> host.epoch, release |-> KernelRelease[host.kernel], runtime |-> r]

\* The probe ran: its entry is written back.  (The file is read before the
\* probe and written whole after it: an entry lost to another process's write
\* costs a probe, which a missing entry here stands for.)
ProbeRuns(r) == cache' = [cache EXCEPT ![CacheKey(r)] = ProbeKernel(r)]

\* The probe could not run, or docker.info() failed: nothing is cached.
ProbeFails == UNCHANGED <<cache>>

BelowRequiredAbi(a) == a.abi # None /\ a.abi < MIN_LANDLOCK_ABI

-----------------------------------------------------------------------------
(* A boot: the banner and the delegation of cgroups, decided from the      *)
(* cache when it has an answer.                                            *)

CgroupDelegationVerdict(a) == a.nsdelegate = TRUE

Banner(a) ==
  CASE a.status = "enforcing" /\ BelowRequiredAbi(a) -> "partial"
    [] a.status \in {"unsupported", "present_not_enforcing"} -> "not active"
    [] OTHER -> None

\* What a boot under runtime r goes by: the cached answer, or else a probe, which
\* may fail.
BootLearns(r, a) ==
  LET hit == cache[CacheKey(r)] IN
  \/ hit # None /\ a = hit /\ UNCHANGED cache
  \/ hit = None /\ a = Unknown /\ ProbeFails
  \/ hit = None /\ a = ProbeKernel(r) /\ ProbeRuns(r)

Answers(r) == {cache[CacheKey(r)], Unknown, ProbeKernel(r)} \ {None}

\* The container is created and entrypoint.sh logs its boot id.
StartContainer(r) ==
  /\ box = None
  /\ Room
  /\ \E a \in Answers(r) :
       /\ BootLearns(r, a)
       /\ boots' = Append(boots, [epoch |-> host.epoch, kernel |-> host.kernel,
                                 release |-> KernelRelease[host.kernel], runtime |-> r,
                                 by |-> <<a.release, a.runtime, a.nsdelegate>>,
                                 delegated |-> CgroupDelegationVerdict(a), banner |-> Banner(a)])
  /\ box' = [boot |-> Len(boots) + 1, runtime |-> r, up |-> TRUE, log |-> {}]
  /\ UNCHANGED <<host, gather, attached, trail, verdicts>>

\* BERTH_REQUIRE_APP_CGROUPS: no delegation, no boot.
BootRefused(r) ==
  /\ box = None
  /\ \E a \in Answers(r) : BootLearns(r, a) /\ ~CgroupDelegationVerdict(a)
  /\ UNCHANGED <<host, box, boots, gather, attached, trail, verdicts>>

\* agent-init says what the kernel made of an app's ruleset.
RulesetOf(k, a) ==
  CASE k.status = "unsupported" -> "NotEnforced"
    [] k.status # "unsupported" /\ k.abi < MIN_LANDLOCK_ABI /\ a \in NetworkApp -> "PartiallyEnforced"
    [] OTHER -> "FullyEnforced"

AppStarts(a) ==
  /\ box # None /\ box.up
  /\ ~\E l \in box.log : l.boot = box.boot /\ l.app = a
  /\ box' = [box EXCEPT !.log = @ \cup {[boot |-> box.boot, app |-> a,
               ruleset |-> RulesetOf(Answer[host.kernel][box.runtime], a)]}]
  /\ UNCHANGED <<host, cache, boots, gather, attached, trail, verdicts>>

\* The container is restarted: another boot, the same log.
Restart ==
  /\ box # None
  /\ Room
  /\ boots' = Append(boots, [boots[box.boot] EXCEPT !.epoch = host.epoch, !.kernel = host.kernel])
  /\ box' = [box EXCEPT !.boot = Len(boots) + 1, !.up = TRUE]
  /\ UNCHANGED <<host, cache, gather, attached, trail, verdicts>>

Remove ==
  /\ box # None
  /\ box' = None
  /\ UNCHANGED <<host, cache, boots, gather, attached, trail, verdicts>>

\* The host, or the VM that is the daemon's host, restarts.
Reboot(k) ==
  /\ Room
  /\ host' = [kernel |-> k, epoch |-> host.epoch + 1]
  /\ box' = IF box = None THEN None ELSE [box EXCEPT !.up = FALSE]
  /\ UNCHANGED <<cache, boots, gather, attached, trail, verdicts>>

-----------------------------------------------------------------------------
(* A session: its calls, and the evidence it reads meanwhile.              *)

Connect(s) ==
  /\ Room
  /\ attached[s] = None
  /\ box # None /\ box.up
  /\ attached' = [attached EXCEPT ![s] = box.boot]
  /\ UNCHANGED <<host, cache, box, boots, gather, trail, verdicts>>

\* A call on the connection to the container the session attached to.
ToolCall(s) ==
  /\ attached[s] # None
  /\ box # None /\ box.up /\ box.boot = attached[s]
  /\ trail' = trail \cup {[kind |-> "call", session |-> s, boot |-> box.boot]}
  /\ UNCHANGED <<host, cache, box, boots, gather, attached, verdicts>>

\* gatherBootEvidence() finds the container by its name, not the one attached to.
Reading(g, pc) == gather[g].pc = pc /\ attached[g] # None

Read(g, e) ==
  /\ gather' = [gather EXCEPT ![g] = IF box # None /\ box.up THEN e ELSE [NoEvidence EXCEPT !.pc = "failed"]]
  /\ UNCHANGED <<host, cache, box, boots, attached, trail, verdicts>>

\* A report is of the newest boot id whatever boot it was logged in: a mutant.
ParseRulesetReportsAll(log, b) == {[r EXCEPT !.boot = b] : r \in log}

ParseRulesetReports(log, b) == {r \in log : r.boot = b}

\* The runtime, the log's newest boot id and its reports, and the policies.
EvidenceOf(pc) ==
  [NoEvidence EXCEPT !.pc = pc, !.runtime = box.runtime, !.boot = box.boot,
     !.reports = ParseRulesetReports(box.log, box.boot)]

ReadContainer(g) == Reading(g, "start") /\ Read(g, EvidenceOf("probe"))

\* The evidence with the cached answer where there is one: a mutant.
MeasureFromCache(g) ==
  LET hit == cache[CacheKey(gather[g].runtime)] IN
  \/ /\ hit # None /\ UNCHANGED <<cache>>
     /\ gather' = [gather EXCEPT ![g].pc = "done", ![g].probe = hit]
  \/ /\ hit = None
     /\ ProbeRuns(gather[g].runtime)
     /\ gather' = [gather EXCEPT ![g].pc = "done", ![g].probe = ProbeKernel(gather[g].runtime)]

\* `fresh`: the cache is not believed, only written.
Measure(g) ==
  \/ /\ ProbeRuns(gather[g].runtime)
     /\ gather' = [gather EXCEPT ![g].pc = "done", ![g].probe = ProbeKernel(gather[g].runtime)]
  \/ /\ ProbeFails
     /\ gather' = [gather EXCEPT ![g].pc = "done"]

MeasureKernel(g) ==
  /\ Reading(g, "probe")
  /\ Measure(g)
  /\ UNCHANGED <<host, box, boots, attached, trail, verdicts>>

\* The session writes its evidence into the run; a failed write is dropped.
RecordBoot(s) ==
  /\ Reading(s, "done")
  /\ gather' = [gather EXCEPT ![s] = [NoEvidence EXCEPT !.pc = "recorded"]]
  /\ trail' \in {trail, trail \cup {[kind |-> "boot", session |-> s, evidence |-> gather[s]]}}
  /\ UNCHANGED <<host, cache, box, boots, attached, verdicts>>

-----------------------------------------------------------------------------
(* `berth attest` and `berth doctor`.                                      *)

DeriveEnforcementStatus(e) ==
  IF \/ e.probe.status \in {"unsupported", "present_not_enforcing"}
     \/ \E r \in e.reports : r.ruleset # "FullyEnforced"
  THEN "NOT_ENFORCED"
  ELSE IF e.probe.status = "unknown" \/ e.reports = {} THEN "UNDETERMINED" ELSE "ACTIVE"

Calls == {t \in trail : t.kind = "call"}
Recorded == {t \in trail : t.kind = "boot"}

\* What must match for two records to describe the same boot.
BootIdentity(e) == <<e.boot, e.runtime, e.reports>>

\* Any evidence the run has, whoever recorded it: a mutant.
RecordedBootEvidenceOfAny(e) == \E t \in Recorded : t.evidence = e

\* The evidence a run can be attested from, when it has one answer.
RecordedBootEvidence(e) ==
  /\ \E t \in Recorded : t.evidence = e
  /\ \A c \in Calls : \E t \in Recorded : t.session = c.session
  /\ \A t \in Recorded : BootIdentity(t.evidence) = BootIdentity(e)

Emit(e, source) ==
  /\ trail # {}
  /\ verdicts' = verdicts \cup {[by |-> "attest", source |-> source, status |-> DeriveEnforcementStatus(e),
                                 evidence |-> e, calls |-> Calls]}

AttestRecorded ==
  /\ \E t \in Recorded : RecordedBootEvidence(t.evidence) /\ Emit(t.evidence, "recorded")
  /\ UNCHANGED <<host, cache, box, boots, gather, attached, trail>>

\* --container, or a run that recorded nothing: the evidence of the live sandbox,
\* read the way a session reads it (whose interleavings stand for these).
AttestLive ==
  /\ box # None /\ box.up
  /\ \/ ProbeRuns(box.runtime) /\ Emit([EvidenceOf("done") EXCEPT !.probe = ProbeKernel(box.runtime)], "live")
     \/ ProbeFails /\ Emit(EvidenceOf("done"), "live")
  /\ UNCHANGED <<host, box, boots, gather, attached, trail>>

\* runDoctor(): the landlock check of a probe, or "unknown" when an earlier
\* check failed, no image was found or pulled, or the probe did not answer.
LandlockCheck(a) ==
  CASE a.status = "unknown" -> "unknown"
    [] a.status = "enforcing" /\ ~BelowRequiredAbi(a) -> "ok"
    [] OTHER -> "fail"

DoctorVerdict(a) ==
  CASE LandlockCheck(a) = "ok" -> "ACTIVE"
    [] LandlockCheck(a) = "fail" -> "NOT_ENFORCED"
    [] OTHER -> "UNDETERMINED"

\* It reads the host and nothing else: run before the first boot.
Doctor(r) ==
  /\ boots = <<>>
  /\ \E a \in {Unknown, ProbeKernel(r)} :
       verdicts' = verdicts \cup {[by |-> "doctor", source |-> "live", status |-> DoctorVerdict(a),
                                   evidence |-> [NoEvidence EXCEPT !.runtime = r, !.probe = a],
                                   calls |-> {}]}
  /\ UNCHANGED <<host, cache, box, boots, gather, attached, trail>>

\* A behaviour is followed to its first verdict, on which nothing depends.
Next ==
  /\ verdicts = {}
  /\ \/ \E r \in Runtime : StartContainer(r) \/ BootRefused(r) \/ Doctor(r)
     \/ Restart \/ Remove \/ AttestRecorded \/ AttestLive
     \/ \E a \in App : AppStarts(a)
     \/ \E k \in Kernel : Reboot(k)
     \/ \E s \in Session : Connect(s) \/ ToolCall(s) \/ RecordBoot(s)
     \/ \E g \in Session : ReadContainer(g) \/ MeasureKernel(g)

Spec == Init /\ [][Next]_vars

-----------------------------------------------------------------------------
\* deriveEnforcementStatus() and runDoctor(): a verdict of ACTIVE rests on a
\* probe that ran under the runtime the evidence names, no earlier than the
\* boot it is about, and on rulesets that boot itself reported in full.
ActiveIsMeasured ==
  \A v \in verdicts : LET e == v.evidence IN
    v.status = "ACTIVE" =>
      /\ e.probe.status = "enforcing" /\ e.probe.runtime = e.runtime
      /\ e.boot # None => /\ e.probe.epoch >= boots[e.boot].epoch
                         /\ \A r \in e.reports :
                              RulesetOf(Answer[boots[e.boot].kernel][boots[e.boot].runtime], r.app)
                                = "FullyEnforced"

\* recordedBootEvidence(): a run is never attested with the evidence of a boot
\* that was over before one of its calls ran, however many sessions shared its
\* run id and whichever of them failed to record theirs.
NeverAnEarlierBoot ==
  \A v \in verdicts : v.source = "recorded" => \A c \in v.calls : c.boot <= v.evidence.boot

\* cgroupDelegationForBoot(): a sandbox gets a writable cgroup tree only where a
\* probe of the kernel release it is started on, under its own runtime, has
\* seen nsdelegate: also where the host was restarted since the cache was written.
DelegationWasProbed ==
  \A i \in DOMAIN boots :
    boots[i].delegated => boots[i].by = <<boots[i].release, boots[i].runtime, TRUE>>

\* What an attestation and `berth os` say of a boot was measured, and of it.
EvidenceIsMeasured == ActiveIsMeasured /\ NeverAnEarlierBoot /\ DelegationWasProbed
=============================================================================
