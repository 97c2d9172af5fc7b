------------------------ MODULE DockerSandboxProofs ------------------------
(***************************************************************************)
(* Proofs about DockerSandbox: for any number of sessions around one name, *)
(* a session that boots is the only one and finds the name free, and one   *)
(* that was not killed leaves nothing of its sandbox behind.               *)
(***************************************************************************)
EXTENDS DockerSandbox, Integers, SequenceTheorems, WellFoundedInduction, FiniteSetTheorems, TLAPS

-----------------------------------------------------------------------------
(* The inductive invariant, session by session. *)

\* From its claim to the end of its boot, a session holds the claim.
HoldsClaim(s) == main[s] \in {"claimed", "boot", "cleanup"} => claim = s

\* Under the claim the daemon's "absent" stays true, up to the create.
NameIsFree(s) ==
  \/ main[s] = "claimed" /\ seen[s] = "absent"
  \/ main[s] = "boot" /\ step[s] \notin {"start", "ready"}
  => ~Exists

\* What a session has made it owns, until it has taken it down or is killed.
OwnsWhatItMade(s) ==
  /\ main[s] = "boot" => s \in owns
  /\ life[s] = "exited" => s \notin owns
  /\ ~SettleTimesOut /\ s \notin owns /\ life[s] # "killed" =>
       ~Mine(s) /\ sidecar # s /\ secrets # s

\* The last stopByName() of a stop starts once the boot flow has settled, and
\* takes down one thing after another.
StopsInOrder(s) ==
  /\ stopper[s] \in {"no", "settling"} => halt[s]["stop"] = "sidecar"
  /\ ~SettleTimesOut /\ stopper[s] \in {"stopping", "stoppingAgain"} =>
       /\ main[s] \in Settled
       /\ halt[s]["stop"] # "sidecar" => sidecar # s
       /\ halt[s]["stop"] = "secrets" => ~Mine(s)

SessionInv(s) == HoldsClaim(s) /\ NameIsFree(s) /\ OwnsWhatItMade(s) /\ StopsInOrder(s)

SandboxInv == TypeOK /\ \A s \in Session : SessionInv(s)

-----------------------------------------------------------------------------
(* The sessions a step is not of. *)

\* Everything another session has stays: where it is, what it owns, the claim
\* if it holds it, and what it knows.
OthersInSession(t) ==
  \A s \in Session \ {t} :
    /\ life'[s] = life[s] /\ main'[s] = main[s] /\ stopper'[s] = stopper[s]
    /\ s \in owns' <=> s \in owns
    /\ claim = s => claim' = s

OthersKeep(t) ==
  /\ OthersInSession(t)
  /\ \A s \in Session \ {t} :
       seen'[s] = seen[s] /\ step'[s] = step[s] /\ halt'[s] = halt[s]

(* A session that keeps what it has keeps its invariant, unless somebody   *)
(* gives it a container, a sidecar or credentials, or creates a container  *)
(* while it holds the claim.                                               *)
LEMMA Bystander ==
    ASSUME NEW t \in Session, OthersKeep(t), NEW s \in Session \ {t}, SessionInv(s),
           Mine(s)' => Mine(s), sidecar' = s => sidecar = s, secrets' = s => secrets = s,
           claim = s /\ ~Exists => ~Exists'
    PROVE  SessionInv(s)'
  <1>1. HoldsClaim(s)'
    BY DEF OthersKeep, OthersInSession, SessionInv, HoldsClaim
  <1>2. NameIsFree(s)'
    BY DEF OthersKeep, OthersInSession, SessionInv, HoldsClaim, NameIsFree
  <1>3. OwnsWhatItMade(s)'
    BY DEF OthersKeep, OthersInSession, SessionInv, OwnsWhatItMade
  <1>4. StopsInOrder(s)'
    BY DEF OthersKeep, OthersInSession, SessionInv, StopsInOrder
  <1> QED
    BY <1>1, <1>2, <1>3, <1>4 DEF SessionInv

HaltPC == {"sidecar", "inspect", "stop", "remove", "secrets"}

(* A stopByName() that goes on leaves every other one where it is.         *)
LEMMA HaltMoves ==
    ASSUME TypeOK, NEW s \in Session, NEW f \in Flow, NEW next \in HaltPC, HaltGoto(s, f, next)
    PROVE  /\ halt' \in [Session -> [Flow -> HaltPC]]
           /\ halt'[s][f] = next
           /\ \A g \in Flow \ {f} : halt'[s][g] = halt[s][g]
           /\ \A t \in Session \ {s} : halt'[t] = halt[t]
  BY DEF TypeOK, HaltGoto, HaltPC

(* A process that ends forgets only what it knew itself.                   *)
LEMMA MemoryMine ==
    ASSUME TypeOK, NEW t \in Session, Memory(t)
    PROVE  /\ \A s \in Session \ {t} :
                seen'[s] = seen[s] /\ step'[s] = step[s] /\ halt'[s] = halt[s]
           /\ life'[t] # "alive" => halt'[t] = [f \in Flow |-> "sidecar"]
           /\ life'[t] = "alive" => UNCHANGED <<seen, step, degraded, halt>>
           /\ seen' \in [Session -> {"unasked", "there", "absent"}]
           /\ step' \in [Session -> {"build", "clearSidecar", "sidecar", "secrets",
                                    "create", "start", "ready"}]
           /\ degraded' \subseteq Session
           /\ halt' \in [Session -> [Flow -> HaltPC]]
  <1>1. CASE life'[t] = "alive"
    BY <1>1 DEF Memory, TypeOK, HaltPC
  <1>2. CASE life'[t] # "alive"
    <2>1. /\ seen' = [seen EXCEPT ![t] = "unasked"] /\ step' = [step EXCEPT ![t] = "build"]
          /\ degraded' = degraded \ {t}
          /\ halt' = [halt EXCEPT ![t] = [f \in Flow |-> "sidecar"]]
      BY <1>2 DEF Memory
    <2>2. [f \in Flow |-> "sidecar"] \in [Flow -> HaltPC]
      BY DEF HaltPC
    <2>3. halt \in [Session -> [Flow -> HaltPC]]
      BY DEF TypeOK, HaltPC
    <2> QED
      BY <1>2, <2>1, <2>2, <2>3 DEF TypeOK
  <1> QED
    BY <1>1, <1>2

\* What one session's flow does to the state the sessions share among them.
FlowStep(t) ==
  \/ \E found \in BOOLEAN : Looked(t, found) \/ LookedAgain(t, found)
  \/ Attached(t) \/ Poll(t) \/ Booted(t) \/ BootThrows(t) \/ NameConflict(t) \/ CleanedUp(t)
  \/ Begin(t) \/ Stop(t) \/ Stopped(t) \/ BootSettles(t) \/ Kill(t)
  \/ UNCHANGED session

(* Such a step is typed, and concerns no other session.                    *)
LEMMA FlowStepMine ==
    ASSUME SessionTypeOK, NEW t \in Session, FlowStep(t)
    PROVE  SessionTypeOK' /\ OthersInSession(t)
  <1> USE DEF SessionTypeOK, OthersInSession
  <1>1. CASE UNCHANGED session
    BY <1>1 DEF session
  <1>2. ASSUME NEW how \in {"exited", "killed"}, Ends(t, how)
        PROVE  SessionTypeOK' /\ OthersInSession(t)
    BY <1>2 DEF Ends, ReleaseClaim
  <1>3. CASE Stop(t)
    BY <1>2, <1>3 DEF Stop
  <1>4. CASE Stopped(t)
    BY <1>2, <1>4 DEF Stopped
  <1>5. CASE Kill(t)
    BY <1>2, <1>5 DEF Kill
  <1>6. ASSUME NEW found \in BOOLEAN, Looked(t, found)
        PROVE  SessionTypeOK' /\ OthersInSession(t)
    BY <1>6, SessionsAssumption DEF Looked, Goto
  <1>7. ASSUME NEW found \in BOOLEAN, LookedAgain(t, found)
        PROVE  SessionTypeOK' /\ OthersInSession(t)
    BY <1>7 DEF LookedAgain, Goto, ReleaseClaim
  <1>8. CASE Attached(t) \/ Poll(t) \/ Booted(t) \/ BootThrows(t) \/ NameConflict(t) \/ CleanedUp(t)
    BY <1>8 DEF Attached, Poll, Booted, BootThrows, NameConflict, CleanedUp, Goto, ReleaseClaim
  <1>9. CASE Begin(t) \/ BootSettles(t)
    BY <1>9 DEF Begin, BootSettles
  <1> QED
    BY <1>1, <1>3, <1>4, <1>5, <1>6, <1>7, <1>8, <1>9 DEF FlowStep

-----------------------------------------------------------------------------
(* The steps of a session. *)

(* A step that leaves Docker alone: what is left to show is that it is     *)
(* typed, is its session's own, and keeps its session's invariant.         *)
LEMMA DockerQuiet ==
    ASSUME SandboxInv, UNCHANGED docker, NEW t \in Session, TypeOK', OthersKeep(t), SessionInv(t)'
    PROVE  SandboxInv'
  <1>1. container' = container /\ sidecar' = sidecar /\ secrets' = secrets
    BY DEF docker
  <1>2. ASSUME NEW s \in Session \ {t} PROVE SessionInv(s)'
    BY <1>1, Bystander DEF SandboxInv, Mine, Exists
  <1> QED
    BY <1>2 DEF SandboxInv

(* One that takes credentials away does no more to the other sessions.     *)
LEMMA SecretsGone ==
    ASSUME SandboxInv, container' = container, sidecar' = sidecar, secrets' = None,
           NEW t \in Session, TypeOK', OthersKeep(t), SessionInv(t)'
    PROVE  SandboxInv'
  <1>1. ASSUME NEW s \in Session \ {t} PROVE SessionInv(s)'
    BY SessionsAssumption, Bystander DEF SandboxInv, Mine, Exists
  <1> QED
    BY <1>1 DEF SandboxInv

(* The session looks for a sandbox, attaches, polls, builds or fails.      *)
LEMMA LookStep ==
    ASSUME SandboxInv, NEW t \in Session,
           \/ Inspect(t) \/ Find(t) \/ Attach(t) \/ Build(t) \/ BootFails(t) \/ Ready(t)
           \/ Poll(t) /\ UNCHANGED <<seen, step, degraded, docker, halt>>
    PROVE  SandboxInv'
  <1>0. /\ TypeOK /\ SessionTypeOK /\ SessionInv(t) /\ t # None
    BY SessionsAssumption DEF SandboxInv, TypeOK
  <1>1. /\ container' = container /\ sidecar' = sidecar /\ secrets' = secrets /\ halt' = halt
        /\ degraded' = degraded
    BY DEF Inspect, Find, Attach, Build, BootFails, Ready, docker
  <1>2. FlowStep(t)
    BY DEF Inspect, Find, Attach, Build, BootFails, Ready, FlowStep
  <1>3. SessionTypeOK' /\ OthersInSession(t)
    BY <1>0, <1>2, FlowStepMine
  <1>4. /\ seen' \in [Session -> {"unasked", "there", "absent"}]
        /\ step' \in [Session -> {"build", "clearSidecar", "sidecar", "secrets",
                                 "create", "start", "ready"}]
        /\ \A s \in Session \ {t} : seen'[s] = seen[s] /\ step'[s] = step[s]
    BY <1>0 DEF TypeOK, Inspect, Find, Attach, Build, BootFails, Ready, StepTo
  <1>5. TypeOK' /\ OthersKeep(t)
    BY <1>0, <1>1, <1>3, <1>4 DEF TypeOK, OthersKeep
  <1>6. SessionInv(t)'
    <2> USE DEF SessionInv, HoldsClaim, NameIsFree, OwnsWhatItMade, StopsInOrder, Exists, Mine
    <2>1. CASE Inspect(t)
      <3>1. /\ seen'[t] = IF Exists THEN "there" ELSE "absent"
            /\ main[t] \in {"find", "claimed"} /\ UNCHANGED session
        BY <1>0, <2>1 DEF Inspect, TypeOK
      <3> QED
        BY <1>0, <1>1, <3>1 DEF session
    <2>2. CASE Find(t)
      <3>1. seen'[t] = "unasked" /\ step' = step
        BY <1>0, <2>2 DEF Find, TypeOK
      <3>2. CASE Looked(t, seen[t] = "there")
        <4>1. /\ main[t] = "find" /\ main'[t] \in {"failed", "attaching", "claimed", "poll"}
              /\ main'[t] = "claimed" => claim' = t
              /\ life' = life /\ owns' = owns /\ stopper' = stopper
          BY <1>0, <3>2 DEF Looked, Goto, SessionTypeOK
        <4> QED
          BY <1>0, <1>1, <3>1, <4>1 DEF Settled
      <3>3. CASE LookedAgain(t, seen[t] = "there")
        <4>1. /\ main[t] = "claimed" /\ life' = life /\ stopper' = stopper /\ life[t] = "alive"
              /\ \/ main'[t] = "attaching" /\ owns' = owns
                 \/ /\ main'[t] = "boot" /\ t \in owns' /\ claim' = claim /\ seen[t] # "there"
          BY <1>0, <3>3 DEF LookedAgain, Alive, Goto, SessionTypeOK
        <4>2. main'[t] = "boot" => seen[t] = "absent"
          BY <1>0, <2>2, <4>1 DEF Find, TypeOK
        <4> QED
          BY <1>0, <1>1, <3>1, <4>1, <4>2 DEF Settled
      <3> QED
        BY <2>2, <3>2, <3>3 DEF Find
    <2>3. CASE Attach(t) \/ (Poll(t) /\ UNCHANGED <<seen, step, degraded, docker, halt>>)
      <3>1. /\ main[t] \in {"attaching", "poll"} /\ main'[t] \in {"ready", "failed", "find"}
            /\ life' = life /\ owns' = owns /\ stopper' = stopper
        BY <1>0, <2>3 DEF Attach, Attached, Poll, Goto, SessionTypeOK
      <3> QED
        BY <1>0, <1>1, <3>1 DEF Settled
    <2>4. CASE Build(t)
      <3>1. /\ main[t] = "boot" /\ step[t] = "build" /\ step'[t] = "clearSidecar"
            /\ UNCHANGED session /\ seen' = seen
        BY <1>0, <2>4 DEF Build, At, StepTo, TypeOK
      <3> QED
        BY <1>0, <1>1, <3>1 DEF session
    <2>5. CASE BootFails(t)
      <3>1. /\ main[t] = "boot" /\ main'[t] = "cleanup"
            /\ life' = life /\ owns' = owns /\ stopper' = stopper /\ claim' = claim
        BY <1>0, <2>5 DEF BootFails, BootThrows, Goto, SessionTypeOK
      <3> QED
        BY <1>0, <1>1, <3>1 DEF Settled
    <2>6. CASE Ready(t)
      <3>1. /\ main[t] = "boot" /\ main'[t] = "ready"
            /\ life' = life /\ owns' = owns /\ stopper' = stopper
        BY <1>0, <2>6 DEF Ready, Booted, Goto, SessionTypeOK
      <3> QED
        BY <1>0, <1>1, <3>1 DEF Settled
    <2> QED
      BY <2>1, <2>2, <2>3, <2>4, <2>5, <2>6
  <1> QED
    BY <1>1, <1>5, <1>6, DockerQuiet DEF docker

(* The boot makes a sidecar, credentials and the container, under its      *)
(* claim.                                                                  *)
LEMMA MakeStep ==
    ASSUME SandboxInv, NEW t \in Session,
           ClearSidecar(t) \/ StartSidecar(t) \/ WriteSecrets(t) \/ CreateContainer(t)
           \/ StartContainer(t)
    PROVE  SandboxInv'
  <1>0. /\ TypeOK /\ SessionInv(t) /\ t # None /\ None \notin Session
        /\ main[t] = "boot" /\ claim = t /\ t \in owns /\ life[t] = "alive"
    BY SessionsAssumption DEF SandboxInv, SessionInv, HoldsClaim, OwnsWhatItMade, ClearSidecar,
       StartSidecar, WriteSecrets, CreateContainer, StartContainer, At, Alive
  <1>1. UNCHANGED session
    <2>1. CASE ClearSidecar(t) \/ StartSidecar(t) \/ WriteSecrets(t) \/ StartContainer(t)
      BY <2>1 DEF ClearSidecar, StartSidecar, WriteSecrets, StartContainer
    <2>2. CASE CreateContainer(t)
      <3>1. ~Exists
        BY <1>0, <2>2 DEF SessionInv, NameIsFree, CreateContainer, At
      <3> QED
        BY <2>2, <3>1 DEF CreateContainer
    <2> QED
      BY <2>1, <2>2
  <1>2. SessionTypeOK' /\ OthersInSession(t)
    BY <1>0, <1>1, FlowStepMine DEF FlowStep, TypeOK
  <1>3. /\ seen' = seen /\ halt' = halt /\ degraded' \in {degraded, degraded \cup {t}}
        /\ sidecar' \in {sidecar, None, t} /\ secrets' \in {secrets, t}
    BY DEF ClearSidecar, StartSidecar, WriteSecrets, CreateContainer, StartContainer
  <1>4. \E next \in {"sidecar", "secrets", "create", "start", "ready"} :
           /\ step' = [step EXCEPT ![t] = next]
           /\ next \notin {"start", "ready"} => container' = container
           /\ next = "start" => ~Exists /\ container' = [by |-> t, st |-> "created"]
           /\ next = "ready" => Mine(t) /\ container' = [container EXCEPT !.st = "running"]
    <2>1. CASE ClearSidecar(t)
      BY <2>1 DEF ClearSidecar, StepTo
    <2>2. CASE StartSidecar(t)
      BY <2>2 DEF StartSidecar, StepTo
    <2>3. CASE WriteSecrets(t)
      BY <2>3 DEF WriteSecrets, StepTo
    <2>4. CASE CreateContainer(t)
      <3>1. ~Exists
        BY <1>0, <2>4 DEF SessionInv, NameIsFree, CreateContainer, At
      <3> QED
        BY <2>4, <3>1 DEF CreateContainer, StepTo
    <2>5. CASE StartContainer(t)
      BY <2>5 DEF StartContainer, StepTo
    <2> QED
      BY <2>1, <2>2, <2>3, <2>4, <2>5
  <1>5. PICK next \in {"sidecar", "secrets", "create", "start", "ready"} :
           /\ step' = [step EXCEPT ![t] = next]
           /\ next \notin {"start", "ready"} => container' = container
           /\ next = "start" => ~Exists /\ container' = [by |-> t, st |-> "created"]
           /\ next = "ready" => Mine(t) /\ container' = [container EXCEPT !.st = "running"]
    BY <1>4
  <1>6. /\ container' \in [by : Session, st : {"created", "running", "exited"}] \cup {None}
        /\ container' # container => container' # None /\ container'.by = t
    <2>1. CASE next \notin {"start", "ready"}
      BY <1>0, <1>5, <2>1 DEF TypeOK
    <2>2. CASE next = "start"
      <3>1. container' = [by |-> t, st |-> "created"]
        BY <1>5, <2>2
      <3>2. container' \in [by : Session, st : {"created", "running", "exited"}]
        BY <3>1
      <3> QED
        BY <1>0, <3>1, <3>2, ContainersAssumption
    <2>3. CASE next = "ready"
      <3>1. /\ container \in [by : Session, st : {"created", "running", "exited"}]
            /\ container.by = t /\ container' = [container EXCEPT !.st = "running"]
        BY <1>0, <1>5, <2>3 DEF TypeOK, Mine, Exists
      <3>2. container' \in [by : Session, st : {"created", "running", "exited"}]
            /\ container'.by = t
        BY <3>1
      <3> QED
        BY <3>2, ContainersAssumption
    <2> QED
      BY <2>1, <2>2, <2>3
  <1>7. TypeOK'
    BY <1>0, <1>2, <1>3, <1>5, <1>6 DEF TypeOK
  <1>8. OthersKeep(t)
    BY <1>0, <1>2, <1>3, <1>5 DEF OthersKeep, TypeOK
  <1>9. ASSUME NEW s \in Session \ {t} PROVE SessionInv(s)'
    <2>1. /\ Mine(s)' => Mine(s)
          /\ sidecar' = s => sidecar = s
          /\ secrets' = s => secrets = s
      BY <1>0, <1>3, <1>6 DEF Mine, Exists
    <2> QED
      BY <1>0, <1>8, <2>1, Bystander DEF SandboxInv
  <1>10. SessionInv(t)'
    <2>1. UNCHANGED <<life, main, owns, claim, stopper>> /\ step'[t] = next
      BY <1>0, <1>1, <1>5 DEF session, TypeOK
    <2>2. step[t] \notin {"start", "ready"} \/ next = "ready"
      <3>1. CASE StartContainer(t)
        BY <1>0, <2>1, <3>1 DEF StartContainer, StepTo, TypeOK
      <3>2. CASE ~StartContainer(t)
        BY <3>2 DEF ClearSidecar, StartSidecar, WriteSecrets, CreateContainer, At
      <3> QED
        BY <3>1, <3>2
    <2>3. NameIsFree(t)'
      BY <1>0, <1>5, <2>1, <2>2 DEF SessionInv, NameIsFree, Exists
    <2>4. HoldsClaim(t)' /\ OwnsWhatItMade(t)'
      BY <1>0, <2>1 DEF HoldsClaim, OwnsWhatItMade
    <2>5. StopsInOrder(t)'
      BY <1>0, <1>3, <2>1 DEF SessionInv, StopsInOrder, Settled
    <2> QED
      BY <2>3, <2>4, <2>5 DEF SessionInv
  <1> QED
    BY <1>7, <1>9, <1>10 DEF SandboxInv

(* The container exits by itself.                                          *)
LEMMA ExitsStep ==
    ASSUME SandboxInv, ContainerExits
    PROVE  SandboxInv'
  <1>1. /\ UNCHANGED <<life, main, waited, aborted, owns, claim, stopper>>
        /\ UNCHANGED <<seen, step, degraded, sidecar, secrets, halt>>
    BY DEF ContainerExits, session
  <1>2. /\ container \in [by : Session, st : {"created", "running", "exited"}]
        /\ container' = [container EXCEPT !.st = "exited"]
    BY DEF ContainerExits, Running, Exists, SandboxInv, TypeOK
  <1>3. /\ container' \in [by : Session, st : {"created", "running", "exited"}]
        /\ container'.by = container.by
    BY <1>2
  <1>4. Exists /\ Exists' /\ \A s \in Session : Mine(s)' <=> Mine(s)
    BY <1>2, <1>3, ContainersAssumption DEF Exists, Mine
  <1>5. TypeOK'
    BY <1>1, <1>3 DEF SandboxInv, TypeOK, SessionTypeOK
  <1>6. \A s \in Session : SessionInv(s)'
    BY <1>1, <1>4 DEF SandboxInv, SessionInv, HoldsClaim, NameIsFree, OwnsWhatItMade, StopsInOrder
  <1> QED
    BY <1>5, <1>6 DEF SandboxInv

(* A session that ends: it has nothing under the sandbox's name any more,  *)
(* unless it was killed.                                                   *)
LEMMA EndsClean ==
    ASSUME TypeOK, NEW t \in Session, NEW how \in {"exited", "killed"}, Ends(t, how), Memory(t),
           ~SettleTimesOut /\ how = "exited" => ~Mine(t)' /\ sidecar' # t /\ secrets' # t
    PROVE  SessionInv(t)'
  <1>1. /\ life'[t] = how /\ main'[t] = "gone" /\ stopper'[t] = "no" /\ t \notin owns'
    BY DEF Ends, TypeOK, SessionTypeOK
  <1>2. halt'[t]["stop"] = "sidecar"
    BY <1>1, MemoryMine DEF Flow
  <1> QED
    BY <1>1, <1>2 DEF SessionInv, HoldsClaim, NameIsFree, OwnsWhatItMade, StopsInOrder

(* A session begins, is told to stop, has seen its boot settle or is       *)
(* killed.                                                                 *)
LEMMA LifeStep ==
    ASSUME SandboxInv, NEW t \in Session, Begin(t) \/ Stop(t) \/ BootSettles(t) \/ Kill(t),
           Memory(t), UNCHANGED docker
    PROVE  SandboxInv'
  <1>0. TypeOK /\ SessionTypeOK /\ SessionInv(t)
    BY DEF SandboxInv, TypeOK
  <1>1. SessionTypeOK' /\ OthersInSession(t)
    BY <1>0, FlowStepMine DEF FlowStep
  <1>2. container' = container /\ sidecar' = sidecar /\ secrets' = secrets
    BY DEF docker
  <1>3. TypeOK' /\ OthersKeep(t)
    BY <1>0, <1>1, <1>2, MemoryMine DEF TypeOK, OthersKeep, HaltPC
  <1>4. SessionInv(t)'
    <2>1. CASE Kill(t)
      BY <1>0, <2>1, EndsClean DEF Kill
    <2>2. CASE t \notin owns /\ Ends(t, "exited") /\ Alive(t)
      <3>1. ~SettleTimesOut => ~Mine(t)' /\ sidecar' # t /\ secrets' # t
        BY <1>0, <1>2, <2>2 DEF SessionInv, OwnsWhatItMade, Alive, Mine, Exists
      <3> QED
        BY <1>0, <2>2, <3>1, EndsClean
    <2>3. ASSUME life'[t] = "alive" PROVE UNCHANGED <<seen, step, halt>>
      BY <1>0, <2>3, MemoryMine
    <2> USE DEF SessionInv, HoldsClaim, NameIsFree, OwnsWhatItMade, StopsInOrder, Exists, Mine
    <2>4. CASE Begin(t)
      <3>1. /\ life'[t] = "alive" /\ life[t] = "new" /\ main' = main /\ owns' = owns
            /\ claim' = claim /\ stopper' = stopper
        BY <1>0, <2>4 DEF Begin, SessionTypeOK
      <3> QED
        BY <1>0, <1>2, <2>3, <3>1
    <2>5. CASE Stop(t) /\ t \in owns
      <3>1. /\ life'[t] = "alive" /\ life' = life /\ main' = main /\ owns' = owns /\ claim' = claim
            /\ stopper[t] = "no"
            /\ stopper'[t] = IF main[t] \in Settled THEN "stopping" ELSE "stoppingBoot"
        BY <1>0, <2>5 DEF Stop, SessionTypeOK, Alive
      <3> QED
        BY <1>0, <1>2, <2>3, <3>1
    <2>6. CASE BootSettles(t)
      <3>1. /\ life'[t] = "alive" /\ life' = life /\ main' = main /\ owns' = owns /\ claim' = claim
            /\ stopper[t] = "settling" /\ stopper'[t] = "stoppingAgain"
            /\ main[t] \in Settled \/ SettleTimesOut
        BY <1>0, <2>6 DEF BootSettles, SessionTypeOK, Alive
      <3> QED
        BY <1>0, <1>2, <2>3, <3>1
    <2> QED
      BY <2>1, <2>2, <2>4, <2>5, <2>6 DEF Stop
  <1> QED
    BY <1>3, <1>4, DockerQuiet

(* stopByName() goes on: it takes down what is there under the name.       *)
LEMMA HaltOn ==
    ASSUME SandboxInv, NEW t \in Session, NEW f \in Flow,
           HaltSidecar(t, f) \/ HaltInspect(t, f) \/ HaltStop(t, f) \/ HaltRemove(t, f)
    PROVE  SandboxInv'
  <1>0. TypeOK /\ SessionTypeOK /\ SessionInv(t) /\ None \notin Session
    BY SessionsAssumption DEF SandboxInv, TypeOK
  <1>1. /\ UNCHANGED session /\ seen' = seen /\ step' = step /\ degraded' = degraded
        /\ secrets' = secrets /\ sidecar' \in {sidecar, None} /\ Halting(t, f)
    BY DEF HaltSidecar, HaltInspect, HaltStop, HaltRemove, HaltAt
  <1>2. UNCHANGED <<life, main, waited, aborted, owns, claim, stopper>>
    BY <1>1 DEF session
  <1>3. \/ container' = container
        \/ container' = None
        \/ Exists /\ container' = [container EXCEPT !.st = "exited"]
    BY DEF HaltSidecar, HaltInspect, HaltStop, HaltRemove
  <1>4. /\ container' \in [by : Session, st : {"created", "running", "exited"}] \cup {None}
        /\ \A s \in Session : Mine(s)' => Mine(s)
        /\ Exists' => Exists
    <2>1. CASE container' = container \/ container' = None
      BY <1>0, <2>1 DEF TypeOK, Mine, Exists
    <2>2. CASE Exists /\ container' = [container EXCEPT !.st = "exited"]
      <3>1. container \in [by : Session, st : {"created", "running", "exited"}]
        BY <1>0, <2>2 DEF TypeOK, Exists
      <3>2. /\ container' \in [by : Session, st : {"created", "running", "exited"}]
            /\ container'.by = container.by
        BY <2>2, <3>1
      <3> QED
        BY <2>2, <3>2, ContainersAssumption DEF Mine, Exists
    <2> QED
      BY <1>3, <2>1, <2>2
  <1>5. PICK next \in HaltPC :
           /\ HaltGoto(t, f, next) /\ next # "sidecar"
           /\ halt[t][f] = "sidecar" => sidecar' = None
           /\ next = "secrets" => container' = None
    BY DEF HaltSidecar, HaltInspect, HaltStop, HaltRemove, HaltAt, HaltPC, Exists
  <1>6. /\ halt' \in [Session -> [Flow -> HaltPC]]
        /\ halt'[t][f] = next
        /\ \A g \in Flow \ {f} : halt'[t][g] = halt[t][g]
        /\ \A s \in Session \ {t} : halt'[s] = halt[s]
    BY <1>0, <1>5, HaltMoves
  <1>7. TypeOK'
    BY <1>0, <1>1, <1>2, <1>4, <1>6 DEF TypeOK, SessionTypeOK, HaltPC
  <1>8. OthersKeep(t)
    BY <1>1, <1>2, <1>6 DEF OthersKeep, OthersInSession
  <1>9. ASSUME NEW s \in Session \ {t} PROVE SessionInv(s)'
    <2>1. /\ Mine(s)' => Mine(s)
          /\ sidecar' = s => sidecar = s
          /\ secrets' = s => secrets = s
          /\ claim = s /\ ~Exists => ~Exists'
      BY <1>0, <1>1, <1>4
    <2> QED
      BY <1>8, <2>1, Bystander DEF SandboxInv
  <1>10. HoldsClaim(t)' /\ NameIsFree(t)'
    BY <1>0, <1>1, <1>2, <1>4 DEF SessionInv, HoldsClaim, NameIsFree
  <1>11. OwnsWhatItMade(t)'
    BY <1>0, <1>1, <1>2, <1>4 DEF SessionInv, OwnsWhatItMade
  <1>12. StopsInOrder(t)'
    <2>1. CASE f = "main"
      <3>1. halt'[t]["stop"] = halt[t]["stop"]
        BY <1>6, <2>1 DEF Flow
      <3> QED
        BY <1>0, <1>1, <1>2, <1>4, <3>1 DEF SessionInv, StopsInOrder
    <2>2. CASE f = "stop"
      <3>1. stopper[t] \in {"stopping", "stoppingBoot", "stoppingAgain"}
        BY <1>1, <2>2 DEF Halting
      <3>2. ~SettleTimesOut /\ stopper[t] # "stoppingBoot" => main[t] \in Settled /\ sidecar' # t
        BY <1>0, <1>1, <1>5, <2>2, <3>1 DEF SessionInv, StopsInOrder
      <3>3. next = "secrets" => ~Mine(t)'
        BY <1>5 DEF Mine, Exists
      <3> QED
        BY <1>2, <1>6, <2>2, <3>1, <3>2, <3>3 DEF StopsInOrder
    <2> QED
      BY <2>1, <2>2 DEF Flow
  <1> QED
    BY <1>7, <1>9, <1>10, <1>11, <1>12 DEF SandboxInv, SessionInv

(* The end of stopByName(): the credentials are gone, and its flow goes    *)
(* on, or its process exits.                                               *)
LEMMA HaltEnds ==
    ASSUME SandboxInv, NEW t \in Session, NEW f \in Flow, HaltSecrets(t, f)
    PROVE  SandboxInv'
  <1>0. TypeOK /\ SessionTypeOK /\ SessionInv(t) /\ None \notin Session
    BY SessionsAssumption DEF SandboxInv, TypeOK
  <1>1. /\ secrets' = None /\ container' = container /\ sidecar' = sidecar
        /\ IF f = "main" THEN CleanedUp(t) ELSE Stopped(t)
        /\ Halting(t, f) /\ halt[t][f] = "secrets"
    BY DEF HaltSecrets, HaltReturns, HaltAt
  <1>2. SessionTypeOK' /\ OthersInSession(t)
    BY <1>0, <1>1, FlowStepMine DEF FlowStep
  <1>3. CASE life'[t] = "alive"
    <2>1. HaltGoto(t, f, "sidecar") /\ UNCHANGED <<seen, step, degraded>>
      BY <1>3 DEF HaltSecrets, HaltReturns
    <2>2. /\ halt' \in [Session -> [Flow -> HaltPC]]
          /\ halt'[t][f] = "sidecar"
          /\ \A g \in Flow \ {f} : halt'[t][g] = halt[t][g]
          /\ \A s \in Session \ {t} : halt'[s] = halt[s]
      BY <1>0, <2>1, HaltMoves DEF HaltPC
    <2>3. TypeOK' /\ OthersKeep(t)
      BY <1>0, <1>1, <1>2, <2>1, <2>2 DEF TypeOK, OthersKeep, HaltPC
    <2>4. SessionInv(t)'
      <3>1. CASE f = "main"
        <4>1. /\ main[t] = "cleanup" /\ main'[t] = "failed" /\ life' = life /\ owns' = owns
              /\ stopper' = stopper
          BY <1>0, <1>1, <3>1 DEF CleanedUp, Goto, SessionTypeOK
        <4>2. halt'[t]["stop"] = halt[t]["stop"]
          BY <2>2, <3>1 DEF Flow
        <4> QED
          BY <1>0, <1>1, <4>1, <4>2 DEF SessionInv, HoldsClaim, NameIsFree, OwnsWhatItMade,
             StopsInOrder, Settled, Mine, Exists
      <3>2. CASE f = "stop"
        <4>1. ~Ends(t, "exited")
          BY <1>0, <1>3 DEF Ends, SessionTypeOK
        <4>2. /\ stopper'[t] = "settling" /\ life' = life /\ main' = main /\ owns' = owns
              /\ claim' = claim
          BY <1>0, <1>1, <3>2, <4>1 DEF Stopped, SessionTypeOK
        <4> QED
          BY <1>0, <1>1, <2>1, <2>2, <3>2, <4>2 DEF SessionInv, HoldsClaim, NameIsFree,
             OwnsWhatItMade, StopsInOrder, Mine, Exists
      <3> QED
        BY <3>1, <3>2 DEF Flow
    <2> QED
      BY <1>0, <1>1, <2>3, <2>4, SecretsGone
  <1>4. CASE life'[t] # "alive"
    <2>1. Memory(t)
      BY <1>4 DEF HaltSecrets, HaltReturns
    <2>2. TypeOK' /\ OthersKeep(t)
      BY <1>0, <1>1, <1>2, <2>1, MemoryMine DEF TypeOK, OthersKeep, HaltPC
    <2>3. f = "stop" /\ stopper[t] \in {"stopping", "stoppingAgain"} /\ Ends(t, "exited")
      BY <1>0, <1>1, <1>4 DEF CleanedUp, Stopped, Alive, Flow
    <2>4. ~SettleTimesOut => ~Mine(t)' /\ sidecar' # t /\ secrets' # t
      BY <1>0, <1>1, <2>3 DEF SessionInv, StopsInOrder, Mine, Exists
    <2>5. SessionInv(t)'
      BY <1>0, <2>1, <2>3, <2>4, EndsClean
    <2> QED
      BY <1>0, <1>1, <2>2, <2>5, SecretsGone
  <1> QED
    BY <1>3, <1>4

-----------------------------------------------------------------------------
(* The theorems. *)

LEMMA SandboxInvInit == Init => SandboxInv
  <1> SUFFICES ASSUME Init PROVE SandboxInv
    OBVIOUS
  <1>0. None \notin Session
    BY SessionsAssumption
  <1>1. TypeOK
    BY DEF Init, SessionInit, TypeOK, SessionTypeOK, Flow
  <1>2. \A s \in Session : SessionInv(s)
    BY <1>0 DEF Init, SessionInit, SessionInv, HoldsClaim, NameIsFree, OwnsWhatItMade, StopsInOrder,
       Exists, Mine, Flow
  <1> QED
    BY <1>1, <1>2 DEF SandboxInv

LEMMA SandboxStep == SandboxInv /\ [Next]_vars => SandboxInv'
  <1> SUFFICES ASSUME SandboxInv, [Next]_vars PROVE SandboxInv'
    OBVIOUS
  <1>1. CASE UNCHANGED vars
    BY <1>1 DEF vars, session, docker, SandboxInv, TypeOK, SessionTypeOK, SessionInv, HoldsClaim,
       NameIsFree, OwnsWhatItMade, StopsInOrder, Exists, Mine
  <1>2. ASSUME NEW s \in Session, Steps(s) PROVE SandboxInv'
    BY <1>2, LookStep, MakeStep DEF Steps
  <1>3. ASSUME NEW s \in Session, NEW f \in Flow, Halts(s, f) PROVE SandboxInv'
    BY <1>3, HaltOn, HaltEnds DEF Halts
  <1>4. ASSUME NEW s \in Session, Begin(s) \/ Stop(s) \/ BootSettles(s) \/ Kill(s), Memory(s),
               UNCHANGED docker
        PROVE  SandboxInv'
    BY <1>4, LifeStep
  <1>5. CASE ContainerExits
    BY <1>5, ExitsStep
  <1> QED
    BY <1>1, <1>2, <1>3, <1>4, <1>5 DEF Next

LEMMA SandboxInvariant == Spec => []SandboxInv
  <1> QED
    BY SandboxInvInit, SandboxStep, PTL DEF Spec

(* One session boots at a time, and on a free name: claiming the boot and  *)
(* looking again under the claim is enough, also when sessions are killed  *)
(* and when a boot outlasts the wait for it.                               *)
THEOREM OneBootsOnAFreeName == Spec => []BootFindsNameFree
  <1>1. SandboxInv => BootFindsNameFree
    BY DEF SandboxInv, SessionInv, HoldsClaim, NameIsFree, BootFindsNameFree, OneBooter
  <1> QED
    BY <1>1, SandboxInvariant, PTL

(* Where a boot does not outlast the stop's wait for it, what a session    *)
(* made goes with it as well: its container, its sidecar and its           *)
(* credentials are gone when its process exits, however others start,      *)
(* fail and are killed around the name.                                    *)
THEOREM SandboxStaysClean == ASSUME ~SettleTimesOut PROVE Spec => []SandboxIsClean
  <1>1. SandboxInv => SandboxIsClean
    <2> SUFFICES ASSUME SandboxInv PROVE SandboxIsClean
      OBVIOUS
    <2>1. BootFindsNameFree
      BY DEF SandboxInv, SessionInv, HoldsClaim, NameIsFree, BootFindsNameFree, OneBooter
    <2>2. ASSUME NEW s \in Session, life[s] = "exited"
          PROVE  ~Mine(s) /\ sidecar # s /\ secrets # s
      BY <2>2 DEF SandboxInv, SessionInv, OwnsWhatItMade
    <2> QED
      BY <2>1, <2>2 DEF SandboxInv, SandboxIsClean, NothingLeftBehind
  <1> QED
    BY <1>1, SandboxInvariant, PTL

=============================================================================
