----------------------------- MODULE HostProofs -----------------------------
(***************************************************************************)
(* Theorems about what commands keep on the host, for any values of the    *)
(* constants: containers with their secrets and snapshots, what is         *)
(* attested of their boots, the builds of images, berth dev in a microVM,  *)
(* and the microVM sandbox of several sessions.  Each part is proved from  *)
(* an inductive invariant of its own; the last section states, of the      *)
(* parts side by side, the properties that the run of MCHost checks.       *)
(***************************************************************************)
EXTENDS MCHost, AuditSinkProofs, SequenceTheorems, WellFoundedInduction, FiniteSetTheorems

-----------------------------------------------------------------------------
(* The sandbox container, its secrets and its snapshots.  A container, the  *)
(* image committed from it and a snapshot hold harmless names only; what a  *)
(* teardown still has to remove is known from how far it is; and a file of  *)
(* a snapshot is written after those before it.                             *)

BootSteps == {"probe", "sidecar", "secrets", "create", "start", "health"}
DownSteps == {"downSidecar", "downStop", "downRemove", "downDir", "unrecord"}

\* No name of S is a secret's, where the apps declare the names of D.
Harmless(S, D) == \A n \in S : ~Boot!IsSecretEnvName(n) /\ n \notin D

IsBooting(b) ==
  b = [pc |-> b.pc, box |-> b.box, image |-> b.image, delegate |-> b.delegate, env |-> b.env,
       fs |-> b.fs, strict |-> b.strict, rpc |-> b.rpc, asked |-> b.asked]

IsDowning(b) == b = [pc |-> b.pc, box |-> b.box, ok |-> b.ok]

IsBox(c) == c = [st |-> c.st, env |-> c.env, admin |-> c.admin, cgroups |-> c.cgroups, asked |-> c.asked]

\* A container is what its boot was asked for, and no more.
BoxOK(c, D) ==
  /\ IsBox(c) /\ Harmless(c.env, D)
  /\ c.admin => c.asked.fs = "inSandbox"
  /\ c.asked.strict => c.cgroups

\* So is the boot that is to create it.
AsAsked(b, D) ==
  /\ IsBooting(b) /\ b.box \in {"os", "restored"} /\ Harmless(b.image, D)
  /\ b.fs = "inSandbox" => b.asked.fs = "inSandbox"
  /\ b.asked.strict => b.strict
  /\ b.box = "restored" => ~b.strict
  /\ b.pc # "probe" => (b.strict => b.delegate)

CommandOK(b, D) ==
  \/ b.pc \in BootSteps /\ AsAsked(b, D)
  \/ b.pc \in DownSteps /\ IsDowning(b)

\* What the teardown has done already: c, s, m and d are the container of the
\* name, its sidecar, the mounts and its directory.
DownSoFar(b, c, s, m, d) ==
  /\ b.pc \in {"downSidecar", "downStop", "downRemove"} => c # None
  /\ b.pc \in {"downStop", "downRemove", "downDir"} => s = "none"
  /\ b.pc = "downDir" => c = None
  /\ b.pc = "unrecord" /\ b.ok => c = None /\ s = "none" /\ ("os" \notin m => d = None)

BoxesInv ==
  /\ DOMAIN container = Boot!Box /\ DOMAIN sidecar = Boot!Box /\ DOMAIN dir = Boot!Box
  /\ \A b \in Boot!Box : container[b] # None => BoxOK(container[b], Boot!Declared)

CommandInv == boot # None => CommandOK(boot, Boot!Declared)

DownInv ==
  /\ boot # None => DownSoFar(boot, container["os"], sidecar["os"], mounted, dir["os"])
  /\ Boot!DownLeavesNothing

\* The files of a snapshot that is at file k.
HasFilesBefore(k, files) ==
  /\ k > 1 => "image" \in files
  /\ k > 2 => "data" \in files
  /\ k > 3 => "index" \in files

SnapInv ==
  /\ snap = [files |-> snap.files, env |-> snap.env, image |-> snap.image]
  /\ Harmless(snap.env, Boot!Declared) /\ Harmless(snap.image, Boot!Declared)
  /\ Boot!ListedHasState
  /\ taking # None => /\ taking = [pc |-> taking.pc, env |-> taking.env] /\ taking.pc \in 1..5
                      /\ Harmless(taking.env, Boot!Declared) /\ HasFilesBefore(taking.pc, snap.files)

BoxInv == BoxesInv /\ CommandInv /\ DownInv /\ SnapInv

\* No command, and no container, is the absence of one.
BootAssumption == "pc" \notin DOMAIN None /\ "st" \notin DOMAIN None

\* The apps' manifests do not change, so what is harmless stays so.
LEMMA DeclaredStays ==
  ASSUME Boot!Next
  PROVE  Boot!Declared' = Boot!Declared /\ declares' = declares
  <1>1. declares' = declares
    BY DEF Boot!Next, Boot!fixed, Boot!Up, Boot!Restore, Boot!Probe, Boot!StartSidecar, Boot!SidecarFails, Boot!WriteSecrets,
           Boot!CreateRefused, Boot!CreateContainer, Boot!StartContainer, Boot!Finish, Boot!Throws, Boot!Down, Boot!StopContainer,
           Boot!StopFails, Boot!RemoveOsState, Boot!SnapshotCreate, Boot!WriteFile, Boot!SnapshotFails, Boot!ContainerExits,
           Boot!SidecarDies, Boot!Crash
  <1> QED
    BY <1>1 DEF Boot!Declared

LEMMA SnapStep ==
  ASSUME BoxInv, Boot!Next
  PROVE  SnapInv'
  <1>1. Boot!Declared' = Boot!Declared
    BY DeclaredStays
  <1>2. Boot!SnapshotCreate \/ Boot!WriteFile \/ Boot!SnapshotFails \/ UNCHANGED <<snap, taking>>
    BY DEF Boot!Next, Boot!Up, Boot!Restore, Boot!Probe, Boot!StartSidecar, Boot!SidecarFails, Boot!WriteSecrets,
           Boot!CreateRefused, Boot!CreateContainer, Boot!StartContainer, Boot!Finish, Boot!Throws, Boot!Down, Boot!StopContainer,
           Boot!StopFails, Boot!RemoveOsState, Boot!ContainerExits, Boot!SidecarDies, Boot!Crash
  <1>3. CASE UNCHANGED <<snap, taking>>
    BY <1>1, <1>3 DEF BoxInv, SnapInv, Boot!ListedHasState
  <1>4. CASE Boot!SnapshotFails
    BY <1>1, <1>4 DEF BoxInv, SnapInv, Boot!ListedHasState, Boot!SnapshotFails
  <1>5. CASE Boot!SnapshotCreate
    <2>1. /\ snap' = Boot!NoSnap /\ taking' = [pc |-> 1, env |-> container["os"].env]
          /\ Harmless(container["os"].env, Boot!Declared)
      BY <1>5 DEF BoxInv, BoxesInv, BoxOK, Boot!SnapshotCreate, Boot!Exists, Boot!Box
    <2>2. snap'.files = {} /\ snap'.env = {} /\ snap'.image = {}
          /\ snap' = [files |-> snap'.files, env |-> snap'.env, image |-> snap'.image]
      BY <2>1 DEF Boot!NoSnap
    <2>3. taking'.pc = 1 /\ taking'.env = container["os"].env /\ taking' = [pc |-> taking'.pc, env |-> taking'.env]
      BY <2>1
    <2> QED
      BY <1>1, <2>1, <2>2, <2>3 DEF SnapInv, Harmless, HasFilesBefore, Boot!ListedHasState
  <1>6. CASE Boot!WriteFile
    <2> DEFINE k == taking.pc
               f == Boot!Files[k]
    <2>1. /\ taking # None /\ taking = [pc |-> k, env |-> taking.env] /\ k \in 1..5
          /\ Harmless(taking.env, Boot!Declared) /\ HasFilesBefore(k, snap.files)
          /\ Harmless(snap.env, Boot!Declared) /\ Harmless(snap.image, Boot!Declared) /\ Boot!ListedHasState
      BY <1>6 DEF BoxInv, SnapInv, Boot!WriteFile
    <2>2. /\ f \in {"image", "data", "index"} => container["os"] # None
          /\ snap' = [files |-> snap.files \cup {f},
                      env |-> IF f = "env" THEN Boot!StripSecretEnv(taking.env) ELSE snap.env,
                      image |-> IF f = "image" THEN container["os"].env ELSE snap.image]
          /\ taking' = IF k = 5 THEN None ELSE [taking EXCEPT !.pc = k + 1]
      BY <1>6 DEF Boot!WriteFile, Boot!Exists
    <2>3. /\ k = 1 => f = "image"
          /\ k = 2 => f = "data"
          /\ k = 3 => f = "index"
          /\ k = 4 => f = "meta"
          /\ k = 5 => f = "env"
      BY DEF Boot!Files
    <2>4. f = "image" => Harmless(container["os"].env, Boot!Declared)
      BY <2>2 DEF BoxInv, BoxesInv, BoxOK, Boot!Box
    <2>5. Harmless(Boot!StripSecretEnv(taking.env), Boot!Declared)
      BY <2>1 DEF Harmless, Boot!StripSecretEnv
    <2> HIDE DEF f, k
    <2>6. snap'.files = snap.files \cup {f}
          /\ snap' = [files |-> snap'.files, env |-> snap'.env, image |-> snap'.image]
      BY <2>2
    <2>7. Harmless(snap'.env, Boot!Declared) /\ Harmless(snap'.image, Boot!Declared)
      BY <2>1, <2>2, <2>4, <2>5
    <2>8. Boot!ListedHasState'
      BY <2>1, <2>3, <2>6 DEF Boot!ListedHasState, HasFilesBefore
    <2>9. k # 5 => /\ taking' = [pc |-> k + 1, env |-> taking.env] /\ k + 1 \in 1..5
                   /\ HasFilesBefore(k + 1, snap'.files)
      BY <2>1, <2>2, <2>3, <2>6 DEF HasFilesBefore
    <2> QED
      BY <1>1, <2>1, <2>2, <2>6, <2>7, <2>8, <2>9 DEF SnapInv
  <1> QED
    BY <1>2, <1>3, <1>4, <1>5, <1>6

\* What a boot records in the container's configuration is harmless.
LEMMA ConfigIsHarmless ==
  ASSUME AsAsked(boot, Boot!Declared)
  PROVE  Harmless(Boot!ConfigEnv, Boot!Declared)
BY DEF AsAsked, Harmless, Boot!ConfigEnv, Boot!PartitionSecretEnv

LEMMA BoxesStep ==
  ASSUME BoxInv, Boot!Next
  PROVE  BoxesInv'
  <1>1. Boot!Declared' = Boot!Declared
    BY DeclaredStays
  <1>2. DOMAIN sidecar' = Boot!Box /\ DOMAIN dir' = Boot!Box
    BY DEF BoxInv, BoxesInv, Boot!Next, Boot!host, Boot!Up, Boot!Restore, Boot!Probe, Boot!StartSidecar, Boot!SidecarFails,
           Boot!WriteSecrets, Boot!CreateRefused, Boot!CreateContainer, Boot!StartContainer, Boot!Finish, Boot!Throws, Boot!Down,
           Boot!StopContainer, Boot!StopContainerSteps, Boot!StopSidecar, Boot!RemoveDir, Boot!StopFails, Boot!RemoveOsState,
           Boot!SnapshotCreate, Boot!WriteFile, Boot!SnapshotFails, Boot!ContainerExits, Boot!SidecarDies, Boot!Crash
  <1>3. \/ container' = container
        \/ \E b \in Boot!Box : \/ container' = [container EXCEPT ![b] = None]
                               \/ container' = [container EXCEPT ![b] = container[b]]
                               \/ container[b] # None /\ container' = [container EXCEPT ![b].st = "running"]
                               \/ container[b] # None /\ container' = [container EXCEPT ![b].st = "exited"]
        \/ Boot!CreateContainer
    <2>1. CASE \E o \in Boots : Boot!Up(o)
      <3>1. container' = [container EXCEPT !["os"] = IF osRecord THEN None ELSE container["os"]]
        BY <2>1 DEF Boot!Up
      <3> QED
        BY <3>1 DEF Boot!Box
    <2>2. CASE Boot!StartContainer
      <3>1. boot.box \in Boot!Box /\ container[boot.box] # None /\ container' = [container EXCEPT ![boot.box].st = "running"]
        BY <2>2 DEF Boot!StartContainer, Boot!Exists, Boot!At, Boot!Box, BoxInv, CommandInv, CommandOK, AsAsked, DownSteps
      <3> QED
        BY <3>1
    <2>3. CASE Boot!StopContainer
      <3>1. boot # None /\ boot.pc = "downStop" => container["os"] # None
        BY DEF BoxInv, DownInv, DownSoFar
      <3> QED
        BY <2>3, <3>1 DEF Boot!StopContainer, Boot!StopContainerSteps, Boot!At, Boot!Box
    <2>4. CASE Boot!ContainerExits
      BY <2>4 DEF Boot!ContainerExits, Boot!Running, Boot!Exists, Boot!Box
    <2> QED
      BY <2>1, <2>2, <2>3, <2>4
         DEF Boot!Next, Boot!host, Boot!Restore, Boot!Probe, Boot!StartSidecar, Boot!SidecarFails, Boot!WriteSecrets,
             Boot!CreateRefused, Boot!Finish, Boot!Throws, Boot!Down, Boot!StopFails, Boot!RemoveOsState,
             Boot!SnapshotCreate, Boot!WriteFile, Boot!SnapshotFails, Boot!SidecarDies, Boot!Crash
  <1>4. ASSUME NEW c, BoxOK(c, Boot!Declared), NEW t PROVE BoxOK([c EXCEPT !.st = t], Boot!Declared)
    BY <1>4 DEF BoxOK, IsBox
  <1>5. DOMAIN container = Boot!Box /\ \A b \in Boot!Box : container[b] # None => BoxOK(container[b], Boot!Declared)
    BY DEF BoxInv, BoxesInv
  <1>6. ASSUME NEW b \in Boot!Box, NEW c, container' = [container EXCEPT ![b] = c], c # None => BoxOK(c, Boot!Declared)
        PROVE  BoxesInv'
    <2>1. DOMAIN container' = Boot!Box /\ container'[b] = c /\ \A d \in Boot!Box : d # b => container'[d] = container[d]
      BY <1>5, <1>6
    <2>2. \A d \in Boot!Box : container'[d] # None => BoxOK(container'[d], Boot!Declared)
      BY <1>5, <1>6, <2>1
    <2> QED
      BY <1>1, <1>2, <2>1, <2>2 DEF BoxesInv
  <1>7. CASE container' = container
    BY <1>1, <1>2, <1>5, <1>7 DEF BoxesInv
  <1>8. ASSUME NEW b \in Boot!Box,
               \/ container' = [container EXCEPT ![b] = None]
               \/ container' = [container EXCEPT ![b] = container[b]]
        PROVE  BoxesInv'
    BY <1>5, <1>6, <1>8
  <1>9. ASSUME NEW b \in Boot!Box, NEW t, container[b] # None, container' = [container EXCEPT ![b].st = t]
        PROVE  BoxesInv'
    <2>1. BoxOK([container[b] EXCEPT !.st = t], Boot!Declared)
      BY <1>4, <1>5, <1>9
    <2>2. container' = [container EXCEPT ![b] = [container[b] EXCEPT !.st = t]]
      BY <1>9
    <2> QED
      BY <1>6, <2>1, <2>2
  <1>10. CASE Boot!CreateContainer
    <2> DEFINE c == [st |-> "created", env |-> Boot!ConfigEnv, admin |-> boot.fs = "inSandbox",
                     cgroups |-> boot.delegate /\ ~oldDaemon, asked |-> boot.asked]
    <2>1. boot # None /\ boot.pc = "create" /\ ~Boot!AppCgroupsRefusal /\ container' = [container EXCEPT ![boot.box] = c]
      BY <1>10 DEF Boot!CreateContainer, Boot!At
    <2>2. AsAsked(boot, Boot!Declared)
      BY <2>1 DEF BoxInv, CommandInv, CommandOK, DownSteps
    <2>3. boot.box \in Boot!Box /\ Harmless(Boot!ConfigEnv, Boot!Declared)
      BY <2>2, ConfigIsHarmless DEF AsAsked, Boot!Box
    <2>4. c.env = Boot!ConfigEnv /\ c.asked = boot.asked /\ IsBox(c)
      BY DEF IsBox
    <2>5. c.admin => c.asked.fs = "inSandbox"
      <3>1. c.admin <=> boot.fs = "inSandbox"
        BY Zenon
      <3> QED
        BY <2>2, <2>4, <3>1 DEF AsAsked
    <2>6. c.asked.strict => c.cgroups
      <3>1. c.cgroups <=> (boot.delegate /\ ~oldDaemon)
        BY Zenon
      <3>2. boot.asked.strict => boot.strict /\ boot.delegate
        BY <2>1, <2>2 DEF AsAsked
      <3> HIDE DEF c
      <3> QED
        BY <2>1, <2>4, <3>1, <3>2, Zenon DEF Boot!AppCgroupsRefusal
    <2> HIDE DEF c
    <2> QED
      BY <1>6, <2>1, <2>3, <2>4, <2>5, <2>6 DEF BoxOK
  <1> QED
    BY <1>3, <1>7, <1>8, <1>9, <1>10

\* The command under way is one that was given.
LEMMA CommandStep ==
  ASSUME BoxInv, Boot!Next
  PROVE  CommandInv'
  <1>1. Boot!Declared' = Boot!Declared
    BY DeclaredStays
  <1>2. CASE boot' = boot \/ boot' = None
    BY <1>1, <1>2 DEF BoxInv, CommandInv
  <1>3. ASSUME CommandOK(boot', Boot!Declared) PROVE CommandInv'
    BY <1>1, <1>3 DEF CommandInv
  <1>4. ASSUME NEW o \in Boots, Boot!Up(o) PROVE CommandInv'
    <2> DEFINE b == [pc |-> "probe", box |-> "os", image |-> {}, delegate |-> FALSE,
                     env |-> o.env \cup (IF o.rpc THEN {Boot!RpcToken} ELSE {}),
                     fs |-> o.fs, strict |-> o.strict, rpc |-> o.rpc, asked |-> o]
    <2>1. boot' = b
      BY <1>4 DEF Boot!Up
    <2>2. b.pc = "probe" /\ b.box = "os" /\ b.image = {} /\ b.fs = o.fs /\ b.asked = o /\ b.strict = o.strict
      OBVIOUS
    <2>3. IsBooting(b)
      BY Zenon DEF IsBooting
    <2> HIDE DEF b
    <2>4. AsAsked(b, Boot!Declared)
      BY <2>2, <2>3 DEF AsAsked, Harmless
    <2> QED
      BY <1>3, <2>1, <2>2, <2>4 DEF CommandOK, BootSteps
  <1>5. CASE Boot!Restore
    <2> DEFINE a == [env |-> snap.env, fs |-> "sidecar", strict |-> FALSE, rpc |-> FALSE]
               b == [pc |-> "probe", box |-> "restored", env |-> snap.env, image |-> snap.image,
                     fs |-> "sidecar", strict |-> FALSE, rpc |-> FALSE, delegate |-> FALSE, asked |-> a]
    <2>1. boot' = b
      BY <1>5 DEF Boot!Restore
    <2>2. b.pc = "probe" /\ b.box = "restored" /\ b.image = snap.image /\ b.fs = "sidecar" /\ b.asked = a
      OBVIOUS
    <2>3. ~b.strict /\ ~a.strict
      BY Zenon
    <2>4. IsBooting(b)
      BY Zenon DEF IsBooting
    <2>5. Harmless(snap.image, Boot!Declared)
      BY DEF BoxInv, SnapInv
    <2> HIDE DEF b, a
    <2>6. AsAsked(b, Boot!Declared)
      BY <2>2, <2>3, <2>4, <2>5 DEF AsAsked
    <2> QED
      BY <1>3, <2>1, <2>2, <2>6 DEF CommandOK, BootSteps
  <1>6. CASE Boot!Down
    <2> DEFINE b == [pc |-> IF Boot!Exists("os") THEN "downSidecar" ELSE "unrecord", box |-> "os", ok |-> Boot!Exists("os")]
    <2>1. boot' = b
      BY <1>6 DEF Boot!Down
    <2>2. b.pc \in DownSteps
      BY DEF DownSteps
    <2>3. IsDowning(b)
      BY Zenon DEF IsDowning
    <2> QED
      BY <1>3, <2>1, <2>2, <2>3 DEF CommandOK
  <1>7. ASSUME NEW t, boot # None, boot' = [boot EXCEPT !.pc = t],
               \/ boot.pc \in BootSteps \ {"probe"} /\ t \in BootSteps \ {"probe"}
               \/ boot.pc \in DownSteps /\ t \in DownSteps
        PROVE  CommandInv'
    <2>1. CommandOK(boot, Boot!Declared)
      BY <1>7 DEF BoxInv, CommandInv
    <2>2. CASE boot.pc \in BootSteps \ {"probe"} /\ t \in BootSteps \ {"probe"}
      <3>1. AsAsked(boot, Boot!Declared)
        BY <2>1, <2>2 DEF CommandOK, BootSteps, DownSteps
      <3>2. boot' = [pc |-> t, box |-> boot.box, image |-> boot.image, delegate |-> boot.delegate, env |-> boot.env,
                     fs |-> boot.fs, strict |-> boot.strict, rpc |-> boot.rpc, asked |-> boot.asked]
        BY <1>7, <3>1 DEF AsAsked, IsBooting
      <3>3. /\ boot'.pc = t /\ boot'.box = boot.box /\ boot'.image = boot.image /\ boot'.delegate = boot.delegate
            /\ boot'.fs = boot.fs /\ boot'.strict = boot.strict /\ boot'.asked = boot.asked /\ IsBooting(boot')
        BY <3>2 DEF IsBooting
      <3>4. boot.pc # "probe" /\ t \in BootSteps
        BY <2>2
      <3>5. AsAsked(boot', Boot!Declared)
        BY <3>1, <3>3, <3>4 DEF AsAsked
      <3> QED
        BY <1>3, <3>3, <3>4, <3>5 DEF CommandOK
    <2>3. CASE boot.pc \in DownSteps /\ t \in DownSteps
      <3>1. IsDowning(boot)
        BY <2>1, <2>3 DEF CommandOK, AsAsked, BootSteps, DownSteps
      <3>2. boot' = [pc |-> t, box |-> boot.box, ok |-> boot.ok]
        BY <1>7, <3>1 DEF IsDowning
      <3>3. boot'.pc = t /\ IsDowning(boot')
        BY <3>2 DEF IsDowning
      <3> QED
        BY <1>3, <2>3, <3>3 DEF CommandOK
    <2> QED
      BY <1>7, <2>2, <2>3
  <1>8. CASE Boot!StartSidecar \/ Boot!WriteSecrets \/ Boot!CreateContainer \/ Boot!StartContainer
    <2>1. \E t \in {"secrets", "create", "start", "health"} : boot' = [boot EXCEPT !.pc = t]
      BY <1>8 DEF Boot!StartSidecar, Boot!WriteSecrets, Boot!CreateContainer, Boot!StartContainer, Boot!Step
    <2>2. boot # None /\ boot.pc \in {"sidecar", "secrets", "create", "start"}
      BY <1>8 DEF Boot!StartSidecar, Boot!WriteSecrets, Boot!CreateContainer, Boot!StartContainer, Boot!At
    <2>3. PICK t : t \in BootSteps \ {"probe"} /\ boot' = [boot EXCEPT !.pc = t]
      BY <2>1 DEF BootSteps
    <2>4. boot.pc \in BootSteps \ {"probe"}
      BY <2>2 DEF BootSteps
    <2> QED
      BY <1>7, <2>2, <2>3, <2>4
  <1>9. CASE Boot!StopContainer
    <2>1. \E t \in {"downStop", "downRemove", "downDir", "unrecord"} : boot' = [boot EXCEPT !.pc = t]
      BY <1>9 DEF Boot!StopContainer, Boot!StopContainerSteps, Boot!Step
    <2>2. boot # None /\ boot.pc \in {"downSidecar", "downStop", "downRemove", "downDir"}
      BY <1>9 DEF Boot!StopContainer, Boot!StopContainerSteps, Boot!At
    <2>3. PICK t : t \in DownSteps /\ boot' = [boot EXCEPT !.pc = t]
      BY <2>1 DEF DownSteps
    <2>4. boot.pc \in DownSteps
      BY <2>2 DEF DownSteps
    <2> QED
      BY <1>7, <2>2, <2>3, <2>4
  <1>10. CASE Boot!StopFails
    <2>1. boot # None /\ boot.pc = "downStop" /\ boot' = [boot EXCEPT !.pc = "unrecord", !.ok = FALSE]
      BY <1>10 DEF Boot!StopFails, Boot!At
    <2>2. IsDowning(boot)
      BY <2>1 DEF BoxInv, CommandInv, CommandOK, BootSteps
    <2>3. PICK v : v = FALSE /\ boot' = [boot EXCEPT !.pc = "unrecord", !.ok = v]
      BY <2>1
    <2>4. boot' = [pc |-> "unrecord", box |-> boot.box, ok |-> v]
      BY <2>2, <2>3 DEF IsDowning
    <2>5. boot'.pc = "unrecord" /\ IsDowning(boot')
      BY <2>4 DEF IsDowning
    <2> QED
      BY <1>3, <2>5 DEF CommandOK, DownSteps
  <1>11. CASE Boot!SidecarFails
    <2>1. boot # None /\ boot.pc = "sidecar" /\ boot' = [boot EXCEPT !.pc = "secrets", !.fs = "none"]
      BY <1>11 DEF Boot!SidecarFails, Boot!At
    <2>2. AsAsked(boot, Boot!Declared)
      BY <2>1 DEF BoxInv, CommandInv, CommandOK, DownSteps
    <2>3. boot' = [pc |-> "secrets", box |-> boot.box, image |-> boot.image, delegate |-> boot.delegate, env |-> boot.env,
                   fs |-> "none", strict |-> boot.strict, rpc |-> boot.rpc, asked |-> boot.asked]
      BY <2>1, <2>2 DEF AsAsked, IsBooting
    <2>4. /\ boot'.pc = "secrets" /\ boot'.box = boot.box /\ boot'.image = boot.image /\ boot'.delegate = boot.delegate
          /\ boot'.fs = "none" /\ boot'.strict = boot.strict /\ boot'.asked = boot.asked /\ IsBooting(boot')
      BY <2>3 DEF IsBooting
    <2>5. AsAsked(boot', Boot!Declared)
      BY <2>1, <2>2, <2>4 DEF AsAsked
    <2> QED
      BY <1>3, <2>4, <2>5 DEF CommandOK, BootSteps
  <1>12. CASE Boot!Probe
    <2>1. boot # None /\ boot.pc = "probe"
      BY <1>12 DEF Boot!Probe, Boot!At
    <2>2. AsAsked(boot, Boot!Declared)
      BY <2>1 DEF BoxInv, CommandInv, CommandOK, DownSteps
    <2>3. boot' = None \/ \E v \in BOOLEAN : (boot.strict => v) /\ boot' = [boot EXCEPT !.pc = "sidecar", !.delegate = v]
      BY <1>12 DEF Boot!Probe, Boot!End
    <2>4. ASSUME NEW v \in BOOLEAN, boot.strict => v, boot' = [boot EXCEPT !.pc = "sidecar", !.delegate = v]
          PROVE  CommandInv'
      <3>1. boot' = [pc |-> "sidecar", box |-> boot.box, image |-> boot.image, delegate |-> v, env |-> boot.env,
                     fs |-> boot.fs, strict |-> boot.strict, rpc |-> boot.rpc, asked |-> boot.asked]
        BY <2>2, <2>4 DEF AsAsked, IsBooting
      <3>2. /\ boot'.pc = "sidecar" /\ boot'.box = boot.box /\ boot'.image = boot.image /\ boot'.delegate = v
            /\ boot'.fs = boot.fs /\ boot'.strict = boot.strict /\ boot'.asked = boot.asked /\ IsBooting(boot')
        BY <3>1 DEF IsBooting
      <3>3. AsAsked(boot', Boot!Declared)
        BY <2>2, <2>4, <3>2 DEF AsAsked
      <3> QED
        BY <1>3, <3>2, <3>3 DEF CommandOK, BootSteps
    <2> QED
      BY <1>2, <2>3, <2>4
  <1>13. CASE Boot!CreateRefused \/ Boot!Finish \/ Boot!Throws \/ Boot!RemoveOsState \/ Boot!Crash
    BY <1>2, <1>13 DEF Boot!CreateRefused, Boot!Finish, Boot!Throws, Boot!RemoveOsState, Boot!Crash, Boot!End
  <1>14. CASE Boot!SnapshotCreate \/ Boot!WriteFile \/ Boot!SnapshotFails \/ Boot!ContainerExits \/ Boot!SidecarDies
    BY <1>2, <1>14 DEF Boot!SnapshotCreate, Boot!WriteFile, Boot!SnapshotFails, Boot!ContainerExits, Boot!SidecarDies
  <1> QED
    BY <1>4, <1>5, <1>6, <1>8, <1>9, <1>10, <1>11, <1>12, <1>13, <1>14 DEF Boot!Next

\* What a teardown has removed stays removed until it ends, and after.
LEMMA DownStep ==
  ASSUME BootAssumption, BoxInv, Boot!Next
  PROVE  DownInv'
  <1>1. ASSUME NEW t, boot # None, boot' = [boot EXCEPT !.pc = t] PROVE boot' # None /\ boot'.pc = t
    <2>1. "pc" \in DOMAIN boot
      <3>1. IsBooting(boot) \/ IsDowning(boot)
        BY <1>1 DEF BoxInv, CommandInv, CommandOK, AsAsked
      <3>2. CASE IsBooting(boot)
        BY <3>2 DEF IsBooting
      <3>3. CASE IsDowning(boot)
        BY <3>3 DEF IsDowning
      <3> QED
        BY <3>1, <3>2, <3>3
    <2>2. "pc" \in DOMAIN boot' /\ boot'.pc = t
      BY <1>1, <2>1
    <2> QED
      BY <2>2 DEF BootAssumption
  <1>2. ASSUME boot' # None, boot'.pc \in BootSteps PROVE DownInv'
    BY <1>2 DEF DownInv, DownSoFar, Boot!DownLeavesNothing, BootSteps
  <1>3. ASSUME boot' = None, last' \in {"failed", "up"} PROVE DownInv'
    BY <1>3 DEF DownInv, Boot!DownLeavesNothing
  <1>4. CASE (\E o \in Boots : Boot!Up(o)) \/ Boot!Restore
    <2>1. "pc" \in DOMAIN boot' /\ boot'.pc = "probe"
      <3>1. CASE Boot!Restore
        BY <3>1 DEF Boot!Restore
      <3>2. ASSUME NEW o \in Boots, Boot!Up(o) PROVE "pc" \in DOMAIN boot' /\ boot'.pc = "probe"
        BY <3>2 DEF Boot!Up
      <3> QED
        BY <1>4, <3>1, <3>2
    <2> QED
      BY <1>2, <2>1 DEF BootAssumption, BootSteps
  <1>5. CASE Boot!StartSidecar \/ Boot!WriteSecrets \/ Boot!CreateContainer \/ Boot!StartContainer
    <2>1. boot # None /\ \E t \in {"secrets", "create", "start", "health"} : boot' = [boot EXCEPT !.pc = t]
      BY <1>5 DEF Boot!StartSidecar, Boot!WriteSecrets, Boot!CreateContainer, Boot!StartContainer, Boot!Step, Boot!At
    <2> QED
      BY <1>1, <1>2, <2>1 DEF BootSteps
  <1>6. CASE Boot!Probe \/ Boot!SidecarFails
    <2>1. boot # None /\ boot.pc \in {"probe", "sidecar"}
      BY <1>6 DEF Boot!Probe, Boot!SidecarFails, Boot!At
    <2>2. IsBooting(boot)
      BY <2>1 DEF BoxInv, CommandInv, CommandOK, AsAsked, DownSteps
    <2>3. \/ boot' = None /\ last' = "failed"
          \/ \E v : boot' = [boot EXCEPT !.pc = "sidecar", !.delegate = v]
          \/ \E v : boot' = [boot EXCEPT !.pc = "secrets", !.fs = v]
      BY <1>6 DEF Boot!Probe, Boot!SidecarFails, Boot!End
    <2>4. \/ boot' = None /\ last' = "failed"
          \/ "pc" \in DOMAIN boot' /\ boot'.pc \in {"sidecar", "secrets"}
      <3>1. boot = [pc |-> boot.pc, box |-> boot.box, image |-> boot.image, delegate |-> boot.delegate,
                    env |-> boot.env, fs |-> boot.fs, strict |-> boot.strict, rpc |-> boot.rpc, asked |-> boot.asked]
        BY <2>2 DEF IsBooting
      <3>2. ASSUME NEW v, boot' = [boot EXCEPT !.pc = "sidecar", !.delegate = v]
            PROVE  "pc" \in DOMAIN boot' /\ boot'.pc = "sidecar"
        <4>1. boot' = [pc |-> "sidecar", box |-> boot.box, image |-> boot.image, delegate |-> v,
                       env |-> boot.env, fs |-> boot.fs, strict |-> boot.strict, rpc |-> boot.rpc, asked |-> boot.asked]
          BY <3>1, <3>2
        <4> QED
          BY <4>1
      <3>3. ASSUME NEW v, boot' = [boot EXCEPT !.pc = "secrets", !.fs = v]
            PROVE  "pc" \in DOMAIN boot' /\ boot'.pc = "secrets"
        <4>1. boot' = [pc |-> "secrets", box |-> boot.box, image |-> boot.image, delegate |-> boot.delegate,
                       env |-> boot.env, fs |-> v, strict |-> boot.strict, rpc |-> boot.rpc, asked |-> boot.asked]
          BY <3>1, <3>3
        <4> QED
          BY <4>1
      <3> QED
        BY <2>3, <3>2, <3>3
    <2> QED
      BY <1>2, <1>3, <2>4 DEF BootAssumption, BootSteps
  <1>7. CASE Boot!Finish \/ Boot!Throws \/ Boot!Crash
    BY <1>3, <1>7 DEF Boot!Finish, Boot!Throws, Boot!Crash, Boot!End
  <1>8. CASE Boot!CreateRefused
    <2>1. /\ boot # None /\ boot.pc = "create" /\ boot.strict /\ boot' = None /\ last' = "refused"
          /\ sidecar' = [sidecar EXCEPT ![boot.box] = "none"]
          /\ dir' = [dir EXCEPT ![boot.box] = IF boot.box \in mounted' THEN dir[boot.box] ELSE None]
      BY <1>8 DEF Boot!CreateRefused, Boot!At, Boot!AppCgroupsRefusal, Boot!StopSidecar, Boot!RemoveDir, Boot!End
    <2>2. boot.box = "os"
      BY <2>1 DEF BoxInv, CommandInv, CommandOK, AsAsked, DownSteps
    <2>3. sidecar'["os"] = "none" /\ ("os" \notin mounted' => dir'["os"] = None)
      BY <2>1, <2>2 DEF BoxInv, BoxesInv, Boot!Box
    <2> QED
      BY <2>1, <2>3 DEF DownInv, Boot!DownLeavesNothing
  <1>9. CASE Boot!Down
    <2> DEFINE b == [pc |-> IF Boot!Exists("os") THEN "downSidecar" ELSE "unrecord", box |-> "os", ok |-> Boot!Exists("os")]
    <2>1. boot' = b /\ container' = container
      BY <1>9 DEF Boot!Down, Boot!host
    <2>2. "pc" \in DOMAIN b /\ b.pc = IF Boot!Exists("os") THEN "downSidecar" ELSE "unrecord"
      OBVIOUS
    <2>3. b.ok <=> Boot!Exists("os")
      BY Zenon
    <2> HIDE DEF b
    <2>4. boot' # None
      BY <2>1, <2>2 DEF BootAssumption
    <2> QED
      BY <2>1, <2>2, <2>3, <2>4 DEF DownInv, DownSoFar, Boot!DownLeavesNothing, Boot!Exists
  <1>10. CASE Boot!StopContainer
    <2>1. boot # None /\ DownSoFar(boot, container["os"], sidecar["os"], mounted, dir["os"])
          /\ DOMAIN container = Boot!Box /\ DOMAIN sidecar = Boot!Box /\ DOMAIN dir = Boot!Box /\ "os" \in Boot!Box
      BY <1>10 DEF Boot!StopContainer, Boot!StopContainerSteps, Boot!At, BoxInv, BoxesInv, DownInv, Boot!Box
    <2>2. ASSUME boot.pc = "downSidecar", boot' = [boot EXCEPT !.pc = "downStop"],
                 sidecar' = [sidecar EXCEPT !["os"] = "none"], container' = container
          PROVE  DownInv'
      BY <1>1, <2>1, <2>2 DEF DownInv, DownSoFar, Boot!DownLeavesNothing
    <2>3. ASSUME boot.pc = "downStop", boot' = [boot EXCEPT !.pc = "downRemove"],
                 container' = [container EXCEPT !["os"].st = "exited"], sidecar' = sidecar
          PROVE  DownInv'
      <3>1. "st" \in DOMAIN container["os"]
        BY <2>1, <2>3 DEF DownSoFar, BoxInv, BoxesInv, BoxOK, IsBox
      <3>2. container'["os"] # None
        BY <2>1, <2>3, <3>1 DEF BootAssumption
      <3> QED
        BY <1>1, <2>1, <2>3, <3>2 DEF DownInv, DownSoFar, Boot!DownLeavesNothing
    <2>4. ASSUME boot.pc = "downRemove", boot' = [boot EXCEPT !.pc = "downDir"],
                 container' = [container EXCEPT !["os"] = None], sidecar' = sidecar
          PROVE  DownInv'
      BY <1>1, <2>1, <2>4 DEF DownInv, DownSoFar, Boot!DownLeavesNothing
    <2>5. ASSUME boot.pc = "downDir", boot' = [boot EXCEPT !.pc = "unrecord"],
                 dir' = [dir EXCEPT !["os"] = IF "os" \in mounted THEN dir["os"] ELSE None],
                 UNCHANGED <<container, sidecar, mounted>>
          PROVE  DownInv'
      BY <1>1, <2>1, <2>5 DEF DownInv, DownSoFar, Boot!DownLeavesNothing
    <2> QED
      BY <1>10, <2>2, <2>3, <2>4, <2>5
         DEF Boot!StopContainer, Boot!StopContainerSteps, Boot!At, Boot!Step, Boot!StopSidecar, Boot!RemoveDir
  <1>11. CASE Boot!StopFails
    <2>1. boot # None /\ boot.pc = "downStop" /\ boot' = [boot EXCEPT !.pc = "unrecord", !.ok = FALSE]
      BY <1>11 DEF Boot!StopFails, Boot!At
    <2>2. IsDowning(boot)
      BY <2>1 DEF BoxInv, CommandInv, CommandOK, BootSteps
    <2>3. PICK v : v = FALSE /\ boot' = [boot EXCEPT !.pc = "unrecord", !.ok = v]
      BY <2>1
    <2>4. "pc" \in DOMAIN boot' /\ boot'.pc = "unrecord" /\ boot'.ok = v
      BY <2>2, <2>3 DEF IsDowning
    <2>5. ~boot'.ok
      BY <2>3, <2>4, Zenon
    <2> QED
      BY <2>4, <2>5 DEF DownInv, DownSoFar, Boot!DownLeavesNothing, BootAssumption
  <1>12. CASE Boot!RemoveOsState
    <2>1. boot # None /\ boot.pc = "unrecord" /\ UNCHANGED <<container, sidecar, mounted, dir>>
          /\ boot' = None /\ last' = IF boot.ok THEN "down" ELSE "failed"
      BY <1>12 DEF Boot!RemoveOsState, Boot!At, Boot!End, Boot!host
    <2> QED
      BY <1>3, <2>1 DEF BoxInv, DownInv, DownSoFar, Boot!DownLeavesNothing, Boot!Exists
  <1>13. CASE Boot!SnapshotCreate \/ Boot!WriteFile \/ Boot!SnapshotFails
    <2>1. UNCHANGED <<boot, container, sidecar, mounted, dir, last>>
      BY <1>13 DEF Boot!SnapshotCreate, Boot!WriteFile, Boot!SnapshotFails, Boot!host
    <2> QED
      BY <2>1 DEF BoxInv, DownInv, Boot!DownLeavesNothing, Boot!Exists
  <1>14. CASE Boot!ContainerExits
    <2>1. container["os"] # None /\ UNCHANGED <<boot, sidecar, mounted, dir, last>>
          /\ container' = [container EXCEPT !["os"].st = "exited"]
      BY <1>14 DEF Boot!ContainerExits, Boot!Running, Boot!Exists
    <2>2. DOMAIN container = Boot!Box /\ "os" \in Boot!Box /\ IsBox(container["os"])
      BY <2>1 DEF BoxInv, BoxesInv, BoxOK, Boot!Box
    <2>3. "st" \in DOMAIN container["os"]
      BY <2>2 DEF IsBox
    <2>4. container'["os"] # None
      BY <2>1, <2>2, <2>3 DEF BootAssumption
    <2> QED
      BY <2>1, <2>4 DEF BoxInv, DownInv, DownSoFar, Boot!DownLeavesNothing, Boot!Exists
  <1>15. CASE Boot!SidecarDies
    <2>1. sidecar["os"] = "up" /\ UNCHANGED <<boot, container, mounted, dir, last>>
      BY <1>15 DEF Boot!SidecarDies
    <2> QED
      BY <2>1 DEF BoxInv, DownInv, DownSoFar, Boot!DownLeavesNothing, Boot!Exists
  <1> QED
    BY <1>4, <1>5, <1>6, <1>7, <1>8, <1>9, <1>10, <1>11, <1>12, <1>13, <1>14, <1>15 DEF Boot!Next

\* Whatever fails, dies or is cut short at whatever point, for any apps and
\* environments: no secret's value is in a container's configuration, a
\* committed image or a snapshot; a teardown that says it is done, and a boot
\* refused after its sidecar was up, leave nothing; a container has no more
\* privilege than was asked for; and a listed snapshot has its state
\* (container.ts, secrets.ts, snapshot.ts, commands/os).
THEOREM BoxStaysClean ==
  ASSUME BootAssumption
  PROVE  Boot!Spec => [](/\ Boot!NoSecretRecorded /\ Boot!DownLeavesNothing
                         /\ Boot!PostureAsAsked /\ Boot!ListedHasState)
  <1>1. Boot!Init => BoxInv
    <2> SUFFICES ASSUME Boot!Init PROVE BoxInv
      OBVIOUS
    <2>1. /\ container = [b \in Boot!Box |-> None] /\ sidecar = [b \in Boot!Box |-> "none"] /\ dir = [b \in Boot!Box |-> None]
          /\ boot = None /\ taking = None /\ last = "none" /\ snap = Boot!NoSnap
      BY DEF Boot!Init
    <2>2. BoxesInv /\ CommandInv
      BY <2>1 DEF BoxesInv, CommandInv
    <2>3. DownInv
      BY <2>1 DEF DownInv, Boot!DownLeavesNothing
    <2>4. SnapInv
      <3>1. snap.files = {} /\ snap.env = {} /\ snap.image = {}
            /\ snap = [files |-> snap.files, env |-> snap.env, image |-> snap.image]
        BY <2>1 DEF Boot!NoSnap
      <3> QED
        BY <2>1, <3>1 DEF SnapInv, Harmless, Boot!ListedHasState
    <2> QED
      BY <2>2, <2>3, <2>4 DEF BoxInv
  <1>2. BoxInv /\ [Boot!Next]_Boot!vars => BoxInv'
    <2>1. ASSUME BoxInv, UNCHANGED Boot!vars PROVE BoxInv'
      <3>1. UNCHANGED <<declares, boot, container, sidecar, mounted, dir, snap, taking, last>>
        BY <2>1 DEF Boot!vars
      <3>2. Boot!Declared' = Boot!Declared
        BY <3>1 DEF Boot!Declared
      <3>3. BoxesInv' /\ CommandInv'
        BY <2>1, <3>1, <3>2 DEF BoxInv, BoxesInv, CommandInv
      <3>4. DownInv'
        BY <2>1, <3>1 DEF BoxInv, DownInv, Boot!DownLeavesNothing, Boot!Exists
      <3>5. SnapInv'
        BY <2>1, <3>1, <3>2 DEF BoxInv, SnapInv, Boot!ListedHasState
      <3> QED
        BY <3>3, <3>4, <3>5 DEF BoxInv
    <2>2. ASSUME BoxInv, Boot!Next PROVE BoxInv'
      BY <2>2, BoxesStep, CommandStep, DownStep, SnapStep DEF BoxInv
    <2> QED
      BY <2>1, <2>2
  <1>3. BoxInv => /\ Boot!NoSecretRecorded /\ Boot!DownLeavesNothing
                  /\ Boot!PostureAsAsked /\ Boot!ListedHasState
    <2> SUFFICES ASSUME BoxInv PROVE /\ Boot!NoSecretRecorded /\ Boot!DownLeavesNothing
                                     /\ Boot!PostureAsAsked /\ Boot!ListedHasState
      OBVIOUS
    <2>1. Boot!NoSecretRecorded
      BY DEF BoxInv, BoxesInv, SnapInv, BoxOK, Harmless, Boot!NoSecretRecorded, Boot!Secret, Boot!Exists
    <2>2. Boot!PostureAsAsked
      BY DEF BoxInv, BoxesInv, BoxOK, Boot!PostureAsAsked, Boot!Exists
    <2> QED
      BY <2>1, <2>2 DEF BoxInv, DownInv, SnapInv
  <1> QED
    BY <1>1, <1>2, <1>3, PTL DEF Boot!Spec

-----------------------------------------------------------------------------
(* The evidence of a boot.  Boots are only added, each on the kernel that   *)
(* runs then; a log holds what the boots of its container said themselves;  *)
(* an entry of the cache is what its key asked; and what a session reads is *)
(* of the boot its calls went to or of a later one.                         *)

Releases == {KernelRelease[x] : x \in Kernel}

Statuses == {"enforcing", "unsupported", "present_not_enforcing", "unknown"}

\* A probe says one of what it can, and no answer is not a yes.
EvidenceAssumption ==
  /\ \A k \in Kernel, r \in ContainerRuntime : Answer[k][r].status \in Statuses
  /\ None \notin BOOLEAN

IsBoot(b) ==
  b = [epoch |-> b.epoch, kernel |-> b.kernel, release |-> b.release, runtime |-> b.runtime,
       by |-> b.by, delegated |-> b.delegated, banner |-> b.banner]

IsLogged(x) == x = [boot |-> x.boot, runtime |-> x.runtime, up |-> x.up, log |-> x.log]

IsEvidence(e) ==
  e = [pc |-> e.pc, runtime |-> e.runtime, boot |-> e.boot, reports |-> e.reports, probe |-> e.probe]

\* What boot i of bs reports of its apps.
Said(bs, i, r) == r.ruleset = Evidence!RulesetOf(Answer[bs[i].kernel][bs[i].runtime], r.app)

\* A probe that ran under this runtime, no earlier than epoch n.
Probed(p, runtime, n) ==
  p # Evidence!Unknown => p.runtime = runtime /\ p.epoch \in Nat /\ p.epoch >= n /\ p.status \in Statuses

\* Evidence of a boot of bs: its own reports and a probe that is not older.
EvidenceOK(e, bs) ==
  /\ IsEvidence(e) /\ e.boot \in 1..Len(bs) /\ e.runtime \in ContainerRuntime
  /\ Probed(e.probe, e.runtime, bs[e.boot].epoch)
  /\ \A r \in e.reports : Said(bs, e.boot, r)

\* What is true of each boot, up to epoch n.
BootOK(b, n) ==
  /\ IsBoot(b) /\ b.epoch \in Nat /\ b.epoch <= n
  /\ b.delegated => b.by = <<b.release, b.runtime, TRUE>>

LogOK(x, bs) ==
  \A l \in x.log : l.boot \in 1..Len(bs) /\ Said(bs, l.boot, l)

\* The container is of the last boot, whose kernel still runs while it is up.
BoxIsLast(x, bs, h) ==
  /\ IsLogged(x) /\ x.boot = Len(bs) /\ Len(bs) > 0
  /\ bs[Len(bs)].runtime = x.runtime /\ x.runtime \in ContainerRuntime
  /\ x.up => bs[Len(bs)].kernel = h.kernel

HostInv ==
  /\ \E S : boots \in Seq(S)
  /\ host = [kernel |-> host.kernel, epoch |-> host.epoch]
  /\ host.kernel \in Kernel /\ host.epoch \in Nat

BootsInv == \A i \in 1..Len(boots) : BootOK(boots[i], host.epoch)

CacheInv ==
  /\ DOMAIN cache = Releases \X ContainerRuntime
  /\ \A k \in DOMAIN cache : cache[k] # None => cache[k].release = k[1] /\ cache[k].runtime = k[2]

LastInv == box # None => BoxIsLast(box, boots, host) /\ LogOK(box, boots)

AttachedInv ==
  /\ DOMAIN attached = Booting
  /\ \A s \in Booting : attached[s] # None => attached[s] \in 1..Len(boots)

\* What a session reads is of the boot it is attached to or of a later one.
ReadOf(e, a, bs) == EvidenceOK(e, bs) /\ a # None /\ a <= e.boot

GatherInv ==
  /\ DOMAIN gather = Booting
  /\ \A g \in Booting : /\ IsEvidence(gather[g])
                        /\ gather[g].pc \in {"probe", "done"} => ReadOf(gather[g], attached[g], boots)
                        /\ gather[g].pc = "probe" => gather[g].probe = Evidence!Unknown

CallOf(t, a) == t.session \in Booting /\ t.boot = a[t.session] /\ t.boot # None

BootOf(t, a, bs) == t.session \in Booting /\ ReadOf(t.evidence, a[t.session], bs)

TrailInv ==
  \A t \in trail : /\ t.kind = "call" => CallOf(t, attached)
                   /\ t.kind = "boot" => BootOf(t, attached, boots)

EvidenceInv == HostInv /\ BootsInv /\ CacheInv /\ LastInv /\ AttachedInv /\ GatherInv /\ TrailInv

\* The boots of cs are those of bs and maybe more.
More(bs, cs) ==
  /\ Len(bs) \in Nat /\ Len(cs) \in Nat /\ Len(bs) <= Len(cs)
  /\ \A i \in 1..Len(bs) : cs[i] = bs[i]

LEMMA OneMoreBoot ==
  ASSUME NEW S, NEW bs \in Seq(S), NEW b
  PROVE  /\ More(bs, Append(bs, b)) /\ Len(Append(bs, b)) = Len(bs) + 1
         /\ Append(bs, b)[Len(bs) + 1] = b /\ Append(bs, b) \in Seq(S \cup {b})
  <1>1. bs \in Seq(S \cup {b}) /\ Len(bs) \in Nat
    BY SeqDef
  <1>2. b \in S \cup {b}
    OBVIOUS
  <1> QED
    BY <1>1, <1>2 DEF More

\* What is evidence stays so when there are more boots.
LEMMA EvidenceStays ==
  ASSUME NEW bs, NEW cs, More(bs, cs)
  PROVE  /\ \A e : EvidenceOK(e, bs) => EvidenceOK(e, cs)
         /\ \A x : LogOK(x, bs) => LogOK(x, cs)
  <1>1. \A i \in 1..Len(bs) : i \in 1..Len(cs) /\ cs[i] = bs[i]
    BY DEF More
  <1> QED
    BY <1>1 DEF EvidenceOK, LogOK, Said

\* A step that boots nothing leaves the boots and the container as they are,
\* but for what an app reports and a host that goes down.
LEMMA BootsGrow ==
  ASSUME EvidenceInv, Evidence!Next
  PROVE  More(boots, boots')
  <1>1. PICK S : boots \in Seq(S)
    BY DEF EvidenceInv, HostInv
  <1>2. boots' = boots \/ \E b : boots' = Append(boots, b)
    BY DEF Evidence!Next, Evidence!StartContainer, Evidence!BootRefused, Evidence!Doctor, Evidence!Restart, Evidence!Remove,
           Evidence!AttestRecorded, Evidence!AttestLive, Evidence!AppStarts, Evidence!Reboot, Evidence!Connect,
           Evidence!ToolCall, Evidence!RecordBoot, Evidence!ReadContainer, Evidence!Read, Evidence!MeasureKernel
  <1>3. CASE boots' = boots
    BY <1>1, <1>3 DEF More
  <1> QED
    BY <1>1, <1>2, <1>3, OneMoreBoot

\* Only a probe that runs writes the cache, under the key it answers.
LEMMA CacheStep ==
  ASSUME EvidenceInv, Evidence!Next
  PROVE  CacheInv'
  <1>1. cache' = cache \/ \E r : Evidence!ProbeRuns(r)
    BY DEF Evidence!Next, Evidence!StartContainer, Evidence!BootRefused, Evidence!Doctor, Evidence!Restart, Evidence!Remove,
           Evidence!AttestRecorded, Evidence!AttestLive, Evidence!AppStarts, Evidence!Reboot, Evidence!Connect,
           Evidence!ToolCall, Evidence!RecordBoot, Evidence!ReadContainer, Evidence!Read, Evidence!MeasureKernel,
           Evidence!Measure, Evidence!BootLearns, Evidence!ProbeFails
  <1>2. ASSUME NEW r, Evidence!ProbeRuns(r) PROVE CacheInv'
    <2> DEFINE k == <<KernelRelease[host.kernel], r>>
               p == Evidence!ProbeKernel(r)
    <2>1. cache' = [cache EXCEPT ![k] = p]
      BY <1>2 DEF Evidence!ProbeRuns, Evidence!CacheKey
    <2>2. p.release = k[1] /\ p.runtime = k[2]
      BY DEF Evidence!ProbeKernel
    <2> HIDE DEF k, p
    <2> QED
      BY <2>1, <2>2 DEF EvidenceInv, CacheInv
  <1> QED
    BY <1>1, <1>2 DEF EvidenceInv, CacheInv

\* A boot's words and delegation are of what its kernel and runtime answered.
LEMMA BootStep ==
  ASSUME EvidenceAssumption, EvidenceInv, Evidence!Next
  PROVE  HostInv' /\ BootsInv' /\ LastInv'
  <1>1. PICK S : boots \in Seq(S)
    BY DEF EvidenceInv, HostInv
  <1>2. /\ host = [kernel |-> host.kernel, epoch |-> host.epoch] /\ host.kernel \in Kernel /\ host.epoch \in Nat
        /\ \A i \in 1..Len(boots) : BootOK(boots[i], host.epoch)
        /\ box # None => BoxIsLast(box, boots, host) /\ LogOK(box, boots)
    BY DEF EvidenceInv, HostInv, BootsInv, LastInv
  <1>3. CASE UNCHANGED <<host, box, boots>>
    BY <1>3 DEF EvidenceInv, HostInv, BootsInv, LastInv
  <1>4. ASSUME NEW b, boots' = Append(boots, b), host' = host, BootOK(b, host.epoch), b.kernel = host.kernel,
               IsLogged(box'), box'.boot = Len(boots) + 1, box'.runtime = b.runtime, b.runtime \in ContainerRuntime,
               box'.log = {} \/ (box # None /\ box'.log = box.log)
        PROVE  HostInv' /\ BootsInv' /\ LastInv'
    <2>1. /\ More(boots, boots') /\ Len(boots') = Len(boots) + 1 /\ Len(boots) \in Nat
          /\ boots'[Len(boots) + 1] = b /\ boots' \in Seq(S \cup {b})
      BY <1>1, <1>4, OneMoreBoot DEF More
    <2>2. HostInv'
      BY <1>2, <1>4, <2>1 DEF HostInv
    <2>3. \A i \in 1..Len(boots') : i \in 1..Len(boots) \/ i = Len(boots) + 1
      BY <2>1
    <2>4. \A i \in 1..Len(boots) : boots'[i] = boots[i]
      BY <2>1 DEF More
    <2>5. BootsInv'
      BY <1>2, <1>4, <2>1, <2>3, <2>4 DEF BootsInv
    <2>6. BoxIsLast(box', boots', host')
      BY <1>4, <2>1 DEF BoxIsLast
    <2>7. LogOK(box', boots')
      <3>1. CASE box'.log = {}
        BY <3>1 DEF LogOK
      <3>2. CASE box # None /\ box'.log = box.log
        BY <1>2, <2>1, <3>2, EvidenceStays DEF LogOK
      <3> QED
        BY <1>4, <3>1, <3>2
    <2> QED
      BY <2>2, <2>5, <2>6, <2>7 DEF LastInv
  <1>5. ASSUME NEW r \in ContainerRuntime, Evidence!StartContainer(r) PROVE HostInv' /\ BootsInv' /\ LastInv'
    <2>1. PICK a \in Evidence!Answers(r) :
            /\ Evidence!BootLearns(r, a)
            /\ boots' = Append(boots, [epoch |-> host.epoch, kernel |-> host.kernel,
                                       release |-> KernelRelease[host.kernel], runtime |-> r,
                                       by |-> <<a.release, a.runtime, a.nsdelegate>>,
                                       delegated |-> Evidence!CgroupDelegationVerdict(a), banner |-> Evidence!Banner(a)])
      BY <1>5 DEF Evidence!StartContainer
    <2>2. host' = host /\ box' = [boot |-> Len(boots) + 1, runtime |-> r, up |-> TRUE, log |-> {}]
      BY <1>5 DEF Evidence!StartContainer
    <2> DEFINE b == [epoch |-> host.epoch, kernel |-> host.kernel,
                     release |-> KernelRelease[host.kernel], runtime |-> r,
                     by |-> <<a.release, a.runtime, a.nsdelegate>>,
                     delegated |-> Evidence!CgroupDelegationVerdict(a), banner |-> Evidence!Banner(a)]
    <2>3. b.epoch = host.epoch /\ b.kernel = host.kernel /\ b.release = KernelRelease[host.kernel] /\ b.runtime = r
          /\ b.by = <<a.release, a.runtime, a.nsdelegate>>
      OBVIOUS
    <2>4. IsBoot(b)
      BY Zenon DEF IsBoot
    <2>5. b.delegated <=> a.nsdelegate = TRUE
      BY Zenon DEF Evidence!CgroupDelegationVerdict
    <2>6. \/ a.nsdelegate = None
          \/ a.release = KernelRelease[host.kernel] /\ a.runtime = r
      <3>1. <<KernelRelease[host.kernel], r>> \in Releases \X ContainerRuntime
        BY <1>2 DEF Releases
      <3>2. CASE a = cache[Evidence!CacheKey(r)] /\ a # None
        BY <3>1, <3>2 DEF EvidenceInv, CacheInv, Evidence!CacheKey
      <3>3. CASE a = Evidence!Unknown
        BY <3>3 DEF Evidence!Unknown
      <3>4. CASE a = Evidence!ProbeKernel(r)
        BY <3>4 DEF Evidence!ProbeKernel
      <3> QED
        BY <2>1, <3>2, <3>3, <3>4 DEF Evidence!BootLearns
    <2> HIDE DEF b
    <2>7. b.delegated => b.by = <<b.release, b.runtime, TRUE>>
      <3>1. b.delegated => a.nsdelegate = TRUE /\ a.nsdelegate # None
        BY <2>5, Zenon DEF EvidenceAssumption
      <3> QED
        BY <2>3, <2>6, <3>1, Zenon
    <2>8. BootOK(b, host.epoch)
      <3>1. b.epoch \in Nat /\ b.epoch <= host.epoch
        BY <1>2, <2>3
      <3> QED
        BY <2>4, <2>7, <3>1, Zenon DEF BootOK
    <2>9. IsLogged(box') /\ box'.boot = Len(boots) + 1 /\ box'.runtime = r /\ box'.log = {}
      BY <2>2, Zenon DEF IsLogged
    <2>10. boots' = Append(boots, b)
      BY <2>1 DEF b
    <2>11. /\ b.kernel = host.kernel /\ box'.runtime = b.runtime /\ b.runtime \in ContainerRuntime /\ host' = host
           /\ box'.log = {} \/ (box # None /\ box'.log = box.log)
      BY <2>2, <2>3, <2>9
    <2> QED
      BY <1>4, <2>8, <2>9, <2>10, <2>11
  <1>6. CASE Evidence!Restart
    <2>1. /\ box # None /\ host' = host
          /\ boots' = Append(boots, [boots[box.boot] EXCEPT !.epoch = host.epoch, !.kernel = host.kernel])
      BY <1>6 DEF Evidence!Restart
    <2>2. PICK v : box' = [box EXCEPT !.boot = Len(boots) + 1, !.up = v]
      BY <1>6 DEF Evidence!Restart
    <2>3. /\ IsLogged(box) /\ box.boot \in 1..Len(boots)
          /\ boots[box.boot].runtime = box.runtime /\ box.runtime \in ContainerRuntime
      BY <1>1, <1>2, <2>1 DEF BoxIsLast
    <2>4. box' = [boot |-> Len(boots) + 1, runtime |-> box.runtime, up |-> v, log |-> box.log]
      BY <2>2, <2>3 DEF IsLogged
    <2>5. IsLogged(box') /\ box'.boot = Len(boots) + 1 /\ box'.runtime = box.runtime /\ box'.log = box.log
      BY <2>4 DEF IsLogged
    <2> DEFINE o == boots[box.boot]
               n == [o EXCEPT !.epoch = host.epoch]
               b == [n EXCEPT !.kernel = host.kernel]
    <2>6. BootOK(o, host.epoch)
      BY <1>2, <2>3
    <2>7. o = [epoch |-> o.epoch, kernel |-> o.kernel, release |-> o.release, runtime |-> o.runtime,
               by |-> o.by, delegated |-> o.delegated, banner |-> o.banner]
      BY <2>6 DEF BootOK, IsBoot
    <2>8. boots' = Append(boots, b) /\ o.runtime = box.runtime
      BY <2>1, <2>3
    <2> HIDE DEF o
    <2>9. n = [epoch |-> host.epoch, kernel |-> o.kernel, release |-> o.release, runtime |-> o.runtime,
                by |-> o.by, delegated |-> o.delegated, banner |-> o.banner]
      BY <2>7
    <2> HIDE DEF n
    <2>10. b = [epoch |-> host.epoch, kernel |-> host.kernel, release |-> o.release, runtime |-> o.runtime,
               by |-> o.by, delegated |-> o.delegated, banner |-> o.banner]
      BY <2>9
    <2> HIDE DEF b
    <2>11. /\ b.epoch = host.epoch /\ b.kernel = host.kernel /\ b.release = o.release /\ b.runtime = o.runtime
           /\ b.by = o.by /\ b.delegated = o.delegated /\ IsBoot(b)
      BY <2>10 DEF IsBoot
    <2>12. BootOK(b, host.epoch)
      <3>1. b.epoch \in Nat /\ b.epoch <= host.epoch
        BY <1>2, <2>11
      <3>2. b.delegated => b.by = <<b.release, b.runtime, TRUE>>
        BY <2>6, <2>11, Zenon DEF BootOK
      <3> QED
        BY <2>11, <3>1, <3>2, Zenon DEF BootOK
    <2>13. /\ b.kernel = host.kernel /\ box'.runtime = b.runtime /\ b.runtime \in ContainerRuntime
           /\ box'.log = {} \/ (box # None /\ box'.log = box.log)
      BY <2>1, <2>3, <2>5, <2>8, <2>11
    <2> QED
      BY <1>4, <2>1, <2>5, <2>8, <2>12, <2>13
  <1>7. CASE Evidence!Remove
    BY <1>2, <1>7 DEF Evidence!Remove, EvidenceInv, HostInv, BootsInv, LastInv
  <1>8. ASSUME NEW k \in Kernel, Evidence!Reboot(k) PROVE HostInv' /\ BootsInv' /\ LastInv'
    <2>1. boots' = boots /\ host' = [kernel |-> k, epoch |-> host.epoch + 1]
      BY <1>8 DEF Evidence!Reboot
    <2>2. HostInv' /\ host'.epoch = host.epoch + 1
      <3>1. host' = [kernel |-> host'.kernel, epoch |-> host'.epoch] /\ host'.kernel = k /\ host'.epoch = host.epoch + 1
        BY <2>1
      <3>2. \E T : boots' \in Seq(T)
        BY <1>1, <2>1
      <3>3. host'.kernel \in Kernel /\ host'.epoch \in Nat
        BY <1>2, <3>1
      <3> QED
        BY <3>1, <3>2, <3>3, Zenon DEF HostInv
    <2>3. BootsInv'
      <3>1. ASSUME NEW b, BootOK(b, host.epoch) PROVE BootOK(b, host.epoch + 1)
        <4>1. b.epoch <= host.epoch + 1
          BY <1>2, <3>1 DEF BootOK
        <4> QED
          BY <3>1, <4>1, Zenon DEF BootOK
      <3> QED
        BY <1>2, <2>1, <2>2, <3>1 DEF BootsInv
    <2>4. LastInv'
      <3>1. CASE box = None
        BY <1>8, <3>1 DEF Evidence!Reboot, LastInv
      <3>2. CASE box # None
        <4>1. PICK v : v = FALSE /\ box' = [box EXCEPT !.up = v]
          BY <1>8, <3>2 DEF Evidence!Reboot
        <4>2. box = [boot |-> box.boot, runtime |-> box.runtime, up |-> box.up, log |-> box.log]
          BY <1>2, <3>2 DEF BoxIsLast, IsLogged
        <4>3. box' = [boot |-> box.boot, runtime |-> box.runtime, up |-> v, log |-> box.log]
          BY <4>1, <4>2
        <4>4. box'.boot = box.boot /\ box'.runtime = box.runtime /\ box'.up = v /\ box'.log = box.log /\ IsLogged(box')
          BY <4>3 DEF IsLogged
        <4>5. ~box'.up
          BY <4>1, <4>4, Zenon
        <4> QED
          BY <1>2, <2>1, <3>2, <4>4, <4>5 DEF LastInv, BoxIsLast, LogOK
      <3> QED
        BY <3>1, <3>2
    <2> QED
      BY <2>2, <2>3, <2>4
  <1>9. ASSUME NEW a \in Governed, Evidence!AppStarts(a) PROVE HostInv' /\ BootsInv' /\ LastInv'
    <2> DEFINE l == [boot |-> box.boot, app |-> a,
                     ruleset |-> Evidence!RulesetOf(Answer[host.kernel][box.runtime], a)]
    <2>1. box # None /\ box.up /\ boots' = boots /\ host' = host /\ box' = [box EXCEPT !.log = box.log \cup {l}]
      BY <1>9 DEF Evidence!AppStarts
    <2>2. l.boot = box.boot /\ l.app = a /\ l.ruleset = Evidence!RulesetOf(Answer[host.kernel][box.runtime], a)
      OBVIOUS
    <2> HIDE DEF l
    <2>3. BoxIsLast(box, boots, host) /\ LogOK(box, boots)
      BY <1>2, <2>1
    <2>4. box = [boot |-> box.boot, runtime |-> box.runtime, up |-> box.up, log |-> box.log]
      BY <2>3 DEF BoxIsLast, IsLogged
    <2>5. box' = [boot |-> box.boot, runtime |-> box.runtime, up |-> box.up, log |-> box.log \cup {l}]
      BY <2>1, <2>4
    <2>6. box'.boot = box.boot /\ box'.runtime = box.runtime /\ box'.up = box.up /\ box'.log = box.log \cup {l} /\ IsLogged(box')
      BY <2>5 DEF IsLogged
    <2>7. BoxIsLast(box', boots', host')
      BY <2>1, <2>3, <2>6 DEF BoxIsLast
    <2>8. l.boot \in 1..Len(boots) /\ Said(boots, l.boot, l)
      BY <1>1, <2>1, <2>2, <2>3 DEF BoxIsLast, Said
    <2>9. LogOK(box', boots')
      BY <2>1, <2>3, <2>6, <2>8 DEF LogOK
    <2>10. HostInv' /\ BootsInv'
      BY <2>1 DEF EvidenceInv, HostInv, BootsInv
    <2> QED
      BY <2>7, <2>9, <2>10 DEF LastInv
  <1> QED
    BY <1>3, <1>5, <1>6, <1>7, <1>8, <1>9
       DEF Evidence!Next, Evidence!BootRefused, Evidence!Doctor, Evidence!AttestRecorded, Evidence!AttestLive,
           Evidence!Connect, Evidence!ToolCall, Evidence!RecordBoot, Evidence!ReadContainer, Evidence!Read,
           Evidence!MeasureKernel

\* What a session reads, records and calls is of the boot it is attached to.
LEMMA SessionsStep ==
  ASSUME EvidenceAssumption, EvidenceInv, Evidence!Next
  PROVE  AttachedInv' /\ GatherInv' /\ TrailInv'
  <1>1. More(boots, boots')
    BY BootsGrow
  <1>2. \A e, a : ReadOf(e, a, boots) => ReadOf(e, a, boots')
    BY <1>1, EvidenceStays DEF ReadOf
  <1>3. AttachedInv /\ GatherInv /\ TrailInv /\ Len(boots) \in Nat /\ Len(boots') \in Nat /\ Len(boots) <= Len(boots')
    BY <1>1 DEF EvidenceInv, More
  <1>4. CASE UNCHANGED <<attached, gather, trail>>
    <2>1. AttachedInv'
      BY <1>3, <1>4 DEF AttachedInv
    <2>2. GatherInv'
      BY <1>2, <1>3, <1>4 DEF GatherInv
    <2>3. TrailInv'
      BY <1>2, <1>3, <1>4 DEF TrailInv, CallOf, BootOf
    <2> QED
      BY <2>1, <2>2, <2>3
  <1>5. ASSUME NEW s \in Booting, Evidence!Connect(s) PROVE AttachedInv' /\ GatherInv' /\ TrailInv'
    <2>1. /\ attached[s] = None /\ box # None /\ attached' = [attached EXCEPT ![s] = box.boot]
          /\ UNCHANGED <<boots, gather, trail>>
      BY <1>5 DEF Evidence!Connect
    <2>2. box.boot \in 1..Len(boots)
      BY <1>3, <2>1 DEF EvidenceInv, LastInv, BoxIsLast
    <2>3. AttachedInv'
      BY <1>3, <2>1, <2>2 DEF AttachedInv
    <2>4. \A g \in Booting : attached[g] # None => attached'[g] = attached[g]
      BY <1>3, <2>1 DEF AttachedInv
    <2>5. GatherInv'
      BY <1>3, <2>1, <2>4 DEF GatherInv, ReadOf
    <2>6. TrailInv'
      BY <1>3, <2>1, <2>4 DEF TrailInv, CallOf, BootOf, ReadOf
    <2> QED
      BY <2>3, <2>5, <2>6
  <1>6. ASSUME NEW s \in Booting, Evidence!ToolCall(s) PROVE AttachedInv' /\ GatherInv' /\ TrailInv'
    <2> DEFINE c == [kind |-> "call", session |-> s, boot |-> box.boot]
    <2>1. /\ attached[s] # None /\ box.boot = attached[s] /\ trail' = trail \cup {c}
          /\ UNCHANGED <<boots, gather, attached>>
      BY <1>6 DEF Evidence!ToolCall
    <2>2. c.kind = "call" /\ c.session = s /\ c.boot = box.boot
      OBVIOUS
    <2> HIDE DEF c
    <2>3. TrailInv'
      BY <1>3, <2>1, <2>2 DEF TrailInv, CallOf, BootOf
    <2> QED
      BY <1>3, <2>1, <2>3 DEF AttachedInv, GatherInv
  <1>7. ASSUME NEW g \in Booting, gather' = [gather EXCEPT ![g] = gather'[g]], UNCHANGED <<boots, attached, trail>>,
               IsEvidence(gather'[g]),
               gather'[g].pc \in {"probe", "done"} => ReadOf(gather'[g], attached[g], boots),
               gather'[g].pc = "probe" => gather'[g].probe = Evidence!Unknown
        PROVE  AttachedInv' /\ GatherInv' /\ TrailInv'
    <2>1. AttachedInv' /\ TrailInv'
      BY <1>3, <1>7 DEF AttachedInv, TrailInv
    <2>2. DOMAIN gather' = Booting /\ \A h \in Booting : h # g => gather'[h] = gather[h]
      BY <1>3, <1>7 DEF GatherInv
    <2>3. GatherInv'
      BY <1>3, <1>7, <2>2 DEF GatherInv
    <2> QED
      BY <2>1, <2>3
  <1>8. ASSUME NEW g \in Booting, Evidence!ReadContainer(g) PROVE AttachedInv' /\ GatherInv' /\ TrailInv'
    <2> DEFINE e == Evidence!EvidenceOf("probe")
               n == [Evidence!NoEvidence EXCEPT !.pc = "failed"]
    <2>1. /\ attached[g] # None /\ UNCHANGED <<boots, attached, trail>>
          /\ \/ box # None /\ gather' = [gather EXCEPT ![g] = e]
             \/ gather' = [gather EXCEPT ![g] = n]
      BY <1>8 DEF Evidence!ReadContainer, Evidence!Reading, Evidence!Read
    <2>2. n = [pc |-> "failed", runtime |-> None, boot |-> None, reports |-> {}, probe |-> Evidence!Unknown]
      BY DEF Evidence!NoEvidence
    <2>3. IsEvidence(n) /\ n.pc = "failed"
      BY <2>2 DEF IsEvidence
    <2>4. e = [pc |-> "probe", runtime |-> box.runtime, boot |-> box.boot,
               reports |-> {r \in box.log : r.boot = box.boot}, probe |-> Evidence!Unknown]
      <3> DEFINE R == {r \in box.log : r.boot = box.boot}
                 e1 == [Evidence!NoEvidence EXCEPT !.pc = "probe"]
                 e2 == [e1 EXCEPT !.runtime = box.runtime]
                 e3 == [e2 EXCEPT !.boot = box.boot]
                 e4 == [e3 EXCEPT !.reports = R]
      <3>1. e = e4
        BY DEF Evidence!EvidenceOf, Evidence!ParseRulesetReports
      <3> HIDE DEF e, R
      <3>2. e1 = [pc |-> "probe", runtime |-> None, boot |-> None, reports |-> {}, probe |-> Evidence!Unknown]
        BY DEF Evidence!NoEvidence
      <3> HIDE DEF e1
      <3>3. e2 = [pc |-> "probe", runtime |-> box.runtime, boot |-> None, reports |-> {}, probe |-> Evidence!Unknown]
        BY <3>2
      <3> HIDE DEF e2
      <3>4. e3 = [pc |-> "probe", runtime |-> box.runtime, boot |-> box.boot, reports |-> {}, probe |-> Evidence!Unknown]
        BY <3>3
      <3> HIDE DEF e3
      <3>5. e4 = [pc |-> "probe", runtime |-> box.runtime, boot |-> box.boot, reports |-> R, probe |-> Evidence!Unknown]
        BY <3>4
      <3> HIDE DEF e4
      <3> QED
        BY <3>1, <3>5 DEF R
    <2> HIDE DEF e, n
    <2>5. e.pc = "probe" /\ e.runtime = box.runtime /\ e.boot = box.boot
          /\ e.reports = {r \in box.log : r.boot = box.boot} /\ e.probe = Evidence!Unknown /\ IsEvidence(e)
      BY <2>4 DEF IsEvidence
    <2>6. CASE box # None /\ gather' = [gather EXCEPT ![g] = e]
      <3>1. /\ box.boot \in 1..Len(boots) /\ box.boot = Len(boots) /\ LogOK(box, boots)
            /\ attached[g] \in 1..Len(boots) /\ box.runtime \in ContainerRuntime
        BY <1>3, <2>1, <2>6 DEF EvidenceInv, LastInv, BoxIsLast, AttachedInv
      <3>2. EvidenceOK(e, boots)
        BY <2>5, <3>1 DEF EvidenceOK, LogOK, Probed
      <3>3. ReadOf(e, attached[g], boots)
        BY <2>1, <2>5, <3>1, <3>2 DEF ReadOf
      <3>4. gather'[g] = e
        BY <1>3, <2>6 DEF GatherInv
      <3> QED
        BY <1>7, <2>1, <2>5, <2>6, <3>3, <3>4
    <2>7. CASE gather' = [gather EXCEPT ![g] = n]
      <3>1. gather'[g] = n
        BY <1>3, <2>7 DEF GatherInv
      <3> QED
        BY <1>7, <2>1, <2>3, <2>7, <3>1
    <2> QED
      BY <2>1, <2>6, <2>7
  <1>9. ASSUME NEW g \in Booting, Evidence!MeasureKernel(g) PROVE AttachedInv' /\ GatherInv' /\ TrailInv'
    <2>1. /\ gather[g].pc = "probe" /\ UNCHANGED <<boots, attached, trail>>
          /\ \/ gather' = [gather EXCEPT ![g].pc = "done", ![g].probe = Evidence!ProbeKernel(gather[g].runtime)]
             \/ gather' = [gather EXCEPT ![g].pc = "done"]
      BY <1>9 DEF Evidence!MeasureKernel, Evidence!Measure, Evidence!Reading
    <2>2. ReadOf(gather[g], attached[g], boots) /\ IsEvidence(gather[g]) /\ gather[g].probe = Evidence!Unknown
          /\ DOMAIN gather = Booting
      BY <1>3, <2>1 DEF GatherInv
    <2> DEFINE p == gather'[g].probe
    <2>3. /\ gather'[g] = [pc |-> "done", runtime |-> gather[g].runtime, boot |-> gather[g].boot,
                           reports |-> gather[g].reports, probe |-> p]
          /\ p = Evidence!Unknown \/ p = Evidence!ProbeKernel(gather[g].runtime)
          /\ gather' = [gather EXCEPT ![g] = gather'[g]]
      <3>1. CASE gather' = [gather EXCEPT ![g].pc = "done"]
        <4>1. gather'[g] = [gather[g] EXCEPT !.pc = "done"] /\ gather' = [gather EXCEPT ![g] = [gather[g] EXCEPT !.pc = "done"]]
          BY <2>2, <3>1
        <4> QED
          BY <2>2, <4>1 DEF IsEvidence
      <3>2. CASE gather' = [gather EXCEPT ![g].pc = "done", ![g].probe = Evidence!ProbeKernel(gather[g].runtime)]
        <4> DEFINE q == Evidence!ProbeKernel(gather[g].runtime)
                   d == [gather[g] EXCEPT !.pc = "done"]
                   f == [d EXCEPT !.probe = q]
        <4>1. gather'[g] = f /\ gather' = [gather EXCEPT ![g] = f]
          BY <2>2, <3>2
        <4> HIDE DEF q
        <4>2. d = [pc |-> "done", runtime |-> gather[g].runtime, boot |-> gather[g].boot,
                   reports |-> gather[g].reports, probe |-> gather[g].probe]
          BY <2>2 DEF IsEvidence
        <4> HIDE DEF d
        <4>3. f = [pc |-> "done", runtime |-> gather[g].runtime, boot |-> gather[g].boot,
                   reports |-> gather[g].reports, probe |-> q]
          BY <4>2
        <4>4. f.probe = q
          BY <4>3
        <4> HIDE DEF f
        <4> QED
          BY <4>1, <4>3, <4>4 DEF q
      <3> QED
        BY <2>1, <3>1, <3>2
    <2>4. Probed(p, gather[g].runtime, boots[gather[g].boot].epoch)
      <3>1. CASE p = Evidence!Unknown
        BY <3>1 DEF Probed
      <3>2. CASE p = Evidence!ProbeKernel(gather[g].runtime)
        <4>1. boots[gather[g].boot].epoch <= host.epoch /\ host.epoch \in Nat
          BY <2>2 DEF EvidenceInv, BootsInv, BootOK, HostInv, ReadOf, EvidenceOK
        <4>2. Answer[host.kernel][gather[g].runtime].status \in Statuses
          BY <2>2 DEF EvidenceInv, HostInv, ReadOf, EvidenceOK, EvidenceAssumption
        <4>3. p.runtime = gather[g].runtime /\ p.epoch = host.epoch
              /\ p.status = Answer[host.kernel][gather[g].runtime].status
          BY <3>2 DEF Evidence!ProbeKernel
        <4> HIDE DEF p
        <4> QED
          BY <4>1, <4>3, <4>2 DEF Probed
      <3> QED
        BY <2>3, <3>1, <3>2
    <2> HIDE DEF p
    <2>5. /\ gather'[g].pc = "done" /\ gather'[g].runtime = gather[g].runtime /\ gather'[g].boot = gather[g].boot
          /\ gather'[g].reports = gather[g].reports /\ gather'[g].probe = p /\ IsEvidence(gather'[g])
      BY <2>3 DEF IsEvidence
    <2>6. ReadOf(gather'[g], attached[g], boots)
      BY <2>2, <2>4, <2>5 DEF ReadOf, EvidenceOK
    <2> QED
      BY <1>7, <2>1, <2>3, <2>5, <2>6
  <1>10. ASSUME NEW s \in Booting, Evidence!RecordBoot(s) PROVE AttachedInv' /\ GatherInv' /\ TrailInv'
    <2> DEFINE n == [Evidence!NoEvidence EXCEPT !.pc = "recorded"]
               t == [kind |-> "boot", session |-> s, evidence |-> gather[s]]
    <2>1. /\ gather[s].pc = "done" /\ gather' = [gather EXCEPT ![s] = n] /\ trail' \in {trail, trail \cup {t}}
          /\ UNCHANGED <<boots, attached>>
      BY <1>10 DEF Evidence!RecordBoot, Evidence!Reading
    <2>2. n = [pc |-> "recorded", runtime |-> None, boot |-> None, reports |-> {}, probe |-> Evidence!Unknown]
      BY DEF Evidence!NoEvidence
    <2>3. IsEvidence(n) /\ n.pc = "recorded"
      BY <2>2 DEF IsEvidence
    <2>4. t.kind = "boot" /\ t.session = s /\ t.evidence = gather[s]
      OBVIOUS
    <2> HIDE DEF n, t
    <2>5. ReadOf(gather[s], attached[s], boots)
      BY <1>3, <2>1 DEF GatherInv
    <2>6. TrailInv'
      BY <1>3, <2>1, <2>4, <2>5 DEF TrailInv, CallOf, BootOf
    <2>7. GatherInv'
      BY <1>3, <2>1, <2>3 DEF GatherInv
    <2> QED
      BY <1>3, <2>1, <2>6, <2>7 DEF AttachedInv
  <1> QED
    BY <1>4, <1>5, <1>6, <1>8, <1>9, <1>10
       DEF Evidence!Next, Evidence!StartContainer, Evidence!BootRefused, Evidence!Doctor, Evidence!Restart, Evidence!Remove,
           Evidence!AttestRecorded, Evidence!AttestLive, Evidence!AppStarts, Evidence!Reboot


\* A verdict is drawn from evidence, by what it says alone.
LEMMA VerdictStep ==
  ASSUME EvidenceAssumption, EvidenceInv, Evidence!Next
  PROVE  Evidence!ActiveIsMeasured' /\ Evidence!NeverAnEarlierBoot'
  <1>1. verdicts = {}
    BY DEF Evidence!Next
  <1>2. CASE verdicts' = verdicts
    BY <1>1, <1>2 DEF Evidence!ActiveIsMeasured, Evidence!NeverAnEarlierBoot
  <1>3. ASSUME NEW e, boots' = boots, e.boot \in 1..Len(boots) => EvidenceOK(e, boots),
               Evidence!DeriveEnforcementStatus(e) = "ACTIVE", e.boot \in 1..Len(boots)
        PROVE  /\ e.probe.status = "enforcing" /\ e.probe.runtime = e.runtime
               /\ e.probe.epoch >= boots'[e.boot].epoch
               /\ \A r \in e.reports :
                    Evidence!RulesetOf(Answer[boots'[e.boot].kernel][boots'[e.boot].runtime], r.app) = "FullyEnforced"
    <2>1. /\ e.probe.status \notin {"unsupported", "present_not_enforcing", "unknown"}
          /\ \A r \in e.reports : r.ruleset = "FullyEnforced"
      BY <1>3 DEF Evidence!DeriveEnforcementStatus
    <2>2. e.probe # Evidence!Unknown
      BY <2>1 DEF Evidence!Unknown
    <2>3. EvidenceOK(e, boots)
      BY <1>3
    <2> QED
      BY <1>3, <2>1, <2>2, <2>3 DEF EvidenceOK, Probed, Said, Statuses
  <1>4. CASE Evidence!AttestRecorded
    <2>1. PICK t \in Evidence!Recorded : Evidence!RecordedBootEvidence(t.evidence) /\ Evidence!Emit(t.evidence, "recorded")
      BY <1>4 DEF Evidence!AttestRecorded
    <2> DEFINE e == t.evidence
               v == [by |-> "attest", source |-> "recorded", status |-> Evidence!DeriveEnforcementStatus(e),
                     evidence |-> e, calls |-> Evidence!Calls]
    <2>2. boots' = boots /\ verdicts' = {v}
      BY <1>1, <1>4, <2>1 DEF Evidence!AttestRecorded, Evidence!Emit
    <2>3. v.evidence = e /\ v.status = Evidence!DeriveEnforcementStatus(e) /\ v.calls = Evidence!Calls
      OBVIOUS
    <2>4. EvidenceOK(e, boots)
      BY <2>1 DEF EvidenceInv, TrailInv, BootOf, ReadOf, Evidence!Recorded
    <2>5. e.boot \in 1..Len(boots)
      BY <2>4 DEF EvidenceOK
    <2>6. \A c \in Evidence!Calls : c.boot <= e.boot
      <3> SUFFICES ASSUME NEW c \in Evidence!Calls PROVE c.boot <= e.boot
        OBVIOUS
      <3>1. PICK u \in Evidence!Recorded : u.session = c.session
        BY <2>1 DEF Evidence!RecordedBootEvidence
      <3>2. u.evidence.boot = e.boot
        BY <2>1, <3>1 DEF Evidence!RecordedBootEvidence, Evidence!BootIdentity
      <3>3. c.boot = attached[c.session] /\ attached[u.session] <= u.evidence.boot
        BY DEF EvidenceInv, TrailInv, CallOf, BootOf, ReadOf, Evidence!Recorded, Evidence!Calls
      <3> QED
        BY <3>1, <3>2, <3>3
    <2> HIDE DEF e, v
    <2>7. Evidence!ActiveIsMeasured'
      BY <1>3, <2>2, <2>3, <2>4, <2>5 DEF Evidence!ActiveIsMeasured
    <2>8. Evidence!NeverAnEarlierBoot'
      BY <2>2, <2>3, <2>6 DEF Evidence!NeverAnEarlierBoot
    <2> QED
      BY <2>7, <2>8
  <1>5. CASE Evidence!AttestLive
    <2>1. PICK e : /\ e = [Evidence!EvidenceOf("done") EXCEPT !.probe = Evidence!ProbeKernel(box.runtime)]
                      \/ e = Evidence!EvidenceOf("done")
                   /\ Evidence!Emit(e, "live")
      BY <1>5 DEF Evidence!AttestLive
    <2> DEFINE v == [by |-> "attest", source |-> "live", status |-> Evidence!DeriveEnforcementStatus(e),
                     evidence |-> e, calls |-> Evidence!Calls]
    <2>2. box # None /\ boots' = boots /\ verdicts' = {v}
      BY <1>1, <1>5, <2>1 DEF Evidence!AttestLive, Evidence!Emit
    <2>3. v.evidence = e /\ v.status = Evidence!DeriveEnforcementStatus(e) /\ v.source = "live"
      OBVIOUS
    <2> HIDE DEF v
    <2>4. PICK p : /\ e = [pc |-> "done", runtime |-> box.runtime, boot |-> box.boot,
                           reports |-> {r \in box.log : r.boot = box.boot}, probe |-> p]
                   /\ p = Evidence!Unknown \/ p = Evidence!ProbeKernel(box.runtime)
      <3> DEFINE R == {r \in box.log : r.boot = box.boot}
                 q == Evidence!ProbeKernel(box.runtime)
                 e1 == [Evidence!NoEvidence EXCEPT !.pc = "done"]
                 e2 == [e1 EXCEPT !.runtime = box.runtime]
                 e3 == [e2 EXCEPT !.boot = box.boot]
                 e4 == [e3 EXCEPT !.reports = R]
      <3>1. e = e4 \/ e = [e4 EXCEPT !.probe = q]
        BY <2>1 DEF Evidence!EvidenceOf, Evidence!ParseRulesetReports
      <3> HIDE DEF R, q
      <3>2. e1 = [pc |-> "done", runtime |-> None, boot |-> None, reports |-> {}, probe |-> Evidence!Unknown]
        BY DEF Evidence!NoEvidence
      <3> HIDE DEF e1
      <3>3. e2 = [pc |-> "done", runtime |-> box.runtime, boot |-> None, reports |-> {}, probe |-> Evidence!Unknown]
        BY <3>2
      <3> HIDE DEF e2
      <3>4. e3 = [pc |-> "done", runtime |-> box.runtime, boot |-> box.boot, reports |-> {}, probe |-> Evidence!Unknown]
        BY <3>3
      <3> HIDE DEF e3
      <3>5. e4 = [pc |-> "done", runtime |-> box.runtime, boot |-> box.boot, reports |-> R, probe |-> Evidence!Unknown]
        BY <3>4
      <3> HIDE DEF e4
      <3>6. [e4 EXCEPT !.probe = q]
              = [pc |-> "done", runtime |-> box.runtime, boot |-> box.boot, reports |-> R, probe |-> q]
        BY <3>5
      <3> QED
        BY <3>1, <3>5, <3>6 DEF R, q
    <2>5. /\ e.runtime = box.runtime /\ e.boot = box.boot /\ e.probe = p /\ IsEvidence(e)
          /\ e.reports = {r \in box.log : r.boot = box.boot}
      BY <2>4 DEF IsEvidence
    <2>6. BoxIsLast(box, boots, host) /\ LogOK(box, boots) /\ Len(boots) \in Nat
      BY <2>2 DEF EvidenceInv, LastInv, HostInv
    <2>7. e.boot \in 1..Len(boots) /\ e.runtime \in ContainerRuntime
      BY <2>5, <2>6 DEF BoxIsLast
    <2>8. Probed(p, e.runtime, boots[e.boot].epoch)
      <3>1. CASE p = Evidence!Unknown
        BY <3>1 DEF Probed
      <3>2. CASE p = Evidence!ProbeKernel(box.runtime)
        <4>1. boots[e.boot].epoch <= host.epoch /\ host.epoch \in Nat
          BY <2>7 DEF EvidenceInv, BootsInv, BootOK, HostInv
        <4>2. p.runtime = box.runtime /\ p.epoch = host.epoch /\ p.status = Answer[host.kernel][box.runtime].status
          BY <3>2 DEF Evidence!ProbeKernel
        <4>3. Answer[host.kernel][box.runtime].status \in Statuses
          BY <2>5, <2>7 DEF EvidenceInv, HostInv, EvidenceAssumption
        <4> QED
          BY <2>5, <4>1, <4>2, <4>3 DEF Probed
      <3> QED
        BY <2>4, <3>1, <3>2
    <2>9. EvidenceOK(e, boots)
      BY <2>5, <2>6, <2>7, <2>8 DEF EvidenceOK, LogOK
    <2>10. Evidence!ActiveIsMeasured'
      BY <1>3, <2>2, <2>3, <2>7, <2>9 DEF Evidence!ActiveIsMeasured
    <2>11. Evidence!NeverAnEarlierBoot'
      BY <2>2, <2>3 DEF Evidence!NeverAnEarlierBoot
    <2> QED
      BY <2>10, <2>11
  <1>6. ASSUME NEW r \in ContainerRuntime, Evidence!Doctor(r)
        PROVE  Evidence!ActiveIsMeasured' /\ Evidence!NeverAnEarlierBoot'
    <2>1. PICK a \in {Evidence!Unknown, Evidence!ProbeKernel(r)} :
            verdicts' = {[by |-> "doctor", source |-> "live", status |-> Evidence!DoctorVerdict(a),
                          evidence |-> [Evidence!NoEvidence EXCEPT !.runtime = r, !.probe = a], calls |-> {}]}
      BY <1>1, <1>6 DEF Evidence!Doctor
    <2> DEFINE e == [Evidence!NoEvidence EXCEPT !.runtime = r, !.probe = a]
               v == [by |-> "doctor", source |-> "live", status |-> Evidence!DoctorVerdict(a), evidence |-> e, calls |-> {}]
    <2>2. v.evidence = e /\ v.status = Evidence!DoctorVerdict(a) /\ v.source = "live"
      OBVIOUS
    <2>3. verdicts' = {v}
      BY <2>1
    <2> HIDE DEF v
    <2>4. e = [pc |-> "start", runtime |-> r, boot |-> None, reports |-> {}, probe |-> a]
      <3> DEFINE e1 == [Evidence!NoEvidence EXCEPT !.runtime = r]
      <3>1. e = [e1 EXCEPT !.probe = a]
        OBVIOUS
      <3> HIDE DEF e
      <3>2. e1 = [pc |-> "start", runtime |-> r, boot |-> None, reports |-> {}, probe |-> Evidence!Unknown]
        BY DEF Evidence!NoEvidence
      <3> HIDE DEF e1
      <3> QED
        BY <3>1, <3>2
    <2> HIDE DEF e
    <2>5. e.runtime = r /\ e.boot = None /\ e.probe = a
      BY <2>4
    <2>6. Evidence!DoctorVerdict(a) = "ACTIVE" => a.status = "enforcing"
      BY DEF Evidence!DoctorVerdict, Evidence!LandlockCheck
    <2>7. a.status = "enforcing" => a.runtime = r
      BY DEF Evidence!Unknown, Evidence!ProbeKernel
    <2>8. Evidence!ActiveIsMeasured'
      BY <2>2, <2>3, <2>5, <2>6, <2>7 DEF Evidence!ActiveIsMeasured
    <2>9. Evidence!NeverAnEarlierBoot'
      BY <2>2, <2>3 DEF Evidence!NeverAnEarlierBoot
    <2> QED
      BY <2>8, <2>9
  <1> QED
    BY <1>2, <1>4, <1>5, <1>6
       DEF Evidence!Next, Evidence!StartContainer, Evidence!BootRefused, Evidence!Restart, Evidence!Remove,
           Evidence!AppStarts, Evidence!Reboot, Evidence!Connect, Evidence!ToolCall, Evidence!RecordBoot,
           Evidence!ReadContainer, Evidence!Read, Evidence!MeasureKernel

\* However the sandbox, the daemon and the host restart between the reads of
\* however many sessions: a verdict of ACTIVE rests on a probe and on reports
\* of the boot it is about, a run is not attested with the evidence of a boot
\* that was over before one of its calls, and cgroups are delegated where a
\* probe of that kernel release and runtime has seen that they may be
\* (doctor.ts, attest.ts of docker-orchestrator and of audit).
THEOREM WhatIsAttestedWasMeasured ==
  ASSUME EvidenceAssumption
  PROVE  Evidence!Spec => []Evidence!EvidenceIsMeasured
  <1>1. Evidence!Init => EvidenceInv /\ Evidence!ActiveIsMeasured /\ Evidence!NeverAnEarlierBoot
    <2> SUFFICES ASSUME Evidence!Init PROVE EvidenceInv /\ Evidence!ActiveIsMeasured /\ Evidence!NeverAnEarlierBoot
      OBVIOUS
    <2>1. /\ host \in [kernel : Kernel, epoch : {0}] /\ boots = <<>> /\ box = None /\ trail = {} /\ verdicts = {}
          /\ cache = [k \in Releases \X ContainerRuntime |-> None]
          /\ gather = [g \in Booting |-> Evidence!NoEvidence] /\ attached = [s \in Booting |-> None]
      BY DEF Evidence!Init, Releases
    <2>2. HostInv
      <3>1. \E S : boots \in Seq(S)
        BY <2>1
      <3>2. host = [kernel |-> host.kernel, epoch |-> host.epoch] /\ host.kernel \in Kernel /\ host.epoch \in Nat
        BY <2>1
      <3> QED
        BY <3>1, <3>2 DEF HostInv
    <2>3. BootsInv /\ CacheInv /\ LastInv /\ AttachedInv
      BY <2>1 DEF BootsInv, CacheInv, LastInv, AttachedInv
    <2>4. GatherInv
      <3>1. IsEvidence(Evidence!NoEvidence) /\ Evidence!NoEvidence.pc = "start"
        BY DEF Evidence!NoEvidence, IsEvidence
      <3> QED
        BY <2>1, <3>1 DEF GatherInv
    <2>5. TrailInv /\ Evidence!ActiveIsMeasured /\ Evidence!NeverAnEarlierBoot
      BY <2>1 DEF TrailInv, Evidence!ActiveIsMeasured, Evidence!NeverAnEarlierBoot
    <2> QED
      BY <2>2, <2>3, <2>4, <2>5 DEF EvidenceInv
  <1>2. EvidenceInv /\ Evidence!ActiveIsMeasured /\ Evidence!NeverAnEarlierBoot /\ [Evidence!Next]_Evidence!vars
          => EvidenceInv' /\ Evidence!ActiveIsMeasured' /\ Evidence!NeverAnEarlierBoot'
    <2>1. ASSUME EvidenceInv, Evidence!Next
          PROVE  EvidenceInv' /\ Evidence!ActiveIsMeasured' /\ Evidence!NeverAnEarlierBoot'
      BY <2>1, BootStep, CacheStep, SessionsStep, VerdictStep DEF EvidenceInv
    <2>2. ASSUME EvidenceInv, Evidence!ActiveIsMeasured, Evidence!NeverAnEarlierBoot, UNCHANGED Evidence!vars
          PROVE  EvidenceInv' /\ Evidence!ActiveIsMeasured' /\ Evidence!NeverAnEarlierBoot'
      <3>1. UNCHANGED <<host, cache, box, boots, gather, attached, trail, verdicts>>
        BY <2>2 DEF Evidence!vars
      <3>2. EvidenceInv'
        BY <2>2, <3>1 DEF EvidenceInv, HostInv, BootsInv, CacheInv, LastInv, AttachedInv, GatherInv, TrailInv
      <3>3. Evidence!ActiveIsMeasured' /\ Evidence!NeverAnEarlierBoot'
        BY <2>2, <3>1 DEF Evidence!ActiveIsMeasured, Evidence!NeverAnEarlierBoot
      <3> QED
        BY <3>2, <3>3
    <2> QED
      BY <2>1, <2>2
  <1>3. EvidenceInv => Evidence!DelegationWasProbed
    <2> SUFFICES ASSUME EvidenceInv PROVE Evidence!DelegationWasProbed
      OBVIOUS
    <2>1. DOMAIN boots = 1..Len(boots)
      BY DEF EvidenceInv, HostInv
    <2> QED
      BY <2>1 DEF EvidenceInv, BootsInv, BootOK, Evidence!DelegationWasProbed
  <1>4. EvidenceInv /\ Evidence!ActiveIsMeasured /\ Evidence!NeverAnEarlierBoot => Evidence!EvidenceIsMeasured
    BY <1>3 DEF Evidence!EvidenceIsMeasured
  <1> QED
    BY <1>1, <1>2, <1>4, PTL DEF Evidence!Spec

-----------------------------------------------------------------------------
(* The builds of images.  Each directory's two references name a build of   *)
(* its own whose whole chain is there; what a build retires and removes is  *)
(* its own directory's, and it saw the references it walks around.  The     *)
(* lockfile of a workspace is rewritten by the deploy the queue names only. *)

\* No directory, and no reference, is the absence of one.
ImageAssumption == None \notin Dir /\ \A d \in Dir : Images!BuildCacheRef(d) # None

OfDir(d) ==
  {Images!Base} \cup {Images!Layer(d, v) : v \in Sources} \cup {Images!Final(d, v) : v \in Sources}
    \cup {Images!Derived(Images!Final(d, v)) : v \in Sources}

\* i is a build of d that is all there, or none.
Stands(i, d, there) ==
  i = None \/ \E v \in Sources : i = Images!Final(d, v) /\ Images!Chain(i) \subseteq there

OwnRefs(d) == {Images!Tag(d), Images!BuildCacheRef(d)}

IsBuild(b) ==
  b = [pc |-> b.pc, n |-> b.n, version |-> b.version, before |-> b.before, previous |-> b.previous,
       retired |-> b.retired, list |-> b.list, tagged |-> b.tagged, at |-> b.at]

\* The build b of d, when its references are those of t.
BuildOK(d, b, t) ==
  /\ IsBuild(b)
  /\ b.pc # "idle" => b.version \in Sources
  /\ b.previous \subseteq OfDir(d) /\ b.retired \subseteq OfDir(d) /\ b.at \in OfDir(d) \cup {None}
  /\ b.pc = "walk" => \A r \in OwnRefs(d) : t[r] # None => t[r] \in b.tagged

ImageTypes ==
  /\ images \subseteq {Images!Base} \cup UNION {OfDir(d) : d \in Dir}
  /\ tags = [r \in Images!Ref |-> tags[r]]
  /\ latest = [d \in Dir |-> latest[d]]
  /\ build = [d \in Dir |-> build[d]]

BuildsOK == \A d \in Dir : BuildOK(d, build[d], tags)

RefsStand ==
  \A d \in Dir :
    /\ tags[Images!BuildCacheRef(d)] = latest[d]
    /\ \A r \in OwnRefs(d) : Stands(tags[r], d, images)

Rewriting(b) == b.pc \in {"rewrite", "restore"}

Spaces == {Workspace[d] : d \in Dir}

Queues ==
  /\ lockfile = [w \in Spaces |-> lockfile[w]] /\ deploying = [w \in Spaces |-> deploying[w]]
  /\ \A w \in Spaces : deploying[w] = None => lockfile[w] = "original"
  /\ \A w \in Spaces : deploying[w] # None =>
       deploying[w] \in Dir /\ Workspace[deploying[w]] = w /\ Rewriting(build[deploying[w]])
  /\ \A d \in Dir : Rewriting(build[d]) => deploying[Workspace[d]] = d /\ build[d].before = "original"

ImageInv == ImageTypes /\ BuildsOK /\ RefsStand /\ Queues

LEMMA References ==
  ASSUME NEW d \in Dir, NEW e \in Dir
  PROVE  /\ OwnRefs(d) \subseteq Images!Ref
         /\ Images!Tag(d) # Images!BuildCacheRef(e)
         /\ Images!Tag(d) = Images!Tag(e) => d = e
         /\ Images!BuildCacheRef(d) = Images!BuildCacheRef(e) => d = e
         /\ d # e => OwnRefs(d) \cap OwnRefs(e) = {}
  <1> USE DEF Images!Tag, Images!BuildCacheRef
  <1>1. OwnRefs(d) \subseteq Images!Ref
    BY DEF OwnRefs, Images!Ref
  <1>2. Images!Tag(d) # Images!BuildCacheRef(e)
    <2>1. Images!Tag(d).ref = "tag" /\ Images!BuildCacheRef(e).ref = "cache"
      OBVIOUS
    <2> QED
      BY <2>1 DEF Images!Ref
  <1>3. Images!Tag(d).dir = d /\ Images!BuildCacheRef(d).dir = d /\ Images!Tag(e).dir = e /\ Images!BuildCacheRef(e).dir = e
    OBVIOUS
  <1>4. Images!Tag(e) # Images!BuildCacheRef(d)
    <2>1. Images!Tag(e).ref = "tag" /\ Images!BuildCacheRef(d).ref = "cache"
      OBVIOUS
    <2> QED
      BY <2>1
  <1> HIDE DEF Images!Tag, Images!BuildCacheRef
  <1> QED
    BY <1>1, <1>2, <1>3, <1>4 DEF OwnRefs

LEMMA ChainsOfImages ==
  ASSUME NEW d \in Dir, NEW v \in Sources, NEW e \in Dir, NEW u \in Sources
  PROVE  /\ Images!Parent(Images!Layer(d, v)) = Images!Base
         /\ Images!Parent(Images!Final(d, v)) = Images!Layer(d, v)
         /\ Images!Parent(Images!Derived(Images!Final(d, v))) = Images!Final(d, v)
         /\ Images!Parent(Images!Base) = None
         /\ Images!Chain(Images!Final(d, v)) = {Images!Base, Images!Layer(d, v), Images!Final(d, v)}
         /\ Images!Final(d, v) # Images!Base /\ Images!Final(d, v) # Images!Layer(e, u)
         /\ Images!Final(d, v) # Images!Derived(Images!Final(e, u))
         /\ Images!Final(d, v) = Images!Final(e, u) => d = e /\ v = u
         /\ Images!Final(d, v).dir = d /\ Images!Final(d, v).version = v
         /\ Images!Derived(Images!Final(d, v)).dir = d
  <1> DEFINE l == Images!Layer(d, v)
             f == Images!Final(d, v)
             r == Images!Derived(f)
             k == Images!Layer(e, u)
             g == Images!Final(e, u)
             h == Images!Derived(g)
  <1>1. /\ Images!Base.kind = "base" /\ l.kind = "layer" /\ f.kind = "final" /\ r.kind = "derived"
        /\ k.kind = "layer" /\ h.kind = "derived"
        /\ l.dir = d /\ l.version = v /\ f.dir = d /\ f.version = v /\ r.dir = d /\ r.version = v
        /\ g.dir = e /\ g.version = u
    BY DEF Images!Base, Images!Layer, Images!Final, Images!Derived
  <1> HIDE DEF l, f, r, k, g, h
  <1>2. Images!Parent(l) = Images!Base
    BY <1>1 DEF Images!Parent
  <1>3. Images!Parent(f) = Images!Layer(d, v)
    BY <1>1 DEF Images!Parent
  <1>4. Images!Parent(r) = Images!Final(d, v)
    BY <1>1 DEF Images!Parent
  <1>5. Images!Parent(Images!Base) = None
    BY <1>1 DEF Images!Parent
  <1>6. Images!Chain(f) = {Images!Base, Images!Layer(d, v), f}
    BY <1>1 DEF Images!Chain
  <1>7. f # Images!Base /\ f # k /\ f # h /\ (f = g => d = e /\ v = u)
    BY <1>1
  <1> QED
    BY <1>1, <1>2, <1>3, <1>4, <1>5, <1>6, <1>7 DEF l, f, r, k, g, h

LEMMA ParentsOfDir ==
  ASSUME NEW d \in Dir, NEW i \in OfDir(d)
  PROVE  Images!Parent(i) \in OfDir(d) \cup {None}
  <1>1. \A v \in Sources : /\ Images!Parent(Images!Layer(d, v)) = Images!Base
                           /\ Images!Parent(Images!Final(d, v)) = Images!Layer(d, v)
                           /\ Images!Parent(Images!Derived(Images!Final(d, v))) = Images!Final(d, v)
    BY ChainsOfImages
  <1>2. Images!Parent(Images!Base) = None
    BY DEF Images!Parent, Images!Base
  <1>3. i = Images!Base \/ \E v \in Sources : \/ i = Images!Layer(d, v) \/ i = Images!Final(d, v)
                                             \/ i = Images!Derived(Images!Final(d, v))
    BY DEF OfDir
  <1> QED
    BY <1>1, <1>2, <1>3 DEF OfDir

\* What stays when images are added, and a reference that does not move.
LEMMA StandsStill ==
  ASSUME NEW i, NEW d, NEW s, NEW t, Stands(i, d, s), s \subseteq t
  PROVE  Stands(i, d, t)
  BY DEF Stands

\* The images that one build of d leaves when it removes i.
LEMMA ChainStays ==
  ASSUME NEW d \in Dir, NEW e \in Dir, NEW i \in OfDir(d), NEW j, Stands(j, e, images), j # None, d = e => j # i,
         Images!Children(i, images) = {}
  PROVE  j # i /\ Stands(j, e, images \ {i})
  <1>1. PICK v \in Sources : j = Images!Final(e, v) /\ Images!Chain(j) \subseteq images
    BY DEF Stands
  <1>2. /\ Images!Parent(Images!Layer(e, v)) = Images!Base /\ Images!Parent(j) = Images!Layer(e, v)
        /\ Images!Chain(j) = {Images!Base, Images!Layer(e, v), j}
    BY <1>1, ChainsOfImages
  <1>3. Images!Layer(e, v) \in images /\ j \in images
    BY <1>1, <1>2
  <1>4. i # Images!Base /\ i # Images!Layer(e, v)
    BY <1>2, <1>3 DEF Images!Children
  <1>5. j # i
    <2>1. CASE d = e
      BY <2>1
    <2>2. CASE d # e
      <3>1. \A u \in Sources : j # Images!Final(d, u) /\ j # Images!Layer(d, u) /\ j # Images!Derived(Images!Final(d, u))
        BY <1>1, <2>2, ChainsOfImages
      <3>2. j # Images!Base
        BY <1>1, ChainsOfImages
      <3> QED
        BY <3>1, <3>2 DEF OfDir
    <2> QED
      BY <2>1, <2>2
  <1> QED
    BY <1>1, <1>2, <1>4, <1>5 DEF Stands

\* A build that only moves on: x takes its place.
LEMMA BuildMoves ==
  ASSUME ImageInv, NEW d \in Dir, NEW x, BuildOK(d, x, tags), build' = [build EXCEPT ![d] = x],
         ~ Rewriting(build[d]), ~ Rewriting(x), UNCHANGED <<images, tags, latest, lockfile, deploying>>
  PROVE  ImageInv'
  <1>1. \A e \in Dir : build'[e] = IF e = d THEN x ELSE build[e]
    BY DEF ImageInv, ImageTypes
  <1>2. ImageTypes'
    BY DEF ImageInv, ImageTypes
  <1>3. BuildsOK'
    <2>1. \A e \in Dir : BuildOK(e, build'[e], tags)
      BY <1>1 DEF ImageInv, BuildsOK
    <2> QED
      BY <2>1 DEF BuildsOK, BuildOK, IsBuild
  <1>4. RefsStand'
    BY DEF ImageInv, RefsStand, Stands
  <1>5. Queues'
    <2>1. \A e \in Dir : Rewriting(build'[e]) <=> Rewriting(build[e])
      BY <1>1
    <2>2. \A e \in Dir : Rewriting(build[e]) => build'[e] = build[e]
      BY <1>1
    <2> QED
      BY <2>1, <2>2 DEF ImageInv, Queues, Rewriting
  <1> QED
    BY <1>2, <1>3, <1>4, <1>5 DEF ImageInv

\* What a deploy does with the lockfile and its queue, and no more.
LEMMA StagingMoves ==
  ASSUME ImageInv, ImageTypes', UNCHANGED <<images, tags, latest>>, Queues',
         \A e \in Dir : BuildOK(e, build'[e], tags)
  PROVE  ImageInv'
  <1>1. BuildsOK'
    BY DEF BuildsOK, BuildOK, IsBuild
  <1>2. RefsStand'
    BY DEF ImageInv, RefsStand, Stands
  <1> QED
    BY <1>1, <1>2 DEF ImageInv

\* A build that is over is idle, and nothing of it is left.
LEMMA DoneIsOK ==
  ASSUME NEW d \in Dir, BuildOK(d, build[d], tags)
  PROVE  BuildOK(d, Images!Done(d), tags) /\ Images!Done(d).pc = "idle"
  <1> DEFINE b == Images!Done(d)
  <1>1. /\ b.pc = "idle" /\ b.n = build[d].n /\ b.version = None /\ b.before = None /\ b.previous = {}
        /\ b.retired = {} /\ b.list = {} /\ b.tagged = {} /\ b.at = None /\ IsBuild(b)
    BY DEF Images!Done, Images!Idle, IsBuild
  <1> HIDE DEF b
  <1>2. BuildOK(d, b, tags)
    BY <1>1 DEF BuildOK
  <1> QED
    BY <1>1, <1>2 DEF b

\* The steps of a build that touch neither the daemon nor the lockfile.
LEMMA BuildStep ==
  ASSUME ImageAssumption, ImageInv, NEW d \in Dir,
         \/ Images!Begin(d) \/ Images!DeployFrozen(d) \/ Images!PreviousIds(d) \/ Images!BuildFails(d)
         \/ Images!Retire(d) \/ Images!ListImages(d)
  PROVE  ImageInv'
  <1> DEFINE b == build[d]
  <1>1. BuildOK(d, b, tags) /\ IsBuild(b) /\ build = [e \in Dir |-> build[e]]
    BY DEF ImageInv, BuildsOK, BuildOK, ImageTypes
  <1>2. IsBuild(b)
    BY <1>1
  <1>3. BuildOK(d, Images!Done(d), tags) /\ ~ Rewriting(Images!Done(d))
    BY <1>1, DoneIsOK DEF Rewriting
  <1>4. CASE Images!Begin(d)
    <2>1. PICK v \in Sources : build' = [build EXCEPT ![d].pc = "deploy", ![d].n = @ + 1, ![d].version = v]
      BY <1>4 DEF Images!Begin
    <2>2. PICK x : x = [b EXCEPT !.pc = "deploy", !.n = b.n + 1, !.version = v]
      OBVIOUS
    <2>3. build' = [build EXCEPT ![d] = x]
      BY <1>1, <2>1, <2>2
    <2>4. /\ x.pc = "deploy" /\ x.version = v /\ x.previous = b.previous /\ x.retired = b.retired /\ x.at = b.at
          /\ IsBuild(x)
      BY <1>2, <2>2 DEF IsBuild
    <2>5. BuildOK(d, x, tags) /\ ~ Rewriting(x)
      BY <1>1, <2>4 DEF BuildOK, Rewriting
    <2>6. ~ Rewriting(b) /\ UNCHANGED <<images, tags, latest, lockfile, deploying>>
      BY <1>4 DEF Images!Begin, Images!At, Images!daemon, Images!staging, Rewriting
    <2> QED
      BY <2>3, <2>5, <2>6, BuildMoves
  <1>5. CASE Images!DeployFrozen(d)
    <2> DEFINE x == [b EXCEPT !.pc = "inspect"]
    <2>1. build' = [build EXCEPT ![d] = x]
      BY <1>1, <1>5 DEF Images!DeployFrozen, Images!Go
    <2>2. /\ x.pc = "inspect" /\ x.version = b.version /\ x.previous = b.previous /\ x.retired = b.retired /\ x.at = b.at
          /\ IsBuild(x)
      BY <1>1 DEF IsBuild
    <2> HIDE DEF x
    <2>3. b.pc = "deploy" /\ UNCHANGED <<images, tags, latest, lockfile, deploying>>
      BY <1>5 DEF Images!DeployFrozen, Images!At, Images!daemon, Images!staging
    <2>4. BuildOK(d, x, tags) /\ ~ Rewriting(x) /\ ~ Rewriting(b)
      BY <1>1, <2>2, <2>3 DEF BuildOK, Rewriting
    <2> QED
      BY <2>1, <2>3, <2>4, BuildMoves
  <1>6. CASE Images!PreviousIds(d)
    <2> DEFINE ids == {tags[Images!Tag(d)], tags[Images!BuildCacheRef(d)]} \ {None}
    <2>1. PICK x : x = [b EXCEPT !.pc = "build", !.previous = ids]
      OBVIOUS
    <2>2. build' = [build EXCEPT ![d] = x]
      BY <1>1, <1>6, <2>1 DEF Images!PreviousIds
    <2>3. ids \subseteq OfDir(d)
      BY DEF ImageInv, RefsStand, OwnRefs, Stands, OfDir
    <2> HIDE DEF ids
    <2>4. /\ x.pc = "build" /\ x.version = b.version /\ x.previous = ids /\ x.retired = b.retired /\ x.at = b.at
          /\ IsBuild(x)
      BY <1>2, <2>1 DEF IsBuild
    <2>5. b.pc = "inspect" /\ UNCHANGED <<images, tags, latest, lockfile, deploying>>
      BY <1>6 DEF Images!PreviousIds, Images!At, Images!daemon, Images!staging
    <2>6. BuildOK(d, x, tags) /\ ~ Rewriting(x) /\ ~ Rewriting(b)
      BY <1>1, <2>3, <2>4, <2>5 DEF BuildOK, Rewriting
    <2> QED
      BY <2>2, <2>5, <2>6, BuildMoves
  <1>7. CASE Images!BuildFails(d)
    <2>1. /\ build' = [build EXCEPT ![d] = Images!Done(d)] /\ b.pc \in {"inspect", "build"}
          /\ UNCHANGED <<images, tags, latest, lockfile, deploying>>
      BY <1>7 DEF Images!BuildFails, Images!daemon, Images!staging
    <2>2. ~ Rewriting(b)
      BY <2>1 DEF Rewriting
    <2> QED
      BY <1>3, <2>1, <2>2, BuildMoves
  <1>8. CASE Images!Retire(d)
    <2> DEFINE ref == Images!BuildCacheRef(d)
               old == {i \in b.previous \cap images : Images!RepoTags(i) \subseteq {ref}}
               dangling == {i \in images : Images!Label(i) = ref /\ Images!RepoTags(i) = {}
                                             /\ i \notin young /\ ~ Images!BuiltOnBerthImage(i, ref)}
               ids == (old \cup dangling) \ {tags[ref]}
    <2>1. PICK x : x = [b EXCEPT !.pc = "list", !.retired = ids]
      OBVIOUS
    <2>2. build' = [build EXCEPT ![d] = x]
      BY <1>1, <1>8, <2>1 DEF Images!Retire
    <2>3. old \subseteq OfDir(d)
      BY <1>1 DEF BuildOK
    <2>4. ASSUME NEW i \in images, Images!Label(i) = ref PROVE i \in OfDir(d)
      <3>1. i.kind \in {"final", "derived"} /\ ref = Images!BuildCacheRef(i.dir)
        <4>1. ref \notin {None} => i.kind \in {"final", "derived"} /\ ref = Images!BuildCacheRef(i.dir)
          BY <2>4 DEF Images!Label
        <4> QED
          BY <4>1 DEF ImageAssumption
      <3>2. PICK e \in Dir : i \in OfDir(e)
        BY <3>1 DEF ImageInv, ImageTypes, Images!Base
      <3>3. i # Images!Base /\ \A v \in Sources : i # Images!Layer(e, v)
        BY <3>1 DEF Images!Base, Images!Layer
      <3>4. PICK v \in Sources : i = Images!Final(e, v) \/ i = Images!Derived(Images!Final(e, v))
        BY <3>2, <3>3 DEF OfDir
      <3>5. i.dir = e
        BY <3>4, ChainsOfImages
      <3>6. e = d
        BY <3>1, <3>5, References
      <3> QED
        BY <3>2, <3>6
    <2>5. ids \subseteq OfDir(d)
      BY <2>3, <2>4
    <2> HIDE DEF ids
    <2>6. /\ x.pc = "list" /\ x.version = b.version /\ x.previous = b.previous /\ x.retired = ids /\ x.at = b.at
          /\ IsBuild(x)
      BY <1>2, <2>1 DEF IsBuild
    <2>7. b.pc = "retire" /\ UNCHANGED <<images, tags, latest, lockfile, deploying>>
      BY <1>8 DEF Images!Retire, Images!At, Images!daemon, Images!staging
    <2>8. BuildOK(d, x, tags) /\ ~ Rewriting(x) /\ ~ Rewriting(b)
      BY <1>1, <2>5, <2>6, <2>7 DEF BuildOK, Rewriting
    <2> QED
      BY <2>2, <2>7, <2>8, BuildMoves
  <1>9. CASE Images!ListImages(d)
    <2>1. b.pc = "list" /\ UNCHANGED <<images, tags, latest, lockfile, deploying>> /\ ~ Rewriting(b)
      BY <1>9 DEF Images!ListImages, Images!At, Images!daemon, Images!staging, Rewriting
    <2>2. CASE b.retired = {}
      <3>1. build' = [build EXCEPT ![d] = Images!Done(d)]
        BY <1>9, <2>2 DEF Images!ListImages
      <3> QED
        BY <1>3, <2>1, <3>1, BuildMoves
    <2>3. CASE b.retired # {}
      <3> DEFINE tagged == {j \in images : Images!RepoTags(j) # {}}
      <3>1. PICK i \in b.retired :
              build' = [build EXCEPT ![d].pc = "walk", ![d].at = i, ![d].list = images,
                          ![d].tagged = tagged, ![d].retired = @ \ {i}]
        BY <1>9, <2>3 DEF Images!ListImages
      <3>2. PICK x : x = [b EXCEPT !.pc = "walk", !.at = i, !.list = images, !.tagged = tagged, !.retired = b.retired \ {i}]
        OBVIOUS
      <3>3. build' = [build EXCEPT ![d] = x]
        BY <1>1, <3>1, <3>2
      <3>4. \A r \in OwnRefs(d) : tags[r] # None => tags[r] \in tagged
        <4>1. SUFFICES ASSUME NEW r \in OwnRefs(d), tags[r] # None PROVE tags[r] \in tagged
          OBVIOUS
        <4>2. Stands(tags[r], d, images)
          BY DEF ImageInv, RefsStand
        <4>3. tags[r] \in images
          BY <4>1, <4>2 DEF Stands, Images!Chain
        <4>4. r \in Images!Ref
          BY References
        <4>5. r \in Images!RepoTags(tags[r])
          BY <4>4 DEF Images!RepoTags
        <4> QED
          BY <4>3, <4>5
      <3> HIDE DEF tagged
      <3>5. /\ x.pc = "walk" /\ x.version = b.version /\ x.previous = b.previous /\ x.retired = b.retired \ {i}
            /\ x.at = i /\ x.tagged = tagged /\ IsBuild(x)
        BY <1>2, <3>2 DEF IsBuild
      <3>6. BuildOK(d, x, tags) /\ ~ Rewriting(x)
        BY <1>1, <2>1, <3>4, <3>5 DEF BuildOK, Rewriting
      <3> QED
        BY <2>1, <3>3, <3>6, BuildMoves
    <2> QED
      BY <2>2, <2>3
  <1> QED
    BY <1>4, <1>5, <1>6, <1>7, <1>8, <1>9

\* The steps of a deploy that writes the lockfile.
LEMMA StagingStep ==
  ASSUME ImageAssumption, ImageInv, NEW d \in Dir,
         \/ Images!WithLockfileRestored(d) \/ Images!Rewrite(d) \/ Images!RestoringLockfile(d) \/ Images!Signal(d)
  PROVE  ImageInv'
  <1> DEFINE b == build[d]
             w == Workspace[d]
  <1>1. BuildOK(d, b, tags) /\ IsBuild(b) /\ ImageTypes /\ Queues /\ w \in Spaces /\ d # None
    BY DEF ImageInv, BuildsOK, BuildOK, Spaces, ImageAssumption
  <1>2. build = [e \in Dir |-> build[e]] /\ \A e \in Dir : BuildOK(e, build[e], tags)
    BY DEF ImageInv, ImageTypes, BuildsOK
  <1>3. IsBuild(b)
    BY <1>1
  <1>4. \A e \in Dir : Workspace[e] \in Spaces
    BY DEF Spaces
  <1>5. UNCHANGED <<images, tags, latest>>
    BY DEF Images!WithLockfileRestored, Images!Rewrite, Images!RestoringLockfile, Images!Signal, Images!daemon
  <1>6. CASE Images!WithLockfileRestored(d)
    <2>1. PICK x : x = [b EXCEPT !.pc = "rewrite", !.before = lockfile[w]]
      OBVIOUS
    <2>2. /\ b.pc = "deploy" /\ deploying[w] = None /\ deploying' = [deploying EXCEPT ![w] = d] /\ lockfile' = lockfile
          /\ build' = [build EXCEPT ![d].pc = "rewrite", ![d].before = lockfile[w]]
      BY <1>6 DEF Images!WithLockfileRestored, Images!At
    <2>3. build' = [build EXCEPT ![d] = x]
      BY <1>1, <1>2, <2>2, <2>1
    <2>4. lockfile[w] = "original"
      BY <1>1, <2>2 DEF Queues
    <2>5. /\ x.pc = "rewrite" /\ x.version = b.version /\ x.previous = b.previous /\ x.retired = b.retired
          /\ x.at = b.at /\ x.before = lockfile[w] /\ IsBuild(x)
      BY <1>3, <2>1 DEF IsBuild
    <2>6. BuildOK(d, x, tags) /\ Rewriting(x) /\ ~ Rewriting(b)
      BY <1>1, <2>2, <2>5 DEF BuildOK, Rewriting
    <2>7. \A e \in Dir : build'[e] = IF e = d THEN x ELSE build[e]
      BY <1>2, <2>3
    <2>8. \A e \in Dir : BuildOK(e, build'[e], tags)
      BY <1>2, <2>6, <2>7
    <2>9. ImageTypes'
      BY <1>1, <1>5, <2>3 DEF ImageTypes
    <2>10. \A v \in Spaces : deploying'[v] = IF v = w THEN d ELSE deploying[v]
      BY <1>1, <2>2 DEF Queues
    <2>11. Queues'
      <3>1. deploying' = [v \in Spaces |-> deploying'[v]] /\ lockfile' = [v \in Spaces |-> lockfile'[v]]
        BY <1>1, <2>2 DEF Queues
      <3>2. \A v \in Spaces : deploying'[v] = None => lockfile'[v] = "original"
        BY <1>1, <2>2, <2>10 DEF Queues
      <3>3. \A v \in Spaces : deploying'[v] # None =>
              deploying'[v] \in Dir /\ Workspace[deploying'[v]] = v /\ Rewriting(build'[deploying'[v]])
        BY <1>1, <2>6, <2>7, <2>10 DEF Queues
      <3>4. \A e \in Dir : Rewriting(build'[e]) => deploying'[Workspace[e]] = e /\ build'[e].before = "original"
        <4>1. SUFFICES ASSUME NEW e \in Dir, Rewriting(build'[e])
                       PROVE  deploying'[Workspace[e]] = e /\ build'[e].before = "original"
          OBVIOUS
        <4>2. CASE e = d
          BY <1>1, <2>4, <2>5, <2>7, <2>10, <4>2
        <4>3. CASE e # d
          <5>1. Rewriting(build[e]) /\ build'[e] = build[e]
            BY <2>7, <4>1, <4>3
          <5>2. deploying[Workspace[e]] = e /\ build[e].before = "original"
            BY <1>1, <5>1 DEF Queues
          <5>3. Workspace[e] # w
            BY <2>2, <5>2 DEF ImageAssumption
          <5> QED
            BY <1>4, <2>10, <5>1, <5>2, <5>3
        <4> QED
          BY <4>2, <4>3
      <3> QED
        BY <3>1, <3>2, <3>3, <3>4 DEF Queues, Rewriting
    <2> QED
      BY <1>5, <2>8, <2>9, <2>11, StagingMoves
  <1>7. CASE Images!Rewrite(d)
    <2> DEFINE x == [b EXCEPT !.pc = "restore"]
    <2>1. /\ b.pc = "rewrite" /\ lockfile' = [lockfile EXCEPT ![w] = d] /\ deploying' = deploying
          /\ build' = [build EXCEPT ![d].pc = "restore"]
      BY <1>7 DEF Images!Rewrite, Images!At, Images!Go
    <2>2. build' = [build EXCEPT ![d] = x]
      BY <1>1, <1>2, <2>1
    <2>3. /\ x.pc = "restore" /\ x.version = b.version /\ x.previous = b.previous /\ x.retired = b.retired
          /\ x.at = b.at /\ x.before = b.before /\ IsBuild(x)
      BY <1>1 DEF IsBuild
    <2> HIDE DEF x
    <2>4. BuildOK(d, x, tags) /\ Rewriting(x) /\ Rewriting(b)
      BY <1>1, <2>1, <2>3 DEF BuildOK, Rewriting
    <2>5. \A e \in Dir : build'[e] = IF e = d THEN x ELSE build[e]
      BY <1>2, <2>2
    <2>6. \A e \in Dir : BuildOK(e, build'[e], tags)
      BY <1>2, <2>4, <2>5
    <2>7. ImageTypes'
      BY <1>1, <1>5, <2>2 DEF ImageTypes
    <2>8. deploying[w] = d /\ b.before = "original"
      BY <1>1, <2>4 DEF Queues
    <2>9. Queues'
      <3>1. deploying' = [v \in Spaces |-> deploying'[v]] /\ lockfile' = [v \in Spaces |-> lockfile'[v]]
        BY <1>1, <2>1 DEF Queues
      <3>2. \A v \in Spaces : deploying'[v] = None => lockfile'[v] = "original"
        BY <1>1, <2>1, <2>8 DEF Queues
      <3>3. \A e \in Dir : (Rewriting(build'[e]) <=> Rewriting(build[e])) /\ build'[e].before = build[e].before
        BY <2>3, <2>4, <2>5
      <3> QED
        BY <1>1, <2>1, <3>1, <3>2, <3>3 DEF Queues, Rewriting
    <2> QED
      BY <1>5, <2>6, <2>7, <2>9, StagingMoves
  <1>8. ASSUME b.pc \in {"rewrite", "restore"}, lockfile' = [lockfile EXCEPT ![w] = b.before],
               deploying' = [deploying EXCEPT ![w] = None], ImageTypes',
               \A e \in Dir : /\ BuildOK(e, build'[e], tags)
                              /\ Rewriting(build'[e]) => (e # d /\ build'[e] = build[e])
                              /\ (build'[e] = build[e] \/ Workspace[e] = w)
        PROVE  ImageInv'
    <2>1. deploying[w] = d /\ b.before = "original"
      BY <1>1, <1>8 DEF Queues, Rewriting
    <2>2. \A v \in Spaces : /\ deploying'[v] = IF v = w THEN None ELSE deploying[v]
                            /\ lockfile'[v] = IF v = w THEN "original" ELSE lockfile[v]
      BY <1>1, <1>8, <2>1 DEF Queues
    <2>3. deploying' = [v \in Spaces |-> deploying'[v]] /\ lockfile' = [v \in Spaces |-> lockfile'[v]]
      BY <1>1, <1>8 DEF Queues
    <2>4. \A v \in Spaces : deploying'[v] = None => lockfile'[v] = "original"
      BY <1>1, <2>2 DEF Queues
    <2>5. \A v \in Spaces : deploying'[v] # None =>
            deploying'[v] \in Dir /\ Workspace[deploying'[v]] = v /\ Rewriting(build'[deploying'[v]])
      BY <1>1, <1>8, <2>2 DEF Queues
    <2>6. \A e \in Dir : Rewriting(build'[e]) => deploying'[Workspace[e]] = e /\ build'[e].before = "original"
      <3>1. SUFFICES ASSUME NEW e \in Dir, Rewriting(build'[e])
                     PROVE  deploying'[Workspace[e]] = e /\ build'[e].before = "original"
        OBVIOUS
      <3>2. e # d /\ build'[e] = build[e]
        BY <1>8, <3>1
      <3>3. deploying[Workspace[e]] = e /\ build[e].before = "original"
        BY <1>1, <3>1, <3>2 DEF Queues
      <3> QED
        BY <1>4, <2>1, <2>2, <3>2, <3>3
    <2>7. Queues'
      BY <2>3, <2>4, <2>5, <2>6 DEF Queues, Rewriting
    <2>8. \A e \in Dir : BuildOK(e, build'[e], tags)
      BY <1>8
    <2> QED
      BY <1>5, <1>8, <2>7, <2>8, StagingMoves
  <1>9. CASE Images!RestoringLockfile(d)
    <2>1. PICK ok \in BOOLEAN :
            build' = [build EXCEPT ![d] = IF ok THEN [@ EXCEPT !.pc = "inspect", !.before = None] ELSE Images!Done(d)]
      BY <1>9 DEF Images!RestoringLockfile
    <2>2. PICK y : y = [b EXCEPT !.pc = "inspect", !.before = None]
      OBVIOUS
    <2> DEFINE x == IF ok THEN y ELSE Images!Done(d)
    <2>3. build' = [build EXCEPT ![d] = x]
      BY <1>2, <2>1, <2>2
    <2>4. b.pc \in {"rewrite", "restore"} /\ lockfile' = [lockfile EXCEPT ![w] = b.before] /\ deploying' = [deploying EXCEPT ![w] = None]
      BY <1>9 DEF Images!RestoringLockfile
    <2>5. /\ y.pc = "inspect" /\ y.version = b.version /\ y.previous = b.previous /\ y.retired = b.retired
          /\ y.at = b.at /\ IsBuild(y)
      BY <1>3, <2>2 DEF IsBuild
    <2>6. BuildOK(d, y, tags) /\ ~ Rewriting(y)
      BY <1>1, <2>4, <2>5 DEF BuildOK, Rewriting
    <2>7. BuildOK(d, Images!Done(d), tags) /\ ~ Rewriting(Images!Done(d))
      BY <1>1, DoneIsOK DEF Rewriting
    <2>8. BuildOK(d, x, tags) /\ ~ Rewriting(x)
      BY <2>6, <2>7
    <2> HIDE DEF x
    <2>9. \A e \in Dir : build'[e] = IF e = d THEN x ELSE build[e]
      BY <1>2, <2>3
    <2>10. ImageTypes'
      BY <1>1, <1>5, <2>3 DEF ImageTypes
    <2>11. \A e \in Dir : /\ BuildOK(e, build'[e], tags)
                          /\ Rewriting(build'[e]) => (e # d /\ build'[e] = build[e])
                          /\ (build'[e] = build[e] \/ Workspace[e] = w)
      BY <1>2, <2>8, <2>9
    <2> QED
      BY <1>8, <2>4, <2>10, <2>11
  <1>10. CASE Images!Signal(d)
    <2>1. /\ b.pc \in {"rewrite", "restore"} /\ lockfile' = [lockfile EXCEPT ![w] = b.before]
          /\ deploying' = [deploying EXCEPT ![w] = None]
          /\ build' = [e \in Dir |-> IF Workspace[e] = w THEN Images!Done(e) ELSE build[e]]
      BY <1>10 DEF Images!Signal
    <2>2. \A e \in Dir : BuildOK(e, Images!Done(e), tags) /\ ~ Rewriting(Images!Done(e))
      BY <1>2, DoneIsOK DEF Rewriting
    <2>3. \A e \in Dir : build'[e] = IF Workspace[e] = w THEN Images!Done(e) ELSE build[e]
      BY <2>1
    <2>4. ImageTypes'
      BY <1>1, <1>5, <2>1 DEF ImageTypes
    <2>5. \A e \in Dir : /\ BuildOK(e, build'[e], tags)
                         /\ Rewriting(build'[e]) => (e # d /\ build'[e] = build[e])
                         /\ (build'[e] = build[e] \/ Workspace[e] = w)
      BY <1>2, <2>2, <2>3
    <2>6. /\ b.pc \in {"rewrite", "restore"} /\ lockfile' = [lockfile EXCEPT ![w] = b.before]
          /\ deploying' = [deploying EXCEPT ![w] = None]
      BY <2>1
    <2> QED
      BY <1>8, <2>4, <2>5, <2>6
  <1> QED
    BY <1>6, <1>7, <1>9, <1>10

\* The daemon builds: images are added, and the tag of d names what was built.
LEMMA DockerBuildStep ==
  ASSUME ImageInv, NEW d \in Dir, Images!DockerBuild(d)
  PROVE  ImageInv'
  <1> DEFINE b == build[d]
             v == b.version
             f == Images!Final(d, v)
             new == {Images!Base, Images!Layer(d, v), f}
  <1>1. BuildOK(d, b, tags) /\ IsBuild(b) /\ build = [e \in Dir |-> build[e]] /\ b.pc = "build"
    BY DEF ImageInv, BuildsOK, BuildOK, ImageTypes, Images!DockerBuild, Images!At
  <1>2. v \in Sources
    BY <1>1 DEF BuildOK
  <1>3. /\ images' = images \cup new /\ tags' = [tags EXCEPT ![Images!Tag(d)] = f]
        /\ UNCHANGED <<lockfile, deploying, latest>> /\ build' = [build EXCEPT ![d].pc = "retain"]
    BY DEF Images!DockerBuild, Images!Go, Images!staging
  <1>4. Images!Chain(f) = new
    BY <1>2, ChainsOfImages
  <1>5. new \subseteq OfDir(d)
    BY <1>2 DEF OfDir
  <1> HIDE DEF new, f, v
  <1>6. PICK x : x = [b EXCEPT !.pc = "retain"]
    OBVIOUS
  <1>7. build' = [build EXCEPT ![d] = x]
    BY <1>1, <1>3, <1>6
  <1>8. /\ x.pc = "retain" /\ x.version = b.version /\ x.previous = b.previous /\ x.retired = b.retired
        /\ x.at = b.at /\ IsBuild(x)
    BY <1>1, <1>6 DEF IsBuild
  <1>9. \A e \in Dir : build'[e] = IF e = d THEN x ELSE build[e]
    BY <1>1, <1>7
  <1>10. tags = [r \in Images!Ref |-> tags[r]] /\ \A e \in Dir : OwnRefs(e) \subseteq Images!Ref
    BY References DEF ImageInv, ImageTypes
  <1>11. \A r \in Images!Ref : tags'[r] = IF r = Images!Tag(d) THEN f ELSE tags[r]
    BY <1>3, <1>10
  <1>12. ImageTypes'
    <2>1. images' \subseteq {Images!Base} \cup UNION {OfDir(e) : e \in Dir}
      BY <1>3, <1>5 DEF ImageInv, ImageTypes
    <2> QED
      BY <1>3, <1>7, <1>10, <2>1 DEF ImageInv, ImageTypes
  <1>13. BuildsOK'
    <2>1. ASSUME NEW e \in Dir PROVE BuildOK(e, build'[e], tags')
      <3>1. CASE e = d
        BY <1>1, <1>8, <1>9, <3>1 DEF BuildOK
      <3>2. CASE e # d
        <4>1. Images!Tag(d) \notin OwnRefs(e)
          BY <3>2, References DEF OwnRefs
        <4>2. BuildOK(e, build[e], tags) /\ build'[e] = build[e]
          BY <1>9, <3>2 DEF ImageInv, BuildsOK
        <4>3. \A r \in OwnRefs(e) : tags'[r] = tags[r]
          BY <1>10, <1>11, <4>1
        <4> QED
          BY <4>2, <4>3 DEF BuildOK
      <3> QED
        BY <3>1, <3>2
    <2> QED
      BY <2>1 DEF BuildsOK, BuildOK, IsBuild
  <1>14. RefsStand'
    <2>1. ASSUME NEW e \in Dir
          PROVE  /\ tags'[Images!BuildCacheRef(e)] = latest'[e]
                 /\ \A r \in OwnRefs(e) : Stands(tags'[r], e, images')
      <3>1. tags[Images!BuildCacheRef(e)] = latest[e] /\ \A r \in OwnRefs(e) : Stands(tags[r], e, images)
        BY DEF ImageInv, RefsStand
      <3>2. Images!BuildCacheRef(e) # Images!Tag(d) /\ Images!BuildCacheRef(e) \in Images!Ref
        BY <1>10, References DEF OwnRefs
      <3>3. tags'[Images!BuildCacheRef(e)] = latest'[e]
        BY <1>3, <1>11, <3>1, <3>2
      <3>4. ASSUME NEW r \in OwnRefs(e) PROVE Stands(tags'[r], e, images')
        <4>1. CASE r = Images!Tag(d)
          <5>1. e = d
            BY <4>1, References DEF OwnRefs
          <5>2. Stands(f, d, images')
            BY <1>2, <1>3, <1>4 DEF Stands, f
          <5> QED
            BY <1>10, <1>11, <4>1, <5>1, <5>2
        <4>2. CASE r # Images!Tag(d)
          <5>1. Stands(tags[r], e, images')
            BY <1>3, <3>1, StandsStill
          <5> QED
            BY <1>10, <1>11, <4>2, <5>1
        <4> QED
          BY <4>1, <4>2
      <3> QED
        BY <3>3, <3>4
    <2> QED
      BY <2>1 DEF RefsStand, Stands, OwnRefs
  <1>15. Queues'
    <2>1. \A e \in Dir : Rewriting(build'[e]) <=> Rewriting(build[e])
      BY <1>1, <1>8, <1>9 DEF Rewriting
    <2>2. \A e \in Dir : Rewriting(build[e]) => build'[e] = build[e]
      BY <1>1, <1>9 DEF Rewriting
    <2> QED
      BY <1>3, <2>1, <2>2 DEF ImageInv, Queues, Rewriting
  <1> QED
    BY <1>12, <1>13, <1>14, <1>15 DEF ImageInv

\* The reference of d moves to what its tag names.
LEMMA MoveRefStep ==
  ASSUME ImageInv, NEW d \in Dir, Images!MoveRef(d)
  PROVE  ImageInv'
  <1> DEFINE b == build[d]
             f == tags[Images!Tag(d)]
             ref == Images!BuildCacheRef(d)
  <1>1. BuildOK(d, b, tags) /\ IsBuild(b) /\ build = [e \in Dir |-> build[e]] /\ b.pc = "retain"
    BY DEF ImageInv, BuildsOK, BuildOK, ImageTypes, Images!MoveRef, Images!At
  <1>2. UNCHANGED <<images, lockfile, deploying>> /\ ~ Rewriting(b)
    BY <1>1 DEF Images!MoveRef, Images!staging, Rewriting
  <1>3. CASE f = None
    <2>1. build' = [build EXCEPT ![d] = Images!Done(d)] /\ UNCHANGED <<tags, latest>>
      BY <1>3 DEF Images!MoveRef
    <2>2. BuildOK(d, Images!Done(d), tags) /\ ~ Rewriting(Images!Done(d))
      BY <1>1, DoneIsOK DEF Rewriting
    <2> QED
      BY <1>2, <2>1, <2>2, BuildMoves
  <1>4. CASE f # None
    <2>1. /\ tags' = [tags EXCEPT ![ref] = f] /\ latest' = [latest EXCEPT ![d] = f]
          /\ build' = [build EXCEPT ![d].pc = "retire"]
      BY <1>4 DEF Images!MoveRef, Images!Go
    <2>2. Stands(f, d, images)
      BY DEF ImageInv, RefsStand, OwnRefs
    <2>3. tags = [r \in Images!Ref |-> tags[r]] /\ latest = [e \in Dir |-> latest[e]]
          /\ ref \in OwnRefs(d) /\ \A e \in Dir : OwnRefs(e) \subseteq Images!Ref
      BY References DEF ImageInv, ImageTypes, OwnRefs
    <2> HIDE DEF f, ref
    <2>4. PICK x : x = [b EXCEPT !.pc = "retire"]
      OBVIOUS
    <2>5. build' = [build EXCEPT ![d] = x]
      BY <1>1, <2>1, <2>4
    <2>6. /\ x.pc = "retire" /\ x.version = b.version /\ x.previous = b.previous /\ x.retired = b.retired
          /\ x.at = b.at /\ IsBuild(x)
      BY <1>1, <2>4 DEF IsBuild
    <2>7. \A e \in Dir : build'[e] = IF e = d THEN x ELSE build[e]
      BY <1>1, <2>5
    <2>8. \A r \in Images!Ref : tags'[r] = IF r = ref THEN f ELSE tags[r]
      BY <2>1, <2>3
    <2>9. \A e \in Dir : latest'[e] = IF e = d THEN f ELSE latest[e]
      BY <2>1, <2>3
    <2>10. ImageTypes'
      BY <1>2, <2>1, <2>3, <2>5 DEF ImageInv, ImageTypes
    <2>11. \A e \in Dir : e # d => ref \notin OwnRefs(e)
      BY <2>3, References
    <2>12. BuildsOK'
      <3>1. ASSUME NEW e \in Dir PROVE BuildOK(e, build'[e], tags')
        <4>1. CASE e = d
          BY <1>1, <2>6, <2>7, <4>1 DEF BuildOK
        <4>2. CASE e # d
          <5>1. BuildOK(e, build[e], tags) /\ build'[e] = build[e]
            BY <2>7, <4>2 DEF ImageInv, BuildsOK
          <5>2. \A r \in OwnRefs(e) : tags'[r] = tags[r]
            BY <2>3, <2>8, <2>11, <4>2
          <5> QED
            BY <5>1, <5>2 DEF BuildOK
        <4> QED
          BY <4>1, <4>2
      <3> QED
        BY <3>1 DEF BuildsOK, BuildOK, IsBuild
    <2>13. RefsStand'
      <3>1. ASSUME NEW e \in Dir
            PROVE  /\ tags'[Images!BuildCacheRef(e)] = latest'[e]
                   /\ \A r \in OwnRefs(e) : Stands(tags'[r], e, images')
        <4>1. tags[Images!BuildCacheRef(e)] = latest[e] /\ \A r \in OwnRefs(e) : Stands(tags[r], e, images)
          BY DEF ImageInv, RefsStand
        <4>2. Images!BuildCacheRef(e) \in OwnRefs(e)
          BY DEF OwnRefs
        <4>3. CASE e = d
          <5>1. tags'[ref] = latest'[d] /\ \A r \in OwnRefs(d) : Stands(tags'[r], d, images')
            BY <1>2, <2>2, <2>3, <2>8, <2>9, <4>1, <4>3
          <5> QED
            BY <4>3, <5>1 DEF ref
        <4>4. CASE e # d
          BY <1>2, <2>3, <2>8, <2>9, <2>11, <4>1, <4>2, <4>4
        <4> QED
          BY <4>3, <4>4
      <3> QED
        BY <3>1 DEF RefsStand, Stands, OwnRefs
    <2>14. Queues'
      <3>1. \A e \in Dir : Rewriting(build'[e]) <=> Rewriting(build[e])
        BY <1>1, <2>6, <2>7 DEF Rewriting
      <3>2. \A e \in Dir : Rewriting(build[e]) => build'[e] = build[e]
        BY <1>1, <2>7 DEF Rewriting
      <3> QED
        BY <1>2, <3>1, <3>2 DEF ImageInv, Queues, Rewriting
    <2> QED
      BY <2>10, <2>12, <2>13, <2>14 DEF ImageInv
  <1> QED
    BY <1>3, <1>4

\* A step up the chain of an image of d: what is removed is in no chain that stands.
LEMMA WalkStep ==
  ASSUME ImageInv, NEW d \in Dir, Images!Walk(d)
  PROVE  ImageInv'
  <1> DEFINE b == build[d]
             i == b.at
  <1>1. BuildOK(d, b, tags) /\ IsBuild(b) /\ build = [e \in Dir |-> build[e]] /\ b.pc = "walk"
    BY DEF ImageInv, BuildsOK, BuildOK, ImageTypes, Images!Walk, Images!At
  <1>2. UNCHANGED <<lockfile, deploying, latest>> /\ ~ Rewriting(b)
    BY <1>1 DEF Images!Walk, Images!staging, Rewriting
  <1>3. CASE build' = [build EXCEPT ![d].pc = "list"] /\ UNCHANGED <<images, tags>>
    <2>1. PICK x : x = [b EXCEPT !.pc = "list"]
      OBVIOUS
    <2>2. build' = [build EXCEPT ![d] = x]
      BY <1>1, <1>3, <2>1
    <2>3. /\ x.pc = "list" /\ x.version = b.version /\ x.previous = b.previous /\ x.retired = b.retired
          /\ x.at = b.at /\ IsBuild(x)
      BY <1>1, <2>1 DEF IsBuild
    <2>4. BuildOK(d, x, tags) /\ ~ Rewriting(x)
      BY <1>1, <2>3 DEF BuildOK, Rewriting
    <2> QED
      BY <1>2, <1>3, <2>2, <2>4, BuildMoves
  <1>4. CASE /\ i # None /\ i \notin b.tagged /\ Images!Children(i, images) = {}
             /\ images' = images \ {i}
             /\ tags' = [r \in Images!Ref |-> IF tags[r] = i THEN None ELSE tags[r]]
             /\ build' = [build EXCEPT ![d].at = Images!Parent(i), ![d].list = @ \ {i}]
    <2>1. i \in OfDir(d)
      BY <1>1, <1>4 DEF BuildOK
    <2>2. Images!Parent(i) \in OfDir(d) \cup {None}
      BY <2>1, ParentsOfDir
    <2>3. PICK x : x = [b EXCEPT !.at = Images!Parent(i), !.list = b.list \ {i}]
      OBVIOUS
    <2>4. build' = [build EXCEPT ![d] = x]
      BY <1>1, <1>4, <2>3
    <2>5. /\ x.pc = b.pc /\ x.version = b.version /\ x.previous = b.previous /\ x.retired = b.retired
          /\ x.at = Images!Parent(i) /\ x.tagged = b.tagged /\ IsBuild(x)
      BY <1>1, <2>3 DEF IsBuild
    <2>6. \A e \in Dir : build'[e] = IF e = d THEN x ELSE build[e]
      BY <1>1, <2>4
    <2>7. tags = [r \in Images!Ref |-> tags[r]] /\ \A e \in Dir : OwnRefs(e) \subseteq Images!Ref
      BY References DEF ImageInv, ImageTypes
    <2>8. \A r \in Images!Ref : tags'[r] = IF tags[r] = i THEN None ELSE tags[r]
      BY <1>4
    <2>9. ImageTypes'
      <3>1. images' \subseteq {Images!Base} \cup UNION {OfDir(e) : e \in Dir}
        BY <1>4 DEF ImageInv, ImageTypes
      <3>2. tags' = [r \in Images!Ref |-> tags'[r]]
        BY <1>4
      <3> QED
        BY <1>2, <2>4, <3>1, <3>2 DEF ImageInv, ImageTypes
    <2>10. ASSUME NEW e \in Dir, NEW r \in OwnRefs(e), tags[r] # None
           PROVE  tags[r] # i /\ Stands(tags[r], e, images')
      <3>1. Stands(tags[r], e, images)
        BY DEF ImageInv, RefsStand
      <3>2. d = e => tags[r] # i
        BY <1>1, <1>4, <2>10 DEF BuildOK
      <3> QED
        BY <1>4, <2>1, <2>10, <3>1, <3>2, ChainStays
    <2>11. \A e \in Dir : \A r \in OwnRefs(e) : tags'[r] = tags[r] /\ Stands(tags[r], e, images')
      <3>1. ASSUME NEW e \in Dir, NEW r \in OwnRefs(e) PROVE tags'[r] = tags[r] /\ Stands(tags[r], e, images')
        <4>1. CASE tags[r] = None
          BY <1>4, <2>7, <2>8, <4>1 DEF Stands
        <4>2. CASE tags[r] # None
          BY <2>7, <2>8, <2>10, <4>2
        <4> QED
          BY <4>1, <4>2
      <3> QED
        BY <3>1
    <2>12. BuildsOK'
      <3>1. ASSUME NEW e \in Dir PROVE BuildOK(e, build'[e], tags')
        <4>1. CASE e = d
          BY <1>1, <2>2, <2>5, <2>6, <2>11, <4>1 DEF BuildOK
        <4>2. CASE e # d
          <5>1. BuildOK(e, build[e], tags) /\ build'[e] = build[e]
            BY <2>6, <4>2 DEF ImageInv, BuildsOK
          <5> QED
            BY <2>11, <5>1 DEF BuildOK
        <4> QED
          BY <4>1, <4>2
      <3> QED
        BY <3>1 DEF BuildsOK, BuildOK, IsBuild
    <2>13. RefsStand'
      <3>1. ASSUME NEW e \in Dir
            PROVE  /\ tags'[Images!BuildCacheRef(e)] = latest'[e]
                   /\ \A r \in OwnRefs(e) : Stands(tags'[r], e, images')
        <4>1. tags[Images!BuildCacheRef(e)] = latest[e] /\ Images!BuildCacheRef(e) \in OwnRefs(e)
          BY DEF ImageInv, RefsStand, OwnRefs
        <4> QED
          BY <1>2, <2>11, <4>1
      <3> QED
        BY <3>1 DEF RefsStand, Stands, OwnRefs
    <2>14. Queues'
      <3>1. \A e \in Dir : Rewriting(build'[e]) <=> Rewriting(build[e])
        BY <2>5, <2>6 DEF Rewriting
      <3>2. \A e \in Dir : Rewriting(build[e]) => build'[e] = build[e]
        BY <1>2, <2>6 DEF Rewriting
      <3> QED
        BY <1>2, <3>1, <3>2 DEF ImageInv, Queues, Rewriting
    <2> QED
      BY <2>9, <2>12, <2>13, <2>14 DEF ImageInv
  <1> QED
    BY <1>3, <1>4 DEF Images!Walk, Images!Go, Images!daemon

\* Images change and a tag of an idle directory goes, but every chain that is named stands.
LEMMA DaemonMoves ==
  ASSUME ImageInv, UNCHANGED <<lockfile, deploying, build, latest>>,
         images' \subseteq {Images!Base} \cup UNION {OfDir(e) : e \in Dir}, tags' = [r \in Images!Ref |-> tags'[r]],
         \A e \in Dir : /\ tags'[Images!BuildCacheRef(e)] = tags[Images!BuildCacheRef(e)]
                        /\ tags'[Images!Tag(e)] \in {tags[Images!Tag(e)], None}
                        /\ \A r \in OwnRefs(e) : Stands(tags'[r], e, images')
  PROVE  ImageInv'
  <1>1. ImageTypes'
    BY DEF ImageInv, ImageTypes
  <1>2. BuildsOK'
    <2>1. ASSUME NEW e \in Dir PROVE BuildOK(e, build[e], tags')
      <3>1. BuildOK(e, build[e], tags)
        BY DEF ImageInv, BuildsOK
      <3>2. \A r \in OwnRefs(e) : tags'[r] # None => tags'[r] = tags[r]
        BY DEF OwnRefs
      <3> QED
        BY <3>1, <3>2 DEF BuildOK
    <2> QED
      BY <2>1 DEF BuildsOK, BuildOK, IsBuild
  <1>3. RefsStand'
    <2>1. \A e \in Dir : /\ tags'[Images!BuildCacheRef(e)] = latest'[e]
                         /\ \A r \in OwnRefs(e) : Stands(tags'[r], e, images')
      BY DEF ImageInv, RefsStand
    <2> QED
      BY <2>1 DEF RefsStand, Stands, OwnRefs
  <1>4. Queues'
    BY DEF ImageInv, Queues, Rewriting
  <1> QED
    BY <1>1, <1>2, <1>3, <1>4 DEF ImageInv

\* A tag goes, with its image when that was its last.
LEMMA StopStep ==
  ASSUME ImageInv, NEW d \in Dir, Images!StopRemovesTag(d)
  PROVE  ImageInv'
  <1> DEFINE f == tags[Images!Tag(d)]
  <1>1. /\ f # None /\ tags' = [tags EXCEPT ![Images!Tag(d)] = None]
        /\ UNCHANGED <<lockfile, deploying, build, latest>>
        /\ images' = IF Images!RepoTags(f) = {Images!Tag(d)} /\ Images!Children(f, images) = {} THEN images \ {f} ELSE images
    BY DEF Images!StopRemovesTag, Images!staging
  <1>2. Stands(f, d, images) /\ f \in OfDir(d)
    BY <1>1 DEF ImageInv, RefsStand, OwnRefs, Stands, OfDir
  <1>3. tags = [r \in Images!Ref |-> tags[r]] /\ \A e \in Dir : OwnRefs(e) \subseteq Images!Ref
    BY References DEF ImageInv, ImageTypes
  <1> HIDE DEF f
  <1>4. \A r \in Images!Ref : tags'[r] = IF r = Images!Tag(d) THEN None ELSE tags[r]
    BY <1>1, <1>3
  <1>5. images' \subseteq {Images!Base} \cup UNION {OfDir(e) : e \in Dir} /\ tags' = [r \in Images!Ref |-> tags'[r]]
    BY <1>1, <1>3 DEF ImageInv, ImageTypes
  <1>6. ASSUME NEW e \in Dir
        PROVE  /\ tags'[Images!BuildCacheRef(e)] = tags[Images!BuildCacheRef(e)]
               /\ tags'[Images!Tag(e)] \in {tags[Images!Tag(e)], None}
               /\ \A r \in OwnRefs(e) : Stands(tags'[r], e, images')
    <2>1. Images!BuildCacheRef(e) # Images!Tag(d) /\ Images!BuildCacheRef(e) \in Images!Ref /\ Images!Tag(e) \in Images!Ref
      BY <1>3, References DEF OwnRefs
    <2>2. ASSUME NEW r \in OwnRefs(e) PROVE Stands(tags'[r], e, images')
      <3>1. Stands(tags[r], e, images) /\ r \in Images!Ref
        BY <1>3 DEF ImageInv, RefsStand
      <3>2. CASE r = Images!Tag(d) \/ tags[r] = None
        BY <1>4, <3>1, <3>2 DEF Stands
      <3>3. CASE r # Images!Tag(d) /\ tags[r] # None
        <4>1. tags'[r] = tags[r]
          BY <1>4, <3>1, <3>3
        <4>2. CASE images' = images
          BY <3>1, <4>1, <4>2
        <4>3. CASE Images!RepoTags(f) = {Images!Tag(d)} /\ Images!Children(f, images) = {} /\ images' = images \ {f}
          <5>1. tags[r] # f
            BY <3>1, <3>3, <4>3 DEF Images!RepoTags
          <5> QED
            BY <1>2, <3>1, <3>3, <4>1, <4>3, <5>1, ChainStays
        <4> QED
          BY <1>1, <4>2, <4>3
      <3> QED
        BY <3>2, <3>3
    <2> QED
      BY <1>4, <2>1, <2>2
  <1> QED
    BY <1>1, <1>5, <1>6, DaemonMoves

LEMMA OutsideStep ==
  ASSUME ImageInv, Images!Ages \/ \E d \in Dir : Images!DerivedBuilt(d)
  PROVE  ImageInv'
  <1>1. /\ UNCHANGED <<tags, lockfile, deploying, build, latest>> /\ images \subseteq images'
        /\ images' \subseteq {Images!Base} \cup UNION {OfDir(e) : e \in Dir}
    <2>1. CASE Images!Ages
      BY <2>1 DEF Images!Ages, Images!staging, ImageInv, ImageTypes
    <2>2. ASSUME NEW d \in Dir, Images!DerivedBuilt(d)
          PROVE  /\ UNCHANGED <<tags, lockfile, deploying, build, latest>> /\ images \subseteq images'
                 /\ images' \subseteq {Images!Base} \cup UNION {OfDir(e) : e \in Dir}
      <3>1. /\ tags[Images!BuildCacheRef(d)] # None /\ UNCHANGED <<tags, lockfile, deploying, build, latest>>
            /\ images' = images \cup {Images!Derived(tags[Images!BuildCacheRef(d)])}
        BY <2>2 DEF Images!DerivedBuilt, Images!staging
      <3>2. Stands(tags[Images!BuildCacheRef(d)], d, images)
        BY DEF ImageInv, RefsStand, OwnRefs
      <3>3. Images!Derived(tags[Images!BuildCacheRef(d)]) \in OfDir(d)
        BY <3>1, <3>2 DEF Stands, OfDir
      <3> QED
        BY <3>1, <3>3 DEF ImageInv, ImageTypes
    <2> QED
      BY <2>1, <2>2
  <1>2. \A e \in Dir : \A r \in OwnRefs(e) : Stands(tags[r], e, images')
    BY <1>1, StandsStill DEF ImageInv, RefsStand
  <1>3. tags' = [r \in Images!Ref |-> tags'[r]]
    BY <1>1 DEF ImageInv, ImageTypes
  <1> QED
    BY <1>1, <1>2, <1>3, DaemonMoves

(* However the builds of several directories, also of apps of one name,     *)
(* retire and sweep each other's time, fail or are stopped: the latest      *)
(* build of every directory stays, with the layers it was made of; and when *)
(* no deploy is at work in a workspace, its lockfile is the developer's.    *)
THEOREM BuildsKeepWhatIsOthers ==
  ASSUME ImageAssumption
  PROVE  Images!Spec => [](Images!LatestBuildKept /\ Images!LockfileRestored)
  <1>1. Images!Init => ImageInv
    <2> SUFFICES ASSUME Images!Init PROVE ImageInv
      OBVIOUS
    <2>1. \A e \in Dir : OwnRefs(e) \subseteq Images!Ref
      BY References
    <2>2. ImageTypes
      <3>1. images \subseteq {Images!Base} \cup UNION {OfDir(d) : d \in Dir}
        BY DEF Images!Init, OfDir
      <3> QED
        BY <3>1 DEF Images!Init, ImageTypes
    <2>3. RefsStand
      BY <2>1 DEF Images!Init, RefsStand, Stands, OwnRefs
    <2>4. \A d \in Dir : build[d] = Images!Idle
      BY DEF Images!Init
    <2> DEFINE b == Images!Idle
    <2>5. /\ b.pc = "idle" /\ b.previous = {} /\ b.retired = {} /\ b.at = None /\ IsBuild(b)
      BY DEF Images!Idle, IsBuild
    <2> HIDE DEF b
    <2>6. BuildsOK
      BY <2>4, <2>5 DEF BuildsOK, BuildOK, b
    <2>7. Queues
      <3>1. \A d \in Dir : ~ Rewriting(build[d])
        BY <2>4, <2>5 DEF Rewriting, b
      <3> QED
        BY <3>1 DEF Images!Init, Queues, Spaces
    <2> QED
      BY <2>2, <2>3, <2>6, <2>7 DEF ImageInv
  <1>2. ImageInv /\ [Images!Next]_(Images!vars) => ImageInv'
    <2> SUFFICES ASSUME ImageInv, [Images!Next]_(Images!vars) PROVE ImageInv'
      OBVIOUS
    <2>1. ASSUME NEW d \in Dir, Images!Build(d) PROVE ImageInv'
      BY <2>1, BuildStep, StagingStep, DockerBuildStep, MoveRefStep, WalkStep, StopStep DEF Images!Build
    <2>2. CASE Images!Next
      BY <2>1, <2>2, OutsideStep DEF Images!Next
    <2>3. CASE UNCHANGED Images!vars
      <3>1. UNCHANGED <<images, tags, lockfile, deploying, build, latest>>
        BY <2>3 DEF Images!vars
      <3>2. ImageTypes' /\ Queues'
        BY <3>1 DEF ImageInv, ImageTypes, Queues, Rewriting
      <3>3. \A e \in Dir : BuildOK(e, build'[e], tags)
        BY <3>1 DEF ImageInv, BuildsOK
      <3> QED
        BY <3>1, <3>2, <3>3, StagingMoves
    <2> QED
      BY <2>2, <2>3
  <1>3. ImageInv => Images!LatestBuildKept /\ Images!LockfileRestored
    <2> SUFFICES ASSUME ImageInv PROVE Images!LatestBuildKept /\ Images!LockfileRestored
      OBVIOUS
    <2>1. ASSUME NEW d \in Dir, latest[d] # None PROVE Images!Chain(latest[d]) \subseteq images
      <3>1. Stands(latest[d], d, images)
        BY DEF ImageInv, RefsStand, OwnRefs
      <3> QED
        BY <2>1, <3>1 DEF Stands
    <2>2. Images!LockfileRestored
      BY DEF ImageInv, Queues, Rewriting, Spaces, Images!LockfileRestored
    <2> QED
      BY <2>1, <2>2 DEF Images!LatestBuildKept
  <1> QED
    BY <1>1, <1>2, <1>3, PTL DEF Images!Spec

-----------------------------------------------------------------------------
(* berth dev in a microVM.  The index says of no bundle that it is of other *)
(* sources than it was made of, when the hashes are of the bytes copied.    *)

Copies == Runtime = "python"

DevTypes ==
  /\ DOMAIN bundling = Dev!Bundler /\ DOMAIN got = Dev!Bundler /\ DOMAIN hashed = Dev!Bundler
  /\ queue \in Nat

\* What the hashes of the inputs are of is what was bundled.
HashedAsBundled == \A p \in Dev!Bundler : bundling[p] \in {"share", "hash", "write"} => hashed[p] = got[p]
IndexIsTrue == index # None => index.inputs = index.share
TmpIsTrue == tmp # None => tmp.inputs = tmp.share

\* A session that runs has a VM of the bundle it booted last, or none.
RunsItsBundle == devPc \notin {"off", "exited"} /\ running # None => running = current

\* Nobody but a session that watches has seen the sources, and those are they.
SeenAreTheSources == seen # None => watching /\ seen = src

\* Nothing was saved since the last reload began.
NothingDue == seen # None /\ ~due /\ queue = 0

FreshWhenBundled == devPc = "bundle" /\ bundling["dev"] \in {"share", "hash", "write", "rename", "prune", "done"} => got["dev"] = src
FreshWhenBooted == devPc \in {"stop", "boot"} => got["dev"] = src
FreshAtRest == devPc = "idle" /\ running # None /\ ~told => running = src
Fresh == NothingDue => FreshWhenBundled /\ FreshWhenBooted /\ FreshAtRest

DevInv ==
  /\ DevTypes /\ RunsItsBundle /\ SeenAreTheSources /\ Dev!NoVmLeft
  /\ Copies => HashedAsBundled /\ IndexIsTrue /\ TmpIsTrue /\ Fresh

\* A step of a command that bundles: what it had and what it has.
LEMMA BundleKeepsTheIndexTrue ==
  ASSUME DevInv, Copies, NEW p \in Dev!Bundler, Dev!Bundle(p)
  PROVE  HashedAsBundled' /\ IndexIsTrue' /\ TmpIsTrue'
  <1> USE DEF Dev!Go
  <1>0. DevTypes /\ HashedAsBundled /\ IndexIsTrue /\ TmpIsTrue
    BY DEF DevInv
  <1>1. CASE Dev!LookUp(p)
    BY <1>0, <1>1 DEF DevTypes, HashedAsBundled, IndexIsTrue, TmpIsTrue, Dev!LookUp
  <1>2. CASE Dev!Build(p)
    BY <1>0, <1>2 DEF DevTypes, HashedAsBundled, IndexIsTrue, TmpIsTrue, Dev!Build
  <1>3. CASE Dev!Share(p)
    BY <1>0, <1>3 DEF DevTypes, HashedAsBundled, IndexIsTrue, TmpIsTrue, Dev!Share
  <1>4. CASE Dev!Hash(p)
    BY <1>0, <1>4 DEF DevTypes, HashedAsBundled, IndexIsTrue, TmpIsTrue, Dev!Hash, Dev!HashInputs, Copies
  <1>5. CASE Dev!WriteIndex(p)
    BY <1>0, <1>5 DEF DevTypes, HashedAsBundled, IndexIsTrue, TmpIsTrue, Dev!WriteIndex
  <1>6. CASE Dev!RenameIndex(p)
    BY <1>0, <1>6 DEF DevTypes, HashedAsBundled, IndexIsTrue, TmpIsTrue, Dev!RenameIndex
  <1>7. CASE Dev!Prune(p)
    BY <1>0, <1>7 DEF DevTypes, HashedAsBundled, IndexIsTrue, TmpIsTrue, Dev!Prune
  <1> QED
    BY <1>1, <1>2, <1>3, <1>4, <1>5, <1>6, <1>7 DEF Dev!Bundle

\* What the session's own command has bundled is what the sources are.
LEMMA BundlesWhatIsThere ==
  ASSUME DevInv, Copies, NEW p \in Dev!Bundler, Dev!Bundle(p), "dev" \in Dev!Bundler
  PROVE  \/ got'["dev"] = src
         \/ got'["dev"] = got["dev"] /\ (bundling'["dev"] = bundling["dev"] \/ bundling'["dev"] = "failed"
                                          \/ bundling["dev"] \in {"share", "hash", "write", "rename", "prune"})
  <1> USE DEF Dev!Go
  <1>0. DevTypes /\ IndexIsTrue
    BY DEF DevInv
  <1>1. CASE Dev!LookUp(p)
    BY <1>0, <1>1 DEF DevTypes, IndexIsTrue, Dev!LookUp, Dev!Cached
  <1>2. CASE Dev!Build(p)
    BY <1>0, <1>2 DEF DevTypes, Dev!Build
  <1>3. CASE Dev!Share(p)
    BY <1>0, <1>3 DEF DevTypes, Dev!Share
  <1>4. CASE Dev!Hash(p)
    BY <1>0, <1>4 DEF DevTypes, Dev!Hash
  <1>5. CASE Dev!WriteIndex(p)
    BY <1>0, <1>5 DEF DevTypes, Dev!WriteIndex
  <1>6. CASE Dev!RenameIndex(p)
    BY <1>0, <1>6 DEF DevTypes, Dev!RenameIndex
  <1>7. CASE Dev!Prune(p)
    BY <1>0, <1>7 DEF DevTypes, Dev!Prune
  <1> QED
    BY <1>1, <1>2, <1>3, <1>4, <1>5, <1>6, <1>7 DEF Dev!Bundle

LEMMA DevStep ==
  ASSUME DevInv, Dev!Next
  PROVE  DevInv'
  <1> USE DEF Dev!Go
  <1>0. /\ DevTypes /\ RunsItsBundle /\ SeenAreTheSources /\ Dev!NoVmLeft
        /\ Copies => HashedAsBundled /\ IndexIsTrue /\ TmpIsTrue /\ Fresh
        /\ "dev" \in Dev!Bundler
    BY DEF DevInv, Dev!Bundler
  <1>1. ASSUME NEW v \in Version, Dev!Edit(v) PROVE DevInv'
    <2>1. DevTypes' /\ RunsItsBundle' /\ SeenAreTheSources' /\ Dev!NoVmLeft'
      BY <1>0, <1>1 DEF Dev!Edit, Dev!cache, DevTypes, RunsItsBundle, SeenAreTheSources, Dev!NoVmLeft
    <2>2. Copies => HashedAsBundled' /\ IndexIsTrue' /\ TmpIsTrue'
      BY <1>0, <1>1 DEF Dev!Edit, Dev!cache, HashedAsBundled, IndexIsTrue, TmpIsTrue
    <2>3. ~NothingDue'
      BY <1>0, <1>1 DEF Dev!Edit, NothingDue, SeenAreTheSources
    <2> QED
      BY <2>1, <2>2, <2>3 DEF DevInv, Fresh, Copies
  <1>2. ASSUME NEW p \in Dev!Bundler, Dev!Bundle(p) PROVE DevInv'
    <2>1. UNCHANGED <<src, seen, Dev!dev, edits, kills>>
      BY <1>2 DEF Dev!Bundle
    <2>2. DOMAIN bundling' = Dev!Bundler /\ DOMAIN got' = Dev!Bundler /\ DOMAIN hashed' = Dev!Bundler
      BY <1>0, <1>2 DEF DevTypes, Dev!Bundle, Dev!LookUp, Dev!Build, Dev!Share, Dev!Hash, Dev!WriteIndex, Dev!RenameIndex, Dev!Prune
    <2>3. DevTypes' /\ RunsItsBundle' /\ SeenAreTheSources' /\ Dev!NoVmLeft'
      BY <1>0, <2>1, <2>2 DEF Dev!dev, DevTypes, RunsItsBundle, SeenAreTheSources, Dev!NoVmLeft
    <2>4. Copies => HashedAsBundled' /\ IndexIsTrue' /\ TmpIsTrue'
      BY <1>2, BundleKeepsTheIndexTrue
    <2>5. ASSUME Copies PROVE Fresh'
      <3>1. \/ got'["dev"] = src
            \/ got'["dev"] = got["dev"] /\ (bundling'["dev"] = bundling["dev"] \/ bundling'["dev"] = "failed"
                                              \/ bundling["dev"] \in {"share", "hash", "write", "rename", "prune"})
        BY <1>0, <1>2, <2>5, BundlesWhatIsThere
      <3>2. FreshAtRest' = FreshAtRest /\ NothingDue' = NothingDue
        BY <2>1 DEF Dev!dev, FreshAtRest, NothingDue
      <3>3. FreshWhenBundled /\ FreshWhenBooted => FreshWhenBundled' /\ FreshWhenBooted'
        BY <2>1, <3>1 DEF Dev!dev, FreshWhenBundled, FreshWhenBooted
      <3> QED
        BY <1>0, <2>5, <3>2, <3>3 DEF Fresh
    <2> QED
      BY <2>3, <2>4, <2>5 DEF DevInv, Copies
  <1>3. CASE Dev!OtherBundles
    <2>1. DevTypes' /\ RunsItsBundle' /\ SeenAreTheSources' /\ Dev!NoVmLeft'
      BY <1>0, <1>3 DEF Dev!OtherBundles, Dev!dev, DevTypes, RunsItsBundle, SeenAreTheSources, Dev!NoVmLeft
    <2>2. Copies => HashedAsBundled' /\ IndexIsTrue' /\ TmpIsTrue'
      BY <1>0, <1>3 DEF Dev!OtherBundles, DevTypes, HashedAsBundled, IndexIsTrue, TmpIsTrue
    <2>3. bundling'["dev"] = bundling["dev"]
      BY <1>0, <1>3 DEF Dev!OtherBundles, DevTypes
    <2>4. Fresh => Fresh'
      BY <1>3, <2>3 DEF Dev!OtherBundles, Dev!dev, Fresh, NothingDue, FreshWhenBundled, FreshWhenBooted, FreshAtRest
    <2> QED
      BY <1>0, <2>1, <2>2, <2>4 DEF DevInv, Copies
  <1>4. CASE Dev!Start
    <2>1. DevTypes' /\ RunsItsBundle' /\ SeenAreTheSources' /\ Dev!NoVmLeft'
      BY <1>0, <1>4 DEF Dev!Start, DevTypes, RunsItsBundle, SeenAreTheSources, Dev!NoVmLeft
    <2>2. Copies => HashedAsBundled' /\ IndexIsTrue' /\ TmpIsTrue'
      BY <1>0, <1>4 DEF Dev!Start, DevTypes, HashedAsBundled, IndexIsTrue, TmpIsTrue
    <2>3. bundling'["dev"] = "build" /\ devPc' = "bundle"
      BY <1>0, <1>4 DEF Dev!Start, DevTypes
    <2>4. Fresh'
      BY <2>3 DEF Fresh, FreshWhenBundled, FreshWhenBooted, FreshAtRest
    <2> QED
      BY <2>1, <2>2, <2>4 DEF DevInv, Copies
  <1>5. CASE Dev!Reload
    <2>1. DevTypes' /\ RunsItsBundle' /\ SeenAreTheSources' /\ Dev!NoVmLeft'
      BY <1>0, <1>5 DEF Dev!Reload, DevTypes, RunsItsBundle, SeenAreTheSources, Dev!NoVmLeft
    <2>2. Copies => HashedAsBundled' /\ IndexIsTrue' /\ TmpIsTrue'
      BY <1>0, <1>5 DEF Dev!Reload, DevTypes, HashedAsBundled, IndexIsTrue, TmpIsTrue
    <2>3. bundling'["dev"] = "build" /\ devPc' = "bundle"
      BY <1>0, <1>5 DEF Dev!Reload, DevTypes
    <2>4. Fresh'
      BY <2>3 DEF Fresh, FreshWhenBundled, FreshWhenBooted, FreshAtRest
    <2> QED
      BY <2>1, <2>2, <2>4 DEF DevInv, Copies
  <1>6. CASE Dev!Fire
    <2>1. DevTypes' /\ RunsItsBundle' /\ SeenAreTheSources' /\ Dev!NoVmLeft'
      BY <1>0, <1>6 DEF Dev!Fire, Dev!cache, DevTypes, RunsItsBundle, SeenAreTheSources, Dev!NoVmLeft
    <2>2. Copies => HashedAsBundled' /\ IndexIsTrue' /\ TmpIsTrue'
      BY <1>0, <1>6 DEF Dev!Fire, Dev!cache, DevTypes, HashedAsBundled, IndexIsTrue, TmpIsTrue
    <2>3. Copies => Fresh'
      BY <1>0, <1>6 DEF Dev!Fire, Dev!cache, DevTypes, Fresh, NothingDue, FreshWhenBundled, FreshWhenBooted, FreshAtRest, RunsItsBundle
    <2> QED
      BY <2>1, <2>2, <2>3 DEF DevInv, Copies
  <1>7. CASE Dev!BundleFailed
    <2>1. DevTypes' /\ RunsItsBundle' /\ SeenAreTheSources' /\ Dev!NoVmLeft'
      BY <1>0, <1>7 DEF Dev!BundleFailed, Dev!cache, DevTypes, RunsItsBundle, SeenAreTheSources, Dev!NoVmLeft
    <2>2. Copies => HashedAsBundled' /\ IndexIsTrue' /\ TmpIsTrue'
      BY <1>0, <1>7 DEF Dev!BundleFailed, Dev!cache, DevTypes, HashedAsBundled, IndexIsTrue, TmpIsTrue
    <2>3. Copies => Fresh'
      BY <1>0, <1>7 DEF Dev!BundleFailed, Dev!cache, DevTypes, Fresh, NothingDue, FreshWhenBundled, FreshWhenBooted, FreshAtRest, RunsItsBundle
    <2> QED
      BY <2>1, <2>2, <2>3 DEF DevInv, Copies
  <1>8. CASE Dev!Compare
    <2>1. DevTypes' /\ RunsItsBundle' /\ SeenAreTheSources' /\ Dev!NoVmLeft'
      BY <1>0, <1>8 DEF Dev!Compare, Dev!cache, DevTypes, RunsItsBundle, SeenAreTheSources, Dev!NoVmLeft
    <2>2. Copies => HashedAsBundled' /\ IndexIsTrue' /\ TmpIsTrue'
      BY <1>0, <1>8 DEF Dev!Compare, Dev!cache, DevTypes, HashedAsBundled, IndexIsTrue, TmpIsTrue
    <2>3. Copies => Fresh'
      BY <1>0, <1>8 DEF Dev!Compare, Dev!cache, DevTypes, Fresh, NothingDue, FreshWhenBundled, FreshWhenBooted, FreshAtRest, RunsItsBundle
    <2> QED
      BY <2>1, <2>2, <2>3 DEF DevInv, Copies
  <1>9. CASE Dev!Stop
    <2>1. DevTypes' /\ RunsItsBundle' /\ SeenAreTheSources' /\ Dev!NoVmLeft'
      BY <1>0, <1>9 DEF Dev!Stop, Dev!cache, DevTypes, RunsItsBundle, SeenAreTheSources, Dev!NoVmLeft
    <2>2. Copies => HashedAsBundled' /\ IndexIsTrue' /\ TmpIsTrue'
      BY <1>0, <1>9 DEF Dev!Stop, Dev!cache, DevTypes, HashedAsBundled, IndexIsTrue, TmpIsTrue
    <2>3. Copies => Fresh'
      BY <1>0, <1>9 DEF Dev!Stop, Dev!cache, DevTypes, Fresh, NothingDue, FreshWhenBundled, FreshWhenBooted, FreshAtRest, RunsItsBundle
    <2> QED
      BY <2>1, <2>2, <2>3 DEF DevInv, Copies
  <1>10. CASE Dev!Boot
    <2>1. DevTypes' /\ RunsItsBundle' /\ SeenAreTheSources' /\ Dev!NoVmLeft'
      BY <1>0, <1>10 DEF Dev!Boot, Dev!cache, DevTypes, RunsItsBundle, SeenAreTheSources, Dev!NoVmLeft
    <2>2. Copies => HashedAsBundled' /\ IndexIsTrue' /\ TmpIsTrue'
      BY <1>0, <1>10 DEF Dev!Boot, Dev!cache, DevTypes, HashedAsBundled, IndexIsTrue, TmpIsTrue
    <2>3. Copies => Fresh'
      BY <1>0, <1>10 DEF Dev!Boot, Dev!cache, DevTypes, Fresh, NothingDue, FreshWhenBundled, FreshWhenBooted, FreshAtRest, RunsItsBundle
    <2> QED
      BY <2>1, <2>2, <2>3 DEF DevInv, Copies
  <1>11. CASE Dev!BootFails
    <2>1. DevTypes' /\ RunsItsBundle' /\ SeenAreTheSources' /\ Dev!NoVmLeft'
      BY <1>0, <1>11 DEF Dev!BootFails, Dev!cache, DevTypes, RunsItsBundle, SeenAreTheSources, Dev!NoVmLeft
    <2>2. Copies => HashedAsBundled' /\ IndexIsTrue' /\ TmpIsTrue'
      BY <1>0, <1>11 DEF Dev!BootFails, Dev!cache, DevTypes, HashedAsBundled, IndexIsTrue, TmpIsTrue
    <2>3. Copies => Fresh'
      BY <1>0, <1>11 DEF Dev!BootFails, Dev!cache, DevTypes, Fresh, NothingDue, FreshWhenBundled, FreshWhenBooted, FreshAtRest, RunsItsBundle
    <2> QED
      BY <2>1, <2>2, <2>3 DEF DevInv, Copies
  <1>12. CASE Dev!VmExits
    <2>1. DevTypes' /\ RunsItsBundle' /\ SeenAreTheSources' /\ Dev!NoVmLeft'
      BY <1>0, <1>12 DEF Dev!VmExits, Dev!cache, DevTypes, RunsItsBundle, SeenAreTheSources, Dev!NoVmLeft
    <2>2. Copies => HashedAsBundled' /\ IndexIsTrue' /\ TmpIsTrue'
      BY <1>0, <1>12 DEF Dev!VmExits, Dev!cache, DevTypes, HashedAsBundled, IndexIsTrue, TmpIsTrue
    <2>3. Copies => Fresh'
      BY <1>0, <1>12 DEF Dev!VmExits, Dev!cache, DevTypes, Fresh, NothingDue, FreshWhenBundled, FreshWhenBooted, FreshAtRest, RunsItsBundle
    <2> QED
      BY <2>1, <2>2, <2>3 DEF DevInv, Copies
  <1>13. CASE Dev!Signal
    <2>1. DevTypes' /\ RunsItsBundle' /\ SeenAreTheSources' /\ Dev!NoVmLeft'
      BY <1>0, <1>13 DEF Dev!Signal, Dev!cache, DevTypes, RunsItsBundle, SeenAreTheSources, Dev!NoVmLeft
    <2>2. Copies => HashedAsBundled' /\ IndexIsTrue' /\ TmpIsTrue'
      BY <1>0, <1>13 DEF Dev!Signal, Dev!cache, DevTypes, HashedAsBundled, IndexIsTrue, TmpIsTrue
    <2>3. Copies => Fresh'
      BY <1>0, <1>13 DEF Dev!Signal, Dev!cache, DevTypes, Fresh, NothingDue, FreshWhenBundled, FreshWhenBooted, FreshAtRest, RunsItsBundle
    <2> QED
      BY <2>1, <2>2, <2>3 DEF DevInv, Copies
  <1>14. CASE Dev!Shutdown
    <2>1. DevTypes' /\ RunsItsBundle' /\ SeenAreTheSources' /\ Dev!NoVmLeft'
      BY <1>0, <1>14 DEF Dev!Shutdown, Dev!ReloadsEnded, DevTypes, RunsItsBundle, SeenAreTheSources, Dev!NoVmLeft
    <2>2. Copies => HashedAsBundled' /\ IndexIsTrue' /\ TmpIsTrue'
      BY <1>0, <1>14 DEF Dev!Shutdown, DevTypes, HashedAsBundled, IndexIsTrue, TmpIsTrue
    <2>3. Fresh'
      BY <1>0, <1>14 DEF Dev!Shutdown, Fresh, FreshWhenBundled, FreshWhenBooted, FreshAtRest
    <2> QED
      BY <2>1, <2>2, <2>3 DEF DevInv, Copies
  <1>15. CASE Dev!Kill
    <2>1. DevTypes' /\ RunsItsBundle' /\ SeenAreTheSources' /\ Dev!NoVmLeft'
      BY <1>0, <1>15 DEF Dev!Kill, Dev!ReloadsEnded, DevTypes, RunsItsBundle, SeenAreTheSources, Dev!NoVmLeft
    <2>2. Copies => HashedAsBundled' /\ IndexIsTrue' /\ TmpIsTrue'
      BY <1>0, <1>15 DEF Dev!Kill, DevTypes, HashedAsBundled, IndexIsTrue, TmpIsTrue
    <2>3. Fresh'
      BY <1>0, <1>15 DEF Dev!Kill, Fresh, FreshWhenBundled, FreshWhenBooted, FreshAtRest
    <2> QED
      BY <2>1, <2>2, <2>3 DEF DevInv, Copies
  <1> QED
    BY <1>1, <1>2, <1>3, <1>4, <1>5, <1>6, <1>7, <1>8, <1>9, <1>10, <1>11, <1>12, <1>13, <1>14, <1>15 DEF Dev!Next

(* A session of berth dev at rest runs the sources as its watcher reported  *)
(* them last, or has told its user that it does not, whatever is saved and  *)
(* whatever other command bundles the same app, when bundling copies the    *)
(* bytes it hashes; and one that was shut down leaves no VM, with either    *)
(* runtime (bundle.ts, dev-vm.ts).                                          *)
THEOREM DevRunsTheSources ==
  Dev!Spec => []((Copies => Dev!RunsWhatItSaw) /\ Dev!NoVmLeft)
  <1>1. Dev!Init => DevInv
    BY DEF Dev!Init, DevInv, DevTypes, RunsItsBundle, SeenAreTheSources, Dev!NoVmLeft,
           HashedAsBundled, IndexIsTrue, TmpIsTrue, Fresh, NothingDue
  <1>2. DevInv /\ [Dev!Next]_Dev!vars => DevInv'
    <2>1. ASSUME DevInv, UNCHANGED Dev!vars PROVE DevInv'
      BY <2>1 DEF Dev!vars, Dev!cache, Dev!dev, DevInv, DevTypes, RunsItsBundle, SeenAreTheSources, Dev!NoVmLeft,
           HashedAsBundled, IndexIsTrue, TmpIsTrue, Fresh, NothingDue, Copies, FreshWhenBundled, FreshWhenBooted, FreshAtRest
    <2> QED
      BY <2>1, DevStep
  <1>3. DevInv => (Copies => Dev!RunsWhatItSaw) /\ Dev!NoVmLeft
    BY DEF DevInv, Fresh, FreshAtRest, NothingDue, SeenAreTheSources, Dev!RunsWhatItSaw
  <1> QED
    BY <1>1, <1>2, <1>3, PTL DEF Dev!Spec

-----------------------------------------------------------------------------
(* The microVM sandbox of the same sessions.  Once its VM answers, and      *)
(* until it is gone, vm.json names it, so that who looks finds it; before   *)
(* that its session holds the claim.                                        *)

\* The claim is whose session is about to boot, boots or cleans up after it.
HasClaim == \A s \in Session : main[s] \in {"claimed", "boot", "cleanup"} => claim = s /\ s \notin NoBoot

\* What a session owns, it has booted, or tried to.
OwnsItsBoot ==
  \A s \in Session :
    /\ s \in owns => main[s] \in {"boot", "cleanup", "ready", "failed"}
    /\ main[s] \in {"boot", "cleanup"} => s \in owns
    /\ stopper[s] # "no" => s \in owns
    /\ stopper[s] \in {"stopping", "stoppingAgain"} => main[s] \in {"ready", "failed"}
    /\ life[s] = "new" => main[s] = "find"
    /\ main[s] = "gone" <=> life[s] \in {"exited", "killed"}

\* A VM is spawned once, by a session that boots, at a step of its boot.
SpawnedOnce ==
  \A s \in Session :
    /\ main[s] \in {"find", "claimed", "poll"} => step[s] = "bundle"
    /\ main[s] = "boot" => (vm[s] = "none" <=> step[s] \in {"bundle", "spawn"})
    /\ vm[s] # "none" => s \notin NoBoot /\ (s \in owns \/ main[s] = "gone")

\* The run directory, and who dials, know only VMs that were spawned.
Known(v) == v = None \/ vm[v] # "none"

OnlySpawnedAreKnown ==
  /\ Known(pidFile) /\ Known(record) /\ Known(sockets) /\ Known(disk)
  /\ \A s \in Session : \A f \in Vm!Flow : Known(dial[s][f])

\* A stopByName() under way is that of a session that owns, and has dialled.
HaltsDialled == \A s \in Session : \A f \in Vm!Flow : halt[s][f] # "look" => dial[s][f] # None /\ s \in owns

\* No session but t has spawned a VM.
OnlyVm(t) == \A u \in Session : u # t => vm[u] = "none"

Shown(t) == record = t /\ sockets = t /\ vm[t] = "serving"

\* The one VM there is, once its control port answered, can be found.
ServingIsShown ==
  \A t \in Session :
    OnlyVm(t) /\ life[t] # "killed" /\ Vm!Up(t) /\ (main[t] = "boot" => step[t] \in {"apps", "connect"}) => Shown(t)

\* While its session waits for that answer: where vm.json is gone, the sockets
\* are too, and it will not come.
UnshownIsMute ==
  \A t \in Session :
    OnlyVm(t) /\ main[t] = "boot" /\ step[t] = "control" /\ Vm!Up(t) =>
      vm[t] # "spawned" /\ (record = t \/ sockets # t)

\* The one session that booted leaves no VM when it exits.
LeavesNoVm == \A t \in Session : OnlyVm(t) /\ life[t] = "exited" => ~Vm!Up(t)

\* The secrets disk goes with the boot that needed it.
DiskGoes ==
  \A s \in Session : disk = s =>
    \/ main[s] = "gone"
    \/ main[s] = "boot" /\ step[s] \in {"lines", "control", "apps", "undo"}

NoKills == \A s \in Session : life[s] # "killed"

\* Of the sessions that may boot, only s and t have begun.
OnlyTwo(s, t) == \A u \in Session \ NoBoot : life[u] # "new" => u \in {s, t}

BootsAlone ==
  \A s, t \in Session : NoKills /\ s # t /\ OnlyTwo(s, t) /\ main[s] = "boot" /\ step[s] \in {"bundle", "spawn"} => ~Vm!Up(t)

OneOfTwo ==
  \A s, t \in Session : NoKills /\ s # t /\ OnlyTwo(s, t) => ~(Vm!Up(s) /\ Vm!Up(t))

VmBase == Vm!TypeOK /\ HasClaim /\ OwnsItsBoot /\ SpawnedOnce /\ OnlySpawnedAreKnown /\ HaltsDialled
VmInv == VmBase /\ ServingIsShown /\ UnshownIsMute /\ LeavesNoVm /\ DiskGoes /\ BootsAlone /\ OneOfTwo

\* A boot does not outlast the stop's wait for it; no session is none.
VmAssumption == ~SettleTimesOut /\ None \notin Session /\ IsFiniteSet(Session)

VmSteps == {"bundle", "spawn", "lines", "control", "apps", "connect", "undo"}

FlowsTyped ==
  /\ step \in [Session -> VmSteps]
  /\ dial \in [Session -> [Vm!Flow -> Session \cup {None}]]
  /\ halt \in [Session -> [Vm!Flow -> {"look", "dial", "stop"}]]

\* What a process that ends forgets is its own.
LEMMA VmForgets ==
  ASSUME Vm!TypeOK, NEW s \in Session, Vm!Memory(s)
  PROVE  /\ FlowsTyped'
         /\ \A t \in Session \ {s} : step'[t] = step[t] /\ dial'[t] = dial[t] /\ halt'[t] = halt[t]
         /\ life'[s] = "alive" => UNCHANGED <<step, dial, halt>>
         /\ life'[s] # "alive" => \A f \in Vm!Flow : dial'[s][f] = None /\ halt'[s][f] = "look"
  <1>1. FlowsTyped
    BY DEF Vm!TypeOK, FlowsTyped, VmSteps
  <1>2. CASE life'[s] = "alive"
    BY <1>1, <1>2 DEF Vm!Memory, Vm!flows, FlowsTyped
  <1>3. CASE life'[s] # "alive"
    <2> DEFINE d == [f \in Vm!Flow |-> None]
               h == [f \in Vm!Flow |-> "look"]
    <2>1. /\ d \in [Vm!Flow -> Session \cup {None}] /\ h \in [Vm!Flow -> {"look", "dial", "stop"}]
          /\ \A f \in Vm!Flow : d[f] = None /\ h[f] = "look"
      OBVIOUS
    <2>2. step' = [step EXCEPT ![s] = "bundle"] /\ dial' = [dial EXCEPT ![s] = d] /\ halt' = [halt EXCEPT ![s] = h]
      BY <1>3 DEF Vm!Memory
    <2> HIDE DEF d, h
    <2>3. FlowsTyped'
      BY <1>1, <2>1, <2>2 DEF FlowsTyped, VmSteps
    <2> QED
      BY <1>1, <1>3, <2>1, <2>2, <2>3 DEF FlowsTyped
  <1> QED
    BY <1>2, <1>3

\* A process that ends leaves the others where they are.
LEMMA VmProcessEnds ==
  ASSUME Vm!TypeOK, NEW s \in Session, NEW how \in {"exited", "killed"}, Vm!Ends(s, how)
  PROVE  /\ Vm!SessionTypeOK'
         /\ life'[s] = how /\ main'[s] = "gone" /\ stopper'[s] = "no" /\ s \notin owns'
         /\ \A t \in Session \ {s} :
              life'[t] = life[t] /\ main'[t] = main[t] /\ stopper'[t] = stopper[t] /\ (t \in owns' <=> t \in owns)
  BY DEF Vm!TypeOK, Vm!SessionTypeOK, Vm!Ends, Vm!ReleaseClaim

\* What the return of one stopByName() of s may have changed.
ReturnsFromHalt(s, f) ==
  /\ Vm!SessionTypeOK' /\ FlowsTyped'
  /\ \A t \in Session \ {s} :
       /\ life'[t] = life[t] /\ main'[t] = main[t] /\ stopper'[t] = stopper[t] /\ (t \in owns' <=> t \in owns)
       /\ step'[t] = step[t] /\ dial'[t] = dial[t] /\ halt'[t] = halt[t]
  /\ \A g \in Vm!Flow : dial'[s][g] \in {dial[s][g], None}
  /\ halt'[s][f] = "look"
  /\ \/ /\ life'[s] = life[s] /\ (s \in owns' <=> s \in owns) /\ step'[s] = step[s]
        /\ main'[s] = main[s] \/ (main[s] = "cleanup" /\ main'[s] = "failed")
     \/ main[s] \in {"ready", "failed"} /\ main'[s] = "gone" /\ life'[s] = "exited" /\ s \notin owns'

\* One stopByName() returns: to the boot flow, or to the stop's.
LEMMA VmHaltReturns ==
  ASSUME Vm!TypeOK, ~SettleTimesOut, OwnsItsBoot, NEW s \in Session, NEW f \in Vm!Flow, Vm!HaltReturns(s, f)
  PROVE  ReturnsFromHalt(s, f)
  <1>1. FlowsTyped
    BY DEF Vm!TypeOK, FlowsTyped, VmSteps
  <1>2. ASSUME halt' = [halt EXCEPT ![s][f] = "look"], dial' = [dial EXCEPT ![s][f] = None], step' = step
        PROVE  /\ FlowsTyped'
               /\ \A t \in Session \ {s} : step'[t] = step[t] /\ dial'[t] = dial[t] /\ halt'[t] = halt[t]
               /\ \A g \in Vm!Flow : dial'[s][g] \in {dial[s][g], None}
               /\ halt'[s][f] = "look"
    BY <1>1, <1>2 DEF FlowsTyped
  <1>3. CASE f = "main"
    <2>1. Vm!CleanedUp(s) /\ life' = life /\ life[s] = "alive"
      BY <1>3 DEF Vm!HaltReturns, Vm!CleanedUp, Vm!Alive
    <2>2. halt' = [halt EXCEPT ![s][f] = "look"] /\ dial' = [dial EXCEPT ![s][f] = None] /\ step' = step
      BY <2>1 DEF Vm!HaltReturns
    <2>3. Vm!SessionTypeOK'
      BY <2>1 DEF Vm!CleanedUp, Vm!Goto, Vm!ReleaseClaim, Vm!TypeOK, Vm!SessionTypeOK
    <2>4. /\ \A t \in Session \ {s} : main'[t] = main[t] /\ stopper'[t] = stopper[t] /\ (t \in owns' <=> t \in owns)
          /\ main[s] = "cleanup" /\ main'[s] = "failed" /\ (s \in owns' <=> s \in owns)
      BY <2>1 DEF Vm!CleanedUp, Vm!Goto, Vm!TypeOK, Vm!SessionTypeOK
    <2> QED
      BY <1>2, <2>1, <2>2, <2>3, <2>4 DEF ReturnsFromHalt
  <1>4. CASE f # "main" /\ Vm!Ends(s, "exited")
    <2>1. Vm!Stopped(s) /\ (life'[s] = "alive" \/ Vm!Memory(s))
      BY <1>4 DEF Vm!HaltReturns
    <2>2. /\ Vm!SessionTypeOK'
          /\ life'[s] = "exited" /\ main'[s] = "gone" /\ stopper'[s] = "no" /\ s \notin owns'
          /\ \A t \in Session \ {s} :
               life'[t] = life[t] /\ main'[t] = main[t] /\ stopper'[t] = stopper[t] /\ (t \in owns' <=> t \in owns)
      <3>1. PICK how \in {"exited", "killed"} : how = "exited"
        OBVIOUS
      <3>2. Vm!Ends(s, how)
        BY <1>4, <3>1
      <3> QED
        BY <3>1, <3>2, VmProcessEnds
    <2>3. main[s] \in {"ready", "failed"}
      BY <2>1, <2>2 DEF Vm!Stopped, OwnsItsBoot
    <2>4. Vm!Memory(s)
      BY <2>1, <2>2
    <2>5. /\ FlowsTyped'
          /\ \A t \in Session \ {s} : step'[t] = step[t] /\ dial'[t] = dial[t] /\ halt'[t] = halt[t]
          /\ life'[s] # "alive" => \A g \in Vm!Flow : dial'[s][g] = None /\ halt'[s][g] = "look"
      BY <2>4, VmForgets
    <2> QED
      BY <2>2, <2>3, <2>5 DEF ReturnsFromHalt
  <1>5. CASE f # "main" /\ ~Vm!Ends(s, "exited")
    <2>1. Vm!Stopped(s)
      BY <1>5 DEF Vm!HaltReturns
    <2>2. /\ stopper[s] = "stoppingBoot" /\ stopper' = [stopper EXCEPT ![s] = "settling"] /\ life[s] = "alive"
          /\ UNCHANGED <<life, main, waited, aborted, owns, claim>>
      BY <1>5, <2>1 DEF Vm!Stopped, Vm!Alive
    <2>3. Vm!SessionTypeOK'
      BY <2>2 DEF Vm!TypeOK, Vm!SessionTypeOK
    <2>4. halt' = [halt EXCEPT ![s][f] = "look"] /\ dial' = [dial EXCEPT ![s][f] = None] /\ step' = step
      BY <1>5, <2>2 DEF Vm!HaltReturns
    <2>5. \A t \in Session \ {s} : stopper'[t] = stopper[t]
      BY <2>2 DEF Vm!TypeOK, Vm!SessionTypeOK
    <2>6. /\ FlowsTyped'
          /\ \A t \in Session \ {s} : step'[t] = step[t] /\ dial'[t] = dial[t] /\ halt'[t] = halt[t]
          /\ \A g \in Vm!Flow : dial'[s][g] \in {dial[s][g], None}
          /\ halt'[s][f] = "look"
      BY <1>2, <2>4
    <2>7. UNCHANGED life /\ UNCHANGED main /\ UNCHANGED owns /\ UNCHANGED step
      BY <2>2, <2>4
    <2> QED
      BY <2>3, <2>5, <2>6, <2>7 DEF ReturnsFromHalt
  <1> QED
    BY <1>3, <1>4, <1>5

\* No new name comes into the run directory, or to who dials.
LearnsNothing ==
  /\ pidFile' \in {pidFile, None} /\ record' \in {record, None} /\ sockets' \in {sockets, None} /\ disk' \in {disk, None}
  /\ \A t \in Session : \A g \in Vm!Flow : dial'[t][g] \in {dial[t][g], None}
  /\ \A v \in Session : vm'[v] = "none" => vm[v] = "none"

LEMMA KnownStay ==
  ASSUME Vm!TypeOK, OnlySpawnedAreKnown, LearnsNothing
  PROVE  OnlySpawnedAreKnown'
  <1>1. \A v, w : w \in Session \cup {None} /\ Known(w) /\ v \in {w, None} => Known(v)'
    BY DEF LearnsNothing, Known
  <1>2. /\ pidFile \in Session \cup {None} /\ record \in Session \cup {None}
        /\ sockets \in Session \cup {None} /\ disk \in Session \cup {None}
        /\ \A t \in Session : \A g \in Vm!Flow : dial[t][g] \in Session \cup {None}
    BY DEF Vm!TypeOK
  <1>3. Known(pidFile)' /\ Known(record)' /\ Known(sockets)' /\ Known(disk)'
    BY <1>1, <1>2 DEF OnlySpawnedAreKnown, LearnsNothing, Known
  <1>4. ASSUME NEW t \in Session, NEW g \in Vm!Flow PROVE Known(dial[t][g])'
    BY <1>1, <1>2, <1>4 DEF OnlySpawnedAreKnown, LearnsNothing, Known
  <1> QED
    BY <1>3, <1>4 DEF OnlySpawnedAreKnown

\* A step after which no VM is up, and nobody boots, that was not before.
Quiet ==
  \A u \in Session :
    /\ life'[u] = "new" <=> life[u] = "new"
    /\ life'[u] = "killed" <=> life[u] = "killed"
    /\ Vm!Up(u)' => Vm!Up(u)
    /\ main'[u] = "boot" => main[u] = "boot" /\ step'[u] = step[u]

LEMMA QuietKeepsOne ==
  ASSUME BootsAlone, OneOfTwo, Quiet
  PROVE  BootsAlone' /\ OneOfTwo'
  <1>1. ASSUME NoKills' PROVE NoKills
    BY <1>1 DEF Quiet, NoKills
  <1>2. ASSUME NEW s \in Session, NEW t \in Session, OnlyTwo(s, t)' PROVE OnlyTwo(s, t)
    BY <1>2 DEF Quiet, OnlyTwo
  <1>3. BootsAlone'
    <2>1. SUFFICES ASSUME NEW s \in Session, NEW t \in Session, NoKills', s # t, OnlyTwo(s, t)',
                          main'[s] = "boot", step'[s] \in {"bundle", "spawn"}, Vm!Up(t)'
                   PROVE  FALSE
      BY DEF BootsAlone
    <2>2. NoKills /\ OnlyTwo(s, t) /\ Vm!Up(t) /\ main[s] = "boot" /\ step[s] \in {"bundle", "spawn"}
      BY <1>1, <1>2, <2>1 DEF Quiet
    <2> QED
      BY <2>1, <2>2 DEF BootsAlone
  <1>4. OneOfTwo'
    <2>1. SUFFICES ASSUME NEW s \in Session, NEW t \in Session, NoKills', s # t, OnlyTwo(s, t)', Vm!Up(s)', Vm!Up(t)'
                   PROVE  FALSE
      BY DEF OneOfTwo
    <2>2. NoKills /\ OnlyTwo(s, t) /\ Vm!Up(s) /\ Vm!Up(t)
      BY <1>1, <1>2, <2>1 DEF Quiet
    <2> QED
      BY <2>1, <2>2 DEF OneOfTwo
  <1> QED
    BY <1>3, <1>4

LEMMA VmTypesKept ==
  ASSUME VmAssumption, VmBase, Vm!Next
  PROVE  Vm!TypeOK'
  <1>0. ~SettleTimesOut /\ Vm!TypeOK /\ OwnsItsBoot
    BY DEF VmBase, VmAssumption
  <1>1. ASSUME NEW s \in Session, Vm!FindNothing(s) PROVE Vm!TypeOK'
    BY <1>0, <1>1
    DEF Vm!FindNothing, Vm!FindIdle, Vm!Dials, Vm!NothingThere, Vm!Stale, Vm!Named, Vm!Up, Vm!Looked, Vm!LookedAgain, Vm!Alive, Vm!Goto, Vm!ReleaseClaim, Vm!CleanRunDir, Vm!runDir, Vm!flows, Vm!session, Vm!TypeOK, Vm!SessionTypeOK, Vm!Flow
  <1>2. ASSUME NEW s \in Session, Vm!FindDials(s) PROVE Vm!TypeOK'
    BY <1>0, <1>2
    DEF Vm!FindDials, Vm!FindIdle, Vm!Dials, Vm!NothingThere, Vm!Stale, Vm!Named, Vm!Up, Vm!Alive, Vm!Goto, Vm!ReleaseClaim, Vm!CleanRunDir, Vm!runDir, Vm!flows, Vm!session, Vm!TypeOK, Vm!SessionTypeOK, Vm!Flow
  <1>3. ASSUME NEW s \in Session, Vm!FindEnds(s) PROVE Vm!TypeOK'
    BY <1>0, <1>3
    DEF Vm!FindEnds, Vm!Answers, Vm!Looked, Vm!LookedAgain, Vm!FindThrows, Vm!Alive, Vm!Goto, Vm!ReleaseClaim, Vm!CleanRunDir, Vm!runDir, Vm!flows, Vm!session, Vm!TypeOK, Vm!SessionTypeOK, Vm!Flow
  <1>4. ASSUME NEW s \in Session, Vm!Attach(s) PROVE Vm!TypeOK'
    BY <1>0, <1>4
    DEF Vm!Attach, Vm!Attached, Vm!Alive, Vm!Goto, Vm!ReleaseClaim, Vm!CleanRunDir, Vm!runDir, Vm!flows, Vm!session, Vm!TypeOK, Vm!SessionTypeOK, Vm!Flow
  <1>5. ASSUME NEW s \in Session, Vm!Poll(s) /\ UNCHANGED <<vm, Vm!runDir, Vm!flows>> PROVE Vm!TypeOK'
    BY <1>0, <1>5
    DEF Vm!Poll, Vm!Alive, Vm!Goto, Vm!ReleaseClaim, Vm!CleanRunDir, Vm!runDir, Vm!flows, Vm!session, Vm!TypeOK, Vm!SessionTypeOK, Vm!Flow
  <1>6. ASSUME NEW s \in Session, Vm!Bundle(s) PROVE Vm!TypeOK'
    BY <1>0, <1>6
    DEF Vm!Bundle, Vm!At, Vm!StepTo, Vm!Alive, Vm!Goto, Vm!ReleaseClaim, Vm!CleanRunDir, Vm!runDir, Vm!flows, Vm!session, Vm!TypeOK, Vm!SessionTypeOK, Vm!Flow
  <1>7. ASSUME NEW s \in Session, Vm!Spawn(s) PROVE Vm!TypeOK'
    BY <1>0, <1>7
    DEF Vm!Spawn, Vm!At, Vm!StepTo, Vm!Alive, Vm!Goto, Vm!ReleaseClaim, Vm!CleanRunDir, Vm!runDir, Vm!flows, Vm!session, Vm!TypeOK, Vm!SessionTypeOK, Vm!Flow
  <1>8. ASSUME NEW s \in Session, Vm!WriteRecord(s) PROVE Vm!TypeOK'
    BY <1>0, <1>8
    DEF Vm!WriteRecord, Vm!At, Vm!StepTo, Vm!Alive, Vm!Goto, Vm!ReleaseClaim, Vm!CleanRunDir, Vm!runDir, Vm!flows, Vm!session, Vm!TypeOK, Vm!SessionTypeOK, Vm!Flow
  <1>9. ASSUME NEW s \in Session, Vm!OpenControl(s) PROVE Vm!TypeOK'
    BY <1>0, <1>9
    DEF Vm!OpenControl, Vm!At, Vm!StepTo, Vm!Answers, Vm!Alive, Vm!Goto, Vm!ReleaseClaim, Vm!CleanRunDir, Vm!runDir, Vm!flows, Vm!session, Vm!TypeOK, Vm!SessionTypeOK, Vm!Flow
  <1>10. ASSUME NEW s \in Session, Vm!AppsReady(s) PROVE Vm!TypeOK'
    BY <1>0, <1>10
    DEF Vm!AppsReady, Vm!At, Vm!StepTo, Vm!Alive, Vm!Goto, Vm!ReleaseClaim, Vm!CleanRunDir, Vm!runDir, Vm!flows, Vm!session, Vm!TypeOK, Vm!SessionTypeOK, Vm!Flow
  <1>11. ASSUME NEW s \in Session, Vm!Connect(s) PROVE Vm!TypeOK'
    BY <1>0, <1>11
    DEF Vm!Connect, Vm!At, Vm!Booted, Vm!Alive, Vm!Goto, Vm!ReleaseClaim, Vm!CleanRunDir, Vm!runDir, Vm!flows, Vm!session, Vm!TypeOK, Vm!SessionTypeOK, Vm!Flow
  <1>12. ASSUME NEW s \in Session, Vm!BootFails(s) PROVE Vm!TypeOK'
    BY <1>0, <1>12
    DEF Vm!BootFails, Vm!BootThrows, Vm!Alive, Vm!Goto, Vm!ReleaseClaim, Vm!CleanRunDir, Vm!runDir, Vm!flows, Vm!session, Vm!TypeOK, Vm!SessionTypeOK, Vm!Flow
  <1>13. ASSUME NEW s \in Session, Vm!StartFails(s) PROVE Vm!TypeOK'
    BY <1>0, <1>13
    DEF Vm!StartFails, Vm!At, Vm!StepTo, Vm!Alive, Vm!Goto, Vm!ReleaseClaim, Vm!CleanRunDir, Vm!runDir, Vm!flows, Vm!session, Vm!TypeOK, Vm!SessionTypeOK, Vm!Flow
  <1>14. ASSUME NEW s \in Session, Vm!Undo(s) PROVE Vm!TypeOK'
    BY <1>0, <1>14
    DEF Vm!Undo, Vm!At, Vm!BootThrows, Vm!Alive, Vm!Goto, Vm!ReleaseClaim, Vm!CleanRunDir, Vm!runDir, Vm!flows, Vm!session, Vm!TypeOK, Vm!SessionTypeOK, Vm!Flow
  <1>15. ASSUME NEW s \in Session, NEW f \in Vm!Flow, Vm!HaltNothing(s, f) PROVE Vm!TypeOK'
    <2> DEFINE R == Vm!HaltReturns(s, f)
    <2>1. CASE R
      <3>1. ReturnsFromHalt(s, f)
        BY <1>0, <2>1, VmHaltReturns
      <3> QED
        BY <1>0, <1>15, <3>1
        DEF Vm!HaltNothing, Vm!CleanRunDir, Vm!runDir, ReturnsFromHalt, FlowsTyped, VmSteps, Vm!TypeOK, Vm!SessionTypeOK, Vm!Flow
    <2>2. CASE ~R
      BY <1>0, <1>15, <2>2
      DEF Vm!HaltNothing, Vm!runDir, Vm!session, Vm!TypeOK, Vm!SessionTypeOK, Vm!Flow
    <2> QED
      BY <2>1, <2>2
  <1>16. ASSUME NEW s \in Session, NEW f \in Vm!Flow, Vm!HaltDials(s, f) PROVE Vm!TypeOK'
    BY <1>0, <1>16
    DEF Vm!HaltDials, Vm!Dials, Vm!NothingThere, Vm!Stale, Vm!Named, Vm!Up, Vm!HaltAt, Vm!Halting, Vm!Alive, Vm!Goto, Vm!ReleaseClaim, Vm!CleanRunDir, Vm!runDir, Vm!flows, Vm!session, Vm!TypeOK, Vm!SessionTypeOK, Vm!Flow
  <1>17. ASSUME NEW s \in Session, NEW f \in Vm!Flow, Vm!HaltDialled(s, f) PROVE Vm!TypeOK'
    <2> DEFINE R == Vm!HaltReturns(s, f)
    <2>1. CASE R
      <3>1. ReturnsFromHalt(s, f)
        BY <1>0, <2>1, VmHaltReturns
      <3> QED
        BY <1>0, <1>17, <3>1
        DEF Vm!HaltDialled, Vm!Answers, Vm!Up, Vm!CleanRunDir, Vm!runDir, ReturnsFromHalt, FlowsTyped, VmSteps, Vm!TypeOK, Vm!SessionTypeOK, Vm!Flow
    <2>2. CASE ~R
      <3>1. halt' = [halt EXCEPT ![s][f] = "stop"] /\ UNCHANGED <<Vm!session, vm, Vm!runDir, step, dial>>
        BY <1>17, <2>2 DEF Vm!HaltDialled
      <3>2. halt' \in [Session -> [Vm!Flow -> {"look", "dial", "stop"}]]
        BY <1>0, <1>17, <3>1 DEF Vm!TypeOK
      <3> QED
        BY <1>0, <3>1, <3>2 DEF Vm!TypeOK, Vm!SessionTypeOK, Vm!session, Vm!runDir
    <2> QED
      BY <2>1, <2>2
  <1>18. ASSUME NEW s \in Session, NEW f \in Vm!Flow, Vm!HaltStop(s, f) PROVE Vm!TypeOK'
    <2> DEFINE R == Vm!HaltReturns(s, f)
    <2>1. CASE R
      <3>1. ReturnsFromHalt(s, f)
        BY <1>0, <2>1, VmHaltReturns
      <3> QED
        BY <1>0, <1>18, <3>1
        DEF Vm!HaltStop, Vm!HaltAt, Vm!Halting, Vm!CleanRunDir, Vm!runDir, ReturnsFromHalt, FlowsTyped, VmSteps, Vm!TypeOK, Vm!SessionTypeOK, Vm!Flow
    <2>2. CASE ~R
      BY <1>0, <1>18, <2>2
      DEF Vm!HaltStop, Vm!HaltAt, Vm!Halting, Vm!runDir, Vm!session, Vm!TypeOK, Vm!SessionTypeOK, Vm!Flow
    <2> QED
      BY <2>1, <2>2
  <1>19. ASSUME NEW s \in Session, Vm!Begin(s) /\ Vm!Memory(s) /\ UNCHANGED <<vm, Vm!runDir>> PROVE Vm!TypeOK'
    BY <1>0, <1>19
    DEF Vm!Begin, Vm!Memory, Vm!Alive, Vm!Goto, Vm!ReleaseClaim, Vm!CleanRunDir, Vm!runDir, Vm!flows, Vm!session, Vm!TypeOK, Vm!SessionTypeOK, Vm!Flow
  <1>20. ASSUME NEW s \in Session, Vm!Stop(s) /\ Vm!Memory(s) /\ UNCHANGED <<vm, Vm!runDir>> PROVE Vm!TypeOK'
    <2>1. PICK how \in {"exited", "killed"} : how = "exited"
      OBVIOUS
    <2>2. CASE Vm!Ends(s, how)
      <3>1. /\ Vm!SessionTypeOK'
            /\ life'[s] = how /\ main'[s] = "gone" /\ stopper'[s] = "no" /\ s \notin owns'
            /\ \A t \in Session \ {s} :
                 life'[t] = life[t] /\ main'[t] = main[t] /\ stopper'[t] = stopper[t] /\ (t \in owns' <=> t \in owns)
        BY <1>0, <2>2, VmProcessEnds
      <3>2. /\ FlowsTyped'
            /\ \A t \in Session \ {s} : step'[t] = step[t] /\ dial'[t] = dial[t] /\ halt'[t] = halt[t]
            /\ life'[s] # "alive" => \A f \in Vm!Flow : dial'[s][f] = None /\ halt'[s][f] = "look"
        BY <1>0, <1>20, VmForgets
      <3> QED
        BY <1>0, <1>20, <2>1, <3>1, <3>2 DEF Vm!runDir, FlowsTyped, VmSteps, Vm!TypeOK, Vm!SessionTypeOK, Vm!Flow
    <2>3. CASE ~Vm!Ends(s, how)
      BY <1>0, <1>20, <2>1, <2>3 DEF Vm!Stop, Vm!Alive, Vm!Memory, Vm!flows, Vm!runDir, Vm!TypeOK, Vm!SessionTypeOK, Vm!Flow
    <2> QED
      BY <2>2, <2>3
  <1>21. ASSUME NEW s \in Session, Vm!BootSettles(s) /\ Vm!Memory(s) /\ UNCHANGED <<vm, Vm!runDir>> PROVE Vm!TypeOK'
    BY <1>0, <1>21
    DEF Vm!BootSettles, Vm!Memory, Vm!Alive, Vm!Goto, Vm!ReleaseClaim, Vm!CleanRunDir, Vm!runDir, Vm!flows, Vm!session, Vm!TypeOK, Vm!SessionTypeOK, Vm!Flow
  <1>22. ASSUME NEW s \in Session, Vm!Kill(s) /\ Vm!Memory(s) /\ UNCHANGED <<vm, Vm!runDir>> PROVE Vm!TypeOK'
    <2>1. PICK how \in {"exited", "killed"} : how = "killed"
      OBVIOUS
    <2>2. CASE Vm!Ends(s, how)
      <3>1. /\ Vm!SessionTypeOK'
            /\ life'[s] = how /\ main'[s] = "gone" /\ stopper'[s] = "no" /\ s \notin owns'
            /\ \A t \in Session \ {s} :
                 life'[t] = life[t] /\ main'[t] = main[t] /\ stopper'[t] = stopper[t] /\ (t \in owns' <=> t \in owns)
        BY <1>0, <2>2, VmProcessEnds
      <3>2. /\ FlowsTyped'
            /\ \A t \in Session \ {s} : step'[t] = step[t] /\ dial'[t] = dial[t] /\ halt'[t] = halt[t]
            /\ life'[s] # "alive" => \A f \in Vm!Flow : dial'[s][f] = None /\ halt'[s][f] = "look"
        BY <1>0, <1>22, VmForgets
      <3> QED
        BY <1>0, <1>22, <2>1, <3>1, <3>2 DEF Vm!runDir, FlowsTyped, VmSteps, Vm!TypeOK, Vm!SessionTypeOK, Vm!Flow
    <2>3. CASE ~Vm!Ends(s, how)
      BY <1>0, <1>22, <2>1, <2>3 DEF Vm!Kill, Vm!Alive, Vm!Memory, Vm!flows, Vm!runDir, Vm!TypeOK, Vm!SessionTypeOK, Vm!Flow
    <2> QED
      BY <2>2, <2>3
  <1>23. ASSUME NEW s \in Session, Vm!VmMeasures(s) PROVE Vm!TypeOK'
    BY <1>0, <1>23
    DEF Vm!VmMeasures, Vm!Alive, Vm!Goto, Vm!ReleaseClaim, Vm!CleanRunDir, Vm!runDir, Vm!flows, Vm!session, Vm!TypeOK, Vm!SessionTypeOK, Vm!Flow
  <1>24. ASSUME NEW s \in Session, Vm!VmServes(s) PROVE Vm!TypeOK'
    BY <1>0, <1>24
    DEF Vm!VmServes, Vm!Alive, Vm!Goto, Vm!ReleaseClaim, Vm!CleanRunDir, Vm!runDir, Vm!flows, Vm!session, Vm!TypeOK, Vm!SessionTypeOK, Vm!Flow
  <1>25. ASSUME NEW s \in Session, Vm!VmExits(s) PROVE Vm!TypeOK'
    BY <1>0, <1>25
    DEF Vm!VmExits, Vm!Up, Vm!Alive, Vm!Goto, Vm!ReleaseClaim, Vm!CleanRunDir, Vm!runDir, Vm!flows, Vm!session, Vm!TypeOK, Vm!SessionTypeOK, Vm!Flow
  <1> QED
    BY <1>1, <1>2, <1>3, <1>4, <1>5, <1>6, <1>7, <1>8, <1>9, <1>10, <1>11, <1>12, <1>13, <1>14, <1>15, <1>16, <1>17, <1>18, <1>19, <1>20, <1>21, <1>22, <1>23, <1>24, <1>25 DEF Vm!Next, Vm!Steps, Vm!Halts

LEMMA VmSessionsKept ==
  ASSUME VmAssumption, VmBase, Vm!Next
  PROVE  HasClaim' /\ OwnsItsBoot' /\ SpawnedOnce'
  <1>0. None \notin Session /\ ~SettleTimesOut /\ Vm!TypeOK /\ HasClaim /\ OwnsItsBoot /\ SpawnedOnce /\ OnlySpawnedAreKnown /\ HaltsDialled
    BY DEF VmBase, VmAssumption
  <1>1. ASSUME NEW s \in Session, Vm!FindNothing(s) PROVE HasClaim' /\ OwnsItsBoot' /\ SpawnedOnce'
    <2>1. HasClaim'
      BY <1>0, <1>1
      DEF Vm!FindNothing, Vm!FindIdle, Vm!Dials, Vm!NothingThere, Vm!Stale, Vm!Named, Vm!Up, Vm!Looked, Vm!LookedAgain, Vm!Alive, Vm!Goto, Vm!ReleaseClaim, Vm!CleanRunDir, Vm!runDir, Vm!flows, Vm!session, Vm!TypeOK, Vm!SessionTypeOK, Vm!Flow, HasClaim, OwnsItsBoot, Vm!Settled
    <2>2. OwnsItsBoot'
      BY <1>0, <1>1
      DEF Vm!FindNothing, Vm!FindIdle, Vm!Dials, Vm!NothingThere, Vm!Stale, Vm!Named, Vm!Up, Vm!Looked, Vm!LookedAgain, Vm!Alive, Vm!Goto, Vm!ReleaseClaim, Vm!CleanRunDir, Vm!runDir, Vm!flows, Vm!session, Vm!TypeOK, Vm!SessionTypeOK, Vm!Flow, OwnsItsBoot, Vm!Settled
    <2>3. SpawnedOnce'
      BY <1>0, <1>1
      DEF Vm!FindNothing, Vm!FindIdle, Vm!Dials, Vm!NothingThere, Vm!Stale, Vm!Named, Vm!Up, Vm!Looked, Vm!LookedAgain, Vm!Alive, Vm!Goto, Vm!ReleaseClaim, Vm!CleanRunDir, Vm!runDir, Vm!flows, Vm!session, Vm!TypeOK, Vm!SessionTypeOK, Vm!Flow, SpawnedOnce, OwnsItsBoot, HasClaim
    <2> QED
      BY <2>1, <2>2, <2>3
  <1>2. ASSUME NEW s \in Session, Vm!FindDials(s) PROVE HasClaim' /\ OwnsItsBoot' /\ SpawnedOnce'
    <2>1. HasClaim'
      BY <1>0, <1>2
      DEF Vm!FindDials, Vm!FindIdle, Vm!Dials, Vm!NothingThere, Vm!Stale, Vm!Named, Vm!Up, Vm!Alive, Vm!Goto, Vm!ReleaseClaim, Vm!CleanRunDir, Vm!runDir, Vm!flows, Vm!session, Vm!TypeOK, Vm!SessionTypeOK, Vm!Flow, HasClaim, OwnsItsBoot, Vm!Settled
    <2>2. OwnsItsBoot'
      BY <1>0, <1>2
      DEF Vm!FindDials, Vm!FindIdle, Vm!Dials, Vm!NothingThere, Vm!Stale, Vm!Named, Vm!Up, Vm!Alive, Vm!Goto, Vm!ReleaseClaim, Vm!CleanRunDir, Vm!runDir, Vm!flows, Vm!session, Vm!TypeOK, Vm!SessionTypeOK, Vm!Flow, OwnsItsBoot, Vm!Settled
    <2>3. SpawnedOnce'
      BY <1>0, <1>2
      DEF Vm!FindDials, Vm!FindIdle, Vm!Dials, Vm!NothingThere, Vm!Stale, Vm!Named, Vm!Up, Vm!Alive, Vm!Goto, Vm!ReleaseClaim, Vm!CleanRunDir, Vm!runDir, Vm!flows, Vm!session, Vm!TypeOK, Vm!SessionTypeOK, Vm!Flow, SpawnedOnce, OwnsItsBoot, HasClaim
    <2> QED
      BY <2>1, <2>2, <2>3
  <1>3. ASSUME NEW s \in Session, Vm!FindEnds(s) PROVE HasClaim' /\ OwnsItsBoot' /\ SpawnedOnce'
    <2>1. HasClaim'
      BY <1>0, <1>3
      DEF Vm!FindEnds, Vm!Answers, Vm!Looked, Vm!LookedAgain, Vm!FindThrows, Vm!Alive, Vm!Goto, Vm!ReleaseClaim, Vm!CleanRunDir, Vm!runDir, Vm!flows, Vm!session, Vm!TypeOK, Vm!SessionTypeOK, Vm!Flow, HasClaim, OwnsItsBoot, Vm!Settled
    <2>2. OwnsItsBoot'
      BY <1>0, <1>3
      DEF Vm!FindEnds, Vm!Answers, Vm!Looked, Vm!LookedAgain, Vm!FindThrows, Vm!Alive, Vm!Goto, Vm!ReleaseClaim, Vm!CleanRunDir, Vm!runDir, Vm!flows, Vm!session, Vm!TypeOK, Vm!SessionTypeOK, Vm!Flow, OwnsItsBoot, Vm!Settled
    <2>3. SpawnedOnce'
      BY <1>0, <1>3
      DEF Vm!FindEnds, Vm!Answers, Vm!Looked, Vm!LookedAgain, Vm!FindThrows, Vm!Alive, Vm!Goto, Vm!ReleaseClaim, Vm!CleanRunDir, Vm!runDir, Vm!flows, Vm!session, Vm!TypeOK, Vm!SessionTypeOK, Vm!Flow, SpawnedOnce, OwnsItsBoot, HasClaim
    <2> QED
      BY <2>1, <2>2, <2>3
  <1>4. ASSUME NEW s \in Session, Vm!Attach(s) PROVE HasClaim' /\ OwnsItsBoot' /\ SpawnedOnce'
    <2>1. HasClaim'
      BY <1>0, <1>4
      DEF Vm!Attach, Vm!Attached, Vm!Alive, Vm!Goto, Vm!ReleaseClaim, Vm!CleanRunDir, Vm!runDir, Vm!flows, Vm!session, Vm!TypeOK, Vm!SessionTypeOK, Vm!Flow, HasClaim, OwnsItsBoot, Vm!Settled
    <2>2. OwnsItsBoot'
      BY <1>0, <1>4
      DEF Vm!Attach, Vm!Attached, Vm!Alive, Vm!Goto, Vm!ReleaseClaim, Vm!CleanRunDir, Vm!runDir, Vm!flows, Vm!session, Vm!TypeOK, Vm!SessionTypeOK, Vm!Flow, OwnsItsBoot, Vm!Settled
    <2>3. SpawnedOnce'
      BY <1>0, <1>4
      DEF Vm!Attach, Vm!Attached, Vm!Alive, Vm!Goto, Vm!ReleaseClaim, Vm!CleanRunDir, Vm!runDir, Vm!flows, Vm!session, Vm!TypeOK, Vm!SessionTypeOK, Vm!Flow, SpawnedOnce, OwnsItsBoot, HasClaim
    <2> QED
      BY <2>1, <2>2, <2>3
  <1>5. ASSUME NEW s \in Session, Vm!Poll(s) /\ UNCHANGED <<vm, Vm!runDir, Vm!flows>> PROVE HasClaim' /\ OwnsItsBoot' /\ SpawnedOnce'
    <2>1. HasClaim'
      BY <1>0, <1>5
      DEF Vm!Poll, Vm!Alive, Vm!Goto, Vm!ReleaseClaim, Vm!CleanRunDir, Vm!runDir, Vm!flows, Vm!session, Vm!TypeOK, Vm!SessionTypeOK, Vm!Flow, HasClaim, OwnsItsBoot, Vm!Settled
    <2>2. OwnsItsBoot'
      BY <1>0, <1>5
      DEF Vm!Poll, Vm!Alive, Vm!Goto, Vm!ReleaseClaim, Vm!CleanRunDir, Vm!runDir, Vm!flows, Vm!session, Vm!TypeOK, Vm!SessionTypeOK, Vm!Flow, OwnsItsBoot, Vm!Settled
    <2>3. SpawnedOnce'
      BY <1>0, <1>5
      DEF Vm!Poll, Vm!Alive, Vm!Goto, Vm!ReleaseClaim, Vm!CleanRunDir, Vm!runDir, Vm!flows, Vm!session, Vm!TypeOK, Vm!SessionTypeOK, Vm!Flow, SpawnedOnce, OwnsItsBoot, HasClaim
    <2> QED
      BY <2>1, <2>2, <2>3
  <1>6. ASSUME NEW s \in Session, Vm!Bundle(s) PROVE HasClaim' /\ OwnsItsBoot' /\ SpawnedOnce'
    <2>1. HasClaim'
      BY <1>0, <1>6
      DEF Vm!Bundle, Vm!At, Vm!StepTo, Vm!Alive, Vm!Goto, Vm!ReleaseClaim, Vm!CleanRunDir, Vm!runDir, Vm!flows, Vm!session, Vm!TypeOK, Vm!SessionTypeOK, Vm!Flow, HasClaim, OwnsItsBoot, Vm!Settled
    <2>2. OwnsItsBoot'
      BY <1>0, <1>6
      DEF Vm!Bundle, Vm!At, Vm!StepTo, Vm!Alive, Vm!Goto, Vm!ReleaseClaim, Vm!CleanRunDir, Vm!runDir, Vm!flows, Vm!session, Vm!TypeOK, Vm!SessionTypeOK, Vm!Flow, OwnsItsBoot, Vm!Settled
    <2>3. SpawnedOnce'
      BY <1>0, <1>6
      DEF Vm!Bundle, Vm!At, Vm!StepTo, Vm!Alive, Vm!Goto, Vm!ReleaseClaim, Vm!CleanRunDir, Vm!runDir, Vm!flows, Vm!session, Vm!TypeOK, Vm!SessionTypeOK, Vm!Flow, SpawnedOnce, OwnsItsBoot, HasClaim
    <2> QED
      BY <2>1, <2>2, <2>3
  <1>7. ASSUME NEW s \in Session, Vm!Spawn(s) PROVE HasClaim' /\ OwnsItsBoot' /\ SpawnedOnce'
    <2>1. HasClaim'
      BY <1>0, <1>7
      DEF Vm!Spawn, Vm!At, Vm!StepTo, Vm!Alive, Vm!Goto, Vm!ReleaseClaim, Vm!CleanRunDir, Vm!runDir, Vm!flows, Vm!session, Vm!TypeOK, Vm!SessionTypeOK, Vm!Flow, HasClaim, OwnsItsBoot, Vm!Settled
    <2>2. OwnsItsBoot'
      BY <1>0, <1>7
      DEF Vm!Spawn, Vm!At, Vm!StepTo, Vm!Alive, Vm!Goto, Vm!ReleaseClaim, Vm!CleanRunDir, Vm!runDir, Vm!flows, Vm!session, Vm!TypeOK, Vm!SessionTypeOK, Vm!Flow, OwnsItsBoot, Vm!Settled
    <2>3. SpawnedOnce'
      BY <1>0, <1>7
      DEF Vm!Spawn, Vm!At, Vm!StepTo, Vm!Alive, Vm!Goto, Vm!ReleaseClaim, Vm!CleanRunDir, Vm!runDir, Vm!flows, Vm!session, Vm!TypeOK, Vm!SessionTypeOK, Vm!Flow, SpawnedOnce, OwnsItsBoot, HasClaim
    <2> QED
      BY <2>1, <2>2, <2>3
  <1>8. ASSUME NEW s \in Session, Vm!WriteRecord(s) PROVE HasClaim' /\ OwnsItsBoot' /\ SpawnedOnce'
    <2>1. HasClaim'
      BY <1>0, <1>8
      DEF Vm!WriteRecord, Vm!At, Vm!StepTo, Vm!Alive, Vm!Goto, Vm!ReleaseClaim, Vm!CleanRunDir, Vm!runDir, Vm!flows, Vm!session, Vm!TypeOK, Vm!SessionTypeOK, Vm!Flow, HasClaim, OwnsItsBoot, Vm!Settled
    <2>2. OwnsItsBoot'
      BY <1>0, <1>8
      DEF Vm!WriteRecord, Vm!At, Vm!StepTo, Vm!Alive, Vm!Goto, Vm!ReleaseClaim, Vm!CleanRunDir, Vm!runDir, Vm!flows, Vm!session, Vm!TypeOK, Vm!SessionTypeOK, Vm!Flow, OwnsItsBoot, Vm!Settled
    <2>3. SpawnedOnce'
      BY <1>0, <1>8
      DEF Vm!WriteRecord, Vm!At, Vm!StepTo, Vm!Alive, Vm!Goto, Vm!ReleaseClaim, Vm!CleanRunDir, Vm!runDir, Vm!flows, Vm!session, Vm!TypeOK, Vm!SessionTypeOK, Vm!Flow, SpawnedOnce, OwnsItsBoot, HasClaim
    <2> QED
      BY <2>1, <2>2, <2>3
  <1>9. ASSUME NEW s \in Session, Vm!OpenControl(s) PROVE HasClaim' /\ OwnsItsBoot' /\ SpawnedOnce'
    <2>1. HasClaim'
      BY <1>0, <1>9
      DEF Vm!OpenControl, Vm!At, Vm!StepTo, Vm!Answers, Vm!Alive, Vm!Goto, Vm!ReleaseClaim, Vm!CleanRunDir, Vm!runDir, Vm!flows, Vm!session, Vm!TypeOK, Vm!SessionTypeOK, Vm!Flow, HasClaim, OwnsItsBoot, Vm!Settled
    <2>2. OwnsItsBoot'
      BY <1>0, <1>9
      DEF Vm!OpenControl, Vm!At, Vm!StepTo, Vm!Answers, Vm!Alive, Vm!Goto, Vm!ReleaseClaim, Vm!CleanRunDir, Vm!runDir, Vm!flows, Vm!session, Vm!TypeOK, Vm!SessionTypeOK, Vm!Flow, OwnsItsBoot, Vm!Settled
    <2>3. SpawnedOnce'
      BY <1>0, <1>9
      DEF Vm!OpenControl, Vm!At, Vm!StepTo, Vm!Answers, Vm!Alive, Vm!Goto, Vm!ReleaseClaim, Vm!CleanRunDir, Vm!runDir, Vm!flows, Vm!session, Vm!TypeOK, Vm!SessionTypeOK, Vm!Flow, SpawnedOnce, OwnsItsBoot, HasClaim
    <2> QED
      BY <2>1, <2>2, <2>3
  <1>10. ASSUME NEW s \in Session, Vm!AppsReady(s) PROVE HasClaim' /\ OwnsItsBoot' /\ SpawnedOnce'
    <2>1. HasClaim'
      BY <1>0, <1>10
      DEF Vm!AppsReady, Vm!At, Vm!StepTo, Vm!Alive, Vm!Goto, Vm!ReleaseClaim, Vm!CleanRunDir, Vm!runDir, Vm!flows, Vm!session, Vm!TypeOK, Vm!SessionTypeOK, Vm!Flow, HasClaim, OwnsItsBoot, Vm!Settled
    <2>2. OwnsItsBoot'
      BY <1>0, <1>10
      DEF Vm!AppsReady, Vm!At, Vm!StepTo, Vm!Alive, Vm!Goto, Vm!ReleaseClaim, Vm!CleanRunDir, Vm!runDir, Vm!flows, Vm!session, Vm!TypeOK, Vm!SessionTypeOK, Vm!Flow, OwnsItsBoot, Vm!Settled
    <2>3. SpawnedOnce'
      BY <1>0, <1>10
      DEF Vm!AppsReady, Vm!At, Vm!StepTo, Vm!Alive, Vm!Goto, Vm!ReleaseClaim, Vm!CleanRunDir, Vm!runDir, Vm!flows, Vm!session, Vm!TypeOK, Vm!SessionTypeOK, Vm!Flow, SpawnedOnce, OwnsItsBoot, HasClaim
    <2> QED
      BY <2>1, <2>2, <2>3
  <1>11. ASSUME NEW s \in Session, Vm!Connect(s) PROVE HasClaim' /\ OwnsItsBoot' /\ SpawnedOnce'
    <2>1. HasClaim'
      BY <1>0, <1>11
      DEF Vm!Connect, Vm!At, Vm!Booted, Vm!Alive, Vm!Goto, Vm!ReleaseClaim, Vm!CleanRunDir, Vm!runDir, Vm!flows, Vm!session, Vm!TypeOK, Vm!SessionTypeOK, Vm!Flow, HasClaim, OwnsItsBoot, Vm!Settled
    <2>2. OwnsItsBoot'
      BY <1>0, <1>11
      DEF Vm!Connect, Vm!At, Vm!Booted, Vm!Alive, Vm!Goto, Vm!ReleaseClaim, Vm!CleanRunDir, Vm!runDir, Vm!flows, Vm!session, Vm!TypeOK, Vm!SessionTypeOK, Vm!Flow, OwnsItsBoot, Vm!Settled
    <2>3. SpawnedOnce'
      BY <1>0, <1>11
      DEF Vm!Connect, Vm!At, Vm!Booted, Vm!Alive, Vm!Goto, Vm!ReleaseClaim, Vm!CleanRunDir, Vm!runDir, Vm!flows, Vm!session, Vm!TypeOK, Vm!SessionTypeOK, Vm!Flow, SpawnedOnce, OwnsItsBoot, HasClaim
    <2> QED
      BY <2>1, <2>2, <2>3
  <1>12. ASSUME NEW s \in Session, Vm!BootFails(s) PROVE HasClaim' /\ OwnsItsBoot' /\ SpawnedOnce'
    <2>1. HasClaim'
      BY <1>0, <1>12
      DEF Vm!BootFails, Vm!BootThrows, Vm!Alive, Vm!Goto, Vm!ReleaseClaim, Vm!CleanRunDir, Vm!runDir, Vm!flows, Vm!session, Vm!TypeOK, Vm!SessionTypeOK, Vm!Flow, HasClaim, OwnsItsBoot, Vm!Settled
    <2>2. OwnsItsBoot'
      BY <1>0, <1>12
      DEF Vm!BootFails, Vm!BootThrows, Vm!Alive, Vm!Goto, Vm!ReleaseClaim, Vm!CleanRunDir, Vm!runDir, Vm!flows, Vm!session, Vm!TypeOK, Vm!SessionTypeOK, Vm!Flow, OwnsItsBoot, Vm!Settled
    <2>3. SpawnedOnce'
      BY <1>0, <1>12
      DEF Vm!BootFails, Vm!BootThrows, Vm!Alive, Vm!Goto, Vm!ReleaseClaim, Vm!CleanRunDir, Vm!runDir, Vm!flows, Vm!session, Vm!TypeOK, Vm!SessionTypeOK, Vm!Flow, SpawnedOnce, OwnsItsBoot, HasClaim
    <2> QED
      BY <2>1, <2>2, <2>3
  <1>13. ASSUME NEW s \in Session, Vm!StartFails(s) PROVE HasClaim' /\ OwnsItsBoot' /\ SpawnedOnce'
    <2>1. HasClaim'
      BY <1>0, <1>13
      DEF Vm!StartFails, Vm!At, Vm!StepTo, Vm!Alive, Vm!Goto, Vm!ReleaseClaim, Vm!CleanRunDir, Vm!runDir, Vm!flows, Vm!session, Vm!TypeOK, Vm!SessionTypeOK, Vm!Flow, HasClaim, OwnsItsBoot, Vm!Settled
    <2>2. OwnsItsBoot'
      BY <1>0, <1>13
      DEF Vm!StartFails, Vm!At, Vm!StepTo, Vm!Alive, Vm!Goto, Vm!ReleaseClaim, Vm!CleanRunDir, Vm!runDir, Vm!flows, Vm!session, Vm!TypeOK, Vm!SessionTypeOK, Vm!Flow, OwnsItsBoot, Vm!Settled
    <2>3. SpawnedOnce'
      BY <1>0, <1>13
      DEF Vm!StartFails, Vm!At, Vm!StepTo, Vm!Alive, Vm!Goto, Vm!ReleaseClaim, Vm!CleanRunDir, Vm!runDir, Vm!flows, Vm!session, Vm!TypeOK, Vm!SessionTypeOK, Vm!Flow, SpawnedOnce, OwnsItsBoot, HasClaim
    <2> QED
      BY <2>1, <2>2, <2>3
  <1>14. ASSUME NEW s \in Session, Vm!Undo(s) PROVE HasClaim' /\ OwnsItsBoot' /\ SpawnedOnce'
    <2>1. HasClaim'
      BY <1>0, <1>14
      DEF Vm!Undo, Vm!At, Vm!BootThrows, Vm!Alive, Vm!Goto, Vm!ReleaseClaim, Vm!CleanRunDir, Vm!runDir, Vm!flows, Vm!session, Vm!TypeOK, Vm!SessionTypeOK, Vm!Flow, HasClaim, OwnsItsBoot, Vm!Settled
    <2>2. OwnsItsBoot'
      BY <1>0, <1>14
      DEF Vm!Undo, Vm!At, Vm!BootThrows, Vm!Alive, Vm!Goto, Vm!ReleaseClaim, Vm!CleanRunDir, Vm!runDir, Vm!flows, Vm!session, Vm!TypeOK, Vm!SessionTypeOK, Vm!Flow, OwnsItsBoot, Vm!Settled
    <2>3. SpawnedOnce'
      BY <1>0, <1>14
      DEF Vm!Undo, Vm!At, Vm!BootThrows, Vm!Alive, Vm!Goto, Vm!ReleaseClaim, Vm!CleanRunDir, Vm!runDir, Vm!flows, Vm!session, Vm!TypeOK, Vm!SessionTypeOK, Vm!Flow, SpawnedOnce, OwnsItsBoot, HasClaim
    <2> QED
      BY <2>1, <2>2, <2>3
  <1>15. ASSUME NEW s \in Session, NEW f \in Vm!Flow, Vm!HaltNothing(s, f) PROVE HasClaim' /\ OwnsItsBoot' /\ SpawnedOnce'
    <2>1. HasClaim'
      BY <1>0, <1>15
      DEF Vm!HaltNothing, Vm!Dials, Vm!NothingThere, Vm!Stale, Vm!Named, Vm!Up, Vm!HaltAt, Vm!Halting, Vm!HaltReturns, Vm!CleanedUp, Vm!Stopped, Vm!Ends, Vm!Memory, Vm!Alive, Vm!Goto, Vm!ReleaseClaim, Vm!CleanRunDir, Vm!runDir, Vm!flows, Vm!session, Vm!TypeOK, Vm!SessionTypeOK, Vm!Flow, HasClaim, OwnsItsBoot, Vm!Settled
    <2>2. OwnsItsBoot'
      BY <1>0, <1>15
      DEF Vm!HaltNothing, Vm!Dials, Vm!NothingThere, Vm!Stale, Vm!Named, Vm!Up, Vm!HaltAt, Vm!Halting, Vm!HaltReturns, Vm!CleanedUp, Vm!Stopped, Vm!Ends, Vm!Memory, Vm!Alive, Vm!Goto, Vm!ReleaseClaim, Vm!CleanRunDir, Vm!runDir, Vm!flows, Vm!session, Vm!TypeOK, Vm!SessionTypeOK, Vm!Flow, OwnsItsBoot, Vm!Settled
    <2>3. SpawnedOnce'
      <3> DEFINE R == Vm!HaltReturns(s, f)
      <3>1. CASE R
        <4>1. ReturnsFromHalt(s, f)
          BY <1>0, <3>1, VmHaltReturns
        <4> QED
          BY <1>0, <1>15, <4>1
          DEF Vm!HaltNothing, Vm!CleanRunDir, Vm!runDir, ReturnsFromHalt, FlowsTyped, VmSteps, Vm!TypeOK, Vm!SessionTypeOK, Vm!Flow, SpawnedOnce, OwnsItsBoot, HasClaim, HaltsDialled, OnlySpawnedAreKnown, Known
      <3>2. CASE ~R
        BY <1>0, <1>15, <3>2
        DEF Vm!HaltNothing, Vm!runDir, Vm!session, Vm!TypeOK, Vm!SessionTypeOK, Vm!Flow, SpawnedOnce, OwnsItsBoot, HasClaim, HaltsDialled, OnlySpawnedAreKnown, Known
      <3> QED
        BY <3>1, <3>2
    <2> QED
      BY <2>1, <2>2, <2>3
  <1>16. ASSUME NEW s \in Session, NEW f \in Vm!Flow, Vm!HaltDials(s, f) PROVE HasClaim' /\ OwnsItsBoot' /\ SpawnedOnce'
    <2>1. HasClaim'
      BY <1>0, <1>16
      DEF Vm!HaltDials, Vm!Dials, Vm!NothingThere, Vm!Stale, Vm!Named, Vm!Up, Vm!HaltAt, Vm!Halting, Vm!Alive, Vm!Goto, Vm!ReleaseClaim, Vm!CleanRunDir, Vm!runDir, Vm!flows, Vm!session, Vm!TypeOK, Vm!SessionTypeOK, Vm!Flow, HasClaim, OwnsItsBoot, Vm!Settled
    <2>2. OwnsItsBoot'
      BY <1>0, <1>16
      DEF Vm!HaltDials, Vm!Dials, Vm!NothingThere, Vm!Stale, Vm!Named, Vm!Up, Vm!HaltAt, Vm!Halting, Vm!Alive, Vm!Goto, Vm!ReleaseClaim, Vm!CleanRunDir, Vm!runDir, Vm!flows, Vm!session, Vm!TypeOK, Vm!SessionTypeOK, Vm!Flow, OwnsItsBoot, Vm!Settled
    <2>3. SpawnedOnce'
      BY <1>0, <1>16
      DEF Vm!HaltDials, Vm!Dials, Vm!NothingThere, Vm!Stale, Vm!Named, Vm!Up, Vm!HaltAt, Vm!Halting, Vm!Alive, Vm!Goto, Vm!ReleaseClaim, Vm!CleanRunDir, Vm!runDir, Vm!flows, Vm!session, Vm!TypeOK, Vm!SessionTypeOK, Vm!Flow, SpawnedOnce, OwnsItsBoot, HasClaim
    <2> QED
      BY <2>1, <2>2, <2>3
  <1>17. ASSUME NEW s \in Session, NEW f \in Vm!Flow, Vm!HaltDialled(s, f) PROVE HasClaim' /\ OwnsItsBoot' /\ SpawnedOnce'
    <2>1. HasClaim'
      BY <1>0, <1>17
      DEF Vm!HaltDialled, Vm!Answers, Vm!Up, Vm!HaltAt, Vm!Halting, Vm!HaltReturns, Vm!CleanedUp, Vm!Stopped, Vm!Ends, Vm!Memory, Vm!Alive, Vm!Goto, Vm!ReleaseClaim, Vm!CleanRunDir, Vm!runDir, Vm!flows, Vm!session, Vm!TypeOK, Vm!SessionTypeOK, Vm!Flow, HasClaim, OwnsItsBoot, Vm!Settled
    <2>2. OwnsItsBoot'
      BY <1>0, <1>17
      DEF Vm!HaltDialled, Vm!Answers, Vm!Up, Vm!HaltAt, Vm!Halting, Vm!HaltReturns, Vm!CleanedUp, Vm!Stopped, Vm!Ends, Vm!Memory, Vm!Alive, Vm!Goto, Vm!ReleaseClaim, Vm!CleanRunDir, Vm!runDir, Vm!flows, Vm!session, Vm!TypeOK, Vm!SessionTypeOK, Vm!Flow, OwnsItsBoot, Vm!Settled
    <2>3. SpawnedOnce'
      <3> DEFINE R == Vm!HaltReturns(s, f)
      <3>1. CASE R
        <4>1. ReturnsFromHalt(s, f)
          BY <1>0, <3>1, VmHaltReturns
        <4> QED
          BY <1>0, <1>17, <4>1
          DEF Vm!HaltDialled, Vm!Answers, Vm!Up, Vm!CleanRunDir, Vm!runDir, ReturnsFromHalt, FlowsTyped, VmSteps, Vm!TypeOK, Vm!SessionTypeOK, Vm!Flow, SpawnedOnce, OwnsItsBoot, HasClaim, HaltsDialled, OnlySpawnedAreKnown, Known
      <3>2. CASE ~R
        BY <1>0, <1>17, <3>2
        DEF Vm!HaltDialled, Vm!Answers, Vm!Up, Vm!runDir, Vm!session, Vm!TypeOK, Vm!SessionTypeOK, Vm!Flow, SpawnedOnce, OwnsItsBoot, HasClaim, HaltsDialled, OnlySpawnedAreKnown, Known
      <3> QED
        BY <3>1, <3>2
    <2> QED
      BY <2>1, <2>2, <2>3
  <1>18. ASSUME NEW s \in Session, NEW f \in Vm!Flow, Vm!HaltStop(s, f) PROVE HasClaim' /\ OwnsItsBoot' /\ SpawnedOnce'
    <2>1. HasClaim'
      BY <1>0, <1>18
      DEF Vm!HaltStop, Vm!HaltAt, Vm!Halting, Vm!HaltReturns, Vm!CleanedUp, Vm!Stopped, Vm!Ends, Vm!Memory, Vm!Alive, Vm!Goto, Vm!ReleaseClaim, Vm!CleanRunDir, Vm!runDir, Vm!flows, Vm!session, Vm!TypeOK, Vm!SessionTypeOK, Vm!Flow, HasClaim, OwnsItsBoot, Vm!Settled
    <2>2. OwnsItsBoot'
      BY <1>0, <1>18
      DEF Vm!HaltStop, Vm!HaltAt, Vm!Halting, Vm!HaltReturns, Vm!CleanedUp, Vm!Stopped, Vm!Ends, Vm!Memory, Vm!Alive, Vm!Goto, Vm!ReleaseClaim, Vm!CleanRunDir, Vm!runDir, Vm!flows, Vm!session, Vm!TypeOK, Vm!SessionTypeOK, Vm!Flow, OwnsItsBoot, Vm!Settled
    <2>3. SpawnedOnce'
      <3>1. \A u \in Session : vm'[u] = "none" <=> vm[u] = "none"
        <4>1. vm[dial[s][f]] # "none" /\ vm' = [vm EXCEPT ![dial[s][f]] = "dead"]
          <5>1. dial[s][f] # None /\ Known(dial[s][f])
            BY <1>0, <1>18 DEF HaltsDialled, OnlySpawnedAreKnown, Vm!HaltStop, Vm!HaltAt, Vm!Halting
          <5> QED
            BY <1>18, <5>1 DEF Known, Vm!HaltStop
        <4> QED
          BY <1>0, <4>1 DEF Vm!TypeOK
      <3>2. ReturnsFromHalt(s, f)
        <4>1. Vm!HaltReturns(s, f)
          BY <1>18 DEF Vm!HaltStop
        <4> QED
          BY <1>0, <4>1, VmHaltReturns
      <3>3. ASSUME NEW u \in Session, u # s
            PROVE  /\ main'[u] = main[u] /\ step'[u] = step[u] /\ (u \in owns' <=> u \in owns)
                   /\ (vm'[u] = "none" <=> vm[u] = "none")
        BY <3>1, <3>2, <3>3 DEF ReturnsFromHalt
      <3>4. main[s] \in {"cleanup", "boot", "ready", "failed"} /\ s \in owns
        BY <1>0, <1>18 DEF Vm!HaltStop, Vm!HaltAt, Vm!Halting, Vm!Alive, OwnsItsBoot
      <3> QED
        BY <1>0, <3>1, <3>2, <3>3, <3>4 DEF SpawnedOnce, ReturnsFromHalt
    <2> QED
      BY <2>1, <2>2, <2>3
  <1>19. ASSUME NEW s \in Session, Vm!Begin(s) /\ Vm!Memory(s) /\ UNCHANGED <<vm, Vm!runDir>> PROVE HasClaim' /\ OwnsItsBoot' /\ SpawnedOnce'
    <2>1. HasClaim'
      BY <1>0, <1>19
      DEF Vm!Begin, Vm!Memory, Vm!Alive, Vm!Goto, Vm!ReleaseClaim, Vm!CleanRunDir, Vm!runDir, Vm!flows, Vm!session, Vm!TypeOK, Vm!SessionTypeOK, Vm!Flow, HasClaim, OwnsItsBoot, Vm!Settled
    <2>2. OwnsItsBoot'
      BY <1>0, <1>19
      DEF Vm!Begin, Vm!Memory, Vm!Alive, Vm!Goto, Vm!ReleaseClaim, Vm!CleanRunDir, Vm!runDir, Vm!flows, Vm!session, Vm!TypeOK, Vm!SessionTypeOK, Vm!Flow, OwnsItsBoot, Vm!Settled
    <2>3. SpawnedOnce'
      BY <1>0, <1>19
      DEF Vm!Begin, Vm!Memory, Vm!Alive, Vm!Goto, Vm!ReleaseClaim, Vm!CleanRunDir, Vm!runDir, Vm!flows, Vm!session, Vm!TypeOK, Vm!SessionTypeOK, Vm!Flow, SpawnedOnce, OwnsItsBoot, HasClaim
    <2> QED
      BY <2>1, <2>2, <2>3
  <1>20. ASSUME NEW s \in Session, Vm!Stop(s) /\ Vm!Memory(s) /\ UNCHANGED <<vm, Vm!runDir>> PROVE HasClaim' /\ OwnsItsBoot' /\ SpawnedOnce'
    <2>1. HasClaim'
      BY <1>0, <1>20
      DEF Vm!Stop, Vm!Memory, Vm!Ends, Vm!Alive, Vm!Goto, Vm!ReleaseClaim, Vm!CleanRunDir, Vm!runDir, Vm!flows, Vm!session, Vm!TypeOK, Vm!SessionTypeOK, Vm!Flow, HasClaim, OwnsItsBoot, Vm!Settled
    <2>2. OwnsItsBoot'
      BY <1>0, <1>20
      DEF Vm!Stop, Vm!Memory, Vm!Ends, Vm!Alive, Vm!Goto, Vm!ReleaseClaim, Vm!CleanRunDir, Vm!runDir, Vm!flows, Vm!session, Vm!TypeOK, Vm!SessionTypeOK, Vm!Flow, OwnsItsBoot, Vm!Settled
    <2>3. SpawnedOnce'
      BY <1>0, <1>20
      DEF Vm!Stop, Vm!Memory, Vm!Ends, Vm!Alive, Vm!Goto, Vm!ReleaseClaim, Vm!CleanRunDir, Vm!runDir, Vm!flows, Vm!session, Vm!TypeOK, Vm!SessionTypeOK, Vm!Flow, SpawnedOnce, OwnsItsBoot, HasClaim
    <2> QED
      BY <2>1, <2>2, <2>3
  <1>21. ASSUME NEW s \in Session, Vm!BootSettles(s) /\ Vm!Memory(s) /\ UNCHANGED <<vm, Vm!runDir>> PROVE HasClaim' /\ OwnsItsBoot' /\ SpawnedOnce'
    <2>1. HasClaim'
      BY <1>0, <1>21
      DEF Vm!BootSettles, Vm!Memory, Vm!Alive, Vm!Goto, Vm!ReleaseClaim, Vm!CleanRunDir, Vm!runDir, Vm!flows, Vm!session, Vm!TypeOK, Vm!SessionTypeOK, Vm!Flow, HasClaim, OwnsItsBoot, Vm!Settled
    <2>2. OwnsItsBoot'
      BY <1>0, <1>21
      DEF Vm!BootSettles, Vm!Memory, Vm!Alive, Vm!Goto, Vm!ReleaseClaim, Vm!CleanRunDir, Vm!runDir, Vm!flows, Vm!session, Vm!TypeOK, Vm!SessionTypeOK, Vm!Flow, OwnsItsBoot, Vm!Settled
    <2>3. SpawnedOnce'
      BY <1>0, <1>21
      DEF Vm!BootSettles, Vm!Memory, Vm!Alive, Vm!Goto, Vm!ReleaseClaim, Vm!CleanRunDir, Vm!runDir, Vm!flows, Vm!session, Vm!TypeOK, Vm!SessionTypeOK, Vm!Flow, SpawnedOnce, OwnsItsBoot, HasClaim
    <2> QED
      BY <2>1, <2>2, <2>3
  <1>22. ASSUME NEW s \in Session, Vm!Kill(s) /\ Vm!Memory(s) /\ UNCHANGED <<vm, Vm!runDir>> PROVE HasClaim' /\ OwnsItsBoot' /\ SpawnedOnce'
    <2>1. HasClaim'
      BY <1>0, <1>22
      DEF Vm!Kill, Vm!Memory, Vm!Ends, Vm!Alive, Vm!Goto, Vm!ReleaseClaim, Vm!CleanRunDir, Vm!runDir, Vm!flows, Vm!session, Vm!TypeOK, Vm!SessionTypeOK, Vm!Flow, HasClaim, OwnsItsBoot, Vm!Settled
    <2>2. OwnsItsBoot'
      BY <1>0, <1>22
      DEF Vm!Kill, Vm!Memory, Vm!Ends, Vm!Alive, Vm!Goto, Vm!ReleaseClaim, Vm!CleanRunDir, Vm!runDir, Vm!flows, Vm!session, Vm!TypeOK, Vm!SessionTypeOK, Vm!Flow, OwnsItsBoot, Vm!Settled
    <2>3. SpawnedOnce'
      BY <1>0, <1>22
      DEF Vm!Kill, Vm!Memory, Vm!Ends, Vm!Alive, Vm!Goto, Vm!ReleaseClaim, Vm!CleanRunDir, Vm!runDir, Vm!flows, Vm!session, Vm!TypeOK, Vm!SessionTypeOK, Vm!Flow, SpawnedOnce, OwnsItsBoot, HasClaim
    <2> QED
      BY <2>1, <2>2, <2>3
  <1>23. ASSUME NEW s \in Session, Vm!VmMeasures(s) PROVE HasClaim' /\ OwnsItsBoot' /\ SpawnedOnce'
    <2>1. HasClaim'
      BY <1>0, <1>23
      DEF Vm!VmMeasures, Vm!Alive, Vm!Goto, Vm!ReleaseClaim, Vm!CleanRunDir, Vm!runDir, Vm!flows, Vm!session, Vm!TypeOK, Vm!SessionTypeOK, Vm!Flow, HasClaim, OwnsItsBoot, Vm!Settled
    <2>2. OwnsItsBoot'
      BY <1>0, <1>23
      DEF Vm!VmMeasures, Vm!Alive, Vm!Goto, Vm!ReleaseClaim, Vm!CleanRunDir, Vm!runDir, Vm!flows, Vm!session, Vm!TypeOK, Vm!SessionTypeOK, Vm!Flow, OwnsItsBoot, Vm!Settled
    <2>3. SpawnedOnce'
      BY <1>0, <1>23
      DEF Vm!VmMeasures, Vm!Alive, Vm!Goto, Vm!ReleaseClaim, Vm!CleanRunDir, Vm!runDir, Vm!flows, Vm!session, Vm!TypeOK, Vm!SessionTypeOK, Vm!Flow, SpawnedOnce, OwnsItsBoot, HasClaim
    <2> QED
      BY <2>1, <2>2, <2>3
  <1>24. ASSUME NEW s \in Session, Vm!VmServes(s) PROVE HasClaim' /\ OwnsItsBoot' /\ SpawnedOnce'
    <2>1. HasClaim'
      BY <1>0, <1>24
      DEF Vm!VmServes, Vm!Alive, Vm!Goto, Vm!ReleaseClaim, Vm!CleanRunDir, Vm!runDir, Vm!flows, Vm!session, Vm!TypeOK, Vm!SessionTypeOK, Vm!Flow, HasClaim, OwnsItsBoot, Vm!Settled
    <2>2. OwnsItsBoot'
      BY <1>0, <1>24
      DEF Vm!VmServes, Vm!Alive, Vm!Goto, Vm!ReleaseClaim, Vm!CleanRunDir, Vm!runDir, Vm!flows, Vm!session, Vm!TypeOK, Vm!SessionTypeOK, Vm!Flow, OwnsItsBoot, Vm!Settled
    <2>3. SpawnedOnce'
      BY <1>0, <1>24
      DEF Vm!VmServes, Vm!Alive, Vm!Goto, Vm!ReleaseClaim, Vm!CleanRunDir, Vm!runDir, Vm!flows, Vm!session, Vm!TypeOK, Vm!SessionTypeOK, Vm!Flow, SpawnedOnce, OwnsItsBoot, HasClaim
    <2> QED
      BY <2>1, <2>2, <2>3
  <1>25. ASSUME NEW s \in Session, Vm!VmExits(s) PROVE HasClaim' /\ OwnsItsBoot' /\ SpawnedOnce'
    <2>1. HasClaim'
      BY <1>0, <1>25
      DEF Vm!VmExits, Vm!Up, Vm!Alive, Vm!Goto, Vm!ReleaseClaim, Vm!CleanRunDir, Vm!runDir, Vm!flows, Vm!session, Vm!TypeOK, Vm!SessionTypeOK, Vm!Flow, HasClaim, OwnsItsBoot, Vm!Settled
    <2>2. OwnsItsBoot'
      BY <1>0, <1>25
      DEF Vm!VmExits, Vm!Up, Vm!Alive, Vm!Goto, Vm!ReleaseClaim, Vm!CleanRunDir, Vm!runDir, Vm!flows, Vm!session, Vm!TypeOK, Vm!SessionTypeOK, Vm!Flow, OwnsItsBoot, Vm!Settled
    <2>3. SpawnedOnce'
      BY <1>0, <1>25
      DEF Vm!VmExits, Vm!Up, Vm!Alive, Vm!Goto, Vm!ReleaseClaim, Vm!CleanRunDir, Vm!runDir, Vm!flows, Vm!session, Vm!TypeOK, Vm!SessionTypeOK, Vm!Flow, SpawnedOnce, OwnsItsBoot, HasClaim
    <2> QED
      BY <2>1, <2>2, <2>3
  <1> QED
    BY <1>1, <1>2, <1>3, <1>4, <1>5, <1>6, <1>7, <1>8, <1>9, <1>10, <1>11, <1>12, <1>13, <1>14, <1>15, <1>16, <1>17, <1>18, <1>19, <1>20, <1>21, <1>22, <1>23, <1>24, <1>25 DEF Vm!Next, Vm!Steps, Vm!Halts

LEMMA VmKnownKept ==
  ASSUME VmAssumption, VmBase, Vm!Next
  PROVE  OnlySpawnedAreKnown' /\ HaltsDialled'
  <1>0. None \notin Session /\ ~SettleTimesOut /\ Vm!TypeOK /\ HasClaim /\ OwnsItsBoot /\ SpawnedOnce /\ OnlySpawnedAreKnown /\ HaltsDialled
    BY DEF VmBase, VmAssumption
  <1>1. ASSUME NEW s \in Session, Vm!FindNothing(s) PROVE OnlySpawnedAreKnown' /\ HaltsDialled'
    <2>1. OnlySpawnedAreKnown'
      BY <1>0, <1>1
      DEF Vm!FindNothing, Vm!FindIdle, Vm!Dials, Vm!NothingThere, Vm!Stale, Vm!Named, Vm!Up, Vm!Looked, Vm!LookedAgain, Vm!Alive, Vm!Goto, Vm!ReleaseClaim, Vm!CleanRunDir, Vm!runDir, Vm!flows, Vm!session, Vm!TypeOK, Vm!SessionTypeOK, Vm!Flow, OnlySpawnedAreKnown, Known, SpawnedOnce
    <2>2. HaltsDialled'
      BY <1>0, <1>1
      DEF Vm!FindNothing, Vm!FindIdle, Vm!Dials, Vm!NothingThere, Vm!Stale, Vm!Named, Vm!Up, Vm!Looked, Vm!LookedAgain, Vm!Alive, Vm!Goto, Vm!ReleaseClaim, Vm!CleanRunDir, Vm!runDir, Vm!flows, Vm!session, Vm!TypeOK, Vm!SessionTypeOK, Vm!Flow, HaltsDialled, OwnsItsBoot
    <2> QED
      BY <2>1, <2>2
  <1>2. ASSUME NEW s \in Session, Vm!FindDials(s) PROVE OnlySpawnedAreKnown' /\ HaltsDialled'
    <2>1. OnlySpawnedAreKnown'
      BY <1>0, <1>2
      DEF Vm!FindDials, Vm!FindIdle, Vm!Dials, Vm!NothingThere, Vm!Stale, Vm!Named, Vm!Up, Vm!Alive, Vm!Goto, Vm!ReleaseClaim, Vm!CleanRunDir, Vm!runDir, Vm!flows, Vm!session, Vm!TypeOK, Vm!SessionTypeOK, Vm!Flow, OnlySpawnedAreKnown, Known, SpawnedOnce
    <2>2. HaltsDialled'
      BY <1>0, <1>2
      DEF Vm!FindDials, Vm!FindIdle, Vm!Dials, Vm!NothingThere, Vm!Stale, Vm!Named, Vm!Up, Vm!Alive, Vm!Goto, Vm!ReleaseClaim, Vm!CleanRunDir, Vm!runDir, Vm!flows, Vm!session, Vm!TypeOK, Vm!SessionTypeOK, Vm!Flow, HaltsDialled, OwnsItsBoot
    <2> QED
      BY <2>1, <2>2
  <1>3. ASSUME NEW s \in Session, Vm!FindEnds(s) PROVE OnlySpawnedAreKnown' /\ HaltsDialled'
    <2>1. OnlySpawnedAreKnown'
      BY <1>0, <1>3
      DEF Vm!FindEnds, Vm!Answers, Vm!Looked, Vm!LookedAgain, Vm!FindThrows, Vm!Alive, Vm!Goto, Vm!ReleaseClaim, Vm!CleanRunDir, Vm!runDir, Vm!flows, Vm!session, Vm!TypeOK, Vm!SessionTypeOK, Vm!Flow, OnlySpawnedAreKnown, Known, SpawnedOnce, Vm!Up
    <2>2. HaltsDialled'
      BY <1>0, <1>3
      DEF Vm!FindEnds, Vm!Answers, Vm!Looked, Vm!LookedAgain, Vm!FindThrows, Vm!Alive, Vm!Goto, Vm!ReleaseClaim, Vm!CleanRunDir, Vm!runDir, Vm!flows, Vm!session, Vm!TypeOK, Vm!SessionTypeOK, Vm!Flow, HaltsDialled, OwnsItsBoot
    <2> QED
      BY <2>1, <2>2
  <1>4. ASSUME NEW s \in Session, Vm!Attach(s) PROVE OnlySpawnedAreKnown' /\ HaltsDialled'
    <2>1. OnlySpawnedAreKnown'
      BY <1>0, <1>4
      DEF Vm!Attach, Vm!Attached, Vm!Alive, Vm!Goto, Vm!ReleaseClaim, Vm!CleanRunDir, Vm!runDir, Vm!flows, Vm!session, Vm!TypeOK, Vm!SessionTypeOK, Vm!Flow, OnlySpawnedAreKnown, Known, SpawnedOnce, Vm!Up
    <2>2. HaltsDialled'
      BY <1>0, <1>4
      DEF Vm!Attach, Vm!Attached, Vm!Alive, Vm!Goto, Vm!ReleaseClaim, Vm!CleanRunDir, Vm!runDir, Vm!flows, Vm!session, Vm!TypeOK, Vm!SessionTypeOK, Vm!Flow, HaltsDialled, OwnsItsBoot
    <2> QED
      BY <2>1, <2>2
  <1>5. ASSUME NEW s \in Session, Vm!Poll(s) /\ UNCHANGED <<vm, Vm!runDir, Vm!flows>> PROVE OnlySpawnedAreKnown' /\ HaltsDialled'
    <2>1. OnlySpawnedAreKnown'
      BY <1>0, <1>5
      DEF Vm!Poll, Vm!Alive, Vm!Goto, Vm!ReleaseClaim, Vm!CleanRunDir, Vm!runDir, Vm!flows, Vm!session, Vm!TypeOK, Vm!SessionTypeOK, Vm!Flow, OnlySpawnedAreKnown, Known, SpawnedOnce, Vm!Up
    <2>2. HaltsDialled'
      BY <1>0, <1>5
      DEF Vm!Poll, Vm!Alive, Vm!Goto, Vm!ReleaseClaim, Vm!CleanRunDir, Vm!runDir, Vm!flows, Vm!session, Vm!TypeOK, Vm!SessionTypeOK, Vm!Flow, HaltsDialled, OwnsItsBoot
    <2> QED
      BY <2>1, <2>2
  <1>6. ASSUME NEW s \in Session, Vm!Bundle(s) PROVE OnlySpawnedAreKnown' /\ HaltsDialled'
    <2>1. OnlySpawnedAreKnown'
      BY <1>0, <1>6
      DEF Vm!Bundle, Vm!At, Vm!StepTo, Vm!Alive, Vm!Goto, Vm!ReleaseClaim, Vm!CleanRunDir, Vm!runDir, Vm!flows, Vm!session, Vm!TypeOK, Vm!SessionTypeOK, Vm!Flow, OnlySpawnedAreKnown, Known, SpawnedOnce, Vm!Up
    <2>2. HaltsDialled'
      BY <1>0, <1>6
      DEF Vm!Bundle, Vm!At, Vm!StepTo, Vm!Alive, Vm!Goto, Vm!ReleaseClaim, Vm!CleanRunDir, Vm!runDir, Vm!flows, Vm!session, Vm!TypeOK, Vm!SessionTypeOK, Vm!Flow, HaltsDialled, OwnsItsBoot
    <2> QED
      BY <2>1, <2>2
  <1>7. ASSUME NEW s \in Session, Vm!Spawn(s) PROVE OnlySpawnedAreKnown' /\ HaltsDialled'
    <2>1. OnlySpawnedAreKnown'
      BY <1>0, <1>7
      DEF Vm!Spawn, Vm!At, Vm!StepTo, Vm!Alive, Vm!Goto, Vm!ReleaseClaim, Vm!CleanRunDir, Vm!runDir, Vm!flows, Vm!session, Vm!TypeOK, Vm!SessionTypeOK, Vm!Flow, OnlySpawnedAreKnown, Known, SpawnedOnce, Vm!Up
    <2>2. HaltsDialled'
      BY <1>0, <1>7
      DEF Vm!Spawn, Vm!At, Vm!StepTo, Vm!Alive, Vm!Goto, Vm!ReleaseClaim, Vm!CleanRunDir, Vm!runDir, Vm!flows, Vm!session, Vm!TypeOK, Vm!SessionTypeOK, Vm!Flow, HaltsDialled, OwnsItsBoot
    <2> QED
      BY <2>1, <2>2
  <1>8. ASSUME NEW s \in Session, Vm!WriteRecord(s) PROVE OnlySpawnedAreKnown' /\ HaltsDialled'
    <2>1. OnlySpawnedAreKnown'
      BY <1>0, <1>8
      DEF Vm!WriteRecord, Vm!At, Vm!StepTo, Vm!Alive, Vm!Goto, Vm!ReleaseClaim, Vm!CleanRunDir, Vm!runDir, Vm!flows, Vm!session, Vm!TypeOK, Vm!SessionTypeOK, Vm!Flow, OnlySpawnedAreKnown, Known, SpawnedOnce, Vm!Up
    <2>2. HaltsDialled'
      BY <1>0, <1>8
      DEF Vm!WriteRecord, Vm!At, Vm!StepTo, Vm!Alive, Vm!Goto, Vm!ReleaseClaim, Vm!CleanRunDir, Vm!runDir, Vm!flows, Vm!session, Vm!TypeOK, Vm!SessionTypeOK, Vm!Flow, HaltsDialled, OwnsItsBoot
    <2> QED
      BY <2>1, <2>2
  <1>9. ASSUME NEW s \in Session, Vm!OpenControl(s) PROVE OnlySpawnedAreKnown' /\ HaltsDialled'
    <2>1. OnlySpawnedAreKnown'
      BY <1>0, <1>9
      DEF Vm!OpenControl, Vm!At, Vm!StepTo, Vm!Answers, Vm!Alive, Vm!Goto, Vm!ReleaseClaim, Vm!CleanRunDir, Vm!runDir, Vm!flows, Vm!session, Vm!TypeOK, Vm!SessionTypeOK, Vm!Flow, OnlySpawnedAreKnown, Known, SpawnedOnce, Vm!Up
    <2>2. HaltsDialled'
      BY <1>0, <1>9
      DEF Vm!OpenControl, Vm!At, Vm!StepTo, Vm!Answers, Vm!Alive, Vm!Goto, Vm!ReleaseClaim, Vm!CleanRunDir, Vm!runDir, Vm!flows, Vm!session, Vm!TypeOK, Vm!SessionTypeOK, Vm!Flow, HaltsDialled, OwnsItsBoot
    <2> QED
      BY <2>1, <2>2
  <1>10. ASSUME NEW s \in Session, Vm!AppsReady(s) PROVE OnlySpawnedAreKnown' /\ HaltsDialled'
    <2>1. OnlySpawnedAreKnown'
      BY <1>0, <1>10
      DEF Vm!AppsReady, Vm!At, Vm!StepTo, Vm!Alive, Vm!Goto, Vm!ReleaseClaim, Vm!CleanRunDir, Vm!runDir, Vm!flows, Vm!session, Vm!TypeOK, Vm!SessionTypeOK, Vm!Flow, OnlySpawnedAreKnown, Known, SpawnedOnce, Vm!Up
    <2>2. HaltsDialled'
      BY <1>0, <1>10
      DEF Vm!AppsReady, Vm!At, Vm!StepTo, Vm!Alive, Vm!Goto, Vm!ReleaseClaim, Vm!CleanRunDir, Vm!runDir, Vm!flows, Vm!session, Vm!TypeOK, Vm!SessionTypeOK, Vm!Flow, HaltsDialled, OwnsItsBoot
    <2> QED
      BY <2>1, <2>2
  <1>11. ASSUME NEW s \in Session, Vm!Connect(s) PROVE OnlySpawnedAreKnown' /\ HaltsDialled'
    <2>1. OnlySpawnedAreKnown'
      BY <1>0, <1>11
      DEF Vm!Connect, Vm!At, Vm!Booted, Vm!Alive, Vm!Goto, Vm!ReleaseClaim, Vm!CleanRunDir, Vm!runDir, Vm!flows, Vm!session, Vm!TypeOK, Vm!SessionTypeOK, Vm!Flow, OnlySpawnedAreKnown, Known, SpawnedOnce, Vm!Up
    <2>2. HaltsDialled'
      BY <1>0, <1>11
      DEF Vm!Connect, Vm!At, Vm!Booted, Vm!Alive, Vm!Goto, Vm!ReleaseClaim, Vm!CleanRunDir, Vm!runDir, Vm!flows, Vm!session, Vm!TypeOK, Vm!SessionTypeOK, Vm!Flow, HaltsDialled, OwnsItsBoot
    <2> QED
      BY <2>1, <2>2
  <1>12. ASSUME NEW s \in Session, Vm!BootFails(s) PROVE OnlySpawnedAreKnown' /\ HaltsDialled'
    <2>1. OnlySpawnedAreKnown'
      BY <1>0, <1>12
      DEF Vm!BootFails, Vm!BootThrows, Vm!Alive, Vm!Goto, Vm!ReleaseClaim, Vm!CleanRunDir, Vm!runDir, Vm!flows, Vm!session, Vm!TypeOK, Vm!SessionTypeOK, Vm!Flow, OnlySpawnedAreKnown, Known, SpawnedOnce, Vm!Up
    <2>2. HaltsDialled'
      BY <1>0, <1>12
      DEF Vm!BootFails, Vm!BootThrows, Vm!Alive, Vm!Goto, Vm!ReleaseClaim, Vm!CleanRunDir, Vm!runDir, Vm!flows, Vm!session, Vm!TypeOK, Vm!SessionTypeOK, Vm!Flow, HaltsDialled, OwnsItsBoot
    <2> QED
      BY <2>1, <2>2
  <1>13. ASSUME NEW s \in Session, Vm!StartFails(s) PROVE OnlySpawnedAreKnown' /\ HaltsDialled'
    <2>1. OnlySpawnedAreKnown'
      BY <1>0, <1>13
      DEF Vm!StartFails, Vm!At, Vm!StepTo, Vm!Alive, Vm!Goto, Vm!ReleaseClaim, Vm!CleanRunDir, Vm!runDir, Vm!flows, Vm!session, Vm!TypeOK, Vm!SessionTypeOK, Vm!Flow, OnlySpawnedAreKnown, Known, SpawnedOnce, Vm!Up
    <2>2. HaltsDialled'
      BY <1>0, <1>13
      DEF Vm!StartFails, Vm!At, Vm!StepTo, Vm!Alive, Vm!Goto, Vm!ReleaseClaim, Vm!CleanRunDir, Vm!runDir, Vm!flows, Vm!session, Vm!TypeOK, Vm!SessionTypeOK, Vm!Flow, HaltsDialled, OwnsItsBoot
    <2> QED
      BY <2>1, <2>2
  <1>14. ASSUME NEW s \in Session, Vm!Undo(s) PROVE OnlySpawnedAreKnown' /\ HaltsDialled'
    <2>1. OnlySpawnedAreKnown'
      BY <1>0, <1>14
      DEF Vm!Undo, Vm!At, Vm!BootThrows, Vm!Alive, Vm!Goto, Vm!ReleaseClaim, Vm!CleanRunDir, Vm!runDir, Vm!flows, Vm!session, Vm!TypeOK, Vm!SessionTypeOK, Vm!Flow, OnlySpawnedAreKnown, Known, SpawnedOnce, Vm!Up
    <2>2. HaltsDialled'
      BY <1>0, <1>14
      DEF Vm!Undo, Vm!At, Vm!BootThrows, Vm!Alive, Vm!Goto, Vm!ReleaseClaim, Vm!CleanRunDir, Vm!runDir, Vm!flows, Vm!session, Vm!TypeOK, Vm!SessionTypeOK, Vm!Flow, HaltsDialled, OwnsItsBoot
    <2> QED
      BY <2>1, <2>2
  <1>15. ASSUME NEW s \in Session, NEW f \in Vm!Flow, Vm!HaltNothing(s, f) PROVE OnlySpawnedAreKnown' /\ HaltsDialled'
    <2>1. OnlySpawnedAreKnown'
      <3>1. LearnsNothing
        <4> DEFINE R == Vm!HaltReturns(s, f)
        <4>1. CASE R
          <5>1. ReturnsFromHalt(s, f)
            BY <1>0, <4>1, VmHaltReturns
          <5>2. \A v \in Session : vm'[v] = "none" => vm[v] = "none"
            BY <1>0, <1>15, <4>1 DEF Vm!HaltNothing, Vm!TypeOK
          <5>3. /\ pidFile' = None /\ record' = None /\ sockets' = None /\ disk' = None
            <6>1. halt'[s][f] = "look" /\ halt \in [Session -> [Vm!Flow -> {"look", "dial", "stop"}]]
              BY <1>0, <5>1 DEF ReturnsFromHalt, Vm!TypeOK
            <6> QED
              BY <1>15, <4>1, <6>1 DEF Vm!HaltNothing, Vm!CleanRunDir
          <5>4. \A t \in Session : \A g \in Vm!Flow : dial'[t][g] \in {dial[t][g], None}
            BY <5>1 DEF ReturnsFromHalt
          <5> QED
            BY <5>2, <5>3, <5>4 DEF LearnsNothing
        <4>2. CASE ~R
          BY <1>0, <1>15, <4>2 DEF Vm!HaltNothing, Vm!runDir, Vm!session, LearnsNothing
        <4> QED
          BY <4>1, <4>2
      <3> QED
        BY <1>0, <3>1, KnownStay
    <2>2. HaltsDialled'
      BY <1>0, <1>15
      DEF Vm!HaltNothing, Vm!Dials, Vm!NothingThere, Vm!Stale, Vm!Named, Vm!Up, Vm!HaltAt, Vm!Halting, Vm!HaltReturns, Vm!CleanedUp, Vm!Stopped, Vm!Ends, Vm!Memory, Vm!Alive, Vm!Goto, Vm!ReleaseClaim, Vm!CleanRunDir, Vm!runDir, Vm!flows, Vm!session, Vm!TypeOK, Vm!SessionTypeOK, Vm!Flow, HaltsDialled, OwnsItsBoot
    <2> QED
      BY <2>1, <2>2
  <1>16. ASSUME NEW s \in Session, NEW f \in Vm!Flow, Vm!HaltDials(s, f) PROVE OnlySpawnedAreKnown' /\ HaltsDialled'
    <2>1. OnlySpawnedAreKnown'
      BY <1>0, <1>16
      DEF Vm!HaltDials, Vm!Dials, Vm!NothingThere, Vm!Stale, Vm!Named, Vm!Up, Vm!HaltAt, Vm!Halting, Vm!Alive, Vm!Goto, Vm!ReleaseClaim, Vm!CleanRunDir, Vm!runDir, Vm!flows, Vm!session, Vm!TypeOK, Vm!SessionTypeOK, Vm!Flow, OnlySpawnedAreKnown, Known, SpawnedOnce
    <2>2. HaltsDialled'
      BY <1>0, <1>16
      DEF Vm!HaltDials, Vm!Dials, Vm!NothingThere, Vm!Stale, Vm!Named, Vm!Up, Vm!HaltAt, Vm!Halting, Vm!Alive, Vm!Goto, Vm!ReleaseClaim, Vm!CleanRunDir, Vm!runDir, Vm!flows, Vm!session, Vm!TypeOK, Vm!SessionTypeOK, Vm!Flow, HaltsDialled, OwnsItsBoot
    <2> QED
      BY <2>1, <2>2
  <1>17. ASSUME NEW s \in Session, NEW f \in Vm!Flow, Vm!HaltDialled(s, f) PROVE OnlySpawnedAreKnown' /\ HaltsDialled'
    <2>1. OnlySpawnedAreKnown'
      <3>1. LearnsNothing
        <4> DEFINE R == Vm!HaltReturns(s, f)
        <4>1. CASE R
          <5>1. ReturnsFromHalt(s, f)
            BY <1>0, <4>1, VmHaltReturns
          <5>2. \A v \in Session : vm'[v] = "none" => vm[v] = "none"
            BY <1>0, <1>17, <4>1 DEF Vm!HaltDialled, Vm!Answers, Vm!Up, Vm!TypeOK
          <5>3. /\ pidFile' = None /\ record' = None /\ sockets' = None /\ disk' = None
            <6>1. halt'[s][f] = "look" /\ halt \in [Session -> [Vm!Flow -> {"look", "dial", "stop"}]]
              BY <1>0, <5>1 DEF ReturnsFromHalt, Vm!TypeOK
            <6> QED
              BY <1>17, <4>1, <6>1 DEF Vm!HaltDialled, Vm!Answers, Vm!Up, Vm!CleanRunDir
          <5>4. \A t \in Session : \A g \in Vm!Flow : dial'[t][g] \in {dial[t][g], None}
            BY <5>1 DEF ReturnsFromHalt
          <5> QED
            BY <5>2, <5>3, <5>4 DEF LearnsNothing
        <4>2. CASE ~R
          BY <1>0, <1>17, <4>2 DEF Vm!HaltDialled, Vm!Answers, Vm!Up, Vm!runDir, Vm!session, LearnsNothing
        <4> QED
          BY <4>1, <4>2
      <3> QED
        BY <1>0, <3>1, KnownStay
    <2>2. HaltsDialled'
      BY <1>0, <1>17
      DEF Vm!HaltDialled, Vm!Answers, Vm!Up, Vm!HaltAt, Vm!Halting, Vm!HaltReturns, Vm!CleanedUp, Vm!Stopped, Vm!Ends, Vm!Memory, Vm!Alive, Vm!Goto, Vm!ReleaseClaim, Vm!CleanRunDir, Vm!runDir, Vm!flows, Vm!session, Vm!TypeOK, Vm!SessionTypeOK, Vm!Flow, HaltsDialled, OwnsItsBoot
    <2> QED
      BY <2>1, <2>2
  <1>18. ASSUME NEW s \in Session, NEW f \in Vm!Flow, Vm!HaltStop(s, f) PROVE OnlySpawnedAreKnown' /\ HaltsDialled'
    <2>1. OnlySpawnedAreKnown'
      <3>1. LearnsNothing
        <4> DEFINE R == Vm!HaltReturns(s, f)
        <4>1. CASE R
          <5>1. ReturnsFromHalt(s, f)
            BY <1>0, <4>1, VmHaltReturns
          <5>2. \A v \in Session : vm'[v] = "none" => vm[v] = "none"
            BY <1>0, <1>18, <4>1 DEF Vm!HaltStop, Vm!HaltAt, Vm!Halting, Vm!TypeOK
          <5>3. /\ pidFile' = None /\ record' = None /\ sockets' = None /\ disk' = None
            <6>1. halt'[s][f] = "look" /\ halt \in [Session -> [Vm!Flow -> {"look", "dial", "stop"}]]
              BY <1>0, <5>1 DEF ReturnsFromHalt, Vm!TypeOK
            <6> QED
              BY <1>18, <4>1, <6>1 DEF Vm!HaltStop, Vm!HaltAt, Vm!Halting, Vm!CleanRunDir
          <5>4. \A t \in Session : \A g \in Vm!Flow : dial'[t][g] \in {dial[t][g], None}
            BY <5>1 DEF ReturnsFromHalt
          <5> QED
            BY <5>2, <5>3, <5>4 DEF LearnsNothing
        <4>2. CASE ~R
          BY <1>0, <1>18, <4>2 DEF Vm!HaltStop, Vm!HaltAt, Vm!Halting, Vm!runDir, Vm!session, LearnsNothing
        <4> QED
          BY <4>1, <4>2
      <3> QED
        BY <1>0, <3>1, KnownStay
    <2>2. HaltsDialled'
      BY <1>0, <1>18
      DEF Vm!HaltStop, Vm!HaltAt, Vm!Halting, Vm!HaltReturns, Vm!CleanedUp, Vm!Stopped, Vm!Ends, Vm!Memory, Vm!Alive, Vm!Goto, Vm!ReleaseClaim, Vm!CleanRunDir, Vm!runDir, Vm!flows, Vm!session, Vm!TypeOK, Vm!SessionTypeOK, Vm!Flow, HaltsDialled, OwnsItsBoot
    <2> QED
      BY <2>1, <2>2
  <1>19. ASSUME NEW s \in Session, Vm!Begin(s) /\ Vm!Memory(s) /\ UNCHANGED <<vm, Vm!runDir>> PROVE OnlySpawnedAreKnown' /\ HaltsDialled'
    <2>1. OnlySpawnedAreKnown'
      BY <1>0, <1>19
      DEF Vm!Begin, Vm!Memory, Vm!Alive, Vm!Goto, Vm!ReleaseClaim, Vm!CleanRunDir, Vm!runDir, Vm!flows, Vm!session, Vm!TypeOK, Vm!SessionTypeOK, Vm!Flow, OnlySpawnedAreKnown, Known, SpawnedOnce, Vm!Up
    <2>2. HaltsDialled'
      BY <1>0, <1>19
      DEF Vm!Begin, Vm!Memory, Vm!Alive, Vm!Goto, Vm!ReleaseClaim, Vm!CleanRunDir, Vm!runDir, Vm!flows, Vm!session, Vm!TypeOK, Vm!SessionTypeOK, Vm!Flow, HaltsDialled, OwnsItsBoot
    <2> QED
      BY <2>1, <2>2
  <1>20. ASSUME NEW s \in Session, Vm!Stop(s) /\ Vm!Memory(s) /\ UNCHANGED <<vm, Vm!runDir>> PROVE OnlySpawnedAreKnown' /\ HaltsDialled'
    <2>1. OnlySpawnedAreKnown'
      <3>1. \A t \in Session : \A g \in Vm!Flow : dial'[t][g] \in {dial[t][g], None}
        <4>1. /\ life'[s] = "alive" => UNCHANGED dial
              /\ \A t \in Session \ {s} : dial'[t] = dial[t]
              /\ life'[s] # "alive" => \A g \in Vm!Flow : dial'[s][g] = None
          <5>1. Vm!Memory(s)
            BY <1>20
          <5> QED
            BY <1>0, <5>1, VmForgets
        <4> QED
          BY <4>1
      <3>2. LearnsNothing
        BY <1>20, <3>1 DEF LearnsNothing, Vm!runDir
      <3> QED
        BY <1>0, <3>2, KnownStay
    <2>2. HaltsDialled'
      BY <1>0, <1>20
      DEF Vm!Stop, Vm!Memory, Vm!Ends, Vm!Alive, Vm!Goto, Vm!ReleaseClaim, Vm!CleanRunDir, Vm!runDir, Vm!flows, Vm!session, Vm!TypeOK, Vm!SessionTypeOK, Vm!Flow, HaltsDialled, OwnsItsBoot
    <2> QED
      BY <2>1, <2>2
  <1>21. ASSUME NEW s \in Session, Vm!BootSettles(s) /\ Vm!Memory(s) /\ UNCHANGED <<vm, Vm!runDir>> PROVE OnlySpawnedAreKnown' /\ HaltsDialled'
    <2>1. OnlySpawnedAreKnown'
      BY <1>0, <1>21
      DEF Vm!BootSettles, Vm!Memory, Vm!Alive, Vm!Goto, Vm!ReleaseClaim, Vm!CleanRunDir, Vm!runDir, Vm!flows, Vm!session, Vm!TypeOK, Vm!SessionTypeOK, Vm!Flow, OnlySpawnedAreKnown, Known, SpawnedOnce, Vm!Up
    <2>2. HaltsDialled'
      BY <1>0, <1>21
      DEF Vm!BootSettles, Vm!Memory, Vm!Alive, Vm!Goto, Vm!ReleaseClaim, Vm!CleanRunDir, Vm!runDir, Vm!flows, Vm!session, Vm!TypeOK, Vm!SessionTypeOK, Vm!Flow, HaltsDialled, OwnsItsBoot
    <2> QED
      BY <2>1, <2>2
  <1>22. ASSUME NEW s \in Session, Vm!Kill(s) /\ Vm!Memory(s) /\ UNCHANGED <<vm, Vm!runDir>> PROVE OnlySpawnedAreKnown' /\ HaltsDialled'
    <2>1. OnlySpawnedAreKnown'
      BY <1>0, <1>22
      DEF Vm!Kill, Vm!Memory, Vm!Ends, Vm!Alive, Vm!Goto, Vm!ReleaseClaim, Vm!CleanRunDir, Vm!runDir, Vm!flows, Vm!session, Vm!TypeOK, Vm!SessionTypeOK, Vm!Flow, OnlySpawnedAreKnown, Known, SpawnedOnce, Vm!Up
    <2>2. HaltsDialled'
      BY <1>0, <1>22
      DEF Vm!Kill, Vm!Memory, Vm!Ends, Vm!Alive, Vm!Goto, Vm!ReleaseClaim, Vm!CleanRunDir, Vm!runDir, Vm!flows, Vm!session, Vm!TypeOK, Vm!SessionTypeOK, Vm!Flow, HaltsDialled, OwnsItsBoot
    <2> QED
      BY <2>1, <2>2
  <1>23. ASSUME NEW s \in Session, Vm!VmMeasures(s) PROVE OnlySpawnedAreKnown' /\ HaltsDialled'
    <2>1. OnlySpawnedAreKnown'
      BY <1>0, <1>23
      DEF Vm!VmMeasures, Vm!Alive, Vm!Goto, Vm!ReleaseClaim, Vm!CleanRunDir, Vm!runDir, Vm!flows, Vm!session, Vm!TypeOK, Vm!SessionTypeOK, Vm!Flow, OnlySpawnedAreKnown, Known, SpawnedOnce, Vm!Up
    <2>2. HaltsDialled'
      BY <1>0, <1>23
      DEF Vm!VmMeasures, Vm!Alive, Vm!Goto, Vm!ReleaseClaim, Vm!CleanRunDir, Vm!runDir, Vm!flows, Vm!session, Vm!TypeOK, Vm!SessionTypeOK, Vm!Flow, HaltsDialled, OwnsItsBoot
    <2> QED
      BY <2>1, <2>2
  <1>24. ASSUME NEW s \in Session, Vm!VmServes(s) PROVE OnlySpawnedAreKnown' /\ HaltsDialled'
    <2>1. OnlySpawnedAreKnown'
      BY <1>0, <1>24
      DEF Vm!VmServes, Vm!Alive, Vm!Goto, Vm!ReleaseClaim, Vm!CleanRunDir, Vm!runDir, Vm!flows, Vm!session, Vm!TypeOK, Vm!SessionTypeOK, Vm!Flow, OnlySpawnedAreKnown, Known, SpawnedOnce, Vm!Up
    <2>2. HaltsDialled'
      BY <1>0, <1>24
      DEF Vm!VmServes, Vm!Alive, Vm!Goto, Vm!ReleaseClaim, Vm!CleanRunDir, Vm!runDir, Vm!flows, Vm!session, Vm!TypeOK, Vm!SessionTypeOK, Vm!Flow, HaltsDialled, OwnsItsBoot
    <2> QED
      BY <2>1, <2>2
  <1>25. ASSUME NEW s \in Session, Vm!VmExits(s) PROVE OnlySpawnedAreKnown' /\ HaltsDialled'
    <2>1. OnlySpawnedAreKnown'
      BY <1>0, <1>25
      DEF Vm!VmExits, Vm!Up, Vm!Alive, Vm!Goto, Vm!ReleaseClaim, Vm!CleanRunDir, Vm!runDir, Vm!flows, Vm!session, Vm!TypeOK, Vm!SessionTypeOK, Vm!Flow, OnlySpawnedAreKnown, Known, SpawnedOnce
    <2>2. HaltsDialled'
      BY <1>0, <1>25
      DEF Vm!VmExits, Vm!Up, Vm!Alive, Vm!Goto, Vm!ReleaseClaim, Vm!CleanRunDir, Vm!runDir, Vm!flows, Vm!session, Vm!TypeOK, Vm!SessionTypeOK, Vm!Flow, HaltsDialled, OwnsItsBoot
    <2> QED
      BY <2>1, <2>2
  <1> QED
    BY <1>1, <1>2, <1>3, <1>4, <1>5, <1>6, <1>7, <1>8, <1>9, <1>10, <1>11, <1>12, <1>13, <1>14, <1>15, <1>16, <1>17, <1>18, <1>19, <1>20, <1>21, <1>22, <1>23, <1>24, <1>25 DEF Vm!Next, Vm!Steps, Vm!Halts

LEMMA VmShownKept ==
  ASSUME VmAssumption, VmInv, Vm!Next
  PROVE  ServingIsShown' /\ UnshownIsMute' /\ LeavesNoVm'
  <1>0. None \notin Session /\ ~SettleTimesOut /\ Vm!TypeOK /\ HasClaim /\ OwnsItsBoot /\ SpawnedOnce /\ OnlySpawnedAreKnown /\ HaltsDialled /\ ServingIsShown /\ UnshownIsMute /\ LeavesNoVm /\ DiskGoes /\ BootsAlone /\ OneOfTwo
    BY DEF VmInv, VmBase, VmAssumption
  <1>1. ASSUME NEW s \in Session, Vm!FindNothing(s) PROVE ServingIsShown' /\ UnshownIsMute' /\ LeavesNoVm'
    <2>1. ServingIsShown'
      BY <1>0, <1>1
      DEF Vm!FindNothing, Vm!FindIdle, Vm!Dials, Vm!NothingThere, Vm!Stale, Vm!Named, Vm!Up, Vm!Looked, Vm!LookedAgain, Vm!Alive, Vm!Goto, Vm!ReleaseClaim, Vm!CleanRunDir, Vm!runDir, Vm!flows, Vm!session, Vm!TypeOK, Vm!SessionTypeOK, Vm!Flow, OwnsItsBoot, SpawnedOnce, OnlySpawnedAreKnown, Known, HaltsDialled, OnlyVm, Shown, Vm!Settled, ServingIsShown, UnshownIsMute
    <2>2. UnshownIsMute'
      BY <1>0, <1>1
      DEF Vm!FindNothing, Vm!FindIdle, Vm!Dials, Vm!NothingThere, Vm!Stale, Vm!Named, Vm!Up, Vm!Looked, Vm!LookedAgain, Vm!Alive, Vm!Goto, Vm!ReleaseClaim, Vm!CleanRunDir, Vm!runDir, Vm!flows, Vm!session, Vm!TypeOK, Vm!SessionTypeOK, Vm!Flow, OwnsItsBoot, SpawnedOnce, OnlySpawnedAreKnown, Known, HaltsDialled, OnlyVm, Shown, Vm!Settled, UnshownIsMute
    <2>3. LeavesNoVm'
      BY <1>0, <1>1
      DEF Vm!FindNothing, Vm!FindIdle, Vm!Dials, Vm!NothingThere, Vm!Stale, Vm!Named, Vm!Up, Vm!Looked, Vm!LookedAgain, Vm!Alive, Vm!Goto, Vm!ReleaseClaim, Vm!CleanRunDir, Vm!runDir, Vm!flows, Vm!session, Vm!TypeOK, Vm!SessionTypeOK, Vm!Flow, OwnsItsBoot, SpawnedOnce, OnlySpawnedAreKnown, Known, HaltsDialled, OnlyVm, Shown, Vm!Settled, ServingIsShown, LeavesNoVm
    <2> QED
      BY <2>1, <2>2, <2>3
  <1>2. ASSUME NEW s \in Session, Vm!FindDials(s) PROVE ServingIsShown' /\ UnshownIsMute' /\ LeavesNoVm'
    <2>1. ServingIsShown'
      BY <1>0, <1>2
      DEF Vm!FindDials, Vm!FindIdle, Vm!Dials, Vm!NothingThere, Vm!Stale, Vm!Named, Vm!Up, Vm!Alive, Vm!Goto, Vm!ReleaseClaim, Vm!CleanRunDir, Vm!runDir, Vm!flows, Vm!session, Vm!TypeOK, Vm!SessionTypeOK, Vm!Flow, OwnsItsBoot, SpawnedOnce, OnlySpawnedAreKnown, Known, HaltsDialled, OnlyVm, Shown, Vm!Settled, ServingIsShown, UnshownIsMute
    <2>2. UnshownIsMute'
      BY <1>0, <1>2
      DEF Vm!FindDials, Vm!FindIdle, Vm!Dials, Vm!NothingThere, Vm!Stale, Vm!Named, Vm!Up, Vm!Alive, Vm!Goto, Vm!ReleaseClaim, Vm!CleanRunDir, Vm!runDir, Vm!flows, Vm!session, Vm!TypeOK, Vm!SessionTypeOK, Vm!Flow, OwnsItsBoot, SpawnedOnce, OnlySpawnedAreKnown, Known, HaltsDialled, OnlyVm, Shown, Vm!Settled, UnshownIsMute
    <2>3. LeavesNoVm'
      BY <1>0, <1>2
      DEF Vm!FindDials, Vm!FindIdle, Vm!Dials, Vm!NothingThere, Vm!Stale, Vm!Named, Vm!Up, Vm!Alive, Vm!Goto, Vm!ReleaseClaim, Vm!CleanRunDir, Vm!runDir, Vm!flows, Vm!session, Vm!TypeOK, Vm!SessionTypeOK, Vm!Flow, OwnsItsBoot, SpawnedOnce, OnlySpawnedAreKnown, Known, HaltsDialled, OnlyVm, Shown, Vm!Settled, ServingIsShown, LeavesNoVm
    <2> QED
      BY <2>1, <2>2, <2>3
  <1>3. ASSUME NEW s \in Session, Vm!FindEnds(s) PROVE ServingIsShown' /\ UnshownIsMute' /\ LeavesNoVm'
    <2>1. ServingIsShown'
      BY <1>0, <1>3
      DEF Vm!FindEnds, Vm!Answers, Vm!Looked, Vm!LookedAgain, Vm!FindThrows, Vm!Alive, Vm!Goto, Vm!ReleaseClaim, Vm!CleanRunDir, Vm!runDir, Vm!flows, Vm!session, Vm!TypeOK, Vm!SessionTypeOK, Vm!Flow, OwnsItsBoot, SpawnedOnce, OnlySpawnedAreKnown, Known, HaltsDialled, OnlyVm, Shown, Vm!Up, Vm!Settled, ServingIsShown, UnshownIsMute
    <2>2. UnshownIsMute'
      BY <1>0, <1>3
      DEF Vm!FindEnds, Vm!Answers, Vm!Looked, Vm!LookedAgain, Vm!FindThrows, Vm!Alive, Vm!Goto, Vm!ReleaseClaim, Vm!CleanRunDir, Vm!runDir, Vm!flows, Vm!session, Vm!TypeOK, Vm!SessionTypeOK, Vm!Flow, OwnsItsBoot, SpawnedOnce, OnlySpawnedAreKnown, Known, HaltsDialled, OnlyVm, Shown, Vm!Up, Vm!Settled, UnshownIsMute
    <2>3. LeavesNoVm'
      BY <1>0, <1>3
      DEF Vm!FindEnds, Vm!Answers, Vm!Looked, Vm!LookedAgain, Vm!FindThrows, Vm!Alive, Vm!Goto, Vm!ReleaseClaim, Vm!CleanRunDir, Vm!runDir, Vm!flows, Vm!session, Vm!TypeOK, Vm!SessionTypeOK, Vm!Flow, OwnsItsBoot, SpawnedOnce, OnlySpawnedAreKnown, Known, HaltsDialled, OnlyVm, Shown, Vm!Up, Vm!Settled, ServingIsShown, LeavesNoVm
    <2> QED
      BY <2>1, <2>2, <2>3
  <1>4. ASSUME NEW s \in Session, Vm!Attach(s) PROVE ServingIsShown' /\ UnshownIsMute' /\ LeavesNoVm'
    <2>1. ServingIsShown'
      BY <1>0, <1>4
      DEF Vm!Attach, Vm!Attached, Vm!Alive, Vm!Goto, Vm!ReleaseClaim, Vm!CleanRunDir, Vm!runDir, Vm!flows, Vm!session, Vm!TypeOK, Vm!SessionTypeOK, Vm!Flow, OwnsItsBoot, SpawnedOnce, OnlySpawnedAreKnown, Known, HaltsDialled, OnlyVm, Shown, Vm!Up, Vm!Settled, ServingIsShown, UnshownIsMute
    <2>2. UnshownIsMute'
      BY <1>0, <1>4
      DEF Vm!Attach, Vm!Attached, Vm!Alive, Vm!Goto, Vm!ReleaseClaim, Vm!CleanRunDir, Vm!runDir, Vm!flows, Vm!session, Vm!TypeOK, Vm!SessionTypeOK, Vm!Flow, OwnsItsBoot, SpawnedOnce, OnlySpawnedAreKnown, Known, HaltsDialled, OnlyVm, Shown, Vm!Up, Vm!Settled, UnshownIsMute
    <2>3. LeavesNoVm'
      BY <1>0, <1>4
      DEF Vm!Attach, Vm!Attached, Vm!Alive, Vm!Goto, Vm!ReleaseClaim, Vm!CleanRunDir, Vm!runDir, Vm!flows, Vm!session, Vm!TypeOK, Vm!SessionTypeOK, Vm!Flow, OwnsItsBoot, SpawnedOnce, OnlySpawnedAreKnown, Known, HaltsDialled, OnlyVm, Shown, Vm!Up, Vm!Settled, ServingIsShown, LeavesNoVm
    <2> QED
      BY <2>1, <2>2, <2>3
  <1>5. ASSUME NEW s \in Session, Vm!Poll(s) /\ UNCHANGED <<vm, Vm!runDir, Vm!flows>> PROVE ServingIsShown' /\ UnshownIsMute' /\ LeavesNoVm'
    <2>1. ServingIsShown'
      BY <1>0, <1>5
      DEF Vm!Poll, Vm!Alive, Vm!Goto, Vm!ReleaseClaim, Vm!CleanRunDir, Vm!runDir, Vm!flows, Vm!session, Vm!TypeOK, Vm!SessionTypeOK, Vm!Flow, OwnsItsBoot, SpawnedOnce, OnlySpawnedAreKnown, Known, HaltsDialled, OnlyVm, Shown, Vm!Up, Vm!Settled, ServingIsShown, UnshownIsMute
    <2>2. UnshownIsMute'
      BY <1>0, <1>5
      DEF Vm!Poll, Vm!Alive, Vm!Goto, Vm!ReleaseClaim, Vm!CleanRunDir, Vm!runDir, Vm!flows, Vm!session, Vm!TypeOK, Vm!SessionTypeOK, Vm!Flow, OwnsItsBoot, SpawnedOnce, OnlySpawnedAreKnown, Known, HaltsDialled, OnlyVm, Shown, Vm!Up, Vm!Settled, UnshownIsMute
    <2>3. LeavesNoVm'
      BY <1>0, <1>5
      DEF Vm!Poll, Vm!Alive, Vm!Goto, Vm!ReleaseClaim, Vm!CleanRunDir, Vm!runDir, Vm!flows, Vm!session, Vm!TypeOK, Vm!SessionTypeOK, Vm!Flow, OwnsItsBoot, SpawnedOnce, OnlySpawnedAreKnown, Known, HaltsDialled, OnlyVm, Shown, Vm!Up, Vm!Settled, ServingIsShown, LeavesNoVm
    <2> QED
      BY <2>1, <2>2, <2>3
  <1>6. ASSUME NEW s \in Session, Vm!Bundle(s) PROVE ServingIsShown' /\ UnshownIsMute' /\ LeavesNoVm'
    <2>1. ServingIsShown'
      BY <1>0, <1>6
      DEF Vm!Bundle, Vm!At, Vm!StepTo, Vm!Alive, Vm!Goto, Vm!ReleaseClaim, Vm!CleanRunDir, Vm!runDir, Vm!flows, Vm!session, Vm!TypeOK, Vm!SessionTypeOK, Vm!Flow, OwnsItsBoot, SpawnedOnce, OnlySpawnedAreKnown, Known, HaltsDialled, OnlyVm, Shown, Vm!Up, Vm!Settled, ServingIsShown, UnshownIsMute
    <2>2. UnshownIsMute'
      BY <1>0, <1>6
      DEF Vm!Bundle, Vm!At, Vm!StepTo, Vm!Alive, Vm!Goto, Vm!ReleaseClaim, Vm!CleanRunDir, Vm!runDir, Vm!flows, Vm!session, Vm!TypeOK, Vm!SessionTypeOK, Vm!Flow, OwnsItsBoot, SpawnedOnce, OnlySpawnedAreKnown, Known, HaltsDialled, OnlyVm, Shown, Vm!Up, Vm!Settled, UnshownIsMute
    <2>3. LeavesNoVm'
      BY <1>0, <1>6
      DEF Vm!Bundle, Vm!At, Vm!StepTo, Vm!Alive, Vm!Goto, Vm!ReleaseClaim, Vm!CleanRunDir, Vm!runDir, Vm!flows, Vm!session, Vm!TypeOK, Vm!SessionTypeOK, Vm!Flow, OwnsItsBoot, SpawnedOnce, OnlySpawnedAreKnown, Known, HaltsDialled, OnlyVm, Shown, Vm!Up, Vm!Settled, ServingIsShown, LeavesNoVm
    <2> QED
      BY <2>1, <2>2, <2>3
  <1>7. ASSUME NEW s \in Session, Vm!Spawn(s) PROVE ServingIsShown' /\ UnshownIsMute' /\ LeavesNoVm'
    <2>1. ServingIsShown'
      BY <1>0, <1>7
      DEF Vm!Spawn, Vm!At, Vm!StepTo, Vm!Alive, Vm!Goto, Vm!ReleaseClaim, Vm!CleanRunDir, Vm!runDir, Vm!flows, Vm!session, Vm!TypeOK, Vm!SessionTypeOK, Vm!Flow, OwnsItsBoot, SpawnedOnce, OnlySpawnedAreKnown, Known, HaltsDialled, OnlyVm, Shown, Vm!Up, Vm!Settled, ServingIsShown, UnshownIsMute
    <2>2. UnshownIsMute'
      BY <1>0, <1>7
      DEF Vm!Spawn, Vm!At, Vm!StepTo, Vm!Alive, Vm!Goto, Vm!ReleaseClaim, Vm!CleanRunDir, Vm!runDir, Vm!flows, Vm!session, Vm!TypeOK, Vm!SessionTypeOK, Vm!Flow, OwnsItsBoot, SpawnedOnce, OnlySpawnedAreKnown, Known, HaltsDialled, OnlyVm, Shown, Vm!Up, Vm!Settled, UnshownIsMute
    <2>3. LeavesNoVm'
      BY <1>0, <1>7
      DEF Vm!Spawn, Vm!At, Vm!StepTo, Vm!Alive, Vm!Goto, Vm!ReleaseClaim, Vm!CleanRunDir, Vm!runDir, Vm!flows, Vm!session, Vm!TypeOK, Vm!SessionTypeOK, Vm!Flow, OwnsItsBoot, SpawnedOnce, OnlySpawnedAreKnown, Known, HaltsDialled, OnlyVm, Shown, Vm!Up, Vm!Settled, ServingIsShown, LeavesNoVm
    <2> QED
      BY <2>1, <2>2, <2>3
  <1>8. ASSUME NEW s \in Session, Vm!WriteRecord(s) PROVE ServingIsShown' /\ UnshownIsMute' /\ LeavesNoVm'
    <2>1. ServingIsShown'
      BY <1>0, <1>8
      DEF Vm!WriteRecord, Vm!At, Vm!StepTo, Vm!Alive, Vm!Goto, Vm!ReleaseClaim, Vm!CleanRunDir, Vm!runDir, Vm!flows, Vm!session, Vm!TypeOK, Vm!SessionTypeOK, Vm!Flow, OwnsItsBoot, SpawnedOnce, OnlySpawnedAreKnown, Known, HaltsDialled, OnlyVm, Shown, Vm!Up, Vm!Settled, ServingIsShown, UnshownIsMute
    <2>2. UnshownIsMute'
      BY <1>0, <1>8
      DEF Vm!WriteRecord, Vm!At, Vm!StepTo, Vm!Alive, Vm!Goto, Vm!ReleaseClaim, Vm!CleanRunDir, Vm!runDir, Vm!flows, Vm!session, Vm!TypeOK, Vm!SessionTypeOK, Vm!Flow, OwnsItsBoot, SpawnedOnce, OnlySpawnedAreKnown, Known, HaltsDialled, OnlyVm, Shown, Vm!Up, Vm!Settled, UnshownIsMute
    <2>3. LeavesNoVm'
      BY <1>0, <1>8
      DEF Vm!WriteRecord, Vm!At, Vm!StepTo, Vm!Alive, Vm!Goto, Vm!ReleaseClaim, Vm!CleanRunDir, Vm!runDir, Vm!flows, Vm!session, Vm!TypeOK, Vm!SessionTypeOK, Vm!Flow, OwnsItsBoot, SpawnedOnce, OnlySpawnedAreKnown, Known, HaltsDialled, OnlyVm, Shown, Vm!Up, Vm!Settled, ServingIsShown, LeavesNoVm
    <2> QED
      BY <2>1, <2>2, <2>3
  <1>9. ASSUME NEW s \in Session, Vm!OpenControl(s) PROVE ServingIsShown' /\ UnshownIsMute' /\ LeavesNoVm'
    <2>1. ServingIsShown'
      BY <1>0, <1>9
      DEF Vm!OpenControl, Vm!At, Vm!StepTo, Vm!Answers, Vm!Alive, Vm!Goto, Vm!ReleaseClaim, Vm!CleanRunDir, Vm!runDir, Vm!flows, Vm!session, Vm!TypeOK, Vm!SessionTypeOK, Vm!Flow, OwnsItsBoot, SpawnedOnce, OnlySpawnedAreKnown, Known, HaltsDialled, OnlyVm, Shown, Vm!Up, Vm!Settled, ServingIsShown, UnshownIsMute
    <2>2. UnshownIsMute'
      BY <1>0, <1>9
      DEF Vm!OpenControl, Vm!At, Vm!StepTo, Vm!Answers, Vm!Alive, Vm!Goto, Vm!ReleaseClaim, Vm!CleanRunDir, Vm!runDir, Vm!flows, Vm!session, Vm!TypeOK, Vm!SessionTypeOK, Vm!Flow, OwnsItsBoot, SpawnedOnce, OnlySpawnedAreKnown, Known, HaltsDialled, OnlyVm, Shown, Vm!Up, Vm!Settled, UnshownIsMute
    <2>3. LeavesNoVm'
      BY <1>0, <1>9
      DEF Vm!OpenControl, Vm!At, Vm!StepTo, Vm!Answers, Vm!Alive, Vm!Goto, Vm!ReleaseClaim, Vm!CleanRunDir, Vm!runDir, Vm!flows, Vm!session, Vm!TypeOK, Vm!SessionTypeOK, Vm!Flow, OwnsItsBoot, SpawnedOnce, OnlySpawnedAreKnown, Known, HaltsDialled, OnlyVm, Shown, Vm!Up, Vm!Settled, ServingIsShown, LeavesNoVm
    <2> QED
      BY <2>1, <2>2, <2>3
  <1>10. ASSUME NEW s \in Session, Vm!AppsReady(s) PROVE ServingIsShown' /\ UnshownIsMute' /\ LeavesNoVm'
    <2>1. ServingIsShown'
      BY <1>0, <1>10
      DEF Vm!AppsReady, Vm!At, Vm!StepTo, Vm!Alive, Vm!Goto, Vm!ReleaseClaim, Vm!CleanRunDir, Vm!runDir, Vm!flows, Vm!session, Vm!TypeOK, Vm!SessionTypeOK, Vm!Flow, OwnsItsBoot, SpawnedOnce, OnlySpawnedAreKnown, Known, HaltsDialled, OnlyVm, Shown, Vm!Up, Vm!Settled, ServingIsShown, UnshownIsMute
    <2>2. UnshownIsMute'
      BY <1>0, <1>10
      DEF Vm!AppsReady, Vm!At, Vm!StepTo, Vm!Alive, Vm!Goto, Vm!ReleaseClaim, Vm!CleanRunDir, Vm!runDir, Vm!flows, Vm!session, Vm!TypeOK, Vm!SessionTypeOK, Vm!Flow, OwnsItsBoot, SpawnedOnce, OnlySpawnedAreKnown, Known, HaltsDialled, OnlyVm, Shown, Vm!Up, Vm!Settled, UnshownIsMute
    <2>3. LeavesNoVm'
      BY <1>0, <1>10
      DEF Vm!AppsReady, Vm!At, Vm!StepTo, Vm!Alive, Vm!Goto, Vm!ReleaseClaim, Vm!CleanRunDir, Vm!runDir, Vm!flows, Vm!session, Vm!TypeOK, Vm!SessionTypeOK, Vm!Flow, OwnsItsBoot, SpawnedOnce, OnlySpawnedAreKnown, Known, HaltsDialled, OnlyVm, Shown, Vm!Up, Vm!Settled, ServingIsShown, LeavesNoVm
    <2> QED
      BY <2>1, <2>2, <2>3
  <1>11. ASSUME NEW s \in Session, Vm!Connect(s) PROVE ServingIsShown' /\ UnshownIsMute' /\ LeavesNoVm'
    <2>1. ServingIsShown'
      BY <1>0, <1>11
      DEF Vm!Connect, Vm!At, Vm!Booted, Vm!Alive, Vm!Goto, Vm!ReleaseClaim, Vm!CleanRunDir, Vm!runDir, Vm!flows, Vm!session, Vm!TypeOK, Vm!SessionTypeOK, Vm!Flow, OwnsItsBoot, SpawnedOnce, OnlySpawnedAreKnown, Known, HaltsDialled, OnlyVm, Shown, Vm!Up, Vm!Settled, ServingIsShown, UnshownIsMute
    <2>2. UnshownIsMute'
      BY <1>0, <1>11
      DEF Vm!Connect, Vm!At, Vm!Booted, Vm!Alive, Vm!Goto, Vm!ReleaseClaim, Vm!CleanRunDir, Vm!runDir, Vm!flows, Vm!session, Vm!TypeOK, Vm!SessionTypeOK, Vm!Flow, OwnsItsBoot, SpawnedOnce, OnlySpawnedAreKnown, Known, HaltsDialled, OnlyVm, Shown, Vm!Up, Vm!Settled, UnshownIsMute
    <2>3. LeavesNoVm'
      BY <1>0, <1>11
      DEF Vm!Connect, Vm!At, Vm!Booted, Vm!Alive, Vm!Goto, Vm!ReleaseClaim, Vm!CleanRunDir, Vm!runDir, Vm!flows, Vm!session, Vm!TypeOK, Vm!SessionTypeOK, Vm!Flow, OwnsItsBoot, SpawnedOnce, OnlySpawnedAreKnown, Known, HaltsDialled, OnlyVm, Shown, Vm!Up, Vm!Settled, ServingIsShown, LeavesNoVm
    <2> QED
      BY <2>1, <2>2, <2>3
  <1>12. ASSUME NEW s \in Session, Vm!BootFails(s) PROVE ServingIsShown' /\ UnshownIsMute' /\ LeavesNoVm'
    <2>1. ServingIsShown'
      BY <1>0, <1>12
      DEF Vm!BootFails, Vm!BootThrows, Vm!Alive, Vm!Goto, Vm!ReleaseClaim, Vm!CleanRunDir, Vm!runDir, Vm!flows, Vm!session, Vm!TypeOK, Vm!SessionTypeOK, Vm!Flow, OwnsItsBoot, SpawnedOnce, OnlySpawnedAreKnown, Known, HaltsDialled, OnlyVm, Shown, Vm!Up, Vm!Settled, ServingIsShown, UnshownIsMute
    <2>2. UnshownIsMute'
      BY <1>0, <1>12
      DEF Vm!BootFails, Vm!BootThrows, Vm!Alive, Vm!Goto, Vm!ReleaseClaim, Vm!CleanRunDir, Vm!runDir, Vm!flows, Vm!session, Vm!TypeOK, Vm!SessionTypeOK, Vm!Flow, OwnsItsBoot, SpawnedOnce, OnlySpawnedAreKnown, Known, HaltsDialled, OnlyVm, Shown, Vm!Up, Vm!Settled, UnshownIsMute
    <2>3. LeavesNoVm'
      BY <1>0, <1>12
      DEF Vm!BootFails, Vm!BootThrows, Vm!Alive, Vm!Goto, Vm!ReleaseClaim, Vm!CleanRunDir, Vm!runDir, Vm!flows, Vm!session, Vm!TypeOK, Vm!SessionTypeOK, Vm!Flow, OwnsItsBoot, SpawnedOnce, OnlySpawnedAreKnown, Known, HaltsDialled, OnlyVm, Shown, Vm!Up, Vm!Settled, ServingIsShown, LeavesNoVm
    <2> QED
      BY <2>1, <2>2, <2>3
  <1>13. ASSUME NEW s \in Session, Vm!StartFails(s) PROVE ServingIsShown' /\ UnshownIsMute' /\ LeavesNoVm'
    <2>1. ServingIsShown'
      BY <1>0, <1>13
      DEF Vm!StartFails, Vm!At, Vm!StepTo, Vm!Alive, Vm!Goto, Vm!ReleaseClaim, Vm!CleanRunDir, Vm!runDir, Vm!flows, Vm!session, Vm!TypeOK, Vm!SessionTypeOK, Vm!Flow, OwnsItsBoot, SpawnedOnce, OnlySpawnedAreKnown, Known, HaltsDialled, OnlyVm, Shown, Vm!Up, Vm!Settled, ServingIsShown, UnshownIsMute
    <2>2. UnshownIsMute'
      BY <1>0, <1>13
      DEF Vm!StartFails, Vm!At, Vm!StepTo, Vm!Alive, Vm!Goto, Vm!ReleaseClaim, Vm!CleanRunDir, Vm!runDir, Vm!flows, Vm!session, Vm!TypeOK, Vm!SessionTypeOK, Vm!Flow, OwnsItsBoot, SpawnedOnce, OnlySpawnedAreKnown, Known, HaltsDialled, OnlyVm, Shown, Vm!Up, Vm!Settled, UnshownIsMute
    <2>3. LeavesNoVm'
      BY <1>0, <1>13
      DEF Vm!StartFails, Vm!At, Vm!StepTo, Vm!Alive, Vm!Goto, Vm!ReleaseClaim, Vm!CleanRunDir, Vm!runDir, Vm!flows, Vm!session, Vm!TypeOK, Vm!SessionTypeOK, Vm!Flow, OwnsItsBoot, SpawnedOnce, OnlySpawnedAreKnown, Known, HaltsDialled, OnlyVm, Shown, Vm!Up, Vm!Settled, ServingIsShown, LeavesNoVm
    <2> QED
      BY <2>1, <2>2, <2>3
  <1>14. ASSUME NEW s \in Session, Vm!Undo(s) PROVE ServingIsShown' /\ UnshownIsMute' /\ LeavesNoVm'
    <2>1. ServingIsShown'
      BY <1>0, <1>14
      DEF Vm!Undo, Vm!At, Vm!BootThrows, Vm!Alive, Vm!Goto, Vm!ReleaseClaim, Vm!CleanRunDir, Vm!runDir, Vm!flows, Vm!session, Vm!TypeOK, Vm!SessionTypeOK, Vm!Flow, OwnsItsBoot, SpawnedOnce, OnlySpawnedAreKnown, Known, HaltsDialled, OnlyVm, Shown, Vm!Up, Vm!Settled, ServingIsShown, UnshownIsMute
    <2>2. UnshownIsMute'
      BY <1>0, <1>14
      DEF Vm!Undo, Vm!At, Vm!BootThrows, Vm!Alive, Vm!Goto, Vm!ReleaseClaim, Vm!CleanRunDir, Vm!runDir, Vm!flows, Vm!session, Vm!TypeOK, Vm!SessionTypeOK, Vm!Flow, OwnsItsBoot, SpawnedOnce, OnlySpawnedAreKnown, Known, HaltsDialled, OnlyVm, Shown, Vm!Up, Vm!Settled, UnshownIsMute
    <2>3. LeavesNoVm'
      BY <1>0, <1>14
      DEF Vm!Undo, Vm!At, Vm!BootThrows, Vm!Alive, Vm!Goto, Vm!ReleaseClaim, Vm!CleanRunDir, Vm!runDir, Vm!flows, Vm!session, Vm!TypeOK, Vm!SessionTypeOK, Vm!Flow, OwnsItsBoot, SpawnedOnce, OnlySpawnedAreKnown, Known, HaltsDialled, OnlyVm, Shown, Vm!Up, Vm!Settled, ServingIsShown, LeavesNoVm
    <2> QED
      BY <2>1, <2>2, <2>3
  <1>15. ASSUME NEW s \in Session, NEW f \in Vm!Flow, Vm!HaltNothing(s, f) PROVE ServingIsShown' /\ UnshownIsMute' /\ LeavesNoVm'
    <2>1. ServingIsShown'
      BY <1>0, <1>15
      DEF Vm!HaltNothing, Vm!Dials, Vm!NothingThere, Vm!Stale, Vm!Named, Vm!Up, Vm!HaltAt, Vm!Halting, Vm!HaltReturns, Vm!CleanedUp, Vm!Stopped, Vm!Ends, Vm!Memory, Vm!Alive, Vm!Goto, Vm!ReleaseClaim, Vm!CleanRunDir, Vm!runDir, Vm!flows, Vm!session, Vm!TypeOK, Vm!SessionTypeOK, Vm!Flow, OwnsItsBoot, SpawnedOnce, OnlySpawnedAreKnown, Known, HaltsDialled, OnlyVm, Shown, Vm!Settled, ServingIsShown, UnshownIsMute
    <2>2. UnshownIsMute'
      BY <1>0, <1>15
      DEF Vm!HaltNothing, Vm!Dials, Vm!NothingThere, Vm!Stale, Vm!Named, Vm!Up, Vm!HaltAt, Vm!Halting, Vm!HaltReturns, Vm!CleanedUp, Vm!Stopped, Vm!Ends, Vm!Memory, Vm!Alive, Vm!Goto, Vm!ReleaseClaim, Vm!CleanRunDir, Vm!runDir, Vm!flows, Vm!session, Vm!TypeOK, Vm!SessionTypeOK, Vm!Flow, OwnsItsBoot, SpawnedOnce, OnlySpawnedAreKnown, Known, HaltsDialled, OnlyVm, Shown, Vm!Settled, UnshownIsMute
    <2>3. LeavesNoVm'
      BY <1>0, <1>15
      DEF Vm!HaltNothing, Vm!Dials, Vm!NothingThere, Vm!Stale, Vm!Named, Vm!Up, Vm!HaltAt, Vm!Halting, Vm!HaltReturns, Vm!CleanedUp, Vm!Stopped, Vm!Ends, Vm!Memory, Vm!Alive, Vm!Goto, Vm!ReleaseClaim, Vm!CleanRunDir, Vm!runDir, Vm!flows, Vm!session, Vm!TypeOK, Vm!SessionTypeOK, Vm!Flow, OwnsItsBoot, SpawnedOnce, OnlySpawnedAreKnown, Known, HaltsDialled, OnlyVm, Shown, Vm!Settled, ServingIsShown, LeavesNoVm
    <2> QED
      BY <2>1, <2>2, <2>3
  <1>16. ASSUME NEW s \in Session, NEW f \in Vm!Flow, Vm!HaltDials(s, f) PROVE ServingIsShown' /\ UnshownIsMute' /\ LeavesNoVm'
    <2>1. ServingIsShown'
      BY <1>0, <1>16
      DEF Vm!HaltDials, Vm!Dials, Vm!NothingThere, Vm!Stale, Vm!Named, Vm!Up, Vm!HaltAt, Vm!Halting, Vm!Alive, Vm!Goto, Vm!ReleaseClaim, Vm!CleanRunDir, Vm!runDir, Vm!flows, Vm!session, Vm!TypeOK, Vm!SessionTypeOK, Vm!Flow, OwnsItsBoot, SpawnedOnce, OnlySpawnedAreKnown, Known, HaltsDialled, OnlyVm, Shown, Vm!Settled, ServingIsShown, UnshownIsMute
    <2>2. UnshownIsMute'
      BY <1>0, <1>16
      DEF Vm!HaltDials, Vm!Dials, Vm!NothingThere, Vm!Stale, Vm!Named, Vm!Up, Vm!HaltAt, Vm!Halting, Vm!Alive, Vm!Goto, Vm!ReleaseClaim, Vm!CleanRunDir, Vm!runDir, Vm!flows, Vm!session, Vm!TypeOK, Vm!SessionTypeOK, Vm!Flow, OwnsItsBoot, SpawnedOnce, OnlySpawnedAreKnown, Known, HaltsDialled, OnlyVm, Shown, Vm!Settled, UnshownIsMute
    <2>3. LeavesNoVm'
      BY <1>0, <1>16
      DEF Vm!HaltDials, Vm!Dials, Vm!NothingThere, Vm!Stale, Vm!Named, Vm!Up, Vm!HaltAt, Vm!Halting, Vm!Alive, Vm!Goto, Vm!ReleaseClaim, Vm!CleanRunDir, Vm!runDir, Vm!flows, Vm!session, Vm!TypeOK, Vm!SessionTypeOK, Vm!Flow, OwnsItsBoot, SpawnedOnce, OnlySpawnedAreKnown, Known, HaltsDialled, OnlyVm, Shown, Vm!Settled, ServingIsShown, LeavesNoVm
    <2> QED
      BY <2>1, <2>2, <2>3
  <1>17. ASSUME NEW s \in Session, NEW f \in Vm!Flow, Vm!HaltDialled(s, f) PROVE ServingIsShown' /\ UnshownIsMute' /\ LeavesNoVm'
    <2>1. ServingIsShown'
      BY <1>0, <1>17
      DEF Vm!HaltDialled, Vm!Answers, Vm!Up, Vm!HaltAt, Vm!Halting, Vm!HaltReturns, Vm!CleanedUp, Vm!Stopped, Vm!Ends, Vm!Memory, Vm!Alive, Vm!Goto, Vm!ReleaseClaim, Vm!CleanRunDir, Vm!runDir, Vm!flows, Vm!session, Vm!TypeOK, Vm!SessionTypeOK, Vm!Flow, OwnsItsBoot, SpawnedOnce, OnlySpawnedAreKnown, Known, HaltsDialled, OnlyVm, Shown, Vm!Settled, ServingIsShown, UnshownIsMute
    <2>2. UnshownIsMute'
      BY <1>0, <1>17
      DEF Vm!HaltDialled, Vm!Answers, Vm!Up, Vm!HaltAt, Vm!Halting, Vm!HaltReturns, Vm!CleanedUp, Vm!Stopped, Vm!Ends, Vm!Memory, Vm!Alive, Vm!Goto, Vm!ReleaseClaim, Vm!CleanRunDir, Vm!runDir, Vm!flows, Vm!session, Vm!TypeOK, Vm!SessionTypeOK, Vm!Flow, OwnsItsBoot, SpawnedOnce, OnlySpawnedAreKnown, Known, HaltsDialled, OnlyVm, Shown, Vm!Settled, UnshownIsMute
    <2>3. LeavesNoVm'
      BY <1>0, <1>17
      DEF Vm!HaltDialled, Vm!Answers, Vm!Up, Vm!HaltAt, Vm!Halting, Vm!HaltReturns, Vm!CleanedUp, Vm!Stopped, Vm!Ends, Vm!Memory, Vm!Alive, Vm!Goto, Vm!ReleaseClaim, Vm!CleanRunDir, Vm!runDir, Vm!flows, Vm!session, Vm!TypeOK, Vm!SessionTypeOK, Vm!Flow, OwnsItsBoot, SpawnedOnce, OnlySpawnedAreKnown, Known, HaltsDialled, OnlyVm, Shown, Vm!Settled, ServingIsShown, LeavesNoVm
    <2> QED
      BY <2>1, <2>2, <2>3
  <1>18. ASSUME NEW s \in Session, NEW f \in Vm!Flow, Vm!HaltStop(s, f) PROVE ServingIsShown' /\ UnshownIsMute' /\ LeavesNoVm'
    <2>1. ServingIsShown'
      BY <1>0, <1>18
      DEF Vm!HaltStop, Vm!HaltAt, Vm!Halting, Vm!HaltReturns, Vm!CleanedUp, Vm!Stopped, Vm!Ends, Vm!Memory, Vm!Alive, Vm!Goto, Vm!ReleaseClaim, Vm!CleanRunDir, Vm!runDir, Vm!flows, Vm!session, Vm!TypeOK, Vm!SessionTypeOK, Vm!Flow, OwnsItsBoot, SpawnedOnce, OnlySpawnedAreKnown, Known, HaltsDialled, OnlyVm, Shown, Vm!Up, Vm!Settled, ServingIsShown, UnshownIsMute
    <2>2. UnshownIsMute'
      BY <1>0, <1>18
      DEF Vm!HaltStop, Vm!HaltAt, Vm!Halting, Vm!HaltReturns, Vm!CleanedUp, Vm!Stopped, Vm!Ends, Vm!Memory, Vm!Alive, Vm!Goto, Vm!ReleaseClaim, Vm!CleanRunDir, Vm!runDir, Vm!flows, Vm!session, Vm!TypeOK, Vm!SessionTypeOK, Vm!Flow, OwnsItsBoot, SpawnedOnce, OnlySpawnedAreKnown, Known, HaltsDialled, OnlyVm, Shown, Vm!Up, Vm!Settled, UnshownIsMute
    <2>3. LeavesNoVm'
      BY <1>0, <1>18
      DEF Vm!HaltStop, Vm!HaltAt, Vm!Halting, Vm!HaltReturns, Vm!CleanedUp, Vm!Stopped, Vm!Ends, Vm!Memory, Vm!Alive, Vm!Goto, Vm!ReleaseClaim, Vm!CleanRunDir, Vm!runDir, Vm!flows, Vm!session, Vm!TypeOK, Vm!SessionTypeOK, Vm!Flow, OwnsItsBoot, SpawnedOnce, OnlySpawnedAreKnown, Known, HaltsDialled, OnlyVm, Shown, Vm!Up, Vm!Settled, ServingIsShown, LeavesNoVm
    <2> QED
      BY <2>1, <2>2, <2>3
  <1>19. ASSUME NEW s \in Session, Vm!Begin(s) /\ Vm!Memory(s) /\ UNCHANGED <<vm, Vm!runDir>> PROVE ServingIsShown' /\ UnshownIsMute' /\ LeavesNoVm'
    <2>1. ServingIsShown'
      BY <1>0, <1>19
      DEF Vm!Begin, Vm!Memory, Vm!Alive, Vm!Goto, Vm!ReleaseClaim, Vm!CleanRunDir, Vm!runDir, Vm!flows, Vm!session, Vm!TypeOK, Vm!SessionTypeOK, Vm!Flow, OwnsItsBoot, SpawnedOnce, OnlySpawnedAreKnown, Known, HaltsDialled, OnlyVm, Shown, Vm!Up, Vm!Settled, ServingIsShown, UnshownIsMute
    <2>2. UnshownIsMute'
      BY <1>0, <1>19
      DEF Vm!Begin, Vm!Memory, Vm!Alive, Vm!Goto, Vm!ReleaseClaim, Vm!CleanRunDir, Vm!runDir, Vm!flows, Vm!session, Vm!TypeOK, Vm!SessionTypeOK, Vm!Flow, OwnsItsBoot, SpawnedOnce, OnlySpawnedAreKnown, Known, HaltsDialled, OnlyVm, Shown, Vm!Up, Vm!Settled, UnshownIsMute
    <2>3. LeavesNoVm'
      BY <1>0, <1>19
      DEF Vm!Begin, Vm!Memory, Vm!Alive, Vm!Goto, Vm!ReleaseClaim, Vm!CleanRunDir, Vm!runDir, Vm!flows, Vm!session, Vm!TypeOK, Vm!SessionTypeOK, Vm!Flow, OwnsItsBoot, SpawnedOnce, OnlySpawnedAreKnown, Known, HaltsDialled, OnlyVm, Shown, Vm!Up, Vm!Settled, ServingIsShown, LeavesNoVm
    <2> QED
      BY <2>1, <2>2, <2>3
  <1>20. ASSUME NEW s \in Session, Vm!Stop(s) /\ Vm!Memory(s) /\ UNCHANGED <<vm, Vm!runDir>> PROVE ServingIsShown' /\ UnshownIsMute' /\ LeavesNoVm'
    <2>1. ServingIsShown'
      BY <1>0, <1>20
      DEF Vm!Stop, Vm!Memory, Vm!Ends, Vm!Alive, Vm!Goto, Vm!ReleaseClaim, Vm!CleanRunDir, Vm!runDir, Vm!flows, Vm!session, Vm!TypeOK, Vm!SessionTypeOK, Vm!Flow, OwnsItsBoot, SpawnedOnce, OnlySpawnedAreKnown, Known, HaltsDialled, OnlyVm, Shown, Vm!Up, Vm!Settled, ServingIsShown, UnshownIsMute
    <2>2. UnshownIsMute'
      BY <1>0, <1>20
      DEF Vm!Stop, Vm!Memory, Vm!Ends, Vm!Alive, Vm!Goto, Vm!ReleaseClaim, Vm!CleanRunDir, Vm!runDir, Vm!flows, Vm!session, Vm!TypeOK, Vm!SessionTypeOK, Vm!Flow, OwnsItsBoot, SpawnedOnce, OnlySpawnedAreKnown, Known, HaltsDialled, OnlyVm, Shown, Vm!Up, Vm!Settled, UnshownIsMute
    <2>3. LeavesNoVm'
      BY <1>0, <1>20
      DEF Vm!Stop, Vm!Memory, Vm!Ends, Vm!Alive, Vm!Goto, Vm!ReleaseClaim, Vm!CleanRunDir, Vm!runDir, Vm!flows, Vm!session, Vm!TypeOK, Vm!SessionTypeOK, Vm!Flow, OwnsItsBoot, SpawnedOnce, OnlySpawnedAreKnown, Known, HaltsDialled, OnlyVm, Shown, Vm!Up, Vm!Settled, ServingIsShown, LeavesNoVm
    <2> QED
      BY <2>1, <2>2, <2>3
  <1>21. ASSUME NEW s \in Session, Vm!BootSettles(s) /\ Vm!Memory(s) /\ UNCHANGED <<vm, Vm!runDir>> PROVE ServingIsShown' /\ UnshownIsMute' /\ LeavesNoVm'
    <2>1. ServingIsShown'
      BY <1>0, <1>21
      DEF Vm!BootSettles, Vm!Memory, Vm!Alive, Vm!Goto, Vm!ReleaseClaim, Vm!CleanRunDir, Vm!runDir, Vm!flows, Vm!session, Vm!TypeOK, Vm!SessionTypeOK, Vm!Flow, OwnsItsBoot, SpawnedOnce, OnlySpawnedAreKnown, Known, HaltsDialled, OnlyVm, Shown, Vm!Up, Vm!Settled, ServingIsShown, UnshownIsMute
    <2>2. UnshownIsMute'
      BY <1>0, <1>21
      DEF Vm!BootSettles, Vm!Memory, Vm!Alive, Vm!Goto, Vm!ReleaseClaim, Vm!CleanRunDir, Vm!runDir, Vm!flows, Vm!session, Vm!TypeOK, Vm!SessionTypeOK, Vm!Flow, OwnsItsBoot, SpawnedOnce, OnlySpawnedAreKnown, Known, HaltsDialled, OnlyVm, Shown, Vm!Up, Vm!Settled, UnshownIsMute
    <2>3. LeavesNoVm'
      BY <1>0, <1>21
      DEF Vm!BootSettles, Vm!Memory, Vm!Alive, Vm!Goto, Vm!ReleaseClaim, Vm!CleanRunDir, Vm!runDir, Vm!flows, Vm!session, Vm!TypeOK, Vm!SessionTypeOK, Vm!Flow, OwnsItsBoot, SpawnedOnce, OnlySpawnedAreKnown, Known, HaltsDialled, OnlyVm, Shown, Vm!Up, Vm!Settled, ServingIsShown, LeavesNoVm
    <2> QED
      BY <2>1, <2>2, <2>3
  <1>22. ASSUME NEW s \in Session, Vm!Kill(s) /\ Vm!Memory(s) /\ UNCHANGED <<vm, Vm!runDir>> PROVE ServingIsShown' /\ UnshownIsMute' /\ LeavesNoVm'
    <2>1. ServingIsShown'
      BY <1>0, <1>22
      DEF Vm!Kill, Vm!Memory, Vm!Ends, Vm!Alive, Vm!Goto, Vm!ReleaseClaim, Vm!CleanRunDir, Vm!runDir, Vm!flows, Vm!session, Vm!TypeOK, Vm!SessionTypeOK, Vm!Flow, OwnsItsBoot, SpawnedOnce, OnlySpawnedAreKnown, Known, HaltsDialled, OnlyVm, Shown, Vm!Up, Vm!Settled, ServingIsShown, UnshownIsMute
    <2>2. UnshownIsMute'
      BY <1>0, <1>22
      DEF Vm!Kill, Vm!Memory, Vm!Ends, Vm!Alive, Vm!Goto, Vm!ReleaseClaim, Vm!CleanRunDir, Vm!runDir, Vm!flows, Vm!session, Vm!TypeOK, Vm!SessionTypeOK, Vm!Flow, OwnsItsBoot, SpawnedOnce, OnlySpawnedAreKnown, Known, HaltsDialled, OnlyVm, Shown, Vm!Up, Vm!Settled, UnshownIsMute
    <2>3. LeavesNoVm'
      BY <1>0, <1>22
      DEF Vm!Kill, Vm!Memory, Vm!Ends, Vm!Alive, Vm!Goto, Vm!ReleaseClaim, Vm!CleanRunDir, Vm!runDir, Vm!flows, Vm!session, Vm!TypeOK, Vm!SessionTypeOK, Vm!Flow, OwnsItsBoot, SpawnedOnce, OnlySpawnedAreKnown, Known, HaltsDialled, OnlyVm, Shown, Vm!Up, Vm!Settled, ServingIsShown, LeavesNoVm
    <2> QED
      BY <2>1, <2>2, <2>3
  <1>23. ASSUME NEW s \in Session, Vm!VmMeasures(s) PROVE ServingIsShown' /\ UnshownIsMute' /\ LeavesNoVm'
    <2>1. ServingIsShown'
      BY <1>0, <1>23
      DEF Vm!VmMeasures, Vm!Alive, Vm!Goto, Vm!ReleaseClaim, Vm!CleanRunDir, Vm!runDir, Vm!flows, Vm!session, Vm!TypeOK, Vm!SessionTypeOK, Vm!Flow, OwnsItsBoot, SpawnedOnce, OnlySpawnedAreKnown, Known, HaltsDialled, OnlyVm, Shown, Vm!Up, Vm!Settled, ServingIsShown, UnshownIsMute
    <2>2. UnshownIsMute'
      BY <1>0, <1>23
      DEF Vm!VmMeasures, Vm!Alive, Vm!Goto, Vm!ReleaseClaim, Vm!CleanRunDir, Vm!runDir, Vm!flows, Vm!session, Vm!TypeOK, Vm!SessionTypeOK, Vm!Flow, OwnsItsBoot, SpawnedOnce, OnlySpawnedAreKnown, Known, HaltsDialled, OnlyVm, Shown, Vm!Up, Vm!Settled, UnshownIsMute
    <2>3. LeavesNoVm'
      BY <1>0, <1>23
      DEF Vm!VmMeasures, Vm!Alive, Vm!Goto, Vm!ReleaseClaim, Vm!CleanRunDir, Vm!runDir, Vm!flows, Vm!session, Vm!TypeOK, Vm!SessionTypeOK, Vm!Flow, OwnsItsBoot, SpawnedOnce, OnlySpawnedAreKnown, Known, HaltsDialled, OnlyVm, Shown, Vm!Up, Vm!Settled, ServingIsShown, LeavesNoVm
    <2> QED
      BY <2>1, <2>2, <2>3
  <1>24. ASSUME NEW s \in Session, Vm!VmServes(s) PROVE ServingIsShown' /\ UnshownIsMute' /\ LeavesNoVm'
    <2>1. ServingIsShown'
      BY <1>0, <1>24
      DEF Vm!VmServes, Vm!Alive, Vm!Goto, Vm!ReleaseClaim, Vm!CleanRunDir, Vm!runDir, Vm!flows, Vm!session, Vm!TypeOK, Vm!SessionTypeOK, Vm!Flow, OwnsItsBoot, SpawnedOnce, OnlySpawnedAreKnown, Known, HaltsDialled, OnlyVm, Shown, Vm!Up, Vm!Settled, ServingIsShown, UnshownIsMute
    <2>2. UnshownIsMute'
      BY <1>0, <1>24
      DEF Vm!VmServes, Vm!Alive, Vm!Goto, Vm!ReleaseClaim, Vm!CleanRunDir, Vm!runDir, Vm!flows, Vm!session, Vm!TypeOK, Vm!SessionTypeOK, Vm!Flow, OwnsItsBoot, SpawnedOnce, OnlySpawnedAreKnown, Known, HaltsDialled, OnlyVm, Shown, Vm!Up, Vm!Settled, UnshownIsMute
    <2>3. LeavesNoVm'
      BY <1>0, <1>24
      DEF Vm!VmServes, Vm!Alive, Vm!Goto, Vm!ReleaseClaim, Vm!CleanRunDir, Vm!runDir, Vm!flows, Vm!session, Vm!TypeOK, Vm!SessionTypeOK, Vm!Flow, OwnsItsBoot, SpawnedOnce, OnlySpawnedAreKnown, Known, HaltsDialled, OnlyVm, Shown, Vm!Up, Vm!Settled, ServingIsShown, LeavesNoVm
    <2> QED
      BY <2>1, <2>2, <2>3
  <1>25. ASSUME NEW s \in Session, Vm!VmExits(s) PROVE ServingIsShown' /\ UnshownIsMute' /\ LeavesNoVm'
    <2>1. ServingIsShown'
      BY <1>0, <1>25
      DEF Vm!VmExits, Vm!Up, Vm!Alive, Vm!Goto, Vm!ReleaseClaim, Vm!CleanRunDir, Vm!runDir, Vm!flows, Vm!session, Vm!TypeOK, Vm!SessionTypeOK, Vm!Flow, OwnsItsBoot, SpawnedOnce, OnlySpawnedAreKnown, Known, HaltsDialled, OnlyVm, Shown, Vm!Settled, ServingIsShown, UnshownIsMute
    <2>2. UnshownIsMute'
      BY <1>0, <1>25
      DEF Vm!VmExits, Vm!Up, Vm!Alive, Vm!Goto, Vm!ReleaseClaim, Vm!CleanRunDir, Vm!runDir, Vm!flows, Vm!session, Vm!TypeOK, Vm!SessionTypeOK, Vm!Flow, OwnsItsBoot, SpawnedOnce, OnlySpawnedAreKnown, Known, HaltsDialled, OnlyVm, Shown, Vm!Settled, UnshownIsMute
    <2>3. LeavesNoVm'
      BY <1>0, <1>25
      DEF Vm!VmExits, Vm!Up, Vm!Alive, Vm!Goto, Vm!ReleaseClaim, Vm!CleanRunDir, Vm!runDir, Vm!flows, Vm!session, Vm!TypeOK, Vm!SessionTypeOK, Vm!Flow, OwnsItsBoot, SpawnedOnce, OnlySpawnedAreKnown, Known, HaltsDialled, OnlyVm, Shown, Vm!Settled, ServingIsShown, LeavesNoVm
    <2> QED
      BY <2>1, <2>2, <2>3
  <1> QED
    BY <1>1, <1>2, <1>3, <1>4, <1>5, <1>6, <1>7, <1>8, <1>9, <1>10, <1>11, <1>12, <1>13, <1>14, <1>15, <1>16, <1>17, <1>18, <1>19, <1>20, <1>21, <1>22, <1>23, <1>24, <1>25 DEF Vm!Next, Vm!Steps, Vm!Halts

LEMMA VmAloneKept ==
  ASSUME VmAssumption, VmInv, Vm!Next
  PROVE  DiskGoes' /\ BootsAlone' /\ OneOfTwo'
  <1>0. None \notin Session /\ ~SettleTimesOut /\ Vm!TypeOK /\ HasClaim /\ OwnsItsBoot /\ SpawnedOnce /\ OnlySpawnedAreKnown /\ HaltsDialled /\ ServingIsShown /\ UnshownIsMute /\ LeavesNoVm /\ DiskGoes /\ BootsAlone /\ OneOfTwo
    BY DEF VmInv, VmBase, VmAssumption
  <1>1. ASSUME NEW s \in Session, Vm!FindNothing(s) PROVE DiskGoes' /\ BootsAlone' /\ OneOfTwo'
    <2>1. DiskGoes'
      BY <1>0, <1>1
      DEF Vm!FindNothing, Vm!FindIdle, Vm!Dials, Vm!NothingThere, Vm!Stale, Vm!Named, Vm!Up, Vm!Looked, Vm!LookedAgain, Vm!Alive, Vm!Goto, Vm!ReleaseClaim, Vm!CleanRunDir, Vm!runDir, Vm!flows, Vm!session, Vm!TypeOK, Vm!SessionTypeOK, Vm!Flow, DiskGoes, OwnsItsBoot, SpawnedOnce, OnlySpawnedAreKnown, Known
    <2>2. BootsAlone'
      <3>1. ASSUME NEW t \in Session, t # s, NoKills, OnlyTwo(s, t), main[s] = "claimed", Vm!Up(t) PROVE Vm!Dials
        <4>1. OnlyVm(t)
          BY <1>0, <3>1 DEF OnlyVm, OnlyTwo, SpawnedOnce, OwnsItsBoot
        <4>2. life[t] # "killed" /\ main[t] # "boot"
          BY <1>0, <3>1 DEF NoKills, HasClaim
        <4>3. record = t
          BY <1>0, <3>1, <4>1, <4>2 DEF ServingIsShown, Shown
        <4> QED
          BY <1>0, <3>1, <4>3 DEF Vm!Dials, Vm!NothingThere, Vm!Stale, Vm!Named
      <3>2. /\ UNCHANGED <<life, vm, step>> /\ ~Vm!Dials
            /\ \A u \in Session : main'[u] # main[u] => u = s
            /\ main'[s] = "boot" => main[s] = "claimed"
        BY <1>0, <1>1 DEF Vm!FindNothing, Vm!FindIdle, Vm!Dials, Vm!Looked, Vm!LookedAgain, Vm!Goto, Vm!flows, Vm!TypeOK, Vm!SessionTypeOK
      <3> QED
        BY <1>0, <3>1, <3>2 DEF BootsAlone, NoKills, OnlyTwo, Vm!Up
    <2>3. OneOfTwo'
      BY <1>0, <1>1
      DEF Vm!FindNothing, Vm!FindIdle, Vm!Dials, Vm!NothingThere, Vm!Stale, Vm!Named, Vm!Up, Vm!Looked, Vm!LookedAgain, Vm!Alive, Vm!Goto, Vm!ReleaseClaim, Vm!CleanRunDir, Vm!runDir, Vm!flows, Vm!session, Vm!TypeOK, Vm!SessionTypeOK, Vm!Flow, OneOfTwo, BootsAlone, NoKills, OnlyTwo
    <2> QED
      BY <2>1, <2>2, <2>3
  <1>2. ASSUME NEW s \in Session, Vm!FindDials(s) PROVE DiskGoes' /\ BootsAlone' /\ OneOfTwo'
    <2>1. DiskGoes'
      BY <1>0, <1>2
      DEF Vm!FindDials, Vm!FindIdle, Vm!Dials, Vm!NothingThere, Vm!Stale, Vm!Named, Vm!Up, Vm!Alive, Vm!Goto, Vm!ReleaseClaim, Vm!CleanRunDir, Vm!runDir, Vm!flows, Vm!session, Vm!TypeOK, Vm!SessionTypeOK, Vm!Flow, DiskGoes, OwnsItsBoot, SpawnedOnce, OnlySpawnedAreKnown, Known
    <2>2. BootsAlone'
      BY <1>0, <1>2
      DEF Vm!FindDials, Vm!FindIdle, Vm!Dials, Vm!NothingThere, Vm!Stale, Vm!Named, Vm!Up, Vm!Alive, Vm!Goto, Vm!ReleaseClaim, Vm!CleanRunDir, Vm!runDir, Vm!flows, Vm!session, Vm!TypeOK, Vm!SessionTypeOK, Vm!Flow, BootsAlone, NoKills, OnlyTwo, OnlyVm, Shown, ServingIsShown, HasClaim, OwnsItsBoot, SpawnedOnce
    <2>3. OneOfTwo'
      BY <1>0, <1>2
      DEF Vm!FindDials, Vm!FindIdle, Vm!Dials, Vm!NothingThere, Vm!Stale, Vm!Named, Vm!Up, Vm!Alive, Vm!Goto, Vm!ReleaseClaim, Vm!CleanRunDir, Vm!runDir, Vm!flows, Vm!session, Vm!TypeOK, Vm!SessionTypeOK, Vm!Flow, OneOfTwo, BootsAlone, NoKills, OnlyTwo
    <2> QED
      BY <2>1, <2>2, <2>3
  <1>3. ASSUME NEW s \in Session, Vm!FindEnds(s) PROVE DiskGoes' /\ BootsAlone' /\ OneOfTwo'
    <2>1. DiskGoes'
      BY <1>0, <1>3
      DEF Vm!FindEnds, Vm!Answers, Vm!Looked, Vm!LookedAgain, Vm!FindThrows, Vm!Alive, Vm!Goto, Vm!ReleaseClaim, Vm!CleanRunDir, Vm!runDir, Vm!flows, Vm!session, Vm!TypeOK, Vm!SessionTypeOK, Vm!Flow, DiskGoes, OwnsItsBoot, SpawnedOnce, OnlySpawnedAreKnown, Known
    <2>2. BootsAlone'
      BY <1>0, <1>3
      DEF Vm!FindEnds, Vm!Answers, Vm!Looked, Vm!LookedAgain, Vm!FindThrows, Vm!Alive, Vm!Goto, Vm!ReleaseClaim, Vm!CleanRunDir, Vm!runDir, Vm!flows, Vm!session, Vm!TypeOK, Vm!SessionTypeOK, Vm!Flow, BootsAlone, NoKills, OnlyTwo, OnlyVm, Shown, ServingIsShown, HasClaim, OwnsItsBoot, SpawnedOnce, Vm!Up
    <2>3. OneOfTwo'
      BY <1>0, <1>3
      DEF Vm!FindEnds, Vm!Answers, Vm!Looked, Vm!LookedAgain, Vm!FindThrows, Vm!Alive, Vm!Goto, Vm!ReleaseClaim, Vm!CleanRunDir, Vm!runDir, Vm!flows, Vm!session, Vm!TypeOK, Vm!SessionTypeOK, Vm!Flow, OneOfTwo, BootsAlone, NoKills, OnlyTwo, Vm!Up
    <2> QED
      BY <2>1, <2>2, <2>3
  <1>4. ASSUME NEW s \in Session, Vm!Attach(s) PROVE DiskGoes' /\ BootsAlone' /\ OneOfTwo'
    <2>1. DiskGoes'
      BY <1>0, <1>4
      DEF Vm!Attach, Vm!Attached, Vm!Alive, Vm!Goto, Vm!ReleaseClaim, Vm!CleanRunDir, Vm!runDir, Vm!flows, Vm!session, Vm!TypeOK, Vm!SessionTypeOK, Vm!Flow, DiskGoes, OwnsItsBoot, SpawnedOnce, OnlySpawnedAreKnown, Known
    <2>2. BootsAlone'
      BY <1>0, <1>4
      DEF Vm!Attach, Vm!Attached, Vm!Alive, Vm!Goto, Vm!ReleaseClaim, Vm!CleanRunDir, Vm!runDir, Vm!flows, Vm!session, Vm!TypeOK, Vm!SessionTypeOK, Vm!Flow, BootsAlone, NoKills, OnlyTwo, OnlyVm, Shown, ServingIsShown, HasClaim, OwnsItsBoot, SpawnedOnce, Vm!Up
    <2>3. OneOfTwo'
      BY <1>0, <1>4
      DEF Vm!Attach, Vm!Attached, Vm!Alive, Vm!Goto, Vm!ReleaseClaim, Vm!CleanRunDir, Vm!runDir, Vm!flows, Vm!session, Vm!TypeOK, Vm!SessionTypeOK, Vm!Flow, OneOfTwo, BootsAlone, NoKills, OnlyTwo, Vm!Up
    <2> QED
      BY <2>1, <2>2, <2>3
  <1>5. ASSUME NEW s \in Session, Vm!Poll(s) /\ UNCHANGED <<vm, Vm!runDir, Vm!flows>> PROVE DiskGoes' /\ BootsAlone' /\ OneOfTwo'
    <2>1. DiskGoes'
      BY <1>0, <1>5
      DEF Vm!Poll, Vm!Alive, Vm!Goto, Vm!ReleaseClaim, Vm!CleanRunDir, Vm!runDir, Vm!flows, Vm!session, Vm!TypeOK, Vm!SessionTypeOK, Vm!Flow, DiskGoes, OwnsItsBoot, SpawnedOnce, OnlySpawnedAreKnown, Known
    <2>2. BootsAlone'
      BY <1>0, <1>5
      DEF Vm!Poll, Vm!Alive, Vm!Goto, Vm!ReleaseClaim, Vm!CleanRunDir, Vm!runDir, Vm!flows, Vm!session, Vm!TypeOK, Vm!SessionTypeOK, Vm!Flow, BootsAlone, NoKills, OnlyTwo, OnlyVm, Shown, ServingIsShown, HasClaim, OwnsItsBoot, SpawnedOnce, Vm!Up
    <2>3. OneOfTwo'
      BY <1>0, <1>5
      DEF Vm!Poll, Vm!Alive, Vm!Goto, Vm!ReleaseClaim, Vm!CleanRunDir, Vm!runDir, Vm!flows, Vm!session, Vm!TypeOK, Vm!SessionTypeOK, Vm!Flow, OneOfTwo, BootsAlone, NoKills, OnlyTwo, Vm!Up
    <2> QED
      BY <2>1, <2>2, <2>3
  <1>6. ASSUME NEW s \in Session, Vm!Bundle(s) PROVE DiskGoes' /\ BootsAlone' /\ OneOfTwo'
    <2>1. DiskGoes'
      BY <1>0, <1>6
      DEF Vm!Bundle, Vm!At, Vm!StepTo, Vm!Alive, Vm!Goto, Vm!ReleaseClaim, Vm!CleanRunDir, Vm!runDir, Vm!flows, Vm!session, Vm!TypeOK, Vm!SessionTypeOK, Vm!Flow, DiskGoes, OwnsItsBoot, SpawnedOnce, OnlySpawnedAreKnown, Known
    <2>2. BootsAlone'
      BY <1>0, <1>6
      DEF Vm!Bundle, Vm!At, Vm!StepTo, Vm!Alive, Vm!Goto, Vm!ReleaseClaim, Vm!CleanRunDir, Vm!runDir, Vm!flows, Vm!session, Vm!TypeOK, Vm!SessionTypeOK, Vm!Flow, BootsAlone, NoKills, OnlyTwo, OnlyVm, Shown, ServingIsShown, HasClaim, OwnsItsBoot, SpawnedOnce, Vm!Up
    <2>3. OneOfTwo'
      BY <1>0, <1>6
      DEF Vm!Bundle, Vm!At, Vm!StepTo, Vm!Alive, Vm!Goto, Vm!ReleaseClaim, Vm!CleanRunDir, Vm!runDir, Vm!flows, Vm!session, Vm!TypeOK, Vm!SessionTypeOK, Vm!Flow, OneOfTwo, BootsAlone, NoKills, OnlyTwo, Vm!Up
    <2> QED
      BY <2>1, <2>2, <2>3
  <1>7. ASSUME NEW s \in Session, Vm!Spawn(s) PROVE DiskGoes' /\ BootsAlone' /\ OneOfTwo'
    <2>1. DiskGoes'
      BY <1>0, <1>7
      DEF Vm!Spawn, Vm!At, Vm!StepTo, Vm!Alive, Vm!Goto, Vm!ReleaseClaim, Vm!CleanRunDir, Vm!runDir, Vm!flows, Vm!session, Vm!TypeOK, Vm!SessionTypeOK, Vm!Flow, DiskGoes, OwnsItsBoot, SpawnedOnce, OnlySpawnedAreKnown, Known
    <2>2. BootsAlone'
      BY <1>0, <1>7
      DEF Vm!Spawn, Vm!At, Vm!StepTo, Vm!Alive, Vm!Goto, Vm!ReleaseClaim, Vm!CleanRunDir, Vm!runDir, Vm!flows, Vm!session, Vm!TypeOK, Vm!SessionTypeOK, Vm!Flow, BootsAlone, NoKills, OnlyTwo, OnlyVm, Shown, ServingIsShown, HasClaim, OwnsItsBoot, SpawnedOnce, Vm!Up
    <2>3. OneOfTwo'
      BY <1>0, <1>7
      DEF Vm!Spawn, Vm!At, Vm!StepTo, Vm!Alive, Vm!Goto, Vm!ReleaseClaim, Vm!CleanRunDir, Vm!runDir, Vm!flows, Vm!session, Vm!TypeOK, Vm!SessionTypeOK, Vm!Flow, OneOfTwo, BootsAlone, NoKills, OnlyTwo, Vm!Up
    <2> QED
      BY <2>1, <2>2, <2>3
  <1>8. ASSUME NEW s \in Session, Vm!WriteRecord(s) PROVE DiskGoes' /\ BootsAlone' /\ OneOfTwo'
    <2>1. DiskGoes'
      BY <1>0, <1>8
      DEF Vm!WriteRecord, Vm!At, Vm!StepTo, Vm!Alive, Vm!Goto, Vm!ReleaseClaim, Vm!CleanRunDir, Vm!runDir, Vm!flows, Vm!session, Vm!TypeOK, Vm!SessionTypeOK, Vm!Flow, DiskGoes, OwnsItsBoot, SpawnedOnce, OnlySpawnedAreKnown, Known
    <2>2. BootsAlone'
      BY <1>0, <1>8
      DEF Vm!WriteRecord, Vm!At, Vm!StepTo, Vm!Alive, Vm!Goto, Vm!ReleaseClaim, Vm!CleanRunDir, Vm!runDir, Vm!flows, Vm!session, Vm!TypeOK, Vm!SessionTypeOK, Vm!Flow, BootsAlone, NoKills, OnlyTwo, OnlyVm, Shown, ServingIsShown, HasClaim, OwnsItsBoot, SpawnedOnce, Vm!Up
    <2>3. OneOfTwo'
      BY <1>0, <1>8
      DEF Vm!WriteRecord, Vm!At, Vm!StepTo, Vm!Alive, Vm!Goto, Vm!ReleaseClaim, Vm!CleanRunDir, Vm!runDir, Vm!flows, Vm!session, Vm!TypeOK, Vm!SessionTypeOK, Vm!Flow, OneOfTwo, BootsAlone, NoKills, OnlyTwo, Vm!Up
    <2> QED
      BY <2>1, <2>2, <2>3
  <1>9. ASSUME NEW s \in Session, Vm!OpenControl(s) PROVE DiskGoes' /\ BootsAlone' /\ OneOfTwo'
    <2>1. DiskGoes'
      BY <1>0, <1>9
      DEF Vm!OpenControl, Vm!At, Vm!StepTo, Vm!Answers, Vm!Alive, Vm!Goto, Vm!ReleaseClaim, Vm!CleanRunDir, Vm!runDir, Vm!flows, Vm!session, Vm!TypeOK, Vm!SessionTypeOK, Vm!Flow, DiskGoes, OwnsItsBoot, SpawnedOnce, OnlySpawnedAreKnown, Known
    <2>2. BootsAlone'
      BY <1>0, <1>9
      DEF Vm!OpenControl, Vm!At, Vm!StepTo, Vm!Answers, Vm!Alive, Vm!Goto, Vm!ReleaseClaim, Vm!CleanRunDir, Vm!runDir, Vm!flows, Vm!session, Vm!TypeOK, Vm!SessionTypeOK, Vm!Flow, BootsAlone, NoKills, OnlyTwo, OnlyVm, Shown, ServingIsShown, HasClaim, OwnsItsBoot, SpawnedOnce, Vm!Up
    <2>3. OneOfTwo'
      BY <1>0, <1>9
      DEF Vm!OpenControl, Vm!At, Vm!StepTo, Vm!Answers, Vm!Alive, Vm!Goto, Vm!ReleaseClaim, Vm!CleanRunDir, Vm!runDir, Vm!flows, Vm!session, Vm!TypeOK, Vm!SessionTypeOK, Vm!Flow, OneOfTwo, BootsAlone, NoKills, OnlyTwo, Vm!Up
    <2> QED
      BY <2>1, <2>2, <2>3
  <1>10. ASSUME NEW s \in Session, Vm!AppsReady(s) PROVE DiskGoes' /\ BootsAlone' /\ OneOfTwo'
    <2>1. DiskGoes'
      BY <1>0, <1>10
      DEF Vm!AppsReady, Vm!At, Vm!StepTo, Vm!Alive, Vm!Goto, Vm!ReleaseClaim, Vm!CleanRunDir, Vm!runDir, Vm!flows, Vm!session, Vm!TypeOK, Vm!SessionTypeOK, Vm!Flow, DiskGoes, OwnsItsBoot, SpawnedOnce, OnlySpawnedAreKnown, Known
    <2>2. BootsAlone'
      BY <1>0, <1>10
      DEF Vm!AppsReady, Vm!At, Vm!StepTo, Vm!Alive, Vm!Goto, Vm!ReleaseClaim, Vm!CleanRunDir, Vm!runDir, Vm!flows, Vm!session, Vm!TypeOK, Vm!SessionTypeOK, Vm!Flow, BootsAlone, NoKills, OnlyTwo, OnlyVm, Shown, ServingIsShown, HasClaim, OwnsItsBoot, SpawnedOnce, Vm!Up
    <2>3. OneOfTwo'
      BY <1>0, <1>10
      DEF Vm!AppsReady, Vm!At, Vm!StepTo, Vm!Alive, Vm!Goto, Vm!ReleaseClaim, Vm!CleanRunDir, Vm!runDir, Vm!flows, Vm!session, Vm!TypeOK, Vm!SessionTypeOK, Vm!Flow, OneOfTwo, BootsAlone, NoKills, OnlyTwo, Vm!Up
    <2> QED
      BY <2>1, <2>2, <2>3
  <1>11. ASSUME NEW s \in Session, Vm!Connect(s) PROVE DiskGoes' /\ BootsAlone' /\ OneOfTwo'
    <2>1. DiskGoes'
      BY <1>0, <1>11
      DEF Vm!Connect, Vm!At, Vm!Booted, Vm!Alive, Vm!Goto, Vm!ReleaseClaim, Vm!CleanRunDir, Vm!runDir, Vm!flows, Vm!session, Vm!TypeOK, Vm!SessionTypeOK, Vm!Flow, DiskGoes, OwnsItsBoot, SpawnedOnce, OnlySpawnedAreKnown, Known
    <2>2. BootsAlone'
      BY <1>0, <1>11
      DEF Vm!Connect, Vm!At, Vm!Booted, Vm!Alive, Vm!Goto, Vm!ReleaseClaim, Vm!CleanRunDir, Vm!runDir, Vm!flows, Vm!session, Vm!TypeOK, Vm!SessionTypeOK, Vm!Flow, BootsAlone, NoKills, OnlyTwo, OnlyVm, Shown, ServingIsShown, HasClaim, OwnsItsBoot, SpawnedOnce, Vm!Up
    <2>3. OneOfTwo'
      BY <1>0, <1>11
      DEF Vm!Connect, Vm!At, Vm!Booted, Vm!Alive, Vm!Goto, Vm!ReleaseClaim, Vm!CleanRunDir, Vm!runDir, Vm!flows, Vm!session, Vm!TypeOK, Vm!SessionTypeOK, Vm!Flow, OneOfTwo, BootsAlone, NoKills, OnlyTwo, Vm!Up
    <2> QED
      BY <2>1, <2>2, <2>3
  <1>12. ASSUME NEW s \in Session, Vm!BootFails(s) PROVE DiskGoes' /\ BootsAlone' /\ OneOfTwo'
    <2>1. DiskGoes'
      BY <1>0, <1>12
      DEF Vm!BootFails, Vm!BootThrows, Vm!Alive, Vm!Goto, Vm!ReleaseClaim, Vm!CleanRunDir, Vm!runDir, Vm!flows, Vm!session, Vm!TypeOK, Vm!SessionTypeOK, Vm!Flow, DiskGoes, OwnsItsBoot, SpawnedOnce, OnlySpawnedAreKnown, Known
    <2>2. BootsAlone'
      BY <1>0, <1>12
      DEF Vm!BootFails, Vm!BootThrows, Vm!Alive, Vm!Goto, Vm!ReleaseClaim, Vm!CleanRunDir, Vm!runDir, Vm!flows, Vm!session, Vm!TypeOK, Vm!SessionTypeOK, Vm!Flow, BootsAlone, NoKills, OnlyTwo, OnlyVm, Shown, ServingIsShown, HasClaim, OwnsItsBoot, SpawnedOnce, Vm!Up
    <2>3. OneOfTwo'
      BY <1>0, <1>12
      DEF Vm!BootFails, Vm!BootThrows, Vm!Alive, Vm!Goto, Vm!ReleaseClaim, Vm!CleanRunDir, Vm!runDir, Vm!flows, Vm!session, Vm!TypeOK, Vm!SessionTypeOK, Vm!Flow, OneOfTwo, BootsAlone, NoKills, OnlyTwo, Vm!Up
    <2> QED
      BY <2>1, <2>2, <2>3
  <1>13. ASSUME NEW s \in Session, Vm!StartFails(s) PROVE DiskGoes' /\ BootsAlone' /\ OneOfTwo'
    <2>1. DiskGoes'
      BY <1>0, <1>13
      DEF Vm!StartFails, Vm!At, Vm!StepTo, Vm!Alive, Vm!Goto, Vm!ReleaseClaim, Vm!CleanRunDir, Vm!runDir, Vm!flows, Vm!session, Vm!TypeOK, Vm!SessionTypeOK, Vm!Flow, DiskGoes, OwnsItsBoot, SpawnedOnce, OnlySpawnedAreKnown, Known
    <2>2. BootsAlone'
      BY <1>0, <1>13
      DEF Vm!StartFails, Vm!At, Vm!StepTo, Vm!Alive, Vm!Goto, Vm!ReleaseClaim, Vm!CleanRunDir, Vm!runDir, Vm!flows, Vm!session, Vm!TypeOK, Vm!SessionTypeOK, Vm!Flow, BootsAlone, NoKills, OnlyTwo, OnlyVm, Shown, ServingIsShown, HasClaim, OwnsItsBoot, SpawnedOnce, Vm!Up
    <2>3. OneOfTwo'
      BY <1>0, <1>13
      DEF Vm!StartFails, Vm!At, Vm!StepTo, Vm!Alive, Vm!Goto, Vm!ReleaseClaim, Vm!CleanRunDir, Vm!runDir, Vm!flows, Vm!session, Vm!TypeOK, Vm!SessionTypeOK, Vm!Flow, OneOfTwo, BootsAlone, NoKills, OnlyTwo, Vm!Up
    <2> QED
      BY <2>1, <2>2, <2>3
  <1>14. ASSUME NEW s \in Session, Vm!Undo(s) PROVE DiskGoes' /\ BootsAlone' /\ OneOfTwo'
    <2>1. DiskGoes'
      BY <1>0, <1>14
      DEF Vm!Undo, Vm!At, Vm!BootThrows, Vm!Alive, Vm!Goto, Vm!ReleaseClaim, Vm!CleanRunDir, Vm!runDir, Vm!flows, Vm!session, Vm!TypeOK, Vm!SessionTypeOK, Vm!Flow, DiskGoes, OwnsItsBoot, SpawnedOnce, OnlySpawnedAreKnown, Known
    <2>2. BootsAlone'
      BY <1>0, <1>14
      DEF Vm!Undo, Vm!At, Vm!BootThrows, Vm!Alive, Vm!Goto, Vm!ReleaseClaim, Vm!CleanRunDir, Vm!runDir, Vm!flows, Vm!session, Vm!TypeOK, Vm!SessionTypeOK, Vm!Flow, BootsAlone, NoKills, OnlyTwo, OnlyVm, Shown, ServingIsShown, HasClaim, OwnsItsBoot, SpawnedOnce, Vm!Up
    <2>3. OneOfTwo'
      BY <1>0, <1>14
      DEF Vm!Undo, Vm!At, Vm!BootThrows, Vm!Alive, Vm!Goto, Vm!ReleaseClaim, Vm!CleanRunDir, Vm!runDir, Vm!flows, Vm!session, Vm!TypeOK, Vm!SessionTypeOK, Vm!Flow, OneOfTwo, BootsAlone, NoKills, OnlyTwo, Vm!Up
    <2> QED
      BY <2>1, <2>2, <2>3
  <1>15. ASSUME NEW s \in Session, NEW f \in Vm!Flow, Vm!HaltNothing(s, f) PROVE DiskGoes' /\ BootsAlone' /\ OneOfTwo'
    <2>1. DiskGoes'
      BY <1>0, <1>15
      DEF Vm!HaltNothing, Vm!Dials, Vm!NothingThere, Vm!Stale, Vm!Named, Vm!Up, Vm!HaltAt, Vm!Halting, Vm!HaltReturns, Vm!CleanedUp, Vm!Stopped, Vm!Ends, Vm!Memory, Vm!Alive, Vm!Goto, Vm!ReleaseClaim, Vm!CleanRunDir, Vm!runDir, Vm!flows, Vm!session, Vm!TypeOK, Vm!SessionTypeOK, Vm!Flow, DiskGoes, OwnsItsBoot, SpawnedOnce, OnlySpawnedAreKnown, Known
    <2>2. BootsAlone'
      <3>1. Quiet
        <4> DEFINE R == Vm!HaltReturns(s, f)
        <4>1. CASE R
          <5>1. ReturnsFromHalt(s, f)
            BY <1>0, <4>1, VmHaltReturns
          <5>2. \A u \in Session : vm'[u] \in {vm[u], "dead"}
            BY <1>0, <1>15, <4>1 DEF Vm!HaltNothing, Vm!TypeOK
          <5>3. life[s] = "alive"
            BY <1>0, <1>15 DEF Vm!HaltNothing, Vm!HaltAt, Vm!Halting, Vm!Alive
          <5> QED
            BY <5>1, <5>2, <5>3 DEF Quiet, ReturnsFromHalt, Vm!Up
        <4>2. CASE ~R
          BY <1>0, <1>15, <4>2 DEF Vm!HaltNothing, Vm!session, Quiet, Vm!Up
        <4> QED
          BY <4>1, <4>2
      <3> QED
        BY <1>0, <3>1, QuietKeepsOne
    <2>3. OneOfTwo'
      <3>1. Quiet
        <4> DEFINE R == Vm!HaltReturns(s, f)
        <4>1. CASE R
          <5>1. ReturnsFromHalt(s, f)
            BY <1>0, <4>1, VmHaltReturns
          <5>2. \A u \in Session : vm'[u] \in {vm[u], "dead"}
            BY <1>0, <1>15, <4>1 DEF Vm!HaltNothing, Vm!TypeOK
          <5>3. life[s] = "alive"
            BY <1>0, <1>15 DEF Vm!HaltNothing, Vm!HaltAt, Vm!Halting, Vm!Alive
          <5> QED
            BY <5>1, <5>2, <5>3 DEF Quiet, ReturnsFromHalt, Vm!Up
        <4>2. CASE ~R
          BY <1>0, <1>15, <4>2 DEF Vm!HaltNothing, Vm!session, Quiet, Vm!Up
        <4> QED
          BY <4>1, <4>2
      <3> QED
        BY <1>0, <3>1, QuietKeepsOne
    <2> QED
      BY <2>1, <2>2, <2>3
  <1>16. ASSUME NEW s \in Session, NEW f \in Vm!Flow, Vm!HaltDials(s, f) PROVE DiskGoes' /\ BootsAlone' /\ OneOfTwo'
    <2>1. DiskGoes'
      BY <1>0, <1>16
      DEF Vm!HaltDials, Vm!Dials, Vm!NothingThere, Vm!Stale, Vm!Named, Vm!Up, Vm!HaltAt, Vm!Halting, Vm!Alive, Vm!Goto, Vm!ReleaseClaim, Vm!CleanRunDir, Vm!runDir, Vm!flows, Vm!session, Vm!TypeOK, Vm!SessionTypeOK, Vm!Flow, DiskGoes, OwnsItsBoot, SpawnedOnce, OnlySpawnedAreKnown, Known
    <2>2. BootsAlone'
      BY <1>0, <1>16
      DEF Vm!HaltDials, Vm!Dials, Vm!NothingThere, Vm!Stale, Vm!Named, Vm!Up, Vm!HaltAt, Vm!Halting, Vm!Alive, Vm!Goto, Vm!ReleaseClaim, Vm!CleanRunDir, Vm!runDir, Vm!flows, Vm!session, Vm!TypeOK, Vm!SessionTypeOK, Vm!Flow, BootsAlone, NoKills, OnlyTwo, OnlyVm, Shown, ServingIsShown, HasClaim, OwnsItsBoot, SpawnedOnce
    <2>3. OneOfTwo'
      BY <1>0, <1>16
      DEF Vm!HaltDials, Vm!Dials, Vm!NothingThere, Vm!Stale, Vm!Named, Vm!Up, Vm!HaltAt, Vm!Halting, Vm!Alive, Vm!Goto, Vm!ReleaseClaim, Vm!CleanRunDir, Vm!runDir, Vm!flows, Vm!session, Vm!TypeOK, Vm!SessionTypeOK, Vm!Flow, OneOfTwo, BootsAlone, NoKills, OnlyTwo
    <2> QED
      BY <2>1, <2>2, <2>3
  <1>17. ASSUME NEW s \in Session, NEW f \in Vm!Flow, Vm!HaltDialled(s, f) PROVE DiskGoes' /\ BootsAlone' /\ OneOfTwo'
    <2>1. DiskGoes'
      BY <1>0, <1>17
      DEF Vm!HaltDialled, Vm!Answers, Vm!Up, Vm!HaltAt, Vm!Halting, Vm!HaltReturns, Vm!CleanedUp, Vm!Stopped, Vm!Ends, Vm!Memory, Vm!Alive, Vm!Goto, Vm!ReleaseClaim, Vm!CleanRunDir, Vm!runDir, Vm!flows, Vm!session, Vm!TypeOK, Vm!SessionTypeOK, Vm!Flow, DiskGoes, OwnsItsBoot, SpawnedOnce, OnlySpawnedAreKnown, Known
    <2>2. BootsAlone'
      <3>1. Quiet
        <4> DEFINE R == Vm!HaltReturns(s, f)
        <4>1. CASE R
          <5>1. ReturnsFromHalt(s, f)
            BY <1>0, <4>1, VmHaltReturns
          <5>2. \A u \in Session : vm'[u] \in {vm[u], "dead"}
            BY <1>0, <1>17, <4>1 DEF Vm!HaltDialled, Vm!Answers, Vm!Up, Vm!TypeOK
          <5>3. life[s] = "alive"
            BY <1>0, <1>17 DEF Vm!HaltDialled, Vm!Answers, Vm!Up, Vm!HaltAt, Vm!Halting, Vm!Alive
          <5> QED
            BY <5>1, <5>2, <5>3 DEF Quiet, ReturnsFromHalt, Vm!Up
        <4>2. CASE ~R
          BY <1>0, <1>17, <4>2 DEF Vm!HaltDialled, Vm!Answers, Vm!Up, Vm!session, Quiet, Vm!Up
        <4> QED
          BY <4>1, <4>2
      <3> QED
        BY <1>0, <3>1, QuietKeepsOne
    <2>3. OneOfTwo'
      <3>1. Quiet
        <4> DEFINE R == Vm!HaltReturns(s, f)
        <4>1. CASE R
          <5>1. ReturnsFromHalt(s, f)
            BY <1>0, <4>1, VmHaltReturns
          <5>2. \A u \in Session : vm'[u] \in {vm[u], "dead"}
            BY <1>0, <1>17, <4>1 DEF Vm!HaltDialled, Vm!Answers, Vm!Up, Vm!TypeOK
          <5>3. life[s] = "alive"
            BY <1>0, <1>17 DEF Vm!HaltDialled, Vm!Answers, Vm!Up, Vm!HaltAt, Vm!Halting, Vm!Alive
          <5> QED
            BY <5>1, <5>2, <5>3 DEF Quiet, ReturnsFromHalt, Vm!Up
        <4>2. CASE ~R
          BY <1>0, <1>17, <4>2 DEF Vm!HaltDialled, Vm!Answers, Vm!Up, Vm!session, Quiet, Vm!Up
        <4> QED
          BY <4>1, <4>2
      <3> QED
        BY <1>0, <3>1, QuietKeepsOne
    <2> QED
      BY <2>1, <2>2, <2>3
  <1>18. ASSUME NEW s \in Session, NEW f \in Vm!Flow, Vm!HaltStop(s, f) PROVE DiskGoes' /\ BootsAlone' /\ OneOfTwo'
    <2>1. DiskGoes'
      BY <1>0, <1>18
      DEF Vm!HaltStop, Vm!HaltAt, Vm!Halting, Vm!HaltReturns, Vm!CleanedUp, Vm!Stopped, Vm!Ends, Vm!Memory, Vm!Alive, Vm!Goto, Vm!ReleaseClaim, Vm!CleanRunDir, Vm!runDir, Vm!flows, Vm!session, Vm!TypeOK, Vm!SessionTypeOK, Vm!Flow, DiskGoes, OwnsItsBoot, SpawnedOnce, OnlySpawnedAreKnown, Known
    <2>2. BootsAlone'
      <3>1. Quiet
        <4> DEFINE R == Vm!HaltReturns(s, f)
        <4>1. CASE R
          <5>1. ReturnsFromHalt(s, f)
            BY <1>0, <4>1, VmHaltReturns
          <5>2. \A u \in Session : vm'[u] \in {vm[u], "dead"}
            BY <1>0, <1>18, <4>1 DEF Vm!HaltStop, Vm!HaltAt, Vm!Halting, Vm!TypeOK
          <5>3. life[s] = "alive"
            BY <1>0, <1>18 DEF Vm!HaltStop, Vm!HaltAt, Vm!Halting, Vm!HaltAt, Vm!Halting, Vm!Alive
          <5> QED
            BY <5>1, <5>2, <5>3 DEF Quiet, ReturnsFromHalt, Vm!Up
        <4>2. CASE ~R
          BY <1>0, <1>18, <4>2 DEF Vm!HaltStop, Vm!HaltAt, Vm!Halting, Vm!session, Quiet, Vm!Up
        <4> QED
          BY <4>1, <4>2
      <3> QED
        BY <1>0, <3>1, QuietKeepsOne
    <2>3. OneOfTwo'
      <3>1. Quiet
        <4> DEFINE R == Vm!HaltReturns(s, f)
        <4>1. CASE R
          <5>1. ReturnsFromHalt(s, f)
            BY <1>0, <4>1, VmHaltReturns
          <5>2. \A u \in Session : vm'[u] \in {vm[u], "dead"}
            BY <1>0, <1>18, <4>1 DEF Vm!HaltStop, Vm!HaltAt, Vm!Halting, Vm!TypeOK
          <5>3. life[s] = "alive"
            BY <1>0, <1>18 DEF Vm!HaltStop, Vm!HaltAt, Vm!Halting, Vm!HaltAt, Vm!Halting, Vm!Alive
          <5> QED
            BY <5>1, <5>2, <5>3 DEF Quiet, ReturnsFromHalt, Vm!Up
        <4>2. CASE ~R
          BY <1>0, <1>18, <4>2 DEF Vm!HaltStop, Vm!HaltAt, Vm!Halting, Vm!session, Quiet, Vm!Up
        <4> QED
          BY <4>1, <4>2
      <3> QED
        BY <1>0, <3>1, QuietKeepsOne
    <2> QED
      BY <2>1, <2>2, <2>3
  <1>19. ASSUME NEW s \in Session, Vm!Begin(s) /\ Vm!Memory(s) /\ UNCHANGED <<vm, Vm!runDir>> PROVE DiskGoes' /\ BootsAlone' /\ OneOfTwo'
    <2>1. DiskGoes'
      BY <1>0, <1>19
      DEF Vm!Begin, Vm!Memory, Vm!Alive, Vm!Goto, Vm!ReleaseClaim, Vm!CleanRunDir, Vm!runDir, Vm!flows, Vm!session, Vm!TypeOK, Vm!SessionTypeOK, Vm!Flow, DiskGoes, OwnsItsBoot, SpawnedOnce, OnlySpawnedAreKnown, Known
    <2>2. BootsAlone'
      BY <1>0, <1>19
      DEF Vm!Begin, Vm!Memory, Vm!Alive, Vm!Goto, Vm!ReleaseClaim, Vm!CleanRunDir, Vm!runDir, Vm!flows, Vm!session, Vm!TypeOK, Vm!SessionTypeOK, Vm!Flow, BootsAlone, NoKills, OnlyTwo, OnlyVm, Shown, ServingIsShown, HasClaim, OwnsItsBoot, SpawnedOnce, Vm!Up
    <2>3. OneOfTwo'
      BY <1>0, <1>19
      DEF Vm!Begin, Vm!Memory, Vm!Alive, Vm!Goto, Vm!ReleaseClaim, Vm!CleanRunDir, Vm!runDir, Vm!flows, Vm!session, Vm!TypeOK, Vm!SessionTypeOK, Vm!Flow, OneOfTwo, BootsAlone, NoKills, OnlyTwo, Vm!Up
    <2> QED
      BY <2>1, <2>2, <2>3
  <1>20. ASSUME NEW s \in Session, Vm!Stop(s) /\ Vm!Memory(s) /\ UNCHANGED <<vm, Vm!runDir>> PROVE DiskGoes' /\ BootsAlone' /\ OneOfTwo'
    <2>1. DiskGoes'
      <3>1. PICK how \in {"exited", "killed"} : how = "exited"
        OBVIOUS
      <3>2. CASE Vm!Ends(s, how)
        <4>1. /\ Vm!SessionTypeOK'
              /\ life'[s] = how /\ main'[s] = "gone" /\ stopper'[s] = "no" /\ s \notin owns'
              /\ \A t \in Session \ {s} :
                   life'[t] = life[t] /\ main'[t] = main[t] /\ stopper'[t] = stopper[t] /\ (t \in owns' <=> t \in owns)
          BY <1>0, <3>2, VmProcessEnds
        <4>2. /\ FlowsTyped'
              /\ \A t \in Session \ {s} : step'[t] = step[t] /\ dial'[t] = dial[t] /\ halt'[t] = halt[t]
              /\ life'[s] # "alive" => \A f \in Vm!Flow : dial'[s][f] = None /\ halt'[s][f] = "look"
          BY <1>0, <1>20, VmForgets
        <4> QED
          BY <1>0, <1>20, <3>1, <4>1, <4>2 DEF Vm!runDir, FlowsTyped, VmSteps, Vm!TypeOK, Vm!SessionTypeOK, Vm!Flow, DiskGoes
      <3>3. CASE ~Vm!Ends(s, how)
        BY <1>0, <1>20, <3>1, <3>3 DEF Vm!Stop, Vm!Alive, Vm!Memory, Vm!flows, Vm!runDir, Vm!TypeOK, Vm!SessionTypeOK, Vm!Flow, DiskGoes
      <3> QED
        BY <3>2, <3>3
    <2>2. BootsAlone'
      BY <1>0, <1>20
      DEF Vm!Stop, Vm!Memory, Vm!Ends, Vm!Alive, Vm!Goto, Vm!ReleaseClaim, Vm!CleanRunDir, Vm!runDir, Vm!flows, Vm!session, Vm!TypeOK, Vm!SessionTypeOK, Vm!Flow, BootsAlone, NoKills, OnlyTwo, OnlyVm, Shown, ServingIsShown, HasClaim, OwnsItsBoot, SpawnedOnce, Vm!Up
    <2>3. OneOfTwo'
      BY <1>0, <1>20
      DEF Vm!Stop, Vm!Memory, Vm!Ends, Vm!Alive, Vm!Goto, Vm!ReleaseClaim, Vm!CleanRunDir, Vm!runDir, Vm!flows, Vm!session, Vm!TypeOK, Vm!SessionTypeOK, Vm!Flow, OneOfTwo, BootsAlone, NoKills, OnlyTwo, Vm!Up
    <2> QED
      BY <2>1, <2>2, <2>3
  <1>21. ASSUME NEW s \in Session, Vm!BootSettles(s) /\ Vm!Memory(s) /\ UNCHANGED <<vm, Vm!runDir>> PROVE DiskGoes' /\ BootsAlone' /\ OneOfTwo'
    <2>1. DiskGoes'
      BY <1>0, <1>21
      DEF Vm!BootSettles, Vm!Memory, Vm!Alive, Vm!Goto, Vm!ReleaseClaim, Vm!CleanRunDir, Vm!runDir, Vm!flows, Vm!session, Vm!TypeOK, Vm!SessionTypeOK, Vm!Flow, DiskGoes, OwnsItsBoot, SpawnedOnce, OnlySpawnedAreKnown, Known
    <2>2. BootsAlone'
      BY <1>0, <1>21
      DEF Vm!BootSettles, Vm!Memory, Vm!Alive, Vm!Goto, Vm!ReleaseClaim, Vm!CleanRunDir, Vm!runDir, Vm!flows, Vm!session, Vm!TypeOK, Vm!SessionTypeOK, Vm!Flow, BootsAlone, NoKills, OnlyTwo, OnlyVm, Shown, ServingIsShown, HasClaim, OwnsItsBoot, SpawnedOnce, Vm!Up
    <2>3. OneOfTwo'
      BY <1>0, <1>21
      DEF Vm!BootSettles, Vm!Memory, Vm!Alive, Vm!Goto, Vm!ReleaseClaim, Vm!CleanRunDir, Vm!runDir, Vm!flows, Vm!session, Vm!TypeOK, Vm!SessionTypeOK, Vm!Flow, OneOfTwo, BootsAlone, NoKills, OnlyTwo, Vm!Up
    <2> QED
      BY <2>1, <2>2, <2>3
  <1>22. ASSUME NEW s \in Session, Vm!Kill(s) /\ Vm!Memory(s) /\ UNCHANGED <<vm, Vm!runDir>> PROVE DiskGoes' /\ BootsAlone' /\ OneOfTwo'
    <2>1. DiskGoes'
      <3>1. PICK how \in {"exited", "killed"} : how = "killed"
        OBVIOUS
      <3>2. CASE Vm!Ends(s, how)
        <4>1. /\ Vm!SessionTypeOK'
              /\ life'[s] = how /\ main'[s] = "gone" /\ stopper'[s] = "no" /\ s \notin owns'
              /\ \A t \in Session \ {s} :
                   life'[t] = life[t] /\ main'[t] = main[t] /\ stopper'[t] = stopper[t] /\ (t \in owns' <=> t \in owns)
          BY <1>0, <3>2, VmProcessEnds
        <4>2. /\ FlowsTyped'
              /\ \A t \in Session \ {s} : step'[t] = step[t] /\ dial'[t] = dial[t] /\ halt'[t] = halt[t]
              /\ life'[s] # "alive" => \A f \in Vm!Flow : dial'[s][f] = None /\ halt'[s][f] = "look"
          BY <1>0, <1>22, VmForgets
        <4> QED
          BY <1>0, <1>22, <3>1, <4>1, <4>2 DEF Vm!runDir, FlowsTyped, VmSteps, Vm!TypeOK, Vm!SessionTypeOK, Vm!Flow, DiskGoes
      <3>3. CASE ~Vm!Ends(s, how)
        BY <1>0, <1>22, <3>1, <3>3 DEF Vm!Kill, Vm!Alive, Vm!Memory, Vm!flows, Vm!runDir, Vm!TypeOK, Vm!SessionTypeOK, Vm!Flow, DiskGoes
      <3> QED
        BY <3>2, <3>3
    <2>2. BootsAlone'
      BY <1>0, <1>22
      DEF Vm!Kill, Vm!Memory, Vm!Ends, Vm!Alive, Vm!Goto, Vm!ReleaseClaim, Vm!CleanRunDir, Vm!runDir, Vm!flows, Vm!session, Vm!TypeOK, Vm!SessionTypeOK, Vm!Flow, BootsAlone, NoKills, OnlyTwo, OnlyVm, Shown, ServingIsShown, HasClaim, OwnsItsBoot, SpawnedOnce, Vm!Up
    <2>3. OneOfTwo'
      BY <1>0, <1>22
      DEF Vm!Kill, Vm!Memory, Vm!Ends, Vm!Alive, Vm!Goto, Vm!ReleaseClaim, Vm!CleanRunDir, Vm!runDir, Vm!flows, Vm!session, Vm!TypeOK, Vm!SessionTypeOK, Vm!Flow, OneOfTwo, BootsAlone, NoKills, OnlyTwo, Vm!Up
    <2> QED
      BY <2>1, <2>2, <2>3
  <1>23. ASSUME NEW s \in Session, Vm!VmMeasures(s) PROVE DiskGoes' /\ BootsAlone' /\ OneOfTwo'
    <2>1. DiskGoes'
      BY <1>0, <1>23
      DEF Vm!VmMeasures, Vm!Alive, Vm!Goto, Vm!ReleaseClaim, Vm!CleanRunDir, Vm!runDir, Vm!flows, Vm!session, Vm!TypeOK, Vm!SessionTypeOK, Vm!Flow, DiskGoes, OwnsItsBoot, SpawnedOnce, OnlySpawnedAreKnown, Known
    <2>2. BootsAlone'
      BY <1>0, <1>23
      DEF Vm!VmMeasures, Vm!Alive, Vm!Goto, Vm!ReleaseClaim, Vm!CleanRunDir, Vm!runDir, Vm!flows, Vm!session, Vm!TypeOK, Vm!SessionTypeOK, Vm!Flow, BootsAlone, NoKills, OnlyTwo, OnlyVm, Shown, ServingIsShown, HasClaim, OwnsItsBoot, SpawnedOnce, Vm!Up
    <2>3. OneOfTwo'
      BY <1>0, <1>23
      DEF Vm!VmMeasures, Vm!Alive, Vm!Goto, Vm!ReleaseClaim, Vm!CleanRunDir, Vm!runDir, Vm!flows, Vm!session, Vm!TypeOK, Vm!SessionTypeOK, Vm!Flow, OneOfTwo, BootsAlone, NoKills, OnlyTwo, Vm!Up
    <2> QED
      BY <2>1, <2>2, <2>3
  <1>24. ASSUME NEW s \in Session, Vm!VmServes(s) PROVE DiskGoes' /\ BootsAlone' /\ OneOfTwo'
    <2>1. DiskGoes'
      BY <1>0, <1>24
      DEF Vm!VmServes, Vm!Alive, Vm!Goto, Vm!ReleaseClaim, Vm!CleanRunDir, Vm!runDir, Vm!flows, Vm!session, Vm!TypeOK, Vm!SessionTypeOK, Vm!Flow, DiskGoes, OwnsItsBoot, SpawnedOnce, OnlySpawnedAreKnown, Known
    <2>2. BootsAlone'
      BY <1>0, <1>24
      DEF Vm!VmServes, Vm!Alive, Vm!Goto, Vm!ReleaseClaim, Vm!CleanRunDir, Vm!runDir, Vm!flows, Vm!session, Vm!TypeOK, Vm!SessionTypeOK, Vm!Flow, BootsAlone, NoKills, OnlyTwo, OnlyVm, Shown, ServingIsShown, HasClaim, OwnsItsBoot, SpawnedOnce, Vm!Up
    <2>3. OneOfTwo'
      BY <1>0, <1>24
      DEF Vm!VmServes, Vm!Alive, Vm!Goto, Vm!ReleaseClaim, Vm!CleanRunDir, Vm!runDir, Vm!flows, Vm!session, Vm!TypeOK, Vm!SessionTypeOK, Vm!Flow, OneOfTwo, BootsAlone, NoKills, OnlyTwo, Vm!Up
    <2> QED
      BY <2>1, <2>2, <2>3
  <1>25. ASSUME NEW s \in Session, Vm!VmExits(s) PROVE DiskGoes' /\ BootsAlone' /\ OneOfTwo'
    <2>1. DiskGoes'
      BY <1>0, <1>25
      DEF Vm!VmExits, Vm!Up, Vm!Alive, Vm!Goto, Vm!ReleaseClaim, Vm!CleanRunDir, Vm!runDir, Vm!flows, Vm!session, Vm!TypeOK, Vm!SessionTypeOK, Vm!Flow, DiskGoes, OwnsItsBoot, SpawnedOnce, OnlySpawnedAreKnown, Known
    <2>2. BootsAlone'
      BY <1>0, <1>25
      DEF Vm!VmExits, Vm!Up, Vm!Alive, Vm!Goto, Vm!ReleaseClaim, Vm!CleanRunDir, Vm!runDir, Vm!flows, Vm!session, Vm!TypeOK, Vm!SessionTypeOK, Vm!Flow, BootsAlone, NoKills, OnlyTwo, OnlyVm, Shown, ServingIsShown, HasClaim, OwnsItsBoot, SpawnedOnce
    <2>3. OneOfTwo'
      BY <1>0, <1>25
      DEF Vm!VmExits, Vm!Up, Vm!Alive, Vm!Goto, Vm!ReleaseClaim, Vm!CleanRunDir, Vm!runDir, Vm!flows, Vm!session, Vm!TypeOK, Vm!SessionTypeOK, Vm!Flow, OneOfTwo, BootsAlone, NoKills, OnlyTwo
    <2> QED
      BY <2>1, <2>2, <2>3
  <1> QED
    BY <1>1, <1>2, <1>3, <1>4, <1>5, <1>6, <1>7, <1>8, <1>9, <1>10, <1>11, <1>12, <1>13, <1>14, <1>15, <1>16, <1>17, <1>18, <1>19, <1>20, <1>21, <1>22, <1>23, <1>24, <1>25 DEF Vm!Next, Vm!Steps, Vm!Halts

\* Three of the sessions are more than two.
LEMMA NoThirdSession ==
  ASSUME NEW S, IsFiniteSet(S), Cardinality(S) <= 2, NEW a \in S, NEW b \in S, a # b, NEW c \in S
  PROVE  c \in {a, b}
  <1>1. SUFFICES ASSUME c # a, c # b PROVE FALSE
    OBVIOUS
  <1>2. IsFiniteSet({a}) /\ Cardinality({a}) = 1
    BY FS_Singleton
  <1>3. IsFiniteSet({a} \cup {b}) /\ Cardinality({a} \cup {b}) = 2
    <2>1. b \notin {a}
      OBVIOUS
    <2>2. IsFiniteSet({a} \cup {b}) /\ Cardinality({a} \cup {b}) = Cardinality({a}) + 1
      BY <1>2, <2>1, FS_AddElement
    <2> QED
      BY <1>2, <2>2
  <1>4. IsFiniteSet({a} \cup {b} \cup {c}) /\ Cardinality({a} \cup {b} \cup {c}) = 3
    <2>1. c \notin {a} \cup {b}
      BY <1>1
    <2>2. IsFiniteSet({a} \cup {b} \cup {c}) /\ Cardinality({a} \cup {b} \cup {c}) = Cardinality({a} \cup {b}) + 1
      BY <1>3, <2>1, FS_AddElement
    <2> QED
      BY <1>3, <2>2
  <1>5. Cardinality({a} \cup {b} \cup {c}) <= Cardinality(S) /\ Cardinality(S) \in Nat
    BY FS_Subset, FS_CardinalityType
  <1> QED
    BY <1>4, <1>5

\* A set of which no two differ has at most one.
LEMMA AtMostOne ==
  ASSUME NEW S, \A a, b \in S : a = b
  PROVE  IsFiniteSet(S) /\ Cardinality(S) <= 1
  <1>1. CASE S = {}
    BY <1>1, FS_EmptySet
  <1>2. CASE S # {}
    <2>1. PICK a \in S : TRUE
      BY <1>2
    <2>2. S = {a}
      BY <2>1
    <2>3. IsFiniteSet({a}) /\ Cardinality({a}) = 1
      BY FS_Singleton
    <2> QED
      BY <2>2, <2>3
  <1> QED
    BY <1>1, <1>2

LEMMA OneVmOfTwo ==
  ASSUME VmAssumption, VmBase, OneOfTwo
  PROVE  Vm!OneVm
  <1> DEFINE Begun == {s \in Session \ NoBoot : life[s] # "new"}
             Ups == {v \in Session : Vm!Up(v)}
  <1>1. ASSUME Vm!Cardinality(Begun) <= 2, NoKills PROVE Vm!Cardinality(Ups) <= 1
    <2>1. Vm!Cardinality(Begun) = Cardinality(Begun) /\ Vm!Cardinality(Ups) = Cardinality(Ups)
      BY DEF Vm!Cardinality, Cardinality, Vm!IsFiniteSet, IsFiniteSet
    <2>2. IsFiniteSet(Begun)
      BY FS_Subset DEF VmAssumption
    <2>3. Ups \subseteq Begun
      BY DEF VmBase, SpawnedOnce, OwnsItsBoot, Vm!Up
    <2>4. ASSUME NEW a \in Ups, NEW b \in Ups, a # b PROVE FALSE
      <3>1. a \in Begun /\ b \in Begun /\ Cardinality(Begun) <= 2
        BY <1>1, <2>1, <2>3
      <3>2. \A c \in Begun : c \in {a, b}
        <4> HIDE DEF Begun
        <4> QED
          BY <2>2, <2>4, <3>1, NoThirdSession
      <3>3. OnlyTwo(a, b)
        BY <3>2 DEF OnlyTwo
      <3> QED
        BY <1>1, <2>4, <3>3 DEF OneOfTwo
    <2>5. Cardinality(Ups) <= 1
      <3> HIDE DEF Ups
      <3> QED
        BY <2>4, AtMostOne
    <2> QED
      BY <2>1, <2>5
  <1> QED
    BY <1>1 DEF Vm!OneVm, NoKills

(* Of two sessions that may boot, with any number that only attach, and     *)
(* none killed, one VM runs at a time; the only one to boot leaves no VM    *)
(* when it exits, wherever its client left it; and no secrets disk outlives *)
(* the boot that needed it (vm/mcp.ts, vm/runtime.ts, vm/sandbox.ts).       *)
THEOREM OneVmAtATime ==
  ASSUME VmAssumption
  PROVE  Vm!Spec => [](Vm!TypeOK /\ Vm!OneVm /\ Vm!NothingLeftBehind)
  <1>1. Vm!Init => VmInv
    BY DEF Vm!Init, Vm!SessionInit, VmInv, VmBase, Vm!TypeOK, Vm!SessionTypeOK, HasClaim, OwnsItsBoot, SpawnedOnce,
           OnlySpawnedAreKnown, Known, HaltsDialled, ServingIsShown, UnshownIsMute, LeavesNoVm, DiskGoes, BootsAlone,
           OneOfTwo, Vm!Up, VmAssumption
  <1>2. VmInv /\ [Vm!Next]_Vm!vars => VmInv'
    <2>1. ASSUME VmInv, UNCHANGED Vm!vars PROVE VmInv'
      BY <2>1 DEF Vm!vars, Vm!session, Vm!runDir, Vm!flows, VmInv, VmBase, Vm!TypeOK, Vm!SessionTypeOK, HasClaim, OwnsItsBoot, SpawnedOnce,
           OnlySpawnedAreKnown, Known, HaltsDialled, ServingIsShown, UnshownIsMute, LeavesNoVm, DiskGoes, BootsAlone,
           OneOfTwo, Vm!Up, OnlyVm, Shown, NoKills, OnlyTwo
    <2>2. ASSUME VmInv, Vm!Next PROVE VmInv'
      <3>1. VmBase
        BY <2>2 DEF VmInv
      <3>2. VmBase'
        BY <2>2, <3>1, VmTypesKept, VmSessionsKept, VmKnownKept DEF VmBase
      <3>3. ServingIsShown' /\ UnshownIsMute' /\ LeavesNoVm' /\ DiskGoes' /\ BootsAlone' /\ OneOfTwo'
        BY <2>2, VmShownKept, VmAloneKept
      <3> QED
        BY <3>2, <3>3 DEF VmInv
    <2> QED
      BY <2>1, <2>2
  <1>3. VmInv => Vm!TypeOK /\ Vm!OneVm /\ Vm!NothingLeftBehind
    <2>1. ASSUME VmInv PROVE Vm!TypeOK /\ Vm!OneVm
      BY <2>1, OneVmOfTwo DEF VmInv, VmBase
    <2>2. ASSUME VmInv PROVE Vm!NothingLeftBehind
      <3>1. ASSUME NEW s \in Session, life[s] = "exited", \A t \in Session \ {s} : vm[t] = "none" PROVE ~Vm!Up(s)
        BY <2>2, <3>1 DEF VmInv, LeavesNoVm, OnlyVm
      <3>2. ASSUME NEW s \in Session, main[s] \in Vm!Settled PROVE disk # s
        BY <2>2, <3>2 DEF VmInv, DiskGoes, Vm!Settled
      <3> QED
        BY <3>1, <3>2 DEF Vm!NothingLeftBehind
    <2> QED
      BY <2>1, <2>2
  <1> QED
    BY <1>1, <1>2, <1>3, PTL DEF Vm!Spec

-----------------------------------------------------------------------------
(* The sink whose lock is broken under its writers is that of               *)
(* AuditSinkProofs with other constants: what is proved there holds of it.  *)

Alone == INSTANCE AuditSinkProofs WITH
  Proc <- Stalling, Reader <- Verifier, MaxLines <- Roomy, MaxRecords <- StallRecords,
  MaxTorn <- StallTorn, Stalls <- StallsAt

\* It starts where nothing has been written, and no file of it is ever full.
StallAssumption ==
  /\ Stall!SinkConstants
  /\ StallsAt \subseteq {"head", "head1", "rotate", "assert"}
  /\ StallRecords + StallTorn < Roomy
  /\ StallRecords <= MaxRecords

LEMMA StallConstantsAre == ASSUME StallAssumption PROVE Alone!SinkConstants /\ Alone!Environment /\ Alone!NoFullFile
  <1>1. Alone!SinkConstants
    BY DEF StallAssumption, Stall!SinkConstants, Alone!SinkConstants, Stall!Sizes, Alone!Sizes,
           Stall!NoneAssumption, Alone!NoneAssumption, Stall!File, Alone!File, Stall!Record, Alone!Record,
           Stall!Hash, Alone!Hash, Stall!Cut, Alone!Cut, Stall!Genesis, Alone!Genesis,
           Stall!InodesSuffice, Alone!InodesSuffice, Stall!Segment, Alone!Segment
  <1>2. Alone!NoFullFile /\ Alone!NoLateRotation
    BY DEF StallAssumption, Alone!NoFullFile, Alone!NoLateRotation
  <1>3. Alone!FullFilesHoldRecords
    <2>1. StallRecords \in Nat /\ StallTorn \in Nat /\ Roomy \in Nat
      BY DEF StallAssumption, Stall!SinkConstants, Stall!Sizes
    <2> QED
      BY <2>1 DEF StallAssumption, Alone!FullFilesHoldRecords
  <1> QED
    BY <1>1, <1>2, <1>3 DEF Alone!Environment

LEMMA StallInits == Stall!Init => Alone!Init
  BY DEF Stall!Init, Alone!Init, Stall!Segment, Alone!Segment, Stall!Start, Alone!Start,
         Stall!Genesis, Alone!Genesis

LEMMA StallSteps == Stall!Next => Alone!Next
  <1>1. ASSUME NEW p \in Stalling
        PROVE  /\ Stall!Acquire(p) => Alone!Acquire(p)
               /\ Stall!AcquireTimesOut(p) => Alone!AcquireTimesOut(p)
               /\ Stall!CurrentHead(p) => Alone!CurrentHead(p)
               /\ Stall!HeadOfRotated(p) => Alone!HeadOfRotated(p)
               /\ Stall!RotateIfNeeded(p) => Alone!RotateIfNeeded(p)
               /\ Stall!UnlinkOldest(p) => Alone!UnlinkOldest(p)
               /\ Stall!Shift(p) => Alone!Shift(p)
               /\ Stall!AssertHeld(p) => Alone!AssertHeld(p)
               /\ Stall!AppendRecord(p) => Alone!AppendRecord(p)
               /\ Stall!AppendTorn(p) => Alone!AppendTorn(p)
               /\ Stall!Cache(p) => Alone!Cache(p)
               /\ Stall!Fails(p) => Alone!Fails(p)
               /\ Stall!Release(p) => Alone!Release(p)
               /\ Stall!Crash(p) => Alone!Crash(p)
               /\ Stall!LockBroken(p) => Alone!LockBroken(p)
    <2>1. Stall!Acquire(p) => Alone!Acquire(p)
      BY DEF Stall!Acquire, Alone!Acquire, Stall!GoTo, Alone!GoTo, Stall!fileVars, Alone!fileVars
    <2>2. Stall!AcquireTimesOut(p) => Alone!AcquireTimesOut(p)
      BY DEF Stall!AcquireTimesOut, Alone!AcquireTimesOut, Stall!fileVars, Alone!fileVars
    <2>3. Stall!CurrentHead(p) => Alone!CurrentHead(p)
      BY DEF Stall!CurrentHead, Alone!CurrentHead, Stall!CacheHolds, Alone!CacheHolds, Stall!Size,
             Alone!Size, Stall!Path, Alone!Path, Stall!Closed, Alone!Closed, Stall!HasHead,
             Alone!HasHead, Stall!HeadOf, Alone!HeadOf, Stall!RecordsOf, Alone!RecordsOf,
             Stall!Last, Alone!Last, Stall!GoTo, Alone!GoTo
    <2>4. Stall!HeadOfRotated(p) => Alone!HeadOfRotated(p)
      BY DEF Stall!HeadOfRotated, Alone!HeadOfRotated, Stall!Closed, Alone!Closed, Stall!HasHead,
             Alone!HasHead, Stall!HeadOf, Alone!HeadOf, Stall!RecordsOf, Alone!RecordsOf,
             Stall!Last, Alone!Last, Stall!Genesis, Alone!Genesis, Stall!GoTo, Alone!GoTo
    <2>5. Stall!RotateIfNeeded(p) => Alone!RotateIfNeeded(p)
      BY DEF Stall!RotateIfNeeded, Alone!RotateIfNeeded, Stall!GoTo, Alone!GoTo, Stall!Path,
             Alone!Path, Stall!fileVars, Alone!fileVars
    <2>6. Stall!UnlinkOldest(p) => Alone!UnlinkOldest(p)
      BY DEF Stall!UnlinkOldest, Alone!UnlinkOldest, Stall!GoTo, Alone!GoTo
    <2>7. Stall!Shift(p) => Alone!Shift(p)
      BY DEF Stall!Shift, Alone!Shift, Stall!Renamed, Alone!Renamed, Stall!Segment, Alone!Segment,
             Stall!Path, Alone!Path, Stall!GoTo, Alone!GoTo
    <2>8. Stall!AssertHeld(p) => Alone!AssertHeld(p)
      BY DEF Stall!AssertHeld, Alone!AssertHeld, Stall!GoTo, Alone!GoTo, Stall!fileVars,
             Alone!fileVars
    <2>9. Stall!AppendRecord(p) => Alone!AppendRecord(p)
      BY DEF Stall!AppendRecord, Alone!AppendRecord, Stall!NewRecord, Alone!NewRecord, Stall!Path,
             Alone!Path, Stall!Appended, Alone!Appended, Stall!NewInode, Alone!NewInode,
             Stall!Segment, Alone!Segment, Stall!GoTo, Alone!GoTo, Stall!Front, Alone!Front
    <2>10. Stall!AppendTorn(p) => Alone!AppendTorn(p)
      BY DEF Stall!AppendTorn, Alone!AppendTorn, Stall!NewRecord, Alone!NewRecord, Stall!Path,
             Alone!Path, Stall!Appended, Alone!Appended, Stall!NewInode, Alone!NewInode,
             Stall!Segment, Alone!Segment, Stall!GoTo, Alone!GoTo, Stall!Front, Alone!Front
    <2>11. Stall!Cache(p) => Alone!Cache(p)
      BY DEF Stall!Cache, Alone!Cache, Stall!Path, Alone!Path, Stall!Size, Alone!Size, Stall!GoTo,
             Alone!GoTo, Stall!fileVars, Alone!fileVars
    <2>12. Stall!Fails(p) => Alone!Fails(p)
      BY DEF Stall!Fails, Alone!Fails, Stall!GoTo, Alone!GoTo, Stall!fileVars, Alone!fileVars
    <2>13. Stall!Release(p) => Alone!Release(p)
      BY DEF Stall!Release, Alone!Release, Stall!GoTo, Alone!GoTo, Stall!Genesis, Alone!Genesis,
             Stall!fileVars, Alone!fileVars
    <2>14. Stall!Crash(p) => Alone!Crash(p)
      BY DEF Stall!Crash, Alone!Crash, Stall!GoTo, Alone!GoTo, Stall!Genesis, Alone!Genesis,
             Stall!fileVars, Alone!fileVars
    <2>15. Stall!LockBroken(p) => Alone!LockBroken(p)
      BY DEF Stall!LockBroken, Alone!LockBroken, Stall!fileVars, Alone!fileVars
    <2> QED
      BY <2>1, <2>2, <2>3, <2>4, <2>5, <2>6, <2>7, <2>8, <2>9, <2>10, <2>11, <2>12, <2>13, <2>14, <2>15
  <1>2. ASSUME NEW r \in Verifier
        PROVE  /\ Stall!VerifyStarts(r) => Alone!VerifyStarts(r)
               /\ Stall!VerifyLists(r) => Alone!VerifyLists(r)
               /\ Stall!VerifyReads(r) => Alone!VerifyReads(r)
               /\ Stall!VerifyEnds(r) => Alone!VerifyEnds(r)
    <2>1. Stall!VerifyStarts(r) => Alone!VerifyStarts(r)
      BY DEF Stall!VerifyStarts, Alone!VerifyStarts, Stall!Start, Alone!Start, Stall!Path,
             Alone!Path, Stall!fileVars, Alone!fileVars
    <2>2. Stall!VerifyLists(r) => Alone!VerifyLists(r)
      BY DEF Stall!VerifyLists, Alone!VerifyLists, Stall!Path, Alone!Path, Stall!fileVars,
             Alone!fileVars
    <2>3. Stall!VerifyReads(r) => Alone!VerifyReads(r)
      BY DEF Stall!VerifyReads, Alone!VerifyReads, Stall!RecordsOf, Alone!RecordsOf, Stall!Linked,
             Alone!Linked, Stall!Last, Alone!Last, Stall!fileVars, Alone!fileVars
    <2>4. Stall!VerifyEnds(r) => Alone!VerifyEnds(r)
      BY DEF Stall!VerifyEnds, Alone!VerifyEnds, Stall!Start, Alone!Start, Stall!fileVars,
             Alone!fileVars
    <2> QED
      BY <2>1, <2>2, <2>3, <2>4
  <1> QED
    BY <1>1, <1>2 DEF Stall!Next, Alone!Next

LEMMA StallSees ==
  /\ Alone!OneChain => Stall!OneChain
  /\ Alone!VerifyAccepts => Stall!VerifyAccepts
  <1>1. Alone!OneChain => Stall!OneChain
    BY DEF Alone!OneChain, Stall!OneChain, Alone!Linked, Stall!Linked, Alone!RecordsOf, Stall!RecordsOf,
           Alone!HasHead, Stall!HasHead, Alone!HeadOf, Stall!HeadOf, Alone!Segment, Stall!Segment,
           Alone!Last, Stall!Last
  <1>2. Alone!VerifyAccepts => Stall!VerifyAccepts
    BY DEF Alone!VerifyAccepts, Stall!VerifyAccepts
  <1> QED
    BY <1>1, <1>2

\* Both hold the same files, so the same trail.
LEMMA SameTrails ==
  /\ Alone!Held = Held /\ Alone!EndHash = EndHash
  /\ Alone!Held' = Held' /\ Alone!EndHash' = EndHash'
  <1>1. Alone!Held = Held /\ Alone!Held' = Held'
    BY DEF Alone!Held, Held, Alone!RecordsOf, RecordsOf, Alone!Segment, Segment, Alone!Range, Range
  <1>2. Alone!EndHash = EndHash /\ Alone!EndHash' = EndHash'
    BY DEF Alone!EndHash, EndHash, Alone!RecordsOf, RecordsOf, Alone!Segment, Segment, Alone!HasHead, HasHead,
           Alone!HeadOf, HeadOf, Alone!Last, Last, Alone!Newest, Newest, Alone!Genesis, Genesis
  <1> QED
    BY <1>1, <1>2

LEMMA StallTrail ==
  ASSUME StallAssumption, SinkConstants
  PROVE  /\ Alone!Trail!Init => Trail!Init
         /\ Alone!Trail!Extend => Trail!Extend
         /\ Alone!Trail!Prune => Trail!Prune
         /\ UNCHANGED Alone!Trail!trail => UNCHANGED Trail!trail
  <1>1. Alone!Hash \subseteq Hash
    BY DEF Alone!Hash, Hash, StallAssumption, Stall!SinkConstants, Stall!Sizes, SinkConstants, Sizes
  <1>2. Alone!Trail!Extend => Trail!Extend
    BY <1>1, SameTrails DEF Alone!Trail!Extend, Trail!Extend
  <1>3. Alone!Trail!Init => Trail!Init
    BY SameTrails DEF Alone!Trail!Init, Trail!Init, Alone!Genesis, Genesis
  <1>4. Alone!Trail!Prune => Trail!Prune
    BY SameTrails DEF Alone!Trail!Prune, Trail!Prune
  <1>5. UNCHANGED Alone!Trail!trail => UNCHANGED Trail!trail
    BY SameTrails DEF Alone!Trail!trail, Trail!trail
  <1> QED
    BY <1>2, <1>3, <1>4, <1>5

-----------------------------------------------------------------------------
(* The parts side by side.  A behaviour is one of the part it starts with,  *)
(* so what is proved of a part holds of it here.                            *)

LEMMA TrailAlone ==
  /\ HostInit /\ part = "trail" => Init
  /\ part = "trail" /\ [HostNext]_state => (part = "trail")' /\ [Next]_vars
  /\ ~(part = "trail") /\ [HostNext]_state => (~(part = "trail"))'
  BY DEF HostInit, HostNext, state

LEMMA StallAlone ==
  /\ HostInit /\ part = "stall" => Alone!Init
  /\ part = "stall" /\ [HostNext]_state => (part = "stall")' /\ [Alone!Next]_Alone!vars
  /\ ~(part = "stall") /\ [HostNext]_state => (~(part = "stall"))'
  <1>1. HostInit /\ part = "stall" => Alone!Init
    BY StallInits DEF HostInit
  <1>2. part = "stall" /\ HostNext => Stall!Next /\ part' = part
    BY DEF HostNext
  <1>3. UNCHANGED state => UNCHANGED Alone!vars /\ part' = part
    BY DEF state, vars, Alone!vars
  <1>4. HostNext => part' = part
    BY DEF HostNext
  <1> QED
    BY <1>1, <1>2, <1>3, <1>4, StallSteps

LEMMA VmAlone ==
  /\ HostInit /\ part = "vm" => Vm!Init
  /\ part = "vm" /\ [HostNext]_state => (part = "vm")' /\ [Vm!Next]_Vm!vars
  /\ ~(part = "vm") /\ [HostNext]_state => (~(part = "vm"))'
  BY DEF HostInit, HostNext, state, machine, Vm!vars, Vm!session, Vm!runDir, Vm!flows

LEMMA BootAlone ==
  /\ HostInit /\ part = "boot" => Boot!Init
  /\ part = "boot" /\ [HostNext]_state => (part = "boot")' /\ [Boot!Next]_Boot!vars
  /\ ~(part = "boot") /\ [HostNext]_state => (~(part = "boot"))'
  BY DEF HostInit, HostNext, state, containers, Boot!vars

LEMMA ImagesAlone ==
  /\ HostInit /\ part = "images" => Images!Init
  /\ part = "images" /\ [HostNext]_state => (part = "images")' /\ [Images!Next]_Images!vars
  /\ ~(part = "images") /\ [HostNext]_state => (~(part = "images"))'
  BY DEF HostInit, HostNext, state, building, Images!vars

LEMMA EvidenceAlone ==
  /\ HostInit /\ part = "evidence" => Evidence!Init
  /\ part = "evidence" /\ [HostNext]_state => (part = "evidence")' /\ [Evidence!Next]_Evidence!vars
  /\ ~(part = "evidence") /\ [HostNext]_state => (~(part = "evidence"))'
  BY DEF HostInit, HostNext, state, attesting, Evidence!vars

LEMMA DevAlone ==
  /\ HostInit /\ part = "dev" => Dev!Init
  /\ part = "dev" /\ [HostNext]_state => (part = "dev")' /\ [Dev!Next]_Dev!vars
  /\ ~(part = "dev") /\ [HostNext]_state => (~(part = "dev"))'
  BY DEF HostInit, HostNext, state, developing, Dev!vars, Dev!cache, Dev!dev

\* Apart from those two the trail is not written.
LEMMA OthersWriteNothing ==
  /\ HostInit /\ ~(part = "trail") /\ ~(part = "stall") => Init
  /\ ~(part = "trail") /\ ~(part = "stall") /\ [HostNext]_state =>
       UNCHANGED vars /\ (~(part = "trail"))' /\ (~(part = "stall"))'
  BY DEF HostInit, HostNext, state

(* Writers that keep their locks hold one chain and trust no head but its   *)
(* end; those that lose them before they checked, where no file is full,    *)
(* hold one chain, which verification accepts (sink.ts, file-lock.ts).      *)
THEOREM TrailsHold ==
  ASSUME SinkConstants, Environment, StallAssumption
  PROVE  HostSpec => []TrailHolds
  <1>1. Spec => [](TypeOK /\ TrustedCacheIsCurrent /\ OneChain)
    BY SinkTypes, TrustedCachesAreCurrent, DiskHoldsOneChain, PTL
  <1>2. Alone!SinkConstants /\ Alone!Environment /\ Alone!NoFullFile
    BY StallConstantsAre
  <1>3. Alone!Spec => []Alone!OneChain
    BY <1>2, Alone!DiskHoldsOneChain
  <1>4. Alone!Spec => []Alone!VerifyAccepts
    BY <1>2, Alone!VerificationAccepts
  <1>5. (~(part = "trail") \/ (TypeOK /\ TrustedCacheIsCurrent /\ OneChain))
          /\ (~(part = "stall") \/ (Alone!OneChain /\ Alone!VerifyAccepts)) => TrailHolds
    BY StallSees DEF TrailHolds
  <1> QED
    BY <1>1, <1>3, <1>4, <1>5, TrailAlone, StallAlone, PTL DEF HostSpec, Spec, Alone!Spec

(* In either case every step of every process extends that one chain at its *)
(* end, gives up its beginning, or leaves it as it is.                      *)
THEOREM HostKeepsOneTrail ==
  ASSUME SinkConstants, Environment, StallAssumption
  PROVE  HostSpec => IsOneTrail
  <1>1. Spec => IsOneTrail
    BY SinkKeepsOneTrail
  <1>2. Alone!Spec => Alone!IsOneTrail
    BY StallConstantsAre, Alone!SinkKeepsOneTrail
  <1>3. /\ Alone!Trail!Init => Trail!Init
        /\ [Alone!Trail!Extend \/ Alone!Trail!Prune]_(Alone!Trail!trail)
              => [Trail!Extend \/ Trail!Prune]_(Trail!trail)
    BY StallTrail
  <1>4. Init => Trail!Init
    BY SinkInit
  <1>5. UNCHANGED vars => UNCHANGED Trail!trail
    BY DEF vars, Trail!trail, Held, EndHash, Newest, HasHead, HeadOf, RecordsOf
  <1> QED
    BY <1>1, <1>2, <1>3, <1>4, <1>5, TrailAlone, StallAlone, OthersWriteNothing, PTL
       DEF HostSpec, Spec, Alone!Spec, IsOneTrail, Trail!Spec, Alone!IsOneTrail, Alone!Trail!Spec

(* One VM runs under a name, and neither it nor a secrets disk outlives the *)
(* sessions that were not killed (vm/runtime.ts, vm/mcp.ts).                *)
THEOREM OneVmIsLeftClean ==
  ASSUME VmAssumption
  PROVE  HostSpec => []OneCleanVm
  BY OneVmAtATime, VmAlone, PTL DEF HostSpec, Vm!Spec, OneCleanVm

(* No secret's value is recorded or kept in an image, and a teardown that   *)
(* says it is done leaves nothing (container.ts, secrets.ts, snapshot.ts).  *)
THEOREM BootsAreClean ==
  ASSUME BootAssumption
  PROVE  HostSpec => []BootIsClean
  BY BoxStaysClean, BootAlone, PTL DEF HostSpec, Boot!Spec, BootIsClean

(* The latest build of each directory stays, with its layers, and the       *)
(* developer's lockfile is restored (image.ts, deploy-queue.ts).            *)
THEOREM LatestBuildsStay ==
  ASSUME ImageAssumption
  PROVE  HostSpec => []BuildsAreKept
  BY BuildsKeepWhatIsOthers, ImagesAlone, PTL DEF HostSpec, Images!Spec, BuildsAreKept

(* What is attested of a boot was measured, of that boot (attest.ts).       *)
THEOREM OnlyMeasuredIsAttested ==
  ASSUME EvidenceAssumption
  PROVE  HostSpec => []EvidenceIsMeasured
  BY WhatIsAttestedWasMeasured, EvidenceAlone, PTL DEF HostSpec, Evidence!Spec, EvidenceIsMeasured

(* Where bundling copies what it hashes, `berth dev` over a VM runs what    *)
(* its watcher saw last or has said that it does not (bundle.ts, dev-vm.ts).*)
THEOREM DevRunsWhatIsSaved ==
  ASSUME Copies
  PROVE  HostSpec => []DevRunsWhatItSaw
  BY DevRunsTheSources, DevAlone, PTL DEF HostSpec, Dev!Spec, DevRunsWhatItSaw

=============================================================================
