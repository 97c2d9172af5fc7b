----------------------------- MODULE VmInstall -----------------------------
(***************************************************************************)
(* What a microVM needs on the host, put there on first use or by `berth   *)
(* vm install`: berth-vmm and the libkrun it loads, whose paths every      *)
(* release of the CLI shares, and the kernel and root file system, whose   *)
(* paths carry their hash.  Every file is copied from a build directory    *)
(* or downloaded to a temporary name, hashed there and renamed.  A server  *)
(* may stop sending, cut the connection, or serve other bytes at any       *)
(* attempt, and a command may be killed at any step.                       *)
(*                                                                         *)
(* A file is a sequence of Size chunks: chunk r of the published build of  *)
(* release r, -r of a local build that boots release r's images, 0 of      *)
(* anything else.  The kernel and the root file system are one artifact    *)
(* here, "image"; a layer is installed by the same code.                   *)
(***************************************************************************)
EXTENDS Integers, Sequences, FiniteSets

CONSTANTS
  Proc,         \* commands, each with a process id of its own
  Release,      \* releases of the CLI, positive numbers
  CliOf,        \* the release each command belongs to
  KrunVersion,  \* LIBKRUN_VERSION of each release
  Size,         \* chunks of every artifact
  Attempts,     \* DOWNLOAD_ATTEMPTS
  Found,        \* bound: the files a run starts from, by path
  Command,      \* bound: the commands a run starts
  MaxKills,     \* bound: commands killed
  NoFile

VARIABLES
  disk,     \* content at each final path
  link,     \* the libkrun version the loader's link names, 0 when there is none
  part,     \* content of each command's temporary file
  cmd,      \* what each command was asked: [auto, force, url]
  pc,       \* the step of the command
  io,       \* the step of installOne within it
  pin,      \* what installOne installs: [kind, rel]
  attempt,  \* the download attempt, from 1
  served,   \* what the server is sending
  kills

vars == <<disk, link, part, cmd, pc, io, pin, attempt, served, kills>>

Full(r) == [i \in 1 .. Size |-> r]

Junk == Full(0)

\* artifactPath: berth-vmm's path is one for every release, libkrun's carries
\* its version, an image's its hash.
ArtifactPath(p) ==
  CASE p.kind = "vmm" -> <<"vmm", 0>>
    [] p.kind = "libkrun" -> <<"libkrun", KrunVersion[p.rel]>>
    [] p.kind = "image" -> <<"image", p.rel>>

Path == {<<"vmm", 0>>} \cup {<<"libkrun", KrunVersion[r]>> : r \in Release}
          \cup {<<"image", r>> : r \in Release}

\* The temporary name carries the process id.
Tmp(p) == p

Vmm == disk[<<"vmm", 0>>]

NoPin == [kind |-> "none", rel |-> 0]

\* The images a berth-vmm boots, read out of the binary (vmmPins): 0 when it
\* carries no readable manifest.
VmmPins(c) ==
  IF \E r \in Release : c \in {Full(r), Full(-r)}
  THEN CHOOSE r \in Release : c \in {Full(r), Full(-r)} ELSE 0

\* activePins: berth-vmm's own, else those of this CLI.
ActivePins(p) == IF VmmPins(Vmm) # 0 THEN VmmPins(Vmm) ELSE CliOf[p]

\* staleInstalledVmm: whether the published berth-vmm replaces the one there.
StaleInstalledVmm(p, force) ==
  /\ Vmm # Full(CliOf[p])
  /\ Vmm = NoFile \/ force \/ VmmPins(Vmm) # CliOf[p]

LibkrunMissing(p) == disk[<<"libkrun", KrunVersion[CliOf[p]]>>] = NoFile

\* A sandbox that boots installs what is missing, from every source.
Sandbox == [auto |-> TRUE, force |-> FALSE, url |-> TRUE]

\* What commands that ended left: nothing, or an install of a release (its
\* berth-vmm published or built, its libkrun linked), over files of others;
\* an image may have been damaged since.
Init ==
  /\ disk \in {d \in [Path -> UNION {Found[q] : q \in Path}] : \A q \in Path : d[q] \in Found[q]}
  /\ IF Vmm = NoFile
     THEN link = 0 /\ \A q \in Path : q[1] = "libkrun" => disk[q] = NoFile
     ELSE link = KrunVersion[VmmPins(Vmm)] /\ disk[<<"libkrun", link>>] # NoFile
  /\ part = [p \in Proc |-> NoFile]
  /\ cmd = [p \in Proc |-> Sandbox]
  /\ pc = [p \in Proc |-> "idle"]
  /\ io = [p \in Proc |-> "none"]
  /\ pin = [p \in Proc |-> NoPin]
  /\ attempt = [p \in Proc |-> 1]
  /\ served = [p \in Proc |-> <<>>]
  /\ kills = 0

\* installArtifacts of one pin: done when the installed file verifies, unless
\* it is forced; what follows when it is done is next.
InstallOne(p, kind, rel, force, next) ==
  LET q == ArtifactPath([kind |-> kind, rel |-> rel]) IN
  IF ~force /\ disk[q] = Full(rel)
  THEN /\ pc' = [pc EXCEPT ![p] = next]
       /\ UNCHANGED <<io, pin>>
  ELSE /\ io' = [io EXCEPT ![p] = "copy"]
       /\ pin' = [pin EXCEPT ![p] = [kind |-> kind, rel |-> rel]]
       /\ UNCHANGED pc

Quiet == <<disk, link, part, cmd, attempt, served, kills>>

\* A command starts: a sandbox that boots (auto), whose ensureVmm returns at
\* once when the berth-vmm there is current and its libkrun is beside it, or
\* `berth vm install`, with --force or --no-download.
Start(p) ==
  /\ pc[p] = "idle"
  /\ \E c \in Command :
       /\ cmd' = [cmd EXCEPT ![p] = c]
       /\ pc' = [pc EXCEPT ![p] =
                   IF c.auto /\ ~StaleInstalledVmm(p, FALSE) /\ ~LibkrunMissing(p) THEN "host" ELSE "vmm"]
  /\ UNCHANGED <<disk, link, part, io, pin, attempt, served, kills>>

\* installPublishedVmm: berth-vmm first, when the one there is stale.
InstallVmm(p) ==
  /\ pc[p] = "vmm" /\ io[p] = "none"
  /\ IF StaleInstalledVmm(p, cmd[p].force)
     THEN InstallOne(p, "vmm", CliOf[p], TRUE, "libkrun")
     ELSE pc' = [pc EXCEPT ![p] = "libkrun"] /\ UNCHANGED <<io, pin>>
  /\ UNCHANGED Quiet

AfterVmm(p) == IF cmd[p].auto THEN "host" ELSE "image"

\* then libkrun, when the berth-vmm there is the published one.
InstallLibkrun(p) ==
  /\ pc[p] = "libkrun" /\ io[p] = "none"
  /\ IF Vmm = Full(CliOf[p])
     THEN InstallOne(p, "libkrun", CliOf[p], cmd[p].force, "link")
     ELSE pc' = [pc EXCEPT ![p] = AfterVmm(p)] /\ UNCHANGED <<io, pin>>
  /\ UNCHANGED Quiet

\* and the link to it.
Link(p) ==
  /\ pc[p] = "link"
  /\ link' = KrunVersion[CliOf[p]]
  /\ pc' = [pc EXCEPT ![p] = AfterVmm(p)]
  /\ UNCHANGED <<disk, part, cmd, io, pin, attempt, served, kills>>

\* requireHost: a berth-vmm with readable pins, and a libkrun of the version
\* this CLI's berth-vmm is built against.
HostOk(p) ==
  /\ VmmPins(Vmm) # 0
  /\ link = KrunVersion[CliOf[p]]
  /\ disk[<<"libkrun", link>>] # NoFile

\* `berth vm install` ends with the same checks.
RequireHost(p) ==
  /\ pc[p] = "host"
  /\ pc' = [pc EXCEPT ![p] = IF ~HostOk(p) THEN "refused" ELSE IF cmd[p].auto THEN "image" ELSE "ready"]
  /\ UNCHANGED <<disk, link, part, cmd, io, pin, attempt, served, kills>>

\* ensureArtifacts of a boot looks at sizes only; `berth vm install` hashes.
ArtifactsPresent(r) ==
  disk[<<"image", r>>] # NoFile /\ Len(disk[<<"image", r>>]) = Size

EnsureArtifacts(p) ==
  /\ pc[p] = "image" /\ io[p] = "none"
  /\ LET next == IF cmd[p].auto THEN "ready" ELSE "host" IN
     IF cmd[p].auto /\ ArtifactsPresent(ActivePins(p))
     THEN pc' = [pc EXCEPT ![p] = next] /\ UNCHANGED <<io, pin>>
     ELSE InstallOne(p, "image", ActivePins(p), cmd[p].force, next)
  /\ UNCHANGED Quiet

---------------------------------------------------------------------------
(* installOne, once it has something to fetch.                             *)

\* The step of the command after the one whose file was just installed.
NextStep(p) ==
  CASE pin[p].kind = "vmm" -> "libkrun"
    [] pin[p].kind = "libkrun" -> "link"
    [] pin[p].kind = "image" -> IF cmd[p].auto THEN "ready" ELSE "host"

\* The temporary file is removed whatever happened; the command fails.
Fail(p) ==
  /\ part' = [part EXCEPT ![Tmp(p)] = NoFile]
  /\ io' = [io EXCEPT ![p] = "none"]
  /\ pin' = [pin EXCEPT ![p] = NoPin]
  /\ pc' = [pc EXCEPT ![p] = "failed"]
  /\ attempt' = [attempt EXCEPT ![p] = 1]
  /\ served' = [served EXCEPT ![p] = <<>>]

\* finish and rename, of a file whose hash matched.
Rename(p) ==
  /\ io[p] = "rename" /\ part[Tmp(p)] # NoFile
  /\ disk' = [disk EXCEPT ![ArtifactPath(pin[p])] = part[Tmp(p)]]
  /\ part' = [part EXCEPT ![Tmp(p)] = NoFile]
  /\ io' = [io EXCEPT ![p] = "none"]
  /\ pin' = [pin EXCEPT ![p] = NoPin]
  /\ pc' = [pc EXCEPT ![p] = NextStep(p)]
  /\ attempt' = [attempt EXCEPT ![p] = 1]
  /\ served' = [served EXCEPT ![p] = <<>>]
  /\ UNCHANGED <<link, cmd, kills>>

Download(p) ==
  /\ part' = [part EXCEPT ![Tmp(p)] = NoFile]
  /\ io' = [io EXCEPT ![p] = "request"]
  /\ UNCHANGED <<disk, pin, pc, attempt, served>>

\* A build directory that has the file (or other bytes under its name): the
\* copy is hashed, and the download is tried when it is not the pinned file.
Copy(p) ==
  /\ io[p] = "copy"
  /\ \E c \in {NoFile, Junk, Full(pin[p].rel)} :
       IF c = Full(pin[p].rel)
       THEN /\ part' = [part EXCEPT ![Tmp(p)] = c]
            /\ io' = [io EXCEPT ![p] = "verify"]
            /\ UNCHANGED <<disk, pin, pc, attempt, served>>
       ELSE IF cmd[p].url THEN Download(p) ELSE Fail(p) /\ UNCHANGED disk
  /\ UNCHANGED <<link, cmd, kills>>

Bytes(p) == IF part[Tmp(p)] = NoFile THEN <<>> ELSE part[Tmp(p)]

Have(p) == Len(Bytes(p))

\* What an attempt that fails leaves is kept for the next, until the last.
AttemptFails(p) ==
  IF attempt[p] < Attempts
  THEN /\ attempt' = [attempt EXCEPT ![p] = @ + 1]
       /\ io' = [io EXCEPT ![p] = IF Have(p) = Size THEN "verify" ELSE "request"]
       /\ served' = [served EXCEPT ![p] = <<>>]
       /\ UNCHANGED <<disk, part, pin, pc>>
  ELSE Fail(p) /\ UNCHANGED disk

\* The server answers: a 200, whose body starts over, or a 206 from where the
\* file ends; of the pinned file, or of other and more bytes, of which BodyEnds
\* may make any number.
Respond(p) ==
  /\ io[p] = "request"
  /\ \E whole \in {Full(pin[p].rel), Append(Junk, 0)}, from \in {0, Have(p)} :
       /\ served' = [served EXCEPT ![p] = SubSeq(whole, from + 1, Len(whole))]
       /\ part' = [part EXCEPT ![Tmp(p)] = IF from = 0 THEN <<>> ELSE @]
  /\ io' = [io EXCEPT ![p] = "body"]
  /\ UNCHANGED <<disk, link, cmd, pc, pin, attempt, kills>>

\* It declares a length that is not the rest of the pinned file: refused, and
\* not tried again.
WrongLength(p) ==
  /\ io[p] = "request"
  /\ Fail(p)
  /\ UNCHANGED <<disk, link, cmd, kills>>

\* A chunk arrives; one past the pinned size is refused.
Chunk(p) ==
  /\ io[p] = "body" /\ served[p] # <<>>
  /\ IF Have(p) = Size
     THEN Fail(p)
     ELSE /\ part' = [part EXCEPT ![Tmp(p)] = Append(Bytes(p), Head(served[p]))]
          /\ served' = [served EXCEPT ![p] = Tail(@)]
          /\ UNCHANGED <<io, pc, pin, attempt>>
  /\ UNCHANGED <<disk, link, cmd, kills>>

\* The body ends: the file is hashed if it has the pinned size.
BodyEnds(p) ==
  /\ io[p] = "body"
  /\ IF Have(p) = Size
     THEN io' = [io EXCEPT ![p] = "verify"] /\ UNCHANGED <<part, pc, pin, attempt, served>>
     ELSE Fail(p)
  /\ UNCHANGED <<disk, link, cmd, kills>>

\* An answer that is an error or another range than the rest, or a connection
\* that is cut.
Broken(p) ==
  /\ io[p] \in {"request", "body"}
  /\ AttemptFails(p)
  /\ UNCHANGED <<link, cmd, kills>>

StallOfBody(p) ==
  /\ io[p] = "body"
  /\ AttemptFails(p)
  /\ UNCHANGED <<link, cmd, kills>>

\* No bytes for STALL_MS, since the request or the last chunk.
Stall(p) ==
  /\ io[p] \in {"request", "body"}
  /\ AttemptFails(p)
  /\ UNCHANGED <<link, cmd, kills>>

\* Only the size is compared: a mutant.
VerifiesSize(p) == part[Tmp(p)] # NoFile /\ Len(part[Tmp(p)]) = Size

\* The file is renamed when its hash is the pin's.
Verifies(p) == part[Tmp(p)] = Full(pin[p].rel)

Verify(p) ==
  /\ io[p] = "verify"
  /\ IF Verifies(p)
     THEN io' = [io EXCEPT ![p] = "rename"] /\ UNCHANGED <<part, pc, pin, attempt, served>>
     ELSE Fail(p)
  /\ UNCHANGED <<disk, link, cmd, kills>>

---------------------------------------------------------------------------
\* The command is killed: what it had renamed stays, its temporary file too,
\* and the next command of that process id starts.
Kill(p) ==
  /\ pc[p] \notin {"idle", "ready", "refused", "failed"}
  /\ kills < MaxKills
  /\ kills' = kills + 1
  /\ pc' = [pc EXCEPT ![p] = "idle"]
  /\ io' = [io EXCEPT ![p] = "none"]
  /\ pin' = [pin EXCEPT ![p] = NoPin]
  /\ attempt' = [attempt EXCEPT ![p] = 1]
  /\ served' = [served EXCEPT ![p] = <<>>]
  /\ UNCHANGED <<disk, link, part, cmd>>

Step(p) ==
  \/ Start(p) \/ InstallVmm(p) \/ InstallLibkrun(p) \/ Link(p) \/ RequireHost(p)
  \/ EnsureArtifacts(p) \/ Copy(p) \/ Stall(p) \/ Verify(p) \/ Rename(p)

Server(p) ==
  Respond(p) \/ WrongLength(p) \/ Chunk(p) \/ BodyEnds(p) \/ Broken(p)

Next == \E p \in Proc : Step(p) \/ Server(p) \/ Kill(p)

Spec == Init /\ [][Next]_vars

---------------------------------------------------------------------------
\* What changes at a final path becomes exactly the file that path is pinned
\* to: "Nothing unverified is ever left at the final path".
VerifiedStep ==
  \A q \in Path : disk'[q] # disk[q] =>
    \E r \in Release : disk'[q] = Full(r) /\ \E k \in {"vmm", "libkrun", "image"} :
      ArtifactPath([kind |-> k, rel |-> r]) = q

\* A command that has begun, and one that is over.
Begun(p) == pc[p] # "idle"
Over(p) == pc[p] \in {"idle", "ready", "refused", "failed"}
=============================================================================
