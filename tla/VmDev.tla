------------------------------- MODULE VmDev -------------------------------
(***************************************************************************)
(* `berth dev` with the app in a microVM: the bundle of the app is cached  *)
(* by content in a directory every command of that app shares, the watcher *)
(* asks for a reload when a source changes, and a reload bundles, stops    *)
(* the VM and boots the new bundle.  Another command (`berth mcp`) may     *)
(* bundle the same app at any time.                                        *)
(*                                                                         *)
(* The app's sources are one version; a bundle is the version it was made  *)
(* of, and the cache index a pair of what it says was bundled (the hashes  *)
(* of its inputs) and the bundle.                                          *)
(***************************************************************************)
EXTENDS Integers, Sequences

CONSTANTS
  Version,    \* contents the sources may have
  Broken,     \* those that do not bundle
  Runtime,    \* "node": esbuild reads the inputs; "python": they are copied
  KeepShares, \* bundles prune keeps (three; fewer here, so that it drops some)
  MaxEdits,   \* bound: saves
  MaxKills,   \* bound: `berth dev` killed, or interrupted before it watches
  None

Bundler == {"dev", "other"}

VARIABLES
  src,      \* the sources
  seen,     \* the sources as the watcher last reported them
  index,    \* index.json: [inputs, share], or None
  tmp,      \* index.json.tmp
  shares,   \* the bundles on disk, oldest first
  step,     \* each command's step in bundleApp
  got,      \* the version it bundled
  hashed,   \* the version its input hashes are of
  pc,       \* the step of `berth dev`
  vm,       \* the bundle its VM runs, or None
  current,  \* the bundle it booted last
  due,      \* the watcher's debounce timer runs
  queue,    \* reloads chained on `reloading`
  watching, closing,
  told,     \* the last reload printed that it failed
  edits, kills

cache == <<index, tmp, shares, step, got, hashed>>
dev == <<pc, vm, current, due, queue, watching, closing, told>>
vars == <<src, seen, cache, dev, edits, kills>>

Init ==
  /\ src \in Version \ Broken
  /\ seen = None
  /\ index = None /\ tmp = None
  /\ shares = <<>>
  /\ step = [p \in Bundler |-> "idle"]
  /\ got = [p \in Bundler |-> None]
  /\ hashed = [p \in Bundler |-> None]
  /\ pc = "off"
  /\ vm = None /\ current = None
  /\ due = FALSE /\ queue = 0
  /\ watching = FALSE /\ closing = FALSE
  /\ told = FALSE
  /\ edits = 0 /\ kills = 0

TypeOK ==
  /\ src \in Version
  /\ vm \in Version \cup {None}
  /\ index \in [inputs : Version, share : Version] \cup {None}
  /\ step \in [Bundler -> {"idle", "build", "share", "hash", "write", "rename", "prune", "done", "failed"}]
  /\ pc \in {"off", "bundle", "compare", "stop", "boot", "idle", "exited"}

\* A save.  The watcher, once `berth dev` watches, starts its timer again.
Edit(v) ==
  /\ v # src /\ edits < MaxEdits
  /\ src' = v
  /\ edits' = edits + 1
  /\ due' = (due \/ watching)
  /\ seen' = IF watching THEN v ELSE seen
  /\ UNCHANGED <<cache, pc, vm, current, queue, watching, closing, told, kills>>

---------------------------------------------------------------------------
(* bundleApp.                                                              *)

Go(p, s) == step' = [step EXCEPT ![p] = s]

Lists(names, share) == \E n \in DOMAIN names : names[n] = share
Cached == index # None /\ index.inputs = src /\ Lists(shares, index.share)

\* The index is read and its inputs hashed again.
LookUp(p) ==
  /\ step[p] = "build"
  /\ Cached
  /\ got' = [got EXCEPT ![p] = index.share]
  /\ Go(p, "done")
  /\ UNCHANGED <<index, tmp, shares, hashed>>

\* The inputs are read and bundled, into a work directory of this command's.
Build(p) ==
  /\ step[p] = "build"
  /\ ~Cached
  /\ got' = [got EXCEPT ![p] = src]
  /\ hashed' = [hashed EXCEPT ![p] = src]
  /\ Go(p, IF src \in Broken THEN "failed" ELSE "share")
  /\ UNCHANGED <<index, tmp, shares>>

\* Renamed to its content's name, unless it is there.
Share(p) ==
  /\ step[p] = "share"
  /\ shares' = IF Lists(shares, got[p]) THEN shares ELSE Append(shares, got[p])
  /\ Go(p, "hash")
  /\ UNCHANGED <<index, tmp, got, hashed>>

HashedAfterBuild(p) == src

\* What the index will say was bundled: a Python app's hashes are those of the
\* bytes that were copied, a node app's inputs are read again.
HashInputs(p) == IF Runtime = "python" THEN hashed[p] ELSE src

Hash(p) ==
  /\ step[p] = "hash"
  /\ hashed' = [hashed EXCEPT ![p] = HashInputs(p)]
  /\ Go(p, "write")
  /\ UNCHANGED <<index, tmp, shares, got>>

WriteIndex(p) ==
  /\ step[p] = "write"
  /\ tmp' = [inputs |-> hashed[p], share |-> got[p]]
  /\ Go(p, "rename")
  /\ UNCHANGED <<index, shares, got, hashed>>

\* The temporary name is the same for every command: another's rename takes
\* it away, and this one's fails.
RenameIndex(p) ==
  /\ step[p] = "rename"
  /\ index' = IF tmp = None THEN index ELSE tmp
  /\ tmp' = None
  /\ Go(p, IF tmp = None THEN "failed" ELSE "prune")
  /\ UNCHANGED <<shares, got, hashed>>

\* The newest are kept, and the one just bundled.
Prune(p) ==
  /\ step[p] = "prune"
  /\ LET others == SelectSeq(shares, LAMBDA s : s # got[p])
         n == Len(others)
         kept == SubSeq(others, IF n < KeepShares THEN 1 ELSE n - KeepShares + 2, n)
     IN shares' = SelectSeq(shares, LAMBDA s : s = got[p] \/ Lists(kept, s))
  /\ Go(p, "done")
  /\ UNCHANGED <<index, tmp, got, hashed>>

Bundle(p) ==
  /\ \/ LookUp(p) \/ Build(p) \/ Share(p) \/ Hash(p) \/ WriteIndex(p) \/ RenameIndex(p) \/ Prune(p)
  /\ UNCHANGED <<src, seen, dev, edits, kills>>

\* Another command bundles the app.
OtherBundles ==
  /\ step["other"] \in {"idle", "done", "failed"}
  /\ Go("other", "build")
  /\ UNCHANGED <<src, seen, index, tmp, shares, got, hashed, dev, edits, kills>>

---------------------------------------------------------------------------
(* runDevVm.                                                               *)

\* A VM an earlier session left running is stopped; then the app is bundled.
Start ==
  /\ pc \in {"off", "exited"}
  /\ vm' = None
  /\ current' = None
  /\ told' = FALSE /\ closing' = FALSE
  /\ pc' = "bundle"
  /\ Go("dev", "build")
  /\ UNCHANGED <<src, seen, index, tmp, shares, got, hashed, due, queue, watching, edits, kills>>

\* The debounce timer fires.
Fire ==
  /\ due /\ watching
  /\ due' = FALSE
  /\ queue' = queue + 1
  /\ UNCHANGED <<src, seen, cache, pc, vm, current, watching, closing, told, edits, kills>>

\* One reload at a time: each starts when the one before it ended.
Reload ==
  /\ pc = "idle" /\ queue > 0
  /\ queue' = queue - 1
  /\ pc' = "bundle"
  /\ told' = FALSE
  /\ Go("dev", "build")
  /\ UNCHANGED <<src, seen, index, tmp, shares, got, hashed, vm, current, due, watching, closing, edits, kills>>

\* A bundle that failed ends the session's start, or skips the reload.
BundleFailed ==
  /\ pc = "bundle" /\ step["dev"] = "failed"
  /\ told' = TRUE
  /\ pc' = IF current = None THEN "off" ELSE "idle"
  /\ UNCHANGED <<src, seen, cache, vm, current, due, queue, watching, closing, edits, kills>>

Compare ==
  /\ pc = "bundle" /\ step["dev"] = "done"
  /\ pc' = IF current = None THEN "boot"
           ELSE IF vm # None /\ got["dev"] = current THEN "idle" ELSE "stop"
  /\ UNCHANGED <<src, seen, cache, vm, current, due, queue, watching, closing, told, edits, kills>>

Stop ==
  /\ pc = "stop"
  /\ vm' = None
  /\ pc' = "boot"
  /\ UNCHANGED <<src, seen, cache, current, due, queue, watching, closing, told, edits, kills>>

\* bootVm; the session watches once its first VM is ready.
Boot ==
  /\ pc = "boot"
  /\ Lists(shares, got["dev"])
  /\ vm' = got["dev"]
  /\ current' = got["dev"]
  /\ watching' = (watching \/ ~closing)
  /\ pc' = "idle"
  /\ UNCHANGED <<src, seen, cache, due, queue, closing, told, edits, kills>>

BootFails ==
  /\ pc = "boot"
  /\ told' = TRUE
  /\ pc' = IF current = None THEN "off" ELSE "idle"
  /\ UNCHANGED <<src, seen, cache, vm, current, due, queue, watching, closing, edits, kills>>

\* The VM powers off by itself.
VmExits ==
  /\ vm # None /\ watching
  /\ vm' = None
  /\ UNCHANGED <<src, seen, cache, pc, current, due, queue, watching, closing, told, edits, kills>>

\* SIGINT, SIGTERM or SIGHUP once the session watches: the watchers close,
Signal ==
  /\ watching
  /\ watching' = FALSE /\ closing' = TRUE
  /\ due' = FALSE
  /\ seen' = None
  /\ UNCHANGED <<src, cache, pc, vm, current, queue, told, edits, kills>>

ReloadsAbandoned == TRUE

\* the chained reloads end,
ReloadsEnded == pc = "idle" /\ queue = 0

\* and the VM is stopped.
Shutdown ==
  /\ closing /\ pc # "exited"
  /\ ReloadsEnded
  /\ vm' = IF pc = "boot" THEN got["dev"] ELSE None
  /\ queue' = 0
  /\ closing' = FALSE
  /\ pc' = "exited"
  /\ Go("dev", "idle")
  /\ UNCHANGED <<src, seen, index, tmp, shares, got, hashed, current, due, watching, told, edits, kills>>

\* The session is killed; a VM that was booting comes up without it.
Kill ==
  /\ pc \notin {"off", "exited"}
  /\ kills < MaxKills
  /\ kills' = kills + 1
  /\ vm' = IF pc = "boot" THEN got["dev"] ELSE vm
  /\ pc' = "off"
  /\ due' = FALSE /\ queue' = 0 /\ watching' = FALSE /\ closing' = FALSE /\ seen' = None
  /\ Go("dev", "idle")
  /\ UNCHANGED <<src, index, tmp, shares, got, hashed, current, told, edits>>

Next ==
  \/ \E v \in Version : Edit(v)
  \/ \E p \in Bundler : Bundle(p)
  \/ OtherBundles
  \/ Start \/ Fire \/ Reload \/ BundleFailed \/ Compare \/ Stop \/ Boot \/ BootFails
  \/ VmExits \/ Signal \/ Shutdown \/ Kill

Spec == Init /\ [][Next]_vars

---------------------------------------------------------------------------
\* A session at rest runs the sources the watcher reported last, or has told
\* its user that it does not.
RunsWhatItSaw ==
  pc = "idle" /\ ~due /\ queue = 0 /\ vm # None /\ seen # None /\ ~told => vm = seen

\* A session that was shut down leaves no VM behind, whatever reload it was in.
NoVmLeft == pc = "exited" => vm = None
=============================================================================
