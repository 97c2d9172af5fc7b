----------------------------- MODULE ImageBuild -----------------------------
(***************************************************************************)
(* buildImage() of docker-orchestrator (image.ts): the staging of an app's *)
(* production source, which may have to rewrite the workspace's lockfile,  *)
(* the build, and the reclaiming of the build it replaces.                 *)
(*                                                                         *)
(* The classic builder leaves a chain of images: the base layers every app *)
(* shares, the layer that copies the app in, and the final image.  Equal   *)
(* sources give equal images, so an image is named by what it was built    *)
(* from.  Every app directory builds in its own time; the ones of one      *)
(* workspace do so in one process.                                         *)
(***************************************************************************)
EXTENDS Naturals, FiniteSets

CONSTANTS
  Dir,         \* app directories
  Repo,        \* per directory: the image repository, which is the app's name
  Workspace,   \* per directory: the pnpm workspace it is a member of
  Version,     \* the sources an app can have
  MaxBuilds,   \* bound, per directory: its builds
  None

VARIABLES
  images,    \* the images the daemon has
  tags,      \* per reference: the image it names, or None
  young,     \* images created in the last SWEEP_MIN_AGE_SECONDS
  lockfile,  \* per workspace: "original", or the directory whose deploy rewrote it
  queue,     \* per workspace: the deploy that has the lockfile, or None
  build,     \* per directory: its build [pc, n, version, before, previous, retired, list]
  latest     \* per directory: the image its last build retained, or None

vars == <<images, tags, young, lockfile, queue, build, latest>>
daemon == <<images, tags, young>>
staging == <<lockfile, queue>>

Base == [kind |-> "base"]
Layer(d, v) == [kind |-> "layer", dir |-> d, version |-> v]
Final(d, v) == [kind |-> "final", dir |-> d, version |-> v]
\* An image somebody built FROM a final one; labels are inherited.
Derived(i) == [kind |-> "derived", dir |-> i.dir, version |-> i.version]

Parent(i) ==
  CASE i.kind = "base" -> None
    [] i.kind = "layer" -> Base
    [] i.kind = "final" -> Layer(i.dir, i.version)
    [] OTHER -> Final(i.dir, i.version)

Chain(i) == {Base, Layer(i.dir, i.version), i}

\* One reference for every checkout of an app: the mutant, and what Berth did.
LegacyBuildCacheRef(d) == [ref |-> "cache", repo |-> Repo[d], dir |-> None]

BuildCacheRef(d) == [ref |-> "cache", repo |-> Repo[d], dir |-> d]

\* The tag of a build, which `stop` removes again.
Tag(d) == [ref |-> "tag", repo |-> Repo[d], dir |-> d]

Ref == {BuildCacheRef(d) : d \in Dir} \cup {LegacyBuildCacheRef(d) : d \in Dir}
         \cup {Tag(d) : d \in Dir}

Label(i) == IF i.kind \in {"final", "derived"} THEN BuildCacheRef(i.dir) ELSE None

RepoTags(i) == {r \in Ref : tags[r] = i}

Children(i, among) == {j \in among : Parent(j) = i}

Idle == [pc |-> "idle", n |-> 0, version |-> None, before |-> None,
         previous |-> {}, retired |-> {}, list |-> {}, tagged |-> {}, at |-> None]

Init ==
  /\ images = {Base} /\ young = {}
  /\ tags = [r \in Ref |-> None]
  /\ lockfile = [w \in {Workspace[d] : d \in Dir} |-> "original"]
  /\ queue = [w \in {Workspace[d] : d \in Dir} |-> None]
  /\ build = [d \in Dir |-> Idle]
  /\ latest = [d \in Dir |-> None]

Done(d) == [Idle EXCEPT !.n = build[d].n]
At(d, pc) == build[d].pc = pc
Go(d, pc) == build' = [build EXCEPT ![d].pc = pc]

-----------------------------------------------------------------------------
(* Staging.                                                                 *)

\* The developer may have edited the source, or put it back.
Begin(d) ==
  /\ At(d, "idle") /\ build[d].n < MaxBuilds[d]
  /\ \E v \in Version :
       build' = [build EXCEPT ![d].pc = "deploy", ![d].n = @ + 1, ![d].version = v]
  /\ UNCHANGED <<daemon, staging, latest>>

\* A deploy with the frozen lockfile never writes it; a Python app and one
\* outside a workspace have nothing to deploy.
DeployFrozen(d) ==
  /\ At(d, "deploy")
  /\ Go(d, "inspect")
  /\ UNCHANGED <<daemon, staging, latest>>

\* Deploys that do not wait for each other: a mutant.
WithLockfileRestoredAtOnce(d) ==
  /\ At(d, "deploy")
  /\ build' = [build EXCEPT ![d].pc = "rewrite", ![d].before = lockfile[Workspace[d]]]
  /\ UNCHANGED <<daemon, staging, latest>>

\* One that must write it waits for the one before it, and reads the file.
WithLockfileRestored(d) ==
  /\ At(d, "deploy") /\ queue[Workspace[d]] = None
  /\ queue' = [queue EXCEPT ![Workspace[d]] = d]
  /\ build' = [build EXCEPT ![d].pc = "rewrite", ![d].before = lockfile[Workspace[d]]]
  /\ UNCHANGED <<daemon, lockfile, latest>>

Rewrite(d) ==
  /\ At(d, "rewrite")
  /\ lockfile' = [lockfile EXCEPT ![Workspace[d]] = d]
  /\ Go(d, "restore")
  /\ UNCHANGED <<daemon, queue, latest>>

\* The deploy ended, well or not; the file goes back if it changed.
RestoringLockfile(d) ==
  /\ build[d].pc \in {"rewrite", "restore"}
  /\ lockfile' = [lockfile EXCEPT ![Workspace[d]] = build[d].before]
  /\ queue' = [queue EXCEPT ![Workspace[d]] = None]
  /\ \E ok \in BOOLEAN :
       build' = [build EXCEPT ![d] = IF ok THEN [@ EXCEPT !.pc = "inspect", !.before = None]
                                           ELSE Done(d)]
  /\ UNCHANGED <<daemon, latest>>

\* SIGINT or SIGTERM in the middle: the file goes back, then the process ends
\* and its builds with it.
Signal(d) ==
  /\ build[d].pc \in {"rewrite", "restore"}
  /\ lockfile' = [lockfile EXCEPT ![Workspace[d]] = build[d].before]
  /\ queue' = [queue EXCEPT ![Workspace[d]] = None]
  /\ build' = [e \in Dir |-> IF Workspace[e] = Workspace[d]
                             THEN Done(e) ELSE build[e]]
  /\ UNCHANGED <<daemon, latest>>

-----------------------------------------------------------------------------
(* The build, and what it replaces.                                         *)

PreviousIds(d) ==
  /\ At(d, "inspect")
  /\ build' = [build EXCEPT ![d].pc = "build",
       ![d].previous = {tags[Tag(d)], tags[BuildCacheRef(d)]} \ {None}]
  /\ UNCHANGED <<daemon, staging, latest>>

\* A layer that is there is reused, an unchanged app's whole chain is.
DockerBuild(d) ==
  /\ At(d, "build")
  /\ LET new == {Base, Layer(d, build[d].version), Final(d, build[d].version)} IN
     /\ images' = images \cup new
     /\ young' = young \cup (new \ images)
     /\ tags' = [tags EXCEPT ![Tag(d)] = Final(d, build[d].version)]
  /\ Go(d, "retain")
  /\ UNCHANGED <<staging, latest>>

\* The build fails or is cancelled.
BuildFails(d) ==
  /\ build[d].pc \in {"inspect", "build"}
  /\ build' = [build EXCEPT ![d] = Done(d)]
  /\ UNCHANGED <<daemon, staging, latest>>

\* retainLatestBuild(): the reference moves to what the tag names, if that is
\* still there...
MoveRef(d) ==
  /\ At(d, "retain")
  /\ LET built == tags[Tag(d)] IN
     IF built = None
     THEN /\ build' = [build EXCEPT ![d] = Done(d)]
          /\ UNCHANGED <<tags, latest>>
     ELSE /\ tags' = [tags EXCEPT ![BuildCacheRef(d)] = built]
          /\ latest' = [latest EXCEPT ![d] = built]
          /\ Go(d, "retire")
  /\ UNCHANGED <<images, young, staging>>

\* Built on top of a berth build, not by one.
BuiltOnBerthImage(i, ref) ==
  i.kind = "derived" /\ Final(i.dir, i.version) \in images /\ BuildCacheRef(i.dir) = ref

\* ...the previous images that nothing else tags are retired, with the dangling
\* images of this reference that are neither young nor somebody else's.
Retire(d) ==
  /\ At(d, "retire")
  /\ LET ref == BuildCacheRef(d)
         built == tags[ref]
         old == {i \in build[d].previous \cap images : RepoTags(i) \subseteq {ref}}
         dangling == {i \in images : Label(i) = ref /\ RepoTags(i) = {}
                                       /\ i \notin young /\ ~BuiltOnBerthImage(i, ref)}
     IN build' = [build EXCEPT ![d].pc = "list", ![d].retired = (old \cup dangling) \ {built}]
  /\ UNCHANGED <<daemon, staging, latest>>

\* removeUnsharedChain(): the daemon's list is taken once per chain...
ListImages(d) ==
  /\ At(d, "list")
  /\ IF build[d].retired = {} THEN build' = [build EXCEPT ![d] = Done(d)]
     ELSE \E i \in build[d].retired :
            build' = [build EXCEPT ![d].pc = "walk", ![d].at = i, ![d].list = images,
                     ![d].tagged = {j \in images : RepoTags(j) # {}}, ![d].retired = @ \ {i}]
  /\ UNCHANGED <<daemon, staging, latest>>

\* ...and walked upwards, until an image has another child or a tag, or the
\* daemon refuses: it has a child after all, or more than one tag.  Removing an
\* image by its id drops its one tag.
Walk(d) ==
  /\ At(d, "walk")
  /\ LET i == build[d].at
         kept == i = None \/ i \notin build[d].list
                   \/ Children(i, build[d].list) # {} \/ i \in build[d].tagged
         refused == i \notin images \/ Children(i, images) # {} \/ Cardinality(RepoTags(i)) > 1
     IN IF kept \/ refused
        THEN Go(d, "list") /\ UNCHANGED daemon
        ELSE /\ images' = images \ {i} /\ young' = young \ {i}
             /\ tags' = [r \in Ref |-> IF tags[r] = i THEN None ELSE tags[r]]
             /\ build' = [build EXCEPT ![d].at = Parent(i), ![d].list = @ \ {i}]
  /\ UNCHANGED <<staging, latest>>

\* removeImageKeepingCache(): the tag goes, and the image with it when that
\* was its last.
StopRemovesTag(d) ==
  /\ At(d, "idle") /\ tags[Tag(d)] # None
  /\ tags' = [tags EXCEPT ![Tag(d)] = None]
  /\ images' = IF RepoTags(tags[Tag(d)]) = {Tag(d)} /\ Children(tags[Tag(d)], images) = {}
               THEN images \ {tags[Tag(d)]} ELSE images
  /\ young' = young \cap images'
  /\ UNCHANGED <<staging, build, latest>>

-----------------------------------------------------------------------------
(* Outside.                                                                 *)

\* Ten minutes pass; no build takes that long between its image and its tag.
Ages ==
  /\ young # {} /\ young' = {}
  /\ UNCHANGED <<images, tags, staging, build, latest>>

\* Somebody builds FROM a final image and leaves the result untagged.
DerivedBuilt(d) ==
  /\ tags[BuildCacheRef(d)] # None
  /\ Derived(tags[BuildCacheRef(d)]) \notin images
  /\ images' = images \cup {Derived(tags[BuildCacheRef(d)])}
  /\ UNCHANGED <<tags, young, staging, build, latest>>

Build(d) ==
  \/ Begin(d) \/ DeployFrozen(d) \/ WithLockfileRestored(d) \/ Rewrite(d)
  \/ RestoringLockfile(d) \/ Signal(d)
  \/ PreviousIds(d) \/ DockerBuild(d) \/ BuildFails(d) \/ MoveRef(d)
  \/ Retire(d) \/ ListImages(d) \/ Walk(d) \/ StopRemovesTag(d)

Next == Ages \/ \E d \in Dir : Build(d) \/ DerivedBuilt(d)

Spec == Init /\ [][Next]_vars

-----------------------------------------------------------------------------
(* Properties.                                                              *)

\* The latest build of every app directory stays, with the layers that make
\* the next build fast, while other directories, also of an app of the same
\* name, build, retire and sweep.
LatestBuildKept ==
  \A d \in Dir : latest[d] # None => Chain(latest[d]) \subseteq images

\* When no deploy is at work in a workspace its lockfile is the one the
\* developer had: two builds, failures and signals never leave a rewrite.
LockfileRestored ==
  \A w \in DOMAIN lockfile :
    (\A d \in Dir : Workspace[d] = w => build[d].pc \notin {"rewrite", "restore"})
      => lockfile[w] = "original"
=============================================================================
