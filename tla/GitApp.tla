------------------------------- MODULE GitApp -------------------------------
(***************************************************************************)
(* The git app (apps/git/src/index.ts): its exports run git commands, one  *)
(* after another within a call, in one repository of the shared workspace. *)
(* Calls run side by side, any other app may rewrite .git/config between   *)
(* two commands, other clones push to the remote, and a command may fail   *)
(* or be killed at its timeout before or after it took effect.             *)
(*                                                                         *)
(* A branch is the set of the commits it holds; of .git/config only where  *)
(* origin points and the settings outside ALLOWED_CONFIG are kept.         *)
(***************************************************************************)
EXTENDS Naturals, FiniteSets

CONSTANTS Call,      \* the calls in flight
          Host,      \* hosts a remote may be on
          Declared,  \* those among network:host: of berth.yml
          MaxCommits \* bound: how many commits are ever made

VARIABLES config,    \* .git/config: [origin, extra]
          cloned,    \* whether the repository is there
          local,     \* the branch in the repository
          tracking,  \* refs/remotes/origin/<branch>
          remote,    \* the branch on each declared host
          commits,   \* how many commits have been made
          call,      \* the local state of each call
          ran        \* the git command that was run last

vars == <<config, cloned, local, tracking, remote, commits, call, ran>>
repo == <<config, cloned, local, tracking, remote, commits>>

\* Settings that are refused: a filter driver, and a rewriting of URLs.
Extra == {"filter", "insteadOf"}
NoHost == "none"
Idle == [op |-> "none", pc |-> "idle", remote |-> NoHost, sha |-> {}]

Init ==
  /\ config = [origin |-> NoHost, extra |-> {}]
  /\ cloned = FALSE
  /\ local = {} /\ tracking = {} /\ commits = 1
  /\ remote = [h \in Declared |-> {1}]
  /\ call = [c \in Call |-> Idle]
  /\ ran = [token |-> FALSE, checked |-> NoHost, given |-> {}, filters |-> FALSE]

At(c, op, pc) == call[c].op = op /\ call[c].pc = pc
Go(c, pc) ==
  call' = [call EXCEPT ![c] = IF pc = "done" THEN Idle ELSE [@ EXCEPT !.pc = pc]]

-----------------------------------------------------------------------------
\* Where git may end up when it is given a URL of host h: the egress proxy
\* refuses every host that is not declared.
Reached(h) ==
  (IF "insteadOf" \in config.extra THEN Host ELSE {h}) \cap Declared

\* The hosts the credential helper made for host h answers.
CredentialHelper(h) == {h}

\* A command run by git(): one without a remote has no token, no helper and
\* no transport; one for host h has both, and the host it reaches is given
\* the token if the helper answers for it.
Git(h, reached, filters) ==
  ran' = [token |-> h # NoHost, checked |-> h,
          given |-> IF h = NoHost THEN {} ELSE {reached} \cap CredentialHelper(h),
          filters |-> filters /\ "filter" \in config.extra]

\* A command fails, or is killed at TIMEOUT_MS, and the call with it.
Fails(c) ==
  /\ call[c].pc # "idle"
  /\ Go(c, "done")
  /\ UNCHANGED <<repo, ran>>

\* checkedRepo() as the first step of a call in an existing repository.
CheckedRepo == cloned /\ config.extra = {}

Begin(c, op) ==
  /\ call[c].pc = "idle"
  /\ op # "clone" => CheckedRepo
  /\ call' = [call EXCEPT ![c].op = op, ![c].pc = "checked"]
  /\ UNCHANGED <<repo, ran>>

\* origin(): the URL in the config is read and checked like a clone's.
Origin(c) ==
  /\ call[c].op \in {"push", "pull"} /\ call[c].pc = "checked"
  /\ IF config.origin \in Declared
     THEN call' = [call EXCEPT ![c].remote = config.origin, ![c].pc = "origin"]
     ELSE Go(c, "done")
  /\ UNCHANGED <<repo, ran>>

-----------------------------------------------------------------------------
\* clone: the download, with the token and without a checkout.
Clone(c, h) ==
  /\ At(c, "clone", "checked")
  /\ h \in Declared /\ ~cloned
  /\ Git(h, h, FALSE)
  /\ cloned' = TRUE
  /\ config' = [origin |-> h, extra |-> {}]
  /\ local' = remote[h] /\ tracking' = remote[h]
  /\ Go(c, "cloned")
  /\ UNCHANGED <<remote, commits>>

\* The new repository is checked, and only then is its tree checked out.
CloneCheck(c) ==
  /\ At(c, "clone", "cloned")
  /\ Go(c, IF CheckedRepo THEN "work" ELSE "done")
  /\ UNCHANGED <<repo, ran>>

\* status, diff, log, add, branch, and the checkout of a clone: commands in
\* the working tree, which run filter drivers.
Work(c) ==
  /\ At(c, "work", "checked") \/ At(c, "clone", "work")
  /\ Git(NoHost, NoHost, TRUE)
  /\ Go(c, "done")
  /\ UNCHANGED repo

Commit(c) ==
  /\ At(c, "commit", "checked")
  /\ commits < MaxCommits
  /\ commits' = commits + 1
  /\ local' = local \cup {commits'}
  /\ Git(NoHost, NoHost, TRUE)
  /\ Go(c, "done")
  /\ UNCHANGED <<config, cloned, tracking, remote>>

\* push: the commit of the branch is read, ...
RevParse(c) ==
  /\ At(c, "push", "origin")
  /\ call' = [call EXCEPT ![c].sha = local, ![c].pc = "parsed"]
  /\ UNCHANGED <<repo, ran>>

\* ... the branch, as it is by then, is pushed without force, ...
Push(c, h, answered) ==
  /\ At(c, "push", "parsed")
  /\ h \in Reached(call[c].remote)
  /\ remote[h] \subseteq local
  /\ remote' = [remote EXCEPT ![h] = local]
  /\ Git(call[c].remote, h, FALSE)
  /\ Go(c, IF answered THEN "pushed" ELSE "done")
  /\ UNCHANGED <<config, cloned, local, tracking, commits>>

\* MUTANT: the ref is recorded whatever became of the push.
UpdateRefAtOnce(c) ==
  /\ call[c].op = "push" /\ call[c].pc \in {"parsed", "pushed"}
  /\ tracking' = call[c].sha
  /\ Go(c, "done")
  /\ UNCHANGED <<config, cloned, local, remote, commits, ran>>

\* ... and what was read is recorded as origin's.
UpdateRef(c) ==
  /\ At(c, "push", "pushed")
  /\ tracking' = call[c].sha
  /\ Go(c, "done")
  /\ UNCHANGED <<config, cloned, local, remote, commits, ran>>

\* MUTANT: git pull, which fetches and merges in one process.
FetchAndMerge(c, h) ==
  /\ At(c, "pull", "origin")
  /\ h \in Reached(call[c].remote)
  /\ tracking' = remote[h]
  /\ local' = IF local \subseteq remote[h] THEN remote[h] ELSE local
  /\ Git(call[c].remote, h, TRUE)
  /\ Go(c, "done")
  /\ UNCHANGED <<config, cloned, remote, commits>>

\* pull: a fetch from the checked URL, with the token and no working tree.
Fetch(c, h) ==
  /\ At(c, "pull", "origin")
  /\ h \in Reached(call[c].remote)
  /\ tracking' = remote[h]
  /\ Git(call[c].remote, h, FALSE)
  /\ Go(c, "fetched")
  /\ UNCHANGED <<config, cloned, local, remote, commits>>

\* The repository is checked again before the fast-forward.
PullCheck(c) ==
  /\ At(c, "pull", "fetched")
  /\ Go(c, IF CheckedRepo THEN "merge" ELSE "done")
  /\ UNCHANGED <<repo, ran>>

Merge(c) ==
  /\ At(c, "pull", "merge")
  /\ local \subseteq tracking
  /\ local' = tracking
  /\ Git(NoHost, NoHost, TRUE)
  /\ Go(c, "done")
  /\ UNCHANGED <<config, cloned, tracking, remote, commits>>

-----------------------------------------------------------------------------
\* Another app with filesystem:write:/workspace rewrites .git/config.
Rewrite(h, extra) ==
  /\ cloned
  /\ config' = [origin |-> h, extra |-> extra]
  /\ UNCHANGED <<cloned, local, tracking, remote, commits, call, ran>>

\* Another clone of the repository pushes.
OtherPushes(h) ==
  /\ commits < MaxCommits
  /\ commits' = commits + 1
  /\ remote' = [remote EXCEPT ![h] = @ \cup {commits'}]
  /\ UNCHANGED <<config, cloned, local, tracking, call, ran>>

Next ==
  \/ \E c \in Call :
       \/ \E op \in {"clone", "work", "commit", "push", "pull"} : Begin(c, op)
       \/ \E h \in Host : Clone(c, h)
       \/ CloneCheck(c) \/ Work(c) \/ Commit(c)
       \/ Origin(c) \/ RevParse(c)
       \/ \E h \in Declared, answered \in BOOLEAN : Push(c, h, answered)
       \/ UpdateRef(c)
       \/ \E h \in Declared : Fetch(c, h)
       \/ PullCheck(c) \/ Merge(c)
       \/ Fails(c)
  \/ \E h \in Host, extra \in SUBSET Extra : Rewrite(h, extra)
  \/ \E h \in Declared : OtherPushes(h)

Spec == Init /\ [][Next]_vars

-----------------------------------------------------------------------------
(* However another app rewrites .git/config while calls run, GIT_TOKEN is  *)
(* only ever given to the declared host the call checked, and is never in  *)
(* the environment of a command that runs a filter driver of the config.   *)
TokenStaysHome ==
  ran.token => /\ ran.given \subseteq {ran.checked} \cap Declared
               /\ ~ran.filters

(* refs/remotes/origin/<branch> never claims a commit that no server has,  *)
(* however pushes, pulls, commits and lost answers interleave: what status *)
(* shows as not ahead really has been published.                           *)
TrackingIsPublished == tracking \subseteq UNION {remote[h] : h \in Declared}

=============================================================================
