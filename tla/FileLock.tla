------------------------------ MODULE FileLock ------------------------------
(***************************************************************************)
(* The cross-process lock of packages/audit/src/file-lock.ts.              *)
(*                                                                         *)
(* A lock is a file created with O_EXCL; its content names the process     *)
(* that created it.  A process that finds the file there looks at it,      *)
(* decides whether its owner is gone, and if so claims a second O_EXCL     *)
(* file, `.break', confirms that the lock is still the file it judged and  *)
(* unlinks it.  Every system call that another process can observe is one  *)
(* step: the code runs the calls of one process in order, and those of     *)
(* different processes interleave freely.                                  *)
(*                                                                         *)
(* The four Boolean constants say which of the environment's irregular     *)
(* behaviours a model admits.  `Orderly', at the end, is the combination   *)
(* under which the lock excludes; the README says what the others lead to.  *)
(***************************************************************************)
EXTENDS Naturals, FiniteSets

CONSTANTS
    Proc,         \* the processes (their pids; a dead process's is not reused)
    HostOf,       \* [Proc -> host names]: what hostname() returns to each
    Calls,        \* "wait": acquireFileLock; "try1": tryAcquireFileLock
    Inode,        \* inode numbers
    Token,        \* the random tokens of owner lines
    None,         \* no such file; no value
    Blank,        \* the content of a file created and not yet written
    SlowCreate,   \* a live process may stall past staleMs between create and write
    SlowHold,     \* a live process may hold a written lock file past staleMs
    ReuseInodes,  \* the file system may give a new file a freed inode number
    ClaimsLeak    \* a breaker may die, or fail to write, leaving its `.break'

ASSUME SwitchesAreBooleans ==
    {SlowCreate, SlowHold, ReuseInodes, ClaimsLeak} \subseteq BOOLEAN

ASSUME CallKinds == Calls \subseteq {"wait", "try1"}

VARIABLES
    alive,    \* [Proc -> BOOLEAN]
    pc,       \* [Proc -> control state]
    mode,     \* [Proc -> which call, and for a try, which attempt]
    owner,    \* [Proc -> token of the line it writes into the lock]
    breaker,  \* [Proc -> token of the line it writes into `.break']
    fd,       \* [Proc -> inode of the lock file it created]
    bfd,      \* [Proc -> inode of the `.break' it created]
    seen,     \* [Proc -> what observe(lockPath) returned]
    claim,    \* [Proc -> what observe(breakPath) returned]
    lock,     \* the file at <path>
    brk       \* the file at <path>.break

vars == <<alive, pc, mode, owner, breaker, fd, bfd, seen, claim, lock, brk>>

-----------------------------------------------------------------------------
Line     == [pid : Proc, token : Token]
File     == [ino : Inode, line : Line \cup {Blank}]
Observed == [ino : Inode, line : Line \cup {Blank}, aged : BOOLEAN]

ASSUME DistinctValues ==
    /\ None \notin File \cup Observed \cup Inode \cup Token
    /\ Blank \notin Line

(* Between its successful create and its unlink a process is at one of     *)
(* HoldPC; between the same two calls on `.break' at one of ClaimPC.       *)
HoldPC  == {"write", "held", "checked", "relunlink"}
ClaimPC == {"claimwrite", "confirm", "unlink", "unclaim", "ununlink"}
PC      == HoldPC \cup ClaimPC \cup
           {"idle", "create", "lost", "observe", "judge", "claim",
            "cobserve", "cjudge", "cstat", "cunlink", "retry"}

Holding(p)  == alive[p] /\ pc[p] \in HoldPC
Claiming(p) == alive[p] /\ pc[p] \in ClaimPC

OwnerLine(p)   == [pid |-> p, token |-> owner[p]]
BreakerLine(p) == [pid |-> p, token |-> breaker[p]]

(***************************************************************************)
(* The environment: fresh values, ages and liveness of pids.               *)
(***************************************************************************)
(* One element of S: which of several equally new values is drawn is       *)
(* immaterial.                                                             *)
AnyOne(S) == {x \in S : x = CHOOSE y \in S : TRUE}

(* The inodes a create may get.  The code compares inodes of one path      *)
(* only, so those of the two paths are numbered apart.  A linked or open   *)
(* file keeps its number; one that was freed and is remembered by an       *)
(* observation comes back only if the file system reuses numbers.          *)
NewInodes(file, open, remembered) ==
    LET taken  == {f.ino : f \in {file} \ {None}} \cup {open[p] : p \in Proc}
        recall == {o.ino : o \in {remembered[p] : p \in Proc} \ {None}}
    IN  IF ReuseInodes THEN Inode \ taken ELSE AnyOne(Inode \ (taken \cup recall))

(* ownerLine() draws a token that no remembered line of the process has.   *)
Lines == {f.line : f \in ({lock, brk} \cup {seen[p] : p \in Proc}
                                     \cup {claim[p] : p \in Proc}) \ {None}}
NewTokens(p) ==
    AnyOne(Token \ ({owner[p], breaker[p]}
                      \cup {l.token : l \in {k \in Lines \ {Blank} : k.pid = p}}))

At(p, s) == alive[p] /\ pc[p] = s

(* Whether `ageMs > staleMs' can hold of file f, whose creators have it in *)
(* `open', are at `creating' until they have written it and then at one of *)
(* `using'.  A file nobody alive uses may have been left any time ago.     *)
MayBeAged(f, open, creating, using) ==
    /\ SlowCreate \/ ~ \E p \in Proc : At(p, creating) /\ open[p] = f.ino
    /\ SlowHold \/ ~ \E p \in Proc : \E s \in using : At(p, s) /\ open[p] = f.ino

(* isStale() can tell by the pid only when it can read it and the process  *)
(* is on its own host.                                                     *)
JudgedByAge(p, line) == line = Blank \/ (line # Blank /\ HostOf[line.pid] # HostOf[p])

(* Mutant of IsStale: an unreadable lock is stale whatever its age.        *)
IsStaleUnread(p, o) ==
    o.line = Blank \/ (o.line # Blank /\ ~JudgedByAge(p, o.line) /\ ~alive[o.line.pid])

IsStale(p, o) == IF JudgedByAge(p, o.line) THEN o.aged ELSE ~alive[o.line.pid]

(* What observe(path) can return of a file: inode and content from one     *)
(* open, and whether it is old.  The age is recorded only where it is      *)
(* used.                                                                   *)
Views(p, f, mayBeAged) ==
    IF f = None
    THEN {None}
    ELSE {[ino |-> f.ino, line |-> f.line, aged |-> a] :
             a \in {b \in BOOLEAN : b => JudgedByAge(p, f.line) /\ mayBeAged}}
-----------------------------------------------------------------------------
Init ==
    /\ alive   = [p \in Proc |-> TRUE]
    /\ pc      = [p \in Proc |-> "idle"]
    /\ mode    = [p \in Proc |-> "wait"]
    /\ owner   = [p \in Proc |-> None]
    /\ breaker = [p \in Proc |-> None]
    /\ fd      = [p \in Proc |-> None]
    /\ bfd     = [p \in Proc |-> None]
    /\ seen    = [p \in Proc |-> None]
    /\ claim   = [p \in Proc |-> None]
    /\ lock    = None
    /\ brk     = None

GoTo(p, s) == pc' = [pc EXCEPT ![p] = s]

(* A call's locals go out of scope when it returns: those of               *)
(* acquireFileLock and the lock it returned, and those of breakIfStale.    *)
EndCall(p) ==
    /\ GoTo(p, "idle")
    /\ mode'  = [mode EXCEPT ![p] = "wait"]
    /\ owner' = [owner EXCEPT ![p] = None]
    /\ fd'    = [fd EXCEPT ![p] = None]

EndBreak(p) ==
    /\ breaker' = [breaker EXCEPT ![p] = None]
    /\ bfd'     = [bfd EXCEPT ![p] = None]
    /\ seen'    = [seen EXCEPT ![p] = None]
    /\ claim'   = [claim EXCEPT ![p] = None]

(***************************************************************************)
(* acquireFileLock and tryAcquireFileLock                                  *)
(***************************************************************************)

(* Either call starts by drawing its owner line.                           *)
Acquire(p, m) ==
    /\ At(p, "idle")
    /\ \E t \in NewTokens(p) : owner' = [owner EXCEPT ![p] = t]
    /\ mode' = [mode EXCEPT ![p] = m]
    /\ GoTo(p, "create")
    /\ UNCHANGED <<alive, breaker, fd, bfd, seen, claim, lock, brk>>

(* tryCreate(lockPath): openSync(path, "wx").                              *)
Create(p) ==
    /\ At(p, "create")
    /\ \/ /\ lock = None
          /\ \E i \in NewInodes(lock, fd, seen) :
                /\ lock' = [ino |-> i, line |-> Blank]
                /\ fd' = [fd EXCEPT ![p] = i]
          /\ GoTo(p, "write")
          /\ UNCHANGED <<mode, owner>>
       \/ /\ lock # None            \* EEXIST, and another attempt to come
          /\ mode[p] # "try2"
          /\ GoTo(p, "observe")
          /\ UNCHANGED <<lock, fd, mode, owner>>
       \/ /\ lock # None            \* EEXIST: tryAcquireFileLock gives up
          /\ mode[p] = "try2"
          /\ EndCall(p)
          /\ UNCHANGED lock
    /\ UNCHANGED <<alive, breaker, bfd, seen, claim, brk>>

(* writeSync(fd, owner): reaches the entry at <path> only if that is still *)
(* the file this process created.                                          *)
Write(p) ==
    /\ At(p, "write")
    /\ lock' = IF lock # None /\ lock.ino = fd[p]
               THEN [lock EXCEPT !.line = OwnerLine(p)]
               ELSE lock
    /\ GoTo(p, "held")
    /\ UNCHANGED <<alive, mode, owner, breaker, fd, bfd, seen, claim, brk>>

(* writeSync throws (a full disk): the file stays, unnamed, and the call   *)
(* fails.                                                                  *)
WriteFails(p) ==
    /\ At(p, "write")
    /\ EndCall(p)
    /\ UNCHANGED <<alive, breaker, bfd, seen, claim, lock, brk>>

(* The end of one turn of acquireFileLock's loop, or of the break before   *)
(* tryAcquireFileLock's second and last attempt.                           *)
Retry(p) ==
    /\ At(p, "retry")
    /\ GoTo(p, "create")
    /\ mode' = [mode EXCEPT ![p] = IF @ = "wait" THEN "wait" ELSE "try2"]
    /\ UNCHANGED <<alive, owner, breaker, fd, bfd, seen, claim, lock, brk>>

TimeOut(p) ==
    /\ At(p, "retry")
    /\ mode[p] = "wait"
    /\ EndCall(p)
    /\ UNCHANGED <<alive, breaker, bfd, seen, claim, lock, brk>>

(***************************************************************************)
(* HeldLock: assertHeld and release                                        *)
(***************************************************************************)
Owned(p) == lock # None /\ lock.line = OwnerLine(p)

(* assertHeld(), called right before the write it guards.                  *)
AssertHeld(p) ==
    /\ At(p, "held")
    /\ GoTo(p, IF Owned(p) THEN "checked" ELSE "lost")
    /\ UNCHANGED <<alive, mode, owner, breaker, fd, bfd, seen, claim, lock, brk>>

(* release(): removeIfOwned's read, and then its unlink.                   *)
Release(p) ==
    /\ alive[p]
    /\ pc[p] \in {"held", "checked", "lost"}
    /\ \/ /\ Owned(p)
          /\ GoTo(p, "relunlink")
          /\ UNCHANGED <<mode, owner, fd>>
       \/ /\ ~Owned(p)
          /\ EndCall(p)
    /\ UNCHANGED <<alive, breaker, bfd, seen, claim, lock, brk>>

ReleaseUnlink(p) ==
    /\ At(p, "relunlink")
    /\ lock' = None
    /\ EndCall(p)
    /\ UNCHANGED <<alive, breaker, bfd, seen, claim, brk>>

(***************************************************************************)
(* breakIfStale                                                            *)
(***************************************************************************)
ObserveLock(p) ==
    /\ At(p, "observe")
    /\ \E o \in Views(p, lock, MayBeAged(lock, fd, "write", HoldPC \ {"write"})) :
          /\ seen' = [seen EXCEPT ![p] = o]
          /\ GoTo(p, IF o = None THEN "retry" ELSE "judge")
    /\ UNCHANGED <<alive, mode, owner, breaker, fd, bfd, claim, lock, brk>>

(* A breaker line is drawn once the lock is judged stale.                  *)
JudgeLock(p) ==
    /\ At(p, "judge")
    /\ \/ /\ IsStale(p, seen[p])
          /\ \E t \in NewTokens(p) : breaker' = [breaker EXCEPT ![p] = t]
          /\ GoTo(p, "claim")
          /\ UNCHANGED <<bfd, seen, claim>>
       \/ /\ ~IsStale(p, seen[p])
          /\ EndBreak(p)
          /\ GoTo(p, "retry")
    /\ UNCHANGED <<alive, mode, owner, fd, lock, brk>>

(* Mutant of Claim: `.break' is opened without O_EXCL.                     *)
ClaimShared(p) ==
    /\ At(p, "claim")
    /\ \E i \in NewInodes(brk, bfd, claim) :
          /\ brk' = IF brk = None THEN [ino |-> i, line |-> Blank] ELSE brk
          /\ bfd' = [bfd EXCEPT ![p] = IF brk = None THEN i ELSE brk.ino]
    /\ GoTo(p, "claimwrite")
    /\ UNCHANGED <<alive, mode, owner, breaker, fd, seen, claim, lock>>

(* tryCreate(breakPath).  When it exists, what was seen of the lock is of  *)
(* no further use.                                                         *)
Claim(p) ==
    /\ At(p, "claim")
    /\ \/ /\ brk = None
          /\ \E i \in NewInodes(brk, bfd, claim) :
                /\ brk' = [ino |-> i, line |-> Blank]
                /\ bfd' = [bfd EXCEPT ![p] = i]
          /\ GoTo(p, "claimwrite")
          /\ UNCHANGED <<breaker, seen, claim>>
       \/ /\ brk # None
          /\ EndBreak(p)
          /\ GoTo(p, "cobserve")
          /\ UNCHANGED brk
    /\ UNCHANGED <<alive, mode, owner, fd, lock>>

ClaimWrite(p) ==
    /\ At(p, "claimwrite")
    /\ brk' = IF brk # None /\ brk.ino = bfd[p]
              THEN [brk EXCEPT !.line = BreakerLine(p)]
              ELSE brk
    /\ GoTo(p, "confirm")
    /\ UNCHANGED <<alive, mode, owner, breaker, fd, bfd, seen, claim, lock>>

(* The write of `.break' throws before the try that would remove it.       *)
ClaimWriteFails(p) ==
    /\ ClaimsLeak
    /\ At(p, "claimwrite")
    /\ EndBreak(p)
    /\ EndCall(p)
    /\ UNCHANGED <<alive, lock, brk>>

(* Mutant of Confirm: the lock is not looked at again under the claim.     *)
ConfirmBlindly(p) ==
    /\ At(p, "confirm")
    /\ GoTo(p, IF lock # None THEN "unlink" ELSE "unclaim")
    /\ UNCHANGED <<alive, mode, owner, breaker, fd, bfd, seen, claim, lock, brk>>

(* Mutant of Confirm: a lock that changed is left without the finally.     *)
ConfirmNoFinally(p) ==
    /\ At(p, "confirm")
    /\ GoTo(p, IF /\ lock # None
                  /\ lock.ino = seen[p].ino
                  /\ lock.line = seen[p].line
               THEN "unlink" ELSE "retry")
    /\ UNCHANGED <<alive, mode, owner, breaker, fd, bfd, seen, claim, lock, brk>>

(* The second look: is it still the file that was judged?                  *)
Confirm(p) ==
    /\ At(p, "confirm")
    /\ GoTo(p, IF /\ lock # None
                  /\ lock.ino = seen[p].ino
                  /\ lock.line = seen[p].line
               THEN "unlink" ELSE "unclaim")
    /\ UNCHANGED <<alive, mode, owner, breaker, fd, bfd, seen, claim, lock, brk>>

(* unlinkSync(lockPath).  If the entry is gone by then it throws ENOENT,   *)
(* and after the finally that abandons the whole call.                     *)
UnlinkLock(p) ==
    /\ At(p, "unlink")
    /\ lock' = None
    /\ mode' = [mode EXCEPT ![p] = IF lock = None THEN "fail" ELSE @]
    /\ GoTo(p, "unclaim")
    /\ UNCHANGED <<alive, owner, breaker, fd, bfd, seen, claim, brk>>

(* breakIfStale returns, or rethrows.                                      *)
LeaveBreak(p) ==
    /\ EndBreak(p)
    /\ \/ mode[p] # "fail" /\ GoTo(p, "retry") /\ UNCHANGED <<mode, owner, fd>>
       \/ mode[p] = "fail" /\ EndCall(p)

(* finally: removeIfOwned(breakPath, breaker), its read and its unlink.    *)
Unclaim(p) ==
    /\ At(p, "unclaim")
    /\ \/ /\ brk # None /\ brk.line = BreakerLine(p)
          /\ GoTo(p, "ununlink")
          /\ UNCHANGED <<mode, owner, breaker, fd, bfd, seen, claim>>
       \/ /\ ~(brk # None /\ brk.line = BreakerLine(p))
          /\ LeaveBreak(p)
    /\ UNCHANGED <<alive, lock, brk>>

UnclaimUnlink(p) ==
    /\ At(p, "ununlink")
    /\ brk' = None
    /\ LeaveBreak(p)
    /\ UNCHANGED <<alive, lock>>

(* Someone else's `.break' is in the way: observe it, judge it, compare    *)
(* its inode with a second stat, unlink whatever is there.                 *)
ObserveClaim(p) ==
    /\ At(p, "cobserve")
    /\ \E o \in Views(p, brk, MayBeAged(brk, bfd, "claimwrite", ClaimPC \ {"claimwrite"})) :
          /\ claim' = [claim EXCEPT ![p] = o]
          /\ GoTo(p, IF o = None THEN "retry" ELSE "cjudge")
    /\ UNCHANGED <<alive, mode, owner, breaker, fd, bfd, seen, lock, brk>>

(* Mutant of JudgeClaim: the `.break' of a breaker that died is honoured.  *)
JudgeClaimLive(p) ==
    /\ At(p, "cjudge")
    /\ GoTo(p, "retry")
    /\ claim' = [claim EXCEPT ![p] = None]
    /\ UNCHANGED <<alive, mode, owner, breaker, fd, bfd, seen, lock, brk>>

JudgeClaim(p) ==
    /\ At(p, "cjudge")
    /\ \/ IsStale(p, claim[p]) /\ GoTo(p, "cstat") /\ UNCHANGED claim
       \/ /\ ~IsStale(p, claim[p])
          /\ GoTo(p, "retry")
          /\ claim' = [claim EXCEPT ![p] = None]
    /\ UNCHANGED <<alive, mode, owner, breaker, fd, bfd, seen, lock, brk>>

StatClaim(p) ==
    /\ At(p, "cstat")
    /\ GoTo(p, IF brk # None /\ brk.ino = claim[p].ino THEN "cunlink" ELSE "retry")
    /\ claim' = [claim EXCEPT ![p] = None]
    /\ UNCHANGED <<alive, mode, owner, breaker, fd, bfd, seen, lock, brk>>

ClearClaim(p) ==
    /\ At(p, "cunlink")
    /\ brk' = None
    /\ GoTo(p, "retry")
    /\ UNCHANGED <<alive, mode, owner, breaker, fd, bfd, seen, claim, lock>>

(***************************************************************************)
(* A process dies between any two of its system calls.                     *)
(***************************************************************************)
Crash(p) ==
    /\ alive[p]
    /\ pc[p] \in ClaimPC => ClaimsLeak
    /\ alive' = [alive EXCEPT ![p] = FALSE]
    /\ EndBreak(p)
    /\ EndCall(p)
    /\ UNCHANGED <<lock, brk>>

Step(p) ==
    \/ Create(p) \/ Write(p) \/ Retry(p)
    \/ AssertHeld(p) \/ Release(p) \/ ReleaseUnlink(p)
    \/ ObserveLock(p) \/ JudgeLock(p)
    \/ Claim(p) \/ ClaimWrite(p) \/ Confirm(p) \/ UnlinkLock(p)
    \/ Unclaim(p) \/ UnclaimUnlink(p)
    \/ ObserveClaim(p) \/ JudgeClaim(p) \/ StatClaim(p) \/ ClearClaim(p)

Next ==
    \E p \in Proc :
        \/ \E m \in Calls : Acquire(p, m)
        \/ Step(p)
        \/ WriteFails(p) \/ ClaimWriteFails(p) \/ TimeOut(p)
        \/ Crash(p)

Spec == Init /\ [][Next]_vars

-----------------------------------------------------------------------------
TypeOK ==
    /\ alive   \in [Proc -> BOOLEAN]
    /\ pc      \in [Proc -> PC]
    /\ mode    \in [Proc -> {"wait", "try1", "try2", "fail"}]
    /\ owner   \in [Proc -> Token \cup {None}]
    /\ breaker \in [Proc -> Token \cup {None}]
    /\ fd      \in [Proc -> Inode \cup {None}]
    /\ bfd     \in [Proc -> Inode \cup {None}]
    /\ seen    \in [Proc -> Observed \cup {None}]
    /\ claim   \in [Proc -> Observed \cup {None}]
    /\ lock    \in File \cup {None}
    /\ brk     \in File \cup {None}

(* At most one live process is between creating the lock file and          *)
(* unlinking it: the writers take turns, which is what file-lock.ts exists *)
(* for (two breakers, a crash at any step and a retry included).           *)
MutualExclusion ==
    \A p, q \in Proc : Holding(p) /\ Holding(q) => p = q

(* No two live processes are both past assertHeld() and about to make the  *)
(* write it guards.                                                        *)
GuardedWritesExclusive ==
    \A p, q \in Proc : At(p, "checked") /\ At(q, "checked") => p = q

(* A live holder is never broken: whoever created the lock file finds its  *)
(* own line there until it unlinks it, however the breakers of an older    *)
(* file are delayed.                                                       *)
LiveHolderKeepsLock ==
    \A p \in Proc :
        /\ Holding(p) => lock # None /\ lock.ino = fd[p]
        /\ Holding(p) /\ pc[p] # "write" => lock.line = OwnerLine(p)
        /\ pc[p] # "lost"

LockNotLeaked ==
    lock # None /\ lock.line # Blank /\ alive[lock.line.pid]
        => pc[lock.line.pid] \in HoldPC /\ fd[lock.line.pid] = lock.ino

ClaimNotLeaked ==
    brk # None /\ brk.line # Blank /\ alive[brk.line.pid]
        => pc[brk.line.pid] \in ClaimPC /\ bfd[brk.line.pid] = brk.ino

(* A lock file, or a claim on breaking it, that names a live process is in *)
(* use by it.  One left behind would never be judged stale on that host:   *)
(* everyone would wait for it until the process exits.                     *)
NoLiveLeaks == LockNotLeaked /\ ClaimNotLeaked

(* The file lock is an exclusive lock: a live process between its create   *)
(* and its unlink is the holder.                                           *)
Abstract == INSTANCE ExclusiveLock WITH holders <- {p \in Proc : Holding(p)}
IsExclusiveLock == Abstract!Spec

(* What the progress of a process waiting for an abandoned lock rests on:  *)
(* a live process keeps running, a file nobody touches grows old, so it is *)
(* not found young for ever, and the write of a process that keeps         *)
(* claiming does not fail every time.                                      *)
Waiting(p) == alive[p] /\ pc[p] \notin HoldPC \cup {"idle", "lost"}

Abandoned(f) ==
    f # None /\ ~ \E p \in Proc : Holding(p) /\ fd[p] = f.ino

WaitsOnAbandoned(p) == Waiting(p) /\ Abandoned(lock)

AgedView(o) == IF o = None THEN FALSE ELSE o.aged

ObservesAged(p) == ObserveLock(p) /\ AgedView(seen'[p])
ClaimsAged(p) == ObserveClaim(p) /\ AgedView(claim'[p])

Fairness ==
    \A p \in Proc :
        /\ WF_vars(Step(p))
        /\ SF_vars(ClaimWrite(p)) /\ SF_vars(ObservesAged(p)) /\ SF_vars(ClaimsAged(p))

FairSpec == Spec /\ Fairness

(* Nobody waits for ever for a lock whose owner is gone, also when it died *)
(* on another host, and whoever has died or failed while breaking it.      *)
StaleLockIsBroken ==
    \A p \in Proc : WaitsOnAbandoned(p) ~> ~WaitsOnAbandoned(p)

-----------------------------------------------------------------------------
(***************************************************************************)
(* The environments in which the lock is proved to exclude: no inode       *)
(* number comes back while it is remembered, nobody leaves a `.break'      *)
(* behind, a created file is named within staleMs, and so is a lock given  *)
(* up, unless everyone is on one host, where its age does not matter.      *)
(***************************************************************************)
Orderly ==
    /\ ~SlowCreate
    /\ ~ReuseInodes
    /\ ~ClaimsLeak
    /\ SlowHold => \A p, q \in Proc : HostOf[p] = HostOf[q]

(* The parts of the inductive invariant.                                   *)
LinesDrawn ==
    \A p \in Proc : /\ pc[p] # "idle" => owner[p] # None
                    /\ pc[p] \in ClaimPC \cup {"claim"} => breaker[p] # None

UnwrittenIsBlank == \A p \in Proc : At(p, "write") => lock.line = Blank

ClaimIsOwned ==
    /\ \A p \in Proc :
          /\ Claiming(p) => brk # None /\ brk.ino = bfd[p]
          /\ Claiming(p) /\ pc[p] = "claimwrite" => brk.line = Blank
          /\ Claiming(p) /\ pc[p] # "claimwrite" => brk.line = BreakerLine(p)
    /\ \A p, q \in Proc : Claiming(p) /\ Claiming(q) => p = q
    /\ brk # None => \E p \in Proc : Claiming(p)

(* An observation that may still be judged: whoever uses the file observed *)
(* is the one it names, and nobody does if it was found old.               *)
Judgeable(o, q, open) == open[q] = o.ino => ~o.aged /\ (o.line # Blank => o.line.pid = q)

LockViewsSound ==
    \A p \in Proc :
        /\ At(p, "judge") =>
              seen[p] # None /\ \A q \in Proc : Holding(q) => Judgeable(seen[p], q, fd)
        /\ alive[p] /\ pc[p] \in {"claim", "claimwrite", "confirm", "unlink"} =>
              seen[p] # None /\ \A q \in Proc : Holding(q) => fd[q] # seen[p].ino
        /\ At(p, "unlink") => lock # None /\ lock.ino = seen[p].ino

ClaimViewsSound ==
    \A p \in Proc :
        /\ At(p, "cjudge") =>
              claim[p] # None /\ \A q \in Proc : Claiming(q) => Judgeable(claim[p], q, bfd)
        /\ At(p, "cstat") =>
              claim[p] # None /\ \A q \in Proc : Claiming(q) => bfd[q] # claim[p].ino
        /\ ~At(p, "cunlink")

(* The inductive invariant: with it, what a breaker is about to unlink is  *)
(* the file it judged, and no live process is using that one.              *)
LockInv ==
    /\ TypeOK
    /\ LinesDrawn
    /\ MutualExclusion
    /\ LiveHolderKeepsLock
    /\ UnwrittenIsBlank
    /\ ClaimIsOwned
    /\ LockViewsSound
    /\ ClaimViewsSound
=============================================================================
