--------------------------- MODULE FileLockProofs ---------------------------
(***************************************************************************)
(* Proofs about FileLock: in every orderly environment the file lock       *)
(* excludes, for any number of processes, hosts, inodes and tokens.        *)
(***************************************************************************)
EXTENDS FileLock, TLAPS

(* Drawing one element of a set draws an element of it.                    *)
LEMMA AnyOneIn == \A S : AnyOne(S) \subseteq S
  BY DEF AnyOne

(* What tryCreate's open returns is an inode number that is not in use,    *)
(* and, unless numbers are reused, not remembered either.                  *)
LEMMA NewInodesFresh ==
    ASSUME NEW file, NEW open, NEW remembered, NEW i \in NewInodes(file, open, remembered)
    PROVE  /\ i \in Inode
           /\ file # None => i # file.ino
           /\ \A p \in Proc : open[p] # i
           /\ ~ReuseInodes => \A p \in Proc : remembered[p] # None => remembered[p].ino # i
  BY AnyOneIn DEF NewInodes

(* ownerLine() draws a token.                                              *)
LEMMA NewTokensFresh == \A p : NewTokens(p) \subseteq Token
  BY AnyOneIn DEF NewTokens

(* observe() returns the inode and the content of the file, old only where *)
(* it is judged by age and may be old.                                     *)
LEMMA ViewsObserved ==
    ASSUME NEW p \in Proc, NEW f \in File \cup {None}, NEW mayBeAged \in BOOLEAN,
           NEW o \in Views(p, f, mayBeAged)
    PROVE  /\ o \in Observed \cup {None}
           /\ o = None <=> f = None
           /\ f # None => /\ o.ino = f.ino
                          /\ o.line = f.line
                          /\ o.aged => JudgedByAge(p, f.line) /\ mayBeAged
  BY DistinctValues DEF Views, File, Observed

LEMMA ViewsTyped ==
    ASSUME NEW p \in Proc, NEW f \in File \cup {None}, NEW mayBeAged
    PROVE  Views(p, f, mayBeAged) \subseteq Observed \cup {None}
  BY DEF Views, File, Observed

(* Writing a file's line keeps its inode.                                  *)
LEMMA WrittenFiles ==
    ASSUME NEW f \in File, NEW l \in Line
    PROVE  /\ [f EXCEPT !.line = l] \in File
           /\ [f EXCEPT !.line = l].ino = f.ino
           /\ [f EXCEPT !.line = l].line = l
  BY DEF File

(* The initial states satisfy the inductive invariant.                     *)
LEMMA LockInvInit == Init => LockInv
  BY DEF Init, LockInv, UnwrittenIsBlank, TypeOK, LinesDrawn, MutualExclusion, LiveHolderKeepsLock,
         ClaimIsOwned, LockViewsSound, ClaimViewsSound, Holding, Claiming, At,
         PC, HoldPC, ClaimPC

(* Types, and that every line that is written has been drawn, are kept by  *)
(* every step.                                                             *)
LEMMA TypeStep ==
    ASSUME TypeOK, LinesDrawn, [Next]_vars
    PROVE  TypeOK' /\ LinesDrawn'
  <1> USE DEF TypeOK, LinesDrawn, PC, HoldPC, ClaimPC, At, GoTo
  <1>1. CASE UNCHANGED vars
    BY <1>1 DEF vars
  <1>2. ASSUME NEW p \in Proc, NEW m \in Calls, Acquire(p, m) PROVE TypeOK' /\ LinesDrawn'
    BY <1>2, NewTokensFresh, CallKinds, DistinctValues DEF Acquire
  <1>3. ASSUME NEW p \in Proc, Create(p) PROVE TypeOK' /\ LinesDrawn'
    <2>1. CASE lock = None
      <3>1. PICK i \in NewInodes(lock, fd, seen) :
               lock' = [ino |-> i, line |-> Blank] /\ fd' = [fd EXCEPT ![p] = i]
        BY <1>3, <2>1 DEF Create
      <3>2. i \in Inode
        BY <3>1, NewInodesFresh
      <3>3. lock' \in File
        BY <3>1, <3>2 DEF File
      <3> QED
        BY <1>3, <2>1, <3>1, <3>2, <3>3 DEF Create
    <2>2. CASE lock # None
      BY <1>3, <2>2 DEF Create, EndCall
    <2> QED
      BY <2>1, <2>2
  <1>4. ASSUME NEW p \in Proc, Write(p) PROVE TypeOK' /\ LinesDrawn'
    <2>1. OwnerLine(p) \in Line
      BY <1>4 DEF Write, OwnerLine, Line
    <2>2. lock' \in File \cup {None}
      BY <1>4, <2>1, WrittenFiles DEF Write
    <2> QED
      BY <1>4, <2>2 DEF Write
  <1>5. ASSUME NEW p \in Proc, Retry(p) PROVE TypeOK' /\ LinesDrawn'
    BY <1>5, DistinctValues DEF Retry
  <1>6. ASSUME NEW p \in Proc, AssertHeld(p) PROVE TypeOK' /\ LinesDrawn'
    BY <1>6, DistinctValues DEF AssertHeld, Owned
  <1>7. ASSUME NEW p \in Proc, Release(p) PROVE TypeOK' /\ LinesDrawn'
    BY <1>7, DistinctValues DEF Release, EndCall, Owned
  <1>8. ASSUME NEW p \in Proc, ReleaseUnlink(p) PROVE TypeOK' /\ LinesDrawn'
    BY <1>8, DistinctValues DEF ReleaseUnlink, EndCall
  <1>9. ASSUME NEW p \in Proc, ObserveLock(p) PROVE TypeOK' /\ LinesDrawn'
    <2>1. PICK o \in Observed \cup {None} :
             /\ seen' = [seen EXCEPT ![p] = o]
             /\ GoTo(p, IF o = None THEN "retry" ELSE "judge")
      BY <1>9, ViewsTyped, ZenonT(60) DEF ObserveLock
    <2> QED
      BY <1>9, <2>1 DEF ObserveLock
  <1>10. ASSUME NEW p \in Proc, JudgeLock(p) PROVE TypeOK' /\ LinesDrawn'
    BY <1>10, NewTokensFresh, DistinctValues DEF JudgeLock, EndBreak
  <1>11. ASSUME NEW p \in Proc, Claim(p) PROVE TypeOK' /\ LinesDrawn'
    <2>1. CASE brk = None
      <3>1. PICK i \in NewInodes(brk, bfd, claim) :
               brk' = [ino |-> i, line |-> Blank] /\ bfd' = [bfd EXCEPT ![p] = i]
        BY <1>11, <2>1 DEF Claim
      <3>2. i \in Inode
        BY <3>1, NewInodesFresh
      <3>3. brk' \in File
        BY <3>1, <3>2 DEF File
      <3> QED
        BY <1>11, <2>1, <3>1, <3>2, <3>3 DEF Claim
    <2>2. CASE brk # None
      BY <1>11, <2>2 DEF Claim, EndBreak
    <2> QED
      BY <2>1, <2>2
  <1>12. ASSUME NEW p \in Proc, ClaimWrite(p) PROVE TypeOK' /\ LinesDrawn'
    <2>1. BreakerLine(p) \in Line
      BY <1>12 DEF ClaimWrite, BreakerLine, Line
    <2>2. brk' \in File \cup {None}
      BY <1>12, <2>1, WrittenFiles DEF ClaimWrite
    <2> QED
      BY <1>12, <2>2 DEF ClaimWrite
  <1>13. ASSUME NEW p \in Proc, Confirm(p) PROVE TypeOK' /\ LinesDrawn'
    BY <1>13, DistinctValues DEF Confirm
  <1>14. ASSUME NEW p \in Proc, UnlinkLock(p) PROVE TypeOK' /\ LinesDrawn'
    BY <1>14, DistinctValues DEF UnlinkLock
  <1>15. ASSUME NEW p \in Proc, Unclaim(p) PROVE TypeOK' /\ LinesDrawn'
    BY <1>15, DistinctValues, SMTT(30) DEF Unclaim, LeaveBreak, EndBreak, EndCall
  <1>16. ASSUME NEW p \in Proc, UnclaimUnlink(p) PROVE TypeOK' /\ LinesDrawn'
    BY <1>16, DistinctValues DEF UnclaimUnlink, LeaveBreak, EndBreak, EndCall
  <1>17. ASSUME NEW p \in Proc, ObserveClaim(p) PROVE TypeOK' /\ LinesDrawn'
    <2>1. PICK o \in Observed \cup {None} :
             /\ claim' = [claim EXCEPT ![p] = o]
             /\ GoTo(p, IF o = None THEN "retry" ELSE "cjudge")
      BY <1>17, ViewsTyped, ZenonT(60) DEF ObserveClaim
    <2> QED
      BY <1>17, <2>1 DEF ObserveClaim
  <1>18. ASSUME NEW p \in Proc, JudgeClaim(p) PROVE TypeOK' /\ LinesDrawn'
    BY <1>18, DistinctValues DEF JudgeClaim
  <1>19. ASSUME NEW p \in Proc, StatClaim(p) PROVE TypeOK' /\ LinesDrawn'
    BY <1>19, DistinctValues DEF StatClaim
  <1>20. ASSUME NEW p \in Proc, ClearClaim(p) PROVE TypeOK' /\ LinesDrawn'
    BY <1>20, DistinctValues DEF ClearClaim
  <1>21. ASSUME NEW p \in Proc, WriteFails(p) PROVE TypeOK' /\ LinesDrawn'
    BY <1>21, DistinctValues DEF WriteFails, EndCall
  <1>22. ASSUME NEW p \in Proc, ClaimWriteFails(p) PROVE TypeOK' /\ LinesDrawn'
    BY <1>22, DistinctValues DEF ClaimWriteFails, EndBreak, EndCall
  <1>23. ASSUME NEW p \in Proc, TimeOut(p) PROVE TypeOK' /\ LinesDrawn'
    BY <1>23, DistinctValues DEF TimeOut, EndCall
  <1>24. ASSUME NEW p \in Proc, Crash(p) PROVE TypeOK' /\ LinesDrawn'
    BY <1>24, DistinctValues DEF Crash, EndBreak, EndCall
  <1>25. QED
    BY <1>1, <1>2, <1>3, <1>4, <1>5, <1>6, <1>7, <1>8, <1>9, <1>10, <1>11, <1>12, <1>13, <1>14, <1>15, <1>16, <1>17, <1>18, <1>19, <1>20, <1>21, <1>22, <1>23, <1>24 DEF Next, Step
(* The claim on breaking a lock: a `.break' that a live process is using   *)
(* is never judged old, and is therefore only ever removed by its owner.   *)
LEMMA ClaimNamesOwner ==
    ASSUME ClaimIsOwned, NEW q \in Proc, Claiming(q)
    PROVE  brk.line # Blank => brk.line.pid = q
  <1>1. CASE pc[q] = "claimwrite"
    BY <1>1 DEF ClaimIsOwned
  <1>2. CASE pc[q] # "claimwrite"
    <2>1. brk.line = BreakerLine(q)
      BY <1>2 DEF ClaimIsOwned
    <2> QED
      BY <2>1 DEF BreakerLine
  <1> QED
    BY <1>1, <1>2

LEMMA InUseIsYoung ==
    ASSUME TypeOK, LinesDrawn, ClaimIsOwned, Orderly, NEW p \in Proc, NEW q \in Proc,
           Claiming(q), JudgedByAge(p, brk.line),
           MayBeAged(brk, bfd, "claimwrite", ClaimPC \ {"claimwrite"})
    PROVE  bfd[q] # brk.ino
  <1>1. CASE pc[q] = "claimwrite"
    BY <1>1 DEF MayBeAged, Orderly, Claiming, At
  <1>2. CASE pc[q] # "claimwrite" /\ ~SlowHold
    BY <1>2 DEF MayBeAged, Claiming, At
  <1>3. CASE pc[q] # "claimwrite" /\ SlowHold
    <2>1. brk.line = BreakerLine(q) /\ BreakerLine(q) \in Line
      BY <1>3 DEF ClaimIsOwned, BreakerLine, Line, LinesDrawn, TypeOK, Claiming
    <2>2. brk.line # Blank /\ brk.line.pid = q
      BY <2>1, DistinctValues DEF BreakerLine
    <2> QED
      BY <1>3, <2>2 DEF JudgedByAge, Orderly
  <1> QED
    BY <1>1, <1>2, <1>3

(* Only the live process that created `.break' is breaking the lock.       *)
LEMMA ClaimStep ==
    ASSUME Orderly, TypeOK, LinesDrawn, ClaimIsOwned, ClaimViewsSound, [Next]_vars
    PROVE  ClaimIsOwned' /\ ClaimViewsSound'
  <1> USE DEF TypeOK, ClaimIsOwned, ClaimViewsSound, Claiming, ClaimPC, PC, HoldPC, At, GoTo, Orderly, Judgeable, BreakerLine
  <1>1. CASE UNCHANGED vars
    BY <1>1 DEF vars
  <1>2. ASSUME NEW p \in Proc, NEW m \in Calls, Acquire(p, m) PROVE ClaimIsOwned' /\ ClaimViewsSound'
    BY <1>2 DEF Acquire
  <1>3. ASSUME NEW p \in Proc, Create(p) PROVE ClaimIsOwned' /\ ClaimViewsSound'
    BY <1>3 DEF Create, EndCall
  <1>4. ASSUME NEW p \in Proc, Write(p) PROVE ClaimIsOwned' /\ ClaimViewsSound'
    BY <1>4 DEF Write
  <1>5. ASSUME NEW p \in Proc, Retry(p) PROVE ClaimIsOwned' /\ ClaimViewsSound'
    BY <1>5 DEF Retry
  <1>6. ASSUME NEW p \in Proc, AssertHeld(p) PROVE ClaimIsOwned' /\ ClaimViewsSound'
    BY <1>6 DEF AssertHeld, Owned
  <1>7. ASSUME NEW p \in Proc, Release(p) PROVE ClaimIsOwned' /\ ClaimViewsSound'
    BY <1>7 DEF Release, EndCall, Owned
  <1>8. ASSUME NEW p \in Proc, ReleaseUnlink(p) PROVE ClaimIsOwned' /\ ClaimViewsSound'
    BY <1>8 DEF ReleaseUnlink, EndCall
  <1>9. ASSUME NEW p \in Proc, ObserveLock(p) PROVE ClaimIsOwned' /\ ClaimViewsSound'
    BY <1>9 DEF ObserveLock
  <1>10. ASSUME NEW p \in Proc, JudgeLock(p) PROVE ClaimIsOwned' /\ ClaimViewsSound'
    BY <1>10 DEF JudgeLock, EndBreak
  <1>11. ASSUME NEW p \in Proc, Claim(p) PROVE ClaimIsOwned' /\ ClaimViewsSound'
    <2>1. CASE brk = None
      <3>1. PICK i \in NewInodes(brk, bfd, claim) :
               brk' = [ino |-> i, line |-> Blank] /\ bfd' = [bfd EXCEPT ![p] = i]
        BY <1>11, <2>1 DEF Claim
      <3>2. \A q \in Proc : claim[q] # None => claim[q].ino # i
        BY <3>1, NewInodesFresh
      <3>3. brk'.ino = i /\ brk'.line = Blank /\ brk' # None /\ bfd'[p] = i
        BY <3>1, NewInodesFresh, DistinctValues DEF File
      <3>4. ClaimIsOwned'
        <4>1. /\ pc' = [pc EXCEPT ![p] = "claimwrite"]
              /\ alive' = alive
          BY <1>11, <2>1 DEF Claim
        <4>2. \A q \in Proc : ~Claiming(q)
          BY <2>1
        <4>3. \A q \in Proc : Claiming(q)' => q = p
          BY <4>1, <4>2
        <4>4. Claiming(p)' /\ pc'[p] = "claimwrite"
          BY <1>11, <4>1 DEF Claim
        <4> QED
          BY <3>3, <4>3, <4>4
      <3>5. ClaimViewsSound'
        BY <1>11, <2>1, <3>1, <3>2, <3>3 DEF Claim
      <3> QED
        BY <3>4, <3>5
    <2>2. CASE brk # None
      BY <1>11, <2>2, SMTT(30) DEF Claim, EndBreak
    <2> QED
      BY <2>1, <2>2
  <1>12. ASSUME NEW p \in Proc, ClaimWrite(p) PROVE ClaimIsOwned' /\ ClaimViewsSound'
    <2>1. BreakerLine(p) \in Line
      BY <1>12 DEF ClaimWrite, BreakerLine, Line, LinesDrawn
    <2>2. brk # None /\ brk.ino = bfd[p]
      BY <1>12 DEF ClaimWrite
    <2>3. brk' # None /\ brk'.ino = brk.ino /\ brk'.line = BreakerLine(p)
      BY <1>12, <2>1, <2>2, WrittenFiles, DistinctValues DEF ClaimWrite
    <2> QED
      BY <1>12, <2>2, <2>3 DEF ClaimWrite, BreakerLine
  <1>13. ASSUME NEW p \in Proc, Confirm(p) PROVE ClaimIsOwned' /\ ClaimViewsSound'
    BY <1>13 DEF Confirm
  <1>14. ASSUME NEW p \in Proc, UnlinkLock(p) PROVE ClaimIsOwned' /\ ClaimViewsSound'
    BY <1>14 DEF UnlinkLock
  <1>15. ASSUME NEW p \in Proc, Unclaim(p) PROVE ClaimIsOwned' /\ ClaimViewsSound'
    BY <1>15 DEF Unclaim, LeaveBreak, EndBreak, EndCall
  <1>16. ASSUME NEW p \in Proc, UnclaimUnlink(p) PROVE ClaimIsOwned' /\ ClaimViewsSound'
    BY <1>16 DEF UnclaimUnlink, LeaveBreak, EndBreak, EndCall
  <1>17. ASSUME NEW p \in Proc, ObserveClaim(p) PROVE ClaimIsOwned' /\ ClaimViewsSound'
    <2> DEFINE old == MayBeAged(brk, bfd, "claimwrite", ClaimPC \ {"claimwrite"})
    <2>0. old \in BOOLEAN
      BY DEF MayBeAged
    <2>1. PICK o \in Views(p, brk, old) :
             /\ claim' = [claim EXCEPT ![p] = o]
             /\ GoTo(p, IF o = None THEN "retry" ELSE "cjudge")
      BY <1>17 DEF ObserveClaim
    <2>2. CASE brk = None
      <3>1. o = None
        BY <2>0, <2>1, <2>2, ViewsObserved
      <3> QED
        BY <1>17, <2>1, <3>1 DEF ObserveClaim
    <2>3. CASE brk # None
      <3>1. /\ o # None
            /\ o.ino = brk.ino
            /\ o.line = brk.line
            /\ o.aged => JudgedByAge(p, brk.line) /\ old
        BY <2>0, <2>3, ViewsObserved
      <3>2. ASSUME NEW q \in Proc, Claiming(q) PROVE Judgeable(o, q, bfd)
        <4>1. brk.line # Blank => brk.line.pid = q
          BY <3>2, ClaimNamesOwner
        <4>2. ASSUME o.aged PROVE bfd[q] # brk.ino
          BY <3>1, <3>2, <4>2, InUseIsYoung
        <4> QED
          BY <3>1, <4>1, <4>2 DEF Judgeable
      <3> QED
        BY <1>17, <2>1, <3>1, <3>2 DEF ObserveClaim
    <2> QED
      BY <2>2, <2>3
  <1>18. ASSUME NEW p \in Proc, JudgeClaim(p) PROVE ClaimIsOwned' /\ ClaimViewsSound'
    <2>1. CASE IsStale(p, claim[p])
      <3>1. ASSUME NEW q \in Proc, Claiming(q) PROVE bfd[q] # claim[p].ino
        BY <1>18, <2>1, <3>1 DEF JudgeClaim, IsStale, JudgedByAge
      <3> QED
        BY <1>18, <2>1, <3>1 DEF JudgeClaim
    <2>2. CASE ~IsStale(p, claim[p])
      BY <1>18, <2>2 DEF JudgeClaim
    <2> QED
      BY <2>1, <2>2
  <1>19. ASSUME NEW p \in Proc, StatClaim(p) PROVE ClaimIsOwned' /\ ClaimViewsSound'
    <2>1. ~(brk # None /\ brk.ino = claim[p].ino)
      <3>1. SUFFICES ASSUME brk # None, brk.ino = claim[p].ino PROVE FALSE
        OBVIOUS
      <3>2. PICK q \in Proc : Claiming(q)
        BY <3>1
      <3>3. bfd[q] = claim[p].ino
        BY <3>1, <3>2
      <3> QED
        BY <1>19, <3>2, <3>3 DEF StatClaim
    <2> QED
      BY <1>19, <2>1 DEF StatClaim
  <1>20. ASSUME NEW p \in Proc, ClearClaim(p) PROVE ClaimIsOwned' /\ ClaimViewsSound'
    BY <1>20 DEF ClearClaim
  <1>21. ASSUME NEW p \in Proc, WriteFails(p) PROVE ClaimIsOwned' /\ ClaimViewsSound'
    BY <1>21 DEF WriteFails, EndCall
  <1>22. ASSUME NEW p \in Proc, ClaimWriteFails(p) PROVE ClaimIsOwned' /\ ClaimViewsSound'
    BY <1>22 DEF ClaimWriteFails, EndBreak, EndCall
  <1>23. ASSUME NEW p \in Proc, TimeOut(p) PROVE ClaimIsOwned' /\ ClaimViewsSound'
    BY <1>23 DEF TimeOut, EndCall
  <1>24. ASSUME NEW p \in Proc, Crash(p) PROVE ClaimIsOwned' /\ ClaimViewsSound'
    BY <1>24 DEF Crash, EndBreak, EndCall
  <1>25. QED
    BY <1>1, <1>2, <1>3, <1>4, <1>5, <1>6, <1>7, <1>8, <1>9, <1>10, <1>11, <1>12, <1>13, <1>14, <1>15, <1>16, <1>17, <1>18, <1>19, <1>20, <1>21, <1>22, <1>23, <1>24 DEF Next, Step

(* The lock itself: while a live process holds it, it names that process   *)
(* or nobody, and is never judged old.                                     *)
LEMMA LockNamesHolder ==
    ASSUME LiveHolderKeepsLock, UnwrittenIsBlank, NEW q \in Proc, Holding(q)
    PROVE  lock.line # Blank => lock.line.pid = q
  <1>1. CASE pc[q] = "write"
    BY <1>1 DEF UnwrittenIsBlank, Holding, At
  <1>2. CASE pc[q] # "write"
    <2>1. lock.line = OwnerLine(q)
      BY <1>2 DEF LiveHolderKeepsLock
    <2> QED
      BY <2>1 DEF OwnerLine
  <1> QED
    BY <1>1, <1>2

LEMMA HeldIsYoung ==
    ASSUME TypeOK, LinesDrawn, LiveHolderKeepsLock, Orderly, NEW p \in Proc, NEW q \in Proc,
           Holding(q), JudgedByAge(p, lock.line),
           MayBeAged(lock, fd, "write", HoldPC \ {"write"})
    PROVE  fd[q] # lock.ino
  <1>1. CASE pc[q] = "write"
    BY <1>1 DEF MayBeAged, Orderly, Holding, At
  <1>2. CASE pc[q] # "write" /\ ~SlowHold
    BY <1>2 DEF MayBeAged, Holding, At
  <1>3. CASE pc[q] # "write" /\ SlowHold
    <2>1. lock.line = OwnerLine(q) /\ OwnerLine(q) \in Line
      BY <1>3 DEF LiveHolderKeepsLock, OwnerLine, Line, LinesDrawn, TypeOK, Holding, HoldPC
    <2>2. lock.line # Blank /\ lock.line.pid = q
      BY <2>1, DistinctValues DEF OwnerLine
    <2> QED
      BY <1>3, <2>2 DEF JudgedByAge, Orderly
  <1> QED
    BY <1>1, <1>2, <1>3

LockSafe ==
    MutualExclusion /\ LiveHolderKeepsLock /\ UnwrittenIsBlank /\ LockViewsSound

(* What a breaker unlinks is the file it judged, which no live process     *)
(* uses; so a holder keeps its lock and nobody else gets in.               *)
LEMMA LockStep ==
    ASSUME Orderly, TypeOK, LinesDrawn, ClaimIsOwned, LockSafe, [Next]_vars
    PROVE  LockSafe'
  <1> USE DEF LockSafe, TypeOK, MutualExclusion, LiveHolderKeepsLock, UnwrittenIsBlank, LockViewsSound,
             Holding, HoldPC, ClaimPC, PC, At, GoTo, Orderly, Judgeable, OwnerLine
  <1>1. CASE UNCHANGED vars
    BY <1>1 DEF vars
  <1>2. ASSUME NEW p \in Proc, NEW m \in Calls, Acquire(p, m) PROVE LockSafe'
    BY <1>2 DEF Acquire
  <1>3. ASSUME NEW p \in Proc, Create(p) PROVE LockSafe'
    <2>1. CASE lock = None
      <3>1. PICK i \in NewInodes(lock, fd, seen) :
               lock' = [ino |-> i, line |-> Blank] /\ fd' = [fd EXCEPT ![p] = i]
        BY <1>3, <2>1 DEF Create
      <3>2. \A q \in Proc : seen[q] # None => seen[q].ino # i
        BY <3>1, NewInodesFresh
      <3>3. lock'.ino = i /\ lock'.line = Blank /\ lock' # None /\ fd'[p] = i
        BY <3>1, NewInodesFresh, DistinctValues DEF File
      <3>4. pc' = [pc EXCEPT ![p] = "write"] /\ alive' = alive /\ seen' = seen
        BY <1>3, <2>1 DEF Create
      <3>5. \A q \in Proc : ~Holding(q) /\ ~At(q, "unlink")
        BY <2>1
      <3>6. \A q \in Proc : Holding(q)' => q = p
        BY <3>4, <3>5
      <3>7. MutualExclusion' /\ LiveHolderKeepsLock' /\ UnwrittenIsBlank'
        BY <3>3, <3>4, <3>6, ZenonT(60)
      <3>8. LockViewsSound'
        BY <3>2, <3>3, <3>4, <3>5, <3>6
      <3> QED
        BY <3>7, <3>8
    <2>2. CASE lock # None
      BY <1>3, <2>2 DEF Create, EndCall
    <2> QED
      BY <2>1, <2>2
  <1>4. ASSUME NEW p \in Proc, Write(p) PROVE LockSafe'
    <2>1. OwnerLine(p) \in Line
      BY <1>4 DEF Write, OwnerLine, Line, LinesDrawn
    <2>2. lock # None /\ lock.ino = fd[p]
      BY <1>4 DEF Write
    <2>3. lock' # None /\ lock'.ino = lock.ino /\ lock'.line = OwnerLine(p)
      BY <1>4, <2>1, <2>2, WrittenFiles, DistinctValues DEF Write
    <2>4. /\ pc' = [pc EXCEPT ![p] = "held"]
          /\ UNCHANGED <<alive, owner, fd, seen>>
      BY <1>4 DEF Write
    <2>5. \A q \in Proc : Holding(q)' => q = p
      BY <1>4, <2>4 DEF Write
    <2>6. MutualExclusion' /\ LiveHolderKeepsLock' /\ UnwrittenIsBlank'
      BY <2>2, <2>3, <2>4, <2>5
    <2>7. LockViewsSound'
      BY <1>4, <2>2, <2>3, <2>4, <2>5 DEF Write
    <2> QED
      BY <2>6, <2>7
  <1>5. ASSUME NEW p \in Proc, Retry(p) PROVE LockSafe'
    BY <1>5 DEF Retry
  <1>6. ASSUME NEW p \in Proc, AssertHeld(p) PROVE LockSafe'
    <2>1. Owned(p)
      BY <1>6 DEF AssertHeld, Owned
    <2> QED
      BY <1>6, <2>1 DEF AssertHeld
  <1>7. ASSUME NEW p \in Proc, Release(p) PROVE LockSafe'
    <2>1. Owned(p)
      BY <1>7 DEF Release, Owned
    <2>2. Holding(p)
      BY <1>7 DEF Release
    <2>3. /\ pc' = [pc EXCEPT ![p] = "relunlink"]
          /\ UNCHANGED <<alive, owner, fd, seen, lock>>
      BY <1>7, <2>1 DEF Release
    <2>4. \A q \in Proc : Holding(q)' <=> Holding(q)
      BY <2>2, <2>3
    <2>5. LiveHolderKeepsLock'
      BY <2>1, <2>2, <2>3, <2>4 DEF Owned
    <2> QED
      BY <2>3, <2>4, <2>5
  <1>8. ASSUME NEW p \in Proc, ReleaseUnlink(p) PROVE LockSafe'
    <2>1. \A q \in Proc : ~Holding(q)'
      BY <1>8 DEF ReleaseUnlink, EndCall
    <2>2. ASSUME NEW q \in Proc, At(q, "unlink") PROVE FALSE
      <3>1. Holding(p) /\ lock.ino = fd[p]
        BY <1>8 DEF ReleaseUnlink
      <3>2. lock.ino = seen[q].ino /\ fd[p] # seen[q].ino
        BY <2>2, <3>1
      <3> QED
        BY <3>1, <3>2
    <2> QED
      BY <1>8, <2>1, <2>2 DEF ReleaseUnlink, EndCall
  <1>9. ASSUME NEW p \in Proc, ObserveLock(p) PROVE LockSafe'
    <2> DEFINE old == MayBeAged(lock, fd, "write", HoldPC \ {"write"})
    <2>0. old \in BOOLEAN
      BY DEF MayBeAged
    <2>1. PICK o \in Views(p, lock, old) :
             /\ seen' = [seen EXCEPT ![p] = o]
             /\ GoTo(p, IF o = None THEN "retry" ELSE "judge")
      BY <1>9 DEF ObserveLock
    <2>2. CASE lock = None
      <3>1. o = None
        BY <2>0, <2>1, <2>2, ViewsObserved
      <3> QED
        BY <1>9, <2>1, <3>1 DEF ObserveLock
    <2>3. CASE lock # None
      <3>1. /\ o # None
            /\ o.ino = lock.ino
            /\ o.line = lock.line
            /\ o.aged => JudgedByAge(p, lock.line) /\ old
        BY <2>0, <2>3, ViewsObserved
      <3>2. ASSUME NEW q \in Proc, Holding(q) PROVE Judgeable(o, q, fd)
        <4>1. lock.line # Blank => lock.line.pid = q
          BY <3>2, LockNamesHolder
        <4>2. ASSUME o.aged PROVE fd[q] # lock.ino
          BY <3>1, <3>2, <4>2, HeldIsYoung
        <4> QED
          BY <3>1, <4>1, <4>2 DEF Judgeable
      <3> QED
        BY <1>9, <2>1, <3>1, <3>2 DEF ObserveLock
    <2> QED
      BY <2>2, <2>3
  <1>10. ASSUME NEW p \in Proc, JudgeLock(p) PROVE LockSafe'
    <2>1. CASE IsStale(p, seen[p])
      <3>1. ASSUME NEW q \in Proc, Holding(q) PROVE fd[q] # seen[p].ino
        BY <1>10, <2>1, <3>1 DEF JudgeLock, IsStale, JudgedByAge
      <3> QED
        BY <1>10, <2>1, <3>1 DEF JudgeLock
    <2>2. CASE ~IsStale(p, seen[p])
      BY <1>10, <2>2 DEF JudgeLock, EndBreak
    <2> QED
      BY <2>1, <2>2
  <1>11. ASSUME NEW p \in Proc, Claim(p) PROVE LockSafe'
    BY <1>11 DEF Claim, EndBreak
  <1>12. ASSUME NEW p \in Proc, ClaimWrite(p) PROVE LockSafe'
    BY <1>12 DEF ClaimWrite
  <1>13. ASSUME NEW p \in Proc, Confirm(p) PROVE LockSafe'
    BY <1>13 DEF Confirm
  <1>14. ASSUME NEW p \in Proc, UnlinkLock(p) PROVE LockSafe'
    <2>1. ASSUME NEW q \in Proc, Holding(q) PROVE FALSE
      <3>1. lock.ino = seen[p].ino /\ fd[q] # seen[p].ino
        BY <1>14, <2>1 DEF UnlinkLock
      <3>2. lock.ino = fd[q]
        BY <2>1
      <3> QED
        BY <3>1, <3>2
    <2>2. \A q \in Proc : At(q, "unlink") => q = p
      BY <1>14 DEF UnlinkLock, ClaimIsOwned, Claiming, ClaimPC
    <2>3. /\ pc' = [pc EXCEPT ![p] = "unclaim"]
          /\ UNCHANGED <<alive, owner, fd, seen>>
      BY <1>14 DEF UnlinkLock
    <2>4. \A q \in Proc : ~Holding(q)'
      BY <2>1, <2>3
    <2> QED
      BY <1>14, <2>2, <2>3, <2>4 DEF UnlinkLock
  <1>15. ASSUME NEW p \in Proc, Unclaim(p) PROVE LockSafe'
    BY <1>15 DEF Unclaim, LeaveBreak, EndBreak, EndCall
  <1>16. ASSUME NEW p \in Proc, UnclaimUnlink(p) PROVE LockSafe'
    BY <1>16 DEF UnclaimUnlink, LeaveBreak, EndBreak, EndCall
  <1>17. ASSUME NEW p \in Proc, ObserveClaim(p) PROVE LockSafe'
    BY <1>17 DEF ObserveClaim
  <1>18. ASSUME NEW p \in Proc, JudgeClaim(p) PROVE LockSafe'
    BY <1>18 DEF JudgeClaim
  <1>19. ASSUME NEW p \in Proc, StatClaim(p) PROVE LockSafe'
    BY <1>19 DEF StatClaim
  <1>20. ASSUME NEW p \in Proc, ClearClaim(p) PROVE LockSafe'
    BY <1>20 DEF ClearClaim
  <1>21. ASSUME NEW p \in Proc, WriteFails(p) PROVE LockSafe'
    BY <1>21 DEF WriteFails, EndCall
  <1>22. ASSUME NEW p \in Proc, ClaimWriteFails(p) PROVE LockSafe'
    BY <1>22 DEF ClaimWriteFails, EndBreak, EndCall
  <1>23. ASSUME NEW p \in Proc, TimeOut(p) PROVE LockSafe'
    BY <1>23 DEF TimeOut, EndCall
  <1>24. ASSUME NEW p \in Proc, Crash(p) PROVE LockSafe'
    BY <1>24 DEF Crash, EndBreak, EndCall
  <1>25. QED
    BY <1>1, <1>2, <1>3, <1>4, <1>5, <1>6, <1>7, <1>8, <1>9, <1>10, <1>11, <1>12, <1>13, <1>14, <1>15, <1>16, <1>17, <1>18, <1>19, <1>20, <1>21, <1>22, <1>23, <1>24 DEF Next, Step

(* Every step keeps the inductive invariant.                               *)
LEMMA LockInvStep ==
    ASSUME Orderly, LockInv, [Next]_vars
    PROVE  LockInv'
  <1>1. TypeOK' /\ LinesDrawn'
    BY TypeStep DEF LockInv
  <1>2. ClaimIsOwned' /\ ClaimViewsSound'
    BY ClaimStep DEF LockInv
  <1>3. LockSafe'
    BY LockStep DEF LockInv, LockSafe
  <1> QED
    BY <1>1, <1>2, <1>3 DEF LockInv, LockSafe

(* Every value a variable takes is of its type, for any number of          *)
(* processes and in any environment.                                       *)
THEOREM LockTypeCorrect == Spec => []TypeOK
  <1>1. Init => TypeOK /\ LinesDrawn
    BY LockInvInit DEF LockInv
  <1>2. TypeOK /\ LinesDrawn /\ [Next]_vars => (TypeOK /\ LinesDrawn)'
    BY TypeStep
  <1> QED
    BY <1>1, <1>2, PTL DEF Spec

(* In an orderly environment the inductive invariant always holds.         *)
THEOREM LockInvariant ==
    ASSUME Orderly PROVE Spec => []LockInv
  <1>1. LockInv /\ [Next]_vars => LockInv'
    BY LockInvStep
  <1> QED
    BY LockInvInit, <1>1, PTL DEF Spec

(* The lock excludes: of the processes that acquireFileLock let in, at     *)
(* most one is alive and has not released it.                              *)
THEOREM LockExcludes ==
    ASSUME Orderly PROVE Spec => []MutualExclusion
  <1>1. LockInv => MutualExclusion
    BY DEF LockInv
  <1> QED
    BY LockInvariant, <1>1, PTL

(* A live holder is never broken, so assertHeld never throws.              *)
THEOREM HolderKeepsLock ==
    ASSUME Orderly PROVE Spec => []LiveHolderKeepsLock
  <1>1. LockInv => LiveHolderKeepsLock
    BY DEF LockInv
  <1> QED
    BY LockInvariant, <1>1, PTL

(* What any other step of a process does to the lock it may be named in:   *)
(* nothing, unless the process does not hold, goes on holding, or dies.    *)
Aside(p) ==
    /\ lock' = lock
    /\ \A q \in Proc \ {p} : pc'[q] = pc[q] /\ fd'[q] = fd[q] /\ alive'[q] = alive[q]
    /\ alive'[p] => alive[p]
    /\ \/ pc[p] \notin HoldPC
       \/ ~alive'[p]
       \/ pc'[p] \in HoldPC /\ fd'[p] = fd[p]

LEMMA AsideKeeps ==
    ASSUME TypeOK, LockNotLeaked, NEW p \in Proc, Aside(p)
    PROVE  LockNotLeaked'
  <1>1. lock # None /\ lock.line # Blank => lock.line.pid \in Proc
    BY DEF TypeOK, File, Line
  <1> QED
    BY <1>1 DEF LockNotLeaked, Aside

(* A lock that names a live process stays in use by it: its line gets there*)
(* by the write of its holder, and whoever stops holding has unlinked it.  *)
LEMMA LeakStep ==
    ASSUME LockInv, LockNotLeaked, [Next]_vars
    PROVE  LockNotLeaked'
  <1> USE DEF TypeOK, LockInv, Holding, HoldPC, ClaimPC, At, GoTo, Aside
  <1>1. CASE UNCHANGED vars
    BY <1>1 DEF vars, LockNotLeaked
  <1>2. ASSUME NEW p \in Proc, NEW m \in Calls, Acquire(p, m) PROVE LockNotLeaked'
    <2>1. Aside(p)
      BY <1>2 DEF Acquire
    <2> QED
      BY <2>1, AsideKeeps DEF LockInv
  <1>3. ASSUME NEW p \in Proc, Retry(p) PROVE LockNotLeaked'
    <2>1. Aside(p)
      BY <1>3 DEF Retry
    <2> QED
      BY <2>1, AsideKeeps DEF LockInv
  <1>4. ASSUME NEW p \in Proc, AssertHeld(p) PROVE LockNotLeaked'
    <2>1. Aside(p)
      BY <1>4 DEF AssertHeld, Owned, OwnerLine, LiveHolderKeepsLock
    <2> QED
      BY <2>1, AsideKeeps DEF LockInv
  <1>5. ASSUME NEW p \in Proc, Release(p) PROVE LockNotLeaked'
    <2>1. Aside(p)
      BY <1>5 DEF Release, Owned, OwnerLine, LiveHolderKeepsLock
    <2> QED
      BY <2>1, AsideKeeps DEF LockInv
  <1>6. ASSUME NEW p \in Proc, ObserveLock(p) PROVE LockNotLeaked'
    <2>1. Aside(p)
      BY <1>6 DEF ObserveLock
    <2> QED
      BY <2>1, AsideKeeps DEF LockInv
  <1>7. ASSUME NEW p \in Proc, JudgeLock(p) PROVE LockNotLeaked'
    <2>1. Aside(p)
      BY <1>7 DEF JudgeLock, EndBreak
    <2> QED
      BY <2>1, AsideKeeps DEF LockInv
  <1>8. ASSUME NEW p \in Proc, Claim(p) PROVE LockNotLeaked'
    <2>1. Aside(p)
      BY <1>8 DEF Claim, EndBreak
    <2> QED
      BY <2>1, AsideKeeps DEF LockInv
  <1>9. ASSUME NEW p \in Proc, ClaimWrite(p) PROVE LockNotLeaked'
    <2>1. Aside(p)
      BY <1>9 DEF ClaimWrite
    <2> QED
      BY <2>1, AsideKeeps DEF LockInv
  <1>10. ASSUME NEW p \in Proc, Confirm(p) PROVE LockNotLeaked'
    <2>1. Aside(p)
      BY <1>10 DEF Confirm
    <2> QED
      BY <2>1, AsideKeeps DEF LockInv
  <1>11. ASSUME NEW p \in Proc, Unclaim(p) PROVE LockNotLeaked'
    <2>1. Aside(p)
      BY <1>11 DEF Unclaim, LeaveBreak, EndBreak, EndCall
    <2> QED
      BY <2>1, AsideKeeps DEF LockInv
  <1>12. ASSUME NEW p \in Proc, UnclaimUnlink(p) PROVE LockNotLeaked'
    <2>1. Aside(p)
      BY <1>12 DEF UnclaimUnlink, LeaveBreak, EndBreak, EndCall
    <2> QED
      BY <2>1, AsideKeeps DEF LockInv
  <1>13. ASSUME NEW p \in Proc, ObserveClaim(p) PROVE LockNotLeaked'
    <2>1. Aside(p)
      BY <1>13 DEF ObserveClaim
    <2> QED
      BY <2>1, AsideKeeps DEF LockInv
  <1>14. ASSUME NEW p \in Proc, JudgeClaim(p) PROVE LockNotLeaked'
    <2>1. Aside(p)
      BY <1>14 DEF JudgeClaim
    <2> QED
      BY <2>1, AsideKeeps DEF LockInv
  <1>15. ASSUME NEW p \in Proc, StatClaim(p) PROVE LockNotLeaked'
    <2>1. Aside(p)
      BY <1>15 DEF StatClaim
    <2> QED
      BY <2>1, AsideKeeps DEF LockInv
  <1>16. ASSUME NEW p \in Proc, ClearClaim(p) PROVE LockNotLeaked'
    <2>1. Aside(p)
      BY <1>16 DEF ClearClaim
    <2> QED
      BY <2>1, AsideKeeps DEF LockInv
  <1>17. ASSUME NEW p \in Proc, ClaimWriteFails(p) PROVE LockNotLeaked'
    <2>1. Aside(p)
      BY <1>17 DEF ClaimWriteFails, EndBreak, EndCall
    <2> QED
      BY <2>1, AsideKeeps DEF LockInv
  <1>18. ASSUME NEW p \in Proc, TimeOut(p) PROVE LockNotLeaked'
    <2>1. Aside(p)
      BY <1>18 DEF TimeOut, EndCall
    <2> QED
      BY <2>1, AsideKeeps DEF LockInv
  <1>19. ASSUME NEW p \in Proc, Crash(p) PROVE LockNotLeaked'
    <2>1. Aside(p)
      BY <1>19 DEF Crash, EndBreak, EndCall
    <2> QED
      BY <2>1, AsideKeeps DEF LockInv
  <1>20. ASSUME NEW p \in Proc, Create(p) PROVE LockNotLeaked'
    <2>1. CASE lock = None
      BY <1>20, <2>1 DEF Create, LockNotLeaked
    <2>2. CASE lock # None
      <3>1. Aside(p)
        BY <1>20, <2>2 DEF Create, EndCall
      <3> QED
        BY <3>1, AsideKeeps DEF LockInv
    <2> QED
      BY <2>1, <2>2
  <1>21. ASSUME NEW p \in Proc, Write(p) PROVE LockNotLeaked'
    <2>1. lock \in File /\ lock.ino = fd[p]
      BY <1>21 DEF Write, LiveHolderKeepsLock
    <2>2. OwnerLine(p) \in Line /\ OwnerLine(p).pid = p
      BY <1>21 DEF Write, LinesDrawn, OwnerLine, Line
    <2>3. lock' = [lock EXCEPT !.line = OwnerLine(p)]
      BY <1>21, <2>1, DistinctValues DEF Write
    <2>4. lock'.ino = fd[p] /\ lock'.line.pid = p
      BY <2>1, <2>2, <2>3, WrittenFiles
    <2> QED
      BY <1>21, <2>4 DEF Write, LockNotLeaked
  <1>22. ASSUME NEW p \in Proc, ReleaseUnlink(p) \/ UnlinkLock(p) PROVE LockNotLeaked'
    BY <1>22 DEF ReleaseUnlink, UnlinkLock, LockNotLeaked
  <1>23. ASSUME NEW p \in Proc, WriteFails(p) PROVE LockNotLeaked'
    BY <1>23 DEF WriteFails, UnwrittenIsBlank, LockNotLeaked
  <1> QED
    BY <1>1, <1>2, <1>3, <1>4, <1>5, <1>6, <1>7, <1>8, <1>9, <1>10, <1>11, <1>12, <1>13, <1>14, <1>15, <1>16, <1>17, <1>18, <1>19, <1>20, <1>21, <1>22, <1>23 DEF Next, Step

(* A claim on breaking names the process that is breaking.                 *)
LEMMA ClaimInUse ==
    ASSUME ClaimIsOwned
    PROVE  ClaimNotLeaked
  <1>1. ASSUME NEW q \in Proc, Claiming(q), brk # None, brk.line # Blank
        PROVE  brk.line.pid = q /\ pc[q] \in ClaimPC /\ bfd[q] = brk.ino
    BY <1>1, ClaimNamesOwner DEF ClaimIsOwned, Claiming
  <1> QED
    BY <1>1 DEF ClaimIsOwned, ClaimNotLeaked

(* In an orderly environment no file that names a live process is left     *)
(* behind: whoever waits for one waits for a process that is using it.     *)
THEOREM NothingLiveLeaks ==
    ASSUME Orderly PROVE Spec => []NoLiveLeaks
  <1>1. Init => LockNotLeaked
    BY DEF Init, LockNotLeaked
  <1>2. LockInv /\ LockNotLeaked /\ [Next]_vars => LockNotLeaked'
    BY LeakStep
  <1>3. LockInv => ClaimNotLeaked
    BY ClaimInUse DEF LockInv
  <1> QED
    BY LockInvariant, <1>1, <1>2, <1>3, PTL DEF Spec, NoLiveLeaks

(* The live holders, which the refinement maps to the abstract holders.    *)
Holders == {p \in Proc : Holding(p)}

Enters(p) == Holders = {} /\ Holders' = {p}
Leaves(p) == p \in Holders /\ Holders' = Holders \ {p}

(* A step leaves the holders alone, or lets its process in when there are  *)
(* none, or takes its process out.                                         *)
LEMMA HoldersStep ==
    ASSUME LockInv, [Next]_vars
    PROVE  UNCHANGED Holders \/ \E p \in Proc : Enters(p) \/ Leaves(p)
  <1> USE DEF TypeOK, LockInv, Holders, Holding, HoldPC, ClaimPC, At, GoTo
  <1>1. CASE UNCHANGED vars
    BY <1>1 DEF vars
  <1>2. ASSUME NEW p \in Proc, NEW m \in Calls, Acquire(p, m) PROVE UNCHANGED Holders
    BY <1>2 DEF Acquire
  <1>3. ASSUME NEW p \in Proc, Create(p) PROVE UNCHANGED Holders \/ Enters(p)
    <2>1. CASE lock = None
      <3>1. Holders = {}
        BY <2>1 DEF LiveHolderKeepsLock
      <3> QED
        BY <1>3, <2>1, <3>1 DEF Create, Enters
    <2>2. CASE lock # None
      BY <1>3, <2>2 DEF Create, EndCall
    <2> QED
      BY <2>1, <2>2
  <1>4. ASSUME NEW p \in Proc, Write(p) PROVE UNCHANGED Holders
    BY <1>4 DEF Write
  <1>5. ASSUME NEW p \in Proc, Retry(p) PROVE UNCHANGED Holders
    BY <1>5 DEF Retry
  <1>6. ASSUME NEW p \in Proc, AssertHeld(p) PROVE UNCHANGED Holders
    BY <1>6 DEF AssertHeld, Owned, OwnerLine, LiveHolderKeepsLock
  <1>7. ASSUME NEW p \in Proc, Release(p) PROVE UNCHANGED Holders
    BY <1>7 DEF Release, Owned, OwnerLine, LiveHolderKeepsLock
  <1>8. ASSUME NEW p \in Proc, ReleaseUnlink(p) PROVE Leaves(p)
    BY <1>8 DEF ReleaseUnlink, EndCall, Leaves
  <1>9. ASSUME NEW p \in Proc, ObserveLock(p) PROVE UNCHANGED Holders
    BY <1>9 DEF ObserveLock
  <1>10. ASSUME NEW p \in Proc, JudgeLock(p) PROVE UNCHANGED Holders
    BY <1>10 DEF JudgeLock, EndBreak
  <1>11. ASSUME NEW p \in Proc, Claim(p) PROVE UNCHANGED Holders
    BY <1>11 DEF Claim, EndBreak
  <1>12. ASSUME NEW p \in Proc, ClaimWrite(p) PROVE UNCHANGED Holders
    BY <1>12 DEF ClaimWrite
  <1>13. ASSUME NEW p \in Proc, Confirm(p) PROVE UNCHANGED Holders
    BY <1>13 DEF Confirm
  <1>14. ASSUME NEW p \in Proc, UnlinkLock(p) PROVE UNCHANGED Holders
    BY <1>14 DEF UnlinkLock
  <1>15. ASSUME NEW p \in Proc, Unclaim(p) PROVE UNCHANGED Holders
    BY <1>15 DEF Unclaim, LeaveBreak, EndBreak, EndCall
  <1>16. ASSUME NEW p \in Proc, UnclaimUnlink(p) PROVE UNCHANGED Holders
    BY <1>16 DEF UnclaimUnlink, LeaveBreak, EndBreak, EndCall
  <1>17. ASSUME NEW p \in Proc, ObserveClaim(p) PROVE UNCHANGED Holders
    BY <1>17 DEF ObserveClaim
  <1>18. ASSUME NEW p \in Proc, JudgeClaim(p) PROVE UNCHANGED Holders
    BY <1>18 DEF JudgeClaim
  <1>19. ASSUME NEW p \in Proc, StatClaim(p) PROVE UNCHANGED Holders
    BY <1>19 DEF StatClaim
  <1>20. ASSUME NEW p \in Proc, ClearClaim(p) PROVE UNCHANGED Holders
    BY <1>20 DEF ClearClaim
  <1>21. ASSUME NEW p \in Proc, WriteFails(p) PROVE Leaves(p)
    BY <1>21 DEF WriteFails, EndCall, Leaves
  <1>22. ASSUME NEW p \in Proc, ClaimWriteFails(p) PROVE UNCHANGED Holders
    BY <1>22 DEF ClaimWriteFails, EndBreak, EndCall
  <1>23. ASSUME NEW p \in Proc, TimeOut(p) PROVE UNCHANGED Holders
    BY <1>23 DEF TimeOut, EndCall
  <1>24. ASSUME NEW p \in Proc, Crash(p) PROVE UNCHANGED Holders \/ Leaves(p)
    BY <1>24 DEF Crash, EndBreak, EndCall, Leaves
  <1>25. QED
    BY <1>1, <1>2, <1>3, <1>4, <1>5, <1>6, <1>7, <1>8, <1>9, <1>10, <1>11, <1>12, <1>13, <1>14, <1>15, <1>16, <1>17, <1>18, <1>19, <1>20, <1>21, <1>22, <1>23, <1>24 DEF Next, Step

(* The file lock implements the exclusive lock: whoever acquires it finds  *)
(* no live holder, and it is handed on only after a release or a death.    *)
THEOREM LockRefines ==
    ASSUME Orderly PROVE Spec => IsExclusiveLock
  <1>1. Init => Abstract!Init
    BY DEF Init, Abstract!Init, Holding, HoldPC
  <1>2. LockInv /\ [Next]_vars => [Abstract!Next]_Holders
    <2> SUFFICES ASSUME LockInv, [Next]_vars PROVE [Abstract!Next]_Holders
      OBVIOUS
    <2>1. CASE UNCHANGED Holders
      BY <2>1
    <2>2. ASSUME NEW p \in Proc, Enters(p) PROVE Abstract!Take(p)
      BY <2>2 DEF Enters, Abstract!Take, Holders
    <2>3. ASSUME NEW p \in Proc, Leaves(p) PROVE Abstract!Leave(p)
      BY <2>3 DEF Leaves, Abstract!Leave, Holders
    <2> QED
      BY <2>1, <2>2, <2>3, HoldersStep DEF Abstract!Next
  <1> QED
    BY LockInvariant, <1>1, <1>2, PTL DEF Spec, IsExclusiveLock, Abstract!Spec, Holders

=============================================================================
