-------------------------- MODULE AuditSinkProofs --------------------------
(***************************************************************************)
(* Proofs about AuditSink: for any number of writers, any sizes and any    *)
(* number of rotations, the files hold one chain that grows at its end,    *)
(* and a cached head that would be trusted is its end.                     *)
(***************************************************************************)
EXTENDS AuditSink, TLAPS

-----------------------------------------------------------------------------
(* What the proofs assume of the environment.                              *)

\* A live writer keeps its lock; or it can lose it where it has yet to check,
\* but then no file is ever full.
NoLateRotation ==
    \/ Stalls = {}
    \/ /\ Stalls \subseteq {"head", "head1", "rotate", "assert"}
       /\ MaxRecords + MaxTorn < MaxLines

\* Torn lines alone never fill a file: readHead looks at two files only.
FullFilesHoldRecords == MaxTorn < MaxLines

Environment == NoLateRotation /\ FullFilesHoldRecords

-----------------------------------------------------------------------------
(* The inductive invariant.                                                *)

Full == seg[Path] # None /\ seg[Path].lines >= MaxLines

Recs(s) == RecordsOf(seg[s])

\* Files are distinct, all but <path> were full, and full ones hold records;
\* the newest of the rotated ones is <path>.1 unless <path> is to be rotated.
FilesOK ==
    /\ \A s, t \in Segment : seg[s] # None /\ seg[t] # None /\ s # t => seg[s].ino # seg[t].ino
    /\ \A s \in Segment :
          seg[s] # None => /\ seg[s].lines <= Len(seg[s].records) + torn
                           /\ seg[s].lines <= records + torn
                           /\ s # Path => seg[s].lines >= MaxLines
    /\ \A s \in Segment : s # Path /\ seg[s] # None => seg[1] # None \/ Full

\* A record's hash is newer than the one it follows, and newer than those of
\* the records before it in its file and in the older files.
HashesGrow ==
    /\ \A s \in Segment : \A i \in 1 .. Len(Recs(s)) :
          /\ Recs(s)[i].prev < Recs(s)[i].hash
          /\ Recs(s)[i].hash <= records
    /\ \A s \in Segment : \A i, j \in 1 .. Len(Recs(s)) : i < j => Recs(s)[i].hash < Recs(s)[j].hash
    /\ \A s, t \in Segment : s < t =>
          \A i \in 1 .. Len(Recs(s)), j \in 1 .. Len(Recs(t)) : Recs(t)[j].hash < Recs(s)[i].hash

Deciding == {"rotate", "unlink", "shift", "assert", "append", "stat"}

\* Who changes more than the end of a line holds the lock.
LockOK(p) ==
    /\ lock = p => pc[p] # "idle"
    /\ pc[p] \in {"unlink", "shift", "append", "stat"} => lock = p
    /\ Stalls = {} /\ pc[p] # "idle" => lock = p

\* The holder of the lock knows the end of the chain, and what it has closed,
\* found full or moved stays so.
HolderOK(p) ==
    lock = p =>
      /\ pc[p] \in Deciding => head[p] = EndHash
      /\ pc[p] \in Deciding \cup {"head1"} => seg[Path] = None \/ seg[Path].cut = "no"
      /\ pc[p] \in {"unlink", "shift"} => Full
      /\ pc[p] = "head1" => ~HasHead(seg[Path])
      /\ pc[p] = "shift" => next[p] < MaxFiles /\ seg[next[p] + 1] = None
      /\ pc[p] = "stat" => HasHead(seg[Path])

\* A file that a writer remembers only got longer since; if it did not, it
\* still ends with what the writer wrote.
CacheOK(p) ==
    cached[p] # None =>
      /\ ~cached[p].size[2]
      /\ \A s \in Segment : seg[s] # None /\ seg[s].ino = cached[p].ino =>
            /\ cached[p].size[1] <= seg[s].lines
            /\ cached[p].size[1] = seg[s].lines =>
                  seg[s].cut = "no" /\ HasHead(seg[s]) /\ HeadOf(seg[s]) = cached[p].head

SinkInv ==
    /\ TypeOK /\ FilesOK /\ HashesGrow /\ OneChain
    /\ \A p \in Proc : LockOK(p)
    /\ \A p \in Proc : HolderOK(p)
    /\ \A p \in Proc : CacheOK(p)

-----------------------------------------------------------------------------
(* Files and their records.                                                *)

(* The types of what is read of a file.                                    *)
LEMMA FileTypes ==
    ASSUME TypeOK, NEW s \in Segment
    PROVE  /\ Recs(s) \in Seq(Record) /\ Len(Recs(s)) \in Nat
           /\ \A i \in 1 .. Len(Recs(s)) : Recs(s)[i].hash \in Hash /\ Recs(s)[i].prev \in Hash \cup {Genesis}
           /\ HasHead(seg[s]) <=> Len(Recs(s)) > 0
           /\ HasHead(seg[s]) => HeadOf(seg[s]) = Recs(s)[Len(Recs(s))].hash /\ HeadOf(seg[s]) \in Hash
           /\ seg[s] # None => /\ seg[s] \in File /\ Recs(s) = seg[s].records
                               /\ seg[s].lines \in Nat /\ seg[s].ino \in Inode /\ seg[s].cut \in Cut
           /\ seg[s] = None => ~HasHead(seg[s])
  <1>1. seg[s] \in File \cup {None}
    BY DEF TypeOK
  <1>2. Recs(s) \in Seq(Record)
    BY <1>1 DEF Recs, RecordsOf, File
  <1>3. Len(Recs(s)) \in Nat /\ \A i \in 1 .. Len(Recs(s)) : Recs(s)[i] \in Record
    BY <1>2
  <1>4. \A i \in 1 .. Len(Recs(s)) : Recs(s)[i].hash \in Hash /\ Recs(s)[i].prev \in Hash \cup {Genesis}
    BY <1>3 DEF Record
  <1>5. HasHead(seg[s]) <=> Len(Recs(s)) > 0
    BY <1>2 DEF HasHead, Recs
  <1>6. HasHead(seg[s]) => HeadOf(seg[s]) = Recs(s)[Len(Recs(s))].hash
    BY DEF HeadOf, Last, Recs
  <1> QED
    BY <1>1, <1>2, <1>3, <1>4, <1>5, <1>6 DEF File, Recs, RecordsOf, HasHead

(* The end of the chain is in the newest file that has records.            *)
LEMMA EndIs ==
    ASSUME SinkConstants, NEW s \in Segment
    PROVE  /\ HasHead(seg[s]) /\ (\A t \in Segment : t < s => ~HasHead(seg[t])) => EndHash = HeadOf(seg[s])
           /\ (HasHead(seg[s]) /\ (\A t \in Segment : t < s => ~HasHead(seg[t])) => EndHash = HeadOf(seg[s]))'
  <1>1. HasHead(seg[s]) /\ (\A t \in Segment : t < s => ~HasHead(seg[t])) => EndHash = HeadOf(seg[s])
    <2> SUFFICES ASSUME HasHead(seg[s]), \A t \in Segment : t < s => ~HasHead(seg[t])
                 PROVE  EndHash = HeadOf(seg[s])
      OBVIOUS
    <2>1. Newest \in Segment /\ HasHead(seg[Newest]) /\ \A t \in Segment : t < Newest => ~HasHead(seg[t])
      BY DEF Newest
    <2>2. Newest = s
      BY <2>1 DEF SinkConstants, Sizes, Segment
    <2> QED
      BY <2>2 DEF EndHash
  <1>2. (HasHead(seg[s]) /\ (\A t \in Segment : t < s => ~HasHead(seg[t])) => EndHash = HeadOf(seg[s]))'
    <2> SUFFICES ASSUME HasHead(seg[s])', (\A t \in Segment : t < s => ~HasHead(seg[t]))'
                 PROVE  (EndHash = HeadOf(seg[s]))'
      OBVIOUS
    <2>1. (Newest \in Segment /\ HasHead(seg[Newest]) /\ \A t \in Segment : t < Newest => ~HasHead(seg[t]))'
      BY DEF Newest
    <2>2. Newest' = s
      BY <2>1 DEF SinkConstants, Sizes, Segment
    <2> QED
      BY <2>2 DEF EndHash
  <1> QED
    BY <1>1, <1>2

(* A full file has records.                                                *)
LEMMA FullHas ==
    ASSUME SinkConstants, TypeOK, FilesOK, Environment, NEW s \in Segment, seg[s] # None, seg[s].lines >= MaxLines
    PROVE  HasHead(seg[s])
  <1>1. seg[s].lines <= Len(Recs(s)) + torn
    BY FileTypes DEF FilesOK
  <1>2. torn <= MaxTorn /\ torn \in Nat
    BY DEF SinkConstants, Sizes, TypeOK
  <1> QED
    BY <1>1, <1>2, FileTypes DEF SinkConstants, Sizes, Environment, FullFilesHoldRecords

(* The end of the chain is in <path>, in <path>.1, or there is no record.  *)
LEMMA WhereItEnds ==
    ASSUME SinkConstants, TypeOK, FilesOK, Environment
    PROVE  /\ 0 \in Segment /\ 1 \in Segment
           /\ \/ HasHead(seg[0]) /\ EndHash = HeadOf(seg[0])
              \/ ~HasHead(seg[0]) /\ HasHead(seg[1]) /\ EndHash = HeadOf(seg[1])
              \/ (\A s \in Segment : ~HasHead(seg[s])) /\ EndHash = Genesis
  <1>1. 0 \in Segment /\ 1 \in Segment
    BY DEF SinkConstants, Sizes, Segment
  <1>2. CASE HasHead(seg[0])
    <2>1. \A t \in Segment : ~(t < 0)
      BY DEF SinkConstants, Sizes, Segment
    <2> QED
      BY <1>1, <1>2, <2>1, EndIs
  <1>3. CASE ~HasHead(seg[0]) /\ HasHead(seg[1])
    <2>1. \A t \in Segment : t < 1 => t = 0
      BY DEF SinkConstants, Sizes, Segment
    <2> QED
      BY <1>1, <1>3, <2>1, EndIs
  <1>4. CASE ~HasHead(seg[0]) /\ ~HasHead(seg[1])
    <2>1. ~Full
      BY <1>1, <1>4, FullHas DEF Full, Path
    <2>2. seg[1] = None
      BY <1>1, <1>4, FullHas DEF FilesOK, Path
    <2>3. \A s \in Segment : s # 0 => seg[s] = None
      BY <2>1, <2>2 DEF FilesOK, Path
    <2>4. \A s \in Segment : ~HasHead(seg[s])
      BY <1>4, <2>3, FileTypes
    <2> QED
      BY <1>1, <2>4 DEF EndHash
  <1> QED
    BY <1>1, <1>2, <1>3, <1>4

-----------------------------------------------------------------------------
(* Steps that at most close a line.                                        *)

Tidied ==
    \A s \in Segment :
        \/ seg'[s] = seg[s]
        \/ seg[s] # None /\ seg'[s] = [seg[s] EXCEPT !.cut = "no"]

LEMMA TidyFile ==
    ASSUME SinkConstants, TypeOK, TypeOK', Tidied, NEW s \in Segment
    PROVE  /\ seg'[s] = None <=> seg[s] = None
           /\ RecordsOf(seg'[s]) = RecordsOf(seg[s])
           /\ seg[s] # None => /\ seg'[s].ino = seg[s].ino /\ seg'[s].lines = seg[s].lines
                               /\ seg'[s].records = seg[s].records
                               /\ seg'[s].cut \in {seg[s].cut, "no"}
  <1>1. CASE seg'[s] = seg[s]
    BY <1>1
  <1>2. CASE seg[s] # None /\ seg'[s] = [seg[s] EXCEPT !.cut = "no"]
    <2>1. seg[s] \in File
      BY <1>2 DEF TypeOK
    <2>2. seg'[s] \in File
      BY <1>2, <2>1 DEF File, Cut
    <2>3. seg'[s] # None
      BY <2>2 DEF SinkConstants, NoneAssumption
    <2> QED
      BY <1>2, <2>1, <2>3 DEF File, RecordsOf
  <1> QED
    BY <1>1, <1>2 DEF Tidied

(* The same records in the same files are the same trail.                  *)
LEMMA SameTrail ==
    ASSUME SinkConstants, TypeOK, FilesOK, Environment, HashesGrow, OneChain, records' = records,
           \A s \in Segment : RecordsOf(seg'[s]) = RecordsOf(seg[s])
    PROVE  HashesGrow' /\ OneChain' /\ EndHash' = EndHash /\ Held' = Held
  <1>1. \A s \in Segment : Recs(s)' = Recs(s)
    BY DEF Recs
  <1>2. \A s \in Segment : /\ HasHead(seg[s])' <=> HasHead(seg[s])
                           /\ HeadOf(seg[s])' = HeadOf(seg[s])
    BY DEF HasHead, HeadOf
  <1>3. HashesGrow'
    BY <1>1 DEF HashesGrow
  <1>4. OneChain'
    BY <1>2 DEF OneChain
  <1>5. EndHash' = EndHash
    <2>1. CASE HasHead(seg[0]) /\ EndHash = HeadOf(seg[0])
      BY <1>2, <2>1, WhereItEnds, EndIs DEF SinkConstants, Sizes, Segment
    <2>2. CASE ~HasHead(seg[0]) /\ HasHead(seg[1]) /\ EndHash = HeadOf(seg[1])
      <3>1. \A t \in Segment : t < 1 => t = 0
        BY DEF SinkConstants, Sizes, Segment
      <3> QED
        BY <1>2, <2>2, <3>1, WhereItEnds, EndIs
    <2>3. CASE (\A s \in Segment : ~HasHead(seg[s])) /\ EndHash = Genesis
      BY <1>2, <2>3 DEF EndHash
    <2> QED
      BY <2>1, <2>2, <2>3, WhereItEnds
  <1>6. Held' = Held
    BY DEF Held
  <1> QED
    BY <1>3, <1>4, <1>5, <1>6

LEMMA TidyStep ==
    ASSUME SinkConstants, SinkInv, Environment, TypeOK', Tidied, records' = records, torn' = torn
    PROVE  /\ FilesOK' /\ HashesGrow' /\ OneChain' /\ EndHash' = EndHash /\ Held' = Held
           /\ \A q \in Proc :
                (lock' = q => lock = q) /\ pc'[q] = pc[q] /\ head'[q] = head[q] /\ next'[q] = next[q]
                => HolderOK(q)'
           /\ \A q \in Proc : cached'[q] \in {cached[q], None} => CacheOK(q)'
  <1>0. /\ TypeOK /\ FilesOK /\ HashesGrow /\ OneChain
        /\ \A q \in Proc : LockOK(q) /\ HolderOK(q) /\ CacheOK(q)
        /\ 0 \in Segment /\ 1 \in Segment
    BY WhereItEnds DEF SinkInv
  <1>1. HashesGrow' /\ OneChain' /\ EndHash' = EndHash /\ Held' = Held
    BY <1>0, TidyFile, SameTrail
  <1>2. Full' <=> Full
    BY <1>0, TidyFile DEF Full, Path
  <1>3. FilesOK'
    BY <1>0, <1>2, TidyFile DEF FilesOK
  <1>4. ASSUME NEW q \in Proc, lock' = q => lock = q, pc'[q] = pc[q], head'[q] = head[q], next'[q] = next[q]
        PROVE  HolderOK(q)'
    <2> SUFFICES ASSUME lock' = q PROVE HolderOK(q)'
      BY DEF HolderOK
    <2>1. HolderOK(q) /\ lock = q
      BY <1>0, <1>4
    <2>2. HasHead(seg[Path])' <=> HasHead(seg[Path])
      BY <1>0, TidyFile DEF HasHead, Path
    <2>3. (seg[Path] = None \/ seg[Path].cut = "no") => (seg[Path] = None \/ seg[Path].cut = "no")'
      BY <1>0, TidyFile DEF Path
    <2>4. next[q] < MaxFiles /\ seg[next[q] + 1] = None => (next[q] < MaxFiles /\ seg[next[q] + 1] = None)'
      <3> SUFFICES ASSUME next[q] < MaxFiles, seg[next[q] + 1] = None
                   PROVE  (next[q] < MaxFiles /\ seg[next[q] + 1] = None)'
        OBVIOUS
      <3>1. next[q] + 1 \in Segment
        BY <1>0 DEF SinkConstants, Sizes, TypeOK, Segment
      <3> QED
        BY <1>0, <1>4, <3>1, TidyFile
    <2> QED
      BY <1>1, <1>2, <1>4, <2>1, <2>2, <2>3, <2>4 DEF HolderOK
  <1>5. ASSUME NEW q \in Proc, cached'[q] \in {cached[q], None}
        PROVE  CacheOK(q)'
    <2> SUFFICES ASSUME cached'[q] = cached[q], cached[q] # None PROVE CacheOK(q)'
      BY <1>5 DEF CacheOK
    <2>1. \A s \in Segment : /\ HasHead(seg[s])' <=> HasHead(seg[s])
                             /\ HeadOf(seg[s])' = HeadOf(seg[s])
      BY <1>0, TidyFile DEF HasHead, HeadOf
    <2> QED
      BY <1>0, <2>1, TidyFile DEF CacheOK
  <1> QED
    BY <1>1, <1>3, <1>4, <1>5

-----------------------------------------------------------------------------
(* The steps of a writer.                                                  *)

\* A step of p leaves what the other writers know.
OthersKeep(p) ==
    \A q \in Proc \ {p} :
        /\ lock' = q <=> lock = q
        /\ pc'[q] = pc[q] /\ head'[q] = head[q] /\ next'[q] = next[q] /\ cached'[q] = cached[q]

LEMMA TidyStepOf ==
    ASSUME SinkConstants, SinkInv, Environment, TypeOK', Tidied, records' = records, torn' = torn,
           NEW p \in Proc, OthersKeep(p), LockOK(p)', HolderOK(p)', CacheOK(p)'
    PROVE  SinkInv' /\ EndHash' = EndHash /\ Held' = Held
  <1>1. FilesOK' /\ HashesGrow' /\ OneChain' /\ EndHash' = EndHash /\ Held' = Held
    BY TidyStep
  <1>2. ASSUME NEW q \in Proc \ {p} PROVE LockOK(q)' /\ HolderOK(q)' /\ CacheOK(q)'
    <2>1. LockOK(q)'
      BY DEF OthersKeep, LockOK, SinkInv
    <2>2. HolderOK(q)' /\ CacheOK(q)'
      BY TidyStep DEF OthersKeep
    <2> QED
      BY <2>1, <2>2
  <1> QED
    BY <1>1, <1>2 DEF SinkInv

(* Taking the lock, or giving up on it.                                    *)
LEMMA AcquireStep ==
    ASSUME SinkConstants, SinkInv, Environment, NEW p \in Proc, Acquire(p) \/ AcquireTimesOut(p)
    PROVE  SinkInv' /\ EndHash' = EndHash /\ Held' = Held
  <1>0. TypeOK /\ LockOK(p) /\ HolderOK(p) /\ CacheOK(p)
    BY DEF SinkInv
  <1>1. /\ Tidied /\ records' = records /\ torn' = torn /\ seg' = seg
        /\ head' = head /\ next' = next
    BY DEF Acquire, AcquireTimesOut, fileVars, Tidied
  <1>2. TypeOK'
    BY <1>0, <1>1 DEF Acquire, AcquireTimesOut, GoTo, TypeOK, PC
  <1>3. OthersKeep(p)
    BY <1>0 DEF SinkConstants, NoneAssumption, Acquire, AcquireTimesOut, GoTo, OthersKeep, TypeOK
  <1>4. LockOK(p)'
    BY <1>0 DEF Acquire, AcquireTimesOut, GoTo, LockOK, TypeOK
  <1>5. HolderOK(p)'
    BY <1>0 DEF Acquire, AcquireTimesOut, GoTo, LockOK, HolderOK, TypeOK, Deciding
  <1>6. CacheOK(p)'
    BY <1>0, <1>1 DEF Acquire, AcquireTimesOut, CacheOK, TypeOK, HasHead, HeadOf
  <1> QED
    BY <1>1, <1>2, <1>3, <1>4, <1>5, <1>6, TidyStepOf

(* The lock is let go of: the call ends, or the process, or it is broken.  *)
LEMMA EndStep ==
    ASSUME SinkConstants, SinkInv, Environment, NEW p \in Proc,
           Release(p) \/ Crash(p) \/ LockBroken(p)
    PROVE  SinkInv' /\ EndHash' = EndHash /\ Held' = Held
  <1>0. TypeOK /\ LockOK(p) /\ HolderOK(p) /\ CacheOK(p) /\ p # None /\ 0 \in Segment
    BY WhereItEnds DEF SinkConstants, NoneAssumption, SinkInv
  <1>1. /\ Tidied /\ records' = records /\ torn' = torn /\ seg' = seg
        /\ lock' # p /\ lock' \in {lock, None} /\ (lock' = lock \/ lock = p)
    BY <1>0 DEF Release, Crash, LockBroken, fileVars, Tidied
  <1>2. TypeOK'
    BY <1>0, <1>1 DEF Release, Crash, LockBroken, GoTo, TypeOK, PC, Path
  <1>3. OthersKeep(p)
    BY <1>0, <1>1 DEF SinkConstants, NoneAssumption, Release, Crash, LockBroken, GoTo,
       OthersKeep, TypeOK
  <1>4. LockOK(p)'
    <2>1. CASE Release(p) \/ Crash(p)
      BY <1>0, <1>1, <2>1 DEF Release, Crash, GoTo, LockOK, TypeOK
    <2>2. CASE LockBroken(p)
      BY <1>0, <1>1, <2>2 DEF LockBroken, LockOK, Environment, NoLateRotation
    <2> QED
      BY <2>1, <2>2
  <1>5. HolderOK(p)'
    BY <1>1 DEF HolderOK
  <1>6. CacheOK(p)'
    BY <1>0, <1>1 DEF Release, Crash, LockBroken, CacheOK, TypeOK, HasHead, HeadOf
  <1> QED
    BY <1>1, <1>2, <1>3, <1>4, <1>5, <1>6, TidyStepOf

(* A trusted cache is the end of the chain.                                *)
LEMMA CacheIsEnd ==
    ASSUME SinkConstants, SinkInv, Environment, NEW p \in Proc, CacheHolds(p)
    PROVE  /\ seg[0] # None /\ seg[0].cut = "no" /\ HasHead(seg[0])
           /\ cached[p].head = EndHash /\ cached[p].head \in Hash
  <1>0. TypeOK /\ CacheOK(p) /\ FilesOK /\ 0 \in Segment
    BY WhereItEnds DEF SinkInv
  <1>1. /\ cached[p] # None /\ seg[0] # None /\ seg[0].ino = cached[p].ino
        /\ cached[p].size[1] = seg[0].lines
    BY DEF CacheHolds, Size, Path
  <1>2. seg[0].cut = "no" /\ HasHead(seg[0]) /\ HeadOf(seg[0]) = cached[p].head
    BY <1>0, <1>1 DEF CacheOK
  <1>3. EndHash = HeadOf(seg[0])
    BY <1>0, <1>2, WhereItEnds
  <1> QED
    BY <1>0, <1>1, <1>2, <1>3, FileTypes

(* The head is taken from the cache or read, and the open line closed.     *)
LEMMA HeadStep ==
    ASSUME SinkConstants, SinkInv, Environment, NEW p \in Proc, CurrentHead(p) \/ HeadOfRotated(p)
    PROVE  SinkInv' /\ EndHash' = EndHash /\ Held' = Held
  <1>0. /\ TypeOK /\ FilesOK /\ LockOK(p) /\ HolderOK(p) /\ CacheOK(p)
        /\ 0 \in Segment /\ 1 \in Segment
    BY WhereItEnds DEF SinkInv
  <1>1. /\ records' = records /\ torn' = torn /\ lock' = lock /\ next' = next /\ cached' = cached
    BY DEF CurrentHead, HeadOfRotated
  <1>2. Tidied
    BY <1>0 DEF CurrentHead, HeadOfRotated, Tidied, Closed, TypeOK, Path
  <1>3. \A s \in Segment : seg[s] # None => [seg[s] EXCEPT !.cut = "no"] \in File
    BY <1>0 DEF TypeOK, File, Cut
  <1>4. seg' \in [Segment -> File \cup {None}]
    BY <1>0, <1>3 DEF CurrentHead, HeadOfRotated, Closed, TypeOK, Path
  <1>5. /\ head' \in [Proc -> Hash \cup {Genesis}]
        /\ pc' \in [Proc -> PC]
    <2>1. \A s \in Segment : HasHead(seg[s]) => HeadOf(seg[s]) \in Hash
      BY <1>0, FileTypes
    <2>2. /\ \/ head' = head
             \/ \E h \in Hash \cup {Genesis} : head' = [head EXCEPT ![p] = h]
          /\ \E to \in {"rotate", "head1"} : pc' = [pc EXCEPT ![p] = to]
      <3>1. CASE CurrentHead(p) /\ CacheHolds(p)
        BY <3>1, CacheIsEnd DEF CurrentHead, GoTo
      <3>2. CASE CurrentHead(p) /\ ~CacheHolds(p)
        BY <1>0, <2>1, <3>2 DEF CurrentHead, GoTo, Path
      <3>3. CASE HeadOfRotated(p)
        BY <1>0, <2>1, <3>3 DEF HeadOfRotated, GoTo
      <3> QED
        BY <3>1, <3>2, <3>3
    <2> QED
      BY <1>0, <2>2 DEF TypeOK, PC
  <1>6. TypeOK'
    BY <1>0, <1>1, <1>4, <1>5 DEF TypeOK
  <1>7. OthersKeep(p)
    BY <1>0, <1>1 DEF CurrentHead, HeadOfRotated, GoTo, OthersKeep, TypeOK
  <1>8. LockOK(p)'
    BY <1>0, <1>1 DEF CurrentHead, HeadOfRotated, GoTo, LockOK, TypeOK
  <1>9. CacheOK(p)'
    BY <1>1, <1>2, <1>6, TidyStep
  <1>10. /\ FilesOK' /\ EndHash' = EndHash
         /\ \A s \in Segment : HasHead(seg[s])' <=> HasHead(seg[s])
    BY <1>0, <1>1, <1>2, <1>6, TidyStep, TidyFile DEF HasHead
  <1>11. ASSUME lock = p PROVE HolderOK(p)'
    <2>1. CASE CurrentHead(p) /\ CacheHolds(p)
      <3>1. head'[p] = cached[p].head /\ pc'[p] = "rotate" /\ seg' = seg
        BY <1>0, <2>1 DEF CurrentHead, GoTo, TypeOK
      <3> QED
        BY <1>10, <2>1, <3>1, CacheIsEnd DEF HolderOK, Path
    <2>2. CASE CurrentHead(p) /\ ~CacheHolds(p)
      <3>1. /\ seg'[0] = Closed(seg[0])
            /\ pc'[p] = IF HasHead(seg[0]) THEN "rotate" ELSE "head1"
            /\ HasHead(seg[0]) => head'[p] = HeadOf(seg[0])
        BY <1>0, <2>2 DEF CurrentHead, GoTo, TypeOK, Path
      <3>2. seg'[0] = None \/ seg'[0].cut = "no"
        BY <1>0, <3>1 DEF Closed, TypeOK, File
      <3>3. HasHead(seg[0]) => EndHash = HeadOf(seg[0])
        BY <1>0, WhereItEnds
      <3>4. HasHead(seg[0])' <=> HasHead(seg[0])
        BY <1>0, <1>10
      <3>5. CASE HasHead(seg[0])
        BY <1>10, <3>1, <3>2, <3>3, <3>5 DEF HolderOK, Path
      <3>6. CASE ~HasHead(seg[0])
        BY <3>1, <3>2, <3>4, <3>6 DEF HolderOK, Path, Deciding
      <3> QED
        BY <3>5, <3>6
    <2>3. CASE HeadOfRotated(p)
      <3>1. /\ pc[p] = "head1" /\ pc'[p] = "rotate" /\ seg'[0] = seg[0]
            /\ head'[p] = IF HasHead(seg[1]) THEN HeadOf(seg[1]) ELSE Genesis
        BY <1>0, <2>3 DEF HeadOfRotated, GoTo, TypeOK
      <3>2. ~HasHead(seg[0]) /\ (seg[0] = None \/ seg[0].cut = "no")
        BY <1>0, <1>11, <3>1 DEF HolderOK, Path
      <3>3. head'[p] = EndHash
        BY <1>0, <3>1, <3>2, WhereItEnds
      <3> QED
        BY <1>10, <3>1, <3>2, <3>3 DEF HolderOK, Path
    <2> QED
      BY <2>1, <2>2, <2>3
  <1>12. HolderOK(p)'
    BY <1>1, <1>11 DEF HolderOK
  <1> QED
    BY <1>1, <1>2, <1>6, <1>7, <1>8, <1>9, <1>12, TidyStepOf

(* The size is looked at, the lock checked, the new cache taken, or a call *)
(* fails.                                                                  *)
LEMMA LookStep ==
    ASSUME SinkConstants, SinkInv, Environment, NEW p \in Proc,
           RotateIfNeeded(p) \/ AssertHeld(p) \/ Cache(p) \/ Fails(p)
    PROVE  SinkInv' /\ EndHash' = EndHash /\ Held' = Held
  <1>0. /\ TypeOK /\ FilesOK /\ LockOK(p) /\ HolderOK(p) /\ CacheOK(p) /\ 0 \in Segment
    BY WhereItEnds DEF SinkInv
  <1>1. /\ records' = records /\ torn' = torn /\ lock' = lock /\ next' = next /\ seg' = seg
        /\ head' = head
    BY DEF RotateIfNeeded, AssertHeld, Cache, Fails, fileVars
  <1>2. Tidied
    BY <1>1 DEF Tidied
  <1>3. EndHash' = EndHash /\ (Full <=> Full')
    BY <1>1 DEF EndHash, Newest, HasHead, HeadOf, Full
  <1>4. CASE RotateIfNeeded(p)
    <2>1. cached' = cached /\ pc' = [pc EXCEPT ![p] = IF Full THEN "unlink" ELSE "assert"] /\ pc[p] = "rotate"
      BY <1>4 DEF RotateIfNeeded, Full, GoTo
    <2>2. TypeOK'
      BY <1>0, <1>1, <2>1 DEF TypeOK, PC
    <2>3. OthersKeep(p)
      BY <1>0, <1>1, <2>1 DEF OthersKeep, TypeOK
    <2>4. Full => lock = p
      <3> SUFFICES ASSUME Full PROVE lock = p
        OBVIOUS
      <3>1. CASE Stalls = {}
        BY <1>0, <2>1, <3>1 DEF LockOK
      <3>2. CASE MaxRecords + MaxTorn < MaxLines
        <4>1. seg[0].lines <= records + torn /\ seg[0].lines >= MaxLines /\ seg[0].lines \in Nat
          BY <1>0, FileTypes DEF FilesOK, Full, Path
        <4> QED
          BY <1>0, <3>2, <4>1 DEF SinkConstants, Sizes, TypeOK
      <3> QED
        BY <3>1, <3>2 DEF Environment, NoLateRotation
    <2>5. LockOK(p)'
      BY <1>0, <1>1, <2>1, <2>4 DEF LockOK, TypeOK
    <2>6. HolderOK(p)'
      BY <1>0, <1>1, <1>3, <2>1 DEF HolderOK, TypeOK, Deciding
    <2>7. CacheOK(p)'
      BY <1>0, <1>1, <2>1 DEF CacheOK, HasHead, HeadOf
    <2> QED
      BY <1>1, <1>2, <2>2, <2>3, <2>5, <2>6, <2>7, TidyStepOf
  <1>5. CASE AssertHeld(p) \/ Fails(p)
    <2>1. /\ \E c \in {cached[p], None} : cached' = [cached EXCEPT ![p] = c]
          /\ \E to \in {"append", "release"} :
               pc' = [pc EXCEPT ![p] = to] /\ (to = "append" => lock = p /\ pc[p] = "assert")
          /\ pc[p] # "idle"
      BY <1>0, <1>5 DEF AssertHeld, Fails, GoTo, TypeOK
    <2>2. TypeOK'
      BY <1>0, <1>1, <2>1 DEF TypeOK, PC
    <2>3. OthersKeep(p)
      BY <1>0, <1>1, <2>1 DEF OthersKeep, TypeOK
    <2>4. LockOK(p)'
      BY <1>0, <1>1, <2>1 DEF LockOK, TypeOK
    <2>5. HolderOK(p)'
      BY <1>0, <1>1, <1>3, <2>1 DEF HolderOK, TypeOK, Deciding
    <2>6. CacheOK(p)'
      BY <1>0, <1>1, <2>1 DEF CacheOK, HasHead, HeadOf, TypeOK
    <2> QED
      BY <1>1, <1>2, <2>2, <2>3, <2>4, <2>5, <2>6, TidyStepOf
  <1>6. CASE Cache(p)
    <2>1. /\ pc[p] = "stat" /\ lock = p /\ pc' = [pc EXCEPT ![p] = "release"]
          /\ HasHead(seg[0]) /\ (seg[0] = None \/ seg[0].cut = "no") /\ head[p] = EndHash
      BY <1>0, <1>6 DEF Cache, GoTo, LockOK, HolderOK, Deciding, Path
    <2>2. seg[0] # None /\ head[p] = HeadOf(seg[0]) /\ head[p] \in Hash /\ seg[0].cut = "no"
      BY <1>0, <2>1, FileTypes, WhereItEnds
    <2>3. cached' = [cached EXCEPT ![p] = [head |-> head[p], ino |-> seg[0].ino, size |-> <<seg[0].lines, FALSE>>]]
      BY <1>6, <2>2 DEF Cache, Size, Path
    <2>4. [head |-> head[p], ino |-> seg[0].ino, size |-> <<seg[0].lines, FALSE>>]
            \in [head : Hash, ino : Inode, size : Nat \X BOOLEAN]
      BY <1>0, <2>2, FileTypes
    <2>5. TypeOK'
      BY <1>0, <1>1, <2>1, <2>3, <2>4 DEF TypeOK, PC
    <2>6. OthersKeep(p)
      BY <1>0, <1>1, <2>1, <2>3 DEF OthersKeep, TypeOK
    <2>7. LockOK(p)'
      BY <1>0, <1>1, <2>1 DEF LockOK, TypeOK
    <2>8. HolderOK(p)'
      BY <1>0, <1>1, <2>1 DEF HolderOK, TypeOK, Deciding
    <2>9. CacheOK(p)'
      <3>1. /\ cached'[p].ino = seg[0].ino /\ cached'[p].size[1] = seg[0].lines
            /\ cached'[p].size[2] = FALSE /\ cached'[p].head = HeadOf(seg[0])
        BY <1>0, <2>2, <2>3 DEF TypeOK
      <3>2. \A s \in Segment : seg[s] # None /\ seg[s].ino = seg[0].ino => s = 0
        BY <1>0, <2>2 DEF FilesOK
      <3>3. \A s \in Segment : HasHead(seg[s])' = HasHead(seg[s]) /\ HeadOf(seg[s])' = HeadOf(seg[s])
        BY <1>1 DEF HasHead, HeadOf
      <3>4. seg[0].lines \in Nat
        BY <1>0, <2>2, FileTypes
      <3>5. ASSUME NEW s \in Segment, seg[s] # None, seg[s].ino = cached'[p].ino
            PROVE  /\ cached'[p].size[1] <= seg[s].lines
                   /\ seg[s].cut = "no" /\ HasHead(seg[s])' /\ HeadOf(seg[s])' = cached'[p].head
        BY <1>0, <2>1, <2>2, <3>1, <3>2, <3>3, <3>4, <3>5
      <3> QED
        BY <1>1, <3>1, <3>5 DEF CacheOK
    <2> QED
      BY <1>1, <1>2, <2>5, <2>6, <2>7, <2>8, <2>9, TidyStepOf
  <1> QED
    BY <1>4, <1>5, <1>6

-----------------------------------------------------------------------------
(* Rotation.                                                               *)

(* When files only go away or get another number, the caches stay true.    *)
LEMMA CachesStay ==
    ASSUME SinkInv, \A s \in Segment : seg'[s] # None => \E t \in Segment : seg'[s] = seg[t],
           NEW q \in Proc, cached'[q] \in {cached[q], None}
    PROVE  CacheOK(q)'
  <1> SUFFICES ASSUME cached'[q] = cached[q], cached[q] # None PROVE CacheOK(q)'
    BY DEF CacheOK
  <1>1. CacheOK(q)
    BY DEF SinkInv
  <1>2. ASSUME NEW s \in Segment, seg'[s] # None, seg'[s].ino = cached[q].ino
        PROVE  /\ cached[q].size[1] <= seg'[s].lines
               /\ cached[q].size[1] = seg'[s].lines =>
                     seg'[s].cut = "no" /\ HasHead(seg[s])' /\ HeadOf(seg[s])' = cached[q].head
    <2>1. PICK t \in Segment : seg'[s] = seg[t]
      BY <1>2
    <2>2. (HasHead(seg[s])' <=> HasHead(seg[t])) /\ HeadOf(seg[s])' = HeadOf(seg[t])
      BY <2>1 DEF HasHead, HeadOf
    <2> QED
      BY <1>1, <1>2, <2>1, <2>2 DEF CacheOK
  <1> QED
    BY <1>1, <1>2 DEF CacheOK

(* Between the rotation's first and last step, only its own writer acts on *)
(* the files; the other writers are as they were.                          *)
LEMMA HolderStepOf ==
    ASSUME SinkInv, NEW p \in Proc, lock = p, lock' = p, OthersKeep(p),
           TypeOK', FilesOK', HashesGrow', OneChain', LockOK(p)', HolderOK(p)',
           \A q \in Proc : CacheOK(q)'
    PROVE  SinkInv'
  <1>1. ASSUME NEW q \in Proc \ {p} PROVE LockOK(q)' /\ HolderOK(q)'
    BY DEF OthersKeep, LockOK, HolderOK, SinkInv
  <1> QED
    BY <1>1 DEF SinkInv

(* Retention takes the oldest file, and with it the beginning of the chain.*)
LEMMA UnlinkStep ==
    ASSUME SinkConstants, SinkInv, Environment, NEW p \in Proc, UnlinkOldest(p)
    PROVE  SinkInv' /\ Trail!Prune
  <1>0. /\ TypeOK /\ FilesOK /\ HashesGrow /\ OneChain /\ LockOK(p) /\ HolderOK(p)
        /\ 0 \in Segment /\ MaxFiles \in Segment /\ MaxFiles # 0 /\ MaxFiles - 1 \in Segment
    BY DEF SinkConstants, Sizes, SinkInv, Segment
  <1>1. /\ records' = records /\ torn' = torn /\ lock' = lock /\ head' = head /\ cached' = cached
        /\ seg' = [seg EXCEPT ![MaxFiles] = None] /\ pc[p] = "unlink"
        /\ next' = [next EXCEPT ![p] = MaxFiles - 1] /\ pc' = [pc EXCEPT ![p] = "shift"]
    BY DEF UnlinkOldest, GoTo
  <1>2. lock = p /\ Full /\ head[p] = EndHash /\ (seg[0] = None \/ seg[0].cut = "no")
    BY <1>0, <1>1 DEF LockOK, HolderOK, Deciding, Path
  <1>3. HasHead(seg[0]) /\ EndHash = HeadOf(seg[0])
    BY <1>0, <1>2, FullHas, WhereItEnds DEF Full, Path
  <1>4. /\ \A s \in Segment \ {MaxFiles} : seg'[s] = seg[s]
        /\ seg'[MaxFiles] = None
    BY <1>0, <1>1 DEF TypeOK
  <1>5. /\ \A s \in Segment \ {MaxFiles} : Recs(s)' = Recs(s)
        /\ Recs(MaxFiles)' = <<>>
    BY <1>4 DEF Recs, RecordsOf
  <1>6. TypeOK'
    BY <1>0, <1>1 DEF TypeOK, PC
  <1>7. FilesOK'
    BY <1>0, <1>1, <1>2, <1>4 DEF FilesOK, Full, Path
  <1>8. HashesGrow'
    <2>1. \A s \in Segment : Recs(s)' = Recs(s) \/ 1 .. Len(Recs(s)') = {}
      BY <1>5
    <2>2. \A s \in Segment : \A i \in 1 .. Len(Recs(s)') : i \in 1 .. Len(Recs(s)) /\ (Recs(s)[i])' = Recs(s)[i]
      BY <2>1
    <2> QED
      BY <1>0, <1>1, <2>2 DEF HashesGrow
  <1>9. /\ \A s \in Segment \ {MaxFiles} : (HasHead(seg[s])' <=> HasHead(seg[s])) /\ HeadOf(seg[s])' = HeadOf(seg[s])
        /\ ~HasHead(seg[MaxFiles])'
    BY <1>4 DEF HasHead, HeadOf, RecordsOf
  <1>10. OneChain'
    <2>1. \A s \in Segment : Linked(RecordsOf(seg[s]))'
      <3>1. Linked(<<>>)
        BY DEF Linked
      <3> QED
        BY <1>0, <1>5, <3>1 DEF OneChain, Recs, Linked
    <2>2. ASSUME NEW s \in Segment, NEW t \in Segment, s < t, HasHead(seg[s])', HasHead(seg[t])',
                 \A u \in Segment : s < u /\ u < t => ~HasHead(seg[u])'
          PROVE  (RecordsOf(seg[s])[1].prev = HeadOf(seg[t]))'
      <3>1. s # MaxFiles /\ t # MaxFiles
        BY <1>9, <2>2
      <3>2. \A u \in Segment : u < t => u # MaxFiles
        BY DEF SinkConstants, Sizes, Segment
      <3>3. HasHead(seg[s]) /\ HasHead(seg[t]) /\ \A u \in Segment : s < u /\ u < t => ~HasHead(seg[u])
        BY <1>9, <2>2, <3>1, <3>2
      <3>4. RecordsOf(seg[s])[1].prev = HeadOf(seg[t])
        BY <1>0, <2>2, <3>3 DEF OneChain
      <3> QED
        BY <1>4, <1>9, <3>1, <3>4
    <2> QED
      BY <2>1, <2>2 DEF OneChain
  <1>11. EndHash' = EndHash
    <2>1. \A t \in Segment : ~(t < 0)
      BY DEF SinkConstants, Sizes, Segment
    <2>2. HasHead(seg[0])' /\ HeadOf(seg[0])' = HeadOf(seg[0])
      BY <1>0, <1>3, <1>9
    <2> QED
      BY <1>0, <1>3, <2>1, <2>2, EndIs
  <1>12. OthersKeep(p) /\ LockOK(p)'
    BY <1>0, <1>1, <1>2 DEF OthersKeep, LockOK, TypeOK
  <1>13. HolderOK(p)'
    <2>1. /\ pc'[p] = "shift" /\ next'[p] = MaxFiles - 1 /\ head'[p] = head[p]
          /\ seg'[0] = seg[0] /\ seg'[MaxFiles - 1 + 1] = None
      BY <1>0, <1>1, <1>4 DEF SinkConstants, Sizes, TypeOK
    <2>2. Full' /\ MaxFiles - 1 < MaxFiles
      BY <1>2, <2>1 DEF SinkConstants, Sizes, Full, Path
    <2> QED
      BY <1>2, <1>11, <2>1, <2>2 DEF HolderOK, Path
  <1>14. ASSUME NEW q \in Proc PROVE CacheOK(q)'
    BY <1>1, <1>4, CachesStay
  <1>15. SinkInv'
    BY <1>1, <1>2, <1>6, <1>7, <1>8, <1>10, <1>12, <1>13, <1>14, HolderStepOf
  <1>16. Trail!Prune
    <2>1. \A s \in Segment : Recs(s) \in Seq(Record) /\ Range(Recs(s)) = {Recs(s)[i] : i \in 1 .. Len(Recs(s))}
      BY <1>0, FileTypes DEF Range
    <2>2. /\ Held = UNION {Range(Recs(s)) : s \in Segment}
          /\ Held' = UNION {Range(Recs(s)) : s \in Segment \ {MaxFiles}}
      <3>1. Held = UNION {Range(Recs(s)) : s \in Segment}
        BY DEF Held, Recs
      <3>2. Held' = UNION {Range(Recs(s)') : s \in Segment}
        BY DEF Held, Recs
      <3>3. Range(Recs(MaxFiles)') = {}
        BY <1>5 DEF Range
      <3> QED
        BY <1>5, <3>1, <3>2, <3>3
    <2>3. Held' \subseteq Held
      BY <2>2
    <2>4. Held' # {}
      <3>1. Recs(0)[1] \in Range(Recs(0))
        BY <1>0, <1>3, <2>1, FileTypes
      <3> QED
        BY <1>0, <2>2, <3>1
    <2>5. ASSUME NEW r \in Held \ Held', NEW k \in Held' PROVE r.prev # k.hash
      <3>1. PICK i \in 1 .. Len(Recs(MaxFiles)) : r = Recs(MaxFiles)[i]
        BY <2>1, <2>2
      <3>2. PICK s \in Segment \ {MaxFiles} : k \in Range(Recs(s))
        BY <2>2
      <3>3. PICK j \in 1 .. Len(Recs(s)) : k = Recs(s)[j]
        BY <2>1, <3>2
      <3>4. s < MaxFiles
        BY DEF SinkConstants, Sizes, Segment
      <3>5. r.hash < k.hash /\ r.prev < r.hash
        BY <1>0, <3>1, <3>3, <3>4 DEF HashesGrow
      <3>6. r.hash \in Nat /\ k.hash \in Nat /\ r.prev \in Nat
        BY <1>0, <3>1, <3>3, FileTypes DEF Hash, Genesis
      <3> QED
        BY <3>5, <3>6
    <2> QED
      BY <1>11, <2>3, <2>4, <2>5 DEF Trail!Prune
  <1> QED
    BY <1>15, <1>16

(* A file gets the next higher number, which was free.                     *)
LEMMA RenameFiles ==
    ASSUME SinkConstants, SinkInv, Environment, NEW i \in Segment, i < MaxFiles, Full,
           seg[i] # None, seg[i + 1] = None, seg' = Renamed(i, i + 1),
           records' = records, torn' = torn
    PROVE  /\ seg' \in [Segment -> File \cup {None}] /\ seg'[i] = None
           /\ \A s \in Segment : seg'[s] # None => \E t \in Segment : seg'[s] = seg[t]
           /\ i > 0 => seg'[0] = seg[0]
           /\ FilesOK' /\ HashesGrow' /\ OneChain' /\ EndHash' = EndHash /\ Held' = Held
  <1>0. /\ TypeOK /\ FilesOK /\ HashesGrow /\ OneChain
        /\ 0 \in Segment /\ 1 \in Segment /\ i \in Nat /\ i + 1 \in Segment
        /\ \A s \in Segment : s \in Nat
    BY DEF SinkConstants, Sizes, SinkInv, Segment
  <1>1. HasHead(seg[0]) /\ EndHash = HeadOf(seg[0])
    BY <1>0, FullHas, WhereItEnds DEF Full, Path
  <1>2. /\ \A s \in Segment \ {i, i + 1} : seg'[s] = seg[s]
        /\ seg'[i] = None /\ seg'[i + 1] = seg[i]
    BY <1>0 DEF Renamed
  <1>3. seg' \in [Segment -> File \cup {None}]
    BY <1>0 DEF Renamed, TypeOK
  <1>4. \A s \in Segment : seg'[s] # None => \E t \in Segment : seg'[s] = seg[t]
    BY <1>0, <1>2
  <1>5. i > 0 => seg'[0] = seg[0]
    BY <1>0, <1>2
  <1>6. FilesOK'
    <2>1. \A s, t \in Segment : seg'[s] # None /\ seg'[t] # None /\ s # t => seg'[s].ino # seg'[t].ino
      BY <1>0, <1>2 DEF FilesOK
    <2>2. \A s \in Segment :
             seg'[s] # None => /\ seg'[s].lines <= Len(seg'[s].records) + torn'
                               /\ seg'[s].lines <= records' + torn'
                               /\ s # Path => seg'[s].lines >= MaxLines
      BY <1>0, <1>2 DEF FilesOK, Full, Path
    <2>3. \A s \in Segment : s # Path /\ seg'[s] # None => seg'[1] # None \/ Full'
      <3>1. CASE i = 0
        BY <1>0, <1>2, <3>1
      <3>2. CASE i > 0
        BY <1>5, <3>2 DEF Full, Path
      <3>3. i = 0 \/ i > 0
        BY <1>0
      <3> QED
        BY <3>1, <3>2, <3>3
    <2> QED
      BY <2>1, <2>2, <2>3 DEF FilesOK
  <1>7. /\ \A s \in Segment \ {i, i + 1} : Recs(s)' = Recs(s)
        /\ Recs(i)' = <<>> /\ Recs(i + 1)' = Recs(i) /\ Recs(i + 1) = <<>>
    BY <1>2 DEF Recs, RecordsOf
  <1>8. HashesGrow'
    <2>1. \A s \in Segment : \/ 1 .. Len(Recs(s)') = {}
                             \/ Recs(s)' = Recs(s) /\ s \notin {i, i + 1}
                             \/ Recs(s)' = Recs(i) /\ s = i + 1
      BY <1>0, <1>7
    <2>2. \A s \in Segment : \A k \in 1 .. Len(Recs(s)') :
             (Recs(s)[k])'.prev < (Recs(s)[k])'.hash /\ (Recs(s)[k])'.hash <= records
      BY <1>0, <2>1 DEF HashesGrow
    <2>3. \A s \in Segment : \A k, l \in 1 .. Len(Recs(s)') : k < l => (Recs(s)[k])'.hash < (Recs(s)[l])'.hash
      BY <1>0, <2>1 DEF HashesGrow
    <2>4. ASSUME NEW s \in Segment, NEW t \in Segment, s < t,
                 NEW k \in 1 .. Len(Recs(s)'), NEW l \in 1 .. Len(Recs(t)')
          PROVE  (Recs(t)[l])'.hash < (Recs(s)[k])'.hash
      <3>1. CASE s \notin {i, i + 1} /\ t \notin {i, i + 1}
        BY <1>0, <1>7, <2>4, <3>1 DEF HashesGrow
      <3>2. CASE s = i + 1 /\ t \notin {i, i + 1}
        <4>1. i < t
          BY <1>0, <2>4, <3>2
        <4> QED
          BY <1>0, <1>7, <2>4, <3>2, <4>1 DEF HashesGrow
      <3>3. CASE t = i + 1 /\ s \notin {i, i + 1}
        <4>1. s < i
          BY <1>0, <2>4, <3>3
        <4> QED
          BY <1>0, <1>7, <2>4, <3>3, <4>1 DEF HashesGrow
      <3>4. s # i /\ t # i
        BY <1>7, <2>4
      <3> QED
        BY <1>0, <2>4, <3>1, <3>2, <3>3, <3>4
    <2> QED
      BY <2>2, <2>3, <2>4 DEF HashesGrow
  <1>9. /\ \A s \in Segment \ {i, i + 1} : (HasHead(seg[s])' <=> HasHead(seg[s])) /\ HeadOf(seg[s])' = HeadOf(seg[s])
        /\ ~HasHead(seg[i])' /\ ~HasHead(seg[i + 1])
        /\ (HasHead(seg[i + 1])' <=> HasHead(seg[i])) /\ HeadOf(seg[i + 1])' = HeadOf(seg[i])
    BY <1>2 DEF HasHead, HeadOf, RecordsOf
  <1>10. OneChain'
    <2>1. \A s \in Segment : Linked(RecordsOf(seg[s]))'
      <3>1. Linked(<<>>)
        BY DEF Linked
      <3> QED
        BY <1>0, <1>7, <3>1 DEF OneChain, Recs, Linked
    <2>2. ASSUME NEW s \in Segment, NEW t \in Segment, s < t, HasHead(seg[s])', HasHead(seg[t])',
                 \A u \in Segment : s < u /\ u < t => ~HasHead(seg[u])'
          PROVE  (RecordsOf(seg[s])[1].prev = HeadOf(seg[t]))'
      <3>1. s # i /\ t # i
        BY <1>9, <2>2
      <3>2. CASE s = i + 1
        <4>1. t \notin {i, i + 1} /\ i < t
          BY <1>0, <2>2, <3>1, <3>2
        <4>2. \A u \in Segment : i < u /\ u < t => ~HasHead(seg[u])
          BY <1>0, <1>9, <2>2, <3>2
        <4>3. RecordsOf(seg[i])[1].prev = HeadOf(seg[t])
          BY <1>0, <1>9, <2>2, <3>2, <4>1, <4>2 DEF OneChain
        <4> QED
          BY <1>2, <1>9, <3>2, <4>1, <4>3
      <3>3. CASE t = i + 1
        <4>1. s \notin {i, i + 1} /\ s < i
          BY <1>0, <2>2, <3>1, <3>3
        <4>2. \A u \in Segment : s < u /\ u < i => ~HasHead(seg[u])
          BY <1>0, <1>9, <2>2, <3>3
        <4>3. RecordsOf(seg[s])[1].prev = HeadOf(seg[i])
          BY <1>0, <1>9, <2>2, <3>3, <4>1, <4>2 DEF OneChain
        <4> QED
          BY <1>2, <1>9, <3>3, <4>1, <4>3
      <3>4. CASE s \notin {i, i + 1} /\ t \notin {i, i + 1}
        <4>1. s < i /\ i < t => s < i + 1 /\ i + 1 < t
          BY <1>0, <2>2, <3>4
        <4>2. \A u \in Segment : s < u /\ u < t => ~HasHead(seg[u])
          BY <1>0, <1>9, <2>2, <4>1
        <4>3. RecordsOf(seg[s])[1].prev = HeadOf(seg[t])
          BY <1>0, <1>9, <2>2, <3>4, <4>2 DEF OneChain
        <4> QED
          BY <1>2, <1>9, <3>4, <4>3
      <3> QED
        BY <3>1, <3>2, <3>3, <3>4
    <2> QED
      BY <2>1, <2>2 DEF OneChain
  <1>11. EndHash' = EndHash
    <2>1. \A t \in Segment : ~(t < 0) /\ (t < 1 => t = 0)
      BY <1>0
    <2>2. CASE i > 0
      BY <1>0, <1>1, <1>9, <2>1, <2>2, EndIs
    <2>3. CASE i = 0
      <3>1. HasHead(seg[1])' /\ ~HasHead(seg[0])' /\ HeadOf(seg[1])' = HeadOf(seg[0])
        BY <1>1, <1>9, <2>3
      <3> QED
        BY <1>0, <1>1, <2>1, <3>1, EndIs
    <2> QED
      BY <1>0, <2>2, <2>3
  <1>12. Held' = Held
    <2>1. Held = UNION {Range(Recs(s)) : s \in Segment} /\ Held' = UNION {Range(Recs(s)') : s \in Segment}
      BY DEF Held, Recs
    <2>2. Range(<<>>) = {}
      BY DEF Range
    <2>3. ASSUME NEW r PROVE r \in Held => r \in Held'
      <3> SUFFICES ASSUME r \in Held PROVE r \in Held'
        OBVIOUS
      <3>1. PICK s \in Segment : r \in Range(Recs(s))
        BY <2>1
      <3>2. s = i => r \in Range(Recs(i + 1)')
        BY <1>7, <3>1
      <3>3. s # i + 1
        BY <1>7, <2>2, <3>1
      <3> QED
        BY <1>0, <1>7, <2>1, <3>1, <3>2, <3>3
    <2>4. ASSUME NEW r PROVE r \in Held' => r \in Held
      <3> SUFFICES ASSUME r \in Held' PROVE r \in Held
        OBVIOUS
      <3>1. PICK s \in Segment : r \in Range(Recs(s)')
        BY <2>1
      <3>2. s = i + 1 => r \in Range(Recs(i))
        BY <1>7, <3>1
      <3>3. s # i
        BY <1>7, <2>2, <3>1
      <3> QED
        BY <1>7, <2>1, <3>1, <3>2, <3>3
    <2> QED
      BY <2>3, <2>4
  <1> QED
    BY <1>2, <1>3, <1>4, <1>5, <1>6, <1>8, <1>10, <1>11, <1>12

LEMMA ShiftStep ==
    ASSUME SinkConstants, SinkInv, Environment, NEW p \in Proc, Shift(p)
    PROVE  SinkInv' /\ EndHash' = EndHash /\ Held' = Held
  <1> DEFINE i == next[p]
  <1>0. /\ TypeOK /\ FilesOK /\ HashesGrow /\ OneChain /\ LockOK(p) /\ HolderOK(p)
        /\ 0 \in Segment /\ i \in Segment /\ i \in Nat /\ p # None
    BY DEF SinkConstants, Sizes, NoneAssumption, SinkInv, Segment, TypeOK
  <1>1. /\ records' = records /\ torn' = torn /\ lock' = lock /\ head' = head /\ pc[p] = "shift"
        /\ seg' = IF seg[i] # None THEN Renamed(i, i + 1) ELSE seg
    BY DEF Shift
  <1>2. /\ lock = p /\ Full /\ head[p] = EndHash /\ (seg[0] = None \/ seg[0].cut = "no")
        /\ i < MaxFiles /\ seg[i + 1] = None
    BY <1>0, <1>1 DEF LockOK, HolderOK, Deciding, Path
  <1>3. i > 0 => next' = [next EXCEPT ![p] = i - 1] /\ pc' = pc /\ cached' = cached
    BY DEF Shift
  <1>4. i = 0 => next' = [next EXCEPT ![p] = 0] /\ pc' = [pc EXCEPT ![p] = "assert"] /\ seg[i] # None
                 /\ cached' = cached
    <2> SUFFICES ASSUME i = 0
                 PROVE  /\ next' = [next EXCEPT ![p] = 0] /\ pc' = [pc EXCEPT ![p] = "assert"]
                        /\ seg[i] # None /\ cached' = cached
      OBVIOUS
    <2>1. seg[0] # None
      BY <1>2 DEF Full, Path
    <2>2. ~(i > 0)
      OBVIOUS
    <2>3. /\ next' = [next EXCEPT ![p] = 0] /\ pc' = [pc EXCEPT ![p] = "assert"]
          /\ cached' = [cached EXCEPT ![p] = cached[p]]
      BY <2>1, <2>2 DEF Shift, GoTo, Path
    <2>4. cached' = cached
      BY <1>0, <2>3 DEF TypeOK
    <2> QED
      BY <2>1, <2>3, <2>4
  <1>5. /\ seg' \in [Segment -> File \cup {None}] /\ seg'[i] = None
        /\ \A s \in Segment : seg'[s] # None => \E t \in Segment : seg'[s] = seg[t]
        /\ i > 0 => seg'[0] = seg[0]
        /\ FilesOK' /\ HashesGrow' /\ OneChain' /\ EndHash' = EndHash /\ Held' = Held
    <2>1. CASE seg[i] # None
      BY <1>0, <1>1, <1>2, <2>1, RenameFiles
    <2>2. CASE seg[i] = None
      <3>1. seg' = seg
        BY <1>1, <2>2
      <3>2. FilesOK'
        BY <1>0, <1>1, <3>1 DEF FilesOK, Full
      <3>3. HashesGrow' /\ OneChain' /\ EndHash' = EndHash /\ Held' = Held
        BY <1>0, <1>1, <3>1, SameTrail
      <3> QED
        BY <1>0, <2>2, <3>1, <3>2, <3>3 DEF TypeOK
    <2> QED
      BY <2>1, <2>2
  <1>6. cached' = cached
    BY <1>0, <1>3, <1>4
  <1>7. next' \in [Proc -> Segment] /\ pc' \in [Proc -> PC]
    <2>1. i > 0 => i - 1 \in Segment
      BY <1>0 DEF SinkConstants, Sizes, Segment
    <2> QED
      BY <1>0, <1>3, <1>4, <2>1 DEF TypeOK, PC
  <1>8. TypeOK'
    BY <1>0, <1>1, <1>5, <1>6, <1>7 DEF TypeOK
  <1>9. OthersKeep(p)
    BY <1>0, <1>1, <1>3, <1>4, <1>6 DEF OthersKeep, TypeOK
  <1>10. LockOK(p)'
    BY <1>0, <1>1, <1>2, <1>3, <1>4 DEF LockOK, TypeOK
  <1>11. HolderOK(p)'
    <2>1. CASE i > 0
      <3>1. pc'[p] = "shift" /\ next'[p] = i - 1 /\ i - 1 < MaxFiles /\ seg'[i - 1 + 1] = None
        BY <1>0, <1>1, <1>2, <1>3, <1>5, <2>1 DEF SinkConstants, Sizes, TypeOK
      <3>2. Full'
        BY <1>2, <1>5, <2>1 DEF Full, Path
      <3> QED
        BY <1>1, <1>2, <1>5, <2>1, <3>1, <3>2 DEF HolderOK, Path
    <2>2. CASE i = 0
      <3>1. pc'[p] = "assert" /\ seg'[0] = None
        BY <1>0, <1>4, <1>5, <2>2 DEF TypeOK
      <3> QED
        BY <1>1, <1>2, <1>5, <3>1 DEF HolderOK, Path
    <2> QED
      BY <1>0, <2>1, <2>2
  <1>12. ASSUME NEW q \in Proc PROVE CacheOK(q)'
    BY <1>5, <1>6, CachesStay
  <1>13. SinkInv'
    BY <1>1, <1>2, <1>5, <1>8, <1>9, <1>10, <1>11, <1>12, HolderStepOf
  <1> QED
    BY <1>5, <1>13

-----------------------------------------------------------------------------
(* The append.                                                             *)

(* A new file's inode is no other file's, and no writer remembers it.      *)
LEMMA NewInodeIsNew ==
    ASSUME SinkConstants, TypeOK
    PROVE  /\ NewInode \in Inode
           /\ \A s \in Segment : seg[s] # None => seg[s].ino # NewInode
           /\ \A p \in Proc : cached[p] # None => cached[p].ino # NewInode
  <1> DEFINE used == [s \in Segment |-> IF seg[s] = None THEN None ELSE seg[s].ino]
             known == [p \in Proc |-> IF cached[p] = None THEN None ELSE cached[p].ino]
  <1>1. used \in [Segment -> Inode \cup {None}]
    BY DEF TypeOK, File
  <1>2. known \in [Proc -> Inode \cup {None}]
    BY DEF TypeOK
  <1>3. PICK i \in Inode : (\A s \in Segment : used[s] # i) /\ (\A p \in Proc : known[p] # i)
    BY <1>1, <1>2 DEF SinkConstants, InodesSuffice
  <1>4. /\ \A s \in Segment : seg[s] # None => seg[s].ino # i
        /\ \A p \in Proc : cached[p] # None => cached[p].ino # i
    BY <1>3
  <1> QED
    BY <1>4 DEF NewInode

(* A file with other lines.                                                *)
Rewritten(f, rs, l, c) == [f EXCEPT !.records = rs, !.lines = l, !.cut = c]

LEMMA FileExcept ==
    ASSUME NEW f \in File, NEW rs \in Seq(Record), NEW l \in Nat, NEW c \in Cut
    PROVE  LET g == Rewritten(f, rs, l, c)
           IN  g \in File /\ g.ino = f.ino /\ g.records = rs /\ g.lines = l /\ g.cut = c
  BY DEF File, Rewritten

(* A file with one more line.                                              *)
LEMMA AppendedFile ==
    ASSUME NEW f \in File, f # None, f.cut = "no", NEW new \in Seq(Record), NEW c \in Cut
    PROVE  LET g == Appended(f, new, c)
           IN  /\ g \in File /\ g.ino = f.ino /\ g.cut = c
               /\ g.records = f.records \o new /\ g.lines = f.lines + 1
  <1> DEFINE rs == f.records \o new
             l  == f.lines + 1
  <1>1. Appended(f, new, c) = Rewritten(f, rs, l, c)
    BY DEF Appended, Rewritten
  <1>2. rs \in Seq(Record) /\ l \in Nat
    <2>1. f.records \in Seq(Record) /\ f.lines \in Nat
      BY DEF File
    <2> QED
      BY <2>1
  <1> HIDE DEF rs, l
  <1>3. LET g == Rewritten(f, rs, l, c)
        IN  g \in File /\ g.ino = f.ino /\ g.records = rs /\ g.lines = l /\ g.cut = c
    BY <1>2, FileExcept
  <1> QED
    BY <1>1, <1>3 DEF rs, l

(* One more line is one more record or one more torn line.                 *)
LEMMA OneMoreLine ==
    ASSUME NEW l \in Nat, NEW len \in Nat, NEW k \in {0, 1}, NEW t \in Nat, NEW r \in Nat,
           NEW tt \in Nat, NEW rr \in Nat, tt >= t, rr >= r,
           rr + tt = r + t + 1 \/ rr + tt = r + t + 2, k + tt >= 1 + t
    PROVE  /\ 1 <= k + tt /\ 1 <= rr + tt
           /\ l <= len + t /\ l <= r + t => l + 1 <= len + k + tt /\ l + 1 <= rr + tt
  OBVIOUS

(* What a whole or a torn line does to <path> when no open line is there,  *)
(* in terms of the records it adds.                                        *)
LEMMA AppendFile ==
    ASSUME SinkConstants, SinkInv, NEW c \in Cut, NEW new \in Seq(Record), Len(new) \in {0, 1},
           seg[0] = None \/ seg[0].cut = "no",
           seg' = [seg EXCEPT ![Path] = Appended(@, new, c)],
           records' \in Nat, torn' \in Nat, records' >= records, torn' >= torn,
           records' + torn' = records + torn + 1 \/ records' + torn' = records + torn + 2,
           Len(new) + torn' >= 1 + torn
    PROVE  /\ seg' \in [Segment -> File \cup {None}] /\ seg'[0] # None
           /\ seg'[0].cut = c /\ Recs(0)' = Recs(0) \o new
           /\ \A s \in Segment \ {0} : seg'[s] = seg[s]
           /\ FilesOK'
           /\ \A q \in Proc : cached'[q] \in {cached[q], None} => CacheOK(q)'
  <1>0. /\ TypeOK /\ FilesOK /\ 0 \in Segment /\ \A q \in Proc : CacheOK(q)
        /\ records \in Nat /\ torn \in Nat
    <2>1. 0 \in Segment
      BY DEF SinkConstants, Sizes, Segment
    <2>2. TypeOK /\ FilesOK /\ \A q \in Proc : CacheOK(q)
      BY DEF SinkInv
    <2>3. records \in Nat /\ torn \in Nat
      BY <2>2 DEF TypeOK
    <2> QED
      BY <2>1, <2>2, <2>3
  <1>1. /\ \A s \in Segment \ {0} : seg'[s] = seg[s]
        /\ seg'[0] = Appended(seg[0], new, c)
    BY <1>0 DEF TypeOK, Path
  <1>2. CASE seg[0] = None
    <2>1. seg'[0] = [ino |-> NewInode, records |-> new, lines |-> 1, cut |-> c]
      BY <1>1, <1>2 DEF Appended
    <2>2. seg'[0] \in File
      BY <1>0, <2>1, NewInodeIsNew DEF File
    <2>3. seg'[0] # None /\ seg'[0].cut = c /\ seg'[0].lines = 1 /\ seg'[0].ino = NewInode /\ seg'[0].records = new
      BY <2>1, <2>2 DEF SinkConstants, NoneAssumption
    <2>4. Recs(0) = <<>> /\ Recs(0)' = new /\ <<>> \o new = new
      BY <1>2, <2>3 DEF Recs, RecordsOf
    <2>5. seg' \in [Segment -> File \cup {None}]
      BY <1>0, <1>1, <2>2 DEF TypeOK, Path
    <2>6. FilesOK'
      <3>1. \A s, t \in Segment : seg'[s] # None /\ seg'[t] # None /\ s # t => seg'[s].ino # seg'[t].ino
        BY <1>0, <1>1, <2>3, NewInodeIsNew DEF FilesOK
      <3>2. \A s \in Segment : seg'[s] # None => /\ seg'[s].lines <= Len(seg'[s].records) + torn'
                                                 /\ seg'[s].lines <= records' + torn'
                                                 /\ s # Path => seg'[s].lines >= MaxLines
        <4>1. ASSUME NEW s \in Segment \ {0}, seg[s] # None
              PROVE  /\ seg[s].lines <= Len(seg[s].records) + torn'
                     /\ seg[s].lines <= records' + torn'
                     /\ seg[s].lines >= MaxLines
          <5>1. seg[s].lines \in Nat /\ Len(seg[s].records) \in Nat
            BY <1>0, <4>1, FileTypes
          <5> QED
            BY <1>0, <4>1, <5>1, SMTT(30) DEF FilesOK, Path
        <4>2. 1 <= Len(new) + torn' /\ 1 <= records' + torn'
          BY <1>0, OneMoreLine
        <4> QED
          BY <1>0, <1>1, <2>3, <4>1, <4>2 DEF Path
      <3>3. \A s \in Segment : s # Path /\ seg'[s] # None => seg'[1] # None \/ Full'
        BY <1>0, <1>1, <1>2 DEF SinkConstants, Sizes, FilesOK, Full, Path, Segment
      <3> QED
        BY <3>1, <3>2, <3>3 DEF FilesOK
    <2>7. ASSUME NEW q \in Proc, cached'[q] \in {cached[q], None} PROVE CacheOK(q)'
      <3> SUFFICES ASSUME cached'[q] = cached[q], cached[q] # None PROVE CacheOK(q)'
        BY <2>7 DEF CacheOK
      <3>1. cached[q].ino # NewInode
        BY <1>0, NewInodeIsNew
      <3>2. \A s \in Segment \ {0} : HasHead(seg[s])' = HasHead(seg[s]) /\ HeadOf(seg[s])' = HeadOf(seg[s])
        BY <1>1 DEF HasHead, HeadOf
      <3> QED
        BY <1>0, <1>1, <2>3, <3>1, <3>2 DEF CacheOK
    <2> QED
      BY <1>1, <2>3, <2>4, <2>5, <2>6, <2>7
  <1>3. CASE seg[0] # None
    <2>0. seg[0] \in File /\ seg[0].lines \in Nat /\ seg[0].records \in Seq(Record) /\ Len(seg[0].records) \in Nat
      BY <1>0, <1>3 DEF TypeOK, File
    <2>3. /\ seg'[0] \in File /\ seg'[0] # None
          /\ seg'[0].cut = c /\ seg'[0].lines = seg[0].lines + 1 /\ seg'[0].ino = seg[0].ino
          /\ seg'[0].records = seg[0].records \o new
      <3>1. seg[0].cut = "no"
        BY <1>3
      <3>2. LET g == Appended(seg[0], new, c)
            IN  /\ g \in File /\ g.ino = seg[0].ino /\ g.cut = c
                /\ g.records = seg[0].records \o new /\ g.lines = seg[0].lines + 1
        BY <1>3, <2>0, <3>1, AppendedFile
      <3> QED
        BY <1>1, <3>2 DEF SinkConstants, NoneAssumption
    <2>4. Recs(0)' = Recs(0) \o new
      BY <1>3, <2>3 DEF Recs, RecordsOf
    <2>5. seg' \in [Segment -> File \cup {None}]
      BY <1>0, <1>1, <2>3 DEF TypeOK, Path
    <2>6. FilesOK'
      <3>1. \A s, t \in Segment : seg'[s] # None /\ seg'[t] # None /\ s # t => seg'[s].ino # seg'[t].ino
        BY <1>0, <1>1, <1>3, <2>3 DEF FilesOK
      <3>2. \A s \in Segment : seg'[s] # None => /\ seg'[s].lines <= Len(seg'[s].records) + torn'
                                                 /\ seg'[s].lines <= records' + torn'
                                                 /\ s # Path => seg'[s].lines >= MaxLines
        <4>1. ASSUME NEW s \in Segment \ {0}, seg[s] # None
              PROVE  /\ seg[s].lines <= Len(seg[s].records) + torn'
                     /\ seg[s].lines <= records' + torn'
                     /\ seg[s].lines >= MaxLines
          <5>1. seg[s].lines \in Nat /\ Len(seg[s].records) \in Nat
            BY <1>0, <4>1, FileTypes
          <5> QED
            BY <1>0, <4>1, <5>1, SMTT(30) DEF FilesOK, Path
        <4>2. Len(seg'[0].records) = Len(seg[0].records) + Len(new)
          <5>1. Len(seg[0].records \o new) = Len(seg[0].records) + Len(new)
            BY <2>0
          <5> QED
            BY <2>3, <5>1
        <4>3. seg'[0].lines <= Len(seg'[0].records) + torn' /\ seg'[0].lines <= records' + torn'
          <5>1. seg[0].lines <= Len(seg[0].records) + torn /\ seg[0].lines <= records + torn
            BY <1>0, <1>3 DEF FilesOK
          <5>2. /\ seg[0].lines + 1 <= Len(seg[0].records) + Len(new) + torn'
                /\ seg[0].lines + 1 <= records' + torn'
            BY <1>0, <2>0, <5>1, OneMoreLine
          <5> QED
            BY <2>3, <4>2, <5>2
        <4> QED
          BY <1>0, <1>1, <2>3, <4>1, <4>3 DEF Path
      <3>3. \A s \in Segment : s # Path /\ seg'[s] # None => seg'[1] # None \/ Full'
        <4>1. Full => Full'
          BY <2>0, <2>3 DEF SinkConstants, Sizes, Full, Path
        <4> QED
          BY <1>0, <1>1, <4>1 DEF SinkConstants, Sizes, FilesOK, Path, Segment
      <3> QED
        BY <3>1, <3>2, <3>3 DEF FilesOK
    <2>7. ASSUME NEW q \in Proc, cached'[q] \in {cached[q], None} PROVE CacheOK(q)'
      <3> SUFFICES ASSUME cached'[q] = cached[q], cached[q] # None PROVE CacheOK(q)'
        BY <2>7 DEF CacheOK
      <3>1. seg[0].ino = cached[q].ino => cached[q].size[1] <= seg[0].lines
        BY <1>0, <1>3 DEF CacheOK
      <3>2. cached[q].size[1] \in Nat
        BY <1>0 DEF TypeOK
      <3>3. seg'[0].ino = cached[q].ino => cached[q].size[1] <= seg'[0].lines /\ cached[q].size[1] # seg'[0].lines
        BY <2>0, <2>3, <3>1, <3>2
      <3>4. \A s \in Segment \ {0} : HasHead(seg[s])' = HasHead(seg[s]) /\ HeadOf(seg[s])' = HeadOf(seg[s])
        BY <1>1 DEF HasHead, HeadOf
      <3> QED
        BY <1>0, <1>1, <3>3, <3>4 DEF CacheOK
    <2> QED
      BY <1>1, <2>3, <2>4, <2>5, <2>6, <2>7
  <1> QED
    BY <1>2, <1>3

(* A record appended by the holder of the lock extends the chain.          *)
LEMMA ChainExtended ==
    ASSUME SinkConstants, SinkInv, Environment, NEW p \in Proc, head[p] = EndHash,
           records < MaxRecords, records' = records + 1,
           Recs(0)' = Recs(0) \o <<NewRecord(p)>>, \A s \in Segment \ {0} : seg'[s] = seg[s]
    PROVE  /\ HashesGrow' /\ OneChain' /\ HasHead(seg[0])' /\ EndHash' = records + 1
           /\ Trail!Extend
  <1> DEFINE r == NewRecord(p)
             n == Len(Recs(0))
             N(s) == Recs(s)'
  <1>0. /\ TypeOK /\ FilesOK /\ HashesGrow /\ OneChain /\ 0 \in Segment
        /\ records \in Nat /\ records + 1 \in Hash /\ Recs(0) \in Seq(Record) /\ n \in Nat
        /\ \A s \in Segment : s \in Nat
    BY FileTypes, SMTT(30) DEF SinkConstants, Sizes, SinkInv, Segment, TypeOK, Hash
  <1>1. \A s \in Segment : \A i \in 1 .. Len(Recs(s)) : Recs(s)[i].hash <= records /\ Recs(s)[i].hash \in Nat
    BY <1>0, FileTypes, SMTT(30) DEF HashesGrow, Hash
  <1>2. EndHash \in Hash \cup {Genesis} /\ EndHash <= records
    <2>1. ASSUME NEW s \in Segment, HasHead(seg[s]), EndHash = HeadOf(seg[s])
          PROVE  EndHash \in Hash /\ EndHash <= records
      BY <1>0, <1>1, <2>1, FileTypes
    <2> QED
      BY <1>0, <2>1, WhereItEnds DEF Genesis
  <1>3. r \in Record /\ r.hash = records + 1 /\ r.prev = EndHash /\ r = [hash |-> records + 1, prev |-> EndHash]
    BY <1>0, <1>2 DEF NewRecord, Record
  <1> HIDE DEF r
  <1>4. /\ Len(N(0)) = n + 1
        /\ \A i \in 1 .. n : N(0)[i] = Recs(0)[i]
        /\ N(0)[n + 1] = r
    <2>1. Recs(0)' = Recs(0) \o <<r>>
      BY DEF r
    <2>2. <<r>> \in Seq(Record) /\ Len(<<r>>) = 1 /\ <<r>>[1] = r
      BY <1>3
    <2>3. Len(Recs(0) \o <<r>>) = n + 1 /\ (Recs(0) \o <<r>>)[n + 1] = r
      BY <1>0, <2>2
    <2>4. \A i \in 1 .. n : (Recs(0) \o <<r>>)[i] = Recs(0)[i]
      BY <1>0, <2>2
    <2> QED
      BY <2>1, <2>3, <2>4
  <1>5. \A s \in Segment \ {0} : Recs(s)' = Recs(s)
    BY DEF Recs, RecordsOf
  <1>6. HashesGrow'
    <2>1. \A s \in Segment : \A i \in 1 .. Len(N(s)) :
             \/ i \in 1 .. Len(Recs(s)) /\ N(s)[i] = Recs(s)[i]
             \/ s = 0 /\ i = n + 1 /\ N(s)[i] = r
      BY <1>0, <1>4, <1>5
    <2>2. \A s \in Segment : \A i \in 1 .. Len(N(s)) :
             N(s)[i].prev < N(s)[i].hash /\ N(s)[i].hash <= records + 1
      BY <1>0, <1>1, <1>2, <1>3, <2>1, SMTT(30) DEF HashesGrow, Hash, Genesis
    <2>3. \A s \in Segment : \A i, j \in 1 .. Len(N(s)) : i < j => N(s)[i].hash < N(s)[j].hash
      <3>1. ASSUME NEW s \in Segment, NEW i \in 1 .. Len(N(s)), NEW j \in 1 .. Len(N(s)), i < j
            PROVE  N(s)[i].hash < N(s)[j].hash
        <4>1. CASE s # 0
          BY <1>0, <1>5, <3>1, <4>1 DEF HashesGrow
        <4>2. CASE s = 0 /\ j \in 1 .. n
          <5>1. i \in 1 .. n
            BY <1>0, <1>4, <3>1, <4>2
          <5> QED
            BY <1>0, <1>4, <3>1, <4>2, <5>1 DEF HashesGrow
        <4>3. CASE s = 0 /\ j = n + 1
          <5>1. i \in 1 .. n
            BY <1>0, <1>4, <3>1, <4>3
          <5>2. Recs(0)[i].hash <= records /\ Recs(0)[i].hash \in Nat
            BY <1>0, <1>1, <5>1
          <5> QED
            BY <1>0, <1>3, <1>4, <4>3, <5>1, <5>2
        <4> QED
          BY <1>0, <1>4, <3>1, <4>1, <4>2, <4>3
      <3> QED
        BY <3>1
    <2>4. ASSUME NEW s \in Segment, NEW t \in Segment, s < t,
                 NEW i \in 1 .. Len(N(s)), NEW j \in 1 .. Len(N(t))
          PROVE  N(t)[j].hash < N(s)[i].hash
      <3>1. t # 0
        BY <1>0, <2>4
      <3>2. j \in 1 .. Len(Recs(t)) /\ N(t)[j] = Recs(t)[j]
        BY <1>5, <3>1
      <3>3. CASE i \in 1 .. Len(Recs(s)) /\ N(s)[i] = Recs(s)[i]
        BY <1>0, <2>4, <3>2, <3>3 DEF HashesGrow
      <3>4. CASE N(s)[i] = r
        <4>1. Recs(t)[j].hash <= records /\ Recs(t)[j].hash \in Nat
          BY <1>1, <3>2
        <4>2. N(s)[i].hash = records + 1 /\ N(t)[j].hash = Recs(t)[j].hash
          BY <1>3, <3>2, <3>4
        <4> QED
          BY <1>0, <4>1, <4>2
      <3> QED
        BY <2>1, <3>3, <3>4
    <2> QED
      BY <2>2, <2>3, <2>4 DEF HashesGrow
  <1>7. /\ \A s \in Segment \ {0} : (HasHead(seg[s])' <=> HasHead(seg[s])) /\ HeadOf(seg[s])' = HeadOf(seg[s])
        /\ HasHead(seg[0])' /\ HeadOf(seg[0])' = records + 1
    <2>1. \A s \in Segment \ {0} : (HasHead(seg[s])' <=> HasHead(seg[s])) /\ HeadOf(seg[s])' = HeadOf(seg[s])
      BY DEF HasHead, HeadOf
    <2>2. HasHead(seg[0])'
      <3>1. Recs(0)' # <<>>
        BY <1>0, <1>4
      <3> QED
        BY <3>1 DEF HasHead, Recs
    <2>3. HeadOf(seg[0])' = N(0)[n + 1].hash
      BY <1>4 DEF HeadOf, Last, Recs
    <2> QED
      BY <1>3, <1>4, <2>1, <2>2, <2>3
  <1>8. EndHash' = records + 1
    BY <1>0, <1>7, EndIs
  <1>9. OneChain'
    <2>1. Linked(N(0))
      <3>1. \A i \in 2 .. n : Recs(0)[i].prev = Recs(0)[i - 1].hash
        BY <1>0 DEF OneChain, Linked, Recs
      <3>2. n > 0 => EndHash = Recs(0)[n].hash
        BY <1>0, WhereItEnds, FileTypes
      <3>3. ASSUME NEW i \in 2 .. n + 1 PROVE N(0)[i].prev = N(0)[i - 1].hash
        <4>1. CASE i \in 2 .. n
          <5>1. i \in 1 .. n /\ i - 1 \in 1 .. n
            BY <1>0, <4>1
          <5> QED
            BY <1>4, <3>1, <4>1, <5>1
        <4>2. CASE i = n + 1
          <5>1. n > 0 /\ n \in 1 .. n /\ i - 1 = n
            BY <1>0, <3>3, <4>2
          <5> QED
            BY <1>3, <1>4, <3>2, <4>2, <5>1
        <4> QED
          BY <1>0, <3>3, <4>1, <4>2
      <3> QED
        BY <1>4, <3>3 DEF Linked
    <2>2. \A s \in Segment : Linked(N(s))
      BY <1>0, <1>5, <2>1 DEF OneChain, Recs
    <2>3. ASSUME NEW s \in Segment, NEW t \in Segment, s < t, HasHead(seg[s])', HasHead(seg[t])',
                 \A u \in Segment : s < u /\ u < t => ~HasHead(seg[u])'
          PROVE  (RecordsOf(seg[s])[1].prev = HeadOf(seg[t]))'
      <3>1. t # 0
        BY <1>0, <2>3
      <3>2. \A u \in Segment : s < u /\ u < t => u # 0 /\ ~HasHead(seg[u])
        BY <1>0, <1>7, <2>3
      <3>3. CASE s # 0 \/ HasHead(seg[0])
        <4>1. HasHead(seg[s]) /\ HasHead(seg[t])
          BY <1>7, <2>3, <3>1, <3>3
        <4>2. Recs(s)[1].prev = HeadOf(seg[t])
          BY <1>0, <2>3, <3>2, <4>1 DEF OneChain, Recs
        <4>3. N(s)[1] = Recs(s)[1]
          <5>1. s = 0 => 1 \in 1 .. n
            BY <1>0, <3>3, FileTypes
          <5> QED
            BY <1>4, <1>5, <5>1
        <4> QED
          BY <1>7, <3>1, <4>2, <4>3 DEF Recs
      <3>4. CASE s = 0 /\ ~HasHead(seg[0])
        <4>1. HasHead(seg[t]) /\ \A u \in Segment : u < t => ~HasHead(seg[u])
          BY <1>0, <1>7, <2>3, <3>1, <3>2, <3>4
        <4>2. EndHash = HeadOf(seg[t])
          BY <4>1, EndIs
        <4>3. n = 0 /\ N(0)[1] = r
          BY <1>0, <1>4, <3>4, FileTypes
        <4> QED
          BY <1>3, <1>7, <3>1, <3>4, <4>2, <4>3 DEF Recs
      <3> QED
        BY <3>3, <3>4
    <2> QED
      BY <2>2, <2>3 DEF OneChain, Recs
  <1>10. Trail!Extend
    <2>1. \A s \in Segment : Range(Recs(s)) = {Recs(s)[i] : i \in 1 .. Len(Recs(s))}
      BY <1>0, FileTypes DEF Range
    <2>2. Range(N(0)) = Range(Recs(0)) \cup {r}
      <3>1. Recs(0)' \in Seq(Record)
        <4>1. Recs(0)' = Recs(0) \o <<r>>
          BY DEF r
        <4>2. Recs(0) \in Seq(Record) /\ <<r>> \in Seq(Record)
          BY <1>0, <1>3
        <4>3. Recs(0) \o <<r>> \in Seq(Record)
          BY <4>2
        <4> QED
          BY <4>1, <4>3
      <3>2. Range(N(0)) = {N(0)[i] : i \in 1 .. n + 1}
        BY <1>4, <3>1 DEF Range
      <3>3. 1 .. n + 1 = (1 .. n) \cup {n + 1}
        BY <1>0
      <3>4. {N(0)[i] : i \in 1 .. n + 1} = {N(0)[i] : i \in 1 .. n} \cup {N(0)[n + 1]}
        BY <3>3
      <3>5. {N(0)[i] : i \in 1 .. n} = {Recs(0)[i] : i \in 1 .. n}
        BY <1>4
      <3> QED
        BY <1>0, <1>4, <2>1, <3>2, <3>4, <3>5
    <2>3. Held = UNION {Range(Recs(s)) : s \in Segment} /\ Held' = UNION {Range(N(s)) : s \in Segment}
      BY DEF Held, Recs
    <2>4. Held' = Held \cup {r}
      <3>1. \A s \in Segment \ {0} : Range(N(s)) = Range(Recs(s))
        BY <1>5
      <3> QED
        BY <1>0, <2>2, <2>3, <3>1
    <2>5. \A k \in Held : k.hash # records + 1
      <3>1. ASSUME NEW k \in Held PROVE k.hash # records + 1
        <4>1. PICK s \in Segment : k \in Range(Recs(s))
          BY <2>3
        <4>2. PICK i \in 1 .. Len(Recs(s)) : k = Recs(s)[i]
          BY <2>1, <4>1
        <4> QED
          BY <1>0, <1>1, <4>2
      <3> QED
        BY <3>1
    <2>6. records + 1 \in Hash \ {k.hash : k \in Held}
      BY <1>0, <2>5
    <2> QED
      BY <1>3, <1>8, <2>4, <2>6 DEF Trail!Extend
  <1> QED
    BY <1>6, <1>7, <1>8, <1>9, <1>10

(* A record is appended by the holder of the lock.                         *)
LEMMA AppendRecordStep ==
    ASSUME SinkConstants, SinkInv, Environment, NEW p \in Proc, AppendRecord(p)
    PROVE  SinkInv' /\ Trail!Extend
  <1> DEFINE new == <<NewRecord(p)>>
  <1>0. /\ TypeOK /\ LockOK(p) /\ HolderOK(p) /\ 0 \in Segment
        /\ records \in Nat /\ torn \in Nat
    BY DEF SinkConstants, Sizes, SinkInv, Segment, TypeOK
  <1>1. /\ pc[p] = "append" /\ records < MaxRecords /\ records' = records + 1 /\ torn' = torn
        /\ lock' = lock /\ next' = next /\ cached' = cached
        /\ head' = [head EXCEPT ![p] = records + 1] /\ pc' = [pc EXCEPT ![p] = "stat"]
        /\ seg' = [seg EXCEPT ![Path] = Appended(@, new, "no")]
    BY DEF AppendRecord, GoTo
  <1>2. lock = p /\ head[p] = EndHash /\ (seg[0] = None \/ seg[0].cut = "no")
    BY <1>0, <1>1 DEF LockOK, HolderOK, Deciding, Path
  <1>3. new \in Seq(Record) /\ Len(new) = 1 /\ records + 1 \in Hash
    <2>1. records + 1 \in Hash /\ head[p] \in Hash \cup {Genesis}
      BY <1>0, <1>1 DEF SinkConstants, Sizes, Hash, TypeOK
    <2>2. NewRecord(p) \in Record
      BY <2>1 DEF NewRecord, Record
    <2> QED
      BY <2>1, <2>2
  <1> HIDE DEF new
  <1>4. /\ seg' \in [Segment -> File \cup {None}] /\ seg'[0] # None
        /\ seg'[0].cut = "no" /\ Recs(0)' = Recs(0) \o new
        /\ \A s \in Segment \ {0} : seg'[s] = seg[s]
        /\ FilesOK'
        /\ \A q \in Proc : cached'[q] \in {cached[q], None} => CacheOK(q)'
    <2>1. /\ "no" \in Cut /\ Len(new) \in {0, 1}
          /\ records' \in Nat /\ torn' \in Nat /\ records' >= records /\ torn' >= torn
          /\ records' + torn' = records + torn + 1 /\ Len(new) + torn' >= 1 + torn
      BY <1>0, <1>1, <1>3 DEF Cut
    <2> QED
      BY <1>1, <1>2, <1>3, <2>1, AppendFile
  <1>5. HashesGrow' /\ OneChain' /\ HasHead(seg[0])' /\ EndHash' = records + 1 /\ Trail!Extend
    BY <1>1, <1>2, <1>4, ChainExtended DEF new
  <1>6. TypeOK'
    BY <1>0, <1>1, <1>3, <1>4 DEF SinkConstants, Sizes, TypeOK, PC
  <1>7. OthersKeep(p)
    BY <1>0, <1>1 DEF OthersKeep, TypeOK
  <1>8. LockOK(p)'
    BY <1>0, <1>1, <1>2 DEF LockOK, TypeOK
  <1>9. HolderOK(p)'
    <2>1. pc'[p] = "stat" /\ head'[p] = records + 1
      BY <1>0, <1>1 DEF TypeOK
    <2> QED
      BY <1>4, <1>5, <2>1 DEF HolderOK, Path
  <1>10. \A q \in Proc : CacheOK(q)'
    BY <1>1, <1>4
  <1>11. SinkInv'
    BY <1>1, <1>2, <1>4, <1>5, <1>6, <1>7, <1>8, <1>9, <1>10, HolderStepOf
  <1> QED
    BY <1>5, <1>11

(* An append cut short leaves the chain, or extends it.                    *)
LEMMA AppendTornStep ==
    ASSUME SinkConstants, SinkInv, Environment, NEW p \in Proc, AppendTorn(p)
    PROVE  SinkInv' /\ ((EndHash' = EndHash /\ Held' = Held) \/ Trail!Extend)
  <1> DEFINE new == <<NewRecord(p)>>
  <1>0. /\ TypeOK /\ FilesOK /\ HashesGrow /\ OneChain /\ LockOK(p) /\ HolderOK(p) /\ 0 \in Segment
        /\ records \in Nat /\ torn \in Nat
    BY DEF SinkConstants, Sizes, SinkInv, Segment, TypeOK
  <1>1. /\ pc[p] = "append" /\ torn < MaxTorn /\ torn' = torn + 1
        /\ lock' = lock /\ next' = next /\ head' = head
        /\ cached' = [cached EXCEPT ![p] = None] /\ pc' = [pc EXCEPT ![p] = "release"]
    BY DEF AppendTorn, GoTo
  <1>2. lock = p /\ head[p] = EndHash /\ (seg[0] = None \/ seg[0].cut = "no")
    BY <1>0, <1>1 DEF LockOK, HolderOK, Deciding, Path
  <1>3. OthersKeep(p) /\ LockOK(p)' /\ HolderOK(p)'
    <2>1. pc'[p] = "release" /\ lock' = p
      BY <1>0, <1>1, <1>2 DEF TypeOK
    <2>2. OthersKeep(p)
      BY <1>0, <1>1 DEF OthersKeep, TypeOK
    <2>3. LockOK(p)' /\ HolderOK(p)'
      BY <2>1 DEF LockOK, HolderOK, Deciding
    <2> QED
      BY <2>2, <2>3
  <1>4. \A q \in Proc : cached'[q] \in {cached[q], None}
    BY <1>0, <1>1 DEF TypeOK
  <1>5. TypeOK' <=> seg' \in [Segment -> File \cup {None}] /\ records' \in 0 .. MaxRecords
    BY <1>0, <1>1 DEF SinkConstants, Sizes, TypeOK, PC
  <1>6. CASE seg' = [seg EXCEPT ![Path] = Appended(@, <<>>, "torn")] /\ records' = records
    <2> DEFINE nothing == <<>>
    <2>1. nothing \in Seq(Record) /\ Len(nothing) = 0
      OBVIOUS
    <2>2. seg' = [seg EXCEPT ![Path] = Appended(@, nothing, "torn")]
      BY <1>6
    <2> HIDE DEF nothing
    <2>3. /\ "torn" \in Cut /\ Len(nothing) \in {0, 1}
          /\ records' \in Nat /\ torn' \in Nat /\ records' >= records /\ torn' >= torn
          /\ records' + torn' = records + torn + 1 /\ Len(nothing) + torn' >= 1 + torn
      BY <1>0, <1>1, <1>6, <2>1 DEF Cut
    <2>4. /\ seg' \in [Segment -> File \cup {None}]
          /\ Recs(0)' = Recs(0) \o nothing
          /\ \A s \in Segment \ {0} : seg'[s] = seg[s]
          /\ FilesOK'
          /\ \A q \in Proc : cached'[q] \in {cached[q], None} => CacheOK(q)'
      BY <1>2, <2>1, <2>2, <2>3, AppendFile
    <2>5. Recs(0)' = Recs(0)
      <3>1. Recs(0) \in Seq(Record) /\ Recs(0) \o <<>> = Recs(0)
        BY <1>0, FileTypes
      <3> QED
        BY <2>4, <3>1 DEF nothing
    <2>6. \A s \in Segment : RecordsOf(seg'[s]) = RecordsOf(seg[s])
      BY <2>4, <2>5 DEF Recs
    <2>7. HashesGrow' /\ OneChain' /\ EndHash' = EndHash /\ Held' = Held
      BY <1>0, <1>6, <2>6, SameTrail
    <2>8. TypeOK'
      BY <1>0, <1>5, <1>6, <2>4 DEF TypeOK
    <2> QED
      BY <1>1, <1>2, <1>3, <1>4, <2>4, <2>7, <2>8, HolderStepOf
  <1>7. CASE /\ records < MaxRecords /\ records' = records + 1
             /\ seg' = [seg EXCEPT ![Path] = Appended(@, new, "whole")]
    <2>1. new \in Seq(Record) /\ Len(new) = 1
      <3>1. records + 1 \in Hash /\ head[p] \in Hash \cup {Genesis}
        BY <1>0, <1>7 DEF SinkConstants, Sizes, Hash, TypeOK
      <3>2. NewRecord(p) \in Record
        BY <3>1 DEF NewRecord, Record
      <3> QED
        BY <3>2
    <2> HIDE DEF new
    <2>2. /\ "whole" \in Cut /\ Len(new) \in {0, 1}
          /\ records' \in Nat /\ torn' \in Nat /\ records' >= records /\ torn' >= torn
          /\ records' + torn' = records + torn + 2 /\ Len(new) + torn' >= 1 + torn
      BY <1>0, <1>1, <1>7, <2>1 DEF Cut
    <2>3. /\ seg' \in [Segment -> File \cup {None}]
          /\ Recs(0)' = Recs(0) \o new
          /\ \A s \in Segment \ {0} : seg'[s] = seg[s]
          /\ FilesOK'
          /\ \A q \in Proc : cached'[q] \in {cached[q], None} => CacheOK(q)'
      BY <1>2, <1>7, <2>1, <2>2, AppendFile
    <2>4. HashesGrow' /\ OneChain' /\ Trail!Extend
      BY <1>2, <1>7, <2>3, ChainExtended DEF new
    <2>5. TypeOK'
      BY <1>0, <1>5, <1>7, <2>3 DEF SinkConstants, Sizes
    <2> QED
      BY <1>1, <1>2, <1>3, <1>4, <2>3, <2>4, <2>5, HolderStepOf
  <1> QED
    BY <1>6, <1>7 DEF AppendTorn

(* The reader only looks.                                                  *)
LEMMA ReaderStep ==
    ASSUME SinkConstants, SinkInv, Environment, UNCHANGED <<fileVars, lock, pc, head, next, cached>>
    PROVE  SinkInv' /\ EndHash' = EndHash /\ Held' = Held
  <1>1. /\ seg' = seg /\ records' = records /\ torn' = torn /\ lock' = lock
        /\ pc' = pc /\ head' = head /\ next' = next /\ cached' = cached
    BY DEF fileVars
  <1>2. TypeOK' /\ Tidied
    BY <1>1 DEF SinkInv, TypeOK, Tidied
  <1>3. \A q \in Proc : LockOK(q)'
    BY <1>1 DEF SinkInv, LockOK
  <1>4. /\ FilesOK' /\ HashesGrow' /\ OneChain' /\ EndHash' = EndHash /\ Held' = Held
        /\ \A q \in Proc : HolderOK(q)' /\ CacheOK(q)'
    BY <1>1, <1>2, TidyStep
  <1> QED
    BY <1>2, <1>3, <1>4 DEF SinkInv

-----------------------------------------------------------------------------
(* The invariant, and what it is for.                                      *)

LEMMA SinkInit ==
    ASSUME SinkConstants, Init
    PROVE  SinkInv /\ Trail!Init
  <1>1. TypeOK
    BY DEF SinkConstants, Sizes, Init, TypeOK, PC, Segment
  <1>2. \A s \in Segment : seg[s] = None /\ Recs(s) = <<>> /\ ~HasHead(seg[s])
    BY DEF Init, Recs, HasHead, RecordsOf
  <1>3. FilesOK /\ HashesGrow
    BY <1>2 DEF FilesOK, HashesGrow
  <1>4. OneChain
    BY <1>2 DEF OneChain, Linked, Recs
  <1>5. \A p \in Proc : LockOK(p) /\ HolderOK(p) /\ CacheOK(p)
    BY DEF SinkConstants, NoneAssumption, Init, LockOK, HolderOK, CacheOK
  <1>6. Trail!Init
    <2>1. Held = {}
      BY <1>2 DEF Held, Recs, Range
    <2>2. EndHash = Genesis
      BY <1>2 DEF EndHash
    <2> QED
      BY <2>1, <2>2 DEF Trail!Init
  <1> QED
    BY <1>1, <1>3, <1>4, <1>5, <1>6 DEF SinkInv

(* Every step keeps the invariant and is a step of the trail, or none.     *)
LEMMA SinkStep ==
    ASSUME SinkConstants, SinkInv, Environment, [Next]_vars
    PROVE  /\ SinkInv'
           /\ Trail!Extend \/ Trail!Prune \/ (Held' = Held /\ EndHash' = EndHash)
  <1>1. CASE UNCHANGED vars
    BY <1>1, ReaderStep DEF vars, fileVars
  <1>2. ASSUME NEW r \in Reader, VerifyStarts(r) \/ VerifyLists(r) \/ VerifyReads(r) \/ VerifyEnds(r)
        PROVE  UNCHANGED <<fileVars, lock, pc, head, next, cached>>
    BY <1>2 DEF VerifyStarts, VerifyLists, VerifyReads, VerifyEnds
  <1>3. ASSUME NEW p \in Proc
        PROVE  /\ AcquireTimesOut(p) \/ Acquire(p) => SinkInv' /\ EndHash' = EndHash /\ Held' = Held
               /\ CurrentHead(p) \/ HeadOfRotated(p) => SinkInv' /\ EndHash' = EndHash /\ Held' = Held
               /\ RotateIfNeeded(p) \/ AssertHeld(p) \/ Cache(p) \/ Fails(p)
                  => SinkInv' /\ EndHash' = EndHash /\ Held' = Held
               /\ Release(p) \/ Crash(p) \/ LockBroken(p) => SinkInv' /\ EndHash' = EndHash /\ Held' = Held
    BY AcquireStep, HeadStep, LookStep, EndStep
  <1>4. ASSUME NEW p \in Proc
        PROVE  /\ UnlinkOldest(p) => SinkInv' /\ Trail!Prune
               /\ Shift(p) => SinkInv' /\ EndHash' = EndHash /\ Held' = Held
               /\ AppendRecord(p) => SinkInv' /\ Trail!Extend
               /\ AppendTorn(p) => SinkInv' /\ ((EndHash' = EndHash /\ Held' = Held) \/ Trail!Extend)
    BY UnlinkStep, ShiftStep, AppendRecordStep, AppendTornStep
  <1> QED
    BY <1>1, <1>2, <1>3, <1>4, ReaderStep DEF Next

(* The invariant holds throughout.                                         *)
LEMMA SinkInvariant == ASSUME SinkConstants, Environment PROVE Spec => []SinkInv
  <1>1. Init => SinkInv
    BY SinkInit
  <1>2. SinkInv /\ [Next]_vars => SinkInv'
    BY SinkStep
  <1> QED
    BY <1>1, <1>2, PTL DEF Spec

(* Writers that keep their locks, or that lose them before they checked    *)
(* and where no file is full, only ever extend one chain, whoever dies and *)
(* whatever they tear; retention takes from its beginning alone.           *)
THEOREM SinkKeepsOneTrail == ASSUME SinkConstants, Environment PROVE Spec => IsOneTrail
  <1>1. Init => Trail!Init
    BY SinkInit
  <1>2. SinkInv /\ [Next]_vars => [Trail!Extend \/ Trail!Prune]_(Trail!trail)
    BY SinkStep DEF Trail!trail
  <1> QED
    BY <1>1, <1>2, SinkInvariant, PTL DEF Spec, IsOneTrail, Trail!Spec

(* Every record on disk names the one before it, across the files.         *)
THEOREM DiskHoldsOneChain == ASSUME SinkConstants, Environment PROVE Spec => []OneChain
  <1>1. SinkInv => OneChain
    BY DEF SinkInv
  <1> QED
    BY <1>1, SinkInvariant, PTL

(* A head that currentHead() takes from its cache is the one on disk,      *)
(* whoever appended or rotated since.                                      *)
THEOREM TrustedCachesAreCurrent == ASSUME SinkConstants, Environment PROVE Spec => []TrustedCacheIsCurrent
  <1>1. SinkInv => TrustedCacheIsCurrent
    BY CacheIsEnd DEF TrustedCacheIsCurrent
  <1> QED
    BY <1>1, SinkInvariant, PTL

(* The variables have their types.                                         *)
THEOREM SinkTypes == ASSUME SinkConstants, Environment PROVE Spec => []TypeOK
  <1>1. SinkInv => TypeOK
    BY DEF SinkInv
  <1> QED
    BY <1>1, SinkInvariant, PTL

-----------------------------------------------------------------------------
(* The reader, where no file is ever full, so that nothing is rotated.     *)

NoFullFile == MaxRecords + MaxTorn < MaxLines

View == [at : {"idle", "list", "read"}, next : Segment, list : Seq(Segment),
         expected : Hash \cup {None}, bad : {FALSE}]

Viewed(v, a, n, l, e) == [v EXCEPT !.at = a, !.next = n, !.list = l, !.expected = e, !.bad = FALSE]

\* It reads <path> alone, and compares it with nothing.
ReaderOK ==
    /\ view \in [Reader -> View]
    /\ \A r \in Reader :
          /\ view[r].at = "list" => view[r].list = <<>> /\ view[r].next # 0 /\ view[r].expected = None
          /\ view[r].at = "read" => \/ view[r].list = <<>>
                                    \/ view[r].list = <<Path>> /\ view[r].expected = None

\* The rotated files were full, and none is.
LEMMA OnlyPath ==
    ASSUME SinkConstants, SinkInv, NoFullFile, NEW s \in Segment, s # Path
    PROVE  seg[s] = None
  <1> SUFFICES ASSUME seg[s] # None PROVE FALSE
    OBVIOUS
  <1>1. seg[s].lines <= records + torn /\ seg[s].lines >= MaxLines
    BY DEF SinkInv, FilesOK
  <1>2. seg[s].lines \in Nat
    BY DEF SinkInv, TypeOK, File
  <1>3. records \in 0 .. MaxRecords /\ torn \in 0 .. MaxTorn
    BY DEF SinkInv, TypeOK
  <1> QED
    BY <1>1, <1>2, <1>3 DEF NoFullFile, SinkConstants, Sizes

\* A file on its own links.
LEMMA PathLinks ==
    ASSUME SinkConstants, SinkInv
    PROVE  /\ Path \in Segment /\ Linked(RecordsOf(seg[Path]))
           /\ RecordsOf(seg[Path]) # <<>> => Last(RecordsOf(seg[Path])).hash \in Hash
  <1>1. Path \in Segment
    BY DEF Path, Segment, SinkConstants, Sizes
  <1>2. Linked(RecordsOf(seg[Path]))
    BY <1>1 DEF SinkInv, OneChain
  <1>3. HasHead(seg[Path]) => HeadOf(seg[Path]) \in Hash
    BY <1>1, FileTypes DEF SinkInv
  <1> QED
    BY <1>1, <1>2, <1>3 DEF HasHead, HeadOf

LEMMA StartIsView ==
    ASSUME SinkConstants
    PROVE  /\ Start \in View /\ Start.at = "idle" /\ Start.next # 0 /\ Start.list = <<>> /\ Start.expected = None
           /\ LET w == [Start EXCEPT !.at = "list"]
              IN  w \in View /\ w.at = "list" /\ w.next # 0 /\ w.list = <<>> /\ w.expected = None
  <1>1. MaxFiles \in Segment /\ MaxFiles # 0
    BY DEF Segment, SinkConstants, Sizes
  <1>2. /\ Start \in View /\ Start.at = "idle" /\ Start.next = MaxFiles /\ Start.list = <<>> /\ Start.expected = None
    BY <1>1 DEF View, Start
  <1> HIDE DEF Start
  <1>3. [Start EXCEPT !.at = "list"] = Viewed(Start, "list", MaxFiles, <<>>, None)
    BY <1>2 DEF View, Viewed
  <1>4. Viewed(Start, "list", MaxFiles, <<>>, None) \in View
    BY <1>1, <1>2 DEF View, Viewed
  <1>5. LET w == Viewed(Start, "list", MaxFiles, <<>>, None)
        IN  w.at = "list" /\ w.next = MaxFiles /\ w.list = <<>> /\ w.expected = None
    BY <1>2 DEF View, Viewed
  <1> QED
    BY <1>1, <1>2, <1>3, <1>4, <1>5

LEMMA ReaderSteps ==
    ASSUME SinkConstants, SinkInv, NoFullFile, ReaderOK, [Next]_vars
    PROVE  ReaderOK'
  <1>1. ASSUME view' = view PROVE ReaderOK'
    BY <1>1 DEF ReaderOK
  <1>2. ASSUME NEW r \in Reader, NEW v \in View, view' = [view EXCEPT ![r] = v],
               v.at = "list" => v.list = <<>> /\ v.next # 0 /\ v.expected = None,
               v.at = "read" => v.list = <<>> \/ (v.list = <<Path>> /\ v.expected = None)
        PROVE  ReaderOK'
    BY <1>2 DEF ReaderOK
  <1>3. /\ MaxFiles \in Segment /\ MaxFiles # 0 /\ 0 \in Segment /\ <<>> \in Seq(Segment)
        /\ <<Path>> \in Seq(Segment) /\ None \in Hash \cup {None}
    BY DEF Segment, Path, SinkConstants, Sizes
  <1>4. ASSUME NEW r \in Reader, VerifyStarts(r) \/ VerifyEnds(r) PROVE ReaderOK'
    <2> DEFINE w == [Start EXCEPT !.at = "list"]
    <2>1. view' = [view EXCEPT ![r] = Start] \/ view' = [view EXCEPT ![r] = w]
      BY <1>4 DEF VerifyStarts, VerifyEnds
    <2>2. /\ w \in View /\ w.at = "list" /\ w.next # 0 /\ w.list = <<>> /\ w.expected = None
          /\ Start \in View /\ Start.at = "idle"
      BY StartIsView
    <2> HIDE DEF w
    <2> QED
      BY <1>2, <2>1, <2>2
  <1>5. ASSUME NEW r \in Reader, VerifyLists(r) PROVE ReaderOK'
    <2> DEFINE v == view[r] i == v.next
    <2>1. /\ v \in View /\ v.at = "list" /\ v.list = <<>> /\ v.expected = None
      BY <1>5 DEF VerifyLists, ReaderOK
    <2>2. i \in Segment /\ i # 0
      BY <1>5, <2>1 DEF VerifyLists, ReaderOK, View
    <2>3. seg[i] = None
      BY <2>2, OnlyPath DEF Path
    <2>4. CASE i > 1
      <3> DEFINE w == Viewed(v, "list", i - 1, <<>>, None)
      <3>1. [v EXCEPT !.next = i - 1, !.list = <<>>] = w
        BY <2>1 DEF View, Viewed
      <3>2. view' = [view EXCEPT ![r] = w]
        BY <1>5, <2>1, <2>3, <2>4, <3>1 DEF VerifyLists
      <3>3. i - 1 \in Segment /\ i - 1 # 0
        BY <2>2, <2>4 DEF Segment, SinkConstants, Sizes
      <3>4. w \in View /\ w.at = "list" /\ w.next = i - 1 /\ w.list = <<>> /\ w.expected = None
        BY <1>3, <2>1, <3>3 DEF View, Viewed
      <3> HIDE DEF w
      <3> QED
        BY <1>2, <3>2, <3>3, <3>4
    <2>5. CASE ~(i > 1)
      <3> DEFINE w == Viewed(v, "read", 0, <<Path>>, None)
      <3>1. Append(<<>>, Path) = <<Path>>
        OBVIOUS
      <3>2. [v EXCEPT !.at = "read", !.next = 0, !.list = <<Path>>] = w
        BY <2>1 DEF View, Viewed
      <3>3. view' = [view EXCEPT ![r] = w]
        BY <1>5, <2>1, <2>3, <2>5, <3>1, <3>2 DEF VerifyLists
      <3>4. w \in View /\ w.at = "read" /\ w.list = <<Path>> /\ w.expected = None
        BY <1>3, <2>1 DEF View, Viewed
      <3> HIDE DEF w
      <3> QED
        BY <1>2, <3>3, <3>4
    <2> QED
      BY <2>4, <2>5
  <1>6. ASSUME NEW r \in Reader, VerifyReads(r) PROVE ReaderOK'
    <2> DEFINE v == view[r]
               rs == RecordsOf(seg[Path])
               e == IF rs = <<>> THEN None ELSE Last(rs).hash
               w == Viewed(v, "read", v.next, <<>>, e)
    <2>1. v \in View /\ v.at = "read" /\ v.list = <<Path>> /\ v.expected = None
      BY <1>6 DEF VerifyReads, ReaderOK
    <2>2. Head(v.list) = Path /\ Tail(v.list) = <<>>
      BY <2>1
    <2>3. v.next \in Segment /\ v.bad = FALSE
      BY <2>1 DEF View
    <2>4. Linked(rs) /\ e \in Hash \cup {None}
      BY PathLinks
    <2>5. [v EXCEPT !.list = <<>>, !.expected = e, !.bad = FALSE] = w
      BY <2>1 DEF View, Viewed
    <2>6. view' = [view EXCEPT ![r] = [v EXCEPT !.list = <<>>, !.expected = e, !.bad = FALSE]]
      <3> DEFINE x == IF rs = <<>> THEN v.expected ELSE Last(rs).hash
                 y == \/ v.bad
                      \/ ~Linked(rs)
                      \/ (rs # <<>> /\ v.expected \notin {None, rs[1].prev})
      <3>1. y = FALSE
        BY <2>1, <2>3, <2>4
      <3>2. x = e
        BY <2>1
      <3>3. view' = [view EXCEPT ![r] = [v EXCEPT !.list = Tail(v.list), !.expected = x, !.bad = y]]
        BY <1>6, <2>2 DEF VerifyReads
      <3> HIDE DEF e, x, y
      <3> QED
        BY <2>2, <3>1, <3>2, <3>3
    <2>7. w \in View /\ w.at = "read" /\ w.list = <<>>
      BY <1>3, <2>1, <2>3, <2>4 DEF View, Viewed
    <2> HIDE DEF w, e
    <2>8. view' = [view EXCEPT ![r] = w]
      BY <2>5, <2>6
    <2> QED
      BY <1>2, <2>7, <2>8
  <1>7. ASSUME NEW p \in Proc,
               \/ Acquire(p) \/ AcquireTimesOut(p) \/ CurrentHead(p) \/ HeadOfRotated(p)
               \/ RotateIfNeeded(p) \/ UnlinkOldest(p) \/ Shift(p) \/ AssertHeld(p) \/ AppendRecord(p)
               \/ AppendTorn(p) \/ Cache(p) \/ Fails(p) \/ Release(p) \/ Crash(p) \/ LockBroken(p)
        PROVE  view' = view
    BY <1>7 DEF Acquire, AcquireTimesOut, CurrentHead, HeadOfRotated, RotateIfNeeded, UnlinkOldest,
                Shift, AssertHeld, AppendRecord, AppendTorn, Cache, Fails, Release, Crash, LockBroken
  <1> QED
    BY <1>1, <1>4, <1>5, <1>6, <1>7 DEF Next, vars

(* `berth audit verify` accepts what the writers wrote, run at any moment, *)
(* as long as nothing is rotated under it, whoever dies or loses its lock  *)
(* (sink.ts, packages/audit/src/verify.ts).                                *)
THEOREM VerificationAccepts ==
    ASSUME SinkConstants, Environment, NoFullFile
    PROVE  Spec => []VerifyAccepts
  <1>1. Init => ReaderOK
    BY StartIsView DEF Init, ReaderOK
  <1>2. SinkInv /\ ReaderOK /\ [Next]_vars => ReaderOK'
    BY ReaderSteps
  <1>3. ReaderOK => VerifyAccepts
    BY DEF ReaderOK, View, VerifyAccepts
  <1> QED
    BY <1>1, <1>2, <1>3, SinkInvariant, PTL DEF Spec

=============================================================================
