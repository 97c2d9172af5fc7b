------------------------------ MODULE AuditSink ------------------------------
(***************************************************************************)
(* The file sink of packages/audit/src/sink.ts and its reader, `berth      *)
(* audit verify'.                                                          *)
(*                                                                         *)
(* Several processes append hash-chained lines to one file.  Each record   *)
(* is one critical section of the lock that module FileLock models: find   *)
(* the chain's head, rotate, append.  A process may die, or a call fail,   *)
(* at every step; a line can be torn.  The reader takes no lock.           *)
(*                                                                         *)
(* A record is its hash and its prevHash; a hash stands for the content.   *)
(* A file is the records among its lines, the number of the lines, and     *)
(* whether the last one is terminated; the last two are its size.          *)
(***************************************************************************)
EXTENDS Naturals, SequencesExt

CONSTANTS
    Proc,         \* the writers
    Reader,       \* the runs of `berth audit verify'
    MaxFiles,     \* options.maxFiles
    MaxLines,     \* options.maxBytes, in lines
    MaxRecords,   \* bound: records ever written
    MaxTorn,      \* bound: appends cut short
    Inode,        \* inode numbers
    Stalls,       \* control states in which a live writer may lose its lock
    None          \* no such file; no value

Sizes ==
    /\ MaxFiles \in Nat \ {0}
    /\ MaxLines \in Nat \ {0}
    /\ MaxRecords \in Nat
    /\ MaxTorn \in Nat

VARIABLES
    seg,      \* [0..MaxFiles -> file]: seg[0] is <path>, seg[i] is <path>.i
    lock,     \* the process whose line is in <path>.lock, or None
    pc,       \* [Proc -> control state of record()]
    head,     \* [Proc -> the hash the next record follows]
    next,     \* [Proc -> the segment rotateIfNeeded shifts next]
    cached,   \* [Proc -> the head last written, and the file as it left it]
    view,     \* [Reader -> what verify has read so far]
    records,  \* number of records written
    torn      \* number of appends cut short

fileVars == <<seg, records, torn>>
vars == <<seg, lock, pc, head, next, cached, view, records, torn>>

-----------------------------------------------------------------------------
Hash    == 1 .. MaxRecords
Genesis == 0
Record  == [hash : Hash, prev : Hash \cup {Genesis}]
Path    == 0
Segment == 0 .. MaxFiles

PC == {"idle", "head", "head1", "rotate", "unlink", "shift", "assert",
       "append", "stat", "release"}

(* The last line of a file ends in a newline, or it is a torn record, or a *)
(* whole one without the newline.                                          *)
Cut  == {"no", "torn", "whole"}
File == [ino : Inode, records : Seq(Record), lines : Nat, cut : Cut]

NoneAssumption ==
    /\ None \notin Proc
    /\ None \notin File
    /\ None \notin [head : Hash, ino : Inode, size : Nat \X BOOLEAN]

(* The records of a file: readAuditFile skips what does not parse.         *)
RecordsOf(f) == IF f = None THEN <<>> ELSE f.records

Size(f) == <<f.lines, f.cut # "no">>

(* A new file has an inode that no file has and no writer remembers.       *)
InodesSuffice ==
    \A used \in [Segment -> Inode \cup {None}], known \in [Proc -> Inode \cup {None}] :
        \E i \in Inode : (\A s \in Segment : used[s] # i) /\ (\A p \in Proc : known[p] # i)

\* What is assumed of the constants.
SinkConstants == Sizes /\ NoneAssumption /\ InodesSuffice

NewInode ==
    CHOOSE i \in Inode : /\ \A s \in Segment : seg[s] # None => seg[s].ino # i
                         /\ \A p \in Proc : cached[p] # None => cached[p].ino # i

(* appendFileSync(path, text): text is one line and `new' the record that  *)
(* it parses to, if any.  On a line without a newline the new text is      *)
(* spliced into that line, which then does not parse.                      *)
Appended(f, new, cut) ==
    IF f = None
    THEN [ino |-> NewInode, records |-> new, lines |-> 1, cut |-> cut]
    ELSE IF f.cut = "no"
         THEN [f EXCEPT !.records = @ \o new, !.lines = @ + 1, !.cut = cut]
         ELSE [f EXCEPT !.records = IF f.cut = "whole" THEN Front(@) ELSE @,
                        !.cut = IF cut = "no" THEN "no" ELSE "torn"]

(* readHead(path): the newest record's hash, if the file has one...        *)
HasHead(f) == RecordsOf(f) # <<>>
HeadOf(f)  == Last(RecordsOf(f)).hash

(* Mutant of Closed: a torn line is left as it is.                         *)
ClosedNever(f) == f

(* ...and the line a writer killed mid-write left open is closed.          *)
Closed(f) == IF f = None THEN None ELSE [f EXCEPT !.cut = "no"]

(* The records on disk, and the hash of the newest.                        *)
Held == UNION {Range(RecordsOf(seg[s])) : s \in Segment}

Newest == CHOOSE s \in Segment : HasHead(seg[s]) /\ \A t \in Segment : t < s => ~HasHead(seg[t])
EndHash == IF \E s \in Segment : HasHead(seg[s]) THEN HeadOf(seg[Newest]) ELSE Genesis

Linked(rs) == \A i \in 2 .. Len(rs) : rs[i].prev = rs[i - 1].hash

-----------------------------------------------------------------------------
Start == [at |-> "idle", next |-> MaxFiles, list |-> <<>>, expected |-> None, bad |-> FALSE]

Init ==
    /\ seg     = [s \in Segment |-> None]
    /\ lock    = None
    /\ pc      = [p \in Proc |-> "idle"]
    /\ head    = [p \in Proc |-> Genesis]
    /\ next    = [p \in Proc |-> 0]
    /\ cached  = [p \in Proc |-> None]
    /\ view    = [r \in Reader |-> Start]
    /\ records = 0
    /\ torn    = 0

GoTo(p, s) == pc' = [pc EXCEPT ![p] = s]

(***************************************************************************)
(* record(): one critical section                                          *)
(***************************************************************************)

(* acquireFileLock succeeds...                                             *)
Acquire(p) ==
    /\ pc[p] = "idle"
    /\ records + torn < MaxRecords + MaxTorn
    /\ lock = None
    /\ lock' = p
    /\ GoTo(p, "head")
    /\ UNCHANGED <<fileVars, head, next, cached, view>>

(* ...or times out: the record is dropped with a warning.                  *)
AcquireTimesOut(p) ==
    /\ pc[p] = "idle"
    /\ lock # None
    /\ cached' = [cached EXCEPT ![p] = None]
    /\ UNCHANGED <<fileVars, lock, pc, head, next, view>>

(* Mutant of CacheHolds: only the size is compared.                        *)
CacheHoldsBySize(p) ==
    /\ cached[p] # None
    /\ seg[Path] # None
    /\ Size(seg[Path]) = cached[p].size

CacheHolds(p) ==
    /\ cached[p] # None
    /\ seg[Path] # None
    /\ seg[Path].ino = cached[p].ino
    /\ Size(seg[Path]) = cached[p].size

(* currentHead(): the cache, if the file is as this process left it, else  *)
(* readHead(path)...                                                       *)
CurrentHead(p) ==
    /\ pc[p] = "head"
    /\ \/ /\ CacheHolds(p)
          /\ head' = [head EXCEPT ![p] = cached[p].head]
          /\ GoTo(p, "rotate")
          /\ UNCHANGED seg
       \/ /\ ~CacheHolds(p)
          /\ seg' = [seg EXCEPT ![Path] = Closed(@)]
          /\ IF HasHead(seg[Path])
             THEN /\ head' = [head EXCEPT ![p] = HeadOf(seg[Path])]
                  /\ GoTo(p, "rotate")
             ELSE /\ GoTo(p, "head1")
                  /\ UNCHANGED head
    /\ UNCHANGED <<lock, next, cached, view, records, torn>>

(* Mutant of HeadOfRotated: an empty <path> starts a new chain.            *)
HeadOfRotatedIgnored(p) ==
    /\ pc[p] = "head1"
    /\ head' = [head EXCEPT ![p] = Genesis]
    /\ GoTo(p, "rotate")
    /\ UNCHANGED <<fileVars, lock, next, cached, view>>

(* ...else readHead(path.1), else genesis.                                 *)
HeadOfRotated(p) ==
    /\ pc[p] = "head1"
    /\ seg' = [seg EXCEPT ![1] = Closed(@)]
    /\ head' = [head EXCEPT ![p] = IF HasHead(seg[1]) THEN HeadOf(seg[1]) ELSE Genesis]
    /\ GoTo(p, "rotate")
    /\ UNCHANGED <<lock, next, cached, view, records, torn>>

(* rotateIfNeeded(): the size, ...                                         *)
RotateIfNeeded(p) ==
    /\ pc[p] = "rotate"
    /\ GoTo(p, IF seg[Path] # None /\ seg[Path].lines >= MaxLines
               THEN "unlink" ELSE "assert")
    /\ UNCHANGED <<fileVars, lock, head, next, cached, view>>

(* ... the oldest segment, ...                                             *)
UnlinkOldest(p) ==
    /\ pc[p] = "unlink"
    /\ seg' = [seg EXCEPT ![MaxFiles] = None]
    /\ next' = [next EXCEPT ![p] = MaxFiles - 1]
    /\ GoTo(p, "shift")
    /\ UNCHANGED <<lock, head, cached, view, records, torn>>

Renamed(from, to) ==
    [s \in Segment |-> IF s = to THEN seg[from] ELSE IF s = from THEN None ELSE seg[s]]

(* ... and the renames, from the oldest to <path> itself.                  *)
Shift(p) ==
    /\ pc[p] = "shift"
    /\ LET i == next[p]
       IN  /\ seg' = IF seg[i] # None THEN Renamed(i, i + 1) ELSE seg
           /\ IF i > 0
              THEN /\ next' = [next EXCEPT ![p] = i - 1]
                   /\ UNCHANGED <<pc, cached>>
              ELSE /\ next' = [next EXCEPT ![p] = 0]
                   /\ GoTo(p, IF seg[Path] # None THEN "assert" ELSE "release")
                   /\ cached' = [cached EXCEPT ![p] = IF seg[Path] # None THEN @ ELSE None]
    /\ UNCHANGED <<lock, head, view, records, torn>>

(* Mutant of AssertHeld: the lock is not checked.                          *)
AssertHeldNever(p) ==
    /\ pc[p] = "assert"
    /\ GoTo(p, "append")
    /\ UNCHANGED <<fileVars, lock, head, next, cached, view>>

(* lock.assertHeld(): it throws if another process took the lock.          *)
AssertHeld(p) ==
    /\ pc[p] = "assert"
    /\ GoTo(p, IF lock = p THEN "append" ELSE "release")
    /\ cached' = [cached EXCEPT ![p] = IF lock = p THEN @ ELSE None]
    /\ UNCHANGED <<fileVars, lock, head, next, view>>

NewRecord(p) == [hash |-> records + 1, prev |-> head[p]]

(* appendFileSync(path, record), the newline included.                     *)
AppendRecord(p) ==
    /\ pc[p] = "append"
    /\ records < MaxRecords
    /\ seg' = [seg EXCEPT ![Path] = Appended(@, <<NewRecord(p)>>, "no")]
    /\ records' = records + 1
    /\ head' = [head EXCEPT ![p] = records + 1]
    /\ GoTo(p, "stat")
    /\ UNCHANGED <<lock, next, cached, view, torn>>

(* The append is cut short, by the death of the process or a full disk: a  *)
(* part of the line, or all of it except the newline, reaches the file.    *)
AppendTorn(p) ==
    /\ pc[p] = "append"
    /\ torn < MaxTorn
    /\ torn' = torn + 1
    /\ \/ /\ seg' = [seg EXCEPT ![Path] = Appended(@, <<>>, "torn")]
          /\ UNCHANGED records
       \/ /\ records < MaxRecords
          /\ seg' = [seg EXCEPT ![Path] = Appended(@, <<NewRecord(p)>>, "whole")]
          /\ records' = records + 1
    /\ cached' = [cached EXCEPT ![p] = None]
    /\ GoTo(p, "release")
    /\ UNCHANGED <<lock, head, next, view>>

(* statSync(path) and the new cache.                                       *)
Cache(p) ==
    /\ pc[p] = "stat"
    /\ cached' = [cached EXCEPT ![p] =
          IF seg[Path] = None
          THEN None
          ELSE [head |-> head[p], ino |-> seg[Path].ino, size |-> Size(seg[Path])]]
    /\ GoTo(p, "release")
    /\ UNCHANGED <<fileVars, lock, head, next, view>>

(* Any of the calls above throws: the record is dropped with a warning.    *)
Fails(p) ==
    /\ pc[p] \notin {"idle", "release"}
    /\ cached' = [cached EXCEPT ![p] = None]
    /\ GoTo(p, "release")
    /\ UNCHANGED <<fileVars, lock, head, next, view>>

(* finally: lock.release().                                                *)
Release(p) ==
    /\ pc[p] = "release"
    /\ lock' = IF lock = p THEN None ELSE lock
    /\ head' = [head EXCEPT ![p] = Genesis]
    /\ next' = [next EXCEPT ![p] = 0]
    /\ GoTo(p, "idle")
    /\ UNCHANGED <<fileVars, cached, view>>

(* The process dies between two steps and another takes its place; the     *)
(* lock of a dead process is broken.                                       *)
Crash(p) ==
    /\ pc[p] # "idle"
    /\ lock' = IF lock = p THEN None ELSE lock
    /\ head' = [head EXCEPT ![p] = Genesis]
    /\ next' = [next EXCEPT ![p] = 0]
    /\ cached' = [cached EXCEPT ![p] = None]
    /\ GoTo(p, "idle")
    /\ UNCHANGED <<fileVars, view>>

(* A process on another host has stalled past staleMs: its lock is broken  *)
(* while it lives.                                                         *)
LockBroken(p) ==
    /\ lock = p
    /\ pc[p] \in Stalls
    /\ lock' = None
    /\ UNCHANGED <<fileVars, pc, head, next, cached, view>>

(***************************************************************************)
(* berth audit verify                                                      *)
(***************************************************************************)

(* The command starts if <path> exists.                                    *)
VerifyStarts(r) ==
    /\ view[r].at = "idle"
    /\ seg[Path] # None
    /\ view' = [view EXCEPT ![r] = [Start EXCEPT !.at = "list"]]
    /\ UNCHANGED <<fileVars, lock, pc, head, next, cached>>

(* segmentsFor: one existsSync for each rotated segment, oldest first.     *)
VerifyLists(r) ==
    /\ view[r].at = "list"
    /\ LET v == view[r]
           l == IF seg[v.next] # None THEN Append(v.list, v.next) ELSE v.list
       IN  view' = [view EXCEPT ![r] =
             IF v.next > 1
             THEN [v EXCEPT !.next = v.next - 1, !.list = l]
             ELSE [v EXCEPT !.at = "read", !.next = 0, !.list = Append(l, Path)]]
    /\ UNCHANGED <<fileVars, lock, pc, head, next, cached>>

(* readAuditFile of the next segment, and verifyAuditSegments' walk over   *)
(* it: the walk starts from whatever the oldest record held names.         *)
VerifyReads(r) ==
    /\ view[r].at = "read"
    /\ view[r].list # <<>>
    /\ LET v  == view[r]
           rs == RecordsOf(seg[Head(v.list)])
       IN  view' = [view EXCEPT ![r] =
             [v EXCEPT !.list = Tail(v.list),
                       !.expected = IF rs = <<>> THEN v.expected ELSE Last(rs).hash,
                       !.bad = \/ v.bad
                               \/ ~Linked(rs)
                               \/ rs # <<>> /\ v.expected \notin {None, rs[1].prev}]]
    /\ UNCHANGED <<fileVars, lock, pc, head, next, cached>>

VerifyEnds(r) ==
    /\ view[r].at = "read"
    /\ view[r].list = <<>>
    /\ view' = [view EXCEPT ![r] = Start]
    /\ UNCHANGED <<fileVars, lock, pc, head, next, cached>>

-----------------------------------------------------------------------------
Next ==
    \/ \E p \in Proc :
          \/ Acquire(p) \/ AcquireTimesOut(p)
          \/ CurrentHead(p) \/ HeadOfRotated(p)
          \/ RotateIfNeeded(p) \/ UnlinkOldest(p) \/ Shift(p)
          \/ AssertHeld(p) \/ AppendRecord(p) \/ AppendTorn(p) \/ Cache(p)
          \/ Fails(p) \/ Release(p) \/ Crash(p) \/ LockBroken(p)
    \/ \E r \in Reader :
          VerifyStarts(r) \/ VerifyLists(r) \/ VerifyReads(r) \/ VerifyEnds(r)

Spec == Init /\ [][Next]_vars

-----------------------------------------------------------------------------
TypeOK ==
    /\ seg     \in [Segment -> File \cup {None}]
    /\ lock    \in Proc \cup {None}
    /\ pc      \in [Proc -> PC]
    /\ head    \in [Proc -> Hash \cup {Genesis}]
    /\ next    \in [Proc -> Segment]
    /\ cached  \in [Proc -> [head : Hash, ino : Inode, size : Nat \X BOOLEAN] \cup {None}]
    /\ records \in 0 .. MaxRecords
    /\ torn    \in 0 .. MaxTorn

(* However the writers interleave, die, tear lines and rotate, the files   *)
(* hold one chain: it grows at its end, one record at a time, from the     *)
(* hash it ended with, and only retention takes records away, from its     *)
(* beginning.                                                              *)
Trail == INSTANCE AuditTrail WITH held <- Held, end <- EndHash
IsOneTrail == Trail!Spec

(* A cached head that currentHead() would trust is the end of the chain on *)
(* disk, whoever wrote or rotated since.                                   *)
TrustedCacheIsCurrent ==
    \A p \in Proc : CacheHolds(p) => cached[p].head = EndHash

(* Verification accepts what the writers wrote: nobody has edited, deleted *)
(* or reordered a record.                                                  *)
VerifyAccepts == \A r \in Reader : ~view[r].bad

(* Every record on disk follows from the one before it, which for the      *)
(* first of a file is the last of the next older file that has any.        *)
OneChain ==
    /\ \A s \in Segment : Linked(RecordsOf(seg[s]))
    /\ \A s, t \in Segment :
          /\ s < t /\ HasHead(seg[s]) /\ HasHead(seg[t])
          /\ \A u \in Segment : s < u /\ u < t => ~HasHead(seg[u])
          => RecordsOf(seg[s])[1].prev = HeadOf(seg[t])
=============================================================================
