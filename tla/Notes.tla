------------------------------- MODULE Notes -------------------------------
(***************************************************************************)
(* The notes app: processes in several containers keep one list of notes   *)
(* in a file of a shared workspace.  An update reads the list and replaces *)
(* it under a lock file; a lock whose holder died is broken, by one        *)
(* process at a time, under a second lock file.                            *)
(*                                                                         *)
(* On its own host a holder's death is seen; a lock of another host, or    *)
(* one whose owner is not written yet, is judged by its age.  The age says *)
(* nothing for some time after a death, and, as the code assumes, a live   *)
(* holder's lock is never old.                                             *)
(***************************************************************************)
EXTENDS Integers, FiniteSets

CONSTANTS
  Proc,        \* processes, each with one update at a time
  Host,        \* process -> its container
  MaxUpdates,  \* updates begun, MaxDeaths processes that die: the model's bounds
  MaxDeaths,
  None

VARIABLES
  pc,        \* process -> where it is
  lock,      \* path -> None or [ino, by, written]
  saw,       \* process -> the lock file it last looked at
  mine,      \* process -> path -> the inode it created there
  nextIno,
  notes,     \* the ids of the file's notes
  list,      \* process -> the notes it read
  note,      \* process -> the note it adds
  begun,     \* how many updates began
  acked,     \* the notes whose update was acknowledged
  dead

vars == <<pc, lock, saw, mine, nextIno, notes, list, note, begun, acked, dead>>

Path == {"main", "break"}

Init ==
  /\ pc = [p \in Proc |-> "idle"]
  /\ lock = [f \in Path |-> None]
  /\ saw = [p \in Proc |-> None]
  /\ mine = [p \in Proc |-> [f \in Path |-> None]]
  /\ nextIno = 1
  /\ notes = {} /\ list = [p \in Proc |-> {}] /\ note = [p \in Proc |-> None]
  /\ begun = 0 /\ acked = {} /\ dead = {}

Go(p, s) == pc' = [pc EXCEPT ![p] = s]

\* isStale(): what may be said of a lock file that was looked at.
Judged(p, l) ==
  IF l = None \/ l.by \notin dead THEN {FALSE}
  ELSE IF l.written /\ Host[l.by] = Host[p] THEN {TRUE}
  ELSE BOOLEAN

\* Another look finds the file that was judged before.
Same(l, seen) == l # None /\ l.ino = seen.ino /\ l.written = seen.written

\* An export is called; the updates of a process are one after another.
Begin(p) ==
  /\ pc[p] = "idle" /\ begun < MaxUpdates
  /\ begun' = begun + 1
  /\ note' = [note EXCEPT ![p] = begun]
  /\ Go(p, "try")
  /\ UNCHANGED <<lock, saw, mine, nextIno, notes, list, acked, dead>>

CreateOver(p, f, from, made, exists) ==
  /\ pc[p] = from
  /\ lock' = [lock EXCEPT ![f] = [ino |-> nextIno, by |-> p, written |-> FALSE]]
  /\ mine' = [mine EXCEPT ![p][f] = nextIno]
  /\ nextIno' = nextIno + 1
  /\ Go(p, made)
  /\ UNCHANGED <<saw, notes, list, note, begun, acked, dead>>

\* tryCreate(): the file, and then its owner.
Create(p, f, from, made, exists) ==
  /\ pc[p] = from
  /\ IF lock[f] = None
     THEN /\ lock' = [lock EXCEPT ![f] = [ino |-> nextIno, by |-> p, written |-> FALSE]]
          /\ mine' = [mine EXCEPT ![p][f] = nextIno]
          /\ nextIno' = nextIno + 1
          /\ Go(p, made)
     ELSE Go(p, exists) /\ UNCHANGED <<lock, mine, nextIno>>
  /\ UNCHANGED <<saw, notes, list, note, begun, acked, dead>>

TryCreate(p) == Create(p, "main", "try", "own", "look")
TryBreak(p) == Create(p, "break", "break", "ownBreak", "lookBreak")

\* The owner is written to the file that was created; a write that fails
\* removes the lock at the path again, and the update.
Own(p, f, from, to) ==
  /\ pc[p] = from
  /\ \/ /\ lock' = IF lock[f] # None /\ lock[f].ino = mine[p][f] THEN [lock EXCEPT ![f].written = TRUE] ELSE lock
        /\ Go(p, to)
     \/ /\ lock' = [lock EXCEPT ![f] = None]
        /\ Go(p, "idle")
  /\ UNCHANGED <<saw, mine, nextIno, notes, list, note, begun, acked, dead>>

\* The lock is taken: it is looked at, and judged, or waited for.
Look(p) ==
  /\ pc[p] = "look"
  /\ saw' = [saw EXCEPT ![p] = lock["main"]]
  /\ \E stale \in Judged(p, lock["main"]) : Go(p, IF stale THEN "break" ELSE "try")
  /\ UNCHANGED <<lock, mine, nextIno, notes, list, note, begun, acked, dead>>

\* The deadline passes.
GiveUp(p) ==
  /\ pc[p] = "try" /\ lock["main"] # None
  /\ Go(p, "idle")
  /\ UNCHANGED <<lock, saw, mine, nextIno, notes, list, note, begun, acked, dead>>

\* Another breaker is at it: its lock is looked at twice, and removed.
LookBreak(p) ==
  /\ pc[p] = "lookBreak"
  /\ saw' = [saw EXCEPT ![p] = lock["break"]]
  /\ \E stale \in Judged(p, lock["break"]) : Go(p, IF stale THEN "lookBreakAgain" ELSE "try")
  /\ UNCHANGED <<lock, mine, nextIno, notes, list, note, begun, acked, dead>>

LookBreakAgain(p) ==
  /\ pc[p] = "lookBreakAgain"
  /\ Go(p, IF Same(lock["break"], saw[p]) THEN "unlinkBreak" ELSE "try")
  /\ UNCHANGED <<lock, saw, mine, nextIno, notes, list, note, begun, acked, dead>>

UnlinkBreak(p) ==
  /\ pc[p] = "unlinkBreak"
  /\ lock' = [lock EXCEPT !["break"] = None]
  /\ Go(p, "try")
  /\ UNCHANGED <<saw, mine, nextIno, notes, list, note, begun, acked, dead>>

\* The holder of the second lock unlinks the first only where it is still the
\* one that was judged.
Recheck(p) == Same(lock["main"], saw[p]) /\ TRUE \in Judged(p, lock["main"])

BreakStale(p) ==
  /\ pc[p] = "recheck"
  /\ Go(p, IF Recheck(p) THEN "unlink" ELSE "releaseBreak")
  /\ UNCHANGED <<lock, saw, mine, nextIno, notes, list, note, begun, acked, dead>>

Unlink(p) ==
  /\ pc[p] = "unlink"
  /\ lock' = [lock EXCEPT !["main"] = None]
  /\ Go(p, "releaseBreak")
  /\ UNCHANGED <<saw, mine, nextIno, notes, list, note, begun, acked, dead>>

\* releaseIfMine(): a look, and the removal.
IsMine(p, f) == lock[f] # None /\ lock[f].ino = mine[p][f] /\ lock[f].written

Release(p, f, from, now, to) ==
  /\ pc[p] = from
  /\ Go(p, IF IsMine(p, f) THEN now ELSE to)
  /\ acked' = IF to = "idle" /\ ~IsMine(p, f) /\ list[p] # {} THEN acked \cup {note[p]} ELSE acked
  /\ UNCHANGED <<lock, saw, mine, nextIno, notes, list, note, begun, dead>>

ReleaseNow(p, f, now, to) ==
  /\ pc[p] = now
  /\ lock' = [lock EXCEPT ![f] = None]
  /\ Go(p, to)
  /\ acked' = IF to = "idle" /\ list[p] # {} THEN acked \cup {note[p]} ELSE acked
  /\ UNCHANGED <<saw, mine, nextIno, notes, list, note, begun, dead>>

\* The update: the list is read, and replaced by a rename; a write that fails
\* leaves it, and the call fails.
ReadNotes(p) ==
  /\ pc[p] = "read"
  /\ list' = [list EXCEPT ![p] = notes \cup {note[p]}]
  /\ Go(p, "write")
  /\ UNCHANGED <<lock, saw, mine, nextIno, notes, note, begun, acked, dead>>

WriteNotes(p) ==
  /\ pc[p] = "write"
  /\ \/ notes' = list[p] /\ UNCHANGED list
     \/ UNCHANGED notes /\ list' = [list EXCEPT ![p] = {}]
  /\ Go(p, "release")
  /\ UNCHANGED <<lock, saw, mine, nextIno, note, begun, acked, dead>>

Die(p) ==
  /\ p \notin dead /\ Cardinality(dead) < MaxDeaths
  /\ dead' = dead \cup {p}
  /\ Go(p, "dead")
  /\ UNCHANGED <<lock, saw, mine, nextIno, notes, list, note, begun, acked>>

Next ==
  \E p \in Proc :
    \/ Begin(p) \/ TryCreate(p) \/ Own(p, "main", "own", "read") \/ Look(p) \/ GiveUp(p)
    \/ TryBreak(p) \/ Own(p, "break", "ownBreak", "recheck") \/ LookBreak(p) \/ LookBreakAgain(p) \/ UnlinkBreak(p)
    \/ BreakStale(p) \/ Unlink(p)
    \/ Release(p, "break", "releaseBreak", "removeBreak", "try") \/ ReleaseNow(p, "break", "removeBreak", "try")
    \/ ReadNotes(p) \/ WriteNotes(p)
    \/ Release(p, "main", "release", "remove", "idle") \/ ReleaseNow(p, "main", "remove", "idle")
    \/ Die(p)

Spec == Init /\ [][Next]_vars

---------------------------------------------------------------------------
\* A note whose update was acknowledged stays in the file, whoever updates it
\* together with it, and whichever one process dies on the way.  (With a holder
\* and the breaker of its lock dead, two live processes can take the second lock
\* from the dead breaker, and the slower one the first lock from its new holder.
\* Three processes have no room for that.)
NoNoteLost ==
  Cardinality(dead) <= 1 \/ Cardinality(Proc) <= 3 => acked \subseteq notes
=============================================================================
