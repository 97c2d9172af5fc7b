------------------------------ MODULE VmProofs ------------------------------
(***************************************************************************)
(* Proofs about the two ends of a microVM, for any constants of MCVm.      *)
(*                                                                         *)
(* The guest: for any apps, any daemons of the image, any number of        *)
(* control connections and any number of lines, the host is told one       *)
(* gapless story of the boot and of every app's life, no signal goes to a  *)
(* pid that was reaped, and no app is cut off by a guest that powers off   *)
(* of its own accord.  The installation: for any commands, releases and    *)
(* servers, what changes at a final path is what the path is pinned to.    *)
(***************************************************************************)
EXTENDS MCVm, SequenceTheorems, FiniteSetTheorems, WellFoundedInduction, TLAPS

-----------------------------------------------------------------------------
(* The inductive invariant.                                                *)

Who == Proc \cup {"init"} \cup Reasons
LifeKinds == {"app_started", "app_ready", "app_exited"}

Told(k, w) == \E i \in DOMAIN events : events[i] = Event(k, w)
ShutdownTold == \E i \in DOMAIN events : events[i][1] = "shutting_down"

\* The event list by itself: what LifeIsTold says, without cardinalities.
Story ==
  /\ \A a \in App : \A k \in LifeKinds : \A i, j \in DOMAIN events :
       events[i] = Event(k, a) /\ events[j] = Event(k, a) => i = j
  /\ \A a \in App : \A k \in {"app_ready", "app_exited"} : \A j \in DOMAIN events :
       events[j] = Event(k, a) =>
         \E i \in DOMAIN events : i < j /\ events[i] = Event("app_started", a)
  /\ \A i, j \in DOMAIN events :
       events[i][1] = "shutting_down" /\ events[j][1] = "app_started" => j < i

\* shutdown() is past its first event.
Closing == \/ pc \in {"grace", "drained", "unmount", "off"}
           \/ pc = "record" /\ after \in {"grace", "drained", "unmount"}

\* The states of an app without a process.
Spawnless == {"absent", "pending", "refused"}

\* What the main thread holds is what its place in the code says.
ControlOK ==
  /\ pc # "record" => todo = {}
  /\ pc \notin {"started", "attach", "record"} => cur = {}
  /\ pc \in {"started", "attach"} => \E a \in App : cur = {a} /\ state[a] \notin Spawnless
  /\ pc = "record" => after \in {"check", "grace", "drained", "unmount"}
  /\ reason # "none" => pc = "term" \/ Closing
  /\ ShutdownTold => Closing

\* A daemon in the table has a process, or its exit is about to be recorded.
DaemonsOK == \A d \in daemons : proc[d] \in {"up", "zombie"} \/ d \in todo

\* The table, the process, the log thread and the events of one app agree,
\* but for what the main thread or the log thread is about to say.
AppOK(a) ==
  /\ state[a] \in Spawnless => proc[a] = "none" /\ ~Told("app_started", a)
  /\ state[a] \notin Spawnless =>
       /\ proc[a] # "none"
       /\ Told("app_started", a) <=> ~(pc = "started" /\ a \in cur)
  /\ pc = "attach" /\ a \in cur => Told("app_started", a)
  /\ a \in attached => Told("app_started", a)
  /\ a \in announce => a \in attached /\ ready[a]
  /\ Told("app_ready", a) => ready[a] /\ a \notin announce
  /\ a \in todo => proc[a] = "reaped" /\ a \notin exit
  /\ proc[a] = "reaped" => a \in todo \/ a \in exit
  /\ a \in exit => proc[a] = "reaped"
  /\ state[a] = "exited" => a \in exit
  /\ pc = "record" /\ a \in cur => a \in exit
  /\ Told("app_exited", a) => a \in exit /\ ~(pc = "record" /\ a \in cur)
  /\ reason = "exited" => proc[a] \in {"none", "reaped"}

GuestInv ==
  /\ TypeOK /\ StreamFromTheStart /\ Story /\ ControlOK /\ DaemonsOK
  /\ \A a \in App : AppOK(a)

-----------------------------------------------------------------------------
(* The hub.                                                                *)

\* What one event adds to what was told.
Tells(x, y) ==
  /\ \A k, w : Told(k, w)' <=> (Told(k, w) \/ (k = x /\ w = y))
  /\ ShutdownTold' <=> (ShutdownTold \/ x = "shutting_down")

\* hub::event() adds one event at the end.
LEMMA PostAppends ==
  ASSUME TypeOK, NEW x \in Kinds, NEW y \in Who, Post(Event(x, y))
  PROVE  /\ events' \in Seq(Kinds \X Who) /\ Len(events') = Len(events) + 1
         /\ DOMAIN events = 1 .. Len(events) /\ Len(events) \in Nat
         /\ DOMAIN events' = 1 .. (Len(events) + 1)
         /\ \A i \in DOMAIN events : events'[i] = events[i]
         /\ events'[Len(events) + 1] = <<x, y>>
  <1>1. events \in Seq(Kinds \X Who) /\ <<x, y>> \in Kinds \X Who
    BY DEF TypeOK, Who
  <1>2. events' = Append(events, <<x, y>>)
    BY DEF Post, Event
  <1>3. /\ events' \in Seq(Kinds \X Who) /\ Len(events') = Len(events) + 1
        /\ \A i \in 1 .. Len(events) : events'[i] = events[i]
        /\ events'[Len(events) + 1] = <<x, y>>
    BY <1>1, <1>2, AppendProperties
  <1> QED
    BY <1>1, <1>3, LenProperties

\* hub::event() tells that event, and no other.
LEMMA PostTells ==
  ASSUME TypeOK, NEW x \in Kinds, NEW y \in Who, Post(Event(x, y))
  PROVE  Tells(x, y)
  <1> DEFINE n == Len(events)
  <1>1. /\ n \in Nat /\ DOMAIN events = 1 .. n /\ DOMAIN events' = 1 .. (n + 1)
        /\ \A i \in DOMAIN events : events'[i] = events[i]
        /\ events'[n + 1] = <<x, y>>
    BY PostAppends
  <1> HIDE DEF n
  <1>2. ASSUME NEW k, NEW w PROVE Told(k, w)' <=> (Told(k, w) \/ (k = x /\ w = y))
    <2>1. Told(k, w)' <=> \E i \in 1 .. (n + 1) : events'[i] = <<k, w>>
      BY <1>1 DEF Told, Event
    <2>2. Told(k, w) <=> \E i \in 1 .. n : events[i] = <<k, w>>
      BY <1>1 DEF Told, Event
    <2>3. \A i \in 1 .. (n + 1) : i \in 1 .. n \/ i = n + 1
      BY <1>1
    <2>4. n + 1 \in 1 .. (n + 1) /\ 1 .. n \subseteq 1 .. (n + 1)
      BY <1>1
    <2> QED
      BY <1>1, <2>1, <2>2, <2>3, <2>4
  <1>3. ShutdownTold' <=> (ShutdownTold \/ x = "shutting_down")
    <2>1. \A i \in 1 .. (n + 1) : i \in 1 .. n \/ i = n + 1
      BY <1>1
    <2>2. n + 1 \in 1 .. (n + 1) /\ 1 .. n \subseteq 1 .. (n + 1)
      BY <1>1
    <2>3. events'[n + 1][1] = x
      BY <1>1
    <2> QED
      BY <1>1, <2>1, <2>2, <2>3 DEF ShutdownTold
  <1> QED
    BY <1>2, <1>3 DEF Tells

\* The story goes on with an event that is not told twice, not before the
\* app's start, and not after the shutdown's.
LEMMA PostKeepsStory ==
  ASSUME TypeOK, Story, NEW x \in Kinds, NEW y \in Who, Post(Event(x, y)),
         y \in App /\ x \in LifeKinds => ~Told(x, y),
         y \in App /\ x \in {"app_ready", "app_exited"} => Told("app_started", y),
         x = "app_started" => ~ShutdownTold
  PROVE  Story'
  <1> DEFINE n == Len(events)
  <1>1. /\ n \in Nat /\ DOMAIN events = 1 .. n /\ DOMAIN events' = 1 .. (n + 1)
        /\ \A i \in DOMAIN events : events'[i] = events[i]
        /\ events'[n + 1] = <<x, y>>
    BY PostAppends
  <1> HIDE DEF n
  <1>2. \A i \in 1 .. (n + 1) : i = n + 1 \/ (i \in 1 .. n /\ events'[i] = events[i] /\ i < n + 1)
    BY <1>1
  <1>3. n + 1 \in 1 .. (n + 1) /\ 1 .. n \subseteq 1 .. (n + 1)
    BY <1>1
  <1>4. ASSUME NEW a \in App, NEW k \in LifeKinds,
               NEW i \in 1 .. (n + 1), NEW j \in 1 .. (n + 1),
               events'[i] = Event(k, a), events'[j] = Event(k, a)
        PROVE  i = j
    <2>1. CASE i = n + 1 /\ j = n + 1
      BY <2>1
    <2>2. CASE i \in 1 .. n /\ j \in 1 .. n
      BY <1>1, <1>4, <2>2 DEF Story
    <2>3. CASE (i = n + 1 /\ j \in 1 .. n) \/ (j = n + 1 /\ i \in 1 .. n)
      <3>1. x = k /\ y = a
        BY <1>1, <1>4, <2>3 DEF Event
      <3>2. Told(k, a)
        BY <1>1, <1>4, <2>3 DEF Told
      <3> QED
        BY <3>1, <3>2
    <2> QED
      BY <1>2, <2>1, <2>2, <2>3
  <1>5. ASSUME NEW a \in App, NEW k \in {"app_ready", "app_exited"},
               NEW j \in 1 .. (n + 1), events'[j] = Event(k, a)
        PROVE  \E i \in 1 .. (n + 1) : i < j /\ events'[i] = Event("app_started", a)
    <2>1. CASE j = n + 1
      <3>1. x = k /\ y = a
        BY <1>1, <1>5, <2>1 DEF Event
      <3>2. PICK i \in 1 .. n : events[i] = Event("app_started", a)
        BY <1>1, <3>1 DEF Told
      <3> QED
        BY <1>1, <1>2, <1>3, <2>1, <3>2
    <2>2. CASE j \in 1 .. n
      <3>1. PICK i \in 1 .. n : i < j /\ events[i] = Event("app_started", a)
        BY <1>1, <1>5, <2>2 DEF Story
      <3> QED
        BY <1>1, <1>3, <3>1
    <2> QED
      BY <1>2, <2>1, <2>2
  <1>6. ASSUME NEW i \in 1 .. (n + 1), NEW j \in 1 .. (n + 1),
               events'[i][1] = "shutting_down", events'[j][1] = "app_started"
        PROVE  j < i
    <2>1. events'[n + 1][1] = x
      BY <1>1
    <2>2. CASE i \in 1 .. n /\ j \in 1 .. n
      BY <1>1, <1>6, <2>2 DEF Story
    <2>3. CASE i = n + 1
      BY <1>1, <1>2, <1>6, <2>1, <2>3
    <2>4. CASE j = n + 1 /\ i \in 1 .. n
      BY <1>1, <1>6, <2>1, <2>4 DEF ShutdownTold
    <2> QED
      BY <1>2, <2>2, <2>3, <2>4
  <1> QED
    BY <1>1, <1>4, <1>5, <1>6 DEF Story

\* A list and a longer one that starts with it have the same prefixes.
LEMMA PrefixOfAppend ==
  ASSUME NEW S, NEW s \in Seq(S), NEW t \in Seq(S), NEW n \in 0 .. Len(s),
         Len(t) = Len(s) + 1, \A i \in 1 .. Len(s) : t[i] = s[i]
  PROVE  SubSeq(t, 1, n) = SubSeq(s, 1, n)
  <1>1. n \in Nat /\ Len(s) \in Nat /\ Len(t) \in Nat
    BY LenProperties
  <1>2. \A i \in 1 .. n : s[i] \in S /\ t[i] \in S /\ t[i] = s[i]
    BY <1>1, ElementOfSeq
  <1>3. /\ SubSeq(s, 1, n) \in Seq(S) /\ Len(SubSeq(s, 1, n)) = n
        /\ \A i \in 1 .. n : SubSeq(s, 1, n)[i] = s[i]
    BY <1>1, <1>2, SubSeqProperties
  <1>4. /\ SubSeq(t, 1, n) \in Seq(S) /\ Len(SubSeq(t, 1, n)) = n
        /\ \A i \in 1 .. n : SubSeq(t, 1, n)[i] = t[i]
    BY <1>1, <1>2, SubSeqProperties
  <1> QED
    BY <1>2, <1>3, <1>4, SeqEqual

\* hub::event() keeps what every connection has been sent a prefix.
LEMMA PostStreams ==
  ASSUME TypeOK, StreamFromTheStart, NEW x \in Kinds, NEW y \in Who, Post(Event(x, y))
  PROVE  /\ StreamFromTheStart'
         /\ readers' \subseteq Reader /\ conn' = conn
         /\ stream' \in [Reader -> Seq(Kinds \X Who)]
  <1> DEFINE n == Len(events)
             S == Kinds \X Who
             e == <<x, y>>
  <1>1. /\ n \in Nat /\ events' \in Seq(S) /\ Len(events') = n + 1
        /\ \A i \in 1 .. n : events'[i] = events[i]
    BY PostAppends
  <1>2. events \in Seq(S) /\ e \in S /\ readers \subseteq Reader /\ stream \in [Reader -> Seq(S)]
    BY DEF TypeOK, Who
  <1>3. PICK slow \in SUBSET readers :
          /\ events' = Append(events, e)
          /\ readers' = readers \ slow
          /\ stream' = [r \in Reader |-> IF r \in readers \ slow THEN Append(stream[r], e) ELSE stream[r]]
          /\ conn' = conn
    BY DEF Post, Event
  <1> HIDE DEF n, S, e
  <1>4. ASSUME NEW r \in Reader
        PROVE  /\ stream'[r] \in Seq(S)
               /\ Len(stream'[r]) <= n + 1
               /\ stream'[r] = SubSeq(events', 1, Len(stream'[r]))
               /\ r \in readers' => Len(stream'[r]) = n + 1
    <2>1. /\ stream[r] \in Seq(S) /\ Len(stream[r]) \in 0 .. n
          /\ stream[r] = SubSeq(events, 1, Len(stream[r]))
          /\ r \in readers => Len(stream[r]) = n
      BY <1>1, <1>2, LenProperties DEF StreamFromTheStart, n
    <2>2. CASE r \in readers \ slow
      <3>1. stream[r] = events
        BY <1>2, <2>1, <2>2, SubSeqFull DEF n
      <3>2. stream'[r] = events'
        BY <1>3, <2>2, <3>1
      <3> QED
        BY <1>1, <3>2, SubSeqFull
    <2>3. CASE r \notin readers \ slow
      <3>1. stream'[r] = stream[r]
        BY <1>3, <2>3
      <3>2. SubSeq(events', 1, Len(stream[r])) = SubSeq(events, 1, Len(stream[r]))
        BY <1>1, <1>2, <2>1, PrefixOfAppend DEF n
      <3> QED
        BY <1>1, <1>3, <2>1, <2>3, <3>1, <3>2
    <2> QED
      BY <2>2, <2>3
  <1>5. StreamFromTheStart'
    BY <1>1, <1>4 DEF StreamFromTheStart
  <1>6. stream' \in [Reader -> Seq(S)]
    BY <1>3, <1>4
  <1> QED
    BY <1>2, <1>3, <1>5, <1>6 DEF S

\* The hub's own part of TypeOK.
HubTypes ==
  /\ events \in Seq(Kinds \X Who)
  /\ readers \subseteq Reader
  /\ conn \in [Reader -> {"none", "open", "closed"}]
  /\ stream \in [Reader -> Seq(Kinds \X Who)]

\* All that hub::event() does.
LEMMA PostStep ==
  ASSUME TypeOK, StreamFromTheStart, Story,
         NEW x \in Kinds, NEW y \in Who, Post(Event(x, y)),
         y \in App /\ x \in LifeKinds => ~Told(x, y),
         y \in App /\ x \in {"app_ready", "app_exited"} => Told("app_started", y),
         x = "app_started" => ~ShutdownTold
  PROVE  HubTypes' /\ StreamFromTheStart' /\ Story' /\ Tells(x, y)
  <1>1. conn \in [Reader -> {"none", "open", "closed"}]
    BY DEF TypeOK
  <1> QED
    BY <1>1, PostAppends, PostTells, PostStreams, PostKeepsStory DEF HubTypes

Silent == /\ \A k, w : Told(k, w)' <=> Told(k, w)
          /\ ShutdownTold' <=> ShutdownTold

\* A step that says nothing.
LEMMA NothingSaid ==
  ASSUME TypeOK, StreamFromTheStart, Story, UNCHANGED hub
  PROVE  HubTypes' /\ StreamFromTheStart' /\ Story' /\ Silent
  <1>1. HubTypes
    BY DEF TypeOK, HubTypes, Who
  <1>2. HubTypes' /\ StreamFromTheStart' /\ Story'
    BY <1>1 DEF hub, HubTypes, StreamFromTheStart, Story
  <1>3. Silent
    BY DEF hub, Silent, Told, ShutdownTold
  <1> QED
    BY <1>2, <1>3

-----------------------------------------------------------------------------
(* The boot.                                                               *)

\* The next app to start is one that waits to be started.
LEMMA StartingIsPending ==
  ASSUME TypeOK, Pending # {}
  PROVE  Starting \in Pending /\ Starting \in App /\ state[Starting] = "pending"
  <1> DEFINE T == {i \in DOMAIN Shares : Shares[i] \in Pending}
  <1>0. Shares \in Seq({Shares[i] : i \in DOMAIN Shares})
    BY GuestAssumption DEF GuestAssumption
  <1>1. DOMAIN Shares \subseteq Nat
    BY <1>0, LenProperties
  <1>2. T \subseteq Nat /\ T # {}
    BY <1>1 DEF Pending, App
  <1> DEFINE Less == OpToRel(<, Nat)
  <1>3. \E i \in T : \A j \in T : ~ (<<j, i>> \in Less)
    <2> HIDE DEF T
    <2>1. IsWellFoundedOn(Less, Nat)
      BY NatLessThanWellFounded
    <2> HIDE DEF Less
    <2> QED
      BY <1>2, <2>1, WFMin
  <1>4. \E i \in T : \A j \in T : i <= j
    <2> HIDE DEF T
    <2>1. PICK i \in T : \A j \in T : ~ (<<j, i>> \in Less)
      BY <1>3
    <2>2. ASSUME NEW j \in T PROVE i <= j
      <3>1. i \in Nat /\ j \in Nat /\ <<j, i>> \in Nat \X Nat
        BY <1>2
      <3>2. j < i => <<j, i>> \in Less
        BY <3>1 DEF OpToRel
      <3> HIDE DEF Less
      <3> QED
        BY <2>1, <3>1, <3>2
    <2> QED
      BY <2>2
  <1>5. \E k \in DOMAIN Shares : /\ Shares[k] \in Pending
                                 /\ \A j \in DOMAIN Shares : Shares[j] \in Pending => k <= j
    BY <1>4
  <1>6. Starting \in Pending
    BY <1>5 DEF Starting
  <1> QED
    BY <1>6 DEF Pending

\* Nothing AppOK says of this app has changed.
SameApp(a) ==
  /\ state'[a] = state[a] /\ proc'[a] = proc[a] /\ ready'[a] = ready[a]
  /\ a \in attached' <=> a \in attached
  /\ a \in announce' <=> a \in announce
  /\ a \in exit' <=> a \in exit
  /\ a \in todo' <=> a \in todo
  /\ \A k \in LifeKinds : Told(k, a)' <=> Told(k, a)
  /\ (pc' = "started" /\ a \in cur') <=> (pc = "started" /\ a \in cur)
  /\ pc' = "attach" /\ a \in cur' => pc = "attach" /\ a \in cur
  /\ (pc' = "record" /\ a \in cur') => (pc = "record" /\ a \in cur)
  /\ reason' = "exited" => reason = "exited"

LEMMA AppFrame ==
  ASSUME NEW a \in App, AppOK(a), SameApp(a)
  PROVE  AppOK(a)'
  <1>1. /\ Told("app_started", a)' <=> Told("app_started", a)
        /\ Told("app_ready", a)' <=> Told("app_ready", a)
        /\ Told("app_exited", a)' <=> Told("app_exited", a)
    BY DEF SameApp, LifeKinds
  <1> QED
    BY <1>1 DEF SameApp, AppOK

\* The boot fails before any app was started, and shutdown() follows.
LEMMA FailBootStep ==
  ASSUME GuestInv, FailBoot, pc \in {"prepare", "policies"}
  PROVE  /\ HubTypes' /\ StreamFromTheStart' /\ Story'
         /\ Tells("boot_failed", "init") /\ ControlOK'
  <1>1. HubTypes' /\ StreamFromTheStart' /\ Story' /\ Tells("boot_failed", "init")
    BY PostStep DEF GuestInv, FailBoot, Kinds, Who, LifeKinds
  <1>2. ControlOK'
    BY <1>1 DEF GuestInv, FailBoot, ControlOK, Closing, Tells
  <1> QED
    BY <1>1, <1>2

LEMMA PrepareStep ==
  ASSUME GuestInv, Prepare
  PROVE  GuestInv'
  <1>1. CASE Goto("semantic-fs") /\ UNCHANGED <<boot, hub>>
    <2>1. HubTypes' /\ StreamFromTheStart' /\ Story' /\ Silent
      BY <1>1, NothingSaid DEF GuestInv
    <2>2. TypeOK'
      BY <1>1, <2>1 DEF GuestInv, Prepare, Goto, TypeOK, HubTypes, Who, Labels, table, boot, logs
    <2>3. ControlOK' /\ DaemonsOK'
      BY <1>1, <2>1 DEF GuestInv, Prepare, Goto, ControlOK, DaemonsOK, Closing, Silent, table
    <2>4. \A a \in App : SameApp(a)
      BY <1>1, <2>1 DEF GuestInv, Prepare, Goto, Silent, SameApp, table, logs
    <2> QED
      BY <2>1, <2>2, <2>3, <2>4, AppFrame DEF GuestInv
  <1>2. CASE FailBoot
    <2>1. /\ HubTypes' /\ StreamFromTheStart' /\ Story'
          /\ Tells("boot_failed", "init") /\ ControlOK'
      BY <1>2, FailBootStep DEF Prepare
    <2>2. TypeOK'
      BY <1>2, <2>1 DEF GuestInv, Prepare, FailBoot, BootReturns, TypeOK, HubTypes, Who,
                        Labels, Reasons, table, logs
    <2>3. DaemonsOK'
      BY <1>2 DEF GuestInv, Prepare, FailBoot, DaemonsOK, table
    <2>4. \A a \in App : SameApp(a)
      BY <1>2, <2>1 DEF GuestInv, Prepare, FailBoot, Tells, LifeKinds, SameApp, table, logs
    <2> QED
      BY <2>1, <2>2, <2>3, <2>4, AppFrame DEF GuestInv
  <1> QED
    BY <1>1, <1>2 DEF Prepare

\* A daemon is spawned: its process is in the table, and no app is concerned.
LEMMA SpawnedStep ==
  ASSUME GuestInv, NEW d \in Daemon, Spawned(d), pc \notin {"started", "attach"}
  PROVE  /\ HubTypes' /\ StreamFromTheStart' /\ Story' /\ Tells("daemon_started", d)
         /\ proc' \in [Proc -> {"none", "up", "zombie", "reaped"}]
         /\ daemons' \subseteq Daemon
         /\ todo' = todo => DaemonsOK'
         /\ \A a \in App : proc'[a] = proc[a]
  <1>1. d \in Proc /\ d \in Who /\ \A a \in App : a \in Proc /\ a # d
    BY NamesApart DEF Proc, Who
  <1>2. HubTypes' /\ StreamFromTheStart' /\ Story' /\ Tells("daemon_started", d)
    BY <1>1, PostStep DEF GuestInv, Spawned, Kinds, LifeKinds
  <1>3. /\ proc \in [Proc -> {"none", "up", "zombie", "reaped"}]
        /\ daemons \subseteq Daemon /\ Daemon \subseteq Proc
    BY DEF GuestInv, TypeOK, Proc
  <1>4. todo' = todo => DaemonsOK'
    BY <1>1, <1>3 DEF GuestInv, Spawned, DaemonsOK
  <1> QED
    BY <1>1, <1>2, <1>3, <1>4 DEF Spawned

\* The main thread goes on with the boot, and a daemon may have been spawned.
LEMMA DaemonStep ==
  ASSUME GuestInv, NEW d \in Daemon,
         Spawned(d) \/ UNCHANGED <<proc, table, hub>>,
         pc \in {"semantic-fs", "daemons"}, pc' \in {"policies", "daemons"},
         UNCHANGED <<after, todo, cur, got, reason, shutdown, image, wanted, logs, sig>>,
         next' \in Nat, served' \in BOOLEAN
  PROVE  GuestInv'
  <1>1. CASE Spawned(d)
    <2>1. /\ HubTypes' /\ StreamFromTheStart' /\ Story' /\ Tells("daemon_started", d)
          /\ proc' \in [Proc -> {"none", "up", "zombie", "reaped"}]
          /\ daemons' \subseteq Daemon
          /\ DaemonsOK'
          /\ \A a \in App : proc'[a] = proc[a]
      BY <1>1, SpawnedStep
    <2>2. TypeOK'
      BY <1>1, <2>1 DEF GuestInv, Spawned, TypeOK, HubTypes, Who, Labels, logs
    <2>3. ControlOK'
      BY <1>1, <2>1 DEF GuestInv, ControlOK, Closing, Tells
    <2>4. \A a \in App : SameApp(a)
      BY <1>1, <2>1 DEF GuestInv, Spawned, Tells, LifeKinds, SameApp, logs
    <2> QED
      BY <2>1, <2>2, <2>3, <2>4, AppFrame DEF GuestInv
  <1>2. CASE UNCHANGED <<proc, table, hub>>
    <2>1. HubTypes' /\ StreamFromTheStart' /\ Story' /\ Silent
      BY <1>2, NothingSaid DEF GuestInv
    <2>2. TypeOK'
      BY <1>2, <2>1 DEF GuestInv, TypeOK, HubTypes, Who, Labels, table, logs
    <2>3. ControlOK' /\ DaemonsOK'
      BY <1>2, <2>1 DEF GuestInv, ControlOK, DaemonsOK, Closing, Silent, table
    <2>4. \A a \in App : SameApp(a)
      BY <1>2, <2>1 DEF GuestInv, Silent, SameApp, table, logs
    <2> QED
      BY <2>1, <2>2, <2>3, <2>4, AppFrame DEF GuestInv
  <1> QED
    BY <1>1, <1>2

LEMMA StartSemanticFsStep ==
  ASSUME GuestInv, StartSemanticFs
  PROVE  GuestInv'
  <1>1. "semantic-fs" \in Daemon
    BY DEF Daemon
  <1>2. /\ pc = "semantic-fs" /\ pc' = "policies"
        /\ UNCHANGED <<next, after, todo, cur, got, reason, shutdown, image, wanted, logs, sig>>
        /\ Spawned("semantic-fs") \/ UNCHANGED <<proc, table, hub>>
        /\ served' \in BOOLEAN /\ next' \in Nat
    BY DEF StartSemanticFs, Goto, GuestInv, TypeOK
  <1> QED
    BY <1>1, <1>2, DaemonStep

LEMMA StartDaemonStep ==
  ASSUME GuestInv, StartDaemon
  PROVE  GuestInv'
  <1>1. Late[next] \in Daemon
    BY DEF StartDaemon, Daemon
  <1>2. /\ pc = "daemons" /\ pc' = "daemons"
        /\ UNCHANGED <<after, todo, cur, got, reason, shutdown, image, wanted, logs, sig>>
        /\ Spawned(Late[next]) \/ UNCHANGED <<proc, table, hub>>
        /\ served' \in BOOLEAN /\ next' \in Nat
    BY DEF StartDaemon, GuestInv, TypeOK, boot
  <1> QED
    BY <1>1, <1>2, DaemonStep

\* What a policy refuses was never started.
LEMMA CompilePoliciesStep ==
  ASSUME GuestInv, CompilePolicies
  PROVE  GuestInv'
  <1>1. /\ pc = "policies"
        /\ UNCHANGED <<proc, exit, ready, daemons, shutdown, logs, sig>>
        /\ UNCHANGED <<after, todo, cur, got>>
        /\ image' = image /\ served' \in BOOLEAN /\ wanted' \subseteq Daemon /\ next' \in Nat
    <2>1. image \subseteq Daemon /\ served \in BOOLEAN
      BY DEF GuestInv, TypeOK
    <2>2. CASE FailBoot
      BY <2>1, <2>2 DEF CompilePolicies, FailBoot, BootReturns
    <2>3. CASE ~FailBoot
      <3>1. /\ UNCHANGED <<after, todo, cur, got, image, served>> /\ next' = 1
            /\ \E calls \in SUBSET (image \ {"semantic-fs", "context-bus"}) :
                  wanted' = calls \cup (image \cap {"context-bus"})
        BY <2>3 DEF CompilePolicies
      <3> QED
        BY <2>1, <3>1 DEF CompilePolicies
    <2> QED
      BY <2>2, <2>3
  <1>2. /\ state' \in [App -> {"absent", "pending", "refused", "running", "ready", "exited"}]
        /\ \A a \in App : state'[a] = state[a] \/ (state[a] = "pending" /\ state'[a] = "refused")
    BY DEF CompilePolicies, Pending, GuestInv, TypeOK
  <1>3. CASE pc' = "daemons" /\ UNCHANGED <<reason, hub>>
    <2>1. HubTypes' /\ StreamFromTheStart' /\ Story' /\ Silent
      BY <1>3, NothingSaid DEF GuestInv
    <2>2. TypeOK'
      BY <1>1, <1>2, <1>3, <2>1 DEF GuestInv, TypeOK, HubTypes, Who, Labels, logs
    <2>3. ControlOK' /\ DaemonsOK'
      BY <1>1, <1>3, <2>1 DEF GuestInv, ControlOK, DaemonsOK, Closing, Silent
    <2>4. \A a \in App : AppOK(a)'
      BY <1>1, <1>2, <1>3, <2>1 DEF GuestInv, AppOK, Spawnless, Silent, logs
    <2> QED
      BY <2>1, <2>2, <2>3, <2>4 DEF GuestInv
  <1>4. CASE FailBoot
    <2>1. /\ HubTypes' /\ StreamFromTheStart' /\ Story'
          /\ Tells("boot_failed", "init") /\ ControlOK'
      BY <1>1, <1>4, FailBootStep
    <2>2. pc' = "term" /\ reason' = "boot_failed"
      BY <1>4 DEF FailBoot
    <2>3. TypeOK'
      BY <1>1, <1>2, <2>1, <2>2 DEF GuestInv, TypeOK, HubTypes, Who, Labels, Reasons, logs
    <2>4. DaemonsOK'
      BY <1>1 DEF GuestInv, DaemonsOK
    <2>5. \A a \in App : AppOK(a)'
      BY <1>1, <1>2, <2>1, <2>2 DEF GuestInv, AppOK, Spawnless, Tells, logs
    <2> QED
      BY <2>1, <2>3, <2>4, <2>5 DEF GuestInv
  <1> QED
    BY <1>3, <1>4 DEF CompilePolicies

\* Steps that say nothing and concern no app: only the main thread's place, the
\* shutdown flag, the pending signal and the lines printed may change.
LEMMA AsideStep ==
  ASSUME GuestInv, UNCHANGED <<proc, table, hub, todo, cur, attached, announce>>,
         TypeOK', ControlOK',
         pc \in {"started", "attach"} \/ pc' \in {"started", "attach"} => pc' = pc,
         pc' = "record" => pc = "record",
         reason' = "exited" /\ reason # "exited" =>
           \A a \in App : proc[a] \in {"none", "reaped"}
  PROVE  GuestInv'
  <1>1. HubTypes' /\ StreamFromTheStart' /\ Story' /\ Silent
    BY NothingSaid DEF GuestInv
  <1>2. DaemonsOK'
    BY DEF GuestInv, DaemonsOK, table
  <1>3. \A a \in App : AppOK(a)'
    BY <1>1 DEF GuestInv, AppOK, Silent, table
  <1> QED
    BY <1>1, <1>2, <1>3 DEF GuestInv

LEMMA DaemonsStartedStep ==
  ASSUME GuestInv, DaemonsStarted
  PROVE  GuestInv'
  <1>1. HubTypes' /\ Silent
    BY NothingSaid DEF GuestInv, DaemonsStarted
  <1>2. TypeOK'
    BY <1>1 DEF GuestInv, DaemonsStarted, Goto, TypeOK, HubTypes, Who, Labels, table, boot, logs
  <1>3. ControlOK'
    BY <1>1 DEF GuestInv, DaemonsStarted, Goto, ControlOK, Closing, Silent
  <1> QED
    BY <1>2, <1>3, AsideStep DEF DaemonsStarted, Goto, logs

\* The app that cannot be started is told to be refused.
LEMMA RefuseAppStep ==
  ASSUME GuestInv, RefuseApp
  PROVE  GuestInv'
  <1> DEFINE s == Starting
  <1>1. s \in App /\ state[s] = "pending" /\ s \in Who
    BY StartingIsPending DEF GuestInv, RefuseApp, Who, Proc
  <1>2. /\ Post(Event("app_refused", s)) /\ state' = [state EXCEPT ![s] = "refused"]
        /\ UNCHANGED <<main, proc, exit, ready, daemons, shutdown, boot, logs, sig>>
    BY DEF RefuseApp
  <1> HIDE DEF s
  <1>3. HubTypes' /\ StreamFromTheStart' /\ Story' /\ Tells("app_refused", s)
    BY <1>1, <1>2, PostStep DEF GuestInv, Kinds, LifeKinds
  <1>4. TypeOK'
    BY <1>2, <1>3 DEF GuestInv, TypeOK, HubTypes, Who, main, boot, logs
  <1>5. ControlOK' /\ DaemonsOK'
    BY <1>1, <1>2, <1>3 DEF GuestInv, RefuseApp, TypeOK, ControlOK, DaemonsOK, Closing, Tells, main
  <1>6. \A a \in App : AppOK(a)'
    BY <1>1, <1>2, <1>3 DEF GuestInv, TypeOK, AppOK, Spawnless, Tells, main, logs
  <1> QED
    BY <1>3, <1>4, <1>5, <1>6 DEF GuestInv

\* The app's process runs before the host is told.
LEMMA SpawnAppStep ==
  ASSUME GuestInv, SpawnApp
  PROVE  GuestInv'
  <1> DEFINE s == Starting
  <1>1. s \in App /\ state[s] = "pending" /\ s \in Proc
    BY StartingIsPending DEF GuestInv, SpawnApp, Proc
  <1>2. /\ pc = "apps" /\ pc' = "started" /\ cur' = {s}
        /\ proc' = [proc EXCEPT ![s] = "up"] /\ state' = [state EXCEPT ![s] = "running"]
        /\ UNCHANGED <<next, after, todo, got, reason, exit, ready, daemons, shutdown, boot,
                       logs, sig, hub>>
    BY DEF SpawnApp
  <1> HIDE DEF s
  <1>3. HubTypes' /\ StreamFromTheStart' /\ Story' /\ Silent
    BY <1>2, NothingSaid DEF GuestInv
  <1>4. /\ state \in [App -> {"absent", "pending", "refused", "running", "ready", "exited"}]
        /\ proc \in [Proc -> {"none", "up", "zombie", "reaped"}]
        /\ App \subseteq Proc /\ daemons \subseteq Daemon /\ \A d \in daemons : d \in Proc /\ d # s
    BY <1>1, NamesApart DEF GuestInv, TypeOK, Proc
  <1>5. TypeOK'
    BY <1>1, <1>2, <1>3, <1>4 DEF GuestInv, TypeOK, HubTypes, Who, Labels, boot, logs
  <1>6. state'[s] = "running"
    BY <1>1, <1>2, <1>4
  <1>7. ControlOK'
    BY <1>1, <1>2, <1>3, <1>6 DEF GuestInv, ControlOK, Closing, Silent, Spawnless
  <1>8. DaemonsOK'
    BY <1>2, <1>4 DEF GuestInv, DaemonsOK
  <1>9. ASSUME NEW a \in App PROVE AppOK(a)'
    <2>1. CASE a = s
      <3>1. proc'[a] = "up" /\ state'[a] = "running"
        BY <1>1, <1>2, <1>4, <2>1
      <3>2. /\ proc[a] = "none" /\ ~Told("app_started", a) /\ reason # "exited"
            /\ a \notin attached /\ a \notin announce /\ a \notin todo /\ a \notin exit
            /\ ~Told("app_exited", a)
        BY <1>1, <1>2, <2>1 DEF GuestInv, AppOK, Spawnless, ControlOK, Closing
      <3>3. Told("app_ready", a) => ready[a] /\ a \notin announce
        BY DEF GuestInv, AppOK
      <3> QED
        BY <1>2, <1>3, <2>1, <3>1, <3>2, <3>3 DEF AppOK, Silent, Spawnless, logs
    <2>2. CASE a # s
      <3>1. proc'[a] = proc[a] /\ state'[a] = state[a] /\ cur = {}
        BY <1>1, <1>2, <1>4, <2>2 DEF GuestInv, ControlOK
      <3>2. SameApp(a)
        BY <1>2, <1>3, <2>2, <3>1 DEF SameApp, Silent, logs
      <3> QED
        BY <3>2, AppFrame DEF GuestInv
    <2> QED
      BY <2>1, <2>2
  <1> QED
    BY <1>3, <1>5, <1>7, <1>8, <1>9 DEF GuestInv

\* The host is told of the app that has just been spawned, and for the first time.
LEMMA AppStartedStep ==
  ASSUME GuestInv, AppStarted
  PROVE  GuestInv'
  <1>1. PICK s \in App : cur = {s} /\ state[s] \notin Spawnless
    BY DEF GuestInv, ControlOK, AppStarted
  <1>2. /\ pc = "started" /\ Post(Event("app_started", s)) /\ Goto("attach")
        /\ UNCHANGED <<proc, table, shutdown, boot, logs, sig>>
    BY <1>1 DEF AppStarted
  <1>3. ~Told("app_started", s) /\ ~ShutdownTold /\ s \in Who
    BY <1>1, <1>2 DEF GuestInv, AppOK, ControlOK, Closing, Who, Proc
  <1>4. HubTypes' /\ StreamFromTheStart' /\ Story' /\ Tells("app_started", s)
    BY <1>2, <1>3, PostStep DEF GuestInv, Kinds
  <1>5. TypeOK'
    BY <1>2, <1>4 DEF GuestInv, Goto, TypeOK, HubTypes, Who, Labels, table, boot, logs
  <1>6. ControlOK' /\ DaemonsOK'
    BY <1>2, <1>3, <1>4 DEF GuestInv, Goto, ControlOK, DaemonsOK, Closing, Tells, table
  <1>7. \A a \in App : AppOK(a)'
    BY <1>1, <1>2, <1>4 DEF GuestInv, Goto, AppOK, Tells, Spawnless, table, logs
  <1> QED
    BY <1>4, <1>5, <1>6, <1>7 DEF GuestInv

LEMMA AttachStep ==
  ASSUME GuestInv, Attach
  PROVE  GuestInv'
  <1>1. HubTypes' /\ StreamFromTheStart' /\ Story' /\ Silent
    BY NothingSaid DEF GuestInv, Attach
  <1>2. /\ pc = "attach" /\ pc' = "apps" /\ cur' = {} /\ attached' = attached \cup cur
        /\ UNCHANGED <<next, after, todo, got, reason, proc, table, shutdown, boot,
                       lines, announce, sig, hub>>
    BY DEF Attach
  <1>3. cur \subseteq App
    BY <1>2 DEF GuestInv, ControlOK
  <1>4. TypeOK'
    BY <1>1, <1>2, <1>3 DEF GuestInv, TypeOK, HubTypes, Who, Labels, table, boot
  <1>5. ControlOK' /\ DaemonsOK'
    BY <1>1, <1>2 DEF GuestInv, ControlOK, DaemonsOK, Closing, Silent, table
  <1>6. \A a \in App : AppOK(a)'
    BY <1>1, <1>2 DEF GuestInv, AppOK, Silent, Spawnless, table
  <1> QED
    BY <1>1, <1>4, <1>5, <1>6 DEF GuestInv

LEMMA BootCompleteStep ==
  ASSUME GuestInv, BootComplete
  PROVE  GuestInv'
  <1>1. /\ pc = "apps" /\ pc' = "wait" /\ next' = 1 /\ BootReturns
        /\ Post(Event("boot_complete", "init"))
        /\ UNCHANGED <<after, todo, cur, got, reason, proc, table, shutdown, logs, sig>>
    BY DEF BootComplete
  <1>2. HubTypes' /\ StreamFromTheStart' /\ Story' /\ Tells("boot_complete", "init")
    BY <1>1, PostStep DEF GuestInv, Kinds, Who, LifeKinds
  <1>3. TypeOK'
    BY <1>1, <1>2 DEF GuestInv, BootReturns, TypeOK, HubTypes, Who, Labels, table, logs
  <1>4. ControlOK' /\ DaemonsOK'
    BY <1>1, <1>2 DEF GuestInv, ControlOK, DaemonsOK, Closing, Tells, table
  <1>5. \A a \in App : AppOK(a)'
    BY <1>1, <1>2 DEF GuestInv, AppOK, Tells, Spawnless, table, logs
  <1> QED
    BY <1>2, <1>3, <1>4, <1>5 DEF GuestInv

-----------------------------------------------------------------------------
(* The apps, the daemons and the log threads.                              *)

LEMMA PrintReadyStep ==
  ASSUME GuestInv, NEW b \in App, PrintReady(b)
  PROVE  GuestInv'
  <1>1. HubTypes' /\ Silent
    BY NothingSaid DEF GuestInv, PrintReady
  <1>2. TypeOK'
    BY <1>1 DEF GuestInv, PrintReady, TypeOK, HubTypes, Who, main, table, boot
  <1>3. ControlOK'
    BY <1>1 DEF GuestInv, PrintReady, ControlOK, Closing, Silent, main, table
  <1> QED
    BY <1>2, <1>3, AsideStep DEF PrintReady, main

LEMMA SignalStep ==
  ASSUME GuestInv, Signal
  PROVE  GuestInv'
  <1>1. HubTypes' /\ Silent
    BY NothingSaid DEF GuestInv, Signal
  <1>2. TypeOK'
    BY <1>1 DEF GuestInv, Signal, TypeOK, HubTypes, Who, main, table, boot, logs
  <1>3. ControlOK'
    BY <1>1 DEF GuestInv, Signal, ControlOK, Closing, Silent, main, table
  <1> QED
    BY <1>2, <1>3, AsideStep DEF Signal, main, logs

\* An exit is nobody's business until the process is reaped.
LEMMA ProcessExitsStep ==
  ASSUME GuestInv, NEW p \in Proc, ProcessExits(p)
  PROVE  GuestInv'
  <1>1. HubTypes' /\ StreamFromTheStart' /\ Story' /\ Silent
    BY NothingSaid DEF GuestInv, ProcessExits
  <1>2. /\ proc[p] = "up" /\ proc' = [proc EXCEPT ![p] = "zombie"]
        /\ UNCHANGED <<main, table, shutdown, boot, logs, sig, hub>>
    BY DEF ProcessExits
  <1>3. /\ proc \in [Proc -> {"none", "up", "zombie", "reaped"}]
        /\ App \subseteq Proc /\ daemons \subseteq Proc
    BY DEF GuestInv, TypeOK, Proc
  <1>4. TypeOK'
    BY <1>1, <1>2, <1>3 DEF GuestInv, TypeOK, HubTypes, Who, main, table, boot, logs
  <1>5. ControlOK' /\ DaemonsOK'
    BY <1>1, <1>2, <1>3 DEF GuestInv, ControlOK, DaemonsOK, Closing, Silent, main, table
  <1>6. \A a \in App : AppOK(a)'
    BY <1>1, <1>2, <1>3 DEF GuestInv, AppOK, Silent, Spawnless, main, table, logs
  <1> QED
    BY <1>1, <1>4, <1>5, <1>6 DEF GuestInv

\* A ready line is read of an app that was told to be started.
LEMMA ReadLineStep ==
  ASSUME GuestInv, NEW b \in App, ReadLine(b)
  PROVE  GuestInv'
  <1>1. HubTypes' /\ StreamFromTheStart' /\ Story' /\ Silent
    BY NothingSaid DEF GuestInv, ReadLine
  <1>2. /\ b \in attached /\ lines[b] > 0 /\ b \notin announce
        /\ lines' = [lines EXCEPT ![b] = @ - 1]
        /\ UNCHANGED <<main, proc, exit, daemons, shutdown, boot, attached, sig, hub>>
    BY DEF ReadLine
  <1>3. /\ state \in [App -> {"absent", "pending", "refused", "running", "ready", "exited"}]
        /\ ready \in [App -> BOOLEAN] /\ lines \in [App -> Nat] /\ announce \subseteq App
    BY DEF GuestInv, TypeOK
  <1>4. lines' \in [App -> Nat]
    BY <1>2, <1>3
  <1>5. CASE /\ ~ready[b] /\ ready' = [ready EXCEPT ![b] = TRUE]
             /\ state' = [state EXCEPT ![b] = "ready"] /\ announce' = announce \cup {b}
    <2>1. TypeOK'
      BY <1>1, <1>2, <1>3, <1>4, <1>5 DEF GuestInv, TypeOK, HubTypes, Who, main, boot
    <2>2. ControlOK' /\ DaemonsOK'
      BY <1>1, <1>2, <1>3, <1>5
         DEF GuestInv, ControlOK, DaemonsOK, Closing, Silent, Spawnless, main
    <2>3. ASSUME NEW a \in App PROVE AppOK(a)'
      <3>1. CASE a = b
        <4>1. state[a] \notin Spawnless /\ Told("app_started", a) /\ ~Told("app_ready", a)
          BY <1>2, <1>5, <3>1 DEF GuestInv, AppOK
        <4>2. state'[a] = "ready" /\ ready'[a] = TRUE /\ a \in announce' /\ a \in attached'
          BY <1>2, <1>3, <1>5, <3>1
        <4> QED
          BY <1>1, <1>2, <4>1, <4>2 DEF GuestInv, AppOK, Silent, Spawnless, main
      <3>2. CASE a # b
        <4>1. SameApp(a)
          BY <1>1, <1>2, <1>3, <1>5, <3>2 DEF SameApp, Silent, main
        <4> QED
          BY <4>1, AppFrame DEF GuestInv
      <3> QED
        BY <3>1, <3>2
    <2> QED
      BY <1>1, <2>1, <2>2, <2>3 DEF GuestInv
  <1>6. CASE UNCHANGED <<ready, state, announce>>
    <2>1. TypeOK'
      BY <1>1, <1>2, <1>4, <1>6 DEF GuestInv, TypeOK, HubTypes, Who, main, boot
    <2>2. ControlOK'
      BY <1>1, <1>2, <1>6 DEF GuestInv, ControlOK, Closing, Silent, main
    <2> QED
      BY <1>2, <1>6, <2>1, <2>2, AsideStep DEF main, table
  <1> QED
    BY <1>5, <1>6 DEF ReadLine

\* What a log thread announces is told for the first time.
LEMMA AnnounceStep ==
  ASSUME GuestInv, NEW b \in App, Announce(b)
  PROVE  GuestInv'
  <1>1. /\ b \in announce /\ announce' = announce \ {b} /\ Post(Event("app_ready", b))
        /\ UNCHANGED <<main, proc, table, shutdown, boot, lines, attached, sig>>
    BY DEF Announce
  <1>2. /\ ~Told("app_ready", b) /\ Told("app_started", b) /\ ready[b] /\ b \in attached
        /\ b \in Who
    BY <1>1 DEF GuestInv, AppOK, Who, Proc
  <1>3. HubTypes' /\ StreamFromTheStart' /\ Story' /\ Tells("app_ready", b)
    BY <1>1, <1>2, PostStep DEF GuestInv, Kinds
  <1>4. TypeOK'
    BY <1>1, <1>3 DEF GuestInv, TypeOK, HubTypes, Who, main, table, boot
  <1>5. ControlOK' /\ DaemonsOK'
    BY <1>1, <1>3 DEF GuestInv, ControlOK, DaemonsOK, Closing, Tells, main, table
  <1>6. \A a \in App : AppOK(a)'
    BY <1>1, <1>2, <1>3 DEF GuestInv, AppOK, Tells, main, table
  <1> QED
    BY <1>3, <1>4, <1>5, <1>6 DEF GuestInv

-----------------------------------------------------------------------------
(* supervise() and shutdown().                                             *)

\* What is reaped is to be recorded.
LEMMA ReapStep ==
  ASSUME GuestInv, NEW back \in {"check", "grace", "drained", "unmount"}, Reap(back),
         pc \in {"wait", "grace", "drained"},
         reason # "none" \/ ShutdownTold => back # "check",
         UNCHANGED <<next, cur, reason, table, shutdown, boot, logs, hub>>,
         got' \in BOOLEAN, sig' \in BOOLEAN
  PROVE  GuestInv'
  <1>1. HubTypes' /\ StreamFromTheStart' /\ Story' /\ Silent
    BY NothingSaid DEF GuestInv
  <1>2. /\ todo' = Zombies /\ pc' = "record" /\ after' = back
        /\ proc' = [p \in Proc |-> IF p \in Zombies THEN "reaped" ELSE proc[p]]
    BY DEF Reap
  <1>3. /\ proc \in [Proc -> {"none", "up", "zombie", "reaped"}]
        /\ App \subseteq Proc /\ daemons \subseteq Proc /\ cur = {} /\ todo = {}
    BY DEF GuestInv, TypeOK, ControlOK, Proc
  <1>4. TypeOK'
    BY <1>1, <1>2, <1>3 DEF GuestInv, TypeOK, HubTypes, Who, Labels, Zombies, table, boot, logs
  <1>5. ControlOK'
    BY <1>1, <1>2, <1>3 DEF GuestInv, ControlOK, Closing, Silent, table
  <1>6. DaemonsOK'
    BY <1>2, <1>3 DEF GuestInv, DaemonsOK, Zombies, table
  <1>7. \A a \in App : AppOK(a)'
    BY <1>1, <1>2, <1>3 DEF GuestInv, AppOK, Silent, Zombies, Spawnless, table, logs
  <1> QED
    BY <1>1, <1>4, <1>5, <1>6, <1>7 DEF GuestInv

LEMMA WaitStep ==
  ASSUME GuestInv, Wait
  PROVE  GuestInv'
  <1>1. reason = "none" /\ ~ShutdownTold
    BY DEF GuestInv, Wait, ControlOK, Closing
  <1>2. got' \in BOOLEAN /\ sig' \in BOOLEAN
    BY DEF GuestInv, TypeOK, Wait
  <1> QED
    BY <1>1, <1>2, ReapStep DEF Wait

LEMMA GraceStep ==
  ASSUME GuestInv, Grace \/ GraceEnds \/ Drain
  PROVE  GuestInv'
  <1>1. got' \in BOOLEAN /\ sig' \in BOOLEAN
    BY DEF GuestInv, TypeOK, Grace, GraceEnds, Drain
  <1>2. CASE Grace
    BY <1>1, <1>2, ReapStep DEF Grace
  <1>3. CASE GraceEnds
    BY <1>1, <1>3, ReapStep DEF GraceEnds
  <1>4. CASE Drain /\ Reap("drained")
    BY <1>1, <1>4, ReapStep DEF Drain
  <1>5. CASE Drain /\ Reap("unmount")
    BY <1>1, <1>5, ReapStep DEF Drain
  <1> QED
    BY <1>2, <1>3, <1>4, <1>5 DEF Drain

\* An exit is recorded: the app's in its record, the daemon leaves its table.
LEMMA RecordStep ==
  ASSUME GuestInv, Record
  PROVE  GuestInv'
  <1>1. HubTypes' /\ StreamFromTheStart' /\ Story' /\ Silent
    BY NothingSaid DEF GuestInv, Record
  <1>2. PICK q \in todo :
          /\ todo' = todo \ {q} /\ cur' = {q} /\ exit' = exit \cup ({q} \cap App)
          /\ state' = [a \in App |-> IF a = q THEN "exited" ELSE state[a]]
          /\ daemons' = daemons \ {q}
    BY DEF Record
  <1>3. /\ pc = "record" /\ cur = {}
        /\ UNCHANGED <<pc, next, after, got, reason, proc, ready, shutdown, boot, logs, sig, hub>>
    BY DEF Record
  <1>4. TypeOK'
    BY <1>1, <1>2, <1>3 DEF GuestInv, TypeOK, HubTypes, Who, boot, logs
  <1>5. ControlOK' /\ DaemonsOK'
    BY <1>1, <1>2, <1>3 DEF GuestInv, ControlOK, DaemonsOK, Closing, Silent
  <1>6. ASSUME NEW a \in App PROVE AppOK(a)'
    <2>1. CASE a = q
      <3>1. /\ state'[a] = "exited" /\ a \in exit' /\ a \notin todo' /\ a \in cur'
            /\ proc[a] = "reaped" /\ ~Told("app_exited", a)
        BY <1>2, <2>1 DEF GuestInv, AppOK
      <3>2. state[a] \notin Spawnless /\ Told("app_started", a)
        BY <1>3, <3>1 DEF GuestInv, AppOK, TypeOK
      <3> QED
        BY <1>1, <1>3, <3>1, <3>2 DEF GuestInv, AppOK, Silent, Spawnless, logs
    <2>2. CASE a # q
      <3>1. /\ state'[a] = state[a] /\ a \in exit' <=> a \in exit
            /\ a \in todo' <=> a \in todo /\ a \notin cur' /\ a \notin cur
        BY <1>2, <1>3, <2>2
      <3>2. SameApp(a)
        BY <1>1, <1>2, <1>3, <2>2, <3>1 DEF SameApp, Silent, logs
      <3> QED
        BY <3>2, AppFrame DEF GuestInv
    <2> QED
      BY <2>1, <2>2
  <1> QED
    BY <1>1, <1>4, <1>5, <1>6 DEF GuestInv

\* An app's exit is told after it was recorded, for the first time, and after
\* its start.
LEMMA ReportStep ==
  ASSUME GuestInv, Report
  PROVE  GuestInv'
  <1>1. /\ pc = "record" /\ cur' = {}
        /\ UNCHANGED <<pc, next, after, todo, got, reason, proc, table, shutdown, boot, logs, sig>>
    BY DEF Report
  <1> DEFINE Kind(q) == IF q \in App THEN "app_exited" ELSE "daemon_exited"
  <1>2. PICK q \in cur : Post(Event(Kind(q), q))
    BY DEF Report
  <1>3. q \in Who /\ Kind(q) \in Kinds
    BY DEF GuestInv, TypeOK, Who, Kinds
  <1>4. q \in App => ~Told("app_exited", q) /\ Told("app_started", q)
    BY <1>1, <1>2 DEF GuestInv, AppOK, Spawnless
  <1>5. HubTypes' /\ StreamFromTheStart' /\ Story' /\ Tells(Kind(q), q)
    BY <1>2, <1>3, <1>4, PostStep DEF GuestInv, LifeKinds
  <1>6. TypeOK'
    BY <1>1, <1>5 DEF GuestInv, TypeOK, HubTypes, Who, table, boot, logs
  <1>7. ControlOK' /\ DaemonsOK'
    BY <1>1, <1>5 DEF GuestInv, ControlOK, DaemonsOK, Closing, Tells, table
  <1>8. \A a \in App : AppOK(a)'
    BY <1>1, <1>2, <1>5 DEF GuestInv, AppOK, Tells, Spawnless, table, logs
  <1> QED
    BY <1>5, <1>6, <1>7, <1>8 DEF GuestInv

LEMMA RecordedStep ==
  ASSUME GuestInv, Recorded
  PROVE  GuestInv'
  <1>1. HubTypes' /\ Silent
    BY NothingSaid DEF GuestInv, Recorded
  <1>2. /\ pc = "record" /\ pc' = after /\ after' = "check" /\ cur = {} /\ todo = {}
        /\ after \in {"check", "grace", "drained", "unmount"}
        /\ UNCHANGED <<next, todo, cur, got, reason, proc, table, shutdown, boot, logs, sig, hub>>
    BY DEF GuestInv, ControlOK, Recorded
  <1>3. TypeOK'
    BY <1>1, <1>2 DEF GuestInv, TypeOK, HubTypes, Who, Labels, table, boot, logs
  <1>4. ControlOK'
    BY <1>1, <1>2 DEF GuestInv, ControlOK, Closing, Silent, table
  <1> QED
    BY <1>2, <1>3, <1>4, AsideStep DEF logs

\* The reason of a shutdown that was asked for.
LEMMA CheckStep ==
  ASSUME GuestInv, Check
  PROVE  GuestInv'
  <1>1. HubTypes' /\ Silent
    BY NothingSaid DEF GuestInv, Check
  <1> DEFINE why == IF got /\ shutdown = "none" THEN "signal" ELSE shutdown
  <1>2. /\ pc = "check" /\ shutdown' = why /\ got' = FALSE
        /\ pc' = (IF why = "none" THEN "live" ELSE "term")
        /\ reason' = (IF why = "none" THEN reason ELSE why)
        /\ UNCHANGED <<next, after, todo, cur, proc, table, boot, logs, sig, hub>>
    BY DEF Check
  <1>3. why \in {"none", "host", "signal"} /\ reason = "none"
    BY <1>2 DEF GuestInv, TypeOK, ControlOK, Closing
  <1> HIDE DEF why
  <1>4. TypeOK'
    BY <1>1, <1>2, <1>3 DEF GuestInv, TypeOK, HubTypes, Who, Labels, Reasons, table, boot, logs
  <1>5. ControlOK'
    BY <1>1, <1>2, <1>3 DEF GuestInv, ControlOK, Closing, Silent, table
  <1> QED
    BY <1>2, <1>3, <1>4, <1>5, AsideStep DEF logs

\* The guest that shuts down because no app lives has reaped every app's process.
LEMMA CheckLiveStep ==
  ASSUME GuestInv, CheckLive
  PROVE  GuestInv'
  <1>1. HubTypes' /\ Silent
    BY NothingSaid DEF GuestInv, CheckLive
  <1>2. /\ pc = "live"
        /\ pc' = (IF Live = {} THEN "term" ELSE "wait")
        /\ reason' = (IF Live = {} THEN "exited" ELSE reason)
        /\ UNCHANGED <<next, after, todo, cur, got, proc, table, shutdown, boot, logs, sig, hub>>
    BY DEF CheckLive
  <1>3. TypeOK'
    BY <1>1, <1>2 DEF GuestInv, TypeOK, HubTypes, Who, Labels, Reasons, table, boot, logs
  <1>4. ControlOK'
    BY <1>1, <1>2 DEF GuestInv, ControlOK, Closing, Silent, table
  <1>5. Live = {} => \A a \in App : proc[a] \in {"none", "reaped"}
    <2>1. \A a \in App : state[a] \notin {"running", "ready"} => state[a] \in Spawnless \cup {"exited"}
      BY DEF GuestInv, TypeOK, Spawnless
    <2> QED
      BY <2>1 DEF Live, GuestInv, AppOK
  <1> QED
    BY <1>2, <1>3, <1>4, <1>5, AsideStep DEF logs

LEMMA ShuttingDownStep ==
  ASSUME GuestInv, ShuttingDown
  PROVE  GuestInv'
  <1>1. /\ pc = "term" /\ Post(Event("shutting_down", reason)) /\ Goto("grace")
        /\ UNCHANGED <<proc, table, shutdown, boot, logs, sig>>
    BY DEF ShuttingDown
  <1>2. reason \in Who
    BY DEF GuestInv, TypeOK, Who
  <1>3. HubTypes' /\ StreamFromTheStart' /\ Story' /\ Tells("shutting_down", reason)
    BY <1>1, <1>2, PostStep DEF GuestInv, Kinds, LifeKinds
  <1>4. TypeOK'
    BY <1>1, <1>3 DEF GuestInv, Goto, TypeOK, HubTypes, Who, Labels, table, boot, logs
  <1>5. ControlOK' /\ DaemonsOK'
    BY <1>1, <1>3 DEF GuestInv, Goto, ControlOK, DaemonsOK, Closing, Tells, table
  <1>6. \A a \in App : AppOK(a)'
    BY <1>1, <1>3 DEF GuestInv, Goto, AppOK, Tells, Spawnless, table, logs
  <1> QED
    BY <1>3, <1>4, <1>5, <1>6 DEF GuestInv

LEMMA PowerOffStep ==
  ASSUME GuestInv, PowerOff
  PROVE  GuestInv'
  <1>1. /\ pc = "unmount" /\ Post(Event("power_off", reason)) /\ Goto("off")
        /\ UNCHANGED <<proc, table, shutdown, boot, logs, sig>>
    BY DEF PowerOff
  <1>2. reason \in Who
    BY DEF GuestInv, TypeOK, Who
  <1>3. HubTypes' /\ StreamFromTheStart' /\ Story' /\ Tells("power_off", reason)
    BY <1>1, <1>2, PostStep DEF GuestInv, Kinds, LifeKinds
  <1>4. TypeOK'
    BY <1>1, <1>3 DEF GuestInv, Goto, TypeOK, HubTypes, Who, Labels, table, boot, logs
  <1>5. ControlOK' /\ DaemonsOK'
    BY <1>1, <1>3 DEF GuestInv, Goto, ControlOK, DaemonsOK, Closing, Tells, table
  <1>6. \A a \in App : AppOK(a)'
    BY <1>1, <1>3 DEF GuestInv, Goto, AppOK, Tells, Spawnless, table, logs
  <1> QED
    BY <1>3, <1>4, <1>5, <1>6 DEF GuestInv

-----------------------------------------------------------------------------
(* The control connections.                                                *)

LEMMA RequestShutdownStep ==
  ASSUME GuestInv, NEW r \in Reader, RequestShutdown(r)
  PROVE  GuestInv'
  <1>1. HubTypes' /\ Silent
    BY NothingSaid DEF GuestInv, RequestShutdown
  <1>2. TypeOK'
    BY <1>1 DEF GuestInv, RequestShutdown, TypeOK, HubTypes, Who, main, table, boot, logs
  <1>3. ControlOK'
    BY <1>1 DEF GuestInv, RequestShutdown, ControlOK, Closing, Silent, main, table
  <1> QED
    BY <1>2, <1>3, AsideStep DEF RequestShutdown, main, logs

\* A new connection is sent every event so far.
LEMMA AcceptStep ==
  ASSUME GuestInv, NEW r \in Reader, Accept(r)
  PROVE  GuestInv'
  <1>1. /\ UNCHANGED <<main, proc, table, shutdown, boot, logs, sig, events>>
        /\ \/ /\ conn' = [conn EXCEPT ![r] = "open"] /\ stream' = [stream EXCEPT ![r] = events]
              /\ readers' = readers \cup {r}
           \/ conn' = [conn EXCEPT ![r] = "closed"] /\ UNCHANGED <<stream, readers>>
    BY DEF Accept
  <1>2. Story' /\ Silent
    BY <1>1 DEF GuestInv, Story, Silent, Told, ShutdownTold
  <1>3. events \in Seq(Kinds \X Who) /\ stream \in [Reader -> Seq(Kinds \X Who)]
    BY DEF GuestInv, TypeOK, Who
  <1>4. events = SubSeq(events, 1, Len(events)) /\ Len(events) \in Nat
    BY <1>3, SubSeqFull, LenProperties
  <1>5. stream' \in [Reader -> Seq(Kinds \X Who)]
    BY <1>1, <1>3
  <1>6. StreamFromTheStart'
    <2>1. ASSUME NEW c \in Reader
          PROVE  stream'[c] = stream[c] \/ (c = r /\ stream'[c] = events /\ readers' = readers \cup {r})
      BY <1>1, <1>3
    <2>2. \A c \in Reader : c # r => (c \in readers' <=> c \in readers)
      BY <1>1
    <2>3. ASSUME NEW c \in Reader
          PROVE  /\ Len(stream'[c]) <= Len(events)
                 /\ stream'[c] = SubSeq(events, 1, Len(stream'[c]))
                 /\ c \in readers' => Len(stream'[c]) = Len(events)
      <3>1. CASE c = r /\ stream'[c] = events
        BY <1>4, <3>1
      <3>2. CASE stream'[c] = stream[c] /\ ~(c = r /\ stream'[c] = events)
        <4>1. c \in readers' <=> c \in readers
          BY <1>1, <1>3, <2>2, <3>2
        <4> QED
          BY <3>2, <4>1 DEF GuestInv, StreamFromTheStart
      <3> QED
        BY <2>1, <3>1, <3>2
    <2> QED
      BY <1>1, <2>3 DEF StreamFromTheStart
  <1>7. TypeOK'
    BY <1>1, <1>5 DEF GuestInv, TypeOK, Who, main, table, boot, logs
  <1>8. ControlOK' /\ DaemonsOK'
    BY <1>1, <1>2 DEF GuestInv, ControlOK, DaemonsOK, Closing, Silent, main, table
  <1>9. \A a \in App : AppOK(a)'
    BY <1>1, <1>2 DEF GuestInv, AppOK, Silent, main, table, logs
  <1> QED
    BY <1>2, <1>6, <1>7, <1>8, <1>9 DEF GuestInv

-----------------------------------------------------------------------------
(* The invariant, and what follows from it.                                *)

LEMMA InitHolds ==
  ASSUME Init
  PROVE  GuestInv
  <1>1. PICK c \in Configs :
          image = c.image /\ state = [a \in App |-> IF a \in c.apps THEN "pending" ELSE "absent"]
    BY DEF Init
  <1>2. c.image \subseteq Daemon /\ events = <<>> /\ events \in Seq(Kinds \X Who) /\ DOMAIN events = {}
    BY GuestAssumption, <1>1 DEF GuestAssumption, Daemon, Init
  <1>3. Len(events) = 0 /\ \A r \in Reader : stream[r] = <<>> /\ Len(stream[r]) = 0
    BY <1>2 DEF Init
  <1>4. stream \in [Reader -> Seq(Kinds \X Who)]
    BY <1>2 DEF Init
  <1>5. TypeOK
    BY <1>1, <1>2, <1>4 DEF Init, TypeOK, Labels, Reasons, Who
  <1>6. StreamFromTheStart
    <2>1. SubSeq(<<>>, 1, 0) = <<>>
      BY SubSeqEmpty
    <2> QED
      BY <1>2, <1>3, <2>1 DEF Init, StreamFromTheStart
  <1>7. (\A k, w : ~Told(k, w)) /\ ~ShutdownTold /\ Story
    BY <1>2 DEF Told, ShutdownTold, Story
  <1>8. ControlOK /\ DaemonsOK
    BY <1>7 DEF Init, ControlOK, DaemonsOK
  <1>9. \A a \in App : AppOK(a)
    BY <1>1, <1>7 DEF Init, AppOK, Spawnless, Proc
  <1> QED
    BY <1>5, <1>6, <1>7, <1>8, <1>9 DEF GuestInv

LEMMA GuestStep ==
  ASSUME GuestInv, [Next]_vars
  PROVE  GuestInv'
  <1>1. CASE UNCHANGED vars
    <2>1. HubTypes' /\ Silent
      BY <1>1, NothingSaid DEF GuestInv, vars
    <2>2. TypeOK'
      BY <1>1, <2>1 DEF GuestInv, vars, main, table, boot, logs, TypeOK, HubTypes, Who
    <2>3. ControlOK'
      BY <1>1, <2>1 DEF GuestInv, vars, main, table, ControlOK, Closing, Silent
    <2> QED
      BY <1>1, <2>2, <2>3, AsideStep DEF vars, main, logs
  <1>2. CASE Main
    BY <1>2, PrepareStep, StartSemanticFsStep, CompilePoliciesStep, StartDaemonStep,
       DaemonsStartedStep, RefuseAppStep, SpawnAppStep, AppStartedStep, AttachStep,
       BootCompleteStep, WaitStep, RecordStep, ReportStep, RecordedStep, CheckStep,
       CheckLiveStep, ShuttingDownStep, GraceStep, PowerOffStep DEF Main
  <1>3. CASE \E a \in App : PrintReady(a) \/ ReadLine(a) \/ Announce(a)
    BY <1>3, PrintReadyStep, ReadLineStep, AnnounceStep
  <1>4. CASE \E p \in Proc : ProcessExits(p)
    BY <1>4, ProcessExitsStep
  <1>5. CASE Signal
    BY <1>5, SignalStep
  <1>6. CASE \E r \in Reader : Accept(r) \/ RequestShutdown(r)
    BY <1>6, AcceptStep, RequestShutdownStep
  <1>7. CASE Off
    BY <1>1, <1>7 DEF Off
  <1> QED
    BY <1>1, <1>2, <1>3, <1>4, <1>5, <1>6, <1>7 DEF Next

\* A set of at most one element.
LEMMA AtMostOne ==
  ASSUME NEW S, \A i, j \in S : i = j
  PROVE  Cardinality(S) <= 1
  <1>1. CASE S = {}
    BY <1>1, FS_EmptySet
  <1>2. CASE S # {}
    <2>1. PICK i \in S : TRUE
      BY <1>2
    <2>2. S = {i}
      BY <2>1
    <2>3. Cardinality({i}) = 1
      BY FS_Singleton
    <2> QED
      BY <2>2, <2>3
  <1> QED
    BY <1>1, <1>2

LEMMA StoryIsLife ==
  ASSUME Story
  PROVE  LifeIsTold
  <1>1. ASSUME NEW a \in App, NEW k \in {"app_started", "app_ready", "app_exited"}
        PROVE  Cardinality(At(k, a)) <= 1
    <2>1. \A i, j \in At(k, a) : i = j
      BY DEF Story, At, LifeKinds
    <2> QED
      BY <2>1, AtMostOne
  <1>2. ASSUME NEW a \in App
        PROVE  Before(At("app_started", a), At("app_ready", a) \cup At("app_exited", a))
    BY DEF Story, Before, At
  <1> QED
    BY <1>1, <1>2 DEF Story, LifeIsTold

LEMMA InvIsFaithful ==
  ASSUME GuestInv
  PROVE  GuestIsFaithful
  <1>1. SignalsItsOwn
    <2> SUFFICES ASSUME pc \in {"term", "grace", "drained"}, NEW p \in Pids
                 PROVE  proc[p] \in {"up", "zombie"}
      BY DEF SignalsItsOwn
    <2>1. todo = {}
      BY DEF GuestInv, ControlOK
    <2>2. CASE p \in daemons
      BY <2>1, <2>2 DEF GuestInv, DaemonsOK
    <2>3. CASE p \in App \ exit /\ state[p] \notin Spawnless
      BY <2>1, <2>3 DEF GuestInv, AppOK, TypeOK, Proc
    <2> QED
      BY <2>2, <2>3 DEF Pids, Spawnless
  <1>2. NoAppCutOff
    BY DEF GuestInv, AppOK, NoAppCutOff
  <1> QED
    BY <1>1, <1>2, StoryIsLife DEF GuestInv, GuestIsFaithful

LEMMA InvAlways == Spec => []GuestInv
  <1>1. Init => GuestInv
    BY InitHolds
  <1>2. GuestInv /\ [Next]_vars => GuestInv'
    BY GuestStep
  <1> QED
    BY <1>1, <1>2, PTL DEF Spec

\* main.rs, hub.rs: in every guest, whatever its apps and daemons do, whoever
\* connects and when, the host is sent the events of the boot without a gap,
\* every app is told to be started, ready and gone at most once and in this
\* order, no signal goes to a pid that was reaped, and the guest that shuts
\* down because no app lives leaves no app's process behind.
THEOREM GuestStaysFaithful == VmSpec => []GuestIsFaithful
  <1>1. VmInit => GuestInv
    BY InitHolds DEF VmInit, NoGuest
  <1>2. GuestInv /\ [VmNext]_both => GuestInv'
    <2>1. [VmNext]_both => [Next]_vars
      BY DEF VmNext, both
    <2> QED
      BY <2>1, GuestStep
  <1>3. GuestInv => GuestIsFaithful
    BY InvIsFaithful
  <1> QED
    BY <1>1, <1>2, <1>3, PTL DEF VmSpec
-----------------------------------------------------------------------------
(* The installation of what a microVM needs.  A temporary file that is      *)
(* about to be renamed is the pinned file.                                  *)

Kind == {"vmm", "libkrun", "image"}

PartIsPinned(p) ==
  /\ io[p] # "none" => pin[p].rel \in Release /\ pin[p].kind \in Kind
  /\ io[p] = "rename" => partial[p] = Install!Full(pin[p].rel)

InstallInv ==
  /\ DOMAIN disk = Install!Path /\ DOMAIN partial = Installer /\ DOMAIN io = Installer /\ DOMAIN pin = Installer
  /\ \A p \in Installer : PartIsPinned(p)

\* Every command is of a release there is.
InstallAssumption == \A p \in Installer : CliOf[p] \in Release

\* What is booted is of a release.
LEMMA ActiveIsReleased ==
  ASSUME InstallAssumption, NEW p \in Installer
  PROVE  Install!ActivePins(p) \in Release
  <1>1. CASE Install!VmmPins(Install!Vmm) = 0
    BY <1>1 DEF Install!ActivePins, InstallAssumption
  <1>2. CASE Install!VmmPins(Install!Vmm) # 0
    <2> DEFINE Here(r) == Install!Vmm \in {Install!Full(r), Install!Full(-r)}
    <2>1. \E r \in Release : Here(r)
      BY <1>2 DEF Install!VmmPins
    <2>2. Install!VmmPins(Install!Vmm) = CHOOSE r \in Release : Here(r)
      BY <2>1 DEF Install!VmmPins
    <2> HIDE DEF At
    <2>3. (CHOOSE r \in Release : Here(r)) \in Release
      BY <2>1
    <2> QED
      BY <1>2, <2>2, <2>3 DEF Install!ActivePins
  <1> QED
    BY <1>1, <1>2

\* A step of command p, which leaves the files of the others alone.
LEMMA InstallMoves ==
  ASSUME InstallInv, NEW p \in Installer, DOMAIN disk' = Install!Path,
         DOMAIN partial' = Installer, DOMAIN io' = Installer, DOMAIN pin' = Installer,
         \A q \in Installer : q # p => partial'[q] = partial[q] /\ io'[q] = io[q] /\ pin'[q] = pin[q],
         PartIsPinned(p)'
  PROVE  InstallInv'
  <1>1. ASSUME NEW q \in Installer, q # p PROVE PartIsPinned(q)'
    BY <1>1 DEF InstallInv, PartIsPinned, Install!Full
  <1>2. Install!Path' = Install!Path
    BY DEF Install!Path
  <1> QED
    BY <1>1, <1>2 DEF InstallInv

LEMMA FailKeeps ==
  ASSUME InstallInv, NEW p \in Installer, Install!Fail(p), disk' = disk
  PROVE  InstallInv'
  <1>1. /\ partial' = [partial EXCEPT ![p] = NoFile] /\ io' = [io EXCEPT ![p] = "none"]
        /\ pin' = [pin EXCEPT ![p] = Install!NoPin]
    BY DEF Install!Fail, Install!Tmp
  <1>2. DOMAIN disk = Install!Path /\ DOMAIN partial = Installer /\ DOMAIN io = Installer /\ DOMAIN pin = Installer
    BY DEF InstallInv
  <1>3. io'[p] = "none"
    BY <1>1, <1>2
  <1>4. PartIsPinned(p)'
    BY <1>3 DEF PartIsPinned
  <1> QED
    BY <1>1, <1>2, <1>4, InstallMoves

\* installArtifacts of one pin.
LEMMA InstallOneKeeps ==
  ASSUME InstallInv, NEW p \in Installer, NEW k \in Kind, NEW r \in Release, NEW force, NEW onward,
         Install!InstallOne(p, k, r, force, onward), UNCHANGED <<disk, partial>>
  PROVE  InstallInv'
  <1>1. DOMAIN disk = Install!Path /\ DOMAIN partial = Installer /\ DOMAIN io = Installer /\ DOMAIN pin = Installer /\ PartIsPinned(p)
    BY DEF InstallInv
  <1>2. \/ UNCHANGED <<io, pin>>
        \/ io' = [io EXCEPT ![p] = "copy"] /\ pin' = [pin EXCEPT ![p] = [kind |-> k, rel |-> r]]
    BY DEF Install!InstallOne
  <1>3. CASE UNCHANGED <<io, pin>>
    BY <1>1, <1>3, InstallMoves DEF PartIsPinned, Install!Full
  <1>4. CASE io' = [io EXCEPT ![p] = "copy"] /\ pin' = [pin EXCEPT ![p] = [kind |-> k, rel |-> r]]
    <2>1. io'[p] = "copy" /\ pin'[p].kind = k /\ pin'[p].rel = r
      BY <1>1, <1>4
    <2>2. PartIsPinned(p)'
      BY <2>1 DEF PartIsPinned
    <2> QED
      BY <1>1, <1>4, <2>2, InstallMoves
  <1> QED
    BY <1>2, <1>3, <1>4

\* A step within a download, from a state of it to another before the rename.
LEMMA DownloadMoves ==
  ASSUME InstallInv, NEW p \in Installer, io[p] # "none", disk' = disk, pin' = pin,
         NEW b, partial' = [partial EXCEPT ![p] = b] \/ partial' = partial,
         NEW s, s # "rename", io' = [io EXCEPT ![p] = s] \/ (io' = io /\ io[p] # "rename")
  PROVE  InstallInv'
  <1>1. DOMAIN disk = Install!Path /\ DOMAIN partial = Installer /\ DOMAIN io = Installer /\ DOMAIN pin = Installer /\ PartIsPinned(p)
    BY DEF InstallInv
  <1>2. io'[p] # "rename" /\ pin'[p] = pin[p]
    BY <1>1
  <1>3. PartIsPinned(p)'
    BY <1>1, <1>2 DEF PartIsPinned
  <1> QED
    BY <1>1, <1>3, InstallMoves

LEMMA InstallStep ==
  ASSUME InstallAssumption, InstallInv, Install!Next
  PROVE  InstallInv' /\ Install!VerifiedStep
  <1>1. PICK p \in Installer : Install!Step(p) \/ Install!Server(p) \/ Install!Kill(p)
    BY DEF Install!Next
  <1>2. DOMAIN disk = Install!Path /\ DOMAIN partial = Installer /\ DOMAIN io = Installer /\ DOMAIN pin = Installer /\ PartIsPinned(p)
    BY DEF InstallInv
  <1>3. disk' = disk => Install!VerifiedStep
    BY DEF Install!VerifiedStep
  <1>4. ASSUME UNCHANGED <<disk, partial, io, pin>> PROVE InstallInv'
    BY <1>2, <1>4, InstallMoves DEF PartIsPinned, Install!Full
  <1>5. CASE Install!Start(p) \/ Install!Link(p) \/ Install!RequireHost(p)
    <2>1. UNCHANGED <<disk, partial, io, pin>>
      BY <1>5 DEF Install!Start, Install!Link, Install!RequireHost
    <2> QED
      BY <1>3, <1>4, <2>1
  <1>6. CASE Install!InstallVmm(p) \/ Install!InstallLibkrun(p)
    <2>1. UNCHANGED <<disk, partial>>
      BY <1>6 DEF Install!InstallVmm, Install!InstallLibkrun, Install!Quiet
    <2>2. \/ UNCHANGED <<io, pin>>
          \/ Install!InstallOne(p, "vmm", CliOf[p], TRUE, "libkrun")
          \/ Install!InstallOne(p, "libkrun", CliOf[p], cmd[p].force, "link")
      BY <1>6 DEF Install!InstallVmm, Install!InstallLibkrun
    <2>3. CliOf[p] \in Release /\ "vmm" \in Kind /\ "libkrun" \in Kind
      BY DEF InstallAssumption, Kind
    <2>4. InstallInv'
      <3>1. CASE UNCHANGED <<io, pin>>
        BY <1>4, <2>1, <3>1
      <3>2. CASE Install!InstallOne(p, "vmm", CliOf[p], TRUE, "libkrun")
        BY <2>1, <2>3, <3>2, InstallOneKeeps
      <3>3. CASE Install!InstallOne(p, "libkrun", CliOf[p], cmd[p].force, "link")
        BY <2>1, <2>3, <3>3, InstallOneKeeps
      <3> QED
        BY <2>2, <3>1, <3>2, <3>3
    <2> QED
      BY <1>3, <2>1, <2>4
  <1>7. CASE Install!EnsureArtifacts(p)
    <2> DEFINE onward == IF cmd[p].auto THEN "ready" ELSE "host"
    <2>1. UNCHANGED <<disk, partial>>
      BY <1>7 DEF Install!EnsureArtifacts, Install!Quiet
    <2>2. \/ UNCHANGED <<io, pin>>
          \/ Install!InstallOne(p, "image", Install!ActivePins(p), cmd[p].force, onward)
      BY <1>7 DEF Install!EnsureArtifacts
    <2>3. Install!ActivePins(p) \in Release /\ "image" \in Kind
      BY ActiveIsReleased DEF Kind
    <2> HIDE DEF onward
    <2>4. InstallInv'
      <3>1. CASE UNCHANGED <<io, pin>>
        BY <1>4, <2>1, <3>1
      <3>2. CASE Install!InstallOne(p, "image", Install!ActivePins(p), cmd[p].force, onward)
        BY <2>1, <2>3, <3>2, InstallOneKeeps
      <3> QED
        BY <2>2, <3>1, <3>2
    <2> QED
      BY <1>3, <2>1, <2>4
  <1>8. CASE Install!Copy(p)
    <2>1. io[p] = "copy" /\ disk' = disk
      BY <1>8 DEF Install!Copy, Install!Download
    <2>2. \/ Install!Fail(p)
          \/ pin' = pin /\ \E c, s : /\ s # "rename" /\ partial' = [partial EXCEPT ![p] = c] /\ io' = [io EXCEPT ![p] = s]
      BY <1>8 DEF Install!Copy, Install!Download, Install!Tmp
    <2>3. InstallInv'
      BY <2>1, <2>2, FailKeeps, DownloadMoves
    <2> QED
      BY <1>3, <2>1, <2>3
  <1>9. CASE Install!Respond(p) \/ Install!Chunk(p) \/ Install!BodyEnds(p) \/ Install!WrongLength(p)
    <2>1. io[p] \in {"request", "body"} /\ disk' = disk
      BY <1>9 DEF Install!Respond, Install!Chunk, Install!BodyEnds, Install!WrongLength
    <2>2. \/ Install!Fail(p)
          \/ /\ pin' = pin /\ (partial' = partial \/ \E c : partial' = [partial EXCEPT ![p] = c])
             /\ io' = io \/ \E s : s # "rename" /\ io' = [io EXCEPT ![p] = s]
      <3>1. CASE Install!Respond(p)
        BY <3>1 DEF Install!Respond, Install!Tmp
      <3>2. CASE Install!Chunk(p)
        BY <3>2 DEF Install!Chunk, Install!Tmp
      <3>3. CASE Install!BodyEnds(p)
        BY <3>3 DEF Install!BodyEnds
      <3>4. CASE Install!WrongLength(p)
        BY <3>4 DEF Install!WrongLength
      <3> QED
        BY <1>9, <3>1, <3>2, <3>3, <3>4
    <2>3. InstallInv'
      BY <2>1, <2>2, FailKeeps, DownloadMoves
    <2> QED
      BY <1>3, <2>1, <2>3
  <1>10. CASE Install!Broken(p) \/ Install!Stall(p)
    <2>1. io[p] \in {"request", "body"} /\ disk' = disk
      BY <1>10 DEF Install!Broken, Install!Stall, Install!AttemptFails
    <2>2. \/ Install!Fail(p)
          \/ pin' = pin /\ partial' = partial /\ \E s : s # "rename" /\ io' = [io EXCEPT ![p] = s]
      BY <1>10 DEF Install!Broken, Install!Stall, Install!AttemptFails
    <2>3. InstallInv'
      BY <2>1, <2>2, FailKeeps, DownloadMoves
    <2> QED
      BY <1>3, <2>1, <2>3
  <1>11. CASE Install!Verify(p)
    <2>1. io[p] = "verify" /\ disk' = disk
      BY <1>11 DEF Install!Verify
    <2>2. \/ Install!Fail(p)
          \/ /\ partial[p] = Install!Full(pin[p].rel)
             /\ io' = [io EXCEPT ![p] = "rename"] /\ UNCHANGED <<partial, pin>>
      BY <1>11 DEF Install!Verify, Install!Verifies, Install!Tmp
    <2>3. ASSUME partial[p] = Install!Full(pin[p].rel), io' = [io EXCEPT ![p] = "rename"], UNCHANGED <<partial, pin>>
          PROVE  InstallInv'
      <3>1. PartIsPinned(p)'
        BY <1>2, <2>1, <2>3 DEF PartIsPinned, Install!Full
      <3> QED
        BY <1>2, <2>1, <2>3, <3>1, InstallMoves
    <2>4. InstallInv'
      BY <2>1, <2>2, <2>3, FailKeeps
    <2> QED
      BY <1>3, <2>1, <2>4
  <1>12. CASE Install!Rename(p)
    <2> DEFINE q == Install!ArtifactPath(pin[p])
    <2>1. /\ io[p] = "rename" /\ disk' = [disk EXCEPT ![q] = partial[p]]
          /\ partial' = [partial EXCEPT ![p] = NoFile] /\ io' = [io EXCEPT ![p] = "none"]
          /\ pin' = [pin EXCEPT ![p] = Install!NoPin]
      BY <1>12 DEF Install!Rename, Install!Tmp
    <2>2. partial[p] = Install!Full(pin[p].rel) /\ pin[p].rel \in Release /\ pin[p].kind \in Kind
      BY <1>2, <2>1 DEF PartIsPinned
    <2>3. q = Install!ArtifactPath([kind |-> pin[p].kind, rel |-> pin[p].rel])
      BY DEF Install!ArtifactPath
    <2> HIDE DEF q
    <2>4. InstallInv'
      <3>1. io'[p] = "none"
        BY <1>2, <2>1
      <3>2. PartIsPinned(p)'
        BY <3>1 DEF PartIsPinned
      <3> QED
        BY <1>2, <2>1, <3>2, InstallMoves
    <2>5. Install!VerifiedStep
      <3> SUFFICES ASSUME NEW x \in Install!Path, disk'[x] # disk[x]
                   PROVE  \E r \in Release : disk'[x] = Install!Full(r) /\ \E k \in Kind :
                            Install!ArtifactPath([kind |-> k, rel |-> r]) = x
        BY DEF Install!VerifiedStep, Kind
      <3>1. x = q /\ disk'[x] = partial[p]
        BY <1>2, <2>1
      <3> QED
        BY <2>2, <2>3, <3>1
    <2> QED
      BY <2>4, <2>5
  <1>13. CASE Install!Kill(p)
    <2>1. io' = [io EXCEPT ![p] = "none"] /\ pin' = [pin EXCEPT ![p] = Install!NoPin] /\ UNCHANGED <<disk, partial>>
      BY <1>13 DEF Install!Kill
    <2>2. io'[p] = "none"
      BY <1>2, <2>1
    <2>3. PartIsPinned(p)'
      BY <2>2 DEF PartIsPinned
    <2>4. InstallInv'
      BY <1>2, <2>1, <2>3, InstallMoves
    <2> QED
      BY <1>3, <2>1, <2>4
  <1> QED
    BY <1>1, <1>5, <1>6, <1>7, <1>8, <1>9, <1>10, <1>11, <1>12, <1>13 DEF Install!Step, Install!Server

(* What changes at a final path becomes exactly the file that path is pinned *)
(* to, whatever the servers send, for how long they stall, which attempts    *)
(* fail and when commands are killed (vm/artifacts.ts).                      *)
THEOREM NothingUnverifiedIsLeft ==
  ASSUME InstallAssumption
  PROVE  VmSpec => NothingUnverified
  <1>1. Install!Init => InstallInv
    <2> SUFFICES ASSUME Install!Init PROVE InstallInv
      OBVIOUS
    <2>1. DOMAIN disk = Install!Path
      BY DEF Install!Init
    <2> QED
      BY <2>1 DEF Install!Init, InstallInv, PartIsPinned
  <1>2. ASSUME InstallInv, [Install!Next]_Install!vars PROVE InstallInv' /\ [Install!VerifiedStep]_Install!vars
    <2>1. CASE Install!Next
      BY <1>2, <2>1, InstallStep
    <2>2. CASE UNCHANGED Install!vars
      BY <1>2, <2>2 DEF InstallInv, PartIsPinned, Install!Full, Install!Path, Install!vars
    <2> QED
      BY <1>2, <2>1, <2>2
  <1>3. VmInit => (part = "install" => InstallInv)
    BY <1>1 DEF VmInit
  <1>4. ASSUME part = "install" => InstallInv, [VmNext]_both
        PROVE  /\ (part = "install" => InstallInv)'
               /\ [part = "install" => Install!VerifiedStep]_both
    <2>1. part' = part
      BY <1>4 DEF VmNext, both
    <2>2. CASE part = "install"
      <3>1. [Install!Next]_Install!vars
        BY <1>4, <2>2 DEF VmNext, both, installation, Install!vars
      <3>2. [Install!VerifiedStep]_Install!vars /\ InstallInv'
        BY <1>2, <1>4, <2>2, <3>1
      <3>3. UNCHANGED Install!vars => Install!VerifiedStep
        BY DEF Install!vars, Install!VerifiedStep
      <3> QED
        BY <2>1, <2>2, <3>2, <3>3
    <2> QED
      BY <2>1, <2>2
  <1> QED
    BY <1>3, <1>4, PTL DEF VmSpec, NothingUnverified
=============================================================================
