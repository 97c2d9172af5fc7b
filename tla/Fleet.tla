------------------------------- MODULE Fleet -------------------------------
(***************************************************************************)
(* Deploying to a fleet: `berth deploy`, `berth fleet scale` and the       *)
(* remote `berth snapshot` commands, over the adapters of three providers, *)
(* with the file of started instances they keep for each fleet; and a peer *)
(* agent deployed through an adapter and reached over its RPC bridge.      *)
(*                                                                         *)
(* The file is read whole and written whole, in place: between the open    *)
(* that empties it and the write, a reader finds no JSON and takes it for  *)
(* an empty one.  Together says whether commands run at the same time.     *)
(***************************************************************************)
EXTENDS Integers, Sequences, FiniteSets

CONSTANTS
  App,
  Cmd,          \* commands: 1 .. n, as they begin
  Instance,     \* what the provider can start: 1 .. n
  MaxCount,     \* the largest --count
  Together,
  None

\* Instances are numbered as the provider creates them.
FleetAssumption == Instance \subseteq Nat /\ None \notin Instance /\ MaxCount \in Nat

Torn == <<None>>

VARIABLES
  provider,   \* "e2b", "daytona" or "k8s"
  cloud,      \* each instance: "none", "running", "paused" or "gone"
  app,        \* its app
  answered,   \* the instances whose start() answered a command
  file,       \* the recorded instances, or Torn
  cmd,        \* each command
  services,   \* Services of the cluster: [on |-> instance, labels |-> instances]
  peer        \* the peer: [at |-> step, on |-> instance]

vars == <<provider, cloud, app, answered, file, cmd, services, peer>>

Idle == [at |-> "new", op |-> None, app |-> None, count |-> 0, left |-> 0, hand |-> None, todo |-> <<>>, read |-> <<>>]

Init ==
  /\ provider \in {"e2b", "daytona", "k8s"}
  /\ cloud = [i \in Instance |-> "none"]
  /\ app = [i \in Instance |-> None]
  /\ answered = {}
  /\ file = <<>>
  /\ cmd = [c \in Cmd |-> Idle]
  /\ services = {}
  /\ peer = [at |-> "new", on |-> None]

\* What a provider's adapter has, of the optional methods.
HasConnect == provider # "k8s"
HasPause == provider = "e2b"
HasFork == provider = "daytona"

Ended(c) == cmd[c].at \in {"new", "done", "failed"}

Recorded == IF file = Torn THEN <<>> ELSE file

Set(c, f) == cmd' = [cmd EXCEPT ![c] = f]
Over(c, how) == [Idle EXCEPT !.at = how, !.op = cmd[c].op, !.app = cmd[c].app, !.count = cmd[c].count]
Fail(c) == Set(c, Over(c, "failed"))

\* The next instance the provider creates.
NextInstance == CHOOSE i \in Instance : cloud[i] = "none" /\ \A j \in Instance : cloud[j] = "none" => i <= j
Room == \E i \in Instance : cloud[i] = "none"

---------------------------------------------------------------------------
(* Deploying and scaling.                                                  *)

MayBegin(c) ==
  /\ cmd[c].at = "new" /\ \A d \in Cmd : d < c => cmd[d].at # "new"
  /\ Together \/ \A d \in Cmd : Ended(d)

Deploy(c, a, n) ==
  /\ MayBegin(c)
  /\ Set(c, [Idle EXCEPT !.at = "upload", !.op = "deploy", !.app = a, !.count = n, !.left = n])
  /\ UNCHANGED <<provider, cloud, app, answered, file, services, peer>>

CurrentOfAll(a) == Recorded

\* Those of a list of instances that are in S, in its order.
Among(list, S) ==
  LET kept[n \in 0 .. Len(list)] ==
        IF n = 0 THEN <<>>
        ELSE IF list[n] \in S THEN Append(kept[n - 1], list[n]) ELSE kept[n - 1]
  IN  kept[Len(list)]

\* The recorded instances of an app, in the order they were started in.
Current(a) == Among(Recorded, {i \in Instance : app[i] = a})

Scale(c, a, n) ==
  /\ MayBegin(c)
  /\ LET current == Current(a)
         base == [Idle EXCEPT !.op = "scale", !.app = a, !.count = n]
     IN  \/ /\ Len(current) = n
            /\ Set(c, [base EXCEPT !.at = "done"])
         \/ /\ Len(current) > n
            /\ LET surplus == SubSeq(current, n + 1, Len(current))
               IN Set(c, IF HasConnect THEN [base EXCEPT !.at = "stop", !.todo = surplus, !.hand = surplus]
                         ELSE [base EXCEPT !.at = "failed"])
         \/ /\ Len(current) < n
            /\ Set(c, [base EXCEPT !.at = "upload", !.left = n - Len(current)])
  /\ UNCHANGED <<provider, cloud, app, answered, file, services, peer>>

\* upload(): a template, a snapshot, or nothing at all.
Upload(c) ==
  /\ cmd[c].at = "upload"
  /\ Set(c, [cmd[c] EXCEPT !.at = "start"]) \/ Fail(c)
  /\ UNCHANGED <<provider, cloud, app, answered, file, services, peer>>

Starts(i, a) == cloud' = [cloud EXCEPT ![i] = "running"] /\ app' = [app EXCEPT ![i] = a]

\* start(): answered; or it failed; or timed out, and the provider made it
\* all the same.
Start(c) ==
  /\ cmd[c].at = "start" /\ cmd[c].left > 0
  /\ \/ /\ Room /\ Starts(NextInstance, cmd[c].app)
        /\ answered' = answered \cup {NextInstance}
        /\ Set(c, [cmd[c] EXCEPT !.at = "append", !.hand = <<NextInstance>>])
     \/ /\ Fail(c)
        /\ \/ UNCHANGED <<cloud, app>>
           \/ Room /\ Starts(NextInstance, cmd[c].app)
        /\ UNCHANGED answered
  /\ UNCHANGED <<provider, file, services, peer>>

RecordAtEnd(c) ==
  /\ cmd[c].at = "append"
  /\ Set(c, IF cmd[c].left > 1
            THEN [cmd[c] EXCEPT !.at = "start", !.left = @ - 1, !.todo = @ \o cmd[c].hand]
            ELSE [cmd[c] EXCEPT !.at = "write", !.left = @ - 1, !.read = Recorded \o cmd[c].todo \o cmd[c].hand])
  /\ UNCHANGED <<provider, cloud, app, answered, file, services, peer>>

\* appendFleetInstances(), as each instance starts: the read.
Record(c) ==
  /\ cmd[c].at = "append"
  /\ Set(c, [cmd[c] EXCEPT !.at = "write", !.left = @ - 1, !.read = Recorded \o cmd[c].hand])
  /\ UNCHANGED <<provider, cloud, app, answered, file, services, peer>>

\* removeFleetInstances(): the read.
Unrecord(c) ==
  /\ cmd[c].at = "remove"
  /\ LET stopped == {cmd[c].hand[k] : k \in DOMAIN cmd[c].hand}
     IN  Set(c, [cmd[c] EXCEPT !.at = "write", !.read = Among(Recorded, Instance \ stopped)])
  /\ UNCHANGED <<provider, cloud, app, answered, file, services, peer>>

\* writeFile(): the file is emptied, then written.
Write(c) ==
  /\ cmd[c].at = "write"
  /\ file' = Torn
  /\ Set(c, [cmd[c] EXCEPT !.at = "written"])
  /\ UNCHANGED <<provider, cloud, app, answered, services, peer>>

\* Where a command goes when an instance is recorded: on to the next one.
Onward(c) == IF cmd[c].left > 0 THEN [cmd[c] EXCEPT !.at = "start", !.hand = None, !.read = <<>>] ELSE Over(c, "done")

Written(c) ==
  /\ cmd[c].at = "written"
  /\ file' = cmd[c].read
  /\ Set(c, IF cmd[c].op = "deploy" THEN [cmd[c] EXCEPT !.at = "preview", !.read = <<>>] ELSE Onward(c))
  /\ UNCHANGED <<provider, cloud, app, answered, services, peer>>

\* A Service of the cluster names its instance in its selector only.
NewService(i) == [on |-> i, labels |-> {}]

\* previewUrl() of the instance just recorded, for the ports of its manifest;
\* a deployment whose app has none asks for nothing.
Preview(c) ==
  /\ cmd[c].at = "preview"
  /\ \/ services' = IF provider = "k8s" THEN services \cup {NewService(cmd[c].hand[1])} ELSE services
     \/ UNCHANGED services
  /\ Set(c, Onward(c)) \/ Fail(c)
  /\ UNCHANGED <<provider, cloud, app, answered, file, peer>>

\* connect() and teardown() of the next instance to go: a stopped e2b sandbox
\* cannot be connected to; a teardown that times out may have stopped it.
Stop(c) ==
  /\ cmd[c].at = "stop"
  /\ IF cmd[c].todo = <<>>
     THEN Set(c, [cmd[c] EXCEPT !.at = "remove"]) /\ UNCHANGED cloud
     ELSE LET i == Head(cmd[c].todo)
          IN  \/ /\ provider # "e2b" \/ cloud[i] # "gone"
                 /\ cloud' = [cloud EXCEPT ![i] = "gone"]
                 /\ Set(c, [cmd[c] EXCEPT !.todo = Tail(@)]) \/ Fail(c)
              \/ Fail(c) /\ UNCHANGED cloud
  /\ UNCHANGED <<provider, app, answered, file, services, peer>>

---------------------------------------------------------------------------
(* Remote snapshots, each one command that is over in a call.              *)

Snapshot(c, i) ==
  /\ MayBegin(c) /\ \E k \in DOMAIN Recorded : Recorded[k] = i
  /\ HasConnect /\ cloud[i] = "running"
  /\ cloud' = IF HasPause THEN [cloud EXCEPT ![i] = "paused"] ELSE cloud
  /\ Set(c, [Idle EXCEPT !.op = "snapshot", !.at = "done"])
  /\ UNCHANGED <<provider, app, answered, file, services, peer>>

Restore(c, i) ==
  /\ MayBegin(c) /\ HasPause /\ cloud[i] = "paused"
  /\ cloud' = [cloud EXCEPT ![i] = "running"]
  /\ Set(c, [Idle EXCEPT !.op = "restore", !.at = "done"])
  /\ UNCHANGED <<provider, app, answered, file, services, peer>>

\* The fork is a new instance, which is not recorded.
Fork(c, i) ==
  /\ MayBegin(c) /\ \E k \in DOMAIN Recorded : Recorded[k] = i
  /\ HasFork /\ cloud[i] = "running" /\ Room
  /\ Starts(NextInstance, app[i])
  /\ Set(c, [Idle EXCEPT !.op = "fork", !.at = "done"])
  /\ UNCHANGED <<provider, answered, file, services, peer>>

---------------------------------------------------------------------------
(* A peer agent deployed through an adapter.                               *)

PeerStart(a) ==
  /\ peer.at = "new" /\ Room
  /\ Starts(NextInstance, a)
  /\ peer' = [at |-> "bridge", on |-> NextInstance]
  /\ UNCHANGED <<provider, answered, file, cmd, services>>

\* rpcUrl(), again until there is one: a Service that is there already is used.
RpcUrl ==
  /\ peer.at = "bridge"
  /\ services' = IF provider = "k8s" THEN services \cup {NewService(peer.on)} ELSE services
  /\ \/ UNCHANGED peer
     \/ peer' = [peer EXCEPT !.at = "ready"]
  /\ UNCHANGED <<provider, cloud, app, answered, file, cmd>>

\* deleteServices() selects them by label.
Selected(i) == {s \in services : i \in s.labels}

\* stop(), or a bridge that never came up; the deletion of the Services is a
\* second call, whose failure is logged.
Teardown ==
  /\ peer.at \in {"bridge", "ready"}
  /\ cloud' = [cloud EXCEPT ![peer.on] = "gone"]
  /\ services' = services \ Selected(peer.on)
  /\ peer' = [peer EXCEPT !.at = "stopped"]
  /\ UNCHANGED <<provider, app, answered, file, cmd>>

Next ==
  \/ \E c \in Cmd, a \in App, n \in 0 .. MaxCount : (n > 0 /\ Deploy(c, a, n)) \/ Scale(c, a, n)
  \/ \E c \in Cmd : Upload(c) \/ Start(c) \/ Record(c) \/ Unrecord(c) \/ Write(c) \/ Written(c) \/ Preview(c) \/ Stop(c)
  \/ \E c \in Cmd, i \in Instance : Snapshot(c, i) \/ Restore(c, i) \/ Fork(c, i)
  \/ \E a \in App : PeerStart(a)
  \/ RpcUrl
  \/ Teardown

Spec == Init /\ [][Next]_vars

---------------------------------------------------------------------------
\* Every instance a command was told of and that still runs is in the file, or
\* in the hands of a command that is about to record it: a deployment that
\* fails part of the way leaves nothing untracked.
StartedAreTracked ==
  (\A c \in Cmd : Ended(c)) =>
    \A i \in answered : cloud[i] \in {"running", "paused"} => \E k \in DOMAIN Recorded : Recorded[k] = i

\* A scale that reports success leaves as many instances of the app recorded
\* as it was asked for, and only its own app's are ever stopped by it.
ScaleStep ==
  \A c \in Cmd :
    cmd'[c].op = "scale" =>
      /\ cmd[c].at # "done" /\ cmd'[c].at = "done" =>
           Cardinality({k \in DOMAIN Recorded' : app'[Recorded'[k]] = cmd'[c].app}) = cmd'[c].count
      /\ cmd[c].at = "stop" /\ peer' = peer =>
           \A i \in Instance : cloud'[i] = "gone" /\ cloud[i] # "gone" => app[i] = cmd[c].app
=============================================================================
