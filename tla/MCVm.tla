-------------------------------- MODULE MCVm --------------------------------
(***************************************************************************)
(* The two ends of a microVM side by side: PID 1 of the guest, and the     *)
(* commands that install what a VM needs on the host.  They share no       *)
(* state, so each behaviour is one of one component: `part` says which.    *)
(* The constants are those of both; the definitions below give the small   *)
(* instance of them that is checked.                                       *)
(***************************************************************************)
EXTENDS GuestInit

CONSTANTS
  Installer, Release, CliOf, KrunVersion, Size, Attempts, Found, Command, MaxKills, NoFile, \* of VmInstall
  Unused

VARIABLES
  part,  \* the component of this behaviour
  disk, link, partial, cmd, step, io, pin, attempt, sending, kills \* of VmInstall

Install == INSTANCE VmInstall WITH Proc <- Installer, part <- partial, pc <- step, served <- sending

installation == <<disk, link, partial, cmd, step, io, pin, attempt, sending, kills>>
both == <<part, vars, installation>>

-----------------------------------------------------------------------------
\* Two apps, of which one never gets to its ready line, without daemons; and
\* that one alone with semantic-fs, or with the bus.
MCShares == <<"app1", "app2">>
MCConfigs == {[apps |-> {"app1", "app2"}, image |-> {}],
              [apps |-> {"app2"}, image |-> {"semantic-fs"}],
              [apps |-> {"app2"}, image |-> {"context-bus"}]}
MCMaxLines == [a \in App |-> IF a = "app1" THEN 1 ELSE 0]

\* What the host's directory may hold: a damaged image, and nothing or an older
\* release's files beside it.
MCFound ==
  [q \in {<<"vmm", 0>>, <<"libkrun", 1>>, <<"libkrun", 2>>, <<"image", 1>>, <<"image", 2>>} |->
    CASE q \in {<<"vmm", 0>>, <<"libkrun", 1>>} -> {NoFile, <<1, 1>>}
      [] q = <<"image", 2>> -> {<<0, 0>>}
      [] OTHER -> {NoFile}]

MCCliOf == [p \in Installer |-> 2]
MCKrunVersion == <<1, 2>>

\* A sandbox that installs what it lacks, and `berth vm install --force`.
MCCommand == {[auto |-> TRUE, force |-> FALSE, url |-> TRUE], [auto |-> FALSE, force |-> TRUE, url |-> FALSE]}

-----------------------------------------------------------------------------
\* A guest that does not boot, and a host on which nobody installs.
NoGuest == Init /\ image = {}
NoInstallation ==
  /\ disk = Unused /\ link = Unused /\ partial = Unused /\ cmd = Unused /\ step = Unused
  /\ io = Unused /\ pin = Unused /\ attempt = Unused /\ sending = Unused /\ kills = Unused

VmInit ==
  \/ part = "guest" /\ Init /\ NoInstallation
  \/ part = "install" /\ Install!Init /\ NoGuest

VmNext ==
  \/ part = "guest" /\ Next /\ UNCHANGED <<part, installation>>
  \/ part = "install" /\ Install!Next /\ UNCHANGED <<part, vars>>

VmSpec == VmInit /\ [][VmNext]_both

\* In the guest the main thread goes on: every wait of it has a bound.  The
\* grace ends, and so does the drain, however often they are waited out; a
\* log thread reads what is there.  Nothing obliges a child to exit or the
\* host to ask.  A command on the host goes on, and its stall timer fires,
\* whatever the server does.
VmFairness ==
  /\ WF_vars(part = "guest" /\ Main)
  /\ SF_vars(part = "guest" /\ GraceEnds)
  /\ SF_vars(part = "guest" /\ pc = "drained" /\ Drain /\ after' = "unmount")
  /\ \A a \in App : /\ WF_vars(part = "guest" /\ ReadLine(a))
                    /\ WF_vars(part = "guest" /\ Announce(a))
  /\ \A p \in Installer : WF_installation(part = "install" /\ Install!Step(p))

VmFairSpec == VmSpec /\ VmFairness

-----------------------------------------------------------------------------
(* What changes at a final path of the VM runtime becomes exactly the file  *)
(* the path is pinned to, whatever servers send and whoever installs too.   *)
NothingUnverified == [][part = "install" => Install!VerifiedStep]_both

Awaited ==
  \/ part = "guest" /\ (shutdown # "none" \/ AllExited)
  \/ part = "install" /\ \E p \in Installer : Install!Begun(p)

Ended ==
  \/ part = "guest" /\ pc = "off"
  \/ part = "install" /\ \A p \in Installer : Install!Over(p)

(* A guest asked to shut down, also in the middle of its boot, or whose     *)
(* apps have all exited, powers off, whatever its children and the readers  *)
(* of its control stream do; and commands that install end, whatever        *)
(* servers do.                                                              *)
GuestsAndInstallsEnd == Awaited ~> Ended
=============================================================================
