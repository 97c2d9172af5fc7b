-------------------------- MODULE BackgroundSandbox --------------------------
(***************************************************************************)
(* `berth mcp` sessions that share one sandbox by name: the state machine  *)
(* of startBackgroundSandbox (cli/src/util/mcp-sandbox.ts), without the    *)
(* runtime behind its SandboxSteps.  DockerSandbox and VmSandbox add the   *)
(* runtime: they say what find, boot and stopByName do, and conjoin those  *)
(* steps with the ones below.                                              *)
(*                                                                         *)
(* A session runs two flows at once in its process: the boot ("main") and, *)
(* from the moment it is told to end, the stop ("stop").  Either may be    *)
(* inside stopByName().                                                    *)
(***************************************************************************)
CONSTANTS
  Session,         \* the bridge processes
  None,            \* no session
  NoBoot,          \* sessions started with --no-boot
  Kills,           \* whether a session can be killed outright (SIGKILL)
  SettleTimesOut   \* whether a boot can outlast the stop's wait for it

ASSUME SessionsAssumption ==
  /\ None \notin Session
  /\ NoBoot \subseteq Session
  /\ Kills \in BOOLEAN
  /\ SettleTimesOut \in BOOLEAN

VARIABLES
  life,     \* per session: "new", "alive", "exited", "killed"
  main,     \* per session: where the boot flow is suspended
  waited,   \* sessions that have seen another's boot
  aborted,  \* sessions whose AbortController has fired
  owns,     \* sessions that decided to boot
  claim,    \* the session whose live boot claim the lock file names
  stopper   \* per session: where the stop flow is suspended

session == <<life, main, waited, aborted, owns, claim, stopper>>

Flow == {"main", "stop"}
Settled == {"ready", "failed"}
Alive(s) == life[s] = "alive"

SessionInit ==
  /\ life = [s \in Session |-> "new"]
  /\ main = [s \in Session |-> "find"]
  /\ waited = {} /\ aborted = {} /\ owns = {}
  /\ claim = None
  /\ stopper = [s \in Session |-> "no"]

\* The claim is a file lock: it is there to take when nobody alive holds it.
ReleaseClaim(s) == claim' = IF claim = s THEN None ELSE claim

Goto(s, pc) == main' = [main EXCEPT ![s] = pc]

-----------------------------------------------------------------------------
(* The boot flow. *)

Begin(s) ==
  /\ life[s] = "new"
  /\ life' = [life EXCEPT ![s] = "alive"]
  /\ UNCHANGED <<main, waited, aborted, owns, claim, stopper>>

\* A session that boots whatever the claim says.
LookedUnclaimed(s, found) ==
  /\ Alive(s) /\ main[s] = "find"
  /\ Goto(s, IF s \in aborted THEN "failed" ELSE IF found THEN "attaching" ELSE "claimed")
  /\ UNCHANGED <<life, waited, aborted, owns, claim, stopper>>

\* The first find() has returned: attach to what it found, or claim the boot,
\* or wait for the session that holds the claim.
Looked(s, found) ==
  /\ Alive(s) /\ main[s] = "find"
  /\ \/ /\ s \in aborted \/ (~found /\ s \in NoBoot)
        /\ Goto(s, "failed") /\ UNCHANGED <<waited, claim>>
     \/ /\ s \notin aborted /\ found
        /\ Goto(s, "attaching") /\ UNCHANGED <<waited, claim>>
     \/ /\ s \notin aborted /\ ~found /\ s \notin NoBoot /\ claim = None
        /\ claim' = s
        /\ Goto(s, "claimed") /\ UNCHANGED waited
     \/ /\ s \notin aborted /\ ~found /\ s \notin NoBoot /\ claim # None
        /\ waited' = waited \cup {s}
        /\ Goto(s, "poll") /\ UNCHANGED claim
  /\ UNCHANGED <<life, aborted, owns, stopper>>

\* A session that does not look again under the claim.
ClaimedBootBlindly(s, found) ==
  /\ Alive(s) /\ main[s] = "claimed"
  /\ Goto(s, "boot")
  /\ owns' = owns \cup {s}
  /\ UNCHANGED <<life, waited, aborted, claim, stopper>>

\* The second find(), under the claim, has returned: a sandbox that appeared
\* in between is attached to, otherwise this session boots and owns its own.
LookedAgain(s, found) ==
  /\ Alive(s) /\ main[s] = "claimed"
  /\ \/ /\ found
        /\ ReleaseClaim(s)
        /\ Goto(s, "attaching") /\ UNCHANGED owns
     \/ /\ ~found
        /\ owns' = owns \cup {s}
        /\ Goto(s, "boot") /\ UNCHANGED claim
  /\ UNCHANGED <<life, waited, aborted, stopper>>

\* A find() that threw: the session gives up, without its claim.
FindThrows(s) ==
  /\ Alive(s) /\ main[s] \in {"find", "claimed"}
  /\ ReleaseClaim(s)
  /\ Goto(s, "failed")
  /\ UNCHANGED <<life, waited, aborted, owns, stopper>>

Poll(s) ==
  /\ Alive(s) /\ main[s] = "poll"
  /\ Goto(s, IF s \in aborted THEN "failed" ELSE "find")
  /\ UNCHANGED <<life, waited, aborted, owns, claim, stopper>>

\* attach(): ready to use, or not (waitReady, connect and the abort can fail).
Attached(s) ==
  /\ Alive(s) /\ main[s] = "attaching"
  /\ \/ s \notin aborted /\ Goto(s, "ready")
     \/ Goto(s, "failed")
  /\ UNCHANGED <<life, waited, aborted, owns, claim, stopper>>

\* boot(), waitReady() and connect() are done and the session is still wanted.
Booted(s) ==
  /\ Alive(s) /\ main[s] = "boot" /\ s \notin aborted
  /\ ReleaseClaim(s)
  /\ Goto(s, "ready")
  /\ UNCHANGED <<life, waited, aborted, owns, stopper>>

\* One of them threw: the catch block stops the sandbox by name.
BootThrows(s) ==
  /\ Alive(s) /\ main[s] = "boot"
  /\ Goto(s, "cleanup")
  /\ UNCHANGED <<life, waited, aborted, owns, claim, stopper>>

\* Docker's 409: the name is someone else's.
NameConflict(s) ==
  /\ Alive(s) /\ main[s] = "boot"
  /\ owns' = owns \ {s}
  /\ ReleaseClaim(s)
  /\ Goto(s, "failed")
  /\ UNCHANGED <<life, waited, aborted, stopper>>

\* A catch block with no finally: the claim is kept.
CleanedUpKeepingClaim(s) ==
  /\ Alive(s) /\ main[s] = "cleanup"
  /\ Goto(s, "failed")
  /\ UNCHANGED <<life, waited, aborted, owns, claim, stopper>>

CleanedUp(s) ==
  /\ Alive(s) /\ main[s] = "cleanup"
  /\ ReleaseClaim(s)
  /\ Goto(s, "failed")
  /\ UNCHANGED <<life, waited, aborted, owns, stopper>>

-----------------------------------------------------------------------------
(* The end of a session. *)

\* The process is gone, with all it remembered; its claim lapses with it.
Ends(s, how) ==
  /\ life' = [life EXCEPT ![s] = how]
  /\ main' = [main EXCEPT ![s] = "gone"]
  /\ stopper' = [stopper EXCEPT ![s] = "no"]
  /\ waited' = waited \ {s} /\ aborted' = aborted \ {s} /\ owns' = owns \ {s}
  /\ ReleaseClaim(s)

\* The shutdown calls stop(): nothing to do for a session that owns nothing.
Stop(s) ==
  /\ Alive(s) /\ stopper[s] = "no"
  /\ \/ s \notin owns /\ Ends(s, "exited")
     \/ /\ s \in owns
        /\ aborted' = aborted \cup {s}
        /\ stopper' = [stopper EXCEPT ![s] =
                         IF main[s] \in Settled THEN "stopping" ELSE "stoppingBoot"]
        /\ UNCHANGED <<life, main, waited, owns, claim>>

\* A stop() that takes one stopByName() to be enough.
StoppedOnce(s) ==
  /\ Alive(s)
  /\ stopper[s] \in {"stopping", "stoppingBoot", "stoppingAgain"}
  /\ Ends(s, "exited")

\* A stopByName() of the stop flow has ended.  The one that interrupted a
\* boot is followed by a wait for the boot to settle; the others by the exit.
Stopped(s) ==
  /\ Alive(s)
  /\ \/ stopper[s] \in {"stopping", "stoppingAgain"} /\ Ends(s, "exited")
     \/ /\ stopper[s] = "stoppingBoot"
        /\ stopper' = [stopper EXCEPT ![s] = "settling"]
        /\ UNCHANGED <<life, main, waited, aborted, owns, claim>>

\* settle(): the boot flow has ended, or settleMs have passed.
BootSettles(s) ==
  /\ Alive(s) /\ stopper[s] = "settling"
  /\ main[s] \in Settled \/ SettleTimesOut
  /\ stopper' = [stopper EXCEPT ![s] = "stoppingAgain"]
  /\ UNCHANGED <<life, main, waited, aborted, owns, claim>>

Kill(s) ==
  /\ Kills /\ Alive(s)
  /\ Ends(s, "killed")

\* The flow of a session that is inside stopByName().
Halting(s, f) ==
  /\ Alive(s)
  /\ \/ f = "main" /\ main[s] = "cleanup"
     \/ f = "stop" /\ stopper[s] \in {"stopping", "stoppingBoot", "stoppingAgain"}

-----------------------------------------------------------------------------
SessionTypeOK ==
  /\ life \in [Session -> {"new", "alive", "exited", "killed"}]
  /\ main \in [Session -> {"find", "claimed", "poll", "attaching", "boot",
                           "cleanup", "ready", "failed", "gone"}]
  /\ waited \subseteq Session /\ aborted \subseteq Session /\ owns \subseteq Session
  /\ claim \in Session \cup {None}
  /\ stopper \in [Session -> {"no", "stopping", "stoppingBoot", "settling",
                              "stoppingAgain"}]

\* Two sessions that find no sandbox at once do not both boot it.
OneBooter ==
  \A s, t \in Session :
    Alive(s) /\ Alive(t) /\ main[s] = "boot" /\ main[t] = "boot" => s = t

\* A session whose own boot is up and which has not been told to end.
Serving(s) == Alive(s) /\ s \in owns /\ main[s] = "ready" /\ stopper[s] = "no"

\* Every session that starts ends up attached, booted or with an error to
\* report, however many others come, fail, leave or die meanwhile.
EverySessionSettles ==
  \A s \in Session :
    (life[s] = "alive") ~> (main[s] \in Settled \cup {"gone"})
=============================================================================
