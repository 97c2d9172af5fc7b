------------------------------ MODULE MCAgents ------------------------------
(***************************************************************************)
(* @berthos/agents: a run of the tool-use loop, a Computer and the calls on*)
(* it, a crew, and an agent behind HTTP.  What each asks of the others is  *)
(* part of its own environment and they share no state, so each behaviour  *)
(* is one of one component: `part` says which.  The constants are those of *)
(* all of them; the definitions below give the small instance that is      *)
(* checked.                                                                *)
(***************************************************************************)
EXTENDS AgentRun

CONSTANTS
  Parts,  \* the components looked at
  Call, Computers, MaxAttempts,                    \* of AgentComputer
  Shapes, CrewRepairs, MaxLives, Turns, NameOf,    \* of AgentCrew
  Request, KindOf, MaxDeltas,                      \* of AgentServer
  Off

VARIABLES
  part,  \* the component of this behaviour
  made, boot, held, exited, noticed, governor, call, request, said, offered, \* of AgentComputer
  crew, crewAt, step, current, over, repairs, stored, called, fan, trace,    \* of AgentCrew
  handling, gone, aborted, prior, items, out                                 \* of AgentServer

Computer == INSTANCE AgentComputer WITH opt <- made
Crew == INSTANCE AgentCrew WITH
  pc <- crewAt, state <- current, lives <- called, MaxRepairs <- CrewRepairs
Server == INSTANCE AgentServer WITH pc <- handling, session <- items

computing == <<made, boot, held, exited, noticed, governor, call, request, said, offered>>
crewing == <<crew, crewAt, step, current, over, repairs, stored, called, fan, trace>>
serving == <<handling, gone, aborted, prior, items, out>>

state == <<part, vars, computing, crewing, serving>>

-----------------------------------------------------------------------------
\* A checkpointed run that is cut, cancelled and resumed; one with a budget;
\* and two runs that share a session.
Plain == [ckpt |-> FALSE, session |-> FALSE, signal |-> FALSE, toolTimeout |-> FALSE,
          schema |-> FALSE, budget |-> 0, overflow |-> FALSE, summary |-> FALSE, runs |-> 1, lives |-> 2]
MCOptions == {[Plain EXCEPT !.ckpt = TRUE, !.signal = TRUE, !.toolTimeout = TRUE, !.overflow = TRUE],
              [Plain EXCEPT !.ckpt = TRUE, !.schema = TRUE, !.budget = 4, !.summary = TRUE],
              [Plain EXCEPT !.session = TRUE, !.signal = TRUE, !.runs = 2, !.lives = 0]}

\* Two runs of one session whose history outgrows its budget.
MCChat == {[Plain EXCEPT !.session = TRUE, !.budget = 6, !.runs = 2, !.lives = 0]}

Local == [kind |-> "boot", many |-> TRUE, governors |-> 1, mode |-> "fail-open", http |-> FALSE, mcp |-> TRUE]
MCComputers ==
  {Local, [Local EXCEPT !.mode = "fail-closed", !.http = TRUE], [Local EXCEPT !.many = FALSE],
   [Local EXCEPT !.governors = 2], [Local EXCEPT !.governors = 0, !.mcp = FALSE],
   [Local EXCEPT !.kind = "connect", !.mode = "fail-closed"], [Local EXCEPT !.kind = "fleet", !.mcp = FALSE]}

MCShapes ==
  [kind : {"sequential", "loopUntil", "pipeline"}, steps : {3}, saved : BOOLEAN, schema : BOOLEAN]
    \cup {[kind |-> "route", steps |-> 1, saved |-> FALSE, schema |-> TRUE],
          [kind |-> "parallel", steps |-> 2, saved |-> FALSE, schema |-> FALSE]}

\* Two agents that nobody named.
MCNameOf == <<"agent", "agent">>

MCRequest == 1..4
MCKindOf == <<"task", "task", "chat", "a2a">>

-----------------------------------------------------------------------------
\* A run() that is never called.
Quiet == Init /\ opt = CHOOSE o \in Options : TRUE

NoComputer ==
  /\ made = Off /\ boot = Off /\ held = Off /\ exited = Off /\ noticed = Off
  /\ governor = Off /\ call = Off /\ request = Off /\ said = Off /\ offered = Off
NoCrew ==
  /\ crew = Off /\ crewAt = Off /\ step = Off /\ current = Off /\ over = Off /\ repairs = Off
  /\ stored = Off /\ called = Off /\ fan = Off /\ trace = Off
NoServer ==
  /\ handling = Off /\ gone = Off /\ aborted = Off /\ prior = Off /\ items = Off /\ out = Off

AgentsInit ==
  /\ part \in Parts
  /\ \/ part = "run" /\ Init /\ NoComputer /\ NoCrew /\ NoServer
     \/ part = "computer" /\ Computer!Init /\ Quiet /\ NoCrew /\ NoServer
     \/ part = "crew" /\ Crew!Init /\ Quiet /\ NoComputer /\ NoServer
     \/ part = "server" /\ Server!Init /\ Quiet /\ NoComputer /\ NoCrew

AgentsNext ==
  /\ UNCHANGED part
  /\ \/ part = "run" /\ Next /\ UNCHANGED <<computing, crewing, serving>>
     \/ part = "computer" /\ Computer!Next /\ UNCHANGED <<vars, crewing, serving>>
     \/ part = "crew" /\ Crew!Next /\ UNCHANGED <<vars, computing, serving>>
     \/ part = "server" /\ Server!Next /\ UNCHANGED <<vars, computing, crewing>>

AgentsSpec == AgentsInit /\ [][AgentsNext]_state

computerVars == Computer!vars

\* A run's fairness, and a Computer's: timers fire and promises settle;
\* nothing in the container need answer.
AgentsFairness ==
  /\ Fairness
  /\ WF_computerVars(part = "computer" /\ Computer!Verdict("c1", "unavailable"))
  /\ WF_computerVars(part = "computer" /\ Computer!Written("c1"))
  /\ WF_computerVars(part = "computer" /\ Computer!Try("c1"))
  /\ WF_computerVars(part = "computer" /\ Computer!TimesOut("c1"))

AgentsFairSpec == AgentsSpec /\ AgentsFairness

-----------------------------------------------------------------------------
(* A Computer's governed exports run only for requests that were judged.    *)
NothingUnjudged == part = "computer" => Computer!NothingUnjudged

(* A cancelled run with a tool timeout ends, whatever its tools do, and so  *)
(* does a call on a Computer, whoever dies before answering it.             *)
RunsAndCallsEnd ==
  /\ CancelledRunEnds
  /\ (part = "computer" /\ Computer!Pending("c1")) ~> (part = "computer" /\ Computer!Settled("c1"))

(* A crew that died and was run again goes through its steps once each, and *)
(* agents that trace at the same time do not drop each other's events.      *)
CrewKeepsCount == part = "crew" => Crew!EveryStepOnce /\ Crew!TracesComplete

(* Behind HTTP, concurrent requests of a session keep their exchanges whole *)
(* and every client that stays gets a response that ends.                   *)
ServerKeepsWhole == part = "server" => Server!SessionKeepsExchanges /\ Server!EveryResponseEnds
=============================================================================
