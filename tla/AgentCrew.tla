------------------------------ MODULE AgentCrew ------------------------------
(***************************************************************************)
(* The compositions of @berthos/agents (crew.ts) as their steps reach the  *)
(* stores: the chains sequential(), loopUntil() and pipeline() with their  *)
(* checkpoint, route() and the repair of a structured answer, and the fan- *)
(* out of parallel(), whose agents trace their turns concurrently          *)
(* (tracing.ts).  The process may die at any step and run() be called      *)
(* again with the same runId.  What a step returns is its number appended  *)
(* to the state it was given.                                              *)
(***************************************************************************)
EXTENDS Naturals, Sequences, FiniteSets

CONSTANTS
  Shapes,      \* the crews: kind, how many steps or agents, checkpointed, schema
  MaxRepairs,  \* maxRepairAttempts
  MaxLives,    \* bound: calls of run() with one runId
  Turns,       \* bound: turns an agent of a fan-out traces
  NameOf       \* the agents' names; an agent nobody named is called "agent"

VARIABLES
  crew,     \* the member of Shapes
  pc,       \* where run() is suspended, or how it ended
  step,     \* the index of the loop
  state,    \* `current` or `state`: the steps it came from
  over,     \* until() was satisfied
  repairs,  \* attempts made by repairStructuredOutput()
  stored,   \* the crew's checkpoint
  lives,
  fan,      \* per agent of a fan-out: its turn, and the trace it has read
  trace     \* per runId: the trace in the semantic file system

vars == <<crew, pc, step, state, over, repairs, stored, lives, fan, trace>>
chain == <<pc, step, state, over, repairs, stored>>
team == <<fan, trace>>

Missing == [status |-> "missing", completedSteps |-> 0, state |-> <<>>]
Torn == [Missing EXCEPT !.status = "torn"]
Quiet == [pc |-> "off", turn |-> 0, read |-> <<>>]

FanOutRunIdForName(a) == <<NameOf[a]>>

\* fanOutRunIdFor(): the index before the name.
FanOutRunIdFor(a) == <<a, NameOf[a]>>

Keys == {FanOutRunIdFor(a) : a \in DOMAIN NameOf}

Init ==
  /\ crew \in Shapes
  /\ pc = "idle" /\ step = 0 /\ state = <<>> /\ over = FALSE /\ repairs = 0
  /\ stored = Missing /\ lives = 0
  /\ fan = [a \in DOMAIN NameOf |-> Quiet]
  /\ trace = [k \in Keys |-> <<>>]

Ended == pc \in {"idle", "returned", "failed"}
IsChain == crew.kind \in {"sequential", "loopUntil", "pipeline"}
Repairing == crew.schema /\ crew.kind \in {"sequential", "route"}

-----------------------------------------------------------------------------
(* The chains.                                                              *)

\* loadCrewCheckpoint(): a torn one is an error, a finished one the answer.
RunForgetful ==
  /\ Ended /\ lives < MaxLives /\ IsChain /\ lives' = lives + 1
  /\ repairs' = 0 /\ over' = FALSE
  /\ LET prior == IF crew.saved THEN stored ELSE Missing IN
     /\ pc' = CASE prior.status = "torn" -> "failed" [] prior.status = "done" -> "returned"
                [] OTHER -> IF prior.completedSteps < crew.steps THEN "step" ELSE "after"
     /\ step' = prior.completedSteps
     /\ state' = IF prior.status = "done" THEN prior.state ELSE <<>>
  /\ UNCHANGED <<crew, stored, team>>

Run ==
  /\ Ended /\ lives < MaxLives /\ IsChain /\ lives' = lives + 1
  /\ repairs' = 0 /\ over' = FALSE
  /\ LET prior == IF crew.saved THEN stored ELSE Missing IN
     /\ pc' = CASE prior.status = "torn" -> "failed" [] prior.status = "done" -> "returned"
                [] OTHER -> IF prior.completedSteps < crew.steps THEN "step" ELSE "after"
     /\ step' = prior.completedSteps
     /\ state' = prior.state
  /\ UNCHANGED <<crew, stored, team>>

\* An agent, or a step's function, answers.  until() may be satisfied.
StepEnds ==
  /\ pc = "step"
  /\ state' = Append(state, step + 1)
  /\ over' \in IF crew.kind = "loopUntil" THEN BOOLEAN ELSE {FALSE}
  /\ pc' = "saving"
  /\ UNCHANGED <<crew, step, repairs, stored, lives, team>>

Last == step + 1 = crew.steps

\* The last step is "done" unless its answer is still to be checked.
Checkpoint ==
  [status |-> IF over \/ (Last /\ crew.kind # "loopUntil" /\ ~Repairing) THEN "done" ELSE "running",
   completedSteps |-> step + 1, state |-> state]

SaveEnds ==
  /\ pc = "saving"
  /\ stored' = IF crew.saved THEN Checkpoint ELSE stored
  /\ step' = step + 1
  /\ pc' = IF over THEN "returned" ELSE IF Last THEN "after" ELSE "step"
  /\ UNCHANGED <<crew, state, over, repairs, lives, team>>

After ==
  /\ pc = "after" /\ ~Repairing /\ pc' = "returned"
  /\ UNCHANGED <<crew, step, state, over, repairs, stored, lives, team>>

\* repairStructuredOutput(): the answer parses, or its agent is asked again.
Parses ==
  /\ pc = "after" /\ Repairing
  /\ pc' = "returned"
  /\ stored' = IF crew.saved /\ crew.kind = "sequential"
               THEN [status |-> "done", completedSteps |-> crew.steps, state |-> state] ELSE stored
  /\ UNCHANGED <<crew, step, state, over, repairs, lives, team>>

Repairs ==
  /\ pc = "after" /\ Repairing
  /\ IF repairs < MaxRepairs THEN repairs' = repairs + 1 /\ UNCHANGED pc
     ELSE pc' = "failed" /\ UNCHANGED repairs
  /\ UNCHANGED <<crew, step, state, over, stored, lives, team>>

\* An agent rejects, or the store does.
Fails ==
  /\ pc \in {"step", "saving", "after", "route"} /\ pc' = "failed"
  /\ stored' \in IF pc = "saving" /\ crew.saved THEN {stored, Checkpoint} ELSE {stored}
  /\ UNCHANGED <<crew, step, state, over, repairs, lives, team>>

\* The process dies; a save is not atomic.
Crash ==
  /\ ~Ended /\ pc' = "idle" /\ state' = <<>> /\ step' = 0
  /\ stored' \in IF pc = "saving" /\ crew.saved THEN {stored, Checkpoint, Torn} ELSE {stored}
  /\ fan' = [a \in DOMAIN fan |-> Quiet]
  /\ UNCHANGED <<crew, over, repairs, lives, trace>>

-----------------------------------------------------------------------------
(* route(): the router, then the one branch, on the original input.         *)

Route ==
  /\ Ended /\ lives < MaxLives /\ crew.kind = "route" /\ lives' = lives + 1
  /\ pc' = "route" /\ repairs' = 0 /\ state' = <<>> /\ step' = 0
  /\ UNCHANGED <<crew, over, stored, team>>

\* Neither a label nor a fallback: an error; otherwise the branch answers.
Routed ==
  /\ pc = "route"
  /\ pc' \in {"after", "failed"} /\ state' = <<1>>
  /\ UNCHANGED <<crew, step, over, repairs, stored, lives, team>>

-----------------------------------------------------------------------------
(* parallel(): every agent at once, under a runId of its own; each emit()   *)
(* of the tracer reads the whole trace of its runId and writes it back.     *)

Members == 1..crew.steps

FanOut ==
  /\ Ended /\ lives < MaxLives /\ crew.kind = "parallel" /\ lives' = lives + 1
  /\ pc' = "fan"
  /\ fan' = [a \in DOMAIN fan |-> IF a \in Members THEN [Quiet EXCEPT !.pc = "turn"] ELSE Quiet]
  /\ UNCHANGED <<crew, step, state, over, repairs, stored, trace>>

EmitReads(a) ==
  /\ pc = "fan" /\ fan[a].pc = "turn" /\ fan[a].turn < Turns
  /\ fan' = [fan EXCEPT ![a].pc = "emit", ![a].read = trace[FanOutRunIdFor(a)]]
  /\ UNCHANGED <<crew, chain, lives, trace>>

EmitWrites(a) ==
  /\ pc = "fan" /\ fan[a].pc = "emit"
  /\ trace' = [trace EXCEPT ![FanOutRunIdFor(a)] = Append(fan[a].read, <<lives, a, fan[a].turn + 1>>)]
  /\ fan' = [fan EXCEPT ![a].pc = "turn", ![a].turn = @ + 1, ![a].read = <<>>]
  /\ UNCHANGED <<crew, chain, lives>>

\* Promise.all over the agents: all answered, or the first that rejects.
Merge ==
  /\ pc = "fan" /\ \A a \in Members : fan[a].turn = Turns
  /\ pc' = "returned"
  /\ UNCHANGED <<crew, step, state, over, repairs, stored, lives, team>>

Rejects ==
  /\ pc = "fan" /\ pc' = "failed" /\ fan' = [a \in DOMAIN fan |-> Quiet]
  /\ UNCHANGED <<crew, step, state, over, repairs, stored, lives, trace>>

Finished == Ended /\ lives = MaxLives /\ UNCHANGED vars

Next ==
  \/ Run \/ StepEnds \/ SaveEnds \/ After \/ Parses \/ Repairs \/ Fails \/ Crash
  \/ Route \/ Routed \/ FanOut \/ Merge \/ Rejects \/ Finished
  \/ \E a \in DOMAIN NameOf : EmitReads(a) \/ EmitWrites(a)

Spec == Init /\ [][Next]_vars

-----------------------------------------------------------------------------
Upto(n) == [i \in 1..n |-> i]

(* However often the process died in between, the answer of a chain has gone *)
(* through its steps once each, in order, and a loop returns what as many    *)
(* runs as it counted have made of the input.                               *)
EveryStepOnce ==
  (IsChain /\ pc = "returned") =>
     \/ crew.kind # "loopUntil" /\ state = Upto(crew.steps)
     \/ crew.kind = "loopUntil" /\ \E n \in 1..crew.steps : state = Upto(n)

(* When a fan-out returns, the trace of each of its agents ends in the turns *)
(* of this run, every one, in order, and has none of them anywhere else:    *)
(* agents tracing at the same time do not drop each other's events, whatever *)
(* they are called.                                                         *)
TracesComplete ==
  (crew.kind = "parallel" /\ pc = "returned") =>
     \A a \in Members :
       LET t == trace[FanOutRunIdFor(a)]
           before == Len(t) - Turns
       IN  /\ before >= 0
           /\ \A i \in 1..Turns : t[before + i] = <<lives, a, i>>
           /\ \A i \in 1..before : t[i][1] # lives
=============================================================================
