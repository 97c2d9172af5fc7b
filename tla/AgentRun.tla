------------------------------- MODULE AgentRun -------------------------------
(***************************************************************************)
(* The tool-use loop of @berthos/agents: Agent.run() and Agent.resume()    *)
(* (agent.ts) with cancellation (cancellation.ts), the checkpoint store    *)
(* (checkpoint.ts), compaction of the history (context.ts), sessions       *)
(* (session.ts), guardrails and structured output.                         *)
(*                                                                         *)
(* One process at a time drives the runs; it may die at any step and a     *)
(* fresh one resumes from the store.  A message keeps its role, the ids of *)
(* the tool calls it makes and the id of the call it answers, and counts   *)
(* as one token.  The model, the tools and the store are the environment:  *)
(* each may answer, refuse, fail or stay silent.                           *)
(***************************************************************************)
EXTENDS Naturals, Sequences, FiniteSets, FiniteSetsExt

CONSTANTS
  Options,     \* what the agent and its caller may have configured, with the
               \* bounds "runs" on run(), each with its runId, and "lives" on resume()
  MaxTurns,    \* AgentOptions.maxTurns
  MaxRepairs,  \* maxRepairAttempts
  KeepRecent,  \* ContextPolicy.keepRecentMessages
  Reserve,     \* ContextPolicy.reserveTokens and the fixed part of a request
  MaxCalls     \* bound: tool calls in one turn

ASSUME RunAssumption ==
  /\ {MaxTurns, MaxRepairs, KeepRecent, Reserve, MaxCalls} \subseteq Nat
  /\ Options \subseteq [ckpt : BOOLEAN, session : BOOLEAN, signal : BOOLEAN, toolTimeout : BOOLEAN,
                        schema : BOOLEAN, budget : Nat, overflow : BOOLEAN, summary : BOOLEAN,
                        runs : Nat, lives : Nat]

VARIABLES
  opt,       \* the configuration, fixed for a behaviour
  pc,        \* where the process is suspended, or how the run ended
  rid,       \* the run in progress: runId
  turn,      \* turnCount
  messages,  \* the history in memory
  todo,      \* tool calls of the current turn that have not been made
  loop,      \* repairs, retried, baseline, whether todo came from a checkpoint, and
             \* whether the run is kept in the Session, which only run() is given
  deaf,      \* the call in progress began after the run's signal had fired
  fired,     \* what fired the run's signal: "caller", "deadline"
  saving,    \* the save in progress and what follows it
  outcome,   \* what run() or resume() settled with
  store,     \* per run: its checkpoint, which may be missing or torn
  session,   \* the items of the Session
  asked,     \* calls of the model since run() or resume()
  ran,       \* per call id: how often its tool was invoked
  runs, lives

process == <<pc, rid, turn, messages, todo, loop, deaf, fired, saving, outcome, asked>>
durable == <<store, session>>
vars == <<opt, process, durable, ran, runs, lives>>

User == [role |-> "user", calls |-> <<>>, id |-> 0]
Assistant(ids) == [role |-> "assistant", calls |-> ids, id |-> 0]
Result(id) == [role |-> "tool", calls |-> <<>>, id |-> id]

Fresh == [repairs |-> 0, retried |-> FALSE, baseline |-> 0, resumed |-> FALSE, kept |-> FALSE]
NoCheckpoint == [status |-> "missing", turn |-> 0, messages |-> <<>>]
Torn == [status |-> "torn", turn |-> 0, messages |-> <<>>]
Readable(c) == c \notin {NoCheckpoint, Torn}
NoSave == [status |-> "none", turn |-> 0, then |-> "idle", as |-> "none"]

Init ==
  /\ opt \in Options
  /\ pc = "idle" /\ rid = 0 /\ turn = 0 /\ messages = <<>> /\ todo = <<>>
  /\ loop = Fresh /\ deaf = FALSE /\ fired = {} /\ saving = NoSave /\ outcome = "none"
  /\ store = [r \in 1..opt.runs |-> NoCheckpoint]
  /\ session = <<>> /\ asked = 0 /\ ran = <<>> /\ runs = 0 /\ lives = 0

Ended == pc = "idle"
Aborted == fired # {}
\* What throwIfCancelled() throws: the deadline explains it when both fired.
Cause == IF "deadline" \in fired THEN "timeout" ELSE "aborted"

SeqSet(s) == {s[i] : i \in DOMAIN s}
Answered(ms) == {ms[i].id : i \in {j \in DOMAIN ms : ms[j].role = "tool"}}

PendingToolCallsAll(ms) ==
  LET callers == {i \in DOMAIN ms : ms[i].calls # <<>>} IN
  IF callers = {} THEN <<>> ELSE ms[Max(callers)].calls

\* Those of the calls that are not among the answered ones, in their order.
Unanswered(ids, answered) ==
  LET kept[n \in 0..Len(ids)] ==
        IF n = 0 THEN <<>>
        ELSE IF ids[n] \in answered THEN kept[n - 1] ELSE Append(kept[n - 1], ids[n])
  IN  kept[Len(ids)]

\* The calls of the last assistant turn that makes any, without an answer.
PendingToolCalls(ms) ==
  LET callers == {i \in DOMAIN ms : ms[i].calls # <<>>} IN
  IF callers = {} THEN <<>> ELSE Unanswered(ms[Max(callers)].calls, Answered(ms))

-----------------------------------------------------------------------------
(* Compaction: the oldest whole groups go until the rest fits the budget.   *)

GroupBoundaries(ms) == {i \in DOMAIN ms : ms[i].role # "tool"}

CutMidGroup(ms, budget) ==
  IF Len(ms) <= budget \/ Len(ms) <= KeepRecent THEN 1 ELSE Len(ms) - KeepRecent + 1

Cut(ms, budget) ==
  LET starts == {i \in GroupBoundaries(ms) : i + KeepRecent <= Len(ms)}
      fits == {i \in starts : Len(ms) - i + 1 <= budget}
  IN  IF Len(ms) <= budget \/ starts = {} THEN 1
      ELSE IF fits # {} THEN Min(fits) ELSE Max(starts)

Compacts(ms, budget) == Cut(ms, budget) > 1

CompactMessages(ms, budget) ==
  LET kept == SubSeq(ms, Cut(ms, budget), Len(ms)) IN
  IF ~Compacts(ms, budget) THEN ms ELSE IF opt.summary THEN <<User>> \o kept ELSE kept

Less(a, b) == IF a > b THEN a - b ELSE 0
EmergencyBudget(ms) == Less(Len(ms) \div 2, Reserve)

-----------------------------------------------------------------------------
(* Settling, and the save that most ends of a run go through first.         *)

Settle(as) == pc' = "idle" /\ outcome' = as /\ saving' = NoSave

\* checkpoint(): nothing without a store; otherwise an awaited save.
Checkpoint(status, t, then, as) ==
  IF opt.ckpt THEN /\ pc' = "saving" /\ outcome' = outcome
                   /\ saving' = [status |-> status, turn |-> t, then |-> then, as |-> as]
  ELSE IF then = "idle" THEN Settle(as)
  ELSE pc' = then /\ UNCHANGED <<outcome, saving>>

Saved == [status |-> saving.status, turn |-> saving.turn, messages |-> messages]

SaveEnds ==
  /\ pc = "saving"
  /\ store' = [store EXCEPT ![rid] = Saved]
  /\ IF saving.then = "idle" THEN Settle(saving.as)
     ELSE pc' = saving.then /\ saving' = NoSave /\ UNCHANGED outcome
  /\ UNCHANGED <<opt, rid, turn, messages, todo, loop, deaf, fired, asked, session, ran, runs, lives>>

\* The write, or only the tag after it, fails: the run rejects with that.
SaveFails ==
  /\ pc = "saving"
  /\ store' \in {store, [store EXCEPT ![rid] = Saved]}
  /\ Settle("error")
  /\ UNCHANGED <<opt, rid, turn, messages, todo, loop, deaf, fired, asked, session, ran, runs, lives>>

-----------------------------------------------------------------------------
(* run() and resume().                                                      *)

Enter(r, ms, t, base, resumed) ==
  /\ rid' = r /\ messages' = ms /\ turn' = t /\ todo' = PendingToolCalls(ms)
  /\ loop' = [Fresh EXCEPT !.baseline = base, !.resumed = resumed /\ todo' # <<>>,
                           !.kept = opt.session /\ ~resumed]
  /\ pc' = IF todo' # <<>> THEN "tools" ELSE "top"
  /\ deaf' = FALSE /\ fired' = {} /\ saving' = NoSave /\ outcome' = "none" /\ asked' = 0

Run ==
  /\ Ended /\ runs < opt.runs
  /\ runs' = runs + 1
  /\ LET prior == IF opt.session THEN session ELSE <<>> IN
     Enter(runs + 1, Append(prior, User), 0, Len(prior), FALSE)
  /\ UNCHANGED <<opt, durable, ran, lives>>

\* An input guardrail trips before the loop starts.
RunRefused ==
  /\ Ended /\ runs < opt.runs
  /\ runs' = runs + 1 /\ rid' = runs + 1 /\ Settle("error")
  /\ UNCHANGED <<opt, turn, messages, todo, loop, deaf, fired, asked, durable, ran, lives>>

Resumable(r) == opt.ckpt /\ Readable(store[r]) /\ store[r].status # "done"

Resume(r) ==
  /\ Ended /\ lives < opt.lives /\ Resumable(r)
  /\ lives' = lives + 1
  /\ Enter(r, store[r].messages, store[r].turn, 0, TRUE)
  /\ UNCHANGED <<opt, durable, ran, runs>>

\* A finished run is read back; a missing or a torn checkpoint is an error.
ResumeSettled(r) ==
  /\ Ended /\ lives < opt.lives /\ r <= runs /\ ~Resumable(r)
  /\ lives' = lives + 1 /\ rid' = r
  /\ Settle(IF opt.ckpt /\ Readable(store[r]) THEN "answer" ELSE "error")
  /\ UNCHANGED <<opt, turn, messages, todo, loop, deaf, fired, asked, durable, ran, runs>>

\* The signals of a run: its caller's, and its deadline.
Fire(by) ==
  /\ ~Ended /\ opt.signal /\ by \notin fired
  /\ fired' = fired \cup {by}
  /\ UNCHANGED <<opt, pc, rid, turn, messages, todo, loop, deaf, saving, outcome, asked, durable, ran, runs, lives>>

\* The process dies.  A save in progress may be written, torn or not begun.
Crash ==
  /\ ~Ended
  /\ store' \in IF pc # "saving" THEN {store}
                ELSE {store, [store EXCEPT ![rid] = Saved], [store EXCEPT ![rid] = Torn]}
  /\ pc' = "idle" /\ outcome' = "crashed" /\ saving' = NoSave
  /\ messages' = <<>> /\ todo' = <<>> /\ loop' = Fresh /\ deaf' = FALSE /\ fired' = {}
  /\ UNCHANGED <<opt, rid, turn, asked, session, ran, runs, lives>>

-----------------------------------------------------------------------------
(* The loop.                                                                *)

StartTurn ==
  /\ pc = "top" /\ turn < MaxTurns /\ ~Aborted
  /\ messages' = IF opt.budget = 0 THEN messages ELSE CompactMessages(messages, Less(opt.budget, Reserve))
  /\ pc' = "llm" /\ asked' = asked + 1
  /\ UNCHANGED <<opt, rid, turn, todo, loop, deaf, fired, saving, outcome, durable, ran, runs, lives>>

CancelledAtTop ==
  /\ pc = "top" /\ turn < MaxTurns /\ Aborted
  /\ Settle(Cause)
  /\ UNCHANGED <<opt, rid, turn, messages, todo, loop, deaf, fired, asked, durable, ran, runs, lives>>

OutOfTurns ==
  /\ pc = "top" /\ turn >= MaxTurns
  /\ Checkpoint("error", MaxTurns, "idle", "error")
  /\ UNCHANGED <<opt, rid, turn, messages, todo, loop, deaf, fired, asked, durable, ran, runs, lives>>

\* The model asks for tools: new calls, in order.
AsksTools ==
  /\ pc = "llm"
  /\ \E n \in 1..MaxCalls :
       LET ids == [i \in 1..n |-> Len(ran) + i] IN
       /\ messages' = Append(messages, Assistant(ids))
       /\ todo' = ids
       /\ ran' = ran \o [i \in 1..n |-> 0]
  /\ loop' = [loop EXCEPT !.resumed = FALSE]
  /\ pc' = "tools"
  /\ UNCHANGED <<opt, rid, turn, deaf, fired, saving, outcome, asked, durable, runs, lives>>

PersistSession(ms) ==
  session' = IF loop.kept THEN session \o SubSeq(ms, loop.baseline + 1, Len(ms)) ELSE session

\* A final answer that passes: guarded, added to the session, saved as done.
Answers ==
  /\ pc = "llm"
  /\ messages' = Append(messages, Assistant(<<>>))
  /\ PersistSession(messages')
  /\ Checkpoint("done", turn, "idle", "answer")
  /\ UNCHANGED <<opt, rid, turn, todo, loop, deaf, fired, asked, store, ran, runs, lives>>

\* The answer does not match the schema: the model gets the error back.
Repairs ==
  /\ pc = "llm" /\ opt.schema /\ loop.repairs < MaxRepairs
  /\ loop' = [loop EXCEPT !.repairs = @ + 1]
  /\ messages' = messages \o <<Assistant(<<>>), User>>
  /\ turn' = turn + 1
  /\ Checkpoint("running", turn + 1, "top", "none")
  /\ UNCHANGED <<opt, rid, todo, deaf, fired, asked, durable, ran, runs, lives>>

\* No repair left, an output guardrail tripped, or the answer was cut off.
AnswerRejected ==
  /\ pc = "llm"
  /\ Checkpoint("error", turn, "idle", "error")
  /\ UNCHANGED <<opt, rid, turn, messages, todo, loop, deaf, fired, asked, durable, ran, runs, lives>>

\* The provider fails, or its SDK stops for the run's signal.
LlmFails ==
  /\ pc = "llm"
  /\ Settle(IF Aborted THEN Cause ELSE "error")
  /\ UNCHANGED <<opt, rid, turn, messages, todo, loop, deaf, fired, asked, durable, ran, runs, lives>>

\* The request did not fit: once per run the history is cut and the turn redone.
Overflows ==
  /\ pc = "llm" /\ opt.overflow
  /\ ~loop.retried /\ Compacts(messages, EmergencyBudget(messages))
  /\ messages' = CompactMessages(messages, EmergencyBudget(messages))
  /\ loop' = [loop EXCEPT !.retried = TRUE]
  /\ pc' = "top"
  /\ UNCHANGED <<opt, rid, turn, todo, deaf, fired, saving, outcome, asked, durable, ran, runs, lives>>

-----------------------------------------------------------------------------
(* runToolCall() and the race of withToolTimeout().                         *)

\* The listener that loses the race is added too late for a fired signal.
StartCall ==
  /\ pc = "tools" /\ todo # <<>>
  /\ ran' = [ran EXCEPT ![Head(todo)] = @ + 1]
  /\ deaf' = Aborted
  /\ pc' = "calling"
  /\ UNCHANGED <<opt, rid, turn, messages, todo, loop, fired, saving, outcome, asked, durable, runs, lives>>

AnswerUnsaved ==
  /\ messages' = Append(messages, Result(Head(todo)))
  /\ todo' = Tail(todo)
  /\ turn' = IF todo' = <<>> /\ ~loop.resumed THEN turn + 1 ELSE turn
  /\ pc' = IF todo' = <<>> THEN "top" ELSE "tools"
  /\ UNCHANGED <<outcome, saving>>

\* The call is answered: what is left of the turn, or its end, is saved.
Answer ==
  /\ messages' = Append(messages, Result(Head(todo)))
  /\ todo' = Tail(todo)
  /\ IF todo' # <<>>
     THEN /\ IF loop.resumed THEN pc' = "tools" /\ UNCHANGED <<outcome, saving>>
             ELSE Checkpoint("running", turn, "tools", "none")
          /\ UNCHANGED turn
     ELSE /\ turn' = IF loop.resumed THEN turn ELSE turn + 1
          /\ Checkpoint("running", turn', "top", "none")

ToolReturns ==
  /\ pc = "calling" /\ (deaf \/ ~Aborted)
  /\ Answer
  /\ UNCHANGED <<opt, rid, loop, deaf, fired, asked, durable, ran, runs, lives>>

\* The tool fails or is unknown: an {error} result, unless the run is cancelled.
ToolFails ==
  /\ pc = "calling"
  /\ IF Aborted THEN Checkpoint("error", turn, "idle", Cause) /\ UNCHANGED <<turn, messages, todo>>
     ELSE Answer
  /\ UNCHANGED <<opt, rid, loop, deaf, fired, asked, durable, ran, runs, lives>>

ToolTimesOutQuietly ==
  /\ pc = "calling" /\ opt.toolTimeout /\ ~deaf
  /\ IF Aborted THEN Checkpoint("error", turn, "idle", Cause) /\ UNCHANGED <<turn, messages, todo>>
     ELSE Answer
  /\ UNCHANGED <<opt, rid, loop, deaf, fired, asked, durable, ran, runs, lives>>

\* toolTimeoutMs elapsed; the tool runs on, and its result is discarded.
ToolTimesOut ==
  /\ pc = "calling" /\ opt.toolTimeout
  /\ IF Aborted THEN Checkpoint("error", turn, "idle", Cause) /\ UNCHANGED <<turn, messages, todo>>
     ELSE Answer
  /\ UNCHANGED <<opt, rid, loop, deaf, fired, asked, durable, ran, runs, lives>>

\* The run's signal fires while the tool is running.
CallCancelled ==
  /\ pc = "calling" /\ Aborted /\ ~deaf
  /\ Checkpoint("error", turn, "idle", Cause)
  /\ UNCHANGED <<opt, rid, turn, messages, todo, loop, deaf, fired, asked, durable, ran, runs, lives>>

\* A guardrail tripped inside the tool, an agent of its own.
ToolRefused ==
  /\ pc = "calling"
  /\ Checkpoint("error", turn, "idle", "error")
  /\ UNCHANGED <<opt, rid, turn, messages, todo, loop, deaf, fired, asked, durable, ran, runs, lives>>

Finished == Ended /\ runs = opt.runs /\ lives = opt.lives /\ UNCHANGED vars

Next ==
  \/ Run \/ RunRefused \/ SaveEnds \/ SaveFails \/ Crash
  \/ \E r \in 1..opt.runs : Resume(r) \/ ResumeSettled(r)
  \/ \E by \in {"caller", "deadline"} : Fire(by)
  \/ StartTurn \/ CancelledAtTop \/ OutOfTurns
  \/ AsksTools \/ Answers \/ Repairs \/ AnswerRejected \/ LlmFails \/ Overflows
  \/ StartCall \/ ToolReturns \/ ToolFails \/ ToolTimesOut \/ CallCancelled \/ ToolRefused
  \/ Finished

Spec == Init /\ [][Next]_vars

(* The process takes its own steps; saves settle; a provider SDK stops for  *)
(* the signal; timers fire.  A tool or the model need never answer.         *)
Fairness ==
  /\ WF_vars(SaveEnds) /\ WF_vars(StartTurn) /\ WF_vars(CancelledAtTop) /\ WF_vars(OutOfTurns)
  /\ WF_vars(LlmFails /\ Aborted) /\ WF_vars(StartCall)
  /\ WF_vars(CallCancelled) /\ WF_vars(ToolTimesOut)

FairSpec == Spec /\ Fairness

-----------------------------------------------------------------------------
(* A history a provider accepts: each call is answered once, after it is    *)
(* made and before the model speaks again, and nothing else is answered.    *)
WellFormed(ms) ==
  /\ \A i \in DOMAIN ms : \A k \in DOMAIN ms[i].calls :
       /\ i + k \in DOMAIN ms
       /\ ms[i + k] = Result(ms[i].calls[k])
  /\ \A j \in DOMAIN ms : ms[j].role = "tool" =>
       \E i \in 1..(j - 1) : ms[j].id \in SeqSet(ms[i].calls)
  /\ Cardinality(Answered(ms)) = Cardinality({j \in DOMAIN ms : ms[j].role = "tool"})

(* Whatever was cut, resumed, repaired or prepended, the history the model  *)
(* is asked about is well formed, and so is the history of a session.       *)
RequestsWellFormed == (pc = "llm" => WellFormed(messages)) /\ WellFormed(session)

(* A tool call whose result is in the run's checkpoint is not made again,   *)
(* whenever the process died and however often the run is resumed.          *)
RecordedNeverRerun ==
  [][\A id \in DOMAIN ran :
       (id \in DOMAIN ran' /\ ran'[id] # ran[id]) => id \notin Answered(store[rid].messages)]_vars

(* Answers that only the process knows: neither the run's checkpoint nor    *)
(* the session has them.                                                    *)
Unsaved == Answered(messages) \ (Answered(store[rid].messages) \cup Answered(session))

(* Progress is saved after each tool call: a process that dies loses at    *)
(* most one answer, except while it makes up the calls an earlier life of   *)
(* the run left open, which are saved together.                             *)
ProgressSaved == (opt.ckpt /\ ~Ended /\ ~loop.resumed) => Cardinality(Unsaved) <= 1

(* With a tool timeout a cancelled run settles, whatever its tools do, and  *)
(* also when the signal fired between two of its calls.                     *)
CancelledRunEnds == (opt.toolTimeout /\ Aborted) ~> Ended

Message == [role : {"user", "assistant", "tool"}, calls : Seq(Nat), id : Nat]
Status == {"missing", "torn", "running", "done", "error"}
Outcome == {"none", "answer", "error", "timeout", "aborted", "crashed"}

(* Every variable has its type.                                             *)
TypeOK ==
  /\ opt \in Options /\ pc \in {"idle", "top", "llm", "tools", "calling", "saving"}
  /\ rid \in Nat /\ turn \in Nat /\ asked \in Nat /\ lives \in Nat /\ runs \in 0..opt.runs
  /\ messages \in Seq(Message) /\ session \in Seq(Message)
  /\ todo \in Seq(Nat) /\ ran \in Seq(Nat) /\ deaf \in BOOLEAN
  /\ loop \in [repairs : Nat, retried : BOOLEAN, baseline : Nat, resumed : BOOLEAN, kept : BOOLEAN]
  /\ fired \subseteq {"caller", "deadline"}
  /\ saving \in [status : Status \cup {"none"}, turn : Nat, then : {"idle", "top", "tools"}, as : Outcome]
  /\ outcome \in Outcome
  /\ store \in [1..opt.runs -> [status : Status, turn : Nat, messages : Seq(Message)]]

(* A run: what the model is asked, and what a session keeps, is a history a *)
(* provider accepts, and a process that dies loses at most one answer.      *)
RunIsSound == TypeOK /\ RequestsWellFormed /\ ProgressSaved

=============================================================================
