----------------------------- MODULE AgentServer -----------------------------
(***************************************************************************)
(* An Agent behind HTTP (server.ts: POST /task and POST /chat; a2a.ts: the *)
(* A2A executor), its sessions (session.ts) and the clients that leave.    *)
(* Requests are served concurrently; those with one sessionId share a      *)
(* Session.  What Agent.run() does in between is the module AgentRun: here *)
(* it reads the session, and answers, fails or is aborted.                 *)
(***************************************************************************)
EXTENDS Naturals, Sequences, FiniteSets

CONSTANTS
  Request,   \* the requests of a behaviour
  KindOf,    \* "task", "chat" or "a2a"
  MaxDeltas  \* bound: pieces of text one answer is streamed in

VARIABLES
  pc,       \* per request: where its handler is
  gone,     \* requests whose client has hung up
  aborted,  \* requests whose run's signal has fired
  prior,    \* per request: the history its run started from
  session,  \* the items of the one shared Session
  out       \* per request: what has been written to its response

vars == <<pc, gone, aborted, prior, session, out>>

Init ==
  /\ pc = [r \in Request |-> "new"]
  /\ gone = {} /\ aborted = {}
  /\ prior = [r \in Request |-> <<>>]
  /\ session = <<>>
  /\ out = [r \in Request |-> <<>>]

Go(r, from, to) == pc[r] = from /\ pc' = [pc EXCEPT ![r] = to]
Send(r, chunks) == out' = [out EXCEPT ![r] = @ \o chunks]

\* readJsonBody() and the checks of its fields: 400, or the request is taken on.
Refuse(r) ==
  /\ KindOf[r] # "a2a" /\ Go(r, "new", "done") /\ Send(r, <<"400">>)
  /\ UNCHANGED <<gone, aborted, prior, session>>

Opening(kind) ==
  CASE kind = "task" -> <<>>
    [] kind = "chat" -> <<"start", "start-step", "text-start">>
    [] kind = "a2a" -> <<"submitted", "working">>

\* agent.run(): only /task has a session of the server's; it is read here.
Start(r) ==
  /\ Go(r, "new", "running") /\ Send(r, Opening(KindOf[r]))
  /\ prior' = [prior EXCEPT ![r] = IF KindOf[r] = "task" THEN session ELSE <<>>]
  /\ UNCHANGED <<gone, aborted, session>>

\* onText, when the provider streams.
Delta(r) ==
  /\ KindOf[r] = "chat" /\ pc[r] = "running" /\ Len(out[r]) < 3 + MaxDeltas
  /\ Send(r, <<"text-delta">>)
  /\ UNCHANGED <<pc, gone, aborted, prior, session>>

\* The client hangs up; abortOnClientDisconnect() passes it on to the run.
HangUp(r) ==
  /\ r \notin gone /\ pc[r] # "new" /\ gone' = gone \cup {r}
  /\ UNCHANGED <<pc, aborted, prior, session, out>>

Disconnect(r) ==
  /\ r \in gone \ aborted /\ KindOf[r] # "a2a" /\ pc[r] = "running"
  /\ aborted' = aborted \cup {r}
  /\ UNCHANGED <<pc, gone, prior, session, out>>

Exchange(r) == <<<<r, "user">>, <<r, "assistant">>>>

AddItemsToPrior(r) == prior[r] \o Exchange(r)

\* addItems(): appended to what the session holds now, not when the run began.
AddItems(r) == session \o Exchange(r)

Answered(r) ==
  /\ Go(r, "running", "answered")
  /\ session' = IF KindOf[r] = "task" THEN AddItems(r) ELSE session
  /\ UNCHANGED <<gone, aborted, prior, out>>

Closing(r) ==
  CASE KindOf[r] = "task" -> <<"200">>
    [] KindOf[r] = "chat" -> (IF Len(out[r]) = 3 THEN <<"text-delta">> ELSE <<>>)
                             \o <<"text-end", "finish-step", "finish", "[DONE]">>
    [] KindOf[r] = "a2a" -> <<"artifact", "completed">>

Finish(r) ==
  /\ Go(r, "answered", "done")
  /\ IF r \in gone /\ KindOf[r] # "a2a" THEN UNCHANGED out ELSE Send(r, Closing(r))
  /\ UNCHANGED <<gone, aborted, prior, session>>

FailingEarly(r) ==
  CASE KindOf[r] = "task" -> <<"500">>
    [] KindOf[r] = "chat" -> <<"error">>
    [] KindOf[r] = "a2a" -> <<"failed">>

\* What a run that rejects is answered with.
Failing(r) ==
  CASE KindOf[r] = "task" -> <<"500">>
    [] KindOf[r] = "chat" -> <<"error", "[DONE]">>
    [] KindOf[r] = "a2a" -> <<"failed">>

Fail(r) ==
  /\ r \notin aborted /\ Go(r, "running", "done")
  /\ IF r \in gone /\ KindOf[r] # "a2a" THEN UNCHANGED out ELSE Send(r, Failing(r))
  /\ UNCHANGED <<gone, aborted, prior, session>>

\* The run was aborted by the disconnect: nobody is left to be told.
FailQuietly(r) ==
  /\ r \in aborted /\ Go(r, "running", "done")
  /\ UNCHANGED <<gone, aborted, prior, session, out>>

Finished == (\A r \in Request : pc[r] = "done") /\ UNCHANGED vars

Next ==
  \/ \E r \in Request : \/ Refuse(r) \/ Start(r) \/ Delta(r) \/ HangUp(r) \/ Disconnect(r)
                        \/ Answered(r) \/ Finish(r) \/ Fail(r) \/ FailQuietly(r)
  \/ Finished

Spec == Init /\ [][Next]_vars

-----------------------------------------------------------------------------
(* Every exchange a /task was answered with is in the session once and in    *)
(* one piece, whichever requests of the same session ran at the same time,   *)
(* and nothing of a request that failed or was aborted is.                   *)
SessionKeepsExchanges ==
  \A r \in Request :
    LET places == {i \in DOMAIN session : session[i][1] = r}
        kept == KindOf[r] = "task" /\ (pc[r] = "answered" \/ (pc[r] = "done" /\ "200" \in {out[r][i] : i \in DOMAIN out[r]}))
    IN  /\ kept => Cardinality(places) = 2
        /\ \A i \in places : SubSeq(session, IF session[i][2] = "user" THEN i ELSE i - 1,
                                             IF session[i][2] = "user" THEN i + 1 ELSE i) = Exchange(r)

Ending == {"400", "200", "500", "[DONE]", "completed", "failed"}

(* A client that stays gets a response that ends: the sentinel the stream's  *)
(* reader waits for, a status, or a terminal state of the task; and nothing  *)
(* is written after it.                                                     *)
EveryResponseEnds ==
  \A r \in Request :
    /\ (pc[r] = "done" /\ (r \notin gone \/ KindOf[r] = "a2a")) => out[r] # <<>> /\ out[r][Len(out[r])] \in Ending
    /\ \A i \in DOMAIN out[r] : out[r][i] \in Ending => i = Len(out[r])
=============================================================================
