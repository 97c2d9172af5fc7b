---------------------------- MODULE SqlConnector ----------------------------
(***************************************************************************)
(* The postgres and mysql apps: agents' statements, one per call, over a   *)
(* pool of two connections to a database.  The connection is opened once,  *)
(* by the first call, and refused to a role that a read-only transaction   *)
(* cannot hold back; each call guards its session, runs its statement, and *)
(* puts the connection back clean or closes it.                            *)
(*                                                                         *)
(* A statement is one of: "read"; "write"; "many", a write that returns    *)
(* more rows than the cap; "slow", a write that outlasts the time limit;   *)
(* "ddl"; "set", which changes the session (a setting, a lock, the         *)
(* session's own read-only flag); "program", which acts outside the data   *)
(* and which only a privileged role may run; "end", which ends the         *)
(* session.                                                                *)
(***************************************************************************)
EXTENDS Integers, FiniteSets

CONSTANTS
  Call,       \* calls
  Conn,       \* the connections of the pool: connectionLimit
  None

Statement == {"read", "write", "many", "slow", "ddl", "set", "program", "end"}

VARIABLES
  engine,      \* "postgres" or "mysql"
  mode,        \* "read-only" or "read-write"
  privileged,  \* the role of DATABASE_URL
  opened,      \* the promise of the connection: "none", "opening", "open"
  pools,       \* pools that were made and not ended
  at,          \* the step of each call
  stmt,        \* its statement
  on,          \* the connection it holds
  said,        \* what it reported
  sess,        \* each connection's session, or None when there is none
  orphans,     \* [call, tx] of statements that run on in sessions the app left
  kept         \* calls whose change is in the database for good

rigid == <<engine, mode, privileged>>
vars == <<rigid, opened, pools, at, stmt, on, said, sess, orphans, kept>>

Fresh == [tx |-> "none", readOnly |-> FALSE, limit |-> FALSE, left |-> FALSE, changed |-> FALSE, lost |-> FALSE]

Init ==
  /\ engine \in {"postgres", "mysql"}
  /\ mode \in {"read-only", "read-write"}
  /\ privileged \in BOOLEAN
  /\ opened = "none" /\ pools = 0
  /\ at = [c \in Call |-> "new"]
  /\ stmt = [c \in Call |-> None]
  /\ on = [c \in Call |-> None]
  /\ said = [c \in Call |-> None]
  /\ sess = [k \in Conn |-> None]
  /\ orphans = {}
  /\ kept = {}

Go(c, s) == at' = [at EXCEPT ![c] = s]

\* A call, and the promise of the connection it waits for: the first makes it.
Start(c, s) ==
  /\ at[c] = "new"
  /\ stmt' = [stmt EXCEPT ![c] = s]
  /\ Go(c, "connection")
  /\ opened' = IF opened = "none" THEN "opening" ELSE opened
  /\ pools' = IF opened = "none" THEN pools + 1 ELSE pools
  /\ UNCHANGED <<rigid, on, said, sess, orphans, kept>>

\* Read-only mode serves a role only when a transaction can hold it back.
ServesRole == mode = "read-write" \/ ~privileged

\* open() ends: with the pool, or having ended it, and is then forgotten; the
\* calls that wait for it fail with it.
OpenEnds ==
  /\ opened = "opening"
  /\ \/ /\ ServesRole
        /\ opened' = "open"
        /\ UNCHANGED <<pools, at, said>>
     \/ /\ opened' = "none"
        /\ pools' = pools - 1
        /\ at' = [c \in Call |-> IF at[c] = "connection" THEN "done" ELSE at[c]]
        /\ said' = [c \in Call |-> IF at[c] = "connection" THEN "failed" ELSE said[c]]
  /\ UNCHANGED <<rigid, stmt, on, sess, orphans, kept>>

Connected(c) ==
  /\ at[c] = "connection" /\ opened = "open"
  /\ Go(c, "pool")
  /\ UNCHANGED <<rigid, opened, pools, stmt, on, said, sess, orphans, kept>>

Free(k) == \A c \in Call : on[c] # k

\* A connection of the pool that no call holds, a new one where there is none.
Take(c, k) ==
  /\ at[c] = "pool" /\ Free(k)
  /\ on' = [on EXCEPT ![c] = k]
  /\ sess' = [sess EXCEPT ![k] = IF @ = None \/ @.lost THEN Fresh ELSE @]
  /\ Go(c, "guard")
  /\ UNCHANGED <<rigid, opened, pools, stmt, said, orphans, kept>>

Sess(c) == sess[on[c]]

GuardedWithAutocommit(c) ==
  [Sess(c) EXCEPT !.limit = TRUE,
                  !.readOnly = (engine = "mysql" /\ mode = "read-only"),
                  !.tx = IF mode = "read-only" THEN "ro" ELSE "none"]

\* The time limit, and the transaction: mysql's session is read-only too, as
\* its DDL commits the transaction first.
Guarded(c) ==
  [Sess(c) EXCEPT !.limit = TRUE,
                  !.readOnly = (engine = "mysql" /\ mode = "read-only"),
                  !.tx = IF mode = "read-only" THEN "ro" ELSE IF engine = "mysql" THEN "rw" ELSE "none"]

Guard(c) ==
  /\ at[c] = "guard"
  /\ IF Sess(c).lost
     THEN /\ said' = [said EXCEPT ![c] = "lost"]
          /\ Go(c, "discard")
          /\ UNCHANGED sess
     ELSE /\ sess' = [sess EXCEPT ![on[c]] = Guarded(c)]
          /\ Go(c, "running")
          /\ UNCHANGED said
  /\ UNCHANGED <<rigid, opened, pools, stmt, on, orphans, kept>>

---------------------------------------------------------------------------
(* What the server does with a statement.                                  *)

\* The call reports s, and goes on to t with the session as e says.
Ends(c, s, t, e) ==
  /\ said' = [said EXCEPT ![c] = s]
  /\ sess' = [sess EXCEPT ![on[c]] = e]
  /\ Go(c, t)

Refused(c) == Ends(c, "refused", "back", Sess(c)) /\ UNCHANGED kept

\* A change commits at once outside a transaction.
Changes(c, s, t) ==
  /\ Ends(c, s, t, [Sess(c) EXCEPT !.changed = (Sess(c).tx = "rw")])
  /\ kept' = IF Sess(c).tx = "none" THEN kept \cup {c} ELSE kept

\* mysql commits what is done within its time limit, at the end of the result.
AfterResult == IF engine = "mysql" /\ mode = "read-write" THEN "commit" ELSE "back"

ReadOnly(c) == Sess(c).tx = "ro"

Executes(c) ==
  /\ at[c] = "running" /\ ~Sess(c).lost
  /\ CASE stmt[c] = "read" -> Ends(c, "ok", AfterResult, Sess(c)) /\ UNCHANGED kept
       [] stmt[c] \in {"write", "slow"} -> IF ReadOnly(c) THEN Refused(c) ELSE Changes(c, "ok", AfterResult)
       [] stmt[c] = "many" ->
            IF ReadOnly(c) THEN Refused(c)
            ELSE Changes(c, "truncated", IF engine = "mysql" THEN "stop" ELSE "back")
       [] stmt[c] = "ddl" ->
            IF engine = "postgres"
            THEN IF ReadOnly(c) THEN Refused(c) ELSE Changes(c, "ok", "back")
            ELSE IF Sess(c).readOnly THEN Refused(c)
            ELSE Ends(c, "ok", AfterResult, [Sess(c) EXCEPT !.tx = "none"]) /\ kept' = kept \cup {c}
       [] stmt[c] = "set" ->
            Ends(c, "ok", AfterResult, [Sess(c) EXCEPT !.left = TRUE, !.readOnly = FALSE, !.limit = FALSE]) /\ UNCHANGED kept
       [] stmt[c] = "program" ->
            IF privileged THEN Ends(c, "ok", AfterResult, Sess(c)) /\ kept' = kept \cup {c} ELSE Refused(c)
       [] stmt[c] = "end" -> Ends(c, "lost", "discard", [Sess(c) EXCEPT !.lost = TRUE]) /\ UNCHANGED kept
  /\ UNCHANGED <<rigid, opened, pools, stmt, on, orphans>>

\* The server's own limit: postgres's covers every statement, mysql's only
\* reads (MariaDB's covers all).
ServerLimit(c) ==
  /\ at[c] = "running" /\ ~Sess(c).lost /\ Sess(c).limit
  /\ stmt[c] = "slow"
  /\ Ends(c, "timeout", "back", Sess(c))
  /\ UNCHANGED <<rigid, opened, pools, stmt, on, orphans, kept>>

NoTimer(c) == FALSE /\ UNCHANGED vars

\* mysql's own timer, which leaves the statement running on the server.
Timer(c) ==
  /\ at[c] = "running" /\ engine = "mysql"
  /\ stmt[c] = "slow"
  /\ Ends(c, "timeout", "stop", Sess(c))
  /\ UNCHANGED <<rigid, opened, pools, stmt, on, orphans, kept>>

\* The connection drops: while a call holds it, it is that call's error.  The
\* server may go on with a statement it has.
Lose(k) ==
  /\ sess[k] # None /\ ~sess[k].lost
  /\ IF \E c \in Call : on[c] = k /\ at[c] \in {"running", "commit"}
     THEN LET c == CHOOSE c \in Call : on[c] = k
          IN /\ Ends(c, "lost", "discard", [sess[k] EXCEPT !.lost = TRUE])
             /\ orphans' = IF at[c] = "running" THEN orphans \cup {[call |-> c, tx |-> sess[k].tx]} ELSE orphans
     ELSE /\ sess' = [sess EXCEPT ![k].lost = TRUE]
          /\ UNCHANGED <<said, at, orphans>>
  /\ UNCHANGED <<rigid, opened, pools, stmt, on, kept>>

\* A statement whose session the app left runs on: its change is kept unless
\* it was in a transaction.
OrphanEnds(o) ==
  /\ orphans' = orphans \ {o}
  /\ kept' = IF o.tx = "none" /\ stmt[o.call] \in {"write", "slow", "many", "ddl"} THEN kept \cup {o.call} ELSE kept
  /\ UNCHANGED <<rigid, opened, pools, at, stmt, on, said, sess>>

---------------------------------------------------------------------------
(* The end of a call.                                                      *)

\* The COMMIT: its connection may drop before its answer.
Commit(c) ==
  /\ at[c] = "commit" /\ ~Sess(c).lost
  /\ kept' = IF Sess(c).changed THEN kept \cup {c} ELSE kept
  /\ sess' = [sess EXCEPT ![on[c]].tx = "none", ![on[c]].changed = FALSE]
  /\ \/ Go(c, "back") /\ UNCHANGED said
     \/ Go(c, "discard") /\ said' = [said EXCEPT ![c] = "lost"]
  /\ UNCHANGED <<rigid, opened, pools, stmt, on, orphans>>

\* KILL CONNECTION over the control connection: it ends the session, or cannot
\* be delivered, and the statement runs on.
StopStatement(c) ==
  /\ at[c] = "stop"
  /\ \/ UNCHANGED orphans
     \/ orphans' = orphans \cup {[call |-> c, tx |-> Sess(c).tx]}
  /\ Go(c, "discard")
  /\ UNCHANGED <<rigid, opened, pools, stmt, on, said, sess, kept>>

\* The connection is closed, and the server rolls its transaction back.
Discard(c) ==
  /\ at[c] = "discard"
  /\ sess' = [sess EXCEPT ![on[c]] = None]
  /\ on' = [on EXCEPT ![c] = None]
  /\ Go(c, "done")
  /\ UNCHANGED <<rigid, opened, pools, stmt, said, orphans, kept>>

RolledBack(e) == [e EXCEPT !.tx = "none", !.changed = FALSE]

\* ROLLBACK and DISCARD ALL, or COM_RESET_CONNECTION.
Reset(e) == [Fresh EXCEPT !.lost = e.lost]

\* The connection goes back to the pool as it was, or is closed.
PutBack(c) ==
  /\ at[c] = "back"
  /\ sess' = [sess EXCEPT ![on[c]] = IF @.lost THEN None ELSE Reset(@)]
  /\ on' = [on EXCEPT ![c] = None]
  /\ Go(c, "done")
  /\ UNCHANGED <<rigid, opened, pools, stmt, said, orphans, kept>>

Caller(c) ==
  \/ Connected(c) \/ (\E k \in Conn : Take(c, k)) \/ Guard(c) \/ Commit(c) \/ StopStatement(c)
  \/ Discard(c) \/ PutBack(c) \/ Timer(c)

Server(c) == Executes(c) \/ ServerLimit(c)

Next ==
  \/ \E c \in Call, s \in Statement : Start(c, s)
  \/ OpenEnds
  \/ \E c \in Call : Caller(c) \/ Server(c)
  \/ \E k \in Conn : Lose(k)
  \/ \E o \in orphans : OrphanEnds(o)

Spec == Init /\ [][Next]_vars

\* A server ends a statement it can end; mysql need never end a slow one.
Settles(c) == (stmt[c] # "slow" \/ engine = "postgres") /\ Server(c)

---------------------------------------------------------------------------
\* An agent's statement meets nothing an earlier call left in the session.
FreshSession ==
  \A c \in Call : at[c] = "running" => ~Sess(c).left /\ ~Sess(c).changed /\ Sess(c).limit

\* Nothing is kept of a read-only call, nor of one reported to have been
\* refused or to have run out of time, nor (in mysql) cut off at the cap.
NothingKeptUnsaid ==
  \A c \in kept :
    /\ mode = "read-write"
    /\ said[c] \notin {"refused", "failed", "timeout"}
    /\ said[c] = "truncated" => engine = "postgres"

\* A call that has begun, and one that is over.
Begun(c) == at[c] # "new"
Over(c) == at[c] = "done"
=============================================================================
