------------------------------ MODULE Terminal ------------------------------
(***************************************************************************)
(* The terminal app: one tmux session, made when it is first needed and    *)
(* again when it has ended, that an agent's calls and people at the web    *)
(* view share.  A command is typed into the session's shell followed by    *)
(* `echo' of a word of its own, and its output is what the pane shows      *)
(* between the last echo of what was typed and that word.                  *)
(*                                                                         *)
(* The shell and the terminal are external: what is typed while a command  *)
(* runs is shown at once, and shown again when the shell comes to read it. *)
(***************************************************************************)
EXTENDS Integers, Sequences, FiniteSets, FiniteSetsExt

CONSTANTS
  Call,       \* calls of run_command
  MaxLines,   \* lines a command prints, MaxPane what the pane holds: the model's bounds
  MaxPane,
  MaxEnds,    \* times the session ends
  None

VARIABLES
  session,   \* whether the tmux session exists
  ends,      \* how often it ended
  pane,      \* what the pane shows: [kind, call]s
  typed,     \* the calls' commands the shell has not read yet
  current,   \* the command that runs, or None
  printed,   \* how many lines it has printed
  at,        \* call -> where it is
  starting,  \* the shared check-and-create: None, "check", "create", "ttyd"
  ttyd,      \* "none", "running" or "missing"
  flag,      \* ttydStarted
  answer     \* call -> None or the [kind, call]s it returned

vars == <<session, ends, pane, typed, current, printed, at, starting, ttyd, flag, answer>>

Init ==
  /\ session \in BOOLEAN
  /\ ends = 0 /\ pane = <<>> /\ typed = <<>> /\ current = None /\ printed = 0
  /\ at = [c \in Call |-> "new"]
  /\ starting = None /\ ttyd = "none" /\ flag = FALSE
  /\ answer = [c \in Call |-> None]

Go(c, s) == at' = [at EXCEPT ![c] = s]
Shows(kind, c) == pane' = Append(pane, [kind |-> kind, call |-> c])

---------------------------------------------------------------------------
(* The session.                                                            *)

\* ensureSession(): a check is under way, which the call shares, or begins.
EnsureSession(c) ==
  /\ at[c] = "new"
  /\ Go(c, "ensure")
  /\ starting' = IF starting = None THEN "check" ELSE starting
  /\ UNCHANGED <<session, ends, pane, typed, current, printed, ttyd, flag, answer>>

HasSession ==
  /\ starting = "check"
  /\ starting' = IF session THEN "ttyd" ELSE "create"
  /\ UNCHANGED <<session, ends, pane, typed, current, printed, at, ttyd, flag, answer>>

\* new-session: one that is there by now is as good; or it fails, and with it
\* the calls that wait.
NewSession ==
  /\ starting = "create"
  /\ \/ /\ session' = TRUE /\ starting' = "ttyd" /\ UNCHANGED at
     \/ /\ UNCHANGED session /\ starting' = None
        /\ at' = [c \in Call |-> IF at[c] = "ensure" THEN "failed" ELSE at[c]]
  /\ UNCHANGED <<ends, pane, typed, current, printed, ttyd, flag, answer>>

\* ttyd is spawned once, and again after it exited; the calls go on.
StartTtyd ==
  /\ starting = "ttyd"
  /\ flag' = TRUE
  /\ ttyd' \in IF flag THEN {ttyd} ELSE {"running", "missing"}
  /\ starting' = None
  /\ at' = [c \in Call |-> IF at[c] = "ensure" THEN "send" ELSE at[c]]
  /\ UNCHANGED <<session, ends, pane, typed, current, printed, answer>>

TtydExits ==
  /\ ttyd = "running"
  /\ ttyd' = "none" /\ flag' = FALSE
  /\ UNCHANGED <<session, ends, pane, typed, current, printed, at, starting, answer>>

\* Someone types `exit', or kills the shell.
SessionEnds ==
  /\ session /\ ends < MaxEnds
  /\ session' = FALSE /\ ends' = ends + 1
  /\ pane' = <<>> /\ typed' = <<>> /\ current' = None /\ printed' = 0
  /\ UNCHANGED <<at, starting, ttyd, flag, answer>>

---------------------------------------------------------------------------
(* The shell.                                                              *)

\* The next command is read, with what was typed shown again where the shell
\* was busy, and maybe where it was not.
ShellReads ==
  /\ session /\ current = None /\ typed # <<>> /\ Len(pane) < MaxPane
  /\ current' = Head(typed) /\ typed' = Tail(typed) /\ printed' = 0
  /\ \/ Shows("typed", Head(typed))
     \/ /\ pane # <<>> /\ pane[Len(pane)] = [kind |-> "typed", call |-> Head(typed)]
        /\ UNCHANGED pane
  /\ UNCHANGED <<session, ends, at, starting, ttyd, flag, answer>>

ShellPrints ==
  /\ current # None /\ printed < MaxLines /\ Len(pane) < MaxPane
  /\ Shows("line", current) /\ printed' = printed + 1
  /\ UNCHANGED <<session, ends, typed, current, at, starting, ttyd, flag, answer>>

\* The command ends, and the word after it is printed.
ShellEchoes ==
  /\ current # None /\ Len(pane) < MaxPane
  /\ Shows("word", current) /\ current' = None /\ printed' = 0
  /\ UNCHANGED <<session, ends, typed, at, starting, ttyd, flag, answer>>

\* send_keys "C-c", or a person: what runs and what is typed ahead is dropped.
Interrupt ==
  /\ session /\ current # None
  /\ current' = None /\ typed' = <<>> /\ printed' = 0
  /\ UNCHANGED <<session, ends, pane, at, starting, ttyd, flag, answer>>

---------------------------------------------------------------------------
(* run_command.                                                            *)

\* send-keys, which fails without a session.
SendKeys(c) ==
  /\ at[c] = "send" /\ Len(pane) < MaxPane
  /\ IF session
     THEN Shows("typed", c) /\ typed' = Append(typed, c) /\ Go(c, "poll")
     ELSE UNCHANGED <<pane, typed>> /\ Go(c, "failed")
  /\ UNCHANGED <<session, ends, current, printed, starting, ttyd, flag, answer>>

Places(kind, c) == {i \in DOMAIN pane : pane[i] = [kind |-> kind, call |-> c]}

FirstMarker(c) == Min(Places("typed", c))

\* The last of the places where what was typed is shown.
Marker(c) == Max(Places("typed", c))

\* capture-pane, every 200 ms: what is between the marker and the word.
Poll(c) ==
  /\ at[c] = "poll"
  /\ \/ /\ session /\ Places("typed", c) # {}
        /\ \E i \in Places("word", c) : i > Marker(c)
        /\ LET word == Min({i \in Places("word", c) : i > Marker(c)})
           IN  answer' = [answer EXCEPT ![c] = SubSeq(pane, Marker(c) + 1, word - 1)]
        /\ Go(c, "done")
     \/ ~session /\ Go(c, "failed") /\ UNCHANGED answer
  /\ UNCHANGED <<session, ends, pane, typed, current, printed, starting, ttyd, flag>>

TimesOut(c) ==
  /\ at[c] = "poll"
  /\ Go(c, "failed")
  /\ UNCHANGED <<session, ends, pane, typed, current, printed, starting, ttyd, flag, answer>>

Next ==
  \/ \E c \in Call : EnsureSession(c) \/ SendKeys(c) \/ Poll(c) \/ TimesOut(c)
  \/ HasSession \/ NewSession \/ StartTtyd \/ TtydExits \/ SessionEnds
  \/ ShellReads \/ ShellPrints \/ ShellEchoes \/ Interrupt

Spec == Init /\ [][Next]_vars

---------------------------------------------------------------------------
\* What a command returns has no line of another command's output, however
\* the calls, the people and the shell's redrawing interleave.
AnswerIsItsOwn ==
  \A c \in Call : answer[c] # None =>
    \A i \in DOMAIN answer[c] : answer[c][i].kind = "line" => answer[c][i].call = c
=============================================================================
