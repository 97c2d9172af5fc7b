----------------------------- MODULE ProxyTunnel -----------------------------
(***************************************************************************)
(* The socket-shaped stream a database driver is given in a sandbox        *)
(* (apps/mysql/src/tunnel.ts, apps/postgres/src/tunnel.ts): a CONNECT      *)
(* through the egress broker underneath, the driver's bytes on top.  A     *)
(* chunk is its number in the order it was written.                        *)
(***************************************************************************)
EXTENDS Naturals, Sequences

CONSTANT MaxChunks   \* bound: chunks in each direction

VARIABLES
  queues,   \* mysql queues early writes; postgres fails them
  st,       \* the stream: "new", "handshake", "open", "destroyed"
  inner,    \* the tunnel's socket is known to the stream
  sock,     \* the socket below: "none", "asking", "up", "closed"
  queued,   \* writes made before there was an inner socket
  wrote,    \* chunks the driver has written
  got,      \* what reached the database
  spoke,    \* chunks the database has sent
  flight,   \* those the stream has not pushed yet
  read      \* what the driver was given

vars == <<queues, st, inner, sock, queued, wrote, got, spoke, flight, read>>

Init ==
  /\ queues \in BOOLEAN /\ st = "new" /\ inner = FALSE /\ sock = "none"
  /\ queued = <<>> /\ wrote = 0 /\ got = <<>> /\ spoke = 0 /\ flight = <<>> /\ read = <<>>

Connect ==
  /\ st = "new" /\ st' = "handshake" /\ sock' = "asking"
  /\ UNCHANGED <<queues, inner, queued, wrote, got, spoke, flight, read>>

\* _write(); a write that fails destroys the stream.
Write ==
  /\ st \in {"new", "handshake", "open"} /\ wrote < MaxChunks
  /\ IF inner THEN wrote' = wrote + 1 /\ got' = Append(got, wrote') /\ UNCHANGED <<st, queued>>
     ELSE IF queues THEN wrote' = wrote + 1 /\ queued' = Append(queued, wrote') /\ UNCHANGED <<st, got>>
     ELSE st' = "destroyed" /\ UNCHANGED <<wrote, queued, got>>
  /\ UNCHANGED <<queues, inner, sock, spoke, flight, read>>

EmitThenFlush(n) == [i \in 1..n |-> wrote + i] \o queued

\* The queue first, then whatever the driver writes in its "connect" handler.
FlushThenEmit(n) == queued \o [i \in 1..n |-> wrote + i]

\* The proxy said 200, perhaps with the database's first words behind it.
Opened(n, rest) ==
  /\ sock = "asking" /\ ~inner /\ inner' = TRUE /\ sock' = "up"
  /\ wrote + n <= MaxChunks /\ (st = "destroyed" => n = 0)
  /\ wrote' = wrote + n
  /\ got' = got \o FlushThenEmit(n)
  /\ queued' = <<>>
  /\ spoke' = rest
  /\ IF st = "handshake" THEN st' = "open" /\ read' = [i \in 1..rest |-> i]
     ELSE UNCHANGED <<st, read>>
  /\ UNCHANGED <<queues, flight>>

\* Another status: both ends are destroyed.
Refused ==
  /\ sock = "asking" /\ ~inner /\ sock' = "closed" /\ st' = "destroyed"
  /\ UNCHANGED <<queues, inner, queued, wrote, got, spoke, flight, read>>

Fails ==
  /\ sock \in {"asking", "up"} /\ sock' = "closed" /\ st' = "destroyed"
  /\ UNCHANGED <<queues, inner, queued, wrote, got, spoke, flight, read>>

\* The proxy hangs up before it answered: nobody listens for that yet.
HangsUp ==
  /\ sock = "asking" /\ sock' = "closed"
  /\ UNCHANGED <<queues, st, inner, queued, wrote, got, spoke, flight, read>>

Speaks ==
  /\ sock = "up" /\ spoke < MaxChunks /\ spoke' = spoke + 1
  /\ flight' = Append(flight, spoke')
  /\ UNCHANGED <<queues, st, inner, sock, queued, wrote, got, read>>

\* push(); a full buffer pauses the socket until _read() resumes it.
Push ==
  /\ st = "open" /\ flight # <<>>
  /\ read' = Append(read, Head(flight)) /\ flight' = Tail(flight)
  /\ UNCHANGED <<queues, st, inner, sock, queued, wrote, got, spoke>>

\* _destroy() and _final() know the inner socket only.
Destroy ==
  /\ st \in {"new", "handshake", "open"} /\ st' = "destroyed"
  /\ sock' = IF inner THEN "closed" ELSE sock
  /\ UNCHANGED <<queues, inner, queued, wrote, got, spoke, flight, read>>

Next ==
  \/ Connect \/ Write \/ Refused \/ Fails \/ HangsUp \/ Speaks \/ Push \/ Destroy
  \/ \E n \in 0..MaxChunks, rest \in 0..1 : Opened(n, rest)

Spec == Init /\ [][Next]_vars

-----------------------------------------------------------------------------
(* Early writes, writes made while "connect" is being announced and later    *)
(* ones reach the database in the order the driver made them, none twice,    *)
(* and the driver reads the database's bytes from the first one on.          *)
BytesInOrder ==
  /\ got = [i \in 1..Len(got) |-> i] /\ (inner => Len(got) = wrote)
  /\ st = "open" => read \o flight = [i \in 1..spoke |-> i]
=============================================================================
