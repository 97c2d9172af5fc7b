-------------------------------- MODULE Mesh --------------------------------
(***************************************************************************)
(* The mesh coordinator: containers register under a name, with a key, an  *)
(* endpoint and the names they will talk to; the coordinator gives each a  *)
(* mesh address and an owner token, and tells a peer of those that it      *)
(* names and that name it.  A handler of the coordinator is one step: it   *)
(* has no await.  A peer's configuration is the answer it was last given,  *)
(* and may be old.                                                         *)
(***************************************************************************)
EXTENDS Integers, FiniteSets

CONSTANTS
  Container,   \* what registers
  Name,
  MaxSeq,      \* the addresses handed out: the model's bound
  None

VARIABLES
  row,       \* the table of peers: name -> None or [key, ip, patterns, token]
  nextSeq,   \* the counter of addresses
  held,      \* each container: None or the [name, token, ip] it was given
  config     \* each container: the [name, ip, key]s it was last told of

vars == <<row, nextSeq, held, config>>

Init ==
  /\ row = [n \in Name |-> None]
  /\ nextSeq = 0
  /\ held = [c \in Container |-> None]
  /\ config = [c \in Container |-> {}]

\* A pattern is a set of names here.
Matches(patterns, n) == n \in patterns

\* mutualPeersFor(), of a table: both sides must have named the other.
MutualPeers(t, n) ==
  {[name |-> o, ip |-> t[o].ip, key |-> t[o].key] :
     o \in {o \in Name \ {n} : t[n] # None /\ t[o] # None /\ Matches(t[n].patterns, o) /\ Matches(t[o].patterns, n)}}

VerifyToken(n, c) == row[n] # None /\ held[c] # None /\ held[c].name = n /\ held[c].token = row[n].token

NextSeqOfCount == Cardinality({n \in Name : row[n] # None})

\* The counter only grows: an address is never handed out twice.
NextMeshSeq == nextSeq

\* POST /peers: a new name, which gets an address and a token; or a name whose
\* token the container has.
Register(c, n, ps) ==
  /\ row[n] = None \/ VerifyToken(n, c)
  /\ IF row[n] # None
     THEN /\ row' = [row EXCEPT ![n].key = c, ![n].patterns = ps]
          /\ UNCHANGED <<nextSeq, held>>
     ELSE /\ nextSeq < MaxSeq
          /\ row' = [row EXCEPT ![n] = [key |-> c, ip |-> NextMeshSeq, patterns |-> ps, token |-> nextSeq]]
          /\ held' = [held EXCEPT ![c] = [name |-> n, token |-> nextSeq, ip |-> NextMeshSeq]]
          /\ nextSeq' = nextSeq + 1
  /\ config' = [config EXCEPT ![c] = MutualPeers(row', n)]

\* GET /peers.
Refresh(c) ==
  /\ held[c] # None /\ VerifyToken(held[c].name, c)
  /\ config' = [config EXCEPT ![c] = MutualPeers(row, held[c].name)]
  /\ UNCHANGED <<row, nextSeq, held>>

\* DELETE /peers/:name.
Remove(c) ==
  /\ held[c] # None /\ VerifyToken(held[c].name, c)
  /\ row' = [row EXCEPT ![held[c].name] = None]
  /\ UNCHANGED <<nextSeq, held, config>>

Next ==
  \E c \in Container :
    \/ \E n \in Name, ps \in SUBSET Name : Register(c, n, ps)
    \/ Refresh(c) \/ Remove(c)

Spec == Init /\ [][Next]_vars

---------------------------------------------------------------------------
\* An address in a configuration, however old, is of the registration it was
\* given for or of none: no other peer is reached by it.
StaleAddressIsNobodyElses ==
  \A c \in Container : \A p \in config[c] : \A n \in Name : row[n] # None /\ row[n].ip = p.ip => n = p.name
=============================================================================
