------------------------------ MODULE Registry ------------------------------
(***************************************************************************)
(* The app registry: publishers send versions of apps to a server that     *)
(* keeps the bundles as files and a row of its database for each version   *)
(* and for each name's owner.  What a handler does between two awaits is   *)
(* one step: the checks; the create of the bundle's file; its bytes; the   *)
(* rows.  The server may die and be started again.                         *)
(***************************************************************************)
EXTENDS Integers, FiniteSets

CONSTANTS
  Request,    \* publish requests
  Publisher,
  Version,    \* of the one name they publish
  None

Partial == "partial"

VARIABLES
  at,        \* the step of each request
  req,       \* its [by, version]
  isNew,     \* what it found out about the name
  blobs,     \* each version's file: None, Partial or the request whose bytes it has
  apps,      \* the rows of apps: version -> request, or None
  owner,     \* the row of app_owners: None or the publisher it was minted for
  told       \* publishers that were shown the owner token

vars == <<at, req, isNew, blobs, apps, owner, told>>

Init ==
  /\ at = [r \in Request |-> "new"]
  /\ req \in [Request -> [by : Publisher, version : Version]]
  /\ isNew = [r \in Request |-> FALSE]
  /\ blobs = [v \in Version |-> None]
  /\ apps = [v \in Version |-> None]
  /\ owner = None
  /\ told = {}

V(r) == req[r].version
Go(r, s) == at' = [at EXCEPT ![r] = s]

\* The owner token, where the publisher has it, is of the current owner.
VerifyOwnerToken(r) == req[r].by \in told

\* The request is read whole, and then: the name's owner, and the version.
Check(r) ==
  /\ at[r] = "new"
  /\ isNew' = [isNew EXCEPT ![r] = (owner = None)]
  /\ Go(r, IF owner # None /\ ~VerifyOwnerToken(r) THEN "401"
           ELSE IF apps[V(r)] # None THEN "409" ELSE "create")
  /\ UNCHANGED <<req, blobs, apps, owner, told>>

CreateOrReplace(r) ==
  /\ at[r] = "create"
  /\ Go(r, "write")
  /\ blobs' = [blobs EXCEPT ![V(r)] = Partial]
  /\ UNCHANGED <<req, isNew, apps, owner, told>>

\* BlobStore.write(): the file is created only where there is none.
Create(r) ==
  /\ at[r] = "create"
  /\ IF blobs[V(r)] = None
     THEN Go(r, "write") /\ blobs' = [blobs EXCEPT ![V(r)] = Partial]
     ELSE Go(r, "409") /\ UNCHANGED blobs
  /\ UNCHANGED <<req, isNew, apps, owner, told>>

\* The bytes; a write that fails leaves what there is of the file.
WriteBytes(r) ==
  /\ at[r] = "write"
  /\ \/ blobs' = [blobs EXCEPT ![V(r)] = r] /\ Go(r, "insert")
     \/ UNCHANGED blobs /\ Go(r, "500")
  /\ UNCHANGED <<req, isNew, apps, owner, told>>

\* insert(), and, where the name was new, registerOwner(), which throws when
\* another publish has claimed the name since.
Insert(r) ==
  /\ at[r] = "insert"
  /\ apps[V(r)] = None
  /\ apps' = [apps EXCEPT ![V(r)] = r]
  /\ \/ ~isNew[r] /\ Go(r, "201") /\ UNCHANGED <<owner, told>>
     \/ isNew[r] /\ owner = None /\ Go(r, "201") /\ owner' = req[r].by /\ told' = told \cup {req[r].by}
     \/ isNew[r] /\ owner # None /\ Go(r, "500") /\ UNCHANGED <<owner, told>>
  /\ UNCHANGED <<req, isNew, blobs>>

\* insert() throws, for a row that is there or otherwise.
InsertFails(r) ==
  /\ at[r] = "insert"
  /\ Go(r, "remove")
  /\ UNCHANGED <<req, isNew, blobs, apps, owner, told>>

\* The bundle just written is removed again.
RemoveBundle(r) ==
  /\ at[r] = "remove"
  /\ blobs' = [blobs EXCEPT ![V(r)] = None]
  /\ Go(r, "409")
  /\ UNCHANGED <<req, isNew, apps, owner, told>>

\* The server dies, with the requests it had.
Restart ==
  /\ at' = [r \in Request |-> IF at[r] \in {"create", "write", "insert", "remove"} THEN "lost" ELSE at[r]]
  /\ at' # at
  /\ UNCHANGED <<req, isNew, blobs, apps, owner, told>>

Next ==
  \/ \E r \in Request : Check(r) \/ Create(r) \/ WriteBytes(r) \/ Insert(r) \/ InsertFails(r) \/ RemoveBundle(r)
  \/ Restart

Spec == Init /\ [][Next]_vars

---------------------------------------------------------------------------
\* What a download of a published version serves is the whole bundle of the
\* publish that was recorded for it, and stays that.
ServedAsPublished == \A v \in Version : apps[v] # None => blobs[v] = apps[v]

=============================================================================
