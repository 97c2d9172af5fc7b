--------------------------- MODULE ExclusiveLock ----------------------------
(***************************************************************************)
(* What a lock promises the writers that share a file: one holder at a     *)
(* time, taken over only after the last one let go or died.                *)
(***************************************************************************)
CONSTANT Proc

VARIABLE holders   \* the live processes inside the lock

Init == holders = {}

Take(p) == holders = {} /\ holders' = {p}

(* A holder lets go, or dies; either way the lock is free from then on.    *)
Leave(p) == p \in holders /\ holders' = holders \ {p}

Next == \E p \in Proc : Take(p) \/ Leave(p)

Spec == Init /\ [][Next]_holders
=============================================================================
