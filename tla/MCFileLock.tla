----------------------------- MODULE MCFileLock -----------------------------
(* Instances of FileLock for TLC.                                          *)
EXTENDS FileLock, TLC

CONSTANT Away   \* the processes on a second host

Hosts == [p \in Proc |-> IF p \in Away THEN "away" ELSE "home"]

(* Processes on one host are interchangeable.                              *)
Symmetric == {f \in Permutations(Proc) : \A p \in Proc : f[p] \in Away <=> p \in Away}
=============================================================================
