----------------------------- MODULE AuditTrail -----------------------------
(* What the audit trail promises its readers: one chain of records, which  *)
(* only grows at its end, and of which only the oldest part is ever given  *)
(* up.                                                                     *)
CONSTANTS Hash,      \* the records' hashes
          Genesis    \* the prevHash of the first record

VARIABLES held,      \* the records held, each with the hash it follows
          end        \* the hash the next record will follow

trail == <<held, end>>

Init == held = {} /\ end = Genesis

Extend ==
    \E h \in Hash \ {r.hash : r \in held} :
        /\ held' = held \cup {[hash |-> h, prev |-> end]}
        /\ end' = h

(* Retention gives up a beginning of the chain, no record of which follows *)
(* one that is kept, and never all of it.                                  *)
Prune ==
    /\ held' \subseteq held /\ held' # {}
    /\ \A r \in held \ held', k \in held' : r.prev # k.hash
    /\ end' = end

Spec == Init /\ [][Extend \/ Prune]_trail
=============================================================================
