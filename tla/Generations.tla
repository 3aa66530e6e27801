----------------------------- MODULE Generations -----------------------------
(***************************************************************************)
(* What the submission journal promises of the signed transactions of one  *)
(* conflict key, whatever the number of processes: a transaction is signed *)
(* only when no other one of its key can still take effect, and takes      *)
(* effect at most once.  It says nothing of leases, rows or RPC calls.     *)
(***************************************************************************)
CONSTANT Works          \* records with a field key

VARIABLE fate           \* what has become of each work's transaction

Fates == {"unsigned", "live", "executed", "failed", "dead"}

TypeOK == fate \in [Works -> Fates]

Init == fate = [w \in Works |-> "unsigned"]

\* A transaction may also be signed too late to take effect at all.
Sign(w) ==
    /\ fate[w] = "unsigned"
    /\ \A o \in Works : o.key = w.key => fate[o] # "live"
    /\ \E f \in {"live", "dead"} : fate' = [fate EXCEPT ![w] = f]

\* Live transactions take effect, fail or expire.
Resolve ==
    /\ fate' \in [Works -> Fates]
    /\ \A w \in Works :
        \/ fate'[w] = fate[w]
        \/ fate[w] = "live" /\ fate'[w] \in {"executed", "failed", "dead"}

Next == Resolve \/ \E w \in Works : Sign(w)

Spec == Init /\ [][Next]_fate
=============================================================================
