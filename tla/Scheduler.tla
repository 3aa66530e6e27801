------------------------------ MODULE Scheduler ------------------------------
(***************************************************************************)
(* The in-process scheduler of keeper-core, rust/crates/keeper-core/src/   *)
(* lib.rs (its TypeScript twin is typescript/packages/keeper-core/src/     *)
(* index.ts): at most one candidate waits per conflict key, the best       *)
(* ranked one, and none waits for a key whose work is in flight.           *)
(*                                                                         *)
(* Abstractions: a candidate is a record of what the scheduler reads.      *)
(* Conflict keys are model values.  Candidate identifiers are numbers in   *)
(* the order in which the language compares the strings.                   *)
(***************************************************************************)
EXTENDS Integers

CONSTANTS
    Keys,       \* conflict keys
    Candidates, \* what the discovery may offer
    Revision,   \* the protocol revision of this scheduler
    None        \* no candidate

Priority ==
    [leverage_liquidation |-> 500, lending_liquidation_settle |-> 500,
     hlp_recovery |-> 500, stop_loss |-> 400, hlp_order |-> 400,
     take_profit |-> 300, limit_entry |-> 250, lending_liquidation_bid |-> 200,
     auction_bid |-> 200, lifecycle |-> 100, sentinel |-> 0]

JobKind == DOMAIN Priority

Candidate ==
    [key : Keys, kind : JobKind, slot : Nat, id : Nat, revision : {Revision, "other"}]

ASSUME SchedulerAssumption ==
    /\ Candidates \subseteq Candidate /\ None \notin Candidate

VARIABLES
    pending,    \* the candidate that waits for a key, or None
    inFlight,   \* keys whose work has been handed out
    offers,     \* history: what was offered for a key while it waits
    last        \* history: the last candidate popped since the last enqueue

vars == <<pending, inFlight, offers, last>>

Init ==
    /\ pending = [k \in Keys |-> None]
    /\ inFlight = {}
    /\ offers = [k \in Keys |-> {}]
    /\ last = None

\* Mutant: the fresher observation wins before the priority is compared.
OutranksBySlot(c, d) ==
    \/ c.slot > d.slot
    \/ c.slot = d.slot /\ Priority[c.kind] > Priority[d.kind]
    \/ c.slot = d.slot /\ Priority[c.kind] = Priority[d.kind] /\ c.id > d.id

\* candidate_rank: priority, then observed slot, then identifier.
Outranks(c, d) ==
    \/ Priority[c.kind] > Priority[d.kind]
    \/ /\ Priority[c.kind] = Priority[d.kind]
       /\ c.slot > d.slot \/ (c.slot = d.slot /\ c.id > d.id)

\* Mutant: an offer replaces what waits whatever its rank.
EnqueueLatest(c) ==
    /\ c.revision = Revision /\ c.key \notin inFlight
    /\ pending' = [pending EXCEPT ![c.key] = c]
    /\ offers' = [offers EXCEPT ![c.key] = @ \cup {c}]
    /\ last' = None /\ UNCHANGED inFlight

\* Mutant: the key is not looked up among the running ones.
EnqueueUnlocked(c) ==
    /\ c.revision = Revision
    /\ pending' = [pending EXCEPT ![c.key] =
                       IF @ = None \/ Outranks(c, @) THEN c ELSE @]
    /\ offers' = [offers EXCEPT ![c.key] = @ \cup {c}]
    /\ last' = None /\ UNCHANGED inFlight

\* Mutant: candidates of another revision wait as well.
EnqueueAnyRevision(c) ==
    /\ c.key \notin inFlight
    /\ pending' = [pending EXCEPT ![c.key] =
                       IF @ = None \/ Outranks(c, @) THEN c ELSE @]
    /\ offers' = [offers EXCEPT ![c.key] = @ \cup {c}]
    /\ last' = None /\ UNCHANGED inFlight

\* Accepted or Superseded; RevisionMismatch and ConflictLocked change nothing.
Enqueue(c) ==
    /\ c.revision = Revision /\ c.key \notin inFlight
    /\ pending' = [pending EXCEPT ![c.key] =
                       IF @ = None \/ Outranks(c, @) THEN c ELSE @]
    /\ offers' = [offers EXCEPT ![c.key] = @ \cup {c}]
    /\ last' = None /\ UNCHANGED inFlight

HandOut(k) ==
    /\ pending' = [pending EXCEPT ![k] = None]
    /\ offers' = [offers EXCEPT ![k] = {}]
    /\ inFlight' = inFlight \cup {k}

\* Only one candidate of a key waits, so ties are between two keys with the
\* same identifier; the twins break them differently.
PopNext ==
    /\ \E k \in Keys :
        /\ pending[k] # None
        /\ \A j \in Keys : pending[j] # None => ~Outranks(pending[j], pending[k])
        /\ last' = pending[k] /\ HandOut(k)

\* For an owner that took the key's lease elsewhere, whatever the key does.
MarkInFlight(k) == HandOut(k) /\ UNCHANGED last

Finish(k) ==
    /\ k \in inFlight /\ inFlight' = inFlight \ {k}
    /\ UNCHANGED <<pending, offers, last>>

Next ==
    \/ \E c \in Candidates : Enqueue(c)
    \/ PopNext
    \/ \E k \in Keys : MarkInFlight(k) \/ Finish(k)

Spec == Init /\ [][Next]_vars
-----------------------------------------------------------------------------
\* Properties

(***************************************************************************)
(* Every variable has its type: what waits, and what was handed out, is a  *)
(* candidate of this revision, under its own key.                          *)
(***************************************************************************)
Current == {c \in Candidates : c.revision = Revision}

TypeOK ==
    /\ pending \in [Keys -> Current \cup {None}]
    /\ \A k \in Keys : pending[k] # None => pending[k].key = k
    /\ inFlight \subseteq Keys
    /\ offers \in [Keys -> SUBSET Current]
    /\ last \in Current \cup {None}

(***************************************************************************)
(* While the work of a key is in flight nothing waits for that key, so no  *)
(* second worker can be handed it, in whatever order offers, pops and      *)
(* external claims come.                                                   *)
(***************************************************************************)
Exclusive == \A k \in inFlight : pending[k] = None

(***************************************************************************)
(* What waits for a key is the best of everything offered since the key    *)
(* became free: the order in which the discovery finds candidates does not *)
(* matter.                                                                 *)
(***************************************************************************)
BestOffer ==
    \A k \in Keys :
        /\ pending[k] # None => pending[k] \in offers[k]
        /\ \A c \in offers[k] :
            pending[k] # None /\ ~Outranks(c, pending[k])

(***************************************************************************)
(* Draining the scheduler goes from the urgent to the less urgent: unless  *)
(* something was offered meanwhile, nothing waits that has a higher        *)
(* priority than the last candidate handed out, or the same one and a      *)
(* fresher observation.                                                    *)
(***************************************************************************)
DrainOrder ==
    last # None =>
        \A k \in Keys : pending[k] # None =>
            LET p == Priority[pending[k].kind]
                q == Priority[last.kind]
            IN  p < q \/ (p = q /\ pending[k].slot <= last.slot)
=============================================================================
