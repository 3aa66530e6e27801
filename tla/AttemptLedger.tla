---------------------------- MODULE AttemptLedger ----------------------------
(***************************************************************************)
(* Workers that share the attempts of one work key through the PostgreSQL  *)
(* ledger of deploy/postgres/migrations/0001_keeper_attempts.sql, with the *)
(* reducer of Lifecycle deciding what an event does and the AttemptStore   *)
(* port (append_event with an expected sequence) writing it.               *)
(*                                                                         *)
(* A worker loads the attempt, acts or observes the cluster according to   *)
(* its copy, and appends the event; other workers run in between, and it   *)
(* can stop at any point.  The repository has no worker that uses this     *)
(* ledger yet, so the workers are as free as its contract lets them be:    *)
(* they report any event the reducer accepts of their copy, provided it is *)
(* true of the signature that copy records.  Expiry before submission is   *)
(* true of a transaction nobody broadcast.                                 *)
(***************************************************************************)
EXTENDS Lifecycle

CONSTANTS
    Workers,
    NoCopy,         \* a worker that has not loaded the attempt
    NoEvent,        \* a worker with nothing to append
    MaxGeneration,  \* bound: signing generations of an attempt, from 0
    MaxAttempts     \* bound: attempts of the work key

ASSUME LedgerAssumption ==
    /\ NoCopy \notin Attempt /\ NoEvent \notin Event
    /\ MaxGeneration \in Nat /\ MaxAttempts \in Nat \ {0}

VARIABLES
    attempt,        \* keeper_attempts: the latest attempt of the work key
    generations,    \* keeper_signing_generations
    fate,           \* what has become of each signature
    copy,           \* the attempt as a worker loaded it
    event           \* what a worker is about to append

vars == <<attempt, generations, fate, copy, event>>

\* Signed transactions: held by their signer, broadcast, in a finalized block,
\* broadcast but expired, expired unsent.
Fates == {"unused", "signed", "sent", "landed", "dropped", "lapsed"}

Init ==
    /\ attempt = NewAttempt(1)
    /\ generations = {}
    /\ fate = [s \in Sigs |-> "unused"]
    /\ copy = [w \in Workers |-> NoCopy]
    /\ event = [w \in Workers |-> NoEvent]

Ev(type, step) == [type |-> type, step |-> step, sig |-> NoSig, slot |-> FALSE]

\* create_or_load, at the start of a pass
Load(w) ==
    /\ event[w] = NoEvent
    /\ copy' = [copy EXCEPT ![w] = attempt]
    /\ UNCHANGED <<attempt, generations, fate, event>>

Report(w, e) ==
    /\ Apply(copy[w], e) # {}
    /\ event' = [event EXCEPT ![w] = e]

Ready(w) == copy[w] # NoCopy /\ event[w] = NoEvent

\* The steps that need no signature, and those after the confirmation.
ReportStep(w) ==
    /\ Ready(w)
    /\ \E s \in Steps \ {"sign", "submit", "confirm"} : Report(w, Ev("step_succeeded", s))
    /\ UNCHANGED <<attempt, generations, fate, copy>>

\* A race or a failure may be met at any step.
ReportEnd(w) ==
    /\ Ready(w)
    /\ \E s \in Steps, t \in {"expected_race", "retryable_failure", "terminal_failure"} :
        Report(w, Ev(t, s))
    /\ UNCHANGED <<attempt, generations, fate, copy>>

Sign(w) ==
    /\ Ready(w) /\ copy[w].next = "sign"
    /\ \E s \in Sigs :
        /\ fate[s] = "unused"
        /\ fate' = [fate EXCEPT ![s] = "signed"]
        /\ Report(w, [Ev("step_succeeded", "sign") EXCEPT !.sig = s])
    /\ UNCHANGED <<attempt, generations, copy>>

\* Mutant: the signer broadcasts before the signature is in the ledger.
SendEarly(w) ==
    /\ event[w] # NoEvent /\ event[w].sig # NoSig /\ fate[event[w].sig] = "signed"
    /\ fate' = [fate EXCEPT ![event[w].sig] = "sent"]
    /\ UNCHANGED <<attempt, generations, copy, event>>

\* The recorded transaction is broadcast; the same bytes again do nothing.
Broadcast(w) ==
    /\ Ready(w) /\ copy[w].next = "submit" /\ fate[copy[w].sig] = "signed"
    /\ fate' = [fate EXCEPT ![copy[w].sig] = "sent"]
    /\ UNCHANGED <<attempt, generations, copy, event>>

Sent == {"sent", "landed", "dropped"}

\* What the worker finds out about the transaction its copy records.
ReportFate(w) ==
    /\ Ready(w) /\ copy[w].sig # NoSig
    /\ LET f == fate[copy[w].sig] IN
        \/ f \in Sent /\ Report(w, Ev("step_succeeded", "submit"))
        \/ f = "landed" /\ Report(w, [Ev("step_succeeded", "confirm") EXCEPT !.slot = TRUE])
        \/ f = "lapsed" /\ Report(w, Ev("expired_before_submit", "none"))
        \/ f \in Sent /\ Report(w, Ev("expired_after_submit", "none"))
        \/ f = "dropped" /\ Report(w, Ev("not_landed", "none"))
        \/ f = "landed" /\ Report(w, Ev("landed", "none"))
    /\ UNCHANGED <<attempt, generations, fate, copy>>

\* The attempt's row; a signature also adds a row of its own.
Store(w, a) ==
    /\ attempt' = a
    /\ generations' = IF event[w].sig = NoSig THEN generations
                      ELSE generations \cup
                           {[number |-> a.number, gen |-> a.gen, sig |-> a.sig]}
    /\ copy' = [copy EXCEPT ![w] = a]

\* Mutant: the event is folded into whatever the attempt has become.
AppendUnchecked(w) ==
    /\ event[w] # NoEvent /\ event' = [event EXCEPT ![w] = NoEvent]
    /\ \/ \E a \in Apply(attempt, event[w]) : a.gen <= MaxGeneration /\ Store(w, a)
       \/ Apply(attempt, event[w]) = {} /\ copy' = [copy EXCEPT ![w] = NoCopy]
          /\ UNCHANGED <<attempt, generations>>
    /\ UNCHANGED fate

\* append_event: the primary key of keeper_attempt_events, (attempt_id,
\* event_sequence), refuses a writer whose copy is not the last state.
Append(w) ==
    /\ event[w] # NoEvent /\ event' = [event EXCEPT ![w] = NoEvent]
    /\ IF copy[w].number = attempt.number /\ copy[w].seq = attempt.seq
       THEN \E a \in Apply(attempt, event[w]) : a.gen <= MaxGeneration /\ Store(w, a)
       ELSE copy' = [copy EXCEPT ![w] = NoCopy] /\ UNCHANGED <<attempt, generations>>
    /\ UNCHANGED fate

Crash(w) ==
    /\ copy[w] # NoCopy
    /\ copy' = [copy EXCEPT ![w] = NoCopy]
    /\ event' = [event EXCEPT ![w] = NoEvent]
    /\ UNCHANGED <<attempt, generations, fate>>

\* A journaled retryable failure may be followed by the next attempt; the
\* index keeper_one_open_attempt_per_work_idx allows one open at a time.
NextAttempt ==
    /\ attempt.phase = "complete" /\ attempt.outcome.status = "retryable_failure"
    /\ attempt.number < MaxAttempts
    /\ attempt' = NewAttempt(attempt.number + 1)
    /\ UNCHANGED <<generations, fate, copy, event>>

\* The cluster includes a broadcast transaction, or its blockhash expires.
Settle(s) ==
    /\ \/ fate[s] = "signed" /\ fate' = [fate EXCEPT ![s] = "lapsed"]
       \/ fate[s] = "sent" /\ \E f \in {"landed", "dropped"} : fate' = [fate EXCEPT ![s] = f]
    /\ UNCHANGED <<attempt, generations, copy, event>>

Next ==
    \/ \E w \in Workers : \/ Load(w) \/ ReportStep(w) \/ ReportEnd(w) \/ Sign(w)
                          \/ Broadcast(w) \/ ReportFate(w) \/ Append(w) \/ Crash(w)
    \/ \E s \in Sigs : Settle(s)
    \/ NextAttempt

Spec == Init /\ [][Next]_vars
-----------------------------------------------------------------------------
\* Properties

Generation == [number : 1..MaxAttempts, gen : 0..MaxGeneration, sig : Sigs]

(***************************************************************************)
(* Every variable has its type.                                            *)
(***************************************************************************)
TypeOK ==
    /\ attempt \in Attempt
    /\ generations \subseteq Generation
    /\ fate \in [Sigs -> Fates]
    /\ copy \in [Workers -> Attempt \cup {NoCopy}]
    /\ event \in [Workers -> Event \cup {NoEvent}]

(***************************************************************************)
(* No sequence of accepted events makes the reducer produce a row that a   *)
(* CHECK of the ledger would refuse: a reconciliation has a signature, a   *)
(* complete attempt no next step, an executed outcome a signature and a    *)
(* slot; and whatever needs the signature comes after it was recorded.     *)
(***************************************************************************)
LedgerChecks ==
    /\ attempt.phase = "awaiting_reconciliation" => attempt.sig # NoSig
    /\ attempt.phase = "complete" <=> attempt.next = "none"
    /\ attempt.outcome.status = "executed" =>
          attempt.outcome.sig # NoSig /\ attempt.outcome.slot
    /\ attempt.next \in {"submit", "confirm", "postcondition"} => attempt.sig # NoSig

(***************************************************************************)
(* Nothing is broadcast that the ledger does not hold.                     *)
(***************************************************************************)
RecordedBeforeSent ==
    \A s \in Sigs : fate[s] \in Sent => \E g \in generations : g.sig = s

(***************************************************************************)
(* An attempt journaled as executed names a transaction that landed,       *)
(* although confirmations carry no signature and reach a ledger that other *)
(* workers move.                                                           *)
(***************************************************************************)
ExecutedLanded ==
    attempt.outcome.status = "executed" => fate[attempt.outcome.sig] = "landed"

CanTakeEffect(s) == fate[s] \in {"signed", "sent", "landed"}

(***************************************************************************)
(* Of the generations of one attempt at most one has landed or still could *)
(* (execution-lifecycle.md:22-25).                                         *)
(***************************************************************************)
OneLiveGeneration ==
    \A g, h \in generations :
        g.number = h.number /\ CanTakeEffect(g.sig) /\ CanTakeEffect(h.sig) => g = h

(***************************************************************************)
(* The outcome of an attempt, once decided, is the one that is journaled.  *)
(***************************************************************************)
OutcomeKept ==
    attempt.outcome # NoOutcome /\ attempt'.number = attempt.number =>
        attempt'.outcome = attempt.outcome

OutcomeStays == [][OutcomeKept]_vars
=============================================================================
