------------------------------ MODULE Lifecycle ------------------------------
(***************************************************************************)
(* The execution lifecycle reducer, a pure function of an attempt and one  *)
(* event: rust/crates/keeper-core/src/lifecycle.rs, and its twin           *)
(* typescript/packages/keeper-core/src/lifecycle.ts.                       *)
(*                                                                         *)
(* Abstractions: blockhash, last valid height and signature are recorded   *)
(* and cleared together, so the signature stands for the three; a slot is  *)
(* known or not; reason and race codes and the candidate's fields, which   *)
(* the reducer copies, are left out.                                       *)
(***************************************************************************)
EXTENDS Naturals

CONSTANTS Sigs, NoSig

ASSUME SignaturesAssumption == NoSig \notin Sigs

\* ExecutionStep::next
After ==
    [discover |-> "revalidate", revalidate |-> "evaluate", evaluate |-> "policy",
     policy |-> "simulate", simulate |-> "lease", lease |-> "sign",
     sign |-> "submit", submit |-> "confirm", confirm |-> "postcondition",
     postcondition |-> "journal", journal |-> "none"]

Steps    == DOMAIN After
Phases   == {"active", "awaiting_reconciliation", "outcome_pending_journal", "complete"}
Statuses == {"executed", "skipped", "retryable_failure", "terminal_failure"}

Outcome == [status : Statuses \cup {"none"}, sig : Sigs \cup {NoSig}, slot : BOOLEAN]
NoOutcome == [status |-> "none", sig |-> NoSig, slot |-> FALSE]

Attempt == [number : Nat, phase : Phases, next : Steps \cup {"none"}, seq : Nat,
            gen : Nat, sig : Sigs \cup {NoSig}, slot : BOOLEAN, outcome : Outcome]

\* AttemptState::new; the store numbers the attempts of a work key.
NewAttempt(n) ==
    [number |-> n, phase |-> "active", next |-> "discover", seq |-> 0, gen |-> 0,
     sig |-> NoSig, slot |-> FALSE, outcome |-> NoOutcome]

\* LifecycleEvent.  Only a step, a race and a failure name a step; none names
\* the attempt, the generation or, unless it signs, the signature it is about.
Event == [type : {"step_succeeded", "expected_race", "retryable_failure",
                  "terminal_failure", "expired_before_submit",
                  "expired_after_submit", "not_landed", "landed"},
          step : Steps \cup {"none"}, sig : Sigs \cup {NoSig}, slot : BOOLEAN]

-----------------------------------------------------------------------------
\* What an event makes of an attempt: the set of the new state, or the empty
\* set when the event is refused.

When(accepted, b) == IF accepted THEN {b} ELSE {}

Close(a, status) ==
    [a EXCEPT !.outcome = [status |-> status, sig |-> a.sig, slot |-> a.slot],
              !.phase = "outcome_pending_journal", !.next = "journal"]

\* Mutant: any outcome that is not journaled yet can be replaced.
CloseOpen(a, e, status, phases) == When(a.phase # "complete" /\ e.step = a.next, Close(a, status))

CloseAt(a, e, status, phases) == When(a.phase \in phases /\ e.step = a.next, Close(a, status))

\* Mutant: the new generation continues where the old one expired.
RestartInPlace(a) ==
    [a EXCEPT !.gen = @ + 1, !.sig = NoSig, !.slot = FALSE, !.outcome = NoOutcome,
              !.phase = "active"]

\* start_new_signing_generation
Restart(a) ==
    [a EXCEPT !.gen = @ + 1, !.sig = NoSig, !.slot = FALSE, !.outcome = NoOutcome,
              !.phase = "active", !.next = "revalidate"]

Confirmed(a) == [a EXCEPT !.slot = TRUE, !.phase = "active", !.next = "postcondition"]

\* step_succeeded.  The phases refuse nothing that the expected step does not:
\* a pending outcome expects the journal, a reconciliation the confirmation.
StepSucceeded(a, e) ==
    IF a.next = "none" \/ e.step # a.next \/ a.phase = "complete" THEN {}
    ELSE CASE e.step = "sign" ->
                When(e.sig # NoSig, [a EXCEPT !.sig = e.sig, !.next = "submit"])
           [] e.step = "confirm" -> When(e.slot, Confirmed(a))
           [] e.step = "postcondition" ->
                When(a.sig # NoSig /\ a.slot, Close(a, "executed"))
           [] e.step = "journal" ->
                When(a.phase = "outcome_pending_journal" /\ a.outcome # NoOutcome,
                     [a EXCEPT !.phase = "complete", !.next = "none"])
           [] OTHER -> When(a.phase = "active", [a EXCEPT !.next = After[e.step]])

\* Mutant: an expired blockhash always leads to a new signature.
ExpiredResigns(a, e) ==
    When(a.phase = "active" /\ a.next \in {"submit", "confirm"}, Restart(a))

\* blockhash_expired
BlockhashExpired(a, e) ==
    IF e.type = "expired_before_submit"
    THEN When(a.phase = "active" /\ a.next = "submit", Restart(a))
    ELSE When(a.phase = "active" /\ a.next = "confirm",
              [a EXCEPT !.phase = "awaiting_reconciliation", !.next = "confirm"])

Reduce(a, e) ==
    CASE e.type = "step_succeeded" -> StepSucceeded(a, e)
      [] e.type = "expected_race" -> CloseAt(a, e, "skipped", {"active"})
      [] e.type \in {"retryable_failure", "terminal_failure"} ->
           CloseAt(a, e, e.type, {"active", "awaiting_reconciliation"})
      [] e.type \in {"expired_before_submit", "expired_after_submit"} ->
           BlockhashExpired(a, e)
      [] e.type = "not_landed" -> When(a.phase = "awaiting_reconciliation", Restart(a))
      [] e.type = "landed" ->
           When(a.phase = "awaiting_reconciliation" /\ a.sig # NoSig, Confirmed(a))

\* apply: an accepted event is counted, a refused one changes nothing.
Apply(a, e) == {[b EXCEPT !.seq = @ + 1] : b \in Reduce(a, e)}
=============================================================================
