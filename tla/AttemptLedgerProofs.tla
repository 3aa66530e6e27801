------------------------- MODULE AttemptLedgerProofs -------------------------
(***************************************************************************)
(* Proofs about AttemptLedger, for any workers, signatures, generations    *)
(* and attempts.  The reducer is treated once (ApplyFollows): what one     *)
(* accepted event can do to an attempt.  The rest is about copies: a copy  *)
(* with the number and the sequence of the stored attempt is that attempt, *)
(* and an event is true of the signature its worker's copy records.        *)
(***************************************************************************)
EXTENDS AttemptLedger, TLAPS

Early == {"discover", "revalidate", "evaluate", "policy", "simulate", "lease", "sign"}

(***************************************************************************)
(* What phase, next step, signature and outcome say of each other.         *)
(***************************************************************************)
Shape(a) ==
    /\ a.next \in Early => a.sig = NoSig
    /\ a.next \in {"submit", "confirm", "postcondition"} => a.sig # NoSig
    /\ a.slot => a.sig # NoSig
    /\ a.phase = "active" => a.next \notin {"journal", "none"} /\ a.outcome = NoOutcome
    /\ a.phase = "awaiting_reconciliation" => a.next = "confirm" /\ a.outcome = NoOutcome
    /\ a.phase = "outcome_pending_journal" => a.next = "journal"
    /\ a.phase = "complete" <=> a.next = "none"
    /\ a.outcome.status = "executed" =>
        a.outcome.sig = a.sig /\ a.sig # NoSig /\ a.outcome.slot /\ a.slot

Signs(e) == e.type = "step_succeeded" /\ e.step = "sign"
Confirms(e) == e.type = "landed" \/ (e.type = "step_succeeded" /\ e.step = "confirm")
Buries(e) == e.type \in {"expired_before_submit", "not_landed"}

Dead == {"lapsed", "dropped"}

\* The signature of an attempt is in the ledger.
RowOf(a) == a.sig # NoSig => \E g \in generations : g.sig = a.sig

Bounded == attempt.number \in 1..MaxAttempts /\ attempt.gen \in 0..MaxGeneration

\* The rows of the generations: one for each signature, and those that the
\* attempt has left behind are dead.
RowsInv ==
    /\ \A g, h \in generations : g.sig = h.sig => g = h
    /\ \A g \in generations :
        /\ fate[g.sig] # "unused" /\ g.number <= attempt.number
        /\ g.number = attempt.number /\ g.sig # attempt.sig => fate[g.sig] \in Dead

AttemptInv == Shape(attempt) /\ RowOf(attempt) /\ (attempt.slot => fate[attempt.sig] = "landed")

CopyOf(c) ==
    /\ RowOf(c) /\ c.number <= attempt.number
    /\ c.number = attempt.number =>
        c.seq <= attempt.seq /\ (c.seq = attempt.seq => c = attempt)

CopiesInv == \A w \in Workers : copy[w] # NoCopy => CopyOf(copy[w])

\* An event is true of the signature its worker knows.
TrueOf(e, c) ==
    /\ Confirms(e) => c.sig # NoSig /\ fate[c.sig] = "landed"
    /\ Buries(e) => c.sig # NoSig /\ fate[c.sig] \in Dead

\* A signature that is not recorded yet belongs to one event.
Fresh(w) ==
    event[w].sig # NoSig =>
        /\ Signs(event[w]) /\ fate[event[w].sig] \in {"signed", "lapsed"}
        /\ \A g \in generations : g.sig # event[w].sig
        /\ \A v \in Workers : event[v] # NoEvent /\ event[v].sig = event[w].sig => v = w

EventsInv ==
    \A w \in Workers : event[w] # NoEvent =>
        copy[w] # NoCopy /\ TrueOf(event[w], copy[w]) /\ Fresh(w)

(***************************************************************************)
(* The inductive invariant.  A copy with the number and the sequence of    *)
(* the stored attempt is that attempt, an event holds of the signature of  *)
(* its worker's copy, and signatures that the attempt gave up are dead:    *)
(* together, what is appended under the primary key of                     *)
(* keeper_attempt_events is true of the attempt it is appended to.         *)
(***************************************************************************)
IInv ==
    /\ TypeOK /\ Bounded /\ RowsInv /\ AttemptInv /\ CopiesInv /\ EventsInv
    /\ RecordedBeforeSent /\ OneLiveGeneration
-----------------------------------------------------------------------------
\* What an accepted event makes of an attempt, but for the count of events.
Reduced(a, e, c) ==
    /\ c \in Attempt /\ Shape(c) /\ c.number = a.number /\ c.seq = a.seq
    /\ \/ c.sig = a.sig /\ ~Signs(e)
       \/ c.sig = e.sig /\ Signs(e) /\ e.sig # NoSig /\ a.sig = NoSig
       \/ c.sig = NoSig /\ Buries(e)
    /\ c.slot => c.sig = a.sig /\ (a.slot \/ Confirms(e))
    /\ a.outcome # NoOutcome => c.outcome = a.outcome

\* The steps of the pipeline keep the shape of an attempt.
LEMMA StepFollows ==
    ASSUME NEW a \in Attempt, Shape(a), NEW e \in Event, e.type = "step_succeeded",
           NEW c \in StepSucceeded(a, e)
    PROVE  Reduced(a, e, c)
<1>0. /\ a.slot \in BOOLEAN /\ e.slot \in BOOLEAN /\ NoOutcome.status = "none"
      /\ a.phase \in {"active", "awaiting_reconciliation", "outcome_pending_journal", "complete"}
  BY DEF Attempt, Event, NoOutcome, Phases
<1>1. /\ a.next # "none" /\ e.step = a.next /\ a.phase # "complete"
      /\ e.step \in Steps
  BY DEF StepSucceeded, Event, Attempt, Steps, After
<1>2. CASE e.step = "sign"
  <2>1. e.sig # NoSig /\ c = [a EXCEPT !.sig = e.sig, !.next = "submit"]
    BY <1>1, <1>2 DEF StepSucceeded, When
  <2>2. c \in Attempt
    BY <2>1, <1>1 DEF Attempt, Event, Steps, After
  <2>3. /\ c.number = a.number /\ c.phase = a.phase /\ c.next = "submit" /\ c.seq = a.seq
        /\ c.sig = e.sig /\ c.slot = a.slot /\ c.outcome = a.outcome
    BY <2>1 DEF Attempt
  <2>4. QED
    BY <1>0, <1>2, <1>1, <2>1, <2>2, <2>3 DEF Reduced, Shape, Early, Signs, Confirms, Buries
<1>3. CASE e.step = "confirm"
  <2>1. c = [a EXCEPT !.slot = TRUE, !.phase = "active", !.next = "postcondition"]
    BY <1>1, <1>3 DEF StepSucceeded, When, Confirmed
  <2>2. c \in Attempt
    BY <2>1, <1>1 DEF Attempt, Phases, Steps, After
  <2>3. /\ c.number = a.number /\ c.phase = "active" /\ c.next = "postcondition" /\ c.seq = a.seq
        /\ c.sig = a.sig /\ c.slot = TRUE /\ c.outcome = a.outcome
    BY <2>1 DEF Attempt
  <2>4. QED
    BY <1>0, <1>3, <1>1, <2>1, <2>2, <2>3 DEF Reduced, Shape, Early, Signs, Confirms, Buries
<1>4. CASE e.step = "postcondition"
  <2>1. a.sig # NoSig /\ a.slot /\ c = Close(a, "executed")
    BY <1>1, <1>4 DEF StepSucceeded, When
  <2>2. c \in Attempt
    BY <2>1, <1>1 DEF Attempt, Close, Outcome, Statuses, Phases, Steps, After
  <2>3. /\ c.number = a.number /\ c.phase = "outcome_pending_journal" /\ c.next = "journal" /\ c.seq = a.seq
        /\ c.sig = a.sig /\ c.slot = a.slot /\ c.outcome.status = "executed"
        /\ c.outcome.sig = a.sig /\ c.outcome.slot = a.slot
    BY <2>1 DEF Attempt, Close
  <2>5. a.phase = "active" /\ a.outcome = NoOutcome
    BY <1>0, <1>1, <1>4 DEF Shape
  <2>4. QED
    BY <2>5, <1>0, <1>4, <1>1, <2>1, <2>2, <2>3 DEF Reduced, Shape, Early, Signs, Confirms, Buries
<1>5. CASE e.step = "journal"
  <2>1. a.phase = "outcome_pending_journal" /\ c = [a EXCEPT !.phase = "complete", !.next = "none"]
    BY <1>1, <1>5 DEF StepSucceeded, When
  <2>2. c \in Attempt
    BY <2>1, <1>1 DEF Attempt, Phases, Steps, After
  <2>3. /\ c.number = a.number /\ c.phase = "complete" /\ c.next = "none" /\ c.seq = a.seq
        /\ c.sig = a.sig /\ c.slot = a.slot /\ c.outcome = a.outcome
    BY <2>1 DEF Attempt
  <2>4. QED
    BY <1>0, <1>5, <1>1, <2>1, <2>2, <2>3 DEF Reduced, Shape, Early, Signs, Confirms, Buries
<1>6. CASE e.step \notin {"sign", "confirm", "postcondition", "journal"}
  <2>1. a.phase = "active" /\ c = [a EXCEPT !.next = After[e.step]]
    BY <1>1, <1>6 DEF StepSucceeded, When
  <2>2. /\ After[e.step] \in Early \cup {"confirm"} /\ After[e.step] \in Steps
        /\ After[e.step] = "confirm" => a.next = "submit"
        /\ After[e.step] # "confirm" => a.next \in Early
    BY <1>1, <1>6 DEF Early, Steps, After
  <2>3. c \in Attempt
    BY <2>1, <2>2 DEF Attempt
  <2>4. /\ c.number = a.number /\ c.phase = a.phase /\ c.next = After[e.step] /\ c.seq = a.seq
        /\ c.sig = a.sig /\ c.slot = a.slot /\ c.outcome = a.outcome
    BY <2>1 DEF Attempt
  <2>5. QED
    BY <1>0, <1>1, <1>6, <2>1, <2>2, <2>3, <2>4 DEF Reduced, Shape, Early, Signs, Confirms, Buries
<1>7. QED
  BY <1>2, <1>3, <1>4, <1>5, <1>6

LEMMA RestartIsAttempt ==
    ASSUME NEW a \in Attempt
    PROVE  Restart(a) \in Attempt
<1> DEFINE b == [a EXCEPT !.gen = @ + 1, !.sig = NoSig, !.slot = FALSE]
<1> DEFINE c == [b EXCEPT !.outcome = NoOutcome, !.phase = "active", !.next = "revalidate"]
<1>1. NoOutcome \in Outcome /\ "revalidate" \in Steps /\ "active" \in Phases
  BY DEF NoOutcome, Outcome, Steps, After, Phases
<1>2. b \in Attempt
  <2> DEFINE g == [a EXCEPT !.gen = @ + 1]
  <2>1. a.gen + 1 \in Nat
    BY DEF Attempt
  <2>2. g \in Attempt
    BY <2>1 DEF Attempt
  <2>3. b = [g EXCEPT !.sig = NoSig, !.slot = FALSE]
    OBVIOUS
  <2> HIDE DEF b, g
  <2>4. QED
    BY <2>2, <2>3 DEF Attempt
<1>3. c \in Attempt
  <2> HIDE DEF b
  <2>1. QED
    BY <1>1, <1>2 DEF Attempt
<1>4. Restart(a) = c
  BY DEF Restart
<1>5. QED
  BY <1>3, <1>4

\* So does every other event.
LEMMA ReduceFollows ==
    ASSUME NEW a \in Attempt, Shape(a), NEW e \in Event, NEW c \in Reduce(a, e)
    PROVE  Reduced(a, e, c)
<1>0. /\ a.slot \in BOOLEAN /\ e.slot \in BOOLEAN /\ NoOutcome.status = "none"
      /\ a.phase \in {"active", "awaiting_reconciliation", "outcome_pending_journal", "complete"}
  BY DEF Attempt, Event, NoOutcome, Phases
<1>2. CASE e.type = "step_succeeded"
  BY <1>2, StepFollows DEF Reduce
<1>3. CASE e.type = "expected_race"
  <2>1. a.phase = "active" /\ c = Close(a, "skipped")
    BY <1>3 DEF Reduce, CloseAt, When
  <2>2. c \in Attempt
    BY <2>1 DEF Attempt, Close, Outcome, Statuses, Phases, Steps, After
  <2>3. /\ c.number = a.number /\ c.phase = "outcome_pending_journal" /\ c.next = "journal" /\ c.seq = a.seq
        /\ c.sig = a.sig /\ c.slot = a.slot /\ c.outcome = [status |-> "skipped", sig |-> a.sig, slot |-> a.slot]
    BY <2>1 DEF Attempt, Close
  <2>4. QED
    BY <1>0, <1>3, <2>1, <2>2, <2>3 DEF Reduced, Shape, Early, Signs, Confirms, Buries
<1>4. CASE e.type \in {"retryable_failure", "terminal_failure"}
  <2>1. a.phase \in {"active", "awaiting_reconciliation"} /\ c = Close(a, e.type)
    BY <1>4 DEF Reduce, CloseAt, When
  <2>2. c \in Attempt
    BY <2>1, <1>4 DEF Attempt, Close, Outcome, Statuses, Phases, Steps, After
  <2>3. /\ c.number = a.number /\ c.phase = "outcome_pending_journal" /\ c.next = "journal" /\ c.seq = a.seq
        /\ c.sig = a.sig /\ c.slot = a.slot /\ c.outcome = [status |-> e.type, sig |-> a.sig, slot |-> a.slot]
    BY <2>1 DEF Attempt, Close
  <2>4. QED
    BY <1>0, <1>4, <2>1, <2>2, <2>3 DEF Reduced, Shape, Early, Signs, Confirms, Buries
<1>5. CASE e.type = "expired_before_submit"
  <2>1. a.phase = "active" /\ c = Restart(a)
    BY <1>5 DEF Reduce, BlockhashExpired, When
  <2>2. c \in Attempt
    BY <2>1, RestartIsAttempt
  <2>3. /\ c.number = a.number /\ c.phase = "active" /\ c.next = "revalidate" /\ c.seq = a.seq
        /\ c.sig = NoSig /\ c.slot = FALSE /\ c.outcome = NoOutcome
    BY <2>1 DEF Attempt, Restart
  <2>4. QED
    BY <1>0, <1>5, <2>1, <2>2, <2>3 DEF Reduced, Shape, Early, Signs, Confirms, Buries
<1>6. CASE e.type = "expired_after_submit"
  <2>1. a.phase = "active" /\ a.next = "confirm" /\ c = [a EXCEPT !.phase = "awaiting_reconciliation", !.next = "confirm"]
    BY <1>6 DEF Reduce, BlockhashExpired, When
  <2>2. c \in Attempt
    BY <2>1 DEF Attempt, Phases, Steps, After
  <2>3. /\ c.number = a.number /\ c.phase = "awaiting_reconciliation" /\ c.next = "confirm" /\ c.seq = a.seq
        /\ c.sig = a.sig /\ c.slot = a.slot /\ c.outcome = a.outcome
    BY <2>1 DEF Attempt
  <2>4. QED
    BY <1>0, <1>6, <2>1, <2>2, <2>3 DEF Reduced, Shape, Early, Signs, Confirms, Buries
<1>7. CASE e.type = "not_landed"
  <2>1. a.phase = "awaiting_reconciliation" /\ c = Restart(a)
    BY <1>7 DEF Reduce, When
  <2>2. c \in Attempt
    BY <2>1, RestartIsAttempt
  <2>3. /\ c.number = a.number /\ c.phase = "active" /\ c.next = "revalidate" /\ c.seq = a.seq
        /\ c.sig = NoSig /\ c.slot = FALSE /\ c.outcome = NoOutcome
    BY <2>1 DEF Attempt, Restart
  <2>4. QED
    BY <1>0, <1>7, <2>1, <2>2, <2>3 DEF Reduced, Shape, Early, Signs, Confirms, Buries
<1>8. CASE e.type = "landed"
  <2>1. a.phase = "awaiting_reconciliation" /\ a.sig # NoSig /\ c = [a EXCEPT !.slot = TRUE, !.phase = "active", !.next = "postcondition"]
    BY <1>8 DEF Reduce, When, Confirmed
  <2>2. c \in Attempt
    BY <2>1 DEF Attempt, Phases, Steps, After
  <2>3. /\ c.number = a.number /\ c.phase = "active" /\ c.next = "postcondition" /\ c.seq = a.seq
        /\ c.sig = a.sig /\ c.slot = TRUE /\ c.outcome = a.outcome
    BY <2>1 DEF Attempt
  <2>4. QED
    BY <1>0, <1>8, <2>1, <2>2, <2>3 DEF Reduced, Shape, Early, Signs, Confirms, Buries
<1>9. QED
  BY <1>2, <1>3, <1>4, <1>5, <1>6, <1>7, <1>8 DEF Event

\* ... and apply, which counts it.
LEMMA ApplyFollows ==
    ASSUME NEW a \in Attempt, Shape(a), NEW e \in Event, NEW b \in Apply(a, e)
    PROVE  /\ b.seq = a.seq + 1 /\ Reduced([a EXCEPT !.seq = @ + 1], e, b)
<1>1. PICK c \in Reduce(a, e) : b = [c EXCEPT !.seq = @ + 1]
  BY DEF Apply
<1>2. Reduced(a, e, c)
  BY ReduceFollows
<1>3. c \in Attempt /\ c.seq = a.seq
  BY <1>2 DEF Reduced
<1>4. /\ b \in Attempt /\ b.seq = a.seq + 1
      /\ b.number = c.number /\ b.phase = c.phase /\ b.next = c.next /\ b.sig = c.sig
      /\ b.slot = c.slot /\ b.outcome = c.outcome
  BY <1>1, <1>3 DEF Attempt
<1>5. LET d == [a EXCEPT !.seq = @ + 1] IN
      /\ d.seq = a.seq + 1 /\ d.number = a.number /\ d.sig = a.sig /\ d.slot = a.slot
      /\ d.outcome = a.outcome
  BY DEF Attempt
<1>6. QED
  BY <1>2, <1>4, <1>5 DEF Reduced, Shape
-----------------------------------------------------------------------------
LEMMA InitKeeps == Init => IInv
<1> SUFFICES ASSUME Init PROVE IInv
  OBVIOUS
<1>1. /\ attempt.number = 1 /\ attempt.gen = 0 /\ attempt.phase = "active"
      /\ attempt.next = "discover" /\ attempt.sig = NoSig /\ attempt.slot = FALSE
      /\ attempt.outcome = NoOutcome /\ attempt.outcome.status = "none"
  BY DEF Init, NewAttempt, NoOutcome
<1>2. TypeOK
  <2>1. NoOutcome \in Outcome
    BY DEF NoOutcome, Outcome
  <2>2. attempt \in Attempt
    BY <2>1 DEF Init, NewAttempt, Attempt, Phases, Steps, After
  <2>3. QED
    BY <2>2 DEF Init, TypeOK, Fates
<1>3. Bounded
  BY <1>1, LedgerAssumption DEF Bounded
<1>4. AttemptInv
  BY <1>1 DEF AttemptInv, Shape, RowOf, Early
<1>5. RowsInv /\ CopiesInv /\ EventsInv /\ RecordedBeforeSent /\ OneLiveGeneration
  BY DEF Init, RowsInv, CopiesInv, EventsInv, RecordedBeforeSent, OneLiveGeneration, Sent
<1>6. QED
  BY <1>2, <1>3, <1>4, <1>5 DEF IInv

\* A worker's copy is taken or given up; its event is gone.
LEMMA CopyKeeps ==
    ASSUME IInv, NEW w \in Workers, NEW c \in {attempt, NoCopy},
           copy' = [copy EXCEPT ![w] = c], event' = [event EXCEPT ![w] = NoEvent],
           UNCHANGED <<attempt, generations, fate>>
    PROVE  IInv'
<1> USE DEF IInv
<1>1. TypeOK'
  BY DEF TypeOK
<1>2. CopiesInv'
  <2> SUFFICES ASSUME NEW v \in Workers, copy'[v] # NoCopy
               PROVE  CopyOf(copy[v])'
    BY DEF CopiesInv
  <2>1. CASE v = w
    <3>1. copy'[v] = attempt
      BY <2>1 DEF TypeOK
    <3>2. attempt.number \in Nat /\ attempt.seq \in Nat
      BY DEF TypeOK, Attempt
    <3>3. QED
      BY <3>1, <3>2 DEF CopyOf, AttemptInv, RowOf
  <2>2. CASE v # w
    <3>1. copy'[v] = copy[v]
      BY <2>2 DEF TypeOK
    <3>2. QED
      BY <3>1 DEF CopiesInv, CopyOf, RowOf
  <2>3. QED
    BY <2>1, <2>2
<1>3. EventsInv'
  <2> SUFFICES ASSUME NEW v \in Workers, event'[v] # NoEvent
               PROVE  /\ copy'[v] # NoCopy /\ TrueOf(event[v], copy[v])'
                      /\ Fresh(v)'
    BY DEF EventsInv
  <2>1. v # w /\ event'[v] = event[v] /\ copy'[v] = copy[v]
    BY DEF TypeOK
  <2>2. \A u \in Workers : event'[u] # NoEvent => event'[u] = event[u]
    BY DEF TypeOK
  <2>3. TrueOf(event[v], copy[v])'
    BY <2>1 DEF EventsInv, TrueOf
  <2>4. Fresh(v)'
    BY <2>1, <2>2 DEF EventsInv, Fresh
  <2>5. QED
    BY <2>1, <2>3, <2>4 DEF EventsInv
<1>4. /\ Bounded' /\ RowsInv' /\ AttemptInv' /\ RecordedBeforeSent' /\ OneLiveGeneration'
  BY DEF Bounded, RowsInv, AttemptInv, RowOf, RecordedBeforeSent, OneLiveGeneration, CanTakeEffect
<1>5. QED
  BY <1>1, <1>2, <1>3, <1>4

LEMMA LoadKeeps ==
    ASSUME IInv, NEW w \in Workers, Load(w)
    PROVE  IInv'
<1>1. event' = [event EXCEPT ![w] = NoEvent]
  BY DEF Load, IInv, TypeOK
<1>2. QED
  BY <1>1, CopyKeeps DEF Load

LEMMA CrashKeeps ==
    ASSUME IInv, NEW w \in Workers, Crash(w)
    PROVE  IInv'
BY CopyKeeps DEF Crash
-----------------------------------------------------------------------------
\* A worker reports what is true of the signature it knows, and signs nothing.
LEMMA ReportKeeps ==
    ASSUME IInv, NEW w \in Workers, copy[w] # NoCopy, NEW e \in Event,
           e.sig = NoSig, TrueOf(e, copy[w]), Report(w, e),
           UNCHANGED <<attempt, generations, fate, copy>>
    PROVE  IInv'
<1> USE DEF IInv
<1>1. event' = [event EXCEPT ![w] = e]
  BY DEF Report
<1>2. TypeOK'
  BY <1>1 DEF TypeOK
<1>3. CopiesInv'
  BY DEF CopiesInv, CopyOf, RowOf
<1>4. EventsInv'
  <2> SUFFICES ASSUME NEW v \in Workers, event'[v] # NoEvent
               PROVE  /\ copy[v] # NoCopy /\ TrueOf(event[v], copy[v])'
                      /\ Fresh(v)'
    BY DEF EventsInv
  <2>1. CASE v = w
    <3>1. event'[v] = e
      BY <1>1, <2>1 DEF TypeOK
    <3>2. QED
      BY <2>1, <3>1 DEF TrueOf, Fresh
  <2>2. CASE v # w
    <3>1. event'[v] = event[v]
      BY <1>1, <2>2 DEF TypeOK
    <3>2. \A u \in Workers : event'[u] = event[u] \/ event'[u].sig = NoSig
      BY <1>1 DEF TypeOK
    <3>3. TrueOf(event[v], copy[v]) /\ Fresh(v) /\ copy[v] # NoCopy
      BY <3>1 DEF EventsInv
    <3>4. QED
      BY <3>1, <3>2, <3>3 DEF TrueOf, Fresh
  <2>3. QED
    BY <2>1, <2>2
<1>5. /\ Bounded' /\ RowsInv' /\ AttemptInv' /\ RecordedBeforeSent' /\ OneLiveGeneration'
  BY DEF Bounded, RowsInv, AttemptInv, RowOf, RecordedBeforeSent, OneLiveGeneration, CanTakeEffect
<1>6. QED
  BY <1>2, <1>3, <1>4, <1>5

LEMMA ReportStepKeeps ==
    ASSUME IInv, NEW w \in Workers, ReportStep(w)
    PROVE  IInv'
<1>1. PICK s \in Steps \ {"sign", "submit", "confirm"} : Report(w, Ev("step_succeeded", s))
  BY DEF ReportStep
<1> DEFINE e == Ev("step_succeeded", s)
<1>2. /\ e \in Event /\ e.sig = NoSig /\ ~Confirms(e) /\ ~Buries(e)
  BY DEF Ev, Event, Confirms, Buries
<1>3. QED
  BY <1>1, <1>2, ReportKeeps DEF ReportStep, Ready, TrueOf

LEMMA ReportEndKeeps ==
    ASSUME IInv, NEW w \in Workers, ReportEnd(w)
    PROVE  IInv'
<1>1. PICK s \in Steps, t \in {"expected_race", "retryable_failure", "terminal_failure"} :
        Report(w, Ev(t, s))
  BY DEF ReportEnd
<1> DEFINE e == Ev(t, s)
<1>2. /\ e \in Event /\ e.sig = NoSig /\ ~Confirms(e) /\ ~Buries(e)
  BY DEF Ev, Event, Confirms, Buries
<1>3. QED
  BY <1>1, <1>2, ReportKeeps DEF ReportEnd, Ready, TrueOf

LEMMA ReportFateKeeps ==
    ASSUME IInv, NEW w \in Workers, ReportFate(w)
    PROVE  IInv'
<1> DEFINE f == fate[copy[w].sig]
<1>1. PICK e \in Event :
        /\ e.sig = NoSig /\ Report(w, e)
        /\ Confirms(e) => f = "landed"
        /\ Buries(e) => f \in Dead
  <2> DEFINE Says(e) == /\ e \in Event /\ e.sig = NoSig
                        /\ Confirms(e) => f = "landed"
                        /\ Buries(e) => f \in Dead
  <2>1. CASE f \in Sent /\ Report(w, Ev("step_succeeded", "submit"))
    <3>1. Says(Ev("step_succeeded", "submit"))
      BY <2>1 DEF Ev, Event, Steps, After, Confirms, Buries
    <3>2. QED
      BY <2>1, <3>1
  <2>2. CASE f = "landed" /\ Report(w, [Ev("step_succeeded", "confirm") EXCEPT !.slot = TRUE])
    <3>1. Says([Ev("step_succeeded", "confirm") EXCEPT !.slot = TRUE])
      BY <2>2 DEF Ev, Event, Steps, After, Confirms, Buries
    <3>2. QED
      BY <2>2, <3>1
  <2>3. CASE f = "lapsed" /\ Report(w, Ev("expired_before_submit", "none"))
    <3>1. Says(Ev("expired_before_submit", "none"))
      BY <2>3 DEF Ev, Event, Confirms, Buries, Dead
    <3>2. QED
      BY <2>3, <3>1
  <2>4. CASE f \in Sent /\ Report(w, Ev("expired_after_submit", "none"))
    <3>1. Says(Ev("expired_after_submit", "none"))
      BY <2>4 DEF Ev, Event, Confirms, Buries
    <3>2. QED
      BY <2>4, <3>1
  <2>5. CASE f = "dropped" /\ Report(w, Ev("not_landed", "none"))
    <3>1. Says(Ev("not_landed", "none"))
      BY <2>5 DEF Ev, Event, Confirms, Buries, Dead
    <3>2. QED
      BY <2>5, <3>1
  <2>6. CASE f = "landed" /\ Report(w, Ev("landed", "none"))
    <3>1. Says(Ev("landed", "none"))
      BY <2>6 DEF Ev, Event, Confirms, Buries
    <3>2. QED
      BY <2>6, <3>1
  <2>7. QED
    BY <2>1, <2>2, <2>3, <2>4, <2>5, <2>6 DEF ReportFate
<1>2. QED
  BY <1>1, ReportKeeps DEF ReportFate, Ready, TrueOf
-----------------------------------------------------------------------------
LEMMA SignKeeps ==
    ASSUME IInv, NEW w \in Workers, Sign(w)
    PROVE  IInv'
<1> USE DEF IInv
<1>1. PICK s \in Sigs :
        /\ fate[s] = "unused" /\ fate' = [fate EXCEPT ![s] = "signed"]
        /\ Report(w, [Ev("step_succeeded", "sign") EXCEPT !.sig = s])
  BY DEF Sign
<1> DEFINE e == [Ev("step_succeeded", "sign") EXCEPT !.sig = s]
<1>2. /\ e \in Event /\ e.sig = s /\ Signs(e) /\ ~Confirms(e) /\ ~Buries(e)
  BY DEF Ev, Event, Steps, After, Signs, Confirms, Buries
<1> HIDE DEF e
<1>3. /\ event' = [event EXCEPT ![w] = e] /\ copy[w] # NoCopy
      /\ UNCHANGED <<attempt, generations, copy>>
  BY <1>1 DEF Sign, Report, Ready, e
<1>4. /\ fate'[s] = "signed"
      /\ \A t : fate[t] # "unused" => fate'[t] = fate[t]
      /\ \A t \in Sigs : t # s => fate'[t] = fate[t]
  BY <1>1 DEF TypeOK
<1>5. TypeOK'
  BY <1>1, <1>2, <1>3 DEF TypeOK, Fates
<1>6. \A g \in generations : g.sig # s /\ fate'[g.sig] = fate[g.sig]
  BY <1>1, <1>4 DEF RowsInv
<1>7. RowsInv' /\ OneLiveGeneration'
  BY <1>3, <1>6 DEF RowsInv, OneLiveGeneration, CanTakeEffect
<1>8. Bounded' /\ AttemptInv'
  BY <1>3, <1>4 DEF Bounded, AttemptInv, RowOf
<1>9. CopiesInv'
  BY <1>3 DEF CopiesInv, CopyOf, RowOf
<1>10. RecordedBeforeSent'
  BY <1>3, <1>4 DEF RecordedBeforeSent, Sent
<1>11. EventsInv'
  <2> SUFFICES ASSUME NEW v \in Workers, event'[v] # NoEvent
               PROVE  /\ copy[v] # NoCopy /\ TrueOf(event[v], copy[v])'
                      /\ Fresh(v)'
    BY <1>3 DEF EventsInv
  <2>1. s # NoSig
    BY SignaturesAssumption
  <2>2. event'[w] = e /\ \A u \in Workers : u # w => event'[u] = event[u]
    BY <1>3 DEF TypeOK
  <2>3. \A u \in Workers : event[u] # NoEvent => event[u].sig # s
    BY <1>1, <2>1 DEF EventsInv, Fresh
  <2>4. CASE v = w
    <3>1. TrueOf(event[v], copy[v])'
      BY <1>2, <1>3, <2>2, <2>4 DEF TrueOf
    <3>2. \A u \in Workers : event'[u] # NoEvent /\ event'[u].sig = s => u = w
      BY <2>2, <2>3
    <3>3. QED
      BY <1>2, <1>3, <1>4, <1>6, <2>2, <2>4, <3>1, <3>2 DEF Fresh
  <2>5. CASE v # w
    <3>1. event'[v] = event[v] /\ TrueOf(event[v], copy[v]) /\ Fresh(v) /\ copy[v] # NoCopy
      BY <2>2, <2>5 DEF EventsInv
    <3>2. TrueOf(event[v], copy[v])'
      BY <1>3, <1>4, <3>1 DEF TrueOf, Dead
    <3>3. ASSUME event[v].sig # NoSig
          PROVE  /\ Signs(event[v]) /\ fate'[event[v].sig] \in {"signed", "lapsed"}
                 /\ \A g \in generations : g.sig # event[v].sig
      BY <1>4, <3>1, <3>3 DEF Fresh
    <3>4. \A u \in Workers : event[v].sig # NoSig /\ event'[u] # NoEvent
                             /\ event'[u].sig = event[v].sig => u = v
      BY <1>2, <2>2, <2>3, <3>1 DEF Fresh
    <3>5. Fresh(v)'
      BY <1>3, <3>1, <3>3, <3>4 DEF Fresh
    <3>6. QED
      BY <3>1, <3>2, <3>5
  <2>6. QED
    BY <2>4, <2>5
<1>12. QED
  BY <1>5, <1>7, <1>8, <1>9, <1>10, <1>11
-----------------------------------------------------------------------------
\* What becomes of a signed transaction: only one in the ledger is sent.
LEMMA FateKeeps ==
    ASSUME IInv, NEW s \in Sigs, NEW f \in Fates, fate' = [fate EXCEPT ![s] = f],
           \/ fate[s] = "signed" /\ f = "lapsed"
           \/ fate[s] = "signed" /\ f = "sent" /\ \E g \in generations : g.sig = s
           \/ fate[s] = "sent" /\ f \in {"landed", "dropped"},
           UNCHANGED <<attempt, generations, copy, event>>
    PROVE  IInv'
<1> USE DEF IInv
<1>1. /\ fate'[s] = f
      /\ \A t : t # s => fate'[t] = fate[t]
  BY DEF TypeOK
<1>2. TypeOK'
  BY DEF TypeOK
<1>3. Bounded' /\ CopiesInv'
  BY DEF Bounded, CopiesInv, CopyOf, RowOf
<1>4. RowsInv'
  <2>1. \A t : (fate[t] # "unused" => fate'[t] # "unused") /\ (fate[t] \in Dead => fate'[t] \in Dead)
    BY <1>1 DEF Dead
  <2>2. QED
    BY <2>1 DEF RowsInv
<1>5. AttemptInv'
  BY <1>1 DEF AttemptInv, RowOf
<1>6. EventsInv'
  <2> SUFFICES ASSUME NEW v \in Workers, event[v] # NoEvent
               PROVE  TrueOf(event[v], copy[v])' /\ Fresh(v)'
    BY DEF EventsInv
  <2>1. TrueOf(event[v], copy[v]) /\ Fresh(v)
    BY DEF EventsInv
  <2>2. TrueOf(event[v], copy[v])'
    BY <1>1, <2>1 DEF TrueOf, Dead
  <2>3. ASSUME event[v].sig # NoSig
        PROVE  fate'[event[v].sig] \in {"signed", "lapsed"}
    BY <1>1, <2>1, <2>3 DEF Fresh
  <2>4. Fresh(v)'
    BY <2>1, <2>3 DEF Fresh
  <2>5. QED
    BY <2>2, <2>4
<1>7. RecordedBeforeSent'
  BY <1>1 DEF RecordedBeforeSent, Sent
<1>8. OneLiveGeneration'
  <2>1. \A t : CanTakeEffect(t)' => CanTakeEffect(t)
    BY <1>1 DEF CanTakeEffect
  <2>2. QED
    BY <2>1 DEF OneLiveGeneration
<1>9. QED
  BY <1>2, <1>3, <1>4, <1>5, <1>6, <1>7, <1>8

LEMMA SettleKeeps ==
    ASSUME IInv, NEW s \in Sigs, Settle(s)
    PROVE  IInv'
<1>1. CASE fate[s] = "signed" /\ fate' = [fate EXCEPT ![s] = "lapsed"]
  BY <1>1, FateKeeps DEF Settle, Fates
<1>2. CASE fate[s] = "sent" /\ \E f \in {"landed", "dropped"} : fate' = [fate EXCEPT ![s] = f]
  BY <1>2, FateKeeps DEF Settle, Fates
<1>3. QED
  BY <1>1, <1>2 DEF Settle

LEMMA BroadcastKeeps ==
    ASSUME IInv, NEW w \in Workers, Broadcast(w)
    PROVE  IInv'
<1> DEFINE s == copy[w].sig
<1>1. /\ copy[w] # NoCopy /\ copy[w] \in Attempt /\ RowOf(copy[w])
      /\ fate[s] = "signed" /\ fate' = [fate EXCEPT ![s] = "sent"]
  BY DEF Broadcast, Ready, IInv, TypeOK, CopiesInv, CopyOf
<1>2. CASE s = NoSig
  <2>1. s \notin Sigs
    BY <1>2, SignaturesAssumption
  <2>2. fate' = fate
    BY <1>1, <2>1 DEF IInv, TypeOK
  <2>3. attempt' = attempt /\ generations' = generations /\ copy' = copy /\ event' = event
    BY DEF Broadcast
  <2>4. QED
    BY <2>2, <2>3 DEF IInv, TypeOK, Bounded, RowsInv, AttemptInv, RowOf, CopiesInv, CopyOf, EventsInv,
                      TrueOf, Fresh, RecordedBeforeSent, OneLiveGeneration, CanTakeEffect
<1>3. CASE s # NoSig
  <2>1. s \in Sigs /\ \E g \in generations : g.sig = s
    BY <1>1, <1>3 DEF Attempt, RowOf
  <2>2. QED
    BY <1>1, <2>1, FateKeeps DEF Broadcast, Fates
<1>4. QED
  BY <1>2, <1>3
-----------------------------------------------------------------------------
LEMMA NextAttemptKeeps ==
    ASSUME IInv, NextAttempt
    PROVE  IInv'
<1> USE DEF IInv
<1>1. /\ attempt'.number = attempt.number + 1 /\ attempt'.gen = 0 /\ attempt'.phase = "active"
      /\ attempt'.next = "discover" /\ attempt'.sig = NoSig /\ attempt'.slot = FALSE
      /\ attempt'.outcome = NoOutcome /\ attempt'.outcome.status = "none"
      /\ UNCHANGED <<generations, fate, copy, event>>
  BY DEF NextAttempt, NewAttempt, NoOutcome
<1>2. attempt.number \in Nat /\ attempt.number < MaxAttempts
  BY DEF NextAttempt, TypeOK, Attempt
<1>3. TypeOK'
  <2>1. NoOutcome \in Outcome
    BY DEF NoOutcome, Outcome
  <2>2. attempt' \in Attempt
    BY <1>2, <2>1 DEF NextAttempt, NewAttempt, Attempt, Phases, Steps, After
  <2>3. QED
    BY <1>1, <2>2 DEF TypeOK
<1>4. Bounded'
  BY <1>1, <1>2, LedgerAssumption DEF Bounded
<1>5. RowsInv'
  <2>1. \A g \in generations : g.number \in Nat
    BY LedgerAssumption DEF TypeOK, Generation
  <2>2. QED
    BY <1>1, <1>2, <2>1 DEF RowsInv
<1>6. AttemptInv'
  BY <1>1 DEF AttemptInv, Shape, RowOf, Early
<1>7. CopiesInv'
  <2> SUFFICES ASSUME NEW w \in Workers, copy[w] # NoCopy
               PROVE  CopyOf(copy[w])'
    BY <1>1 DEF CopiesInv
  <2>1. CopyOf(copy[w]) /\ copy[w].number \in Nat
    BY DEF CopiesInv, TypeOK, Attempt
  <2>2. QED
    BY <1>1, <1>2, <2>1 DEF CopyOf, RowOf
<1>8. EventsInv' /\ RecordedBeforeSent' /\ OneLiveGeneration'
  BY <1>1 DEF EventsInv, TrueOf, Fresh, RecordedBeforeSent, OneLiveGeneration, CanTakeEffect
<1>9. QED
  BY <1>3, <1>4, <1>5, <1>6, <1>7, <1>8
-----------------------------------------------------------------------------
\* A worker whose copy is the stored attempt appends its event.
Appends(w, a) ==
    /\ event[w] # NoEvent /\ event' = [event EXCEPT ![w] = NoEvent]
    /\ copy[w].number = attempt.number /\ copy[w].seq = attempt.seq
    /\ a \in Apply(attempt, event[w]) /\ a.gen <= MaxGeneration /\ Store(w, a)
    /\ UNCHANGED fate

\* What the appended event changes: nothing of the signatures, a signature
\* recorded for the first time, or a dead one given up.
LEMMA AppendChanges ==
    ASSUME IInv, NEW w \in Workers, NEW a, Appends(w, a)
    PROVE  /\ attempt' = a /\ a \in Attempt /\ Shape(a) /\ a.number = attempt.number
           /\ a.seq = attempt.seq + 1
           /\ a.slot => a.sig = attempt.sig /\ fate[a.sig] = "landed"
           /\ attempt.outcome # NoOutcome => a.outcome = attempt.outcome
           /\ \/ a.sig = attempt.sig /\ generations' = generations
              \/ /\ attempt.sig = NoSig /\ a.sig = event[w].sig /\ a.sig # NoSig
                 /\ \A g \in generations : g.sig # a.sig
                 /\ generations' = generations \cup
                                   {[number |-> a.number, gen |-> a.gen, sig |-> a.sig]}
              \/ a.sig = NoSig /\ fate[attempt.sig] \in Dead /\ generations' = generations
<1> DEFINE e == event[w]
           d == [attempt EXCEPT !.seq = @ + 1]
<1>1. attempt \in Attempt /\ Shape(attempt) /\ e \in Event
  BY DEF IInv, TypeOK, AttemptInv, Appends
<1>2. copy[w] # NoCopy /\ TrueOf(e, copy[w]) /\ Fresh(w)
  BY DEF IInv, EventsInv, Appends
<1>3. copy[w] = attempt
  BY <1>2 DEF IInv, CopiesInv, CopyOf, Appends
<1>4. a.seq = attempt.seq + 1 /\ Reduced(d, e, a)
  BY <1>1, ApplyFollows DEF Appends
<1>5. /\ d.number = attempt.number /\ d.sig = attempt.sig /\ d.slot = attempt.slot
      /\ d.outcome = attempt.outcome /\ attempt.slot \in BOOLEAN /\ a.slot \in BOOLEAN
  BY <1>1, <1>4 DEF Attempt, Reduced
<1>6. /\ attempt' = a
      /\ e.sig = NoSig => generations' = generations
      /\ e.sig # NoSig => generations' = generations \cup
                              {[number |-> a.number, gen |-> a.gen, sig |-> a.sig]}
  BY DEF Appends, Store
<1> HIDE DEF e, d
<1>7. a \in Attempt /\ Shape(a) /\ a.number = attempt.number
  BY <1>4, <1>5 DEF Reduced
<1>8. ~Signs(e) => e.sig = NoSig
  BY <1>2 DEF Fresh, e
<1>9. a.slot => a.sig = attempt.sig /\ fate[a.sig] = "landed"
  BY <1>2, <1>3, <1>4, <1>5 DEF Reduced, TrueOf, IInv, AttemptInv
<1>10. attempt.outcome # NoOutcome => a.outcome = attempt.outcome
  BY <1>4, <1>5 DEF Reduced
<1>11. CASE a.sig = attempt.sig /\ ~Signs(e)
  BY <1>4, <1>6, <1>7, <1>8, <1>9, <1>10, <1>11
<1>12. CASE a.sig = e.sig /\ Signs(e) /\ e.sig # NoSig /\ attempt.sig = NoSig
  <2>1. \A g \in generations : g.sig # a.sig
    BY <1>2, <1>12 DEF Fresh, e
  <2>2. QED
    BY <1>4, <1>6, <1>7, <1>9, <1>10, <1>12, <2>1 DEF e
<1>13. CASE a.sig = NoSig /\ Buries(e)
  <2>1. ~Signs(e) /\ fate[attempt.sig] \in Dead
    BY <1>2, <1>3, <1>13 DEF Signs, Buries, TrueOf
  <2>2. QED
    BY <1>4, <1>6, <1>7, <1>8, <1>9, <1>10, <1>13, <2>1
<1>14. QED
  BY <1>4, <1>5, <1>11, <1>12, <1>13 DEF Reduced

LEMMA AppendsKeeps ==
    ASSUME IInv, NEW w \in Workers, NEW a, Appends(w, a)
    PROVE  IInv'
<1> USE DEF IInv
<1> DEFINE row == [number |-> a.number, gen |-> a.gen, sig |-> a.sig]
<1>1. /\ attempt' = a /\ a \in Attempt /\ Shape(a) /\ a.number = attempt.number
      /\ a.seq = attempt.seq + 1
      /\ a.slot => a.sig = attempt.sig /\ fate[a.sig] = "landed"
  BY AppendChanges
<1>2. \/ a.sig = attempt.sig /\ generations' = generations
      \/ /\ attempt.sig = NoSig /\ a.sig = event[w].sig /\ a.sig # NoSig
         /\ \A g \in generations : g.sig # a.sig
         /\ generations' = generations \cup {row}
      \/ a.sig = NoSig /\ fate[attempt.sig] \in Dead /\ generations' = generations
  BY AppendChanges
<1>3. /\ event[w] # NoEvent /\ event' = [event EXCEPT ![w] = NoEvent]
      /\ copy' = [copy EXCEPT ![w] = a] /\ fate' = fate /\ a.gen <= MaxGeneration
      /\ Fresh(w)
  BY DEF Appends, Store, EventsInv
<1>4. /\ a.number \in 1..MaxAttempts /\ a.gen \in 0..MaxGeneration
      /\ attempt.seq \in Nat /\ a.sig \in Sigs \cup {NoSig} /\ attempt.number \in Nat
      /\ row.number = a.number /\ row.sig = a.sig
  BY <1>1, <1>3, LedgerAssumption DEF Bounded, Attempt, TypeOK
<1>5. \A g \in generations' : g \in generations \/ (g = row /\ a.sig = event[w].sig /\ a.sig # NoSig)
  BY <1>2
<1>6. generations \subseteq generations'
  BY <1>2
<1>7. TypeOK'
  <2>1. generations' \subseteq Generation
    BY <1>4, <1>5 DEF TypeOK, Generation
  <2>2. QED
    BY <1>1, <1>3, <2>1 DEF TypeOK
<1>8. Bounded'
  BY <1>1, <1>4 DEF Bounded
<1>9. RowsInv'
  <2>1. CASE a.sig = attempt.sig /\ generations' = generations
    BY <1>1, <1>3, <2>1 DEF RowsInv
  <2>2. CASE a.sig = NoSig /\ fate[attempt.sig] \in Dead /\ generations' = generations
    BY <1>1, <1>3, <2>2 DEF RowsInv
  <2>3. CASE /\ attempt.sig = NoSig /\ a.sig = event[w].sig /\ a.sig # NoSig
             /\ \A g \in generations : g.sig # a.sig
             /\ generations' = generations \cup {row}
    <3>1. fate[a.sig] # "unused"
      BY <1>3, <2>3 DEF Fresh
    <3>2. \A g \in generations : g.sig # NoSig
      BY SignaturesAssumption DEF TypeOK, Generation
    <3> HIDE DEF row
    <3>3. \A g, h \in generations' : g.sig = h.sig => g = h
      BY <1>4, <2>3 DEF RowsInv
    <3>4. \A g \in generations' :
            /\ fate[g.sig] # "unused" /\ g.number <= attempt.number
            /\ g.number = attempt.number /\ g.sig # a.sig => fate[g.sig] \in Dead
      BY <1>1, <1>4, <2>3, <3>1, <3>2 DEF RowsInv
    <3>5. QED
      BY <1>1, <1>3, <3>3, <3>4 DEF RowsInv
  <2>4. QED
    BY <1>2, <2>1, <2>2, <2>3
<1>10. AttemptInv'
  <2>1. RowOf(a)'
    <3>1. row.sig = a.sig
      OBVIOUS
    <3>2. QED
      BY <1>2, <3>1 DEF RowOf, AttemptInv
  <2>2. Shape(a)'
    BY <1>1 DEF Shape
  <2>3. QED
    BY <1>1, <1>3, <2>1, <2>2 DEF AttemptInv, RowOf, Shape
<1>11. CopiesInv'
  <2> SUFFICES ASSUME NEW v \in Workers, copy'[v] # NoCopy
               PROVE  CopyOf(copy[v])'
    BY DEF CopiesInv
  <2>1. CASE v = w
    <3>1. copy'[v] = attempt'
      BY <1>1, <1>3, <2>1 DEF TypeOK
    <3>2. a.seq \in Nat
      BY <1>1, <1>4
    <3>3. QED
      BY <1>1, <1>4, <1>10, <3>1, <3>2 DEF CopyOf, AttemptInv, RowOf
  <2>2. CASE v # w
    <3>1. copy'[v] = copy[v] /\ CopyOf(copy[v]) /\ copy[v].seq \in Nat
      BY <1>3, <2>2 DEF TypeOK, CopiesInv, Attempt
    <3>2. QED
      BY <1>1, <1>4, <1>6, <3>1 DEF CopyOf, RowOf
  <2>3. QED
    BY <2>1, <2>2
<1>12. EventsInv'
  <2> SUFFICES ASSUME NEW v \in Workers, event'[v] # NoEvent
               PROVE  /\ copy'[v] # NoCopy /\ TrueOf(event[v], copy[v])'
                      /\ Fresh(v)'
    BY DEF EventsInv
  <2>1. v # w /\ event'[v] = event[v] /\ copy'[v] = copy[v]
    BY <1>3 DEF TypeOK
  <2>2. \A u \in Workers : event'[u] # NoEvent => event'[u] = event[u]
    BY <1>3 DEF TypeOK
  <2>3. copy[v] # NoCopy /\ TrueOf(event[v], copy[v]) /\ Fresh(v)
    BY <2>1 DEF EventsInv
  <2>4. TrueOf(event[v], copy[v])'
    BY <1>3, <2>1, <2>3 DEF TrueOf
  <2>5. event[v].sig # NoSig => \A g \in generations' : g.sig # event[v].sig
    BY <1>3, <1>4, <1>5, <2>1, <2>3 DEF Fresh
  <2>6. Fresh(v)'
    BY <1>3, <2>1, <2>2, <2>3, <2>5 DEF Fresh
  <2>7. QED
    BY <2>1, <2>3, <2>4, <2>6
<1>13. RecordedBeforeSent'
  BY <1>3, <1>6 DEF RecordedBeforeSent
<1>14. OneLiveGeneration'
  <2> SUFFICES ASSUME NEW g \in generations', NEW h \in generations', g.number = h.number,
                      CanTakeEffect(g.sig)', CanTakeEffect(h.sig)'
               PROVE  g = h
    BY DEF OneLiveGeneration
  <2>1. CanTakeEffect(g.sig) /\ CanTakeEffect(h.sig)
    BY <1>3 DEF CanTakeEffect
  <2>2. CASE g.number = a.number
    <3>1. g.sig = a.sig /\ h.sig = a.sig
      BY <1>1, <1>3, <1>9, <2>1, <2>2 DEF RowsInv, CanTakeEffect, Dead
    <3>2. QED
      BY <1>9, <3>1 DEF RowsInv
  <2>3. CASE g.number # a.number
    <3>1. g \in generations /\ h \in generations
      BY <1>4, <1>5, <2>3
    <3>2. QED
      BY <2>1, <3>1 DEF OneLiveGeneration
  <2>4. QED
    BY <2>2, <2>3
<1>15. QED
  BY <1>7, <1>8, <1>9, <1>10, <1>11, <1>12, <1>13, <1>14

LEMMA AppendKeeps ==
    ASSUME IInv, NEW w \in Workers, Append(w)
    PROVE  IInv'
<1>1. CASE copy[w].number = attempt.number /\ copy[w].seq = attempt.seq
  <2>1. PICK a : Appends(w, a)
    BY <1>1 DEF Append, Appends
  <2>2. QED
    BY <2>1, AppendsKeeps
<1>2. CASE ~(copy[w].number = attempt.number /\ copy[w].seq = attempt.seq)
  BY <1>2, CopyKeeps DEF Append
<1>3. QED
  BY <1>1, <1>2
-----------------------------------------------------------------------------
LEMMA StepKeeps == IInv /\ [Next]_vars => IInv'
<1> SUFFICES ASSUME IInv, [Next]_vars
             PROVE  IInv'
  OBVIOUS
<1>1. ASSUME NEW w \in Workers,
             \/ Load(w) \/ ReportStep(w) \/ ReportEnd(w) \/ Sign(w)
             \/ Broadcast(w) \/ ReportFate(w) \/ Append(w) \/ Crash(w)
      PROVE  IInv'
  BY <1>1, LoadKeeps, ReportStepKeeps, ReportEndKeeps, SignKeeps, BroadcastKeeps,
     ReportFateKeeps, AppendKeeps, CrashKeeps
<1>2. ASSUME NEW s \in Sigs, Settle(s)
      PROVE  IInv'
  BY <1>2, SettleKeeps
<1>3. CASE NextAttempt
  BY <1>3, NextAttemptKeeps
<1>4. CASE UNCHANGED vars
  BY <1>4 DEF vars, IInv, TypeOK, Bounded, RowsInv, AttemptInv, Shape, RowOf, CopiesInv, CopyOf,
              EventsInv, TrueOf, Fresh, RecordedBeforeSent, OneLiveGeneration, CanTakeEffect
<1>5. QED
  BY <1>1, <1>2, <1>3, <1>4 DEF Next

(***************************************************************************)
(* The inductive invariant: phase, step, signature and outcome agree in    *)
(* the ledger and in every worker's copy, the rows left behind are dead,   *)
(* and every event a worker carries is true of the signature it saw.       *)
(***************************************************************************)
THEOREM InvariantHolds == Spec => []IInv
BY InitKeeps, StepKeeps, PTL DEF Spec

(***************************************************************************)
(* Every variable has its type.                                            *)
(***************************************************************************)
THEOREM TypeCorrect == Spec => []TypeOK
<1>1. IInv => TypeOK
  BY DEF IInv
<1>2. QED
  BY InvariantHolds, <1>1, PTL

(***************************************************************************)
(* However many workers share the attempt and wherever they stop, no row   *)
(* that lifecycle.rs produces is refused by a CHECK of the ledger's        *)
(* migration, and the steps after signing have a recorded signature.       *)
(***************************************************************************)
THEOREM RowsPassTheChecks == Spec => []LedgerChecks
<1>1. IInv => LedgerChecks
  <2> SUFFICES ASSUME IInv PROVE LedgerChecks
    OBVIOUS
  <2>1. Shape(attempt) /\ attempt \in Attempt
    BY DEF IInv, AttemptInv, TypeOK
  <2>2. QED
    BY <2>1 DEF Shape, LedgerChecks
<1>2. QED
  BY InvariantHolds, <1>1, PTL

(***************************************************************************)
(* The signing generation is in the ledger before its transaction is sent, *)
(* whichever worker sends it.                                              *)
(***************************************************************************)
THEOREM SentIsRecorded == Spec => []RecordedBeforeSent
<1>1. IInv => RecordedBeforeSent
  BY DEF IInv
<1>2. QED
  BY InvariantHolds, <1>1, PTL

(***************************************************************************)
(* What is journaled as executed has landed, although a confirmation names *)
(* no signature: the sequence of the event log ties it to the worker's     *)
(* copy.                                                                   *)
(***************************************************************************)
THEOREM ExecutedHasLanded == Spec => []ExecutedLanded
<1>1. IInv => ExecutedLanded
  BY DEF IInv, AttemptInv, Shape, ExecutedLanded
<1>2. QED
  BY InvariantHolds, <1>1, PTL

(***************************************************************************)
(* An attempt never has two generations that landed or still could.        *)
(***************************************************************************)
THEOREM OneGenerationLives == Spec => []OneLiveGeneration
<1>1. IInv => OneLiveGeneration
  BY DEF IInv
<1>2. QED
  BY InvariantHolds, <1>1, PTL

(***************************************************************************)
(* Once decided, the outcome of an attempt is what is journaled.           *)
(***************************************************************************)
THEOREM OutcomeIsFinal == Spec => OutcomeStays
<1>1. IInv /\ [Next]_vars => [OutcomeKept]_vars
  <2> SUFFICES ASSUME IInv, Next, attempt.outcome # NoOutcome, attempt'.number = attempt.number
               PROVE  attempt'.outcome = attempt.outcome
    BY DEF OutcomeKept
  <2>1. ASSUME NEW w \in Workers, Append(w), attempt' # attempt
        PROVE  attempt'.outcome = attempt.outcome
    <3>1. PICK a : Appends(w, a)
      BY <2>1 DEF Append, Appends
    <3>2. QED
      BY <3>1, AppendChanges
  <2>2. CASE NextAttempt
    <3>1. attempt'.number = attempt.number + 1 /\ attempt.number \in Nat
      BY <2>2 DEF NextAttempt, NewAttempt, IInv, TypeOK, Attempt
    <3>2. QED
      BY <3>1
  <2>3. CASE attempt' = attempt
    BY <2>3
  <2>4. QED
    BY <2>1, <2>2, <2>3 DEF Next, Load, ReportStep, ReportEnd, Sign, Broadcast, ReportFate, Crash, Settle
<1>2. QED
  BY InvariantHolds, <1>1, PTL DEF Spec, OutcomeStays
=============================================================================
