---------------------------------- MODULE Tppr ----------------------------------
(***************************************************************************)
(* TPPR v2 (src/lpe/metrics/tppr_v2.py): which frozen obligations a ledger *)
(* of typed events gives credit for.                                       *)
(*                                                                         *)
(* compute_tppr_v2 folds the events in ledger order.  The fold is kept as  *)
(* a variable beside the ledger, so every state holds the report of one    *)
(* ledger.  An event the metric objects to ends the computation            *)
(* (TPPRAntiGamingError) for this ledger and for every longer one.         *)
(*                                                                         *)
(* Time is in days.  Anonymous actors cannot occur: append refuses them.   *)
(***************************************************************************)
EXTENDS EventHistory, Integers, SequencesExt

CONSTANTS
    Obligations,    \* obligation_id; numbers, as credit is assigned in order
    Suites,         \* downstream suite ids
    Submissions,    \* the entries clients may record
    MaxEntries      \* bound on the length of the ledger, for model checking

\* What the metric reads of a payload, beside what the lifecycle reads.
\* A weight that is not given is 1; only the policy "revoke" has an effect.
Rules == [calendar : BOOLEAN, threshold : Nat, suites : SUBSET Suites, revoke : BOOLEAN]
FreezeData(weighed) == [weights : [weighed -> Nat], rule : Rules]

\* What is read depends on the type (payload_matches_event_type).
\* weighed: the obligations a freeze gives a weight to; grounded: some acceptance
\* flag is set or a quorum policy is named.
DataOf(type, weighed) ==
    CASE type = "OBLIGATION_FROZEN"     -> [frozen : FreezeData(weighed)]
      [] type = "CANDIDATE_REGISTERED"  -> [root : Candidates]
      [] type = "ARTIFACT_ACCEPTED"     -> [accepted : SUBSET Obligations, grounded : BOOLEAN]
      [] type = "INTEGRATION_CONFIRMED" -> [candidate : Candidates]
      [] type = "DOWNSTREAM_ENABLED"    -> [suites : SUBSET Suites]
      [] type = "PERSISTENCE_CONFIRMED" -> [confirmed : Nat, elapsed : BOOLEAN]
      [] type = "REGRESSION_DETECTED"   -> [blocking : BOOLEAN]
      [] type = "EXPERT_TIME_RECORDED"  -> [hours : Nat, known : BOOLEAN, retrospective : BOOLEAN]
      [] OTHER                          -> [unread : {TRUE}]

\* An event and what the metric reads of it.
IsEntry(e) ==
    /\ e.event \in Events /\ e.event.schema = "v2"
    /\ e.obligations \subseteq Obligations
    /\ e.day \in Nat
    /\ \E weighed \in SUBSET Obligations : e.data \in DataOf(e.event.type, weighed)

ASSUME TpprAssumptions ==
    /\ Obligations \subseteq Nat \ {0}
    /\ IsFiniteSet(Obligations)
    /\ MaxEntries \in Nat
    /\ \A e \in Submissions : IsEntry(e)

VARIABLES
    ledger,     \* the recorded entries
    tally       \* what compute_tppr_v2 makes of them

vars == <<ledger, tally>>

\* The events of a ledger, as the lifecycle knows them.
EventsOf(l) == [i \in DOMAIN l |-> l[i].event]

-----------------------------------------------------------------------------
(* The fold *)

\* _ObligationState.  quorum_ok always equals accepted; the downstream flag is
\* set exactly when some suite is.
ObligationStates ==
    [freeze : Freezes \cup {None}, weight : Nat, frozenOn : Nat, rule : Rules,
     candidate : Candidates \cup {None}, root : Candidates \cup {None},
     registeredOn : Nat \cup {None},
     accepted : BOOLEAN, integration : BOOLEAN, suites : SUBSET Suites,
     persistence : BOOLEAN, regression : BOOLEAN]

\* DEFAULT_PERSISTENCE_RULE
DefaultRule == [calendar |-> TRUE, threshold |-> 30, suites |-> {}, revoke |-> TRUE]

Fresh ==
    [freeze |-> None, weight |-> 0, frozenOn |-> 0, rule |-> DefaultRule,
     candidate |-> None, root |-> None, registeredOn |-> None,
     accepted |-> FALSE, integration |-> FALSE, suites |-> {},
     persistence |-> FALSE, regression |-> FALSE]

EmptyTally ==
    [refused |-> FALSE, of |-> [o \in Obligations |-> Fresh], hours |-> 0, retrospective |-> 0]

\* The obligations an acceptance is for.
AcceptedBy(e) == IF e.data.accepted # {} THEN e.data.accepted ELSE e.obligations

\* A second freeze, or a second weight.
Reweighs(s, e, o) ==
    /\ s.freeze # None
    /\ e.data.frozen.weights[o] # s.weight \/ e.event.payload.freeze_id # s.freeze

\* Faulty variant of WindowOf: only the time since registration counts.
WindowSinceRegistration(s, confirmed) ==
    confirmed - (IF s.registeredOn = None THEN s.frozenOn ELSE s.registeredOn)

\* The longer of the times since freeze and since registration is the window.
WindowOf(s, confirmed) ==
    LET sinceFreeze == confirmed - s.frozenOn
    IN  IF s.registeredOn = None THEN sinceFreeze
        ELSE Max({sinceFreeze, confirmed - s.registeredOn})

TooEarly(s, e) ==
    /\ s.freeze # None
    /\ s.rule.calendar
    /\ ~e.data.elapsed
    /\ WindowOf(s, e.data.confirmed) < s.rule.threshold

\* TPPRAntiGamingError is raised at this event.
Objects(t, e) ==
    CASE e.event.type = "OBLIGATION_FROZEN" ->
            \E o \in DOMAIN e.data.frozen.weights : Reweighs(t.of[o], e, o)
      [] e.event.type = "CANDIDATE_REGISTERED" ->
            \E o \in e.obligations : t.of[o].freeze = None \/ e.day < t.of[o].frozenOn
      [] e.event.type = "ARTIFACT_ACCEPTED" -> ~e.data.grounded
      [] e.event.type = "PERSISTENCE_CONFIRMED" ->
            \E o \in e.obligations : ~t.of[o].integration \/ TooEarly(t.of[o], e)
      [] e.event.type = "EXPERT_TIME_RECORDED" -> ~e.data.known
      [] OTHER -> FALSE

\* Faulty variant of Integrates: any integration will do.
IntegratesAny(s, e) == e.event.type = "INTEGRATION_CONFIRMED"

\* An integration of another candidate than the registered one, or its root,
\* is not one of this obligation.
Integrates(s, e) == s.candidate \in {None, e.data.candidate} \/ s.root = e.data.candidate

\* The state of obligation o after an event that does not raise.
StateAfter(s, e, o) ==
    CASE e.event.type = "OBLIGATION_FROZEN" /\ o \in DOMAIN e.data.frozen.weights ->
            [s EXCEPT !.freeze = e.event.payload.freeze_id,
                      !.weight = e.data.frozen.weights[o],
                      !.frozenOn = e.day, !.rule = e.data.frozen.rule]
      [] e.event.type = "CANDIDATE_REGISTERED" /\ o \in e.obligations ->
            [s EXCEPT !.candidate = e.event.payload.candidate_id,
                      !.root = e.data.root, !.registeredOn = e.day]
      [] e.event.type = "ARTIFACT_ACCEPTED" /\ o \in AcceptedBy(e) ->
            [s EXCEPT !.accepted = TRUE]
      [] e.event.type = "INTEGRATION_CONFIRMED" /\ o \in e.obligations /\ Integrates(s, e) ->
            [s EXCEPT !.integration = TRUE]
      [] e.event.type = "DOWNSTREAM_ENABLED" /\ o \in e.obligations ->
            [s EXCEPT !.suites = @ \cup e.data.suites]
      [] e.event.type = "PERSISTENCE_CONFIRMED" /\ o \in e.obligations ->
            [s EXCEPT !.persistence = TRUE]
      [] e.event.type = "REGRESSION_DETECTED" /\ o \in e.obligations
            /\ e.data.blocking /\ s.rule.revoke ->
            [s EXCEPT !.regression = TRUE, !.persistence = FALSE]
      [] OTHER -> s

\* Faulty variant of AddHours: estimates are taken off the primary time.
AddHoursNetOfEstimates(t, e) ==
    IF e.event.type # "EXPERT_TIME_RECORDED" THEN t
    ELSE IF e.data.retrospective THEN [t EXCEPT !.hours = @ - e.data.hours]
    ELSE [t EXCEPT !.hours = @ + e.data.hours]

\* Retrospective estimates stay out of the primary denominator.
AddHours(t, e) ==
    IF e.event.type # "EXPERT_TIME_RECORDED" THEN t
    ELSE IF e.data.retrospective THEN [t EXCEPT !.retrospective = @ + e.data.hours]
    ELSE [t EXCEPT !.hours = @ + e.data.hours]

\* Faulty variant of Fold: a new candidate starts its obligations afresh.
FoldAfresh(t, e) ==
    LET restart == IF e.event.type = "CANDIDATE_REGISTERED" THEN e.obligations ELSE {}
        Start(o) == IF o \in restart THEN [t.of[o] EXCEPT !.accepted = FALSE] ELSE t.of[o]
    IN  IF t.refused \/ Objects(t, e) THEN [t EXCEPT !.refused = TRUE]
        ELSE [AddHours(t, e) EXCEPT !.of = [o \in Obligations |-> StateAfter(Start(o), e, o)]]

\* One round of the loop over the events.
Fold(t, e) ==
    IF t.refused \/ Objects(t, e) THEN [t EXCEPT !.refused = TRUE]
    ELSE [AddHours(t, e) EXCEPT !.of = [o \in Obligations |-> StateAfter(t.of[o], e, o)]]

-----------------------------------------------------------------------------
(* Credit *)

Earns(s) ==
    /\ s.freeze # None /\ s.weight > 0
    /\ s.accepted
    /\ s.integration
    /\ s.suites # {} /\ s.rule.suites \subseteq s.suites
    /\ s.persistence
    /\ ~s.regression

\* Faulty variant of CreditedElsewhere: candidates are compared, not their roots.
CreditedElsewhereByCandidate(t, o, credited) ==
    t.of[o].candidate # None /\ \E p \in credited : t.of[p].candidate = t.of[o].candidate

\* credited_lineages: the root already has credit under another obligation.
CreditedElsewhere(t, o, credited) ==
    t.of[o].root # None /\ \E p \in credited : t.of[p].root = t.of[o].root

\* The loop over the obligations in ascending order.
Credited(t) ==
    LET last == Max(Obligations \cup {0})
        upTo[n \in 0 .. last] ==
            IF n = 0 THEN {}
            ELSE IF n \in Obligations /\ Earns(t.of[n]) /\ ~CreditedElsewhere(t, n, upTo[n - 1])
                 THEN upTo[n - 1] \cup {n}
                 ELSE upTo[n - 1]
    IN  upTo[last]

-----------------------------------------------------------------------------

Init == ledger = <<>> /\ tally = EmptyTally

Record(e) ==
    /\ Len(ledger) < MaxEntries
    /\ Legal(EventsOf(ledger), e.event)
    /\ ledger' = Append(ledger, e)
    /\ tally' = Fold(tally, e)

Next == \E e \in Submissions : Record(e)

Spec == Init /\ [][Next]_vars

-----------------------------------------------------------------------------
(* What the events of a ledger mean for an obligation *)

OfEntryType(l, type) == {i \in DOMAIN l : l[i].event.type = type}

\* The entries of a type that name obligation o.
Naming(l, type, o) == {i \in OfEntryType(l, type) : o \in l[i].obligations}

FreezesOf(l, o) ==
    {i \in OfEntryType(l, "OBLIGATION_FROZEN") : o \in DOMAIN l[i].data.frozen.weights}

Before(i, found) == {k \in found : k < i}

\* The obligation's last candidate as of entry i is the integrated one or of its root.
IntegrationsOf(l, o) ==
    {i \in Naming(l, "INTEGRATION_CONFIRMED", o) :
        LET registered == Before(i, Naming(l, "CANDIDATE_REGISTERED", o))
            last       == l[Max(registered)]
        IN  registered # {} =>
                l[i].data.candidate \in {last.event.payload.candidate_id, last.data.root}}

\* Blocking regressions, unless the obligation was frozen with a policy that lets them pass.
RevocationsOf(l, o) ==
    {i \in Naming(l, "REGRESSION_DETECTED", o) :
        l[i].data.blocking /\ \A f \in Before(i, FreezesOf(l, o)) : l[f].data.frozen.rule.revoke}

SuitesOf(l, o) == UNION {l[i].data.suites : i \in Naming(l, "DOWNSTREAM_ENABLED", o)}

\* Entry i must not be there: a second freeze, work without or before a freeze,
\* a persistence nothing was integrated for or that is not over, unknown time.
Offends(l, i) ==
    \/ \E o \in Obligations : i \in FreezesOf(l, o) /\ Before(i, FreezesOf(l, o)) # {}
    \/ \E o \in Obligations :
          /\ i \in Naming(l, "CANDIDATE_REGISTERED", o)
          /\ ~\E f \in Before(i, FreezesOf(l, o)) : l[f].day <= l[i].day
    \/ i \in OfEntryType(l, "ARTIFACT_ACCEPTED") /\ ~l[i].data.grounded
    \/ \E o \in Obligations :
          /\ i \in Naming(l, "PERSISTENCE_CONFIRMED", o)
          /\ \/ Before(i, IntegrationsOf(l, o)) = {}
             \/ \E f \in Before(i, FreezesOf(l, o)) :
                   /\ l[f].data.frozen.rule.calendar /\ ~l[i].data.elapsed
                   /\ l[i].data.confirmed < l[f].day + l[f].data.frozen.rule.threshold
    \/ i \in OfEntryType(l, "EXPERT_TIME_RECORDED") /\ ~l[i].data.known

\* The conditions of credit, lineages apart.  An event that a correction has
\* invalidated counts like any other: the metric lists corrections and reads on.
EarnedIn(l, o) ==
    /\ \E f \in FreezesOf(l, o) :
          /\ l[f].data.frozen.weights[o] > 0
          /\ l[f].data.frozen.rule.suites \subseteq SuitesOf(l, o)
    /\ SuitesOf(l, o) # {}
    /\ \E i \in OfEntryType(l, "ARTIFACT_ACCEPTED") : o \in AcceptedBy(l[i])
    /\ \E k \in Naming(l, "PERSISTENCE_CONFIRMED", o) : Before(k, IntegrationsOf(l, o)) # {}
    /\ RevocationsOf(l, o) = {}

-----------------------------------------------------------------------------
(* Properties *)

Tallies ==
    [refused : BOOLEAN, of : [Obligations -> ObligationStates], hours : Nat, retrospective : Nat]

\* Ledger and tally have their types, and time is never negative.
TypeOK ==
    /\ EventsOf(ledger) \in Seq(Events)
    /\ tally \in Tallies

\* The report is refused exactly when the ledger has an offending entry, as judged
\* by the entries before it: no order of the entries lets work be frozen after the
\* fact or persist before it is integrated.
RefusalHasCause == tally.refused <=> \E i \in DOMAIN ledger : Offends(ledger, i)

\* The fold grants what the conditions of credit, read off the whole ledger, grant:
\* whatever the order of acceptance, integration, downstream use and regression, and
\* although events of one artifact may name the obligations of another.  Corrections
\* grant and withdraw nothing: the events they invalidate still count, for and
\* against (CorrectionsAreApplied fails).
CreditIsEarned ==
    ~tally.refused =>
        {o \in Obligations : Earns(tally.of[o])} = {o \in Obligations : EarnedIn(ledger, o)}

\* A lineage is credited once, however many obligations it is registered for, and
\* it is credited if any of them earns credit.
LineageCreditedOnce ==
    /\ \A o, p \in Credited(tally) :
          o # p /\ tally.of[o].root # None => tally.of[o].root # tally.of[p].root
    /\ \A o \in Obligations : Earns(tally.of[o]) =>
          \/ o \in Credited(tally)
          \/ \E p \in Credited(tally) : tally.of[p].root = tally.of[o].root

\* Reported credit is withdrawn only by a regression of the obligation, or moves to
\* an obligation of the lineage, unless there is no report any more.  No correction
\* withdraws it, not even one of its acceptance.
CreditIsKept ==
    [][\A o \in Credited(tally) \ Credited(tally') :
          \/ tally'.refused
          \/ Len(ledger') \in RevocationsOf(ledger', o)
          \/ \E p \in Credited(tally') : tally'.of[p].root = tally'.of[o].root]_vars

\* The entries a correction has invalidated (apply_corrections_deterministically).
Retracted(l) ==
    {l[i].event.payload.target_event_id :
        i \in {k \in OfEntryType(l, "CORRECTION_RECORDED") : l[k].event.payload.invalidation}}

\* "TPPR v2 applies corrections deterministically", and a correction is "the only
\* in-chain way to retract meaning" (closure specification 13.5, LEDGER_AND_TPPR.md):
\* credit is earned by what no correction has invalidated.  compute_tppr_v2 only
\* lists corrections, so it is not.
CorrectionsAreApplied ==
    LET effective == SelectSeq(ledger, LAMBDA e : e.event.id \notin Retracted(ledger))
    IN  ~tally.refused =>
            \A o \in Obligations : Earns(tally.of[o]) => EarnedIn(effective, o)

=============================================================================
