----------------------------- MODULE EventHistory -----------------------------
(***************************************************************************)
(* What a history of events means.  The projection the lifecycle is judged *)
(* by is stated as a function of the whole history (the last step of an    *)
(* artifact, the last freeze it was bound to, ...), not as a fold.  It is  *)
(* the reference definition the reducer of module Lifecycle is compared    *)
(* with, and the form the modules that only use a ledger build on.         *)
(***************************************************************************)
EXTENDS Lifecycle, FiniteSetsExt

Ids(l) == {l[i].id : i \in DOMAIN l}

Typed(l) == {i \in DOMAIN l : l[i].schema = "v2"}

OfType(l, type) == {i \in Typed(l) : l[i].type = type}

\* The lifecycle steps of artifact a.
Steps(l, a) == {i \in Typed(l) : l[i].artifact = a /\ l[i].type \in LifecycleTypes}

StepsOfType(l, a, types) == {i \in Steps(l, a) : l[i].type \in types}

Bindings(l, a) == StepsOfType(l, a, {"OBLIGATION_FROZEN", "CANDIDATE_REGISTERED"})

Registrations(l, a) == StepsOfType(l, a, {"CANDIDATE_REGISTERED"})

PhaseIn(l, a) == IF Steps(l, a) = {} THEN "EMPTY" ELSE l[Max(Steps(l, a))].type

FreezeIn(l, a) ==
    IF Bindings(l, a) = {} THEN None ELSE l[Max(Bindings(l, a))].payload.freeze_id

CandidateIn(l, a) ==
    IF Registrations(l, a) = {} THEN None
    ELSE l[Max(Registrations(l, a))].payload.candidate_id

\* Only attestations later than every registration count.
AttestedIn(l, a) ==
    {l[i].payload.attestation_id :
        i \in {k \in StepsOfType(l, a, {"REVIEW_ATTESTED"}) :
                  \A r \in Registrations(l, a) : r < k}}

GovernedIn(l, f) ==
    {l[i].payload.candidate_id :
        i \in {k \in OfType(l, "CANDIDATE_REGISTERED") : l[k].payload.freeze_id = f}}

\* The place of position i among the positions K, and the position at a place.
PlaceOf(K, i) == Cardinality({k \in K : k <= i})

AtPlace(K, n) == CHOOSE i \in K : PlaceOf(K, i) = n

\* The ids of the corrections, in the order of the history.
CorrectionsIn(l) ==
    LET found == OfType(l, "CORRECTION_RECORDED")
    IN  [n \in 1 .. Cardinality(found) |-> l[AtPlace(found, n)].id]

Projection(l) ==
    [phase       |-> [a \in Artifacts |-> PhaseIn(l, a)],
     freeze      |-> [a \in Artifacts |-> FreezeIn(l, a)],
     candidate   |-> [a \in Artifacts |-> CandidateIn(l, a)],
     attested    |-> [a \in Artifacts |-> AttestedIn(l, a)],
     freezes     |-> {l[i].payload.freeze_id : i \in OfType(l, "OBLIGATION_FROZEN")},
     governed    |-> [f \in Freezes |-> GovernedIn(l, f)],
     known       |-> {l[i].id : i \in Typed(l)},
     corrections |-> CorrectionsIn(l)]

-----------------------------------------------------------------------------
(* Appending to a history, and verifying one *)

\* append and append_v2 store e after history l.  Only append_v2 judges it.
Legal(l, e) ==
    /\ e.id \notin Ids(l)
    /\ e.schema = "v2" => Accepts(Projection(l), e)

\* LedgerStore.verify returns.  The hash chain has no place in a history, but
\* the hash covers the version an event was submitted in, and what is read back
\* is always of the current one.
Verifies(l) ==
    \A i \in DOMAIN l :
        /\ l[i].version = CurrentVersion
        /\ l[i].schema = "v2" => Accepts(Projection(SubSeq(l, 1, i - 1)), l[i])
        /\ l[i].supersedes \in Ids(l) \cup {None}

=============================================================================
