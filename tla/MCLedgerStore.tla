---------------------------- MODULE MCLedgerStore ----------------------------
(***************************************************************************)
(* Events for model-checking LedgerStore.                                  *)
(***************************************************************************)
EXTENDS LedgerStore, MCEvents

CONSTANTS w1, w2

\* Two writers race on two chains: freezes and candidates that compete for
\* each other, a 0.1 event that reuses an id, one of an older version, one that
\* supersedes an event not yet there, and a correction of a correction.
RacingEvents ==
    {V2(e1, "OBLIGATION_FROZEN", a1, Freeze(f1)),
     V2(e2, "CANDIDATE_REGISTERED", a1, Candidate(f1, c1)),
     V2(e3, "CANDIDATE_REGISTERED", a2, Candidate(f1, c2)),
     V2(e7, "OBLIGATION_FROZEN", a2, Freeze(f1)),
     V2(e8, "OBLIGATION_FROZEN", a2, Freeze(f2)),
     V2(e9, "CANDIDATE_REGISTERED", a1, Candidate(f2, c1)),
     V1(e1, "REVIEW_SUBMITTED", a1, None),
     Old(V1(e10, "EVIDENCE_COMPILED", a1, None)),
     V1(e4, "CORRECTION_RECORDED", a1, e5),
     V2(e5, "CORRECTION_RECORDED", a2, Invalidate(e1)),
     [V2(e6, "CORRECTION_RECORDED", a2, Invalidate(e5)) EXCEPT !.supersedes = e5]}

\* One artifact's whole life, and a second tip that is repaired or rejected.
LifecycleEvents ==
    {V2(e1, "OBLIGATION_FROZEN", a1, Freeze(f1)),
     V2(e2, "CANDIDATE_REGISTERED", a1, Candidate(f1, c1)),
     V2(e3, "EVIDENCE_COMPILED", a1, Opaque),
     V2(e4, "REVIEW_ASSIGNED", a1, Opaque),
     V2(e5, "REVIEW_ATTESTED", a1, [attestation_id |-> t1]),
     V2(e6, "REVIEW_ATTESTED", a1, [attestation_id |-> t2]),
     V2(e7, "ARTIFACT_ACCEPTED", a1, Opaque),
     V2(e8, "INTEGRATION_CONFIRMED", a1, Opaque),
     V2(e9, "DOWNSTREAM_ENABLED", a1, Opaque),
     V2(e10, "PERSISTENCE_CONFIRMED", a1, Opaque),
     V2(e11, "REGRESSION_DETECTED", a1, Opaque),
     V2(e15, "EXPERT_TIME_RECORDED", a1, Opaque),
     V2(e12, "REPAIR_REQUESTED", a1, Opaque),
     V2(e13, "REPAIR_COMPLETED", a1, Opaque),
     V2(e14, "ARTIFACT_REJECTED", a1, Opaque)}

LedgerEvents == RacingEvents \cup LifecycleEvents

\* Everything races for the first rows; longer ledgers are the one life.
LongLedgersAreOneLife ==
    Len(rows) > 3 =>
        /\ \A i \in DOMAIN rows : rows[i].event \in LifecycleEvents
        /\ \A w \in Writers : conn[w].event \in LifecycleEvents \cup {None}

\* Connections run the same code.
WriterSymmetry == Permutations(Writers)

=============================================================================
