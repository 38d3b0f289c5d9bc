------------------------------ MODULE Lifecycle ------------------------------
(***************************************************************************)
(* The typed events of the utility ledger (src/lpe/ledger/events.py) and   *)
(* the reducer that decides which of them may be appended                  *)
(* (src/lpe/ledger/state.py).  The module has no variables: Accepts says   *)
(* whether reduce_event returns or raises LifecycleError, and Reduce is    *)
(* the projection it returns.                                              *)
(*                                                                         *)
(* Names, hashes of contents, timestamps and free text are abstracted.     *)
(* What is kept of a payload is what the reducer reads; lists of ids that  *)
(* nothing reads in order or counts (attestation_ids) are kept as sets.    *)
(***************************************************************************)
EXTENDS Naturals, Sequences

CONSTANTS
    Artifacts,      \* artifact_id: one chain of events each
    EventIds,       \* event_id
    Freezes,        \* freeze_id of an obligation freeze
    Candidates,     \* candidate_id
    Attestations,   \* attestation_id
    None            \* Python's None

ASSUME NoneIsFresh ==
    None \notin Artifacts \cup EventIds \cup Freezes \cup Candidates

-----------------------------------------------------------------------------
(* Event types *)

SideChannelTypes ==
    {"EXPERT_TIME_RECORDED", "OVERHEAD_SNAPSHOT", "CORRECTION_RECORDED",
     "PROTOCOL_FROZEN", "CONDITION_ASSIGNED", "LEGACY_UNRESOLVED"}

LifecycleTypes ==
    {"OBLIGATION_FROZEN", "CANDIDATE_REGISTERED", "EVIDENCE_COMPILED",
     "REVIEW_ASSIGNED", "REVIEW_ATTESTED", "REPAIR_REQUESTED",
     "REPAIR_COMPLETED", "ARTIFACT_ACCEPTED", "ARTIFACT_REJECTED",
     "INTEGRATION_CONFIRMED", "DOWNSTREAM_ENABLED",
     "PERSISTENCE_CONFIRMED", "REGRESSION_DETECTED"}

EventTypesV2 == SideChannelTypes \cup LifecycleTypes

\* The types of the untyped 0.1 events.
EventTypesV1 ==
    {"OBLIGATION_REGISTERED", "CANDIDATE_REGISTERED", "EVIDENCE_COMPILED",
     "REVIEW_REQUESTED", "REVIEW_SUBMITTED", "REPAIR_STARTED",
     "REPAIR_COMPLETED", "ARTIFACT_ACCEPTED", "ARTIFACT_REJECTED",
     "ARTIFACT_INTEGRATED", "DOWNSTREAM_ENABLED", "PERSISTENCE_CONFIRMED",
     "REGRESSION_DETECTED", "EXPERT_TIME_RECORDED", "CORRECTION_RECORDED"}

\* Every phase but EMPTY is named after the event type that enters it.
Phases == {"EMPTY"} \cup LifecycleTypes

-----------------------------------------------------------------------------
(* Payloads and events *)

FreezePayload      == [freeze_id : Freezes]
CandidatePayload   == [freeze_id : Freezes, candidate_id : Candidates]
AttestationPayload == [attestation_id : Attestations]

\* justified: neither reason nor authorization_role is blank.
\* replacement: a replacement_payload is given.
CorrectionPayload ==
    [target_event_id : EventIds, justified : BOOLEAN,
     invalidation : BOOLEAN, replacement : BOOLEAN]

\* Payloads no rule of the reducer reads, and every 0.1 payload.
OpaquePayload == [opaque : {TRUE}]

Payloads ==
    FreezePayload \cup CandidatePayload \cup AttestationPayload
        \cup CorrectionPayload \cup OpaquePayload

\* payload_matches_event_type: the payload class each type requires.  A
\* rejection may carry an attestation or a migrated (opaque) payload.
PayloadOf(type) ==
    CASE type = "OBLIGATION_FROZEN"    -> FreezePayload
      [] type = "CANDIDATE_REGISTERED" -> CandidatePayload
      [] type = "REVIEW_ATTESTED"      -> AttestationPayload
      [] type = "ARTIFACT_REJECTED"    -> AttestationPayload \cup OpaquePayload
      [] type = "CORRECTION_RECORDED"  -> CorrectionPayload
      [] OTHER                         -> OpaquePayload

\* SUPPORTED_SCHEMA_VERSIONS, and the version writers give an event.
SchemaVersions == {"0.1.0", "0.2.0"}

CurrentVersion == "0.2.0"

Envelopes ==
    [schema : {"v1", "v2"}, version : SchemaVersions, id : EventIds,
     type : EventTypesV1 \cup EventTypesV2, artifact : Artifacts,
     supersedes : EventIds \cup {None}, payload : Payloads]

\* The events pydantic lets through: UtilityEvent of either version, and
\* UtilityEventV2 of the current one.
Events ==
    {e \in Envelopes :
        IF e.schema = "v1"
        THEN e.type \in EventTypesV1 /\ e.payload \in OpaquePayload
        ELSE /\ e.version = CurrentVersion
             /\ e.type \in EventTypesV2 /\ e.payload \in PayloadOf(e.type)}

-----------------------------------------------------------------------------
(* The reducer *)

\* The lifecycle event types phase p accepts (_TRANSITIONS).
TransitionsOf(p) ==
    CASE p = "EMPTY"                 -> {"OBLIGATION_FROZEN", "CANDIDATE_REGISTERED"}
      [] p = "OBLIGATION_FROZEN"     -> {"CANDIDATE_REGISTERED"}
      [] p = "CANDIDATE_REGISTERED"  -> {"EVIDENCE_COMPILED"}
      [] p = "EVIDENCE_COMPILED"     -> {"REVIEW_ASSIGNED", "ARTIFACT_ACCEPTED"}
      [] p = "REVIEW_ASSIGNED"       -> {"REVIEW_ASSIGNED", "REVIEW_ATTESTED"}
      [] p = "REVIEW_ATTESTED"       -> {"REVIEW_ATTESTED", "ARTIFACT_ACCEPTED",
                                         "REPAIR_REQUESTED", "ARTIFACT_REJECTED"}
      [] p = "REPAIR_REQUESTED"      -> {"REPAIR_COMPLETED"}
      [] p = "ARTIFACT_ACCEPTED"     -> {"INTEGRATION_CONFIRMED"}
      [] p = "INTEGRATION_CONFIRMED" -> {"DOWNSTREAM_ENABLED"}
      [] p = "DOWNSTREAM_ENABLED"    -> {"PERSISTENCE_CONFIRMED", "REGRESSION_DETECTED"}
      [] p = "PERSISTENCE_CONFIRMED" -> {"REGRESSION_DETECTED"}
      [] OTHER                       -> {}

\* Faulty variant of Transitions: an assigned review need not be waited for.
TransitionsBeforeAttestation ==
    [p \in Phases |-> IF p = "REVIEW_ASSIGNED"
                      THEN TransitionsOf(p) \cup {"ARTIFACT_ACCEPTED"} ELSE TransitionsOf(p)]

\* Faulty variant of Transitions: a regression may still be confirmed away.
TransitionsAfterRegression ==
    [p \in Phases |-> IF p = "REGRESSION_DETECTED"
                      THEN {"PERSISTENCE_CONFIRMED"} ELSE TransitionsOf(p)]

Transitions == [p \in Phases |-> TransitionsOf(p)]

\* LedgerReducerState.  The per-artifact records are kept as functions of the
\* artifact; an artifact the code has no record of yet has the defaults.
States ==
    [phase       : [Artifacts -> Phases],
     freeze      : [Artifacts -> Freezes \cup {None}],      \* active_freeze_id
     candidate   : [Artifacts -> Candidates \cup {None}],   \* candidate_id
     attested    : [Artifacts -> SUBSET Attestations],      \* attestation_ids
     freezes     : SUBSET Freezes,                          \* freezes_by_id
     governed    : [Freezes -> SUBSET Candidates],          \* freeze_candidates
     known       : SUBSET EventIds,                         \* known_event_ids
     corrections : Seq(EventIds)]                           \* correction_order

EmptyState ==
    [phase       |-> [a \in Artifacts |-> "EMPTY"],
     freeze      |-> [a \in Artifacts |-> None],
     candidate   |-> [a \in Artifacts |-> None],
     attested    |-> [a \in Artifacts |-> {}],
     freezes     |-> {},
     governed    |-> [f \in Freezes |-> {}],
     known       |-> {},
     corrections |-> <<>>]

CorrectionAccepted(s, e) ==
    /\ e.payload.target_event_id \in s.known
    /\ e.payload.justified
    /\ e.payload.invalidation \/ e.payload.replacement

\* Faulty variant of FreezeAccepted: a freeze only has to be new to its artifact.
FreezeAcceptedPerArtifact(s, e) == s.freeze[e.artifact] # e.payload.freeze_id

FreezeAccepted(s, e) == e.payload.freeze_id \notin s.freezes

\* An EMPTY tip (repair lineage) may take any recorded freeze; any other tip
\* keeps the freeze it has.
CandidateAccepted(s, e) ==
    /\ e.payload.freeze_id \in s.freezes
    /\ \/ s.phase[e.artifact] = "EMPTY"
       \/ s.freeze[e.artifact] \in {None, e.payload.freeze_id}

\* reduce_event(s, e) returns rather than raising LifecycleError.
Accepts(s, e) ==
    /\ e.id \notin s.known
    /\ e.supersedes \in s.known \cup {None}
    /\ e.type \notin SideChannelTypes => e.type \in Transitions[s.phase[e.artifact]]
    /\ e.type = "CORRECTION_RECORDED"  => CorrectionAccepted(s, e)
    /\ e.type = "OBLIGATION_FROZEN"    => FreezeAccepted(s, e)
    /\ e.type = "CANDIDATE_REGISTERED" => CandidateAccepted(s, e)

FreezeObligation(s, e) ==
    [s EXCEPT !.freezes = @ \cup {e.payload.freeze_id},
              !.freeze[e.artifact] = e.payload.freeze_id]

\* Attestations given to an earlier candidate do not transfer.
RegisterCandidate(s, e) ==
    [s EXCEPT !.freeze[e.artifact] = e.payload.freeze_id,
              !.candidate[e.artifact] = e.payload.candidate_id,
              !.attested[e.artifact] = {},
              !.governed[e.payload.freeze_id] = @ \cup {e.payload.candidate_id}]

\* What the event's own rule does to the projection, phase and id apart.
Apply(s, e) ==
    CASE e.type = "OBLIGATION_FROZEN"    -> FreezeObligation(s, e)
      [] e.type = "CANDIDATE_REGISTERED" -> RegisterCandidate(s, e)
      [] e.type = "REVIEW_ATTESTED"      ->
            [s EXCEPT !.attested[e.artifact] = @ \cup {e.payload.attestation_id}]
      [] e.type = "CORRECTION_RECORDED"  -> [s EXCEPT !.corrections = Append(@, e.id)]
      [] OTHER                           -> s

\* Faulty variant of Reduce: side-channel events advance the phase too.
ReduceSideChannel(s, e) ==
    [Apply(s, e) EXCEPT !.known = @ \cup {e.id}, !.phase[e.artifact] = e.type]

\* The projection reduce_event returns for an event it accepts.
Reduce(s, e) ==
    [Apply(s, e) EXCEPT
        !.known = @ \cup {e.id},
        !.phase = IF e.type \in SideChannelTypes THEN @
                  ELSE [@ EXCEPT ![e.artifact] = e.type]]

\* Only typed events reach the reducer; 0.1 rows are skipped.
ReduceRow(s, e) == IF e.schema = "v2" THEN Reduce(s, e) ELSE s

=============================================================================
