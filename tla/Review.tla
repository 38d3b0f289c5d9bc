-------------------------------- MODULE Review --------------------------------
(***************************************************************************)
(* The review commands and the ledger they write to                        *)
(* (src/lpe/review/acceptance.py, src/lpe/review/decisions.py):            *)
(*                                                                         *)
(*   lpe review attest         one reviewer's word on one dimension        *)
(*   lpe review accept-quorum  acceptance from a list of attestations      *)
(*   lpe review record         the single decision of earlier versions     *)
(*   lpe review repair-request, repair-complete                            *)
(*                                                                         *)
(* A command appends several events in separate transactions: typed ones,  *)
(* and, when the lifecycle refuses one of these, 0.1 events in their       *)
(* place.  So a command is a script of events that other commands, crashes *)
(* and repeated commands come between.  The ledger itself is EventLog.     *)
(***************************************************************************)
EXTENDS EventHistory, ReviewQuorum

CONSTANTS
    Reviewers,      \* reviewer_id
    Fingerprints,   \* evidence_fingerprint
    Submissions,    \* typed events other commands append (freeze, candidate, ...)
    Sheets,         \* the attestation files reviewers have written
    Requests,       \* the accept-quorum requests made
    Verdicts,       \* the decision files of `review record`
    Processes,      \* running commands
    Conflicted,     \* reviewers whose conflict declaration is not eligible
    RolesOf,        \* the roles review.yaml grants a reviewer
    RequiredRoles,  \* the roles policies.yaml asks of a reviewer, per risk
    MaxEvents       \* no command starts on a longer ledger, for model checking

\* ReviewAttestationV2: one reviewer's word on one dimension of an artifact.
AttestationSheets ==
    [id : Attestations, packet : Artifacts, reviewer : Reviewers, role : Roles,
     dimension : Dimensions, decision : Decisions, fingerprint : Fingerprints]

AcceptRequests ==
    [artifact : Artifacts, risk : Risks, sheets : Seq(AttestationSheets), fingerprint : Fingerprints]

\* linked: how many obligations beyond the first the decision names.
ReviewVerdicts ==
    [id : Attestations, artifact : Artifacts, risk : Risks, reviewer : Reviewers,
     decision : Decisions, linked : Nat]

ASSUME ReviewAssumptions ==
    /\ Submissions \subseteq Events
    /\ Sheets \subseteq AttestationSheets
    /\ Requests \subseteq AcceptRequests
    /\ Verdicts \subseteq ReviewVerdicts
    /\ Conflicted \subseteq Reviewers
    /\ RolesOf \in [Reviewers -> SUBSET Roles]
    /\ RequiredRoles \in [Risks -> SUBSET Roles]
    /\ MaxEvents \in Nat

VARIABLES
    log,        \* the ledger
    process,    \* per process, the events it has still to append
    grounds     \* per recorded acceptance (by event id), the request it was for

vars == <<log, process, grounds>>

Ledger == INSTANCE EventLog WITH durable <- 0

-----------------------------------------------------------------------------
(* Events a command appends.  Ids are derived from what is recorded. *)

V1Event(id, type, artifact) ==
    [schema |-> "v1", version |-> CurrentVersion, id |-> id, type |-> type,
     artifact |-> artifact, supersedes |-> None, payload |-> [opaque |-> TRUE]]

V2Event(id, type, artifact, payload) ==
    [schema |-> "v2", version |-> CurrentVersion, id |-> id, type |-> type,
     artifact |-> artifact, supersedes |-> None, payload |-> payload]

AttestId(t) == <<"attest", t>>
TimeId(t)   == <<"time", t>>
AcceptId(a) == <<"accept", a>>

\* new_id: no other event has the id of the n-th.
RepairId(n) == <<"repair", n>>

\* The events of a decision file: the decision, one more per linked obligation.
DecisionId(t, k)  == <<"decision", t, k>>
DecisionTimeId(t) == <<"decisionTime", t>>

\* The ids of the commands are event ids.  The other commands use new ids, and a
\* review_id is that of one decision file.
ASSUME IdAssumptions ==
    /\ \A t \in Attestations : {AttestId(t), TimeId(t), DecisionTimeId(t)} \subseteq EventIds
    /\ \A a \in Artifacts : AcceptId(a) \in EventIds
    /\ \A n \in 0 .. MaxEvents : RepairId(n) \in EventIds
    /\ \A v \in Verdicts : \A k \in 1 .. v.linked + 1 : DecisionId(v.id, k) \in EventIds
    /\ \A e \in Submissions, t \in Attestations : e.id \notin {TimeId(t), DecisionTimeId(t)}
    /\ \A v, w \in Verdicts : v.id = w.id => v.linked = w.linked

\* A command: the typed events to append, and the 0.1 events to append should
\* the lifecycle refuse one of them.
Command(typed, legacy, request) ==
    [pc      |-> IF typed # <<>> THEN "typed" ELSE "legacy",
     events  |-> IF typed # <<>> THEN typed ELSE legacy,
     legacy  |-> legacy,
     request |-> request]

Done == [pc |-> "idle", events |-> <<>>, legacy |-> <<>>, request |-> None]

\* Faulty variant of Attestation: the time is recorded before the review.
AttestationTimeFirst(sheet) ==
    LET t == sheet.id a == sheet.packet
    IN  Command(<<V2Event(TimeId(t), "EXPERT_TIME_RECORDED", a, [opaque |-> TRUE]),
                  V2Event(AttestId(t), "REVIEW_ATTESTED", a, [attestation_id |-> t])>>,
                <<V1Event(AttestId(t), "REVIEW_SUBMITTED", a),
                  V1Event(TimeId(t), "EXPERT_TIME_RECORDED", a)>>,
                None)

\* record_attestation_event
Attestation(sheet) ==
    LET t == sheet.id a == sheet.packet
    IN  Command(<<V2Event(AttestId(t), "REVIEW_ATTESTED", a, [attestation_id |-> t]),
                  V2Event(TimeId(t), "EXPERT_TIME_RECORDED", a, [opaque |-> TRUE])>>,
                <<V1Event(AttestId(t), "REVIEW_SUBMITTED", a),
                  V1Event(TimeId(t), "EXPERT_TIME_RECORDED", a)>>,
                None)

\* aggregate_and_record_acceptance, once the quorum is satisfied
Acceptance(request) ==
    LET a == request.artifact
    IN  Command(<<V2Event(AcceptId(a), "ARTIFACT_ACCEPTED", a, [opaque |-> TRUE])>>,
                <<V1Event(AcceptId(a), "ARTIFACT_ACCEPTED", a)>>,
                request)

\* Faulty variant of DecisionType: a repair request is given its typed name.
DecisionTypeTyped(decision) ==
    CASE decision = "ACCEPT"         -> "ARTIFACT_ACCEPTED"
      [] decision = "REJECT"         -> "ARTIFACT_REJECTED"
      [] decision = "REQUEST_REPAIR" -> "REPAIR_REQUESTED"
      [] OTHER                       -> "REVIEW_SUBMITTED"

\* The 0.1 type a decision is recorded under (review_decision_to_event).
DecisionType(decision) ==
    CASE decision = "ACCEPT" -> "ARTIFACT_ACCEPTED"
      [] decision = "REJECT" -> "ARTIFACT_REJECTED"
      [] OTHER               -> "REVIEW_SUBMITTED"

\* One event for the decision, and one per linked obligation.
DecisionRows(v) ==
    [k \in 1 .. v.linked + 1 |->
        V1Event(DecisionId(v.id, k), DecisionType(v.decision), v.artifact)]

DecisionTime(v) == V1Event(DecisionTimeId(v.id), "EXPERT_TIME_RECORDED", v.artifact)

\* Faulty variant of Decision: the time is recorded first.
DecisionTimeFirst(v) == Command(<<>>, <<DecisionTime(v)>> \o DecisionRows(v), None)

\* record_review_decision: 0.1 events only.
Decision(v) == Command(<<>>, DecisionRows(v) \o <<DecisionTime(v)>>, None)

-----------------------------------------------------------------------------

Init ==
    /\ Ledger!Init
    /\ process = [p \in Processes |-> Done]
    /\ grounds = <<>>

\* Other commands append typed events.
AppendOther(e) ==
    /\ Len(log) < MaxEvents
    /\ Ledger!Add(e)
    /\ UNCHANGED <<process, grounds>>

Start(p, command) ==
    /\ process[p].pc = "idle"
    /\ Len(log) < MaxEvents
    /\ process' = [process EXCEPT ![p] = command]
    /\ UNCHANGED <<log, grounds>>

\* validate_reviewer_authority: one reviewer holds every role the risk asks for.
Authorized(reviewer, risk) == RequiredRoles[risk] \subseteq RolesOf[reviewer]

\* review attest
Attest(p, sheet, risk) ==
    /\ sheet.reviewer \notin Conflicted
    /\ Authorized(sheet.reviewer, risk)
    /\ Start(p, Attestation(sheet))

\* review accept-quorum: the sheets are those of the file it is given.
AskQuorum(p, request) ==
    /\ request.risk \in HighRisks => Len(request.sheets) >= 2
    /\ Start(p, [Done EXCEPT !.pc = "asked", !.request = request])

Satisfied(request) ==
    EvaluateQuorum(request.risk, request.sheets, request.fingerprint, FALSE).satisfied

\* build_acceptance_event: AcceptanceError, or the acceptance is appended.
AcceptQuorum(p) ==
    /\ process[p].pc = "asked"
    /\ process' = [process EXCEPT ![p] = IF Satisfied(@.request) THEN Acceptance(@.request)
                                         ELSE Done]
    /\ UNCHANGED <<log, grounds>>

\* review record: a single review never accepts R3 or R4.
Record(p, verdict) ==
    /\ Authorized(verdict.reviewer, verdict.risk)
    /\ verdict.decision = "ACCEPT" => verdict.risk \notin HighRisks
    /\ Start(p, Decision(verdict))

\* The event at the head of the script is stored.
AppendNext(p) ==
    LET e    == Head(process[p].events)
        rest == Tail(process[p].events)
    IN  /\ process[p].pc \in {"typed", "legacy"}
        /\ Ledger!Add(e)
        /\ process' = [process EXCEPT ![p] = IF rest = <<>> THEN Done
                                             ELSE [@ EXCEPT !.events = rest]]
        /\ grounds' = IF process[p].request = None THEN grounds
                      ELSE Append(grounds, [event |-> e, request |-> process[p].request])

\* review repair-request: one typed event under a new id, and no 0.1 event in its
\* place.  It asks nothing of the attestations in the file it is given.
RequestRepair(a) ==
    /\ Len(log) < MaxEvents
    /\ Ledger!Add(V2Event(RepairId(Len(log)), "REPAIR_REQUESTED", a, [opaque |-> TRUE]))
    /\ UNCHANGED <<process, grounds>>

\* review repair-complete, likewise; the repaired candidate is another artifact.
CompleteRepair(a) ==
    /\ Len(log) < MaxEvents
    /\ Ledger!Add(V2Event(RepairId(Len(log)), "REPAIR_COMPLETED", a, [opaque |-> TRUE]))
    /\ UNCHANGED <<process, grounds>>

\* LedgerTransitionError: the 0.1 events are appended instead, from the first.
FallBack(p) ==
    LET e == Head(process[p].events)
    IN  /\ process[p].pc = "typed"
        /\ ~ Accepts(Projection(log), e)
        /\ process' = [process EXCEPT ![p].pc = "legacy", ![p].events = process[p].legacy]
        /\ UNCHANGED <<log, grounds>>

\* LedgerIntegrityError, the id is taken: the command fails.
Refuse(p) ==
    LET e == Head(process[p].events)
    IN  /\ process[p].pc \in {"typed", "legacy"}
        /\ process[p].pc = "typed" => Accepts(Projection(log), e)
        /\ e.id \in Ids(log)
        /\ process' = [process EXCEPT ![p] = Done]
        /\ UNCHANGED <<log, grounds>>

\* The command is killed between two appends.
Crash(p) ==
    /\ process[p].pc # "idle"
    /\ process' = [process EXCEPT ![p] = Done]
    /\ UNCHANGED <<log, grounds>>

Next ==
    \/ \E e \in Submissions : AppendOther(e)
    \/ \E a \in Artifacts : RequestRepair(a) \/ CompleteRepair(a)
    \/ \E p \in Processes :
          \/ \E sheet \in Sheets, risk \in Risks : Attest(p, sheet, risk)
          \/ \E request \in Requests : AskQuorum(p, request)
          \/ AcceptQuorum(p)
          \/ \E verdict \in Verdicts : Record(p, verdict)
          \/ AppendNext(p) \/ FallBack(p) \/ Refuse(p) \/ Crash(p)

Spec == Init /\ [][Next]_vars

-----------------------------------------------------------------------------
(* Properties *)

TypeOK ==
    /\ log \in Seq(Events)
    /\ process \in [Processes -> [pc : {"idle", "asked", "typed", "legacy"}, events : Seq(Events),
                                  legacy : Seq(Events), request : AcceptRequests \cup {None}]]
    /\ grounds \in Seq([event : Events, request : AcceptRequests])

\* The row that records event id, if there is one.
RowOf(id) == {i \in DOMAIN log : log[i].id = id}

\* Expert time is recorded only with the review it was spent on: after it, on
\* the same artifact and in the same vocabulary (typed or 0.1).  Repeating a
\* command that was killed, or running it twice at once, never attaches the
\* time of one review to another (record_attestation_event).
TimeFollowsReview ==
    \A t \in Attestations : \A i \in RowOf(TimeId(t)) :
        \E j \in RowOf(AttestId(t)) :
            j < i /\ log[j].artifact = log[i].artifact /\ log[j].schema = log[i].schema

\* The time of a decision is recorded last: when it is there, so is an event for
\* every obligation the decision named (record_review_decision).
DecisionIsComplete ==
    \A v \in Verdicts :
        RowOf(DecisionTimeId(v.id)) # {} =>
            \A k \in 1 .. v.linked + 1 : RowOf(DecisionId(v.id, k)) # {}

\* Every acceptance that accept-quorum records - typed or 0.1 - is one for which
\* distinct reviewers can be assigned to the required roles, all of them having
\* accepted the same evidence, and no submitted review dissents.
AcceptedByQuorum ==
    \A i \in DOMAIN grounds :
        LET r == grounds[i].request
        IN  HasQuorum(r.risk, r.sheets, r.fingerprint, FALSE)

\* The acceptance flags of high risks are earned: TRUE only where a reviewer
\* accepted that dimension.  They are set by attestation_id, so at R3 nobody's
\* word on the implementation sets a flag unless its id is used twice.
FlagsAreEarned ==
    \A i \in DOMAIN grounds :
        LET r == grounds[i].request
            verdict == EvaluateQuorum(r.risk, r.sheets, r.fingerprint, FALSE)
            accepted(d) == \E k \in DOMAIN r.sheets :
                              r.sheets[k].dimension = d /\ r.sheets[k].decision = "ACCEPT"
            distinctIds == \A k, l \in DOMAIN r.sheets : r.sheets[k].id = r.sheets[l].id => k = l
        IN  r.risk \in HighRisks =>
                /\ verdict.semantic /\ accepted("SEMANTIC_FIDELITY")
                /\ verdict.repository /\ accepted("REPOSITORY_FIT")
                /\ r.risk = "R4" => verdict.implementation
                /\ verdict.implementation =>
                      accepted("IMPLEMENTATION_QUALITY") /\ (distinctIds => r.risk = "R4")

=============================================================================
