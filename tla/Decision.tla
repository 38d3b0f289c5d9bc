------------------------------- MODULE Decision -------------------------------
(***************************************************************************)
(* From findings to a recommendation: the synthesis of the canonical       *)
(* checks, the hard gate, and the question a reviewer is asked.            *)
(* synthesis.py, gates.py, router.py and routing/baseline.py.              *)
(***************************************************************************)
EXTENDS Naturals, FiniteSetsExt, SequencesExt

CONSTANT None

Finding(check, dim, status, scope) ==
    [check |-> check, dim |-> dim, status |-> status, scope |-> scope, attempted |-> FALSE]

\* The findings a canonical check is made from.
SYNTHESIS_RULES ==
    [api_fit      |-> {"semantic.duplicate_retrieval", "semantic.statement_diff",
                       "repository.changed_paths", "lean.impact_cone"},
     declared_use |-> {"downstream.successor_suite", "downstream.replacement_tests"},
     intent       |-> {"semantic.statement_diff", "semantic.project_examples",
                       "semantic.counterexamples", "semantic.human_attestation"}]

Sources(rule, findings) == {f \in findings : f.check \in SYNTHESIS_RULES[rule]}

\* An unresolved finding is a result only if its provider covered its whole scope.
CompleteResult(findings) ==
    /\ findings # {}
    /\ \A f \in findings : f.status = "UNKNOWN" => f.attempted /\ f.scope = "complete"

Worst(findings) ==
    LET order == <<"FAIL", "UNKNOWN", "WARN", "PASS", "NOT_APPLICABLE">>
        met   == SelectSeq(order, LAMBDA s : \E f \in findings : f.status = s)
    IN IF met = <<>> THEN "UNKNOWN" ELSE Head(met)

PassIfNone(status) == IF status = "NOT_APPLICABLE" THEN "PASS" ELSE status

FromProviders(check, dim, rule, findings, public) ==
    LET sources == Sources(rule, findings)
    IN IF public = {} THEN Finding(check, dim, "NOT_APPLICABLE", "complete")
       ELSE IF ~CompleteResult(sources) THEN Finding(check, dim, "UNKNOWN", "partial")
       ELSE Finding(check, dim, PassIfNone(Worst(sources)), "complete")

(***************************************************************************)
(* Whether the candidate says what is intended: at R3 and above only a     *)
(* person can say so; below, what the providers report.                    *)
(***************************************************************************)
IntentSupport(findings, risk) ==
    LET attested == \E f \in findings : f.check = "semantic.human_attestation" /\ f.status = "PASS"
        automated == {f \in Sources("intent", findings) : f.check # "semantic.human_attestation"}
    IN Finding("semantic.intent_support", "semantic",
               IF risk >= 3 THEN IF attested THEN "PASS" ELSE "UNKNOWN"
               ELSE PassIfNone(Worst(automated)),
               "complete")

CanonicalChecks == {"repository.api_fit", "downstream.declared_use", "semantic.intent_support"}

Synthesis(findings, public, risk) ==
    {f \in findings : f.check \notin CanonicalChecks}
    \cup {FromProviders("repository.api_fit", "repository", "api_fit", findings, public),
          FromProviders("downstream.declared_use", "downstream", "declared_use", findings, public),
          IntentSupport(findings, risk)}

-----------------------------------------------------------------------------
HARD_FAIL_CHECKS ==
    {"contract.valid", "candidate.obligations", "lean.build", "lean.placeholders",
     "lean.prohibited_axioms", "repository.changed_paths"}

WithStatus(findings, status) == {f \in findings : f.status = status}

Hard(findings) == {f \in findings : f.check \in HARD_FAIL_CHECKS}

\* Faulty variant of Decide: an unresolved hard check does not fail the gate.
DecidePassingUnresolved(findings, risk, eligible) ==
    IF WithStatus(Hard(findings), "FAIL") # {}
    THEN [passed |-> FALSE, recommendation |-> "REJECT"]
    ELSE IF risk < 3 /\ WithStatus(findings, "UNKNOWN") = {} /\ eligible
    THEN [passed |-> TRUE, recommendation |-> "ACCEPT"]
    ELSE [passed |-> TRUE, recommendation |-> "ESCALATE"]

Decide(findings, risk, eligible) ==
    IF WithStatus(Hard(findings), "FAIL") # {}
    THEN [passed |-> FALSE, recommendation |-> "REJECT"]
    ELSE IF WithStatus(Hard(findings), "UNKNOWN") # {}
    THEN [passed |-> FALSE, recommendation |-> "ESCALATE"]
    ELSE IF risk < 3 /\ WithStatus(findings, "UNKNOWN") = {} /\ eligible
    THEN [passed |-> TRUE, recommendation |-> "ACCEPT"]
    ELSE [passed |-> TRUE, recommendation |-> "ESCALATE"]

-----------------------------------------------------------------------------
PRIORITY == <<"semantic", "repository", "downstream", "kernel", "persistence", "uncertainty">>

Unresolved(findings) == {f \in findings : f.status \in {"UNKNOWN", "WARN"}}

\* The dimensions with a question of their own; any other has the general one.
AskedAbout == {"semantic", "repository", "downstream"}

Rank(dim) ==
    LET places == {i \in DOMAIN PRIORITY : PRIORITY[i] = dim}
    IN IF places = {} THEN 99 ELSE CHOOSE i \in places : TRUE

\* The question about the first of some dimensions.
QuestionAbout(dims, risk) ==
    LET first == CHOOSE d \in dims : \A e \in dims : Rank(d) <= Rank(e)
    IN IF dims # {} /\ first \in AskedAbout THEN first
       ELSE IF dims = {} /\ risk < 3 THEN None
       ELSE "high-risk"

\* Faulty variant of ReviewQuestion: warnings are no reason to ask.
ReviewQuestionOfUnknowns(findings, risk) ==
    QuestionAbout({f.dim : f \in WithStatus(findings, "UNKNOWN")}, risk)

ReviewQuestion(findings, risk) == QuestionAbout({f.dim : f \in Unresolved(findings)}, risk)

=============================================================================
