----------------------------- MODULE ReviewQuorum -----------------------------
(***************************************************************************)
(* The R0-R4 acceptance quorum (src/lpe/review/quorum.py): which           *)
(* attestations a risk class asks for, and the matching evaluate_quorum    *)
(* does.  HasQuorum is the reference definition: some assignment of        *)
(* attestations to requirements exists.  No variables.                     *)
(***************************************************************************)
EXTENDS Naturals, Sequences, FiniteSetsExt, SequencesExt

Risks == {"R0", "R1", "R2", "R3", "R4"}

HighRisks == {"R3", "R4"}

Dimensions ==
    {"SEMANTIC_FIDELITY", "REPOSITORY_FIT", "IMPLEMENTATION_QUALITY",
     "DOWNSTREAM_VALUE", "ADJUDICATION"}

Roles ==
    {"domain-lead", "repository-maintainer", "architecture-maintainer",
     "lean-engineer", "adjudicator"}

Decisions == {"ACCEPT", "REJECT", "REQUEST_REPAIR", "INDETERMINATE"}

-----------------------------------------------------------------------------
(* Policies *)

Semantic   == [dimension |-> "SEMANTIC_FIDELITY", role |-> "domain-lead"]
Repository == [dimension |-> "REPOSITORY_FIT", role |-> "repository-maintainer"]
Architecture == [dimension |-> "REPOSITORY_FIT", role |-> "architecture-maintainer"]
Implementation == [dimension |-> "IMPLEMENTATION_QUALITY", role |-> "lean-engineer"]

\* quorum_policy_for_risk, and what a project-authored statement adds to R2.
Requirements(risk, semanticForR2) ==
    CASE risk = "R0" -> <<>>
      [] risk = "R1" -> <<Implementation>>
      [] risk = "R2" -> IF semanticForR2 THEN <<Repository, Semantic>> ELSE <<Repository>>
      [] risk = "R3" -> <<Semantic, Repository>>
      [] risk = "R4" -> <<Semantic, Architecture, Implementation>>

-----------------------------------------------------------------------------
(* evaluate_quorum *)

\* Any reject, repair request or undecided review blocks.
Dissent(sheets) == \E i \in DOMAIN sheets : sheets[i].decision # "ACCEPT"

\* So does an acceptance of other evidence.
OtherEvidence(sheets, fingerprint) ==
    \E i \in DOMAIN sheets :
        sheets[i].decision = "ACCEPT" /\ sheets[i].fingerprint # fingerprint

Meets(sheet, requirement) ==
    /\ sheet.decision = "ACCEPT"
    /\ sheet.dimension = requirement.dimension
    /\ sheet.role = requirement.role

NothingMatched == [taken |-> {}, reviewers |-> {}, missing |-> FALSE]

\* Faulty variant of MatchRequirement: one reviewer may fill several roles.
MatchAnyReviewer(sheets, m, requirement) ==
    LET open == {i \in DOMAIN sheets \ m.taken : Meets(sheets[i], requirement)}
    IN  IF open = {} THEN [m EXCEPT !.missing = TRUE]
        ELSE [m EXCEPT !.taken = @ \cup {Min(open)}]

\* The first sheet left that meets the requirement, of a reviewer not yet used.
MatchRequirement(sheets, m, requirement) ==
    LET open == {i \in DOMAIN sheets \ m.taken :
                    Meets(sheets[i], requirement) /\ sheets[i].reviewer \notin m.reviewers}
    IN  IF open = {} THEN [m EXCEPT !.missing = TRUE]
        ELSE [m EXCEPT !.taken = @ \cup {Min(open)},
                       !.reviewers = @ \cup {sheets[Min(open)].reviewer}]

\* The requirements in turn, never going back on a match.
Matching(sheets, requirements) ==
    LET after[k \in 0 .. Len(requirements)] ==
            IF k = 0 THEN NothingMatched
            ELSE MatchRequirement(sheets, after[k - 1], requirements[k])
    IN  after[Len(requirements)]

\* Faulty variant of GrantedUnasked: R3 is treated like R2.
GrantedUnaskedToR3(dimension, semanticForR2) ==
    CASE dimension = "SEMANTIC_FIDELITY"      -> IF semanticForR2 THEN {"R1"} ELSE {"R1", "R2"}
      [] dimension = "REPOSITORY_FIT"         -> {"R1"}
      [] dimension = "IMPLEMENTATION_QUALITY" -> {"R2", "R3"}

\* The risks whose satisfied quorum sets a flag no reviewer was asked for.
GrantedUnasked(dimension, semanticForR2) ==
    CASE dimension = "SEMANTIC_FIDELITY"      -> IF semanticForR2 THEN {"R1"} ELSE {"R1", "R2"}
      [] dimension = "REPOSITORY_FIT"         -> {"R1"}
      [] dimension = "IMPLEMENTATION_QUALITY" -> {"R2"}

\* QuorumEvaluation.  R0 asks for nobody and sets every flag.
EvaluateQuorum(risk, sheets, fingerprint, semanticForR2) ==
    LET blocked   == Dissent(sheets) \/ OtherEvidence(sheets, fingerprint)
        matching  == Matching(sheets, Requirements(risk, semanticForR2))
        satisfied == ~blocked /\ ~matching.missing
        matched   == {sheets[i].id : i \in matching.taken}
        earned(d) == \E i \in DOMAIN sheets :
                         /\ sheets[i].decision = "ACCEPT"
                         /\ sheets[i].dimension = d
                         /\ sheets[i].id \in matched
        flag(d) == \/ risk = "R0"
                   \/ satisfied /\ (earned(d) \/ risk \in GrantedUnasked(d, semanticForR2))
    IN  [satisfied      |-> satisfied,
         matched        |-> matched,
         semantic       |-> flag("SEMANTIC_FIDELITY"),
         repository     |-> flag("REPOSITORY_FIT"),
         implementation |-> flag("IMPLEMENTATION_QUALITY")]

-----------------------------------------------------------------------------
(* Reference definition *)

\* Distinct reviewers can be assigned to the requirements, one sheet each, and
\* nothing else that was submitted stands against it.
HasQuorum(risk, sheets, fingerprint, semanticForR2) ==
    LET required == Requirements(risk, semanticForR2)
    IN  /\ \A i \in DOMAIN sheets :
              sheets[i].decision = "ACCEPT" /\ sheets[i].fingerprint = fingerprint
        /\ \E assignment \in [DOMAIN required -> DOMAIN sheets] :
              /\ \A k \in DOMAIN required :
                    /\ sheets[assignment[k]].dimension = required[k].dimension
                    /\ sheets[assignment[k]].role = required[k].role
              /\ \A k, l \in DOMAIN required :
                    sheets[assignment[k]].reviewer = sheets[assignment[l]].reviewer => k = l

=============================================================================
