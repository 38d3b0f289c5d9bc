-------------------------------- MODULE MCTppr --------------------------------
(***************************************************************************)
(* A ledger for model-checking Tppr: one freeze of two obligations, two    *)
(* candidates of one lineage, a third artifact whose freeze comes late,    *)
(* and a correction that invalidates the acceptance or the regression.     *)
(***************************************************************************)
EXTENDS Tppr, MCEvents

CONSTANTS a3, c3, s1, s2

Entry(event, obligations, day, data) ==
    [event |-> event, obligations |-> obligations, day |-> day, data |-> data]

Unread == [unread |-> TRUE]

Rule(suites, revoke) ==
    [calendar |-> TRUE, threshold |-> 2, suites |-> suites, revoke |-> revoke]

Frozen(weights, rule) == [frozen |-> [weights |-> weights, rule |-> rule]]

Step(id, type, a) == V2(id, type, a, Opaque)

\* Artifact a1 carries obligations 1 and 2, but its events may name only one.
FirstArtifact ==
    {Entry(V2(e1, "OBLIGATION_FROZEN", a1, Freeze(f1)), {1, 2}, 1, frozen) :
        frozen \in {Frozen([o \in {1, 2} |-> o], Rule({}, TRUE)),
                    Frozen([o \in {1, 2} |-> 2 - o], Rule({s1}, TRUE))}}
    \cup {Entry(V2(e2, "CANDIDATE_REGISTERED", a1, Candidate(f1, c1)), named, day, [root |-> c1]) :
             named \in {{1}, {1, 2}}, day \in {0, 2}}
    \cup {Entry(Step(e3, "EVIDENCE_COMPILED", a1), {1}, 1, Unread)}
    \cup {Entry(Step(e4, "ARTIFACT_ACCEPTED", a1), {1, 2}, 2,
                [accepted |-> named, grounded |-> grounded]) :
             named \in {{}, {1}}, grounded \in BOOLEAN}
    \cup {Entry(Step(e5, "INTEGRATION_CONFIRMED", a1), named, 2, [candidate |-> c1]) :
             named \in {{1}, {1, 2}}}
    \cup {Entry(Step(e6, "DOWNSTREAM_ENABLED", a1), {1, 2}, 2, [suites |-> {s}]) : s \in {s1, s2}}
    \cup {Entry(Step(e7, "PERSISTENCE_CONFIRMED", a1), {1, 2}, 3,
                [confirmed |-> day, elapsed |-> FALSE]) : day \in {2, 3}}
    \cup {Entry(Step(e8, "REGRESSION_DETECTED", a1), {1}, 4, [blocking |-> b]) : b \in BOOLEAN}

\* Artifact a2 is registered for obligation 2 under the same freeze, of the same
\* lineage or not.
SecondArtifact ==
    {Entry(V2(e9, "CANDIDATE_REGISTERED", a2, Candidate(f1, c2)), {2}, 1, [root |-> root]) :
        root \in {c1, c2}}
    \cup {Entry(Step(e10, "EVIDENCE_COMPILED", a2), {2}, 1, Unread)}
    \cup {Entry(Step(e11, "ARTIFACT_ACCEPTED", a2), {2}, 2,
                [accepted |-> {}, grounded |-> TRUE])}
    \cup {Entry(Step(e12, "INTEGRATION_CONFIRMED", a2), {2}, 2, [candidate |-> c]) : c \in {c1, c2}}

\* A freeze that comes late, or a second time.
ThirdArtifact ==
    {Entry(V2(e13, "OBLIGATION_FROZEN", a3, Freeze(f2)), {o}, 2,
           Frozen([p \in {o} |-> 2], Rule({}, FALSE))) : o \in {2, 3}}

Time ==
    {Entry(Step(e14, "EXPERT_TIME_RECORDED", a2), {}, 1,
           [hours |-> 1, known |-> known, retrospective |-> retrospective]) :
        known \in {TRUE}, retrospective \in BOOLEAN}
    \cup {Entry(Step(e14, "EXPERT_TIME_RECORDED", a2), {}, 1,
                [hours |-> 1, known |-> FALSE, retrospective |-> FALSE])}

Corrections ==
    {Entry(V2(e15, "CORRECTION_RECORDED", a1, Invalidate(id)), {}, 4, Unread) : id \in {e4, e8}}

\* A refused ledger stays refused; its continuations are not explored.
Undisputed == ~tally.refused

AllEntries == FirstArtifact \cup SecondArtifact \cup ThirdArtifact \cup Time \cup Corrections

OneCorrected == FirstArtifact \cup Corrections

=============================================================================
