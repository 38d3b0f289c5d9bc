------------------------------- MODULE MCReview -------------------------------
(***************************************************************************)
(* Reviewers, attestations and requests for model-checking Review.         *)
(***************************************************************************)
EXTENDS Review, MCEvents, TLC

CONSTANTS alice, bob, carol, dana, p1, p2, t3, t4, t5, t6, t7, t8, g1, g2

ReviewIds ==
    {e1, e2, e3, e4, e5} \cup ({"attest", "time", "decisionTime"} \X Attestations)
        \cup ({"accept"} \X Artifacts) \cup ({"repair"} \X (0 .. MaxEvents)) \cup ({"decision"} \X Attestations \X (1 .. 2))

Sheet(t, reviewer, requirement, decision, fingerprint) ==
    [id |-> t, packet |-> a1, reviewer |-> reviewer, role |-> requirement.role,
     dimension |-> requirement.dimension, decision |-> decision, fingerprint |-> fingerprint]

\* Two people could speak for the meaning, one of them also for the repository.
AliceMeaning == Sheet(t1, alice, Semantic, "ACCEPT", g1)
BobMeaning   == Sheet(t2, bob, Semantic, "ACCEPT", g1)
AliceFit     == Sheet(t3, alice, Repository, "ACCEPT", g1)
CarolFit     == Sheet(t4, carol, Repository, "ACCEPT", g1)
CarolReview  == Sheet(t5, carol, Architecture, "ACCEPT", g1)
DanaCode     == Sheet(t6, dana, Implementation, "ACCEPT", g1)
DanaOther    == Sheet(t7, carol, Repository, "ACCEPT", g2)
BobRejects   == Sheet(t8, bob, Semantic, "REJECT", g1)

\* A file that reuses the id of another.
DanaReuses   == Sheet(t1, dana, Implementation, "ACCEPT", g1)

AllSheets ==
    {AliceMeaning, BobMeaning, AliceFit, CarolFit, CarolReview, DanaCode, DanaReuses, DanaOther,
     BobRejects}

Request(risk, sheets) ==
    [artifact |-> a1, risk |-> risk, sheets |-> sheets, fingerprint |-> g1]

\* Every list of up to three of the sheets, for every risk.
ListRequests == {Request(risk, list) : risk \in Risks, list \in SeqOf(AllSheets, 3)}

R3Request == Request("R3", <<AliceMeaning, CarolFit>>)

\* The second file reuses the id of the first for another artifact.
RaceSheets == {AliceMeaning, [CarolFit EXCEPT !.id = t1, !.packet = a2]}

RaceVerdicts ==
    {[id |-> t5, artifact |-> a1, risk |-> "R1", reviewer |-> dana,
      decision |-> "REQUEST_REPAIR", linked |-> 1]}

R3Requests == {R3Request}

\* review.yaml: alice and bob lead the domain, carol keeps the repository.
ReviewRoles ==
    [r \in Reviewers |->
        CASE r = carol -> {"repository-maintainer", "architecture-maintainer"}
          [] r = dana  -> {"lean-engineer"}
          [] OTHER     -> {"domain-lead"}]

NoRolesRequired == [risk \in Risks |-> {}]

\* The life of artifact a1 up to its review.
PrimingEvents ==
    {V2(e1, "OBLIGATION_FROZEN", a1, Freeze(f1)),
     V2(e2, "CANDIDATE_REGISTERED", a1, Candidate(f1, c1)),
     V2(e3, "EVIDENCE_COMPILED", a1, Opaque),
     V2(e4, "REVIEW_ASSIGNED", a1, Opaque)}

\* Any list of sheets is judged too, by a process that has the ledger to itself.
AskAnyList ==
    /\ log = <<>>
    /\ \A p \in Processes : process[p] = Done
    /\ \E p \in Processes, request \in ListRequests : AskQuorum(p, request)

MCSpec == Init /\ [][Next \/ AskAnyList]_vars

\* Nothing is explored beside such a request, nor after its acceptance.
ListsAlone ==
    /\ \A p \in Processes : process[p].request \notin Requests \cup {None} =>
          log = <<>> /\ \A q \in Processes \ {p} : process[q] = Done
    /\ \A i \in DOMAIN grounds : grounds[i].request \notin Requests =>
          Len(log) = 1 /\ \A p \in Processes : process[p] = Done

\* Processes run the same commands.
ProcessSymmetry == Permutations(Processes)

=============================================================================
