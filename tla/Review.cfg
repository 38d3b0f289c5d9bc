CONSTANTS
    a1 = a1  a2 = a2
    e1 = e1  e2 = e2  e3 = e3  e4 = e4  e5 = e5  e6 = e6  e7 = e7  e8 = e8
    e9 = e9  e10 = e10  e11 = e11  e12 = e12  e13 = e13  e14 = e14  e15 = e15
    f1 = f1  f2 = f2  c1 = c1  c2 = c2  g1 = g1  g2 = g2
    t1 = t1  t2 = t2  t3 = t3  t4 = t4  t5 = t5  t6 = t6  t7 = t7  t8 = t8
    alice = alice  bob = bob  carol = carol  dana = dana  p1 = p1  p2 = p2
    None = None
    Artifacts = {a1, a2}
    EventIds <- ReviewIds
    Freezes = {f1}
    Candidates = {c1}
    Attestations = {t1, t2, t3, t4, t5, t6, t7, t8}
    Reviewers = {alice, bob, carol, dana}
    Fingerprints = {g1, g2}
    RolesOf <- ReviewRoles
    RequiredRoles <- NoRolesRequired
    Conflicted = {dana}
    Submissions <- PrimingEvents
    Sheets <- RaceSheets
    Requests <- R3Requests
    Verdicts <- RaceVerdicts
    Processes = {p1, p2}
    MaxEvents = 7
SPECIFICATION MCSpec
SYMMETRY ProcessSymmetry
INVARIANTS
    TypeOK
    TimeFollowsReview
    DecisionIsComplete
    AcceptedByQuorum
    FlagsAreEarned
CONSTRAINT ListsAlone
CHECK_DEADLOCK FALSE
