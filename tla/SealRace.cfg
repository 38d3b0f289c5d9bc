CONSTANTS
    a1 = a1  a2 = a2
    e1 = e1  e2 = e2  e3 = e3  e4 = e4  e5 = e5  e6 = e6  e7 = e7  e8 = e8
    e9 = e9  e10 = e10  e11 = e11  e12 = e12  e13 = e13  e14 = e14  e15 = e15
    f1 = f1  f2 = f2  c1 = c1  c2 = c2  t1 = t1  t2 = t2
    s1 = s1  s2 = s2  k1 = k1
    None = None
    Artifacts = {a1, a2}
    EventIds = {e1, e2, e3, e4}
    Freezes = {f1}
    Candidates = {c1}
    Attestations = {t1}
    Submissions <- SealedEvents
    Sealers = {s1, s2}
    Checkers = {k1}
    MaxEvents = 3
    MaxSequence = 2
SPECIFICATION Spec
SYMMETRY SealerSymmetry
INVARIANTS
    TypeOK
    GoodSealIsVerified
