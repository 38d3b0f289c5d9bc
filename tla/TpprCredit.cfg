CONSTANTS
    a1 = a1  a2 = a2  a3 = a3
    e1 = e1  e2 = e2  e3 = e3  e4 = e4  e5 = e5  e6 = e6  e7 = e7  e8 = e8
    e9 = e9  e10 = e10  e11 = e11  e12 = e12  e13 = e13  e14 = e14  e15 = e15
    f1 = f1  f2 = f2  c1 = c1  c2 = c2  c3 = c3  t1 = t1  t2 = t2
    s1 = s1  s2 = s2
    None = None
    Artifacts = {a1, a2, a3}
    EventIds = {e1, e2, e3, e4, e5, e6, e7, e8, e9, e10, e11, e12, e13, e14, e15}
    Freezes = {f1, f2}
    Candidates = {c1, c2}
    Attestations = {t1}
    Obligations = {1, 2, 3}
    Suites = {s1, s2}
    Submissions <- AllEntries
    MaxEntries = 9
SPECIFICATION Spec
INVARIANTS
    TypeOK
    RefusalHasCause
    CreditIsEarned
    LineageCreditedOnce
PROPERTIES
    CreditIsKept
CONSTRAINT Undisputed
CHECK_DEADLOCK FALSE
