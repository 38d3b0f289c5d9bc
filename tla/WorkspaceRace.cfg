CONSTANTS
    Runs = {r1, r2}
    Artifacts = {d1, d2}
    MaxSessions = 3
SPECIFICATION Spec
SYMMETRY WorkspaceSymmetry
INVARIANTS
    TypeOK
    ReferencesVerify
    SnapshotsLast
    OnlyExcusedSessionsStay
CHECK_DEADLOCK FALSE
