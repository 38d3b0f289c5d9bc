CONSTANTS
    none = none  t1 = t1  t2 = t2  v1 = v1  v2 = v2
    Modules <- ModulesDef
    Written <- WrittenDef
    Identifiers <- IdentifiersDef
    Types = {t1, t2}
    Values = {v1, v2}
    Untyped = none
    NameOrder <- NameOrderDef
    Foundational <- FoundationalDef
    Project <- ProjectDef
    Additions <- AdditionsDef
    MaxEdits = 1
SPECIFICATION ChangeSpec
INVARIANT R0IsProofOnly
CHECK_DEADLOCK FALSE
