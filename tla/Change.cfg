CONSTANTS
    none = none  t1 = t1  t2 = t2  v1 = v1  v2 = v2
    Modules <- ModulesDef
    Written <- WrittenDef
    Identifiers <- IdentifiersDef
    Types = {t1, t2}
    Values = {v1, v2}
    Untyped = none
    NameOrder <- NameOrderDef
    Foundational <- FoundationalDef
    Project <- ProjectDef
    Additions <- AdditionsDef
    MaxEdits = 3
SPECIFICATION ChangeSpec
INVARIANTS
    DiffIsPartition
    R0KeepsStatements
    ImportersInCone
CHECK_DEADLOCK FALSE
