CONSTANTS
    None = None
    Versions = {1, 2}
    Rosters <- TwoRosters
    Configs <- TwoConfigs
    Images <- TwoImages
    Edited = {"reviewer-roster", "assignment", "held-out-set", "analysis"}
    EpisodeLists <- Lists
    Seeds <- AllSeeds
    OtherPlans = {foreign}
    MaxEdits = 2
    MaxEvents = 1
SPECIFICATION Spec
INVARIANTS
    LockIsOfOneStudy
    AssignmentIsBlind
    WorkloadIsShared
CONSTRAINT Followed
CHECK_DEADLOCK FALSE
