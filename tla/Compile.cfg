CONSTANTS
    None = None  Junk = Junk
    Trees <- MCTrees
    Candidates <- MCCandidates
    Hosts <- MCHosts
    Projects <- MCProjects
    Requests <- MCRequests
    Runs <- MCRuns
    Encounters <- MCEncounters
    Obligations = {"o"}
    Denied = {"ci"}
    AutoAccept = {0, 1}
    MaxCompilations = 2
SPECIFICATION Spec
INVARIANTS
    AcceptIsEarned
    HardGateIsComplete
    EvidenceIsOfSnapshot
    EscalationAsks
    HostBuildIsAsked
CHECK_DEADLOCK FALSE
