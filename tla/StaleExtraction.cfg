CONSTANTS
    None = None  Junk = Junk
    Trees <- MCTrees
    Candidates <- MCOwnCandidates
    Hosts <- MCSequential
    Projects <- MCFresh
    Requests <- MCRequests
    Runs <- MCGoodRuns
    Encounters <- MCEncounters
    Obligations = {"o"}
    Denied = {"ci"}
    AutoAccept = {0, 1}
    MaxCompilations = 2
SPECIFICATION Spec
INVARIANT NoStalePass
CHECK_DEADLOCK FALSE
