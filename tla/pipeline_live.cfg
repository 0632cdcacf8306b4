SPECIFICATION FairSpec
CONSTANTS
    MaxRuns = 1
    MaxInterruptions = 0
PROPERTY EscalationReachesExpert
