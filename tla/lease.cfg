SPECIFICATION MCSpec
CONSTANTS
    Workers = {launchd, manual}
    Scheduled = {launchd}
    None = None
    Dead = Dead
    Ttl = 1
    MaxLag = 2
    MaxCrashes = 1
    Learners = {learner}
    Finders <- MCFinders
    MaxUnknown = 1
    MaxDay = 1
    MaxBatches = 2
INVARIANTS
    ExclusiveWithinTtl
    LatestHolderOwnsLease
    OneBatchADay
    LearnersMailedOnce
PROPERTY DeadLeaseRecovered
