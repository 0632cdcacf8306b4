CONSTANTS
    Leads = {"l1", "l2", "l3"}
    Company <- MCCompany
    Feed <- MCFeed
    NoView = NoView
    Seniority <- MCSeniority
    People = {"friend", "one"}
    Cap = 1
    Stall = 1
    MaxPolls = 2
    MaxDeaths = 1
    MaxReopened = 1
SPECIFICATION FairSpec
INVARIANTS TypeOK NoCrowding JdOnDisk SeedsKept
PROPERTIES PromotedOnce BestPromoted DeservingPromoted
CHECK_DEADLOCK FALSE
