CONSTANTS
    Contacts = {"c1", "c2"}
    Finders <- MCFinders
    Apollo = "apollo"
    Metered = {"hunter"}
    Reach <- MCReach
    Repeats = 2
    Strikes = 2
    Retries = 2
    MaxTroubles = 3
SPECIFICATION FairSpec
INVARIANTS TypeOK SendsOnlyReady NobodyDropped SearchBounded
PROPERTIES ExhaustedForCause DiscoverySettles
CHECK_DEADLOCK FALSE
