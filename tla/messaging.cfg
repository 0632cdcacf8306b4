CONSTANTS
    Wave <- MCWave
    DailyCap = 1
    MaxSequence = 2
    MaxRetries = 1
    DraftLimit = 1
    RolloutCap = 1
    BlockHours <- MCBlockHours
    MaxTroubles = 1
    Answering <- MCAnswering
    MaxWave = 1
SPECIFICATION RetirementSpec
INVARIANTS RetirementTypeOK RolloutCapped SilentOnceAnswered
PROPERTIES SendsSpaced WaveOrder NotBouncedTruthful KeepsLedger RetiredStaysUnsent
CONSTRAINTS AnswersOrTroubles CommandsAlone
CHECK_DEADLOCK FALSE
