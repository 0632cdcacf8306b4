SPECIFICATION Spec
CONSTANTS
    MaxRuns = 1
    MaxInterruptions = 0
PROPERTY AbandonedStays
