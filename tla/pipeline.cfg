SPECIFICATION Spec
CONSTANTS
    MaxRuns = 2
    MaxInterruptions = 1
INVARIANTS
    TypeOK
    OneOpenRun
    ReviewStatusHasPacket
PROPERTIES
    TerminalRunsStay
    SendsApproved
