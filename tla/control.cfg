SPECIFICATION FairSpec
CONSTANTS
    Operators = {op1}
    Chats = {chatA, chatB}
    Heartbeat = heartbeat
    Tasks = {task1}
    None = None
    MaxCrashes = 1
INVARIANTS
    TypeOK
    ControlRecordCoherent
    StoppedIffDisabled
    FocusExcludesRunning
    ResumeOrderHasChat
PROPERTIES
    AutomationKeepsPause
    FocusHeldUntilReturned
    IdleTimeoutResumes
