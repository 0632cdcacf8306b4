SPECIFICATION Spec
CONSTANTS
    Operators = {op1}
    Chats = {chatA, chatB}
    Heartbeat = heartbeat
    Tasks = {task1}
    None = None
    MaxCrashes = 0
INVARIANT
    FocusKeepsAgentFromRunning
CHECK_DEADLOCK FALSE
