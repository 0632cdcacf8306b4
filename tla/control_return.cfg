SPECIFICATION Spec
CONSTANTS
    Operators = {op1}
    Chats = {chatA, chatB}
    Heartbeat = heartbeat
    Tasks = {task1}
    None = None
    MaxCrashes = 0
PROPERTY
    ReturnKeepsPause
CHECK_DEADLOCK FALSE
