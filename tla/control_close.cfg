SPECIFICATION Spec
CONSTANTS
    Operators = {op1}
    Chats = {chatA, chatB}
    Heartbeat = heartbeat
    Tasks = {task1}
    None = None
    MaxCrashes = 0
INVARIANT
    ExplicitCloseResumes
CHECK_DEADLOCK FALSE
