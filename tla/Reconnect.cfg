SPECIFICATION Spec
CONSTANTS
    MaxConn = 2
    Window = 1
    MaxFrames = 1
    Modes = {1}
    DefaultMode = 1
    GoodCode = 1
    InputFaults = FALSE
    Codes = {1}
    MaxInputs = 0
    MaxRequests = 0
    Choices = {}
INVARIANTS SessionTable HonestState
CHECK_DEADLOCK FALSE
