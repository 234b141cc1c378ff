SPECIFICATION Spec
CONSTANTS
    MaxConn = 1
    Window = 1
    MaxFrames = 1
    Modes = {1}
    DefaultMode = 1
    GoodCode = 1
    InputFaults = FALSE
    Codes = {1}
    MaxInputs = 0
    MaxRequests = 0
    Choices = {}
INVARIANT AcceptedConnects
CHECK_DEADLOCK FALSE
