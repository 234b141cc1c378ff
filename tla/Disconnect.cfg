SPECIFICATION FairSpec
CONSTANTS
    MaxConn = 1
    Window = 1
    MaxFrames = 0
    Modes = {1}
    DefaultMode = 1
    GoodCode = 1
    InputFaults = FALSE
    Codes = {1}
    MaxInputs = 0
    MaxRequests = 0
    Choices = {}
PROPERTY DisconnectEnds
CHECK_DEADLOCK FALSE
