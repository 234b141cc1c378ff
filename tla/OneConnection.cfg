SPECIFICATION Spec
CONSTANTS
    MaxConn = 1
    Window = 2
    MaxFrames = 2
    Modes = {1, 2}
    DefaultMode = 1
    GoodCode = 1
    InputFaults = TRUE
    Codes = {0, 1}
    MaxInputs = 2
    MaxRequests = 1
    Choices = {2}
INVARIANTS TypeOK InputPrefix QualityConfirmed NoProtocolError InFlightReadable
PROPERTY FramesForward
CHECK_DEADLOCK FALSE
