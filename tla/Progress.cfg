SPECIFICATION FairSpec
CONSTANTS
    MaxConn = 1
    Window = 2
    MaxFrames = 1
    Modes = {1}
    DefaultMode = 1
    GoodCode = 1
    InputFaults = TRUE
    Codes = {0, 1}
    MaxInputs = 2
    MaxRequests = 0
    Choices = {}
PROPERTIES ConnectAnswered ServerEndShown HandlersEnd InputsApplied
CHECK_DEADLOCK FALSE
