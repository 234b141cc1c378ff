SPECIFICATION MonitorFairSpec
CONSTANTS
    Delays = {33}
    StartAges = {0}
    CaptureInterval = 33
    MaxWait = 0
    MaxPending = 1
    KeyFrames = {TRUE}
    Cooldown = 66
    AgeCap = 198
    MaxAcks = 1
    MayForce = {}
    max_samples = 2
    LossSamples = 2
    FrameBytes = {50000}
    AckDelays = {5}
PROPERTY StreamGoesOn
