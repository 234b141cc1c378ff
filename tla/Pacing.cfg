SPECIFICATION MonitorSpec
CONSTANTS
    Delays = {33}
    StartAges = {0}
    CaptureInterval = 33
    MaxWait = 33
    MaxPending = 2
    KeyFrames = {TRUE, FALSE}
    Cooldown = 66
    AgeCap = 132
    MaxAcks = 1
    MayForce = {"Ultra", "Minimal"}
    max_samples = 2
    LossSamples = 2
    FrameBytes = {50000, 1000000}
    AckDelays <- MCAckDelays
INVARIANTS TypeOK RateLimited
PROPERTIES SkipsNeedJitter ImplementsPacing PromptKeepsQuality
