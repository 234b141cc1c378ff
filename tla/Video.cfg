SPECIFICATION FairSpec
CONSTANTS
    Sizes <- OddAndEven
    keyframe_interval = 2
    Probes <- AnyProbe
    Pads = {0, 1}
    Codecs = {TRUE, FALSE}
    MayFail = TRUE
    MaxHeld = 2
    Skips = {TRUE, FALSE}
    MaxPictures = 6
    MaxQueue = 2
    MaxDelay = 1
INVARIANTS TypeOK NoArtifacts PanicOnlyMisfit
PROPERTIES ShownForward SoftwareShown
CHECK_DEADLOCK FALSE
