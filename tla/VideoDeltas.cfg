SPECIFICATION FairSpec
CONSTANTS
    Sizes <- Even
    keyframe_interval = 3
    Probes <- Desktop
    Pads = {0}
    Codecs = {TRUE}
    MayFail = FALSE
    MaxHeld = 0
    Skips = {FALSE}
    MaxPictures = 3
    MaxQueue = 2
    MaxDelay = 0
PROPERTIES CapturedShown
CHECK_DEADLOCK FALSE
