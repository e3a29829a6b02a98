SPECIFICATION FairSpec
CONSTANTS
    Viewers = {v1, v2}
    Variant = "early"
    AskRun = TRUE
    Transcript <- Endless
    Patient = {v1}
    MaxTicks = 2
    MaxSteers = 1
    MaxCancels = 0
CHECK_DEADLOCK FALSE
PROPERTIES StreamGoesOn
