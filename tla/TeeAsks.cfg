SPECIFICATION Spec
CONSTANTS
    Viewers = {v1, v2}
    Variant = "early"
    AskRun = TRUE
    Transcript <- Played
    Patient = {}
    MaxTicks = 0
    MaxSteers = 1
    MaxCancels = 1
CHECK_DEADLOCK FALSE
SYMMETRY Interchangeable
INVARIANTS PausedWhileAsking EveryViewerAsked ResolvedOnce ScriptAskedOnce EndedHoldsNothing LadderInStep
PROPERTIES TurnSpec
