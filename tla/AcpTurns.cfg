SPECIFICATION Spec
CONSTANTS
    Calls = {c1, c2, c3}
    Ops = {"load", "prompt"}
    Sessions = {s1, s2}
    NoSession = NoSession
    Watchers = {}
    PageCap = 2
    NodeSocket = FALSE
    HasHandler = TRUE
    Blobs = FALSE
    OneTurn = TRUE
    Faults = {"drop", "refuse"}
    MaxUpdates = 0
    MaxAsks = 0
    MaxCancels = 1
CHECK_DEADLOCK FALSE
SYMMETRY Interchangeable
INVARIANTS TurnVisible
PROPERTIES CancelReachesTurn
