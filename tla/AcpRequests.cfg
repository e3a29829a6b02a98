SPECIFICATION Spec
CONSTANTS
    Calls = {c1, c2}
    Ops = {"new", "list", "load", "prompt"}
    Sessions = {s1, s2}
    NoSession = NoSession
    Watchers = {}
    PageCap = 2
    NodeSocket = FALSE
    HasHandler = TRUE
    Blobs = TRUE
    OneTurn = FALSE
    Faults = {"drop", "refuse", "repeat"}
    MaxUpdates = 0
    MaxAsks = 0
    MaxCancels = 0
CHECK_DEADLOCK FALSE
SYMMETRY Interchangeable
INVARIANTS PendingMap Correlated SessionLives ListStopsAtCap
PROPERTIES RpcSpec
