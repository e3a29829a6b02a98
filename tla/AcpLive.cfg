SPECIFICATION FairAgentSpec
CONSTANTS
    Calls = {c1}
    Ops = {"new", "list", "load", "prompt"}
    Sessions = {s1}
    NoSession = NoSession
    Watchers = {}
    PageCap = 2
    NodeSocket = TRUE
    HasHandler = FALSE
    Blobs = FALSE
    OneTurn = TRUE
    Faults = {"error", "drop", "dead", "refuse"}
    MaxUpdates = 0
    MaxAsks = 1
    MaxCancels = 0
CHECK_DEADLOCK FALSE
INVARIANTS FailedConnectLetsGo
PROPERTIES DeadLinkNoticed EveryCallReturns
