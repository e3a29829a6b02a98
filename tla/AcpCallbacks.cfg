SPECIFICATION Spec
CONSTANTS
    Calls = {c1}
    Ops = {"new"}
    Sessions = {s1}
    NoSession = NoSession
    Watchers = {w1, w2}
    PageCap = 2
    NodeSocket = TRUE
    HasHandler = TRUE
    Blobs = FALSE
    OneTurn = TRUE
    Faults = {"error", "dead"}
    MaxUpdates = 2
    MaxAsks = 1
    MaxCancels = 1
CHECK_DEADLOCK FALSE
SYMMETRY Interchangeable
INVARIANTS OneReply WatchersTold UpdatesInOrder ClosedHoldsNothing
PROPERTIES QuietAfterClose ExplicitCloseIsSilent
