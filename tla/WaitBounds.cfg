SPECIFICATION FairSpec
CONSTANTS
    TimeoutMs = 5
    PollMs = 2
    Latency = 2
    Horizon = 12
CHECK_DEADLOCK FALSE
INVARIANTS BoundedOverrun AbortHeard ListenersReleased TimeoutIsTrue
PROPERTIES WaitEnds
