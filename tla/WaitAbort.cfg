SPECIFICATION Spec
CONSTANTS
    TimeoutMs = 4
    PollMs = 2
    Latency = 1
    Horizon = 10
CHECK_DEADLOCK FALSE
PROPERTIES AbortRejects
