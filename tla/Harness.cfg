SPECIFICATION Spec
CONSTANTS
    Pieces = {"prompt", "instructions", "heading", "body"}
    Foreign = "foreign"
    AgentRuns <- AllRuns
    MaxRestarts = 2
PROPERTIES AgentKnows StageEnds
CHECK_DEADLOCK FALSE
