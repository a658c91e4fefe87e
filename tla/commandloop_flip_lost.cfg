\* One worker, one command, one fault that may separate the two UPDATEs.
SPECIFICATION Spec
CONSTANTS
    w1 = w1
    w2 = w2
    t1 = t1
    t2 = t2
    Instances = {w1}
    Tokens = {t1}
    NoToken = NoToken
    RowToken <- MCOneRow
    AgentToken <- MCOneRow
    Control = Control
    MaxCommands = 1
    MaxFaults = 1
    FlipMayFail = TRUE
INVARIANTS
    CompletedCommandFlips
CHECK_DEADLOCK FALSE
