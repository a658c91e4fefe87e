\* One worker whose agent runs in override mode, one command, no fault.
SPECIFICATION Spec
CONSTANTS
    w1 = w1
    w2 = w2
    t1 = t1
    t2 = t2
    Instances = {w1}
    Tokens = {t1}
    NoToken = NoToken
    RowToken <- MCOneRow
    AgentToken <- MCOneOverride
    Control = Control
    MaxCommands = 1
    MaxFaults = 0
    FlipMayFail = TRUE
PROPERTIES
    ReceivedIsRun
CHECK_DEADLOCK FALSE
