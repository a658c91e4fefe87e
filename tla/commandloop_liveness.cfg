\* One worker, two commands, one fault of any kind, fair control plane.
SPECIFICATION FairSpec
CONSTANTS
    w1 = w1
    w2 = w2
    t1 = t1
    t2 = t2
    Instances = {w1}
    Tokens = {t1}
    NoToken = NoToken
    RowToken <- MCOneRow
    AgentToken <- MCOneRow
    Control = Control
    MaxCommands = 2
    MaxFaults = 1
    FlipMayFail = TRUE
PROPERTIES
    EveryCommandSettles
    EveryRequestIsAnswered
CHECK_DEADLOCK FALSE
