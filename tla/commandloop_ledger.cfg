\* One worker, two commands, three faults that never separate the two UPDATEs of a report.
SPECIFICATION Spec
CONSTANTS
    w1 = w1
    w2 = w2
    t1 = t1
    t2 = t2
    Instances = {w1}
    Tokens = {t1}
    NoToken = NoToken
    RowToken <- MCOneRow
    AgentToken <- MCOneRow
    Control = Control
    MaxCommands = 2
    MaxFaults = 3
    FlipMayFail = FALSE
INVARIANTS
    WorkloadMatchesWorker
    CompletedCommandFlips
PROPERTIES
    LedgerSpec
CHECK_DEADLOCK FALSE
