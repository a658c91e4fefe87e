\* Two workers (one in override mode), two commands, any two faults.
SPECIFICATION Spec
CONSTANTS
    w1 = w1
    w2 = w2
    t1 = t1
    t2 = t2
    Instances = {w1, w2}
    Tokens = {t1, t2}
    NoToken = NoToken
    RowToken <- MCTwoRows
    AgentToken <- MCOverrideAgent
    Control = Control
    MaxCommands = 2
    MaxFaults = 2
    FlipMayFail = TRUE
INVARIANTS
    TypeOK
    PublishedIsPersisted
    OutcomeJustified
    NoListenersIsDefinitive
    NoReportLost
    OnlyCompletionsMoveWorkload
PROPERTIES
    TerminalIsTerminal
    ExecutedAtMostOnce
CHECK_DEADLOCK FALSE
