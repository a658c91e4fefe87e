\* The default settings, 10 s and 30 s, in units of 2.5 s: what they tolerate exactly.
SPECIFICATION Spec
CONSTANTS
    Interval = 4
    StaleAfter = 12
    Jitter = 1
    MaxDelay = 2
    MaxLost = 1
    MaxTime = 32
    MaxStarts = 2
    None = None
INVARIANTS
    NoFalseOffline
    NewAgentIsSeen
    DeathIsNoticed
    TypeOK
CHECK_DEADLOCK FALSE
