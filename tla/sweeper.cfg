\* One command, two lives of the control plane, one sweep in a row may raise; an
\* INSERT may take longer than the timeout.
SPECIFICATION Spec
CONSTANTS
    Commands = {1}
    Timeout = 2
    Interval = 1
    MaxDelay = 3
    MaxFails = 1
    None = None
    MaxTime = 25
    MaxStarts = 2
INVARIANTS
    TimelyTimeout
    NeverEarly
    TypeOK
CHECK_DEADLOCK FALSE
