\* Two agents that create one project, two attempts each, two faults.
SPECIFICATION FairSpec
CONSTANTS
    a1 = a1
    a2 = a2
    a3 = a3
    p = p
    Hosts = {a1, a2}
    Projects = {p}
    ProjectOf <- MCOneProject
    Overridden = {}
    MaxAttempts = 2
    None = None
    Torn = Torn
    MaxCalls = 4
    MaxFaults = 2
    MaxResets = 0
PROPERTIES
    EveryAgentComesUp
