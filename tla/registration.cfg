\* Two agents of one new project and one with an override, two attempts each, two
\* faults, one reset.
SPECIFICATION Spec
CONSTANTS
    a1 = a1
    a2 = a2
    a3 = a3
    p = p
    Hosts = {a1, a2, a3}
    Projects = {p}
    ProjectOf <- MCTwoAndOverride
    Overridden = {a3}
    MaxAttempts = 2
    None = None
    Torn = Torn
    MaxCalls = 4
    MaxFaults = 2
    MaxResets = 1
INVARIANTS
    IdentityIsRegistered
    OneProjectPerName
    OrphansAreAccounted
    TypeOK
PROPERTIES
    EnrolmentSpec
SYMMETRY MCAgents
