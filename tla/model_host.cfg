\* Three calls that may overlap, and a keep-alive of three ticks.
SPECIFICATION FairSpec
CONSTANTS
    c1 = c1
    c2 = c2
    c3 = c3
    Callers = {c1, c2, c3}
    Detector = Detector
    KeepAlive = 3
INVARIANTS
    HostInv
    NeverUnloadedInUse
PROPERTIES
    HostImplementsUse
    CallsEnd
    IdleIsUnloaded
