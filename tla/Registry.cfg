SPECIFICATION Spec
CONSTANTS
    c1 = c1
    c2 = c2
    s1 = s1
    v1 = v1
    v2 = v2
    NoKey = NoKey
    Calls = {c1, c2}
    Stores = {s1}
    Strategies = {v1, v2}
    Interventions = {1, 2}
    Keys <- MCKeys
    Skew = 1
    Week = 1
    Window = 1
    MaxWeeks = 1
    MaxClock = 2
    MaxTime = 2
    MaxApprovals = 1
    MaxEvents = 5
    MaxStrays = 0
SYMMETRY MCSymmetry
INVARIANTS
    TypeOK
    ReplayCoherent
    CreationGuardsHold
    AckedStaysApproved
PROPERTIES
    EndedStaysEnded
    LegalEventsAccepted
CHECK_DEADLOCK FALSE
