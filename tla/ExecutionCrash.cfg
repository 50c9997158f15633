SPECIFICATION Spec
CONSTANTS
    c1 = c1
    c2 = c2
    c3 = c3
    extend = extend
    monitor = monitor
    s1 = s1
    NoRec = NoRec
    NoHandle = NoHandle
    NoOne = NoOne
    Stores = {s1}
    Actions = {extend, monitor}
    GatedActions = {extend}
    Calls = {c1, c2, c3}
    MaxApprovals = 2
    MaxRestarts = 1
SYMMETRY MCSymmetry
INVARIANTS
    TypeOK
    EffectsWitnessed
    ReversedOnce
PROPERTIES
    ImplementsRecord
CHECK_DEADLOCK FALSE
