SPECIFICATION Spec
CONSTANTS
    c1 = c1
    c2 = c2
    extend = extend
    s1 = s1
    NoRec = NoRec
    NoHandle = NoHandle
    NoOne = NoOne
    Stores = {s1}
    Actions = {extend}
    GatedActions = {extend}
    Calls = {c1, c2}
    MaxApprovals = 1
    MaxRestarts = 0
INVARIANTS
    NeverDoubleApplied
CHECK_DEADLOCK FALSE
