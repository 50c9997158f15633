SPECIFICATION SteadySpec
CONSTANTS
    c1 = c1
    c2 = c2
    c3 = c3
    extend = extend
    pause = pause
    s1 = s1
    NoRec = NoRec
    NoHandle = NoHandle
    NoOne = NoOne
    Stores = {s1}
    Actions = {extend, pause}
    GatedActions = {extend, pause}
    Calls = {c1, c2, c3}
    MaxApprovals = 2
    MaxRestarts = 0
INVARIANTS
    JournalMatchesWorld
PROPERTIES
    CallsAnswered
CHECK_DEADLOCK FALSE
