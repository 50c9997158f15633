SPECIFICATION SteadySpec
CONSTANTS
    s1 = s1
    r1 = r1
    r2 = r2
    w1 = w1
    w2 = w2
    k1 = k1
    NoRow = NoRow
    NoOne = NoOne
    Stores = {s1}
    Requests = {r1, r2}
    Sweeps = {w1, w2}
    Workers = {k1}
    Contents <- MCContents
    RuleSets <- MCOneRuleSet
    Wipes <- MCNothing
    MaxRestarts = 0
INVARIANTS
    AckedDecisionHeld
PROPERTIES
    AckedDecisionSettles
    LateCallsHearTruth
CHECK_DEADLOCK FALSE
