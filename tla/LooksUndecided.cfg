SPECIFICATION Spec
CONSTANTS
    s1 = s1
    r1 = r1
    w1 = w1
    w2 = w2
    k1 = k1
    NoRow = NoRow
    NoOne = NoOne
    Stores = {s1}
    Requests = {r1}
    Sweeps = {w1, w2}
    Workers = {k1}
    Contents <- MCTwoContents
    RuleSets <- MCOneRuleSet
    Wipes <- MCNothing
    MaxRestarts = 0
INVARIANTS
    DecidedStoreLooksDecided
CHECK_DEADLOCK FALSE
