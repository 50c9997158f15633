SPECIFICATION Spec
CONSTANTS
    s1 = s1
    r1 = r1
    r2 = r2
    w1 = w1
    w2 = w2
    k1 = k1
    k2 = k2
    NoRow = NoRow
    NoOne = NoOne
    Stores = {s1}
    Requests = {r1, r2}
    Sweeps = {w1, w2}
    Workers = {k1, k2}
    Contents <- MCOneContent
    RuleSets <- MCRuleSets
    Wipes <- MCTable
    MaxRestarts = 1
SYMMETRY MCSymmetry
INVARIANTS
    TypeOK
    LedgerBackedByLog
    DecidedRowOnRecord
    OneDecisionPerOffer
PROPERTIES
    ImplementsAudit
    DecidedRowNeverReplaced
    StartUpRestores
    DecisionsPassCurrentGate
CHECK_DEADLOCK FALSE
