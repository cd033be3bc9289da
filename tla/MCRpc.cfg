SPECIFICATION Spec
CONSTANTS
    c1 = c1
    c2 = c2
    c3 = c3
    NoCall = NoCall
    Calls = {c1, c2, c3}
    LongCalls = {c3}
SYMMETRY ShortSymmetry
INVARIANTS TypeOK OwnAnswer ActivityTruthful GuardTruthful WaitsAreRegistered
PROPERTY ImplementsContract
CHECK_DEADLOCK FALSE
