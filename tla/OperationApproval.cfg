SPECIFICATION FairSpec
CONSTANTS
    Actor = {a1, a2, a3}
    Key = {k1, k2}
    Gated = {k2}
    MaxFaults = 1
    MaxRuns = 5
CHECK_DEADLOCK FALSE
INVARIANTS
    TypeOK
    EachRunHasItsApproval
    DecisionsExplainStatus
PROPERTIES
    QueuedEnds
