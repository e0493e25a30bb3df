SPECIFICATION FairSpec
CONSTANTS
    Actor = {a1, a2}
    Request = {r1, r2}
    None = None
    MaxFaults = 2
    MaxRuns = 6
CHECK_DEADLOCK FALSE
INVARIANTS
    TypeOK
    PortalIsNotAhead
    EvidenceChain
    NodeOpensLast
PROPERTIES
    GatesHold
    CommandsEnd
