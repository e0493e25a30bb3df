SPECIFICATION FairSpec
CONSTANTS
    Owner = {o1}
    Active = {o1}
    Key = {k1, k2}
    Rec = {1, 2}
    Limit = 5
    MaxLease = 1
    MaxFaults = 1
CHECK_DEADLOCK FALSE
PROPERTY
    ExpiryRecycles
