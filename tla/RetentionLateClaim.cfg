SPECIFICATION Spec
CONSTANTS
    ann = ann
    bob = bob
    a1 = a1
    Reader <- Household
    Article <- OneArticle
    Retaining <- Household
    MaxActs = 1
    MaxFaults = 0
PROPERTIES
    NothingClaimedIsReleased
CHECK_DEADLOCK FALSE
