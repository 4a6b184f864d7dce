SPECIFICATION FairSpec
CONSTANTS
    ann = ann
    bob = bob
    a1 = a1
    Reader <- Household
    Article <- OneArticle
    Retaining <- Household
    MaxActs = 3
    MaxFaults = 1
INVARIANTS
    TypeOK
    TombstoneHoldsNothing
    NothingIsStranded
PROPERTIES
    ReleasedWhenLetGo
    FinishedIsReleased
CHECK_DEADLOCK FALSE
