SPECIFICATION Spec
CONSTANTS
    old = old
    new = new
    page = page
    MaxFeed = 1
    Address <- Addresses
    Page <- Pages
    Advertised <- Discovered
    Entry = {1, 2}
    Link <- Links
    Served <- AtFirst
    Hint <- Declared
    Min = 2
    Max = 3
    Never = 6
    PollFloor = 1
    DisableAfter = 2
    Cadence = {1, 4}
    MaxLive = 1
    MaxEdits = 3
    MaxFaults = 1
INVARIANTS
    TypeOK
    ValidatorsMeanIngested
    CadenceHonoured
    FailingIsAskedLess
PROPERTIES
    PublishedIsStored
CHECK_DEADLOCK FALSE
