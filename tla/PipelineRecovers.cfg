\* One shutdown, crash, deadline or failed call, at any step.
SPECIFICATION FairSpec
CONSTANTS
    MaxArticle = 1
    MaxPage = 1
    MaxAttempts = 2
    Slots = 1
    RenderSlots = 1
    Batch = 1
    BrowserConfigured = TRUE
    Extractable <- FirstPage
    Ruled <- EveryHost
    MaxFaults = 1
    MaxAsks = 0
    MaxFlips = 0
    MaxChanges = 0
INVARIANTS
    StoredPageIsReadable
    SettledForItsOwnReason
PROPERTIES
    WaitingIsVisible
    PendingAssetsSettle
    RuledPageIsExtracted
\* An archive with nothing left to do stops.
CHECK_DEADLOCK FALSE
