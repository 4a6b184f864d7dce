\* One re-fetch or reprocess, or one change of a flag, the browser or a feed, and a
\* page that changes and loses its text, with a browser and nothing that fails.
SPECIFICATION FairSpec
CONSTANTS
    MaxArticle = 1
    MaxPage = 2
    MaxAttempts = 1
    Slots = 1
    RenderSlots = 1
    Batch = 1
    BrowserConfigured = TRUE
    Extractable <- FirstPage
    Ruled <- NoRule
    MaxFaults = 0
    MaxAsks = 1
    MaxFlips = 1
    MaxChanges = 1
PROPERTIES
    BrowserDrainsTheQueue
    RefetchedPageIsExtracted
\* An archive with nothing left to do stops.
CHECK_DEADLOCK FALSE
