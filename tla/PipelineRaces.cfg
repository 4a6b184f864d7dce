\* Two default workers and a browser, one re-fetch or reprocess, one change of a
\* flag, a feed or the browser, and nothing that fails.
SPECIFICATION Spec
CONSTANTS
    MaxArticle = 1
    MaxPage = 1
    MaxAttempts = 1
    Slots = 2
    RenderSlots = 1
    Batch = 1
    BrowserConfigured = TRUE
    Extractable <- FirstPage
    Ruled <- NoRule
    MaxFaults = 0
    MaxAsks = 1
    MaxFlips = 1
    MaxChanges = 2
INVARIANTS
    TypeOK
    SettledForItsOwnReason
    FetchedArticleIsReadable
    BodyIsLocalized
\* An archive with nothing left to do stops.
CHECK_DEADLOCK FALSE
