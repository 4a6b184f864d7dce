CONSTANTS
    Feed = {f1, f2}
    Folder = {c1, c2}
    Name = {n1, n2}
    NoFolder = NoFolder
    NoName = NoName
    Unsubscribed = Unsubscribed
    Gone = Gone
    PageSize = 1
    FeverItemLimit = 1
    Dates <- MCDates
    Walked <- MCWalked
    MaxArticles = 3
    MaxActs = 2
SYMMETRY Interchangeable
SPECIFICATION Spec
INVARIANT TypeOK
INVARIANT NothingSkipped
INVARIANT SyncedClientHoldsUnread
PROPERTY GroupMarkStaysInGroup
CHECK_DEADLOCK FALSE
