SPECIFICATION Spec
CONSTANTS
    b1 = b1
    b2 = b2
    sh = sh
    Browser <- Browsers
    Shell <- Shells
    MaxUser = 3
    MaxName = 2
    MaxPassword = 2
    MaxLink = 2
    ConfiguredPassword = 1
    SessionKeyConfigured = FALSE
    MaxActs = 4
INVARIANTS
    TypeOK
    AdmittedKnowsThePassword
    KeyFollowsNameAndPassword
PROPERTIES
    DeployIsQuiet
    LinkSetsOnePassword
SYMMETRY Alike
CHECK_DEADLOCK FALSE
