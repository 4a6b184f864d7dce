CONSTANTS
    art = art
    r1 = r1  r2 = r2
    site = site  blog = blog
    k1 = k1  k2 = k2
    Article = {art}
    Reader = {r1, r2}
    Household = Household
    Admin = {r1}
    Domain = {site, blog}
    Under <- MCUnder
    Length <- MCLength
    Key = {k1, k2}
    NoKey = NoKey
    NoRule = NoRule
    Page <- MCPage
    File <- MCFile
    Stock <- MCStock
    MaxActs = 2
    MaxFaults = 1
SPECIFICATION Spec
INVARIANT TypeOK
INVARIANT CopiesAreAskedFor
PROPERTY ReaderViewed
PROPERTY RuleReachesItsPages
CHECK_DEADLOCK FALSE
