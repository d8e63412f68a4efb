SPECIFICATION FairSpec
CONSTANTS
    shoes = shoes
    boots = boots
    careers = careers
    s1 = s1
    s2 = s2
    Starts = {s1, s2}
    MaxCancels = 1
    Retries = 1
    Pages = {shoes, boots, careers}
    Seed = shoes
    Sitemap <- MCSitemap
    Links <- MCLinks
    Landing <- MCLanding
    Role <- MCRole
    Plain = {shoes, careers}
    MaxPages = 2
    MaxDepth = 2
INVARIANTS TypeOK RolesShareTheBudget ReportIsBacked
PROPERTY RunningEnds
CHECK_DEADLOCK FALSE
