SPECIFICATION FairSpec
CONSTANTS
    Periods = {"ever", "day"}
    Filters = {"any", "some"}
    Past = {"day"}
    Rows <- MCRows
    CacheSize = 2
    PublicationLimit = 2
    OtherLimit = 2
    PageSize = 1
    MaxPage = 2
    ActLimit = 2
    LossLimit = 1
    EarlyLimit = 1
    Dashboards = {"tab", "tablet"}
    Desktops = {"app"}
    JobLimit = 2
INVARIANTS ShownWhole DetailMatches ExportWhole
PROPERTIES NeverBack Settles ExportsEnd
CHECK_DEADLOCK FALSE
