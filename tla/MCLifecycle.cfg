SPECIFICATION FairSpec
CONSTANTS
    c1 = c1  c2 = c2  v1 = v1  v2 = v2
    Clients = {c1, c2}
    Desktops = {c1}
    Pids = {p1, p2}
    Variants = {v1, v2}
    Wants <- OneEach
    MaxFaults = 1
    NoOne = NoOne
INVARIANT TypeOK
PROPERTIES RecordHolder EnsureExact StopReleases OwnedEnd Served
CHECK_DEADLOCK FALSE
