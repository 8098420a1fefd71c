SPECIFICATION Spec
CONSTANTS
    s1 = s1  s2 = s2  d1 = d1  d2 = d2  c1 = c1  c2 = c2
    Sources <- TwoSources
    Network <- NetworkTwo
    Homes <- TwoHomes
    InitHomes <- Both
    Devices = {d1}
    Clients = {c1, c2}
    Ops = {"refresh", "import", "rename", "delete", "sources", "polling"}
    Apart <- DeleteFirst
    Edits = {"log", "write"}
    QueueCap = 2
    MaxEdits = 1
    MaxCalls = 3
    MaxFaults = 0
INVARIANTS AckedVisible NothingUnpublished
PROPERTY IndexKeeps
CHECK_DEADLOCK FALSE
