SPECIFICATION Spec
CONSTANTS
    s1 = s1  s2 = s2  d1 = d1  d2 = d2  c1 = c1  c2 = c2
    Sources <- TwoSources
    Network <- NetworkTwo
    Homes <- OneHome
    InitHomes <- Both
    Devices = {d1}
    Clients = {c1}
    Ops = {"refresh"}
    Apart = {}
    Edits = {"log"}
    QueueCap = 2
    MaxEdits = 1
    MaxCalls = 1
    MaxFaults = 1
INVARIANT AckedVisible
CHECK_DEADLOCK FALSE
