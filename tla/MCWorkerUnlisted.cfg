SPECIFICATION Spec
CONSTANTS
    s1 = s1  s2 = s2  d1 = d1  d2 = d2  c1 = c1  c2 = c2
    Sources <- TwoSources
    Network <- NetworkTwo
    Homes <- OneHome
    InitHomes <- Both
    Devices = {d1}
    Clients = {c1}
    Ops = {"refresh"}
    Apart = {}
    Edits = {"log"}
    QueueCap = 1
    MaxEdits = 0
    MaxCalls = 0
    MaxFaults = 1
PROPERTY IndexKeeps
CHECK_DEADLOCK FALSE
