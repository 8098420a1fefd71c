SPECIFICATION FairSpec
CONSTANTS
    s1 = s1  s2 = s2  d1 = d1  d2 = d2  c1 = c1  c2 = c2
    Sources <- OneSource
    Network <- OneSource
    Homes <- SmallHome
    InitHomes <- OneSource
    Devices = {d1}
    Clients = {c1}
    Ops = {"refresh", "shutdown"}
    Apart = {}
    Edits = {"log", "write"}
    QueueCap = 1
    MaxEdits = 1
    MaxCalls = 2
    MaxFaults = 1
PROPERTIES Answered Terminates Converges
CHECK_DEADLOCK FALSE
