SPECIFICATION Spec
CONSTANTS
    s1 = s1  s2 = s2  d1 = d1  d2 = d2  c1 = c1  c2 = c2
    Sources <- TwoSources
    Network <- NetworkTwo
    Homes <- TwoHomes
    InitHomes <- Both
    Devices = {d1}
    Clients = {c1}
    Ops = {"import", "delete", "sources", "shutdown"}
    Apart = {}
    Edits = {"log", "write", "remove"}
    QueueCap = 2
    MaxEdits = 1
    MaxCalls = 2
    MaxFaults = 1
INVARIANTS TypeOK AckedVisible StatusNeverAhead EventKeepsUp RecordDescribesService
PROPERTY PublishesForward
CHECK_DEADLOCK FALSE
