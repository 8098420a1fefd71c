SPECIFICATION Spec
CONSTANTS
    Paths = {p1}
    Network = {}
    Mounted = {}
    Chunk = 2
    Marker = 1
    Edits = {"append", "rewrite"}
    InitLen = 1
    MaxLen = 3
    MaxEdits = 2
    MaxForces = 1
    MaxFaults = 0
PROPERTY ForceShowsAll
CHECK_DEADLOCK FALSE
