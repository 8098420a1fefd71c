SPECIFICATION FairSpec
CONSTANTS
    Paths = {p1}
    Network = {}
    Mounted = {p1}
    Chunk = 2
    Marker = 1
    Edits = {"append", "half", "truncate", "rewrite", "forge", "replace", "remove", "evidence"}
    InitLen = 3
    MaxLen = 4
    MaxEdits = 2
    MaxForces = 0
    MaxFaults = 1
PROPERTY Converges
CHECK_DEADLOCK FALSE
