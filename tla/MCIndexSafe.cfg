SPECIFICATION Spec
CONSTANTS
    Paths = {p1}
    Network = {}
    Mounted = {p1}
    Chunk = 4
    Marker = 1
    Edits = {"append", "half", "rewrite", "forge", "truncate", "replace", "remove", "evidence"}
    InitLen = 3
    MaxLen = 5
    MaxEdits = 2
    MaxForces = 1
    MaxFaults = 1
INVARIANTS TypeOK FingerprintsTell LinesWhole SnapshotShowsParsed
PROPERTIES RevisionsName ForceExact
CHECK_DEADLOCK FALSE
