\* Two plain images, one push and one restart, under fairness.
CONSTANTS
    c1 = c1
    c2 = c2
    c3 = c3
    v1 = v1
    v2 = v2
    None = None
    Commit = {c1, c2}
    Compose = {}
    Dockerfile = {c1, c2}
    Value = {v1}
    EnvFile <- NoFiles
    CoreValue = None
    Slot = {s1}
    MaxPushes = 1
    MaxStarts = 2
SPECIFICATION FairSpec
PROPERTIES
    Converges
    ShutdownEnds
