\* Two compositions with different .env files.
CONSTANTS
    c1 = c1
    c2 = c2
    c3 = c3
    v1 = v1
    v2 = v2
    None = None
    Commit = {c1, c2}
    Compose = {c1, c2}
    Dockerfile = {}
    Value = {v1, v2}
    EnvFile <- Files
    CoreValue = None
    Slot = {s1}
    MaxPushes = 1
    MaxStarts = 1
SPECIFICATION Spec
INVARIANTS
    EnvironmentOfCommit
