\* A composition, a plain image and a commit without packaging; two restarts.
CONSTANTS
    c1 = c1
    c2 = c2
    c3 = c3
    v1 = v1
    v2 = v2
    None = None
    Commit = {c1, c2, c3}
    Compose = {c1}
    Dockerfile = {c2}
    Value = {v1, v2}
    EnvFile <- Files
    CoreValue = None
    Slot = {s1, s2}
    MaxPushes = 2
    MaxStarts = 3
SYMMETRY Tasks
SPECIFICATION Spec
INVARIANTS
    SinglePackage
    NoLostUpdate
    NoOrphan
PROPERTIES
    UsesTask
