\* An image with a HEALTHCHECK, two containers, two versions of the data; under
\* fairness.
CONSTANTS
    None = None
    Partial = Partial
    MaxWrites = 1
    Late = TRUE
    Found <- Hosts
    Slot = {s1, s2}
    Checked = TRUE
SPECIFICATION FairSpec
INVARIANTS
    TypeOK
    OneRunning
    RouteIsUp
    RestoreAlone
    NoBackupDuringRestore
    NoResidue
PROPERTIES
    BackupsAdvance
    ImplementsTask
    TearDownEnds
