\* A service with a port and one without, a provider that shows an archive at
\* once; under fairness.
CONSTANTS
    None = None
    Partial = Partial
    MaxWrites = 1
    Late = FALSE
    Found <- NewHost
    Container = {web, db}
    Published = {web}
SPECIFICATION FairSpec
INVARIANTS
    TypeOK
    RouteIsUp
    NoBackupDuringRestore
    NoResidue
PROPERTIES
    ImplementsTask
    TearDownEnds
