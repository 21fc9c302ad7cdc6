\* Two repositories, a composition and an image, every combination of flags,
\* under fairness.
CONSTANTS
    None = None
    Repo = {r1, r2}
    Project <- Projects
SPECIFICATION FairSpec
CHECK_DEADLOCK FALSE
INVARIANTS
    ReadyIsRegistered
    AskedOnce
    NoneAbandoned
    LinksAsDocumented
PROPERTIES
    AllForOne
