\* Three packages; two share a name, so that Set also replaces live leases,
\* and one has a name of its own; under fair scheduling.
CONSTANTS
    p1 = p1
    p2 = p2
    p3 = p3
    g1 = g1
    g2 = g2
    None = None
    Client = {p1, p2, p3}
    Group = {g1, g2}
    Domain = {d1, d2}
    Addresses = {a1}
    GroupOf <- CollidingNames
SPECIFICATION FairSpec
INVARIANTS
    TypeOK
    LeaseIndex
    HolderIsRouted
    NoDanglingRoute
PROPERTIES
    OnlyOwnerChanges
    ImplementsRoutingTable
    CallsReturn
