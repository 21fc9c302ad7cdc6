\* A container of each kind, which ask for one domain, two requests at a time,
\* two addresses to be reused, and tokens of either package.
CONSTANTS
    p1 = p1
    Plain = {p1}
    Composed = {k1}
    Request = {r1, r2}
    IP = {i1, i2}
    None = None
    Domain = {d1}
    DomainsOf <- Shared
    Method = {"POST"}
    Token <- OnePerGroup
SYMMETRY Alike
SPECIFICATION GatewaySpec
INVARIANTS
    GatewayTypeOK
    LeftIsForgotten
    ConnectedIsKnown
    ServedByOwner
    OnlyAdmitted
