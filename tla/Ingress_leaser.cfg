\* The refusal names the requester, not the leaser.
CONSTANTS
    p1 = p1
    p2 = p2
    p3 = p3
    g1 = g1
    g2 = g2
    None = None
    Client = {p1, p2}
    Group = {g1, g2}
    Domain = {d1, d2}
    Addresses = {a1}
    GroupOf <- TwoNames
SPECIFICATION Spec
INVARIANTS
    LeaserNamed
