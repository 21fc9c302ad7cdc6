\* A container of each kind and one request at a time.
CONSTANTS
    Plain = {p1}
    Composed = {k1}
    Request = {r1}
    IP = {i1, i2}
    None = None
SPECIFICATION Spec
INVARIANTS
    StartedIsResolved
