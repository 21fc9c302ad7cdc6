\* A container of each kind and two requests that contend for the lock, under
\* fairness.
CONSTANTS
    Plain = {p1}
    Composed = {k1}
    Request = {r1, r2}
    IP = {i1}
    None = None
VIEW WithoutHistory
SPECIFICATION FairSpec
PROPERTIES
    ResolveReturns
    InvalidationDone
