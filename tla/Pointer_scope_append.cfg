CONSTANTS
    Addresses = {m1, m2}
    Plain = {b1}
    Shared = {x1, x2, k1, k2}
    Cells = {k1, k2}
    Pointers = {p1, p2}
    Data = {d1, d2}
    MaxLen = 2
    MaxScopes = 2
    MovesInScope = TRUE
    Null = Null
SPECIFICATION Spec
SYMMETRY Symmetry
INVARIANT BlocksAreOwned
