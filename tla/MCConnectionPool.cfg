SPECIFICATION Spec
CONSTANTS
    u1 = u1
    u2 = u2
    u3 = u3
    n1 = n1
    n2 = n2
    n3 = n3
    None = None
    Users = {u1, u2, u3}
    Keepers = {u1}
    Queries = {n1, n2, n3}
    MaxDrops = 1
INVARIANTS NotShared PoolIsBounded OpenIsKnown
PROPERTY OpenEnds
