CONSTANTS
    c1 = c1
    c2 = c2
    n1 = n1
    n2 = n2
    Conns = {c1, c2}
    Nodes = {n1, n2}
    NodeOf <- SameNode
    Workers = {w1, w2}
    RedisMayFail = TRUE
    None = None
SPECIFICATION Spec
INVARIANTS CleanRight AloneIsNotKicked
SYMMETRY Alike
CHECK_DEADLOCK FALSE
