CONSTANTS
    c1 = c1
    c2 = c2
    n1 = n1
    n2 = n2
    Conns = {c1, c2}
    Nodes = {n1, n2}
    NodeOf <- OwnNode
    Workers = {w1}
    RedisMayFail = FALSE
    None = None
SPECIFICATION FairSpec
PROPERTY LoserLeaves
CHECK_DEADLOCK FALSE
