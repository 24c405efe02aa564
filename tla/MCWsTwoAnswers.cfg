CONSTANTS
    Sids = {1, 2}
    Cids = {1, 2}
    Workers = {w1, w2}
    ClientSids <- TwoSids
SPECIFICATION MCSpec
INVARIANT OldIsKicked
