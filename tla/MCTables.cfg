SPECIFICATION MCSpec
CONSTANTS
    Ctxs <- MCCtxs
    Conns <- MCConns
    CtxOf <- MCCtxOf
    NidOf <- MCNidOf
    GidOf <- MCGidOf
    RecvThdNum <- MCRecvThdNum
    Types = {"t"}
    Recvqs = {1}
    ConnqMax = 1
    RecvqMax = 1
    DistqMax = 2
    SendqMax = 1
    PipeMax = 1
    IovMax = 1
    NodeToSvrMax = 1
    BufMesgs = 2
    Bufs = {1, 2, 3, 4, 5}
    Scripts <- MCScripts
    Closing = {"b1"}
    Up = {"f1", "b1"}
    MaxTick = 2
    Sids = {s1}
    Cids = {c1, c2}
    Rids = {r1}
    Groups = {g1, g2}
    Procs = {p1, p2}
    NoGid = NoGid
    Servers = {"v1", "v2"}
    Callers = {"p1", "p2", "p3"}
    Home <- HomeSpread
    Secs = {"c1"}
    SeqSids = {"s1"}
    SecOf <- OneSection
    Gens = {"sid_gen"}
    CommitLoss = FALSE
    MaxSeq = 3100
    MaxCalls = 1
INVARIANTS CountersExact MembershipAgrees NumbersApart RoutesRight OncePerGroup BuffersHeld NoLostWakeup
PROPERTIES CleanKeepsMembers SeqNeverBack
