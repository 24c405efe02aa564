SPECIFICATION Spec
CONSTANTS
    AvlMax = 11
    RbMax = 8
    Data = {"d1", "d2", "d3", "d4"}
    Data2 = {"d1", "d2", "d3", "d4"}
    Tasks = {"a", "b", "c", "d", "e"}
    Start <- MCStart
    Interval <- MCInterval
    MaxLate = 1
    Addrs = {1, 2}
    Users = {"u1", "u2", "u3"}
    Refs = {1, 2, 3}
    Heads = {1}
    Hash <- MCHash
    NoAddr = 0
    NoRef = 0
    Pthreads = {"t1", "t2"}
    Jobs = {"j1", "j2"}
    Producers = {"p1", "p2"}
    Consumers = {"c1"}
    Slots = {1, 2}
    Width = 16
    Ahead = 13
    BatchMax = 2
    MaxTurns = 4
INVARIANTS TreesHold ListsHold TimerRight RefsKept NoLeak LocksReturned JobsApart BlocksAccounted
PROPERTIES QueuesAreFifo StartedRuns CallsReturn
