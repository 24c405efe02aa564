SPECIFICATION Spec
CONSTANTS
    Lsvrs = {"l1", "l2"}
    MaxCid = 2
    MaxRsvrs = 2
    ConnqMax = 1
    SendqMax = 1
    KickqMax = 2
    PipeMax = 1
    MaxTick = 2
    Scenes <- MCScenes
INVARIANTS NothingDangles StreamsWhole
PROPERTIES NoneForgotten
CHECK_DEADLOCK FALSE
