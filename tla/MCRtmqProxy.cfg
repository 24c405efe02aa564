SPECIFICATION ProxySpec
CONSTANTS
    Tsvrs = {"t1", "t2"}
    SendThdNum = 1
    WorkThdNum = 2
    Types = {"u"}
    Out <- MCOut
    In = {"x", "y"}
    TypeOf <- MCTypeOf
    SendqMax = 2
    PipeMax = 1
    IovMax = 3
    RecvqMax = 1
    WorkPipeMax = 1
    InboxMax = 1
    Scenes <- MCScenes
INVARIANTS ConnFresh NothingLost
PROPERTIES EverySent
CHECK_DEADLOCK FALSE
