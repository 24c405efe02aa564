SPECIFICATION SdkSpec
CONSTANTS
    Apps = {"a1", "a2"}
    Mesgs = {"m1", "m2"}
    IovMax = 2
    CmdMax = 1
    MaxConn = 2
    Scenes <- MCScenes
INVARIANTS ItemsTracked ReportedTruly
PROPERTIES NoneForgotten
CHECK_DEADLOCK FALSE
