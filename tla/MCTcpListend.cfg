SPECIFICATION Spec
CONSTANTS
    Cids = {1, 2, 3}
    Sids = {1, 2}
    Rids = {1, 2}
    Gids = {1, 2}
    Workers = {"w1", "w2"}
    Scenes <- MCScenes
INVARIANTS SidLeadsToOne GoneLeavesNothing RoomsRight
PROPERTIES KicksEnd
CHECK_DEADLOCK FALSE
