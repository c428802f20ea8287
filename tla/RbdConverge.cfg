SPECIFICATION FairSpec
CONSTANTS
    base = base
    restore = restore
    copy = copy
    s1 = s1
    None = None
    Vol = {base, restore, copy}
    Snap = {s1}
    Static = {}
    SrcVol <- MCSrcVol
    SrcSnap <- MCSrcSnap
    SnapFrom <- MCSnapFrom
    ReqSize <- MCReqSize
    DepthLimit = 1
    MaxSize = 1
    MaxFaults = 1
PROPERTIES CreatesConverge DeletesConverge Served
CHECK_DEADLOCK FALSE
