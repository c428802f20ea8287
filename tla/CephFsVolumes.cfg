SPECIFICATION FairSpec
CONSTANTS
    base = base
    copy = copy
    s1 = s1
    None = None
    Vol = {base, copy}
    Snap = {s1}
    Plans <- MCPlans
    SnapFrom = {base}
    ReqSize <- MCReqSize
    ReadOnly = {}
    MaxSize = 2
    MaxFaults = 2
INVARIANTS StagedKeyed NoKeyLeft
PROPERTIES Served DeletesComplete
CHECK_DEADLOCK FALSE
