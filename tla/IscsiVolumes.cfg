SPECIFICATION FairSpec
CONSTANTS
    base = base
    copy = copy
    s1 = s1
    None = None
    Vol = {base, copy}
    Snap = {s1}
    Plans <- MCPlans
    SnapFrom = {base}
    ReqSize <- MCReqSize
    Pool = {base}
    MaxSize = 2
INVARIANTS AccessFollowsAttach
PROPERTIES Served Converges
CHECK_DEADLOCK FALSE
