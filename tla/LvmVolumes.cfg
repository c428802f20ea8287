SPECIFICATION Spec
CONSTANTS
    base = base
    copy = copy
    s1 = s1
    None = None
    Vol = {base, copy}
    Snap = {s1}
    Sources <- MCSources
    SnapFrom = {base, copy}
    ReqSize <- MCReqSize
    Pool = {base}
    ReadOnly = {}
    MaxSize = 2
    MaxFaults = 1
INVARIANTS SnapshotsListed StagedFills
PROPERTIES Served DataSurvives
CHECK_DEADLOCK FALSE
