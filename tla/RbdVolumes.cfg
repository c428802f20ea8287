SPECIFICATION Spec
CONSTANTS
    base = base
    restore = restore
    copy = copy
    s1 = s1
    None = None
    Vol = {base, restore, copy, adm}
    Snap = {s1}
    Static = {adm}
    SrcVol <- MCSrcVol
    SrcSnap <- MCSrcSnap
    SnapFrom <- TwoSources
    ReqSize <- MCReqSize
    DepthLimit = 1
    MaxSize = 2
    MaxFaults = 1
INVARIANTS AckedVolumeServes StaticNeverReaped NoTmpSnapLeft AckedSnapshotLive SnapNameUnique
CHECK_DEADLOCK FALSE
