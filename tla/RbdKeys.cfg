SPECIFICATION Spec
CONSTANTS
    base = base  copy = copy  restore = restore  s1 = s1  j1 = j1  j2 = j2
    None = None
    Vol = {base, restore, copy}
    Snap = {s1}
    Legacy = {s1}
    Job = {j1, j2}
    Plans <- MCPlans
    Source <- MCSource
    SnapOf <- MCSnapOf
    MaxKey = 3
    MaxUid = 4
SYMMETRY Jobs
INVARIANTS VolumeOpens SnapshotRestores
CHECK_DEADLOCK FALSE
