SPECIFICATION Spec
CONSTANTS
    base = base
    copy = copy
    s1 = s1
    None = None
    Vol = {base, copy}
    Snap = {s1}
    Plans <- MCPlans
    SnapFrom = {base, copy}
    ReadOnly = {base}
    MaxFaults = 2
INVARIANTS KubeletToldTrue
PROPERTIES Served
CHECK_DEADLOCK FALSE
