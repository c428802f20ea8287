SPECIFICATION InspectSpec
CONSTANTS
    None = None
    vol = vol
    other = other
    snap = snap
    copy = copy
    i1 = i1
    i2 = i2
    z1 = z1
    z2 = z2
    Type = "rbd"
    Slots = {1, 2}
    Sets <- MCSets
    Topologies <- MCTopologies
    Origin <- MCOrigin
    Snapshots <- MCSnapshots
    Plans <- MCPlans
INVARIANTS OneHandler CopiesBesideSource ConfirmedGhostsGone DriftReported
PROPERTIES ConfigConverges
CHECK_DEADLOCK FALSE
