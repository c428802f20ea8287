SPECIFICATION FairSpec
CONSTANTS
    A = A
    B = B
    n1 = n1
    n2 = n2
    i1 = i1
    i2 = i2
    i3 = i3
    Site = {A, B}
    Home = A
    Nodes = {n1, n2}
    Plans <- MCPlans
    Group = {g1, g2}
    Image = {i1, i2, i3}
    Instance = "x"
    InstanceOf <- MCInstanceOf
    MaxGroupCalls = 3
    MaxGroupFaults = 1
    Untold = Untold
INVARIANTS OneWritableSite RelocationKeepsWrites GroupReplyTrue
PROPERTIES Replicates EnableConverges
CHECK_DEADLOCK FALSE
