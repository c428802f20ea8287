SPECIFICATION Spec
CONSTANTS
    n1 = n1  n2 = n2  v1 = v1  v2 = v2  rbd0 = rbd0  nbd0 = nbd0
    None = None
    Node = {n1, n2}
    Vol = {v1}
    Dev = {rbd0, nbd0}
    NbdDev = {nbd0}
    Exclusive = {v1}
    MaxFaults = 2
    Place <- AnyNode
INVARIANT SingleWriterHealed
