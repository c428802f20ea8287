SPECIFICATION NodeFairSpec
CONSTANTS
    a = a  b = b  t1 = t1  t2 = t2  Nil = Nil
    Disk = {a, b}
    Tgt = {t1, t2}
    Setups <- MCSetups
    MaxLun = 1
INVARIANTS LunsUnique NoSessionLeft
PROPERTIES DetachVerified DrainCompletes
