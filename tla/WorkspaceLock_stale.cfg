SPECIFICATION Spec
CONSTANTS
    p1 = p1  p2 = p2  p3 = p3
    t1 = t1  t2 = t2  t3 = t3
    k1 = k1  k2 = k2  k3 = k3
    None = None
    Proc = {p1, p2, p3}
    Thread = {t1, t2, t3}
    procOf <- ThreeProcs
    Token = {k1, k2, k3}
    MaxDepth = 1
    Faults = {"crash"}
SYMMETRY TokenSymmetry
INVARIANT MutualExclusion
CHECK_DEADLOCK FALSE
