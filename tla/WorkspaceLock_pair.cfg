SPECIFICATION FairSpec
CONSTANTS
    p1 = p1  p2 = p2  p3 = p3
    t1 = t1  t2 = t2  t3 = t3
    k1 = k1  k2 = k2  k3 = k3
    None = None
    Proc = {p1, p2}
    Thread = {t1, t2}
    procOf <- OneEach
    Token = {k1, k2}
    MaxDepth = 2
    Faults = {"crash", "writeFails", "unlinkFails", "recover"}
PROPERTIES ImplementsExclusiveLock AttemptEnds
CHECK_DEADLOCK FALSE
