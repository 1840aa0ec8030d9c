SPECIFICATION SystemSpec
CONSTANTS
    Doc = {d1, d2}
    Payload = {p1, p2}
    Writer = {w1}
    Reader = {r1}
    Migrator = {m1}
    None = None
INVARIANTS Restartable
CHECK_DEADLOCK FALSE
