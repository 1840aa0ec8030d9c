SPECIFICATION DisturbedSpec
CONSTANTS
    Doc = {d1}
    Payload = {p1, p2}
    Writer = {w1, w2}
    Reader = {r1}
    Migrator = {}
    None = None
INVARIANTS HistoriesStand SoundUndisturbed
PROPERTIES ImplementsRegister
SYMMETRY Symmetric
CHECK_DEADLOCK FALSE
