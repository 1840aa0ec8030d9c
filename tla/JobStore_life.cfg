SPECIFICATION ClientsSpec
CONSTANTS
    Worker = {t1, t2}
    Client = {c1, c2}
    Stages = 1
    MaxRetries = 1
    MaxRestarts = 1
    None = None
INVARIANTS OneThreadPerStall ActiveIsWorkedOn FileFollowsJob CancelStops
PROPERTIES JobSettles RunningEnds
CHECK_DEADLOCK FALSE
