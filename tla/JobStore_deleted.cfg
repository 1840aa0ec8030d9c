SPECIFICATION Spec
CONSTANTS
    Worker = {t1, t2}
    Client = {c1}
    Stages = 1
    MaxRetries = 1
    MaxRestarts = 0
    None = None
PROPERTIES DeletedStaysDeleted
CHECK_DEADLOCK FALSE
