SPECIFICATION Spec
CONSTANTS
    MaxRuns = 3
    Joining = {2}
    Retried = {"harmony_planner", "melody_planner", "critic"}
INVARIANTS FinishedAgree DirectoryIsSound
CHECK_DEADLOCK FALSE
