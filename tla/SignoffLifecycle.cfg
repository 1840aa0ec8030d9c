SPECIFICATION Spec
CONSTANTS
    Client = {c1, c2}
    Request = {r1, r2}
    Source = {s1}
    MaxSignoffs = 2
    MaxFaults = 1
    None = None
SYMMETRY Symmetry
INVARIANTS HistoryIsSound SignoffsTakeTurns ResetIsAuthorised OutputsAreCurrent PackagesFitHistory ResetKeepsMaterial NeverStuck
CHECK_DEADLOCK FALSE
