SPECIFICATION Spec
CONSTANTS
    n1 = n1  n2 = n2
    None = None
    Recovery = Recovery
    Tx = {1, 2, 3}
    Namespace = {n1, n2}
    nsOf <- OneNamespace
    MaxHits = 1
INVARIANTS DoneIsDurable ArtifactInvariant
PROPERTIES ImplementsConditionalPublish NeverRepublished RecoveryIsComplete RefusesOnlyOvertaken
CHECK_DEADLOCK FALSE
