SPECIFICATION Spec
CONSTANTS
    q1 = q1
    q2 = q2
    q3 = q3
    k1 = k1
    k2 = k2
    Requests = {q1, q2, q3}
    Kinds <- MCKinds
    Config <- MCConfig
    Canonical <- MCCanonical
    Keys = {k1, k2}
    Instances = {1, 2}
    Sizes = {1, 2}
    Slots = 1
INVARIANTS PoolSound Isolation ApprovedOnly NoDuplicate
PROPERTY Answered
CHECK_DEADLOCK FALSE
