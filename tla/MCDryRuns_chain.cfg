SPECIFICATION Spec
CONSTANTS
    i1 = i1
    i2 = i2
    i3 = i3
    Items = {i1, i2, i3}
    DependsOn <- Chain
    Live = {i1}
    MaxEdits = 3
    MaxRetries = 1
INVARIANTS PendingOwned 
PROPERTY Settles
CHECK_DEADLOCK FALSE
