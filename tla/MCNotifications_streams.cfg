SPECIFICATION Spec
CONSTANTS
    w1 = w1
    v1 = v1
    Watchers = {w1}
    Views = {v1}
    Last = 3
    maxBuffered = 1
    MaxConnects = 2
INVARIANTS ListenHeld ViewFresh
PROPERTIES CloseReaches
CHECK_DEADLOCK FALSE
