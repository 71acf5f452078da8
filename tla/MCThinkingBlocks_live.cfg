SPECIFICATION Spec
CONSTANTS
    k1 = k1
    r1 = r1
    r2 = r2
    c1 = c1
    c2 = c2
    c3 = c3
    Keys = {k1}
    Artifacts = {1}
    KeyOf <- MCKeyOf
    Runners = {r1}
    Callers = {c1, c2, c3}
    Parallelism = 1
    MAX_OPERATIONAL_RUNS = 2
    MaxAttempts = 1
    MayCrash = TRUE
PROPERTY Served
CHECK_DEADLOCK FALSE
