SPECIFICATION Spec
CONSTANTS
    p1 = p1
    f1 = f1
    Resources = {1, 2, 3}
    Scans = {1, 2}
    Starters = {p1}
    SCAN_BATCH_SIZE = 2
    Facts = {f1}
    MaxEvents = 2
INVARIANTS ScanAccounts
PROPERTIES ScanYields DueServed
CHECK_DEADLOCK FALSE
