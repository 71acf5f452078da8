SPECIFICATION ClientSpec
CONSTANTS
    c1 = c1
    c2 = c2
    s1 = s1
    Calls = {c1, c2}
    Streams = {s1}
    maxAttempts = 3
INVARIANTS RegistriesAgree
PROPERTY CallSettles
CHECK_DEADLOCK FALSE
