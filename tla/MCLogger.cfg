SPECIFICATION LogSpec
CONSTANTS
    a = a
    b = b
    a1 = a1
    a2 = a2
    b1 = b1
    Instances = {a, b}
    Threads = {a1, a2, b1}
    InstanceOf <- MCInstanceOf
    Home <- MCHome
    Temp = "temp"
    MaxLines = 1
    Typists = {a}
    MaxKeys = 2
    Nobody = Nobody
INVARIANTS
    LossHasReasons
    RowIsTheInput
CHECK_DEADLOCK FALSE
