SPECIFICATION ManagerSpec
CONSTANTS
    Managers = {m1}
    Clients = {}
    Keys = {k1, k2}
    OwnKey = k1
    Prices = {1, 2}
    Absent = Absent
    Empty = Empty
    HandWritten = HandWritten
    MaxConsents = 2
CHECK_DEADLOCK FALSE
PROPERTY WorkingContractStays
