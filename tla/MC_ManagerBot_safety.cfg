SPECIFICATION FairManagerSpec
CONSTANTS
    Managers = {m1, m2}
    Clients = {c1}
    Keys = {k1, k2}
    OwnKey = k1
    Prices = {1, 2}
    Absent = Absent
    Empty = Empty
    HandWritten = HandWritten
    MaxConsents = 2
CHECK_DEADLOCK FALSE
INVARIANT ManagerTypeOK NamedContractsExist OneContractPerConsent
PROPERTY ReplacedOnlyUnseen RunEnds
