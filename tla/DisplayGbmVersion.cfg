SPECIFICATION Spec
CONSTANTS
    Machines <- MCVersions
    MaxChanges = 1
    MaxLogins = 1
    Retries = 2
    Missing = Missing
    Empty = Empty
    Nothing = Nothing
INVARIANTS
    GbmSince495
CHECK_DEADLOCK FALSE
