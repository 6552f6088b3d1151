SPECIFICATION Spec
CONSTANTS
    Good = Good
    Bad = Bad
    Empty = Empty
    NoApp = NoApp
    EmptyPath = Empty
    Apps <- MCApps
    Loadable <- MCLoadable
    PoolSize = 2
    FdLimit = 4
    ProcLimit = 4
    MaxChannels = 3
    StartLimitBurst = 2
    MaxFaults = 1
PROPERTIES
    PoolIsMaintained
CHECK_DEADLOCK FALSE
