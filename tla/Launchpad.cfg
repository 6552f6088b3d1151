SPECIFICATION Spec
CONSTANTS
    Good = Good
    Bad = Bad
    Empty = Empty
    NoApp = NoApp
    EmptyPath = Empty
    Apps <- MCApps
    Loadable <- MCLoadable
    PoolSize = 2
    FdLimit = 3
    ProcLimit = 3
    MaxChannels = 5
    StartLimitBurst = 2
    MaxFaults = 2
INVARIANTS
    TypeOK
    IdleSlotWired
    NoDescriptorLost
    SlotAccounting
    NoOrphanWorker
PROPERTIES
    ImplementsLifecycle
    RefusalIsFinal
    PathIsRead
    ServiceComesBack
CHECK_DEADLOCK FALSE
