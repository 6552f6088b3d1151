SPECIFICATION Spec
CONSTANTS
    Sda = Sda
    Sdb = Sdb
    Disks <- MCDisks
    DefaultDisk = Sda
    Earlier <- MCEarlier
    NoDisk = NoDisk
    Live = Live
    MaxLaunches = 2
    MaxFaults = 1
    MaxOthers = 0
INVARIANTS
    TypeOK
    CleanRunInstalls
PROPERTIES
    OnlyTheConfirmedDiskIsErased
    LiveSystemIsSpared
    ImplementsInstallation
    InstallationEnds
CHECK_DEADLOCK FALSE
