SPECIFICATION Spec
CONSTANTS
    Sda = Sda
    Sdb = Sdb
    Disks <- MCDisks
    DefaultDisk = Sda
    Earlier <- MCEarlier
    NoDisk = NoDisk
    Live = Live
    MaxLaunches = 1
    MaxFaults = 0
    MaxOthers = 2
PROPERTIES
    
    RebootOnlyWhenFinished
    
CHECK_DEADLOCK FALSE
