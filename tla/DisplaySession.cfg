SPECIFICATION Spec
CONSTANTS
    Machines <- MCMachines
    MaxChanges = 2
    MaxLogins = 2
    Retries = 2
    Missing = Missing
    Empty = Empty
    Nothing = Nothing
INVARIANTS
    TypeOK
    InfoIsCurrent
    FailureHasAReason
    StateFileIsTrue
    TreesAgree
    NoSoftwareRendering
PROPERTIES
    LoginEnds
    EventsAreHandled
CHECK_DEADLOCK FALSE
