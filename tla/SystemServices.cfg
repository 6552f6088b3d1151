SPECIFICATION Spec
CONSTANTS
    c1 = c1
    c2 = c2
    Client = {c1, c2}
    Row <- MCRow
    Default <- MCDefault
    Request <- MCRequest
    Packages <- MCPackages
    StartLimit = 1
    MaxCalls <- MCMaxCalls
    MaxFaults = 2
    MaxChanges = 1
    NoFile = NoFile
    Nobody = Nobody
    Nothing = Nothing
INVARIANTS
    TypeOK
    NoCallIsLost
PROPERTIES
    PoliciesSurvive
    ImplementsBusCalls
    EveryCallEnds
CHECK_DEADLOCK FALSE
