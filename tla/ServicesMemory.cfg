SPECIFICATION Spec
CONSTANTS
    c1 = c1
    c2 = c2
    Client = {c1, c2}
    Row <- MCRow
    Default <- MCDefault
    Request <- MCRequest
    Packages <- MCPackages
    StartLimit = 1
    MaxCalls <- MCMaxCalls
    MaxFaults = 0
    MaxChanges = 2
    NoFile = NoFile
    Nobody = Nobody
    Nothing = Nothing
INVARIANT
    InternetByDefault
CHECK_DEADLOCK FALSE
