SPECIFICATION Spec
CONSTANTS
    panel = panel
    a1 = a1
    App <- MCApp
    Early <- MCEarly
    Root = Root
    MaxMaps <- MCMaxMaps
INVARIANTS
    TypeOK
    FocusIsActive
PROPERTIES
    ImplementsDesktop
    EveryWindowIsShown
CHECK_DEADLOCK FALSE
