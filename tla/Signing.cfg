SPECIFICATION Spec
CONSTANTS
    Job = {j1, j2}
    r1 = r1
    r2 = r2
    e1 = e1
    Key = {r1, r2, e1}
    Type <- MCType
    OneShot = {"ed25519"}
    Tasks <- MCTasks
    Chunks = 2
    old = old
    new = new
    Version = {old, new}
    First = old
    MaxRewrites = 2
    Missing = Missing
    Broken = Broken
SYMMETRY MCSymmetry
INVARIANTS
    TypeOK
    NothingIsLeaked
    AnswerIsTrue
    AcceptedWasSigned
    NoStaleSignature
CHECK_DEADLOCK FALSE
