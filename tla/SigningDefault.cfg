SPECIFICATION Spec
CONSTANTS
    Job = {j1, j2}
    r1 = r1
    r2 = r2
    e1 = e1
    Key = {r1, r2, e1}
    Type <- MCType
    OneShot = {"ed25519"}
    Tasks <- Ed25519Tasks
    Chunks = 1
    old = old
    new = new
    Version = {old, new}
    First = old
    MaxRewrites = 0
    Missing = Missing
    Broken = Broken
INVARIANT DefaultKeySigns
CHECK_DEADLOCK FALSE
