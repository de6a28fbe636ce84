\* One socket, messages of two lengths in a buffer of three times the longer.
SPECIFICATION Spec
CONSTANTS
    Sockets = {s1}
    HeaderLen = 4
    Lens = {5, 6}
    BufSize = 18
    Tags = 2
    Garbage = {0, 5, 6}
    MaxWire = 6
    MaxStray = 1
    MaxHolders = 1
    Free = Free
    Junk = Junk
INVARIANTS
    TypeOK
    IntactWhenInFrame
    InFrameInBounds
    NothingHeldBack
