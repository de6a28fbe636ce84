\* Two sockets and one holder that they come to share.
SPECIFICATION Spec
CONSTANTS
    Sockets = {s1, s2}
    HeaderLen = 2
    Lens = {3}
    BufSize = 10
    Tags = 2
    Garbage = {0, 3}
    MaxWire = 3
    MaxStray = 1
    MaxHolders = 1
    Free = Free
    Junk = Junk
INVARIANTS
    IntactWhenInFrame
SYMMETRY SocketSymmetry
