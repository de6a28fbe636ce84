\* The comment quoted at ClosesAfterReceivingAll in Session.
SPECIFICATION Spec
CONSTANTS
    Nodes = {lock}
    MainLoopNodes = {}
    Conns = {c1}
    Commands = {m1, m2}
    Beacons = {b}
    Modulus <- MCModulus
    Swap <- MCSwap
    Randoms = {0, 3}
    MaxNodeQueue = 1
    MaxRestarts = 0
    None = None
PROPERTY ClosesAfterReceivingAll
