\* One smart lock, one slot and three commands: the command queue over several
\* sessions and a restart.
SPECIFICATION FairSpec
CONSTANTS
    Nodes = {lock}
    MainLoopNodes = {}
    Conns = {c1}
    Commands = {m1, m2, m3}
    Beacons = {b}
    Modulus <- MCModulus
    Swap <- MCSwap
    Randoms = {0, 3}
    MaxNodeQueue = 1
    MaxRestarts = 1
    None = None
INVARIANTS
    SentOrQueued
    QueueSuffixes
PROPERTIES
    NodeCycleEnds
    QueuedEventuallyTaken
    ImplementsDelivery
