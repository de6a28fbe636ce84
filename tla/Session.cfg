\* Two nodes of the two kinds share two connection slots; the server may restart.
\* Two sessions go on at once with one command and one beacon each, or one session
\* with two commands and two beacons.
SPECIFICATION Spec
CONSTANTS
    Nodes = {lock, noise}
    MainLoopNodes = {noise}
    Conns = {c1, c2}
    Commands = {m1, m2}
    Beacons = {b}
    Modulus <- MCModulus
    Swap <- MCSwap
    Randoms = {0, 3}
    MaxNodeQueue = 2
    MaxRestarts = 1
    None = None
SYMMETRY Symmetry
CONSTRAINT FewWhenParallel
INVARIANTS
    TypeOK
    SessionAgreement
    NoncesInStep
    EveryMessageHandled
    CommandsInOrder
