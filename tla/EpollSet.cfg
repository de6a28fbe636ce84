\* Two nodes and a user on the LAN share two descriptors.
SPECIFICATION FairSpec
CONSTANTS
    NodeConns = {n1, n2}
    LanConns = {u}
    Fds = {f1, f2}
    None = None
INVARIANTS
    TypeOK
    BacklogAccounted
    InfosMatchSockets
    EventsCurrent
PROPERTIES
    NodesAccepted
CHECK_DEADLOCK FALSE
