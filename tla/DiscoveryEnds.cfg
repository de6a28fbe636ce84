\* A datagram of another program arrives on the port.
SPECIFICATION FairSpec
CONSTANTS
    Sockets = {s1, s2}
    Privs = {a}
    MaxReconnect = 1
    Foreign = TRUE
    MaxFaults = 0
    Junk = Junk
    NoKey = NoKey
    None = None
CHECK_DEADLOCK FALSE
PROPERTIES
    DiscoveryEnds
