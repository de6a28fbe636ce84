\* Two sockets, two private keys and two faults of any kind, then recovery.
SPECIFICATION FairSpec
CONSTANTS
    Sockets = {s1, s2}
    Privs = {a, b}
    MaxReconnect = 1
    Foreign = TRUE
    MaxFaults = 2
    Junk = Junk
    NoKey = NoKey
    None = None
CHECK_DEADLOCK FALSE
INVARIANTS
    TypeOK
    KeysAgree
    NoBogusSession
    RebootsHaveCauses
PROPERTIES
    SelfHealing
