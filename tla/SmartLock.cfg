\* A timer queue in which the three commands of a correct passcode just fit.
\* The interrupts are bounded, so the lock may come to rest.
SPECIFICATION FairSpec
CONSTANTS
    QueueLength = 3
    MaxInterrupts = 4
INVARIANTS
    TypeOK
    OutputsGuarded
    StatesFollow
    FlagsMatchTimers
PROPERTIES
    KeypadComesBack
CHECK_DEADLOCK FALSE
