\* Keys 1, 2, 3, *, 0 and #; entries of up to three digits.
SPECIFICATION Spec
CONSTANTS
    Rows = {1, 4}
    MaxLen = 3
    Factory <- MCFactory
    Arguments <- MCArguments
INVARIANTS
    TypeOK
    OpensForPasscodes
PROPERTIES
    VerdictsRight
