\* Two devices, the second of which makes the list grow.
SPECIFICATION FairSpec
CONSTANTS
    MaxDevices = 2
    Increment = 1
    MaxBeacons = 2
    MaxInFlight = 2
INVARIANTS
    TypeOK
    ReportAges
    ReportComplete
    CredentialsOnce
    ViewsAgree
    ReportsOnRequest
PROPERTIES
    Authenticates
