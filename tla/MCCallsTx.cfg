\* Interleaved requests of three people in one call.
CONSTANTS
    owner = owner
    staff = staff
    client = client
    firm = firm
    acme = acme
    NoTenant = NoTenant
    NoClient = NoClient
    Keep = Keep
    Idle = Idle
    MaxInFlight = 2
    Profiles <- MCProfiles
    Profile <- MCProfile
    AssignedStaff <- MCAssignedStaff
    Caller = owner
SPECIFICATION TxFairSpec
INVARIANTS
    TxTypeOK
PROPERTIES
    RingingStops
    UnansweredIsFinal
