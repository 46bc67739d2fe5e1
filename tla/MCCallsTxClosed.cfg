\* A stale read lets a request reopen a call that another one closed.
CONSTANTS
    owner = owner
    staff = staff
    client = client
    firm = firm
    acme = acme
    NoTenant = NoTenant
    NoClient = NoClient
    Keep = Keep
    Idle = Idle
    MaxInFlight = 2
    Profiles <- MCProfiles
    Profile <- MCProfile
    AssignedStaff <- MCAssignedStaff
    Caller = owner
SPECIFICATION TxSpec
PROPERTY ClosedStaysClosed
