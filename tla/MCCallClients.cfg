\* One call between two people, with their pages.
CONSTANTS
    owner = owner
    staff = staff
    firm = firm
    NoTenant = NoTenant
    NoClient = NoClient
    NoPoll = NoPoll
    Profiles <- MCProfiles
    Profile <- MCProfile
    AssignedStaff <- MCAssignedStaff
    Caller = owner
    MaxFaults = 1
SPECIFICATION FairClients
INVARIANTS
    ClientsTypeOK
    JoinedHasWindow
PROPERTIES
    RingIsShown
    RingGoes
