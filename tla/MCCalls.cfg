\* One call between the four kinds of people, created by the owner.
CONSTANTS
    owner = owner
    staff = staff
    client = client
    platform = platform
    firm = firm
    acme = acme
    NoTenant = NoTenant
    NoClient = NoClient
    Profiles <- MCProfiles
    Profile <- MCProfile
    AssignedStaff <- MCAssignedStaff
    Caller = owner
SPECIFICATION FairSpec
INVARIANTS
    TypeOK
    SomebodyHasNotDeclined
    SettledHasNoInvitation
    EmptiedOnlyByRemoval
PROPERTIES
    KeepsPromise
    RingingStops
