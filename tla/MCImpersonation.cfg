\* One tab in which a super-admin and somebody of a firm take turns.
CONSTANTS
    root = root
    staff = staff
    firm = firm
    here = here
    there = there
    t1 = t1
    t2 = t2
    t3 = t3
    Users = {root, staff}
    Superadmins = {root}
    Firms = {firm}
    Browsers = {here}
    Tabs = {t1}
    BrowserOf <- MCBrowserOf
    MaxTokens = 3
    MaxFaults = 1
    None = None
    Keep = Keep
    Idle = Idle
SPECIFICATION FairSpec
INVARIANTS
    OnlySuperadminsAct
PROPERTIES
    DeadSessionIsNoticed
    StaleMarkerGoes
