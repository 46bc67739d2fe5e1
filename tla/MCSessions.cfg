\* Overlapping requests of two tabs of one browser.
CONSTANTS
    root = root
    staff = staff
    firm = firm
    here = here
    there = there
    t1 = t1
    t2 = t2
    t3 = t3
    Users = {staff}
    Superadmins = {}
    Firms = {}
    Browsers = {here}
    Tabs = {t1, t2}
    BrowserOf <- MCBrowserOf
    MaxTokens = 3
    MaxFaults = 1
    None = None
    Keep = Keep
    Idle = Idle
SPECIFICATION Spec
INVARIANTS
    SessionsTypeOK
    ReuseHasACause
    SpentCookieIsReplaced
