\* Two tabs of one person and an Owner who reassigns and deletes.
CONSTANTS
    ann = ann
    bob = bob
    t1 = t1
    t2 = t2
    People = {ann, bob}
    Tasks = {k1, k2}
    Tabs = {t1, t2}
    PersonOf <- MCPersonOf
    MaxTime = 1
    MaxActs = 3
    None = None
    Gone = Gone
    Error = Error
\* People stop once the bounds are used up and every tab is closed.
CHECK_DEADLOCK FALSE
SPECIFICATION MCSpec
INVARIANTS
    TimersTypeOK
    OneRunningTimer
    NoTimeIsCountedTwice
PROPERTIES
    WidgetIsCorrected
