\* One worker and one run of runSync at a time, two snapshots, an app that may
\* die.
SPECIFICATION SyncSpec
CONSTANTS
    w1 = w1
    d1 = d1
    MaxSnap = 2
    Workers <- MCWorkers
    Devices <- MCDevices
    Keep = 1
    FullEvery = 30
    Desktop = d1
    Syncs = {1}
    Parts = 2
    AppMayDie = TRUE
INVARIANTS
    SyncTypeOK
PROPERTIES
    CompleteWhenClaimed
    RunsForgetNothing
