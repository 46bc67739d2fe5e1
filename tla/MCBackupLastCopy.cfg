\* Sync now while the interval timer's run is under way. Nothing fails.
SPECIFICATION SyncSpec
CONSTANTS
    w1 = w1
    d1 = d1
    MaxSnap = 2
    Workers <- MCWorkers
    Devices <- MCDevices
    Keep = 1
    FullEvery = 30
    Desktop = d1
    Syncs = {1, 2}
    Parts = 2
    AppMayDie = FALSE
INVARIANT SomeCopyRemains
