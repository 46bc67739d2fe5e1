\* Two workers, three snapshots, one device, the newest snapshot kept.
SPECIFICATION FairSpec
CONSTANTS
    w1 = w1
    w2 = w2
    d1 = d1
    MaxSnap = 3
    Workers <- MCWorkers
    Devices <- MCDevices
    Keep = 1
    FullEvery = 30
INVARIANTS
    TypeOK
    WindowIsWhole
    OnlyConfirmedIsPruned
PROPERTIES
    GoodBackupRemains
    BuildsEnd
