\* Two people generate, assign and remove; six sets of terms.
CONSTANTS
    Users = {ann, bob}
    FirstYear = 2021
    LastYear = 2047
    Days <- MCDays
    Terms <- MCTerms
    Horizons = {18}
    MaxActs = 1
    MaxAssigned = 2
    MaxDays = 1
    MaxPause = 800
    Deletable <- MCDeletable
    Idle = Idle
    Never = Never
\* People stop once the bounds are used up.
CHECK_DEADLOCK FALSE
SYMMETRY MCUsers
SPECIFICATION Spec
INVARIANTS
    DeadlinesTypeOK
    OnePerPeriod
    FilingDaysAreRight
    PeriodsLeaveNoGap
    NoPeriodIsLost
