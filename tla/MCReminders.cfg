\* A scheduled sweep and the super-admin's, over two firms.
CONSTANTS
    f1 = f1
    f2 = f2
    i1 = i1
    i2 = i2
    worker = worker
    spare = spare
    admin = admin
    owner = owner
    Firms = {f1, f2}
    Items = {i1, i2}
    FirmOf <- MCFirmOf
    Ladder = {0}
    Overdue <- MCOverdue
    FirstDue = 0
    Sweepers = {worker, admin}
    KindOf <- MCKindOf
    BadFirms = {}
    MaxDay = 1
    MaxActs = 1
    NoRung = NoRung
    Idle = Idle
SPECIFICATION FairSpec
INVARIANTS
    RemindersTypeOK
    MailedOnce
    CrossedIsStored
PROPERTIES
    SweepsEnd
