SPECIFICATION Spec
CONSTANTS
    m1 = m1
    m2 = m2
    w1 = w1
    w2 = w2
    Mails <- Only1
    Laters <- Only1
    Keyed <- Only1
    Unreadable <- NoMails
    Windows <- OneWindow
    RetryWaits <- OneRetry
    MinAhead = 1
    MaxDelay = 1
    UndoDelay = 1
    MaxNap = 1
    MaxScheduled = 1
    DiskErrors = FALSE
INVARIANT
    NothingLost
