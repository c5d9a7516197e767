SPECIFICATION Spec
CONSTANTS
    m1 = m1
    m2 = m2
    w1 = w1
    w2 = w2
    Mails <- Both
    Laters <- Only2
    Keyed <- NoMails
    Unreadable <- Only2
    Windows <- OneWindow
    RetryWaits <- OneRetry
    MinAhead = 1
    MaxDelay = 1
    UndoDelay = 1
    MaxNap = 1
    MaxScheduled = 1
    DiskErrors = TRUE
INVARIANT NothingLost
INVARIANT GoesOnlyIfAsked
PROPERTY TakenBackNeverGoes
