SPECIFICATION FairSpec
CONSTANTS
    m1 = m1
    m2 = m2
    w1 = w1
    w2 = w2
    Mails <- Only1
    Laters <- Only1
    Keyed <- Only1
    Unreadable <- NoMails
    Windows <- OneWindow
    RetryWaits <- TwoRetries
    MinAhead = 1
    MaxDelay = 2
    UndoDelay = 1
    MaxNap = 1
    MaxScheduled = 1
    DiskErrors = FALSE
INVARIANT TypeOK
INVARIANT DeliveryOwnsRow
INVARIANT NoOrphanClaim
INVARIANT NothingElseLost
INVARIANT SleepsNoLonger
PROPERTY NeverTwiceUnasked
INVARIANT KeepsOnlyUnsent
PROPERTY KeepsPromise
PROPERTY DueIsClaimed
PROPERTY ClaimsEnd
INVARIANT TakenBackOrSent
