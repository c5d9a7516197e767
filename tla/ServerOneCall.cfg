SPECIFICATION Spec
CONSTANTS
    m1 = m1
    m2 = m2
    s1 = s1
    s2 = s2
    s3 = s3
    c1 = c1
    c2 = c2
    Mails <- TwoMails
    Subs <- ThreeSubs
    Calls <- OneCall
    Uses <- Ops
    Faults <- FaultKinds
    Crashes = TRUE
CHECK_DEADLOCK FALSE
INVARIANT NeverTwice
INVARIANT ToldScheduledWillGo
INVARIANT StoppedNeverGoes
INVARIANT PutAwayNeverGoes
INVARIANT UnsentIsTold
