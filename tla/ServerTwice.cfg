SPECIFICATION Spec
CONSTANTS
    m1 = m1
    m2 = m2
    s1 = s1
    s2 = s2
    s3 = s3
    c1 = c1
    c2 = c2
    Mails <- OneMail
    Subs <- ThreeSubs
    Calls <- TwoCalls
    Uses <- Ops
    Faults <- NoLateOnes
    Crashes = FALSE
CHECK_DEADLOCK FALSE
INVARIANT NeverTwice
