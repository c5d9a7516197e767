SPECIFICATION Spec
CONSTANTS
    m1 = m1
    m2 = m2
    l1 = l1
    l2 = l2
    l3 = l3
    sender = sender
    c1 = c1
    c2 = c2
    Worker = Worker
    Nobody = Nobody
    Mails <- OneMail
    Labels <- ThreeLabels
    Senders <- OneSender
    Sender <- SameSender
    Ruled <- FirstByRule
    Callers <- OneCaller
    OneByOne = TRUE
    LogKept = 1
    MaxCalls = 2
    MaxSwitches = 1
    MaxFaults = 1
CHECK_DEADLOCK FALSE
INVARIANT LogTellsAll
PROPERTY AtMostTwo
PROPERTY OffStaysOff
SYMMETRY LabelSymmetry
