SPECIFICATION FairSpec
CONSTANTS
    d1 = d1
    d2 = d2
    choice = choice
    entry = entry
    signature = signature
    a = a
    b = b
    None = None
    Same = Same
    Devices <- TwoDevices
    Keys <- EntryAndSignature
    Lists <- EntryAndSignature
    Signatures <- JustSignature
    Values <- OneValue
    Weaker <- NothingWeaker
    Refused <- JustEntry
    MaxAttempts = 2
    Starts <- Agreeing
    EarlyEdits = TRUE
    Faults <- AllButLooks
    MaxEdits = 1
    MaxFaults = 1
    MaxQuits = 1
    MaxTroubles = 2
    MaxEvents = 3
    MaxChain = 2
CHECK_DEADLOCK FALSE
PROPERTY Converges
