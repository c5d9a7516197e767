SPECIFICATION Spec
CONSTANTS
    d1 = d1
    d2 = d2
    choice = choice
    entry = entry
    signature = signature
    a = a
    b = b
    None = None
    Same = Same
    Devices <- TwoDevices
    Keys <- ChoiceAndEntry
    Lists <- JustEntry
    Signatures <- NoKeys
    Values <- TwoChoices
    Weaker <- BWeakens
    Refused <- NoKeys
    MaxAttempts = 2
    Starts <- AnyAgree
    EarlyEdits = FALSE
    Faults <- AnswersAndLooks
    MaxEdits = 2
    MaxFaults = 1
    MaxQuits = 1
    MaxTroubles = 1
    MaxEvents = 3
    MaxChain = 1
CHECK_DEADLOCK FALSE
SYMMETRY DeviceSymmetry
PROPERTY KeepsWhatChangedHere
PROPERTY WritesAreOwed
PROPERTY NothingVanishes
PROPERTY NeverWeakened
