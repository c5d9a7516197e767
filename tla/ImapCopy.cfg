SPECIFICATION Spec
CONSTANTS
    m1 = m1
    m2 = m2
    inbox = inbox
    trash = trash
    c1 = c1
    c2 = c2
    r1 = r1
    r2 = r2
    r3 = r3
    None = None
    Inbox = inbox
    Trash = trash
    Mails <- TwoMails
    Early <- AllOrNone
    Large <- JustSecond
    Rows <- ThreeRows
    Calls <- OneCall
    Uses <- Ops
    Elsewhere <- Changes
    Faults = TRUE
    CanMove = {TRUE, FALSE}
    UidPlus = {TRUE, FALSE}
    Window = 1
    MaxUid = 3
    MaxValidity = 2
    MaxEvents = 3
SYMMETRY RowIds
INVARIANT UidNames
INVARIANT NothingElseSkipped
PROPERTY DestroysWhatWasAsked
