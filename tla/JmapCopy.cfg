SPECIFICATION Spec
CONSTANTS
    e1 = e1
    e2 = e2
    inbox = inbox
    trash = trash
    c1 = c1
    c2 = c2
    None = None
    Trash = trash
    Mails <- TwoMails
    Boxes <- TwoBoxes
    FirstBoxes <- TwoBoxes
    Old <- Deep
    Calls <- OneCall
    Uses <- Ops
    Elsewhere <- Changes
    Faults = TRUE
    MaxVersion = 2
INVARIANT StillReported
