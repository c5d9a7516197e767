SPECIFICATION Spec
CONSTANTS
    m = m
    s = s
    t = t
    c1 = c1
    c2 = c2
    c3 = c3
    Main = m
    Shared <- OneShared
    None = None
    Calls <- TwoCalls
    Uses <- AllUses
    Faults = TRUE
    MaxGrants = 3
    MaxTurns = 1
SYMMETRY CallSymmetry
CHECK_DEADLOCK FALSE
INVARIANT TypeOK
INVARIANT NewestIsKept
INVARIANT RedeemsNewest
INVARIANT EachOpens
INVARIANT CalendarsUseSaved
PROPERTY ReplacesWhatItRedeemed
