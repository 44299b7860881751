SPECIFICATION LiveSpec
CONSTANTS
    r1 = r1
    r2 = r2
    c1 = c1
    s1 = s1
    s2 = s2
    NoBed = NoBed
    NoReferral = NoReferral
    NoEvent = NoEvent
    NoCount = NoCount
    Bed <- Beds
    BedId <- Beds
    BedRow <- SameRegion
    SeedStatus <- NoneFree
    Referral <- OneReferral
    ReferralRow <- OneNeed
    Consumer = {c1}
    Event <- FirstFreed
    MaxTries = 2
    Faults = {}
    LookupsFail = FALSE
    Subscriber = {s1}
    Filter <- Everything
    Capacity = 2
INVARIANT
    LastUpdateTrue
CHECK_DEADLOCK FALSE
