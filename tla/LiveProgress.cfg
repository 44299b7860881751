SPECIFICATION FairLosslessSpec
CONSTANTS
    r1 = r1
    r2 = r2
    c1 = c1
    s1 = s1
    s2 = s2
    NoBed = NoBed
    NoReferral = NoReferral
    NoEvent = NoEvent
    NoCount = NoCount
    Bed <- Beds
    BedId <- Beds
    BedRow <- SameRegion
    SeedStatus <- OneFree
    Referral <- TwoReferrals
    ReferralRow <- TwoNeeds
    Consumer = {c1}
    Event <- SecondFreed
    MaxTries = 2
    Faults = {"db_error"}
    LookupsFail = FALSE
    Subscriber = {s1}
    Filter <- Everything
    Capacity = 1
INVARIANT
    ChangesAnnounced
PROPERTY
    UpdatesGoOut
CHECK_DEADLOCK FALSE
