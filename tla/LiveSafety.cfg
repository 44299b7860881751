SPECIFICATION LiveSpec
CONSTANTS
    r1 = r1
    r2 = r2
    c1 = c1
    s1 = s1
    s2 = s2
    NoBed = NoBed
    NoReferral = NoReferral
    NoEvent = NoEvent
    NoCount = NoCount
    Bed <- Beds
    BedId <- Beds
    BedRow <- TwoRegions
    SeedStatus <- OneFree
    Referral <- TwoReferrals
    ReferralRow <- TwoNeeds
    Consumer = {c1}
    Event <- BothReported
    MaxTries = 1
    Faults = {"db_error", "reply_lost", "crash"}
    LookupsFail = TRUE
    Subscriber = {s1, s2}
    Filter <- SouthOnly
    Capacity = 1
INVARIANTS
    LiveTypeOK
    LagLosesOldest
PROPERTY
    EngineUndisturbed
CHECK_DEADLOCK FALSE
