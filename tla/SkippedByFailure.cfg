SPECIFICATION Spec
CONSTANTS
    r1 = r1
    r2 = r2
    r3 = r3
    c1 = c1
    c2 = c2
    NoBed = NoBed
    NoReferral = NoReferral
    NoEvent = NoEvent
    Bed <- ThreeBeds
    BedId <- ThreeBeds
    BedRow <- ThreeBedRow
    SeedStatus <- FirstTaken
    Referral <- ThreeReferrals
    ReferralRow <- ThreeNeeds
    Consumer = {c1}
    Event <- FirstFreed
    MaxTries = 4
    Faults = {"db_error"}
PROPERTY
    NoJumpAhead
CHECK_DEADLOCK FALSE
