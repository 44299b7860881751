SPECIFICATION RememberingSpec
CONSTANTS
    r1 = r1
    r2 = r2
    r3 = r3
    c1 = c1
    c2 = c2
    NoBed = NoBed
    NoReferral = NoReferral
    NoEvent = NoEvent
    Bed <- ThreeBeds
    BedId <- ThreeBeds
    BedRow <- ThreeBedRow
    SeedStatus <- FirstTaken
    Referral <- ThreeReferrals
    ReferralRow <- TiedNeeds
    Consumer = {c1}
    Event <- FirstAndThirdFreed
    MaxTries = 2
    Faults = {"db_error", "reply_lost"}
INVARIANTS
    NoStrandedBed
    PendingAnswerFinal
PROPERTY
    PriorityKept
SYMMETRY Tied
CHECK_DEADLOCK FALSE
