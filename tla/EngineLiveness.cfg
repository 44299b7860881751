SPECIFICATION FairSpec
CONSTANTS
    r1 = r1
    r2 = r2
    r3 = r3
    c1 = c1
    c2 = c2
    NoBed = NoBed
    NoReferral = NoReferral
    NoEvent = NoEvent
    Bed <- TwoBeds
    BedId <- KnownAndUnknown
    BedRow <- TwoBedRow
    SeedStatus <- TwoFree
    Referral <- TwoReferrals
    ReferralRow <- TwoNeeds
    Consumer = {c1}
    Event <- StayEvents
    MaxTries = 2
    Faults = {}
PROPERTIES
    SubmitAnswers
    EventsHandled
CHECK_DEADLOCK FALSE
