SPECIFICATION FairPipelineSpec
CONSTANTS
    r1 = r1
    r2 = r2
    c1 = c1
    c2 = c2
    t1 = t1
    t2 = t2
    p1 = p1
    p2 = p2
    NoBed = NoBed
    NoReferral = NoReferral
    NoEvent = NoEvent
    NoSource = NoSource
    Empty = Empty
    Malformed = Malformed
    Bed <- OneBed
    BedId <- OneBed
    BedRow <- OneBedRow
    SeedStatus <- Taken
    Referral <- OneReferral
    ReferralRow <- OneNeed
    Consumer = {c1}
    Event <- PoisonThenFreeEvents
    MaxTries = 2
    Faults = {"db_error", "crash"}
    Message <- PoisonThenFreeMessages
    Terminal = {t1}
    Script <- PoisonThenFree
    ShelterId = {"s1"}
    Partition = {p1}
    PartitionOf <- OnePartition
    MaxCopies = 2
INVARIANT
    FreedBedServed
PROPERTY
    AcceptedTakesEffect
CHECK_DEADLOCK FALSE
