SPECIFICATION PipelineSpec
CONSTANTS
    r1 = r1
    r2 = r2
    c1 = c1
    c2 = c2
    t1 = t1
    t2 = t2
    p1 = p1
    p2 = p2
    NoBed = NoBed
    NoReferral = NoReferral
    NoEvent = NoEvent
    NoSource = NoSource
    Empty = Empty
    Malformed = Malformed
    Bed <- OneBed
    BedId <- OneBed
    BedRow <- OneBedRow
    SeedStatus <- Taken
    Referral = {}
    ReferralRow <- NoNeeds
    Consumer = {c1, c2}
    Event <- OneTerminalEvents
    MaxTries = 1
    Faults = {"db_error", "reply_lost", "crash"}
    Message <- OneTerminalMessages
    Terminal = {t1}
    Script <- OneTerminal
    ShelterId = {"s1"}
    Partition = {p1, p2}
    PartitionOf <- OnePartition
    MaxCopies = 2
INVARIANTS
    PipelineTypeOK
    CommittedHandled
    AcceptedApplied
    NothingMadeUp
PROPERTY
    EngineSpec
SYMMETRY Consumers
CHECK_DEADLOCK FALSE
