SPECIFICATION Spec
CONSTANTS
    Retries = 2
    MaxCrashes = 2
INVARIANT
    SeedFindsSchema
PROPERTIES
    FailuresShow
    ServesInTheEnd
