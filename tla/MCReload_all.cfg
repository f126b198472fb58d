SPECIFICATION FairSpec
CONSTANTS
    Names <- TwoNames
    PathSets <- AllOrOne
    MaxRequests = 2
INVARIANTS TypeOK FlagsAreLocks AtMostOne NoOrphans SuccessIsComplete InService HealthCurrent
PROPERTY ReloadEnds
