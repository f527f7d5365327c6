SPECIFICATION Spec
CONSTANTS
    Jobs <- MCJobs
    Titles <- MCTitles
    Sizes <- MCSizes
    PartSizes <- MCPartSizes
    Hard <- MCHard
    Names <- MCNames
    Retries = 2
    MaxRuns = 2
INVARIANTS
    NamedIsSynced
    Accounted
    MirrorOwn
PROPERTIES
    Consent
    RipEnds
