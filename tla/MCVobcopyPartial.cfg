SPECIFICATION Spec
CONSTANTS
    Jobs <- MCOneJob
    Titles <- MCTitles
    Sizes <- MCSizes
    PartSizes <- MCPartSizes
    Hard <- MCHard
    Names <- MCNames
    Retries = 2
    MaxRuns = 1
INVARIANTS
    PartialStays
