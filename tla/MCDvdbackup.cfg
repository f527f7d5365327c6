SPECIFICATION Spec
CONSTANTS
    Parts = 2
    Ends <- MCEnds
    Jobs <- MCJobs
    BufferSize = 3
    MaxVob = 4
    MaxFiles = 4
INVARIANTS
    InPlace
    WholeVobs
    BlocksCopied
PROPERTIES
    Terminates
