SPECIFICATION Spec
CONSTANTS
    Contents <- MCContents
    Discs <- MCDiscs
    MaxCalls = 2
    MaxSrps = 3
INVARIANTS RefsCounted OpensRight
CHECK_DEADLOCK FALSE
