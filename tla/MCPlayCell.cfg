SPECIFICATION Spec
CONSTANTS
    Jobs <- MCJobs
    Scr <- MCScr
    MaxRetries = 1
    BufSecs = 2
    Width = 8
    Stack = {0, 2}
INVARIANTS
    InOrder
    Accounted
    Salvaged
PROPERTIES
    Terminates
