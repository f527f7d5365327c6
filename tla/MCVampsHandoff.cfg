SPECIFICATION HandoffSpec
CONSTANTS
    Lens <- MCLens
    Headers <- MCHeaders
    Peek = 8
    Sentinel = 3
    MaxGops = 3
INVARIANTS
    BuffersExclusive
PROPERTIES
    ReplyIsOurs
    ImplementsCall
