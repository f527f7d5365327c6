SPECIFICATION MCSpec
CONSTANTS
    Streams <- MCStreams
    Faulty <- MCRough
    RBUF = 4
    WBUF = 2
    ReadMax = 2
    Gap = 2
    MaxCount = 20
    Content <- MCContent
    Room <- MCRoom
    SECT = 48
    Byte = 20
    MaxHeader = 12
INVARIANTS
    RoomForAll
    RestPacks
    Selected
    Rewritable
PROPERTIES
    ImplementsFilter
