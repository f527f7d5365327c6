SPECIFICATION Spec
CONSTANTS
    Names      <- MCNames
    Listing    <- MCListing
    Broken     <- MCBroken
    FirstEntry <- MCFirst
    MaxFaults  = 1
    Blocks     <- MCBlocks
    Titles     = 2
    Parts      = 4
    CacheMax   = 3
    Units      = 1
    MaxOffset  = 2
    Slots      = {s1, s2}
    NoSlot     = NoSlot
    s1 = s1
    s2 = s2
SYMMETRY Symmetry
INVARIANTS
    RightPlace
    RightAnswer
    KeyIsOwn
    CopyCovers
