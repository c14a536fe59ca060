SPECIFICATION Spec
CONSTANTS
    Word       = 1073741824
    Exports   <- MCExports
    CodeEnd    = 8652800
    TrampLen   = 2
    SlotSize   = 20
    DestAddr   = 16580608
    FlushLo    = 8388608
    FlushHi    = 16777216
    TextBase   = 33554432
    DataBase   = 268435456
    ImportBase = 805306368
    Reach      = 33554428
    Files     <- AllFiles
INVARIANTS
    TypeOK
    ArenaSafe
    LinkedWherePlaced
    SectionsApart
    EachRelocationOnce
    BranchesArrive
    RplsPinnedOnce
    EntersCoherently
PROPERTY
    Terminates
