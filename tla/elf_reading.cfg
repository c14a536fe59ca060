SPECIFICATION ReadingSpec
CONSTANTS
    IdentSize = 16
    EhdrSize <- SizeOfEhdr
    ShdrSize <- SizeOfShdr
    PhdrSize <- SizeOfPhdr
    WordMax = 1023
    XwordMax = 4095
    Images <- Files
INVARIANTS
    ReadingStaysInside
    SectionsStandAlone
    LookupsAgree
    RecordsReadBack
PROPERTIES
    LoadsWhole
    ReadingEnds
