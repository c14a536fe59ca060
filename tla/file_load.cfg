SPECIFICATION Spec
CONSTANTS
    Word      = 131072
    FileSizes = {0, 1, 5, 7, 8, 20, 80000, 131068, 131069, 131071}
    HeapFree  = 16
    BlockSize = 3
    Align     = 4
INVARIANT
    ReadsInPlace
PROPERTIES
    Returns
    AllOrNothing
