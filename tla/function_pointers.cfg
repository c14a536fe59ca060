SPECIFICATION Spec
CONSTANTS
    Libraries     <- MCLibraries
    ImportsOf     <- MCImportsOf
    HeapFunctions <- MCHeapFunctions
    Firmwares     <- MCFirmwares
INVARIANTS
    PointersFound
    MissingFunctionIsReported
