SPECIFICATION Spec
CONSTANTS
    Word          = 268435456
    Half          = 16384
    Values       <- MCValues
    Targets      <- MCTargets
    Instructions <- MCInstructions
INVARIANTS
    HalvesRejoin
    BranchReaches
