SPECIFICATION EditingSpec
CONSTANTS
    Byte = {"a", "b"}
    Inputs <- SomeInputs
    Blocks <- SomeBlocks
    MaxSize = 5
    TableStrings <- SomeStrings
    Types = {2, 6}
    Offsets = {4}
    Addends <- Down
    Callback = TRUE
    MaxSymbols = 4
    MaxEntries = 1
    MaxFailures = 1
    Sections <- SomeSections
    DynamicEntries <- SomeEntries
    Names = {"liba", "libb"}
    MaxWords = 6
    Lower <- ToLower
    Room = 4
    StringCalls <- SomeCalls
INVARIANTS
    EditingStaysInside
    TablesKeepLinks
    DynamicReadsBack
    StringsAsSpecified
PROPERTIES
    HoldsTheBytes
    EditingEnds
