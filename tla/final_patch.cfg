SPECIFICATION Spec
CONSTANTS
    TableCount   = 5
    HookAddr     = 1168932
    HookFunction = 8388608
    InterimEntry = 8421376
    FinalEntry   = 16773120
    MainHook     = 16893292
INVARIANT
    FinalStubVisible
