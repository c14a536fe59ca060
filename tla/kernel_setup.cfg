SPECIFICATION AnySpec
CONSTANTS
    TableCount   = 5
    HookAddr     = 1168932
    HookFunction = 8388608
    InterimEntry = 8421376
    FinalEntry   = 16773120
    MainHook     = 16893292
    ContextWords <- MCContextWords
    Nops         <- MCNops
    FarNops      <- MCFarNops
    Window       = 1048576
    FarWindow    = 917504
    WindowSize   = 131072
INVARIANTS
    TypeOK
    InterimStubVisible
    PageReadyBeforeBranch
    SetupWorksWithAnyTable
    MainHookGone
    HookTransparent
    PatchesLand
